------------------------------- MODULE Backup -------------------------------
(***************************************************************************)
(* The backup writer of the delta store (deltas/backup.py): the hourly     *)
(* cycle with its tripwire, the rotation, the quarantine, and the          *)
(* operator's acknowledgement.                                             *)
(*                                                                         *)
(* Between two awaits the code runs undisturbed: the cycle stops at the    *)
(* count, at pg_dump and at the report; the acknowledgement at its count.  *)
(* A dump is known by its number, which stands for its time, and by the    *)
(* count of rows the cycle took before it; the lake holds whatever number  *)
(* a count returns.                                                        *)
(***************************************************************************)
EXTENDS Integers, FiniteSets

CONSTANTS
  Counts,    \* the numbers of rows the lake may hold
  Retain,    \* RETAIN
  WarnAt,    \* WARN_RATIO and
  LockAt,    \*   LOCKDOWN_RATIO, in thousandths
  MaxDumps,  \* bound: dumps taken
  MaxMishaps \* bound: dumps or reports that fail, restarts

ASSUME BackupAssumption == Counts \subseteq Nat /\ {Retain, WarnAt, LockAt, MaxDumps, MaxMishaps} \subseteq Nat

VARIABLES
  file,      \* .state.json
  rotation,  \* deltas-*.sql.gz at the top level
  quarantine,\* the same in quarantine/
  cycle,     \* the backup task
  ack,       \* an acknowledgement under way
  dumps,     \* dumps taken so far (bounds the model)
  acked,     \* history: the newest dump when an acknowledgement began or ended
  mishaps,   \* things gone wrong so far (bounds the environment)
  crossed    \* history: has a crash or a stale write cost the state file an entry?

backupVars == <<file, rotation, quarantine, cycle, ack, dumps, acked, mishaps, crossed>>

Dumps == [at : 1..MaxDumps, rows : Counts]
FreshFile == [locked |-> FALSE, good |-> 0, baseline |-> 0]
Rest == [pc |-> "rest", state |-> FreshFile, rows |-> 0]
NoAck == [on |-> FALSE, state |-> FreshFile]

BackupInit ==
  /\ file = FreshFile /\ rotation = {} /\ quarantine = {}
  /\ cycle = Rest /\ ack = NoAck
  /\ dumps = 0 /\ acked = 0
  /\ mishaps = 0 /\ crossed = FALSE

Mishap == mishaps < MaxMishaps /\ mishaps' = mishaps + 1

Shrink(rows, baseline) == IF rows < baseline THEN (baseline - rows) * 1000 ELSE 0

\* Variant: the size floor is checked alone.
ClassifyBySize(stub, rows, baseline) ==
  IF baseline > 0 /\ stub THEN "lockdown"
  ELSE IF Shrink(rows, baseline) >= WarnAt * baseline THEN "warning" ELSE "healthy"

\* _classify(): a first dump always passes; then a dump must have a size and
\* the lake must not have lost too many of its rows.
Classify(stub, rows, baseline) ==
  CASE baseline = 0 -> "healthy"
    [] baseline > 0 /\ (stub \/ Shrink(rows, baseline) >= LockAt * baseline) -> "lockdown"
    [] OTHER -> IF Shrink(rows, baseline) >= WarnAt * baseline THEN "warning" ELSE "healthy"

\* Variant: the oldest dumps are kept.
KeepNewestWrong(files) == {d \in files : Cardinality({e \in files : e.at < d.at}) < Retain + 1}

\* _rotate(RETAIN + 1)
KeepNewest(files) == {d \in files : Cardinality({e \in files : e.at > d.at}) < Retain + 1}

-----------------------------------------------------------------------------
\* run_cycle() reads the state file.  The count of an acknowledgement does not
\* take as long as the interval between cycles.
CycleStarts ==
  /\ cycle.pc = "rest" /\ ~ack.on /\ dumps < MaxDumps
  /\ cycle' = [Rest EXCEPT !.pc = "count", !.state = file]
  /\ UNCHANGED <<file, rotation, quarantine, ack, dumps, acked, mishaps, crossed>>

CycleCounts ==
  /\ cycle.pc = "count"
  /\ \E n \in Counts : cycle' = [cycle EXCEPT !.pc = "dump", !.rows = n]
  /\ UNCHANGED <<file, rotation, quarantine, ack, dumps, acked, mishaps, crossed>>

\* save_state(): the whole file, whatever has become of it since it was read.
Save(state) ==
  /\ file' = state
  /\ crossed' = (crossed \/ cycle.state # file)

\* pg_dump fails: the state is written back as it was read.
DumpFails ==
  /\ cycle.pc = "dump"
  /\ Mishap
  /\ Save(cycle.state)
  /\ cycle' = Rest
  /\ UNCHANGED <<rotation, quarantine, ack, dumps, acked>>

ThisDump == [at |-> dumps + 1, rows |-> cycle.rows]

\* A dump that trips the wire goes into quarantine and rotation halts.
Quarantined ==
  /\ Save([cycle.state EXCEPT !.locked = TRUE])
  /\ quarantine' = quarantine \cup {ThisDump}
  /\ cycle' = [Rest EXCEPT !.pc = "report"]
  /\ UNCHANGED rotation

\* Any other is promoted and is the new baseline; a warning is reported.
Promoted(tier) ==
  /\ Save([locked |-> FALSE, good |-> dumps + 1, baseline |-> cycle.rows])
  /\ rotation' = KeepNewest(rotation \cup {ThisDump})
  /\ cycle' = IF tier = "warning" THEN [Rest EXCEPT !.pc = "report"] ELSE Rest
  /\ UNCHANGED quarantine

DumpEnds(stub) ==
  /\ cycle.pc = "dump"
  /\ LET tier == Classify(stub, cycle.rows, cycle.state.baseline)
     IN  IF tier = "lockdown" THEN Quarantined ELSE Promoted(tier)
  /\ dumps' = dumps + 1
  /\ UNCHANGED <<ack, acked, mishaps>>

\* The store dies between the move of the dump and the state file.
DumpEndsInCrash(stub) ==
  /\ cycle.pc = "dump"
  /\ Mishap
  /\ IF Classify(stub, cycle.rows, cycle.state.baseline) = "lockdown"
     THEN quarantine' = quarantine \cup {ThisDump} /\ UNCHANGED rotation
     ELSE rotation' = rotation \cup {ThisDump} /\ UNCHANGED quarantine
  /\ dumps' = dumps + 1 /\ crossed' = TRUE
  /\ cycle' = Rest /\ ack' = NoAck
  /\ UNCHANGED <<file, acked>>

\* _write_delta_safe(): the blocker or the observation, best effort.
Report ==
  /\ cycle.pc = "report"
  /\ cycle' = Rest
  /\ UNCHANGED <<file, rotation, quarantine, ack, dumps, acked, mishaps, crossed>>

-----------------------------------------------------------------------------
Newest(files) == CHOOSE d \in files : \A e \in files : e.at <= d.at

\* Variant: the dump is copied into the rotation.
LeaveAsItIs(files, d) == files

\* The dump is moved into the rotation.
Leave(files, d) == files \ {d}

\* ack() reads the state, refuses unless it is locked, and promotes the newest
\* dump of the quarantine.
AckStarts ==
  /\ ~ack.on /\ file.locked
  /\ IF quarantine = {}
     THEN ack' = [on |-> TRUE, state |-> file] /\ UNCHANGED <<rotation, quarantine>>
     ELSE LET picked == Newest(quarantine)
          IN  /\ rotation' = rotation \cup {picked}
              /\ quarantine' = Leave(quarantine, picked)
              /\ ack' = [on |-> TRUE, state |-> [file EXCEPT !.good = picked.at]]
  /\ acked' = dumps
  /\ UNCHANGED <<file, cycle, dumps, mishaps, crossed>>

\* Then it counts, re-anchors the baseline, and may empty the quarantine.
AckEnds(discard) ==
  /\ ack.on
  /\ crossed' = (crossed \/ [file EXCEPT !.good = 0] # [ack.state EXCEPT !.good = 0])
  /\ \E n \in Counts : file' = [ack.state EXCEPT !.locked = FALSE, !.baseline = n]
  /\ rotation' = KeepNewest(rotation)
  /\ quarantine' = IF discard THEN {} ELSE quarantine
  /\ ack' = NoAck /\ acked' = dumps
  /\ UNCHANGED <<cycle, dumps, mishaps>>

BackupRestart ==
  /\ cycle # Rest \/ ack # NoAck
  /\ Mishap
  /\ crossed' = (crossed \/ ack.on)
  /\ cycle' = Rest /\ ack' = NoAck
  /\ UNCHANGED <<file, rotation, quarantine, dumps, acked>>

Cycle == CycleStarts \/ CycleCounts \/ DumpEnds(TRUE) \/ DumpEnds(FALSE) \/ Report
Ack == AckStarts \/ AckEnds(TRUE) \/ AckEnds(FALSE)
Mishaps == DumpFails \/ DumpEndsInCrash(TRUE) \/ DumpEndsInCrash(FALSE) \/ BackupRestart
BackupNext == Cycle \/ Ack \/ Mishaps

BackupSpec == BackupInit /\ [][BackupNext]_backupVars
-----------------------------------------------------------------------------
FileStates == [locked : BOOLEAN, good : 0..MaxDumps, baseline : Counts \cup {0}]

\* Every variable has its type, and no dump is in two places.
BackupTypeOK ==
  /\ file \in FileStates
  /\ rotation \subseteq Dumps /\ quarantine \subseteq Dumps
  /\ \A d, e \in rotation \cup quarantine : d.at = e.at => d = e
  /\ rotation \cap quarantine = {}
  /\ cycle \in [pc : {"rest", "count", "dump", "report"}, state : FileStates,
                rows : Counts \cup {0}]
  /\ ack \in [on : BOOLEAN, state : FileStates]
  /\ dumps \in 0..MaxDumps /\ crossed \in BOOLEAN
  /\ acked \in 0..MaxDumps /\ mishaps \in 0..MaxMishaps

\* The dump that the state file names as the last good one is there to be
\* restored: no rotation, quarantine or acknowledgement removes it, as long as
\* no crash and no crossing of a cycle and an acknowledgement keeps a dump out
\* of the state file.
LastGoodIsKept == (file.good # 0 /\ ~crossed) => \E d \in rotation : d.at = file.good

\* A dump enters the rotation after one with many more rows only if the
\* operator has acknowledged the loss in between; the same proviso.
NoGreatLossUnacknowledged ==
  \A d, e \in rotation :
    (/\ d.at < e.at /\ ~\E x \in rotation : d.at < x.at /\ x.at < e.at
     /\ acked < d.at /\ d.rows > 0 /\ ~crossed)
      => Shrink(e.rows, d.rows) < LockAt * d.rows

\* Only an acknowledgement ends a lockdown.
LockdownIsSticky == [][(file.locked /\ ~file'.locked) => Ack]_backupVars
=============================================================================
