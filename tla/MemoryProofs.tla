---------------------------- MODULE MemoryProofs ----------------------------
(* Proofs about what is kept and what is found again.                        *)
(*                                                                           *)
(* The backup writer, for every set of counts, every number of dumps that    *)
(* are kept, both thresholds and any number of dumps, crashes and restarts:  *)
(* the last good dump stays, and a great loss of rows between two dumps of   *)
(* the rotation has been acknowledged.                                       *)
(*                                                                           *)
(* A recall, for any number of calls, plans, rows, failed reads and limits:  *)
(* what is shown is shown once, with the summaries above it.  A standpoint,  *)
(* for all windows and limits: what was refuted is not told, what is current *)
(* is.                                                                       *)
(*                                                                           *)
(* A summary, whatever groups the model returns and whatever is lost: it is  *)
(* drafted once, of what was pulled, and averaged over the moments below it. *)
(* A timeline, for any tables, limits and seeds, and whatever is written or  *)
(* expires meanwhile: every anchor is seen in one strip, strips are apart,   *)
(* and a hole in one is where two windows were joined.                       *)
EXTENDS Backup, Standpoint, Timelines, FiniteSetTheorems, SequenceTheorems, WellFoundedInduction, TLAPS

DumpCounts == 0..MaxDumps
CycleStates == [pc : {"rest", "count", "dump", "report"}, state : FileStates, rows : Counts \cup {0}]
AckStates == [on : BOOLEAN, state : FileStates]

\* Every dump in a directory has been taken, and its number is its own.
BackupTypes ==
  /\ file \in FileStates
  /\ rotation \subseteq Dumps /\ quarantine \subseteq Dumps
  /\ cycle \in CycleStates /\ ack \in AckStates
  /\ dumps \in 0..MaxDumps /\ acked \in 0..MaxDumps /\ mishaps \in 0..MaxMishaps /\ crossed \in BOOLEAN
DumpsAreTaken ==
  /\ IsFiniteSet(rotation) /\ IsFiniteSet(quarantine)
  /\ \A d \in rotation \cup quarantine : d.at <= dumps
  /\ \A d, e \in rotation \cup quarantine : d.at = e.at => d = e
  /\ rotation \cap quarantine = {}
  /\ acked <= dumps
  /\ cycle.pc \in {"count", "dump"} => dumps < MaxDumps
CycleRowsInv == cycle.pc = "dump" => cycle.rows \in Counts

\* What an acknowledgement found in the file, but for the dump that it promotes.
Same(s, t) == [s EXCEPT !.good = 0] = [t EXCEPT !.good = 0]
NewestIn(d, files) == d \in files /\ \A e \in files : e.at <= d.at

\* While an acknowledgement counts, the state that it will write back is locked, and no
\* cycle has come in between as long as one is under way that began before.
AckInv ==
  ack.on =>
    /\ ack.state.locked
    /\ cycle.pc \in {"count", "dump"} => Same(file, ack.state)
    /\ ~crossed /\ Same(file, ack.state) => \E d \in rotation : d.at = ack.state.good /\ NewestIn(d, rotation)

\* In a lockdown the newest dump of all is in quarantine: an acknowledgement promotes it.
LockInv == ~crossed /\ file.locked /\ ~ack.on => \E d \in quarantine : d.at = dumps

\* The newest dump of the rotation is what the next one is compared with, unless
\* the operator has acknowledged since.
BaselineInv == ~crossed => \A d \in rotation : NewestIn(d, rotation) /\ acked < d.at => file.baseline = d.rows

BackupInv == BackupTypes /\ DumpsAreTaken /\ CycleRowsInv /\ AckInv /\ LockInv /\ BaselineInv /\ LastGoodIsKept /\ NoGreatLossUnacknowledged
-----------------------------------------------------------------------------
LEMMA KeptAreThere == \A files : KeepNewest(files) \subseteq files
BY DEF KeepNewest

\* The rotation keeps its newest dump, and with a dump all newer ones.
LEMMA NewestIsKept ==
  ASSUME NEW files \in SUBSET Dumps, NEW d, NewestIn(d, files)
  PROVE  d \in KeepNewest(files)
<1>1. {e \in files : e.at > d.at} = {}
  BY DEF NewestIn, Dumps
<1>2. 0 < Retain + 1
  BY BackupAssumption
<1> QED
  BY <1>1, <1>2, FS_EmptySet DEF KeepNewest, NewestIn

LEMMA NewerAreKept ==
  ASSUME NEW files \in SUBSET Dumps, IsFiniteSet(files), NEW d \in KeepNewest(files), NEW x \in files, d.at < x.at
  PROVE  x \in KeepNewest(files)
<1> DEFINE afterX == {e \in files : e.at > x.at}
           afterD == {e \in files : e.at > d.at}
<1>1. d \in files /\ Cardinality(afterD) < Retain + 1
  BY DEF KeepNewest
<1>2. afterX \subseteq afterD
  BY <1>1 DEF Dumps
<1>3. IsFiniteSet(afterD)
  BY FS_Subset
<1>4. Cardinality(afterX) <= Cardinality(afterD) /\ Cardinality(afterX) \in Nat /\ Cardinality(afterD) \in Nat
  BY <1>2, <1>3, FS_Subset, FS_CardinalityType
<1>5. Cardinality(afterX) < Retain + 1
  BY <1>1, <1>4, BackupAssumption
<1> QED
  BY <1>5 DEF KeepNewest

\* A directory has a newest dump: of the sets of the dumps newer than one of
\* them, the least is empty.
LEMMA HasNewest ==
  ASSUME NEW files \in SUBSET Dumps, IsFiniteSet(files), files # {}
  PROVE  NewestIn(Newest(files), files)
<1> DEFINE Newer(d) == {e \in files : e.at > d.at}
           Tails == {Newer(d) : d \in files}
<1>1. \A d \in files : d.at \in Nat
  BY BackupAssumption DEF Dumps
<1>2. Tails \subseteq FiniteSubsetsOf(files) /\ Tails # {}
  <2>1. \A d \in files : Newer(d) \in SUBSET files /\ IsFiniteSet(Newer(d))
    BY FS_Subset
  <2>2. \A d \in files : Newer(d) \in FiniteSubsetsOf(files)
    BY <2>1 DEF FiniteSubsetsOf
  <2> HIDE DEF Newer
  <2> QED
    BY <2>2
<1>3. (\A l \in Tails : \E d \in files : l = Newer(d)) /\ \A e \in files : Newer(e) \in Tails
  OBVIOUS
<1> HIDE DEF Tails, Newer
<1>4. PICK least \in Tails : \A t \in Tails : ~(<<t, least>> \in StrictSubsetOrdering(files))
  BY <1>2, WFMin, FS_StrictSubsetOrderingWellFounded
<1> PICK d \in files : least = Newer(d)
  BY <1>3
<1>5. \A e \in files : ~(e.at > d.at)
  <2> SUFFICES ASSUME NEW e \in files, e.at > d.at PROVE FALSE
    OBVIOUS
  <2>1. Newer(e) \subseteq Newer(d) /\ Newer(d) \subseteq files /\ e \in Newer(d) /\ e \notin Newer(e)
    BY <1>1 DEF Newer
  <2>2. <<Newer(e), Newer(d)>> \in StrictSubsetOrdering(files)
    BY <2>1 DEF StrictSubsetOrdering
  <2> QED
    BY <1>3, <1>4, <2>2
<1>6. \A e \in files : e.at <= d.at
  BY <1>1, <1>5
<1> QED
  BY <1>6 DEF NewestIn, Newest

LEMMA BackupStarts == BackupInit => BackupInv
<1> SUFFICES ASSUME BackupInit PROVE BackupInv
  OBVIOUS
<1>0. MaxDumps \in Nat /\ MaxMishaps \in Nat
  BY BackupAssumption
<1>1. FreshFile \in FileStates /\ ~FreshFile.locked /\ FreshFile.good = 0
  BY <1>0 DEF FreshFile, FileStates
<1>2. Rest \in CycleStates /\ NoAck \in AckStates /\ ~NoAck.on /\ Rest.pc = "rest"
  BY <1>1 DEF Rest, NoAck, CycleStates, AckStates
<1>3. 0 \in 0..MaxDumps /\ 0 \in 0..MaxMishaps /\ {} \subseteq Dumps
  BY <1>0
<1>5. BackupTypes
  BY <1>1, <1>2, <1>3 DEF BackupInit, BackupTypes
<1>4. DumpsAreTaken
  BY <1>2, FS_EmptySet DEF BackupInit, DumpsAreTaken
<1> QED
  BY <1>1, <1>2, <1>5, <1>4
     DEF BackupInit, BackupInv, CycleRowsInv, AckInv, LockInv, BaselineInv, LastGoodIsKept, NoGreatLossUnacknowledged

-----------------------------------------------------------------------------
\* A step that leaves the file, the directories and the counters as they are.
LEMMA QuietSteps ==
  ASSUME BackupInv, UNCHANGED <<file, rotation, quarantine, ack, dumps, acked, crossed>>,
         BackupTypes', CycleRowsInv', cycle'.pc \in {"count", "dump"} => dumps < MaxDumps /\ (ack.on => Same(file, ack.state))
  PROVE  BackupInv'
<1>1. DumpsAreTaken'
  BY DEF BackupInv, DumpsAreTaken
<1>2. AckInv'
  BY DEF BackupInv, AckInv, NewestIn
<1>3. LockInv' /\ BaselineInv' /\ LastGoodIsKept' /\ NoGreatLossUnacknowledged'
  BY DEF BackupInv, LockInv, BaselineInv, LastGoodIsKept, NoGreatLossUnacknowledged, NewestIn
<1> QED
  BY <1>1, <1>2, <1>3 DEF BackupInv

LEMMA CycleStartsIsSound == BackupInv /\ CycleStarts => BackupInv'
<1> SUFFICES ASSUME BackupInv, CycleStarts PROVE BackupInv'
  OBVIOUS
<1>1. cycle' = [Rest EXCEPT !.pc = "count", !.state = file] /\ file \in FileStates
  BY DEF CycleStarts, BackupInv, BackupTypes
<1>2. cycle' \in CycleStates
  BY <1>1 DEF Rest, CycleStates
<1>3. BackupTypes'
  BY <1>2 DEF CycleStarts, BackupInv, BackupTypes
<1>4. CycleRowsInv'
  BY <1>1 DEF CycleRowsInv, Rest
<1> QED
  BY <1>3, <1>4, QuietSteps DEF CycleStarts

LEMMA CycleCountsIsSound == BackupInv /\ CycleCounts => BackupInv'
<1> SUFFICES ASSUME BackupInv, CycleCounts PROVE BackupInv'
  OBVIOUS
<1>1. PICK n \in Counts : cycle' = [cycle EXCEPT !.pc = "dump", !.rows = n]
  BY DEF CycleCounts
<1>2. cycle' \in CycleStates
  BY <1>1 DEF CycleStates, BackupInv, BackupTypes
<1>3. BackupTypes'
  BY <1>2 DEF CycleCounts, BackupInv, BackupTypes
<1>4. dumps < MaxDumps /\ (ack.on => Same(file, ack.state))
  BY DEF CycleCounts, BackupInv, DumpsAreTaken, AckInv
<1>5. CycleRowsInv'
  BY <1>1 DEF CycleRowsInv, BackupInv, BackupTypes, CycleStates
<1> QED
  BY <1>3, <1>4, <1>5, QuietSteps DEF CycleCounts

LEMMA RestIsSound == Rest \in CycleStates /\ Rest.pc = "rest" /\ NoAck \in AckStates /\ ~NoAck.on
BY BackupAssumption DEF Rest, NoAck, CycleStates, AckStates, FreshFile, FileStates

LEMMA ReportIsSound == BackupInv /\ Report => BackupInv'
<1> SUFFICES ASSUME BackupInv, Report PROVE BackupInv'
  OBVIOUS
<1>1. BackupTypes' /\ cycle'.pc = "rest"
  BY RestIsSound DEF Report, BackupInv, BackupTypes
<1> QED
  BY <1>1, QuietSteps DEF Report, CycleRowsInv

\* A dump that fails writes back what was read, which changes nothing but after a
\* crossing.
LEMMA DumpFailsIsSound == BackupInv /\ DumpFails => BackupInv'
<1> SUFFICES ASSUME BackupInv, DumpFails PROVE BackupInv'
  OBVIOUS
<1>1. file' = cycle.state /\ crossed' = (crossed \/ cycle.state # file) /\ cycle' = Rest /\ cycle.pc = "dump"
  BY DEF DumpFails, Save
<1>2. UNCHANGED <<rotation, quarantine, ack, dumps, acked>> /\ mishaps' \in 0..MaxMishaps
  BY BackupAssumption DEF DumpFails, Mishap, BackupInv, BackupTypes
<1>3. BackupTypes'
  BY <1>1, <1>2, RestIsSound DEF BackupInv, BackupTypes, CycleStates
<1>4. DumpsAreTaken' /\ cycle'.pc = "rest"
  BY <1>1, <1>2, RestIsSound DEF BackupInv, DumpsAreTaken
<1>5. CASE crossed'
  BY <1>2, <1>3, <1>4, <1>5
     DEF BackupInv, CycleRowsInv, AckInv, LockInv, BaselineInv, LastGoodIsKept, NoGreatLossUnacknowledged
<1>6. CASE ~crossed'
  <2>1. UNCHANGED <<file, crossed>>
    BY <1>1, <1>6, <1>3 DEF BackupInv, BackupTypes
  <2> QED
    BY <2>1, <1>2, <1>3, <1>4, QuietSteps DEF CycleRowsInv
<1> QED
  BY <1>5, <1>6

\* What a crossing has cost is not claimed.
LEMMA CrossedSteps ==
  ASSUME BackupTypes', DumpsAreTaken', CycleRowsInv', crossed',
         ack'.on => ack'.state.locked /\ (cycle'.pc \in {"count", "dump"} => Same(file', ack'.state))
  PROVE  BackupInv'
BY DEF BackupInv, AckInv, LockInv, BaselineInv, LastGoodIsKept, NoGreatLossUnacknowledged

-----------------------------------------------------------------------------
\* Two states of the file are the same but for the last good dump.
LEMMA SameMeans ==
  ASSUME NEW s \in FileStates, NEW t \in FileStates
  PROVE  Same(s, t) <=> s.locked = t.locked /\ s.baseline = t.baseline
<1>1. [s EXCEPT !.good = 0] = [locked |-> s.locked, good |-> 0, baseline |-> s.baseline]
  BY DEF FileStates
<1>2. [t EXCEPT !.good = 0] = [locked |-> t.locked, good |-> 0, baseline |-> t.baseline]
  BY DEF FileStates
<1> QED
  BY <1>1, <1>2 DEF Same

LEMMA GoodIsSet ==
  ASSUME NEW s \in FileStates, NEW n \in 0..MaxDumps
  PROVE  LET t == [s EXCEPT !.good = n]
         IN  t \in FileStates /\ t.locked = s.locked /\ t.baseline = s.baseline /\ t.good = n
BY DEF FileStates

\* The dump that a cycle has taken is newer than all others.
LEMMA NewDump ==
  ASSUME BackupInv, cycle.pc = "dump", dumps' = dumps + 1
  PROVE  /\ ThisDump \in Dumps /\ ThisDump.at = dumps' /\ ThisDump.rows = cycle.rows
         /\ \A d \in rotation \cup quarantine : d.at \in Nat /\ d.at < dumps'
         /\ ThisDump \notin rotation \cup quarantine
         /\ dumps \in Nat /\ dumps' \in 1..MaxDumps /\ acked \in Nat /\ acked < dumps'
         /\ IsFiniteSet(rotation \cup {ThisDump}) /\ IsFiniteSet(quarantine \cup {ThisDump})
<1>1. dumps \in 0..MaxDumps /\ dumps < MaxDumps /\ acked \in 0..MaxDumps /\ acked <= dumps /\ MaxDumps \in Nat
  BY BackupAssumption DEF BackupInv, BackupTypes, DumpsAreTaken
<1>2. cycle.rows \in Counts
  BY DEF BackupInv, CycleRowsInv
<1>3. ThisDump = [at |-> dumps', rows |-> cycle.rows]
  BY DEF ThisDump
<1>4. dumps' \in 1..MaxDumps /\ dumps \in Nat /\ acked \in Nat /\ acked < dumps'
  BY <1>1
<1>5. \A d \in rotation \cup quarantine : d.at \in 1..MaxDumps /\ d.at <= dumps
  BY DEF BackupInv, BackupTypes, DumpsAreTaken, Dumps
<1>6. \A d \in rotation \cup quarantine : d.at \in Nat /\ d.at < dumps'
  BY <1>1, <1>5
<1>7. ThisDump \in Dumps /\ ThisDump.at = dumps' /\ ThisDump.rows = cycle.rows
  BY <1>2, <1>3, <1>4 DEF Dumps
<1>8. ThisDump \notin rotation \cup quarantine
  BY <1>4, <1>6, <1>7
<1> QED
  BY <1>4, <1>6, <1>7, <1>8, FS_AddElement DEF BackupInv, DumpsAreTaken

\* A dump in quarantine: the file was as the cycle had read it, and a lockdown begins
\* or goes on.
LEMMA QuarantinedIsSound ==
  ASSUME BackupInv, cycle.pc = "dump", Quarantined, dumps' = dumps + 1, UNCHANGED <<ack, acked, mishaps>>
  PROVE  BackupInv'
<1>1. /\ file' = [cycle.state EXCEPT !.locked = TRUE] /\ crossed' = (crossed \/ cycle.state # file)
      /\ quarantine' = quarantine \cup {ThisDump} /\ rotation' = rotation
      /\ cycle' = [Rest EXCEPT !.pc = "report"]
  BY DEF Quarantined, Save
<1>2. cycle' \in CycleStates /\ cycle'.pc = "report"
  BY <1>1, RestIsSound DEF CycleStates, Rest
<1>3. file' \in FileStates /\ file'.locked
  BY <1>1 DEF BackupInv, BackupTypes, CycleStates, FileStates
<1>4. BackupTypes'
  BY <1>1, <1>2, <1>3, NewDump DEF BackupInv, BackupTypes
<1>5. DumpsAreTaken' /\ CycleRowsInv'
  <2>1. \A d \in rotation' \cup quarantine' : d = ThisDump \/ d \in rotation \cup quarantine
    BY <1>1
  <2>2. \A d \in rotation' \cup quarantine' : d.at <= dumps'
    BY <2>1, NewDump
  <2>3. \A d, e \in rotation' \cup quarantine' : d.at = e.at => d = e
    BY <2>1, NewDump DEF BackupInv, DumpsAreTaken
  <2>4. rotation' \cap quarantine' = {} /\ acked' <= dumps'
    BY <1>1, NewDump DEF BackupInv, DumpsAreTaken
  <2> QED
    BY <1>1, <1>2, <2>2, <2>3, <2>4, NewDump DEF BackupInv, DumpsAreTaken, CycleRowsInv
<1>6. ack'.on => ack'.state.locked
  BY DEF BackupInv, AckInv
<1>7. CASE crossed'
  BY <1>2, <1>4, <1>5, <1>6, <1>7, CrossedSteps
<1>8. CASE ~crossed'
  <2>1. ~crossed /\ cycle.state = file
    BY <1>1, <1>8, <1>4 DEF BackupInv, BackupTypes
  <2>2. file'.good = file.good /\ file'.baseline = file.baseline
    BY <1>1, <2>1 DEF BackupInv, BackupTypes, FileStates
  <2>3. AckInv'
    <3>1. ack.on => \E d \in rotation : d.at = ack.state.good /\ NewestIn(d, rotation)
      BY <2>1 DEF BackupInv, AckInv
    <3> QED
      BY <1>1, <1>2, <1>6, <3>1 DEF AckInv, NewestIn
  <2>4. LockInv'
    BY <1>1, NewDump DEF LockInv
  <2>5. BaselineInv' /\ LastGoodIsKept' /\ NoGreatLossUnacknowledged'
    BY <1>1, <2>1, <2>2 DEF BackupInv, BaselineInv, LastGoodIsKept, NoGreatLossUnacknowledged, NewestIn
  <2> QED
    BY <1>4, <1>5, <2>3, <2>4, <2>5 DEF BackupInv
<1> QED
  BY <1>7, <1>8

\* A dump that is promoted is the last good one and the baseline, and it is kept.  The
\* dump that it follows in the rotation was the baseline it has been compared with.
LEMMA PromotedIsSound ==
  ASSUME NEW tier \in {"healthy", "warning"}, NEW stub, BackupInv, cycle.pc = "dump",
         tier = Classify(stub, cycle.rows, cycle.state.baseline),
         Promoted(tier), dumps' = dumps + 1, UNCHANGED <<ack, acked, mishaps>>
  PROVE  BackupInv'
<1> DEFINE all == rotation \cup {ThisDump}
<1>1. /\ file' = [locked |-> FALSE, good |-> dumps', baseline |-> cycle.rows]
      /\ crossed' = (crossed \/ cycle.state # file)
      /\ rotation' = KeepNewest(all) /\ quarantine' = quarantine
      /\ cycle' = IF tier = "warning" THEN [Rest EXCEPT !.pc = "report"] ELSE Rest
  BY DEF Promoted, Save
<1>2. cycle' \in CycleStates /\ cycle'.pc \in {"rest", "report"}
  BY <1>1, RestIsSound DEF CycleStates, Rest
<1>3. file' \in FileStates /\ ~file'.locked /\ file'.good = dumps' /\ file'.baseline = cycle.rows
  BY <1>1, NewDump DEF BackupInv, BackupTypes, CycleStates, FileStates
<1>4. all \in SUBSET Dumps /\ IsFiniteSet(all) /\ rotation' \subseteq all
  <2>1. all \subseteq Dumps /\ IsFiniteSet(all)
    BY NewDump DEF BackupInv, BackupTypes
  <2> QED
    BY <1>1, <2>1, KeptAreThere
<1>5. BackupTypes'
  <2>1. crossed' \in BOOLEAN /\ dumps' \in 0..MaxDumps
    BY <1>1, NewDump DEF BackupInv, BackupTypes
  <2>2. rotation' \subseteq Dumps
    BY <1>4
  <2>3. UNCHANGED <<quarantine, ack, acked, mishaps>>
    BY <1>1
  <2> QED
    BY <1>2, <1>3, <2>1, <2>2, <2>3 DEF BackupInv, BackupTypes
<1>6. DumpsAreTaken' /\ CycleRowsInv'
  <2>1. \A d \in rotation' \cup quarantine' : d = ThisDump \/ d \in rotation \cup quarantine
    BY <1>1, <1>4
  <2>2. \A d \in rotation' \cup quarantine' : d.at <= dumps'
    BY <2>1, NewDump
  <2>3. \A d, e \in rotation' \cup quarantine' : d.at = e.at => d = e
    BY <2>1, NewDump DEF BackupInv, DumpsAreTaken
  <2>4. rotation' \cap quarantine' = {} /\ acked' <= dumps'
    <3>1. ThisDump \notin quarantine /\ rotation \cap quarantine = {}
      BY NewDump DEF BackupInv, DumpsAreTaken
    <3>2. rotation' \cap quarantine' = {}
      BY <1>1, <1>4, <3>1
    <3> QED
      BY <3>2, NewDump
  <2>5. IsFiniteSet(rotation')
    BY <1>4, FS_Subset
  <2> QED
    BY <1>1, <1>2, <2>2, <2>3, <2>4, <2>5, NewDump DEF BackupInv, DumpsAreTaken, CycleRowsInv
<1>7. ack'.on => ack'.state.locked
  BY DEF BackupInv, AckInv
<1>8. CASE crossed'
  BY <1>2, <1>5, <1>6, <1>7, <1>8, CrossedSteps
<1>9. CASE ~crossed'
  <2>1. ~crossed /\ cycle.state = file
    BY <1>1, <1>9, <1>5 DEF BackupInv, BackupTypes
  <2>2. NewestIn(ThisDump, all) /\ ThisDump \in rotation' /\ ThisDump.at = dumps' /\ ThisDump.rows = cycle.rows
    BY <1>1, <1>4, NewDump, NewestIsKept DEF NewestIn
  <2>3. AckInv'
    <3>1. ack'.on => ~Same(file', ack'.state)
      BY <1>3, <1>5, <1>7, SameMeans DEF BackupTypes, AckStates
    <3> QED
      BY <1>2, <1>7, <3>1 DEF AckInv
  <2>4. LockInv' /\ LastGoodIsKept'
    BY <1>3, <2>2 DEF LockInv, LastGoodIsKept
  <2>5. BaselineInv'
    <3> SUFFICES ASSUME NEW d \in rotation', NewestIn(d, rotation') PROVE file'.baseline = d.rows
      BY DEF BaselineInv, NewestIn
    <3>1. d = ThisDump
      BY <1>4, <2>2, NewDump DEF NewestIn
    <3> QED
      BY <3>1, <1>3, <2>2
  <2>6. NoGreatLossUnacknowledged'
    <3> SUFFICES ASSUME NEW d \in rotation', NEW e \in rotation', d.at < e.at,
                        ~\E x \in rotation' : d.at < x.at /\ x.at < e.at, acked' < d.at, d.rows > 0
                 PROVE  Shrink(e.rows, d.rows) < LockAt * d.rows
      BY DEF NoGreatLossUnacknowledged
    <3>1. d \in rotation
      BY <1>4, NewDump
    <3>2. ~\E x \in all : d.at < x.at /\ x.at < e.at
      BY <1>1, <1>4, NewerAreKept
    <3>3. CASE e # ThisDump
      BY <1>4, <2>1, <3>1, <3>2, <3>3 DEF BackupInv, NoGreatLossUnacknowledged
    <3>4. CASE e = ThisDump
      <4>1. NewestIn(d, rotation)
        BY <3>1, <3>2, <3>4, <2>2, NewDump DEF NewestIn
      <4>2. file.baseline = d.rows
        BY <2>1, <3>1, <4>1 DEF BackupInv, BaselineInv
      <4>3. ~(Shrink(cycle.rows, d.rows) >= LockAt * d.rows)
        <5> SUFFICES ASSUME Shrink(cycle.rows, d.rows) >= LockAt * d.rows PROVE FALSE
          OBVIOUS
        <5>1. cycle.state.baseline = d.rows /\ d.rows # 0
          BY <2>1, <4>2
        <5>2. Classify(stub, cycle.rows, cycle.state.baseline) = "lockdown"
          BY <5>1 DEF Classify
        <5> QED
          BY <5>2
      <4>4. d.rows \in Nat /\ cycle.rows \in Nat /\ LockAt \in Nat
        BY <1>4, NewDump, BackupAssumption DEF Dumps
      <4> QED
        BY <3>4, <2>2, <4>3, <4>4 DEF Shrink
    <3> QED
      BY <3>3, <3>4
  <2> QED
    BY <1>5, <1>6, <2>3, <2>4, <2>5, <2>6 DEF BackupInv
<1> QED
  BY <1>8, <1>9

LEMMA DumpEndsIsSound == \A stub : BackupInv /\ DumpEnds(stub) => BackupInv'
<1> TAKE stub
<1> SUFFICES ASSUME BackupInv, DumpEnds(stub) PROVE BackupInv'
  OBVIOUS
<1> DEFINE tier == Classify(stub, cycle.rows, cycle.state.baseline)
<1>1. tier \in {"lockdown", "healthy", "warning"}
  BY DEF Classify
<1>2. /\ cycle.pc = "dump" /\ IF tier = "lockdown" THEN Quarantined ELSE Promoted(tier)
      /\ dumps' = dumps + 1 /\ UNCHANGED <<ack, acked, mishaps>>
  BY DEF DumpEnds
<1> HIDE DEF tier
<1>3. CASE tier = "lockdown"
  BY <1>2, <1>3, QuarantinedIsSound
<1>4. CASE tier # "lockdown"
  BY <1>1, <1>2, <1>4, PromotedIsSound DEF tier
<1> QED
  BY <1>3, <1>4

\* A crash between the move of the dump and the state file.
LEMMA CrashIsSound == \A stub : BackupInv /\ DumpEndsInCrash(stub) => BackupInv'
<1> TAKE stub
<1> SUFFICES ASSUME BackupInv, DumpEndsInCrash(stub) PROVE BackupInv'
  OBVIOUS
<1>1. /\ cycle.pc = "dump" /\ dumps' = dumps + 1 /\ crossed' = TRUE /\ cycle' = Rest /\ ack' = NoAck
      /\ file' = file /\ acked' = acked
      /\ \/ quarantine' = quarantine \cup {ThisDump} /\ rotation' = rotation
         \/ rotation' = rotation \cup {ThisDump} /\ quarantine' = quarantine
  BY DEF DumpEndsInCrash
<1>2. mishaps' \in 0..MaxMishaps
  BY BackupAssumption DEF DumpEndsInCrash, Mishap, BackupInv, BackupTypes
<1>3. BackupTypes'
  <2>1. rotation' \subseteq Dumps /\ quarantine' \subseteq Dumps
    BY <1>1, NewDump DEF BackupInv, BackupTypes
  <2> QED
    BY <1>1, <1>2, <2>1, RestIsSound, NewDump DEF BackupInv, BackupTypes
<1>4. DumpsAreTaken' /\ CycleRowsInv'
  <2>1. \A d \in rotation' \cup quarantine' : d = ThisDump \/ d \in rotation \cup quarantine
    BY <1>1
  <2>2. \A d \in rotation' \cup quarantine' : d.at <= dumps'
    BY <1>1, <2>1, NewDump
  <2>3. \A d, e \in rotation' \cup quarantine' : d.at = e.at => d = e
    BY <1>1, <2>1, NewDump DEF BackupInv, DumpsAreTaken
  <2>4. IsFiniteSet(rotation') /\ IsFiniteSet(quarantine') /\ acked' <= dumps'
    <3>1. IsFiniteSet(rotation) /\ IsFiniteSet(quarantine)
      BY DEF BackupInv, DumpsAreTaken
    <3>2. acked' <= dumps'
      BY <1>1, NewDump
    <3> QED
      BY <1>1, <3>1, <3>2, FS_AddElement
  <2>5. rotation' \cap quarantine' = {}
    <3>1. ThisDump \notin rotation \cup quarantine /\ rotation \cap quarantine = {}
      BY <1>1, NewDump DEF BackupInv, DumpsAreTaken
    <3> QED
      BY <1>1, <3>1
  <2> QED
    BY <1>1, <2>2, <2>3, <2>4, <2>5, RestIsSound DEF DumpsAreTaken, CycleRowsInv
<1> QED
  BY <1>1, <1>3, <1>4, RestIsSound, CrossedSteps

\* What an acknowledgement promotes is the newest dump of all: in a lockdown it is in
\* quarantine.
LEMMA AckStartsIsSound == BackupInv /\ AckStarts => BackupInv'
<1> SUFFICES ASSUME BackupInv, AckStarts PROVE BackupInv'
  OBVIOUS
<1> DEFINE picked == Newest(quarantine)
           empty == quarantine = {}
<1>1. /\ ~ack.on /\ file.locked /\ acked' = dumps /\ UNCHANGED <<file, cycle, dumps, mishaps, crossed>>
      /\ \/ empty /\ ack' = [on |-> TRUE, state |-> file] /\ UNCHANGED <<rotation, quarantine>>
         \/ /\ ~empty /\ rotation' = rotation \cup {picked} /\ quarantine' = quarantine \ {picked}
            /\ ack' = [on |-> TRUE, state |-> [file EXCEPT !.good = picked.at]]
  BY DEF AckStarts, Leave
<1>2. ~empty => NewestIn(picked, quarantine) /\ picked \in Dumps /\ picked.at \in 0..MaxDumps
  <2>1. ~empty => NewestIn(picked, quarantine)
    BY HasNewest DEF BackupInv, BackupTypes, DumpsAreTaken
  <2> QED
    BY <2>1 DEF NewestIn, BackupInv, BackupTypes, Dumps
<1> HIDE DEF picked
<1>3. rotation' \subseteq Dumps /\ quarantine' \subseteq Dumps /\ rotation' \cup quarantine' = rotation \cup quarantine
  BY <1>1, <1>2 DEF BackupInv, BackupTypes, NewestIn
<1>4. ack'.on /\ ack' \in AckStates /\ ack'.state.locked /\ Same(file', ack'.state)
  <2>1. file \in FileStates
    BY DEF BackupInv, BackupTypes
  <2>2. PICK s \in FileStates : s.locked = file.locked /\ s.baseline = file.baseline /\ ack' = [on |-> TRUE, state |-> s]
    BY <1>1, <1>2, <2>1, GoodIsSet
  <2>3. ack'.on /\ ack'.state = s /\ ack' \in AckStates
    BY <2>2 DEF AckStates
  <2> QED
    BY <1>1, <2>1, <2>2, <2>3, SameMeans
<1>5. BackupTypes'
  BY <1>1, <1>3, <1>4 DEF BackupInv, BackupTypes
<1>6. DumpsAreTaken' /\ CycleRowsInv'
  <2>1. IsFiniteSet(rotation') /\ IsFiniteSet(quarantine')
    BY <1>1, FS_AddElement, FS_RemoveElement DEF BackupInv, DumpsAreTaken
  <2>2. rotation' \cap quarantine' = {}
    BY <1>1 DEF BackupInv, DumpsAreTaken
  <2>3. acked' <= dumps'
    BY <1>1, BackupAssumption DEF BackupInv, BackupTypes
  <2> QED
    BY <1>1, <1>3, <2>1, <2>2, <2>3 DEF BackupInv, DumpsAreTaken, CycleRowsInv
<1>7. CASE crossed
  BY <1>1, <1>4, <1>5, <1>6, <1>7, CrossedSteps
<1>8. CASE ~crossed
  <2>1. PICK d \in quarantine : d.at = dumps
    BY <1>1, <1>8 DEF BackupInv, LockInv
  <2>2. ~empty /\ \A x \in rotation \cup quarantine : x.at <= dumps /\ x.at \in Nat
    BY <2>1, BackupAssumption DEF BackupInv, BackupTypes, DumpsAreTaken, Dumps
  <2>3. picked \in rotation' /\ picked.at = dumps
    BY <1>1, <1>2, <2>1, <2>2, BackupAssumption DEF NewestIn, BackupInv, BackupTypes
  <2>4. NewestIn(picked, rotation')
    BY <1>3, <2>2, <2>3 DEF NewestIn
  <2>5. ack'.state.good = picked.at
    <3>1. ack'.state = [file EXCEPT !.good = picked.at] /\ file \in FileStates
      BY <1>1, <2>2 DEF BackupInv, BackupTypes
    <3> QED
      BY <1>2, <2>2, <3>1, GoodIsSet
  <2>6. AckInv' /\ LockInv'
    <3>1. \E x \in rotation' : x.at = ack'.state.good /\ NewestIn(x, rotation')
      BY <2>3, <2>4, <2>5
    <3> QED
      BY <1>4, <3>1 DEF AckInv, LockInv, NewestIn
  <2>7. \A x \in rotation' : ~(acked' < x.at)
    BY <1>1, <1>3, <2>2, BackupAssumption DEF BackupInv, BackupTypes
  <2>8. BaselineInv' /\ NoGreatLossUnacknowledged'
    BY <2>7 DEF BaselineInv, NoGreatLossUnacknowledged
  <2>9. LastGoodIsKept'
    BY <1>1 DEF BackupInv, LastGoodIsKept
  <2> QED
    BY <1>5, <1>6, <2>6, <2>8, <2>9 DEF BackupInv
<1> QED
  BY <1>7, <1>8

\* What an acknowledgement has promoted is the newest of the rotation, which keeps it.
LEMMA AckEndsIsSound == \A discard : BackupInv /\ AckEnds(discard) => BackupInv'
<1> TAKE discard
<1> SUFFICES ASSUME BackupInv, AckEnds(discard) PROVE BackupInv'
  OBVIOUS
<1>1. /\ ack.on /\ crossed' = (crossed \/ ~Same(file, ack.state))
      /\ rotation' = KeepNewest(rotation) /\ quarantine' = IF discard THEN {} ELSE quarantine
      /\ ack' = NoAck /\ acked' = dumps /\ UNCHANGED <<cycle, dumps, mishaps>>
  BY DEF AckEnds, Same
<1>2. PICK n \in Counts : file' = [ack.state EXCEPT !.locked = FALSE, !.baseline = n]
  BY DEF AckEnds
<1>3. ack.state \in FileStates /\ file \in FileStates /\ crossed \in BOOLEAN
  BY DEF BackupInv, BackupTypes, AckStates
<1>4. file' \in FileStates /\ ~file'.locked /\ file'.good = ack.state.good
  BY <1>2, <1>3 DEF FileStates
<1>5. rotation' \subseteq rotation /\ quarantine' \subseteq quarantine
  BY <1>1, KeptAreThere
<1>6. BackupTypes'
  BY <1>1, <1>4, <1>5, RestIsSound DEF BackupInv, BackupTypes
<1>7. DumpsAreTaken' /\ CycleRowsInv'
  <2>1. IsFiniteSet(rotation') /\ IsFiniteSet(quarantine')
    BY <1>5, FS_Subset DEF BackupInv, DumpsAreTaken
  <2>2. acked' <= dumps'
    BY <1>1, BackupAssumption DEF BackupInv, BackupTypes
  <2> QED
    BY <1>1, <1>5, <2>1, <2>2 DEF BackupInv, DumpsAreTaken, CycleRowsInv
<1>8. AckInv' /\ LockInv'
  BY <1>1, <1>4, RestIsSound DEF AckInv, LockInv
<1>9. \A x \in rotation' : ~(acked' < x.at)
  <2>1. \A x \in rotation : x.at \in Nat /\ x.at <= dumps
    BY DEF BackupInv, BackupTypes, DumpsAreTaken, Dumps
  <2> QED
    BY <1>1, <1>5, <2>1, BackupAssumption DEF BackupInv, BackupTypes
<1>10. BaselineInv' /\ NoGreatLossUnacknowledged'
  BY <1>9 DEF BaselineInv, NoGreatLossUnacknowledged
<1>11. LastGoodIsKept'
  <2> SUFFICES ASSUME ~crossed' PROVE \E d \in rotation' : d.at = file'.good
    BY DEF LastGoodIsKept
  <2>1. ~crossed /\ Same(file, ack.state)
    BY <1>1, <1>3
  <2>2. PICK d \in rotation : d.at = ack.state.good /\ NewestIn(d, rotation)
    BY <1>1, <2>1 DEF BackupInv, AckInv
  <2>3. d \in rotation'
    BY <1>1, <2>2, NewestIsKept DEF BackupInv, BackupTypes
  <2> QED
    BY <1>4, <2>2, <2>3
<1> QED
  BY <1>6, <1>7, <1>8, <1>10, <1>11 DEF BackupInv

LEMMA BackupRestartIsSound == BackupInv /\ BackupRestart => BackupInv'
<1> SUFFICES ASSUME BackupInv, BackupRestart PROVE BackupInv'
  OBVIOUS
<1>1. /\ crossed' = (crossed \/ ack.on) /\ cycle' = Rest /\ ack' = NoAck
      /\ UNCHANGED <<file, rotation, quarantine, dumps, acked>>
  BY DEF BackupRestart
<1>2. mishaps' \in 0..MaxMishaps
  BY BackupAssumption DEF BackupRestart, Mishap, BackupInv, BackupTypes
<1>3. BackupTypes' /\ DumpsAreTaken' /\ CycleRowsInv'
  <2>1. crossed' \in BOOLEAN
    BY <1>1 DEF BackupInv, BackupTypes, AckStates
  <2> QED
    BY <1>1, <1>2, <2>1, RestIsSound DEF BackupInv, BackupTypes, DumpsAreTaken, CycleRowsInv
<1>4. CASE crossed'
  BY <1>1, <1>3, <1>4, RestIsSound, CrossedSteps
<1>5. CASE ~crossed'
  <2>1. ~crossed /\ ~ack.on
    BY <1>1, <1>5, <1>3 DEF BackupInv, BackupTypes, AckStates
  <2>2. AckInv' /\ LockInv'
    BY <1>1, <2>1, RestIsSound DEF BackupInv, AckInv, LockInv
  <2>3. BaselineInv' /\ LastGoodIsKept' /\ NoGreatLossUnacknowledged'
    BY <1>1, <2>1 DEF BackupInv, BaselineInv, LastGoodIsKept, NoGreatLossUnacknowledged, NewestIn
  <2> QED
    BY <1>3, <2>2, <2>3 DEF BackupInv
<1> QED
  BY <1>4, <1>5
-----------------------------------------------------------------------------
LEMMA BackupSteps == BackupInv /\ [BackupNext]_backupVars => BackupInv'
<1> SUFFICES ASSUME BackupInv, [BackupNext]_backupVars PROVE BackupInv'
  OBVIOUS
<1>1. CASE Cycle
  BY <1>1, CycleStartsIsSound, CycleCountsIsSound, DumpEndsIsSound, ReportIsSound DEF Cycle
<1>2. CASE Ack
  BY <1>2, AckStartsIsSound, AckEndsIsSound DEF Ack
<1>3. CASE Mishaps
  BY <1>3, DumpFailsIsSound, CrashIsSound, BackupRestartIsSound DEF Mishaps
<1>4. CASE UNCHANGED backupVars
  <2>1. BackupTypes' /\ CycleRowsInv' /\ cycle' = cycle
    BY <1>4 DEF backupVars, BackupInv, BackupTypes, CycleRowsInv
  <2> QED
    BY <1>4, <2>1, QuietSteps DEF backupVars, BackupInv, DumpsAreTaken, AckInv
<1> QED
  BY <1>1, <1>2, <1>3, <1>4 DEF BackupNext

THEOREM BackupIsSound == BackupSpec => []BackupInv
<1>1. BackupInit => BackupInv
  BY BackupStarts
<1>2. BackupInv /\ [BackupNext]_backupVars => BackupInv'
  BY BackupSteps
<1> QED
  BY <1>1, <1>2, PTL DEF BackupSpec

\* The dump that the state file names as the last good one is in the rotation at
\* every moment, unless a crash or a crossed write has cost the file an entry:
\* _rotate() and _move_to_quarantine() never take it.
THEOREM LastGoodIsNeverLost == BackupSpec => []LastGoodIsKept
<1>1. BackupInv => LastGoodIsKept
  BY DEF BackupInv
<1> QED
  BY <1>1, BackupIsSound, PTL

\* Between two dumps that follow one another in the rotation no more rows are lost
\* than LOCKDOWN_RATIO allows, unless the operator has acknowledged: what _classify()
\* compares with is the newest dump of the rotation.
THEOREM GreatLossesAreAcknowledged == BackupSpec => []NoGreatLossUnacknowledged
<1>1. BackupInv => NoGreatLossUnacknowledged
  BY DEF BackupInv
<1> QED
  BY <1>1, BackupIsSound, PTL
-----------------------------------------------------------------------------
Cites == {"provenance", "sediment"}
MemoryStates == [kind : {"moment"} \cup Cites, cites : SUBSET Nat, outside : BOOLEAN, grounded : BOOLEAN, at : Nat]
\* The names of steps and actions, with those that a recall adds, which the provers
\* do not know for strings.
StepNames == STRING \cup {"root", "_session", "_combined", "_timeline", "_provenance", "_ascendance"}
Acts == STRING \cup {"search", "filter", "union", "timeline"}
Phases == {"idle", "plans", "executes", "descends", "loads", "provenance", "sediment", "ascends", "thinks", "answers"}
ShownSteps == [id : StepNames, rows : SUBSET Nat]
StepsOf(ofs) == [id : StepNames, act : Acts, of : ofs]
IsPlan(plan) == \E ofs : plan \in Seq(StepsOf(ofs))
\* The states of a recall, but for its plan.
CallStates(plans) ==
  [pc : Phases, deep : BOOLEAN, armed : BOOLEAN, talk : BOOLEAN, view : {"timeline", "deltas"}, plan : plans, shown : Seq(ShownSteps),
   index : SUBSET (Nat \X Nat), since : Nat, whole : BOOLEAN, clean : BOOLEAN, silenced : BOOLEAN]

\* The summaries that cite one of the rows, in the lake mem, and those that an index has.
CitersIn(mem, rows, until) ==
  {p \in 1..Len(mem) : mem[p].kind \in Cites /\ mem[p].at <= until /\ mem[p].cites \cap rows # {}}
Covers(mem, kinds, pairs, before) ==
  \A p \in 1..Len(mem) : mem[p].kind \in kinds /\ mem[p].at < before => \A c \in mem[p].cites : <<c, p>> \in pairs
AreIn(pairs, mem) == pairs \subseteq (1..Len(mem)) \X (1..Len(mem))

\* What is shown are rows of the lake, each once.
ShownInv(q, mem) ==
  /\ RowsShown(q.shown) \subseteq 1..Len(mem)
  /\ \A i, j \in DOMAIN q.shown : i # j => q.shown[i].rows \cap q.shown[j].rows = {}
\* A recall that shows nothing yet and has no index.
IsBlank(q) ==
  /\ q \in CallStates({q.plan}) /\ q.shown = <<>> /\ q.index = {} /\ q.since = 0
  /\ q.pc \notin {"sediment", "ascends", "thinks"}
\* What is planned is blank, and a plan that is executed can be.
PlanInv(q) ==
  /\ q.pc = "plans" => IsBlank(q) /\ q.deep
  /\ q.pc = "executes" => IsPlan(q.plan) /\ WellFormed(q.plan) /\ (~q.deep => "root" \in Fetching(q.plan))
\* The index that a recall goes up by lacks summaries of its last minutes only.
IndexInv(q, mem, now) ==
  /\ q.since <= now /\ AreIn(q.index, mem)
  /\ q.pc = "sediment" /\ q.whole => Covers(mem, {"provenance"}, q.index, q.since)
  /\ q.pc = "ascends" /\ q.whole => Covers(mem, Cites, q.index, q.since - IndexLife + 1)
\* When nothing failed, three layers of summaries above what was found are shown.
FoundIn(shown) == UNION {x.rows : x \in {y \in ToSet(shown) : y.id # "_ascendance"}}
LayersIn(mem, found, until, rows) ==
  LET one == CitersIn(mem, found, until)
      two == CitersIn(mem, one, until)
  IN  one \cup two \cup CitersIn(mem, two, until) \subseteq rows
LayersShown(q, mem) == LayersIn(mem, FoundIn(q.shown), q.since - IndexLife, RowsShown(q.shown))
AncestorsInv(q, mem) == q.pc = "thinks" /\ q.clean /\ q.whole => LayersShown(q, mem)

CallInv(q, mem, now) ==
  /\ q \in CallStates({q.plan})
  /\ ShownInv(q, mem) /\ PlanInv(q) /\ IndexInv(q, mem, now) /\ AncestorsInv(q, mem)

LakeInv(mem) ==
  /\ mem \in Seq(MemoryStates)
  /\ \A i \in 1..Len(mem) : mem[i].cites \subseteq 1..Len(mem)
  /\ \A i \in 1..Len(mem) : mem[i].kind = "sediment" /\ ~mem[i].grounded => \A c \in mem[i].cites : ~mem[c].outside
ParentsInv(shared, mem, now) ==
  /\ shared \in [pairs : SUBSET (Nat \X Nat), at : Nat, whole : BOOLEAN]
  /\ AreIn(shared.pairs, mem) /\ shared.at <= now
  /\ shared.whole => Covers(mem, Cites, shared.pairs, shared.at)

RecallInv ==
  /\ minute \in Nat /\ LakeInv(memories) /\ ParentsInv(parents, memories, minute)
  /\ DOMAIN recalls = Recalls /\ \A s \in Recalls : CallInv(recalls[s], memories, minute)

\* The lake stays, or a row of this minute that cites rows of the lake is added.
Grows(mem, later, now) ==
  \/ later = mem
  \/ \E m \in MemoryStates : m.at = now /\ m.cites \subseteq 1..Len(mem) /\ later = Append(mem, m)
-----------------------------------------------------------------------------
LEMMA RowsStay ==
  ASSUME NEW mem \in Seq(MemoryStates), NEW later, NEW now \in Nat, Grows(mem, later, now)
  PROVE  /\ later \in Seq(MemoryStates) /\ Len(mem) \in Nat /\ Len(later) \in Nat /\ Len(mem) <= Len(later)
         /\ \A i \in 1..Len(mem) : i \in 1..Len(later) /\ later[i] = mem[i]
         /\ \A i \in 1..Len(later) : i \notin 1..Len(mem) => later[i].at = now
<1>1. CASE later = mem
  BY <1>1
<1>2. ASSUME NEW m \in MemoryStates, m.at = now, later = Append(mem, m)
      PROVE  /\ later \in Seq(MemoryStates) /\ Len(mem) \in Nat /\ Len(later) \in Nat /\ Len(mem) <= Len(later)
             /\ \A i \in 1..Len(mem) : i \in 1..Len(later) /\ later[i] = mem[i]
             /\ \A i \in 1..Len(later) : i \notin 1..Len(mem) => later[i].at = now
  <2>1. Len(mem) \in Nat /\ Len(later) = Len(mem) + 1 /\ later \in Seq(MemoryStates)
    BY <1>2
  <2>2. \A i \in 1..Len(mem) : later[i] = mem[i]
    BY <1>2
  <2>3. later[Len(mem) + 1] = m
    BY <1>2
  <2> QED
    BY <2>1, <2>2, <2>3, <1>2
<1> QED
  BY <1>1, <1>2 DEF Grows

\* A new row is too young to count.
LEMMA CitersStay ==
  ASSUME NEW mem \in Seq(MemoryStates), NEW later, NEW now \in Nat, Grows(mem, later, now),
         NEW rows, NEW until \in Int, until < now
  PROVE  CitersIn(later, rows, until) = CitersIn(mem, rows, until)
<1>1. ASSUME NEW p \in 1..Len(later), later[p].at <= until
      PROVE  p \in 1..Len(mem)
  BY <1>1, RowsStay
<1>2. \A p \in 1..Len(mem) : p \in 1..Len(later) /\ later[p] = mem[p]
  BY RowsStay
<1> QED
  BY <1>1, <1>2 DEF CitersIn

LEMMA CoversStay ==
  ASSUME NEW mem \in Seq(MemoryStates), NEW later, NEW now \in Nat, Grows(mem, later, now),
         NEW kinds, NEW pairs, NEW before \in Int, before <= now, Covers(mem, kinds, pairs, before)
  PROVE  Covers(later, kinds, pairs, before)
<1>1. ASSUME NEW p \in 1..Len(later), later[p].at < before
      PROVE  p \in 1..Len(mem)
  BY <1>1, RowsStay
<1>2. \A p \in 1..Len(mem) : p \in 1..Len(later) /\ later[p] = mem[p]
  BY RowsStay
<1> QED
  BY <1>1, <1>2 DEF Covers

LEMMA TimesAreNumbers == ASSUME NEW mem \in Seq(MemoryStates) PROVE \A p \in 1..Len(mem) : mem[p].at \in Nat
<1>1. \A p \in 1..Len(mem) : mem[p] \in MemoryStates
  BY ElementOfSeq
<1> QED
  BY <1>1 DEF MemoryStates

LEMMA CoversLess ==
  ASSUME NEW mem \in Seq(MemoryStates), NEW kinds, NEW pairs, NEW before \in Int, Covers(mem, kinds, pairs, before),
         NEW sooner \in Int, sooner <= before
  PROVE  Covers(mem, kinds, pairs, sooner)
<1>1. \A p \in 1..Len(mem) : mem[p].at \in Nat
  BY TimesAreNumbers
<1>2. \A p \in 1..Len(mem) : mem[p].at < sooner => mem[p].at < before
  BY <1>1
<1> QED
  BY <1>2 DEF Covers

LEMMA ParentsStay ==
  ASSUME NEW mem \in Seq(MemoryStates), NEW later, NEW now \in Nat, Grows(mem, later, now), NEW shared, ParentsInv(shared, mem, now)
  PROVE  \A after \in Nat : now <= after => ParentsInv(shared, later, after)
<1>1. Len(mem) \in Nat /\ Len(later) \in Nat /\ Len(mem) <= Len(later)
  BY RowsStay
<1>2. shared.at \in Nat /\ shared.at <= now
  BY DEF ParentsInv
<1>3. shared.whole => Covers(later, Cites, shared.pairs, shared.at)
  BY <1>2, CoversStay DEF ParentsInv
<1>4. AreIn(shared.pairs, later)
  BY <1>1 DEF ParentsInv, AreIn
<1> QED
  BY <1>2, <1>3, <1>4 DEF ParentsInv

LEMMA CallStays ==
  ASSUME NEW mem \in Seq(MemoryStates), NEW later, NEW now \in Nat, Grows(mem, later, now), NEW q, CallInv(q, mem, now)
  PROVE  \A after \in Nat : now <= after => CallInv(q, later, after)
<1> DEFINE until == q.since - IndexLife
<1>1. Len(mem) \in Nat /\ Len(later) \in Nat /\ Len(mem) <= Len(later)
  BY RowsStay
<1>2. q.since \in Nat /\ q.since <= now /\ until \in Int /\ until < now /\ until + 1 <= now /\ until + 1 \in Int
  BY RecallBounds DEF CallInv, CallStates, IndexInv
<1>3. ShownInv(q, later)
  BY <1>1 DEF CallInv, ShownInv
<1>4. \A after \in Nat : now <= after => IndexInv(q, later, after)
  <2>1. AreIn(q.index, later)
    BY <1>1 DEF CallInv, IndexInv, AreIn
  <2>2. q.pc = "sediment" /\ q.whole => Covers(later, {"provenance"}, q.index, q.since)
    BY <1>2, CoversStay DEF CallInv, IndexInv
  <2>3. q.pc = "ascends" /\ q.whole => Covers(later, Cites, q.index, until + 1)
    BY <1>2, CoversStay DEF CallInv, IndexInv
  <2> QED
    BY <2>1, <2>2, <2>3, <1>2 DEF IndexInv
<1>5. AncestorsInv(q, later)
  <2>1. \A rows : CitersIn(later, rows, until) = CitersIn(mem, rows, until)
    BY <1>2, CitersStay
  <2> HIDE DEF until
  <2>2. LayersShown(q, mem) => LayersShown(q, later)
    BY <2>1 DEF LayersShown, LayersIn, until
  <2> QED
    BY <2>2 DEF CallInv, AncestorsInv
<1> QED
  BY <1>3, <1>4, <1>5 DEF CallInv
-----------------------------------------------------------------------------
\* A plan that ends in the conversation's step, or has it added, can be executed.
LEMMA SessionFits ==
  ASSUME NEW plan \in Seq(StepsOf(Seq(StepNames))), WellFormed(plan)
  PROVE  WithSession(plan) \in Seq(StepsOf(Seq(StepNames))) /\ WellFormed(WithSession(plan))
<1> DEFINE n == Len(plan)
           S == StepsOf(Seq(StepNames))
           session == Step("_session", "filter", <<>>)
           last == plan[n]
<1>1. n \in Nat \ {0} /\ DOMAIN plan = 1..n /\ plan[1] \in S /\ last \in S /\ \A k \in 1..n : plan[k] \in S
  <2> HIDE DEF S
  <2>1. plan \in Seq(S) /\ plan # <<>>
    BY DEF WellFormed, S
  <2>2. n \in Nat \ {0} /\ DOMAIN plan = 1..n /\ \A k \in 1..n : plan[k] \in S
    BY <2>1, EmptySeq, LenProperties, ElementOfSeq
  <2> QED
    BY <2>2
<1>2. session \in S
  BY DEF Step, StepsOf, StepNames, Acts
<1>3. CASE last.act = "union"
  <2> DEFINE end == [last EXCEPT !.of = Append(@, "_session")]
             new == WithSession(plan)
  <2>1. n >= 2
    <3>1. SUFFICES ASSUME n = 1 PROVE FALSE
      BY <1>1
    <3> QED
      BY <3>1, <1>1, <1>3 DEF WellFormed, Fetching
  <2>2. last.of \in Seq(StepNames) /\ Len(last.of) >= 2 /\ last.of[1] \in Fetching(plan) /\ last.of[2] \in Fetching(plan)
    BY <1>1, <1>3 DEF WellFormed, StepsOf
  <2>3. /\ end \in S /\ end.act = "union" /\ Len(end.of) >= 2
        /\ end.of[1] = last.of[1] /\ end.of[2] = last.of[2]
    <3> DEFINE of == Append(last.of, "_session")
    <3>1. "_session" \in StepNames
      BY DEF StepNames
    <3>2. of \in Seq(StepNames) /\ Len(of) = Len(last.of) + 1 /\ Len(last.of) \in Nat
      BY <2>2, <3>1, AppendProperties, LenProperties
    <3>3. of[1] = last.of[1] /\ of[2] = last.of[2]
      BY <2>2, <3>1, <3>2, AppendProperties
    <3>4. end = [last EXCEPT !.of = of]
      OBVIOUS
    <3> HIDE DEF of, end
    <3>5. end.of = of /\ end.act = last.act /\ end \in S
      BY <3>2, <3>4, <1>1 DEF StepsOf
    <3> QED
      BY <3>2, <3>3, <3>5, <2>2, <1>3
  <2>4. Front(plan) \in Seq(S) /\ Len(Front(plan)) = n - 1 /\ \A k \in 1..(n - 1) : Front(plan)[k] = plan[k]
    BY <1>1, <2>1 DEF Front
  <2>5. new = Front(plan) \o <<session, end>>
    BY <1>3 DEF WithSession
  <2> HIDE DEF end, session, S, n, new
  <2>6. <<session, end>> \in Seq(S) /\ Len(<<session, end>>) = 2 /\ <<session, end>>[1] = session /\ <<session, end>>[2] = end
    BY <1>2, <2>3
  <2>7. /\ new \in Seq(S) /\ Len(new) = n + 1
        /\ \A k \in 1..(n + 1) : new[k] = IF k <= n - 1 THEN Front(plan)[k] ELSE <<session, end>>[k - (n - 1)]
    <3>1. n - 1 + 2 = n + 1
      BY <1>1
    <3> QED
      BY <3>1, <2>4, <2>5, <2>6, ConcatProperties
  <2>8. new[n] = session /\ new[n + 1] = end /\ \A k \in 1..(n - 1) : new[k] = plan[k]
    <3>1. n \in 1..(n + 1) /\ ~(n <= n - 1) /\ n - (n - 1) = 1
      BY <1>1
    <3>2. n + 1 \in 1..(n + 1) /\ ~(n + 1 <= n - 1) /\ n + 1 - (n - 1) = 2
      BY <1>1
    <3>3. \A k \in 1..(n - 1) : k \in 1..(n + 1) /\ k <= n - 1
      BY <1>1
    <3>4. new[n] = <<session, end>>[1]
      BY <2>7, <3>1
    <3>5. new[n + 1] = <<session, end>>[2]
      <4>1. ASSUME NEW k, k = n + 1, k \in 1..(n + 1), ~(k <= n - 1), k - (n - 1) = 2
            PROVE  new[k] = <<session, end>>[2]
        BY <2>7, <4>1
      <4>2. PICK k : k = n + 1
        OBVIOUS
      <4>3. k \in 1..(n + 1) /\ ~(k <= n - 1) /\ k - (n - 1) = 2
        BY <4>2, <1>1
      <4>4. new[k] = <<session, end>>[2]
        BY <4>1, <4>2, <4>3
      <4> QED
        BY <4>2, <4>4
    <3>6. \A k \in 1..(n - 1) : new[k] = plan[k]
      BY <2>4, <2>7, <3>3
    <3> QED
      BY <2>6, <3>4, <3>5, <3>6
  <2>9. DOMAIN new = 1..(n + 1)
    BY <2>7, <1>1
  <2>10. Fetching(plan) \subseteq Fetching(new)
    <3>1. ASSUME NEW k \in 1..n, plan[k].act \notin {"union", "timeline"} PROVE k \in 1..(n - 1)
      BY <3>1, <1>3, <1>1 DEF n
    <3> QED
      BY <3>1, <2>8, <2>9, <1>1 DEF Fetching
  <2>11. new # <<>> /\ new[1] = plan[1]
    BY <2>7, <2>8, <2>1, <1>1
  <2>12. ASSUME NEW k \in 1..(n + 1), new[k].act = "union"
         PROVE  Len(new[k].of) >= 2 /\ new[k].of[1] \in Fetching(new) /\ new[k].of[2] \in Fetching(new)
    <3>1. CASE k \in 1..(n - 1)
      BY <3>1, <2>8, <2>10, <2>12, <1>1 DEF WellFormed
    <3>2. CASE k = n
      BY <3>2, <2>8, <2>12 DEF session, Step
    <3>3. CASE k = n + 1
      BY <3>3, <2>8, <2>2, <2>3, <2>10
    <3> QED
      BY <3>1, <3>2, <3>3, <1>1
  <2>13. WellFormed(new)
    BY <2>9, <2>10, <2>11, <2>12 DEF WellFormed
  <2> QED
    BY <2>7, <2>13 DEF new, S
<1>4. CASE last.act # "union"
  <2> DEFINE end == Step("_combined", "union", <<plan[1].id, "_session">>)
             new == WithSession(plan)
  <2>1. new = plan \o <<session, end>>
    BY <1>4 DEF WithSession
  <2>2. plan[1].id \in StepNames
    BY <1>1 DEF StepsOf
  <2>3. /\ end \in S /\ end.act = "union" /\ Len(end.of) = 2
        /\ end.of[1] = plan[1].id /\ end.of[2] = "_session"
    BY <2>2 DEF Step, StepsOf, StepNames, Acts
  <2>4. session.id = "_session" /\ session.act = "filter"
    BY DEF Step
  <2> HIDE DEF end, session, S, n, new
  <2>6. <<session, end>> \in Seq(S) /\ Len(<<session, end>>) = 2 /\ <<session, end>>[1] = session /\ <<session, end>>[2] = end
    BY <1>2, <2>3
  <2>7. new \in Seq(S) /\ Len(new) = n + 2
    BY <2>1, <2>6, <1>1 DEF n, S
  <2>8. new[n + 1] = session /\ new[n + 2] = end /\ \A k \in 1..n : new[k] = plan[k]
    BY <2>1, <2>6, <1>1 DEF n, S
  <2>9. DOMAIN new = 1..(n + 2)
    BY <2>7, <1>1
  <2>10. Fetching(plan) \subseteq Fetching(new) /\ "_session" \in Fetching(new)
    <3>1. n + 1 \in DOMAIN new /\ new[n + 1].id = "_session" /\ new[n + 1].act \notin {"union", "timeline"}
      BY <2>4, <2>8, <2>9, <1>1
    <3>2. 1..n \subseteq DOMAIN new
      BY <2>9, <1>1
    <3> QED
      BY <3>1, <3>2, <2>8, <1>1 DEF Fetching
  <2>11. new # <<>> /\ new[1] = plan[1]
    BY <2>7, <2>8, <1>1
  <2>12. ASSUME NEW k \in 1..(n + 2), new[k].act = "union"
         PROVE  Len(new[k].of) >= 2 /\ new[k].of[1] \in Fetching(new) /\ new[k].of[2] \in Fetching(new)
    <3>1. CASE k \in 1..n
      BY <3>1, <2>8, <2>10, <2>12, <1>1 DEF WellFormed
    <3>2. CASE k = n + 1
      BY <3>2, <2>8, <2>12, <2>4
    <3>3. CASE k = n + 2
      <4>1. plan[1].id \in Fetching(plan)
        BY DEF WellFormed
      <4> QED
        BY <3>3, <4>1, <2>8, <2>3, <2>10
    <3> QED
      BY <3>1, <3>2, <3>3, <1>1
  <2>13. WellFormed(new)
    <3>1. plan[1].id \in Fetching(plan)
      BY DEF WellFormed
    <3> QED
      BY <2>9, <2>10, <2>11, <2>12, <3>1 DEF WellFormed
  <2> QED
    BY <2>7, <2>13 DEF new, S
<1> QED
  BY <1>3, <1>4

\* The strips are a step at the end that fetches nothing.
LEMMA StripsFit ==
  ASSUME NEW ofs, NEW plan \in Seq(StepsOf(ofs)), WellFormed(plan), NEW r
  PROVE  IsPlan(Drawn(r, plan)) /\ WellFormed(Drawn(r, plan)) /\ Fetching(plan) \subseteq Fetching(Drawn(r, plan))
<1>1. CASE Drawn(r, plan) = plan
  BY <1>1 DEF IsPlan
<1>2. ASSUME NEW of, Drawn(r, plan) = Append(plan, Step("_timeline", "timeline", of))
      PROVE  IsPlan(Drawn(r, plan)) /\ WellFormed(Drawn(r, plan)) /\ Fetching(plan) \subseteq Fetching(Drawn(r, plan))
  <2> DEFINE n == Len(plan)
             S == StepsOf(ofs \cup {of})
             end == Step("_timeline", "timeline", of)
             new == Drawn(r, plan)
  <2>1. end \in S /\ end.act = "timeline"
    BY DEF Step, StepsOf, StepNames, Acts
  <2>2. StepsOf(ofs) \subseteq S
    BY DEF StepsOf
  <2> HIDE DEF S, end, new
  <2>3. plan \in Seq(S)
    BY <2>2, SeqMonotonic
  <2>4. n \in Nat \ {0} /\ DOMAIN plan = 1..n
    BY DEF WellFormed
  <2>5. new = Append(plan, end)
    BY <1>2 DEF new, end
  <2>6. new \in Seq(S) /\ DOMAIN new = 1..(n + 1) /\ new[n + 1] = end /\ \A k \in 1..n : new[k] = plan[k]
    BY <2>1, <2>3, <2>4, <2>5
  <2>7. Fetching(plan) \subseteq Fetching(new)
    <3>1. 1..n \subseteq DOMAIN new
      BY <2>4, <2>6
    <3> QED
      BY <3>1, <2>4, <2>6 DEF Fetching
  <2>8. \A k \in 1..(n + 1) : new[k].act = "union" => k \in 1..n
    BY <2>1, <2>4, <2>6
  <2>9. new # <<>> /\ new[1] = plan[1]
    BY <2>4, <2>6
  <2>10. WellFormed(new)
    BY <2>4, <2>6, <2>7, <2>8, <2>9 DEF WellFormed
  <2>11. IsPlan(new)
    BY <2>6 DEF IsPlan, S
  <2> QED
    BY <2>7, <2>10, <2>11 DEF new
<1>3. Drawn(r, plan) = plan \/ \E of : Drawn(r, plan) = Append(plan, Step("_timeline", "timeline", of))
  BY DEF Drawn, WithTimeline
<1> QED
  BY <1>1, <1>2, <1>3

LEMMA RootFits ==
  /\ <<Root>> \in Seq(StepsOf({<<>>})) /\ WellFormed(<<Root>>) /\ "root" \in Fetching(<<Root>>)
<1>1. Root \in StepsOf({<<>>}) /\ Root.id = "root" /\ Root.act = "search"
  BY DEF Root, Step, StepsOf, StepNames, Acts
<1>2. DOMAIN <<Root>> = {1} /\ <<Root>>[1] = Root
  OBVIOUS
<1>3. "root" \in Fetching(<<Root>>)
  BY <1>1, <1>2 DEF Fetching
<1> QED
  BY <1>1, <1>2, <1>3 DEF WellFormed
-----------------------------------------------------------------------------
LEMMA IdleIsBlank ==
  /\ NoRecall \in CallStates({<<>>}) /\ NoRecall.plan = <<>> /\ NoRecall.shown = <<>> /\ NoRecall.index = {} /\ NoRecall.since = 0
  /\ NoRecall.pc = "idle" /\ NoRecall.whole
<1>1. <<>> \in Seq(ShownSteps)
  OBVIOUS
<1> QED
  BY <1>1 DEF NoRecall, CallStates, Phases

LEMMA DoneIsFine ==
  ASSUME NEW r, NEW mem, NEW now \in Nat, CallInv(r, mem, now)
  PROVE  CallInv([r EXCEPT !.pc = "answers"], mem, now)
<1> DEFINE q == [r EXCEPT !.pc = "answers"]
<1>1. r \in CallStates({r.plan})
  BY DEF CallInv
<1>2. q \in CallStates({r.plan}) /\ q.plan = r.plan /\ q.shown = r.shown /\ q.index = r.index /\ q.since = r.since /\ q.pc = "answers"
  BY <1>1 DEF CallStates, Phases
<1> HIDE DEF q
<1>3. ShownInv(q, mem) /\ IndexInv(q, mem, now) /\ AncestorsInv(q, mem) /\ PlanInv(q)
  BY <1>2 DEF CallInv, ShownInv, IndexInv, AncestorsInv, PlanInv
<1> QED
  BY <1>2, <1>3 DEF CallInv, q

LEMMA BlankIsFine ==
  ASSUME NEW q, IsBlank(q), PlanInv(q), NEW mem, NEW now \in Nat
  PROVE  CallInv(q, mem, now)
<1>1. DOMAIN q.shown = {} /\ RowsShown(q.shown) = {}
  BY DEF IsBlank, RowsShown
<1>2. ShownInv(q, mem)
  BY <1>1 DEF ShownInv
<1>3. IndexInv(q, mem, now)
  BY DEF IndexInv, IsBlank, AreIn
<1>4. AncestorsInv(q, mem)
  BY DEF AncestorsInv, IsBlank
<1> QED
  BY <1>2, <1>3, <1>4 DEF CallInv, IsBlank

LEMMA ShallowFits ==
  ASSUME NEW q, IsBlank(q)
  PROVE  IsBlank(Shallow(q)) /\ PlanInv(Shallow(q))
<1> DEFINE plan == Drawn(q, <<Root>>)
<1>1. IsPlan(plan) /\ WellFormed(plan) /\ "root" \in Fetching(plan)
  BY RootFits, StripsFit
<1>2. Shallow(q) = [q EXCEPT !.pc = "executes", !.deep = FALSE, !.plan = plan]
  BY DEF Shallow
<1> HIDE DEF plan
<1> QED
  BY <1>1, <1>2 DEF IsBlank, CallStates, Phases, PlanInv

LEMMA AskIsKept ==
  ASSUME RecallInv, NEW s \in Recalls, NEW deep \in BOOLEAN, NEW armed \in BOOLEAN, NEW talk \in BOOLEAN,
         NEW view \in {"timeline", "deltas"}, AskRecall(s, deep, armed, talk, view)
  PROVE  \E q : SetRecall(s, q) /\ CallInv(q, memories, minute)
<1> DEFINE r == [NoRecall EXCEPT !.pc = "plans", !.deep = deep, !.armed = armed, !.talk = talk, !.view = view]
<1>1. r \in CallStates({<<>>}) /\ r.plan = <<>> /\ r.shown = <<>> /\ r.index = {} /\ r.since = 0 /\ r.pc = "plans" /\ r.deep = deep
  <2>1. NoRecall \in CallStates({<<>>})
    BY IdleIsBlank
  <2>2. r \in CallStates({<<>>})
    BY <2>1 DEF CallStates, Phases
  <2>3. /\ r.plan = NoRecall.plan /\ r.shown = NoRecall.shown /\ r.index = NoRecall.index /\ r.since = NoRecall.since
        /\ r.pc = "plans"
    BY <2>1 DEF CallStates
  <2>4. r.deep = deep
    BY <2>1 DEF CallStates
  <2> QED
    BY <2>2, <2>3, <2>4, IdleIsBlank
<1>2. SetRecall(s, IF deep THEN r ELSE Shallow(r))
  BY DEF AskRecall
<1> HIDE DEF r
<1>3. IsBlank(r) /\ (deep => PlanInv(r))
  BY <1>1 DEF IsBlank, PlanInv
<1>4. IsBlank(Shallow(r)) /\ PlanInv(Shallow(r))
  BY <1>3, ShallowFits
<1>5. (deep => CallInv(r, memories, minute)) /\ CallInv(Shallow(r), memories, minute)
  BY <1>3, <1>4, BlankIsFine DEF RecallInv
<1> QED
  BY <1>2, <1>5

LEMMA NoPlanIsKept ==
  ASSUME RecallInv, NEW s \in Recalls, NoPlan(s)
  PROVE  \E q : SetRecall(s, q) /\ CallInv(q, memories, minute)
<1>1. minute \in Nat /\ CallInv(recalls[s], memories, minute) /\ recalls[s].pc = "plans" /\ SetRecall(s, Shallow(recalls[s]))
  BY DEF RecallInv, NoPlan
<1>2. IsBlank(recalls[s])
  BY <1>1 DEF CallInv, PlanInv
<1>3. CallInv(Shallow(recalls[s]), memories, minute)
  BY <1>1, <1>2, ShallowFits, BlankIsFine
<1> QED
  BY <1>1, <1>3

LEMMA PlannedIsKept ==
  ASSUME RecallInv, NEW s \in Recalls, NEW plan \in Plans, Planned(s, plan)
  PROVE  \E q : SetRecall(s, q) /\ CallInv(q, memories, minute)
<1> DEFINE r == recalls[s]
           asked == IF r.talk THEN WithSession(plan) ELSE plan
           drawn == Drawn(r, asked)
           q == [r EXCEPT !.pc = "executes", !.plan = drawn]
<1>1. plan \in Seq(StepsOf(Seq(StepNames))) /\ WellFormed(plan)
  <2> DEFINE S == [id : STRING, act : STRING, of : Seq(STRING)]
  <2>1. S \subseteq StepsOf(Seq(StepNames))
    <3>1. Seq(STRING) \subseteq Seq(StepNames)
      BY SeqMonotonic DEF StepNames
    <3> QED
      BY <3>1 DEF StepsOf, StepNames, Acts
  <2>2. plan \in Seq(S) /\ WellFormed(plan)
    BY RecallBounds
  <2> HIDE DEF S
  <2> QED
    BY <2>1, <2>2, SeqMonotonic
<1>2. asked \in Seq(StepsOf(Seq(StepNames))) /\ WellFormed(asked)
  BY <1>1, SessionFits
<1>3. SetRecall(s, q) /\ r.pc = "plans"
  BY DEF Planned
<1> HIDE DEF asked
<1>4. IsPlan(drawn) /\ WellFormed(drawn)
  BY <1>2, StripsFit
<1>5. minute \in Nat /\ CallInv(r, memories, minute)
  BY DEF RecallInv
<1>6. IsBlank(r) /\ r.deep
  BY <1>3, <1>5 DEF CallInv, PlanInv
<1> HIDE DEF drawn
<1>7. /\ q \in CallStates({drawn}) /\ q.plan = drawn /\ q.shown = r.shown /\ q.index = r.index /\ q.since = r.since
      /\ q.pc = "executes" /\ q.deep
  BY <1>6 DEF IsBlank, CallStates, Phases
<1> HIDE DEF q
<1>8. IsBlank(q) /\ PlanInv(q)
  BY <1>4, <1>6, <1>7 DEF IsBlank, PlanInv
<1>9. CallInv(q, memories, minute)
  BY <1>5, <1>8, BlankIsFine
<1> QED
  BY <1>3, <1>9
-----------------------------------------------------------------------------
\* What a step is answered with are rows of the lake.
LEMMA PayloadIsThere ==
  ASSUME NEW plan, WellFormed(plan), NEW k \in DOMAIN plan, NEW rows, NEW found \in [Fetching(plan) -> SUBSET rows]
  PROVE  Payload(plan[k], found) \subseteq rows
<1>1. CASE plan[k].act = "union"
  BY <1>1 DEF Payload, WellFormed
<1>2. CASE plan[k].act = "timeline"
  BY <1>2 DEF Payload
<1>3. CASE plan[k].act \notin {"union", "timeline"}
  <2>1. plan[k].id \in Fetching(plan)
    BY <1>3 DEF Fetching
  <2>2. found[plan[k].id] \subseteq rows
    BY <2>1
  <2> QED
    BY <1>3, <2>2 DEF Payload
<1> QED
  BY <1>1, <1>2, <1>3

LEMMA CleanedIsShown ==
  ASSUME NEW plan, IsPlan(plan), WellFormed(plan), NEW rows \in SUBSET Nat, NEW found \in [Fetching(plan) -> SUBSET rows]
  PROVE  /\ Cleaned(plan, found) \in Seq(ShownSteps) /\ RowsShown(Cleaned(plan, found)) \subseteq rows
         /\ \A i, j \in DOMAIN Cleaned(plan, found) :
              i # j => Cleaned(plan, found)[i].rows \cap Cleaned(plan, found)[j].rows = {}
<1> DEFINE P(k) == Payload(plan[k], found)
           R(k) == P(k) \ (OwnTurns \cup UNION {P(j) : j \in 1..(k - 1)})
           shown == [k \in DOMAIN plan |-> [id |-> plan[k].id, rows |-> R(k)]]
<1>1. Cleaned(plan, found) = shown
  BY DEF Cleaned
<1>2. PICK ofs : plan \in Seq(StepsOf(ofs))
  BY DEF IsPlan
<1>3. DOMAIN plan = 1..Len(plan) /\ Len(plan) \in Nat /\ \A k \in DOMAIN plan : plan[k].id \in StepNames
  <2>1. Len(plan) \in Nat /\ DOMAIN plan = 1..Len(plan)
    BY <1>2, LenProperties
  <2>2. \A k \in DOMAIN plan : plan[k] \in StepsOf(ofs)
    BY <1>2, <2>1, ElementOfSeq
  <2> QED
    BY <2>1, <2>2 DEF StepsOf
<1>4. \A k \in DOMAIN plan : P(k) \subseteq rows
  BY PayloadIsThere
<1>5. \A k \in DOMAIN plan : R(k) \subseteq rows /\ R(k) \subseteq P(k)
  BY <1>4
<1>6. ASSUME NEW i \in DOMAIN plan, NEW j \in DOMAIN plan, i < j
      PROVE  R(i) \cap R(j) = {}
  <2>1. i \in 1..(j - 1)
    BY <1>3, <1>6
  <2>2. R(j) \cap P(i) = {}
    BY <2>1
  <2> QED
    BY <2>2
<1> HIDE DEF R, P
<1>7. shown \in Seq(ShownSteps)
  <2>1. shown \in [1..Len(plan) -> ShownSteps]
    BY <1>3, <1>5 DEF ShownSteps
  <2> QED
    BY <2>1, <1>3, SeqDef
<1>8. RowsShown(shown) \subseteq rows
  BY <1>5 DEF RowsShown
<1>9. ASSUME NEW i \in DOMAIN plan, NEW j \in DOMAIN plan, i # j
      PROVE  R(i) \cap R(j) = {}
  <2>1. i < j \/ j < i
    BY <1>3, <1>9
  <2> QED
    BY <2>1, <1>6
<1>10. DOMAIN shown = DOMAIN plan /\ \A k \in DOMAIN plan : shown[k].rows = R(k)
  OBVIOUS
<1> QED
  BY <1>1, <1>7, <1>8, <1>9, <1>10
-----------------------------------------------------------------------------
\* A recall that has shown something and has no index yet.
LEMMA FreshIsFine ==
  ASSUME NEW q, q \in CallStates({q.plan}), q.index = {}, q.since = 0, q.pc \in {"descends", "answers"},
         NEW mem, ShownInv(q, mem), NEW now \in Nat
  PROVE  CallInv(q, mem, now)
<1>1. IndexInv(q, mem, now) /\ AncestorsInv(q, mem) /\ PlanInv(q)
  BY DEF IndexInv, AncestorsInv, PlanInv, AreIn
<1> QED
  BY <1>1 DEF CallInv

LEMMA ExecutedIsKept ==
  ASSUME RecallInv, NEW s \in Recalls, NEW found \in [Fetching(recalls[s].plan) -> SUBSET Ids], NEW near,
         Executed(s, found, near)
  PROVE  \E q : SetRecall(s, q) /\ CallInv(q, memories, minute)
<1> DEFINE r == recalls[s]
           shown == Cleaned(r.plan, found)
           rows == IF r.armed THEN found["root"] \cap near ELSE found["root"]
           flat == Flat(rows)
           heard == (Came(r.plan, found) \ OwnTurns) \cap near # {}
           silent == [NoRecall EXCEPT !.pc = "answers", !.silenced = heard]
           goes == [NoRecall EXCEPT !.pc = "descends", !.deep = r.deep, !.shown = shown]
<1>1. /\ minute \in Nat /\ Ids = 1..Len(memories) /\ Ids \in SUBSET Nat /\ CallInv(r, memories, minute) /\ r.pc = "executes"
      /\ r.deep \in BOOLEAN
  BY DEF RecallInv, LakeInv, Executed, Ids, CallInv, CallStates
<1>2. IsPlan(r.plan) /\ WellFormed(r.plan) /\ (~r.deep => "root" \in Fetching(r.plan))
  BY <1>1 DEF CallInv, PlanInv
<1>3. \/ ~r.deep /\ SetRecall(s, flat)
      \/ SetRecall(s, silent)
      \/ SetRecall(s, goes)
  BY DEF Executed, Flat
<1>4. NoRecall \in CallStates({<<>>}) /\ NoRecall.plan = <<>> /\ NoRecall.shown = <<>> /\ NoRecall.index = {} /\ NoRecall.since = 0
  BY IdleIsBlank
<1>5. ~r.deep => CallInv(flat, memories, minute)
  <2> DEFINE shownStep == [id |-> "root", rows |-> rows]
  <2>1. SUFFICES ASSUME ~r.deep PROVE CallInv(flat, memories, minute)
    OBVIOUS
  <2>2. rows \subseteq Ids
    <3>1. found["root"] \subseteq Ids
      BY <2>1, <1>2
    <3> QED
      BY <3>1
  <2> HIDE DEF rows
  <2>3. shownStep \in ShownSteps
    BY <1>1, <2>2 DEF ShownSteps, StepNames
  <2>4. flat = [NoRecall EXCEPT !.pc = "answers", !.view = "deltas", !.shown = <<shownStep>>]
    BY DEF Flat
  <2>5. shownStep.rows = rows
    OBVIOUS
  <2> HIDE DEF shownStep, flat
  <2>6. <<shownStep>> \in Seq(ShownSteps) /\ DOMAIN <<shownStep>> = {1} /\ <<shownStep>>[1] = shownStep
    BY <2>3
  <2>7. flat \in CallStates({<<>>})
    BY <1>4, <2>4, <2>6 DEF CallStates, Phases
  <2>8. flat.plan = <<>> /\ flat.index = {} /\ flat.since = 0 /\ flat.shown = <<shownStep>> /\ flat.pc = "answers"
    BY <1>4, <2>4 DEF CallStates
  <2>9. ShownInv(flat, memories)
    <3>1. RowsShown(flat.shown) = rows
      BY <2>5, <2>6, <2>8 DEF RowsShown
    <3>2. DOMAIN flat.shown = {1}
      BY <2>6, <2>8
    <3> QED
      BY <1>1, <2>2, <3>1, <3>2 DEF ShownInv
  <2> QED
    BY <1>1, <2>7, <2>8, <2>9, FreshIsFine
<1>6. CallInv(silent, memories, minute)
  <2> HIDE DEF heard
  <2>1. heard \in BOOLEAN
    BY DEF heard
  <2>2. silent \in CallStates({<<>>})
    BY <1>4, <2>1 DEF CallStates, Phases
  <2>3. silent.plan = <<>> /\ silent.index = {} /\ silent.since = 0 /\ silent.shown = <<>> /\ silent.pc = "answers"
    BY <1>4 DEF CallStates
  <2> HIDE DEF silent
  <2>4. IsBlank(silent) /\ PlanInv(silent)
    BY <2>2, <2>3 DEF IsBlank, PlanInv
  <2> QED
    BY <1>1, <2>4, BlankIsFine
<1>7. CallInv(goes, memories, minute)
  <2>1. /\ shown \in Seq(ShownSteps) /\ RowsShown(shown) \subseteq Ids
        /\ \A i, j \in DOMAIN shown : i # j => shown[i].rows \cap shown[j].rows = {}
    BY <1>1, <1>2, CleanedIsShown
  <2> HIDE DEF shown
  <2>2. goes \in CallStates({<<>>})
    BY <1>1, <1>4, <2>1 DEF CallStates, Phases
  <2>3. goes.plan = <<>> /\ goes.index = {} /\ goes.since = 0 /\ goes.shown = shown /\ goes.pc = "descends"
    BY <1>4 DEF CallStates
  <2> HIDE DEF goes
  <2>4. ShownInv(goes, memories)
    BY <1>1, <2>1, <2>3 DEF ShownInv
  <2> QED
    BY <1>1, <2>2, <2>3, <2>4, FreshIsFine
<1> QED
  BY <1>3, <1>5, <1>6, <1>7

LEMMA LeavingIsKept ==
  ASSUME RecallInv, NEW s \in Recalls, NotExecuted(s) \/ RecallReturns(s)
  PROVE  \E q : SetRecall(s, q) /\ CallInv(q, memories, minute)
<1> DEFINE none == [NoRecall EXCEPT !.pc = "answers"]
<1>1. /\ NoRecall \in CallStates({<<>>}) /\ NoRecall.plan = <<>> /\ NoRecall.shown = <<>> /\ NoRecall.index = {} /\ NoRecall.since = 0
      /\ NoRecall.pc = "idle"
  BY IdleIsBlank
<1>2. none \in CallStates({<<>>})
  BY <1>1 DEF CallStates, Phases
<1>3. none.plan = <<>> /\ none.index = {} /\ none.since = 0 /\ none.shown = <<>> /\ none.pc = "answers"
  BY <1>1 DEF CallStates
<1>4. SetRecall(s, none) \/ SetRecall(s, NoRecall)
  BY DEF NotExecuted, RecallReturns
<1> HIDE DEF none
<1>5. IsBlank(none) /\ PlanInv(none) /\ IsBlank(NoRecall) /\ PlanInv(NoRecall)
  BY <1>1, <1>2, <1>3 DEF IsBlank, PlanInv
<1> QED
  BY <1>4, <1>5, BlankIsFine DEF RecallInv
-----------------------------------------------------------------------------
ShowsAs(r, id, rows, shown) ==
  /\ Shows(r, id, rows) = [r EXCEPT !.shown = shown]
  /\ \A i, j \in DOMAIN shown : i # j => shown[i].rows \cap shown[j].rows = {}
  /\ RowsShown(shown) = RowsShown(r.shown) \cup rows
  /\ id = "_ascendance" => FoundIn(shown) \subseteq RowsShown(r.shown)

\* Rows that were not shown are shown in a step of their own.
LEMMA ShowsMore ==
  ASSUME NEW r, NEW plan, r \in CallStates({plan}), NEW mem \in Seq(MemoryStates), ShownInv(r, mem), NEW id \in StepNames,
         NEW rows \in SUBSET (1..Len(mem)), rows \cap RowsShown(r.shown) = {}
  PROVE  \E shown \in Seq(ShownSteps) : ShowsAs(r, id, rows, shown)
<1>1. r.shown \in Seq(ShownSteps) /\ r = [r EXCEPT !.shown = r.shown]
  BY DEF CallStates
<1>2. FoundIn(r.shown) \subseteq RowsShown(r.shown)
  BY DEF FoundIn, RowsShown, ToSet
<1>3. CASE rows = {}
  <2>1. Shows(r, id, rows) = r
    BY <1>3 DEF Shows
  <2> QED
    BY <1>1, <1>2, <1>3, <2>1 DEF ShownInv, ShowsAs
<1>4. CASE rows # {}
  <2> DEFINE old == r.shown
             n == Len(old)
             shownStep == [id |-> id, rows |-> rows]
             shown == Append(old, shownStep)
  <2>1. Shows(r, id, rows) = [r EXCEPT !.shown = shown]
    BY <1>4 DEF Shows
  <2>2. shownStep \in ShownSteps /\ shownStep.id = id /\ shownStep.rows = rows
    BY DEF ShownSteps
  <2>3. n \in Nat /\ DOMAIN old = 1..n
    BY <1>1, LenProperties
  <2> HIDE DEF shownStep, n, old
  <2>4. /\ shown \in Seq(ShownSteps) /\ Len(shown) = n + 1
        /\ \A i \in 1..n : shown[i] = old[i]
        /\ shown[n + 1] = shownStep
    BY <1>1, <2>2, AppendProperties DEF n, old
  <2> HIDE DEF shown
  <2>5. DOMAIN shown = 1..(n + 1) /\ 1..(n + 1) = 1..n \cup {n + 1} /\ n + 1 \notin 1..n
    BY <2>3, <2>4, LenProperties
  <2>6. RowsShown(shown) = RowsShown(old) \cup rows
    BY <2>2, <2>3, <2>4, <2>5 DEF RowsShown
  <2>7. ASSUME NEW i \in DOMAIN shown, NEW j \in DOMAIN shown, i # j
        PROVE  shown[i].rows \cap shown[j].rows = {}
    <3>1. \A k \in 1..n : shown[k].rows \subseteq RowsShown(old)
      BY <2>3, <2>4 DEF RowsShown
    <3>2. CASE i \in 1..n /\ j \in 1..n
      BY <3>2, <2>3, <2>4, <2>7 DEF ShownInv, old
    <3>3. CASE i = n + 1 /\ j \in 1..n
      BY <3>1, <3>3, <2>2, <2>4 DEF old
    <3>4. CASE j = n + 1 /\ i \in 1..n
      BY <3>1, <3>4, <2>2, <2>4 DEF old
    <3> QED
      BY <3>2, <3>3, <3>4, <2>5, <2>7
  <2>8. id = "_ascendance" => FoundIn(shown) \subseteq RowsShown(old)
    <3>1. SUFFICES ASSUME id = "_ascendance", NEW k \in DOMAIN shown, shown[k].id # "_ascendance"
                   PROVE  shown[k].rows \subseteq RowsShown(old)
      BY DEF FoundIn, ToSet
    <3>2. k \in 1..n
      BY <3>1, <2>2, <2>4, <2>5
    <3> QED
      BY <3>2, <2>3, <2>4 DEF RowsShown
  <2> QED
    BY <2>1, <2>4, <2>6, <2>7, <2>8 DEF old, ShowsAs
<1> QED
  BY <1>3, <1>4

\* What an action keeps of a recall that shows more or goes on.
LEMMA DescendIsKept ==
  ASSUME RecallInv, NEW s \in Recalls, Descend(s)
  PROVE  \E q : SetRecall(s, q) /\ CallInv(q, memories, minute)
<1> DEFINE r == recalls[s]
           refs == (UNION {memories[i].cites : i \in SeenBy(s) \cap Summaries}) \ SeenBy(s)
           Goes(got) == [Shows(r, "_provenance", got) EXCEPT !.pc = "loads", !.clean = (got = refs)]
           fails == [r EXCEPT !.pc = "loads", !.clean = FALSE]
<1>1. r.pc = "descends" /\ ((\E got \in Some(refs, MostCited) : SetRecall(s, Goes(got))) \/ SetRecall(s, fails))
  BY Zenon DEF Descend
<1>2. /\ minute \in Nat /\ LakeInv(memories) /\ memories \in Seq(MemoryStates) /\ CallInv(r, memories, minute)
  BY DEF RecallInv, LakeInv
<1>3. r \in CallStates({r.plan}) /\ ShownInv(r, memories) /\ IndexInv(r, memories, minute)
  BY <1>2 DEF CallInv
<1>4. SeenBy(s) = RowsShown(r.shown)
  BY DEF SeenBy
<1>5. refs \in SUBSET (1..Len(memories)) /\ refs \cap RowsShown(r.shown) = {}
  <2>1. \A i \in Summaries : memories[i].cites \subseteq 1..Len(memories)
    BY <1>2 DEF LakeInv, Summaries, Ids
  <2>2. ASSUME NEW x \in refs PROVE x \in 1..Len(memories) /\ x \notin RowsShown(r.shown)
    <3>1. PICK i \in SeenBy(s) \cap Summaries : x \in memories[i].cites
      BY <2>2
    <3>2. x \notin SeenBy(s)
      BY <2>2
    <3>3. memories[i].cites \subseteq 1..Len(memories)
      BY <2>1
    <3> QED
      BY <1>4, <3>1, <3>2, <3>3
  <2> QED
    BY <2>2
<1> HIDE DEF refs
<1>6. \A got \in Some(refs, MostCited) : got \in SUBSET refs
  BY DEF Some
<1>7. ASSUME NEW got \in SUBSET refs
      PROVE  CallInv(Goes(got), memories, minute)
  <2> DEFINE clean == (got = refs)
             q == Goes(got)
  <2>0. PICK shown \in Seq(ShownSteps) : ShowsAs(r, "_provenance", got, shown)
    <3>1. got \in SUBSET (1..Len(memories)) /\ got \cap RowsShown(r.shown) = {}
      BY <1>5
    <3>2. "_provenance" \in StepNames
      BY DEF StepNames
    <3> QED
      BY <1>2, <1>3, <3>1, <3>2, ShowsMore
  <2>1. /\ Shows(r, "_provenance", got) = [r EXCEPT !.shown = shown]
        /\ \A i, j \in DOMAIN shown : i # j => shown[i].rows \cap shown[j].rows = {}
        /\ RowsShown(shown) = RowsShown(r.shown) \cup got
    BY <2>0 DEF ShowsAs
  <2>2. clean \in BOOLEAN
    OBVIOUS
  <2>3. q = [[r EXCEPT !.shown = shown] EXCEPT !.pc = "loads", !.clean = clean]
    BY <2>1
  <2> HIDE DEF q, clean
  <2>4. /\ q \in CallStates({r.plan}) /\ q.plan = r.plan /\ q.pc = "loads" /\ q.shown = shown /\ q.since = r.since /\ q.index = r.index
    BY <1>3, <2>2, <2>3 DEF CallStates, Phases
  <2>5. ShownInv(q, memories)
    BY <1>3, <1>5, <2>1, <2>4 DEF ShownInv
  <2>6. IndexInv(q, memories, minute) /\ AncestorsInv(q, memories) /\ PlanInv(q)
    BY <1>3, <2>4 DEF IndexInv, AncestorsInv, PlanInv
  <2>7. CallInv(q, memories, minute)
    BY <2>4, <2>5, <2>6 DEF CallInv
  <2> QED
    BY <2>7 DEF q
<1>8. CallInv(fails, memories, minute)
  <2>1. /\ fails \in CallStates({r.plan}) /\ fails.plan = r.plan /\ fails.pc = "loads" /\ fails.shown = r.shown
        /\ fails.since = r.since /\ fails.index = r.index
    BY <1>3 DEF CallStates, Phases
  <2> HIDE DEF fails
  <2>2. ShownInv(fails, memories) /\ IndexInv(fails, memories, minute) /\ AncestorsInv(fails, memories) /\ PlanInv(fails)
    BY <1>3, <2>1 DEF ShownInv, IndexInv, AncestorsInv, PlanInv
  <2> QED
    BY <2>1, <2>2 DEF CallInv
<1> HIDE DEF Goes, fails
<1> QED
  BY <1>1, <1>6, <1>7, <1>8

\* The shared index is young: what it lacks is younger than the index may be.
LEMMA LoadIsKept ==
  ASSUME RecallInv, NEW s \in Recalls, LoadIndex(s)
  PROVE  \E q : SetRecall(s, q) /\ CallInv(q, memories, minute)
<1> DEFINE r == recalls[s]
           cached == [r EXCEPT !.pc = "ascends", !.index = parents.pairs, !.since = minute, !.whole = parents.whole]
           reads == [r EXCEPT !.pc = "provenance", !.since = minute]
           young == parents.pairs # {} /\ minute - parents.at < IndexLife
<1>1. /\ minute \in Nat /\ memories \in Seq(MemoryStates) /\ CallInv(r, memories, minute) /\ r.pc = "loads"
      /\ r \in CallStates({r.plan}) /\ ShownInv(r, memories) /\ IndexInv(r, memories, minute)
      /\ ParentsInv(parents, memories, minute)
  BY DEF RecallInv, LakeInv, LoadIndex, CallInv
<1>2. parents.pairs \in SUBSET (Nat \X Nat) /\ parents.at \in Nat /\ parents.whole \in BOOLEAN /\ AreIn(parents.pairs, memories)
  BY <1>1 DEF ParentsInv
<1>3. SetRecall(s, IF young THEN cached ELSE reads)
  BY DEF LoadIndex
<1>4. ASSUME young PROVE CallInv(cached, memories, minute)
  <2>1. /\ cached \in CallStates({r.plan}) /\ cached.plan = r.plan /\ cached.pc = "ascends" /\ cached.shown = r.shown
        /\ cached.index = parents.pairs /\ cached.since = minute /\ cached.whole = parents.whole
    BY <1>1, <1>2 DEF CallStates, Phases
  <2> HIDE DEF cached
  <2>2. ASSUME parents.whole PROVE Covers(memories, Cites, parents.pairs, minute - IndexLife + 1)
    <3>1. Covers(memories, Cites, parents.pairs, parents.at)
      BY <1>1, <2>2 DEF ParentsInv
    <3>2. minute - IndexLife + 1 <= parents.at /\ minute - IndexLife + 1 \in Int /\ parents.at \in Int
      BY <1>1, <1>2, <1>4, RecallBounds
    <3> QED
      BY <1>1, <3>1, <3>2, CoversLess
  <2>3. IndexInv(cached, memories, minute)
    BY <1>1, <1>2, <2>1, <2>2 DEF IndexInv
  <2>4. ShownInv(cached, memories) /\ AncestorsInv(cached, memories) /\ PlanInv(cached)
    BY <1>1, <2>1 DEF ShownInv, AncestorsInv, PlanInv
  <2> QED
    BY <2>1, <2>3, <2>4 DEF CallInv
<1>5. CallInv(reads, memories, minute)
  <2>1. /\ reads \in CallStates({r.plan}) /\ reads.plan = r.plan /\ reads.pc = "provenance" /\ reads.shown = r.shown
        /\ reads.index = r.index /\ reads.since = minute
    BY <1>1 DEF CallStates, Phases
  <2> HIDE DEF reads
  <2>2. ShownInv(reads, memories) /\ IndexInv(reads, memories, minute) /\ AncestorsInv(reads, memories) /\ PlanInv(reads)
    BY <1>1, <2>1 DEF ShownInv, IndexInv, AncestorsInv, PlanInv
  <2> QED
    BY <2>1, <2>2 DEF CallInv
<1> QED
  BY <1>3, <1>4, <1>5

\* What is read holds every summary of its kind that was there when the recall began to.
LEMMA ReadIsKept ==
  ASSUME RecallInv, NEW s \in Recalls, NEW ok \in BOOLEAN, ReadIndex(s, ok)
  PROVE  (\E q : SetRecall(s, q) /\ CallInv(q, memories, minute)) /\ ParentsInv(parents', memories, minute)
<1> DEFINE r == recalls[s]
           read == IF ok THEN Pairs(r.pc) ELSE {}
           index == r.index \cup read
           whole == r.whole /\ ok
           next == IF r.pc = "provenance" THEN "sediment" ELSE "ascends"
           q == [r EXCEPT !.pc = next, !.index = index, !.whole = whole]
<1>1. /\ minute \in Nat /\ memories \in Seq(MemoryStates) /\ CallInv(r, memories, minute) /\ r.pc \in {"provenance", "sediment"}
      /\ r \in CallStates({r.plan}) /\ ShownInv(r, memories) /\ IndexInv(r, memories, minute)
      /\ ParentsInv(parents, memories, minute) /\ LakeInv(memories)
  BY DEF RecallInv, LakeInv, ReadIndex, CallInv
<1>2. SetRecall(s, q)
  <2>1. [r EXCEPT !.pc = next, !.index = index, !.whole = @ /\ ok] = q
    OBVIOUS
  <2> QED
    BY <2>1 DEF ReadIndex
<1>3. parents' = IF r.pc = "sediment" THEN [pairs |-> index, at |-> r.since, whole |-> whole] ELSE parents
  BY DEF ReadIndex
<1>4. AreIn(read, memories) /\ Len(memories) \in Nat
  BY <1>1 DEF AreIn, Pairs, Ids
<1>5. whole \in BOOLEAN /\ r.since \in Nat /\ r.since <= minute /\ r.whole \in BOOLEAN
  BY <1>1 DEF CallStates, IndexInv
<1>6. whole => r.whole /\ read = Pairs(r.pc)
  OBVIOUS
<1>7. index \in SUBSET (Nat \X Nat) /\ AreIn(index, memories)
  BY <1>1, <1>4 DEF AreIn, IndexInv
<1>8. \A p \in 1..Len(memories) : memories[p].kind = r.pc => \A c \in memories[p].cites : <<c, p>> \in Pairs(r.pc)
  BY <1>1 DEF Pairs, LakeInv, Ids
<1>9. whole => Covers(memories, {r.pc}, index, r.since)
  BY <1>6, <1>8 DEF Covers
<1>10. whole /\ r.pc = "sediment" => Covers(memories, Cites, index, r.since)
  <2>1. SUFFICES ASSUME whole, r.pc = "sediment", NEW p \in 1..Len(memories), memories[p].kind \in Cites,
                        memories[p].at < r.since, NEW c \in memories[p].cites
                 PROVE  <<c, p>> \in index
    BY DEF Covers
  <2>2. CASE memories[p].kind = "sediment"
    BY <1>9, <2>1, <2>2 DEF Covers
  <2>3. CASE memories[p].kind = "provenance"
    BY <1>1, <1>6, <2>1, <2>3 DEF Covers, IndexInv
  <2> QED
    BY <2>1, <2>2, <2>3 DEF Cites
<1>11. next \in Phases /\ next \in {"sediment", "ascends"} /\ (next = "sediment" => r.pc = "provenance") /\ (next = "ascends" => r.pc = "sediment")
  BY <1>1 DEF Phases
<1> HIDE DEF index, whole, next, read
<1>12. /\ q \in CallStates({r.plan}) /\ q.plan = r.plan /\ q.pc = next /\ q.shown = r.shown
       /\ q.index = index /\ q.since = r.since /\ q.whole = whole
  BY <1>1, <1>5, <1>7, <1>11 DEF CallStates
<1> HIDE DEF q
<1>13. IndexInv(q, memories, minute)
  <2>1. q.pc = "ascends" /\ whole => Covers(memories, Cites, index, r.since - IndexLife + 1)
    <3>1. SUFFICES ASSUME r.pc = "sediment", whole PROVE Covers(memories, Cites, index, r.since - IndexLife + 1)
      BY <1>11, <1>12
    <3>2. r.since - IndexLife + 1 <= r.since /\ r.since - IndexLife + 1 \in Int /\ r.since \in Int
      BY <1>5, RecallBounds
    <3>3. Covers(memories, Cites, index, r.since)
      BY <1>10, <3>1
    <3> QED
      BY <1>1, <3>2, <3>3, CoversLess
  <2>2. q.pc = "sediment" /\ whole => Covers(memories, {"provenance"}, index, r.since)
    BY <1>9, <1>11, <1>12
  <2> QED
    BY <2>1, <2>2, <1>5, <1>7, <1>12 DEF IndexInv
<1>14. ShownInv(q, memories) /\ AncestorsInv(q, memories) /\ PlanInv(q)
  BY <1>1, <1>11, <1>12 DEF ShownInv, AncestorsInv, PlanInv
<1>15. CallInv(q, memories, minute)
  BY <1>12, <1>13, <1>14 DEF CallInv
<1>16. ParentsInv(parents', memories, minute)
  BY <1>1, <1>3, <1>5, <1>7, <1>10 DEF ParentsInv
<1> QED
  BY <1>2, <1>15, <1>16

\* Three layers: a summary above a row of a layer is in a layer or was shown.
LEMMA LayersAreFound ==
  ASSUME NEW mem, NEW index, NEW rows, NEW until \in Int, Covers(mem, Cites, index, until + 1),
         \A p \in 1..Len(mem) : mem[p].at \in Nat, NEW found \in SUBSET rows
  PROVE  LayersIn(mem, found, until, rows \cup Ancestors(index, rows))
<1> DEFINE one == CitersIn(mem, found, until)
           two == CitersIn(mem, one, until)
           three == CitersIn(mem, two, until)
           above == Above(index, rows) \ rows
           higher == Above(index, above) \ (rows \cup above)
           highest == Above(index, higher) \ (rows \cup above \cup higher)
<1>1. \A from : CitersIn(mem, from, until) \subseteq Above(index, from)
  <2>1. SUFFICES ASSUME NEW from, NEW p \in CitersIn(mem, from, until) PROVE p \in Above(index, from)
    OBVIOUS
  <2>2. PICK c \in mem[p].cites : c \in from
    BY <2>1 DEF CitersIn
  <2>3. p \in 1..Len(mem) /\ mem[p].kind \in Cites /\ mem[p].at < until + 1
    BY <2>1 DEF CitersIn
  <2>4. <<c, p>> \in index
    BY <2>2, <2>3 DEF Covers
  <2> QED
    BY <2>2, <2>4 DEF Above
<1>2. \A from, into : from \subseteq into => Above(index, from) \subseteq Above(index, into)
  BY DEF Above
<1>3. \A from, into : Above(index, from \cup into) = Above(index, from) \cup Above(index, into)
  BY DEF Above
<1>4. Ancestors(index, rows) = above \cup higher \cup highest
  BY DEF Ancestors
<1> HIDE DEF one, two, three
<1>5. one \subseteq rows \cup above
  <2>1. one \subseteq Above(index, rows)
    BY <1>1, <1>2 DEF one
  <2> QED
    BY <2>1
<1>6. two \subseteq rows \cup above \cup higher
  <2>1. two \subseteq Above(index, rows) \cup Above(index, above)
    <3>1. two \subseteq Above(index, one)
      BY <1>1 DEF two
    <3>2. Above(index, one) \subseteq Above(index, rows \cup above)
      BY <1>2, <1>5
    <3>3. Above(index, rows \cup above) = Above(index, rows) \cup Above(index, above)
      BY <1>3
    <3> QED
      BY <3>1, <3>2, <3>3
  <2> QED
    BY <2>1
<1>7. three \subseteq rows \cup above \cup higher \cup highest
  <2>1. three \subseteq Above(index, rows) \cup Above(index, above) \cup Above(index, higher)
    <3>1. three \subseteq Above(index, two)
      BY <1>1 DEF three
    <3>2. Above(index, two) \subseteq Above(index, rows \cup above \cup higher)
      BY <1>2, <1>6
    <3>3. Above(index, rows \cup above \cup higher) = Above(index, rows \cup above) \cup Above(index, higher)
      BY <1>3
    <3>4. Above(index, rows \cup above) = Above(index, rows) \cup Above(index, above)
      BY <1>3
    <3> QED
      BY <3>1, <3>2, <3>3, <3>4
  <2> QED
    BY <2>1
<1> HIDE DEF above, higher, highest
<1>8. one \cup two \cup three \subseteq rows \cup Ancestors(index, rows)
  BY <1>4, <1>5, <1>6, <1>7
<1> QED
  BY <1>8 DEF LayersIn, one, two, three

LEMMA AncestorsAreThere ==
  ASSUME NEW mem, NEW index, AreIn(index, mem), NEW rows
  PROVE  Ancestors(index, rows) \subseteq 1..Len(mem) /\ Ancestors(index, rows) \cap rows = {}
<1>1. \A from : Above(index, from) \subseteq 1..Len(mem)
  BY DEF Above, AreIn
<1> QED
  BY <1>1 DEF Ancestors

LEMMA AscendIsKept ==
  ASSUME RecallInv, NEW s \in Recalls, Ascend(s)
  PROVE  \E q : SetRecall(s, q) /\ CallInv(q, memories, minute)
<1> DEFINE r == recalls[s]
           risen == Ancestors(r.index, SeenBy(s))
           next == IF r.deep THEN "thinks" ELSE "answers"
           Goes(got) == [Shows(r, "_ascendance", got) EXCEPT !.pc = next, !.clean = @ /\ got = risen]
           fails == [r EXCEPT !.pc = next, !.clean = FALSE]
           until == r.since - IndexLife
<1>1. r.pc = "ascends" /\ ((\E got \in Some(risen, MostRisen) : SetRecall(s, Goes(got))) \/ SetRecall(s, fails))
  BY Zenon DEF Ascend
<1>2. /\ minute \in Nat /\ LakeInv(memories) /\ memories \in Seq(MemoryStates) /\ CallInv(r, memories, minute)
  BY DEF RecallInv, LakeInv
<1>3. r \in CallStates({r.plan}) /\ ShownInv(r, memories) /\ IndexInv(r, memories, minute)
  BY <1>2 DEF CallInv
<1>4. SeenBy(s) = RowsShown(r.shown)
  BY DEF SeenBy
<1>5. risen \in SUBSET (1..Len(memories)) /\ risen \cap RowsShown(r.shown) = {}
  BY <1>3, <1>4, AncestorsAreThere DEF IndexInv
<1>6. r.since \in Nat /\ until \in Int /\ r.clean \in BOOLEAN /\ next \in Phases /\ next \in {"thinks", "answers"}
  BY <1>3, RecallBounds DEF CallStates, Phases
<1>7. \A p \in 1..Len(memories) : memories[p].at \in Nat
  BY <1>2, TimesAreNumbers
<1>8. r.whole => Covers(memories, Cites, r.index, until + 1)
  <2>1. r.pc = "ascends"
    BY Zenon DEF Ascend
  <2>2. r.pc = "ascends" /\ r.whole => Covers(memories, Cites, r.index, r.since - IndexLife + 1)
    BY <1>3 DEF IndexInv
  <2> QED
    BY <2>1, <2>2
<1> HIDE DEF next
<1>9. \A got \in Some(risen, MostRisen) : got \in SUBSET risen
  BY DEF Some
<1>10. ASSUME NEW got \in SUBSET risen
       PROVE  CallInv(Goes(got), memories, minute)
  <2> DEFINE clean == r.clean /\ got = risen
             q == Goes(got)
  <2>0. PICK shown \in Seq(ShownSteps) : ShowsAs(r, "_ascendance", got, shown)
    <3>1. got \in SUBSET (1..Len(memories)) /\ got \cap RowsShown(r.shown) = {}
      BY <1>5
    <3>2. "_ascendance" \in StepNames
      BY DEF StepNames
    <3> QED
      BY <1>2, <1>3, <3>1, <3>2, ShowsMore
  <2>1. /\ Shows(r, "_ascendance", got) = [r EXCEPT !.shown = shown]
        /\ \A i, j \in DOMAIN shown : i # j => shown[i].rows \cap shown[j].rows = {}
        /\ RowsShown(shown) = RowsShown(r.shown) \cup got
        /\ FoundIn(shown) \subseteq RowsShown(r.shown)
    BY <2>0 DEF ShowsAs
  <2>2. clean \in BOOLEAN /\ (clean => got = risen)
    OBVIOUS
  <2>3. q = [[r EXCEPT !.shown = shown] EXCEPT !.pc = next, !.clean = clean]
    <3>1. [r EXCEPT !.shown = shown].clean = r.clean
      BY <1>3 DEF CallStates
    <3> QED
      BY <2>1, <3>1
  <2> HIDE DEF q, clean, risen
  <2>4. /\ q \in CallStates({r.plan}) /\ q.plan = r.plan /\ q.pc = next /\ q.shown = shown /\ q.since = r.since /\ q.index = r.index
        /\ q.clean = clean /\ q.whole = r.whole
    BY <1>3, <1>6, <2>2, <2>3 DEF CallStates
  <2>5. ShownInv(q, memories)
    BY <1>3, <1>5, <2>1, <2>4 DEF ShownInv
  <2>6. IndexInv(q, memories, minute) /\ PlanInv(q)
    BY <1>3, <1>6, <2>4 DEF IndexInv, PlanInv
  <2>7. AncestorsInv(q, memories)
    <3>1. SUFFICES ASSUME clean, r.whole PROVE LayersShown(q, memories)
      BY <2>4 DEF AncestorsInv
    <3>2. RowsShown(shown) = RowsShown(r.shown) \cup Ancestors(r.index, RowsShown(r.shown))
      BY <1>4, <2>1, <2>2, <3>1 DEF risen
    <3>3. FoundIn(shown) \in SUBSET RowsShown(r.shown)
      BY <2>1
    <3> HIDE DEF until
    <3>4. Covers(memories, Cites, r.index, until + 1)
      BY <1>8, <3>1
    <3>5. LayersIn(memories, FoundIn(shown), until, RowsShown(r.shown) \cup Ancestors(r.index, RowsShown(r.shown)))
      BY <1>6, <1>7, <3>3, <3>4, LayersAreFound
    <3>6. LayersIn(memories, FoundIn(q.shown), until, RowsShown(q.shown))
      BY <2>4, <3>2, <3>5
    <3>7. until = q.since - IndexLife
      BY <2>4 DEF until
    <3> QED
      BY <3>6, <3>7 DEF LayersShown
  <2>8. CallInv(q, memories, minute)
    BY <2>4, <2>5, <2>6, <2>7 DEF CallInv
  <2> QED
    BY <2>8 DEF q
<1>11. CallInv(fails, memories, minute)
  <2>1. /\ fails \in CallStates({r.plan}) /\ fails.plan = r.plan /\ fails.pc = next /\ fails.shown = r.shown
        /\ fails.since = r.since /\ fails.index = r.index /\ ~fails.clean
    BY <1>3, <1>6 DEF CallStates
  <2> HIDE DEF fails
  <2>2. ShownInv(fails, memories) /\ IndexInv(fails, memories, minute) /\ AncestorsInv(fails, memories) /\ PlanInv(fails)
    BY <1>3, <1>6, <2>1 DEF ShownInv, IndexInv, AncestorsInv, PlanInv
  <2> QED
    BY <2>1, <2>2 DEF CallInv
<1> HIDE DEF Goes, fails, risen
<1> QED
  BY <1>1, <1>9, <1>10, <1>11
-----------------------------------------------------------------------------
\* A thought cites what is shown; it is marked as self-referential only if nothing
\* that is shown came from outside.
LEMMA LakeGrows ==
  ASSUME NEW mem, LakeInv(mem), NEW now \in Nat, NEW m \in MemoryStates, m.at = now, m.cites \subseteq 1..Len(mem),
         m.kind = "sediment" /\ ~m.grounded => \A c \in m.cites : ~mem[c].outside
  PROVE  Grows(mem, Append(mem, m), now) /\ LakeInv(Append(mem, m))
<1> DEFINE later == Append(mem, m)
           n == Len(mem)
<1>1. mem \in Seq(MemoryStates) /\ n \in Nat
  BY DEF LakeInv
<1>2. Grows(mem, later, now)
  BY DEF Grows
<1>3. later \in Seq(MemoryStates) /\ Len(later) = n + 1 /\ (\A i \in 1..n : later[i] = mem[i]) /\ later[n + 1] = m
  BY <1>1, AppendProperties
<1> HIDE DEF later, n
<1>4. 1..(n + 1) = (1..n) \cup {n + 1}
  BY <1>1
<1>5. ASSUME NEW i \in 1..Len(later)
      PROVE  /\ later[i].cites \subseteq 1..Len(later)
             /\ later[i].kind = "sediment" /\ ~later[i].grounded => \A c \in later[i].cites : ~later[c].outside
  <2>1. CASE i \in 1..n
    BY <1>3, <1>4, <2>1 DEF LakeInv, n
  <2>2. CASE i = n + 1
    BY <1>3, <1>4, <2>2 DEF n
  <2> QED
    BY <1>3, <1>4, <1>5, <2>1, <2>2
<1>6. LakeInv(later)
  BY <1>3, <1>5 DEF LakeInv
<1> QED
  BY <1>2, <1>6 DEF later

LEMMA ThinkIsKept ==
  ASSUME RecallInv, NEW s \in Recalls, Think(s)
  PROVE  /\ Grows(memories, memories', minute) /\ LakeInv(memories')
         /\ \E q : SetRecall(s, q) /\ CallInv(q, memories, minute)
<1> DEFINE r == recalls[s]
           grounded == \E i \in SeenBy(s) : memories[i].outside
           q == [r EXCEPT !.pc = "answers"]
           Thought(named) == [kind |-> "sediment", cites |-> named, outside |-> FALSE, grounded |-> grounded, at |-> minute]
<1>1. minute \in Nat /\ LakeInv(memories) /\ CallInv(r, memories, minute)
  BY DEF RecallInv
<1>2. SeenBy(s) \subseteq 1..Len(memories) /\ Len(memories) \in Nat
  BY <1>1 DEF CallInv, ShownInv, SeenBy, LakeInv
<1>3. r.pc = "thinks" /\ SetRecall(s, q)
  BY DEF Think
<1>4. PICK named \in SUBSET SeenBy(s) : memories' = Append(memories, Thought(named))
  BY DEF Think, Some, Memory
<1>5. grounded \in BOOLEAN /\ (~grounded => \A i \in SeenBy(s) : ~memories[i].outside)
  OBVIOUS
<1> HIDE DEF grounded
<1>6. /\ Thought(named) \in MemoryStates /\ Thought(named).at = minute /\ Thought(named).cites = named
      /\ Thought(named).grounded = grounded
  BY <1>1, <1>2, <1>5 DEF MemoryStates, Cites
<1> HIDE DEF Thought
<1>7. Grows(memories, memories', minute) /\ LakeInv(memories')
  <2>1. named \subseteq 1..Len(memories)
    BY <1>2
  <2>2. ~grounded => \A c \in named : ~memories[c].outside
    BY <1>5
  <2> QED
    BY <1>1, <1>4, <1>6, <2>1, <2>2, LakeGrows
<1>8. CallInv(q, memories, minute)
  BY <1>1, <1>3, DoneIsFine
<1> QED
  BY <1>3, <1>7, <1>8

LEMMA NoThoughtIsKept ==
  ASSUME RecallInv, NEW s \in Recalls, NoThought(s)
  PROVE  \E q : SetRecall(s, q) /\ CallInv(q, memories, minute)
<1> DEFINE q == [recalls[s] EXCEPT !.pc = "answers"]
<1>1. minute \in Nat /\ SetRecall(s, q) /\ CallInv(recalls[s], memories, minute)
  BY DEF NoThought, RecallInv
<1> QED
  BY <1>1, DoneIsFine

LEMMA ApprovedIsKept ==
  ASSUME RecallInv, NEW named \in SUBSET Ids, Approved(named)
  PROVE  Grows(memories, memories', minute) /\ LakeInv(memories')
<1> DEFINE m == [kind |-> "provenance", cites |-> named, outside |-> TRUE, grounded |-> FALSE, at |-> minute]
<1>1. minute \in Nat /\ LakeInv(memories) /\ Len(memories) \in Nat
  BY DEF RecallInv, LakeInv
<1>2. memories' = Append(memories, m)
  BY DEF Approved, Memory
<1>3. m \in MemoryStates /\ m.at = minute /\ m.cites \subseteq 1..Len(memories) /\ m.kind # "sediment"
  BY <1>1 DEF MemoryStates, Cites, Ids
<1> HIDE DEF m
<1> QED
  BY <1>1, <1>2, <1>3, LakeGrows
-----------------------------------------------------------------------------
\* What a step may do: one recall goes on, or none does.
LEMMA OneGoesOn ==
  ASSUME RecallInv, minute' = minute, Grows(memories, memories', minute), LakeInv(memories'),
         ParentsInv(parents', memories, minute), NEW s \in Recalls, NEW q, SetRecall(s, q), CallInv(q, memories, minute)
  PROVE  RecallInv'
<1>1. minute \in Nat /\ memories \in Seq(MemoryStates) /\ DOMAIN recalls = Recalls
  BY DEF RecallInv, LakeInv
<1>2. DOMAIN recalls' = Recalls /\ \A t \in Recalls : recalls'[t] = IF t = s THEN q ELSE recalls[t]
  BY <1>1 DEF SetRecall
<1>3. \A t \in Recalls : CallInv(recalls'[t], memories, minute)
  BY <1>2 DEF RecallInv
<1>4. \A t \in Recalls : CallInv(recalls'[t], memories', minute')
  BY <1>1, <1>3, CallStays
<1>5. ParentsInv(parents', memories', minute')
  BY <1>1, ParentsStay
<1> QED
  BY <1>1, <1>2, <1>4, <1>5 DEF RecallInv

LEMMA AllStay ==
  ASSUME RecallInv, minute' \in Nat, minute <= minute', Grows(memories, memories', minute), LakeInv(memories'),
         parents' = parents, recalls' = recalls
  PROVE  RecallInv'
<1>1. minute \in Nat /\ memories \in Seq(MemoryStates) /\ DOMAIN recalls = Recalls
  BY DEF RecallInv, LakeInv
<1>2. \A t \in Recalls : CallInv(recalls'[t], memories, minute)
  BY DEF RecallInv
<1>3. \A t \in Recalls : CallInv(recalls'[t], memories', minute')
  BY <1>1, <1>2, CallStays
<1>4. ParentsInv(parents', memories', minute')
  BY <1>1, ParentsStay DEF RecallInv
<1> QED
  BY <1>1, <1>3, <1>4 DEF RecallInv

LEMMA RecallStart == RecallInit => RecallInv
<1> SUFFICES ASSUME RecallInit PROVE RecallInv
  OBVIOUS
<1> DEFINE n == Len(Moments)
           row(i) == [kind |-> "moment", cites |-> {}, outside |-> Moments[i] # "self", grounded |-> FALSE, at |-> 0]
           mem == [i \in 1..n |-> row(i)]
<1>1. n \in Nat
  BY RecallBounds
<1>2. memories = mem /\ parents = [pairs |-> {}, at |-> 0, whole |-> TRUE] /\ recalls = [s \in Recalls |-> NoRecall] /\ minute = 0
  BY DEF RecallInit
<1>3. \A i \in 1..n : row(i) \in MemoryStates /\ row(i).kind = "moment" /\ row(i).cites = {}
  BY DEF MemoryStates
<1> HIDE DEF row, n
<1>4. mem \in Seq(MemoryStates) /\ Len(mem) = n /\ \A i \in 1..n : mem[i] = row(i)
  <2>1. mem \in [1..n -> MemoryStates]
    BY <1>3
  <2>2. mem \in Seq(MemoryStates) /\ DOMAIN mem = 1..n
    BY <1>1, <2>1, SeqDef
  <2> QED
    BY <1>1, <2>2, LenProperties
<1> HIDE DEF mem
<1>5. LakeInv(mem)
  BY <1>3, <1>4 DEF LakeInv
<1>6. ParentsInv(parents, mem, 0)
  BY <1>2, <1>3, <1>4 DEF ParentsInv, Covers, AreIn, Cites
<1>7. CallInv(NoRecall, mem, 0)
  <2>1. IsBlank(NoRecall) /\ PlanInv(NoRecall)
    BY IdleIsBlank DEF IsBlank, PlanInv
  <2> QED
    BY <2>1, BlankIsFine
<1> QED
  BY <1>2, <1>5, <1>6, <1>7 DEF RecallInv

LEMMA RecallStep == RecallInv /\ [RecallNext]_recallVars => RecallInv'
<1> SUFFICES ASSUME RecallInv, [RecallNext]_recallVars PROVE RecallInv'
  OBVIOUS
<1>1. minute \in Nat /\ LakeInv(memories) /\ ParentsInv(parents, memories, minute)
  BY DEF RecallInv
<1>2. Grows(memories, memories, minute)
  BY DEF Grows
<1>3. ASSUME UNCHANGED <<memories, parents, minute>>, NEW s \in Recalls, \E q : SetRecall(s, q) /\ CallInv(q, memories, minute)
      PROVE  RecallInv'
  BY <1>1, <1>2, <1>3, OneGoesOn
<1>4. ASSUME NEW s \in Recalls, NEW deep \in BOOLEAN, NEW armed \in BOOLEAN, NEW talk \in BOOLEAN, NEW view \in {"timeline", "deltas"},
             AskRecall(s, deep, armed, talk, view)
      PROVE  RecallInv'
  <2>1. UNCHANGED <<memories, parents, minute>>
    BY <1>4 DEF AskRecall
  <2> QED
    BY <1>3, <1>4, <2>1, AskIsKept
<1>5. ASSUME NEW s \in Recalls, NoPlan(s) PROVE RecallInv'
  <2>1. UNCHANGED <<memories, parents, minute>>
    BY <1>5 DEF NoPlan
  <2> QED
    BY <1>3, <1>5, <2>1, NoPlanIsKept
<1>6. ASSUME NEW s \in Recalls, NotExecuted(s) \/ RecallReturns(s) PROVE RecallInv'
  <2>1. UNCHANGED <<memories, parents, minute>>
    BY <1>6 DEF NotExecuted, RecallReturns
  <2> QED
    BY <1>3, <1>6, <2>1, LeavingIsKept
<1>7. ASSUME NEW s \in Recalls, Descend(s) PROVE RecallInv'
  <2>1. UNCHANGED <<memories, parents, minute>>
    BY Zenon, <1>7 DEF Descend
  <2> QED
    BY <1>3, <1>7, <2>1, DescendIsKept
<1>8. ASSUME NEW s \in Recalls, LoadIndex(s) PROVE RecallInv'
  <2>1. UNCHANGED <<memories, parents, minute>>
    BY <1>8 DEF LoadIndex
  <2> QED
    BY <1>3, <1>8, <2>1, LoadIsKept
<1>9. ASSUME NEW s \in Recalls, Ascend(s) PROVE RecallInv'
  <2>1. UNCHANGED <<memories, parents, minute>>
    BY Zenon, <1>9 DEF Ascend
  <2> QED
    BY <1>3, <1>9, <2>1, AscendIsKept
<1>10. ASSUME NEW s \in Recalls, Think(s) PROVE RecallInv'
  <2>1. parents' = parents /\ minute' = minute
    BY <1>10 DEF Think
  <2> QED
    BY <1>1, <1>10, <2>1, ThinkIsKept, OneGoesOn
<1>11. ASSUME NEW s \in Recalls, NoThought(s) PROVE RecallInv'
  <2>1. UNCHANGED <<memories, parents, minute>>
    BY <1>11 DEF NoThought
  <2> QED
    BY <1>3, <1>11, <2>1, NoThoughtIsKept
<1>12. ASSUME NEW s \in Recalls, NEW plan \in Plans, Planned(s, plan) PROVE RecallInv'
  <2>1. UNCHANGED <<memories, parents, minute>>
    BY <1>12 DEF Planned
  <2> QED
    BY <1>3, <1>12, <2>1, PlannedIsKept
<1>13. ASSUME NEW s \in Recalls, NEW found \in [Fetching(recalls[s].plan) -> SUBSET Ids], NEW near, Executed(s, found, near)
       PROVE  RecallInv'
  <2>1. UNCHANGED <<memories, parents, minute>>
    BY <1>13 DEF Executed
  <2> QED
    BY <1>3, <1>13, <2>1, ExecutedIsKept
<1>14. ASSUME NEW s \in Recalls, NEW ok \in BOOLEAN, ReadIndex(s, ok) PROVE RecallInv'
  <2>1. memories' = memories /\ minute' = minute
    BY <1>14 DEF ReadIndex
  <2> QED
    BY <1>1, <1>2, <1>14, <2>1, ReadIsKept, OneGoesOn
<1>15. ASSUME NEW named \in SUBSET Ids, Approved(named) PROVE RecallInv'
  <2>1. parents' = parents /\ recalls' = recalls /\ minute' = minute
    BY <1>15 DEF Approved
  <2> QED
    BY <1>1, <1>15, <2>1, ApprovedIsKept, AllStay
<1>16. ASSUME MinutePasses PROVE RecallInv'
  <2>1. minute' = minute + 1 /\ UNCHANGED <<memories, parents, recalls>>
    BY <1>16 DEF MinutePasses
  <2> QED
    BY <1>1, <1>2, <2>1, AllStay
<1>17. ASSUME UNCHANGED recallVars PROVE RecallInv'
  <2>1. UNCHANGED <<memories, parents, recalls, minute>>
    BY <1>17 DEF recallVars
  <2> QED
    BY <1>1, <1>2, <2>1, AllStay
<1> QED
  <2>1. ASSUME NEW s \in Recalls, NEW found \in [Fetching(recalls[s].plan) -> {rows \in SUBSET Ids : Cardinality(rows) <= MaxHits}]
        PROVE  found \in [Fetching(recalls[s].plan) -> SUBSET Ids]
    OBVIOUS
  <2> QED
    BY <1>4, <1>5, <1>6, <1>7, <1>8, <1>9, <1>10, <1>11, <1>12, <1>13, <1>14, <1>15, <1>16, <1>17, <2>1 DEF RecallNext

\* Of a row shown once, of the summaries that are shown with what they rest on, and of
\* thoughts that are marked as self-referential (search.py), for any number of recalls,
\* plans, rows, reads that fail and limits, and however old the shared index may be.
THEOREM RecallsStayTrue == RecallSpec => []RecallsAreTrue
<1>1. RecallInv => RecallsAreTrue
  <2> SUFFICES ASSUME RecallInv PROVE RecallsAreTrue
    OBVIOUS
  <2>1. ShownOnce
    BY DEF ShownOnce, RecallInv, CallInv, ShownInv
  <2>2. SelfReferenceIsReal
    BY DEF SelfReferenceIsReal, RecallInv, LakeInv, Ids
  <2>3. AncestorsAreShown
    <3>1. SUFFICES ASSUME NEW s \in Recalls, recalls[s].pc = "thinks", recalls[s].clean, recalls[s].whole
                   PROVE  LET until == recalls[s].since - IndexLife
                              one == CitersOf(Found(s), until)
                              two == CitersOf(one, until)
                          IN  one \cup two \cup CitersOf(two, until) \subseteq SeenBy(s)
      BY DEF AncestorsAreShown
    <3>2. LayersShown(recalls[s], memories)
      BY <3>1 DEF RecallInv, CallInv, AncestorsInv
    <3>3. \A rows, until : CitersOf(rows, until) = CitersIn(memories, rows, until)
      BY DEF CitersOf, CitersIn, Summaries, Ids, Cites
    <3>4. Found(s) = FoundIn(recalls[s].shown) /\ SeenBy(s) = RowsShown(recalls[s].shown)
      BY DEF Found, FoundIn, SeenBy
    <3> QED
      BY <3>2, <3>3, <3>4 DEF LayersShown, LayersIn
  <2> QED
    BY <2>1, <2>2, <2>3 DEF RecallsAreTrue
<1> QED
  BY <1>1, RecallStart, RecallStep, PTL DEF RecallSpec
-----------------------------------------------------------------------------
\* A read that returned well is in what is held.
Well(f) == gather.pc \in {"reads", "told"} /\ f \notin gather.due /\ f \notin gather.failed
\* The rows r of the first n that a query with these windows and limits must find.
RefutesClearly(r) ==
  /\ Stance(r).rel = "refutes" /\ FreshFor(r, EndorsedFor)
  /\ NewerThan(r, SightRows) < MostScanned /\ NewerThan(r, Taking(SightRows)) < MostEndorsed
EndorsementsInv ==
  Well("endorsements") => \A r \in 1..gather.began : RefutesClearly(r) => r \in gather.held["endorsements"]
RefutedInv ==
  gather.pc = "told" /\ Well("endorsements") =>
    \A r \in 1..gather.began : RefutesClearly(r) => Stance(r).of \notin gather.held["understanding"]
IdentityInv ==
  Well("identity") =>
    \A c \in 1..gather.began :
      c \in SightsOf({"identity"}) /\ NewerThan(c, SightsOf({"identity", "orient"})) < MostRegens
        => \E i \in gather.held["identity"] : c <= i
AlertIsDue(a) ==
  /\ a \in SightsOf({"alert"}) /\ FreshFor(a, AlertedFor)
  /\ NewerThan(a, SightsOf({"alert", "card"})) < MostCards /\ NewerThan(a, SightsOf({"alert"})) < MostAlerts
AlertsInv == Well("alerts") => \A a \in 1..gather.began : AlertIsDue(a) => a \in gather.held["alerts"]
PictureIsDue(v) ==
  /\ v \in SightsOf({"picture"}) /\ FreshFor(v, SeenFor) /\ NewerThan(v, SightsOf({"picture"})) < 2 * MostVisuals
  /\ Cardinality({scenery[j].src : j \in {k \in SightsOf({"picture"}) : k > v}} \ {scenery[v].src}) < MostVisuals
VisualsInv ==
  Well("visuals") => \A v \in 1..gather.began : PictureIsDue(v) => \E i \in gather.held["visuals"] : i \in SightRows /\ scenery[i].src = scenery[v].src

GatherTypes ==
  /\ \E rows : scenery \in Seq(rows)
  /\ gather.began \in 0..Len(scenery) /\ (gather.pc \in {"idle", "told"} => gather.due = {})
  /\ gather \in [pc : {"idle", "reads", "told"}, began : Nat, from : {gather.from}, due : SUBSET StandFields,
                 failed : SUBSET StandFields, held : {gather.held}]
  /\ DOMAIN gather.held = StandFields
StandInv == GatherTypes /\ EndorsementsInv /\ RefutedInv /\ IdentityInv /\ AlertsInv /\ VisualsInv
-----------------------------------------------------------------------------
\* Of numbers that are bounded one is the greatest.
LEMMA HasGreatest ==
  ASSUME NEW n \in Nat, NEW S \in SUBSET (0..n), S # {}
  PROVE  \E x \in S : \A y \in S : y <= x
<1> DEFINE Later(x) == {y \in S : y > x}
           Tails == {Later(x) : x \in S}
<1>0. IsFiniteSet(0..n)
  BY FS_Interval
<1>a. \A x \in S : x \in Nat
  OBVIOUS
<1>b. S \subseteq 0..n
  OBVIOUS
<1>1. IsFiniteSet(S) /\ \A x \in S : x \in Nat
  BY <1>0, <1>a, <1>b, FS_Subset, Zenon
<1>2. Tails \subseteq FiniteSubsetsOf(S) /\ Tails # {}
  <2>1. \A x \in S : Later(x) \in SUBSET S /\ IsFiniteSet(Later(x))
    BY <1>1, FS_Subset
  <2>2. \A x \in S : Later(x) \in FiniteSubsetsOf(S)
    BY <2>1 DEF FiniteSubsetsOf
  <2> HIDE DEF Later
  <2> QED
    BY <2>2
<1>3. (\A l \in Tails : \E x \in S : l = Later(x)) /\ \A y \in S : Later(y) \in Tails
  OBVIOUS
<1> HIDE DEF Tails, Later
<1>4. PICK least \in Tails : \A t \in Tails : ~(<<t, least>> \in StrictSubsetOrdering(S))
  BY <1>1, <1>2, WFMin, FS_StrictSubsetOrderingWellFounded
<1> PICK x \in S : least = Later(x)
  BY <1>3
<1>5. \A y \in S : ~(y > x)
  <2> SUFFICES ASSUME NEW y \in S, y > x PROVE FALSE
    OBVIOUS
  <2>a. \A z \in S : z > y => z > x
    BY <1>1
  <2>b. ~(y > y)
    BY <1>1
  <2>1. Later(y) \subseteq Later(x) /\ Later(x) \subseteq S /\ y \in Later(x) /\ y \notin Later(y)
    BY <2>a, <2>b, Zenon DEF Later
  <2>2. <<Later(y), Later(x)>> \in StrictSubsetOrdering(S)
    BY <2>1 DEF StrictSubsetOrdering
  <2> QED
    BY <1>3, <1>4, <2>2
<1> QED
  BY <1>1, <1>5

\* Fewer rows are newer among fewer rows.
LEMMA FewerAreNewer ==
  ASSUME NEW n \in Nat, NEW more \in SUBSET (1..n), NEW less \in SUBSET more, NEW i
  PROVE  NewerThan(i, less) \in Nat /\ NewerThan(i, more) \in Nat /\ NewerThan(i, less) <= NewerThan(i, more)
<1> DEFINE A == {j \in less : j > i}
           B == {j \in more : j > i}
<1>1. IsFiniteSet(1..n)
  BY FS_Interval
<1>2. IsFiniteSet(B)
  BY <1>1, FS_Subset
<1>3. A \in SUBSET B
  OBVIOUS
<1>4. IsFiniteSet(A) /\ Cardinality(A) <= Cardinality(B)
  BY <1>2, <1>3, FS_Subset
<1> HIDE DEF A, B
<1>5. Cardinality(A) \in Nat /\ Cardinality(B) \in Nat
  BY <1>2, <1>4, FS_CardinalityType
<1> QED
  BY <1>4, <1>5 DEF A, B, NewerThan

\* A row with fewer newer ones than are fetched is fetched.
LEMMA NewestAreFetched ==
  ASSUME NEW n \in Nat, NEW more \in SUBSET (1..n), NEW rows \in SUBSET more, NEW i \in rows, NEW most \in Nat,
         NewerThan(i, more) < most
  PROVE  i \in NewestOf(rows, most)
<1>1. NewerThan(i, rows) \in Nat /\ NewerThan(i, more) \in Nat /\ NewerThan(i, rows) <= NewerThan(i, more)
  BY FewerAreNewer
<1>2. NewerThan(i, rows) < most
  BY <1>1
<1> QED
  BY <1>2 DEF NewestOf, NewerThan

LEMMA FetchedAreThere == \A rows, most : NewestOf(rows, most) \subseteq rows
BY DEF NewestOf

\* The sources of some rows.
SourcesOf(rows, these) == {rows[j].src : j \in these}
LEMMA SourcesAreFinite ==
  ASSUME NEW n \in Nat, NEW these \in SUBSET (1..n), NEW rows, NEW less \in SUBSET SourcesOf(rows, these)
  PROVE  IsFiniteSet(less)
<1> DEFINE f == [j \in these |-> rows[j].src]
<1>0. IsFiniteSet(1..n) /\ these \subseteq 1..n
  BY FS_Interval
<1>1. IsFiniteSet(these)
  BY <1>0, FS_Subset
<1>2. f \in Surjection(these, SourcesOf(rows, these))
  BY DEF Surjection, SourcesOf
<1> HIDE DEF f
<1>3. IsFiniteSet(SourcesOf(rows, these))
  BY <1>1, <1>2, FS_Surjection
<1> QED
  BY <1>3, FS_Subset
-----------------------------------------------------------------------------
LEMMA SightsAreRows ==
  ASSUME GatherTypes
  PROVE  /\ Len(scenery) \in Nat /\ SightRows = 1..Len(scenery)
         /\ \A kinds : SightsOf(kinds) \subseteq SightRows
         /\ \A hours : SinceHours(hours) \subseteq SightRows
         /\ \A rows : Taking(rows) \subseteq rows
BY DEF GatherTypes, SightRows, SightsOf, SinceHours, Taking

LEMMA EndorsementsAreRead ==
  ASSUME GatherTypes, NEW r \in SightRows, RefutesClearly(r)
  PROVE  r \in LoadEndorsements
<1> DEFINE n == Len(scenery)
           since == SinceHours(EndorsedFor)
           scanned == NewestOf(since, MostScanned)
<1>1. n \in Nat /\ SightRows = 1..n /\ since \subseteq SightRows /\ \A rows : Taking(rows) \subseteq rows
  BY SightsAreRows
<1>2. r \in since
  BY DEF RefutesClearly, SinceHours
<1>3. MostScanned \in Nat /\ MostEndorsed \in Nat
  BY StandpointBounds
<1>4. NewerThan(r, SightRows) < MostScanned /\ NewerThan(r, Taking(SightRows)) < MostEndorsed /\ Stance(r).rel = "refutes"
  BY DEF RefutesClearly
<1> HIDE DEF n, since
<1>5. r \in scanned
  BY <1>1, <1>2, <1>3, <1>4, NewestAreFetched
<1>6. scanned \subseteq SightRows
  BY <1>1, FetchedAreThere
<1> HIDE DEF scanned
<1>7. r \in Taking(scanned) /\ Taking(scanned) \subseteq Taking(SightRows) /\ Taking(SightRows) \subseteq 1..n
  BY <1>1, <1>4, <1>5, <1>6 DEF Taking
<1>8. r \in NewestOf(Taking(scanned), MostEndorsed)
  BY <1>1, <1>3, <1>4, <1>7, NewestAreFetched
<1> QED
  BY <1>8 DEF LoadEndorsements, scanned, since

LEMMA IdentityIsRead ==
  ASSUME GatherTypes, NEW c \in SightsOf({"identity"}), NewerThan(c, SightsOf({"identity", "orient"})) < MostRegens
  PROVE  \E i \in LoadIdentity : c <= i
<1> DEFINE n == Len(scenery)
           regens == SightsOf({"identity", "orient"})
           fetched == NewestOf(regens, MostRegens)
           S == fetched \cap SightsOf({"identity"})
<1>1. n \in Nat /\ SightRows = 1..n /\ regens \subseteq 1..n /\ MostRegens \in Nat
  BY SightsAreRows, StandpointBounds
<1>2. c \in regens
  BY DEF SightsOf
<1> HIDE DEF n, regens
<1>3. c \in fetched /\ fetched \subseteq 1..n
  BY <1>1, <1>2, NewestAreFetched, FetchedAreThere DEF regens
<1> HIDE DEF fetched
<1>4. c \in S /\ S \subseteq 1..n
  BY <1>3
<1> HIDE DEF S
<1>5. \E i \in S : \A j \in S : j <= i
  <2>1. S \in SUBSET (0..n) /\ S # {}
    BY <1>1, <1>4
  <2> QED
    BY <1>1, <2>1, HasGreatest
<1>6. NewestSight(S) \in S /\ c <= NewestSight(S)
  BY <1>4, <1>5 DEF NewestSight
<1>7. NewestSight(S) # 0
  BY <1>1, <1>4, <1>6
<1>8. LoadIdentity = {NewestSight(S)} \ {0}
  BY DEF LoadIdentity, S, fetched, regens
<1> QED
  BY <1>6, <1>7, <1>8

LEMMA AlertsAreRead ==
  ASSUME GatherTypes, NEW a \in SightRows, AlertIsDue(a)
  PROVE  a \in LoadAlerts
<1> DEFINE n == Len(scenery)
           cards == SightsOf({"alert", "card"})
           alerts == SightsOf({"alert"})
           recent == cards \cap SinceHours(AlertedFor)
           fetched == NewestOf(recent, MostCards)
<1>1. n \in Nat /\ SightRows = 1..n /\ cards \subseteq 1..n /\ alerts \subseteq 1..n /\ MostCards \in Nat /\ MostAlerts \in Nat
  BY SightsAreRows, StandpointBounds
<1>2. a \in alerts /\ a \in recent /\ NewerThan(a, cards) < MostCards /\ NewerThan(a, alerts) < MostAlerts
  BY DEF AlertIsDue, SightsOf, SinceHours
<1>3. recent \subseteq cards
  OBVIOUS
<1> HIDE DEF n, cards, alerts, recent
<1>4. a \in fetched
  BY <1>1, <1>2, <1>3, NewestAreFetched
<1> HIDE DEF fetched
<1>5. a \in fetched \cap alerts /\ fetched \cap alerts \subseteq alerts
  BY <1>2, <1>4
<1>6. a \in NewestOf(fetched \cap alerts, MostAlerts)
  BY <1>1, <1>2, <1>5, NewestAreFetched
<1> QED
  BY <1>6 DEF LoadAlerts, fetched, recent, cards, alerts

\* Of each source the newest picture is fetched, so that those kept have as many sources.
LEMMA PicturesAreRead ==
  ASSUME GatherTypes, NEW v \in SightRows, PictureIsDue(v)
  PROVE  \E i \in LoadVisuals : i \in SightRows /\ scenery[i].src = scenery[v].src
<1> DEFINE n == Len(scenery)
           pictures == SightsOf({"picture"})
           recent == pictures \cap SinceHours(SeenFor)
           fetched == NewestOf(recent, 2 * MostVisuals)
           each == {i \in fetched : \A j \in fetched : scenery[j].src = scenery[i].src => j <= i}
           mine == {j \in fetched : scenery[j].src = scenery[v].src}
           newer == {k \in pictures : k > v}
           others == SourcesOf(scenery, newer) \ {scenery[v].src}
<1>1. n \in Nat /\ SightRows = 1..n /\ pictures \subseteq 1..n /\ MostVisuals \in Nat /\ 2 * MostVisuals \in Nat
  BY SightsAreRows, StandpointBounds
<1>2. v \in recent /\ NewerThan(v, pictures) < 2 * MostVisuals /\ Cardinality(others) < MostVisuals
  BY DEF PictureIsDue, SightsOf, SinceHours, SourcesOf
<1>3. recent \subseteq pictures
  OBVIOUS
<1> HIDE DEF n, pictures, recent
<1>4. v \in fetched
  BY <1>1, <1>2, <1>3, NewestAreFetched
<1>5. fetched \subseteq pictures /\ fetched \subseteq 1..n
  BY <1>1, <1>3, FetchedAreThere
<1> HIDE DEF fetched
<1>6. PICK w \in mine : \A j \in mine : j <= w
  <2>a. v \in mine /\ mine \subseteq 1..n
    BY <1>4, <1>5
  <2> HIDE DEF mine
  <2>1. mine \in SUBSET (0..n) /\ mine # {}
    BY <1>1, <2>a
  <2> QED
    BY <1>1, <2>1, HasGreatest
<1>7. w \in fetched /\ scenery[w].src = scenery[v].src /\ v <= w /\ w \in 1..n /\ v \in 1..n
  BY <1>4, <1>5, <1>6
<1>8. w \in each
  BY <1>6, <1>7
<1> DEFINE later == {j \in each : j > w}
           f == [j \in later |-> scenery[j].src]
<1>9. f \in Injection(later, others)
  <2>1. ASSUME NEW j \in later PROVE scenery[j].src \in others
    <3>1. j \in fetched /\ j > w /\ j \in 1..n /\ j \in pictures
      BY <1>5, <2>1
    <3>2. j > v
      BY <1>7, <3>1
    <3>3. scenery[j].src # scenery[v].src
      <4>1. SUFFICES ASSUME j \in mine PROVE FALSE
        BY <3>1
      <4>2. j <= w
        BY <1>6, <4>1
      <4> QED
        BY <1>7, <3>1, <4>2
    <3> QED
      BY <3>1, <3>2, <3>3 DEF SourcesOf
  <2>2. ASSUME NEW j \in later, NEW k \in later, scenery[j].src = scenery[k].src PROVE j = k
    <3>1. j \in fetched /\ k \in fetched /\ j \in 1..n /\ k \in 1..n
      BY <1>5, <2>2
    <3>2. j <= k /\ k <= j
      BY <2>2, <3>1
    <3> QED
      BY <3>1, <3>2
  <2> HIDE DEF later, others
  <2>3. f \in [later -> others]
    BY <2>1
  <2> QED
    <3>1. \A j, k \in later : f[j] = f[k] => j = k
      BY <2>2
    <3> HIDE DEF f
    <3> QED
      BY <2>3, <3>1 DEF Injection, IsInjective
<1>10. IsFiniteSet(others)
  <2>1. newer \in SUBSET (1..n) /\ others \in SUBSET SourcesOf(scenery, newer)
    BY <1>1
  <2> HIDE DEF newer, others
  <2> QED
    BY <1>1, <2>1, SourcesAreFinite
<1>11. IsFiniteSet(later) /\ Cardinality(later) <= Cardinality(others)
  <2> HIDE DEF f, later, others
  <2> QED
    BY <1>9, <1>10, FS_Injection
<1>12. Cardinality(later) \in Nat /\ Cardinality(others) \in Nat
  <2> HIDE DEF later, others
  <2> QED
    BY <1>10, <1>11, FS_CardinalityType
<1>13. Cardinality(later) < MostVisuals
  <2> HIDE DEF later, others
  <2> QED
    BY <1>1, <1>2, <1>11, <1>12
<1>14. w \in NewestOf(each, MostVisuals)
  BY <1>8, <1>13 DEF NewestOf
<1>15. LoadVisuals = NewestOf(each, MostVisuals)
  BY DEF LoadVisuals, fetched, recent, pictures
<1> QED
  BY <1>1, <1>7, <1>14, <1>15
-----------------------------------------------------------------------------
\* The lake goes on: the rows that there were are as they were, and more are newer.
LEMMA SightsStay ==
  ASSUME GatherTypes, NEW row, scenery' = Append(scenery, row), UNCHANGED gather
  PROVE  /\ Len(scenery') = Len(scenery) + 1 /\ SightRows \subseteq SightRows' /\ SightRows' = 1..Len(scenery')
         /\ \A i \in SightRows : scenery'[i] = scenery[i]
         /\ \A kinds : SightsOf(kinds) \subseteq SightsOf(kinds)' /\ SightsOf(kinds)' \subseteq SightRows'
         /\ \A i \in SightRows : \A kinds : i \in SightsOf(kinds)' => i \in SightsOf(kinds)
         /\ \A i \in SightRows : Stance(i)' = Stance(i)
         /\ \A i \in SightRows : \A hours : FreshFor(i, hours)' <=> FreshFor(i, hours)
         /\ Taking(SightRows) \subseteq Taking(SightRows)' /\ Taking(SightRows)' \subseteq SightRows'
<1>1. /\ Len(scenery') = Len(scenery) + 1 /\ SightRows \subseteq SightRows' /\ SightRows' = 1..Len(scenery')
      /\ \A i \in SightRows : scenery'[i] = scenery[i]
  BY DEF GatherTypes, SightRows
<1>2. /\ \A kinds : SightsOf(kinds) \subseteq SightsOf(kinds)' /\ SightsOf(kinds)' \subseteq SightRows'
      /\ \A i \in SightRows : \A kinds : i \in SightsOf(kinds)' => i \in SightsOf(kinds)
  BY <1>1 DEF SightsOf
<1>3. \A i \in SightRows : Stance(i)' = Stance(i)
  BY <1>1 DEF Stance
<1>4. \A i \in SightRows : \A hours : FreshFor(i, hours)' <=> FreshFor(i, hours)
  BY <1>1 DEF FreshFor
<1>5. Taking(SightRows) \subseteq Taking(SightRows)' /\ Taking(SightRows)' \subseteq SightRows'
  BY <1>1, <1>3 DEF Taking
<1> QED
  BY <1>1, <1>2, <1>3, <1>4, <1>5

LEMMA MoreAreNewer ==
  ASSUME GatherTypes, NEW row, scenery' = Append(scenery, row), UNCHANGED gather, NEW i
  PROVE  /\ \A kinds, most : most \in Nat /\ NewerThan(i, SightsOf(kinds)') < most => NewerThan(i, SightsOf(kinds)) < most
         /\ \A most \in Nat : NewerThan(i, SightRows') < most => NewerThan(i, SightRows) < most
         /\ \A most \in Nat : NewerThan(i, Taking(SightRows)') < most => NewerThan(i, Taking(SightRows)) < most
<1> DEFINE n == Len(scenery')
<1>1. n \in Nat /\ SightRows' = 1..n /\ SightRows \subseteq SightRows'
  BY SightsStay, SightsAreRows DEF GatherTypes
<1>2. Taking(SightRows) \subseteq Taking(SightRows)' /\ Taking(SightRows)' \subseteq 1..n
  BY <1>1, SightsStay
<1>3. \A kinds : SightsOf(kinds) \subseteq SightsOf(kinds)' /\ SightsOf(kinds)' \subseteq 1..n
  BY <1>1, SightsStay
<1> HIDE DEF n
<1>4. ASSUME NEW less, NEW more \in SUBSET (1..n), less \subseteq more, NEW most \in Nat, NewerThan(i, more) < most
      PROVE  NewerThan(i, less) < most
  <2>1. NewerThan(i, less) \in Nat /\ NewerThan(i, more) \in Nat /\ NewerThan(i, less) <= NewerThan(i, more)
    BY <1>1, <1>4, FewerAreNewer
  <2> QED
    BY <1>4, <2>1
<1>5. ASSUME NEW kinds, NEW most \in Nat, NewerThan(i, SightsOf(kinds)') < most
      PROVE  NewerThan(i, SightsOf(kinds)) < most
  BY <1>3, <1>4, <1>5
<1>6. ASSUME NEW most \in Nat, NewerThan(i, SightRows') < most
      PROVE  NewerThan(i, SightRows) < most
  BY <1>1, <1>4, <1>6
<1>7. ASSUME NEW most \in Nat, NewerThan(i, Taking(SightRows)') < most
      PROVE  NewerThan(i, Taking(SightRows)) < most
  BY <1>2, <1>4, <1>7
<1> QED
  BY <1>5, <1>6, <1>7

\* What must still be found now had to be found before.
LEMMA DuesShrink ==
  ASSUME GatherTypes, NEW row, scenery' = Append(scenery, row), UNCHANGED gather, NEW i \in SightRows
  PROVE  /\ RefutesClearly(i)' => RefutesClearly(i)
         /\ AlertIsDue(i)' => AlertIsDue(i)
         /\ PictureIsDue(i)' => PictureIsDue(i)
<1>1. MostScanned \in Nat /\ MostEndorsed \in Nat /\ MostCards \in Nat /\ MostAlerts \in Nat /\ MostVisuals \in Nat /\ 2 * MostVisuals \in Nat
  BY StandpointBounds
<1>2. RefutesClearly(i)' => RefutesClearly(i)
  <2>1. /\ NewerThan(i, SightRows') < MostScanned => NewerThan(i, SightRows) < MostScanned
        /\ NewerThan(i, Taking(SightRows)') < MostEndorsed => NewerThan(i, Taking(SightRows)) < MostEndorsed
    BY <1>1, MoreAreNewer
  <2>2. Stance(i)' = Stance(i) /\ (FreshFor(i, EndorsedFor)' <=> FreshFor(i, EndorsedFor))
    BY SightsStay
  <2> QED
    BY <2>1, <2>2 DEF RefutesClearly
<1>3. AlertIsDue(i)' => AlertIsDue(i)
  <2>1. /\ NewerThan(i, SightsOf({"alert", "card"})') < MostCards => NewerThan(i, SightsOf({"alert", "card"})) < MostCards
        /\ NewerThan(i, SightsOf({"alert"})') < MostAlerts => NewerThan(i, SightsOf({"alert"})) < MostAlerts
    BY <1>1, MoreAreNewer
  <2>2. (i \in SightsOf({"alert"})' => i \in SightsOf({"alert"})) /\ (FreshFor(i, AlertedFor)' <=> FreshFor(i, AlertedFor))
    BY SightsStay
  <2> QED
    BY <2>1, <2>2 DEF AlertIsDue
<1>4. PictureIsDue(i)' => PictureIsDue(i)
  <2> DEFINE later == {k \in SightsOf({"picture"}) : k > i}
             others == {scenery[j].src : j \in later} \ {scenery[i].src}
  <2>1. NewerThan(i, SightsOf({"picture"})') < 2 * MostVisuals => NewerThan(i, SightsOf({"picture"})) < 2 * MostVisuals
    BY <1>1, MoreAreNewer
  <2>2. (i \in SightsOf({"picture"})' => i \in SightsOf({"picture"})) /\ (FreshFor(i, SeenFor)' <=> FreshFor(i, SeenFor))
    BY SightsStay
  <2>3. /\ SightsOf({"picture"}) \subseteq SightsOf({"picture"})' /\ SightsOf({"picture"})' \subseteq 1..Len(scenery')
        /\ \A j \in SightsOf({"picture"}) : scenery'[j] = scenery[j]
        /\ scenery'[i] = scenery[i] /\ Len(scenery') \in Nat
    BY SightsStay, SightsAreRows
  <2>4. others \subseteq others' /\ others' \in SUBSET SourcesOf(scenery', later') /\ later' \in SUBSET (1..Len(scenery'))
    BY <2>3 DEF SourcesOf
  <2> HIDE DEF others, later
  <2>5. IsFiniteSet(others')
    BY <2>3, <2>4, SourcesAreFinite
  <2>6. IsFiniteSet(others) /\ Cardinality(others) <= Cardinality(others')
    BY <2>4, <2>5, FS_Subset
  <2>7. Cardinality(others) \in Nat /\ Cardinality(others') \in Nat
    BY <2>5, <2>6, FS_CardinalityType
  <2>8. Cardinality(others') < MostVisuals => Cardinality(others) < MostVisuals
    BY <1>1, <2>6, <2>7
  <2> QED
    BY <2>1, <2>2, <2>8 DEF PictureIsDue, others, later
<1> QED
  BY <1>2, <1>3, <1>4
-----------------------------------------------------------------------------
LEMMA StandStart == StandInit => StandInv
<1> SUFFICES ASSUME StandInit PROVE StandInv
  OBVIOUS
<1>1. GatherTypes
  <2>1. scenery \in Seq({}) /\ Len(scenery) = 0
    BY DEF StandInit
  <2>2. gather = [pc |-> "idle", began |-> 0, from |-> 0, due |-> {}, failed |-> {}, held |-> [f \in StandFields |-> {}]]
    BY DEF StandInit
  <2> QED
    BY <2>1, <2>2 DEF GatherTypes
<1>2. \A f : ~Well(f)
  BY DEF StandInit, Well
<1> QED
  BY <1>1, <1>2 DEF StandInv, EndorsementsInv, RefutedInv, IdentityInv, AlertsInv, VisualsInv

LEMMA ArrivesKeeps ==
  ASSUME StandInv, NEW row, scenery' = Append(scenery, row), row = [kind |-> row.kind, src |-> row.src, tags |-> row.tags, at |-> row.at],
         UNCHANGED gather
  PROVE  StandInv'
<1>1. GatherTypes /\ EndorsementsInv /\ RefutedInv /\ IdentityInv /\ AlertsInv /\ VisualsInv
  BY DEF StandInv
<1>2. GatherTypes'
  <2> PICK rows : scenery \in Seq(rows)
    BY <1>1 DEF GatherTypes
  <2>1. scenery \in Seq(rows \cup {row}) /\ row \in rows \cup {row}
    BY DEF GatherTypes
  <2>2. scenery' \in Seq(rows \cup {row}) /\ Len(scenery') = Len(scenery) + 1
    BY <2>1
  <2> QED
    BY <1>1, <2>2 DEF GatherTypes
<1>3. /\ \A r \in 1..gather.began : r \in SightRows
      /\ gather.began' = gather.began /\ gather.held' = gather.held /\ gather.pc' = gather.pc /\ \A f : Well(f)' <=> Well(f)
  BY <1>1 DEF GatherTypes, SightRows, Well
<1>4. \A r \in 1..gather.began : /\ RefutesClearly(r)' => RefutesClearly(r)
                                 /\ AlertIsDue(r)' => AlertIsDue(r)
                                 /\ PictureIsDue(r)' => PictureIsDue(r)
  BY <1>1, <1>3, DuesShrink
<1>5. /\ \A r \in SightRows : Stance(r)' = Stance(r) /\ scenery'[r] = scenery[r]
      /\ \A r \in SightRows : r \in SightsOf({"identity"})' => r \in SightsOf({"identity"})
      /\ SightRows \subseteq SightRows'
  BY <1>1, SightsStay
<1>6. EndorsementsInv'
  BY <1>1, <1>3, <1>4 DEF EndorsementsInv
<1>7. RefutedInv'
  BY <1>1, <1>3, <1>4, <1>5 DEF RefutedInv
<1>8. IdentityInv'
  <2>1. \A c : NewerThan(c, SightsOf({"identity", "orient"})') < MostRegens => NewerThan(c, SightsOf({"identity", "orient"})) < MostRegens
    BY <1>1, MoreAreNewer, StandpointBounds
  <2> QED
    BY <1>1, <1>3, <1>5, <2>1 DEF IdentityInv
<1>9. AlertsInv'
  BY <1>1, <1>3, <1>4 DEF AlertsInv
<1>10. VisualsInv'
  <2> SUFFICES ASSUME Well("visuals"), NEW v \in 1..gather.began, PictureIsDue(v)
               PROVE  \E i \in gather.held["visuals"] : i \in SightRows' /\ scenery'[i].src = scenery'[v].src
    BY <1>3, <1>4 DEF VisualsInv
  <2> PICK i \in gather.held["visuals"] : i \in SightRows /\ scenery[i].src = scenery[v].src
    BY <1>1 DEF VisualsInv
  <2>1. scenery'[i] = scenery[i] /\ scenery'[v] = scenery[v] /\ i \in SightRows'
    BY <1>3, <1>5
  <2> QED
    BY <2>1
<1> QED
  BY <1>2, <1>6, <1>7, <1>8, <1>9, <1>10 DEF StandInv

LEMMA SameKeeps == StandInv /\ UNCHANGED <<scenery, gather>> => StandInv'
<1> SUFFICES ASSUME StandInv, scenery' = scenery, gather' = gather PROVE StandInv'
  OBVIOUS
<1> QED
  BY DEF StandInv, GatherTypes, EndorsementsInv, RefutedInv, IdentityInv, AlertsInv, VisualsInv, Well, RefutesClearly, AlertIsDue,
         PictureIsDue, FreshFor, Stance, SightRows, SightsOf, Taking, NewerThan

LEMMA GatherBeginsKeeps == StandInv /\ GatherBegins => StandInv'
<1> SUFFICES ASSUME StandInv, GatherBegins PROVE StandInv'
  OBVIOUS
<1>1. GatherTypes
  BY DEF StandInv
<1>a. /\ gather.pc' = "reads" /\ gather.began' = Len(scenery) /\ gather.due' = StandFields
      /\ gather.failed' = gather.failed /\ gather.held' = gather.held /\ scenery' = scenery
      /\ gather' = [pc |-> "reads", began |-> Len(scenery), from |-> gather'.from, due |-> StandFields,
                    failed |-> gather.failed, held |-> gather.held]
  BY <1>1 DEF GatherTypes, GatherBegins
<1>2. gather.pc' = "reads" /\ gather.due' = StandFields /\ GatherTypes'
  <2>1. (\E rows : scenery' \in Seq(rows)) /\ Len(scenery) \in Nat
    BY <1>1, <1>a, SightsAreRows DEF GatherTypes
  <2> QED
    BY <1>1, <1>a, <2>1 DEF GatherTypes
<1>3. \A f \in StandFields : ~Well(f)'
  BY <1>2 DEF Well
<1> QED
  BY <1>2, <1>3 DEF StandInv, EndorsementsInv, RefutedInv, IdentityInv, AlertsInv, VisualsInv, StandFields

\* A query that returned well holds what it had to find.
LEMMA GatherReadsKeeps == StandInv /\ (\E f \in StandFields, ok \in BOOLEAN : GatherReads(f, ok)) => StandInv'
<1> SUFFICES ASSUME StandInv, NEW f \in StandFields, NEW ok \in BOOLEAN, GatherReads(f, ok) PROVE StandInv'
  OBVIOUS
<1>1. GatherTypes /\ EndorsementsInv /\ RefutedInv /\ IdentityInv /\ AlertsInv /\ VisualsInv
  BY DEF StandInv
<1>2. /\ f \in gather.due /\ scenery' = scenery
      /\ gather' = [gather EXCEPT !.due = @ \ {f}, !.failed = IF ok THEN @ ELSE @ \cup {f}, !.held[f] = IF ok THEN Load(f) ELSE {}]
  BY DEF GatherReads
<1>3. /\ gather.pc' = gather.pc /\ gather.began' = gather.began /\ gather.from' = gather.from
      /\ gather.due' = gather.due \ {f} /\ gather.failed' = IF ok THEN gather.failed ELSE gather.failed \cup {f}
      /\ gather.pc = "reads" /\ f \in StandFields
      /\ gather.held' = [gather.held EXCEPT ![f] = IF ok THEN Load(f) ELSE {}]
  BY <1>1, <1>2 DEF GatherTypes
<1>4. GatherTypes'
  BY <1>1, <1>2, <1>3 DEF GatherTypes
<1>5. \A g \in StandFields : g # f /\ Well(g)' => Well(g) /\ gather.held'[g] = gather.held[g]
  BY <1>1, <1>3 DEF Well, GatherTypes
<1>6. Well(f)' => gather.held'[f] = Load(f)
  BY <1>1, <1>3 DEF Well, GatherTypes
<1>7. \A r : (RefutesClearly(r)' <=> RefutesClearly(r)) /\ (AlertIsDue(r)' <=> AlertIsDue(r)) /\ (PictureIsDue(r)' <=> PictureIsDue(r))
  BY <1>2, <1>3 DEF RefutesClearly, AlertIsDue, PictureIsDue, FreshFor, Stance, SightRows, SightsOf, Taking, NewerThan
<1>8. \A r \in 1..gather.began : r \in SightRows
  BY <1>1 DEF GatherTypes, SightRows
<1>a. \A kinds : SightsOf(kinds)' = SightsOf(kinds)
  BY <1>2 DEF SightsOf, SightRows
<1>b. SightRows' = SightRows
  BY <1>2 DEF SightRows
<1>9. EndorsementsInv'
  <2> SUFFICES ASSUME Well("endorsements")', NEW r \in 1..gather.began, RefutesClearly(r) PROVE r \in gather.held'["endorsements"]
    BY <1>3, <1>7 DEF EndorsementsInv
  <2>1. CASE f = "endorsements"
    BY <1>1, <1>6, <1>8, <2>1, EndorsementsAreRead DEF Load
  <2>2. CASE f # "endorsements"
    BY <1>1, <1>5, <2>2 DEF EndorsementsInv, StandFields
  <2> QED
    BY <2>1, <2>2
<1>10. RefutedInv'
  BY <1>3 DEF RefutedInv
<1>11. IdentityInv'
  <2> SUFFICES ASSUME Well("identity")', NEW c \in 1..gather.began, c \in SightsOf({"identity"}),
                      NewerThan(c, SightsOf({"identity", "orient"})) < MostRegens
               PROVE  \E i \in gather.held'["identity"] : c <= i
    BY <1>3, <1>a DEF IdentityInv
  <2>1. CASE f = "identity"
    BY <1>1, <1>6, <2>1, IdentityIsRead DEF Load
  <2>2. CASE f # "identity"
    BY <1>1, <1>5, <2>2 DEF IdentityInv, StandFields
  <2> QED
    BY <2>1, <2>2
<1>12. AlertsInv'
  <2> SUFFICES ASSUME Well("alerts")', NEW a \in 1..gather.began, AlertIsDue(a) PROVE a \in gather.held'["alerts"]
    BY <1>3, <1>7 DEF AlertsInv
  <2>1. CASE f = "alerts"
    BY <1>1, <1>6, <1>8, <2>1, AlertsAreRead DEF Load
  <2>2. CASE f # "alerts"
    BY <1>1, <1>5, <2>2 DEF AlertsInv, StandFields
  <2> QED
    BY <2>1, <2>2
<1>13. VisualsInv'
  <2> SUFFICES ASSUME Well("visuals")', NEW v \in 1..gather.began, PictureIsDue(v)
               PROVE  \E i \in gather.held'["visuals"] : i \in SightRows /\ scenery[i].src = scenery[v].src
    BY <1>2, <1>3, <1>7, <1>b DEF VisualsInv
  <2>1. CASE f = "visuals"
    BY <1>1, <1>6, <1>8, <2>1, PicturesAreRead DEF Load
  <2>2. CASE f # "visuals"
    BY <1>1, <1>5, <2>2 DEF VisualsInv, StandFields
  <2> QED
    BY <2>1, <2>2
<1> QED
  BY <1>4, <1>9, <1>10, <1>11, <1>12, <1>13 DEF StandInv

\* Whatever the endorsements refute is taken out.
LEMMA ComposeKeeps == StandInv /\ Compose => StandInv'
<1> SUFFICES ASSUME StandInv, Compose PROVE StandInv'
  OBVIOUS
<1>1. GatherTypes /\ EndorsementsInv /\ RefutedInv /\ IdentityInv /\ AlertsInv /\ VisualsInv
  BY DEF StandInv
<1>2. /\ gather.pc = "reads" /\ gather.due = {} /\ scenery' = scenery
      /\ gather' = [gather EXCEPT !.pc = "told", !.held["understanding"] = @ \ Refuted]
  BY DEF Compose
<1>3. /\ gather.pc' = "told" /\ gather.began' = gather.began /\ gather.from' = gather.from
      /\ gather.due' = gather.due /\ gather.failed' = gather.failed
      /\ gather.held' = [gather.held EXCEPT !["understanding"] = @ \ Refuted]
  BY <1>1, <1>2 DEF GatherTypes
<1>4. GatherTypes'
  BY <1>1, <1>2, <1>3 DEF GatherTypes
<1>5. \A f \in StandFields : f # "understanding" /\ Well(f)' => Well(f) /\ gather.held'[f] = gather.held[f]
  BY <1>1, <1>2, <1>3 DEF Well, GatherTypes
<1>6. \A r : (RefutesClearly(r)' <=> RefutesClearly(r)) /\ (AlertIsDue(r)' <=> AlertIsDue(r)) /\ (PictureIsDue(r)' <=> PictureIsDue(r))
  BY <1>2, <1>3 DEF RefutesClearly, AlertIsDue, PictureIsDue, FreshFor, Stance, SightRows, SightsOf, Taking, NewerThan
<1>7. (\A kinds : SightsOf(kinds)' = SightsOf(kinds)) /\ SightRows' = SightRows /\ \A r : Stance(r)' = Stance(r)
  BY <1>2 DEF SightsOf, SightRows, Stance
<1>8. EndorsementsInv'
  BY <1>1, <1>3, <1>5, <1>6 DEF EndorsementsInv, StandFields
<1>9. RefutedInv'
  <2> SUFFICES ASSUME Well("endorsements")', NEW r \in 1..gather.began, RefutesClearly(r)
               PROVE  Stance(r).of \notin gather.held'["understanding"]
    BY <1>3, <1>6, <1>7 DEF RefutedInv
  <2>1. r \in gather.held["endorsements"]
    BY <1>1, <1>5 DEF EndorsementsInv, StandFields
  <2>2. Stance(r).of \in Refuted
    BY <2>1 DEF Refuted, RefutesClearly
  <2>3. gather.held'["understanding"] = gather.held["understanding"] \ Refuted
    BY <1>1, <1>3 DEF GatherTypes, StandFields
  <2> QED
    BY <2>2, <2>3
<1>10. IdentityInv'
  BY <1>1, <1>3, <1>5, <1>7 DEF IdentityInv, StandFields
<1>11. AlertsInv'
  BY <1>1, <1>3, <1>5, <1>6 DEF AlertsInv, StandFields
<1>12. VisualsInv'
  BY <1>1, <1>2, <1>3, <1>5, <1>6, <1>7 DEF VisualsInv, StandFields
<1> QED
  BY <1>4, <1>8, <1>9, <1>10, <1>11, <1>12 DEF StandInv
-----------------------------------------------------------------------------
LEMMA StandStep == StandInv /\ [StandNext]_standVars => StandInv'
<1> SUFFICES ASSUME StandInv, [StandNext]_standVars PROVE StandInv'
  OBVIOUS
<1>1. ASSUME NEW sight \in Sights, NEW tags, Arrives(sight, tags) PROVE StandInv'
  <2> DEFINE row == [kind |-> sight.kind, src |-> sight.src, tags |-> tags, at |-> hour]
  <2>1. scenery' = Append(scenery, row) /\ UNCHANGED gather /\ row = [kind |-> row.kind, src |-> row.src, tags |-> row.tags, at |-> row.at]
    BY <1>1 DEF Arrives
  <2> HIDE DEF row
  <2> QED
    BY <2>1, ArrivesKeeps
<1>2. CASE HourPasses
  BY <1>2, SameKeeps DEF HourPasses
<1>3. CASE GatherBegins
  BY <1>3, GatherBeginsKeeps
<1>4. CASE \E f \in StandFields, ok \in BOOLEAN : GatherReads(f, ok)
  BY <1>4, GatherReadsKeeps
<1>5. CASE Compose
  BY <1>5, ComposeKeeps
<1>6. CASE UNCHANGED standVars
  BY <1>6, SameKeeps DEF standVars
<1> QED
  BY <1>1, <1>2, <1>3, <1>4, <1>5, <1>6, Zenon DEF StandNext

LEMMA StandpointFollows == StandInv => StandpointIsTrue
<1> SUFFICES ASSUME StandInv PROVE StandpointIsTrue
  OBVIOUS
<1>1. GatherTypes /\ EndorsementsInv /\ RefutedInv /\ IdentityInv /\ AlertsInv /\ VisualsInv
  BY DEF StandInv
<1>2. \A f \in StandFields : Told(f) => Well(f) /\ gather.pc = "told"
  BY <1>1 DEF Told, Well, GatherTypes
<1>3. RefutedStaysOut
  BY <1>1, <1>2 DEF RefutedStaysOut, RefutedInv, RefutesClearly, StandFields
<1>4. IdentityIsCurrent
  BY <1>1, <1>2 DEF IdentityIsCurrent, IdentityInv, StandFields
<1>5. SightsAreTold
  <2>1. \A a \in 1..gather.began \cap SightsOf({"alert"}) :
          (FreshFor(a, AlertedFor) /\ NewerThan(a, SightsOf({"alert", "card"})) < MostCards /\ NewerThan(a, SightsOf({"alert"})) < MostAlerts)
            => AlertIsDue(a)
    BY DEF AlertIsDue
  <2>2. \A v \in 1..gather.began \cap SightsOf({"picture"}) :
          (/\ FreshFor(v, SeenFor) /\ NewerThan(v, SightsOf({"picture"})) < 2 * MostVisuals
           /\ Cardinality({scenery[j].src : j \in {k \in SightsOf({"picture"}) : k > v}} \ {scenery[v].src}) < MostVisuals)
            => PictureIsDue(v)
    BY Zenon DEF PictureIsDue
  <2> QED
    BY <1>1, <1>2, <2>1, <2>2 DEF SightsAreTold, AlertsInv, VisualsInv, StandFields
<1> QED
  BY <1>3, <1>4, <1>5 DEF StandpointIsTrue

\* A standpoint is true: what was refuted before the gathering began is not told,
\* the identity told is the newest there was, and an alert raised before and every
\* source of pictures is known, within the windows and the limits of the queries.
THEOREM StandpointStaysTrue == StandSpec => []StandpointIsTrue
<1>1. StandInit => StandInv
  BY StandStart
<1>2. StandInv /\ [StandNext]_standVars => StandInv'
  BY StandStep
<1>3. StandInv => StandpointIsTrue
  BY StandpointFollows
<1> QED
  BY <1>1, <1>2, <1>3, PTL DEF StandSpec

\* Whatever the lake receives between its reads, a recall shows each row once and with
\* it the summaries above it, a thought that is marked as self-referential cites nothing
\* from outside, and a standpoint tells what is current and leaves out what was refuted.
THEOREM RecallStaysTrue == RecallSpec /\ StandSpec => []RecallIsTrue
<1>1. RecallsAreTrue /\ StandpointIsTrue => RecallIsTrue
  BY DEF RecallIsTrue
<1> QED
  BY <1>1, RecallsStayTrue, StandpointStaysTrue, PTL
-----------------------------------------------------------------------------
\* Induction up to a number, for a set: what a step cannot leave is all there is.
LEMMA StepByStep ==
  ASSUME NEW n \in Nat, NEW S, 0 \in S, \A k \in 0..n : k \in S /\ k < n => k + 1 \in S
  PROVE  0..n \subseteq S
<1> SUFFICES ASSUME NEW m \in 0..n, m \notin S PROVE FALSE
  OBVIOUS
<1> DEFINE T == {k \in 0..m : \A j \in 0..k : j \in S}
<1>1. T \in SUBSET (0..m) /\ 0 \in T /\ m \in Nat
  OBVIOUS
<1>2. PICK k \in T : \A j \in T : j <= k
  <2> HIDE DEF T
  <2> QED
    BY <1>1, HasGreatest
<1>3. k \in 0..m /\ k < m /\ \A j \in 0..k : j \in S
  OBVIOUS
<1>4. k + 1 \in S
  BY <1>3
<1>5. k + 1 \in T
  BY <1>3, <1>4
<1> QED
  BY <1>2, <1>3, <1>5

\* A function that is defined step by step is there.
IsFold(f, D, g, d, s) == f \in [0..Len(s) -> D] /\ f[0] = d /\ \A k \in 1..Len(s) : f[k] = g[<<f[k - 1], s[k]>>]
LEMMA Folding ==
  ASSUME NEW D, NEW X, NEW g \in [D \X X -> D], NEW d \in D, NEW s \in Seq(X)
  PROVE  \E f : IsFold(f, D, g, d, s)
<1> DEFINE n == Len(s)
           S == {m \in 0..n : \E f \in [0..m -> D] : f[0] = d /\ \A k \in 1..m : f[k] = g[<<f[k - 1], s[k]>>]}
<1>0. n \in Nat
  OBVIOUS
<1>1. 0 \in S
  <2> DEFINE f == [k \in 0..0 |-> d]
  <2>1. f \in [0..0 -> D] /\ f[0] = d /\ \A k \in 1..0 : f[k] = g[<<f[k - 1], s[k]>>]
    OBVIOUS
  <2> HIDE DEF f
  <2>2. \E e \in [0..0 -> D] : e[0] = d /\ \A k \in 1..0 : e[k] = g[<<e[k - 1], s[k]>>]
    BY <2>1
  <2> QED
    BY <1>0, <2>2
<1>2. ASSUME NEW m \in 0..n, m \in S, m < n PROVE m + 1 \in S
  <2> PICK f \in [0..m -> D] : f[0] = d /\ \A k \in 1..m : f[k] = g[<<f[k - 1], s[k]>>]
    BY <1>2
  <2> DEFINE h == [k \in 0..(m + 1) |-> IF k <= m THEN f[k] ELSE g[<<f[m], s[m + 1]>>]]
  <2>1. s[m + 1] \in X /\ f[m] \in D /\ m \in Nat
    BY <1>0, <1>2
  <2>2. g[<<f[m], s[m + 1]>>] \in D
    BY <2>1
  <2>3. h \in [0..(m + 1) -> D]
    BY <2>1, <2>2
  <2>4. h[0] = d /\ (\A k \in 0..m : h[k] = f[k]) /\ h[m + 1] = g[<<f[m], s[m + 1]>>]
    BY <2>1
  <2> HIDE DEF h
  <2>5. \A k \in 1..(m + 1) : h[k] = g[<<h[k - 1], s[k]>>]
    <3> SUFFICES ASSUME NEW k \in 1..(m + 1) PROVE h[k] = g[<<h[k - 1], s[k]>>]
      OBVIOUS
    <3>1. CASE k = m + 1
      <4>1. k - 1 = m /\ h[k - 1] = f[m]
        BY <2>1, <2>4, <3>1
      <4> QED
        BY <2>4, <3>1, <4>1
    <3>2. CASE k # m + 1
      <4>1. k \in 1..m /\ k - 1 \in 0..m
        BY <2>1, <3>2
      <4> QED
        BY <2>4, <4>1
    <3> QED
      BY <3>1, <3>2
  <2> QED
    BY <1>0, <1>2, <2>1, <2>3, <2>4, <2>5
<1> HIDE DEF S
<1>3. 0..n \subseteq S
  BY <1>0, <1>1, <1>2, StepByStep
<1>4. n \in S
  BY <1>0, <1>3
<1> QED
  BY <1>4 DEF S, IsFold

\* A filter is a filter.
Filters(f, X, s, S) ==
  /\ f \in [0..Len(s) -> Seq(X \cap S)] /\ Among(s, S) = f[Len(s)] /\ f[0] = <<>>
  /\ \A k \in 1..Len(s) : f[k] = IF s[k] \in S THEN Append(f[k - 1], s[k]) ELSE f[k - 1]
LEMMA AmongStepByStep ==
  ASSUME NEW X, NEW s \in Seq(X), NEW S
  PROVE  \E f : Filters(f, X, s, S)
<1> DEFINE D == Seq(X \cap S)
           g == [p \in D \X X |-> IF p[2] \in S THEN Append(p[1], p[2]) ELSE p[1]]
           n == Len(s)
           IsIt(h) == h = [k \in 0..n |-> IF k = 0 THEN <<>> ELSE IF s[k] \in S THEN Append(h[k - 1], s[k]) ELSE h[k - 1]]
<1>1. g \in [D \X X -> D] /\ <<>> \in D /\ n \in Nat
  <2>1. ASSUME NEW p \in D \X X PROVE (IF p[2] \in S THEN Append(p[1], p[2]) ELSE p[1]) \in D
    <3>1. p[1] \in D /\ p[2] \in X
      OBVIOUS
    <3> QED
      BY <3>1
  <2> QED
    BY <2>1
<1>2. PICK f \in [0..n -> D] : f[0] = <<>> /\ \A k \in 1..n : f[k] = g[<<f[k - 1], s[k]>>]
  <2> DEFINE d == <<>>
  <2>1. d \in D
    BY <1>1
  <2> HIDE DEF g, D, d
  <2>2. \E f : IsFold(f, D, g, d, s)
    BY <1>1, <2>1, Folding
  <2> QED
    BY <2>2 DEF d, IsFold
<1>3. \A k \in 1..n : f[k] = IF s[k] \in S THEN Append(f[k - 1], s[k]) ELSE f[k - 1]
  <2> SUFFICES ASSUME NEW k \in 1..n PROVE f[k] = IF s[k] \in S THEN Append(f[k - 1], s[k]) ELSE f[k - 1]
    OBVIOUS
  <2>1. f[k - 1] \in D /\ s[k] \in X
    BY <1>1
  <2> QED
    BY <1>2, <2>1
<1> HIDE DEF D, g
<1>4. IsIt(f)
  <2>1. f = [k \in 0..n |-> f[k]]
    BY <1>2
  <2>2. \A k \in 0..n : f[k] = IF k = 0 THEN <<>> ELSE IF s[k] \in S THEN Append(f[k - 1], s[k]) ELSE f[k - 1]
    <3> SUFFICES ASSUME NEW k \in 0..n
                 PROVE  f[k] = IF k = 0 THEN <<>> ELSE IF s[k] \in S THEN Append(f[k - 1], s[k]) ELSE f[k - 1]
      OBVIOUS
    <3>1. CASE k = 0
      BY <1>2, <3>1
    <3>2. CASE k # 0
      <4>1. k \in 1..n
        BY <1>1, <3>2
      <4> QED
        BY <1>3, <3>2, <4>1
    <3> QED
      BY <3>1, <3>2
  <2> QED
    BY <2>1, <2>2, Zenon
<1>5. PICK h : IsIt(h) /\ Among(s, S) = h[n]
  BY <1>4 DEF Among
<1>6. \A k \in 0..n : h[k] = IF k = 0 THEN <<>> ELSE IF s[k] \in S THEN Append(h[k - 1], s[k]) ELSE h[k - 1]
  BY <1>5
<1> DEFINE T == {k \in 0..n : h[k] \in D}
<1>7. 0..n \subseteq T
  <2>1. 0 \in T
    BY <1>1, <1>6
  <2>2. ASSUME NEW k \in 0..n, k \in T, k < n PROVE k + 1 \in T
    <3>1. k + 1 \in 0..n /\ k + 1 # 0 /\ (k + 1) - 1 = k /\ s[k + 1] \in X
      BY <1>1, <2>2
    <3>2. h[k + 1] = IF s[k + 1] \in S THEN Append(h[k], s[k + 1]) ELSE h[k]
      BY <1>6, <3>1
    <3>3. h[k + 1] \in D
      BY <2>2, <3>1, <3>2 DEF D
    <3> QED
      BY <3>1, <3>3
  <2> HIDE DEF T
  <2> QED
    BY <1>1, <2>1, <2>2, StepByStep, Zenon
<1>8. h \in [0..n -> D]
  BY <1>5, <1>7
<1>9. h[0] = <<>> /\ \A k \in 1..n : h[k] = IF s[k] \in S THEN Append(h[k - 1], s[k]) ELSE h[k - 1]
  BY <1>1, <1>6
<1> QED
  BY <1>5, <1>8, <1>9 DEF D, Filters

LEMMA AmongAreMembers ==
  ASSUME NEW X, NEW s \in Seq(X), NEW S
  PROVE  Among(s, S) \in Seq(X \cap S) /\ ToSet(Among(s, S)) \subseteq S
<1> PICK f : Filters(f, X, s, S)
  BY AmongStepByStep
<1>1. Among(s, S) \in Seq(X \cap S)
  BY DEF Filters
<1>2. \A k \in DOMAIN Among(s, S) : Among(s, S)[k] \in S
  BY <1>1
<1> QED
  BY <1>1, <1>2 DEF ToSet

LEMMA PulledAreWanted ==
  ASSUME NEW X, NEW s \in Seq(X), NEW S
  PROVE  NewestPulled(Among(s, S)) \subseteq S
<1> DEFINE rows == Among(s, S)
           first == Len(rows) - (IF Len(rows) < MostSeen THEN Len(rows) ELSE MostSeen) + 1
<1>1. rows \in Seq(X \cap S)
  BY AmongAreMembers
<1> HIDE DEF rows
<1>2. first \in 1..(Len(rows) + 1)
  <2> DEFINE n == Len(rows)
  <2>1. MostSeen \in Nat /\ n \in Nat
    BY <1>1, DraftersBounds
  <2> HIDE DEF n
  <2>2. n - (IF n < MostSeen THEN n ELSE MostSeen) + 1 \in 1..(n + 1)
    BY <2>1
  <2> QED
    BY <2>2 DEF n
<1>3. SubSeq(rows, first, Len(rows)) \in Seq(X \cap S)
  <2> HIDE DEF first
  <2> QED
    BY <1>1, <1>2
<1> DEFINE newest == SubSeq(rows, first, Len(rows))
<1>4. \A k \in DOMAIN newest : newest[k] \in S
  <2> HIDE DEF newest
  <2>1. newest \in Seq(X \cap S)
    BY <1>3 DEF newest
  <2> QED
    BY <2>1
<1>5. NewestPulled(rows) = {newest[k] : k \in DOMAIN newest}
  BY DEF NewestPulled, ToSet
<1> QED
  BY <1>4, <1>5 DEF rows
-----------------------------------------------------------------------------
DraftTypes ==
  /\ \E rows : pool \in Seq(rows)
  /\ draft \in [pc : {"idle", "compose", "group", "post", "done"}, script : Scripts, auto : BOOLEAN, pulled : {draft.pulled},
                groups : {draft.groups}, at : Nat \ {0}, written : Int, asked : SUBSET Nat, quit : Nat, unsure : SUBSET Nat,
                dropped : SUBSET Nat, exit : Nat]
  /\ draft.groups \in Seq(ToSet(draft.groups)) /\ \A k \in DOMAIN draft.groups : draft.groups[k].ids \in Seq(ToSet(draft.groups[k].ids))
  /\ \E rows : slots \in Seq(rows)
  /\ IsFiniteSet(draft.unsure) /\ IsFiniteSet(draft.dropped)
\* What was pulled is what the script wants.
PulledInv == draft.pc \in {"compose", "group", "post"} => draft.pulled \subseteq WantedBy(draft.script)
\* Before the first group nothing has happened.
FreshInv ==
  draft.pc \in {"idle", "compose"} =>
    slots = <<>> /\ draft.at = 1 /\ draft.asked = {} /\ draft.unsure = {} /\ draft.dropped = {} /\ draft.written = 0
\* What is drafted, counted or in doubt is of a group that was asked about and is behind.
BehindInv ==
  /\ \A k \in DOMAIN slots : slots[k].by \in draft.asked /\ slots[k].by \in Nat /\ slots[k].by < draft.at
  /\ \A g \in draft.unsure \cup draft.dropped : g < draft.at
\* The group that is posted is complete, and the operator has said yes.
PostInv == draft.pc = "post" => draft.at <= Len(draft.groups) /\ draft.at \in draft.asked /\ Complete
QuitInv == draft.quit > 0 => draft.pc = "done" /\ \A k \in DOMAIN slots : slots[k].by < draft.quit
OnceInv == \A k, l \in DOMAIN slots : slots[k].by = slots[l].by => k = l
CountInv == draft.written = Len(slots) - Cardinality(draft.unsure \ draft.dropped) + Cardinality(draft.dropped \ draft.unsure)
DraftInv == DraftTypes /\ PulledInv /\ FreshInv /\ BehindInv /\ PostInv /\ QuitInv /\ OnceInv /\ CountInv /\ DraftsAreGrounded
-----------------------------------------------------------------------------
LEMMA DraftersStart == DraftersInit => DraftInv
<1> SUFFICES ASSUME DraftersInit PROVE DraftInv
  OBVIOUS
<1>1. pool = <<>> /\ draft = IdleRun /\ slots = <<>>
  BY DEF DraftersInit
<1>2. DraftTypes
  <2>1. <<>> \in Seq({}) /\ IsFiniteSet({}) /\ draft.groups = <<>> /\ draft.unsure = {} /\ draft.dropped = {}
    BY <1>1, FS_EmptySet DEF IdleRun
  <2>2. draft.groups \in Seq(ToSet(draft.groups)) /\ \A k \in DOMAIN draft.groups : FALSE
    BY <2>1
  <2>3. draft \in [pc : {"idle", "compose", "group", "post", "done"}, script : Scripts, auto : BOOLEAN, pulled : {draft.pulled},
                   groups : {draft.groups}, at : Nat \ {0}, written : Int, asked : SUBSET Nat, quit : Nat, unsure : SUBSET Nat,
                   dropped : SUBSET Nat, exit : Nat]
    BY <1>1 DEF IdleRun, Scripts
  <2> QED
    BY <1>1, <2>1, <2>2, <2>3 DEF DraftTypes
<1>3. PulledInv /\ FreshInv /\ BehindInv /\ PostInv /\ QuitInv /\ OnceInv /\ DraftsAreGrounded
  BY <1>1 DEF PulledInv, FreshInv, BehindInv, PostInv, QuitInv, OnceInv, DraftsAreGrounded, IdleRun
<1>4. CountInv
  <2>1. draft.unsure \ draft.dropped = {} /\ draft.dropped \ draft.unsure = {} /\ draft.written = 0 /\ Len(slots) = 0
    BY <1>1 DEF IdleRun
  <2>2. Cardinality(draft.unsure \ draft.dropped) = 0 /\ Cardinality(draft.dropped \ draft.unsure) = 0
    BY <2>1, FS_EmptySet
  <2> QED
    BY <2>1, <2>2 DEF CountInv
<1> QED
  BY <1>2, <1>3, <1>4 DEF DraftInv

\* What a step leaves alone.
LEMMA SameRun ==
  ASSUME DraftInv, UNCHANGED <<draft, slots>>, \E rows : pool' \in Seq(rows)
  PROVE  DraftInv'
<1>1. DraftTypes'
  BY DEF DraftInv, DraftTypes
<1>2. PulledInv' /\ FreshInv' /\ BehindInv' /\ QuitInv' /\ OnceInv'
  BY DEF DraftInv, PulledInv, FreshInv, BehindInv, QuitInv, OnceInv
<1>3. PostInv'
  <2>1. draft' = draft
    OBVIOUS
  <2>2. Complete' <=> Complete
    BY <2>1, Zenon DEF Complete, TheGroup, KeptIds
  <2> QED
    BY <2>1, <2>2 DEF DraftInv, PostInv
<1>4. CountInv' /\ DraftsAreGrounded'
  BY DEF DraftInv, CountInv, DraftsAreGrounded
<1> QED
  BY <1>1, <1>2, <1>3, <1>4 DEF DraftInv

LEMMA PoolKeeps ==
  ASSUME DraftInv, NEW i, RowArrives(i) \/ RowExpires(i)
  PROVE  DraftInv'
<1> PICK rows : pool \in Seq(rows)
  BY DEF DraftInv, DraftTypes
<1>1. CASE RowArrives(i)
  <2>1. pool \in Seq(rows \cup {i})
    OBVIOUS
  <2>2. pool' \in Seq(rows \cup {i})
    BY <1>1, <2>1 DEF RowArrives
  <2> QED
    BY <1>1, <2>2, SameRun DEF RowArrives
<1>2. CASE RowExpires(i)
  <2>1. pool' \in Seq(rows \cap (ToSet(pool) \ {i}))
    BY <1>2, AmongAreMembers DEF RowExpires
  <2> QED
    BY <1>2, <2>1, SameRun DEF RowExpires
<1> QED
  BY <1>1, <1>2

LEMMA PullKeeps ==
  ASSUME DraftInv, NEW script \in Scripts, NEW auto \in BOOLEAN, NEW ok \in BOOLEAN, PullPool(script, auto, ok)
  PROVE  DraftInv'
<1> DEFINE rows == NewestPulled(Among(pool, WantedBy(script)))
           run == [draft EXCEPT !.script = script, !.auto = auto]
<1>1. DraftTypes /\ FreshInv /\ QuitInv
  BY DEF DraftInv
<1>2. draft.pc = "idle" /\ UNCHANGED <<pool, slots>>
  BY DEF PullPool
<1>3. /\ slots = <<>> /\ draft.at = 1 /\ draft.asked = {} /\ draft.unsure = {} /\ draft.dropped = {} /\ draft.written = 0
      /\ ~(draft.quit > 0)
  BY <1>1, <1>2 DEF FreshInv, QuitInv
<1>4. rows \subseteq WantedBy(script)
  <2> PICK any : pool \in Seq(any)
    BY <1>1 DEF DraftTypes
  <2> QED
    BY PulledAreWanted
<1> HIDE DEF rows
<1>5. \E exit \in Nat : draft' = RunEnds(run, exit) \/ draft' = [run EXCEPT !.pc = "compose", !.pulled = rows]
  <2>1. draft' = CASE ~ok -> RunEnds(run, IF script = "episodes" THEN 1 ELSE 2)
                   [] ok /\ rows = {} -> RunEnds(run, IF script = "reflective" THEN 2 ELSE 0)
                   [] OTHER -> [run EXCEPT !.pc = "compose", !.pulled = rows]
    BY Zenon DEF PullPool, rows
  <2> HIDE DEF run
  <2>2. \/ draft' = RunEnds(run, 0) \/ draft' = RunEnds(run, 1) \/ draft' = RunEnds(run, 2)
        \/ draft' = [run EXCEPT !.pc = "compose", !.pulled = rows]
    BY <2>1
  <2> QED
    BY <2>2
<1>6. /\ draft.groups' = draft.groups /\ draft.at' = draft.at /\ draft.written' = draft.written /\ draft.asked' = draft.asked
      /\ draft.quit' = draft.quit /\ draft.unsure' = draft.unsure /\ draft.dropped' = draft.dropped
      /\ draft.pc' \in {"compose", "done"} /\ (draft.pc' = "compose" => draft.pulled' = rows /\ draft.script' = script)
      /\ draft.script' \in Scripts /\ draft.auto' \in BOOLEAN /\ draft.exit' \in Nat
      /\ draft' = [pc |-> draft'.pc, script |-> draft'.script, auto |-> draft'.auto, pulled |-> draft'.pulled, groups |-> draft.groups,
                   at |-> draft.at, written |-> draft.written, asked |-> draft.asked, quit |-> draft.quit, unsure |-> draft.unsure,
                   dropped |-> draft.dropped, exit |-> draft'.exit]
  <2> PICK exit \in Nat : draft' = RunEnds(run, exit) \/ draft' = [run EXCEPT !.pc = "compose", !.pulled = rows]
    BY <1>5
  <2>1. CASE draft' = RunEnds(run, exit)
    <3>1. draft' = [pc |-> "done", script |-> script, auto |-> auto, pulled |-> draft.pulled, groups |-> draft.groups,
                    at |-> draft.at, written |-> draft.written, asked |-> draft.asked, quit |-> draft.quit, unsure |-> draft.unsure,
                    dropped |-> draft.dropped, exit |-> exit]
      BY <1>1, <2>1 DEF DraftTypes, RunEnds
    <3> QED
      BY <3>1
  <2>2. CASE draft' = [run EXCEPT !.pc = "compose", !.pulled = rows]
    <3>1. draft' = [pc |-> "compose", script |-> script, auto |-> auto, pulled |-> rows, groups |-> draft.groups,
                    at |-> draft.at, written |-> draft.written, asked |-> draft.asked, quit |-> draft.quit, unsure |-> draft.unsure,
                    dropped |-> draft.dropped, exit |-> draft.exit]
      BY <1>1, <2>2 DEF DraftTypes
    <3>2. draft.exit \in Nat
      BY <1>1 DEF DraftTypes
    <3> QED
      BY <3>1, <3>2
  <2> QED
    BY <2>1, <2>2
<1>7. DraftTypes'
  BY <1>1, <1>2, <1>6 DEF DraftTypes
<1>8. PulledInv' /\ FreshInv' /\ PostInv' /\ QuitInv' /\ OnceInv' /\ BehindInv' /\ DraftsAreGrounded'
  BY <1>2, <1>3, <1>4, <1>6 DEF PulledInv, FreshInv, PostInv, QuitInv, OnceInv, BehindInv, DraftsAreGrounded
<1>9. CountInv'
  BY <1>2, <1>6 DEF CountInv, DraftInv
<1> QED
  BY <1>7, <1>8, <1>9 DEF DraftInv

\* A step of the run that drafts nothing: the fields that it may change are named.
GoesOn(pc, groups, at, asked, quit, exit) ==
  /\ pc \in {"group", "post", "done"} /\ at \in Nat \ {0} /\ asked \in SUBSET Nat /\ quit \in Nat /\ exit \in Nat
  /\ groups \in Seq(ToSet(groups)) /\ \A k \in DOMAIN groups : groups[k].ids \in Seq(ToSet(groups[k].ids))
  /\ draft' = [draft EXCEPT !.pc = pc, !.groups = groups, !.at = at, !.asked = asked, !.quit = quit, !.exit = exit]
  /\ draft.pc \in {"compose", "group", "post"} /\ draft.at <= at /\ draft.asked \subseteq asked
  /\ quit = 0 \/ (quit = at /\ pc = "done")
  /\ pc = "post" => groups = draft.groups /\ at = draft.at /\ at \in asked /\ at <= Len(groups) /\ Complete
  /\ pool' = pool /\ slots' = slots
LEMMA RunGoesOn ==
  ASSUME DraftInv, NEW pc, NEW groups, NEW at, NEW asked, NEW quit, NEW exit, GoesOn(pc, groups, at, asked, quit, exit)
  PROVE  DraftInv'
<1>1. DraftTypes /\ PulledInv /\ BehindInv /\ QuitInv /\ OnceInv /\ CountInv /\ DraftsAreGrounded
  BY DEF DraftInv
<1>a. /\ pc \in {"group", "post", "done"} /\ at \in Nat \ {0} /\ asked \in SUBSET Nat /\ quit \in Nat /\ exit \in Nat
      /\ groups \in Seq(ToSet(groups)) /\ \A k \in DOMAIN groups : groups[k].ids \in Seq(ToSet(groups[k].ids))
      /\ draft' = [draft EXCEPT !.pc = pc, !.groups = groups, !.at = at, !.asked = asked, !.quit = quit, !.exit = exit]
      /\ draft.pc \in {"compose", "group", "post"} /\ draft.at <= at /\ draft.asked \subseteq asked
      /\ quit = 0 \/ (quit = at /\ pc = "done")
      /\ pc = "post" => groups = draft.groups /\ at = draft.at /\ at \in asked /\ at <= Len(groups) /\ Complete
      /\ pool' = pool /\ slots' = slots
  BY DEF GoesOn
<1>2. draft' = [pc |-> pc, script |-> draft.script, auto |-> draft.auto, pulled |-> draft.pulled, groups |-> groups,
                at |-> at, written |-> draft.written, asked |-> asked, quit |-> quit, unsure |-> draft.unsure,
                dropped |-> draft.dropped, exit |-> exit]
  BY <1>1, <1>a DEF DraftTypes
<1>3. DraftTypes'
  <2>1. draft.script \in Scripts /\ draft.auto \in BOOLEAN /\ draft.written \in Int /\ draft.unsure \in SUBSET Nat /\ draft.dropped \in SUBSET Nat
    BY <1>1 DEF DraftTypes
  <2> QED
    BY <1>1, <1>2, <1>a, <2>1 DEF DraftTypes
<1>4. PulledInv' /\ FreshInv' /\ OnceInv' /\ CountInv' /\ DraftsAreGrounded'
  BY <1>1, <1>2, <1>a DEF PulledInv, FreshInv, OnceInv, CountInv, DraftsAreGrounded
<1>5. BehindInv' /\ QuitInv'
  <2>1. draft.at \in Nat
    BY <1>1 DEF DraftTypes
  <2>2. \A k \in DOMAIN slots : slots[k].by \in asked /\ slots[k].by \in Nat /\ slots[k].by < at
    BY <1>1, <1>a, <2>1 DEF BehindInv
  <2>3. \A g \in draft.unsure \cup draft.dropped : g < at
    BY <1>1, <1>a, <2>1 DEF BehindInv, DraftTypes
  <2> QED
    BY <1>2, <1>a, <2>2, <2>3 DEF BehindInv, QuitInv
<1>6. PostInv'
  <2>1. SUFFICES ASSUME pc = "post" PROVE draft.at' <= Len(draft.groups') /\ draft.at' \in draft.asked' /\ Complete'
    BY <1>2 DEF PostInv
  <2>2. draft.script' = draft.script /\ draft.groups' = draft.groups /\ draft.at' = draft.at /\ draft.pulled' = draft.pulled
    BY <1>2, <1>a, <2>1
  <2>3. Complete' <=> Complete
    BY <2>2, Zenon DEF Complete, TheGroup, KeptIds
  <2> QED
    BY <1>2, <1>a, <2>1, <2>3
<1> QED
  BY <1>3, <1>4, <1>5, <1>6 DEF DraftInv

LEMMA ComposeGroupsKeeps ==
  ASSUME DraftInv, NEW groups \in Groupings, ComposeGroups(groups)
  PROVE  DraftInv'
<1>1. /\ draft.pc = "compose" /\ UNCHANGED <<pool, slots>>
      /\ draft' = IF groups = <<>> THEN RunEnds(draft, 0) ELSE [draft EXCEPT !.pc = "group", !.groups = groups]
  BY Zenon DEF ComposeGroups
<1>2. /\ groups \in Seq(ToSet(groups)) /\ \A k \in DOMAIN groups : groups[k].ids \in Seq(ToSet(groups[k].ids))
  BY DraftersBounds
<1>3. DraftTypes /\ draft.at <= draft.at /\ draft.at \in Nat \ {0} /\ draft.asked \in SUBSET Nat /\ draft.quit \in Nat /\ draft.exit \in Nat /\ draft.quit = 0
  BY <1>1 DEF DraftInv, DraftTypes, QuitInv
<1>4. draft.groups \in Seq(ToSet(draft.groups)) /\ \A k \in DOMAIN draft.groups : draft.groups[k].ids \in Seq(ToSet(draft.groups[k].ids))
  BY <1>3 DEF DraftTypes
<1>5. CASE groups = <<>>
  <2>1. draft' = [draft EXCEPT !.pc = "done", !.groups = draft.groups, !.at = draft.at, !.asked = draft.asked, !.quit = 0, !.exit = 0]
    BY <1>1, <1>3, <1>5 DEF DraftTypes, RunEnds
  <2>9. GoesOn("done", draft.groups, draft.at, draft.asked, 0, 0)
    BY <1>1, <1>3, <1>4, <2>1 DEF GoesOn
  <2> QED
    BY <2>9, RunGoesOn
<1>6. CASE groups # <<>>
  <2>1. draft' = [draft EXCEPT !.pc = "group", !.groups = groups, !.at = draft.at, !.asked = draft.asked, !.quit = 0, !.exit = draft.exit]
    BY <1>1, <1>3, <1>6 DEF DraftTypes
  <2>9. GoesOn("group", groups, draft.at, draft.asked, 0, draft.exit)
    BY <1>1, <1>2, <1>3, <2>1 DEF GoesOn
  <2> QED
    BY <2>9, RunGoesOn
<1> QED
  BY <1>5, <1>6

\* The model fails, a group is passed over, the operator answers, or the run is over.
LEMMA RunKeeps ==
  ASSUME DraftInv, ComposeFails \/ SkipGroup \/ FinishRun \/ \E word \in {"yes", "no", "quit"} : AnswerAsked(word)
  PROVE  DraftInv'
<1>3. DraftTypes /\ draft.at <= draft.at /\ draft.at \in Nat \ {0} /\ draft.at + 1 \in Nat \ {0} /\ draft.asked \in SUBSET Nat /\ draft.quit \in Nat /\ draft.exit \in Nat
  BY DEF DraftInv, DraftTypes
<1>4. draft.groups \in Seq(ToSet(draft.groups)) /\ \A k \in DOMAIN draft.groups : draft.groups[k].ids \in Seq(ToSet(draft.groups[k].ids))
  BY <1>3 DEF DraftTypes
<1>a. draft.pc # "done" => draft.quit = 0
  BY <1>3 DEF DraftInv, QuitInv
<1>5. CASE ComposeFails
  <2> DEFINE exit == IF draft.script = "reflective" THEN 0 ELSE 2
  <2>1. draft.pc = "compose" /\ UNCHANGED <<pool, slots>> /\ draft' = RunEnds(draft, exit) /\ exit \in Nat
    BY <1>5 DEF ComposeFails
  <2> HIDE DEF exit
  <2>2. draft' = [draft EXCEPT !.pc = "done", !.groups = draft.groups, !.at = draft.at, !.asked = draft.asked, !.quit = 0, !.exit = exit]
    BY <1>3, <1>a, <2>1 DEF DraftTypes, RunEnds
  <2>9. GoesOn("done", draft.groups, draft.at, draft.asked, 0, exit)
    BY <1>3, <1>4, <2>1, <2>2 DEF GoesOn
  <2> QED
    BY <2>9, RunGoesOn
<1>6. CASE FinishRun
  <2>1. draft.pc = "group" /\ UNCHANGED <<pool, slots>> /\ draft' = RunEnds(draft, 0)
    BY <1>6 DEF FinishRun
  <2>2. draft' = [draft EXCEPT !.pc = "done", !.groups = draft.groups, !.at = draft.at, !.asked = draft.asked, !.quit = 0, !.exit = 0]
    BY <1>3, <1>a, <2>1 DEF DraftTypes, RunEnds
  <2>9. GoesOn("done", draft.groups, draft.at, draft.asked, 0, 0)
    BY <1>3, <1>4, <2>1, <2>2 DEF GoesOn
  <2> QED
    BY <2>9, RunGoesOn
<1>b. ASSUME draft.pc = "group", UNCHANGED <<pool, slots>>, draft' = NextGroup PROVE DraftInv'
  <2>2. draft' = [draft EXCEPT !.pc = "group", !.groups = draft.groups, !.at = draft.at + 1, !.asked = draft.asked, !.quit = 0, !.exit = draft.exit]
    BY <1>3, <1>a, <1>b DEF DraftTypes, NextGroup
  <2>3. draft.at <= draft.at + 1
    BY <1>3
  <2>9. GoesOn("group", draft.groups, draft.at + 1, draft.asked, 0, draft.exit)
    BY <1>3, <1>4, <1>b, <2>2, <2>3 DEF GoesOn
  <2> QED
    BY <2>9, RunGoesOn
<1>7. CASE SkipGroup
  BY <1>7, <1>b DEF SkipGroup, AtGroup
<1>8. ASSUME NEW word \in {"yes", "no", "quit"}, AnswerAsked(word) PROVE DraftInv'
  <2>1. /\ draft.pc = "group" /\ draft.at <= Len(draft.groups) /\ Complete /\ UNCHANGED <<pool, slots>>
        /\ draft' = CASE word = "yes" -> [draft EXCEPT !.pc = "post", !.asked = @ \cup {draft.at}]
                      [] word = "no" -> NextGroup
                      [] word = "quit" -> [draft EXCEPT !.pc = "done", !.quit = draft.at]
    BY <1>8 DEF AnswerAsked, AtGroup
  <2>2. CASE word = "yes"
    <3> DEFINE asked == draft.asked \cup {draft.at}
    <3>1. draft' = [draft EXCEPT !.pc = "post", !.asked = asked]
      BY <2>1, <2>2
    <3>2. asked \in SUBSET Nat /\ draft.asked \subseteq asked /\ draft.at \in asked
      BY <1>3
    <3> HIDE DEF asked
    <3>3. draft' = [draft EXCEPT !.pc = "post", !.groups = draft.groups, !.at = draft.at, !.asked = asked, !.quit = 0, !.exit = draft.exit]
      BY <1>3, <1>a, <2>1, <3>1 DEF DraftTypes
    <3>9. GoesOn("post", draft.groups, draft.at, asked, 0, draft.exit)
      BY <1>3, <1>4, <2>1, <3>2, <3>3 DEF GoesOn
    <3> QED
      BY <3>9, RunGoesOn
  <2>3. CASE word = "no"
    BY <1>b, <2>1, <2>3
  <2>4. CASE word = "quit"
    <3>1. draft' = [draft EXCEPT !.pc = "done", !.quit = draft.at]
      BY <2>1, <2>4
    <3>2. draft' = [draft EXCEPT !.pc = "done", !.groups = draft.groups, !.at = draft.at, !.asked = draft.asked, !.quit = draft.at, !.exit = draft.exit]
      BY <1>3, <3>1 DEF DraftTypes
    <3>9. GoesOn("done", draft.groups, draft.at, draft.asked, draft.at, draft.exit)
      BY <1>3, <1>4, <2>1, <3>2 DEF GoesOn
    <3> QED
      BY <3>9, RunGoesOn
  <2> QED
    BY <2>2, <2>3, <2>4
<1> QED
  BY <1>5, <1>6, <1>7, <1>8

LEMMA PostKeeps ==
  ASSUME DraftInv, NEW reaches \in BOOLEAN, NEW answered \in BOOLEAN, PostDraft(reaches, answered)
  PROVE  DraftInv'
<1> DEFINE again == RepeatsDraft(TheDraft)
           adds == reaches /\ ~again
           written == IF reaches /\ answered THEN draft.written + 1 ELSE draft.written
           unsure == IF reaches /\ ~answered THEN draft.unsure \cup {draft.at} ELSE draft.unsure
           dropped == IF reaches /\ again THEN draft.dropped \cup {draft.at} ELSE draft.dropped
           next == [NextGroup EXCEPT !.written = written, !.unsure = unsure, !.dropped = dropped]
<1>1. DraftTypes /\ PulledInv /\ BehindInv /\ PostInv /\ QuitInv /\ OnceInv /\ CountInv /\ DraftsAreGrounded
  BY DEF DraftInv
<1>2. /\ draft.pc = "post" /\ pool' = pool /\ draft.at <= Len(draft.groups) /\ draft.at \in draft.asked /\ Complete
      /\ draft.quit = 0 /\ draft.at \in Nat \ {0} /\ draft.pulled \subseteq WantedBy(draft.script) /\ draft.at \in 1..Len(draft.groups)
  <2>1. draft.pc = "post" /\ pool' = pool
    BY DEF PostDraft
  <2> QED
    BY <1>1, <2>1 DEF PostInv, QuitInv, PulledInv, DraftTypes
<1>3. slots' = IF adds THEN Append(slots, TheDraft) ELSE slots
  BY Zenon DEF PostDraft, WritesDraft
<1>4. draft' = RunEnds(next, 1) \/ draft' = next
  <2>1. next = [NextGroup EXCEPT !.written = IF reaches /\ answered THEN @ + 1 ELSE @,
                                 !.unsure = IF reaches /\ ~answered THEN @ \cup {draft.at} ELSE @,
                                 !.dropped = IF reaches /\ again THEN @ \cup {draft.at} ELSE @]
    <3>1. NextGroup.written = draft.written /\ NextGroup.unsure = draft.unsure /\ NextGroup.dropped = draft.dropped
      BY <1>1 DEF NextGroup, DraftTypes
    <3> DEFINE group == NextGroup
               told == reaches /\ answered
               untold == reaches /\ ~answered
               lost == reaches /\ again
    <3>2. group.written = draft.written /\ group.unsure = draft.unsure /\ group.dropped = draft.dropped
      BY <3>1
    <3>3. [group EXCEPT !.written = IF told THEN draft.written + 1 ELSE draft.written,
                        !.unsure = IF untold THEN draft.unsure \cup {draft.at} ELSE draft.unsure,
                        !.dropped = IF lost THEN draft.dropped \cup {draft.at} ELSE draft.dropped]
          = [group EXCEPT !.written = IF told THEN @ + 1 ELSE @,
                          !.unsure = IF untold THEN @ \cup {draft.at} ELSE @,
                          !.dropped = IF lost THEN @ \cup {draft.at} ELSE @]
      <4> HIDE DEF group, told, untold, lost
      <4> QED
        BY <3>2
    <3> QED
      BY <3>3, Zenon
  <2> HIDE DEF next
  <2> QED
    BY <2>1, Zenon DEF PostDraft
<1> HIDE DEF again
<1>5. draft' \in [pc : {"group", "done"}, script : {draft.script}, auto : {draft.auto}, pulled : {draft.pulled}, groups : {draft.groups},
                   at : {draft.at + 1}, written : {written}, asked : {draft.asked}, quit : {draft.quit}, unsure : {unsure},
                   dropped : {dropped}, exit : Nat]
  <2> HIDE DEF written, unsure, dropped
  <2> DEFINE Runs == [pc : {"group", "done"}, script : {draft.script}, auto : {draft.auto}, pulled : {draft.pulled}, groups : {draft.groups},
                     at : {draft.at + 1}, written : {written}, asked : {draft.asked}, quit : {draft.quit}, unsure : {unsure},
                     dropped : {dropped}, exit : Nat]
  <2>1. next \in Runs
    <3> DEFINE group == NextGroup
    <3>1. group \in [pc : {"group"}, script : {draft.script}, auto : {draft.auto}, pulled : {draft.pulled}, groups : {draft.groups},
                     at : {draft.at + 1}, written : Int, asked : {draft.asked}, quit : {draft.quit}, unsure : SUBSET Nat,
                     dropped : SUBSET Nat, exit : Nat]
      BY <1>1 DEF NextGroup, DraftTypes
    <3> HIDE DEF group
    <3>2. next = [group EXCEPT !.written = written, !.unsure = unsure, !.dropped = dropped]
      BY DEF group
    <3> QED
      BY <3>1, <3>2
  <2> HIDE DEF next
  <2>2. RunEnds(next, 1) \in Runs
    BY <2>1 DEF RunEnds
  <2> QED
    BY <1>4, <2>1, <2>2
<1>6. /\ written \in Int /\ unsure \in SUBSET Nat /\ dropped \in SUBSET Nat /\ IsFiniteSet(unsure) /\ IsFiniteSet(dropped)
      /\ draft.at \notin draft.unsure /\ draft.at \notin draft.dropped
  <2>1. draft.unsure \in SUBSET Nat /\ draft.dropped \in SUBSET Nat /\ IsFiniteSet(draft.unsure) /\ IsFiniteSet(draft.dropped) /\ draft.written \in Int
    BY <1>1 DEF DraftTypes
  <2>2. IsFiniteSet(draft.unsure \cup {draft.at}) /\ IsFiniteSet(draft.dropped \cup {draft.at})
    BY <2>1, FS_AddElement
  <2>3. draft.at \notin draft.unsure /\ draft.at \notin draft.dropped
    BY <1>1, <1>2, <2>1 DEF BehindInv
  <2> QED
    BY <1>2, <2>1, <2>2, <2>3
<1>7. /\ TheDraft.by = draft.at /\ TheDraft.script = draft.script /\ ToSet(TheDraft.ids) \subseteq draft.pulled
      /\ TheDraft.script = "episodes" => TheDraft.ids # <<>>
      /\ TheDraft.script = "topics" => ToSet(TheDraft.ids) \subseteq Episodes
  <2>1. TheGroup.ids \in Seq(ToSet(TheGroup.ids))
    BY <1>1, <1>2 DEF DraftTypes, TheGroup
  <2>2. ToSet(KeptIds(TheGroup.ids)) \subseteq draft.pulled
    <3> DEFINE ids == TheGroup.ids
    <3> HIDE DEF ids
    <3>1. ids \in Seq(ToSet(ids))
      BY <2>1 DEF ids
    <3>2. ToSet(Among(ids, draft.pulled)) \subseteq draft.pulled
      BY <3>1, AmongAreMembers
    <3> QED
      BY <3>2 DEF ids, KeptIds
  <2>3. ASSUME draft.script = "episodes" PROVE KeptIds(TheGroup.ids) # <<>>
    <3> DEFINE these == KeptIds(TheGroup.ids)
    <3>1. Complete = (TheGroup.title # "" /\ these # <<>>)
      BY <2>3 DEF Complete
    <3> QED
      BY <1>2, <3>1, Zenon
  <2>4. draft.script = "topics" => draft.pulled \subseteq Episodes
    BY <1>2 DEF WantedBy
  <2>5. TheDraft.by = draft.at /\ TheDraft.script = draft.script /\ TheDraft.ids = KeptIds(TheGroup.ids)
    BY DEF TheDraft
  <2> QED
    BY <2>2, <2>3, <2>4, <2>5
<1>8. /\ \E rows : slots' \in Seq(rows)
      /\ DOMAIN slots \subseteq DOMAIN slots' /\ Len(slots') = IF adds THEN Len(slots) + 1 ELSE Len(slots)
      /\ \A k \in DOMAIN slots' : (k \in DOMAIN slots /\ slots'[k] = slots[k]) \/ (k = Len(slots) + 1 /\ k \notin DOMAIN slots /\ slots'[k] = TheDraft)
      /\ Len(slots) \in Nat
  <2> PICK rows : slots \in Seq(rows)
    BY <1>1 DEF DraftTypes
  <2> DEFINE new == TheDraft
  <2>1. slots \in Seq(rows \cup {new})
    OBVIOUS
  <2> HIDE DEF new, adds
  <2>2. slots' = IF adds THEN Append(slots, new) ELSE slots
    BY <1>3 DEF new
  <2>3. slots' \in Seq(rows \cup {new})
    BY <2>1, <2>2
  <2>4. /\ DOMAIN slots \subseteq DOMAIN slots' /\ Len(slots') = IF adds THEN Len(slots) + 1 ELSE Len(slots)
        /\ \A k \in DOMAIN slots' : (k \in DOMAIN slots /\ slots'[k] = slots[k]) \/ (k = Len(slots) + 1 /\ k \notin DOMAIN slots /\ slots'[k] = new)
        /\ Len(slots) \in Nat
    BY <2>1, <2>2
  <2> QED
    BY <2>3, <2>4 DEF new
<1> HIDE DEF next
<1>9. written = Len(slots') - Cardinality(unsure \ dropped) + Cardinality(dropped \ unsure)
  <2> DEFINE A == draft.unsure \ draft.dropped
             B == draft.dropped \ draft.unsure
  <2>1. IsFiniteSet(A) /\ IsFiniteSet(B) /\ draft.at \notin A /\ draft.at \notin B
    <3>1. IsFiniteSet(draft.unsure) /\ IsFiniteSet(draft.dropped)
      BY <1>1 DEF DraftTypes
    <3> QED
      BY <1>6, <3>1, FS_Subset
  <2>2. /\ Cardinality(A) \in Nat /\ Cardinality(B) \in Nat
        /\ Cardinality(A \cup {draft.at}) = Cardinality(A) + 1 /\ Cardinality(B \cup {draft.at}) = Cardinality(B) + 1
    <3> HIDE DEF A, B
    <3> QED
      BY <2>1, FS_CardinalityType, FS_AddElement
  <2>3. draft.written = Len(slots) - Cardinality(A) + Cardinality(B) /\ draft.written \in Int /\ Len(slots) \in Nat
    BY <1>1, <1>8 DEF CountInv, DraftTypes
  <2> DEFINE a == Cardinality(A)
             b == Cardinality(B)
             n == Len(slots)
             c == Cardinality(unsure \ dropped)
             d == Cardinality(dropped \ unsure)
  <2>9. /\ a \in Nat /\ b \in Nat /\ n \in Nat /\ draft.written = n - a + b
        /\ Cardinality(A \cup {draft.at}) = a + 1 /\ Cardinality(B \cup {draft.at}) = b + 1 /\ Cardinality(A) = a /\ Cardinality(B) = b
        /\ Len(slots) = n
    BY <2>2, <2>3
  <2>4. CASE ~reaches
    <3>1. unsure \ dropped = A /\ dropped \ unsure = B /\ written = draft.written /\ Len(slots') = Len(slots)
      BY <1>8, <2>4
    <3> HIDE DEF A, B, unsure, dropped, written, a, b, n, c, d
    <3>2. c = a /\ d = b
      BY <2>9, <3>1, Zenon DEF c, d
    <3>3. written = Len(slots') - c + d
      BY <2>9, <3>1, <3>2
    <3> QED
      BY <3>3, Zenon DEF c, d
  <2>5. CASE reaches /\ answered /\ ~again
    <3>1. unsure \ dropped = A /\ dropped \ unsure = B /\ written = draft.written + 1 /\ Len(slots') = Len(slots) + 1
      BY <1>8, <2>5
    <3> HIDE DEF A, B, unsure, dropped, written, a, b, n, c, d
    <3>2. c = a /\ d = b
      BY <2>9, <3>1, Zenon DEF c, d
    <3>3. written = Len(slots') - c + d
      BY <2>9, <3>1, <3>2
    <3> QED
      BY <3>3, Zenon DEF c, d
  <2>6. CASE reaches /\ answered /\ again
    <3>1. unsure \ dropped = A /\ dropped \ unsure = B \cup {draft.at} /\ written = draft.written + 1 /\ Len(slots') = Len(slots)
      BY <1>6, <1>8, <2>6
    <3> HIDE DEF A, B, unsure, dropped, written, a, b, n, c, d
    <3>2. c = a /\ d = b + 1
      BY <2>9, <3>1, Zenon DEF c, d
    <3>3. written = Len(slots') - c + d
      BY <2>9, <3>1, <3>2
    <3> QED
      BY <3>3, Zenon DEF c, d
  <2>7. CASE reaches /\ ~answered /\ ~again
    <3>1. unsure \ dropped = A \cup {draft.at} /\ dropped \ unsure = B /\ written = draft.written /\ Len(slots') = Len(slots) + 1
      BY <1>6, <1>8, <2>7
    <3> HIDE DEF A, B, unsure, dropped, written, a, b, n, c, d
    <3>2. c = a + 1 /\ d = b
      BY <2>9, <3>1, Zenon DEF c, d
    <3>3. written = Len(slots') - c + d
      BY <2>9, <3>1, <3>2
    <3> QED
      BY <3>3, Zenon DEF c, d
  <2>8. CASE reaches /\ ~answered /\ again
    <3>1. unsure \ dropped = A /\ dropped \ unsure = B /\ written = draft.written /\ Len(slots') = Len(slots)
      BY <1>6, <1>8, <2>8
    <3> HIDE DEF A, B, unsure, dropped, written, a, b, n, c, d
    <3>2. c = a /\ d = b
      BY <2>9, <3>1, Zenon DEF c, d
    <3>3. written = Len(slots') - c + d
      BY <2>9, <3>1, <3>2
    <3> QED
      BY <3>3, Zenon DEF c, d
  <2> QED
    BY <2>4, <2>5, <2>6, <2>7, <2>8
<1>10. \A g \in unsure \cup dropped : g < draft.at + 1
  BY <1>1, <1>2 DEF BehindInv, DraftTypes
<1> HIDE DEF written, unsure, dropped, adds
<1>11. /\ draft.pc' \in {"group", "done"} /\ draft.script' = draft.script /\ draft.pulled' = draft.pulled /\ draft.at' = draft.at + 1
       /\ draft.written' = written /\ draft.asked' = draft.asked /\ draft.quit' = 0 /\ draft.unsure' = unsure /\ draft.dropped' = dropped
  BY <1>2, <1>5
<1>12. DraftTypes'
  BY <1>1, <1>2, <1>5, <1>6, <1>8 DEF DraftTypes
<1>13. PulledInv' /\ FreshInv' /\ PostInv' /\ QuitInv'
  BY <1>2, <1>11 DEF PulledInv, FreshInv, PostInv, QuitInv
<1>14. BehindInv'
  <2>1. \A k \in DOMAIN slots' : slots'[k].by \in draft.asked /\ slots'[k].by \in Nat /\ slots'[k].by < draft.at + 1
    BY <1>1, <1>2, <1>7, <1>8 DEF BehindInv
  <2> QED
    BY <1>10, <1>11, <2>1 DEF BehindInv
<1>15. OnceInv'
  BY <1>1, <1>2, <1>7, <1>8 DEF OnceInv, BehindInv
<1>16. CountInv'
  BY <1>9, <1>11 DEF CountInv
<1>17. DraftsAreGrounded'
  BY <1>1, <1>7, <1>8, <1>11 DEF DraftsAreGrounded
<1> QED
  BY <1>12, <1>13, <1>14, <1>15, <1>16, <1>17 DEF DraftInv
-----------------------------------------------------------------------------
LEMMA DraftersStep == DraftInv /\ [DraftersNext]_drafterVars => DraftInv'
<1> SUFFICES ASSUME DraftInv, [DraftersNext]_drafterVars PROVE DraftInv'
  OBVIOUS
<1>1. ASSUME NEW i \in Happenings \cup Episodes, RowArrives(i) \/ RowExpires(i) PROVE DraftInv'
  BY <1>1, PoolKeeps
<1>2. ASSUME NEW script \in Scripts, NEW auto \in BOOLEAN, NEW ok \in BOOLEAN, PullPool(script, auto, ok) PROVE DraftInv'
  BY <1>2, PullKeeps
<1>3. ASSUME NEW groups \in Groupings, ComposeGroups(groups) PROVE DraftInv'
  BY <1>3, ComposeGroupsKeeps
<1>4. CASE ComposeFails \/ SkipGroup \/ FinishRun \/ \E word \in {"yes", "no", "quit"} : AnswerAsked(word)
  BY <1>4, RunKeeps
<1>5. ASSUME NEW reaches \in BOOLEAN, NEW answered \in BOOLEAN, PostDraft(reaches, answered) PROVE DraftInv'
  BY <1>5, PostKeeps
<1>6. CASE UNCHANGED drafterVars
  <2>1. UNCHANGED <<draft, slots>> /\ \E rows : pool' \in Seq(rows)
    BY <1>6 DEF drafterVars, DraftInv, DraftTypes
  <2> QED
    BY <2>1, SameRun
<1> QED
  BY <1>1, <1>2, <1>3, <1>4, <1>5, <1>6, Zenon DEF DraftersNext

\* Drafts cite rows that were pulled, a group is drafted once and only when the operator
\* was asked for it, and the count of a run tells its drafts from what was dropped or is
\* in doubt (topical_agent.py, reflective_agent.py).
THEOREM DraftsStayTrue == DraftersSpec => []DraftsAreTrue
<1>1. DraftInv => DraftsAreTrue
  <2> SUFFICES ASSUME DraftInv PROVE DraftsAreTrue
    OBVIOUS
  <2>1. DraftsAreGrounded /\ BehindInv /\ QuitInv /\ OnceInv /\ CountInv
    BY DEF DraftInv
  <2> QED
    BY <2>1 DEF DraftsAreTrue, DraftsAreCounted, BehindInv, QuitInv, OnceInv, CountInv
<1> QED
  BY <1>1, DraftersStart, DraftersStep, PTL DEF DraftersSpec
-----------------------------------------------------------------------------
\* What a filter keeps of a sequence, and that it repeats nothing.
LEMMA AmongKeepsAll ==
  ASSUME NEW X, NEW s \in Seq(X), NEW S
  PROVE  /\ Among(s, S) \in Seq(X) /\ ToSet(Among(s, S)) = ToSet(s) \cap S
         /\ IsInjective(s) => IsInjective(Among(s, S))
<1> PICK f : Filters(f, X, s, S)
  BY AmongStepByStep
<1> DEFINE n == Len(s)
           UpToHere(k) == {s[j] : j \in 1..k} \cap S
           T == {k \in 0..n : ToSet(f[k]) = UpToHere(k) /\ (IsInjective(s) => IsInjective(f[k]))}
<1>0. n \in Nat /\ s \in [1..n -> X]
  OBVIOUS
<1>1. \A k \in 0..n : f[k] \in Seq(X) /\ f[k] \in Seq(X \cap S)
  <2> SUFFICES ASSUME NEW k \in 0..n PROVE f[k] \in Seq(X) /\ f[k] \in Seq(X \cap S)
    OBVIOUS
  <2>1. f[k] \in Seq(X \cap S)
    BY DEF Filters
  <2> QED
    BY <2>1
<1>2. 0 \in T
  <2>1. f[0] = <<>>
    BY DEF Filters
  <2>2. ToSet(<<>>) = {} /\ IsInjective(<<>>)
    BY DEF ToSet, IsInjective
  <2>3. UpToHere(0) = {}
    OBVIOUS
  <2> QED
    BY <1>0, <2>1, <2>2, <2>3
<1>3. ASSUME NEW k \in 0..n, k \in T, k < n PROVE k + 1 \in T
  <2>1. k + 1 \in 1..n /\ (k + 1) - 1 = k /\ k \in Nat
    BY <1>0, <1>3
  <2>2. f[k + 1] = IF s[k + 1] \in S THEN Append(f[k], s[k + 1]) ELSE f[k]
    BY <2>1 DEF Filters
  <2>3. UpToHere(k + 1) = UpToHere(k) \cup ({s[k + 1]} \cap S)
    <3>1. 1..(k + 1) = (1..k) \cup {k + 1}
      BY <2>1
    <3> QED
      BY <3>1
  <2>4. ToSet(f[k]) = UpToHere(k) /\ (IsInjective(s) => IsInjective(f[k])) /\ f[k] \in Seq(X)
    BY <1>1, <1>3
  <2>5. CASE s[k + 1] \notin S
    <3>1. UpToHere(k + 1) = UpToHere(k)
      BY <2>3, <2>5
    <3> HIDE DEF UpToHere
    <3> QED
      BY <1>0, <2>1, <2>2, <2>4, <2>5, <3>1
  <2>6. CASE s[k + 1] \in S
    <3> DEFINE last == s[k + 1]
               e == f[k]
               g == Append(e, last)
    <3>1. last \in X /\ e \in Seq(X) /\ f[k + 1] = g
      BY <1>0, <2>1, <2>2, <2>4, <2>6
    <3>2. IsInjective(s) => last \notin ToSet(e)
      <4>1. ASSUME IsInjective(s), last \in UpToHere(k) PROVE FALSE
        <5> PICK j \in 1..k : s[j] = last
          BY <4>1
        <5>1. j \in DOMAIN s /\ k + 1 \in DOMAIN s /\ j # k + 1
          BY <1>0, <2>1
        <5> QED
          BY <4>1, <5>1 DEF IsInjective
      <4> HIDE DEF UpToHere, last
      <4> QED
        BY <2>4, <4>1
    <3> HIDE DEF last, e
    <3>3. Len(g) = Len(e) + 1 /\ g[Len(e) + 1] = last /\ (\A j \in 1..Len(e) : g[j] = e[j]) /\ DOMAIN g = 1..(Len(e) + 1) /\ DOMAIN e = 1..Len(e) /\ Len(e) \in Nat
      BY <3>1
    <3> HIDE DEF g
    <3>4. ToSet(g) = ToSet(e) \cup {last}
      BY <3>3 DEF ToSet
    <3>5. IsInjective(e) /\ last \notin ToSet(e) => IsInjective(g)
      <4> SUFFICES ASSUME IsInjective(e), last \notin ToSet(e), NEW a \in DOMAIN g, NEW b \in DOMAIN g, g[a] = g[b] PROVE a = b
        BY DEF IsInjective
      <4>1. \A j \in 1..Len(e) : g[j] \in ToSet(e)
        BY <3>3 DEF ToSet
      <4> QED
        BY <3>3, <4>1 DEF IsInjective
    <3>6. ToSet(g) = UpToHere(k + 1)
      <4>1. {last} \cap S = {last}
        BY <2>6 DEF last
      <4>2. UpToHere(k + 1) = UpToHere(k) \cup {last}
        BY <2>3, <4>1 DEF last
      <4> HIDE DEF UpToHere
      <4> QED
        BY <2>4, <3>4, <4>2 DEF e
    <3>7. IsInjective(s) => IsInjective(g)
      BY <2>4, <3>2, <3>5 DEF e
    <3> HIDE DEF UpToHere
    <3> QED
      BY <1>0, <2>1, <3>1, <3>6, <3>7
  <2> QED
    BY <2>5, <2>6
<1> HIDE DEF T
<1>4. 0..n \subseteq T
  BY <1>0, <1>2, <1>3, StepByStep
<1>5. n \in T
  BY <1>0, <1>4
<1>6. Among(s, S) = f[n]
  BY DEF Filters
<1>7. UpToHere(n) = ToSet(s) \cap S
  BY <1>0 DEF ToSet
<1> HIDE DEF UpToHere
<1> QED
  BY <1>0, <1>1, <1>5, <1>6, <1>7 DEF T

\* A beginning of a sequence.
LEMMA UpToKeeps ==
  ASSUME NEW X, NEW s \in Seq(X), NEW n \in Nat
  PROVE  /\ UpTo(s, n) \in Seq(X) /\ ToSet(UpTo(s, n)) \subseteq ToSet(s)
         /\ Len(UpTo(s, n)) <= n /\ (Len(UpTo(s, n)) < n => UpTo(s, n) = s)
         /\ IsInjective(s) => IsInjective(UpTo(s, n))
<1> DEFINE l == IF Len(s) < n THEN Len(s) ELSE n
           u == SubSeq(s, 1, l)
<1>1. l \in 0..Len(s) /\ l <= n /\ Len(s) \in Nat /\ (l < n => l = Len(s)) /\ l \in Nat
  OBVIOUS
<1> HIDE DEF l
<1>2. u \in Seq(X) /\ Len(u) = l /\ DOMAIN u = 1..l /\ (\A j \in 1..l : u[j] = s[j]) /\ DOMAIN s = 1..Len(s)
  BY <1>1
<1>3. l = Len(s) => u = s
  BY <1>1
<1>4. UpTo(s, n) = u
  BY DEF UpTo, u, l
<1> HIDE DEF u
<1>7. \A j \in 1..l : j \in 1..Len(s)
  BY <1>1
<1> DEFINE m == Len(s)
<1>8. DOMAIN s = 1..m /\ DOMAIN u = 1..l /\ (\A j \in 1..l : u[j] = s[j] /\ j \in 1..m)
  BY <1>2, <1>7
<1> HIDE DEF m
<1>5. ToSet(u) \subseteq ToSet(s)
  BY <1>8 DEF ToSet
<1>6. IsInjective(s) => IsInjective(u)
  BY <1>8 DEF IsInjective
<1> QED
  BY <1>1, <1>2, <1>3, <1>4, <1>5, <1>6

LEMMA ConcatKeeps ==
  ASSUME NEW X, NEW s \in Seq(X), NEW t \in Seq(X)
  PROVE  /\ s \o t \in Seq(X) /\ ToSet(s \o t) = ToSet(s) \cup ToSet(t)
         /\ IsInjective(s) /\ IsInjective(t) /\ ToSet(s) \cap ToSet(t) = {} => IsInjective(s \o t)
<1> DEFINE u == s \o t
           m == Len(s)
           n == Len(t)
<1>1. /\ m \in Nat /\ n \in Nat /\ DOMAIN s = 1..m /\ DOMAIN t = 1..n /\ DOMAIN u = 1..(m + n)
      /\ u \in Seq(X) /\ (\A j \in 1..m : u[j] = s[j]) /\ (\A j \in (m + 1)..(m + n) : u[j] = t[j - m])
  OBVIOUS
<1> HIDE DEF u, m, n
<1>2. \A j \in 1..n : u[m + j] = t[j] /\ m + j \in 1..(m + n)
  <2> SUFFICES ASSUME NEW j \in 1..n PROVE u[m + j] = t[j] /\ m + j \in 1..(m + n)
    OBVIOUS
  <2>1. m + j \in (m + 1)..(m + n) /\ (m + j) - m = j /\ m + j \in 1..(m + n)
    BY <1>1
  <2> QED
    BY <1>1, <2>1
<1>3. \A j \in 1..(m + n) : j \in 1..m \/ (j - m \in 1..n /\ j \in (m + 1)..(m + n))
  BY <1>1
<1>4. ToSet(u) = ToSet(s) \cup ToSet(t)
  <2>1. ToSet(u) \subseteq ToSet(s) \cup ToSet(t)
    BY <1>1, <1>3 DEF ToSet
  <2>2. ToSet(s) \subseteq ToSet(u)
    <3>1. \A j \in 1..m : j \in 1..(m + n)
      BY <1>1
    <3> QED
      BY <1>1, <3>1 DEF ToSet
  <2>3. ToSet(t) \subseteq ToSet(u)
    BY <1>1, <1>2 DEF ToSet
  <2> QED
    BY <2>1, <2>2, <2>3
<1>5. ASSUME IsInjective(s), IsInjective(t), ToSet(s) \cap ToSet(t) = {} PROVE IsInjective(u)
  <2> SUFFICES ASSUME NEW a \in DOMAIN u, NEW b \in DOMAIN u, u[a] = u[b] PROVE a = b
    BY DEF IsInjective
  <2>5. a \in 1..(m + n) /\ b \in 1..(m + n)
    BY <1>1, Zenon
  <2>1. (\A j \in 1..m : u[j] \in ToSet(s)) /\ (\A j \in (m + 1)..(m + n) : j - m \in 1..n /\ u[j] = t[j - m] /\ u[j] \in ToSet(t))
    <3>1. \A j \in (m + 1)..(m + n) : j - m \in 1..n
      BY <1>1
    <3>2. \A j \in 1..m : s[j] \in ToSet(s)
      BY <1>1 DEF ToSet
    <3>3. \A j \in 1..n : t[j] \in ToSet(t)
      BY <1>1 DEF ToSet
    <3> QED
      BY <1>1, <3>1, <3>2, <3>3
  <2>2. CASE a \in 1..m /\ b \in 1..m
    BY <1>1, <1>5, <2>2 DEF IsInjective
  <2>3. CASE a \in (m + 1)..(m + n) /\ b \in (m + 1)..(m + n)
    <3>1. t[a - m] = t[b - m] /\ a - m \in 1..n /\ b - m \in 1..n
      BY <2>1, <2>3
    <3>2. a - m = b - m
      BY <1>1, <1>5, <3>1 DEF IsInjective
    <3> QED
      BY <1>1, <2>3, <3>2
  <2>4. ~(a \in 1..m /\ b \in (m + 1)..(m + n)) /\ ~(b \in 1..m /\ a \in (m + 1)..(m + n))
    BY <1>5, <2>1
  <2> QED
    BY <1>3, <2>2, <2>3, <2>4, <2>5
<1> QED
  BY <1>1, <1>4, <1>5 DEF u
-----------------------------------------------------------------------------
\* The next layer is what the rows cite that are walked down, one after the other.
IsLake == cites \in [All -> Seq(All)]
CitesOf(i, depth) == IF WalksDown(i, depth) THEN cites[i] ELSE <<>>
Layers(f, rows, depth) ==
  /\ f \in [0..Len(rows) -> Seq(All)] /\ NextLayer(rows, depth) = f[Len(rows)] /\ f[0] = <<>>
  /\ \A k \in 1..Len(rows) : f[k] = f[k - 1] \o CitesOf(rows[k], depth)

LEMMA NextLayerStepByStep ==
  ASSUME IsLake, NEW rows \in Seq(All), NEW depth
  PROVE  \E f : Layers(f, rows, depth)
<1> DEFINE X == All
           D == Seq(X)
           g == [p \in D \X X |-> p[1] \o CitesOf(p[2], depth)]
           n == Len(rows)
           IsIt(h) == h = [k \in 0..n |-> IF k = 0 THEN <<>> ELSE h[k - 1] \o (IF WalksDown(rows[k], depth) THEN cites[rows[k]] ELSE <<>>)]
<1>0. \A i \in X : CitesOf(i, depth) \in D
  <2> SUFFICES ASSUME NEW i \in X PROVE CitesOf(i, depth) \in D
    OBVIOUS
  <2>1. cites[i] \in D /\ <<>> \in D
    BY DEF IsLake
  <2> QED
    BY <2>1 DEF CitesOf
<1>1. g \in [D \X X -> D] /\ <<>> \in D /\ n \in Nat /\ rows \in Seq(X)
  <2>1. ASSUME NEW p \in D \X X PROVE p[1] \o CitesOf(p[2], depth) \in D
    <3>1. p[1] \in D /\ p[2] \in X
      OBVIOUS
    <3>2. CitesOf(p[2], depth) \in D
      BY <1>0, <3>1
    <3> QED
      BY <3>1, <3>2
  <2> HIDE DEF X
  <2> QED
    BY <2>1 DEF X
<1> HIDE DEF X
<1>2. PICK f \in [0..n -> D] : f[0] = <<>> /\ \A k \in 1..n : f[k] = g[<<f[k - 1], rows[k]>>]
  <2> DEFINE d == <<>>
  <2>1. d \in D
    BY <1>1
  <2> HIDE DEF g, D, d
  <2>2. \E f : IsFold(f, D, g, d, rows)
    BY <1>1, <2>1, Folding
  <2> QED
    BY <2>2 DEF d, IsFold
<1>3. \A k \in 1..n : f[k] = f[k - 1] \o CitesOf(rows[k], depth)
  <2> SUFFICES ASSUME NEW k \in 1..n PROVE f[k] = f[k - 1] \o CitesOf(rows[k], depth)
    OBVIOUS
  <2>1. f[k - 1] \in D /\ rows[k] \in X
    BY <1>1
  <2> QED
    BY <1>2, <2>1
<1> HIDE DEF D, g
<1>4. IsIt(f)
  <2>1. f = [k \in 0..n |-> f[k]]
    BY <1>2
  <2>2. \A k \in 0..n : f[k] = IF k = 0 THEN <<>> ELSE f[k - 1] \o (IF WalksDown(rows[k], depth) THEN cites[rows[k]] ELSE <<>>)
    <3> SUFFICES ASSUME NEW k \in 0..n
                 PROVE  f[k] = IF k = 0 THEN <<>> ELSE f[k - 1] \o (IF WalksDown(rows[k], depth) THEN cites[rows[k]] ELSE <<>>)
      OBVIOUS
    <3>1. CASE k = 0
      BY <1>2, <3>1
    <3>2. CASE k # 0
      <4>1. k \in 1..n
        BY <1>1, <3>2
      <4>2. f[k] = f[k - 1] \o (IF WalksDown(rows[k], depth) THEN cites[rows[k]] ELSE <<>>)
        BY <1>3, <4>1, Zenon DEF CitesOf
      <4> QED
        BY <3>2, <4>2, Zenon
    <3> QED
      BY <3>1, <3>2
  <2> QED
    BY <2>1, <2>2, Zenon
<1>5. PICK h : IsIt(h) /\ NextLayer(rows, depth) = h[n]
  BY <1>4, Zenon DEF NextLayer
<1>6. h[0] = <<>> /\ \A k \in 1..n : h[k] = h[k - 1] \o CitesOf(rows[k], depth)
  <2>1. \A k \in 0..n : h[k] = IF k = 0 THEN <<>> ELSE h[k - 1] \o (IF WalksDown(rows[k], depth) THEN cites[rows[k]] ELSE <<>>)
    BY <1>5, Zenon
  <2>2. 0 \in 0..n /\ \A k \in 1..n : k \in 0..n /\ k # 0
    BY <1>1
  <2> QED
    BY <2>1, <2>2, Zenon DEF CitesOf
<1> DEFINE T == {k \in 0..n : h[k] \in D}
<1>7. 0..n \subseteq T
  <2>1. 0 \in T
    BY <1>1, <1>6
  <2>2. ASSUME NEW k \in 0..n, k \in T, k < n PROVE k + 1 \in T
    <3>1. k + 1 \in 1..n /\ k + 1 \in 0..n /\ (k + 1) - 1 = k /\ rows[k + 1] \in X
      BY <1>1, <2>2
    <3>2. h[k + 1] = h[k] \o CitesOf(rows[k + 1], depth)
      BY <1>6, <3>1
    <3>3. CitesOf(rows[k + 1], depth) \in D
      BY <1>0, <3>1
    <3>4. h[k + 1] \in D
      BY <2>2, <3>2, <3>3 DEF D
    <3> QED
      BY <3>1, <3>4
  <2> HIDE DEF T
  <2> QED
    BY <1>1, <2>1, <2>2, StepByStep, Zenon
<1>8. h \in [0..n -> D]
  <2>1. h = [k \in 0..n |-> h[k]]
    BY <1>5
  <2> QED
    BY <1>7, <2>1
<1> QED
  BY <1>5, <1>6, <1>8 DEF D, X, Layers

\* What the rows of a set cite.
Under(S) == UNION {ToSet(cites[i]) : i \in S}

LEMMA NextLayerIsUnder ==
  ASSUME IsLake, NEW rows \in Seq(All), NEW depth
  PROVE  /\ NextLayer(rows, depth) \in Seq(All)
         /\ ToSet(NextLayer(rows, depth)) = Under({i \in ToSet(rows) : WalksDown(i, depth)})
         /\ IsTree /\ IsInjective(rows) => IsInjective(NextLayer(rows, depth))
<1> PICK f : Layers(f, rows, depth)
  BY NextLayerStepByStep
<1> DEFINE n == Len(rows)
           X == All
           UpToHere(k) == UNION {ToSet(CitesOf(rows[j], depth)) : j \in 1..k}
           T == {k \in 0..n : ToSet(f[k]) = UpToHere(k) /\ (IsTree /\ IsInjective(rows) => IsInjective(f[k]))}
<1>0. n \in Nat /\ rows \in [1..n -> X] /\ rows \in Seq(X)
  OBVIOUS
<1>1. \A k \in 0..n : f[k] \in Seq(X)
  BY DEF Layers
<1>2. \A i \in X : CitesOf(i, depth) \in Seq(X) /\ (WalksDown(i, depth) => CitesOf(i, depth) = cites[i]) /\ (~WalksDown(i, depth) => CitesOf(i, depth) = <<>>)
  <2> SUFFICES ASSUME NEW i \in X PROVE CitesOf(i, depth) \in Seq(X) /\ (WalksDown(i, depth) => CitesOf(i, depth) = cites[i]) /\ (~WalksDown(i, depth) => CitesOf(i, depth) = <<>>)
    OBVIOUS
  <2>1. cites[i] \in Seq(X) /\ <<>> \in Seq(X)
    BY DEF IsLake
  <2> QED
    BY <2>1 DEF CitesOf
<1>3. ToSet(<<>>) = {} /\ IsInjective(<<>>)
  BY DEF ToSet, IsInjective
<1>4. 0 \in T
  <2>1. f[0] = <<>>
    BY DEF Layers
  <2>3. UpToHere(0) = {}
    OBVIOUS
  <2> QED
    BY <1>0, <1>3, <2>1, <2>3
<1>5. ASSUME NEW k \in 0..n, k \in T, k < n PROVE k + 1 \in T
  <2>1. k + 1 \in 1..n /\ (k + 1) - 1 = k /\ k \in Nat
    BY <1>0, <1>5
  <2> DEFINE new == CitesOf(rows[k + 1], depth)
             old == f[k]
  <2>2. f[k + 1] = old \o new
    BY <2>1 DEF Layers
  <2>3. UpToHere(k + 1) = UpToHere(k) \cup ToSet(new)
    <3>1. 1..(k + 1) = (1..k) \cup {k + 1}
      BY <2>1
    <3> QED
      BY <3>1
  <2>4. ToSet(old) = UpToHere(k) /\ (IsTree /\ IsInjective(rows) => IsInjective(old)) /\ old \in Seq(X) /\ new \in Seq(X)
    BY <1>0, <1>1, <1>2, <1>5, <2>1
  <2>5. ASSUME IsTree PROVE IsInjective(new)
    <3>1. rows[k + 1] \in X
      BY <1>0, <2>1
    <3>2. CASE WalksDown(rows[k + 1], depth)
      <4>1. new = cites[rows[k + 1]]
        BY <1>2, <3>1, <3>2
      <4>2. IsInjective(cites[rows[k + 1]])
        BY <2>5, <3>1 DEF IsTree, IsInjective, X
      <4> QED
        BY <4>1, <4>2
    <3>3. CASE ~WalksDown(rows[k + 1], depth)
      BY <1>2, <1>3, <3>1, <3>3
    <3> QED
      BY <3>2, <3>3
  <2>6. ASSUME IsTree, IsInjective(rows) PROVE UpToHere(k) \cap ToSet(new) = {}
    <3> SUFFICES ASSUME NEW x \in UpToHere(k), x \in ToSet(new) PROVE FALSE
      OBVIOUS
    <3>1. PICK j \in 1..k : x \in ToSet(CitesOf(rows[j], depth))
      OBVIOUS
    <3> DEFINE p == rows[j]
               q == rows[k + 1]
    <3>2. p \in X /\ q \in X /\ p # q
      BY <1>0, <2>1, <2>6 DEF IsInjective
    <3>3. WalksDown(p, depth) /\ WalksDown(q, depth)
      BY <1>2, <1>3, <3>1, <3>2
    <3>4. x \in ToSet(cites[p]) /\ x \in ToSet(cites[q])
      BY <1>2, <3>1, <3>2, <3>3
    <3> HIDE DEF p, q
    <3>5. \E a \in DOMAIN cites[p], b \in DOMAIN cites[q] : cites[p][a] = cites[q][b]
      BY <3>4 DEF ToSet
    <3> QED
      BY <2>6, <3>2, <3>5 DEF IsTree, X
  <2> HIDE DEF new, old, UpToHere
  <2>7. ToSet(old \o new) = ToSet(old) \cup ToSet(new)
    BY <2>4, ConcatKeeps
  <2>8. ASSUME IsTree, IsInjective(rows) PROVE IsInjective(old \o new)
    <3>1. IsInjective(old) /\ IsInjective(new) /\ ToSet(old) \cap ToSet(new) = {}
      BY <2>4, <2>5, <2>6, <2>8
    <3> QED
      BY <2>4, <3>1, ConcatKeeps
  <2> DEFINE e == f[k + 1]
  <2>9. ToSet(e) = UpToHere(k + 1) /\ (IsTree /\ IsInjective(rows) => IsInjective(e))
    BY <2>2, <2>3, <2>4, <2>7, <2>8, Zenon
  <2>10. k + 1 \in 0..n
    BY <1>0, <2>1
  <2> QED
    BY <2>9, <2>10
<1> HIDE DEF T
<1>6. 0..n \subseteq T
  BY <1>0, <1>4, <1>5, StepByStep
<1>7. n \in T
  BY <1>0, <1>6
<1>8. NextLayer(rows, depth) = f[n]
  BY DEF Layers
<1>9. UpToHere(n) = Under({i \in ToSet(rows) : WalksDown(i, depth)})
  <2>1. \A x \in UpToHere(n) : x \in Under({i \in ToSet(rows) : WalksDown(i, depth)})
    <3> SUFFICES ASSUME NEW j \in 1..n, NEW x \in ToSet(CitesOf(rows[j], depth)) PROVE x \in Under({i \in ToSet(rows) : WalksDown(i, depth)})
      OBVIOUS
    <3>1. rows[j] \in X /\ rows[j] \in ToSet(rows)
      BY <1>0 DEF ToSet
    <3>2. WalksDown(rows[j], depth) /\ x \in ToSet(cites[rows[j]])
      BY <1>2, <1>3, <3>1
    <3> QED
      BY <3>1, <3>2 DEF Under
  <2>2. ASSUME NEW i \in ToSet(rows), WalksDown(i, depth), NEW x \in ToSet(cites[i]) PROVE x \in UpToHere(n)
    <3>1. PICK j \in 1..n : rows[j] = i
      BY <1>0 DEF ToSet
    <3>2. i \in X
      BY <1>0, <3>1
    <3>3. CitesOf(i, depth) = cites[i]
      BY <1>2, <2>2, <3>2
    <3> QED
      BY <2>2, <3>1, <3>3
  <2> HIDE DEF UpToHere
  <2> QED
    BY <2>1, <2>2 DEF Under
<1> HIDE DEF UpToHere
<1> QED
  BY <1>0, <1>1, <1>7, <1>8, <1>9 DEF T
-----------------------------------------------------------------------------
\* What lies below the rows r of a lake c, step by step.
Further(c, S) == UNION {ToSet(c[i]) : i \in S}
Downward(c, r) == CHOOSE f : f = [n \in 0..MaxDepth |-> IF n = 0 THEN ToSet(r) ELSE f[n - 1] \cup UNION {ToSet(c[i]) : i \in f[n - 1]}]
IsBelow(f, c, r) ==
  /\ f \in [0..MaxDepth -> SUBSET DOMAIN c] /\ f[0] = ToSet(r)
  /\ \A n \in 1..MaxDepth : f[n] = f[n - 1] \cup Further(c, f[n - 1])

LEMMA BelowIsDownward == Below = Downward(cites, walk.root)
  BY DEF Below, Downward
LEMMA BelowStays == cites' = cites /\ walk'.root = walk.root => Below' = Below
<1> SUFFICES ASSUME cites' = cites, walk'.root = walk.root PROVE Below' = Below
  OBVIOUS
<1>1. Below' = Downward(cites', walk'.root)
  BY DEF Below, Downward
<1>2. Below = Downward(cites, walk.root)
  BY BelowIsDownward
<1> QED
  BY <1>1, <1>2

LEMMA BelowStepByStep ==
  ASSUME NEW c, c \in [DOMAIN c -> Seq(DOMAIN c)], NEW r \in Seq(DOMAIN c)
  PROVE  IsBelow(Downward(c, r), c, r)
<1> DEFINE D == SUBSET DOMAIN c
           X == {0}
           g == [p \in D \X X |-> p[1] \cup Further(c, p[1])]
           s == [k \in 1..MaxDepth |-> 0]
           d == ToSet(r)
           IsIt(h) == h = [k \in 0..MaxDepth |-> IF k = 0 THEN d ELSE h[k - 1] \cup UNION {ToSet(c[i]) : i \in h[k - 1]}]
<1>0. MaxDepth \in Nat /\ \A S \in D : S \cup Further(c, S) \in D
  <2>1. \A i \in DOMAIN c : ToSet(c[i]) \subseteq DOMAIN c
    BY DEF ToSet
  <2> QED
    BY <2>1, CentroidsBounds DEF Further
<1>1. g \in [D \X X -> D] /\ d \in D /\ s \in Seq(X) /\ Len(s) = MaxDepth /\ \A k \in 1..MaxDepth : s[k] = 0
  <2>1. s \in [1..MaxDepth -> X]
    OBVIOUS
  <2>2. s \in Seq(X) /\ Len(s) = MaxDepth
    BY <1>0, <2>1
  <2>3. d \in D
    BY DEF ToSet
  <2>4. ASSUME NEW p \in D \X X PROVE p[1] \cup Further(c, p[1]) \in D
    BY <1>0
  <2> HIDE DEF s, d, D
  <2>5. g \in [D \X X -> D]
    BY <2>4
  <2> QED
    BY <2>2, <2>3, <2>5 DEF s
<1>2. PICK f \in [0..MaxDepth -> D] : f[0] = d /\ \A k \in 1..MaxDepth : f[k] = g[<<f[k - 1], s[k]>>]
  <2> HIDE DEF g, D, d, s, X
  <2>2. \E f : IsFold(f, D, g, d, s)
    BY <1>1, Folding
  <2> QED
    BY <1>1, <2>2 DEF IsFold
<1>3. \A k \in 1..MaxDepth : f[k] = f[k - 1] \cup Further(c, f[k - 1])
  <2> SUFFICES ASSUME NEW k \in 1..MaxDepth PROVE f[k] = f[k - 1] \cup Further(c, f[k - 1])
    OBVIOUS
  <2>1. f[k - 1] \in D /\ s[k] = 0
    BY <1>0, <1>1
  <2> HIDE DEF s, D
  <2>2. f[k] = g[<<f[k - 1], 0>>]
    BY <1>2, <2>1
  <2>3. <<f[k - 1], 0>> \in D \X X
    BY <2>1
  <2> QED
    BY <2>2, <2>3
<1> HIDE DEF D, g, s, d
<1>4. IsIt(f)
  <2>1. f = [k \in 0..MaxDepth |-> f[k]]
    BY <1>2
  <2>2. \A k \in 0..MaxDepth : f[k] = IF k = 0 THEN d ELSE f[k - 1] \cup UNION {ToSet(c[i]) : i \in f[k - 1]}
    <3> SUFFICES ASSUME NEW k \in 0..MaxDepth
                 PROVE  f[k] = IF k = 0 THEN d ELSE f[k - 1] \cup UNION {ToSet(c[i]) : i \in f[k - 1]}
      OBVIOUS
    <3>1. CASE k = 0
      BY <1>2, <3>1
    <3>2. CASE k # 0
      <4>1. k \in 1..MaxDepth
        BY <1>0, <3>2
      <4> QED
        BY <1>3, <3>2, <4>1, Zenon DEF Further
    <3> QED
      BY <3>1, <3>2
  <2> QED
    BY <2>1, <2>2, Zenon
<1> DEFINE h == Downward(c, r)
<1>5. IsIt(h)
  BY <1>4, Zenon DEF Downward, d
<1> HIDE DEF h
<1>6. h[0] = d /\ \A k \in 1..MaxDepth : h[k] = h[k - 1] \cup Further(c, h[k - 1])
  <2>1. \A k \in 0..MaxDepth : h[k] = IF k = 0 THEN d ELSE h[k - 1] \cup Further(c, h[k - 1])
    BY <1>5, Zenon DEF Further
  <2>2. 0 \in 0..MaxDepth /\ \A k \in 1..MaxDepth : k \in 0..MaxDepth /\ k # 0
    BY <1>0
  <2> QED
    BY <2>1, <2>2, Zenon
<1> DEFINE T == {k \in 0..MaxDepth : h[k] \in D}
<1>7. 0..MaxDepth \subseteq T
  <2>1. 0 \in T
    BY <1>0, <1>1, <1>6
  <2>2. ASSUME NEW k \in 0..MaxDepth, k \in T, k < MaxDepth PROVE k + 1 \in T
    <3>1. k + 1 \in 1..MaxDepth /\ k + 1 \in 0..MaxDepth /\ (k + 1) - 1 = k
      BY <1>0, <2>2
    <3>2. h[k + 1] = h[k] \cup Further(c, h[k])
      BY <1>6, <3>1
    <3>3. h[k + 1] \in D
      BY <1>0, <2>2, <3>2
    <3> QED
      BY <3>1, <3>3
  <2> HIDE DEF T
  <2> QED
    BY <1>0, <2>1, <2>2, StepByStep, Zenon
<1>8. h \in [0..MaxDepth -> D]
  <2>1. h = [k \in 0..MaxDepth |-> h[k]]
    BY <1>5
  <2> QED
    BY <1>7, <2>1
<1> QED
  BY <1>6, <1>8 DEF D, d, h, IsBelow

\* What lies further down lies below.
LEMMA BelowGrows ==
  ASSUME NEW f, NEW c, NEW r, IsBelow(f, c, r)
  PROVE  /\ \A n \in 0..MaxDepth : f[n] \in SUBSET DOMAIN c /\ f[n] \subseteq f[MaxDepth]
         /\ \A n \in 1..MaxDepth : f[n] = f[n - 1] \cup Further(c, f[n - 1]) /\ \A m \in 0..(n - 1) : f[m] \subseteq f[n - 1]
         /\ f[0] = ToSet(r)
<1>0. MaxDepth \in Nat
  BY CentroidsBounds
<1>1. ASSUME NEW m \in 0..MaxDepth PROVE \A n \in m..MaxDepth : f[m] \subseteq f[n]
  <2> DEFINE k == MaxDepth - m
             T == {j \in 0..k : f[m] \subseteq f[m + j]}
  <2>1. k \in Nat /\ 0 \in T
    BY <1>0
  <2>2. ASSUME NEW j \in 0..k, j \in T, j < k PROVE j + 1 \in T
    <3>1. m + (j + 1) \in 1..MaxDepth /\ (m + (j + 1)) - 1 = m + j /\ j + 1 \in 0..k
      BY <1>0, <2>2
    <3>2. f[m + (j + 1)] = f[m + j] \cup Further(c, f[m + j])
      BY <3>1 DEF IsBelow
    <3> QED
      BY <2>2, <3>1, <3>2
  <2> HIDE DEF T
  <2>3. 0..k \subseteq T
    BY <2>1, <2>2, StepByStep
  <2> SUFFICES ASSUME NEW n \in m..MaxDepth PROVE f[m] \subseteq f[n]
    OBVIOUS
  <2>4. n - m \in 0..k /\ m + (n - m) = n
    BY <1>0
  <2>5. n - m \in T
    BY <2>3, <2>4
  <2>6. f[m] \subseteq f[m + (n - m)]
    BY <2>5 DEF T
  <2> QED
    BY <2>4, <2>6
<1>2. \A n \in 0..MaxDepth : f[n] \in SUBSET DOMAIN c /\ f[n] \subseteq f[MaxDepth]
  <2>1. \A n \in 0..MaxDepth : MaxDepth \in n..MaxDepth
    BY <1>0
  <2> QED
    BY <1>1, <2>1 DEF IsBelow
<1>3. \A n \in 1..MaxDepth : \A m \in 0..(n - 1) : f[m] \subseteq f[n - 1]
  <2>1. \A n \in 1..MaxDepth : \A m \in 0..(n - 1) : m \in 0..MaxDepth /\ n - 1 \in m..MaxDepth
    BY <1>0
  <2> QED
    BY <1>1, <2>1
<1> QED
  BY <1>2, <1>3 DEF IsBelow

\* A set that what the root cites is in, and all that its own rows cite, has all of it.
LEMMA ClosedHasAll ==
  ASSUME NEW f, NEW c, NEW r, IsBelow(f, c, r), NEW S, ToSet(r) \subseteq S, Further(c, S) \subseteq S
  PROVE  f[MaxDepth] \subseteq S
<1> DEFINE T == {n \in 0..MaxDepth : f[n] \subseteq S}
<1>0. MaxDepth \in Nat
  BY CentroidsBounds
<1>1. 0 \in T
  BY <1>0 DEF IsBelow
<1>2. ASSUME NEW n \in 0..MaxDepth, n \in T, n < MaxDepth PROVE n + 1 \in T
  <2>1. n + 1 \in 1..MaxDepth /\ (n + 1) - 1 = n /\ n + 1 \in 0..MaxDepth
    BY <1>0, <1>2
  <2>2. f[n + 1] = f[n] \cup Further(c, f[n])
    BY <2>1 DEF IsBelow
  <2>3. Further(c, f[n]) \subseteq Further(c, S)
    BY <1>2 DEF Further
  <2> QED
    BY <1>2, <2>1, <2>2, <2>3
<1> HIDE DEF T
<1>3. 0..MaxDepth \subseteq T
  BY <1>0, <1>1, <1>2, StepByStep
<1>4. MaxDepth \in T
  BY <1>0, <1>3
<1> QED
  BY <1>4 DEF T
-----------------------------------------------------------------------------
CentroidTypes ==
  /\ IsLake /\ Roots \subseteq Seq(All) /\ vectors \subseteq All /\ remains \subseteq All
  /\ walk \in [pc : {"idle", "layer", "mean", "none"}, root : Seq(All), layer : Seq(All), depth : 0..(MaxDepth + 1),
               seen : SUBSET All, leaves : Seq(All), lost : SUBSET All, start : SUBSET All]
IdleWalk == walk.pc = "idle" => walk.layer = <<>> /\ walk.root = <<>> /\ walk.depth = 0 /\ walk.seen = {} /\ walk.leaves = <<>> /\ walk.lost = {}
\* A walk does not leave what lies below its root.
DescentInv ==
  /\ ToSet(walk.leaves) \subseteq walk.seen /\ walk.seen \subseteq Below[MaxDepth] /\ walk.start \subseteq vectors
  /\ walk.depth <= MaxDepth => walk.seen \cup ToSet(walk.layer) \subseteq Below[walk.depth]
\* As long as nothing has gone wrong it has met all that lies above its layer.
Smooth == remains = All /\ walk.lost = {} /\ Len(walk.leaves) < LeafCap
BreadthInv ==
  Smooth => /\ walk.depth <= MaxDepth => walk.seen \cup ToSet(walk.layer) = Below[walk.depth]
            /\ IF walk.depth = 0 THEN walk.seen = {} ELSE walk.seen = Below[walk.depth - 1]
MomentInv == remains = All /\ walk.lost = {} => \A i \in ToSet(walk.leaves) : IsMoment(i)
CoverInv == Smooth => \A i \in walk.seen \cap walk.start : IsMoment(i) => i \in ToSet(walk.leaves)
RepeatInv == IsTree /\ IsInjective(walk.root) => IsInjective(walk.leaves) /\ IsInjective(walk.layer)
EndInv == walk.pc \in {"mean", "none"} => WalkStops
CentroidInv == CentroidTypes /\ IdleWalk /\ DescentInv /\ BreadthInv /\ MomentInv /\ CoverInv /\ RepeatInv /\ EndInv

LEMMA EmptyIsEmpty == ToSet(<<>>) = {} /\ IsInjective(<<>>) /\ Len(<<>>) = 0
  BY DEF ToSet, IsInjective
LEMMA BelowHere == CentroidTypes => IsBelow(Below, cites, walk.root)
<1> SUFFICES ASSUME CentroidTypes PROVE IsBelow(Below, cites, walk.root)
  OBVIOUS
<1>1. cites \in [DOMAIN cites -> Seq(DOMAIN cites)] /\ walk.root \in Seq(DOMAIN cites)
  BY DEF CentroidTypes, IsLake, All
<1>2. IsBelow(Downward(cites, walk.root), cites, walk.root)
  BY <1>1, BelowStepByStep
<1> QED
  BY <1>2, BelowIsDownward
LEMMA BelowThere ==
  ASSUME cites \in [All -> Seq(All)], cites' = cites, walk'.root \in Seq(All)
  PROVE  IsBelow(Below', cites, walk'.root)
<1>1. cites \in [DOMAIN cites -> Seq(DOMAIN cites)] /\ walk'.root \in Seq(DOMAIN cites)
  BY DEF All
<1> DEFINE root == walk'.root
<1>2. IsBelow(Downward(cites, root), cites, root)
  <2> HIDE DEF root
  <2>1. root \in Seq(DOMAIN cites)
    BY <1>1 DEF root
  <2> QED
    BY <1>1, <2>1, BelowStepByStep
<1>3. Below' = Downward(cites', walk'.root)
  BY DEF Below, Downward
<1> QED
  BY <1>2, <1>3

LEMMA CentroidsStart == CentroidsInit => CentroidInv
<1> SUFFICES ASSUME CentroidsInit PROVE CentroidInv
  OBVIOUS
<1>1. CentroidTypes
  <2>1. IsLake /\ Roots \subseteq Seq(All)
    BY CentroidsBounds DEF CentroidsInit, IsLake, All
  <2>2. vectors \subseteq All /\ remains = All
    BY DEF CentroidsInit
  <2>3. <<>> \in Seq(All) /\ 0 \in 0..(MaxDepth + 1)
    BY CentroidsBounds
  <2>4. walk \in [pc : {"idle", "layer", "mean", "none"}, root : Seq(All), layer : Seq(All), depth : 0..(MaxDepth + 1),
               seen : SUBSET All, leaves : Seq(All), lost : SUBSET All, start : SUBSET All]
    BY <2>3 DEF CentroidsInit
  <2> QED
    BY <2>1, <2>2, <2>4 DEF CentroidTypes
<1>2. /\ walk.pc = "idle" /\ walk.layer = <<>> /\ walk.root = <<>> /\ walk.depth = 0 /\ walk.seen = {} /\ walk.leaves = <<>>
      /\ walk.lost = {} /\ walk.start = {}
  BY DEF CentroidsInit
<1>3. IsBelow(Below, cites, walk.root)
  BY <1>1, BelowHere
<1>4. Below[0] = {}
  BY <1>2, <1>3, EmptyIsEmpty DEF IsBelow
<1>5. ToSet(walk.leaves) = {} /\ ToSet(walk.layer) = {} /\ IsInjective(walk.leaves) /\ IsInjective(walk.layer)
  BY <1>2, EmptyIsEmpty
<1>6. DescentInv
  BY <1>2, <1>4, <1>5 DEF DescentInv
<1>7. BreadthInv
  BY <1>2, <1>4, <1>5 DEF BreadthInv
<1> QED
  BY <1>1, <1>2, <1>5, <1>6, <1>7 DEF CentroidInv, IdleWalk, MomentInv, CoverInv, RepeatInv, EndInv

\* Vectors that come and rows that go leave a walk as it is.
LEMMA SameWalk ==
  ASSUME CentroidInv, walk' = walk, cites' = cites, vectors \subseteq vectors', vectors' \subseteq All, remains' \subseteq All,
         remains' = remains \/ remains' # All
  PROVE  CentroidInv'
<1>1. Below' = Below /\ All' = All
  BY BelowStays DEF All
<1>2. \A i : IsMoment(i)' <=> IsMoment(i)
  BY <1>1 DEF IsMoment, SummaryRows
<1>3. CentroidTypes' /\ IdleWalk'
  BY <1>1 DEF CentroidInv, CentroidTypes, IdleWalk, IsLake
<1>4. DescentInv'
  BY <1>1 DEF CentroidInv, DescentInv
<1>5. Smooth' => Smooth
  BY <1>1 DEF Smooth
<1>6. BreadthInv'
  BY <1>1, <1>5 DEF CentroidInv, BreadthInv
<1>7. MomentInv' /\ CoverInv'
  BY <1>1, <1>2, <1>5 DEF CentroidInv, MomentInv, CoverInv
<1>8. RepeatInv'
  BY <1>1 DEF CentroidInv, RepeatInv, IsTree
<1>9. WalkStops' <=> WalkStops
  BY <1>1 DEF WalkStops, FreshIds, TooDeep
<1> QED
  BY <1>3, <1>4, <1>6, <1>7, <1>8, <1>9 DEF CentroidInv, EndInv

LEMMA BeginsKeeps == ASSUME CentroidInv, NEW from \in Roots, WalkBegins(from) PROVE CentroidInv'
<1>1. CentroidTypes /\ IdleWalk
  BY DEF CentroidInv
<1>2. from \in Seq(All) /\ cites' = cites /\ vectors' = vectors /\ remains' = remains /\ All' = All /\ walk.pc = "idle"
  BY <1>1 DEF WalkBegins, CentroidTypes, All
<1>3. /\ walk' \in [pc : {"layer"}, root : {from}, layer : {from}, depth : {0}, seen : {{}}, leaves : {<<>>}, lost : {{}},
                    start : {vectors \cap remains}]
  <2>1. walk \in [pc : {"idle"}, root : {<<>>}, layer : {<<>>}, depth : {0}, seen : {{}}, leaves : {<<>>}, lost : {{}}, start : SUBSET All]
    BY <1>1, <1>2 DEF CentroidTypes, IdleWalk
  <2>2. walk' = [walk EXCEPT !.pc = "layer", !.root = from, !.layer = from, !.start = vectors \cap remains]
    BY DEF WalkBegins
  <2> QED
    BY <2>1, <2>2
<1>4. /\ walk'.pc = "layer" /\ walk'.root = from /\ walk'.layer = from /\ walk'.depth = 0 /\ walk'.seen = {} /\ walk'.leaves = <<>>
      /\ walk'.lost = {} /\ walk'.start = vectors \cap remains
  BY <1>3
<1>5. IsBelow(Below', cites, from)
  BY <1>1, <1>2, <1>4, BelowThere DEF CentroidTypes, IsLake
<1>6. Below'[0] = ToSet(from)
  BY <1>5 DEF IsBelow
<1>7. CentroidTypes'
  <2>1. 0 \in 0..(MaxDepth + 1) /\ <<>> \in Seq(All)
    BY CentroidsBounds
  <2> QED
    BY <1>1, <1>2, <1>3, <2>1 DEF CentroidTypes, IsLake
<1>8. ToSet(walk'.leaves) = {} /\ IsInjective(walk'.leaves)
  BY <1>4, EmptyIsEmpty
<1>9. DescentInv'
  BY <1>2, <1>4, <1>6, <1>8 DEF DescentInv
<1>10. BreadthInv'
  BY <1>4, <1>6 DEF BreadthInv
<1> QED
  BY <1>4, <1>7, <1>8, <1>9, <1>10 DEF CentroidInv, IdleWalk, MomentInv, CoverInv, RepeatInv, EndInv

\* What is fresh in a layer.
LEMMA FreshAreNew ==
  ASSUME CentroidTypes
  PROVE  /\ FreshIds(walk.layer, walk.seen) \in Seq(All)
         /\ ToSet(FreshIds(walk.layer, walk.seen)) = ToSet(walk.layer) \ walk.seen
         /\ IsInjective(walk.layer) => IsInjective(FreshIds(walk.layer, walk.seen))
         /\ ToSet(walk.layer) \subseteq All
<1>1. walk.layer \in Seq(All)
  BY DEF CentroidTypes
<1> DEFINE layer == walk.layer
           new == All \ walk.seen
           X == All
<1> HIDE DEF layer, new, X
<1>2. layer \in Seq(X)
  BY <1>1 DEF layer, X
<1>3. Among(layer, new) \in Seq(X) /\ ToSet(Among(layer, new)) = ToSet(layer) \cap new /\ (IsInjective(layer) => IsInjective(Among(layer, new)))
  BY <1>2, AmongKeepsAll
<1>4. ToSet(layer) \subseteq X
  BY <1>2 DEF ToSet
<1> QED
  BY <1>3, <1>4 DEF layer, new, X, FreshIds

LEMMA CollectKeeps == CentroidInv /\ CollectLayer => CentroidInv'
<1> SUFFICES ASSUME CentroidInv, CollectLayer PROVE CentroidInv'
  OBVIOUS
<1> DEFINE fresh == FreshIds(walk.layer, walk.seen)
           asked == UpTo(fresh, BatchCap)
           unread == ToSet(fresh) \ ToSet(asked)
           rows == Among(asked, remains)
           leafy == {i \in vectors : ~WalksDown(i, walk.depth)}
           found == LeafRows(rows, walk.depth)
           both == walk.leaves \o found
           leaves == UpTo(both, LeafCap)
           below == NextLayer(rows, walk.depth)
           next == IF Len(leaves) = LeafCap THEN <<>> ELSE below
           seen == walk.seen \cup ToSet(fresh)
           down == {i \in ToSet(rows) : WalksDown(i, walk.depth)}
<1>1. CentroidTypes /\ IdleWalk /\ DescentInv /\ BreadthInv /\ MomentInv /\ CoverInv /\ RepeatInv
  BY DEF CentroidInv
<1>2. /\ walk.pc = "layer" /\ ~WalkStops /\ cites' = cites /\ vectors' = vectors /\ remains' = remains /\ All' = All
      /\ walk' = [walk EXCEPT !.seen = seen, !.leaves = leaves, !.depth = walk.depth + 1, !.lost = walk.lost \cup unread, !.layer = next]
  BY Zenon DEF CollectLayer, All
<1>3. MaxDepth \in Nat /\ LeafCap \in Nat /\ IsLake /\ walk.depth \in 0..MaxDepth /\ Len(walk.leaves) < LeafCap /\ fresh # <<>> /\ walk.leaves \in Seq(All)
  <2>1. MaxDepth \in Nat /\ LeafCap \in Nat
    BY CentroidsBounds
  <2>2. walk.depth \in 0..(MaxDepth + 1) /\ walk.leaves \in Seq(All) /\ IsLake
    BY <1>1 DEF CentroidTypes
  <2>3. ~(walk.depth > MaxDepth) /\ ~(Len(walk.leaves) >= LeafCap) /\ fresh # <<>>
    BY <1>2 DEF WalkStops, TooDeep
  <2>4. Len(walk.leaves) \in Nat
    BY <2>2
  <2> HIDE DEF fresh
  <2> QED
    BY <2>1, <2>2, <2>3, <2>4
<1>4. /\ fresh \in Seq(All) /\ ToSet(fresh) = ToSet(walk.layer) \ walk.seen /\ (IsInjective(walk.layer) => IsInjective(fresh))
      /\ ToSet(walk.layer) \subseteq All
  BY <1>1, FreshAreNew
<1> HIDE DEF fresh
<1>a. asked \in Seq(All) /\ ToSet(asked) \subseteq ToSet(fresh) /\ (IsInjective(fresh) => IsInjective(asked))
  <2>1. BatchCap \in Nat
    BY CentroidsBounds
  <2> QED
    BY <1>4, <2>1, UpToKeeps
<1> HIDE DEF asked
<1>b. unread \subseteq All /\ (unread = {} => ToSet(asked) = ToSet(fresh))
  BY <1>4, <1>a DEF ToSet
<1>5. rows \in Seq(All) /\ ToSet(rows) = ToSet(asked) \cap remains /\ (IsInjective(asked) => IsInjective(rows))
  BY <1>a, AmongKeepsAll
<1> HIDE DEF unread
<1>6. found = Among(rows, leafy)
  BY DEF LeafRows
<1> HIDE DEF rows
<1>7. found \in Seq(All) /\ ToSet(found) = ToSet(rows) \cap leafy /\ (IsInjective(rows) => IsInjective(found))
  <2> HIDE DEF found, leafy
  <2> QED
    BY <1>5, <1>6, AmongKeepsAll
<1> HIDE DEF found
<1>8. /\ both \in Seq(All) /\ ToSet(both) = ToSet(walk.leaves) \cup ToSet(found)
      /\ IsInjective(walk.leaves) /\ IsInjective(found) /\ ToSet(walk.leaves) \cap ToSet(found) = {} => IsInjective(both)
  <2> DEFINE old == walk.leaves
  <2>1. old \in Seq(All)
    BY <1>3
  <2> HIDE DEF old
  <2>2. /\ old \o found \in Seq(All) /\ ToSet(old \o found) = ToSet(old) \cup ToSet(found)
        /\ IsInjective(old) /\ IsInjective(found) /\ ToSet(old) \cap ToSet(found) = {} => IsInjective(old \o found)
    BY <1>7, <2>1, ConcatKeeps
  <2> QED
    BY <2>2 DEF old
<1> HIDE DEF both
<1>9. /\ leaves \in Seq(All) /\ ToSet(leaves) \subseteq ToSet(both) /\ Len(leaves) <= LeafCap
      /\ (Len(leaves) < LeafCap => leaves = both) /\ (IsInjective(both) => IsInjective(leaves)) /\ Len(leaves) \in Nat
  <2>1. /\ leaves \in Seq(All) /\ ToSet(leaves) \subseteq ToSet(both) /\ Len(leaves) <= LeafCap
        /\ (Len(leaves) < LeafCap => leaves = both) /\ (IsInjective(both) => IsInjective(leaves))
    BY <1>3, <1>8, UpToKeeps
  <2> HIDE DEF leaves
  <2> QED
    BY <2>1
<1> HIDE DEF leaves
<1>10. below \in Seq(All) /\ ToSet(below) = Under(down) /\ (IsTree /\ IsInjective(rows) => IsInjective(below))
  BY <1>3, <1>5, NextLayerIsUnder
<1> HIDE DEF below
<1>11. /\ next \in Seq(All) /\ ToSet(next) \subseteq Under(down) /\ (IsTree /\ IsInjective(rows) => IsInjective(next))
       /\ Len(leaves) < LeafCap => ToSet(next) = Under(down)
  <2>1. <<>> \in Seq(All)
    OBVIOUS
  <2>2. CASE Len(leaves) = LeafCap
    BY <1>3, <2>1, <2>2, EmptyIsEmpty
  <2>3. CASE Len(leaves) # LeafCap
    BY <1>10, <2>3
  <2> QED
    BY <2>2, <2>3
<1> HIDE DEF next
<1>12. walk' \in [pc : {"layer"}, root : {walk.root}, layer : {next}, depth : {walk.depth + 1}, seen : {seen}, leaves : {leaves},
                  lost : {walk.lost \cup unread}, start : {walk.start}]
  <2>1. walk \in [pc : {"layer"}, root : {walk.root}, layer : Seq(All), depth : 0..(MaxDepth + 1), seen : SUBSET All, leaves : Seq(All),
                  lost : {walk.lost}, start : {walk.start}]
    BY <1>1, <1>2 DEF CentroidTypes
  <2> HIDE DEF seen
  <2> QED
    BY <1>2, <2>1
<1>13. /\ walk'.pc = "layer" /\ walk'.root = walk.root /\ walk'.layer = next /\ walk'.depth = walk.depth + 1 /\ walk'.seen = seen
       /\ walk'.leaves = leaves /\ walk'.lost = walk.lost \cup unread /\ walk'.start = walk.start
  BY <1>12
<1>14. Below' = Below /\ IsBelow(Below, cites, walk.root)
  BY <1>1, <1>2, <1>13, BelowStays, BelowHere
<1> DEFINE B == Below
           d == walk.depth
<1>15. /\ \A n \in 0..MaxDepth : B[n] \in SUBSET All /\ B[n] \subseteq B[MaxDepth]
       /\ \A n \in 1..MaxDepth : B[n] = B[n - 1] \cup Under(B[n - 1]) /\ \A m \in 0..(n - 1) : B[m] \subseteq B[n - 1]
       /\ B[0] = ToSet(walk.root)
  <2> HIDE DEF B
  <2>1. IsBelow(B, cites, walk.root)
    BY <1>14 DEF B
  <2>2. \A S : Further(cites, S) = Under(S)
    BY DEF Further, Under
  <2> QED
    BY <2>1, <2>2, BelowGrows DEF All
<1> HIDE DEF B
<1>16. Smooth' => walk.lost = {} /\ unread = {} /\ remains = All /\ Len(leaves) < LeafCap
  BY <1>2, <1>13 DEF Smooth
<1>17. ToSet(fresh) \subseteq All /\ ToSet(rows) \subseteq ToSet(fresh) /\ ToSet(found) \subseteq ToSet(rows) /\ seen = walk.seen \cup ToSet(walk.layer) /\ seen \subseteq All
  <2>1. walk.seen \subseteq All
    BY <1>1 DEF CentroidTypes
  <2> QED
    BY <1>4, <1>a, <1>5, <1>7, <2>1
<1>18. walk.seen \cup ToSet(walk.layer) \subseteq B[d]
  BY <1>1, <1>3 DEF DescentInv, B
<1> HIDE DEF seen
<1>19. CentroidTypes'
  <2>1. walk.depth + 1 \in 0..(MaxDepth + 1)
    BY <1>3
  <2>2. walk.root \in Seq(All) /\ walk.lost \cup unread \in SUBSET All /\ walk.start \in SUBSET All /\ IsLake /\ Roots \subseteq Seq(All) /\ vectors \subseteq All /\ remains \subseteq All
    BY <1>1, <1>b DEF CentroidTypes
  <2>3. walk' \in [pc : {"idle", "layer", "mean", "none"}, root : Seq(All), layer : Seq(All), depth : 0..(MaxDepth + 1),
               seen : SUBSET All, leaves : Seq(All), lost : SUBSET All, start : SUBSET All]
    BY <1>9, <1>11, <1>12, <1>17, <2>1, <2>2
  <2> QED
    BY <1>2, <2>2, <2>3 DEF CentroidTypes, IsLake
<1>20. Under(down) \subseteq Under(ToSet(fresh)) /\ Under(ToSet(fresh)) \subseteq Under(B[d])
  BY <1>17, <1>18, <1>4 DEF Under
<1>21. walk.depth + 1 <= MaxDepth => B[d + 1] = B[d] \cup Under(B[d]) /\ seen \cup ToSet(next) \subseteq B[d + 1]
  <2> SUFFICES ASSUME walk.depth + 1 <= MaxDepth PROVE B[d + 1] = B[d] \cup Under(B[d]) /\ seen \cup ToSet(next) \subseteq B[d + 1]
    OBVIOUS
  <2>1. d + 1 \in 1..MaxDepth /\ (d + 1) - 1 = d
    BY <1>3
  <2> HIDE DEF d
  <2>2. B[d + 1] = B[d] \cup Under(B[d])
    BY <1>15, <2>1
  <2> QED
    BY <1>11, <1>17, <1>18, <1>20, <2>2
<1>22. DescentInv'
  <2>1. ToSet(leaves) \subseteq seen
    <3>1. ToSet(walk.leaves) \subseteq walk.seen
      BY <1>1 DEF DescentInv
    <3> QED
      BY <1>8, <1>9, <1>17, <1>4, <3>1
  <2>2. seen \subseteq B[MaxDepth]
    BY <1>3, <1>15, <1>17, <1>18
  <2>3. walk.start \subseteq vectors
    BY <1>1 DEF DescentInv
  <2> QED
    BY <1>2, <1>13, <1>14, <1>21, <2>1, <2>2, <2>3 DEF DescentInv, B
\* Before the last layer, what does not cite anything is a leaf.
<1>23. ASSUME walk.lost = {}, unread = {}, remains = All
       PROVE  /\ ToSet(rows) = ToSet(fresh)
              /\ IF d = 0 THEN walk.seen = {} ELSE walk.seen = B[d - 1]
              /\ walk.seen \cup ToSet(walk.layer) = B[d]
  <2>2. Smooth
    BY <1>3, <1>23 DEF Smooth
  <2>3. ToSet(rows) = ToSet(fresh)
    BY <1>5, <1>b, <1>17, <1>23
  <2> QED
    BY <1>1, <1>3, <2>2, <2>3 DEF BreadthInv, B
<1>24. BreadthInv'
  <2> SUFFICES ASSUME Smooth' PROVE /\ d + 1 <= MaxDepth => seen \cup ToSet(next) = B[d + 1]
                                    /\ seen = B[d]
    <3>1. walk.depth + 1 # 0 /\ (walk.depth + 1) - 1 = walk.depth
      BY <1>3
    <3> QED
      BY <1>13, <1>14, <3>1 DEF BreadthInv, B
  <2>1. walk.lost = {} /\ unread = {} /\ remains = All /\ Len(leaves) < LeafCap
    BY <1>16
  <2>2. seen = B[d]
    BY <1>17, <1>23, <2>1
  <2>3. ASSUME d + 1 <= MaxDepth PROVE B[d + 1] \subseteq seen \cup ToSet(next)
    <3>1. ToSet(next) = Under(down) /\ B[d + 1] = B[d] \cup Under(B[d])
      BY <1>11, <1>21, <2>1, <2>3
    <3>2. Under(walk.seen) \subseteq seen
      <4>1. CASE d = 0
        BY <1>23, <2>1, <4>1 DEF Under
      <4>2. CASE d # 0
        <5>1. d \in 1..MaxDepth
          BY <1>3, <4>2
        <5> HIDE DEF d
        <5>2. Under(B[d - 1]) \subseteq B[d] /\ walk.seen = B[d - 1]
          BY <1>15, <1>23, <2>1, <4>2, <5>1
        <5> QED
          BY <2>2, <5>2
      <4> QED
        BY <4>1, <4>2
    <3>3. \A i \in ToSet(fresh) \ down : i \in All /\ cites[i] = <<>>
      <4>1. d < MaxDepth
        BY <1>3, <2>3
      <4> QED
        BY <1>17, <1>23, <2>1, <4>1 DEF WalksDown, SummaryRows
    <3>4. Under(ToSet(fresh)) \subseteq Under(down)
      BY <3>3, EmptyIsEmpty DEF Under
    <3>5. Under(seen) \subseteq Under(walk.seen) \cup Under(ToSet(fresh))
      BY <1>4, <1>17 DEF Under
    <3> QED
      BY <2>2, <3>1, <3>2, <3>4, <3>5
  <2> QED
    BY <1>21, <2>2, <2>3
<1>25. \A i : IsMoment(i)' <=> IsMoment(i)
  BY <1>2, <1>14 DEF IsMoment, SummaryRows
<1>26. MomentInv'
  <2> SUFFICES ASSUME remains = All, walk.lost = {}, unread = {}, NEW i \in ToSet(leaves) PROVE IsMoment(i)
    BY <1>2, <1>13, <1>25 DEF MomentInv
  <2>1. CASE i \in ToSet(walk.leaves)
    BY <1>1, <2>1 DEF MomentInv
  <2>2. CASE i \in ToSet(found)
    <3>1. i \in ToSet(fresh) /\ ~WalksDown(i, walk.depth) /\ i \notin walk.seen
      BY <1>4, <1>7, <1>17, <2>2
    <3>2. CASE i \notin SummaryRows
      BY <3>2 DEF IsMoment
    <3>3. CASE i \in SummaryRows
      <4>1. d = MaxDepth
        BY <1>3, <3>1, <3>3 DEF WalksDown
      <4>2. ASSUME NEW n \in 0..(MaxDepth - 1) PROVE B[n] \subseteq walk.seen
        <5>1. MaxDepth \in 1..MaxDepth /\ MaxDepth # 0
          BY <1>3
        <5>2. walk.seen = B[MaxDepth - 1]
          BY <1>23, <4>1, <5>1
        <5> QED
          BY <1>15, <5>1, <5>2
      <4> QED
        BY <3>1, <4>2 DEF IsMoment, B
    <3> QED
      BY <3>2, <3>3
  <2> QED
    BY <1>8, <1>9, <2>1, <2>2
<1>27. CoverInv'
  <2> SUFFICES ASSUME Smooth', NEW i \in seen \cap walk.start, IsMoment(i) PROVE i \in ToSet(leaves)
    BY <1>13, <1>25 DEF CoverInv
  <2>1. walk.lost = {} /\ unread = {} /\ remains = All /\ Len(leaves) < LeafCap /\ leaves = both
    BY <1>9, <1>16
  <2>2. CASE i \in walk.seen
    <3>1. Smooth
      BY <1>3, <2>1 DEF Smooth
    <3>2. i \in ToSet(walk.leaves)
      BY <1>1, <2>2, <3>1 DEF CoverInv
    <3> QED
      BY <1>8, <2>1, <3>2
  <2>3. CASE i \notin walk.seen
    <3>1. i \in ToSet(fresh) /\ i \in ToSet(rows) /\ i \in vectors /\ i \in B[d]
      BY <1>1, <1>4, <1>17, <1>18, <1>23, <2>1, <2>3 DEF DescentInv
    <3>2. ~WalksDown(i, walk.depth)
      <4> SUFFICES ASSUME WalksDown(i, walk.depth) PROVE FALSE
        OBVIOUS
      <4>1. i \in SummaryRows /\ walk.depth \in 0..(MaxDepth - 1)
        BY <1>3 DEF WalksDown
      <4> QED
        BY <3>1, <4>1 DEF IsMoment, B
    <3>3. i \in ToSet(found)
      BY <1>7, <3>1, <3>2
    <3> QED
      BY <1>8, <2>1, <3>3
  <2> QED
    BY <2>2, <2>3
<1>28. RepeatInv'
  <2> SUFFICES ASSUME IsTree, IsInjective(walk.root) PROVE IsInjective(leaves) /\ IsInjective(next)
    BY <1>2, <1>13 DEF RepeatInv, IsTree
  <2>1. IsInjective(walk.leaves) /\ IsInjective(walk.layer)
    BY <1>1 DEF RepeatInv
  <2>2. IsInjective(rows) /\ IsInjective(found)
    BY <1>4, <1>a, <1>5, <1>7, <2>1
  <2>3. ToSet(walk.leaves) \cap ToSet(found) = {}
    BY <1>1, <1>4, <1>17 DEF DescentInv
  <2> QED
    BY <1>8, <1>9, <1>11, <2>1, <2>2, <2>3
<1> QED
  BY <1>13, <1>19, <1>22, <1>24, <1>26, <1>27, <1>28 DEF CentroidInv, IdleWalk, EndInv

LEMMA LayerDropsKeeps == CentroidInv /\ LayerDrops => CentroidInv'
<1> SUFFICES ASSUME CentroidInv, LayerDrops PROVE CentroidInv'
  OBVIOUS
<1> DEFINE fresh == FreshIds(walk.layer, walk.seen)
           seen == walk.seen \cup ToSet(walk.layer)
           lost == walk.lost \cup ToSet(fresh)
<1>1. CentroidTypes /\ IdleWalk /\ DescentInv /\ MomentInv /\ RepeatInv
  BY DEF CentroidInv
<1>2. /\ walk.pc = "layer" /\ ~WalkStops /\ cites' = cites /\ vectors' = vectors /\ remains' = remains /\ All' = All
      /\ walk' = [walk EXCEPT !.seen = seen, !.lost = lost, !.layer = <<>>]
  BY Zenon DEF LayerDrops, All
<1>3. MaxDepth \in Nat /\ walk.depth \in 0..MaxDepth /\ fresh # <<>>
  <2>1. MaxDepth \in Nat /\ walk.depth \in 0..(MaxDepth + 1)
    BY <1>1, CentroidsBounds DEF CentroidTypes
  <2>2. ~(walk.depth > MaxDepth) /\ fresh # <<>>
    BY <1>2 DEF WalkStops, TooDeep
  <2> HIDE DEF fresh
  <2> QED
    BY <2>1, <2>2
<1>4. fresh \in Seq(All) /\ ToSet(fresh) \subseteq ToSet(walk.layer) /\ ToSet(walk.layer) \subseteq All
  BY <1>1, FreshAreNew
<1> HIDE DEF fresh
<1>5. lost # {} /\ lost \subseteq All
  <2>1. lost # {}
    <3>1. ToSet(fresh) # {}
      BY <1>3, <1>4 DEF ToSet
    <3> QED
      BY <3>1 DEF lost
  <2>2. walk.lost \subseteq All
    BY <1>1 DEF CentroidTypes
  <2> QED
    BY <1>4, <2>1, <2>2 DEF lost
<1> HIDE DEF lost
<1>6. seen \subseteq All
  BY <1>1, <1>4 DEF CentroidTypes
<1>7. walk' \in [pc : {"layer"}, root : {walk.root}, layer : {<<>>}, depth : {walk.depth}, seen : {seen}, leaves : {walk.leaves},
                 lost : {lost}, start : {walk.start}]
  <2>1. walk \in [pc : {"layer"}, root : {walk.root}, layer : Seq(All), depth : {walk.depth}, seen : SUBSET All, leaves : {walk.leaves},
                  lost : SUBSET All, start : {walk.start}]
    BY <1>1, <1>2 DEF CentroidTypes
  <2> HIDE DEF seen
  <2> QED
    BY <1>2, <2>1
<1>8. /\ walk'.pc = "layer" /\ walk'.root = walk.root /\ walk'.layer = <<>> /\ walk'.depth = walk.depth /\ walk'.seen = seen
      /\ walk'.leaves = walk.leaves /\ walk'.lost = lost /\ walk'.start = walk.start
  BY <1>7
<1>9. Below' = Below
  BY <1>2, <1>8, BelowStays
<1>10. IsBelow(Below, cites, walk.root)
  BY <1>1, BelowHere
<1>11. CentroidTypes'
  <2>1. <<>> \in Seq(All)
    OBVIOUS
  <2> HIDE DEF seen
  <2>2. walk' \in [pc : {"idle", "layer", "mean", "none"}, root : Seq(All), layer : Seq(All), depth : 0..(MaxDepth + 1),
               seen : SUBSET All, leaves : Seq(All), lost : SUBSET All, start : SUBSET All]
    BY <1>1, <1>5, <1>6, <1>7, <2>1 DEF CentroidTypes
  <2> QED
    BY <1>1, <1>2, <2>2 DEF CentroidTypes, IsLake
<1>12. DescentInv'
  <2>1. seen \subseteq Below[walk.depth]
    BY <1>1, <1>3 DEF DescentInv
  <2>2. Below[walk.depth] \subseteq Below[MaxDepth]
    <3> DEFINE B == Below
    <3> HIDE DEF B
    <3>1. IsBelow(B, cites, walk.root)
      BY <1>10 DEF B
    <3>2. \A n \in 0..MaxDepth : B[n] \subseteq B[MaxDepth]
      BY <3>1, BelowGrows
    <3> QED
      BY <1>3, <3>2 DEF B
  <2>3. ToSet(walk.leaves) \subseteq seen /\ walk.start \subseteq vectors
    BY <1>1 DEF DescentInv
  <2> HIDE DEF seen
  <2> QED
    BY <1>2, <1>8, <1>9, <2>1, <2>2, <2>3, EmptyIsEmpty DEF DescentInv
<1>13. \A i : IsMoment(i)' <=> IsMoment(i)
  BY <1>2, <1>9 DEF IsMoment, SummaryRows
<1>14. MomentInv'
  BY <1>5, <1>8 DEF MomentInv
<1>15. RepeatInv'
  BY <1>1, <1>2, <1>8, EmptyIsEmpty DEF RepeatInv, IsTree
<1> QED
  BY <1>5, <1>8, <1>11, <1>12, <1>14, <1>15 DEF CentroidInv, IdleWalk, BreadthInv, CoverInv, Smooth, EndInv

LEMMA WalkEndsKeeps == CentroidInv /\ WalkEnds => CentroidInv'
<1> SUFFICES ASSUME CentroidInv, WalkEnds PROVE CentroidInv'
  OBVIOUS
<1>1. CentroidTypes /\ DescentInv /\ BreadthInv /\ MomentInv /\ CoverInv /\ RepeatInv
  BY DEF CentroidInv
<1>2. WalkStops /\ cites' = cites /\ vectors' = vectors /\ remains' = remains /\ All' = All
  BY DEF WalkEnds, All
<1>3. walk' \in [pc : {"mean", "none"}, root : {walk.root}, layer : {walk.layer}, depth : {walk.depth}, seen : {walk.seen},
                 leaves : {walk.leaves}, lost : {walk.lost}, start : {walk.start}]
  BY <1>1 DEF CentroidTypes, WalkEnds
<1>4. /\ walk'.pc \in {"mean", "none"} /\ walk'.root = walk.root /\ walk'.layer = walk.layer /\ walk'.depth = walk.depth
      /\ walk'.seen = walk.seen /\ walk'.leaves = walk.leaves /\ walk'.lost = walk.lost /\ walk'.start = walk.start
  BY <1>3
<1>5. Below' = Below
  BY <1>2, <1>4, BelowStays
<1>6. \A i : IsMoment(i)' <=> IsMoment(i)
  BY <1>2, <1>5 DEF IsMoment, SummaryRows
<1>7. CentroidTypes'
  BY <1>1, <1>2, <1>3 DEF CentroidTypes, IsLake
<1>8. DescentInv' /\ (Smooth' <=> Smooth)
  BY <1>1, <1>2, <1>4, <1>5 DEF DescentInv, Smooth
<1>9. BreadthInv' /\ MomentInv' /\ CoverInv'
  BY <1>1, <1>2, <1>4, <1>5, <1>6, <1>8 DEF BreadthInv, MomentInv, CoverInv
<1>10. RepeatInv'
  BY <1>1, <1>2, <1>4 DEF RepeatInv, IsTree
<1>11. WalkStops'
  BY <1>2, <1>4 DEF WalkStops, FreshIds, TooDeep
<1> QED
  BY <1>4, <1>7, <1>8, <1>9, <1>10, <1>11 DEF CentroidInv, IdleWalk, EndInv

LEMMA CentroidsStep == CentroidInv /\ [CentroidsNext]_centroidVars => CentroidInv'
<1> SUFFICES ASSUME CentroidInv, [CentroidsNext]_centroidVars PROVE CentroidInv'
  OBVIOUS
<1>0. vectors \subseteq All /\ remains \subseteq All
  BY DEF CentroidInv, CentroidTypes
<1>1. ASSUME NEW from \in Roots, WalkBegins(from) PROVE CentroidInv'
  BY <1>1, BeginsKeeps
<1>2. CASE CollectLayer \/ LayerDrops \/ WalkEnds
  BY <1>2, CollectKeeps, LayerDropsKeeps, WalkEndsKeeps
<1>3. ASSUME NEW i \in All, RowIsEmbedded(i) \/ RowGoes(i) PROVE CentroidInv'
  <2>1. walk' = walk /\ cites' = cites
    BY <1>3 DEF RowIsEmbedded, RowGoes
  <2>2. vectors \subseteq vectors' /\ vectors' \subseteq All /\ remains' \subseteq All /\ (remains' = remains \/ remains' # All)
    BY <1>0, <1>3 DEF RowIsEmbedded, RowGoes
  <2> QED
    BY <2>1, <2>2, SameWalk
<1>4. CASE UNCHANGED centroidVars
  BY <1>0, <1>4, SameWalk DEF centroidVars
<1> QED
  BY <1>1, <1>2, <1>3, <1>4, Zenon DEF CentroidsNext

\* A walk that ends and has not gone wrong has met all that lies below its root.
LEMMA AllIsMet == CentroidInv /\ WalkIsDone /\ Smooth => Below[MaxDepth] \subseteq walk.seen
<1> SUFFICES ASSUME CentroidInv, WalkIsDone, Smooth PROVE Below[MaxDepth] \subseteq walk.seen
  OBVIOUS
<1> DEFINE B == Below
           fresh == FreshIds(walk.layer, walk.seen)
<1>1. CentroidTypes /\ BreadthInv /\ WalkStops
  BY DEF CentroidInv, EndInv, WalkIsDone
<1>2. MaxDepth \in Nat /\ LeafCap \in Nat /\ walk.depth \in 0..(MaxDepth + 1)
  BY <1>1, CentroidsBounds DEF CentroidTypes
<1>3. (walk.depth <= MaxDepth => walk.seen \cup ToSet(walk.layer) = B[walk.depth]) /\ (IF walk.depth = 0 THEN walk.seen = {} ELSE walk.seen = B[walk.depth - 1])
  BY <1>1 DEF BreadthInv
<1>4. IsBelow(B, cites, walk.root)
  BY <1>1, BelowHere
<1> HIDE DEF B
<1>5. (\A n \in 1..MaxDepth : B[n] = B[n - 1] \cup Further(cites, B[n - 1]) /\ \A m \in 0..(n - 1) : B[m] \subseteq B[n - 1]) /\ B[0] = ToSet(walk.root)
  BY <1>4, BelowGrows
<1>6. CASE walk.depth = MaxDepth + 1
  <2>1. walk.depth # 0 /\ walk.depth - 1 = MaxDepth
    BY <1>2, <1>6
  <2>2. walk.seen = B[MaxDepth]
    BY <1>3, <2>1
  <2> QED
    BY <2>2 DEF B
<1>7. CASE walk.depth # MaxDepth + 1
  <2>1. walk.depth \in 0..MaxDepth
    BY <1>2, <1>7
  <2>2. fresh = <<>>
    <3>1. ~(walk.depth > MaxDepth)
      BY <1>2, <2>1
    <3>2. ~(Len(walk.leaves) >= LeafCap)
      <4>1. Len(walk.leaves) \in Nat /\ Len(walk.leaves) < LeafCap
        BY <1>1 DEF CentroidTypes, Smooth
      <4> QED
        BY <1>2, <4>1
    <3> QED
      BY <1>1, <3>1, <3>2 DEF WalkStops, TooDeep
  <2>3. ToSet(walk.layer) \subseteq walk.seen
    <3>1. ToSet(fresh) = ToSet(walk.layer) \ walk.seen
      BY <1>1, FreshAreNew
    <3>2. ToSet(fresh) = {}
      BY <2>2, EmptyIsEmpty, Zenon
    <3> HIDE DEF fresh
    <3> QED
      BY <3>1, <3>2
  <2>4. walk.seen = B[walk.depth]
    <3>1. walk.depth <= MaxDepth
      BY <1>2, <2>1
    <3>2. walk.seen \cup ToSet(walk.layer) = walk.seen
      BY <2>3
    <3> QED
      BY <1>3, <3>1, <3>2
  <2>5. CASE walk.depth = 0
    <3>1. ToSet(walk.root) \subseteq walk.seen /\ Further(cites, walk.seen) \subseteq walk.seen
      BY <1>3, <1>5, <2>4, <2>5 DEF Further
    <3> QED
      BY <1>4, <3>1, ClosedHasAll DEF B
  <2>6. CASE walk.depth # 0
    <3>1. walk.depth \in 1..MaxDepth /\ 0 \in 0..(walk.depth - 1)
      BY <2>1, <2>6, <1>2
    <3>2. Further(cites, B[walk.depth - 1]) \subseteq B[walk.depth] /\ B[0] \subseteq B[walk.depth - 1] /\ walk.seen = B[walk.depth - 1]
      BY <1>3, <1>5, <2>6, <3>1
    <3>3. ToSet(walk.root) \subseteq walk.seen /\ Further(cites, walk.seen) \subseteq walk.seen
      BY <1>5, <2>4, <3>2
    <3> QED
      BY <1>4, <3>3, ClosedHasAll DEF B
  <2> QED
    BY <2>5, <2>6
<1> QED
  BY <1>6, <1>7

\* Only moments below a summary are averaged, all of them that had a vector unless
\* something failed, and in a tree each counts once (compute_centroid() in
\* provenance_centroid.py).
THEOREM CentroidsStayTrue == CentroidsSpec => []CentroidsAreTrue
<1>1. CentroidInv => CentroidsAreTrue
  <2> SUFFICES ASSUME CentroidInv PROVE CentroidsAreTrue
    OBVIOUS
  <2>1. ToSet(walk.leaves) \subseteq Below[MaxDepth]
    BY DEF CentroidInv, DescentInv
  <2>2. remains = All /\ walk.lost = {} => \A i \in ToSet(walk.leaves) : IsMoment(i)
    BY DEF CentroidInv, MomentInv
  <2>3. ASSUME WalkIsDone, walk.lost = {}, remains = All, Len(walk.leaves) < LeafCap, NEW i \in Below[MaxDepth] \cap walk.start, IsMoment(i)
        PROVE  i \in ToSet(walk.leaves)
    <3>1. Smooth
      BY <2>3 DEF Smooth
    <3>2. i \in walk.seen
      BY <2>3, <3>1, AllIsMet
    <3> QED
      BY <2>3, <3>1, <3>2 DEF CentroidInv, CoverInv
  <2>4. MomentsAreMet
    BY <2>1, <2>2, <2>3 DEF MomentsAreMet
  <2>5. CountedOnceInTrees
    BY DEF CentroidInv, RepeatInv, CountedOnceInTrees
  <2> QED
    BY <2>4, <2>5 DEF CentroidsAreTrue
<1> QED
  BY <1>1, CentroidsStart, CentroidsStep, PTL DEF CentroidsSpec

-----------------------------------------------------------------------------
\* Recursion over the numbers up to n.
IsRange(f, n, D, d, g) == f \in [0..n -> D] /\ f[0] = d /\ \A k \in 1..n : f[k] = g[<<f[k - 1], k>>]
LEMMA Ranging ==
  ASSUME NEW n \in Nat, NEW D, NEW d \in D, NEW g \in [D \X (1..n) -> D]
  PROVE  \E f : IsRange(f, n, D, d, g)
<1> DEFINE s == [k \in 1..n |-> k]
<1>1. s \in Seq(1..n) /\ Len(s) = n /\ \A k \in 1..n : s[k] = k
  <2>1. s \in [1..n -> 1..n]
    OBVIOUS
  <2> QED
    BY <2>1
<1> HIDE DEF s
<1>2. \E f : IsFold(f, D, g, d, s)
  BY <1>1, Folding
<1> QED
  BY <1>1, <1>2 DEF IsFold, IsRange

\* The least and the greatest of some numbers.
LEMMA MinIsLeast ==
  ASSUME NEW n \in Nat, NEW S \in SUBSET (0..n), S # {}
  PROVE  Min(S) \in S /\ \A y \in S : Min(S) <= y
<1> DEFINE Mirror == {n - x : x \in S}
<1>0. \A y \in S : y \in Nat /\ n - y \in 0..n
  OBVIOUS
<1>2. (\A y \in S : n - y \in Mirror) /\ \A z \in Mirror : \E x \in S : z = n - x
  OBVIOUS
<1> HIDE DEF Mirror
<1>1. Mirror \in SUBSET (0..n) /\ Mirror # {}
  <2>1. \A z \in Mirror : z \in 0..n
    BY <1>0, <1>2
  <2> QED
    BY <1>2, <2>1
<1>3. PICK z \in Mirror : \A y \in Mirror : y <= z
  BY <1>1, HasGreatest
<1>4. PICK x \in S : z = n - x
  BY <1>2
<1>5. ASSUME NEW y \in S PROVE x <= y
  <2>1. n - y <= n - x
    BY <1>2, <1>3, <1>4
  <2> QED
    BY <1>0, <2>1
<1>6. \E u \in S : \A y \in S : u <= y
  BY <1>5
<1> QED
  BY <1>6 DEF Min
LEMMA MaxIsGreatest ==
  ASSUME NEW n \in Nat, NEW S \in SUBSET (0..n), S # {}
  PROVE  Max(S) \in S /\ \A y \in S : y <= Max(S)
<1>1. PICK x \in S : \A y \in S : y <= x
  BY HasGreatest
<1>2. \A y \in S : y \in Nat
  OBVIOUS
<1>3. \E u \in S : \A y \in S : u >= y
  BY <1>1, <1>2
<1>4. Max(S) \in S /\ \A y \in S : Max(S) >= y
  BY <1>3, Zenon DEF Max
<1> QED
  BY <1>2, <1>4

-----------------------------------------------------------------------------
(* A timeline.                                                               *)

\* The entries of a strip: each shows rows, all before those of the next one.
EntrySet == [ids : SUBSET Nat, src : STRING, at : Nat, kind : {"row", "collapsed"}, count : Int]
IsShow(entries) == entries \in Seq(EntrySet) /\ \A k \in DOMAIN entries : entries[k].ids # {}
InLine(entries) ==
  \A a, b \in DOMAIN entries : a < b => \A x \in entries[a].ids, y \in entries[b].ids : x < y
IdsIn(entries, a, b) == UNION {entries[k].ids : k \in a..b}

\* What has been folded covers the entries before the next one.
Folded(done, i, entries, protected) ==
  /\ IsShow(done.out) /\ done.next \in Nat /\ i < done.next /\ done.next <= Len(entries) + 1
  /\ IdsIn(done.out, 1, Len(done.out)) = IdsIn(entries, 1, done.next - 1)
  /\ InLine(entries) => InLine(done.out)
  /\ \A k \in 1..(done.next - 1) : IsProtected(entries[k], protected) => \E m \in DOMAIN done.out : done.out[m] = entries[k]

LEMMA FoldsOne ==
  ASSUME NEW entries, IsShow(entries), NEW protected, NEW i \in 1..Len(entries), NEW done,
         Folded(done, i - 1, entries, protected), done.next = i, NEW last \in i..Len(entries), NEW e \in EntrySet,
         e.ids = IdsIn(entries, i, last), \A k \in i..last : IsProtected(entries[k], protected) => e = entries[k]
  PROVE  Folded([out |-> Append(done.out, e), next |-> last + 1], i, entries, protected)
<1> DEFINE out == done.out
           more == Append(out, e)
           m == Len(out)
           n == Len(entries)
<1>1. n \in Nat /\ m \in Nat /\ out \in Seq(EntrySet) /\ entries \in Seq(EntrySet) /\ last \in Nat /\ i \in Nat
  BY DEF Folded, IsShow
<1>2. more \in Seq(EntrySet) /\ Len(more) = m + 1 /\ more[m + 1] = e /\ \A k \in 1..m : more[k] = out[k]
  BY <1>1
<1>3. DOMAIN more = 1..(m + 1) /\ DOMAIN out = 1..m /\ DOMAIN entries = 1..n
  BY <1>1, <1>2
<1>0. out = done.out /\ m = Len(out) /\ n = Len(entries) /\ last \in i..n /\ i \in 1..n
  OBVIOUS
<1> HIDE DEF out, m, n, more
<1>4. e.ids # {}
  <2>1. i \in i..last /\ i \in DOMAIN entries
    BY <1>1, <1>3
  <2>2. entries[i].ids \subseteq e.ids /\ entries[i].ids # {}
    BY <2>1 DEF IdsIn, IsShow
  <2> QED
    BY <2>2
<1>5. IsShow(more)
  <2>1. ASSUME NEW k \in DOMAIN more PROVE more[k].ids # {}
    <3>1. CASE k = m + 1
      BY <1>2, <1>4, <3>1
    <3>2. CASE k # m + 1
      <4>1. k \in DOMAIN out
        BY <1>1, <1>3, <3>2
      <4> QED
        BY <1>0, <1>2, <1>3, <4>1 DEF Folded, IsShow
    <3> QED
      BY <3>1, <3>2
  <2> QED
    BY <1>2, <2>1 DEF IsShow
<1>6. IdsIn(out, 1, m) = IdsIn(entries, 1, i - 1)
  BY <1>0 DEF Folded
<1>7. IdsIn(more, 1, m + 1) = IdsIn(out, 1, m) \cup e.ids
  <2>1. 1..(m + 1) = (1..m) \cup {m + 1}
    BY <1>1
  <2>2. \A k \in 1..m : more[k].ids = out[k].ids
    BY <1>2
  <2> QED
    BY <1>2, <2>1, <2>2 DEF IdsIn
<1>8. IdsIn(entries, 1, last) = IdsIn(entries, 1, i - 1) \cup IdsIn(entries, i, last)
  <2>1. 1..last = (1..(i - 1)) \cup (i..last)
    BY <1>1
  <2> QED
    BY <2>1 DEF IdsIn
<1>9. ASSUME InLine(entries) PROVE InLine(more)
  <2> SUFFICES ASSUME NEW a \in DOMAIN more, NEW b \in DOMAIN more, a < b, NEW x \in more[a].ids, NEW y \in more[b].ids
               PROVE  x < y
    BY DEF InLine
  <2>1. a \in 1..m /\ more[a] = out[a]
    BY <1>1, <1>2, <1>3
  <2>2. CASE b = m + 1
    <3>1. x \in IdsIn(out, 1, m)
      BY <2>1 DEF IdsIn
    <3>2. PICK k \in 1..(i - 1) : x \in entries[k].ids
      <4>1. x \in IdsIn(entries, 1, i - 1)
        BY <1>6, <3>1, Zenon
      <4> QED
        BY <4>1, Zenon DEF IdsIn
    <3>3. PICK l \in i..last : y \in entries[l].ids
      BY <1>2, <2>2 DEF IdsIn
    <3>a. i \in 1..n /\ last \in i..n /\ n \in Nat
      BY <1>0, <1>1
    <3>b. k \in 1..n /\ l \in 1..n /\ k < l
      BY <3>a
    <3>4. k \in DOMAIN entries /\ l \in DOMAIN entries /\ k < l
      BY <1>3, <3>b
    <3> QED
      BY <1>9, <3>2, <3>3, <3>4 DEF InLine
  <2>3. CASE b # m + 1
    <3>1. b \in 1..m /\ more[b] = out[b]
      BY <1>1, <1>2, <1>3, <2>3
    <3>2. InLine(out)
      BY <1>0, <1>9 DEF Folded
    <3> QED
      BY <1>3, <2>1, <3>1, <3>2 DEF InLine
  <2> QED
    BY <2>2, <2>3
<1>10. ASSUME NEW k \in 1..last, IsProtected(entries[k], protected) PROVE \E l \in DOMAIN more : more[l] = entries[k]
  <2>1. CASE k \in 1..(i - 1)
    <3>1. PICK l \in DOMAIN out : out[l] = entries[k]
      BY <1>0, <1>10, <2>1 DEF Folded
    <3>2. l \in DOMAIN more /\ more[l] = entries[k]
      BY <1>1, <1>2, <1>3, <3>1
    <3> QED
      BY <3>2
  <2>2. CASE k \in i..last
    <3>1. m + 1 \in DOMAIN more /\ more[m + 1] = entries[k]
      BY <1>1, <1>2, <1>3, <1>10, <2>2
    <3> QED
      BY <3>1
  <2>3. k \in 1..(i - 1) \/ k \in i..last
    BY <1>1
  <2> QED
    BY <2>1, <2>2, <2>3
<1> DEFINE next == [out |-> more, next |-> last + 1]
<1>11. next.out = more /\ next.next = last + 1 /\ next.next \in Nat /\ i < next.next /\ next.next <= n + 1 /\ next.next - 1 = last
  BY <1>0, <1>1
<1>12. IdsIn(more, 1, Len(more)) = IdsIn(entries, 1, last)
  BY <1>2, <1>6, <1>7, <1>8
<1> HIDE DEF next
<1>13. Folded(next, i, entries, protected)
  BY <1>0, <1>5, <1>9, <1>10, <1>11, <1>12 DEF Folded
<1> QED
  BY <1>13 DEF next, more, out
\* How entries fold, one after the other.
FoldStep(entries, how, protected, done, i) ==
  LET end == RunEnd(entries, how, i)
  IN  IF i < done.next THEN done
      ELSE IF end = i \/ \E k \in i..end : IsProtected(entries[k], protected)
      THEN [out |-> Append(done.out, entries[i]), next |-> i + 1]
      ELSE [out |-> Append(done.out, Collapsed(entries, i, end)), next |-> end + 1]

LEMMA RunsEnd ==
  ASSUME NEW entries, IsShow(entries), NEW how, NEW i \in 1..Len(entries)
  PROVE  RunEnd(entries, how, i) \in i..Len(entries)
<1> DEFINE n == Len(entries)
           S == {j \in i..n : \A k \in (i + 1)..j : Alike(how, entries[i], entries[k])}
<1>1. n \in Nat
  BY DEF IsShow
<1>2. i \in S
  BY <1>1
<1>3. S \in SUBSET (0..n)
  BY <1>1
<1> HIDE DEF n
<1>4. Max(S) \in S
  <2> HIDE DEF S
  <2> QED
    BY <1>1, <1>2, <1>3, MaxIsGreatest
<1>5. RunEnd(entries, how, i) = Max(S)
  BY Zenon DEF RunEnd, n
<1> QED
  BY <1>4, <1>5 DEF n

LEMMA CollapsedIsEntry ==
  ASSUME NEW entries, IsShow(entries), NEW i \in 1..Len(entries), NEW end \in i..Len(entries)
  PROVE  Collapsed(entries, i, end) \in EntrySet
<1>1. entries \in Seq(EntrySet) /\ Len(entries) \in Nat /\ entries[i] \in EntrySet
  BY DEF IsShow
<1>2. \A k \in i..end : entries[k] \in EntrySet
  BY <1>1
<1>3. UNION {entries[k].ids : k \in i..end} \in SUBSET Nat
  <2>1. \A k \in i..end : entries[k].ids \in SUBSET Nat
    BY <1>2 DEF EntrySet
  <2> QED
    BY <2>1
<1>4. entries[i].src \in STRING /\ entries[i].at \in Nat
  BY <1>1 DEF EntrySet
<1>5. end - i + 1 \in Int
  BY <1>1
<1> QED
  BY <1>3, <1>4, <1>5 DEF EntrySet, Collapsed

LEMMA EntryFolds ==
  ASSUME NEW entries, IsShow(entries), NEW how, NEW protected, NEW i \in 1..Len(entries), NEW done,
         Folded(done, i - 1, entries, protected)
  PROVE  Folded(FoldStep(entries, how, protected, done, i), i, entries, protected)
<1> DEFINE end == RunEnd(entries, how, i)
           n == Len(entries)
<1>1. end \in i..n /\ n \in Nat /\ i \in Nat /\ entries \in Seq(EntrySet) /\ DOMAIN entries = 1..n
  <2>1. end \in i..n
    BY RunsEnd
  <2>2. entries \in Seq(EntrySet)
    BY DEF IsShow
  <2> HIDE DEF end
  <2> QED
    BY <2>1, <2>2
<1>2. done.next \in Nat /\ i <= done.next
  BY <1>1 DEF Folded
<1>3. entries[i] \in EntrySet
  BY <1>1
<1>4. CASE i < done.next
  <2>1. FoldStep(entries, how, protected, done, i) = done
    BY <1>4 DEF FoldStep
  <2> QED
    BY <1>4, <2>1 DEF Folded
<1>5. CASE ~(i < done.next) /\ (end = i \/ \E k \in i..end : IsProtected(entries[k], protected))
  <2>1. done.next = i /\ i \in i..n
    BY <1>1, <1>2, <1>5
  <2>2. i..i = {i}
    BY <1>1
  <2>3. entries[i].ids = IdsIn(entries, i, i) /\ \A k \in i..i : IsProtected(entries[k], protected) => entries[i] = entries[k]
    BY <2>2 DEF IdsIn
  <2>4. FoldStep(entries, how, protected, done, i) = [out |-> Append(done.out, entries[i]), next |-> i + 1]
    BY <1>5 DEF FoldStep
  <2> HIDE DEF end
  <2> QED
    BY <1>3, <2>1, <2>3, <2>4, FoldsOne
<1>6. CASE ~(i < done.next) /\ ~(end = i \/ \E k \in i..end : IsProtected(entries[k], protected))
  <2> DEFINE e == Collapsed(entries, i, end)
  <2>1. done.next = i
    BY <1>1, <1>2, <1>6
  <2>2. e.ids = IdsIn(entries, i, end)
    BY DEF Collapsed, IdsIn
  <2>3. e \in EntrySet
    BY <1>1, CollapsedIsEntry
  <2>4. FoldStep(entries, how, protected, done, i) = [out |-> Append(done.out, e), next |-> end + 1]
    BY <1>6 DEF FoldStep
  <2>5. \A k \in i..end : IsProtected(entries[k], protected) => e = entries[k]
    BY <1>6
  <2> HIDE DEF end, e
  <2> QED
    BY <1>1, <2>1, <2>2, <2>3, <2>4, <2>5, FoldsOne
<1> QED
  BY <1>4, <1>5, <1>6

FoldStates == [out : Seq(EntrySet), next : Nat]
LEMMA FoldStepIsState ==
  ASSUME NEW entries, IsShow(entries), NEW how, NEW protected, NEW i \in 1..Len(entries), NEW done \in FoldStates
  PROVE  FoldStep(entries, how, protected, done, i) \in FoldStates
<1> DEFINE end == RunEnd(entries, how, i)
<1>1. end \in i..Len(entries) /\ entries[i] \in EntrySet /\ end + 1 \in Nat /\ i + 1 \in Nat /\ Collapsed(entries, i, end) \in EntrySet
  <2>1. end \in i..Len(entries)
    BY RunsEnd
  <2>2. entries \in Seq(EntrySet)
    BY DEF IsShow
  <2> HIDE DEF end
  <2>3. Collapsed(entries, i, end) \in EntrySet
    BY <2>1, CollapsedIsEntry
  <2> QED
    BY <2>1, <2>2, <2>3
<1>2. done.out \in Seq(EntrySet)
  BY DEF FoldStates
<1>3. Append(done.out, entries[i]) \in Seq(EntrySet) /\ Append(done.out, Collapsed(entries, i, end)) \in Seq(EntrySet)
  BY <1>1, <1>2
<1> QED
  BY <1>1, <1>3 DEF FoldStep, FoldStates

LEMMA CollapseKeeps ==
  ASSUME NEW entries, IsShow(entries), NEW how, NEW protected
  PROVE  \E done : Collapse(entries, how, protected) = done.out /\ Folded(done, Len(entries), entries, protected)
<1> DEFINE n == Len(entries)
           d == [out |-> <<>>, next |-> 1]
           NextFold(done, i) == FoldStep(entries, how, protected, done, i)
           g == [p \in FoldStates \X (1..n) |-> NextFold(p[1], p[2])]
           IsIt(h) == h = [i \in 0..n |-> IF i = 0 THEN d ELSE NextFold(h[i - 1], i)]
<1>1. n \in Nat /\ DOMAIN entries = 1..n
  BY DEF IsShow
<1>2. d \in FoldStates
  BY DEF FoldStates
<1>3. \A p \in FoldStates \X (1..n) : NextFold(p[1], p[2]) \in FoldStates
  BY FoldStepIsState
<1>4. g \in [FoldStates \X (1..n) -> FoldStates]
  <2> HIDE DEF NextFold
  <2> QED
    BY <1>3
<1>5. \A p \in FoldStates \X (1..n) : g[p] = NextFold(p[1], p[2])
  OBVIOUS
<1> HIDE DEF g
<1>6. PICK f \in [0..n -> FoldStates] : f[0] = d /\ \A k \in 1..n : f[k] = g[<<f[k - 1], k>>]
  <2> HIDE DEF d, n
  <2>1. \E f : IsRange(f, n, FoldStates, d, g)
    BY <1>1, <1>2, <1>4, Ranging
  <2> QED
    BY <2>1 DEF IsRange
<1>7. \A k \in 1..n : f[k] = NextFold(f[k - 1], k)
  <2> SUFFICES ASSUME NEW k \in 1..n PROVE f[k] = NextFold(f[k - 1], k)
    OBVIOUS
  <2>1. <<f[k - 1], k>> \in FoldStates \X (1..n)
    BY <1>1
  <2> HIDE DEF NextFold
  <2> QED
    BY <1>5, <1>6, <2>1
<1>8. IsIt(f)
  <2>1. f = [k \in 0..n |-> f[k]]
    BY <1>6
  <2>2. \A k \in 0..n : k # 0 => k \in 1..n
    BY <1>1
  <2> HIDE DEF NextFold, d
  <2>3. \A k \in 0..n : f[k] = IF k = 0 THEN d ELSE NextFold(f[k - 1], k)
    BY <1>6, <1>7, <2>2, Zenon
  <2> QED
    BY <2>1, <2>3, Zenon
<1>9. PICK h : IsIt(h) /\ Collapse(entries, how, protected) = h[n].out
  BY <1>8, Zenon DEF Collapse, FoldStep
<1>10. h[0] = d /\ \A k \in 1..n : h[k] = NextFold(h[k - 1], k)
  <2>1. \A k \in 0..n : h[k] = IF k = 0 THEN d ELSE NextFold(h[k - 1], k)
    BY <1>9, Zenon
  <2>2. 0 \in 0..n /\ \A k \in 1..n : k \in 0..n /\ k # 0
    BY <1>1
  <2> HIDE DEF NextFold, d
  <2> QED
    BY <2>1, <2>2, Zenon
<1> DEFINE T == {k \in 0..n : Folded(h[k], k, entries, protected)}
<1>11. 0 \in T
  <2>1. Len(<<>>) = 0 /\ <<>> \in Seq(EntrySet) /\ DOMAIN <<>> = {}
    OBVIOUS
  <2>2. IsShow(<<>>) /\ InLine(<<>>)
    BY <2>1 DEF IsShow, InLine
  <2>3. 1..(1 - 1) = {} /\ 1..0 = {}
    OBVIOUS
  <2>4. IdsIn(<<>>, 1, 0) = IdsIn(entries, 1, 1 - 1)
    BY <2>3 DEF IdsIn
  <2>5. d.out = <<>> /\ d.next = 1 /\ 0 < 1 /\ 1 <= n + 1
    BY <1>1
  <2> HIDE DEF d
  <2>6. Folded(d, 0, entries, protected)
    BY <2>1, <2>2, <2>3, <2>4, <2>5 DEF Folded, n
  <2> QED
    BY <1>1, <1>10, <2>6
<1>12. ASSUME NEW k \in 0..n, k \in T, k < n PROVE k + 1 \in T
  <2>1. k + 1 \in 1..n /\ k + 1 \in 0..n /\ (k + 1) - 1 = k
    BY <1>1, <1>12
  <2>2. h[k + 1] = NextFold(h[k], k + 1)
    BY <1>10, <2>1
  <2>3. Folded(h[k], (k + 1) - 1, entries, protected)
    BY <1>12, <2>1
  <2>4. Folded(NextFold(h[k], k + 1), k + 1, entries, protected)
    BY <2>1, <2>3, EntryFolds
  <2> QED
    BY <2>1, <2>2, <2>4
<1>13. n \in T
  <2> HIDE DEF T, n
  <2>1. 0..n \subseteq T
    BY <1>1, <1>11, <1>12, StepByStep
  <2> QED
    BY <1>1, <2>1
<1> QED
  BY <1>9, <1>13
\* What folding keeps.
Folds(entries, how, protected) ==
  LET c == Collapse(entries, how, protected)
  IN  /\ IsShow(c) /\ (InLine(entries) => InLine(c))
      /\ IdsIn(c, 1, Len(c)) = IdsIn(entries, 1, Len(entries))
      /\ \A k \in DOMAIN entries : IsProtected(entries[k], protected) => \E m \in DOMAIN c : c[m] = entries[k]
LEMMA CollapseIsShow ==
  ASSUME NEW entries, IsShow(entries), NEW how, NEW protected
  PROVE  Folds(entries, how, protected)
<1> DEFINE c == Collapse(entries, how, protected)
           n == Len(entries)
<1>1. PICK done : c = done.out /\ Folded(done, n, entries, protected)
  BY CollapseKeeps
<1>2. n \in Nat /\ DOMAIN entries = 1..n
  BY DEF IsShow
<1>3. done.next \in Nat /\ n < done.next /\ done.next <= n + 1
  BY <1>1 DEF Folded
<1>4. done.next - 1 = n
  BY <1>2, <1>3
<1> HIDE DEF c, n
<1>5. IsShow(c) /\ (InLine(entries) => InLine(c)) /\ IdsIn(c, 1, Len(c)) = IdsIn(entries, 1, n)
  BY <1>1, <1>4 DEF Folded
<1>6. \A k \in DOMAIN entries : IsProtected(entries[k], protected) => \E m \in DOMAIN c : c[m] = entries[k]
  BY <1>1, <1>2, <1>4 DEF Folded
<1> QED
  BY <1>5, <1>6 DEF c, n, Folds

\* The rows of a table, in the order of their times.
IsTable ==
  /\ table \in Seq([at : Nat, src : STRING])
  /\ \A i, j \in DOMAIN table : i < j => At(i) < At(j)

\* The entries of the first i rows of some.
Listed(entries, i, rows) ==
  /\ IsShow(entries) /\ InLine(entries) /\ IdsIn(entries, 1, Len(entries)) = rows \cap (1..i)
  /\ \A j \in rows \cap (1..i) : \E k \in DOMAIN entries : entries[k] = Entry(j)

LEMMA EntryIsEntry ==
  ASSUME IsTable, NEW i \in 1..Len(table)
  PROVE  Entry(i) \in EntrySet /\ Entry(i).ids = {i}
<1> DEFINE R == [at : Nat, src : STRING]
<1>1. table \in Seq(R)
  BY DEF IsTable
<1>2. table[i] \in R /\ i \in Nat
  <2> HIDE DEF R
  <2> QED
    BY <1>1
<1>3. table[i].at \in Nat /\ table[i].src \in STRING
  BY <1>2
<1> QED
  BY <1>2, <1>3 DEF Entry, EntrySet, At

LEMMA ListsOne ==
  ASSUME IsTable, NEW rows, NEW i \in 1..Len(table), i \in rows, NEW entries, Listed(entries, i - 1, rows)
  PROVE  Listed(Append(entries, Entry(i)), i, rows)
<1> DEFINE m == Len(entries)
           more == Append(entries, Entry(i))
<1>1. entries \in Seq(EntrySet) /\ m \in Nat /\ i \in Nat
  BY DEF IsTable, Listed, IsShow
<1>2. Entry(i) \in EntrySet
  BY EntryIsEntry
<1>3. more \in Seq(EntrySet) /\ Len(more) = m + 1 /\ more[m + 1] = Entry(i) /\ \A k \in 1..m : more[k] = entries[k]
  BY <1>1, <1>2
<1>4. DOMAIN more = 1..(m + 1) /\ DOMAIN entries = 1..m
  BY <1>1, <1>3
<1>5. Entry(i).ids = {i}
  BY DEF Entry
<1>0. m = Len(entries) /\ i \in 1..Len(table)
  OBVIOUS
<1> HIDE DEF m, more
<1>6. \A k \in DOMAIN more : k = m + 1 \/ (k \in 1..m /\ more[k] = entries[k])
  BY <1>1, <1>3, <1>4
<1>7. IsShow(more)
  <2>1. \A k \in 1..m : entries[k].ids # {}
    BY <1>4 DEF Listed, IsShow
  <2> QED
    BY <1>3, <1>5, <1>6, <2>1 DEF IsShow
<1>8. IdsIn(entries, 1, m) = rows \cap (1..(i - 1))
  BY <1>0 DEF Listed
<1>9. IdsIn(more, 1, m + 1) = rows \cap (1..i)
  <2>1. 1..(m + 1) = (1..m) \cup {m + 1} /\ 1..i = (1..(i - 1)) \cup {i}
    BY <1>1
  <2>2. IdsIn(more, 1, m + 1) = IdsIn(entries, 1, m) \cup {i}
    BY <1>3, <1>5, <2>1 DEF IdsIn
  <2> QED
    BY <1>8, <2>1, <2>2
<1>10. InLine(more)
  <2> SUFFICES ASSUME NEW a \in DOMAIN more, NEW b \in DOMAIN more, a < b, NEW x \in more[a].ids, NEW y \in more[b].ids
               PROVE  x < y
    BY DEF InLine
  <2>1. a \in 1..m /\ more[a] = entries[a]
    BY <1>1, <1>3, <1>4
  <2>2. CASE b = m + 1
    <3>1. x \in IdsIn(entries, 1, m) /\ y = i
      BY <1>3, <1>5, <2>1, <2>2 DEF IdsIn
    <3>2. x \in 1..(i - 1)
      BY <1>8, <3>1
    <3> QED
      BY <1>1, <3>1, <3>2
  <2>3. CASE b # m + 1
    <3>1. b \in 1..m /\ more[b] = entries[b]
      BY <1>6, <2>3
    <3> QED
      BY <1>4, <2>1, <3>1 DEF Listed, InLine
  <2> QED
    BY <2>2, <2>3
<1>11. ASSUME NEW j \in rows \cap (1..i) PROVE \E k \in DOMAIN more : more[k] = Entry(j)
  <2>1. CASE j = i
    <3>1. m + 1 \in DOMAIN more
      BY <1>1, <1>4
    <3> QED
      BY <1>3, <2>1, <3>1
  <2>2. CASE j # i
    <3>1. j \in rows \cap (1..(i - 1))
      BY <1>1, <2>2
    <3>2. PICK k \in DOMAIN entries : entries[k] = Entry(j)
      BY <3>1 DEF Listed
    <3>3. k \in DOMAIN more /\ more[k] = Entry(j)
      BY <1>1, <1>3, <1>4, <3>2
    <3> QED
      BY <3>3
  <2> QED
    BY <2>1, <2>2
<1>12. IdsIn(more, 1, Len(more)) = rows \cap (1..i)
  BY <1>3, <1>9
<1>13. Listed(more, i, rows)
  BY <1>7, <1>10, <1>11, <1>12 DEF Listed
<1> QED
  BY <1>13 DEF more

LEMMA EntriesAreListed ==
  ASSUME IsTable, NEW rows
  PROVE  Listed(Entries(rows), Len(table), rows)
<1> DEFINE n == Len(table)
           D == Seq(EntrySet)
           Longer(e, i) == IF i \in rows THEN Append(e, Entry(i)) ELSE e
           g == [p \in D \X (1..n) |-> Longer(p[1], p[2])]
           d == <<>>
           IsIt(h) == h = [i \in 0..n |-> IF i = 0 THEN d ELSE Longer(h[i - 1], i)]
<1>1. n \in Nat /\ d \in D
  BY DEF IsTable
<1>2. \A i \in 1..n : Entry(i) \in EntrySet
  BY EntryIsEntry
<1>3. \A p \in D \X (1..n) : Longer(p[1], p[2]) \in D
  <2> SUFFICES ASSUME NEW p \in D \X (1..n) PROVE Longer(p[1], p[2]) \in D
    OBVIOUS
  <2>1. p[1] \in D /\ Entry(p[2]) \in EntrySet
    BY <1>2
  <2> QED
    BY <2>1
<1>4. g \in [D \X (1..n) -> D]
  <2> HIDE DEF Longer, D
  <2> QED
    BY <1>3
<1>5. \A p \in D \X (1..n) : g[p] = Longer(p[1], p[2])
  OBVIOUS
<1> HIDE DEF g
<1>6. PICK f \in [0..n -> D] : f[0] = d /\ \A k \in 1..n : f[k] = g[<<f[k - 1], k>>]
  <2> HIDE DEF d, n, D
  <2>1. \E f : IsRange(f, n, D, d, g)
    BY <1>1, <1>4, Ranging
  <2> QED
    BY <2>1 DEF IsRange
<1>7. \A k \in 1..n : f[k] = Longer(f[k - 1], k)
  <2> SUFFICES ASSUME NEW k \in 1..n PROVE f[k] = Longer(f[k - 1], k)
    OBVIOUS
  <2>0. k - 1 \in 0..n
    BY <1>1
  <2> HIDE DEF Longer, D
  <2>1. <<f[k - 1], k>> \in D \X (1..n)
    BY <1>6, <2>0
  <2> QED
    BY <1>5, <1>6, <2>1
<1>8. IsIt(f)
  <2>1. f = [k \in 0..n |-> f[k]]
    BY <1>6
  <2>2. \A k \in 0..n : k # 0 => k \in 1..n
    BY <1>1
  <2> HIDE DEF Longer, d
  <2>3. \A k \in 0..n : f[k] = IF k = 0 THEN d ELSE Longer(f[k - 1], k)
    BY <1>6, <1>7, <2>2, Zenon
  <2> QED
    BY <2>1, <2>3, Zenon
<1>9. PICK h : IsIt(h) /\ Entries(rows) = h[n]
  BY <1>8, Zenon DEF Entries
<1>10. h[0] = d /\ \A k \in 1..n : h[k] = Longer(h[k - 1], k)
  <2>1. \A k \in 0..n : h[k] = IF k = 0 THEN d ELSE Longer(h[k - 1], k)
    BY <1>9, Zenon
  <2>2. 0 \in 0..n /\ \A k \in 1..n : k \in 0..n /\ k # 0
    BY <1>1
  <2> HIDE DEF Longer, d
  <2> QED
    BY <2>1, <2>2, Zenon
<1> DEFINE T == {k \in 0..n : Listed(h[k], k, rows)}
<1>11. 0 \in T
  <2>1. Len(<<>>) = 0 /\ <<>> \in Seq(EntrySet) /\ DOMAIN <<>> = {} /\ 1..0 = {}
    OBVIOUS
  <2>2. IsShow(<<>>) /\ InLine(<<>>)
    BY <2>1 DEF IsShow, InLine
  <2>3. IdsIn(<<>>, 1, 0) = {}
    BY <2>1 DEF IdsIn
  <2>4. Listed(<<>>, 0, rows)
    BY <2>1, <2>2, <2>3 DEF Listed
  <2> QED
    BY <1>1, <1>10, <2>4
<1>12. ASSUME NEW k \in 0..n, k \in T, k < n PROVE k + 1 \in T
  <2>1. k + 1 \in 1..n /\ k + 1 \in 0..n /\ (k + 1) - 1 = k /\ k \in Nat
    BY <1>1, <1>12
  <2>2. h[k + 1] = Longer(h[k], k + 1)
    BY <1>10, <2>1
  <2>3. Listed(h[k], (k + 1) - 1, rows)
    BY <1>12, <2>1
  <2>4. CASE k + 1 \in rows
    <3>1. Listed(Append(h[k], Entry(k + 1)), k + 1, rows)
      BY <2>1, <2>3, <2>4, ListsOne
    <3> QED
      BY <2>1, <2>2, <2>4, <3>1
  <2>5. CASE k + 1 \notin rows
    <3>1. rows \cap (1..(k + 1)) = rows \cap (1..k)
      <4>1. 1..(k + 1) = (1..k) \cup {k + 1}
        BY <2>1
      <4> QED
        BY <2>5, <4>1
    <3>2. Listed(h[k], k + 1, rows)
      BY <1>12, <3>1 DEF Listed
    <3> QED
      BY <2>1, <2>2, <2>5, <3>2
  <2> QED
    BY <2>4, <2>5
<1>13. n \in T
  <2> HIDE DEF T, n
  <2>1. 0..n \subseteq T
    BY <1>1, <1>11, <1>12, StepByStep
  <2> QED
    BY <1>1, <2>1
<1> QED
  BY <1>9, <1>13

\* What a strip shows: its rows, in order, its anchors each by itself.
IsShown(shown, raws, anchors) ==
  /\ IsShow(shown) /\ InLine(shown) /\ IdsIn(shown, 1, Len(shown)) = raws
  /\ \A s \in raws \cap anchors : \E e \in DOMAIN shown : shown[e].ids = {s} /\ shown[e].kind = "row"
LEMMA ShownIsTrue ==
  ASSUME IsTable, NEW raws \in SUBSET (1..Len(table)), NEW anchors
  PROVE  IsShown(Shown(raws, anchors), raws, anchors)
<1> DEFINE entries == Entries(raws)
           folded == Collapse(entries, "burst", anchors)
           shown == Collapse(folded, "run", anchors)
<1>1. Listed(entries, Len(table), raws)
  BY EntriesAreListed
<1>2. IsShow(entries) /\ InLine(entries)
  BY <1>1 DEF Listed
<1>3. raws \cap (1..Len(table)) = raws
  OBVIOUS
<1>4. IdsIn(entries, 1, Len(entries)) = raws /\ \A s \in raws : \E k \in DOMAIN entries : entries[k] = Entry(s)
  BY <1>1, <1>3 DEF Listed
<1> HIDE DEF entries
<1>5. /\ IsShow(folded) /\ InLine(folded) /\ IdsIn(folded, 1, Len(folded)) = raws
      /\ \A k \in DOMAIN entries : IsProtected(entries[k], anchors) => \E m \in DOMAIN folded : folded[m] = entries[k]
  <2>1. Folds(entries, "burst", anchors)
    BY <1>2, CollapseIsShow
  <2> QED
    BY <1>2, <1>4, <2>1 DEF Folds
<1> HIDE DEF folded
<1>6. /\ IsShow(shown) /\ InLine(shown) /\ IdsIn(shown, 1, Len(shown)) = raws
      /\ \A k \in DOMAIN folded : IsProtected(folded[k], anchors) => \E m \in DOMAIN shown : shown[m] = folded[k]
  <2>1. Folds(folded, "run", anchors)
    BY <1>5, CollapseIsShow
  <2> QED
    BY <1>5, <2>1 DEF Folds
<1> HIDE DEF shown
<1>7. ASSUME NEW s \in raws \cap anchors PROVE \E e \in DOMAIN shown : shown[e].ids = {s} /\ shown[e].kind = "row"
  <2>1. PICK k \in DOMAIN entries : entries[k] = Entry(s)
    BY <1>4
  <2>2. Entry(s).ids = {s} /\ Entry(s).kind = "row"
    BY DEF Entry
  <2>3. IsProtected(Entry(s), anchors)
    BY <2>2 DEF IsProtected
  <2>4. PICK m \in DOMAIN folded : folded[m] = Entry(s)
    BY <1>5, <2>1, <2>3
  <2>5. PICK e \in DOMAIN shown : shown[e] = Entry(s)
    BY <1>6, <2>3, <2>4
  <2> QED
    BY <2>2, <2>5
<1>8. IsShown(shown, raws, anchors)
  BY <1>6, <1>7 DEF IsShown
<1> QED
  BY <1>8 DEF shown, folded, entries, Shown
\* The windows of the seeds.
TimelineTypes ==
  /\ table \in Tables /\ landed \in 0..Len(table) /\ expired \subseteq 1..landed
  /\ step \in {"search", "timeline", "done"} /\ seeds \subseteq 1..landed
Places == 1..Len(table)
LEMMA TableIsTable ==
  ASSUME TimelineTypes
  PROVE  /\ IsTable /\ Len(table) \in Nat /\ Here \subseteq Places /\ seeds \subseteq Places
         /\ \A i \in Places : At(i) \in Nat
         /\ \A i, j \in Places : i <= j => At(i) <= At(j)
<1> DEFINE R == [at : Nat, src : STRING]
           n == Len(table)
<1>1. table \in Seq(R) /\ \A i, j \in DOMAIN table : i < j => At(i) < At(j)
  BY TimelinesBounds DEF TimelineTypes, At
<1>2. n \in Nat /\ DOMAIN table = 1..n /\ \A i \in 1..n : table[i] \in R
  <2> HIDE DEF R
  <2> QED
    BY <1>1
<1>3. landed \in 0..n /\ 1..landed \subseteq 1..n
  BY <1>2 DEF TimelineTypes
<1>4. Here \subseteq 1..n /\ seeds \subseteq 1..n
  BY <1>3 DEF Here, LakeRows, TimelineTypes
<1>5. \A i \in 1..n : At(i) \in Nat
  BY <1>2 DEF At
<1>6. ASSUME NEW i \in 1..n, NEW j \in 1..n, i <= j PROVE At(i) <= At(j)
  <2>1. CASE i = j
    BY <1>5, <2>1
  <2>2. CASE i # j
    <3>1. i < j
      BY <1>2, <1>6, <2>2
    <3>2. At(i) < At(j)
      BY <1>1, <1>2, <3>1
    <3> QED
      BY <1>5, <3>2
  <2> QED
    BY <2>1, <2>2
<1> QED
  BY <1>1, <1>2, <1>4, <1>5, <1>6 DEF IsTable, Places

LEMMA Distances ==
  ASSUME TimelineTypes, NEW i \in Places, NEW j \in Places
  PROVE  Distance(i, j) \in Nat /\ i \in Nat
<1>1. At(i) \in Nat /\ At(j) \in Nat /\ i \in Nat /\ j \in Nat /\ (i <= j => At(i) <= At(j)) /\ (j <= i => At(j) <= At(i))
  BY TableIsTable DEF Places
<1>2. CASE i < j
  BY <1>1, <1>2 DEF Distance
<1>3. CASE ~(i < j)
  BY <1>1, <1>3 DEF Distance
<1> QED
  BY <1>1, <1>2, <1>3

LEMMA CentreIsAround ==
  ASSUME TimelineTypes, NEW s \in seeds, Around(s) # {}
  PROVE  Centre(Around(s), s) \in Around(s) /\ (s \in Around(s) => Centre(Around(s), s) = s)
<1> DEFINE rows == Around(s)
           nearest == {i \in rows : \A j \in rows : Distance(i, s) <= Distance(j, s)}
           far == {Distance(i, s) : i \in rows}
<1>1. s \in Places /\ rows \subseteq Places /\ Len(table) \in Nat /\ Radius \in Nat
  BY TableIsTable, TimelinesBounds DEF Around
<1>2. \A i \in rows : Distance(i, s) \in Nat /\ Distance(i, s) <= Radius
  BY <1>1, Distances DEF Around
<1>3. CASE s \in rows
  BY <1>3 DEF Centre
<1>4. CASE s \notin rows
  <2>1. far \in SUBSET (0..Radius) /\ far # {}
    <3>1. \A i \in rows : Distance(i, s) \in 0..Radius
      BY <1>1, <1>2
    <3> HIDE DEF rows
    <3>2. \E i \in rows : TRUE
      BY DEF rows
    <3> QED
      BY <3>1, <3>2
  <2>2. PICK least \in far : \A d \in far : least <= d
    <3> HIDE DEF far
    <3> QED
      BY <1>1, <2>1, MinIsLeast
  <2>3. \E i \in rows : i \in nearest
    BY <2>2
  <2>4. nearest \in SUBSET (0..Len(table)) /\ nearest # {} /\ nearest \subseteq rows
    BY <1>1, <2>3 DEF Places
  <2>5. Min(nearest) \in nearest
    <3> HIDE DEF nearest
    <3> QED
      BY <1>1, <2>4, MinIsLeast
  <2>6. Centre(rows, s) = Min(nearest)
    BY <1>4, Zenon DEF Centre
  <2> QED
    BY <1>4, <2>4, <2>5, <2>6
<1> QED
  BY <1>3, <1>4

\* What lies between the centre and a row that is reached is reached.
LEMMA PathsShorten ==
  ASSUME TimelineTypes, NEW rows \in SUBSET Places, NEW c \in rows, NEW i \in rows, NEW j \in rows,
         (i <= j /\ j <= c) \/ (c <= j /\ j <= i), Reaches(rows, c, i)
  PROVE  Reaches(rows, c, j)
<1> DEFINE P == Path(rows, c, i)
           Q == Path(rows, c, j)
<1>1. Len(table) \in Nat /\ \A k \in rows : k \in Nat
  BY TableIsTable DEF Places
<1>2. c \in Nat /\ i \in Nat /\ j \in Nat
  BY <1>1
<1>3. Q \subseteq P
  <2> SUFFICES ASSUME NEW k \in rows, (j <= k /\ k <= c) \/ (c <= k /\ k <= j)
               PROVE  (i <= k /\ k <= c) \/ (c <= k /\ k <= i)
    BY DEF Path
  <2>1. k \in Nat
    BY <1>1
  <2> QED
    BY <1>2, <2>1
<1>4. ASSUME NEW k \in Q, NEW l \in Q, NEW m \in P, k < m, m < l PROVE m \in Q
  <2>1. k \in rows /\ l \in rows /\ m \in rows
    BY DEF Path
  <2>2. k \in Nat /\ l \in Nat /\ m \in Nat
    BY <1>1, <2>1
  <2>3. ((j <= k /\ k <= c) \/ (c <= k /\ k <= j)) /\ ((j <= l /\ l <= c) \/ (c <= l /\ l <= j))
    BY DEF Path
  <2>4. (j <= m /\ m <= c) \/ (c <= m /\ m <= j)
    BY <1>2, <1>4, <2>2, <2>3
  <2> QED
    BY <2>1, <2>4 DEF Path
<1>5. ~Silent(P) /\ Cardinality(P) <= MaxPerSide + 1
  BY DEF Reaches
<1>6. IsFiniteSet(P)
  <2>1. IsFiniteSet(1..Len(table))
    BY <1>1, FS_Interval
  <2>2. P \subseteq 1..Len(table)
    BY DEF Path, Places
  <2> QED
    BY <2>1, <2>2, FS_Subset
<1>7. \A k \in P : k \in Nat
  BY <1>1 DEF Path
<1> HIDE DEF P, Q
<1>8. ASSUME Silent(Q) PROVE FALSE
  <2>1. PICK k \in Q, l \in Q : k < l /\ (\A m \in Q : m <= k \/ m >= l) /\ Distance(k, l) > Gap
    BY <1>8 DEF Silent
  <2>2. k \in P /\ l \in P
    BY <1>3
  <2>3. ASSUME NEW m \in P, ~(m <= k \/ m >= l) PROVE FALSE
    <3>1. k < m /\ m < l
      BY <1>7, <2>2, <2>3
    <3>2. m \in Q
      BY <1>4, <3>1
    <3> QED
      BY <2>1, <2>3, <3>2
  <2>4. Silent(P)
    BY <2>1, <2>2, <2>3 DEF Silent
  <2> QED
    BY <1>5, <2>4
<1>9. Cardinality(Q) <= MaxPerSide + 1
  <2>1. Cardinality(Q) <= Cardinality(P) /\ IsFiniteSet(Q)
    BY <1>3, <1>6, FS_Subset
  <2>2. Cardinality(Q) \in Nat /\ Cardinality(P) \in Nat /\ MaxPerSide \in Nat
    BY <1>6, <2>1, FS_CardinalityType, TimelinesBounds
  <2> QED
    BY <1>5, <2>1, <2>2
<1> QED
  BY <1>8, <1>9 DEF Reaches, Q

\* A window has no holes.
IsWindow(w) == w # {} /\ w \subseteq Here /\ \A a, b \in w, j \in Here : a < j /\ j < b => j \in w
LEMMA GapTrimIsWindow ==
  ASSUME TimelineTypes, NEW s \in seeds, Around(s) # {}
  PROVE  IsWindow(GapTrim(s)) /\ (s \in Around(s) => s \in GapTrim(s))
<1> DEFINE rows == Around(s)
           c == Centre(rows, s)
           w == GapTrim(s)
<1>1. s \in Places /\ rows \subseteq Here /\ Here \subseteq Places /\ Len(table) \in Nat /\ Radius \in Nat
  BY TableIsTable, TimelinesBounds DEF Around
<1>2. c \in rows /\ (s \in rows => c = s)
  BY CentreIsAround
<1>3. w = {i \in rows : Reaches(rows, c, i)}
  BY DEF GapTrim
<1>4. \A i \in Here : i \in rows <=> Distance(i, s) <= Radius
  BY DEF Around
<1>5. \A i \in Places : i \in Nat
  BY <1>1 DEF Places
<1> HIDE DEF rows, c, w
<1>6. Reaches(rows, c, c)
  <2> DEFINE p == Path(rows, c, c)
  <2>1. p = {c}
    <3>1. \A k \in rows : (c <= k /\ k <= c) <=> k = c
      BY <1>1, <1>2, <1>5
    <3> QED
      BY <1>2, <3>1 DEF Path
  <2>2. Cardinality(p) = 1
    BY <2>1, FS_Singleton
  <2>3. ~Silent(p)
    <3>1. c \in Nat
      BY <1>1, <1>2, <1>5
    <3>2. ~(c < c)
      BY <3>1
    <3> QED
      BY <2>1, <3>2 DEF Silent
  <2>4. 1 <= MaxPerSide + 1
    BY TimelinesBounds
  <2> HIDE DEF p
  <2>5. ~Silent(p) /\ Cardinality(p) <= MaxPerSide + 1
    BY <2>2, <2>3, <2>4
  <2> QED
    BY <2>5 DEF Reaches, p
<1>7. c \in w
  BY <1>2, <1>3, <1>6
<1>8. ASSUME NEW a \in w, NEW b \in w, NEW j \in Here, a < j, j < b PROVE j \in w
  <2>1. a \in rows /\ b \in rows /\ Reaches(rows, c, a) /\ Reaches(rows, c, b)
    BY <1>3
  <2>2. a \in Places /\ b \in Places /\ j \in Places /\ c \in Places
    BY <1>1, <1>2, <2>1
  <2>3. a \in Nat /\ b \in Nat /\ j \in Nat /\ c \in Nat /\ s \in Nat
    BY <1>1, <1>5, <2>2
  <2>4. Distance(a, s) <= Radius /\ Distance(b, s) <= Radius
    BY <1>1, <1>4, <2>1
  <2>5. At(a) \in Nat /\ At(b) \in Nat /\ At(j) \in Nat /\ At(s) \in Nat
    BY <1>1, <2>2, TableIsTable
  <2>6. At(a) <= At(j) /\ At(j) <= At(b)
    BY <1>8, <2>2, <2>3, TableIsTable
  <2>7. Distance(j, s) <= Radius
    <3>1. CASE j < s
      <4>1. a < s
        BY <1>8, <2>3, <3>1
      <4>2. Distance(j, s) = At(s) - At(j) /\ Distance(a, s) = At(s) - At(a)
        BY <3>1, <4>1 DEF Distance
      <4> QED
        BY <1>1, <2>4, <2>5, <2>6, <4>2
    <3>2. CASE ~(j < s)
      <4>1. ~(b < s)
        BY <1>8, <2>3, <3>2
      <4>2. Distance(j, s) = At(j) - At(s) /\ Distance(b, s) = At(b) - At(s)
        BY <3>2, <4>1 DEF Distance
      <4> QED
        BY <1>1, <2>4, <2>5, <2>6, <4>2
    <3> QED
      BY <3>1, <3>2
  <2>8. j \in rows
    BY <1>4, <2>7
  <2>9. rows \in SUBSET Places
    BY <1>1
  <2>10. CASE j <= c
    <3>1. a <= j
      BY <1>8, <2>3
    <3>2. Reaches(rows, c, j)
      BY <1>2, <2>1, <2>8, <2>9, <2>10, <3>1, PathsShorten
    <3> QED
      BY <1>3, <2>8, <3>2
  <2>11. CASE ~(j <= c)
    <3>1. c <= j /\ j <= b
      BY <1>8, <2>3, <2>11
    <3>2. Reaches(rows, c, j)
      BY <1>2, <2>1, <2>8, <2>9, <3>1, PathsShorten
    <3> QED
      BY <1>3, <2>8, <3>2
  <2> QED
    BY <2>10, <2>11
<1>9. w # {} /\ w \subseteq Here
  BY <1>1, <1>3, <1>7
<1>10. IsWindow(w)
  BY <1>8, <1>9 DEF IsWindow
<1> QED
  BY <1>2, <1>7, <1>10 DEF w, rows
\* The ends of some rows.
LEMMA EndsAreIn ==
  ASSUME TimelineTypes, NEW r \in SUBSET Places, r # {}
  PROVE  /\ Min(r) \in r /\ Max(r) \in r /\ Min(r) \in Nat /\ Max(r) \in Nat
         /\ \A x \in r : x \in Nat /\ Min(r) <= x /\ x <= Max(r)
<1>1. Len(table) \in Nat /\ r \in SUBSET (0..Len(table)) /\ \A x \in r : x \in Nat
  <2>1. Len(table) \in Nat
    BY TableIsTable
  <2> QED
    BY <2>1 DEF Places
<1>2. Min(r) \in r /\ \A y \in r : Min(r) <= y
  BY <1>1, MinIsLeast
<1>3. Max(r) \in r /\ \A y \in r : y <= Max(r)
  BY <1>1, MaxIsGreatest
<1> QED
  BY <1>1, <1>2, <1>3

LEMMA StripFields ==
  ASSUME NEW a, NEW r
  PROVE  /\ Strip(a, r).anchors = a /\ Strip(a, r).raws = r /\ Strip(a, r).shown = Shown(r, a)
         /\ Strip(a, r).tStart = At(Min(r)) /\ Strip(a, r).tEnd = At(Max(r))
  BY Zenon DEF Strip

IsWindowing(w) == DOMAIN w \subseteq seeds /\ \A s \in DOMAIN w : IsWindow(w[s])
\* A strip is made of the windows of its anchors.
IsStrip(x, w) ==
  /\ x.anchors # {} /\ x.anchors \subseteq DOMAIN w /\ x.raws = UNION {w[s] : s \in x.anchors}
  /\ x = Strip(x.anchors, x.raws)
\* Its holes are not wider than what a merge spans.
IsWhole(raws) ==
  \A i \in Here \ raws : \A a, b \in raws : a < i /\ i < b =>
    \E c, d \in raws : c < i /\ i < d /\ At(d) - At(c) <= MergeGap
OpenTo(w, i) == {s \in DOMAIN w : Min(w[s]) <= i}
StripSet == {Strip(p[1], p[2]) : p \in (SUBSET seeds) \X (SUBSET Places)}

LEMMA StripsHaveRows ==
  ASSUME TimelineTypes, NEW w, IsWindowing(w), NEW x, IsStrip(x, w)
  PROVE  /\ x.raws # {} /\ x.raws \subseteq Here /\ x.raws \in SUBSET Places /\ x.anchors \in SUBSET seeds /\ x \in StripSet
         /\ x.tStart = At(Min(x.raws)) /\ x.tEnd = At(Max(x.raws))
<1>1. PICK s \in x.anchors : TRUE
  BY DEF IsStrip
<1>2. \A t \in x.anchors : t \in DOMAIN w /\ w[t] # {} /\ w[t] \subseteq Here
  BY DEF IsStrip, IsWindowing, IsWindow
<1>3. x.raws # {} /\ x.raws \subseteq Here
  BY <1>1, <1>2 DEF IsStrip
<1>4. x.raws \in SUBSET Places
  BY <1>3, TableIsTable
<1>5. x.anchors \in SUBSET seeds
  BY DEF IsStrip, IsWindowing
<1>6. x = Strip(x.anchors, x.raws)
  BY DEF IsStrip
<1>7. x \in StripSet
  <2> DEFINE p == <<x.anchors, x.raws>>
  <2>1. p \in (SUBSET seeds) \X (SUBSET Places) /\ p[1] = x.anchors /\ p[2] = x.raws
    BY <1>4, <1>5
  <2> HIDE DEF p
  <2>2. x = Strip(p[1], p[2])
    BY <1>6, <2>1
  <2> QED
    BY <2>1, <2>2 DEF StripSet
<1>8. Strip(x.anchors, x.raws).tStart = At(Min(x.raws)) /\ Strip(x.anchors, x.raws).tEnd = At(Max(x.raws))
  BY StripFields
<1>9. x.tStart = At(Min(x.raws)) /\ x.tEnd = At(Max(x.raws))
  BY <1>6, <1>8
<1> QED
  BY <1>3, <1>4, <1>5, <1>7, <1>9

\* The windows that begin at a row are one.
LEMMA OpenedIsWindow ==
  ASSUME TimelineTypes, NEW w, IsWindowing(w), NEW i \in Places, Openers(w, i) # {}
  PROVE  /\ IsStrip(OpenedAt(w, i), w) /\ OpenedAt(w, i).anchors = Openers(w, i)
         /\ IsWindow(OpenedAt(w, i).raws) /\ Min(OpenedAt(w, i).raws) = i
<1> DEFINE A == Openers(w, i)
           R == UNION {w[s] : s \in A}
           o == OpenedAt(w, i)
<1>1. A \subseteq DOMAIN w /\ \A s \in A : Min(w[s]) = i
  BY DEF Openers
<1>2. o = Strip(A, R)
  BY Zenon DEF OpenedAt
<1>3. o.anchors = A /\ o.raws = R
  BY <1>2, StripFields
<1>4. Here \subseteq Places /\ \A x \in Places : x \in Nat
  BY TableIsTable DEF Places
<1>5. \A s \in A : w[s] \in SUBSET Places /\ w[s] # {} /\ w[s] \subseteq Here
  BY <1>1, <1>4 DEF IsWindowing, IsWindow
<1>6. \A s \in A : i \in w[s] /\ \A x \in w[s] : i <= x
  BY <1>1, <1>5, EndsAreIn
<1> HIDE DEF A
<1>7. R \in SUBSET Places /\ R # {} /\ R \subseteq Here /\ i \in R /\ \A x \in R : i <= x
  <2>1. PICK s \in A : TRUE
    BY DEF A
  <2> QED
    BY <1>5, <1>6, <2>1
<1>8. Min(R) = i
  <2> HIDE DEF R
  <2>1. Min(R) \in R /\ Min(R) <= i /\ Min(R) \in Nat /\ i \in Nat
    BY <1>4, <1>7, EndsAreIn
  <2>2. i <= Min(R)
    BY <1>7, <2>1
  <2> QED
    BY <2>1, <2>2
<1>9. ASSUME NEW a \in R, NEW b \in R, NEW j \in Here, a < j, j < b PROVE j \in R
  <2>1. PICK s \in A : b \in w[s]
    OBVIOUS
  <2>2. i \in w[s] /\ i <= a /\ i \in Nat /\ a \in Nat /\ j \in Nat
    BY <1>4, <1>6, <1>7, <2>1
  <2>3. i < j
    BY <1>9, <2>2
  <2>4. j \in w[s]
    BY <1>1, <1>9, <2>1, <2>2, <2>3 DEF IsWindowing, IsWindow
  <2> QED
    BY <2>4
<1>10. IsWindow(R)
  BY <1>7, <1>9 DEF IsWindow
<1>11. A # {} /\ o = Strip(o.anchors, o.raws)
  BY <1>2, <1>3 DEF A
<1>12. IsStrip(o, w)
  BY <1>1, <1>3, <1>11 DEF IsStrip
<1> QED
  BY <1>3, <1>8, <1>10, <1>12 DEF A

\* Two windows that are joined leave no more than the gap between them.
LEMMA JoinIsWhole ==
  ASSUME TimelineTypes, NEW p \in SUBSET Here, p # {}, IsWhole(p), NEW r, IsWindow(r), NEW i \in Places, Min(r) = i,
         Min(p) <= i, At(i) - At(Max(p)) <= MergeGap
  PROVE  IsWhole(p \cup r)
<1> DEFINE u == p \cup r
<1>1. Here \subseteq Places /\ \A x \in Places : x \in Nat
  BY TableIsTable DEF Places
<1>2. p \in SUBSET Places /\ r \in SUBSET Places /\ r # {} /\ r \subseteq Here
  BY <1>1 DEF IsWindow
<1>3. Min(p) \in p /\ Max(p) \in p /\ \A x \in p : x \in Nat /\ Min(p) <= x /\ x <= Max(p)
  BY <1>2, EndsAreIn
<1>4. i \in r /\ \A x \in r : x \in Nat /\ i <= x
  BY <1>2, EndsAreIn
<1> SUFFICES ASSUME NEW j \in Here, j \notin u, NEW a \in u, NEW b \in u, a < j, j < b
             PROVE  \E c, d \in u : c < j /\ j < d /\ At(d) - At(c) <= MergeGap
  BY DEF IsWhole
<1>5. j \in Nat /\ a \in Nat /\ b \in Nat /\ i \in Nat /\ Min(p) \in Nat /\ Max(p) \in Nat /\ j # i /\ j # Max(p) /\ j # Min(p)
  BY <1>1, <1>3, <1>4
<1>6. CASE Max(p) < j
  <2>1. b \in r
    <3>1. CASE b \in p
      <4>1. b <= Max(p)
        BY <1>3, <3>1
      <4> QED
        BY <1>5, <1>6, <4>1
    <3> QED
      BY <3>1
  <2>2. j < i
    <3>1. CASE i < j
      <4>1. j \in r
        BY <1>4, <2>1, <3>1 DEF IsWindow
      <4> QED
        BY <4>1
    <3> QED
      BY <1>5, <3>1
  <2>3. Max(p) \in u /\ i \in u
    BY <1>3, <1>4
  <2> QED
    BY <1>6, <2>2, <2>3
<1>7. CASE ~(Max(p) < j)
  <2>1. j < Max(p)
    BY <1>5, <1>7
  <2>2. Min(p) < j
    <3>1. CASE a \in p
      <4>1. Min(p) <= a
        BY <1>3, <3>1
      <4> QED
        BY <1>5, <4>1
    <3>2. CASE a \in r
      <4>1. i <= a
        BY <1>4, <3>2
      <4> QED
        BY <1>5, <4>1
    <3> QED
      BY <3>1, <3>2
  <2>3. PICK c \in p, d \in p : c < j /\ j < d /\ At(d) - At(c) <= MergeGap
    BY <1>3, <2>1, <2>2 DEF IsWhole
  <2> QED
    BY <2>3
<1> QED
  BY <1>6, <1>7
\* The strips after the windows that begin up to a row.
IsJoined(done, w, i) ==
  /\ done \in Seq(StripSet)
  /\ \A k \in DOMAIN done : IsStrip(done[k], w) /\ IsWhole(done[k].raws) /\ done[k].anchors \subseteq OpenTo(w, i)
  /\ \A s \in OpenTo(w, i) : \E k \in DOMAIN done : s \in done[k].anchors
  /\ \A j, k \in DOMAIN done : j # k => done[j].anchors \cap done[k].anchors = {}
  /\ \A k \in 1..(Len(done) - 1) : At(Min(done[k + 1].raws)) - At(Max(done[k].raws)) > MergeGap

LEMMA OpensMore ==
  ASSUME TimelineTypes, NEW w, IsWindowing(w), NEW i \in Places
  PROVE  OpenTo(w, i) = OpenTo(w, i - 1) \cup Openers(w, i) /\ OpenTo(w, i - 1) \cap Openers(w, i) = {}
<1>1. \A s \in DOMAIN w : Min(w[s]) \in Nat
  <2> SUFFICES ASSUME NEW s \in DOMAIN w PROVE Min(w[s]) \in Nat
    OBVIOUS
  <2>1. w[s] \in SUBSET Places /\ w[s] # {}
    BY TableIsTable DEF IsWindowing, IsWindow
  <2> QED
    BY <2>1, EndsAreIn
<1>2. i \in Nat
  BY TableIsTable DEF Places
<1>3. \A x \in Nat : (x <= i <=> (x <= i - 1 \/ x = i)) /\ ~(x <= i - 1 /\ x = i)
  BY <1>2
<1> QED
  BY <1>1, <1>3 DEF OpenTo, Openers

LEMMA AppendsWindow ==
  ASSUME TimelineTypes, NEW w, IsWindowing(w), NEW i \in Places, Openers(w, i) # {}, NEW done, IsJoined(done, w, i - 1),
         done = <<>> \/ ~(OpenedAt(w, i).tStart - done[Len(done)].tEnd <= MergeGap)
  PROVE  IsJoined(Append(done, OpenedAt(w, i)), w, i)
<1> DEFINE o == OpenedAt(w, i)
           m == Len(done)
           new == Append(done, o)
<1>1. IsStrip(o, w) /\ o.anchors = Openers(w, i) /\ IsWindow(o.raws) /\ Min(o.raws) = i
  BY OpenedIsWindow
<1>2. o \in StripSet /\ o.tStart = At(i) /\ o.raws \subseteq Here
  BY <1>1, StripsHaveRows
<1>3. done \in Seq(StripSet) /\ m \in Nat /\ DOMAIN done = 1..m
  BY DEF IsJoined
<1> HIDE DEF o
<1>4. new \in Seq(StripSet) /\ Len(new) = m + 1 /\ new[m + 1] = o /\ \A k \in 1..m : new[k] = done[k]
  BY <1>2, <1>3
<1>0. m = Len(done)
  OBVIOUS
<1>5. DOMAIN new = 1..(m + 1)
  BY <1>4
<1> HIDE DEF new, m
<1>6. \A k \in DOMAIN new : k = m + 1 \/ (k \in 1..m /\ new[k] = done[k])
  BY <1>3, <1>4, <1>5
<1>7. OpenTo(w, i) = OpenTo(w, i - 1) \cup Openers(w, i) /\ OpenTo(w, i - 1) \cap Openers(w, i) = {}
  BY OpensMore
<1>8. \A k \in 1..m : IsStrip(done[k], w) /\ IsWhole(done[k].raws) /\ done[k].anchors \subseteq OpenTo(w, i - 1)
  BY <1>3 DEF IsJoined
<1>9. IsWhole(o.raws)
  BY <1>1, <1>2 DEF IsWhole, IsWindow
<1>10. \A k \in DOMAIN new : IsStrip(new[k], w) /\ IsWhole(new[k].raws) /\ new[k].anchors \subseteq OpenTo(w, i)
  BY <1>1, <1>4, <1>6, <1>7, <1>8, <1>9
<1>11. ASSUME NEW s \in OpenTo(w, i) PROVE \E k \in DOMAIN new : s \in new[k].anchors
  <2>1. CASE s \in Openers(w, i)
    <3>1. m + 1 \in DOMAIN new /\ s \in new[m + 1].anchors
      BY <1>1, <1>3, <1>4, <1>5, <2>1
    <3> QED
      BY <3>1
  <2>2. CASE s \in OpenTo(w, i - 1)
    <3>1. PICK k \in DOMAIN done : s \in done[k].anchors
      BY <2>2 DEF IsJoined
    <3>2. k \in 1..m /\ k \in DOMAIN new
      BY <1>3, <1>5
    <3> QED
      BY <1>4, <3>1, <3>2
  <2> QED
    BY <1>7, <2>1, <2>2
<1>12. ASSUME NEW j \in DOMAIN new, NEW k \in DOMAIN new, j # k PROVE new[j].anchors \cap new[k].anchors = {}
  <2>1. CASE j \in 1..m /\ k \in 1..m
    <3>1. new[j] = done[j] /\ new[k] = done[k] /\ j \in DOMAIN done /\ k \in DOMAIN done
      BY <1>3, <1>4, <2>1
    <3> QED
      BY <1>12, <3>1 DEF IsJoined
  <2>2. CASE j = m + 1
    <3>1. k \in 1..m /\ new[k] = done[k]
      BY <1>6, <1>12, <2>2
    <3> QED
      BY <1>1, <1>4, <1>7, <1>8, <2>2, <3>1
  <2>3. CASE k = m + 1
    <3>1. j \in 1..m /\ new[j] = done[j]
      BY <1>6, <1>12, <2>3
    <3> QED
      BY <1>1, <1>4, <1>7, <1>8, <2>3, <3>1
  <2> QED
    BY <1>6, <2>1, <2>2, <2>3
<1>13. ASSUME NEW k \in 1..m PROVE At(Min(new[k + 1].raws)) - At(Max(new[k].raws)) > MergeGap
  <2>0. new[k] = done[k]
    BY <1>4
  <2>1. CASE k = m
    <3>1. new[k + 1] = o /\ m \in DOMAIN done
      BY <1>3, <1>4, <2>1
    <3>2. done[m].tEnd = At(Max(done[m].raws)) /\ done[m].raws \subseteq Here /\ done[m].raws \in SUBSET Places /\ done[m].raws # {}
      BY <1>8, <2>1, StripsHaveRows
    <3>3. Max(done[m].raws) \in Places
      BY <3>2, EndsAreIn
    <3>4. At(i) \in Nat /\ At(Max(done[m].raws)) \in Nat /\ MergeGap \in Nat
      BY <3>3, TableIsTable, TimelinesBounds
    <3>5. ~(At(i) - At(Max(done[m].raws)) <= MergeGap)
      <4>1. done # <<>>
        BY <3>1
      <4>2. ~(o.tStart - done[m].tEnd <= MergeGap)
        BY <1>0, <4>1 DEF o
      <4> QED
        BY <1>2, <3>2, <4>2
    <3> HIDE DEF m
    <3>6. At(i) - At(Max(done[m].raws)) > MergeGap
      BY <3>4, <3>5
    <3> QED
      BY <1>1, <2>0, <2>1, <3>1, <3>6
  <2>2. CASE k # m
    <3>1. k \in 1..(m - 1) /\ k + 1 \in 1..m
      BY <1>3, <2>2
    <3>2. new[k + 1] = done[k + 1]
      BY <1>4, <3>1
    <3> QED
      BY <1>0, <2>0, <3>1, <3>2 DEF IsJoined
  <2> QED
    BY <2>1, <2>2
<1>14. Len(new) - 1 = m
  BY <1>3, <1>4
<1>15. IsJoined(new, w, i)
  BY <1>4, <1>10, <1>11, <1>12, <1>13, <1>14 DEF IsJoined
<1> QED
  BY <1>15 DEF new, o

LEMMA JoinsWindow ==
  ASSUME TimelineTypes, NEW w, IsWindowing(w), NEW i \in Places, Openers(w, i) # {}, NEW done, IsJoined(done, w, i - 1),
         done # <<>>, OpenedAt(w, i).tStart - done[Len(done)].tEnd <= MergeGap
  PROVE  IsJoined([done EXCEPT ![Len(done)] = Joined(done[Len(done)], OpenedAt(w, i))], w, i)
<1> DEFINE o == OpenedAt(w, i)
           m == Len(done)
           p == done[m]
           x == Joined(p, o)
           new == [done EXCEPT ![m] = x]
<1>1. IsStrip(o, w) /\ o.anchors = Openers(w, i) /\ IsWindow(o.raws) /\ Min(o.raws) = i
  BY OpenedIsWindow
<1>2. o.tStart = At(i) /\ o.raws \subseteq Here /\ o.raws \in SUBSET Places /\ o.raws # {}
  BY <1>1, StripsHaveRows
<1>3. done \in Seq(StripSet) /\ m \in Nat /\ DOMAIN done = 1..m /\ m \in 1..m
  BY DEF IsJoined
<1>4. IsStrip(p, w) /\ IsWhole(p.raws) /\ p.anchors \subseteq OpenTo(w, i - 1)
  BY <1>3 DEF IsJoined
<1>5. p.raws # {} /\ p.raws \subseteq Here /\ p.raws \in SUBSET Places /\ p.tEnd = At(Max(p.raws))
  BY <1>4, StripsHaveRows
<1>6. x = Strip(p.anchors \cup o.anchors, p.raws \cup o.raws)
  BY Zenon DEF Joined
<1>7. x.anchors = p.anchors \cup o.anchors /\ x.raws = p.raws \cup o.raws
  BY <1>6, StripFields
<1>8. At(i) - At(Max(p.raws)) <= MergeGap
  BY <1>2, <1>5
<1>9. m = Len(done) /\ p = done[m]
  OBVIOUS
<1> HIDE DEF o, p, x
<1>10. IsStrip(x, w)
  <2>1. x.anchors # {} /\ x.anchors \subseteq DOMAIN w /\ x.raws = UNION {w[s] : s \in x.anchors}
    BY <1>1, <1>4, <1>7 DEF IsStrip
  <2>2. x = Strip(x.anchors, x.raws)
    BY <1>6, <1>7
  <2> QED
    BY <2>1, <2>2 DEF IsStrip
<1>11. x \in StripSet
  BY <1>10, StripsHaveRows
<1>12. new \in Seq(StripSet) /\ Len(new) = m /\ new[m] = x /\ \A k \in 1..m : k # m => new[k] = done[k]
  <2>1. done \in [1..m -> StripSet]
    BY <1>3, <1>9
  <2>2. new \in [1..m -> StripSet]
    BY <1>11, <2>1
  <2>3. new \in Seq(StripSet) /\ Len(new) = m
    BY <1>3, <2>2
  <2> QED
    BY <1>3, <2>1, <2>3
<1>13. DOMAIN new = 1..m
  BY <1>12
<1> HIDE DEF new, m
<1>14. Min(p.raws) <= i /\ Min(p.raws) \in p.raws
  <2>1. PICK s \in p.anchors : TRUE
    BY <1>4 DEF IsStrip
  <2>2. s \in DOMAIN w /\ Min(w[s]) <= i - 1 /\ w[s] \subseteq p.raws
    BY <1>4, <2>1 DEF IsStrip, OpenTo
  <2>3. w[s] # {} /\ w[s] \in SUBSET Places
    BY <1>5, <2>2 DEF IsWindowing, IsWindow
  <2>4. Min(w[s]) \in p.raws /\ Min(w[s]) \in Nat
    BY <2>2, <2>3, EndsAreIn
  <2>5. Min(p.raws) \in p.raws /\ Min(p.raws) <= Min(w[s]) /\ Min(p.raws) \in Nat
    BY <1>5, <2>4, EndsAreIn
  <2>6. i \in Nat
    BY TableIsTable DEF Places
  <2> QED
    BY <2>2, <2>4, <2>5, <2>6
<1>15. IsWhole(x.raws)
  BY <1>1, <1>4, <1>5, <1>7, <1>8, <1>14, JoinIsWhole
<1>16. Min(x.raws) = Min(p.raws)
  <2>1. x.raws \in SUBSET Places /\ x.raws # {} /\ Min(p.raws) \in x.raws
    BY <1>2, <1>5, <1>7, <1>14
  <2>2. Min(x.raws) \in x.raws /\ Min(x.raws) <= Min(p.raws) /\ Min(x.raws) \in Nat
    BY <2>1, EndsAreIn
  <2>3. Min(p.raws) <= Min(x.raws) /\ Min(p.raws) \in Nat
    <3>1. CASE Min(x.raws) \in p.raws
      BY <1>5, <3>1, EndsAreIn
    <3>2. CASE Min(x.raws) \in o.raws
      <4>1. i <= Min(x.raws)
        BY <1>1, <1>2, <3>2, EndsAreIn
      <4>2. Min(p.raws) \in Nat /\ i \in Nat
        BY <1>5, EndsAreIn, TableIsTable DEF Places
      <4> QED
        BY <1>14, <2>2, <4>1, <4>2
    <3> QED
      BY <1>7, <2>2, <3>1, <3>2
  <2> QED
    BY <2>2, <2>3
<1>17. OpenTo(w, i) = OpenTo(w, i - 1) \cup Openers(w, i) /\ OpenTo(w, i - 1) \cap Openers(w, i) = {}
  BY OpensMore
<1>18. \A k \in 1..m : IsStrip(done[k], w) /\ IsWhole(done[k].raws) /\ done[k].anchors \subseteq OpenTo(w, i - 1)
  BY <1>3 DEF IsJoined
<1>19. \A k \in DOMAIN new : IsStrip(new[k], w) /\ IsWhole(new[k].raws) /\ new[k].anchors \subseteq OpenTo(w, i)
  <2> TAKE k \in DOMAIN new
  <2>1. CASE k = m
    <3>1. new[k] = x
      BY <1>12, <2>1
    <3>2. p.anchors \subseteq OpenTo(w, i)
      BY <1>4, <1>17
    <3>3. x.anchors \subseteq OpenTo(w, i)
      BY <1>1, <1>7, <1>17, <3>2
    <3> QED
      BY <1>10, <1>15, <3>1, <3>3
  <2>2. CASE k # m
    <3>1. k \in 1..m
      BY <1>13
    <3>2. new[k] = done[k]
      BY <1>12, <2>2, <3>1
    <3> QED
      BY <1>17, <1>18, <3>1, <3>2
  <2> QED
    BY <2>1, <2>2
<1>20. ASSUME NEW s \in OpenTo(w, i) PROVE \E k \in DOMAIN new : s \in new[k].anchors
  <2>1. CASE s \in Openers(w, i)
    <3>1. m \in DOMAIN new /\ s \in new[m].anchors
      BY <1>1, <1>3, <1>7, <1>12, <1>13, <2>1
    <3> QED
      BY <3>1
  <2>2. CASE s \in OpenTo(w, i - 1)
    <3>1. PICK k \in DOMAIN done : s \in done[k].anchors
      BY <2>2 DEF IsJoined
    <3>2. k \in 1..m /\ k \in DOMAIN new
      BY <1>3, <1>13
    <3>3. s \in new[k].anchors
      BY <1>7, <1>9, <1>12, <3>1, <3>2
    <3> QED
      BY <3>2, <3>3
  <2> QED
    BY <1>17, <2>1, <2>2
<1>21. ASSUME NEW j \in 1..m, NEW k \in 1..m, j # k PROVE new[j].anchors \cap new[k].anchors = {}
  <2>0. done[j].anchors \cap done[k].anchors = {}
    BY <1>3, <1>21 DEF IsJoined
  <2>1. CASE j # m /\ k # m
    BY <1>12, <2>0, <2>1
  <2>2. CASE j = m
    <3>1. new[j] = x /\ new[k] = done[k] /\ done[j] = p
      BY <1>9, <1>12, <1>21, <2>2
    <3> QED
      BY <1>1, <1>7, <1>17, <1>18, <2>0, <3>1
  <2>3. CASE k = m
    <3>1. new[k] = x /\ new[j] = done[j] /\ done[k] = p
      BY <1>9, <1>12, <1>21, <2>3
    <3> QED
      BY <1>1, <1>7, <1>17, <1>18, <2>0, <3>1
  <2> QED
    BY <2>1, <2>2, <2>3
<1>22. ASSUME NEW k \in 1..(m - 1) PROVE At(Min(new[k + 1].raws)) - At(Max(new[k].raws)) > MergeGap
  <2>1. k \in 1..m /\ k # m /\ k + 1 \in 1..m
    BY <1>3
  <2>2. new[k] = done[k] /\ Min(new[k + 1].raws) = Min(done[k + 1].raws)
    BY <1>9, <1>12, <1>16, <2>1
  <2>3. At(Min(done[k + 1].raws)) - At(Max(done[k].raws)) > MergeGap
    BY <1>9 DEF IsJoined
  <2> QED
    BY <2>2, <2>3
<1>23. IsJoined(new, w, i)
  BY <1>12, <1>13, <1>19, <1>20, <1>21, <1>22 DEF IsJoined
<1> QED
  BY <1>23 DEF new, x, p, o, m

MergeStep(done, w, i) == IF Openers(w, i) = {} THEN done ELSE MergeWindow(done, OpenedAt(w, i))

LEMMA JoinStep ==
  ASSUME TimelineTypes, NEW w, IsWindowing(w), NEW i \in Places, NEW done, IsJoined(done, w, i - 1)
  PROVE  IsJoined(MergeStep(done, w, i), w, i)
<1>1. CASE Openers(w, i) = {}
  <2>1. OpenTo(w, i) = OpenTo(w, i - 1)
    BY <1>1, OpensMore
  <2>2. IsJoined(done, w, i)
    BY <2>1 DEF IsJoined
  <2> QED
    BY <1>1, <2>2 DEF MergeStep
<1>2. CASE Openers(w, i) # {} /\ done # <<>> /\ OpenedAt(w, i).tStart - done[Len(done)].tEnd <= MergeGap
  <2>1. MergeStep(done, w, i) = [done EXCEPT ![Len(done)] = Joined(done[Len(done)], OpenedAt(w, i))]
    BY <1>2, Zenon DEF MergeStep, MergeWindow
  <2>2. Openers(w, i) # {} /\ done # <<>> /\ OpenedAt(w, i).tStart - done[Len(done)].tEnd <= MergeGap
    BY <1>2
  <2>3. IsJoined([done EXCEPT ![Len(done)] = Joined(done[Len(done)], OpenedAt(w, i))], w, i)
    BY <2>2, JoinsWindow
  <2> QED
    BY <2>1, <2>3, Zenon
<1>3. CASE Openers(w, i) # {} /\ ~(done # <<>> /\ OpenedAt(w, i).tStart - done[Len(done)].tEnd <= MergeGap)
  <2>1. MergeStep(done, w, i) = Append(done, OpenedAt(w, i))
    BY <1>3, Zenon DEF MergeStep, MergeWindow
  <2>2. done = <<>> \/ ~(OpenedAt(w, i).tStart - done[Len(done)].tEnd <= MergeGap)
    BY <1>3
  <2>3. Openers(w, i) # {}
    BY <1>3
  <2> QED
    BY <2>1, <2>2, <2>3, AppendsWindow
<1> QED
  BY <1>1, <1>2, <1>3

LEMMA MergeStepIsStrips ==
  ASSUME TimelineTypes, NEW w, IsWindowing(w), NEW i \in Places, NEW done \in Seq(StripSet)
  PROVE  MergeStep(done, w, i) \in Seq(StripSet)
<1>1. CASE Openers(w, i) = {}
  BY <1>1 DEF MergeStep
<1>2. CASE Openers(w, i) # {}
  <2> DEFINE o == OpenedAt(w, i)
             m == Len(done)
             p == done[m]
             x == Joined(p, o)
  <2>1. o \in StripSet /\ o.anchors \in SUBSET seeds /\ o.raws \in SUBSET Places
    BY <1>2, OpenedIsWindow, StripsHaveRows
  <2>2. Append(done, o) \in Seq(StripSet)
    <3> HIDE DEF o
    <3> QED
      BY <2>1
  <2>3. ASSUME done # <<>> PROVE [done EXCEPT ![m] = x] \in Seq(StripSet)
    <3>1. m \in Nat /\ m \in 1..m /\ done \in [1..m -> StripSet]
      BY <2>3
    <3>2. p \in StripSet
      BY <3>1
    <3> HIDE DEF p
    <3>3. PICK q \in (SUBSET seeds) \X (SUBSET Places) : p = Strip(q[1], q[2])
      BY <3>2 DEF StripSet
    <3>4. p.anchors \in SUBSET seeds /\ p.raws \in SUBSET Places
      BY <3>3, StripFields
    <3>5. x \in StripSet
      <4>1. x = Strip(p.anchors \cup o.anchors, p.raws \cup o.raws)
        BY Zenon DEF Joined
      <4>2. ASSUME NEW a \in SUBSET seeds, NEW r \in SUBSET Places PROVE Strip(a, r) \in StripSet
        <5> DEFINE pair == <<a, r>>
        <5>1. pair \in (SUBSET seeds) \X (SUBSET Places) /\ pair[1] = a /\ pair[2] = r
          OBVIOUS
        <5> HIDE DEF pair
        <5>2. Strip(a, r) = Strip(pair[1], pair[2])
          BY <5>1
        <5> QED
          BY <5>1, <5>2, Zenon DEF StripSet
      <4> HIDE DEF x, o
      <4> QED
        BY <2>1, <3>4, <4>1, <4>2
    <3> HIDE DEF x, m
    <3>6. [done EXCEPT ![m] = x] \in [1..m -> StripSet]
      BY <3>1, <3>5
    <3> QED
      BY <3>1, <3>6
  <2>4. MergeStep(done, w, i) = IF done # <<>> /\ o.tStart - p.tEnd <= MergeGap THEN [done EXCEPT ![m] = x] ELSE Append(done, o)
    BY <1>2, Zenon DEF MergeStep, MergeWindow
  <2> HIDE DEF o, m, p, x
  <2> QED
    BY <2>2, <2>3, <2>4
<1> QED
  BY <1>1, <1>2

\* What the merge makes of all windows.
LEMMA MergedIsJoined ==
  ASSUME TimelineTypes, NEW w, IsWindowing(w)
  PROVE  IsJoined(Merged(w), w, Len(table))
<1> DEFINE n == Len(table)
           D == Seq(StripSet)
           g == [p \in D \X (1..n) |-> MergeStep(p[1], w, p[2])]
           d == <<>>
           IsIt(h) == h = [i \in 0..n |-> IF i = 0 THEN d
                                          ELSE IF Openers(w, i) = {} THEN h[i - 1] ELSE MergeWindow(h[i - 1], OpenedAt(w, i))]
<1>1. n \in Nat /\ d \in D /\ 1..n = Places
  BY TableIsTable DEF Places
<1>3. \A p \in D \X (1..n) : MergeStep(p[1], w, p[2]) \in D
  <2> SUFFICES ASSUME NEW p \in D \X (1..n) PROVE MergeStep(p[1], w, p[2]) \in D
    OBVIOUS
  <2>1. p[1] \in D /\ p[2] \in Places
    BY <1>1
  <2> QED
    BY <2>1, MergeStepIsStrips
<1>4. g \in [D \X (1..n) -> D]
  <2> HIDE DEF D
  <2> QED
    BY <1>3
<1>5. \A p \in D \X (1..n) : g[p] = MergeStep(p[1], w, p[2])
  OBVIOUS
<1> HIDE DEF g
<1>6. PICK f \in [0..n -> D] : f[0] = d /\ \A k \in 1..n : f[k] = g[<<f[k - 1], k>>]
  <2> HIDE DEF d, n, D
  <2>1. \E f : IsRange(f, n, D, d, g)
    BY <1>1, <1>4, Ranging
  <2> QED
    BY <2>1 DEF IsRange
<1>7. \A k \in 1..n : f[k] = MergeStep(f[k - 1], w, k)
  <2> SUFFICES ASSUME NEW k \in 1..n PROVE f[k] = MergeStep(f[k - 1], w, k)
    OBVIOUS
  <2>0. k - 1 \in 0..n
    BY <1>1
  <2> HIDE DEF D
  <2>1. <<f[k - 1], k>> \in D \X (1..n)
    BY <1>6, <2>0
  <2> QED
    BY <1>5, <1>6, <2>1
<1>8. IsIt(f)
  <2>1. f = [k \in 0..n |-> f[k]]
    BY <1>6
  <2>2. \A k \in 0..n : k # 0 => k \in 1..n
    BY <1>1
  <2> HIDE DEF d
  <2>3. \A k \in 0..n : f[k] = IF k = 0 THEN d
                               ELSE IF Openers(w, k) = {} THEN f[k - 1] ELSE MergeWindow(f[k - 1], OpenedAt(w, k))
    BY <1>6, <1>7, <2>2, Zenon DEF MergeStep
  <2> QED
    BY <2>1, <2>3, Zenon
<1>9. PICK h : IsIt(h) /\ Merged(w) = h[n]
  BY <1>8, Zenon DEF Merged
<1>10. h[0] = d /\ \A k \in 1..n : h[k] = MergeStep(h[k - 1], w, k)
  <2>1. \A k \in 0..n : h[k] = IF k = 0 THEN d
                               ELSE IF Openers(w, k) = {} THEN h[k - 1] ELSE MergeWindow(h[k - 1], OpenedAt(w, k))
    BY <1>9, Zenon
  <2>2. 0 \in 0..n /\ \A k \in 1..n : k \in 0..n /\ k # 0
    BY <1>1
  <2> HIDE DEF d
  <2> QED
    BY <2>1, <2>2, Zenon DEF MergeStep
<1> DEFINE T == {k \in 0..n : IsJoined(h[k], w, k)}
<1>11. 0 \in T
  <2>1. Len(<<>>) = 0 /\ <<>> \in Seq(StripSet) /\ DOMAIN <<>> = {} /\ 1..(0 - 1) = {}
    OBVIOUS
  <2>2. OpenTo(w, 0) = {}
    <3>1. ASSUME NEW s \in DOMAIN w PROVE ~(Min(w[s]) <= 0)
      <4>1. w[s] # {} /\ w[s] \in SUBSET Places
        BY TableIsTable DEF IsWindowing, IsWindow
      <4>2. Min(w[s]) \in Places
        BY <4>1, EndsAreIn
      <4> QED
        BY <1>1, <4>2
    <3> QED
      BY <3>1 DEF OpenTo
  <2>3. IsJoined(<<>>, w, 0)
    BY <2>1, <2>2 DEF IsJoined
  <2> QED
    BY <1>1, <1>10, <2>3
<1>12. ASSUME NEW k \in 0..n, k \in T, k < n PROVE k + 1 \in T
  <2>1. k + 1 \in Places /\ k + 1 \in 1..n /\ k + 1 \in 0..n /\ (k + 1) - 1 = k
    BY <1>1, <1>12
  <2>2. h[k + 1] = MergeStep(h[k], w, k + 1)
    BY <1>10, <2>1
  <2>3. IsJoined(h[k], w, (k + 1) - 1)
    BY <1>12, <2>1
  <2>4. IsJoined(MergeStep(h[k], w, k + 1), w, k + 1)
    BY <2>1, <2>3, JoinStep
  <2> QED
    BY <2>1, <2>2, <2>4
<1>13. n \in T
  <2> HIDE DEF T, n
  <2>1. 0..n \subseteq T
    BY <1>1, <1>11, <1>12, StepByStep
  <2> QED
    BY <1>1, <2>1
<1> QED
  BY <1>9, <1>13

\* The windows of the seeds.
LEMMA WindowsAreWindowing ==
  ASSUME TimelineTypes
  PROVE  /\ IsWindowing(Windows) /\ DOMAIN Windows = {x \in seeds : Around(x) # {}}
         /\ \A s \in DOMAIN Windows : s \in Around(s) => s \in Windows[s]
<1>1. DOMAIN Windows = {x \in seeds : Around(x) # {}} /\ \A s \in DOMAIN Windows : Windows[s] = GapTrim(s)
  BY Zenon DEF Windows
<1>2. \A s \in DOMAIN Windows : s \in seeds /\ Around(s) # {}
  BY <1>1
<1> QED
  BY <1>1, <1>2, GapTrimIsWindow DEF IsWindowing

LEMMA StripsAreShown ==
  ASSUME TimelineTypes, NEW w, IsWindowing(w), NEW x, IsStrip(x, w)
  PROVE  IsShown(x.shown, x.raws, x.anchors)
<1>1. x.raws \in SUBSET Places /\ x = Strip(x.anchors, x.raws)
  BY StripsHaveRows DEF IsStrip
<1>2. x.shown = Shown(x.raws, x.anchors)
  BY <1>1, StripFields
<1> QED
  BY <1>1, <1>2, TableIsTable, ShownIsTrue DEF Places

LEMMA AllAreOpen ==
  ASSUME TimelineTypes, NEW w, IsWindowing(w)
  PROVE  OpenTo(w, Len(table)) = DOMAIN w
<1>1. ASSUME NEW s \in DOMAIN w PROVE Min(w[s]) <= Len(table)
  <2>1. w[s] # {} /\ w[s] \in SUBSET Places
    BY TableIsTable DEF IsWindowing, IsWindow
  <2>2. Min(w[s]) \in Places
    BY <2>1, EndsAreIn
  <2> QED
    BY <2>2, TableIsTable DEF Places
<1> QED
  BY <1>1 DEF OpenTo

\* The promises of a timeline, of any strips.
Seen(st) ==
  \A s \in {x \in seeds : Around(x) # {}} :
    \E k \in DOMAIN st :
      /\ s \in st[k].anchors
      /\ \A j \in DOMAIN st \ {k} : s \notin st[j].anchors
      /\ s \in Around(s) => \E e \in DOMAIN st[k].shown : st[k].shown[e].ids = {s} /\ st[k].shown[e].kind = "row"
Apart(st) ==
  /\ \A k \in 1..(Len(st) - 1) : At(Min(st[k + 1].raws)) - At(Max(st[k].raws)) > MergeGap
  /\ \A k \in DOMAIN st :
       /\ ShowsIds(st[k]) = st[k].raws
       /\ \A a, b \in DOMAIN st[k].shown : a < b => Max(st[k].shown[a].ids) < Min(st[k].shown[b].ids)
Merging(st) ==
  \A k \in DOMAIN st : \A i \in Here \ st[k].raws :
    (\E a, b \in st[k].raws : a < i /\ i < b) =>
      Distance(Max({a \in st[k].raws : a < i}), Min({b \in st[k].raws : b > i})) <= MergeGap

LEMMA AnchorsSeen ==
  ASSUME TimelineTypes, NEW st, IsJoined(st, Windows, Len(table))
  PROVE  Seen(st)
<1>1. IsWindowing(Windows) /\ DOMAIN Windows = {x \in seeds : Around(x) # {}} /\ OpenTo(Windows, Len(table)) = DOMAIN Windows
  BY WindowsAreWindowing, AllAreOpen
<1> SUFFICES ASSUME NEW s \in {x \in seeds : Around(x) # {}}
             PROVE  \E k \in DOMAIN st :
                      /\ s \in st[k].anchors
                      /\ \A j \in DOMAIN st \ {k} : s \notin st[j].anchors
                      /\ s \in Around(s) => \E e \in DOMAIN st[k].shown :
                           st[k].shown[e].ids = {s} /\ st[k].shown[e].kind = "row"
  BY DEF Seen
<1>2. s \in DOMAIN Windows
  BY <1>1
<1>3. PICK k \in DOMAIN st : s \in st[k].anchors
  BY <1>1, <1>2 DEF IsJoined
<1>4. \A j \in DOMAIN st \ {k} : s \notin st[j].anchors
  <2>1. \A j \in DOMAIN st : j # k => st[j].anchors \cap st[k].anchors = {}
    BY DEF IsJoined
  <2> QED
    BY <1>3, <2>1
<1>5. ASSUME s \in Around(s) PROVE \E e \in DOMAIN st[k].shown : st[k].shown[e].ids = {s} /\ st[k].shown[e].kind = "row"
  <2>1. IsStrip(st[k], Windows)
    BY DEF IsJoined
  <2>2. s \in Windows[s]
    BY <1>2, <1>5, WindowsAreWindowing
  <2>3. s \in st[k].raws
    BY <1>3, <2>1, <2>2 DEF IsStrip
  <2>4. IsShown(st[k].shown, st[k].raws, st[k].anchors)
    BY <1>1, <2>1, StripsAreShown
  <2> QED
    BY <1>3, <2>3, <2>4 DEF IsShown
<1> QED
  BY <1>3, <1>4, <1>5

LEMMA StripsApart ==
  ASSUME TimelineTypes, NEW st, IsJoined(st, Windows, Len(table))
  PROVE  Apart(st)
<1>1. \A k \in 1..(Len(st) - 1) : At(Min(st[k + 1].raws)) - At(Max(st[k].raws)) > MergeGap
  BY DEF IsJoined
<1>2. ASSUME NEW k \in DOMAIN st
      PROVE  /\ ShowsIds(st[k]) = st[k].raws
             /\ \A a, b \in DOMAIN st[k].shown : a < b => Max(st[k].shown[a].ids) < Min(st[k].shown[b].ids)
  <2> DEFINE x == st[k]
             shown == x.shown
  <2>1. IsStrip(x, Windows) /\ IsWindowing(Windows)
    BY WindowsAreWindowing DEF IsJoined
  <2>2. IsShown(shown, x.raws, x.anchors) /\ x.raws \in SUBSET Places
    BY <2>1, StripsAreShown, StripsHaveRows
  <2>0. ShowsIds(x) = UNION {shown[e].ids : e \in DOMAIN shown}
    BY DEF ShowsIds
  <2> HIDE DEF x, shown
  <2>3. DOMAIN shown = 1..Len(shown) /\ IdsIn(shown, 1, Len(shown)) = x.raws /\ InLine(shown)
    BY <2>2 DEF IsShown, IsShow
  <2>4. ShowsIds(x) = x.raws
    BY <2>0, <2>3 DEF IdsIn
  <2>5. \A e \in DOMAIN shown : shown[e].ids # {} /\ shown[e].ids \in SUBSET Places
    <3>1. \A e \in DOMAIN shown : shown[e].ids # {}
      BY <2>2 DEF IsShown, IsShow
    <3>2. \A e \in DOMAIN shown : shown[e].ids \subseteq x.raws
      BY <2>3 DEF IdsIn
    <3> QED
      BY <2>2, <3>1, <3>2
  <2>6. ASSUME NEW a \in DOMAIN shown, NEW b \in DOMAIN shown, a < b PROVE Max(shown[a].ids) < Min(shown[b].ids)
    <3>1. Max(shown[a].ids) \in shown[a].ids /\ Min(shown[b].ids) \in shown[b].ids
      BY <2>5, EndsAreIn
    <3> QED
      BY <2>3, <2>6, <3>1 DEF InLine
  <2> QED
    BY <2>4, <2>6 DEF x, shown
<1> QED
  BY <1>1, <1>2 DEF Apart

LEMMA WholeMeansJoined ==
  ASSUME TimelineTypes, NEW raws \in SUBSET Places, IsWhole(raws), NEW i \in Here \ raws,
         NEW u \in raws, NEW v \in raws, u < i, i < v
  PROVE  Distance(Max({a \in raws : a < i}), Min({b \in raws : b > i})) <= MergeGap
<1> DEFINE L == {a \in raws : a < i}
           H == {b \in raws : b > i}
           A == Max(L)
           B == Min(H)
<1>0. i \in Places /\ i \in Nat
  BY TableIsTable DEF Places
<1>1. u \in L /\ v \in H /\ L \in SUBSET Places /\ H \in SUBSET Places
  BY <1>0 DEF Places
<1>2. PICK c \in raws, d \in raws : c < i /\ i < d /\ At(d) - At(c) <= MergeGap
  BY DEF IsWhole
<1>3. c \in L /\ d \in H
  BY <1>0, <1>2 DEF Places
<1>4. (\A a \in L : a \in raws /\ a < i) /\ \A b \in H : b \in raws /\ i < b
  BY <1>0 DEF Places
<1> HIDE DEF L, H
<1>5. A \in L /\ c <= A /\ A \in Nat
  BY <1>1, <1>3, EndsAreIn
<1>6. B \in H /\ B <= d /\ B \in Nat
  BY <1>1, <1>3, EndsAreIn
<1> HIDE DEF A, B
<1>7. A \in Places /\ B \in Places /\ c \in Places /\ d \in Places
  BY <1>1, <1>5, <1>6
<1>8. A < i /\ i < B
  BY <1>4, <1>5, <1>6
<1>9. A < B
  BY <1>0, <1>5, <1>6, <1>8
<1>10. Distance(A, B) = At(B) - At(A)
  BY <1>9 DEF Distance
<1>11. At(c) <= At(A) /\ At(B) <= At(d) /\ At(c) \in Nat /\ At(A) \in Nat /\ At(B) \in Nat /\ At(d) \in Nat
  BY <1>5, <1>6, <1>7, TableIsTable
<1>12. At(B) - At(A) <= MergeGap
  BY <1>2, <1>11, TimelinesBounds
<1>13. Distance(A, B) <= MergeGap
  BY <1>10, <1>12
<1> QED
  BY <1>13 DEF A, B, L, H

LEMMA HolesMerge ==
  ASSUME TimelineTypes, NEW st, IsJoined(st, Windows, Len(table))
  PROVE  Merging(st)
<1> SUFFICES ASSUME NEW k \in DOMAIN st, NEW i \in Here \ st[k].raws,
                    NEW a \in st[k].raws, NEW b \in st[k].raws, a < i, i < b
             PROVE  Distance(Max({u \in st[k].raws : u < i}), Min({v \in st[k].raws : v > i})) <= MergeGap
  BY DEF Merging
<1>1. IsStrip(st[k], Windows) /\ IsWhole(st[k].raws) /\ IsWindowing(Windows)
  BY WindowsAreWindowing DEF IsJoined
<1>2. st[k].raws \in SUBSET Places
  BY <1>1, StripsHaveRows
<1> QED
  BY <1>1, <1>2, WholeMeansJoined

LEMMA MergedIsTrue ==
  ASSUME TimelineTypes
  PROVE  Seen(Merged(Windows)) /\ Apart(Merged(Windows)) /\ Merging(Merged(Windows))
<1>1. IsJoined(Merged(Windows), Windows, Len(table))
  BY WindowsAreWindowing, MergedIsJoined
<1> QED
  BY <1>1, AnchorsSeen, StripsApart, HolesMerge

TimelineInv == TimelineTypes /\ TimelineIsTrue

\* A timeline shows every anchor, in strips apart, whatever the lake did between
\* the search and the timeline step.
THEOREM TimelinesStayTrue == TimelinesSpec => []TimelineIsTrue
<1>1. TimelinesInit => TimelineInv
  <2> SUFFICES ASSUME TimelinesInit PROVE TimelineInv
    OBVIOUS
  <2>1. Len(table) \in Nat
    BY TimelinesBounds DEF TimelinesInit
  <2>2. landed \in 0..Len(table)
    BY <2>1 DEF TimelinesInit
  <2>3. step = "search"
    BY DEF TimelinesInit
  <2> QED
    BY <2>2, <2>3 DEF TimelinesInit, TimelineInv, TimelineTypes, TimelineIsTrue
<1>2. TimelineInv /\ [TimelinesNext]_timelineVars => TimelineInv'
  <2> SUFFICES ASSUME TimelineInv, [TimelinesNext]_timelineVars PROVE TimelineInv'
    OBVIOUS
  <2>0. TimelineTypes /\ Len(table) \in Nat
    BY TableIsTable DEF TimelineInv
  <2>1. CASE Written
    <3>1. landed' \in 0..Len(table) /\ 1..landed \subseteq 1..landed'
      BY <2>0, <2>1 DEF Written, TimelineTypes
    <3>2. TimelineTypes'
      BY <2>0, <2>1, <3>1 DEF Written, TimelineTypes
    <3>3. step' = "timeline"
      BY <2>1 DEF Written
    <3> QED
      BY <3>2, <3>3 DEF TimelineInv, TimelineIsTrue
  <2>2. CASE Timeline
    <3>1. TimelineTypes' /\ strips' = Merged(Windows) /\ UNCHANGED <<table, landed, expired, seeds>>
      BY <2>0, <2>2 DEF Timeline, TimelineTypes
    <3>2. Seen(strips') /\ Apart(strips') /\ Merging(strips')
      BY <2>0, <3>1, MergedIsTrue
    <3>3. AnchorsAreSeen'
      BY <3>1, <3>2 DEF Seen, AnchorsAreSeen, Around, Here, LakeRows, Distance, At
    <3>4. StripsAreApart'
      BY <3>1, <3>2 DEF Apart, StripsAreApart, At
    <3>5. HolesAreMerges'
      BY <3>1, <3>2 DEF Merging, HolesAreMerges, Here, LakeRows, Distance, At
    <3> QED
      BY <3>1, <3>3, <3>4, <3>5 DEF TimelineInv, TimelineIsTrue
  <2>3. ASSUME NEW i \in LakeRows, Expires(i) PROVE TimelineInv'
    <3>1. TimelineTypes'
      BY <2>0, <2>3 DEF Expires, TimelineTypes, LakeRows
    <3>2. step' = "timeline"
      BY <2>3 DEF Expires
    <3> QED
      BY <3>1, <3>2 DEF TimelineInv, TimelineIsTrue
  <2>4. ASSUME NEW found \in SUBSET LakeRows, Search(found) PROVE TimelineInv'
    <3>1. TimelineTypes'
      BY <2>0, <2>4 DEF Search, TimelineTypes, LakeRows
    <3>2. step' = "timeline"
      BY <2>4 DEF Search
    <3> QED
      BY <3>1, <3>2 DEF TimelineInv, TimelineIsTrue
  <2>5. CASE UNCHANGED timelineVars
    <3>1. UNCHANGED <<table, landed, expired, step, seeds, strips>>
      BY <2>5 DEF timelineVars
    <3>2. TimelineTypes'
      BY <2>0, <3>1 DEF TimelineTypes
    <3>3. AnchorsAreSeen' = AnchorsAreSeen
      BY <3>1 DEF AnchorsAreSeen, Around, Here, LakeRows, Distance, At
    <3>4. StripsAreApart' = StripsAreApart
      BY <3>1 DEF StripsAreApart, At
    <3>5. HolesAreMerges' = HolesAreMerges
      BY <3>1 DEF HolesAreMerges, Here, LakeRows, Distance, At
    <3> QED
      BY <3>1, <3>2, <3>3, <3>4, <3>5 DEF TimelineInv, TimelineIsTrue
  <2> QED
    BY <2>1, <2>2, <2>3, <2>4, <2>5 DEF TimelinesNext
<1>3. TimelineInv => TimelineIsTrue
  BY DEF TimelineInv
<1> QED
  BY <1>1, <1>2, <1>3, PTL DEF TimelinesSpec

\* What is summed up is true: the strips of timelines, the drafts of summaries
\* and their centroids, each by the specification of its part.
THEOREM StripsStayTrue == TimelinesSpec /\ CentroidsSpec /\ DraftersSpec => []StripsAreTrue
<1>1. TimelineIsTrue /\ CentroidsAreTrue /\ DraftsAreTrue => StripsAreTrue
  BY DEF StripsAreTrue
<1> QED
  BY <1>1, TimelinesStayTrue, CentroidsStayTrue, DraftsStayTrue, PTL
=============================================================================
