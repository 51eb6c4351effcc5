------------------------------ MODULE Routines ------------------------------
(***************************************************************************)
(* One routine: its specification as a log of rows in the delta store      *)
(* (api/routines.py), the requests of its operators (api/routes/           *)
(* routines.py) and the scheduler that fires it (api/routine_scheduler.py).*)
(* Routines share nothing but the poll that looks at each in turn.         *)
(*                                                                         *)
(* Time is a counter and a cron expression the set of its moments.  A      *)
(* request is a read of the newest row followed by a write computed from   *)
(* it; other requests, the scheduler and a restart come in between.        *)
(***************************************************************************)
EXTENDS Integers, Sequences, FiniteSets, FiniteSetsExt

CONSTANTS
  Users,     \* operators' requests that can be under way at once
  Cron,      \* the scheduler's task
  Bodies,    \* prompts
  Workspaces,\* workspaces, "none" among them
  Forms,     \* the specifications a create may ask for
  Patches,   \* the fields an update may set, with their values
  Horizon,   \* how far ahead _parse_cron_next looks (8 days)
  Grace,     \* 60 seconds before boot
  MaxTime,   \* bound: the clock
  MaxAsked,  \* bound: requests of operators
  MaxFaults  \* bound: writes that fail, cold starts, restarts

Actors == Users \cup {Cron}
Fields == {"body", "ws", "cron", "enabled", "single", "deleted"}

\* A row of the specification: prompt, workspace, the moments of its cron
\* expression, and its flags.
Row == [body : Bodies, ws : Workspaces, cron : SUBSET (1..MaxTime),
        enabled : BOOLEAN, single : BOOLEAN, deleted : BOOLEAN]
Blank == [body |-> "none", ws |-> "none", cron |-> {},
          enabled |-> FALSE, single |-> FALSE, deleted |-> FALSE]

\* _merge_meta(): the fields of the request over those of the row read.
Merge(patch, row) == [f \in Fields |-> IF f \in DOMAIN patch THEN patch[f] ELSE row[f]]

\* What _parse_cron_next() and the forms accept: a form asks for no deleted routine,
\* an update leaves a routine's deletion alone.
ASSUME RoutinesAssumption ==
  /\ Cron \notin Users
  /\ {Horizon, Grace, MaxAsked, MaxFaults} \subseteq Nat /\ MaxTime \in Nat \ {0}
  /\ "none" \in Bodies \cap Workspaces
  /\ \A form \in Forms : form \in Row /\ ~form.deleted
  /\ \A patch \in Patches, row \in Row :
       Merge(patch, row) \in Row /\ Merge(patch, row).deleted = row.deleted

VARIABLES
  specs,     \* the spec rows of the routine, oldest first
  clock,     \* the time
  call,      \* what each actor is in the middle of
  lastFire,  \* _last_fire_at of the routine, 0 if it is not in the dict
  boot,      \* _boot_time
  tickAt,    \* the time of the newest routine-tick row, 0 if there is none
  thread,    \* the fires whose message is in the thread
  fires,     \* history: the fires handed to the puddle
  asked,     \* requests so far (bounds the operators)
  faults,    \* things gone wrong so far (bounds the environment)
  excused    \* history: which writes of a fire went wrong

history == <<asked, faults, excused>>
routineVars == <<specs, clock, call, lastFire, boot, tickAt, thread, fires, history>>

None == 0

\* An actor between two awaits: what it does next, the row it has read (its
\* place in specs), the row it will write, its fire, and what the scheduler
\* has read: the row, if it is single_fire, the moment it is due, the clock.
NoCall == [pc |-> "idle", read |-> None, new |-> Blank, fire |-> None,
         seen |-> None, single |-> FALSE, due |-> None, now |-> None]

Max2(a, b) == IF a > b THEN a ELSE b

\* next_fire_after(): the first moment after the pivot, if it is near enough.
NextFire(cron, pivot) ==
  LET ahead == {m \in cron : pivot < m /\ m <= pivot + Horizon}
  IN  IF ahead = {} THEN None ELSE Min(ahead)

\* get_latest_spec(): the place of the newest row.
NewestSpec == Len(specs)
Live == NewestSpec # None /\ ~specs[NewestSpec].deleted

RoutinesInit ==
  /\ specs = << >> /\ clock = 1
  /\ call = [a \in Actors |-> IF a = Cron THEN [NoCall EXCEPT !.pc = "hydrate"] ELSE NoCall]
  /\ lastFire = None /\ boot = 1 /\ tickAt = None
  /\ thread = {} /\ fires = << >> /\ asked = 0 /\ faults = 0 /\ excused = {}

Fault == faults < MaxFaults /\ faults' = faults + 1

GoesTo(a, pc) == call' = [call EXCEPT ![a].pc = pc]

\* Where an actor goes when its request is answered: the scheduler sleeps.
Done(a) == call' = [call EXCEPT ![a] = NoCall]

-----------------------------------------------------------------------------
(* Writing a specification.                                                *)

\* The tags of a row hold those of a row with workspace ws, or with none.
HasTags(row, ws) == ws = "none" \/ row.ws = ws

\* The duplicate check of the store: the newest row with (at least) the same
\* tags has the same content.
Repeats(row) ==
  LET alike == {i \in 1..Len(specs) : HasTags(specs[i], row.ws)}
  IN  alike # {} /\ specs[CHOOSE i \in alike : \A j \in alike : j <= i] = row

\* Variant: a row is dropped when the routine has changed since it was read.
WriteSpecIfUnchanged(a) ==
  /\ call[a].pc = "write"
  /\ specs' = IF call[a].read = NewestSpec THEN Append(specs, call[a].new) ELSE specs
  /\ Done(a)
  /\ UNCHANGED <<clock, lastFire, boot, tickAt, thread, fires, history>>

\* _write_spec(): either the row is appended or it is silently dropped.
WriteSpec(a) ==
  /\ call[a].pc = "write"
  /\ IF Repeats(call[a].new) THEN UNCHANGED specs
     ELSE specs' = Append(specs, call[a].new)
  /\ Done(a)
  /\ UNCHANGED <<clock, lastFire, boot, tickAt, thread, fires, history>>

\* The write raises: the request is answered with an error, the scheduler
\* prints it.
WriteFails(a) ==
  /\ call[a].pc = "write"
  /\ Fault
  /\ Done(a)
  /\ excused' = excused \cup (IF a = Cron THEN {"tomb"} ELSE {})
  /\ UNCHANGED <<specs, clock, lastFire, boot, tickAt, thread, fires, asked>>

\* An operator's request begins with a read of the newest row.
Ask(u, request) ==
  /\ call[u].pc = "idle"
  /\ asked < MaxAsked /\ asked' = asked + 1
  /\ call' = [call EXCEPT ![u] = request]
  /\ UNCHANGED <<specs, clock, lastFire, boot, tickAt, thread, fires, faults, excused>>

Writing(row) == [NoCall EXCEPT !.pc = "write", !.read = NewestSpec, !.new = row]

\* validate_cron(): no schedule, or one with a moment within the horizon.
ValidCron(cron) == cron = {} \/ NextFire(cron, clock) # None

\* create(): refused while the routine exists.
Create(u, form) ==
  /\ ~Live
  /\ ValidCron(form.cron)
  /\ Ask(u, Writing(form))

\* update(): refused when there is nothing to update.
Update(u, patch) ==
  /\ Live
  /\ "cron" \in DOMAIN patch => ValidCron(patch.cron)
  /\ Ask(u, Writing(Merge(patch, specs[NewestSpec])))

Tombstone == [specs[NewestSpec] EXCEPT !.deleted = TRUE, !.body = "none"]

\* soft_delete(): a row that says deleted, with an empty body.
Delete(u) ==
  /\ Live
  /\ Ask(u, Writing(Tombstone))

-----------------------------------------------------------------------------
(* Firing.                                                                 *)

\* fire() reads the newest row, whatever the scheduler read before; it does
\* not look at enabled.
FireNow(u) ==
  /\ Live
  /\ Ask(u, [NoCall EXCEPT !.pc = "intent", !.read = NewestSpec])

\* write_intent() puts the prompt into the puddle.
PutIntent(a) ==
  /\ call[a].pc = "intent"
  /\ fires' = Append(fires, [by |-> a, due |-> call[a].due, seen |-> call[a].seen, at |-> None])
  /\ call' = [call EXCEPT ![a].pc = "tick", ![a].fire = Len(fires')]
  /\ UNCHANGED <<specs, clock, lastFire, boot, tickAt, thread, history>>

\* Variant: a fire that raised counts as one, too.
IntentFailsRecorded(a) ==
  /\ call[a].pc = "intent"
  /\ Fault
  /\ Done(a)
  /\ lastFire' = IF a = Cron THEN call[a].now ELSE lastFire
  /\ UNCHANGED <<specs, clock, boot, tickAt, thread, fires, asked, excused>>

\* It raises: nothing is written, and the scheduler tries at its next poll.
IntentFails(a) ==
  /\ call[a].pc = "intent"
  /\ Fault
  /\ Done(a)
  /\ UNCHANGED <<specs, clock, lastFire, boot, tickAt, thread, fires, asked, excused>>

\* A write whose failure fire() swallows.
Swallow(ok, what) ==
  IF ok THEN UNCHANGED <<faults, excused>> ELSE Fault /\ excused' = excused \cup {what}

\* The routine-tick row, the receipt for the next process, and the fire's time.
PutTick(a, ok) ==
  /\ call[a].pc = "tick"
  /\ Swallow(ok, "tick")
  /\ tickAt' = IF ok THEN clock ELSE tickAt
  /\ fires' = [fires EXCEPT ![call[a].fire].at = clock]
  /\ GoesTo(a, "row")
  /\ UNCHANGED <<specs, clock, lastFire, boot, thread, asked>>

\* Variant: single_fire is honoured by fire() itself, whoever asks.
ReturnTomb(a) ==
  /\ IF specs[call[a].read].single THEN GoesTo(a, "tomb") ELSE Done(a)
  /\ lastFire' = IF a = Cron THEN call[a].now ELSE lastFire

\* Where fire() returns to: an operator's request ends; the scheduler records
\* the clock reading it started with, and goes on to delete the routine if
\* the row it had read says single_fire.
Return(a) ==
  IF a = Cron
  THEN /\ lastFire' = call[a].now
       /\ IF call[a].single THEN GoesTo(a, "tomb") ELSE Done(a)
  ELSE UNCHANGED lastFire /\ Done(a)

\* The message in the thread, which activates Fathom (Post in Harness).
PutRow(a, ok) ==
  /\ call[a].pc = "row"
  /\ Swallow(ok, "row")
  /\ thread' = IF ok THEN thread \cup {call[a].fire} ELSE thread
  /\ Return(a)
  /\ UNCHANGED <<specs, clock, boot, tickAt, fires, asked>>

-----------------------------------------------------------------------------
(* The scheduler.                                                          *)

\* Variant: the anchor is the time of boot alone.
PivotBoot == boot - Grace

\* _pivot_for()
Pivot == Max2(lastFire, boot - Grace)

\* _hydrate_last_fires(): from the newest tick row, or cold.
Hydrate(ok) ==
  /\ call[Cron].pc = "hydrate"
  /\ Swallow(ok, "cold")
  /\ lastFire' = IF ok THEN tickAt ELSE None
  /\ Done(Cron)
  /\ UNCHANGED <<specs, clock, boot, tickAt, thread, fires, asked>>

\* _check_once() up to the call of fire(): the newest row is live, enabled
\* and due at this reading of the clock.
Due(m) == Live /\ specs[NewestSpec].enabled /\ m # None
          /\ NextFire(specs[NewestSpec].cron, Pivot) = m /\ m <= clock

CheckOnce ==
  /\ call[Cron].pc = "idle"
  /\ \E m \in 1..clock :
       /\ Due(m)
       /\ call' = [call EXCEPT ![Cron] =
            [NoCall EXCEPT !.pc = "fire", !.due = m, !.now = clock, !.seen = NewestSpec,
                         !.single = specs[NewestSpec].single]]
  /\ UNCHANGED <<specs, clock, lastFire, boot, tickAt, thread, fires, history>>

\* fire() reads the newest row again, and raises if it is deleted by now.
CronFire ==
  /\ call[Cron].pc = "fire"
  /\ IF Live THEN call' = [call EXCEPT ![Cron].pc = "intent", ![Cron].read = NewestSpec]
             ELSE Done(Cron)
  /\ UNCHANGED <<specs, clock, lastFire, boot, tickAt, thread, fires, history>>

\* Variant: a routine that has fired once is left in place.
CronDeleteNot ==
  /\ call[Cron].pc = "tomb"
  /\ Done(Cron)
  /\ UNCHANGED <<specs, clock, lastFire, boot, tickAt, thread, fires, history>>

\* soft_delete() on behalf of single_fire: it reads for itself, too.
CronDelete ==
  /\ call[Cron].pc = "tomb"
  /\ IF Live THEN call' = [call EXCEPT ![Cron] = Writing(Tombstone)]
             ELSE Done(Cron)
  /\ UNCHANGED <<specs, clock, lastFire, boot, tickAt, thread, fires, history>>

\* The process starts again: requests and the scheduler's memory are lost.  A
\* fire without its tick is unknown to the next process, one without its row
\* never reaches the thread, and a tombstone not yet written stays unwritten.
RoutinesRestart ==
  /\ Fault
  /\ call' = [a \in Actors |-> IF a = Cron THEN [NoCall EXCEPT !.pc = "hydrate"] ELSE NoCall]
  /\ lastFire' = None /\ boot' = clock
  /\ LET pcs == {call[a].pc : a \in Actors}
     IN  excused' = excused
           \cup (IF "tick" \in pcs THEN {"tick"} ELSE {})
           \cup (IF pcs \cap {"tick", "row"} # {} THEN {"row"} ELSE {})
           \cup (IF call[Cron].pc \in {"tick", "row", "tomb", "write"} THEN {"tomb"} ELSE {})
  /\ UNCHANGED <<specs, clock, tickAt, thread, fires, asked>>

ClockTicks ==
  /\ clock < MaxTime
  /\ clock' = clock + 1
  /\ UNCHANGED <<specs, call, lastFire, boot, tickAt, thread, fires, history>>

-----------------------------------------------------------------------------
Request(u) ==
  \/ \E form \in Forms : Create(u, form)
  \/ \E patch \in Patches : Update(u, patch)
  \/ Delete(u)
  \/ FireNow(u)

\* What an actor does to finish the request it is in the middle of.
Proceed(a) == WriteSpec(a) \/ PutIntent(a) \/ PutTick(a, TRUE) \/ PutRow(a, TRUE)
Falter(a) == WriteFails(a) \/ IntentFails(a) \/ PutTick(a, FALSE) \/ PutRow(a, FALSE)

Scheduler == Hydrate(TRUE) \/ CheckOnce \/ CronFire \/ CronDelete \/ Proceed(Cron)

RoutinesNext ==
  \/ \E u \in Users : Request(u) \/ Proceed(u)
  \/ \E a \in Actors : Falter(a)
  \/ Scheduler \/ Hydrate(FALSE)
  \/ RoutinesRestart \/ ClockTicks

\* The scheduler's task runs on, and a request once begun is served; operators
\* ask as they please, and nothing has to fail.
RoutinesSpec == RoutinesInit /\ [][RoutinesNext]_routineVars
FairSpec == RoutinesSpec /\ WF_routineVars(Scheduler) /\ \A u \in Users : WF_routineVars(Proceed(u))

-----------------------------------------------------------------------------
Stages == {"idle", "hydrate", "fire", "intent", "tick", "row", "tomb", "write"}
Times == 0..MaxTime

\* Every variable has its type; only the scheduler hydrates, polls and deletes
\* what it has fired, and the messages in the thread are those of fires.
RoutinesTypeOK ==
  /\ specs \in Seq(Row)
  /\ clock \in 1..MaxTime /\ boot \in 1..clock /\ {lastFire, tickAt} \subseteq 0..clock
  /\ call \in [Actors -> [pc : Stages, read : 0..NewestSpec, new : Row, fire : 0..Len(fires),
                          seen : 0..NewestSpec, single : BOOLEAN, due : Times, now : Times]]
  /\ \A u \in Users : call[u].pc \notin {"hydrate", "fire", "tomb"}
  /\ fires \in Seq([by : Actors, due : Times, seen : 0..NewestSpec, at : Times])
  /\ thread \subseteq 1..Len(fires)
  /\ asked \in 0..MaxAsked /\ faults \in 0..MaxFaults
  /\ excused \subseteq {"tick", "row", "tomb", "cold"}

CronFires == {i \in 1..Len(fires) : fires[i].by = Cron}

\* The scheduler never fires a routine twice for one moment of its schedule,
\* across edits, manual fires, slow fires and restarts, as long as the tick
\* rows get written and can be read at the next start.
NoMomentTwice ==
  excused \cap {"tick", "cold"} = {} =>
    \A i, j \in CronFires : fires[i].due = fires[j].due => i = j

\* One row that says single_fire is taken up by the scheduler once, whatever
\* operators do meanwhile, unless its tombstone could not be written.
SingleShot ==
  "tomb" \notin excused =>
    \A i, j \in CronFires :
      (fires[i].seen = fires[j].seen /\ specs[fires[i].seen].single) => i = j

\* The scheduler fires a routine once for what it is to be fired for: a moment
\* of its schedule, or a row that says single_fire.
FiredOnce == NoMomentTwice /\ SingleShot

\* A request to write the row has been answered without an error.
WriteAnswered(a) == /\ call[a].pc = "write" /\ call'[a].pc # "write"
               /\ faults' = faults

\* When a delete is answered, the routine has been deleted at some time since
\* it was asked for, whatever else wrote in between and although the store
\* drops rows that repeat others.
DeletesTakeEffect ==
  [][\A a \in Actors : WriteAnswered(a) /\ call[a].new.deleted =>
       \E i \in (call[a].read + 1)..Len(specs') : specs'[i].deleted]_routineVars

\* When a create or an update is answered, its row has been the newest one at
\* some time since it was asked for (or was so before).
EditsTakeEffect ==
  [][\A a \in Actors : WriteAnswered(a) /\ ~call[a].new.deleted =>
       \E i \in call[a].read..Len(specs') : i # None /\ specs'[i] = call[a].new]_routineVars

\* The routine as it stands is to be fired at m.
Wanted(m) == Live /\ specs[NewestSpec].enabled /\ m \in specs[NewestSpec].cron

\* A fire stamped m or later has put its message into the thread, or lost it to a failed
\* write or a restart.
Handled(m) == \E i \in 1..Len(fires) : fires[i].at >= m /\ (i \in thread \/ "row" \in excused)

\* A routine that is due is fired, unless an operator changes it first or the
\* process is down until the moment is past the grace.
DueIsFired ==
  \A m \in 1..MaxTime : Due(m) ~> (Handled(m) \/ ~Wanted(m) \/ boot - Grace >= m)
=============================================================================
