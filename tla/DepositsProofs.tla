--------------------------- MODULE DepositsProofs ---------------------------
(* Proofs about what brings rows into the lake: the source runner, for every *)
(* set of items and pollers, every cap and any number of failures; and the   *)
(* agent's pusher and plugins and the transfers, for any number of deltas,   *)
(* flushes, things, polls, starts, keys and rows; and the vault producer, for *)
(* any number of notes, texts and polls.                                     *)
EXTENDS Sources, Deposits, Vault, FiniteSetTheorems, WellFoundedInduction, TLAPS

Status == {"none", "active", "paused", "error"}
State == [errors : Nat, seen : SUBSET Items]
Object == [status : Status, state : State]
Polling == [pc : {"no", "fetch", "write"}, g : {0} \cup 1..MaxObjs, todo : SUBSET Items, seen : SUBSET Items]

SourceTypes ==
  /\ objs \in [1..MaxObjs -> Object]
  /\ current \in {0} \cup 1..MaxObjs /\ onDisk \in Status /\ stateFile \in State
  /\ polling \in [Pollers -> Polling]
  /\ \A p \in Pollers : polling[p].pc # "no" => polling[p].g \in 1..MaxObjs
  /\ feed \subseteq Items /\ written \in [Items -> 0..2]

\* SeenAreWritten holds of the polls under way as well: of what they have read from
\* the state of their source, and of what they add to it.
SeenInv ==
  /\ SourceTypes
  /\ stateFile.seen \subseteq InLake
  /\ \A g \in 1..MaxObjs : objs[g].state.seen \subseteq InLake
  /\ \A p \in Pollers : polling[p].seen \subseteq InLake

\* While polls write, what they have seen of the unsmudged items is all that there is in
\* the lake; while none does, the object and the file of the source have it.
Clean == Items \ smudged
Writing(p) == polling[p].pc = "write"
LakeIsFed == InLake \subseteq feed /\ \A p \in Pollers : Writing(p) => polling[p].todo \subseteq feed
OnceOrSmudged == \A i \in Clean : written[i] <= 1
ToDoIsNew == \A i \in Clean, p \in Pollers : Writing(p) /\ i \in polling[p].todo => i \notin InLake
OneWriter ==
  \A i \in Clean, p \in Pollers :
    Writing(p) /\ ((\E q \in Pollers \ {p} : Writing(q)) \/ (current # 0 /\ polling[p].g # current))
      => i \notin InLake /\ i \notin polling[p].todo
WritersHaveSeen == \A i \in Clean \cap InLake, p \in Pollers : Writing(p) /\ current # 0 => i \in polling[p].seen
SourceHasSeen ==
  \A i \in Clean \cap InLake :
    current # 0 /\ (\A p \in Pollers : ~Writing(p)) => i \in objs[current].state.seen /\ i \in stateFile.seen
Once == LakeIsFed /\ OnceOrSmudged /\ ToDoIsNew /\ OneWriter /\ WritersHaveSeen /\ SourceHasSeen
OnceInv == SeenInv /\ Once

LEMMA NewStateIsSound == NewState \in State /\ NewState.seen = {} /\ Unused \in Object /\ Unused.state.seen = {}
BY DEF NewState, Unused, State, Object, Status

LEMMA NoPollingIsSound == NoPolling.pc = "no" /\ NoPolling.seen = {} /\ NoPolling.todo = {}
BY DEF NoPolling

LEMMA SourcesStart == SourcesInit => SeenInv
<1> SUFFICES ASSUME SourcesInit PROVE SeenInv
  OBVIOUS
<1>1. SourceTypes
  BY NewStateIsSound DEF SourcesInit, SourceTypes, NoPolling, Polling, Status
<1>2. stateFile.seen = {} /\ (\A g \in 1..MaxObjs : objs[g].state.seen = {}) /\ \A p \in Pollers : polling[p].seen = {}
  BY NewStateIsSound, NoPollingIsSound DEF SourcesInit
<1> QED
  BY <1>1, <1>2 DEF SeenInv

\* A step that adds to the lake and puts into the files, the objects and the polls
\* what was seen before, or what is in the lake.
LEMMA SoundSteps ==
  ASSUME SeenInv, SourceTypes', InLake \subseteq InLake',
         stateFile'.seen \subseteq InLake',
         \A g \in 1..MaxObjs : objs'[g] = objs[g] \/ objs'[g].state.seen \subseteq InLake',
         \A p \in Pollers : polling'[p] = polling[p] \/ polling'[p].seen \subseteq InLake'
  PROVE  SeenInv'
<1>1. \A g \in 1..MaxObjs : objs'[g].state.seen \subseteq InLake'
  BY DEF SeenInv
<1>2. \A p \in Pollers : polling'[p].seen \subseteq InLake'
  BY DEF SeenInv
<1> QED
  BY <1>1, <1>2 DEF SeenInv

\* More and more often written, an item stays in the lake.
LEMMA MoreIsMore == \A n \in 0..2 : More(n) \in 0..2 /\ More(n) > 0
BY DEF More

LEMMA LakeGrows ==
  ASSUME SeenInv, NEW i \in Items, written' = [written EXCEPT ![i] = More(@)]
  PROVE  written' \in [Items -> 0..2] /\ InLake' = InLake \cup {i}
BY MoreIsMore DEF SeenInv, SourceTypes, InLake

-----------------------------------------------------------------------------
\* Requests of the operator: a new object is empty, a resumed one keeps what it has seen.
LEMMA RequestsAreSound ==
  ASSUME SeenInv, Add \/ RemoveSource \/ Pause \/ Resume
  PROVE  SeenInv'
<1> USE DEF SourceTypes
<1>1. CASE Add
  <2>1. current' \in Free /\ current' \in 1..MaxObjs
    BY <1>1 DEF Add, Free
  <2>2. objs' = [objs EXCEPT ![current'] = [status |-> "active", state |-> NewState]]
    BY <1>1 DEF Add
  <2>3. [status |-> "active", state |-> NewState] \in Object
    BY NewStateIsSound DEF Object, Status
  <2>4. objs' \in [1..MaxObjs -> Object]
    BY <2>1, <2>2, <2>3 DEF SeenInv
  <2>5. SourceTypes'
    BY <1>1, <2>1, <2>4, NewStateIsSound DEF Add, SeenInv, Status
  <2>6. UNCHANGED InLake /\ stateFile'.seen = {}
    BY <1>1, NewStateIsSound DEF Add, InLake
  <2>7. \A g \in 1..MaxObjs : objs'[g] = objs[g] \/ objs'[g].state.seen = {}
    BY <2>1, <2>2, NewStateIsSound DEF SeenInv
  <2> QED
    BY <1>1, <2>5, <2>6, <2>7, SoundSteps DEF Add
<1>2. CASE RemoveSource
  <2>1. \/ objs' = objs
        \/ objs' = [objs EXCEPT ![current] = Unused]
    BY <1>2 DEF RemoveSource, Drop
  <2>2. objs' \in [1..MaxObjs -> Object]
    BY <2>1, NewStateIsSound DEF SeenInv
  <2>3. SourceTypes'
    BY <1>2, <2>2, NewStateIsSound DEF RemoveSource, SeenInv, Status
  <2>4. UNCHANGED InLake /\ stateFile'.seen = {}
    BY <1>2, NewStateIsSound DEF RemoveSource, InLake
  <2>5. \A g \in 1..MaxObjs : objs'[g] = objs[g] \/ objs'[g].state.seen = {}
    BY <2>1, NewStateIsSound DEF SeenInv
  <2> QED
    BY <1>2, <2>3, <2>4, <2>5, SoundSteps DEF RemoveSource
<1>3. CASE Pause
  <2>1. objs' = [objs EXCEPT ![current].status = "paused"] /\ UNCHANGED <<current, stateFile, polling, feed, written>>
    BY <1>3 DEF Pause
  <2>2. objs' \in [1..MaxObjs -> Object]
    BY <2>1 DEF SeenInv, Object, Status
  <2>3. \A g \in 1..MaxObjs : objs'[g].state = objs[g].state
    BY <2>1 DEF SeenInv, Object
  <2>4. SourceTypes'
    BY <1>3, <2>1, <2>2 DEF Pause, SeenInv, Status
  <2> QED
    BY <2>1, <2>3, <2>4, SoundSteps DEF SeenInv, InLake
<1>4. CASE Resume
  <2>1. current \in 1..MaxObjs /\ objs[current].state \in State
    BY <1>4 DEF Resume, SeenInv, Object
  <2>2. Resumed(objs[current].state) \in State /\ Resumed(objs[current].state).seen = objs[current].state.seen
    BY <2>1 DEF Resumed, State
  <2>3. objs' = [objs EXCEPT ![current] = [status |-> "active", state |-> Resumed(objs[current].state)]]
    BY <1>4 DEF Resume
  <2>4. [status |-> "active", state |-> Resumed(objs[current].state)] \in Object
    BY <2>2 DEF Object, Status
  <2>5. objs' \in [1..MaxObjs -> Object]
    BY <2>1, <2>3, <2>4 DEF SeenInv
  <2>6. stateFile' = Resumed(objs[current].state) /\ UNCHANGED <<current, polling, feed, written>> /\ onDisk' = "active"
    BY <1>4 DEF Resume
  <2>7. SourceTypes'
    BY <2>2, <2>5, <2>6 DEF SeenInv, Status
  <2>8. \A g \in 1..MaxObjs : objs'[g] = objs[g] \/ objs'[g].state.seen = objs[current].state.seen
    BY <2>1, <2>2, <2>3 DEF SeenInv
  <2> QED
    BY <2>1, <2>2, <2>6, <2>7, <2>8, SoundSteps DEF SeenInv, InLake
<1> QED
  BY <1>1, <1>2, <1>3, <1>4

\* The runner starts again from its files.
LEMMA RestartIsSound ==
  ASSUME SeenInv, RunnerRestart
  PROVE  SeenInv'
<1> USE DEF SourceTypes
<1>1. [status |-> onDisk, state |-> stateFile] \in Object
  BY DEF SeenInv, Object
<1>2. \A g \in 1..MaxObjs : objs'[g] = [status |-> onDisk, state |-> stateFile] \/ objs'[g] = Unused
  BY DEF RunnerRestart
<1>3. objs' \in [1..MaxObjs -> Object]
  BY <1>1, NewStateIsSound DEF RunnerRestart
<1>4. \A g \in 1..MaxObjs : objs'[g].state.seen = stateFile.seen \/ objs'[g].state.seen = {}
  BY <1>2, NewStateIsSound
<1>5. polling' = [p \in Pollers |-> NoPolling]
  BY DEF RunnerRestart
<1>6. NoPolling \in Polling
  BY DEF NoPolling, Polling
<1>7. SourceTypes'
  BY <1>3, <1>5, <1>6, NoPollingIsSound DEF RunnerRestart, SeenInv
<1>8. UNCHANGED <<InLake, stateFile>>
  BY DEF RunnerRestart, InLake
<1> QED
  BY <1>4, <1>5, <1>7, <1>8, NoPollingIsSound, SoundSteps DEF SeenInv

-----------------------------------------------------------------------------
\* What a poll leaves in its object.
LEMMA LeavesIsSound ==
  ASSUME SeenInv, NEW p \in Pollers, polling[p].pc # "no", NEW obj \in Object, Leaves(p, obj)
  PROVE  /\ objs' \in [1..MaxObjs -> Object]
         /\ \A g \in 1..MaxObjs : objs'[g] = objs[g] \/ objs'[g].state.seen = {} \/ objs'[g] = obj
<1>1. polling[p].g \in 1..MaxObjs /\ objs \in [1..MaxObjs -> Object]
  BY DEF SeenInv, SourceTypes
<1>2. objs' = [objs EXCEPT ![polling[p].g] = Unused] \/ objs' = [objs EXCEPT ![polling[p].g] = obj]
  BY DEF Leaves, Drop
<1> QED
  BY <1>1, <1>2, NewStateIsSound

LEMMA ObjectOf ==
  ASSUME SeenInv, NEW p \in Pollers, polling[p].pc # "no"
  PROVE  /\ polling[p].g \in 1..MaxObjs /\ objs[polling[p].g] \in Object
         /\ objs[polling[p].g].state \in State /\ objs[polling[p].g].state.seen \subseteq InLake
         /\ objs[polling[p].g].status \in Status
BY DEF SeenInv, SourceTypes, Object

LEMMA OnDiskIsStatus ==
  ASSUME SeenInv, objs' \in [1..MaxObjs -> Object], UNCHANGED current,
         onDisk' = onDisk \/ onDisk' = IF current = 0 THEN "none" ELSE objs'[current].status
  PROVE  onDisk' \in Status
BY DEF SeenInv, SourceTypes, Object, Status

LEMMA FetchFailsIsSound ==
  ASSUME SeenInv, NEW p \in Pollers, FetchFails(p)
  PROVE  SeenInv'
<1> DEFINE obj == objs[polling[p].g]
           next == [obj.state EXCEPT !.errors = @ + 1]
           left == [status |-> IF next.errors >= MaxErrors THEN "error" ELSE obj.status, state |-> next]
<1>1. polling[p].pc # "no"
  BY DEF FetchFails
<1>2. obj.state \in State /\ obj.status \in Status /\ obj.state.seen \subseteq InLake
  BY <1>1, ObjectOf
<1>3. next \in State /\ next.seen = obj.state.seen
  BY <1>2 DEF State
<1>4. Leaves(p, left) /\ stateFile' = next
  BY DEF FetchFails
<1> HIDE DEF next, obj
<1>5. left \in Object /\ left.state = next
  BY <1>2, <1>3 DEF Object, Status
<1> HIDE DEF left
<1>6. /\ objs' \in [1..MaxObjs -> Object]
      /\ \A g \in 1..MaxObjs : objs'[g] = objs[g] \/ objs'[g].state.seen = {} \/ objs'[g] = left
  BY <1>1, <1>4, <1>5, LeavesIsSound
<1>7. polling' = [polling EXCEPT ![p] = NoPolling] /\ UNCHANGED <<current, feed, written>>
  BY DEF FetchFails
<1>8. NoPolling \in Polling
  BY DEF NoPolling, Polling
<1>9. onDisk' \in Status
  BY <1>6, OnDiskIsStatus DEF FetchFails
<1>10. SourceTypes'
  BY <1>3, <1>4, <1>6, <1>7, <1>8, <1>9, NoPollingIsSound DEF SeenInv, SourceTypes
<1>11. UNCHANGED InLake
  BY <1>7 DEF InLake
<1>12. \A q \in Pollers : polling'[q] = polling[q] \/ polling'[q].seen = {}
  BY <1>7, NoPollingIsSound DEF SeenInv, SourceTypes
<1> QED
  BY <1>2, <1>3, <1>4, <1>5, <1>6, <1>10, <1>11, <1>12, SoundSteps

\* A poll begins, and reads what its source has seen.
LEMMA EntersIsSound ==
  ASSUME SeenInv, NEW p, Enters(p)
  PROVE  SeenInv'
<1>1. /\ polling' = [polling EXCEPT ![p] = [NoPolling EXCEPT !.pc = "fetch", !.g = current]]
      /\ UNCHANGED <<objs, current, onDisk, stateFile, feed, written>> /\ current # 0
  BY DEF Enters
<1> DEFINE entered == [NoPolling EXCEPT !.pc = "fetch", !.g = current]
<1>2. entered \in Polling /\ entered.g \in 1..MaxObjs /\ entered.seen = {}
  BY <1>1 DEF NoPolling, Polling, SeenInv, SourceTypes
<1> HIDE DEF entered
<1>3. SourceTypes'
  BY <1>1, <1>2 DEF SeenInv, SourceTypes, entered
<1>4. \A q \in Pollers : polling'[q] = polling[q] \/ polling'[q].seen = {}
  BY <1>1, <1>2 DEF SeenInv, SourceTypes, entered
<1>5. UNCHANGED InLake
  BY <1>1 DEF InLake
<1> QED
  BY <1>1, <1>3, <1>4, <1>5, SoundSteps DEF SeenInv

LEMMA FetchedIsSound ==
  ASSUME SeenInv, NEW p \in Pollers, Fetched(p)
  PROVE  SeenInv'
<1> DEFINE g == polling[p].g
           seen == objs[g].state.seen
           writing == [polling[p] EXCEPT !.pc = "write", !.todo = feed \ seen, !.seen = seen]
<1>1. polling[p].pc # "no"
  BY DEF Fetched
<1>2. g \in 1..MaxObjs /\ objs[g] \in Object /\ objs[g].state \in State /\ seen \subseteq InLake
  BY <1>1, ObjectOf
<1>3. /\ objs' = [objs EXCEPT ![g].state.errors = 0] /\ UNCHANGED <<current, onDisk, stateFile, feed, written>>
      /\ polling' = [polling EXCEPT ![p].pc = "write", ![p].todo = feed \ seen, ![p].seen = seen]
  BY DEF Fetched
<1>4. writing \in Polling /\ writing.seen = seen /\ writing.g = g
  BY <1>2 DEF Polling, SeenInv, SourceTypes, InLake
<1>5. polling' = [polling EXCEPT ![p] = writing]
  BY <1>3 DEF SeenInv, SourceTypes, Polling
<1>6. objs' \in [1..MaxObjs -> Object]
  BY <1>2, <1>3 DEF SeenInv, SourceTypes, Object, State
<1>7. \A h \in 1..MaxObjs : objs'[h].state.seen = objs[h].state.seen
  BY <1>2, <1>3 DEF SeenInv, SourceTypes, Object, State
<1> HIDE DEF writing, seen, g
<1>8. SourceTypes'
  <2>1. polling' \in [Pollers -> Polling]
    BY <1>4, <1>5 DEF SeenInv, SourceTypes
  <2>2. \A q \in Pollers : polling'[q].pc # "no" => polling'[q].g \in 1..MaxObjs
    BY <1>2, <1>4, <1>5 DEF SeenInv, SourceTypes
  <2>3. UNCHANGED <<current, onDisk, stateFile, feed, written>>
    BY <1>3
  <2> QED
    BY <1>6, <2>1, <2>2, <2>3 DEF SeenInv, SourceTypes
<1>9. \A q \in Pollers : polling'[q] = polling[q] \/ polling'[q].seen = seen
  BY <1>4, <1>5 DEF SeenInv, SourceTypes
<1>10. UNCHANGED InLake
  BY <1>3 DEF InLake
<1> QED
  BY <1>2, <1>3, <1>7, <1>8, <1>9, <1>10, SoundSteps DEF SeenInv

\* An item that is written is in the lake before it counts as seen; one whose answer
\* is lost, or whose write fails, does not count.
LEMMA WritesAreSound ==
  ASSUME SeenInv, NEW p \in Pollers, NEW i \in Items, NEW lands \in BOOLEAN,
         WriteItem(p, i) \/ WriteItemFails(p, i, lands)
  PROVE  SeenInv'
<1> DEFINE seen == IF WriteItem(p, i) THEN polling[p].seen \cup {i} ELSE polling[p].seen
           left == [polling[p] EXCEPT !.todo = @ \ {i}, !.seen = seen]
<1>1. UNCHANGED <<objs, current, onDisk, stateFile, feed>>
  BY DEF WriteItem, WriteItemFails
<1>2. polling' = [polling EXCEPT ![p].todo = @ \ {i}, ![p].seen = seen]
  <2>1. CASE WriteItem(p, i)
    BY <2>1 DEF WriteItem, NowSeen
  <2>2. CASE ~WriteItem(p, i)
    <3>1. polling' = [polling EXCEPT ![p].todo = @ \ {i}, ![p].seen = polling[p].seen \cup {}]
      BY <2>2 DEF WriteItemFails, NowSeen
    <3> QED
      BY <2>2, <3>1
  <2> QED
    BY <2>1, <2>2
<1>3. polling \in [Pollers -> Polling]
  BY DEF SeenInv, SourceTypes
<1>4. left \in Polling /\ left.seen = seen /\ left.g = polling[p].g /\ left.pc = polling[p].pc
  BY <1>3 DEF Polling
<1>5. polling' = [polling EXCEPT ![p] = left]
  BY <1>2, <1>3 DEF Polling
<1>6. /\ written' \in [Items -> 0..2] /\ InLake \subseteq InLake'
      /\ WriteItem(p, i) => i \in InLake'
  <2>1. CASE WriteItem(p, i)
    BY <2>1, LakeGrows DEF WriteItem
  <2>2. CASE ~WriteItem(p, i) /\ lands
    BY <2>2, LakeGrows DEF WriteItemFails
  <2>3. CASE ~WriteItem(p, i) /\ ~lands
    BY <2>3 DEF WriteItemFails, SeenInv, SourceTypes, InLake
  <2> QED
    BY <2>1, <2>2, <2>3
<1>7. seen \subseteq InLake'
  BY <1>6 DEF SeenInv
<1> HIDE DEF left, seen
<1>8. SourceTypes'
  BY <1>1, <1>3, <1>4, <1>5, <1>6 DEF SeenInv, SourceTypes
<1>9. \A q \in Pollers : polling'[q] = polling[q] \/ polling'[q].seen = seen
  BY <1>3, <1>4, <1>5
<1> QED
  BY <1>1, <1>6, <1>7, <1>8, <1>9, SoundSteps DEF SeenInv

\* A poll ends: what it keeps of what it has seen, it has seen.
LEMMA PollEndsIsSound ==
  ASSUME SeenInv, NEW p \in Pollers, PollEnds(p)
  PROVE  SeenInv'
<1>1. polling[p].pc # "no" /\ polling' = [polling EXCEPT ![p] = NoPolling] /\ UNCHANGED <<current, onDisk, feed, written>>
  BY DEF PollEnds
<1> DEFINE obj == objs[polling[p].g]
<1>2. PICK kept \in Capped(polling[p].seen) :
        /\ Leaves(p, [obj EXCEPT !.state = [obj.state EXCEPT !.seen = kept]])
        /\ stateFile' = [obj.state EXCEPT !.seen = kept]
  BY DEF PollEnds
<1>3. kept \subseteq polling[p].seen
  BY <1>2 DEF Capped
<1>4. kept \subseteq InLake /\ kept \subseteq Items
  BY <1>3 DEF SeenInv, InLake
<1>5. obj \in Object /\ obj.state \in State
  BY <1>1, ObjectOf
<1> DEFINE next == [obj.state EXCEPT !.seen = kept]
           left == [obj EXCEPT !.state = next]
<1>6. next \in State /\ next.seen = kept
  BY <1>4, <1>5 DEF State
<1> HIDE DEF next, obj
<1>7. left \in Object /\ left.state = next
  BY <1>5, <1>6 DEF Object
<1>8. Leaves(p, left) /\ stateFile' = next
  BY <1>2 DEF next, obj
<1> HIDE DEF left
<1>9. /\ objs' \in [1..MaxObjs -> Object]
      /\ \A g \in 1..MaxObjs : objs'[g] = objs[g] \/ objs'[g].state.seen = {} \/ objs'[g] = left
  BY <1>1, <1>7, <1>8, LeavesIsSound
<1>10. NoPolling \in Polling
  BY DEF NoPolling, Polling
<1>11. SourceTypes'
  BY <1>1, <1>6, <1>8, <1>9, <1>10, NoPollingIsSound DEF SeenInv, SourceTypes
<1>12. UNCHANGED InLake
  BY <1>1 DEF InLake
<1>13. \A q \in Pollers : polling'[q] = polling[q] \/ polling'[q].seen = {}
  BY <1>1, NoPollingIsSound DEF SeenInv, SourceTypes
<1> QED
  BY <1>4, <1>6, <1>7, <1>8, <1>9, <1>11, <1>12, <1>13, SoundSteps

LEMMA SourcesStep == SeenInv /\ [SourcesNext]_sourceVars => SeenInv'
<1> SUFFICES ASSUME SeenInv, [SourcesNext]_sourceVars PROVE SeenInv'
  OBVIOUS
<1>1. CASE UNCHANGED sourceVars \/ \E i \in Items : Publish(i)
  <2>1. UNCHANGED <<objs, current, onDisk, stateFile, polling, written>> /\ feed' \subseteq Items
    BY <1>1 DEF sourceVars, Publish, SeenInv, SourceTypes
  <2>2. SourceTypes' /\ UNCHANGED InLake
    BY <2>1 DEF SeenInv, SourceTypes, InLake
  <2> QED
    BY <2>1, <2>2, SoundSteps DEF SeenInv
<1>2. CASE Add \/ RemoveSource \/ Pause \/ Resume
  BY <1>2, RequestsAreSound
<1>3. CASE RunnerRestart
  BY <1>3, RestartIsSound
<1>4. CASE LoopPolls \/ \E p \in Pollers : ManualPoll(p)
  BY <1>4, EntersIsSound DEF LoopPolls, ManualPoll
<1>5. ASSUME NEW p \in Pollers, Poll(p) PROVE SeenInv'
  BY <1>5, FetchedIsSound, PollEndsIsSound, WritesAreSound DEF Poll
<1>6. ASSUME NEW p \in Pollers, Fails(p) PROVE SeenInv'
  BY <1>6, FetchFailsIsSound, WritesAreSound DEF Fails
<1> QED
  BY <1>1, <1>2, <1>3, <1>4, <1>5, <1>6 DEF SourcesNext, Outside, SourceRequests

\* No order of failures, polls that overlap, restarts, removals and additions makes
\* the runner skip an item that was not written.
THEOREM NothingIsSkipped == SourcesSpec => []SeenAreWritten
<1>1. SeenInv => SeenAreWritten
  BY DEF SeenInv, SeenAreWritten, InLake
<1> QED
  BY <1>1, SourcesStart, SourcesStep, PTL DEF SourcesSpec

-----------------------------------------------------------------------------
\* A step that writes nothing and leaves the polls that write alone.
LEMMA QuietPolls ==
  ASSUME Once, written' = written, smudged \subseteq smudged', feed \subseteq feed', current' \in {current, 0},
         \A p \in Pollers : (polling'[p].pc = "write") = (polling[p].pc = "write"),
         \A p \in Pollers : polling[p].pc = "write" => polling'[p] = polling[p],
         SourceHasSeen'
  PROVE  Once'
<1>1. Clean' \subseteq Clean /\ InLake' = InLake
  BY DEF Clean, InLake
<1>2. \A p \in Pollers : Writing(p)' => Writing(p) /\ polling'[p] = polling[p]
  BY DEF Writing
<1>3. \A p \in Pollers : Writing(p) => Writing(p)'
  BY DEF Writing
<1>4. LakeIsFed'
  BY <1>1, <1>2 DEF Once, LakeIsFed
<1>5. OnceOrSmudged' /\ ToDoIsNew' /\ WritersHaveSeen'
  BY <1>1, <1>2 DEF Once, OnceOrSmudged, ToDoIsNew, WritersHaveSeen
<1>6. OneWriter'
  <2> SUFFICES ASSUME NEW i \in Clean', NEW p \in Pollers, Writing(p)',
                      (\E q \in Pollers \ {p} : Writing(q)') \/ (current' # 0 /\ polling'[p].g # current')
               PROVE  i \notin InLake' /\ i \notin polling'[p].todo
    BY DEF OneWriter
  <2>1. (\E q \in Pollers \ {p} : Writing(q)) \/ (current # 0 /\ polling[p].g # current)
    BY <1>2
  <2> QED
    BY <1>1, <1>2, <2>1 DEF Once, OneWriter
<1> QED
  BY <1>4, <1>5, <1>6 DEF Once

\* A step after which what the lake has, and what is left to write, is smudged.
LEMMA SmudgedSteps ==
  ASSUME SourceTypes', LakeIsFed', InLake' \subseteq smudged',
         \A p \in Pollers : polling'[p].pc = "write" => polling'[p].todo \subseteq smudged'
  PROVE  Once'
<1>1. \A i \in Clean' : i \notin InLake' /\ written'[i] <= 1
  BY DEF Clean, InLake, SourceTypes
<1> QED
  BY <1>1 DEF Once, OnceOrSmudged, ToDoIsNew, OneWriter, WritersHaveSeen, SourceHasSeen, Clean, Writing

LEMMA OnceStarts == SourcesInit => Once
<1> SUFFICES ASSUME SourcesInit PROVE Once
  OBVIOUS
<1>1. InLake = {} /\ (\A i \in Items : written[i] = 0) /\ \A p \in Pollers : ~Writing(p)
  BY NoPollingIsSound DEF SourcesInit, InLake, Writing
<1> QED
  BY <1>1 DEF Once, LakeIsFed, OnceOrSmudged, ToDoIsNew, OneWriter, WritersHaveSeen, SourceHasSeen, Clean

LEMMA PublishOnce == \A i : OnceInv /\ Publish(i) => Once'
<1> SUFFICES ASSUME NEW i, OnceInv, Publish(i) PROVE Once'
  OBVIOUS
<1>1. feed \subseteq feed' /\ UNCHANGED <<objs, current, stateFile, polling, written, smudged>>
  BY DEF Publish
<1>2. SourceHasSeen'
  BY <1>1 DEF OnceInv, Once, SourceHasSeen, Clean, InLake, Writing
<1> QED
  BY <1>1, <1>2, QuietPolls DEF OnceInv

LEMMA RequestsOnce ==
  ASSUME OnceInv, Add \/ RemoveSource \/ Pause \/ Resume
  PROVE  Once'
<1>1. CASE Add
  <2>1. /\ smudged' = smudged \cup InLake \cup UNION {polling[p].todo : p \in Pollers}
        /\ UNCHANGED <<polling, feed, written>>
    BY <1>1 DEF Add
  <2>2. LakeIsFed' /\ InLake' = InLake
    BY <2>1 DEF OnceInv, Once, LakeIsFed, InLake, Writing
  <2>3. SourceTypes'
    BY <1>1, RequestsAreSound DEF OnceInv, SeenInv
  <2> QED
    BY <2>1, <2>2, <2>3, SmudgedSteps
<1>2. CASE RemoveSource
  <2>1. current' = 0 /\ UNCHANGED <<polling, feed, written, smudged>>
    BY <1>2 DEF RemoveSource
  <2> QED
    BY <2>1, QuietPolls DEF OnceInv, SourceHasSeen
<1>3. CASE Pause
  <2>1. UNCHANGED <<current, stateFile, polling, feed, written, smudged>> /\ objs' = [objs EXCEPT ![current].status = "paused"] /\ current # 0
    BY <1>3 DEF Pause
  <2>2. objs'[current].state = objs[current].state
    BY <2>1 DEF OnceInv, SeenInv, SourceTypes, Object
  <2>3. SourceHasSeen'
    BY <2>1, <2>2 DEF OnceInv, Once, SourceHasSeen, Clean, InLake, Writing
  <2> QED
    BY <2>1, <2>3, QuietPolls DEF OnceInv
<1>4. CASE Resume
  <2>1. /\ UNCHANGED <<current, polling, feed, written, smudged>> /\ stateFile' = Resumed(objs[current].state)
        /\ objs' = [objs EXCEPT ![current] = [status |-> "active", state |-> Resumed(objs[current].state)]]
        /\ current \in 1..MaxObjs /\ objs[current].state \in State
    BY <1>4 DEF Resume, OnceInv, SeenInv, SourceTypes, Object
  <2>2. Resumed(objs[current].state).seen = objs[current].state.seen
    BY <2>1 DEF Resumed, State
  <2>3. objs'[current].state.seen = objs[current].state.seen /\ stateFile'.seen = objs[current].state.seen
    BY <2>1, <2>2 DEF OnceInv, SeenInv, SourceTypes
  <2>4. SourceHasSeen'
    BY <2>1, <2>3 DEF OnceInv, Once, SourceHasSeen, Clean, InLake, Writing
  <2> QED
    BY <2>1, <2>4, QuietPolls DEF OnceInv
<1> QED
  BY <1>1, <1>2, <1>3, <1>4

\* A restart forgets what the polls under way have seen; the file has the rest.
LEMMA RestartOnce == OnceInv /\ RunnerRestart => Once'
<1> SUFFICES ASSUME OnceInv, RunnerRestart PROVE Once'
  OBVIOUS
<1>1. /\ polling' = [p \in Pollers |-> NoPolling] /\ smudged' = smudged \cup UNION {polling[p].seen : p \in Pollers}
      /\ UNCHANGED <<current, stateFile, feed, written>>
      /\ current # 0 => objs'[current].state = stateFile
  BY DEF RunnerRestart, OnceInv, SeenInv, SourceTypes
<1>2. \A p \in Pollers : polling'[p].pc # "write"
  BY <1>1, NoPollingIsSound
<1>3. InLake' = InLake /\ Clean' \subseteq Clean
  BY <1>1 DEF InLake, Clean
<1>4. SourceHasSeen'
  <2> SUFFICES ASSUME NEW i \in Clean' \cap InLake, current # 0
               PROVE  i \in stateFile.seen
    BY <1>1, <1>3 DEF SourceHasSeen
  <2>1. \A p \in Pollers : i \notin polling[p].seen
    BY <1>1 DEF Clean
  <2>2. \A p \in Pollers : ~Writing(p)
    BY <1>3, <2>1 DEF OnceInv, Once, WritersHaveSeen
  <2> QED
    BY <1>3, <2>2 DEF OnceInv, Once, SourceHasSeen
<1> QED
  BY <1>1, <1>2, <1>3, <1>4 DEF OnceInv, Once, LakeIsFed, OnceOrSmudged, ToDoIsNew, OneWriter, WritersHaveSeen, Writing

LEMMA EntersOnce == \A p : OnceInv /\ Enters(p) => Once'
<1> SUFFICES ASSUME NEW p, OnceInv, Enters(p) PROVE Once'
  OBVIOUS
<1> DEFINE entered == [NoPolling EXCEPT !.pc = "fetch", !.g = current]
<1>1. /\ polling[p].pc = "no" /\ polling' = [polling EXCEPT ![p] = entered]
      /\ UNCHANGED <<objs, current, stateFile, feed, written, smudged>>
  BY DEF Enters
<1>2. entered.pc = "fetch"
  BY DEF NoPolling
<1> HIDE DEF entered
<1>3. \A q \in Pollers : polling'[q] = polling[q] \/ (polling'[q].pc = "fetch" /\ polling[q].pc = "no")
  BY <1>1, <1>2 DEF OnceInv, SeenInv, SourceTypes
<1>4. SourceHasSeen'
  BY <1>1, <1>3 DEF OnceInv, Once, SourceHasSeen, Clean, InLake, Writing
<1> QED
  BY <1>1, <1>3, <1>4, QuietPolls DEF OnceInv

\* A poll that fails leaves what its source has seen, unless its source is gone.
LEMMA FetchFailsOnce == \A p \in Pollers : OnceInv /\ FetchFails(p) => Once'
<1> SUFFICES ASSUME NEW p \in Pollers, OnceInv, FetchFails(p) PROVE Once'
  OBVIOUS
<1> DEFINE obj == objs[polling[p].g]
           next == [obj.state EXCEPT !.errors = @ + 1]
           left == [status |-> IF next.errors >= MaxErrors THEN "error" ELSE obj.status, state |-> next]
<1>1. /\ polling[p].pc = "fetch" /\ polling' = [polling EXCEPT ![p] = NoPolling]
      /\ UNCHANGED <<current, feed, written>> /\ stateFile' = next /\ Leaves(p, left)
      /\ smudged' = IF current \notin {0, polling[p].g} THEN smudged \cup InLake ELSE smudged
  BY DEF FetchFails
<1>2. polling[p].g \in 1..MaxObjs /\ obj.state \in State
  BY <1>1, ObjectOf DEF OnceInv
<1>3. next.seen = obj.state.seen
  BY <1>2 DEF State
<1> HIDE DEF next
<1>4. \A q \in Pollers : polling'[q] = polling[q] \/ (polling'[q].pc = "no" /\ polling[q].pc = "fetch")
  BY <1>1, NoPollingIsSound DEF OnceInv, SeenInv, SourceTypes
<1>5. SourceHasSeen'
  <2> SUFFICES ASSUME NEW i \in Clean' \cap InLake, current # 0, \A q \in Pollers : polling'[q].pc # "write"
               PROVE  i \in objs'[current].state.seen /\ i \in stateFile'.seen
    BY <1>1 DEF SourceHasSeen, InLake, Writing
  <2>1. current = polling[p].g /\ i \in Clean
    BY <1>1 DEF Clean
  <2>2. \A q \in Pollers : ~Writing(q)
    BY <1>4 DEF Writing
  <2>3. i \in obj.state.seen
    BY <2>1, <2>2 DEF OnceInv, Once, SourceHasSeen
  <2>4. objs'[current] = left
    BY <1>1, <1>2, <2>1 DEF Leaves, OnceInv, SeenInv, SourceTypes
  <2> QED
    BY <1>1, <1>3, <2>3, <2>4
<1>6. smudged \subseteq smudged'
  BY <1>1
<1> QED
  BY <1>1, <1>4, <1>5, <1>6, QuietPolls DEF OnceInv

\* The only poll that writes has read all that its source has seen.
LEMMA FetchedOnce == \A p \in Pollers : OnceInv /\ Fetched(p) => Once'
<1> SUFFICES ASSUME NEW p \in Pollers, OnceInv, Fetched(p) PROVE Once'
  OBVIOUS
<1> DEFINE g == polling[p].g
           seen == objs[g].state.seen
           writing == [polling[p] EXCEPT !.pc = "write", !.todo = feed \ seen, !.seen = seen]
           alone == g = current /\ ~\E q \in Pollers \ {p} : polling[q].pc = "write"
<1>1. /\ polling[p].pc = "fetch" /\ UNCHANGED <<current, feed, written>>
      /\ smudged' = IF alone THEN smudged ELSE smudged \cup feed
      /\ polling' = [polling EXCEPT ![p].pc = "write", ![p].todo = feed \ seen, ![p].seen = seen]
  BY DEF Fetched
<1>2. polling' = [polling EXCEPT ![p] = writing] /\ polling \in [Pollers -> Polling]
  BY <1>1 DEF OnceInv, SeenInv, SourceTypes, Polling
<1>3. writing.pc = "write" /\ writing.todo = feed \ seen /\ writing.seen = seen /\ writing.g = g
  BY <1>2 DEF Polling
<1> HIDE DEF writing, seen
<1>4. polling'[p] = writing /\ \A q \in Pollers \ {p} : polling'[q] = polling[q]
  BY <1>2
<1>5. InLake' = InLake /\ InLake \subseteq feed
  BY <1>1 DEF InLake, OnceInv, Once, LakeIsFed
<1>6. \A q \in Pollers : polling'[q].pc = "write" => polling'[q].todo \subseteq feed
  BY <1>3, <1>4 DEF OnceInv, Once, LakeIsFed, Writing
<1>7. LakeIsFed'
  BY <1>1, <1>5, <1>6 DEF LakeIsFed, Writing
<1>8. CASE ~alone
  <2>1. SourceTypes'
    BY FetchedIsSound DEF OnceInv, SeenInv
  <2>2. InLake' \subseteq smudged' /\ \A q \in Pollers : polling'[q].pc = "write" => polling'[q].todo \subseteq smudged'
    BY <1>1, <1>5, <1>6, <1>8
  <2> QED
    BY <1>7, <2>1, <2>2, SmudgedSteps
<1>9. CASE alone
  <2>1. Clean' = Clean
    BY <1>1, <1>9 DEF Clean
  <2>2. \A q \in Pollers : ~Writing(q)
    BY <1>1, <1>9 DEF Writing
  <2>3. \A q \in Pollers : polling'[q].pc = "write" => q = p
    BY <1>4, <2>2 DEF Writing
  <2>4. g \in 1..MaxObjs
    BY <1>1, ObjectOf DEF OnceInv
  <2>5. \A i \in Clean \cap InLake : i \in seen
    BY <1>9, <2>2, <2>4 DEF OnceInv, Once, SourceHasSeen, seen
  <2>6. OnceOrSmudged' /\ ToDoIsNew'
    BY <1>1, <1>3, <1>4, <1>5, <2>1, <2>3, <2>5 DEF OnceInv, Once, OnceOrSmudged, ToDoIsNew, Writing
  <2>7. OneWriter' /\ WritersHaveSeen' /\ SourceHasSeen'
    BY <1>1, <1>3, <1>4, <1>5, <1>9, <2>1, <2>3, <2>5 DEF OneWriter, WritersHaveSeen, SourceHasSeen, Writing
  <2> QED
    BY <1>7, <2>6, <2>7 DEF Once
<1> QED
  BY <1>8, <1>9

\* A write concerns an item that is smudged, or one that no other poll has to write.
LEMMA WritesOnce ==
  \A p \in Pollers, i \in Items, lands \in BOOLEAN : OnceInv /\ (WriteItem(p, i) \/ WriteItemFails(p, i, lands)) => Once'
<1> SUFFICES ASSUME NEW p \in Pollers, NEW i \in Items, NEW lands \in BOOLEAN,
                    OnceInv, WriteItem(p, i) \/ WriteItemFails(p, i, lands)
             PROVE  Once'
  OBVIOUS
<1> DEFINE seen == IF WriteItem(p, i) THEN polling[p].seen \cup {i} ELSE polling[p].seen
           left == [polling[p] EXCEPT !.todo = @ \ {i}, !.seen = seen]
<1>1. /\ polling[p].pc = "write" /\ i \in polling[p].todo /\ UNCHANGED <<objs, current, stateFile, feed>>
      /\ \/ smudged' = smudged /\ WriteItem(p, i)
         \/ smudged' = smudged \cup {i} /\ ~WriteItem(p, i)
      /\ written' = written \/ written' = [written EXCEPT ![i] = More(@)]
  BY DEF WriteItem, WriteItemFails
<1>2. polling' = [polling EXCEPT ![p].todo = @ \ {i}, ![p].seen = seen]
  <2>1. CASE WriteItem(p, i)
    BY <2>1 DEF WriteItem, NowSeen
  <2>2. CASE ~WriteItem(p, i)
    <3>1. polling' = [polling EXCEPT ![p].todo = @ \ {i}, ![p].seen = polling[p].seen \cup {}]
      BY <2>2 DEF WriteItemFails, NowSeen
    <3> QED
      BY <2>2, <3>1
  <2> QED
    BY <2>1, <2>2
<1>3. polling \in [Pollers -> Polling] /\ written \in [Items -> 0..2]
  BY DEF OnceInv, SeenInv, SourceTypes
<1>4. left.pc = "write" /\ left.todo = polling[p].todo \ {i} /\ left.seen = seen /\ left.g = polling[p].g
  BY <1>1, <1>3 DEF Polling
<1>5. polling' = [polling EXCEPT ![p] = left]
  BY <1>2, <1>3 DEF Polling
<1>6. seen = polling[p].seen \/ seen = polling[p].seen \cup {i}
  OBVIOUS
<1>7. i \in seen \/ i \in smudged'
  BY <1>1
<1> HIDE DEF left, seen
<1>8. polling'[p] = left /\ \A q \in Pollers \ {p} : polling'[q] = polling[q]
  BY <1>3, <1>5
<1>9. \A j \in Items \ {i} : written'[j] = written[j]
  BY <1>1, <1>3
<1>10. Clean' \subseteq Clean /\ InLake' \subseteq InLake \cup {i} /\ i \in feed
  BY <1>1, <1>9 DEF Clean, InLake, OnceInv, Once, LakeIsFed, Writing
<1>11. \A q \in Pollers : /\ polling'[q].pc = "write" => polling[q].pc = "write"
                           /\ polling'[q].g = polling[q].g /\ polling'[q].todo \subseteq polling[q].todo
                           /\ polling[q].seen \subseteq polling'[q].seen
  BY <1>1, <1>4, <1>6, <1>8
<1>12. i \in Clean' => /\ i \notin InLake /\ \A q \in Pollers \ {p} : polling[q].pc # "write"
                       /\ current # 0 => polling[p].g = current
  BY <1>1, <1>10 DEF OnceInv, Once, ToDoIsNew, OneWriter, Writing
<1>13. LakeIsFed'
  BY <1>1, <1>10, <1>11 DEF OnceInv, Once, LakeIsFed, Writing
<1>14. OnceOrSmudged'
  <2> SUFFICES ASSUME NEW j \in Clean' PROVE written'[j] <= 1
    BY DEF OnceOrSmudged
  <2>1. CASE j # i
    BY <1>9, <1>10, <2>1 DEF OnceInv, Once, OnceOrSmudged, Clean
  <2>2. CASE j = i
    <3>1. written[i] = 0
      BY <1>3, <1>12, <2>2 DEF InLake
    <3> QED
      BY <1>1, <1>3, <2>2, <3>1 DEF More
  <2> QED
    BY <2>1, <2>2
<1>15. ToDoIsNew' /\ OneWriter'
  <2> SUFFICES ASSUME NEW j \in Clean', NEW q \in Pollers, polling'[q].pc = "write"
               PROVE  /\ j \in polling'[q].todo => j \notin InLake'
                      /\ (\E r \in Pollers \ {q} : polling'[r].pc = "write") \/ (current # 0 /\ polling'[q].g # current)
                           => j \notin InLake' /\ j \notin polling'[q].todo
    BY <1>1 DEF ToDoIsNew, OneWriter, Writing
  <2>1. CASE j # i
    BY <1>10, <1>11, <2>1 DEF OnceInv, Once, ToDoIsNew, OneWriter, Writing
  <2>2. CASE j = i
    BY <1>4, <1>8, <1>11, <1>12, <2>2
  <2> QED
    BY <2>1, <2>2
<1>16. WritersHaveSeen'
  <2> SUFFICES ASSUME NEW j \in Clean' \cap InLake', NEW q \in Pollers, polling'[q].pc = "write", current # 0
               PROVE  j \in polling'[q].seen
    BY <1>1 DEF WritersHaveSeen, Writing
  <2>1. CASE j # i
    BY <1>10, <1>11, <2>1 DEF OnceInv, Once, WritersHaveSeen, Writing
  <2>2. CASE j = i
    BY <1>4, <1>7, <1>8, <1>11, <1>12, <2>2 DEF Clean
  <2> QED
    BY <2>1, <2>2
<1>17. SourceHasSeen'
  BY <1>4, <1>8 DEF SourceHasSeen, Writing
<1> QED
  BY <1>13, <1>14, <1>15, <1>16, <1>17 DEF Once

\* A poll ends: the object and the file get what it has seen, but for what the cap drops.
LEMMA PollEndsOnce == \A p \in Pollers : OnceInv /\ PollEnds(p) => Once'
<1> SUFFICES ASSUME NEW p \in Pollers, OnceInv, PollEnds(p) PROVE Once'
  OBVIOUS
<1> DEFINE obj == objs[polling[p].g]
<1>1. /\ polling[p].pc = "write" /\ polling' = [polling EXCEPT ![p] = NoPolling]
      /\ UNCHANGED <<current, feed, written>>
  BY DEF PollEnds
<1>2. PICK kept \in Capped(polling[p].seen) :
        /\ Leaves(p, [obj EXCEPT !.state = [obj.state EXCEPT !.seen = kept]])
        /\ stateFile' = [obj.state EXCEPT !.seen = kept]
        /\ smudged' = smudged \cup (polling[p].seen \ kept)
  BY DEF PollEnds
<1> DEFINE next == [obj.state EXCEPT !.seen = kept]
           left == [obj EXCEPT !.state = next]
<1>3. polling[p].g \in 1..MaxObjs /\ obj \in Object /\ obj.state \in State
  BY <1>1, ObjectOf DEF OnceInv
<1>4. next.seen = kept
  BY <1>3 DEF State
<1> HIDE DEF next
<1>5. left.state = next
  BY <1>3 DEF Object
<1>6. Leaves(p, left) /\ stateFile' = next
  BY <1>2 DEF next
<1> HIDE DEF left
<1>7. polling'[p].pc = "no" /\ \A q \in Pollers \ {p} : polling'[q] = polling[q]
  BY <1>1, NoPollingIsSound DEF OnceInv, SeenInv, SourceTypes
<1>8. Clean' \subseteq Clean /\ InLake' = InLake
  BY <1>1, <1>2 DEF Clean, InLake
<1>9. \A q \in Pollers : polling'[q].pc = "write" => polling[q].pc = "write" /\ polling'[q] = polling[q]
  BY <1>7
<1>10. LakeIsFed' /\ OnceOrSmudged' /\ ToDoIsNew' /\ WritersHaveSeen'
  BY <1>1, <1>8, <1>9 DEF OnceInv, Once, LakeIsFed, OnceOrSmudged, ToDoIsNew, WritersHaveSeen, Writing
<1>11. OneWriter'
  <2> SUFFICES ASSUME NEW i \in Clean', NEW q \in Pollers, polling'[q].pc = "write",
                      (\E r \in Pollers \ {q} : polling'[r].pc = "write") \/ (current # 0 /\ polling'[q].g # current)
               PROVE  i \notin InLake /\ i \notin polling'[q].todo
    BY <1>1, <1>8 DEF OneWriter, Writing
  <2> QED
    BY <1>8, <1>9 DEF OnceInv, Once, OneWriter, Writing
<1>12. SourceHasSeen'
  <2> SUFFICES ASSUME NEW i \in Clean' \cap InLake, current # 0
               PROVE  i \in objs'[current].state.seen /\ i \in stateFile'.seen
    BY <1>1, <1>8 DEF SourceHasSeen
  <2>1. i \in polling[p].seen /\ polling[p].g = current
    BY <1>1, <1>8 DEF OnceInv, Once, WritersHaveSeen, OneWriter, Writing
  <2>2. i \in kept
    BY <1>2, <2>1 DEF Clean
  <2>3. objs'[current] = left
    BY <1>3, <1>6, <2>1 DEF Leaves, OnceInv, SeenInv, SourceTypes
  <2> QED
    BY <1>4, <1>5, <1>6, <2>2, <2>3
<1> QED
  BY <1>10, <1>11, <1>12 DEF Once

LEMMA StepsOnce == OnceInv /\ [SourcesNext]_sourceVars => OnceInv'
<1> SUFFICES ASSUME OnceInv, [SourcesNext]_sourceVars PROVE Once'
  BY SourcesStep DEF OnceInv
<1>1. CASE UNCHANGED sourceVars
  BY <1>1 DEF sourceVars, OnceInv, Once, LakeIsFed, OnceOrSmudged, ToDoIsNew, OneWriter, WritersHaveSeen, SourceHasSeen,
              Clean, InLake, Writing
<1>2. CASE (\E i \in Items : Publish(i)) \/ Add \/ RemoveSource \/ Pause \/ Resume \/ RunnerRestart
  BY <1>2, PublishOnce, RequestsOnce, RestartOnce
<1>3. CASE LoopPolls \/ \E p \in Pollers : ManualPoll(p)
  BY <1>3, EntersOnce DEF LoopPolls, ManualPoll
<1>4. ASSUME NEW p \in Pollers, Poll(p) PROVE Once'
  BY <1>4, FetchedOnce, PollEndsOnce, WritesOnce DEF Poll
<1>5. ASSUME NEW p \in Pollers, Fails(p) PROVE Once'
  BY <1>5, FetchFailsOnce, WritesOnce DEF Fails
<1> QED
  BY <1>1, <1>2, <1>3, <1>4, <1>5 DEF SourcesNext, Outside, SourceRequests

\* An item is written once, however polls, requests and failures cross, but for the
\* causes that WrittenOnce names.
THEOREM NothingIsWrittenTwice == SourcesSpec => []WrittenOnce
<1>1. SourcesInit => OnceInv
  BY SourcesStart, OnceStarts DEF OnceInv
<1>2. OnceInv => WrittenOnce
  BY DEF OnceInv, Once, OnceOrSmudged, WrittenOnce, Clean
<1> QED
  BY <1>1, <1>2, StepsOnce, PTL DEF SourcesSpec
-----------------------------------------------------------------------------
(* Lists. *)

LEMMA TailsAreShifts ==
  ASSUME NEW S, NEW s \in Seq(S), s # << >>
  PROVE  /\ Head(s) = s[1] /\ 1 \in DOMAIN s
         /\ Tail(s) \in Seq(S) /\ Len(Tail(s)) = Len(s) - 1
         /\ \A i \in DOMAIN Tail(s) : i \in Nat /\ i + 1 # 1 /\ i + 1 \in DOMAIN s /\ Tail(s)[i] = s[i + 1]
<1>1. Len(s) \in Nat /\ Len(s) # 0 /\ DOMAIN s = 1..Len(s)
  OBVIOUS
<1>2. Tail(s) \in Seq(S) /\ Len(Tail(s)) = Len(s) - 1 /\ DOMAIN Tail(s) = 1..Len(s) - 1
  BY <1>1
<1>3. \A i \in 1..Len(s) - 1 : Tail(s)[i] = s[i + 1]
  BY <1>1
<1> QED
  BY <1>1, <1>2, <1>3

LEMMA AppendsAreLast ==
  ASSUME NEW S, NEW s \in Seq(S), NEW e \in S
  PROVE  /\ Append(s, e) \in Seq(S) /\ Len(Append(s, e)) = Len(s) + 1 /\ Append(s, e)[Len(s) + 1] = e
         /\ \A i \in DOMAIN s : Append(s, e)[i] = s[i]
         /\ \A i \in DOMAIN Append(s, e) : i \in DOMAIN s \/ i = Len(s) + 1
OBVIOUS
-----------------------------------------------------------------------------
(* The agent's pusher. *)

PusherTypes ==
  /\ pushed \in Nat /\ queue \in Seq(1..pushed) /\ batch \in [Flushes -> Seq(1..pushed)]
  /\ lake \in Seq(1..pushed)

\* A delta waits in one place, of the queue or of a flush, and it is in the lake already
\* only if an answer to a post of it was lost.
QueueOnce == \A i, j \in DOMAIN queue : queue[i] = queue[j] => i = j
BatchesOnce ==
  \A f, g \in Flushes : \A i \in DOMAIN batch[f], j \in DOMAIN batch[g] : batch[f][i] = batch[g][j] => f = g /\ i = j
QueueApart == \A f \in Flushes : \A i \in DOMAIN queue, j \in DOMAIN batch[f] : queue[i] # batch[f][j]
Heard(d) == \A n \in DOMAIN lake : lake[n] = d => d \in unheard
QueueIsNew == \A i \in DOMAIN queue : Heard(queue[i])
BatchesAreNew == \A f \in Flushes : \A i \in DOMAIN batch[f] : Heard(batch[f][i])
PusherInv == PusherTypes /\ QueueOnce /\ BatchesOnce /\ QueueApart /\ QueueIsNew /\ BatchesAreNew /\ PushedOnce

LEMMA PusherStarts == PusherInit => PusherInv
BY DEF PusherInit, PusherInv, PusherTypes, QueueOnce, BatchesOnce, QueueApart, Heard, QueueIsNew, BatchesAreNew, PushedOnce

\* The store appends a delta, or has it as its newest row.
LEMMA StoringOnce ==
  ASSUME PusherInv, NEW d \in 1..pushed, Heard(d)
  PROVE  /\ StoredDelta(d) \in Seq(1..pushed)
         /\ \A i, j \in 1..Len(StoredDelta(d)) :
              StoredDelta(d)[i] = StoredDelta(d)[j] /\ StoredDelta(d)[i] \notin unheard => i = j
         /\ \A n \in DOMAIN StoredDelta(d) : StoredDelta(d)[n] = d \/ \E m \in DOMAIN lake : StoredDelta(d)[n] = lake[m]
<1>1. lake \in Seq(1..pushed)
  BY DEF PusherInv, PusherTypes
<1>2. CASE lake # << >> /\ Last(lake) = d
  BY <1>1, <1>2 DEF StoredDelta, PusherInv, PushedOnce
<1>3. CASE ~(lake # << >> /\ Last(lake) = d)
  <2>1. StoredDelta(d) = Append(lake, d)
    BY <1>3 DEF StoredDelta
  <2>2. /\ Append(lake, d) \in Seq(1..pushed) /\ Len(Append(lake, d)) = Len(lake) + 1 /\ Append(lake, d)[Len(lake) + 1] = d
        /\ \A n \in 1..Len(lake) : Append(lake, d)[n] = lake[n]
    BY <1>1
  <2> QED
    BY <1>1, <2>1, <2>2 DEF PusherInv, PushedOnce, Heard
<1> QED
  BY <1>2, <1>3

LEMMA ListsOfFewer ==
  ASSUME NEW T, NEW S \in SUBSET T, NEW s \in Seq(S)
  PROVE  s \in Seq(T)
<1>1. s \in [1..Len(s) -> S] /\ Len(s) \in Nat
  OBVIOUS
<1>2. s \in [1..Len(s) -> T]
  BY <1>1
<1> QED
  BY <1>1, <1>2

\* What a post takes from a flush is nowhere else.
LEMMA PostsTakeOne ==
  ASSUME PusherInv, NEW f \in Flushes, NEW d \in 1..pushed, Posts(f, d)
  PROVE  /\ batch' \in [Flushes -> Seq(1..pushed)] /\ pushed' = pushed
         /\ \A g \in Flushes : \A i \in DOMAIN batch'[g] :
              /\ batch'[g][i] # d
              /\ \E j \in DOMAIN batch[g] : /\ batch'[g][i] = batch[g][j]
                                            /\ j = IF g = f THEN i + 1 ELSE i
         /\ Heard(d) /\ \A i \in DOMAIN queue : queue[i] # d
<1>1. batch[f] \in Seq(1..pushed) /\ batch[f] # << >> /\ d = Head(batch[f])
  BY DEF Posts, PusherInv, PusherTypes
<1>2. 1 \in DOMAIN batch[f] /\ d = batch[f][1]
  BY <1>1, TailsAreShifts
<1>3. /\ Tail(batch[f]) \in Seq(1..pushed)
      /\ \A i \in DOMAIN Tail(batch[f]) : i + 1 \in DOMAIN batch[f] /\ Tail(batch[f])[i] = batch[f][i + 1] /\ i + 1 # 1
  BY <1>1, TailsAreShifts
<1>4. batch' = [batch EXCEPT ![f] = Tail(batch[f])] /\ pushed' = pushed
  BY DEF Posts
<1>5. batch' \in [Flushes -> Seq(1..pushed)] /\ batch'[f] = Tail(batch[f]) /\ \A g \in Flushes \ {f} : batch'[g] = batch[g]
  BY <1>3, <1>4 DEF PusherInv, PusherTypes
<1>6. \A g \in Flushes : \A i \in DOMAIN batch'[g] : \E j \in DOMAIN batch[g] :
        batch'[g][i] = batch[g][j] /\ j = IF g = f THEN i + 1 ELSE i
  BY <1>3, <1>5
<1>7. \A g \in Flushes : \A i \in DOMAIN batch'[g] : batch'[g][i] # d
  <2> SUFFICES ASSUME NEW g \in Flushes, NEW i \in DOMAIN batch'[g], batch'[g][i] = d PROVE FALSE
    OBVIOUS
  <2>1. \A h \in Flushes : \A j \in DOMAIN batch[h] : batch[h][j] = d => h = f /\ j = 1
    BY <1>2 DEF PusherInv, BatchesOnce
  <2>2. g # f
    <3> SUFFICES ASSUME g = f PROVE FALSE
      OBVIOUS
    <3>1. i \in DOMAIN Tail(batch[f]) /\ Tail(batch[f])[i] = d
      BY <1>5
    <3>2. i + 1 \in DOMAIN batch[f] /\ batch[f][i + 1] = d /\ i + 1 # 1
      BY <1>3, <3>1
    <3> QED
      BY <2>1, <3>2
  <2> QED
    BY <1>5, <2>1, <2>2
<1>8. Heard(d) /\ \A i \in DOMAIN queue : queue[i] # d
  BY <1>2 DEF PusherInv, BatchesAreNew, QueueApart
<1> QED
  BY <1>4, <1>5, <1>6, <1>7, <1>8

\* A step that only takes deltas from the flushes leaves them in one place.
LEMMA BatchesStayApart ==
  ASSUME PusherInv, NEW f \in Flushes, NEW d \in 1..pushed, Posts(f, d)
  PROVE  /\ BatchesOnce'
         /\ \A g \in Flushes : \A i \in DOMAIN queue, j \in DOMAIN batch'[g] : queue[i] # batch'[g][j]
         /\ \A g \in Flushes : \A i \in DOMAIN batch'[g] : Heard(batch'[g][i])
<1>1. \A g \in Flushes : batch[g] \in Seq(1..pushed) /\ batch'[g] \in Seq(1..pushed)
  BY PostsTakeOne DEF PusherInv, PusherTypes
<1>2. BatchesOnce'
  <2> SUFFICES ASSUME NEW g \in Flushes, NEW h \in Flushes, NEW i \in DOMAIN batch'[g], NEW j \in DOMAIN batch'[h],
                      batch'[g][i] = batch'[h][j]
               PROVE  g = h /\ i = j
    BY DEF BatchesOnce
  <2>1. PICK k \in DOMAIN batch[g] : batch'[g][i] = batch[g][k] /\ k = IF g = f THEN i + 1 ELSE i
    BY PostsTakeOne
  <2>2. PICK l \in DOMAIN batch[h] : batch'[h][j] = batch[h][l] /\ l = IF h = f THEN j + 1 ELSE j
    BY PostsTakeOne
  <2>3. g = h /\ k = l
    <3>1. k \in DOMAIN batch[g] /\ l \in DOMAIN batch[h] /\ batch[g][k] = batch[h][l]
      BY <2>1, <2>2
    <3> QED
      BY <3>1 DEF PusherInv, BatchesOnce
  <2>4. i \in Nat /\ j \in Nat
    BY <1>1
  <2> QED
    BY <2>1, <2>2, <2>3, <2>4
<1> QED
  BY <1>2, PostsTakeOne DEF PusherInv, QueueApart, BatchesAreNew

LEMMA PostingKeepsOnce ==
  ASSUME PusherInv, NEW f \in Flushes, PostAccepted(f) \/ PostRefused(f) \/ \E arrived \in BOOLEAN : Raises(f, arrived)
  PROVE  PusherInv'
<1>1. PICK d \in 1..pushed :
        /\ Posts(f, d)
        /\ queue' = queue \/ queue' = Append(queue, d)
        /\ \/ lake' = lake /\ unheard' = unheard
           \/ lake' = StoredDelta(d) /\ unheard' = unheard /\ queue' = queue
           \/ lake' = StoredDelta(d) /\ unheard' = unheard \cup {d}
  BY DEF PostAccepted, PostRefused, Raises, Requeue
<1>2. /\ batch' \in [Flushes -> Seq(1..pushed)] /\ pushed' = pushed
      /\ \A g \in Flushes : \A i \in DOMAIN batch'[g] : batch'[g][i] # d
      /\ Heard(d) /\ \A i \in DOMAIN queue : queue[i] # d
  BY <1>1, PostsTakeOne
<1>3. /\ BatchesOnce'
      /\ \A g \in Flushes : \A i \in DOMAIN queue, j \in DOMAIN batch'[g] : queue[i] # batch'[g][j]
      /\ \A g \in Flushes : \A i \in DOMAIN batch'[g] : Heard(batch'[g][i])
  BY <1>1, BatchesStayApart
<1>4. /\ lake' \in Seq(1..pushed)
      /\ \A i, j \in 1..Len(lake') : lake'[i] = lake'[j] /\ lake'[i] \notin unheard => i = j
      /\ \A n \in DOMAIN lake' : lake'[n] = d \/ \E m \in DOMAIN lake : lake'[n] = lake[m]
      /\ unheard \subseteq unheard'
  BY <1>1, <1>2, StoringOnce, SMTT(30) DEF PusherInv, PusherTypes, PushedOnce
<1>5. queue \in Seq(1..pushed) /\ queue' \in Seq(1..pushed)
  <2>1. queue \in Seq(1..pushed) /\ Append(queue, d) \in Seq(1..pushed)
    BY DEF PusherInv, PusherTypes
  <2> QED
    BY <1>1, <2>1
<1>6. \A i \in DOMAIN queue' : \/ i \in DOMAIN queue /\ queue'[i] = queue[i]
                               \/ i = Len(queue) + 1 /\ queue'[i] = d /\ queue' = Append(queue, d)
  BY <1>1, <1>5
<1>7. PusherTypes' /\ PushedOnce'
  BY <1>2, <1>4, <1>5 DEF PusherTypes, PushedOnce, PusherInv
<1>8. QueueOnce'
  BY <1>2, <1>5, <1>6 DEF QueueOnce, PusherInv
<1>9. QueueApart'
  BY <1>2, <1>3, <1>6 DEF QueueApart
<1>11. queue' = Append(queue, d) => Heard(d)'
  BY <1>1, <1>2, <1>4 DEF Heard
<1>12. QueueIsNew'
  <2> SUFFICES ASSUME NEW i \in DOMAIN queue', NEW n \in DOMAIN lake', lake'[n] = queue'[i] PROVE queue'[i] \in unheard'
    BY DEF QueueIsNew, Heard
  <2>1. CASE i \in DOMAIN queue /\ queue'[i] = queue[i]
    <3>1. queue[i] # d /\ Heard(queue[i])
      BY <1>2, <2>1 DEF QueueIsNew, PusherInv
    <3>2. PICK m \in DOMAIN lake : lake'[n] = lake[m]
      BY <1>4, <2>1, <3>1
    <3> QED
      BY <1>4, <2>1, <3>1, <3>2 DEF Heard
  <2>2. CASE i = Len(queue) + 1 /\ queue'[i] = d /\ queue' = Append(queue, d)
    BY <1>11, <2>2 DEF Heard
  <2> QED
    BY <1>6, <2>1, <2>2
<1>13. BatchesAreNew'
  <2> SUFFICES ASSUME NEW g \in Flushes, NEW i \in DOMAIN batch'[g], NEW n \in DOMAIN lake', lake'[n] = batch'[g][i]
               PROVE  batch'[g][i] \in unheard'
    BY DEF BatchesAreNew, Heard
  <2>1. batch'[g][i] # d /\ Heard(batch'[g][i])
    BY <1>2, <1>3
  <2>2. PICK m \in DOMAIN lake : lake'[n] = lake[m]
    BY <1>4, <2>1
  <2> QED
    BY <1>4, <2>1, <2>2 DEF Heard
<1> QED
  BY <1>3, <1>7, <1>8, <1>9, <1>12, <1>13 DEF PusherInv

LEMMA PushingKeepsOnce ==
  ASSUME PusherInv, PushDelta
  PROVE  PusherInv'
<1>1. pushed' = pushed + 1 /\ queue' = Append(queue, pushed + 1) /\ UNCHANGED <<batch, lake, unheard>>
  BY DEF PushDelta
<1>2. /\ pushed \in Nat /\ queue \in Seq(1..pushed) /\ batch \in [Flushes -> Seq(1..pushed)] /\ lake \in Seq(1..pushed)
  BY DEF PusherInv, PusherTypes
<1>3. 1..pushed \subseteq 1..pushed + 1 /\ pushed + 1 \in 1..pushed + 1
  BY <1>2
<1>4. queue \in Seq(1..pushed + 1) /\ lake \in Seq(1..pushed + 1) /\ \A f \in Flushes : batch[f] \in Seq(1..pushed + 1)
  BY <1>2, <1>3
<1>5. /\ queue' \in Seq(1..pushed + 1)
      /\ \A i \in DOMAIN queue' : \/ i \in DOMAIN queue /\ queue'[i] = queue[i]
                                  \/ i = Len(queue) + 1 /\ queue'[i] = pushed + 1
  <2> DEFINE e == pushed + 1
  <2>1. e \in 1..e /\ queue \in Seq(1..e) /\ queue' = Append(queue, e)
    BY <1>1, <1>3, <1>4
  <2> HIDE DEF e
  <2>2. /\ Append(queue, e) \in Seq(1..e) /\ Append(queue, e)[Len(queue) + 1] = e
        /\ \A i \in DOMAIN queue : Append(queue, e)[i] = queue[i]
        /\ \A i \in DOMAIN Append(queue, e) : i \in DOMAIN queue \/ i = Len(queue) + 1
    BY <2>1, AppendsAreLast
  <2>3. queue' \in Seq(1..e)
    BY <2>1, <2>2
  <2>4. \A i \in DOMAIN queue' : \/ i \in DOMAIN queue /\ queue'[i] = queue[i]
                                 \/ i = Len(queue) + 1 /\ queue'[i] = e
    <3> TAKE i \in DOMAIN queue'
    <3>1. i \in DOMAIN Append(queue, e) /\ queue'[i] = Append(queue, e)[i]
      BY <2>1
    <3> QED
      BY <2>2, <3>1
  <2>5. e = pushed + 1
    BY DEF e
  <2> QED
    BY <2>3, <2>4, <2>5
<1>6. PusherTypes'
  BY <1>1, <1>2, <1>4, <1>5 DEF PusherTypes
<1>7. /\ \A i \in DOMAIN queue : queue[i] # pushed + 1
      /\ \A n \in DOMAIN lake : lake[n] # pushed + 1
      /\ \A f \in Flushes : \A j \in DOMAIN batch[f] : batch[f][j] # pushed + 1
  <2>1. \A n \in 1..pushed : n # pushed + 1
    BY <1>2
  <2>2. \A f \in Flushes : \A j \in DOMAIN batch[f] : batch[f][j] \in 1..pushed
    BY <1>2
  <2> QED
    BY <1>2, <2>1, <2>2
<1>8. QueueOnce' /\ QueueApart'
  BY <1>1, <1>5, <1>7 DEF PusherInv, QueueOnce, QueueApart
<1>9. QueueIsNew' /\ BatchesAreNew'
  BY <1>1, <1>5, <1>7 DEF PusherInv, QueueIsNew, BatchesAreNew, Heard
<1> QED
  BY <1>1, <1>6, <1>8, <1>9 DEF PusherInv, BatchesOnce, PushedOnce

\* A flush takes over what the queue had.
LEMMA FlushingKeepsOnce ==
  ASSUME PusherInv, NEW f \in Flushes, Flush(f)
  PROVE  PusherInv'
<1>1. /\ batch' = [batch EXCEPT ![f] = queue] /\ batch[f] = << >> /\ queue' = << >>
      /\ UNCHANGED <<pushed, lake, unheard>>
  BY DEF Flush, Left
<1>2. /\ batch' \in [Flushes -> Seq(1..pushed)] /\ batch'[f] = queue /\ \A g \in Flushes \ {f} : batch'[g] = batch[g]
  BY <1>1 DEF PusherInv, PusherTypes
<1>3. PusherTypes' /\ QueueOnce' /\ QueueApart' /\ QueueIsNew' /\ PushedOnce'
  BY <1>1, <1>2 DEF PusherInv, PusherTypes, QueueOnce, QueueApart, QueueIsNew, PushedOnce
<1>4. BatchesOnce'
  BY <1>2 DEF PusherInv, BatchesOnce, QueueOnce, QueueApart
<1>5. BatchesAreNew'
  BY <1>1, <1>2 DEF PusherInv, BatchesAreNew, QueueIsNew, Heard
<1> QED
  BY <1>3, <1>4, <1>5 DEF PusherInv

\* A set of deltas, in any order, has each of them once.
LEMMA SetsAreListedOnce ==
  ASSUME NEW S, IsFiniteSet(S)
  PROVE  /\ SetToSeq(S) \in Seq(S)
         /\ \A i, j \in DOMAIN SetToSeq(S) : SetToSeq(S)[i] = SetToSeq(S)[j] => i = j
<1>1. Cardinality(S) \in Nat /\ ExistsBijection(1..Cardinality(S), S)
  BY FS_CardinalityType
<1>2. PICK b : b \in [1..Cardinality(S) -> S] /\ IsInjective(b)
  BY <1>1 DEF ExistsBijection, Bijection, Injection
<1>3. SetToSeq(S) \in [1..Cardinality(S) -> S] /\ IsInjective(SetToSeq(S))
  BY <1>2 DEF SetToSeq
<1> QED
  BY <1>1, <1>3 DEF IsInjective

LEMMA StoppingKeepsOnce ==
  ASSUME PusherInv, NEW arrived \in SUBSET (1..MaxDeltas), Stop(arrived)
  PROVE  PusherInv'
<1>1. /\ queue' = << >> /\ batch' = [f \in Flushes |-> << >>] /\ UNCHANGED <<pushed, unheard>>
      /\ lake' = lake \o SetToSeq(arrived)
  BY DEF Stop
<1>2. \A d \in arrived : d \in 1..pushed /\ Heard(d)
  <2> SUFFICES ASSUME NEW d \in arrived PROVE d \in 1..pushed /\ Heard(d)
    OBVIOUS
  <2>1. \/ \E f \in Flushes : batch[f] # << >> /\ d = Head(batch[f])
        \/ queue # << >> /\ d = Head(queue)
    BY DEF Stop, ToSet
  <2>2. CASE queue # << >> /\ d = Head(queue)
    BY <2>2, TailsAreShifts DEF PusherInv, PusherTypes, QueueIsNew
  <2>3. ASSUME NEW f \in Flushes, batch[f] # << >>, d = Head(batch[f]) PROVE d \in 1..pushed /\ Heard(d)
    BY <2>3, TailsAreShifts DEF PusherInv, PusherTypes, BatchesAreNew
  <2> QED
    BY <2>1, <2>2, <2>3
<1>3. IsFiniteSet(arrived)
  <2>1. IsFiniteSet(1..pushed)
    BY FS_Interval DEF PusherInv, PusherTypes
  <2> QED
    BY <1>2, <2>1, FS_Subset
<1> DEFINE last == SetToSeq(arrived)
<1>4. last \in Seq(arrived) /\ \A i, j \in DOMAIN last : last[i] = last[j] => i = j
  BY <1>3, SetsAreListedOnce
<1>5. lake \in Seq(1..pushed) /\ last \in Seq(1..pushed) /\ \A n \in DOMAIN last : Heard(last[n])
  <2>1. \A n \in DOMAIN last : last[n] \in arrived
    BY <1>4
  <2>2. last \in Seq(1..pushed)
    <3>1. arrived \subseteq 1..pushed
      BY <1>2
    <3> QED
      BY <1>4, <3>1, ListsOfFewer
  <2> QED
    BY <1>2, <2>1, <2>2 DEF PusherInv, PusherTypes
<1>6. lake' = lake \o last
  BY <1>1
<1> HIDE DEF last
<1>7. /\ lake' \in Seq(1..pushed) /\ Len(lake') = Len(lake) + Len(last)
      /\ \A n \in 1..Len(lake) : lake'[n] = lake[n]
      /\ \A n \in 1..Len(lake') : n > Len(lake) => n - Len(lake) \in DOMAIN last /\ lake'[n] = last[n - Len(lake)]
  BY <1>5, <1>6
<1>8. PushedOnce'
  <2> SUFFICES ASSUME NEW i \in 1..Len(lake'), NEW j \in 1..Len(lake'), lake'[i] = lake'[j], lake'[i] \notin unheard
               PROVE  i = j
    BY <1>1 DEF PushedOnce
  <2>1. CASE i <= Len(lake) /\ j <= Len(lake)
    <3>1. i \in 1..Len(lake) /\ j \in 1..Len(lake)
      BY <1>5, <1>7, <2>1
    <3> QED
      BY <1>7, <3>1 DEF PusherInv, PushedOnce
  <2>2. ASSUME NEW k \in 1..Len(lake'), NEW l \in 1..Len(lake'), k <= Len(lake), l > Len(lake), lake'[k] = lake'[l]
        PROVE  lake'[k] \in unheard
    <3>1. k \in DOMAIN lake /\ l - Len(lake) \in DOMAIN last
      BY <1>5, <1>7, <2>2
    <3> QED
      BY <1>5, <1>7, <2>2, <3>1 DEF Heard
  <2>3. CASE i > Len(lake) /\ j > Len(lake)
    <3>1. i - Len(lake) = j - Len(lake)
      BY <1>4, <1>7, <2>3
    <3> QED
      BY <1>5, <1>7, <3>1
  <2> QED
    BY <1>5, <1>7, <2>1, <2>2, <2>3
<1>9. PusherTypes'
  BY <1>1, <1>7 DEF PusherTypes, PusherInv
<1>10. QueueOnce' /\ BatchesOnce' /\ QueueApart' /\ QueueIsNew' /\ BatchesAreNew'
  BY <1>1 DEF QueueOnce, BatchesOnce, QueueApart, QueueIsNew, BatchesAreNew
<1> QED
  BY <1>8, <1>9, <1>10 DEF PusherInv

LEMMA PusherStepsKeepOnce ==
  ASSUME PusherInv, [PusherNext]_pusherVars
  PROVE  PusherInv'
<1>1. CASE PushDelta
  BY <1>1, PushingKeepsOnce
<1>2. ASSUME NEW f \in Flushes, Flush(f) PROVE PusherInv'
  BY <1>2, FlushingKeepsOnce
<1>3. ASSUME NEW f \in Flushes, PostAccepted(f) \/ PostRefused(f) \/ \E arrived \in BOOLEAN : Raises(f, arrived)
      PROVE  PusherInv'
  BY <1>3, PostingKeepsOnce
<1>4. ASSUME NEW arrived \in SUBSET (1..MaxDeltas), Stop(arrived) PROVE PusherInv'
  BY <1>4, StoppingKeepsOnce
<1>5. CASE UNCHANGED pusherVars
  BY <1>5 DEF pusherVars, PusherInv, PusherTypes, QueueOnce, BatchesOnce, QueueApart, Heard, QueueIsNew, BatchesAreNew, PushedOnce
<1> QED
  BY <1>1, <1>2, <1>3, <1>4, <1>5 DEF PusherNext

\* A delta of the agent is written once, however flushes overlap, posts fail and the agent
\* stops, unless the answer to a post of it was lost.
THEOREM DeltasArePushedOnce == PusherSpec => []PushedOnce
<1>1. PusherInv => PushedOnce
  BY DEF PusherInv
<1> QED
  BY <1>1, PusherStarts, PusherStepsKeepOnce, PTL DEF PusherSpec

-----------------------------------------------------------------------------
(* Transfers. *)

ShelfRow == [body : Contents, vec : Contents \cup {"none"}]
Transfers ==
  [pc : {"idle", "line", "insert", "ok", "raised"}, mode : {"skip", "overwrite", "batch", "migrate"}, lines : Seq(Line),
   at : Nat \ {0}, over : [Keys -> ShelfRow \cup {Absent}], base : SUBSET Keys, aborted : BOOLEAN,
   written : Nat, skipped : Nat, errors : Nat]
Holding(held) == held.key \in Keys \cup {"none"} /\ (held.key # "none" => held.vec \in Contents \cup {"none"})
TransferTypes ==
  /\ shelf \in [Keys -> ShelfRow \cup {Absent}] /\ tx \in Transfers /\ stale \subseteq Keys /\ rewrites \in Nat
  /\ Holding(loop) /\ Holding(refill)
  /\ (tx.pc = "idle" => tx.at = 1 /\ ~tx.aborted) /\ (tx.pc = "insert" => tx.at <= Len(tx.lines))

\* The vectors in the transaction are true as well, and so is what a reader has in hand.
TrueVector(row) == row.vec \in {"none", row.body}
RowsAreTrue == \A k \in Keys \ stale : TrueVector(shelf[k]) /\ TrueVector(tx.over[k])
HeldIsTrue(held) == held.key \in Keys \ stale => IsThere(held.key) /\ held.vec = shelf[held.key].body
LocksEnd == \A k \in Keys : Locked(k) => tx.pc \in {"line", "insert"}
\* What the transfer has found is there, and a line that is inserted after its look-up is not of it.
FoundIsThere ==
  /\ \A k \in tx.base : IsThere(k)
  /\ tx.mode = "skip" /\ tx.pc = "insert" => TheLine.key \notin tx.base
\* A transfer whose lines are in order, or a migration, has brought in every line so far.
InOrder == tx.mode = "migrate" \/ Flaws = {}
GoodSoFar ==
  tx.pc \in {"line", "insert"} /\ InOrder /\ rewrites = 0 =>
    /\ ~tx.aborted
    /\ \A i \in DOMAIN tx.lines : i < tx.at /\ tx.lines[i].flaw # "shape" => Sees(tx.lines[i].key) # Absent
TransferInv ==
  /\ TransferTypes /\ RowsAreTrue /\ HeldIsTrue(loop) /\ HeldIsTrue(refill) /\ LocksEnd
  /\ FoundIsThere /\ OldRowsStay /\ GoodSoFar /\ GoodRowsGetIn

LEMMA AbsentIsNoRow ==
  /\ Absent \notin ShelfRow /\ Absent.body = "none" /\ Absent.vec = "none" /\ TrueVector(Absent)
  /\ \A row \in ShelfRow \cup {Absent} : row # Absent <=> row.body \in Contents
BY TransferBounds DEF Absent, ShelfRow, TrueVector

LEMMA TransferStarts == TransferInit => TransferInv
<1> SUFFICES ASSUME TransferInit PROVE TransferInv
  OBVIOUS
<1>1. NoTransfer \in Transfers
  BY DEF NoTransfer, Transfers
<1>2. /\ tx = NoTransfer /\ tx.pc = "idle" /\ tx.at = 1 /\ ~tx.aborted /\ tx.base = {} /\ \A k \in Keys : tx.over[k] = Absent
  BY DEF TransferInit, NoTransfer
<1>3. /\ shelf \in [Keys -> ShelfRow \cup {Absent}] /\ \A k \in Keys : shelf[k] = Absent
  BY DEF TransferInit
<1>4. loop.key = "none" /\ refill.key = "none" /\ stale = {} /\ rewrites = 0
  BY DEF TransferInit
<1>5. TransferTypes
  BY <1>1, <1>2, <1>3, <1>4 DEF TransferTypes, Holding
<1>6. RowsAreTrue
  BY <1>2, <1>3, AbsentIsNoRow DEF RowsAreTrue
<1>7. HeldIsTrue(loop) /\ HeldIsTrue(refill) /\ LocksEnd /\ FoundIsThere /\ OldRowsStay /\ GoodSoFar /\ GoodRowsGetIn
  BY <1>2, <1>3, <1>4, TransferBounds DEF HeldIsTrue, LocksEnd, FoundIsThere, Locked, OldRowsStay, GoodSoFar, GoodRowsGetIn
<1> QED
  BY <1>5, <1>6, <1>7 DEF TransferInv

\* The types of the rows and of the fields of the transfer.
LEMMA TransferFields ==
  ASSUME TransferTypes
  PROVE  /\ \A k \in Keys : shelf[k] \in ShelfRow \cup {Absent} /\ tx.over[k] \in ShelfRow \cup {Absent}
         /\ tx.pc \in {"idle", "line", "insert", "ok", "raised"} /\ tx.mode \in {"skip", "overwrite", "batch", "migrate"}
         /\ tx.lines \in Seq(Line) /\ tx.at \in Nat \ {0} /\ tx.over \in [Keys -> ShelfRow \cup {Absent}]
         /\ tx.base \subseteq Keys /\ tx.aborted \in BOOLEAN
         /\ \A k \in Keys : Sees(k) \in ShelfRow \cup {Absent}
BY DEF TransferTypes, Transfers, Sees

\* A line at hand is one of the lines.
LEMMA LineAtHand ==
  ASSUME TransferTypes, AtLine \/ tx.pc = "insert"
  PROVE  /\ tx.at \in DOMAIN tx.lines /\ TheLine = tx.lines[tx.at] /\ TheLine \in Line
         /\ TheLine.key \in Keys /\ TheLine.body \in Contents /\ TheLine.flaw \in {"none", "shape", "text"}
<1>1. tx.at \in DOMAIN tx.lines /\ tx.lines \in Seq(Line)
  BY TransferFields DEF TransferTypes, AtLine
<1>2. TheLine = tx.lines[tx.at] /\ TheLine \in Line
  BY <1>1 DEF TheLine
<1> QED
  BY <1>1, <1>2 DEF Line

LEMMA NextLineFields ==
  ASSUME TransferTypes
  PROVE  /\ NextLine \in Transfers /\ NextLine.pc = "line" /\ NextLine.at = tx.at + 1 /\ NextLine.over = tx.over
         /\ NextLine.aborted = tx.aborted /\ NextLine.lines = tx.lines /\ NextLine.base = tx.base /\ NextLine.mode = tx.mode
<1>1. tx \in Transfers /\ tx.at + 1 \in Nat \ {0}
  BY DEF TransferTypes, Transfers
<1> QED
  BY <1>1 DEF NextLine, Transfers

\* What is counted of a line, and kept of it.
ErrorCounted(t, lost) == [t EXCEPT !.errors = @ + 1, !.aborted = lost]
RowCounted(t, over) == [t EXCEPT !.written = @ + 1, !.over = over]
SkipCounted(t) == [t EXCEPT !.skipped = @ + 1]

LEMMA CountingSkips ==
  ASSUME NEW t \in Transfers, NEW u, u = SkipCounted(t)
  PROVE  /\ u \in Transfers
         /\ u.pc = t.pc /\ u.over = t.over /\ u.aborted = t.aborted /\ u.at = t.at
         /\ u.lines = t.lines /\ u.base = t.base /\ u.mode = t.mode
<1>1. t.skipped + 1 \in Nat
  BY DEF Transfers
<1>2. /\ u.skipped = t.skipped + 1 /\ u.pc = t.pc /\ u.over = t.over /\ u.aborted = t.aborted /\ u.at = t.at
      /\ u.lines = t.lines /\ u.base = t.base /\ u.mode = t.mode
  BY DEF Transfers, SkipCounted
<1>3. u \in Transfers
  BY <1>1 DEF Transfers, SkipCounted
<1> QED
  BY <1>2, <1>3

LEMMA CountingErrors ==
  ASSUME NEW t \in Transfers, NEW lost \in BOOLEAN, NEW u, u = ErrorCounted(t, lost)
  PROVE  /\ u \in Transfers /\ u.aborted = lost
         /\ u.pc = t.pc /\ u.over = t.over /\ u.at = t.at /\ u.lines = t.lines /\ u.base = t.base /\ u.mode = t.mode
<1>1. t.errors + 1 \in Nat
  BY DEF Transfers
<1>2. /\ u.aborted = lost /\ u.errors = t.errors + 1
      /\ u.pc = t.pc /\ u.over = t.over /\ u.at = t.at /\ u.lines = t.lines /\ u.base = t.base /\ u.mode = t.mode
  BY DEF Transfers, ErrorCounted
<1>3. u \in Transfers
  BY <1>1 DEF Transfers, ErrorCounted
<1> QED
  BY <1>2, <1>3

LEMMA CountingRows ==
  ASSUME NEW t \in Transfers, NEW over \in [Keys -> ShelfRow \cup {Absent}], NEW u, u = RowCounted(t, over)
  PROVE  /\ u \in Transfers /\ u.over = over
         /\ u.pc = t.pc /\ u.aborted = t.aborted /\ u.at = t.at /\ u.lines = t.lines /\ u.base = t.base /\ u.mode = t.mode
<1>1. t.written + 1 \in Nat
  BY DEF Transfers
<1>2. /\ u.over = over /\ u.written = t.written + 1
      /\ u.pc = t.pc /\ u.aborted = t.aborted /\ u.at = t.at /\ u.lines = t.lines /\ u.base = t.base /\ u.mode = t.mode
  BY DEF Transfers, RowCounted
<1>3. u \in Transfers
  BY <1>1 DEF Transfers, RowCounted
<1> QED
  BY <1>2, <1>3

-----------------------------------------------------------------------------
\* An exception undoes what the transaction has written.
LEMMA RaisingIsSafe ==
  ASSUME TransferInv, tx' = Raise, UNCHANGED <<shelf, loop, refill, stale, rewrites>>
  PROVE  TransferInv'
<1>1. /\ tx' \in Transfers /\ tx'.pc = "raised" /\ tx'.mode = tx.mode /\ tx'.base = tx.base
      /\ tx'.over = [k \in Keys |-> Absent]
  BY DEF Raise, NoTransfer, TransferInv, TransferTypes, Transfers
<1>2. TransferTypes'
  BY <1>1 DEF TransferInv, TransferTypes, Holding
<1>3. RowsAreTrue'
  BY <1>1, AbsentIsNoRow DEF TransferInv, RowsAreTrue, TrueVector
<1>4. HeldIsTrue(loop)' /\ HeldIsTrue(refill)'
  BY DEF TransferInv, HeldIsTrue, IsThere
<1>5. LocksEnd' /\ FoundIsThere' /\ OldRowsStay' /\ GoodSoFar' /\ GoodRowsGetIn'
  BY <1>1 DEF TransferInv, TransferTypes, Transfers, LocksEnd, Locked, FoundIsThere, OldRowsStay, GoodSoFar, GoodRowsGetIn, IsThere
<1> QED
  BY <1>2, <1>3, <1>4, <1>5 DEF TransferInv

LEMMA BeginningIsSafe ==
  ASSUME TransferInv, NEW mode \in Modes, NEW lines \in Lines, BeginTransfer(mode, lines)
  PROVE  TransferInv'
<1>1. lines \in Seq(Line)
  BY DEF Lines
<1>2. /\ tx.pc = "idle" /\ tx.at = 1 /\ ~tx.aborted /\ UNCHANGED <<shelf, loop, refill, stale, rewrites>>
      /\ tx' = [tx EXCEPT !.pc = "line", !.mode = mode, !.lines = lines, !.base = {k \in Keys : IsThere(k)}]
  BY DEF BeginTransfer, TransferInv, TransferTypes
<1>3. mode \in {"skip", "overwrite", "batch", "migrate"}
  BY TransferBounds
<1>4. /\ tx' \in Transfers /\ tx'.pc = "line" /\ tx'.over = tx.over /\ tx'.at = 1 /\ ~tx'.aborted /\ tx'.lines = lines
      /\ tx'.base = {k \in Keys : IsThere(k)}
  BY <1>1, <1>2, <1>3 DEF TransferInv, TransferTypes, Transfers
<1>5. TransferTypes'
  BY <1>2, <1>4 DEF TransferInv, TransferTypes, Holding
<1>6. RowsAreTrue' /\ HeldIsTrue(loop)' /\ HeldIsTrue(refill)'
  BY <1>2, <1>4 DEF TransferInv, RowsAreTrue, HeldIsTrue, IsThere, TrueVector
<1>7. \A k \in Keys : tx'.over[k] = Absent
  BY <1>2, <1>4 DEF TransferInv, LocksEnd, Locked
<1>8. LocksEnd' /\ OldRowsStay' /\ FoundIsThere'
  BY <1>2, <1>4, <1>7 DEF LocksEnd, OldRowsStay, FoundIsThere, IsThere
<1>9. GoodSoFar' /\ GoodRowsGetIn'
  BY <1>1, <1>4 DEF GoodSoFar, GoodRowsGetIn
<1> QED
  BY <1>5, <1>6, <1>8, <1>9 DEF TransferInv

LEMMA LookingUpIsSafe ==
  ASSUME TransferInv, LookUp
  PROVE  TransferInv'
<1> DEFINE key == TheLine.key
<1>1. /\ AtLine /\ tx.mode = "skip" /\ UNCHANGED <<shelf, loop, refill, stale, rewrites>>
      /\ tx.pc = "line" /\ tx.at \in DOMAIN tx.lines /\ TheLine = tx.lines[tx.at] /\ key \in Keys
  BY LineAtHand DEF LookUp, AtLine, TransferInv
<1>2. \/ tx' = Raise
      \/ Sees(key) # Absent /\ tx' = [NextLine EXCEPT !.skipped = @ + 1]
      \/ Sees(key) = Absent /\ tx' = [tx EXCEPT !.pc = "insert"]
  BY DEF LookUp
<1>3. CASE tx' = Raise
  BY <1>1, <1>3, RaisingIsSafe
<1>4. CASE Sees(key) # Absent /\ tx' = [NextLine EXCEPT !.skipped = @ + 1]
  <2>1. /\ tx' \in Transfers /\ tx'.pc = "line" /\ tx'.over = tx.over /\ tx'.at = tx.at + 1 /\ tx'.aborted = tx.aborted
        /\ tx'.lines = tx.lines /\ tx'.base = tx.base /\ tx'.mode = tx.mode
    <3>1. PICK t \in Transfers :
            /\ t = NextLine /\ t.pc = "line" /\ t.over = tx.over /\ t.at = tx.at + 1 /\ t.aborted = tx.aborted
            /\ t.lines = tx.lines /\ t.base = tx.base /\ t.mode = tx.mode
      BY NextLineFields DEF TransferInv
    <3>2. tx' = SkipCounted(t)
      BY <1>4, <3>1 DEF SkipCounted
    <3> QED
      BY <3>1, <3>2, CountingSkips
  <2>2. TransferTypes'
    BY <1>1, <2>1 DEF TransferInv, TransferTypes, Holding
  <2>3. RowsAreTrue' /\ HeldIsTrue(loop)' /\ HeldIsTrue(refill)'
    BY <1>1, <2>1 DEF TransferInv, RowsAreTrue, HeldIsTrue, IsThere, TrueVector
  <2>4. LocksEnd' /\ OldRowsStay' /\ FoundIsThere'
    BY <1>1, <2>1 DEF TransferInv, LocksEnd, OldRowsStay, FoundIsThere, IsThere, Locked
  <2>5. \A i \in DOMAIN tx.lines : i < tx.at + 1 => i < tx.at \/ i = tx.at
    BY TransferFields DEF TransferInv
  <2>6. GoodSoFar'
    BY <1>1, <1>4, <2>1, <2>5 DEF TransferInv, GoodSoFar, InOrder, Flaws, Sees, Locked
  <2>7. GoodRowsGetIn'
    BY <2>1 DEF GoodRowsGetIn
  <2> QED
    BY <2>2, <2>3, <2>4, <2>6, <2>7 DEF TransferInv
<1>5. CASE Sees(key) = Absent /\ tx' = [tx EXCEPT !.pc = "insert"]
  <2>1. /\ tx' \in Transfers /\ tx'.pc = "insert" /\ tx'.over = tx.over /\ tx'.at = tx.at /\ tx'.aborted = tx.aborted
        /\ tx'.lines = tx.lines /\ tx'.base = tx.base /\ tx'.mode = tx.mode
    BY <1>5 DEF TransferInv, TransferTypes, Transfers
  <2>2. TransferTypes'
    BY <1>1, <2>1 DEF TransferInv, TransferTypes, Holding, AtLine
  <2>3. RowsAreTrue' /\ HeldIsTrue(loop)' /\ HeldIsTrue(refill)'
    BY <1>1, <2>1 DEF TransferInv, RowsAreTrue, HeldIsTrue, IsThere, TrueVector
  <2>4. key \notin tx.base
    BY <1>5 DEF TransferInv, FoundIsThere, IsThere, Sees, Locked
  <2>5. LocksEnd' /\ OldRowsStay' /\ FoundIsThere'
    BY <1>1, <2>1, <2>4 DEF TransferInv, LocksEnd, OldRowsStay, FoundIsThere, IsThere, Locked, TheLine
  <2>6. GoodSoFar' /\ GoodRowsGetIn'
    BY <1>1, <2>1 DEF TransferInv, GoodSoFar, GoodRowsGetIn, InOrder, Flaws, Sees, Locked
  <2> QED
    BY <2>2, <2>3, <2>5, <2>6 DEF TransferInv
<1> QED
  BY <1>2, <1>3, <1>4, <1>5

\* What a statement makes of a row is a row, and its vector is true if the old one's was
\* and the row is not overwritten.
LEMMA InsertedIsARow ==
  ASSUME NEW mode \in {"skip", "overwrite", "batch", "migrate"}, NEW line \in Line, NEW old \in ShelfRow \cup {Absent}
  PROVE  /\ Inserted(mode, line, old) \in ShelfRow /\ Inserted(mode, line, old) # Absent
         /\ TrueVector(old) /\ (old = Absent \/ mode \notin {"skip", "overwrite"}) => TrueVector(Inserted(mode, line, old))
         /\ mode = "migrate" /\ old # Absent => Inserted(mode, line, old) = old
<1>1. line.body \in Contents
  BY DEF Line
<1>2. old.vec \in Contents \cup {"none"}
  BY AbsentIsNoRow DEF ShelfRow
<1>3. Inserted(mode, line, old) \in ShelfRow
  BY <1>1, <1>2, AbsentIsNoRow DEF Inserted, ShelfRow
<1>4. TrueVector(old) /\ (old = Absent \/ mode \notin {"skip", "overwrite"}) => TrueVector(Inserted(mode, line, old))
  BY AbsentIsNoRow DEF Inserted, TrueVector
<1>5. mode = "migrate" /\ old # Absent => Inserted(mode, line, old) = old
  BY DEF Inserted
<1> QED
  BY <1>3, <1>4, <1>5, AbsentIsNoRow

LEMMA InsertingIsSafe ==
  ASSUME TransferInv, InsertLine
  PROVE  TransferInv'
<1> DEFINE line == TheLine
           k == line.key
           old == Sees(line.key)
           fails == line.flaw = "shape" \/ tx.aborted \/ RefusedText(line)
<1>1. /\ UNCHANGED <<shelf, loop, refill, rewrites>> /\ tx.pc \in {"line", "insert"}
      /\ tx.at \in DOMAIN tx.lines /\ line = tx.lines[tx.at] /\ line \in Line /\ k \in Keys /\ line.flaw \in {"none", "shape", "text"}
      /\ tx.pc = "insert" \/ tx.mode # "skip"
  BY LineAtHand DEF InsertLine, AtLine, TransferInv
<1>2. \/ fails /\ tx.mode = "batch" /\ tx' = Raise /\ stale' = stale
      \/ fails /\ tx.mode # "batch" /\ stale' = stale
           /\ tx' = [NextLine EXCEPT !.errors = @ + 1, !.aborted = @ \/ RefusedText(line)]
      \/ ~fails /\ stale' = (IF old # Absent /\ tx.mode \in {"skip", "overwrite"} THEN stale \cup {k} ELSE stale)
           /\ tx' = [NextLine EXCEPT !.written = @ + 1, !.over[k] = Inserted(tx.mode, line, old)]
  BY DEF InsertLine
<1>3. \A i \in DOMAIN tx.lines : i < tx.at + 1 => i < tx.at \/ i = tx.at
  BY TransferFields DEF TransferInv
<1> HIDE DEF line, old, k, fails
<1>4. CASE fails /\ tx.mode = "batch" /\ tx' = Raise /\ stale' = stale
  BY <1>1, <1>4, RaisingIsSafe
<1>5. CASE /\ fails /\ tx.mode # "batch" /\ stale' = stale
           /\ tx' = [NextLine EXCEPT !.errors = @ + 1, !.aborted = @ \/ RefusedText(line)]
  <2>1. PICK lost \in BOOLEAN : lost = (NextLine.aborted \/ RefusedText(line))
    OBVIOUS
  <2>2. tx' = ErrorCounted(NextLine, lost)
    BY <1>5, <2>1 DEF ErrorCounted
  <2>3. /\ tx' \in Transfers
        /\ tx'.pc = "line" /\ tx'.over = tx.over /\ tx'.at = tx.at + 1 /\ tx'.aborted = lost
        /\ tx'.lines = tx.lines /\ tx'.base = tx.base /\ tx'.mode = tx.mode
    BY <2>2, NextLineFields, CountingErrors DEF TransferInv
  <2>4. TransferTypes'
    BY <1>1, <1>5, <2>3 DEF TransferInv, TransferTypes, Holding
  <2>5. RowsAreTrue' /\ HeldIsTrue(loop)' /\ HeldIsTrue(refill)'
    BY <1>1, <1>5, <2>3 DEF TransferInv, RowsAreTrue, HeldIsTrue, IsThere, TrueVector
  <2>6. LocksEnd' /\ OldRowsStay' /\ FoundIsThere'
    BY <1>1, <2>3 DEF TransferInv, LocksEnd, OldRowsStay, FoundIsThere, IsThere, Locked
  <2>7. GoodSoFar'
    <3> SUFFICES ASSUME InOrder, rewrites = 0
                 PROVE  /\ ~tx'.aborted
                        /\ \A i \in DOMAIN tx.lines : i < tx.at + 1 /\ tx.lines[i].flaw # "shape" => Sees(tx.lines[i].key) # Absent
      BY <1>1, <2>3 DEF GoodSoFar, InOrder, Flaws, Sees, Locked
    <3>1. ~tx.aborted
      BY <1>1 DEF TransferInv, GoodSoFar
    <3>2. tx.mode = "migrate"
      BY <1>1, <1>5, <3>1 DEF InOrder, Flaws, RefusedText, fails
    <3>3. ~RefusedText(line) /\ line.flaw = "shape"
      BY <1>5, <3>1, <3>2 DEF RefusedText, fails
    <3> QED
      BY <1>1, <1>3, <2>1, <2>3, <3>1, <3>3, NextLineFields DEF TransferInv, GoodSoFar
  <2>8. GoodRowsGetIn'
    BY <2>3 DEF GoodRowsGetIn
  <2> QED
    BY <2>4, <2>5, <2>6, <2>7, <2>8 DEF TransferInv
<1>6. CASE /\ ~fails /\ stale' = (IF old # Absent /\ tx.mode \in {"skip", "overwrite"} THEN stale \cup {k} ELSE stale)
           /\ tx' = [NextLine EXCEPT !.written = @ + 1, !.over[k] = Inserted(tx.mode, line, old)]
  <2> DEFINE row == Inserted(tx.mode, line, old)
  <2>1. old \in ShelfRow \cup {Absent} /\ old = Sees(k)
    BY <1>1, TransferFields DEF TransferInv, old, k
  <2>2. /\ row \in ShelfRow /\ row # Absent
        /\ TrueVector(old) /\ (old = Absent \/ tx.mode \notin {"skip", "overwrite"}) => TrueVector(row)
        /\ tx.mode = "migrate" /\ old # Absent => row = old
    BY <1>1, <2>1, InsertedIsARow, TransferFields DEF TransferInv
  <2> HIDE DEF row
  <2> DEFINE over == [tx.over EXCEPT ![k] = row]
  <2>3. over \in [Keys -> ShelfRow \cup {Absent}] /\ tx' = RowCounted(NextLine, over)
    BY <1>1, <1>6, <2>2, NextLineFields, TransferFields DEF row, TransferInv, RowCounted
  <2> HIDE DEF over
  <2>4. /\ tx' \in Transfers /\ tx'.pc = "line" /\ tx'.over = over /\ tx'.at = tx.at + 1
        /\ tx'.aborted = tx.aborted /\ tx'.lines = tx.lines /\ tx'.base = tx.base /\ tx'.mode = tx.mode
    BY <2>3, NextLineFields, CountingRows DEF TransferInv
  <2>5. tx'.over[k] = row /\ \A l \in Keys \ {k} : tx'.over[l] = tx.over[l]
    BY <1>1, <2>4, TransferFields DEF TransferInv, over
  <2>6. stale \subseteq stale' /\ stale' \subseteq Keys /\ (k \notin stale' => old = Absent \/ tx.mode \notin {"skip", "overwrite"})
    BY <1>1, <1>6 DEF TransferInv, TransferTypes
  <2>7. TransferTypes'
    BY <1>1, <2>4, <2>6 DEF TransferInv, TransferTypes, Holding
  <2>8. \A l \in Keys \ stale : TrueVector(Sees(l))
    BY DEF TransferInv, RowsAreTrue, Sees
  <2>9. RowsAreTrue'
    <3>1. k \notin stale' => TrueVector(row)
      BY <1>1, <2>1, <2>2, <2>6, <2>8
    <3> QED
      BY <1>1, <2>5, <2>6, <3>1 DEF TransferInv, RowsAreTrue, TrueVector
  <2>10. HeldIsTrue(loop)' /\ HeldIsTrue(refill)'
    BY <1>1, <2>6 DEF TransferInv, HeldIsTrue, IsThere
  <2>11. LocksEnd' /\ FoundIsThere'
    BY <1>1, <2>4 DEF LocksEnd, FoundIsThere, TransferInv, IsThere
  <2>12. OldRowsStay'
    <3> SUFFICES ASSUME tx.mode \in {"skip", "migrate"}, NEW l \in tx.base PROVE tx'.over[l] \in {Absent, shelf[l]}
      BY <1>1, <2>4 DEF OldRowsStay
    <3>1. l \in Keys /\ IsThere(l) /\ tx.over[l] \in {Absent, shelf[l]}
      BY TransferFields DEF TransferInv, FoundIsThere, OldRowsStay
    <3>2. CASE l # k
      BY <2>5, <3>1, <3>2
    <3>3. CASE l = k
      <4>1. tx.mode = "migrate"
        BY <1>1, <3>3 DEF TransferInv, FoundIsThere, k, line
      <4>2. old = shelf[k] /\ old # Absent
        BY <2>1, <3>1, <3>3 DEF Sees, Locked, IsThere
      <4> QED
        BY <2>2, <2>5, <3>3, <4>1, <4>2
    <3> QED
      BY <3>2, <3>3
  <2>13. \A l \in Keys : Sees(l) # Absent \/ l = k => Sees(l)' # Absent
    BY <1>1, <2>2, <2>5 DEF Sees, Locked
  <2>14. GoodSoFar'
    <3> SUFFICES ASSUME InOrder, rewrites = 0
                 PROVE  /\ ~tx'.aborted
                        /\ \A i \in DOMAIN tx.lines : i < tx.at + 1 /\ tx.lines[i].flaw # "shape" => Sees(tx.lines[i].key)' # Absent
      BY <1>1, <2>4 DEF GoodSoFar, InOrder, Flaws
    <3>1. /\ ~tx.aborted
          /\ \A i \in DOMAIN tx.lines : i < tx.at /\ tx.lines[i].flaw # "shape" => Sees(tx.lines[i].key) # Absent
      BY <1>1 DEF TransferInv, GoodSoFar
    <3>2. \A i \in DOMAIN tx.lines : tx.lines[i].key \in Keys
      <4>1. tx.lines \in Seq(Line) /\ \A any \in Line : any.key \in Keys
        BY TransferFields DEF TransferInv, Line
      <4> QED
        BY <4>1
    <3>3. tx.lines[tx.at].key = k
      BY <1>1 DEF k
    <3> QED
      BY <1>3, <2>4, <2>13, <3>1, <3>2, <3>3
  <2>15. GoodRowsGetIn'
    BY <2>4 DEF GoodRowsGetIn
  <2> QED
    BY <2>7, <2>9, <2>10, <2>11, <2>12, <2>14, <2>15 DEF TransferInv
<1> QED
  BY <1>2, <1>4, <1>5, <1>6

LEMMA CommittingIsSafe ==
  ASSUME TransferInv, Commit
  PROVE  TransferInv'
<1>1. /\ tx.pc = "line" /\ tx.at > Len(tx.lines) /\ UNCHANGED <<loop, refill, rewrites>>
      /\ shelf' = [k \in Keys |-> IF ~tx.aborted /\ Locked(k) THEN tx.over[k] ELSE shelf[k]]
      /\ stale' = stale \cup {k \in Keys : InHand(k) /\ shelf'[k].body # shelf[k].body}
      /\ tx' = [tx EXCEPT !.pc = "ok", !.over = NoTransfer.over]
  BY DEF Commit
<1>2. /\ tx' \in Transfers /\ tx'.pc = "ok" /\ tx'.over = [k \in Keys |-> Absent] /\ tx'.at = tx.at
      /\ tx'.lines = tx.lines /\ tx'.base = tx.base /\ tx'.mode = tx.mode
  BY <1>1 DEF NoTransfer, TransferInv, TransferTypes, Transfers
<1>3. /\ shelf' \in [Keys -> ShelfRow \cup {Absent}] /\ stale \subseteq stale' /\ stale' \subseteq Keys
      /\ \A k \in Keys : shelf'[k] \in {shelf[k], tx.over[k]} /\ (IsThere(k) => shelf'[k] # Absent)
  BY <1>1, TransferFields DEF TransferInv, TransferTypes, IsThere, Locked
<1>4. TransferTypes'
  BY <1>1, <1>2, <1>3 DEF TransferInv, TransferTypes, Holding
<1>5. RowsAreTrue'
  BY <1>2, <1>3, AbsentIsNoRow DEF TransferInv, RowsAreTrue
<1>6. ASSUME NEW held, HeldIsTrue(held), held.key \in Keys \ stale', InHand(held.key)
      PROVE  shelf'[held.key] # Absent /\ held.vec = shelf'[held.key].body
  BY <1>1, <1>3, <1>6 DEF HeldIsTrue
<1>7. HeldIsTrue(loop)' /\ HeldIsTrue(refill)'
  <2>1. HeldIsTrue(loop) /\ HeldIsTrue(refill) /\ InHand(loop.key) /\ InHand(refill.key)
    BY DEF TransferInv, InHand
  <2> QED
    BY <1>1, <1>6, <2>1 DEF HeldIsTrue, IsThere
<1>8. LocksEnd' /\ OldRowsStay' /\ FoundIsThere'
  BY <1>2, <1>3, TransferFields DEF TransferInv, LocksEnd, Locked, OldRowsStay, FoundIsThere, IsThere
<1>9. GoodSoFar'
  BY <1>2 DEF GoodSoFar
<1>10. GoodRowsGetIn'
  <2> SUFFICES ASSUME InOrder, rewrites = 0, NEW i \in DOMAIN tx.lines, tx.lines[i].flaw # "shape"
               PROVE  shelf'[tx.lines[i].key] # Absent
    BY <1>1, <1>2 DEF GoodRowsGetIn, InOrder, Flaws, IsThere
  <2>1. i < tx.at /\ tx.lines[i].key \in Keys
    <3>1. tx.lines \in Seq(Line) /\ tx.at \in Nat /\ \A any \in Line : any.key \in Keys
      BY TransferFields DEF TransferInv, Line
    <3> QED
      BY <1>1, <3>1
  <2>2. ~tx.aborted /\ Sees(tx.lines[i].key) # Absent
    BY <1>1, <2>1 DEF TransferInv, GoodSoFar
  <2> QED
    BY <1>1, <2>1, <2>2 DEF Sees, Locked
<1> QED
  BY <1>4, <1>5, <1>7, <1>8, <1>9, <1>10 DEF TransferInv

\* A row that is written or deleted beside the transfer is not one that it has locked.
LEMMA WritingIsSafe ==
  ASSUME TransferInv, NEW k \in Keys, DeleteRow(k) \/ \E body \in Contents : WriteRow(k, body)
  PROVE  TransferInv'
<1>1. PICK row \in ShelfRow \cup {Absent} :
        /\ shelf' = [shelf EXCEPT ![k] = row] /\ row.vec = "none"
        /\ IF row = Absent THEN tx' = [tx EXCEPT !.base = @ \ {k}] ELSE tx' = tx
        /\ ~Locked(k) /\ rewrites' = rewrites + 1 /\ UNCHANGED <<loop, refill>>
        /\ stale' = IF InHand(k) THEN stale \cup {k} ELSE stale \ {k}
  <2> DEFINE Wrote(row) ==
        /\ shelf' = [shelf EXCEPT ![k] = row] /\ row.vec = "none"
        /\ IF row = Absent THEN tx' = [tx EXCEPT !.base = @ \ {k}] ELSE tx' = tx
        /\ ~Locked(k) /\ rewrites' = rewrites + 1 /\ UNCHANGED <<loop, refill>>
        /\ stale' = IF InHand(k) THEN stale \cup {k} ELSE stale \ {k}
  <2>1. ASSUME DeleteRow(k) PROVE Wrote(Absent)
    <3>1. Absent.vec = "none"
      BY DEF Absent
    <3> QED
      BY <2>1, <3>1 DEF DeleteRow, RowChanges
  <2>2. ASSUME NEW body \in Contents, WriteRow(k, body)
        PROVE  /\ Upsert(body) \in ShelfRow /\ Upsert(body).vec = "none" /\ Upsert(body) # Absent
               /\ shelf' = [shelf EXCEPT ![k] = Upsert(body)] /\ tx' = tx
               /\ ~Locked(k) /\ rewrites' = rewrites + 1 /\ UNCHANGED <<loop, refill>>
               /\ stale' = IF InHand(k) THEN stale \cup {k} ELSE stale \ {k}
    <3>1. Upsert(body) \in ShelfRow /\ Upsert(body).vec = "none"
      BY DEF Upsert, ShelfRow
    <3> QED
      BY <2>2, <3>1, AbsentIsNoRow DEF WriteRow, RowChanges
  <2>3. ASSUME NEW body \in Contents, WriteRow(k, body) PROVE Wrote(Upsert(body))
    BY <2>2, <2>3
  <2>4. \A body \in Contents : WriteRow(k, body) => Upsert(body) \in ShelfRow
    BY <2>2
  <2> HIDE DEF Wrote
  <2>5. \E row \in ShelfRow \cup {Absent} : Wrote(row)
    BY <2>1, <2>3, <2>4
  <2> QED
    BY <2>5 DEF Wrote
<1>2. /\ tx' \in Transfers /\ tx'.over = tx.over /\ tx'.pc = tx.pc /\ tx'.at = tx.at /\ tx'.aborted = tx.aborted
      /\ tx'.lines = tx.lines /\ tx'.mode = tx.mode
      /\ tx'.base \subseteq tx.base /\ (row = Absent => k \notin tx'.base)
  BY <1>1 DEF TransferInv, TransferTypes, Transfers
<1>3. /\ shelf' \in [Keys -> ShelfRow \cup {Absent}] /\ shelf'[k] = row
      /\ \A l \in Keys \ {k} : shelf'[l] = shelf[l] /\ (l \in stale <=> l \in stale')
      /\ stale' \subseteq Keys /\ (InHand(k) => k \in stale') /\ rewrites' \in Nat \ {0}
  BY <1>1 DEF TransferInv, TransferTypes
<1>4. TransferTypes'
  BY <1>1, <1>2, <1>3 DEF TransferInv, TransferTypes, Holding
<1>5. RowsAreTrue'
  <2>1. TrueVector(row) /\ tx.over[k] = Absent
    BY <1>1 DEF TrueVector, Locked
  <2> QED
    BY <1>2, <1>3, <2>1, AbsentIsNoRow DEF TransferInv, RowsAreTrue, TrueVector
<1>6. HeldIsTrue(loop)' /\ HeldIsTrue(refill)'
  BY <1>1, <1>3 DEF TransferInv, HeldIsTrue, IsThere, InHand
<1>7. LocksEnd' /\ FoundIsThere'
  BY <1>1, <1>2, <1>3, TransferFields DEF TransferInv, LocksEnd, Locked, FoundIsThere, IsThere, TheLine
<1>8. OldRowsStay'
  <2>1. \A l \in tx.base : l \in Keys
    BY TransferFields DEF TransferInv
  <2> QED
    BY <1>1, <1>2, <1>3, <2>1 DEF TransferInv, OldRowsStay, Locked
<1>9. GoodSoFar' /\ GoodRowsGetIn'
  BY <1>3 DEF GoodSoFar, GoodRowsGetIn
<1> QED
  BY <1>4, <1>5, <1>6, <1>7, <1>8, <1>9 DEF TransferInv

\* The loop and the backfill take the content, or a true vector, of a row that is there.
LEMMA ReadingIsSafe ==
  ASSUME TransferInv, NEW k \in Keys, EmbedReads(k) \/ BackfillReads(k)
  PROVE  TransferInv'
<1>1. PICK vec \in Contents \cup {"none"} :
        /\ IsThere(k) /\ (k \notin stale => vec = shelf[k].body)
        /\ \/ loop' = [key |-> k, vec |-> vec] /\ refill' = refill
           \/ refill' = [key |-> k, vec |-> vec] /\ loop' = loop
        /\ UNCHANGED <<shelf, tx, stale, rewrites>>
  <2>1. shelf[k] \in ShelfRow \cup {Absent} /\ (k \notin stale => shelf[k].vec \in {"none", shelf[k].body})
    BY TransferFields DEF TransferInv, RowsAreTrue, TrueVector
  <2>2. CASE EmbedReads(k)
    <3>1. shelf[k].body \in Contents /\ IsThere(k)
      BY <2>1, <2>2, AbsentIsNoRow DEF EmbedReads, IsThere
    <3> QED
      BY <2>2, <3>1 DEF EmbedReads
  <2>3. CASE BackfillReads(k)
    <3>1. shelf[k] # Absent
      BY <2>3, AbsentIsNoRow DEF BackfillReads
    <3>2. shelf[k].vec \in Contents \cup {"none"} /\ shelf[k].vec # "none"
      BY <2>1, <2>3, <3>1 DEF BackfillReads, ShelfRow
    <3> QED
      BY <2>1, <2>3, <3>1, <3>2 DEF BackfillReads, IsThere
  <2> QED
    BY <2>2, <2>3
<1>2. TransferTypes'
  BY <1>1 DEF TransferInv, TransferTypes, Holding
<1>3. HeldIsTrue(loop)' /\ HeldIsTrue(refill)'
  BY <1>1 DEF TransferInv, HeldIsTrue, IsThere
<1>4. RowsAreTrue' /\ LocksEnd' /\ FoundIsThere' /\ OldRowsStay' /\ GoodSoFar' /\ GoodRowsGetIn'
  BY <1>1 DEF TransferInv, RowsAreTrue, LocksEnd, Locked, FoundIsThere, TheLine, OldRowsStay, GoodSoFar, InOrder, Flaws,
              GoodRowsGetIn, Sees, IsThere
<1> QED
  BY <1>2, <1>3, <1>4 DEF TransferInv

\* A vector that is stored is true of a row that has not changed, and is nobody's content.
LEMMA StoringIsSafe ==
  ASSUME TransferInv, EmbedStores \/ BackfillStores
  PROVE  TransferInv'
<1>1. PICK held : /\ HeldIsTrue(held) /\ Holding(held) /\ UpdateEmbeddings(held)
                  /\ UNCHANGED <<tx, stale, rewrites>>
                  /\ loop' = loop \/ loop' = [key |-> "none"]
                  /\ refill' = refill \/ refill' = [key |-> "none"]
  BY DEF EmbedStores, BackfillStores, TransferInv, TransferTypes
<1> DEFINE k == held.key
<1>2. k \in Keys /\ held.vec \in Contents \cup {"none"} /\ ~Locked(k)
  BY <1>1 DEF UpdateEmbeddings, Holding
<1> HIDE DEF k
<1>3. /\ shelf' \in [Keys -> ShelfRow \cup {Absent}]
      /\ \A l \in Keys \ {k} : shelf'[l] = shelf[l]
      /\ \A l \in Keys : shelf'[l].body = shelf[l].body /\ (shelf[l] = Absent <=> shelf'[l] = Absent)
      /\ k \notin stale => TrueVector(shelf'[k])
  <2>1. shelf \in [Keys -> ShelfRow \cup {Absent}]
    BY DEF TransferInv, TransferTypes
  <2>2. CASE ~IsThere(k)
    <3>1. shelf' = shelf
      BY <1>1, <2>2 DEF UpdateEmbeddings, k
    <3> QED
      BY <1>2, <2>1, <3>1 DEF TransferInv, RowsAreTrue
  <2>3. CASE IsThere(k)
    <3> DEFINE row == [shelf[k] EXCEPT !.vec = held.vec]
    <3>1. shelf' = [shelf EXCEPT ![k] = row]
      BY <1>1, <2>3 DEF UpdateEmbeddings, k
    <3>2. shelf[k] \in ShelfRow
      BY <1>2, <2>1, <2>3 DEF IsThere
    <3>3. row \in ShelfRow /\ row.body = shelf[k].body /\ row.vec = held.vec
      BY <1>2, <3>2 DEF ShelfRow
    <3>4. k \notin stale => TrueVector(row)
      BY <1>1, <1>2, <3>3 DEF HeldIsTrue, TrueVector, k
    <3> HIDE DEF row
    <3>5. row # Absent
      BY <3>3, AbsentIsNoRow
    <3>6. shelf' \in [Keys -> ShelfRow \cup {Absent}] /\ shelf'[k] = row /\ \A l \in Keys \ {k} : shelf'[l] = shelf[l]
      BY <1>2, <2>1, <3>1, <3>3
    <3> QED
      BY <2>3, <3>3, <3>4, <3>5, <3>6 DEF IsThere
  <2> QED
    BY <2>2, <2>3
<1>4. TransferTypes'
  BY <1>1, <1>3 DEF TransferInv, TransferTypes, Holding
<1>5. RowsAreTrue'
  BY <1>1, <1>3 DEF TransferInv, RowsAreTrue, TrueVector
<1>6. HeldIsTrue(loop)' /\ HeldIsTrue(refill)'
  BY <1>1, <1>3, TransferBounds DEF TransferInv, HeldIsTrue, IsThere
<1>7. \A l \in Keys : tx.over[l] # Absent => l # k
  BY <1>2 DEF Locked
<1>8. \A l \in tx.base : l \in Keys
  BY TransferFields DEF TransferInv
<1>9. OldRowsStay'
  BY <1>1, <1>3, <1>7, <1>8 DEF TransferInv, OldRowsStay
<1>10. LocksEnd' /\ FoundIsThere'
  BY <1>1, <1>3, <1>8 DEF TransferInv, LocksEnd, Locked, FoundIsThere, IsThere, TheLine
<1>11. \A i \in DOMAIN tx.lines : tx.lines[i].key \in Keys
  <2>1. tx.lines \in Seq(Line) /\ \A any \in Line : any.key \in Keys
    BY TransferFields DEF TransferInv, Line
  <2> QED
    BY <2>1
<1>12. \A l \in Keys : Sees(l) # Absent => Sees(l)' # Absent
  BY <1>1, <1>3 DEF Sees, Locked
<1>13. GoodSoFar'
  BY <1>1, <1>11, <1>12 DEF TransferInv, GoodSoFar, InOrder, Flaws
<1>14. GoodRowsGetIn'
  BY <1>1, <1>3, <1>11 DEF TransferInv, GoodRowsGetIn, Flaws, IsThere
<1> QED
  BY <1>4, <1>5, <1>6, <1>9, <1>10, <1>13, <1>14 DEF TransferInv

LEMMA TransferStepsAreSafe ==
  ASSUME TransferInv, [TransferNext]_transferVars
  PROVE  TransferInv'
<1>1. ASSUME NEW mode \in Modes, NEW lines \in Lines, BeginTransfer(mode, lines) PROVE TransferInv'
  BY <1>1, BeginningIsSafe
<1>2. CASE LookUp \/ InsertLine \/ Commit
  BY <1>2, LookingUpIsSafe, InsertingIsSafe, CommittingIsSafe
<1>3. CASE Breaks
  BY <1>3, RaisingIsSafe DEF Breaks
<1>4. ASSUME NEW k \in Keys, DeleteRow(k) \/ \E body \in Contents : WriteRow(k, body) PROVE TransferInv'
  BY <1>4, WritingIsSafe
<1>5. ASSUME NEW k \in Keys, EmbedReads(k) \/ BackfillReads(k) PROVE TransferInv'
  BY <1>5, ReadingIsSafe
<1>6. CASE EmbedStores \/ BackfillStores
  BY <1>6, StoringIsSafe
<1>7. CASE UNCHANGED transferVars
  BY <1>7 DEF transferVars, TransferInv, TransferTypes, Holding, RowsAreTrue, TrueVector, HeldIsTrue, LocksEnd, Locked, FoundIsThere,
              TheLine, OldRowsStay, GoodSoFar, InOrder, Flaws, GoodRowsGetIn, Sees, IsThere
<1> QED
  BY <1>1, <1>2, <1>3, <1>4, <1>5, <1>6, <1>7 DEF TransferNext

\* Whatever is written, deleted and embedded beside it, a transfer spares the rows that
\* are there when it skips, counts what it does, and leaves vectors that are their rows'.
THEOREM TransfersStayTrue == TransferSpec => []TransfersAreTrue
<1>1. TransferInv => TransfersAreTrue
  BY DEF TransferInv, TransfersAreTrue, RowsAreTrue, TrueVector, VectorsAreTrue
<1> QED
  BY <1>1, TransferStarts, TransferStepsAreSafe, PTL DEF TransferSpec

-----------------------------------------------------------------------------
(* The agent's plugins. *)

Changed == [thing : Things, value : Values]
Polls == [on : BOOLEAN, start : 0..MaxStarts, thing : Things \cup {0}, read : BOOLEAN, value : Values]
WatchersTypes ==
  /\ plugin \in {"entities", "notes"} /\ world \in [Things -> Values]
  /\ starts \in 1..MaxStarts /\ objects \in [1..MaxStarts -> [Things -> Values]] /\ stateJson \in [Things -> Values]
  /\ round \in [Rounds -> Polls] /\ \A r \in Rounds : round[r].on => round[r].start \in 1..starts /\ round[r].thing \in Things
  /\ reported \in [Things -> Values] /\ waiting \in Seq(Changed) /\ stories \in [Things -> Seq(Values)]
  /\ astray \subseteq Things

\* What is seen is in the file, of entities at any time, of notes while the plugin does not
\* run; and the watcher has reported of a note what was seen.
FileIsCurrent == plugin = "entities" \/ running = {} => \A t \in Things \ astray : stateJson[t] = Seen[t]
ReportsAreSeen == plugin = "notes" => \A t \in Things : reported[t] # 0 => Seen[t] = reported[t]
NotesAreNotPolled == plugin = "notes" => \A r \in Rounds : ~round[r].on

TellsChanges(t) ==
  /\ \A i \in 1..Len(stories[t]) - 1 : stories[t][i] # stories[t][i + 1]
  /\ \A i, j \in StoryPlaces(t) : Follows(t, i, j) => ValueAt(t, i) # ValueAt(t, j)
  /\ \A i \in StoryPlaces(t) : NewestAt(t, i) => ValueAt(t, i) = Seen[t]

WatchersInv == WatchersTypes /\ FileIsCurrent /\ ReportsAreSeen /\ NotesAreNotPolled /\ NoEchoes

LEMMA EchoesByThing == NoEchoes <=> \A t \in Things \ astray : TellsChanges(t)
BY DEF NoEchoes, TellsChanges

LEMMA WatchersStart == WatchersInit => WatchersInv
<1> SUFFICES ASSUME WatchersInit PROVE WatchersInv
  OBVIOUS
<1>1. NoneSeen \in [Things -> Values] /\ NoRound \in Polls /\ MaxStarts \in Nat \ {0}
  BY WatchersBounds DEF NoneSeen, NoRound, Polls, Values
<1>2. WatchersTypes
  BY <1>1 DEF WatchersInit, WatchersTypes, Values, NoRound
<1>3. Seen = NoneSeen
  BY <1>1 DEF WatchersInit, Seen
<1>4. FileIsCurrent /\ ReportsAreSeen /\ NotesAreNotPolled
  BY <1>3 DEF WatchersInit, FileIsCurrent, ReportsAreSeen, NotesAreNotPolled, NoneSeen, NoRound
<1>5. \A t \in Things : StoryPlaces(t) = {} /\ stories[t] = << >>
  BY DEF WatchersInit, StoryPlaces
<1>6. NoEchoes
  BY <1>5, EchoesByThing DEF TellsChanges
<1> QED
  BY <1>2, <1>4, <1>6 DEF WatchersInv

LEMMA WaitingIsTyped ==
  ASSUME WatchersInv
  PROVE  /\ Len(waiting) \in Nat /\ DOMAIN waiting = 1..Len(waiting)
         /\ \A i \in 1..Len(waiting) : waiting[i].thing \in Things /\ waiting[i].value \in Values
         /\ \A t \in Things : StoryPlaces(t) \subseteq 0..Len(waiting)
<1>1. waiting \in Seq(Changed)
  BY DEF WatchersInv, WatchersTypes
<1>2. Len(waiting) \in Nat /\ DOMAIN waiting = 1..Len(waiting) /\ \A i \in 1..Len(waiting) : waiting[i] \in Changed
  BY <1>1
<1>3. \A c \in Changed : c.thing \in Things /\ c.value \in Values
  BY DEF Changed
<1>4. \A t \in Things : StoryPlaces(t) \subseteq 0..Len(waiting)
  BY DEF StoryPlaces
<1> QED
  BY <1>2, <1>3, <1>4

\* What does not touch the rows of a thing, nor what is seen of it, leaves them true.
LEMMA OtherRowsStay ==
  ASSUME NEW t \in Things, TellsChanges(t), stories'[t] = stories[t], Seen'[t] = Seen[t],
         StoryPlaces(t)' = StoryPlaces(t),
         \A i \in StoryPlaces(t) : ValueAt(t, i)' = ValueAt(t, i)
  PROVE  TellsChanges(t)'
<1>1. \A i, j \in StoryPlaces(t) : Follows(t, i, j)' <=> Follows(t, i, j)
  BY DEF Follows
<1>2. \A i \in StoryPlaces(t) : NewestAt(t, i)' <=> NewestAt(t, i)
  BY DEF NewestAt
<1> QED
  BY <1>1, <1>2 DEF TellsChanges

\* A change that is pushed differs from the newest row of its thing.
LEMMA PushedIsNews ==
  ASSUME WatchersInv, NEW t \in Things, NEW v \in Values, v # Seen[t] \/ t \in astray, PushChange(t, v), stories' = stories,
         Seen'[t] = v, \A u \in Things \ {t} : Seen'[u] = Seen[u], astray' = astray
  PROVE  NoEchoes'
<1>0. PICK n : n = Len(waiting) + 1
  OBVIOUS
<1>1. /\ waiting' \in Seq(Changed) /\ Len(waiting') = n /\ n \in Nat /\ waiting'[n] = [thing |-> t, value |-> v]
      /\ \A i \in 1..Len(waiting) : waiting'[i] = waiting[i]
  <2>1. waiting \in Seq(Changed) /\ [thing |-> t, value |-> v] \in Changed
    BY DEF WatchersInv, WatchersTypes, Changed
  <2> QED
    BY <1>0, <2>1 DEF PushChange
<1>2. Len(waiting) \in Nat /\ \A u \in Things : StoryPlaces(u) \subseteq 0..Len(waiting)
  BY WaitingIsTyped
<1>3. \A u \in Things : \A i \in 0..Len(waiting) : ValueAt(u, i)' = ValueAt(u, i) /\ (i \in StoryPlaces(u)' <=> i \in StoryPlaces(u))
  BY <1>0, <1>1, <1>2 DEF ValueAt, StoryPlaces
<1>4. \A u \in Things : StoryPlaces(u)' \subseteq 0..n /\ (n \in StoryPlaces(u)' <=> u = t)
  <2> DEFINE change == [thing |-> t, value |-> v]
  <2>1. change.thing = t /\ waiting'[n] = change /\ n # 0 /\ n \in 0..n
    BY <1>0, <1>1, <1>2
  <2>2. waiting'[n].thing = t
    BY <2>1
  <2> HIDE DEF change
  <2> QED
    BY <1>1, <2>1, <2>2 DEF StoryPlaces
<1>5. ValueAt(t, n)' = v
  BY <1>0, <1>1, <1>2 DEF ValueAt
<1>6. ASSUME NEW u \in Things \ astray PROVE TellsChanges(u)'
  <2>1. TellsChanges(u) /\ stories'[u] = stories[u]
    BY EchoesByThing DEF WatchersInv
  <2>2. CASE u # t
    <3>1. StoryPlaces(u)' = StoryPlaces(u)
      <4>1. \A i \in 0..n : i # n => i \in 0..Len(waiting)
        BY <1>0, <1>2
      <4>2. n \notin StoryPlaces(u)' /\ StoryPlaces(u)' \subseteq 0..n /\ StoryPlaces(u) \subseteq 0..Len(waiting)
        BY <1>0, <1>2, <1>4, <2>2
      <4> QED
        BY <1>3, <4>1, <4>2
    <3> QED
      BY <1>0, <1>2, <1>3, <2>1, <2>2, <3>1, OtherRowsStay
  <2>3. CASE u = t
    <3>1. StoryPlaces(t)' = StoryPlaces(t) \cup {n}
      BY <1>0, <1>2, <1>3, <1>4
    <3>2. ASSUME NEW i \in StoryPlaces(t)', NEW j \in StoryPlaces(t)', Follows(t, i, j)'
          PROVE  ValueAt(t, i)' # ValueAt(t, j)'
      <4>1. i \in StoryPlaces(t) /\ i \in 0..Len(waiting) /\ i < j
        BY <1>0, <1>2, <3>1, <3>2 DEF Follows
      <4>2. CASE j = n
        <5>1. NewestAt(t, i)
          BY <1>0, <1>2, <3>1, <3>2, <4>1, <4>2 DEF Follows, NewestAt
        <5>2. ValueAt(t, i) = Seen[t] /\ Seen[t] # v
          BY <2>1, <2>3, <4>1, <5>1 DEF TellsChanges
        <5> QED
          BY <1>3, <1>5, <4>1, <4>2, <5>2
      <4>3. CASE j # n
        <5>1. j \in StoryPlaces(t) /\ j \in 0..Len(waiting) /\ Follows(t, i, j)
          BY <1>0, <1>2, <3>1, <3>2, <4>3 DEF Follows
        <5> QED
          BY <1>3, <2>1, <2>3, <4>1, <5>1 DEF TellsChanges
      <4> QED
        BY <4>2, <4>3
    <3>3. ASSUME NEW i \in StoryPlaces(t)', NewestAt(t, i)' PROVE ValueAt(t, i)' = v
      <4>1. i = n
        <5>1. i >= n /\ (i \in StoryPlaces(t) => i \in 0..Len(waiting))
          BY <1>0, <1>2, <3>1, <3>3 DEF NewestAt
        <5> QED
          BY <1>0, <1>2, <3>1, <5>1
      <4> QED
        BY <1>5, <4>1
    <3> QED
      BY <2>1, <2>3, <3>2, <3>3 DEF TellsChanges
  <2> QED
    BY <2>2, <2>3
<1> QED
  BY <1>6, EchoesByThing DEF NoEchoes, TellsChanges

\* The head of the queue becomes its thing's last row, and the others move up.
LEMMA PostingTellsChanges ==
  ASSUME WatchersInv, Posted
  PROVE  NoEchoes'
<1> DEFINE d == Head(waiting)
<1> DEFINE Was(u, i) == IF i = 0 /\ u # d.thing THEN 0 ELSE i + 1
<1>1. /\ waiting # << >> /\ waiting' = Tail(waiting) /\ stories' = [stories EXCEPT ![d.thing] = Append(@, d.value)]
      /\ UNCHANGED <<objects, starts, astray>>
  BY DEF Posted, unwatched
<1>2. /\ d = waiting[1] /\ d.thing \in Things /\ d.value \in Values /\ Len(waiting) \in Nat \ {0}
      /\ Len(waiting') = Len(waiting) - 1
      /\ \A i \in 1..Len(waiting) - 1 : waiting'[i] = waiting[i + 1]
  <2>1. waiting \in Seq(Changed) /\ waiting # << >>
    BY <1>1 DEF WatchersInv, WatchersTypes
  <2>2. Head(waiting) = waiting[1] /\ 1 \in 1..Len(waiting) /\ Len(waiting) \in Nat \ {0}
    BY <2>1, TailsAreShifts
  <2>3. Len(Tail(waiting)) = Len(waiting) - 1 /\ \A i \in 1..Len(waiting) - 1 : Tail(waiting)[i] = waiting[i + 1]
    BY <2>1
  <2> QED
    BY <1>1, <2>2, <2>3, WaitingIsTyped
<1>3. /\ \A u \in Things \ {d.thing} : stories'[u] = stories[u]
      /\ stories'[d.thing] = Append(stories[d.thing], d.value) /\ \A u \in Things : stories[u] \in Seq(Values)
  BY <1>1, <1>2 DEF WatchersInv, WatchersTypes
<1> HIDE DEF d
<1>4. /\ stories'[d.thing] # << >> /\ Len(stories'[d.thing]) = Len(stories[d.thing]) + 1 /\ Len(stories[d.thing]) \in Nat
      /\ stories'[d.thing][Len(stories[d.thing]) + 1] = d.value
      /\ \A i \in 1..Len(stories[d.thing]) : stories'[d.thing][i] = stories[d.thing][i]
  BY <1>2, <1>3, AppendsAreLast
<1>5. ASSUME NEW u \in Things, NEW i \in 0..Len(waiting) - 1
      PROVE  /\ i \in StoryPlaces(u)' <=> Was(u, i) \in StoryPlaces(u)
             /\ i \in StoryPlaces(u)' => ValueAt(u, i)' = ValueAt(u, Was(u, i))
  <2>1. CASE i = 0 /\ u = d.thing
    BY <1>2, <1>3, <1>4, <2>1 DEF StoryPlaces, ValueAt, Last
  <2>2. CASE i = 0 /\ u # d.thing
    BY <1>2, <1>3, <2>2 DEF StoryPlaces, ValueAt
  <2>3. CASE i # 0
    <3>1. i \in 1..Len(waiting) - 1 /\ i + 1 \in 1..Len(waiting) /\ i + 1 # 0
      BY <1>2, <2>3
    <3> QED
      BY <1>2, <2>3, <3>1 DEF StoryPlaces, ValueAt
  <2> QED
    BY <2>1, <2>2, <2>3
<1>6. ASSUME NEW u \in Things, NEW k \in StoryPlaces(u), k # 0 \/ u # d.thing
      PROVE  \E i \in StoryPlaces(u)' : Was(u, i) = k
  <2>1. k \in 0..Len(waiting) /\ (u # d.thing => k # 1)
    BY <1>2 DEF StoryPlaces
  <2>2. CASE k = 0
    <3>1. 0 \in 0..Len(waiting) - 1 /\ Was(u, 0) = k
      BY <1>2, <1>6, <2>2
    <3> QED
      BY <1>5, <3>1
  <2>3. CASE k # 0
    <3>1. k - 1 \in 0..Len(waiting) - 1 /\ Was(u, k - 1) = k
      BY <1>2, <2>1, <2>3
    <3> QED
      BY <1>5, <3>1
  <2> QED
    BY <2>2, <2>3
<1>7. \A u \in Things : StoryPlaces(u)' \subseteq 0..Len(waiting) - 1
  BY <1>2 DEF StoryPlaces
<1>8. \A u \in Things : \A i, j \in Nat : i < j <=> Was(u, i) < Was(u, j)
  OBVIOUS
<1>9. ASSUME NEW u \in Things \ astray PROVE TellsChanges(u)'
  <2>1. TellsChanges(u)
    BY EchoesByThing DEF WatchersInv
  <2>2. ASSUME NEW i \in 1..Len(stories'[u]) - 1 PROVE stories'[u][i] # stories'[u][i + 1]
    <3>1. CASE u # d.thing
      BY <1>3, <2>1, <2>2, <3>1 DEF TellsChanges
    <3>2. CASE u = d.thing /\ i # Len(stories[u])
      <4>1. i \in 1..Len(stories[u]) - 1 /\ i \in 1..Len(stories[u]) /\ i + 1 \in 1..Len(stories[u])
        BY <1>4, <3>2
      <4> QED
        BY <1>4, <2>1, <3>2, <4>1 DEF TellsChanges
    <3>3. CASE u = d.thing /\ i = Len(stories[u])
      <4>1. stories[u] # << >> /\ 0 \in StoryPlaces(u) /\ 1 \in StoryPlaces(u)
        BY <1>2, <1>3, <1>4, <3>3 DEF StoryPlaces
      <4>2. Follows(u, 0, 1)
        BY DEF Follows, StoryPlaces
      <4>3. ValueAt(u, 0) = stories[u][i] /\ ValueAt(u, 1) = d.value
        BY <1>2, <3>3 DEF ValueAt, Last
      <4> QED
        BY <1>4, <2>1, <3>3, <4>1, <4>2, <4>3 DEF TellsChanges
    <3> QED
      BY <3>1, <3>2, <3>3
  <2>3. \A i \in StoryPlaces(u)' : /\ i \in Nat /\ Was(u, i) \in StoryPlaces(u)
                                   /\ ValueAt(u, i)' = ValueAt(u, Was(u, i))
    BY <1>2, <1>5, <1>7
  <2>4. ASSUME NEW i \in StoryPlaces(u)', NEW j \in StoryPlaces(u)', Follows(u, i, j)'
        PROVE  ValueAt(u, i)' # ValueAt(u, j)'
    <3>1. Was(u, i) < Was(u, j)
      BY <1>8, <2>3, <2>4 DEF Follows
    <3>2. ASSUME NEW k \in StoryPlaces(u), Was(u, i) < k, k < Was(u, j) PROVE FALSE
      <4>1. k # 0
        BY <2>3, <3>2
      <4>2. PICK l \in StoryPlaces(u)' : Was(u, l) = k
        BY <1>6, <4>1
      <4>3. i < l /\ l < j
        BY <1>8, <2>3, <3>2, <4>2
      <4> QED
        BY <2>4, <4>3 DEF Follows
    <3>3. Follows(u, Was(u, i), Was(u, j))
      BY <3>1, <3>2 DEF Follows
    <3> QED
      BY <2>1, <2>3, <3>3 DEF TellsChanges
  <2>5. ASSUME NEW i \in StoryPlaces(u)', NewestAt(u, i)' PROVE ValueAt(u, i)' = Seen[u]
    <3>1. ASSUME NEW k \in StoryPlaces(u) PROVE k <= Was(u, i)
      <4>1. CASE k = 0
        BY <2>3, <4>1
      <4>2. CASE k # 0
        <5>1. PICK l \in StoryPlaces(u)' : Was(u, l) = k
          BY <1>6, <4>2
        <5>2. l <= i /\ l \in Nat /\ i \in Nat
          BY <2>3, <2>5, <5>1 DEF NewestAt
        <5> QED
          BY <1>8, <5>1, <5>2
      <4> QED
        BY <4>1, <4>2
    <3>2. NewestAt(u, Was(u, i))
      BY <3>1 DEF NewestAt
    <3> QED
      BY <2>1, <2>3, <3>2 DEF TellsChanges
  <2>6. Seen' = Seen
    BY <1>1 DEF Seen
  <2> QED
    BY <2>2, <2>4, <2>5, <2>6 DEF TellsChanges
<1> QED
  BY <1>1, <1>9, EchoesByThing DEF NoEchoes, TellsChanges

\* Steps that touch neither what is seen, nor the file, nor the rows.
LEMMA EchoesStay ==
  ASSUME WatchersInv, UNCHANGED <<objects, starts, waiting, stories, astray>>
  PROVE  NoEchoes' /\ Seen' = Seen
<1>1. Seen' = Seen
  BY DEF Seen
<1>2. \A t \in Things \ astray : TellsChanges(t)'
  <2> TAKE t \in Things \ astray
  <2>1. StoryPlaces(t)' = StoryPlaces(t) /\ \A i \in StoryPlaces(t) : ValueAt(t, i)' = ValueAt(t, i)
    BY DEF StoryPlaces, ValueAt
  <2>2. TellsChanges(t)
    BY EchoesByThing DEF WatchersInv
  <2> QED
    BY <1>1, <2>1, <2>2, OtherRowsStay
<1> QED
  BY <1>1, <1>2 DEF NoEchoes, TellsChanges

LEMMA PollsAreTyped ==
  ASSUME WatchersInv, NEW r \in Rounds
  PROVE  /\ NoRound \in Polls /\ ~NoRound.on /\ round[r] \in Polls /\ round[r].value \in Values
         /\ round[r].on => round[r].start \in 1..starts /\ round[r].thing \in Things
         /\ starts \in 1..MaxStarts /\ MaxStarts \in Nat
<1>1. NoRound \in Polls /\ ~NoRound.on /\ MaxStarts \in Nat
  BY WatchersBounds DEF NoRound, Polls, Values
<1>2. round[r] \in Polls /\ (round[r].on => round[r].start \in 1..starts /\ round[r].thing \in Things) /\ starts \in 1..MaxStarts
  BY DEF WatchersInv, WatchersTypes
<1>3. \A p \in Polls : p.value \in Values
  BY DEF Polls
<1> QED
  BY <1>1, <1>2, <1>3

\* A poll that begins, goes on or ends.
LEMMA PollsStayTyped ==
  ASSUME WatchersInv, NEW r \in Rounds, NEW poll \in Polls,
         poll.on => poll.start \in 1..starts /\ poll.thing \in Things,
         round' = [round EXCEPT ![r] = poll]
  PROVE  /\ round' \in [Rounds -> Polls]
         /\ \A q \in Rounds : round'[q].on => round'[q].start \in 1..starts /\ round'[q].thing \in Things
         /\ (~poll.on => \A q \in Rounds : round'[q].on => round[q].on)
<1>1. round \in [Rounds -> Polls] /\ \A q \in Rounds : round[q].on => round[q].start \in 1..starts /\ round[q].thing \in Things
  BY DEF WatchersInv, WatchersTypes
<1>2. round' \in [Rounds -> Polls] /\ round'[r] = poll /\ \A q \in Rounds \ {r} : round'[q] = round[q]
  BY <1>1
<1> QED
  BY <1>1, <1>2

LEMMA PollingIsSafe ==
  ASSUME WatchersInv, NEW r \in Rounds, TickReads(r) \/ \E t \in Things : TickStarts(r, t)
  PROVE  WatchersInv'
<1>1. /\ UNCHANGED <<unwatched, world, objects, stateJson, reported, waiting, stories, astray>>
      /\ plugin = "entities"
  BY DEF TickReads, TickStarts, WatchersInv, WatchersTypes, NotesAreNotPolled
<1>2. PICK poll \in Polls : (poll.on => poll.start \in 1..starts /\ poll.thing \in Things) /\ round' = [round EXCEPT ![r] = poll]
  <2>1. ASSUME TickReads(r)
        PROVE  \E poll \in Polls : (poll.on => poll.start \in 1..starts /\ poll.thing \in Things) /\ round' = [round EXCEPT ![r] = poll]
    <3>1. PICK was : was = round[r]
      OBVIOUS
    <3>2. was \in Polls /\ was.start \in 1..starts /\ was.thing \in Things
      BY <2>1, <3>1, PollsAreTyped DEF TickReads
    <3>3. world[was.thing] \in Values
      BY <3>2 DEF WatchersInv, WatchersTypes
    <3>4. PICK poll : poll = [was EXCEPT !.read = TRUE, !.value = world[was.thing]]
      OBVIOUS
    <3>5. poll \in Polls /\ poll.start = was.start /\ poll.thing = was.thing
      BY <3>2, <3>3, <3>4 DEF Polls
    <3>6. round' = [round EXCEPT ![r] = poll]
      BY <2>1, <3>1, <3>4 DEF TickReads, WatchersInv, WatchersTypes
    <3> QED
      BY <3>2, <3>5, <3>6
  <2>2. ASSUME NEW t \in Things, TickStarts(r, t)
        PROVE  \E poll \in Polls : (poll.on => poll.start \in 1..starts /\ poll.thing \in Things) /\ round' = [round EXCEPT ![r] = poll]
    <3>1. PICK poll : poll = [NoRound EXCEPT !.on = TRUE, !.start = starts, !.thing = t]
      OBVIOUS
    <3>2. starts \in 1..MaxStarts /\ MaxStarts \in Nat
      BY PollsAreTyped
    <3>3. poll \in Polls /\ poll.start = starts /\ poll.thing = t
      <4>1. poll = [on |-> TRUE, start |-> starts, thing |-> t, read |-> FALSE, value |-> 0]
        BY <3>1 DEF NoRound
      <4>2. starts \in 0..MaxStarts /\ 0 \in Values
        BY <3>2 DEF Values
      <4> QED
        BY <4>1, <4>2 DEF Polls
    <3>4. starts \in 1..starts
      BY <3>2
    <3> QED
      BY <2>2, <3>1, <3>3, <3>4 DEF TickStarts
  <2> QED
    BY <2>1, <2>2
<1>3. /\ round' \in [Rounds -> Polls]
      /\ \A q \in Rounds : round'[q].on => round'[q].start \in 1..starts /\ round'[q].thing \in Things
  BY <1>2, PollsStayTyped
<1>4. NoEchoes' /\ Seen' = Seen
  BY <1>1, EchoesStay DEF unwatched
<1>5. WatchersTypes' /\ FileIsCurrent' /\ ReportsAreSeen' /\ NotesAreNotPolled'
  BY <1>1, <1>3, <1>4 DEF WatchersInv, WatchersTypes, FileIsCurrent, ReportsAreSeen, NotesAreNotPolled, unwatched
<1> QED
  BY <1>4, <1>5 DEF WatchersInv

LEMMA RowsAreTyped ==
  ASSUME WatchersInv, Posted
  PROVE  waiting' \in Seq(Changed) /\ stories' \in [Things -> Seq(Values)]
<1>1. waiting \in Seq(Changed) /\ waiting # << >> /\ stories \in [Things -> Seq(Values)]
  BY DEF Posted, WatchersInv, WatchersTypes
<1>2. PICK d \in Changed : d = Head(waiting)
  BY <1>1
<1>3. d.thing \in Things /\ d.value \in Values
  BY DEF Changed
<1>4. waiting' = Tail(waiting) /\ stories' = [stories EXCEPT ![d.thing] = Append(@, d.value)]
  BY <1>2 DEF Posted
<1>5. Append(stories[d.thing], d.value) \in Seq(Values)
  BY <1>1, <1>3, AppendsAreLast
<1> QED
  BY <1>1, <1>3, <1>4, <1>5, TailsAreShifts

LEMMA PostedIsSafe ==
  ASSUME WatchersInv, Posted
  PROVE  WatchersInv'
<1>1. UNCHANGED <<unwatched, world, objects, stateJson, round, reported, astray>>
  BY DEF Posted
<1>2. WatchersTypes'
  BY <1>1, RowsAreTyped DEF WatchersInv, WatchersTypes, unwatched
<1>3. FileIsCurrent' /\ ReportsAreSeen' /\ NotesAreNotPolled'
  BY <1>1 DEF WatchersInv, FileIsCurrent, ReportsAreSeen, NotesAreNotPolled, unwatched, Seen
<1> QED
  BY <1>2, <1>3, PostingTellsChanges DEF WatchersInv

\* What a start, or the state file, has is of the right kind.
LEMMA SeenIsTyped ==
  ASSUME WatchersInv
  PROVE  /\ Seen \in [Things -> Values] /\ stateJson \in [Things -> Values] /\ NoneSeen \in [Things -> Values]
         /\ \A k \in 1..starts : objects[k] \in [Things -> Values]
BY WatchersBounds DEF WatchersInv, WatchersTypes, Seen, NoneSeen, Values

LEMMA ChangingIsSafe ==
  ASSUME WatchersInv, Persists \/ \E t \in Things : Changes(t)
  PROVE  WatchersInv'
<1>1. UNCHANGED <<plugin, starts, running, objects, round, reported, waiting, stories, astray>>
  BY DEF Persists, Changes, unwatched
<1>2. world' \in [Things -> Values]
  BY DEF Persists, Changes, WatchersInv, WatchersTypes
<1>3. stateJson' = stateJson \/ stateJson' = Seen
  BY DEF Persists, Changes
<1>4. NoEchoes' /\ Seen' = Seen
  BY <1>1, EchoesStay
<1>5. WatchersTypes' /\ FileIsCurrent' /\ ReportsAreSeen' /\ NotesAreNotPolled'
  BY <1>1, <1>2, <1>3, <1>4, SeenIsTyped
  DEF WatchersInv, WatchersTypes, FileIsCurrent, ReportsAreSeen, NotesAreNotPolled
<1> QED
  BY <1>4, <1>5 DEF WatchersInv

\* An object that takes a value, and its change on the queue.
Takes(k, t, v) == objects' = [objects EXCEPT ![k][t] = v] /\ PushChange(t, v)
LEMMA ObjectsTakeValues ==
  ASSUME WatchersInv, NEW k \in 1..starts, NEW t \in Things, NEW v \in Values, Takes(k, t, v)
  PROVE  /\ objects' \in [1..MaxStarts -> [Things -> Values]] /\ waiting' \in Seq(Changed)
         /\ objects'[k] \in [Things -> Values] /\ objects'[k][t] = v
         /\ \A u \in Things \ {t} : objects'[k][u] = objects[k][u]
<1>1. objects \in [1..MaxStarts -> [Things -> Values]] /\ k \in 1..MaxStarts /\ waiting \in Seq(Changed)
  BY WatchersBounds DEF WatchersInv, WatchersTypes
<1>2. objects[k] \in [Things -> Values]
  BY <1>1
<1>3. PICK object : object = [objects[k] EXCEPT ![t] = v]
  OBVIOUS
<1>4. object \in [Things -> Values] /\ object[t] = v /\ \A u \in Things \ {t} : object[u] = objects[k][u]
  BY <1>2, <1>3
<1>5. objects' = [objects EXCEPT ![k] = object]
  BY <1>3 DEF Takes
<1>6. objects' \in [1..MaxStarts -> [Things -> Values]] /\ objects'[k] = object
  BY <1>1, <1>4, <1>5
<1>7. [thing |-> t, value |-> v] \in Changed
  BY DEF Changed
<1> QED
  BY <1>1, <1>4, <1>6, <1>7, AppendsAreLast DEF PushChange, Takes

LEMMA NotesAreSafe ==
  ASSUME WatchersInv, NEW t \in Things, NoteChanged(t)
  PROVE  WatchersInv'
<1> DEFINE v == world[t]
<1>1. /\ plugin = "notes" /\ running # {} /\ reported[t] # v /\ reported' = [reported EXCEPT ![t] = v] /\ v \in Values
      /\ UNCHANGED <<plugin, starts, running, world, stateJson, round, stories, astray>>
  BY DEF NoteChanged, WatchersInv, WatchersTypes, unwatched
<1>2. starts \in 1..starts /\ reported \in [Things -> Values]
  BY WatchersBounds DEF WatchersInv, WatchersTypes
<1>3. CASE Seen[t] = v /\ v # 0
  <2>1. UNCHANGED <<objects, waiting>>
    BY <1>3 DEF NoteChanged
  <2>2. NoEchoes' /\ Seen' = Seen
    BY <1>1, <2>1, EchoesStay
  <2>3. ReportsAreSeen'
    BY <1>1, <1>2, <1>3, <2>2 DEF WatchersInv, ReportsAreSeen
  <2>4. WatchersTypes' /\ FileIsCurrent' /\ NotesAreNotPolled'
    BY <1>1, <1>2, <2>1, <2>2 DEF WatchersInv, WatchersTypes, FileIsCurrent, NotesAreNotPolled
  <2> QED
    BY <2>2, <2>3, <2>4 DEF WatchersInv
<1>4. CASE Seen[t] # v \/ v = 0
  <2>1. Takes(starts, t, v) /\ PushChange(t, v)
    BY <1>4 DEF NoteChanged, Takes
  <2>2. Seen[t] # v
    BY <1>1, <1>4 DEF WatchersInv, ReportsAreSeen
  <2>3. /\ objects' \in [1..MaxStarts -> [Things -> Values]] /\ waiting' \in Seq(Changed)
        /\ objects'[starts][t] = v /\ \A u \in Things \ {t} : objects'[starts][u] = objects[starts][u]
    BY <1>1, <1>2, <2>1, ObjectsTakeValues
  <2>4. Seen'[t] = v /\ \A u \in Things \ {t} : Seen'[u] = Seen[u]
    BY <1>1, <2>3 DEF Seen
  <2>5. NoEchoes'
    BY <1>1, <2>1, <2>2, <2>4, PushedIsNews
  <2>6. ReportsAreSeen'
    BY <1>1, <1>2, <2>4 DEF WatchersInv, ReportsAreSeen
  <2>7. WatchersTypes' /\ FileIsCurrent' /\ NotesAreNotPolled'
    BY <1>1, <1>2, <2>3 DEF WatchersInv, WatchersTypes, FileIsCurrent, NotesAreNotPolled
  <2> QED
    BY <2>5, <2>6, <2>7 DEF WatchersInv
<1> QED
  BY <1>3, <1>4

\* A poll of the running start has its object, and saves what it then has; one of an
\* earlier start excuses everything.
LEMMA ReturningIsSafe ==
  ASSUME WatchersInv, NEW r \in Rounds, TickReturns(r)
  PROVE  WatchersInv'
<1>1. PICK k \in 1..starts : k = round[r].start
  BY PollsAreTyped DEF TickReturns
<1>2. PICK t \in Things : t = round[r].thing
  BY PollsAreTyped DEF TickReturns
<1>3. PICK v \in Values : v = round[r].value
  BY PollsAreTyped
<1>4. /\ \/ v # objects[k][t] /\ Takes(k, t, v)
         \/ UNCHANGED <<objects, waiting>>
      /\ stateJson' = objects'[k] /\ astray' = IF k = starts THEN astray ELSE Things
      /\ round' = [round EXCEPT ![r] = NoRound] /\ UNCHANGED <<unwatched, world, reported, stories>>
  BY <1>1, <1>2, <1>3 DEF TickReturns, Saved, Takes
<1>5. plugin = "entities"
  BY DEF TickReturns, WatchersInv, WatchersTypes, NotesAreNotPolled
<1>6. /\ round' \in [Rounds -> Polls]
      /\ \A q \in Rounds : round'[q].on => round'[q].start \in 1..starts /\ round'[q].thing \in Things
  BY <1>4, PollsAreTyped, PollsStayTyped
<1>7. /\ objects' \in [1..MaxStarts -> [Things -> Values]] /\ waiting' \in Seq(Changed) /\ objects'[k] \in [Things -> Values]
  <2>1. CASE UNCHANGED <<objects, waiting>>
    BY <2>1, SeenIsTyped DEF WatchersInv, WatchersTypes
  <2> QED
    BY <1>4, <2>1, ObjectsTakeValues
<1>8. WatchersTypes'
  BY <1>4, <1>6, <1>7 DEF WatchersInv, WatchersTypes, unwatched
<1>9. FileIsCurrent'
  BY <1>4 DEF FileIsCurrent, unwatched, Seen
<1>10. ReportsAreSeen' /\ NotesAreNotPolled'
  BY <1>4, <1>5 DEF ReportsAreSeen, NotesAreNotPolled, unwatched
<1>11. NoEchoes'
  <2>1. CASE k # starts
    BY <1>4, <2>1 DEF NoEchoes
  <2>2. CASE k = starts /\ UNCHANGED <<objects, waiting>>
    BY <1>4, <2>2, EchoesStay DEF unwatched
  <2>3. CASE k = starts /\ v # objects[k][t] /\ Takes(k, t, v)
    <3>1. objects'[k][t] = v /\ \A u \in Things \ {t} : objects'[k][u] = objects[k][u]
      BY <2>3, ObjectsTakeValues
    <3>2. Seen'[t] = v /\ \A u \in Things \ {t} : Seen'[u] = Seen[u]
      BY <1>4, <2>3, <3>1 DEF Seen, unwatched
    <3> QED
      BY <1>4, <2>3, <3>2, PushedIsNews DEF Seen, Takes
  <2> QED
    BY <1>4, <2>1, <2>2, <2>3
<1> QED
  BY <1>8, <1>9, <1>10, <1>11 DEF WatchersInv

LEMMA FailingIsSafe ==
  ASSUME WatchersInv, NEW r \in Rounds, TickFails(r)
  PROVE  WatchersInv'
<1>1. PICK k \in 1..starts : k = round[r].start
  BY PollsAreTyped DEF TickFails
<1>2. /\ stateJson' = objects[k] /\ astray' = IF k = starts THEN astray ELSE Things
      /\ round' = [round EXCEPT ![r] = NoRound]
      /\ UNCHANGED <<plugin, world, config, starts, running, objects, reported, waiting, stories>>
  BY <1>1 DEF TickFails, Saved
<1>3. plugin = "entities"
  BY DEF TickFails, WatchersInv, WatchersTypes, NotesAreNotPolled
<1>4. /\ round' \in [Rounds -> Polls]
      /\ \A q \in Rounds : round'[q].on => round'[q].start \in 1..starts /\ round'[q].thing \in Things
  BY <1>2, PollsAreTyped, PollsStayTyped
<1>5. WatchersTypes'
  BY <1>2, <1>4, SeenIsTyped DEF WatchersInv, WatchersTypes
<1>6. FileIsCurrent' /\ ReportsAreSeen' /\ NotesAreNotPolled'
  BY <1>2, <1>3 DEF FileIsCurrent, ReportsAreSeen, NotesAreNotPolled, Seen
<1>7. NoEchoes'
  <2>1. CASE k # starts
    BY <1>2, <2>1 DEF NoEchoes
  <2>2. CASE k = starts
    BY <1>2, <2>2, EchoesStay
  <2> QED
    BY <2>1, <2>2
<1> QED
  BY <1>5, <1>6, <1>7 DEF WatchersInv

\* A start sees what the file has.
LEMMA StartingIsTyped ==
  ASSUME WatchersInv, NEW c, NEW saved \in [Things -> Values], Starts(c, saved)
  PROVE  /\ starts' \in 1..MaxStarts /\ starts \in 1..starts' /\ 1..starts \subseteq 1..starts'
         /\ objects' \in [1..MaxStarts -> [Things -> Values]] /\ Seen' = saved
         /\ reported' \in [Things -> Values] /\ \A t \in Things : reported'[t] = 0
<1>1. starts \in 1..MaxStarts /\ starts < MaxStarts /\ starts' = starts + 1 /\ MaxStarts \in Nat
  BY WatchersBounds DEF Starts, WatchersInv, WatchersTypes
<1>2. objects \in [1..MaxStarts -> [Things -> Values]] /\ objects' = [objects EXCEPT ![starts + 1] = saved]
  BY DEF Starts, WatchersInv, WatchersTypes
<1>3. starts + 1 \in 1..MaxStarts
  BY <1>1
<1>4. objects' \in [1..MaxStarts -> [Things -> Values]] /\ objects'[starts + 1] = saved
  BY <1>2, <1>3
<1>5. Seen' = saved
  BY <1>1, <1>4 DEF Seen
<1>6. reported' = NoneSeen
  BY DEF Starts
<1> QED
  BY <1>1, <1>3, <1>4, <1>5, <1>6 DEF NoneSeen, Values

LEMMA ReloadingIsSafe ==
  ASSUME WatchersInv, NEW c, EditConfig(c)
  PROVE  WatchersInv'
<1>1. /\ stateJson' = (IF running # {} THEN Seen ELSE stateJson) /\ Starts(c, stateJson')
      /\ UNCHANGED <<plugin, world, round, waiting, stories, astray>>
  BY DEF EditConfig
<1>2. stateJson' \in [Things -> Values]
  BY <1>1, SeenIsTyped
<1>3. /\ starts' \in 1..MaxStarts /\ 1..starts \subseteq 1..starts'
      /\ objects' \in [1..MaxStarts -> [Things -> Values]] /\ Seen' = stateJson'
      /\ reported' \in [Things -> Values] /\ \A t \in Things : reported'[t] = 0
  BY <1>1, <1>2, StartingIsTyped
<1>4. WatchersTypes' /\ FileIsCurrent' /\ ReportsAreSeen' /\ NotesAreNotPolled'
  BY <1>1, <1>2, <1>3 DEF WatchersInv, WatchersTypes, FileIsCurrent, ReportsAreSeen, NotesAreNotPolled
<1>5. \A t \in Things \ astray : Seen'[t] = Seen[t]
  BY <1>1, <1>3 DEF WatchersInv, FileIsCurrent
<1>6. \A t \in Things \ astray : TellsChanges(t)'
  <2> TAKE t \in Things \ astray
  <2>1. StoryPlaces(t)' = StoryPlaces(t) /\ \A i \in StoryPlaces(t) : ValueAt(t, i)' = ValueAt(t, i)
    BY <1>1 DEF StoryPlaces, ValueAt
  <2>2. TellsChanges(t)
    BY EchoesByThing DEF WatchersInv
  <2> QED
    BY <1>1, <1>5, <2>1, <2>2, OtherRowsStay
<1> QED
  BY <1>1, <1>4, <1>6 DEF WatchersInv, NoEchoes, TellsChanges

LEMMA RestartingIsSafe ==
  ASSUME WatchersInv, NEW interrupt \in BOOLEAN, NEW cut \in BOOLEAN, AgentRestarts(interrupt, cut)
  PROVE  WatchersInv'
<1>1. /\ stateJson' = (IF cut THEN NoneSeen ELSE IF interrupt /\ running # {} THEN Seen ELSE stateJson)
      /\ Starts(config, stateJson') /\ waiting' = << >> /\ round' = [r \in Rounds |-> NoRound]
      /\ UNCHANGED <<plugin, world, stories>>
  BY DEF AgentRestarts
<1>2. stateJson' \in [Things -> Values]
  BY <1>1, SeenIsTyped
<1>3. /\ starts' \in 1..MaxStarts
      /\ objects' \in [1..MaxStarts -> [Things -> Values]] /\ Seen' = stateJson'
      /\ reported' \in [Things -> Values] /\ \A t \in Things : reported'[t] = 0
  BY <1>1, <1>2, StartingIsTyped
<1>4. /\ astray' \subseteq Things
      /\ cut => astray' = Things
      /\ ~cut => /\ astray \subseteq astray' /\ \A i \in DOMAIN waiting : waiting[i].thing \in astray'
                 /\ plugin = "notes" => \A t \in Things \ astray' : stateJson'[t] = Seen[t]
  <2>1. astray \subseteq Things /\ \A i \in DOMAIN waiting : waiting[i].thing \in Things
    BY WaitingIsTyped DEF WatchersInv, WatchersTypes
  <2> QED
    BY <2>1 DEF AgentRestarts
<1>5. NoRound \in Polls /\ ~NoRound.on
  BY WatchersBounds DEF NoRound, Polls, Values
<1>6. WatchersTypes'
  BY <1>1, <1>2, <1>3, <1>4, <1>5 DEF WatchersInv, WatchersTypes
<1>7. FileIsCurrent' /\ ReportsAreSeen' /\ NotesAreNotPolled'
  BY <1>1, <1>3, <1>5 DEF FileIsCurrent, ReportsAreSeen, NotesAreNotPolled
<1>8. ASSUME NEW t \in Things \ astray' PROVE TellsChanges(t)'
  <2>1. ~cut /\ t \in Things \ astray /\ \A i \in 1..Len(waiting) : waiting[i].thing # t
    BY <1>4, <1>8, WaitingIsTyped
  <2>2. Seen'[t] = Seen[t]
    <3>1. CASE plugin = "notes"
      BY <1>3, <1>4, <1>8, <2>1, <3>1
    <3>2. CASE plugin = "entities"
      BY <1>1, <1>3, <2>1, <3>2 DEF WatchersInv, FileIsCurrent
    <3> QED
      BY <3>1, <3>2 DEF WatchersInv, WatchersTypes
  <2>3. StoryPlaces(t) = {i \in {0} : stories[t] # << >>}
    BY <2>1, WaitingIsTyped DEF StoryPlaces
  <2>4. StoryPlaces(t)' = StoryPlaces(t)
    BY <1>1, <2>3 DEF StoryPlaces
  <2>5. \A i \in StoryPlaces(t) : ValueAt(t, i)' = ValueAt(t, i)
    BY <1>1, <2>3 DEF ValueAt
  <2>6. TellsChanges(t)
    BY <2>1, EchoesByThing DEF WatchersInv
  <2> QED
    BY <1>1, <2>2, <2>4, <2>5, <2>6, OtherRowsStay
<1> QED
  BY <1>6, <1>7, <1>8 DEF WatchersInv, NoEchoes, TellsChanges

LEMMA WatchersKeep == WatchersInv /\ [WatchersNext]_watchersVars => WatchersInv'
<1> SUFFICES ASSUME WatchersInv, [WatchersNext]_watchersVars PROVE WatchersInv'
  OBVIOUS
<1>1. CASE Posted
  BY <1>1, PostedIsSafe
<1>2. CASE Persists \/ \E t \in Things : Changes(t)
  BY <1>2, ChangingIsSafe
<1>3. CASE EnablePlugin \/ \E t \in Things : AddInstance(t) \/ DeleteInstance(t)
  BY <1>3, ReloadingIsSafe DEF EnablePlugin, AddInstance, DeleteInstance
<1>4. ASSUME NEW t \in Things, NoteChanged(t) PROVE WatchersInv'
  BY <1>4, NotesAreSafe
<1>5. ASSUME NEW r \in Rounds, TickReads(r) \/ \E t \in Things : TickStarts(r, t) PROVE WatchersInv'
  BY <1>5, PollingIsSafe
<1>6. ASSUME NEW r \in Rounds, TickReturns(r) PROVE WatchersInv'
  BY <1>6, ReturningIsSafe
<1>7. ASSUME NEW r \in Rounds, TickFails(r) PROVE WatchersInv'
  BY <1>7, FailingIsSafe
<1>8. ASSUME NEW interrupt \in BOOLEAN, NEW cut \in BOOLEAN, AgentRestarts(interrupt, cut) PROVE WatchersInv'
  BY <1>8, RestartingIsSafe
<1>9. CASE UNCHANGED watchersVars
  <2>1. UNCHANGED <<plugin, world, starts, running, objects, stateJson, round, reported, waiting, stories, astray>>
    BY <1>9 DEF watchersVars
  <2>2. NoEchoes' /\ Seen' = Seen
    BY <2>1, EchoesStay
  <2>3. WatchersTypes' /\ FileIsCurrent' /\ ReportsAreSeen' /\ NotesAreNotPolled'
    BY <2>1, <2>2 DEF WatchersInv, WatchersTypes, FileIsCurrent, ReportsAreSeen, NotesAreNotPolled
  <2> QED
    BY <2>2, <2>3 DEF WatchersInv
<1> QED
  BY <1>1, <1>2, <1>3, <1>4, <1>5, <1>6, <1>7, <1>8, <1>9 DEF WatchersNext

\* Over any reloads and restarts, the rows of a thing are its changes, unless the queue or
\* the file was lost or a poll from before a reload came back after it.
THEOREM WatchersDontEcho == WatchersSpec => []NoEchoes
<1>1. WatchersInv => NoEchoes
  BY DEF WatchersInv
<1> QED
  BY <1>1, WatchersStart, WatchersKeep, PTL DEF WatchersSpec

-----------------------------------------------------------------------------
\* Pusher, Watchers and Transfer: a delta is written once, reloads and restarts repeat
\* nothing, and a transfer spares what is there and leaves vectors that are their rows'.
THEOREM NothingComesTwice == PusherSpec /\ WatchersSpec /\ TransferSpec => []NothingTwice
<1>1. PushedOnce /\ NoEchoes /\ TransfersAreTrue => NothingTwice
  BY DEF NothingTwice
<1> QED
  BY <1>1, DeltasArePushedOnce, WatchersDontEcho, TransfersStayTrue, PTL

-----------------------------------------------------------------------------
(* The vault producer.                                                     *)

\* The polls that have not saved files.json yet, those that have rows to write,
\* and the items that a poll has made up of a note.
Before(p) == sweep[p].pc \notin {"rest", "write"}
Telling(p) == sweep[p].pc = "write"
Single(p) == \A q \in Sweepers : q # p => ~Before(q)
Made(p, n) == {i \in DOMAIN sweep[p].items : sweep[p].items[i].note = n}

NoteKinds == {"chunk", "diff", "tombstone"}
RowIds == Notes \X NoteKinds \X Nat
MaybeText == NoteTexts \cup {Gone}
TextMarks == [mtime : Nat, text : MaybeText]
NoteItems == {r \in [note : Notes, kind : NoteKinds, old : MaybeText, new : MaybeText, id : RowIds] :
                r.id[1] = r.note /\ r.id[2] = r.kind /\ (r.kind = "tombstone" <=> r.new = Gone)}
OnDisk == [text : MaybeText, mtime : Nat, fresh : BOOLEAN]
Sweeps == [pc : {"rest", "visit", "read", "ask", "images", "upload", "write"}, files : [Notes -> TextMarks],
           listed : SUBSET Notes, todo : SUBSET Notes, mtime : Nat, text : MaybeText,
           items : Seq(NoteItems), ids : SUBSET RowIds]
VaultTypes ==
  /\ disk \in [Notes -> OnDisk] /\ files \in [Notes -> TextMarks] /\ lastText \in [Notes -> MaybeText]
  /\ sweep \in [Sweepers -> Sweeps] /\ ids \in SUBSET RowIds /\ told \in [Notes -> Seq(NoteItems)]
  /\ events \in Nat /\ strayed \in SUBSET Notes

\* A mark is of a time that the note has had, and of its text if it has had none since.
TrueMark(n, mtime, text) ==
  /\ mtime <= disk[n].mtime /\ (mtime = 0 <=> text = Gone)
  /\ mtime = disk[n].mtime /\ disk[n].text # Gone => text = disk[n].text
DiskIsOld == \A n \in Notes : disk[n].mtime <= events /\ (disk[n].mtime = 0 => disk[n].text = Gone)
FilesAreTrue == \A n \in Notes : TrueMark(n, files[n].mtime, files[n].text)
MarksAreTrue(p) == \A n \in Notes : TrueMark(n, sweep[p].files[n].mtime, sweep[p].files[n].text)
HandIsTrue(p) ==
  /\ sweep[p].pc \in {"read", "ask", "images"} =>
       sweep[p].todo # {} /\ sweep[p].mtime <= disk[Note(p)].mtime /\ sweep[p].mtime > Old(p).mtime
  /\ sweep[p].pc \in {"ask", "images"} => TrueMark(Note(p), sweep[p].mtime, sweep[p].text)
  /\ sweep[p].pc = "ask" => Old(p).mtime = 0
  /\ sweep[p].pc \in {"upload", "write"} => sweep[p].todo = {}
  /\ sweep[p].pc = "rest" => sweep[p].items = << >>

\* A poll makes up at most one item of a note, once it has been to the note.
OneItemEach(p) ==
  /\ \A i, j \in DOMAIN sweep[p].items : sweep[p].items[i].note = sweep[p].items[j].note => i = j
  /\ sweep[p].todo \subseteq sweep[p].listed
  /\ \A i \in DOMAIN sweep[p].items :
       /\ sweep[p].items[i].note \notin sweep[p].todo
       /\ sweep[p].pc \notin {"upload", "write"} =>
            sweep[p].items[i].note \in sweep[p].listed /\ sweep[p].items[i].kind # "tombstone"

\* What a poll has not been to is as files.json has it, and where it has made up
\* nothing the text is.
AsSaved(p) ==
  Before(p) =>
    \A n \in Notes \ strayed :
      /\ n \in sweep[p].todo \/ (n \notin sweep[p].listed /\ sweep[p].pc # "upload") => sweep[p].files[n] = files[n]
      /\ Made(p, n) = {} => sweep[p].files[n].text = files[n].text /\ sweep[p].files[n].mtime >= files[n].mtime

\* What a poll has made up is news to files.json and to the lake; that a diff goes
\* out from the text that files.json has takes a poll that nobody disturbs.
ANews(p, r) ==
  /\ r.new = sweep[p].files[r.note].text
  /\ r.kind = "chunk" => files[r.note].mtime = 0 /\ told[r.note] = << >>
  /\ r.kind # "chunk" => files[r.note].mtime # 0
  /\ r.kind = "diff" => r.id[3] = sweep[p].files[r.note].mtime /\ r.id[3] > files[r.note].mtime
  /\ Single(p) => lastText[r.note] = r.new /\ (r.kind = "diff" => r.old = files[r.note].text)
ItemsAreNews(p) ==
  Before(p) => \A i \in DOMAIN sweep[p].items : sweep[p].items[i].note \notin strayed => ANews(p, sweep[p].items[i])
NewIsUntold(p) ==
  sweep[p].pc = "images" /\ Note(p) \notin strayed /\ files[Note(p)].mtime = 0 => told[Note(p)] = << >>

\* What a poll has to write says what files.json says, and goes on from the newest row.
GoesOn(p, r) ==
  /\ r.id \notin sweep[p].ids
  /\ r.new = files[r.note].text
  /\ r.kind = "diff" => r.old = Tale(r.note) /\ r.id[3] = files[r.note].mtime
  /\ r.kind = "tombstone" => told[r.note] # << >>
RowsGoOn(p) ==
  Telling(p) => \A i \in DOMAIN sweep[p].items : sweep[p].items[i].note \notin strayed => GoesOn(p, sweep[p].items[i])

SweepIsTrue(p) ==
  /\ MarksAreTrue(p) /\ HandIsTrue(p) /\ OneItemEach(p) /\ AsSaved(p) /\ ItemsAreNews(p) /\ NewIsUntold(p) /\ RowsGoOn(p)

LastIsSaved ==
  \A n \in Notes \ strayed :
    /\ files[n].mtime # 0
    /\ \A p \in Sweepers : Before(p) => \A i \in Made(p, n) : sweep[p].items[i].kind = "chunk"
    => lastText[n] = files[n].text
OneTells == \A p, q \in Sweepers : Telling(p) /\ Telling(q) /\ p # q => strayed = Notes
TalesAreTold ==
  \A n \in Notes \ strayed : (\A p \in Sweepers : Telling(p) => Made(p, n) = {}) => Tale(n) = files[n].text

\* The ids that the runner has seen are of rows that were told.
SeenIsTold(id) ==
  id[1] \notin strayed =>
    /\ told[id[1]] # << >>
    /\ id[2] = "diff" /\ files[id[1]].mtime # 0 => id[3] <= files[id[1]].mtime
    /\ id[2] = "tombstone" => files[id[1]].mtime = 0
IdsAreTold ==
  /\ \A id \in ids : SeenIsTold(id)
  /\ \A p \in Sweepers : Telling(p) => \A id \in sweep[p].ids : SeenIsTold(id)
NoGaps ==
  \A n \in Notes \ strayed :
    \A i \in 2..Len(told[n]) : told[n][i].kind = "diff" => told[n][i].old = told[n][i - 1].new
StoryIsTrue == LastIsSaved /\ OneTells /\ TalesAreTold /\ IdsAreTold /\ NoGaps

VaultInv == VaultTypes /\ DiskIsOld /\ FilesAreTrue /\ (\A p \in Sweepers : SweepIsTrue(p)) /\ StoryIsTrue

\* A set of numbers has a least one.
LEMMA LeastOnes == ASSUME NEW I \in SUBSET Nat, I # {} PROVE Min(I) \in I
<1> DEFINE R == OpToRel(<, Nat)
<1>0. IsWellFoundedOn(R, Nat)
  BY NatLessThanWellFounded
<1>r. \A i, j \in Nat : j < i => <<j, i>> \in R
  BY DEF OpToRel
<1> HIDE DEF R
<1>1. PICK i \in I : \A j \in I : ~(<<j, i>> \in R)
  BY <1>0, WFMin
<1>2. ASSUME NEW j \in I PROVE i <= j
  <2>1. i \in Nat /\ j \in Nat
    BY <1>0
  <2>2. ~(j < i)
    BY <2>1, <1>1, <1>r
  <2> QED
    BY <2>1, <2>2
<1> QED
  BY <1>2 DEF Min

\* A poll has a first note as long as it has any to go to.
LEMMA FirstNoteIsOne ==
  ASSUME VaultTypes, NEW p \in Sweepers, sweep[p].todo # {} PROVE Note(p) \in sweep[p].todo /\ Note(p) \in Notes
<1>1. sweep[p].todo \in SUBSET Notes /\ sweep[p].todo \in SUBSET Nat
  BY VaultBounds DEF VaultTypes, Sweeps
<1>2. Min(sweep[p].todo) \in sweep[p].todo
  BY <1>1, LeastOnes
<1> QED
  BY <1>1, <1>2 DEF Note

\* What a poll has made up is items.
LEMMA ItemsAreItems ==
  ASSUME VaultTypes, NEW p \in Sweepers
  PROVE  /\ sweep[p] \in Sweeps /\ sweep[p].items \in Seq(NoteItems)
         /\ \A i \in DOMAIN sweep[p].items : sweep[p].items[i] \in NoteItems /\ sweep[p].items[i].note \in Notes
<1>1. sweep[p] \in Sweeps
  BY DEF VaultTypes
<1>2. sweep[p].items \in Seq(NoteItems)
  BY <1>1 DEF Sweeps
<1>3. \A i \in DOMAIN sweep[p].items : sweep[p].items[i] \in NoteItems
  BY <1>2
<1>4. \A r \in NoteItems : r.note \in Notes
  BY DEF NoteItems
<1> QED
  BY <1>1, <1>2, <1>3, <1>4

\* A poll that goes on leaves the others alone.
LEMMA OthersSweepOn ==
  ASSUME VaultTypes, NEW p \in Sweepers, NEW s \in Sweeps, sweep' = [sweep EXCEPT ![p] = s]
  PROVE  /\ sweep' \in [Sweepers -> Sweeps] /\ sweep'[p] = s
         /\ \A q \in Sweepers : q # p => sweep'[q] = sweep[q]
BY DEF VaultTypes

\* The rows that were told, the same by name.
LEMMA SameTale == ASSUME NEW n, told'[n] = told[n] PROVE Tale(n)' = Tale(n)
BY DEF Tale

\* A poll that does nothing is not disturbed by one that does.
LEMMA BystandersStayTrue ==
  ASSUME VaultTypes, NEW q \in Sweepers, SweepIsTrue(q), sweep'[q] = sweep[q], disk' = disk, files' = files, told' = told,
         strayed \subseteq strayed', Single(q)' => Single(q) /\ lastText' = lastText
  PROVE  SweepIsTrue(q)'
<1>1. MarksAreTrue(q)'
  BY DEF SweepIsTrue, MarksAreTrue, TrueMark
<1>2. HandIsTrue(q)'
  BY DEF SweepIsTrue, HandIsTrue, TrueMark, Note, Old
<1>3. OneItemEach(q)'
  BY DEF SweepIsTrue, OneItemEach
<1>4. AsSaved(q)'
  <2>1. Before(q)' = Before(q) /\ \A n : Made(q, n)' = Made(q, n)
    BY DEF Before, Made
  <2> QED
    BY <2>1 DEF SweepIsTrue, AsSaved
<1>5. ItemsAreNews(q)'
  <2> SUFFICES ASSUME Before(q)', NEW i \in DOMAIN sweep'[q].items, sweep'[q].items[i].note \notin strayed'
               PROVE  ANews(q, sweep[q].items[i])'
    BY DEF ItemsAreNews
  <2>1. Before(q) /\ sweep[q].items[i].note \notin strayed /\ i \in DOMAIN sweep[q].items
    BY DEF Before
  <2>2. ANews(q, sweep[q].items[i])
    BY <2>1 DEF SweepIsTrue, ItemsAreNews
  <2> QED
    BY <2>2 DEF ANews
<1>6. NewIsUntold(q)'
  BY DEF SweepIsTrue, NewIsUntold, Note
<1>7. RowsGoOn(q)'
  <2> SUFFICES ASSUME Telling(q)', NEW i \in DOMAIN sweep'[q].items, sweep'[q].items[i].note \notin strayed'
               PROVE  GoesOn(q, sweep[q].items[i])'
    BY DEF RowsGoOn
  <2>1. Telling(q) /\ sweep[q].items[i].note \notin strayed /\ i \in DOMAIN sweep[q].items
    BY DEF Telling
  <2>2. GoesOn(q, sweep[q].items[i])
    BY <2>1 DEF SweepIsTrue, RowsGoOn
  <2> QED
    BY <2>2, SameTale DEF GoesOn
<1> QED
  BY <1>1, <1>2, <1>3, <1>4, <1>5, <1>6, <1>7 DEF SweepIsTrue

\* Where every note is excused, no more than the types of a poll and its marks matter.
LEMMA ExcusedStaysTrue ==
  ASSUME VaultTypes', strayed' = Notes
  PROVE  /\ StoryIsTrue'
         /\ \A p \in Sweepers : MarksAreTrue(p)' /\ HandIsTrue(p)' /\ OneItemEach(p)' => SweepIsTrue(p)'
<1>1. StoryIsTrue'
  <2>1. \A id \in RowIds : SeenIsTold(id)'
    BY DEF RowIds, SeenIsTold
  <2>2. \A p \in Sweepers : sweep'[p].ids \subseteq RowIds
    BY DEF VaultTypes, Sweeps
  <2>3. ids' \subseteq RowIds
    BY DEF VaultTypes
  <2> QED
    BY <2>1, <2>2, <2>3 DEF StoryIsTrue, LastIsSaved, OneTells, TalesAreTold, IdsAreTold, NoGaps
<1>2. ASSUME NEW p \in Sweepers, MarksAreTrue(p)', HandIsTrue(p)', OneItemEach(p)' PROVE SweepIsTrue(p)'
  <2>1. \A i \in DOMAIN sweep'[p].items : sweep'[p].items[i].note \in Notes
    <3>1. sweep'[p].items \in Seq(NoteItems)
      BY DEF VaultTypes, Sweeps
    <3>2. \A i \in DOMAIN sweep'[p].items : sweep'[p].items[i] \in NoteItems
      BY <3>1
    <3>3. \A r \in NoteItems : r.note \in Notes
      BY DEF NoteItems
    <3> QED
      BY <3>2, <3>3
  <2>2. sweep'[p].pc = "images" => Note(p)' \in Notes
    <3>1. sweep'[p].todo \in SUBSET Notes /\ sweep'[p].todo \in SUBSET Nat
      BY VaultBounds DEF VaultTypes, Sweeps
    <3>2. sweep'[p].todo # {} => Min(sweep'[p].todo) \in sweep'[p].todo
      BY <3>1, LeastOnes
    <3> QED
      BY <1>2, <3>1, <3>2 DEF HandIsTrue, Note
  <2> QED
    BY <1>2, <2>1, <2>2 DEF SweepIsTrue, AsSaved, ItemsAreNews, NewIsUntold, RowsGoOn
<1> QED
  BY <1>1, <1>2

\* So does a poll that rests.
LEMMA RestingIsTrue ==
  ASSUME NEW p \in Sweepers, sweep'[p] = NotSweeping, VaultTypes', DiskIsOld' PROVE SweepIsTrue(p)'
<1>1. /\ sweep'[p].pc = "rest" /\ sweep'[p].items = << >> /\ sweep'[p].todo = {} /\ sweep'[p].listed = {}
      /\ sweep'[p].files = [n \in Notes |-> NeverSeen]
  BY DEF NotSweeping
<1>2. \A n \in Notes : TrueMark(n, 0, Gone)'
  <2>1. ASSUME NEW n \in Notes PROVE TrueMark(n, 0, Gone)'
    <3>1. disk'[n].mtime \in Nat
      BY DEF VaultTypes, OnDisk
    <3>2. disk'[n].mtime = 0 => disk'[n].text = Gone
      BY DEF DiskIsOld
    <3> QED
      BY <3>1, <3>2 DEF TrueMark, Gone
  <2> QED
    BY <2>1
<1>3. MarksAreTrue(p)'
  BY <1>1, <1>2 DEF MarksAreTrue, NeverSeen, Gone
<1> QED
  BY <1>1, <1>3 DEF SweepIsTrue, HandIsTrue, OneItemEach, AsSaved, ItemsAreNews, NewIsUntold, RowsGoOn, Before, Telling

LEMMA RestersStayTrue ==
  ASSUME NEW q, SweepIsTrue(q), sweep[q].pc = "rest", sweep'[q] = sweep[q], disk' = disk PROVE SweepIsTrue(q)'
<1>1. MarksAreTrue(q)'
  BY DEF SweepIsTrue, MarksAreTrue, TrueMark
<1>2. HandIsTrue(q)' /\ OneItemEach(q)'
  BY DEF SweepIsTrue, HandIsTrue, OneItemEach
<1> QED
  BY <1>1, <1>2 DEF SweepIsTrue, AsSaved, ItemsAreNews, NewIsUntold, RowsGoOn, Before, Telling

\* The story stays true where no row, no file and nothing that is to be handed over changes.
LEMMA StoryStaysTrue ==
  ASSUME StoryIsTrue, files' = files, told' = told, ids' = ids, strayed \subseteq strayed', strayed' \in SUBSET Notes,
         \A n \in Notes \ strayed' : lastText'[n] = lastText[n],
         \A q \in Sweepers : /\ sweep'[q].items = sweep[q].items /\ (Before(q) => Before(q)')
                             /\ Telling(q)' = Telling(q) /\ (Telling(q) => sweep'[q].ids = sweep[q].ids)
  PROVE  StoryIsTrue'
<1>1. \A q \in Sweepers : \A n : Made(q, n)' = Made(q, n)
  BY DEF Made
<1>2. \A n : Tale(n)' = Tale(n)
  BY DEF Tale
<1>3. LastIsSaved'
  <2> SUFFICES ASSUME NEW n \in Notes \ strayed', files'[n].mtime # 0,
                      \A q \in Sweepers : Before(q)' => \A i \in Made(q, n)' : sweep'[q].items[i].kind = "chunk"
               PROVE  lastText'[n] = files'[n].text
    BY DEF LastIsSaved
  <2>1. \A q \in Sweepers : Before(q) => \A i \in Made(q, n) : sweep[q].items[i].kind = "chunk"
    BY <1>1
  <2> QED
    BY <2>1 DEF StoryIsTrue, LastIsSaved
<1>4. OneTells'
  BY DEF StoryIsTrue, OneTells
<1>5. TalesAreTold'
  BY <1>1, <1>2 DEF StoryIsTrue, TalesAreTold
<1>6. IdsAreTold'
  <2>1. \A id : SeenIsTold(id) => SeenIsTold(id)'
    BY DEF SeenIsTold
  <2> QED
    BY <2>1 DEF StoryIsTrue, IdsAreTold
<1>7. NoGaps'
  BY DEF StoryIsTrue, NoGaps
<1> QED
  BY <1>3, <1>4, <1>5, <1>6, <1>7 DEF StoryIsTrue

LEMMA ChangesKeepTheStory ==
  ASSUME VaultInv, NEW n \in Notes, NEW text \in MaybeText, Change(n, text) PROVE VaultInv'
<1>1. /\ disk' = [disk EXCEPT ![n] = [text |-> text, mtime |-> events + 1, fresh |-> TRUE]] /\ events' = events + 1
      /\ UNCHANGED <<files, lastText, sweep, ids, told, strayed>>
  BY DEF Change, Event, stores
<1>2. VaultTypes /\ events \in Nat
  BY DEF VaultInv, VaultTypes
<1>3. VaultTypes'
  <2>1. disk' \in [Notes -> OnDisk]
    BY <1>1, <1>2 DEF VaultTypes, OnDisk
  <2> QED
    BY <1>1, <1>2, <2>1 DEF VaultTypes
<1>4. /\ \A m \in Notes : m # n => disk'[m] = disk[m]
      /\ disk'[n].text = text /\ disk'[n].mtime = events + 1
      /\ \A m \in Notes : disk[m].mtime \in Nat /\ disk[m].mtime <= events
  BY <1>1, <1>2 DEF VaultInv, VaultTypes, OnDisk, DiskIsOld
<1>5. DiskIsOld'
  <2> SUFFICES ASSUME NEW m \in Notes PROVE disk'[m].mtime <= events' /\ (disk'[m].mtime = 0 => disk'[m].text = Gone)
    BY DEF DiskIsOld
  <2>1. disk[m].mtime = 0 => disk[m].text = Gone
    BY DEF VaultInv, DiskIsOld
  <2>2. events' = events + 1
    BY <1>1
  <2> QED
    BY <1>2, <1>4, <2>1, <2>2
<1>6. \A m \in Notes : \A t, x : t \in Nat /\ TrueMark(m, t, x) => TrueMark(m, t, x)' /\ t <= disk'[m].mtime
  <2> SUFFICES ASSUME NEW m \in Notes, NEW t \in Nat, NEW x, TrueMark(m, t, x)
               PROVE  TrueMark(m, t, x)' /\ t <= disk'[m].mtime
    OBVIOUS
  <2>1. CASE m = n
    BY <2>1, <1>2, <1>4 DEF TrueMark
  <2>2. CASE m # n
    BY <2>2, <1>4 DEF TrueMark
  <2> QED
    BY <2>1, <2>2
<1>7. FilesAreTrue'
  <2>1. \A m \in Notes : files[m].mtime \in Nat
    BY <1>2 DEF VaultTypes, TextMarks
  <2> QED
    BY <1>1, <1>6, <2>1 DEF VaultInv, FilesAreTrue
<1>8. ASSUME NEW p \in Sweepers PROVE SweepIsTrue(p)'
  <2>0. SweepIsTrue(p) /\ sweep[p] \in Sweeps
    BY <1>2 DEF VaultInv, VaultTypes
  <2>1. MarksAreTrue(p)'
    <3>1. \A m \in Notes : sweep[p].files[m].mtime \in Nat
      BY <2>0 DEF Sweeps, TextMarks
    <3> QED
      BY <1>1, <1>6, <2>0, <3>1 DEF SweepIsTrue, MarksAreTrue
  <2>2. HandIsTrue(p)'
    <3>1. sweep[p].todo # {} => Note(p) \in Notes
      BY <1>2, FirstNoteIsOne
    <3>2. sweep[p].mtime \in Nat
      BY <2>0 DEF Sweeps
    <3>3. Note(p)' = Note(p) /\ Old(p)' = Old(p)
      BY <1>1 DEF Note, Old
    <3>4. Note(p) \in Notes /\ sweep[p].mtime <= disk[Note(p)].mtime => sweep[p].mtime <= disk'[Note(p)].mtime
      BY <1>2, <1>4, <3>2
    <3> QED
      BY <1>1, <1>6, <2>0, <3>1, <3>2, <3>3, <3>4 DEF SweepIsTrue, HandIsTrue
  <2>3. OneItemEach(p)' /\ AsSaved(p)' /\ NewIsUntold(p)'
    BY <1>1, <2>0 DEF SweepIsTrue, OneItemEach, AsSaved, NewIsUntold, Before, Made, Note
  <2>4. ItemsAreNews(p)'
    BY <1>1, <2>0 DEF SweepIsTrue, ItemsAreNews, ANews, Before, Single
  <2>5. RowsGoOn(p)'
    BY <1>1, <2>0 DEF SweepIsTrue, RowsGoOn, GoesOn, Telling, Tale
  <2> QED
    BY <2>1, <2>2, <2>3, <2>4, <2>5 DEF SweepIsTrue
<1>9. StoryIsTrue'
  <2>1. \A q \in Sweepers : Before(q)' = Before(q) /\ Telling(q)' = Telling(q)
    BY <1>1 DEF Before, Telling
  <2> QED
    BY <1>1, <1>2, <2>1, StoryStaysTrue DEF VaultInv, VaultTypes
<1> QED
  BY <1>3, <1>5, <1>7, <1>8, <1>9 DEF VaultInv

LEMMA SettlingKeepsTheStory ==
  ASSUME VaultInv, NEW n \in Notes, Settle(n) PROVE VaultInv'
<1>1. /\ disk' = [disk EXCEPT ![n].fresh = FALSE]
      /\ UNCHANGED <<files, lastText, sweep, ids, told, strayed, events>>
  BY DEF Settle, stores
<1>2. VaultTypes /\ disk \in [Notes -> OnDisk]
  BY DEF VaultInv, VaultTypes
<1>3. \A m \in Notes : disk'[m] \in OnDisk /\ disk'[m].text = disk[m].text /\ disk'[m].mtime = disk[m].mtime
  BY <1>1, <1>2 DEF OnDisk
<1>4. VaultTypes'
  BY <1>1, <1>2, <1>3 DEF VaultTypes
<1>5. DiskIsOld'
  BY <1>1, <1>3 DEF VaultInv, DiskIsOld
<1>6. \A m \in Notes : \A t, x : TrueMark(m, t, x) => TrueMark(m, t, x)'
  BY <1>3 DEF TrueMark
<1>7. FilesAreTrue'
  BY <1>1, <1>6 DEF VaultInv, FilesAreTrue
<1>8. ASSUME NEW p \in Sweepers PROVE SweepIsTrue(p)'
  <2>0. SweepIsTrue(p)
    BY DEF VaultInv
  <2>1. MarksAreTrue(p)'
    BY <1>1, <1>6, <2>0 DEF SweepIsTrue, MarksAreTrue
  <2>2. HandIsTrue(p)'
    <3>1. sweep[p].todo # {} => Note(p) \in Notes
      BY <1>2, FirstNoteIsOne
    <3>3. Note(p)' = Note(p) /\ Old(p)' = Old(p)
      BY <1>1 DEF Note, Old
    <3> QED
      BY <1>1, <1>3, <1>6, <2>0, <3>1, <3>3 DEF SweepIsTrue, HandIsTrue
  <2>3. OneItemEach(p)' /\ AsSaved(p)' /\ NewIsUntold(p)'
    BY <1>1, <2>0 DEF SweepIsTrue, OneItemEach, AsSaved, NewIsUntold, Before, Made, Note
  <2>4. ItemsAreNews(p)'
    BY <1>1, <2>0 DEF SweepIsTrue, ItemsAreNews, ANews, Before, Single
  <2>5. RowsGoOn(p)'
    BY <1>1, <2>0 DEF SweepIsTrue, RowsGoOn, GoesOn, Telling, Tale
  <2> QED
    BY <2>1, <2>2, <2>3, <2>4, <2>5 DEF SweepIsTrue
<1>9. StoryIsTrue'
  <2>1. \A q \in Sweepers : Before(q)' = Before(q) /\ Telling(q)' = Telling(q)
    BY <1>1 DEF Before, Telling
  <2> QED
    BY <1>1, <1>2, <2>1, StoryStaysTrue DEF VaultInv, VaultTypes
<1> QED
  BY <1>4, <1>5, <1>7, <1>8, <1>9 DEF VaultInv

LEMMA StartsKeepTheStory ==
  ASSUME VaultInv, NEW p \in Sweepers, SweepStarts(p) PROVE VaultInv'
<1> DEFINE found == {n \in Notes : disk[n].text # Gone}
           s == [NotSweeping EXCEPT !.pc = "visit", !.files = files, !.listed = found, !.todo = found]
<1>1. /\ sweep[p].pc = "rest" /\ sweep' = [sweep EXCEPT ![p] = s]
      /\ events' \in {events, events + 1} /\ UNCHANGED <<disk, files, lastText, ids, told, strayed>>
  BY DEF SweepStarts, stores, Event
<1>2. VaultTypes /\ events \in Nat
  BY DEF VaultInv, VaultTypes
<1>3. /\ s \in Sweeps /\ s.pc = "visit" /\ s.files = files /\ s.listed = found /\ s.todo = found
      /\ s.items = << >> /\ s.ids = {}
  <2>1. NotSweeping \in Sweeps /\ NotSweeping.items = << >> /\ NotSweeping.ids = {}
    <3>1. << >> \in Seq(NoteItems)
      OBVIOUS
    <3> QED
      BY <3>1 DEF NotSweeping, Sweeps, TextMarks, MaybeText, NeverSeen
  <2>2. files \in [Notes -> TextMarks] /\ found \in SUBSET Notes
    BY <1>2 DEF VaultTypes
  <2> HIDE DEF found
  <2> QED
    BY <2>1, <2>2 DEF Sweeps
<1> HIDE DEF s
<1>4. /\ sweep' \in [Sweepers -> Sweeps] /\ sweep'[p] = s
      /\ \A q \in Sweepers : q # p => sweep'[q] = sweep[q]
  BY <1>1, <1>2, <1>3, OthersSweepOn
<1>5. VaultTypes'
  BY <1>1, <1>2, <1>4 DEF VaultTypes
<1>6. DiskIsOld' /\ FilesAreTrue'
  <2>1. \A n \in Notes : disk[n].mtime \in Nat
    BY <1>2 DEF VaultTypes, OnDisk
  <2> QED
    BY <1>1, <1>2, <2>1 DEF VaultInv, DiskIsOld, FilesAreTrue, TrueMark
<1>7. Before(p)' /\ ~Telling(p)' /\ ~Before(p) /\ ~Telling(p) /\ sweep[p].items = << >>
  BY <1>1, <1>3, <1>4 DEF Before, Telling, VaultInv, SweepIsTrue, HandIsTrue
<1>8. ASSUME NEW q \in Sweepers PROVE SweepIsTrue(q)'
  <2>1. CASE q = p
    <3>1. MarksAreTrue(p)'
      BY <1>1, <1>3, <1>4, <1>6 DEF MarksAreTrue, FilesAreTrue, TrueMark
    <3>2. AsSaved(p)'
      <4>1. \A n \in Notes : files[n].mtime \in Nat
        BY <1>2 DEF VaultTypes, TextMarks
      <4> QED
        BY <1>1, <1>3, <1>4, <4>1 DEF AsSaved
    <3>3. HandIsTrue(p)' /\ OneItemEach(p)' /\ ItemsAreNews(p)' /\ NewIsUntold(p)' /\ RowsGoOn(p)'
      BY <1>3, <1>4, <1>7 DEF HandIsTrue, OneItemEach, ItemsAreNews, NewIsUntold, RowsGoOn
    <3> QED
      BY <2>1, <3>1, <3>2, <3>3 DEF SweepIsTrue
  <2>2. CASE q # p
    <3>1. ~Single(q)'
      BY <1>7, <2>2 DEF Single
    <3> QED
      BY <1>1, <1>2, <1>4, <2>2, <3>1, BystandersStayTrue DEF VaultInv
  <2> QED
    BY <2>1, <2>2
<1>9. StoryIsTrue'
  <2>1. \A q \in Sweepers : /\ sweep'[q].items = sweep[q].items /\ (Before(q) => Before(q)')
                            /\ Telling(q)' = Telling(q) /\ (Telling(q) => sweep'[q].ids = sweep[q].ids)
    <3>1. ASSUME NEW q \in Sweepers, q # p
          PROVE  Before(q)' = Before(q) /\ Telling(q)' = Telling(q) /\ sweep'[q] = sweep[q]
      BY <1>4, <3>1 DEF Before, Telling
    <3>2. sweep'[p].items = sweep[p].items /\ Telling(p)' = Telling(p)
      BY <1>1, <1>3, <1>4, <1>7 DEF Telling
    <3> QED
      BY <1>7, <3>1, <3>2
  <2> QED
    BY <1>1, <1>2, <2>1, StoryStaysTrue DEF VaultInv, VaultTypes
<1> QED
  BY <1>5, <1>6, <1>8, <1>9 DEF VaultInv

\* A poll that is through with a note of which it makes up nothing.
LEMMA SweptKeepsTheStory ==
  ASSUME VaultInv, NEW p \in Sweepers, sweep[p].pc \in {"visit", "read", "ask"}, sweep[p].todo # {},
         NEW mark \in TextMarks, TrueMark(Note(p), mark.mtime, mark.text), Swept(p, mark),
         Note(p) \notin strayed' => mark.text = files[Note(p)].text /\ mark.mtime >= files[Note(p)].mtime,
         strayed \subseteq strayed', strayed' \in SUBSET Notes, lastText' \in [Notes -> MaybeText],
         \A n \in Notes \ strayed' : lastText'[n] = lastText[n],
         events' \in Nat, events' >= events, UNCHANGED <<disk, files, ids, told>>
  PROVE  VaultInv'
<1> DEFINE n == Note(p)
           s == [sweep[p] EXCEPT !.pc = "visit", !.todo = @ \ {n}, !.files[n] = mark]
<1>1. VaultTypes /\ events \in Nat /\ sweep[p] \in Sweeps /\ SweepIsTrue(p)
  BY DEF VaultInv, VaultTypes
<1>2. n \in sweep[p].todo /\ n \in Notes
  BY <1>1, FirstNoteIsOne
<1> HIDE DEF n
<1>3. sweep' = [sweep EXCEPT ![p] = s]
  BY <1>1 DEF Swept, Sweeps, VaultTypes, n
<1>4. /\ s \in Sweeps /\ s.pc = "visit" /\ s.listed = sweep[p].listed /\ s.todo = sweep[p].todo \ {n}
      /\ s.items = sweep[p].items /\ s.ids = sweep[p].ids
      /\ s.files = [sweep[p].files EXCEPT ![n] = mark]
  BY <1>1, <1>2 DEF Sweeps
<1>5. s.files[n] = mark /\ \A m \in Notes : m # n => s.files[m] = sweep[p].files[m]
  BY <1>1, <1>2, <1>4 DEF Sweeps
<1> HIDE DEF s
<1>6. /\ sweep' \in [Sweepers -> Sweeps] /\ sweep'[p] = s
      /\ \A q \in Sweepers : q # p => sweep'[q] = sweep[q]
  BY <1>1, <1>3, <1>4, OthersSweepOn
<1>7. VaultTypes'
  BY <1>1, <1>6 DEF VaultTypes
<1>8. DiskIsOld' /\ FilesAreTrue'
  <2>1. \A m \in Notes : disk[m].mtime \in Nat
    BY <1>1 DEF VaultTypes, OnDisk
  <2> QED
    BY <1>1, <2>1 DEF VaultInv, DiskIsOld, FilesAreTrue, TrueMark
<1>9. Before(p)' /\ ~Telling(p)' /\ Before(p) /\ ~Telling(p) /\ \A m : Made(p, m)' = Made(p, m)
  BY <1>4, <1>6 DEF Before, Telling, Made
<1>10. \A i \in DOMAIN sweep[p].items : sweep[p].items[i].note # n
  BY <1>1, <1>2 DEF SweepIsTrue, OneItemEach
<1>11. ASSUME NEW q \in Sweepers PROVE SweepIsTrue(q)'
  <2>1. CASE q = p
    <3>1. MarksAreTrue(p)'
      <4>1. TrueMark(n, mark.mtime, mark.text)
        BY DEF n
      <4> QED
        BY <1>1, <1>5, <1>6, <4>1 DEF SweepIsTrue, MarksAreTrue, TrueMark
    <3>2. HandIsTrue(p)'
      BY <1>4, <1>6 DEF HandIsTrue
    <3>3. OneItemEach(p)'
      BY <1>1, <1>4, <1>6 DEF SweepIsTrue, OneItemEach
    <3>4. AsSaved(p)'
      <4> SUFFICES ASSUME NEW m \in Notes \ strayed'
                   PROVE  /\ m \in s.todo \/ (m \notin s.listed /\ s.pc # "upload") => s.files[m] = files[m]
                          /\ Made(p, m) = {} => s.files[m].text = files[m].text /\ s.files[m].mtime >= files[m].mtime
        BY <1>6, <1>9 DEF AsSaved
      <4>1. CASE m = n
        <5>1. n \in s.listed /\ n \notin s.todo
          BY <1>1, <1>2, <1>4 DEF SweepIsTrue, OneItemEach
        <5>2. mark.text = files[n].text /\ mark.mtime >= files[n].mtime
          BY <4>1 DEF n
        <5> QED
          BY <1>5, <4>1, <5>1, <5>2
      <4>2. CASE m # n
        <5>1. m \in s.todo => m \in sweep[p].todo
          BY <1>4
        <5>2. /\ m \in sweep[p].todo \/ (m \notin sweep[p].listed /\ sweep[p].pc # "upload") => sweep[p].files[m] = files[m]
              /\ Made(p, m) = {} => sweep[p].files[m].text = files[m].text /\ sweep[p].files[m].mtime >= files[m].mtime
          BY <1>1, <1>9 DEF SweepIsTrue, AsSaved
        <5> QED
          BY <1>4, <1>5, <4>2, <5>1, <5>2
      <4> QED
        BY <4>1, <4>2
    <3>5. ItemsAreNews(p)'
      <4> SUFFICES ASSUME NEW i \in DOMAIN sweep[p].items, sweep[p].items[i].note \notin strayed'
                   PROVE  ANews(p, sweep[p].items[i])'
        BY <1>4, <1>6 DEF ItemsAreNews
      <4> PICK r : r = sweep[p].items[i]
        OBVIOUS
      <4>1. ANews(p, r) /\ r.note # n /\ r.note \in Notes
        BY <1>1, <1>9, <1>10, ItemsAreItems DEF SweepIsTrue, ItemsAreNews
      <4>2. sweep'[p].files[r.note] = sweep[p].files[r.note] /\ lastText'[r.note] = lastText[r.note]
        BY <1>5, <1>6, <4>1
      <4>3. Single(p)' => Single(p)
        BY <1>6 DEF Single, Before
      <4>5. UNCHANGED <<files, told>>
        OBVIOUS
      <4>4. ANews(p, r)'
        BY <4>1, <4>2, <4>3, <4>5 DEF ANews
      <4> QED
        BY <4>4, <1>4, <1>6
    <3>6. NewIsUntold(p)' /\ RowsGoOn(p)'
      BY <1>4, <1>6 DEF NewIsUntold, RowsGoOn, Telling
    <3> QED
      BY <2>1, <3>1, <3>2, <3>3, <3>4, <3>5, <3>6 DEF SweepIsTrue
  <2>2. CASE q # p
    <3>1. ~Single(q)'
      BY <1>9, <2>2 DEF Single
    <3> QED
      BY <1>1, <1>6, <2>2, <3>1, BystandersStayTrue DEF VaultInv
  <2> QED
    BY <2>1, <2>2
<1>12. StoryIsTrue'
  <2>1. \A q \in Sweepers : /\ sweep'[q].items = sweep[q].items /\ (Before(q) => Before(q)')
                            /\ Telling(q)' = Telling(q) /\ (Telling(q) => sweep'[q].ids = sweep[q].ids)
    <3>1. ASSUME NEW q \in Sweepers, q # p
          PROVE  Before(q)' = Before(q) /\ Telling(q)' = Telling(q) /\ sweep'[q] = sweep[q]
      BY <1>6, <3>1 DEF Before, Telling
    <3>2. Telling(p)' = Telling(p)
      BY <1>4, <1>6, <1>9 DEF Telling
    <3> QED
      BY <1>4, <1>6, <1>9, <3>1, <3>2
  <2> QED
    BY <1>1, <2>1, StoryStaysTrue DEF VaultInv
<1> QED
  BY <1>7, <1>8, <1>11, <1>12 DEF VaultInv

\* A poll that goes on with the note that it has in hand.
LEMMA HandKeepsTheStory ==
  ASSUME VaultInv, NEW p \in Sweepers, sweep[p].pc \in {"visit", "read", "ask"},
         NEW s \in Sweeps, sweep' = [sweep EXCEPT ![p] = s], s.pc \in {"read", "ask", "images"},
         s.files = sweep[p].files, s.listed = sweep[p].listed, s.todo = sweep[p].todo, s.items = sweep[p].items, s.ids = sweep[p].ids,
         HandIsTrue(p)', NewIsUntold(p)',
         strayed \subseteq strayed', strayed' \in SUBSET Notes, events' \in Nat, events' >= events,
         UNCHANGED <<disk, files, ids, told, lastText>>
  PROVE  VaultInv'
<1>1. VaultTypes /\ events \in Nat /\ sweep[p] \in Sweeps /\ SweepIsTrue(p)
  BY DEF VaultInv, VaultTypes
<1>6. /\ sweep' \in [Sweepers -> Sweeps] /\ sweep'[p] = s
      /\ \A q \in Sweepers : q # p => sweep'[q] = sweep[q]
  BY <1>1, OthersSweepOn
<1>7. VaultTypes'
  BY <1>1, <1>6 DEF VaultTypes
<1>8. DiskIsOld' /\ FilesAreTrue'
  <2>1. \A m \in Notes : disk[m].mtime \in Nat
    BY <1>1 DEF VaultTypes, OnDisk
  <2> QED
    BY <1>1, <2>1 DEF VaultInv, DiskIsOld, FilesAreTrue, TrueMark
<1>9. Before(p)' /\ ~Telling(p)' /\ Before(p) /\ ~Telling(p) /\ \A m : Made(p, m)' = Made(p, m)
  BY <1>6 DEF Before, Telling, Made
<1>11. ASSUME NEW q \in Sweepers PROVE SweepIsTrue(q)'
  <2>1. CASE q = p
    <3>1. MarksAreTrue(p)'
      BY <1>1, <1>6 DEF SweepIsTrue, MarksAreTrue, TrueMark
    <3>3. OneItemEach(p)'
      BY <1>1, <1>6 DEF SweepIsTrue, OneItemEach
    <3>4. AsSaved(p)'
      BY <1>1, <1>6, <1>9 DEF SweepIsTrue, AsSaved
    <3>5. ItemsAreNews(p)'
      <4> SUFFICES ASSUME NEW i \in DOMAIN sweep[p].items, sweep[p].items[i].note \notin strayed'
                   PROVE  ANews(p, sweep[p].items[i])'
        BY <1>6 DEF ItemsAreNews
      <4> PICK r : r = sweep[p].items[i]
        OBVIOUS
      <4>1. ANews(p, r)
        BY <1>1, <1>9 DEF SweepIsTrue, ItemsAreNews
      <4>3. Single(p)' => Single(p)
        BY <1>6 DEF Single, Before
      <4>4. ANews(p, r)'
        BY <1>6, <4>1, <4>3 DEF ANews
      <4> QED
        BY <4>4, <1>6
    <3>6. RowsGoOn(p)'
      BY <1>9 DEF RowsGoOn
    <3> QED
      BY <2>1, <3>1, <3>3, <3>4, <3>5, <3>6 DEF SweepIsTrue
  <2>2. CASE q # p
    <3>1. ~Single(q)'
      BY <1>9, <2>2 DEF Single
    <3> QED
      BY <1>1, <1>6, <2>2, <3>1, BystandersStayTrue DEF VaultInv
  <2> QED
    BY <2>1, <2>2
<1>12. StoryIsTrue'
  <2>1. \A q \in Sweepers : /\ sweep'[q].items = sweep[q].items /\ (Before(q) => Before(q)')
                            /\ Telling(q)' = Telling(q) /\ (Telling(q) => sweep'[q].ids = sweep[q].ids)
    <3>1. ASSUME NEW q \in Sweepers, q # p
          PROVE  Before(q)' = Before(q) /\ Telling(q)' = Telling(q) /\ sweep'[q] = sweep[q]
      BY <1>6, <3>1 DEF Before, Telling
    <3>2. Telling(p)' = Telling(p)
      BY <1>6, <1>9 DEF Telling
    <3> QED
      BY <1>6, <1>9, <3>1, <3>2
  <2> QED
    BY <1>1, <2>1, StoryStaysTrue DEF VaultInv
<1> QED
  BY <1>7, <1>8, <1>11, <1>12 DEF VaultInv

LEMMA LooksKeepTheStory ==
  ASSUME VaultInv, NEW p \in Sweepers, Look(p) PROVE VaultInv'
<1> DEFINE n == Note(p)
           d == disk[n]
<1>1. /\ sweep[p].pc = "visit" /\ sweep[p].todo # {}
      /\ UNCHANGED <<disk, files, lastText, ids, told, events, broken, strayed>>
  BY DEF Look, stores
<1>2. VaultTypes /\ events \in Nat /\ sweep[p] \in Sweeps /\ SweepIsTrue(p) /\ strayed \in SUBSET Notes /\ lastText \in [Notes -> MaybeText]
  BY DEF VaultInv, VaultTypes
<1>3. n \in sweep[p].todo /\ n \in Notes
  BY <1>1, <1>2, FirstNoteIsOne
<1>4. Old(p) \in TextMarks /\ TrueMark(n, Old(p).mtime, Old(p).text) /\ (n \notin strayed => Old(p) = files[n])
  <2>1. Old(p) = sweep[p].files[n]
    BY DEF Old
  <2>2. Before(p)
    BY <1>1 DEF Before
  <2> HIDE DEF n
  <2> QED
    BY <1>2, <1>3, <2>1, <2>2 DEF Sweeps, SweepIsTrue, MarksAreTrue, AsSaved
<1>5. CASE d.text = Gone \/ d.fresh \/ d.mtime = Old(p).mtime
  <2>1. Swept(p, Old(p))
    BY <1>5 DEF Look
  <2>2. files[n].mtime \in Nat
    BY <1>2, <1>3 DEF VaultTypes, TextMarks
  <2> QED
    BY <1>1, <1>2, <1>4, <2>1, <2>2, SweptKeepsTheStory
<1>6. CASE ~(d.text = Gone \/ d.fresh \/ d.mtime = Old(p).mtime)
  <2> DEFINE s == [sweep[p] EXCEPT !.pc = "read", !.mtime = d.mtime]
  <2>1. sweep' = [sweep EXCEPT ![p] = s]
    BY <1>2, <1>6 DEF Look, VaultTypes, Sweeps
  <2>2. d.mtime \in Nat
    BY <1>2, <1>3 DEF VaultTypes, OnDisk
  <2>3. /\ s \in Sweeps /\ s.pc = "read" /\ s.files = sweep[p].files /\ s.listed = sweep[p].listed
        /\ s.todo = sweep[p].todo /\ s.items = sweep[p].items /\ s.ids = sweep[p].ids /\ s.mtime = d.mtime
    BY <1>2, <2>2 DEF Sweeps
  <2> HIDE DEF s
  <2>4. sweep'[p] = s
    BY <1>2, <2>1 DEF VaultTypes
  <2>5. Old(p).mtime < d.mtime
    BY <1>4, <1>6, <2>2 DEF TrueMark, TextMarks
  <2>6. HandIsTrue(p)'
    <3>1. Note(p)' = n /\ Old(p)' = Old(p)
      BY <2>3, <2>4 DEF Note, Old
    <3>2. d.mtime <= d.mtime
      BY <2>2
    <3> QED
      BY <1>1, <2>3, <2>4, <2>5, <3>1, <3>2 DEF HandIsTrue
  <2>7. NewIsUntold(p)'
    BY <2>3, <2>4 DEF NewIsUntold
  <2>8. /\ sweep[p].pc \in {"visit", "read", "ask"} /\ s.pc \in {"read", "ask", "images"}
        /\ strayed \subseteq strayed' /\ strayed' \in SUBSET Notes /\ events' \in Nat /\ events' >= events
    BY <1>1, <1>2, <2>3
  <2> HIDE DEF d, n
  <2> QED
    BY <1>1, <2>1, <2>3, <2>6, <2>7, <2>8, HandKeepsTheStory
<1> QED
  BY <1>5, <1>6

LEMMA ReadsKeepTheStory ==
  ASSUME VaultInv, NEW p \in Sweepers, Read(p) PROVE VaultInv'
<1> DEFINE n == Note(p)
           text == disk[n].text
<1>1. /\ sweep[p].pc = "read" /\ sweep[p].todo # {}
      /\ UNCHANGED <<disk, files, lastText, ids, told, events, broken, strayed>>
  BY DEF Read, stores, VaultInv, SweepIsTrue, HandIsTrue
<1>2. VaultTypes /\ events \in Nat /\ sweep[p] \in Sweeps /\ SweepIsTrue(p) /\ strayed \in SUBSET Notes /\ lastText \in [Notes -> MaybeText]
  BY DEF VaultInv, VaultTypes
<1>3. n \in sweep[p].todo /\ n \in Notes
  BY <1>1, <1>2, FirstNoteIsOne
<1>4. /\ Old(p) \in TextMarks /\ TrueMark(n, Old(p).mtime, Old(p).text) /\ (n \notin strayed => Old(p) = files[n])
      /\ sweep[p].mtime \in Nat /\ sweep[p].mtime <= disk[n].mtime /\ sweep[p].mtime > Old(p).mtime
      /\ text \in MaybeText
  <2>1. Old(p) = sweep[p].files[n]
    BY DEF Old
  <2>2. Before(p)
    BY <1>1 DEF Before
  <2>3. sweep[p].mtime <= disk[n].mtime /\ sweep[p].mtime > Old(p).mtime
    BY <1>1, <1>2 DEF SweepIsTrue, HandIsTrue
  <2>4. text \in MaybeText
    BY <1>2, <1>3 DEF VaultTypes, OnDisk
  <2> HIDE DEF n, text
  <2> QED
    BY <1>2, <1>3, <2>1, <2>2, <2>3, <2>4 DEF Sweeps, SweepIsTrue, MarksAreTrue, AsSaved
<1>5. files[n].mtime \in Nat /\ Old(p).mtime \in Nat
  BY <1>2, <1>3, <1>4 DEF VaultTypes, TextMarks
<1>6. text # Gone => TrueMark(n, sweep[p].mtime, text)
  BY <1>4, <1>5 DEF TrueMark
<1>7. CASE text = Gone
  <2>0. ~(Old(p).mtime # 0 /\ Old(p).text = text)
    BY <1>4, <1>7 DEF TrueMark
  <2>1. Swept(p, Old(p))
    BY <1>7, <2>0 DEF Read
  <2> QED
    BY <1>1, <1>2, <1>4, <1>5, <2>1, SweptKeepsTheStory
<1>8. CASE text # Gone /\ Old(p).mtime # 0 /\ Old(p).text = text
  <2> DEFINE mark == MarkOf(p, text)
  <2>1. Swept(p, mark)
    BY <1>8 DEF Read
  <2>2. mark \in TextMarks /\ mark.mtime = sweep[p].mtime /\ mark.text = text
    BY <1>4 DEF MarkOf, TextMarks
  <2> HIDE DEF mark
  <2>3. /\ TrueMark(n, mark.mtime, mark.text)
        /\ n \notin strayed' => mark.text = files[n].text /\ mark.mtime >= files[n].mtime
    BY <1>1, <1>4, <1>5, <1>6, <1>8, <2>2
  <2> HIDE DEF text
  <2> QED
    BY <1>1, <1>2, <2>1, <2>2, <2>3, SweptKeepsTheStory
<1>9. CASE text # Gone /\ ~(Old(p).mtime # 0 /\ Old(p).text = text)
  <2> DEFINE s == [sweep[p] EXCEPT !.pc = IF Old(p).mtime = 0 THEN "ask" ELSE "images", !.text = text]
  <2>1. sweep' = [sweep EXCEPT ![p] = s]
    BY <1>2, <1>9 DEF Read, VaultTypes, Sweeps
  <2>3. /\ s \in Sweeps /\ s.pc = (IF Old(p).mtime = 0 THEN "ask" ELSE "images") /\ s.files = sweep[p].files /\ s.listed = sweep[p].listed
        /\ s.todo = sweep[p].todo /\ s.items = sweep[p].items /\ s.ids = sweep[p].ids /\ s.mtime = sweep[p].mtime /\ s.text = text
    BY <1>2, <1>4 DEF Sweeps
  <2> HIDE DEF s
  <2>4. sweep'[p] = s
    BY <1>2, <2>1 DEF VaultTypes
  <2>5. Note(p)' = n /\ Old(p)' = Old(p)
    BY <2>3, <2>4 DEF Note, Old
  <2>6. HandIsTrue(p)'
    <3>1. TrueMark(n, s.mtime, s.text)
      BY <1>1, <1>6, <1>9, <2>3
    <3>2. \A m, t, x : TrueMark(m, t, x) => TrueMark(m, t, x)'
      BY <1>1 DEF TrueMark
    <3> HIDE DEF n, text
    <3> QED
      BY <1>1, <1>4, <2>3, <2>4, <2>5, <3>1, <3>2 DEF HandIsTrue
  <2>7. NewIsUntold(p)'
    <3>1. s.pc = "images" => Old(p).mtime # 0
      BY <2>3
    <3> HIDE DEF n
    <3> QED
      BY <1>1, <1>4, <2>3, <2>4, <2>5, <3>1 DEF NewIsUntold
  <2>8. /\ sweep[p].pc \in {"visit", "read", "ask"} /\ s.pc \in {"read", "ask", "images"}
        /\ strayed \subseteq strayed' /\ strayed' \in SUBSET Notes /\ events' \in Nat /\ events' >= events
    BY <1>1, <1>2, <2>3
  <2> HIDE DEF text, n
  <2> QED
    BY <1>1, <2>1, <2>3, <2>6, <2>7, <2>8, HandKeepsTheStory
<1> QED
  BY <1>7, <1>8, <1>9

LEMMA AskingKeepsTheStory ==
  ASSUME VaultInv, NEW p \in Sweepers, NEW ok \in BOOLEAN, AlreadyIngested(p, ok) PROVE VaultInv'
<1> DEFINE n == Note(p)
           text == sweep[p].text
<1>1. /\ sweep[p].pc = "ask" /\ sweep[p].todo # {}
      /\ events' \in {events, events + 1} /\ UNCHANGED <<disk, files, ids, told>>
      /\ strayed' = IF told[n] = << >> THEN strayed ELSE strayed \cup {n}
  BY DEF AlreadyIngested, Goes, Break, Event, VaultInv, SweepIsTrue, HandIsTrue
<1>2. VaultTypes /\ events \in Nat /\ sweep[p] \in Sweeps /\ SweepIsTrue(p) /\ strayed \in SUBSET Notes /\ lastText \in [Notes -> MaybeText]
  BY DEF VaultInv, VaultTypes
<1>3. n \in sweep[p].todo /\ n \in Notes
  BY <1>1, <1>2, FirstNoteIsOne
<1>4. /\ TrueMark(n, sweep[p].mtime, text) /\ sweep[p].mtime \in Nat /\ text \in MaybeText /\ Old(p).mtime = 0
      /\ sweep[p].mtime <= disk[n].mtime /\ sweep[p].mtime > Old(p).mtime
  BY <1>1, <1>2 DEF SweepIsTrue, HandIsTrue, Sweeps
<1>5. /\ strayed \subseteq strayed' /\ strayed' \in SUBSET Notes /\ events' \in Nat /\ events' >= events
  BY <1>1, <1>2, <1>3
<1>6. CASE ok /\ told[n] # << >>
  <2> DEFINE mark == MarkOf(p, text)
  <2>1. Swept(p, mark) /\ lastText' = [lastText EXCEPT ![n] = text]
    BY <1>6 DEF AlreadyIngested
  <2>2. mark \in TextMarks /\ mark.mtime = sweep[p].mtime /\ mark.text = text
    BY <1>4 DEF MarkOf, TextMarks
  <2>3. n \in strayed'
    BY <1>1, <1>6
  <2>4. lastText' \in [Notes -> MaybeText] /\ \A m \in Notes \ strayed' : lastText'[m] = lastText[m]
    BY <1>2, <1>4, <2>1, <2>3
  <2> HIDE DEF mark, text
  <2>5. TrueMark(n, mark.mtime, mark.text)
    BY <1>4, <2>2
  <2> QED
    BY <1>1, <1>2, <1>5, <2>1, <2>2, <2>3, <2>4, <2>5, SweptKeepsTheStory
<1>7. CASE ~(ok /\ told[n] # << >>)
  <2> DEFINE s == [sweep[p] EXCEPT !.pc = "images"]
  <2>1. sweep' = [sweep EXCEPT ![p] = s] /\ lastText' = lastText
    BY <1>2, <1>7 DEF AlreadyIngested, VaultTypes, Sweeps
  <2>3. /\ s \in Sweeps /\ s.pc = "images" /\ s.files = sweep[p].files /\ s.listed = sweep[p].listed
        /\ s.todo = sweep[p].todo /\ s.items = sweep[p].items /\ s.ids = sweep[p].ids /\ s.mtime = sweep[p].mtime /\ s.text = text
    BY <1>2 DEF Sweeps
  <2> HIDE DEF s
  <2>4. sweep'[p] = s
    BY <1>2, <2>1 DEF VaultTypes
  <2>5. Note(p)' = n /\ Old(p)' = Old(p)
    BY <2>3, <2>4 DEF Note, Old
  <2>6. HandIsTrue(p)'
    <3>1. TrueMark(n, s.mtime, s.text)
      BY <1>1, <1>4, <2>3
    <3>2. \A m, t, x : TrueMark(m, t, x) => TrueMark(m, t, x)'
      BY <1>1 DEF TrueMark
    <3> HIDE DEF n, text
    <3> QED
      BY <1>1, <1>4, <2>3, <2>4, <2>5, <3>1, <3>2 DEF HandIsTrue
  <2>7. NewIsUntold(p)'
    <3>1. n \notin strayed' => told[n] = << >>
      BY <1>1
    <3> HIDE DEF n
    <3> QED
      BY <1>1, <2>3, <2>4, <2>5, <3>1 DEF NewIsUntold
  <2>8. sweep[p].pc \in {"visit", "read", "ask"} /\ s.pc \in {"read", "ask", "images"}
    BY <1>1, <2>3
  <2> HIDE DEF text, n
  <2> QED
    BY <1>1, <1>5, <2>1, <2>3, <2>6, <2>7, <2>8, HandKeepsTheStory
<1> QED
  BY <1>6, <1>7

\* The story stays true where a poll makes something up, of which the last text may speak.
LEMMA NewsKeepTheStory ==
  ASSUME StoryIsTrue, NEW p \in Sweepers, Before(p), Before(p)', \A q \in Sweepers : q # p => sweep'[q] = sweep[q],
         files' = files, told' = told, ids' = ids, strayed' = strayed,
         \A n \in Notes \ strayed : files[n].mtime # 0 /\ (\A i \in Made(p, n)' : sweep'[p].items[i].kind = "chunk")
           => lastText'[n] = lastText[n] /\ \A i \in Made(p, n) : sweep[p].items[i].kind = "chunk"
  PROVE  StoryIsTrue'
<1>1. \A q \in Sweepers : q # p => \A n : Made(q, n)' = Made(q, n)
  BY DEF Made
<1>2. \A n : Tale(n)' = Tale(n)
  BY DEF Tale
<1>3. ~Telling(p) /\ ~Telling(p)'
  BY DEF Before, Telling
<1>4. \A q \in Sweepers : q # p => Telling(q)' = Telling(q) /\ Before(q)' = Before(q)
  BY DEF Before, Telling
<1>5. LastIsSaved'
  <2> SUFFICES ASSUME NEW n \in Notes \ strayed, files[n].mtime # 0,
                      \A q \in Sweepers : Before(q)' => \A i \in Made(q, n)' : sweep'[q].items[i].kind = "chunk"
               PROVE  lastText'[n] = files[n].text
    BY DEF LastIsSaved
  <2>1. lastText'[n] = lastText[n] /\ \A i \in Made(p, n) : sweep[p].items[i].kind = "chunk"
    OBVIOUS
  <2>2. \A q \in Sweepers : Before(q) => \A i \in Made(q, n) : sweep[q].items[i].kind = "chunk"
    BY <1>1, <1>4, <2>1
  <2> QED
    BY <2>1, <2>2 DEF StoryIsTrue, LastIsSaved
<1>6. OneTells'
  BY <1>3, <1>4 DEF StoryIsTrue, OneTells
<1>7. TalesAreTold'
  BY <1>1, <1>2, <1>3, <1>4 DEF StoryIsTrue, TalesAreTold
<1>8. IdsAreTold'
  <2>1. \A id : SeenIsTold(id) => SeenIsTold(id)'
    BY DEF SeenIsTold
  <2> QED
    BY <1>3, <1>4, <2>1 DEF StoryIsTrue, IdsAreTold
<1>9. NoGaps'
  BY DEF StoryIsTrue, NoGaps
<1> QED
  BY <1>5, <1>6, <1>7, <1>8, <1>9 DEF StoryIsTrue

LEMMA EmitsKeepTheStory ==
  ASSUME VaultInv, NEW p \in Sweepers, Emit(p) PROVE VaultInv'
<1> PICK n : n = Note(p)
  OBVIOUS
<1> PICK old, text, mark, item :
      /\ old = Old(p) /\ text = sweep[p].text /\ mark = MarkOf(p, text)
      /\ item = IF old.mtime = 0 THEN Chunk(n, text) ELSE Diff(n, lastText[n], text, sweep[p].mtime)
  OBVIOUS
<1> PICK s : s = [sweep[p] EXCEPT !.pc = "visit", !.todo = @ \ {n}, !.files[n] = mark, !.items = Append(@, item)]
  OBVIOUS
<1>1. /\ sweep[p].pc = "images" /\ sweep[p].todo # {} /\ lastText' = [lastText EXCEPT ![n] = text]
      /\ UNCHANGED <<disk, files, ids, told, events, strayed>>
  BY DEF Emit, VaultInv, SweepIsTrue, HandIsTrue
<1>2. VaultTypes /\ sweep[p] \in Sweeps /\ SweepIsTrue(p) /\ StoryIsTrue
  BY DEF VaultInv, VaultTypes
<1>3. n \in sweep[p].todo /\ n \in Notes
  BY <1>1, <1>2, FirstNoteIsOne
<1>4. sweep' = [sweep EXCEPT ![p] = s]
  BY <1>2 DEF Emit, VaultTypes, Sweeps
<1>5. /\ TrueMark(n, sweep[p].mtime, text) /\ sweep[p].mtime \in Nat /\ text \in MaybeText /\ lastText[n] \in MaybeText
      /\ sweep[p].mtime > old.mtime /\ old.mtime \in Nat /\ text # Gone
      /\ mark \in TextMarks /\ mark.mtime = sweep[p].mtime /\ mark.text = text
      /\ old = sweep[p].files[n] /\ (n \notin strayed => old = files[n])
  <2>1. TrueMark(n, sweep[p].mtime, text) /\ sweep[p].mtime > old.mtime
    BY <1>1, <1>2 DEF SweepIsTrue, HandIsTrue
  <2>2. sweep[p].mtime \in Nat /\ text \in MaybeText /\ old \in TextMarks /\ lastText[n] \in MaybeText /\ old = sweep[p].files[n]
    BY <1>2, <1>3 DEF Sweeps, Old, VaultTypes
  <2>3. old.mtime \in Nat
    BY <2>2 DEF TextMarks
  <2>4. text # Gone
    BY <2>1, <2>2, <2>3 DEF TrueMark
  <2>5. mark \in TextMarks /\ mark.mtime = sweep[p].mtime /\ mark.text = text
    BY <2>2 DEF MarkOf, TextMarks
  <2>6. n \notin strayed => sweep[p].files[n] = files[n]
    BY <1>1, <1>2, <1>3 DEF SweepIsTrue, AsSaved, Before
  <2> QED
    BY <2>1, <2>2, <2>3, <2>4, <2>5, <2>6
<1>6. /\ item \in NoteItems /\ item.note = n /\ item.new = text
      /\ old.mtime = 0 => item.kind = "chunk"
      /\ old.mtime # 0 => /\ item.kind = "diff" /\ item.id[3] = sweep[p].mtime
                          /\ item.old = IF lastText[n] = Gone THEN 0 ELSE lastText[n]
  <2>0. 0 \in MaybeText /\ text \in Nat
    BY <1>5, VaultBounds DEF MaybeText, NoteTexts
  <2>1. CASE old.mtime = 0
    <3>1. item = [note |-> n, kind |-> "chunk", old |-> Gone, new |-> text, id |-> <<n, "chunk", text>>]
      BY <2>1 DEF Chunk
    <3>2. Gone \in MaybeText /\ <<n, "chunk", text>> \in RowIds
      BY <1>3, <2>0 DEF MaybeText, RowIds, NoteKinds
    <3> QED
      BY <1>3, <1>5, <2>1, <3>1, <3>2 DEF NoteItems, NoteKinds
  <2>2. CASE old.mtime # 0
    <3>1. item = [note |-> n, kind |-> "diff", old |-> IF lastText[n] = Gone THEN 0 ELSE lastText[n], new |-> text,
                  id |-> <<n, "diff", sweep[p].mtime>>]
      BY <2>2 DEF Diff
    <3>2. <<n, "diff", sweep[p].mtime>> \in RowIds
      BY <1>3, <1>5 DEF RowIds, NoteKinds
    <3> QED
      BY <1>3, <1>5, <2>0, <2>2, <3>1, <3>2 DEF NoteItems, NoteKinds
  <2> QED
    BY <2>1, <2>2
<1>7. /\ s \in Sweeps /\ s.pc = "visit" /\ s.listed = sweep[p].listed /\ s.todo = sweep[p].todo \ {n}
      /\ s.items = Append(sweep[p].items, item)
      /\ s.files = [sweep[p].files EXCEPT ![n] = mark]
  <2>1. Append(sweep[p].items, item) \in Seq(NoteItems)
    <3>1. sweep[p].items \in Seq(NoteItems)
      BY <1>2, ItemsAreItems
    <3> QED
      BY <1>6, <3>1
  <2>2. [sweep[p].files EXCEPT ![n] = mark] \in [Notes -> TextMarks] /\ sweep[p].todo \ {n} \in SUBSET Notes
    BY <1>2, <1>3, <1>5 DEF Sweeps
  <2> QED
    BY <1>2, <2>1, <2>2 DEF Sweeps
<1>8. s.files[n] = mark /\ \A m \in Notes : m # n => s.files[m] = sweep[p].files[m]
  BY <1>2, <1>3, <1>7 DEF Sweeps
<1>9. /\ sweep' \in [Sweepers -> Sweeps] /\ sweep'[p] = s
      /\ \A q \in Sweepers : q # p => sweep'[q] = sweep[q]
  BY <1>2, <1>4, <1>7, OthersSweepOn
<1> DEFINE its == sweep[p].items
<1>10. /\ Len(its) \in Nat /\ DOMAIN its = 1..Len(its) /\ DOMAIN s.items = 1..(Len(its) + 1)
       /\ s.items[Len(its) + 1] = item /\ \A i \in 1..Len(its) : s.items[i] = its[i] /\ its[i].note # n /\ its[i].note \in Notes
  <2>1. its \in Seq(NoteItems) /\ \A i \in DOMAIN its : its[i].note \in Notes /\ its[i].note # n
    BY <1>2, <1>3, ItemsAreItems DEF SweepIsTrue, OneItemEach
  <2> HIDE DEF its
  <2>2. s.items = Append(its, item)
    BY <1>7 DEF its
  <2> QED
    BY <2>1, <2>2, <1>6
<1>11. VaultTypes'
  <2>1. lastText' \in [Notes -> MaybeText]
    BY <1>1, <1>2, <1>5 DEF VaultTypes
  <2> QED
    BY <1>1, <1>2, <1>9, <2>1 DEF VaultTypes
<1>12. DiskIsOld' /\ FilesAreTrue'
  BY <1>1 DEF VaultInv, DiskIsOld, FilesAreTrue, TrueMark
<1>13. Before(p)' /\ ~Telling(p)' /\ Before(p) /\ ~Telling(p) /\ sweep[p].pc # "upload"
  BY <1>1, <1>7, <1>9 DEF Before, Telling
<1>14. /\ \A m : m # n => Made(p, m)' = Made(p, m)
       /\ Len(its) + 1 \in Made(p, n)'
  <2>1. \A m : Made(p, m)' = {i \in DOMAIN s.items : s.items[i].note = m}
    BY <1>9 DEF Made
  <2>2. \A m : Made(p, m) = {i \in DOMAIN its : its[i].note = m}
    BY DEF Made
  <2> HIDE DEF its
  <2>3. Len(its) + 1 \in Made(p, n)'
    BY <1>6, <1>10, <2>1
  <2>4. ASSUME NEW m, m # n PROVE Made(p, m)' = Made(p, m)
    <3>1. \A i \in DOMAIN s.items : s.items[i].note = m => i \in DOMAIN its /\ its[i].note = m
      BY <1>6, <1>10, <2>4
    <3>2. \A i \in DOMAIN its : its[i].note = m => i \in DOMAIN s.items /\ s.items[i].note = m
      BY <1>10
    <3>3. {i \in DOMAIN s.items : s.items[i].note = m} = {i \in DOMAIN its : its[i].note = m}
      BY <3>1, <3>2
    <3> QED
      BY <2>1, <2>2, <3>3
  <2> QED
    BY <2>3, <2>4
<1>15. ASSUME NEW q \in Sweepers PROVE SweepIsTrue(q)'
  <2>1. CASE q = p
    <3>1. MarksAreTrue(p)'
      BY <1>1, <1>2, <1>5, <1>8, <1>9 DEF SweepIsTrue, MarksAreTrue, TrueMark
    <3>2. HandIsTrue(p)'
      BY <1>7, <1>9 DEF HandIsTrue
    <3>3. OneItemEach(p)'
      <4>1. /\ \A i, j \in DOMAIN its : its[i].note = its[j].note => i = j
            /\ sweep[p].todo \subseteq sweep[p].listed
            /\ \A i \in DOMAIN its : its[i].note \notin sweep[p].todo /\ its[i].note \in sweep[p].listed /\ its[i].kind # "tombstone"
        BY <1>1, <1>2 DEF SweepIsTrue, OneItemEach
      <4>2. item.kind # "tombstone"
        BY <1>6
      <4> HIDE DEF its
      <4>3. \A i, j \in DOMAIN s.items : s.items[i].note = s.items[j].note => i = j
        BY <1>6, <1>10, <4>1
      <4>4. s.todo \subseteq s.listed
        BY <1>7, <4>1
      <4>5. \A i \in DOMAIN s.items : s.items[i].note \notin s.todo /\ s.items[i].note \in s.listed /\ s.items[i].kind # "tombstone"
        BY <1>3, <1>6, <1>7, <1>10, <4>1, <4>2
      <4> QED
        BY <1>9, <4>3, <4>4, <4>5 DEF OneItemEach
    <3>4. AsSaved(p)'
      <4> SUFFICES ASSUME NEW m \in Notes \ strayed
                   PROVE  /\ m \in s.todo \/ (m \notin s.listed /\ s.pc # "upload") => s.files[m] = files[m]
                          /\ Made(p, m)' = {} => s.files[m].text = files[m].text /\ s.files[m].mtime >= files[m].mtime
        BY <1>1, <1>9, <1>13 DEF AsSaved
      <4>1. CASE m = n
        <5>1. n \in s.listed /\ n \notin s.todo
          BY <1>2, <1>3, <1>7 DEF SweepIsTrue, OneItemEach
        <5> QED
          BY <1>14, <4>1, <5>1
      <4>2. CASE m # n
        <5>1. m \in s.todo => m \in sweep[p].todo
          BY <1>7
        <5>2. /\ m \in sweep[p].todo \/ (m \notin sweep[p].listed /\ sweep[p].pc # "upload") => sweep[p].files[m] = files[m]
              /\ Made(p, m) = {} => sweep[p].files[m].text = files[m].text /\ sweep[p].files[m].mtime >= files[m].mtime
          BY <1>2, <1>13 DEF SweepIsTrue, AsSaved
        <5> QED
          BY <1>7, <1>8, <1>13, <1>14, <4>2, <5>1, <5>2
      <4> QED
        BY <4>1, <4>2
    <3>5. ItemsAreNews(p)'
      <4>1. Single(p)' => Single(p)
        BY <1>9 DEF Single, Before
      <4>2. ASSUME NEW i \in DOMAIN its, its[i].note \notin strayed, NEW r, r = its[i] PROVE ANews(p, r)'
        <5>1. ANews(p, r)
          BY <1>2, <1>13, <4>2 DEF SweepIsTrue, ItemsAreNews
        <5>2. r.note # n /\ r.note \in Notes
          BY <1>10, <4>2
        <5>3. sweep'[p].files[r.note] = sweep[p].files[r.note] /\ lastText'[r.note] = lastText[r.note]
          BY <1>1, <1>2, <1>8, <1>9, <5>2 DEF VaultTypes
        <5> QED
          BY <1>1, <4>1, <5>1, <5>3 DEF ANews
      <4>3. ASSUME n \notin strayed PROVE ANews(p, item)'
        <5>1. sweep'[p].files[n] = mark /\ lastText'[n] = text
          BY <1>1, <1>2, <1>3, <1>8, <1>9 DEF VaultTypes
        <5>2. old.mtime = 0 => told[n] = << >>
          BY <1>1, <1>2, <1>5, <4>3 DEF SweepIsTrue, NewIsUntold
        <5>3. ASSUME Single(p), old.mtime # 0 PROVE item.old = files[n].text
          <6>1. \A t \in Sweepers : Before(t) => Made(t, n) = {}
            <7>1. Made(p, n) = {}
              BY <1>10 DEF Made
            <7> QED
              BY <5>3, <7>1 DEF Single
          <6>2. lastText[n] = files[n].text
            BY <1>2, <1>3, <1>5, <4>3, <5>3, <6>1 DEF StoryIsTrue, LastIsSaved
          <6>3. files[n].text # Gone
            BY <1>3, <1>5, <4>3, <5>3 DEF VaultInv, FilesAreTrue, TrueMark
          <6> QED
            BY <1>6, <5>3, <6>2, <6>3
        <5>4. files[n] = old /\ item.note = n /\ item.new = text /\ mark.text = text /\ mark.mtime = sweep[p].mtime
              /\ mark.mtime > old.mtime /\ old.mtime \in Nat /\ mark.mtime \in Nat
          BY <1>5, <1>6, <4>3
        <5>5. item.kind = "chunk" => old.mtime = 0
          BY <1>6
        <5>6. item.kind # "chunk" => old.mtime # 0 /\ item.id[3] = mark.mtime
          BY <1>6, <5>4
        <5>7. Single(p)' => (item.kind = "diff" => item.old = files[n].text)
          BY <4>1, <5>3, <5>6
        <5>8. UNCHANGED <<files, told>>
          BY <1>1
        <5> QED
          BY <5>1, <5>2, <5>4, <5>5, <5>6, <5>7, <5>8 DEF ANews
      <4>4. ASSUME NEW i \in DOMAIN s.items, s.items[i].note \notin strayed PROVE ANews(p, s.items[i])'
        <5>1. CASE i = Len(its) + 1
          <6>1. s.items[i] = item
            BY <1>10, <5>1
          <6>2. (s.items[i])' = item
            BY <1>9, <6>1
          <6> QED
            BY <1>6, <4>3, <4>4, <6>1, <6>2
        <5>2. CASE i \in DOMAIN its
          <6> PICK r : r = its[i]
            OBVIOUS
          <6>1. r = s.items[i] /\ r.note \notin strayed
            BY <1>10, <4>4, <5>2
          <6> QED
            BY <4>2, <5>2, <6>1
        <5> QED
          BY <1>10, <5>1, <5>2
      <4> QED
        BY <1>1, <1>9, <4>4 DEF ItemsAreNews
    <3>6. NewIsUntold(p)' /\ RowsGoOn(p)'
      BY <1>7, <1>9 DEF NewIsUntold, RowsGoOn, Telling
    <3> QED
      BY <2>1, <3>1, <3>2, <3>3, <3>4, <3>5, <3>6 DEF SweepIsTrue
  <2>2. CASE q # p
    <3>1. ~Single(q)'
      BY <1>13, <2>2 DEF Single
    <3> QED
      BY <1>1, <1>2, <1>9, <2>2, <3>1, BystandersStayTrue DEF VaultInv
  <2> QED
    BY <2>1, <2>2
<1>16. StoryIsTrue'
  <2>1. ASSUME NEW m \in Notes \ strayed, files[m].mtime # 0, \A i \in Made(p, m)' : sweep'[p].items[i].kind = "chunk"
        PROVE  lastText'[m] = lastText[m] /\ \A i \in Made(p, m) : sweep[p].items[i].kind = "chunk"
    <3>1. CASE m = n
      <4>1. s.items[Len(its) + 1].kind = "chunk"
        BY <1>9, <1>14, <2>1, <3>1
      <4> QED
        BY <1>5, <1>6, <1>10, <2>1, <3>1, <4>1
    <3>2. CASE m # n
      <4>1. lastText'[m] = lastText[m]
        BY <1>1, <1>2, <3>2 DEF VaultTypes
      <4>2. ASSUME NEW i \in Made(p, m) PROVE its[i].kind = "chunk"
        <5>1. s.items[i].kind = "chunk" /\ i \in DOMAIN its
          BY <1>9, <1>14, <2>1, <3>2, <4>2 DEF Made
        <5> QED
          BY <1>10, <5>1
      <4> QED
        BY <4>1, <4>2
    <3> QED
      BY <3>1, <3>2
  <2> QED
    BY <1>1, <1>2, <1>9, <1>13, <2>1, NewsKeepTheStory
<1> QED
  BY <1>11, <1>12, <1>15, <1>16 DEF VaultInv

\* And each of them is there.
LEMMA SetsAreListedWhole ==
  ASSUME NEW S, IsFiniteSet(S)
  PROVE  \A x \in S : \E i \in DOMAIN SetToSeq(S) : SetToSeq(S)[i] = x
<1>1. Cardinality(S) \in Nat /\ ExistsBijection(1..Cardinality(S), S)
  BY FS_CardinalityType
<1>2. PICK b : b \in [1..Cardinality(S) -> S] /\ IsInjective(b)
  BY <1>1 DEF ExistsBijection, Bijection, Injection
<1>3. SetToSeq(S) \in [1..Cardinality(S) -> S] /\ IsInjective(SetToSeq(S))
  BY <1>2 DEF SetToSeq
<1>4. SetToSeq(S) \in Injection(1..Cardinality(S), S)
  BY <1>3 DEF Injection
<1>5. Cardinality(1..Cardinality(S)) = Cardinality(S)
  <2>1. 1 \in Int /\ Cardinality(S) \in Int
    BY <1>1
  <2> QED
    BY <1>1, <2>1, FS_Interval
<1>6. SetToSeq(S) \in Surjection(1..Cardinality(S), S)
  BY <1>4, <1>5, FS_Injection
<1> QED
  BY <1>3, <1>6 DEF Surjection

\* The tombstones of a poll: one of each note that is lost.
LEMMA GravesAreOfTheLost ==
  ASSUME VaultTypes, NEW lost \in SUBSET Notes, NEW graves, graves = Graves(lost)
  PROVE  /\ graves \in Seq(NoteItems)
         /\ \A i \in DOMAIN graves : /\ graves[i].note \in lost /\ graves[i].kind = "tombstone" /\ graves[i].new = Gone
                                     /\ \A j \in DOMAIN graves : graves[i].note = graves[j].note => i = j
         /\ \A n \in lost : \E i \in DOMAIN graves : graves[i].note = n
<1> DEFINE G == {Grave(n, events) : n \in lost}
<1>1. ASSUME NEW n \in lost
      PROVE  Grave(n, events) \in NoteItems /\ Grave(n, events).note = n /\ Grave(n, events).kind = "tombstone" /\ Grave(n, events).new = Gone
  <2>1. Grave(n, events) = [note |-> n, kind |-> "tombstone", old |-> lastText[n], new |-> Gone, id |-> <<n, "tombstone", events>>]
    BY DEF Grave
  <2>2. n \in Notes /\ lastText[n] \in MaybeText /\ Gone \in MaybeText /\ events \in Nat
    BY DEF VaultTypes, MaybeText
  <2>3. <<n, "tombstone", events>> \in RowIds
    BY <2>2 DEF RowIds, NoteKinds
  <2> QED
    BY <2>1, <2>2, <2>3 DEF NoteItems, NoteKinds
<1>2. IsFiniteSet(G)
  <2>1. IsFiniteSet(lost)
    BY VaultBounds, FS_Subset
  <2> DEFINE f == [n \in lost |-> Grave(n, events)]
  <2>2. f \in Surjection(lost, G)
    BY DEF Surjection
  <2> HIDE DEF f, G
  <2> QED
    BY <2>1, <2>2, FS_Surjection
<1> HIDE DEF G
<1>3. /\ graves \in Seq(G) /\ \A i, j \in DOMAIN graves : graves[i] = graves[j] => i = j
      /\ \A x \in G : \E i \in DOMAIN graves : graves[i] = x
  <2>1. graves = SetToSeq(G)
    BY DEF Graves, G
  <2> QED
    BY <1>2, <2>1, SetsAreListedOnce, SetsAreListedWhole
<1>4. /\ G \subseteq NoteItems /\ \A x \in G : x.note \in lost /\ x.kind = "tombstone" /\ x.new = Gone
      /\ \A x, y \in G : x.note = y.note => x = y
      /\ \A n \in lost : \E x \in G : x.note = n
  BY <1>1 DEF G
<1>5. \A i \in DOMAIN graves : graves[i] \in G
  BY <1>3
<1>6. graves \in Seq(NoteItems)
  BY <1>3, <1>4, <1>5
<1>7. ASSUME NEW i \in DOMAIN graves
      PROVE  /\ graves[i].note \in lost /\ graves[i].kind = "tombstone" /\ graves[i].new = Gone
             /\ \A j \in DOMAIN graves : graves[i].note = graves[j].note => i = j
  <2>1. ASSUME NEW j \in DOMAIN graves, graves[i].note = graves[j].note PROVE i = j
    <3>1. graves[i] = graves[j]
      BY <1>4, <1>5, <2>1
    <3> QED
      BY <1>3, <3>1
  <2> QED
    BY <1>4, <1>5, <2>1
<1>8. ASSUME NEW n \in lost PROVE \E i \in DOMAIN graves : graves[i].note = n
  <2>1. PICK x \in G : x.note = n
    BY <1>4
  <2>2. PICK i \in DOMAIN graves : graves[i] = x
    BY <1>3
  <2> QED
    BY <2>1, <2>2
<1> QED
  BY <1>6, <1>7, <1>8

LEMMA TombstonesKeepTheStory ==
  ASSUME VaultInv, NEW p \in Sweepers, Tombstones(p) PROVE VaultInv'
<1>a. PICK its : its = sweep[p].items
  OBVIOUS
<1>b. PICK lost : lost = Missed(p)
  OBVIOUS
<1>c. PICK graves : graves = Graves(lost)
  OBVIOUS
<1>m. PICK marks : marks = [n \in Notes |-> IF n \in lost THEN NeverSeen ELSE sweep[p].files[n]]
  OBVIOUS
<1>s. PICK s : s = [sweep[p] EXCEPT !.pc = "upload", !.items = its \o graves, !.files = marks]
  OBVIOUS
<1>1. /\ sweep[p].pc = "visit" /\ sweep[p].todo = {} /\ lastText' = [n \in Notes |-> IF n \in lost THEN Gone ELSE lastText[n]]
      /\ UNCHANGED <<disk, files, ids, told, events, strayed>>
  BY <1>b DEF Tombstones
<1>2. VaultTypes /\ sweep[p] \in Sweeps /\ SweepIsTrue(p) /\ StoryIsTrue /\ lost \in SUBSET Notes
      /\ \A n \in lost : n \notin sweep[p].listed /\ sweep[p].files[n].mtime # 0
  <2>1. lost = {n \in Notes \ sweep[p].listed : sweep[p].files[n].mtime # 0}
    BY <1>b DEF Missed
  <2> QED
    BY <2>1 DEF VaultInv, VaultTypes
<1>3. /\ graves \in Seq(NoteItems)
      /\ \A i \in DOMAIN graves : /\ graves[i].note \in lost /\ graves[i].kind = "tombstone" /\ graves[i].new = Gone
                                  /\ \A j \in DOMAIN graves : graves[i].note = graves[j].note => i = j
      /\ \A n \in lost : \E i \in DOMAIN graves : graves[i].note = n
  BY <1>2, <1>c, GravesAreOfTheLost
<1>4. sweep' = [sweep EXCEPT ![p] = s]
  BY <1>2, <1>a, <1>b, <1>c, <1>m, <1>s DEF Tombstones, VaultTypes, Sweeps
<1>5. /\ its \in Seq(NoteItems) /\ \A i \in DOMAIN its : its[i].note \in Notes
      /\ \A i \in DOMAIN its : its[i].note \notin lost /\ its[i].kind # "tombstone"
  BY <1>1, <1>2, <1>a, ItemsAreItems DEF SweepIsTrue, OneItemEach
<1>6. NeverSeen \in TextMarks /\ NeverSeen.mtime = 0 /\ NeverSeen.text = Gone
  BY DEF NeverSeen, TextMarks, MaybeText
<1>7. /\ s \in Sweeps /\ s.pc = "upload" /\ s.listed = sweep[p].listed /\ s.todo = {} /\ s.items = its \o graves
      /\ s.files = marks
  <2>1. its \o graves \in Seq(NoteItems)
    BY <1>3, <1>5
  <2>2. marks \in [Notes -> TextMarks]
    BY <1>2, <1>6, <1>m DEF Sweeps
  <2> QED
    BY <1>1, <1>2, <1>s, <2>1, <2>2 DEF Sweeps
<1>8. \A n \in Notes : s.files[n] = IF n \in lost THEN NeverSeen ELSE sweep[p].files[n]
  BY <1>7, <1>m
<1>9. /\ sweep' \in [Sweepers -> Sweeps] /\ sweep'[p] = s
      /\ \A q \in Sweepers : q # p => sweep'[q] = sweep[q]
  BY <1>2, <1>4, <1>7, OthersSweepOn
<1>L. PICK L, G : L = Len(its) /\ G = Len(graves)
  OBVIOUS
<1>10. /\ L \in Nat /\ G \in Nat /\ DOMAIN its = 1..L /\ DOMAIN graves = 1..G /\ DOMAIN s.items = 1..(L + G)
       /\ \A i \in 1..L : s.items[i] = its[i]
       /\ \A i \in 1..G : s.items[L + i] = graves[i]
       /\ \A i \in DOMAIN s.items : i \in 1..L \/ (i - L \in 1..G /\ s.items[i] = graves[i - L])
  <2>1. s.items = its \o graves
    BY <1>7
  <2> QED
    BY <1>3, <1>5, <1>L, <2>1
<1>11. VaultTypes'
  <2>1. lastText' \in [Notes -> MaybeText]
    BY <1>1, <1>2 DEF VaultTypes, MaybeText
  <2> QED
    BY <1>1, <1>2, <1>9, <2>1 DEF VaultTypes
<1>12. DiskIsOld' /\ FilesAreTrue'
  BY <1>1 DEF VaultInv, DiskIsOld, FilesAreTrue, TrueMark
<1>13. Before(p)' /\ ~Telling(p)' /\ Before(p) /\ ~Telling(p)
  BY <1>1, <1>7, <1>9 DEF Before, Telling
<1>14. /\ \A m : \A i \in Made(p, m) : i \in Made(p, m)' /\ s.items[i] = its[i]
       /\ \A m \in lost : \E i \in Made(p, m)' : s.items[i].kind = "tombstone"
  <2>1. \A m : Made(p, m)' = {i \in DOMAIN s.items : s.items[i].note = m}
    BY <1>9 DEF Made
  <2>2. \A m : Made(p, m) = {i \in DOMAIN its : its[i].note = m}
    BY <1>a DEF Made
  <2>3. ASSUME NEW m, NEW i \in Made(p, m) PROVE i \in Made(p, m)' /\ s.items[i] = its[i]
    BY <1>10, <2>1, <2>2, <2>3
  <2>4. ASSUME NEW m \in lost PROVE \E i \in Made(p, m)' : s.items[i].kind = "tombstone"
    <3>1. PICK i \in DOMAIN graves : graves[i].note = m
      BY <1>3
    <3>2. L + i \in DOMAIN s.items /\ s.items[L + i] = graves[i]
      BY <1>10
    <3> QED
      BY <1>3, <2>1, <3>1, <3>2
  <2> QED
    BY <2>3, <2>4
<1>15. ASSUME NEW q \in Sweepers PROVE SweepIsTrue(q)'
  <2>1. CASE q = p
    <3>1. MarksAreTrue(p)'
      <4>1. ASSUME NEW n \in Notes PROVE TrueMark(n, s.files[n].mtime, s.files[n].text)
        <5>1. CASE n \in lost
          <6>1. disk[n].mtime \in Nat /\ (disk[n].mtime = 0 => disk[n].text = Gone)
            BY <1>2 DEF VaultTypes, OnDisk, VaultInv, DiskIsOld
          <6> QED
            BY <1>6, <1>8, <5>1, <6>1 DEF TrueMark
        <5>2. CASE n \notin lost
          BY <1>2, <1>8, <5>2 DEF SweepIsTrue, MarksAreTrue
        <5> QED
          BY <5>1, <5>2
      <4>2. \A m, t, x : TrueMark(m, t, x) => TrueMark(m, t, x)'
        BY <1>1 DEF TrueMark
      <4> QED
        BY <1>9, <4>1, <4>2 DEF MarksAreTrue
    <3>2. HandIsTrue(p)'
      BY <1>7, <1>9 DEF HandIsTrue
    <3>3. OneItemEach(p)'
      <4>1. \A i, j \in DOMAIN its : its[i].note = its[j].note => i = j
        BY <1>2, <1>a DEF SweepIsTrue, OneItemEach
      <4>2. ASSUME NEW i \in DOMAIN s.items, NEW j \in DOMAIN s.items, s.items[i].note = s.items[j].note PROVE i = j
        <5>1. CASE i \in 1..L /\ j \in 1..L
          <6>1. i \in DOMAIN its /\ j \in DOMAIN its /\ s.items[i] = its[i] /\ s.items[j] = its[j]
            BY <1>10, <5>1
          <6> QED
            BY <4>1, <4>2, <6>1
        <5>2. CASE i \notin 1..L /\ j \notin 1..L
          <6>1. /\ i - L \in DOMAIN graves /\ s.items[i] = graves[i - L]
                /\ j - L \in DOMAIN graves /\ s.items[j] = graves[j - L]
            BY <1>10, <5>2
          <6>2. i - L = j - L
            BY <1>3, <4>2, <6>1
          <6> QED
            BY <1>10, <6>2
        <5>3. CASE i \in 1..L /\ j \notin 1..L
          BY <1>3, <1>5, <1>10, <4>2, <5>3
        <5>4. CASE i \notin 1..L /\ j \in 1..L
          BY <1>3, <1>5, <1>10, <4>2, <5>4
        <5> QED
          BY <5>1, <5>2, <5>3, <5>4
      <4> QED
        BY <1>7, <1>9, <4>2 DEF OneItemEach
    <3>4. AsSaved(p)'
      <4> SUFFICES ASSUME NEW m \in Notes \ strayed, Made(p, m)' = {}
                   PROVE  s.files[m].text = files[m].text /\ s.files[m].mtime >= files[m].mtime
        BY <1>1, <1>7, <1>9, <1>13 DEF AsSaved
      <4>1. m \notin lost /\ Made(p, m) = {}
        BY <1>14
      <4> QED
        BY <1>2, <1>8, <1>13, <4>1 DEF SweepIsTrue, AsSaved
    <3>5. ItemsAreNews(p)'
      <4>1. Single(p)' => Single(p)
        BY <1>9 DEF Single, Before
      <4>2. ASSUME NEW r, r.note \in Notes, r.note \notin lost, ANews(p, r) PROVE ANews(p, r)'
        <5>1. sweep'[p].files[r.note] = sweep[p].files[r.note] /\ lastText'[r.note] = lastText[r.note]
          BY <1>1, <1>8, <1>9, <4>2
        <5> QED
          BY <1>1, <4>1, <4>2, <5>1 DEF ANews
      <4>3. ASSUME NEW r, r.note \in lost, r.note \notin strayed, r.kind = "tombstone", r.new = Gone PROVE ANews(p, r)'
        <5>1. sweep'[p].files[r.note] = NeverSeen /\ lastText'[r.note] = Gone
          BY <1>1, <1>2, <1>8, <1>9, <4>3
        <5>2. files[r.note].mtime # 0
          BY <1>1, <1>2, <1>13, <4>3 DEF SweepIsTrue, AsSaved
        <5> QED
          BY <1>1, <1>6, <4>3, <5>1, <5>2 DEF ANews
      <4>4. ASSUME NEW i \in DOMAIN s.items, s.items[i].note \notin strayed PROVE ANews(p, s.items[i])'
        <5>1. CASE i \in 1..L
          <6>1. ANews(p, its[i])
            BY <1>2, <1>10, <1>13, <1>a, <4>4, <5>1 DEF SweepIsTrue, ItemsAreNews
          <6> QED
            BY <1>5, <1>10, <4>2, <5>1, <6>1
        <5>2. CASE i \notin 1..L
          <6>1. PICK j \in DOMAIN graves : s.items[i] = graves[j]
            BY <1>10, <5>2
          <6>2. s.items[i].note \in lost /\ s.items[i].kind = "tombstone" /\ s.items[i].new = Gone
            BY <1>3, <6>1
          <6> QED
            BY <4>3, <4>4, <6>2
        <5> QED
          BY <5>1, <5>2
      <4> QED
        BY <1>1, <1>9, <4>4 DEF ItemsAreNews
    <3>6. NewIsUntold(p)' /\ RowsGoOn(p)'
      BY <1>7, <1>9 DEF NewIsUntold, RowsGoOn, Telling
    <3> QED
      BY <2>1, <3>1, <3>2, <3>3, <3>4, <3>5, <3>6 DEF SweepIsTrue
  <2>2. CASE q # p
    <3>1. ~Single(q)'
      BY <1>13, <2>2 DEF Single
    <3> QED
      BY <1>1, <1>2, <1>9, <2>2, <3>1, BystandersStayTrue DEF VaultInv
  <2> QED
    BY <2>1, <2>2
<1>16. StoryIsTrue'
  <2>1. ASSUME NEW m \in Notes \ strayed, files[m].mtime # 0, \A i \in Made(p, m)' : sweep'[p].items[i].kind = "chunk"
        PROVE  lastText'[m] = lastText[m] /\ \A i \in Made(p, m) : sweep[p].items[i].kind = "chunk"
    <3>1. m \notin lost
      BY <1>9, <1>14, <2>1
    <3>2. lastText'[m] = lastText[m]
      BY <1>1, <3>1
    <3> QED
      BY <1>9, <1>14, <1>a, <2>1, <3>2
  <2> QED
    BY <1>1, <1>2, <1>9, <1>13, <2>1, NewsKeepTheStory
<1> QED
  BY <1>11, <1>12, <1>15, <1>16 DEF VaultInv

LEMMA SavesKeepTheStory ==
  ASSUME VaultInv, NEW p \in Sweepers, SaveFiles(p) PROVE VaultInv'
<1>s. PICK s : s = [sweep[p] EXCEPT !.pc = "write", !.ids = ids]
  OBVIOUS
<1>1. /\ sweep[p].pc = "upload" /\ files' = sweep[p].files
      /\ strayed' = (IF Overlapped(p) THEN Notes ELSE strayed)
      /\ UNCHANGED <<disk, lastText, ids, told, events>>
  BY DEF SaveFiles
<1>2. VaultTypes /\ sweep[p] \in Sweeps /\ SweepIsTrue(p) /\ StoryIsTrue
  BY DEF VaultInv, VaultTypes
<1>3. sweep' = [sweep EXCEPT ![p] = s]
  BY <1>2, <1>s DEF SaveFiles, VaultTypes, Sweeps
<1>4. /\ s \in Sweeps /\ s.pc = "write" /\ s.files = sweep[p].files /\ s.listed = sweep[p].listed /\ s.todo = sweep[p].todo
      /\ s.items = sweep[p].items /\ s.ids = ids
  BY <1>2, <1>s DEF Sweeps, VaultTypes
<1>5. /\ sweep' \in [Sweepers -> Sweeps] /\ sweep'[p] = s
      /\ \A q \in Sweepers : q # p => sweep'[q] = sweep[q]
  BY <1>2, <1>3, <1>4, OthersSweepOn
<1>6. VaultTypes'
  <2>1. files' \in [Notes -> TextMarks] /\ strayed' \in SUBSET Notes
    BY <1>1, <1>2 DEF Sweeps, VaultTypes
  <2> QED
    BY <1>1, <1>2, <1>5, <2>1 DEF VaultTypes
<1>7. DiskIsOld' /\ FilesAreTrue'
  BY <1>1, <1>2 DEF VaultInv, DiskIsOld, FilesAreTrue, TrueMark, SweepIsTrue, MarksAreTrue
<1>8. MarksAreTrue(p)' /\ HandIsTrue(p)' /\ OneItemEach(p)'
  <2>1. MarksAreTrue(p)'
    BY <1>1, <1>2, <1>4, <1>5 DEF SweepIsTrue, MarksAreTrue, TrueMark
  <2>2. HandIsTrue(p)'
    BY <1>1, <1>2, <1>4, <1>5 DEF SweepIsTrue, HandIsTrue
  <2>3. OneItemEach(p)'
    BY <1>1, <1>2, <1>4, <1>5 DEF SweepIsTrue, OneItemEach
  <2> QED
    BY <2>1, <2>2, <2>3
<1>9. CASE Overlapped(p)
  <2>1. strayed' = Notes
    BY <1>1, <1>9
  <2>2. ASSUME NEW q \in Sweepers, q # p PROVE MarksAreTrue(q)' /\ HandIsTrue(q)' /\ OneItemEach(q)'
    <3>1. SweepIsTrue(q) /\ sweep'[q] = sweep[q] /\ disk' = disk
      BY <1>1, <1>5, <2>2 DEF VaultInv
    <3>2. MarksAreTrue(q)'
      BY <3>1 DEF SweepIsTrue, MarksAreTrue, TrueMark
    <3>3. HandIsTrue(q)'
      BY <3>1 DEF SweepIsTrue, HandIsTrue, TrueMark, Note, Old
    <3>4. OneItemEach(q)'
      BY <3>1 DEF SweepIsTrue, OneItemEach
    <3> QED
      BY <3>2, <3>3, <3>4
  <2>3. StoryIsTrue' /\ \A q \in Sweepers : SweepIsTrue(q)'
    BY <1>6, <1>8, <2>1, <2>2, ExcusedStaysTrue
  <2> QED
    BY <1>6, <1>7, <2>3 DEF VaultInv
<1>10. CASE ~Overlapped(p)
  <2>1. strayed' = strayed /\ \A q \in Sweepers : q # p => sweep[q].pc = "rest"
    BY <1>1, <1>10 DEF Overlapped
  <2>2. Single(p) /\ Before(p) /\ \A q \in Sweepers : ~Telling(q)
    BY <1>1, <2>1 DEF Single, Before, Telling
  <2>3. /\ \A q \in Sweepers : ~Before(q)'
        /\ Telling(p)' /\ \A q \in Sweepers : q # p => ~Telling(q)'
    BY <1>4, <1>5, <2>1 DEF Before, Telling
  <2>4. \A n \in Notes \ strayed :
          /\ TrueMark(n, files[n].mtime, files[n].text) /\ TrueMark(n, s.files[n].mtime, s.files[n].text)
          /\ files'[n] = s.files[n] /\ files[n].mtime \in Nat /\ s.files[n].mtime \in Nat
          /\ Tale(n) = files[n].text /\ Tale(n)' = Tale(n)
    <3>1. \A n \in Notes \ strayed : Tale(n) = files[n].text
      BY <1>2, <2>2 DEF StoryIsTrue, TalesAreTold
    <3>2. \A n : Tale(n)' = Tale(n)
      BY <1>1 DEF Tale
    <3> QED
      BY <1>1, <1>2, <1>4, <3>1, <3>2 DEF VaultInv, FilesAreTrue, SweepIsTrue, MarksAreTrue, VaultTypes, Sweeps, TextMarks
  <2>5. ASSUME NEW i \in DOMAIN s.items, s.items[i].note \notin strayed
        PROVE  ANews(p, s.items[i]) /\ s.items[i] \in NoteItems /\ s.items[i].note \in Notes
    BY <1>2, <1>4, <2>2, <2>5, ItemsAreItems DEF SweepIsTrue, ItemsAreNews
  <2>6. ASSUME NEW n \in Notes \ strayed, Made(p, n) = {}
        PROVE  s.files[n].text = files[n].text /\ s.files[n].mtime >= files[n].mtime
    BY <1>2, <1>4, <2>2, <2>6 DEF SweepIsTrue, AsSaved
  <2>7. \A n, i : i \in Made(p, n) => i \in DOMAIN s.items /\ s.items[i].note = n
    BY <1>4 DEF Made
  <2>8. \A q \in Sweepers : \A n : Made(q, n)' = Made(q, n)
    <3>1. \A q \in Sweepers : sweep'[q].items = sweep[q].items
      BY <1>4, <1>5
    <3> QED
      BY <3>1 DEF Made
  <2>9. \A id \in ids : SeenIsTold(id) /\ id \in RowIds
    BY <1>2 DEF StoryIsTrue, IdsAreTold, VaultTypes
  <2>10. RowsGoOn(p)'
    <3>1. ASSUME NEW r \in NoteItems, r.note \in Notes \ strayed, ANews(p, r) PROVE GoesOn(p, r)'
      <4>1. r.id \notin ids
        <5> SUFFICES ASSUME r.id \in ids PROVE FALSE
          OBVIOUS
        <5>1. SeenIsTold(r.id) /\ r.id[1] = r.note /\ r.id[2] = r.kind /\ r.id \in RowIds
          BY <2>9, <3>1 DEF NoteItems
        <5>2. r.id[3] \in Nat
          BY <5>1 DEF RowIds
        <5>3. r.kind \in NoteKinds
          BY DEF NoteItems
        <5> QED
          BY <2>4, <3>1, <5>1, <5>2, <5>3 DEF SeenIsTold, ANews, NoteKinds
      <4>2. r.new = files'[r.note].text
        BY <2>4, <3>1, <1>4 DEF ANews
      <4>3. r.kind = "diff" => r.old = Tale(r.note)' /\ r.id[3] = files'[r.note].mtime
        BY <2>2, <2>4, <3>1, <1>4 DEF ANews
      <4>4. r.kind = "tombstone" => told[r.note] # << >>
        BY <2>4, <3>1 DEF ANews, TrueMark, Tale
      <4> QED
        BY <1>1, <1>4, <1>5, <4>1, <4>2, <4>3, <4>4 DEF GoesOn
    <3>2. ASSUME NEW i \in DOMAIN s.items, s.items[i].note \notin strayed PROVE GoesOn(p, s.items[i])'
      BY <2>5, <3>1, <3>2
    <3> QED
      BY <1>5, <2>1, <3>2 DEF RowsGoOn
  <2>11. ASSUME NEW q \in Sweepers PROVE SweepIsTrue(q)'
    <3>1. CASE q = p
      BY <1>8, <2>3, <2>10, <1>4, <1>5, <3>1 DEF SweepIsTrue, AsSaved, ItemsAreNews, NewIsUntold
    <3>2. CASE q # p
      BY <1>1, <1>5, <2>1, <3>2, RestersStayTrue DEF VaultInv
    <3> QED
      BY <3>1, <3>2
  <2>12. LastIsSaved'
    <3> SUFFICES ASSUME NEW n \in Notes \ strayed, s.files[n].mtime # 0 PROVE lastText[n] = s.files[n].text
      BY <1>1, <2>1, <2>4 DEF LastIsSaved
    <3>1. CASE Made(p, n) = {}
      <4>1. s.files[n].text = files[n].text
        BY <2>6, <3>1
      <4>2. files[n].mtime # 0
        BY <2>4, <4>1 DEF TrueMark
      <4>3. \A q \in Sweepers : Before(q) => Made(q, n) = {}
        BY <2>2, <3>1 DEF Single
      <4> QED
        BY <1>2, <4>1, <4>2, <4>3 DEF StoryIsTrue, LastIsSaved
    <3>2. ASSUME NEW i \in Made(p, n) PROVE lastText[n] = s.files[n].text
      BY <1>4, <2>2, <2>5, <2>7, <3>2 DEF ANews
    <3> QED
      BY <3>1, <3>2
  <2>13. OneTells'
    BY <2>3 DEF OneTells
  <2>14. TalesAreTold'
    <3> SUFFICES ASSUME NEW n \in Notes \ strayed, Made(p, n)' = {} PROVE Tale(n)' = files'[n].text
      BY <2>1, <2>3 DEF TalesAreTold
    <3> QED
      BY <2>4, <2>6, <2>8
  <2>15. IdsAreTold'
    <3>1. ASSUME NEW id \in ids PROVE SeenIsTold(id)'
      <4> PICK n : n = id[1]
        OBVIOUS
      <4> SUFFICES ASSUME n \notin strayed
                   PROVE  /\ told[n] # << >>
                          /\ id[2] = "diff" /\ s.files[n].mtime # 0 => id[3] <= s.files[n].mtime
                          /\ id[2] = "tombstone" => s.files[n].mtime = 0
        <5>1. id[1] \in Notes
          BY <2>9 DEF RowIds
        <5> QED
          BY <1>1, <1>4, <2>1, <5>1 DEF SeenIsTold
      <4>1. /\ n \in Notes \ strayed /\ id[3] \in Nat /\ told[n] # << >>
            /\ id[2] = "diff" /\ files[n].mtime # 0 => id[3] <= files[n].mtime
            /\ id[2] = "tombstone" => files[n].mtime = 0
        BY <2>9 DEF RowIds, SeenIsTold
      <4>2. CASE Made(p, n) = {}
        BY <2>4, <2>6, <4>1, <4>2 DEF TrueMark
      <4>3. ASSUME NEW i \in Made(p, n)
            PROVE  /\ id[2] = "diff" /\ s.files[n].mtime # 0 => id[3] <= s.files[n].mtime
                   /\ id[2] = "tombstone" => s.files[n].mtime = 0
        <5> PICK r : r = s.items[i]
          OBVIOUS
        <5>1. ANews(p, r) /\ r \in NoteItems /\ r.note = n
          BY <2>5, <2>7, <4>1, <4>3
        <5>2. r.kind \in NoteKinds /\ (r.kind = "tombstone" => r.new = Gone)
          BY <5>1 DEF NoteItems
        <5>3. CASE r.kind = "chunk"
          BY <4>1, <5>1, <5>3 DEF ANews
        <5>4. CASE r.kind = "diff"
          BY <1>4, <2>4, <4>1, <5>1, <5>4 DEF ANews
        <5>5. CASE r.kind = "tombstone"
          BY <1>4, <2>4, <4>1, <5>1, <5>2, <5>5 DEF ANews, TrueMark
        <5> QED
          BY <5>2, <5>3, <5>4, <5>5 DEF NoteKinds
      <4> QED
        BY <4>1, <4>2, <4>3
    <3> QED
      BY <1>1, <1>4, <1>5, <2>3, <3>1 DEF IdsAreTold
  <2>16. NoGaps'
    BY <1>1, <1>2, <2>1 DEF StoryIsTrue, NoGaps
  <2> QED
    BY <1>6, <1>7, <2>11, <2>12, <2>13, <2>14, <2>15, <2>16 DEF VaultInv, StoryIsTrue
<1> QED
  BY <1>9, <1>10

\* What is left of the items of a poll is items that it had.
LEMMA TailsAreLeft ==
  ASSUME NEW S, NEW list \in Seq(S), list # << >>
  PROVE  /\ Tail(list) \in Seq(S) /\ Head(list) = list[1] /\ 1 \in DOMAIN list
         /\ \A i \in DOMAIN Tail(list) : Tail(list)[i] = list[i + 1] /\ i + 1 \in DOMAIN list /\ i \in Nat /\ i + 1 # 1
         /\ \A i \in DOMAIN list : i = 1 \/ (i - 1 \in DOMAIN Tail(list) /\ Tail(list)[i - 1] = list[i])
OBVIOUS

\* A poll that is through with one of its items: what it has left, and of which notes.
Through(p, seen) == [sweep[p] EXCEPT !.items = Tail(sweep[p].items), !.ids = seen]
Shifted(p, row, s, seen) ==
  /\ s \in Sweeps /\ s.pc = "write" /\ s.files = sweep[p].files /\ s.todo = {} /\ s.listed = sweep[p].listed
  /\ s.items = Tail(sweep[p].items) /\ s.ids = seen
  /\ row \in NoteItems /\ row.note \in Notes
  /\ \A i, j \in DOMAIN s.items : s.items[i].note = s.items[j].note => i = j
  /\ \A i \in DOMAIN s.items : /\ s.items[i].note # row.note
                               /\ \E j \in DOMAIN sweep[p].items : s.items[i] = sweep[p].items[j]
  /\ \A n : n # row.note /\ {i \in DOMAIN s.items : s.items[i].note = n} = {} => Made(p, n) = {}

LEMMA ShiftsKeepItems ==
  ASSUME VaultTypes, NEW p \in Sweepers, OneItemEach(p), HandIsTrue(p), Telling(p), sweep[p].items # << >>,
         NEW row, row = Head(sweep[p].items), NEW seen \in SUBSET RowIds,
         NEW s, s = Through(p, seen)
  PROVE  Shifted(p, row, s, seen)
<1> PICK its : its = sweep[p].items
  OBVIOUS
<1>1. its \in Seq(NoteItems) /\ its # << >> /\ \A i \in DOMAIN its : its[i] \in NoteItems /\ its[i].note \in Notes
  BY ItemsAreItems
<1>2. /\ Tail(its) \in Seq(NoteItems) /\ row = its[1] /\ 1 \in DOMAIN its
      /\ \A i \in DOMAIN Tail(its) : Tail(its)[i] = its[i + 1] /\ i + 1 \in DOMAIN its /\ i \in Nat /\ i + 1 # 1
      /\ \A i \in DOMAIN its : i = 1 \/ (i - 1 \in DOMAIN Tail(its) /\ Tail(its)[i - 1] = its[i])
  BY <1>1, TailsAreLeft
<1>3. /\ s \in Sweeps /\ s.pc = "write" /\ s.files = sweep[p].files /\ s.todo = {} /\ s.listed = sweep[p].listed
      /\ s.items = Tail(its) /\ s.ids = seen
  <2>1. sweep[p] \in Sweeps /\ sweep[p].todo = {} /\ sweep[p].pc = "write"
    BY DEF VaultTypes, HandIsTrue, Telling
  <2> QED
    BY <1>2, <2>1 DEF Sweeps, Through
<1>4. \A i, j \in DOMAIN its : its[i].note = its[j].note => i = j
  BY DEF OneItemEach
<1>5. ASSUME NEW i \in DOMAIN s.items, NEW j \in DOMAIN s.items, s.items[i].note = s.items[j].note PROVE i = j
  <2>1. i + 1 = j + 1 /\ i \in Nat /\ j \in Nat
    BY <1>2, <1>3, <1>4, <1>5
  <2> QED
    BY <2>1
<1>6. ASSUME NEW i \in DOMAIN s.items
      PROVE  s.items[i].note # row.note /\ \E j \in DOMAIN its : s.items[i] = its[j]
  BY <1>2, <1>3, <1>4, <1>6
<1>7. ASSUME NEW n, n # row.note, {i \in DOMAIN s.items : s.items[i].note = n} = {} PROVE Made(p, n) = {}
  <2>1. ASSUME NEW i \in DOMAIN its PROVE its[i].note # n
    <3>1. CASE i = 1
      BY <1>2, <1>7, <3>1
    <3>2. CASE i # 1
      <4>1. i - 1 \in DOMAIN s.items /\ s.items[i - 1] = its[i]
        BY <1>2, <1>3, <3>2
      <4> QED
        BY <1>7, <4>1
    <3> QED
      BY <3>1, <3>2
  <2> QED
    BY <2>1 DEF Made
<1> QED
  BY <1>1, <1>2, <1>3, <1>5, <1>6, <1>7 DEF Shifted

LEMMA PassingKeepsTheStory ==
  ASSUME VaultInv, NEW p \in Sweepers, PassOver(p) PROVE VaultInv'
<1>h. PICK row : row = Head(sweep[p].items)
  OBVIOUS
<1>i. PICK seen : seen = sweep[p].ids
  OBVIOUS
<1>s. PICK s : s = Through(p, seen)
  OBVIOUS
<1>1. /\ sweep[p].pc = "write" /\ sweep[p].items # << >> /\ row.id \in sweep[p].ids
      /\ UNCHANGED <<disk, files, lastText, ids, told, events, strayed>>
  BY <1>h DEF PassOver, stores
<1>2. VaultTypes /\ sweep[p] \in Sweeps /\ SweepIsTrue(p) /\ StoryIsTrue /\ Telling(p) /\ sweep[p].ids \in SUBSET RowIds
  BY <1>1 DEF VaultInv, VaultTypes, Telling, Sweeps
<1>3. sweep' = [sweep EXCEPT ![p] = s]
  BY <1>2, <1>i, <1>s DEF PassOver, VaultTypes, Sweeps, Through
<1>4. /\ s \in Sweeps /\ s.pc = "write" /\ s.files = sweep[p].files /\ s.todo = {} /\ s.listed = sweep[p].listed
      /\ s.ids = sweep[p].ids
      /\ row \in NoteItems /\ row.note \in Notes
      /\ \A i, j \in DOMAIN s.items : s.items[i].note = s.items[j].note => i = j
      /\ \A i \in DOMAIN s.items : /\ s.items[i].note # row.note
                                   /\ \E j \in DOMAIN sweep[p].items : s.items[i] = sweep[p].items[j]
      /\ \A n : n # row.note /\ {i \in DOMAIN s.items : s.items[i].note = n} = {} => Made(p, n) = {}
  <2>1. VaultTypes /\ OneItemEach(p) /\ HandIsTrue(p) /\ Telling(p) /\ sweep[p].items # << >>
    BY <1>1, <1>2 DEF SweepIsTrue
  <2>2. seen \in SUBSET RowIds
    BY <1>2, <1>i
  <2>3. Shifted(p, row, s, seen)
    BY <1>h, <1>s, <2>1, <2>2, ShiftsKeepItems
  <2> QED
    BY <1>i, <2>3 DEF Shifted
<1>5. /\ sweep' \in [Sweepers -> Sweeps] /\ sweep'[p] = s
      /\ \A q \in Sweepers : q # p => sweep'[q] = sweep[q]
  BY <1>2, <1>3, <1>4, OthersSweepOn
<1>6. VaultTypes'
  BY <1>1, <1>2, <1>5 DEF VaultTypes
<1>7. DiskIsOld' /\ FilesAreTrue'
  BY <1>1 DEF VaultInv, DiskIsOld, FilesAreTrue, TrueMark
<1>8. ~Before(p) /\ ~Before(p)' /\ Telling(p)' /\ \A q \in Sweepers : Telling(q)' = Telling(q) /\ Before(q)' = Before(q)
  <2>1. ~Before(p) /\ ~Before(p)' /\ Telling(p)'
    BY <1>1, <1>4, <1>5 DEF Before, Telling
  <2>2. \A q \in Sweepers : q # p => Telling(q)' = Telling(q) /\ Before(q)' = Before(q)
    BY <1>5 DEF Before, Telling
  <2>3. Telling(p)' = Telling(p) /\ Before(p)' = Before(p)
    BY <1>1, <1>4, <1>5 DEF Before, Telling
  <2> QED
    BY <2>1, <2>2, <2>3
<1>9. row.note \in strayed
  <2>1. 1 \in DOMAIN sweep[p].items /\ sweep[p].items[1] = row
    <3>1. sweep[p].items \in Seq(NoteItems)
      BY <1>2, ItemsAreItems
    <3> QED
      BY <1>1, <1>h, <3>1, TailsAreLeft
  <2> QED
    BY <1>1, <1>2, <2>1 DEF SweepIsTrue, RowsGoOn, GoesOn
<1>10. ASSUME NEW q \in Sweepers PROVE SweepIsTrue(q)'
  <2>1. CASE q = p
    <3>1. MarksAreTrue(p)' /\ HandIsTrue(p)' /\ OneItemEach(p)'
      BY <1>1, <1>2, <1>4, <1>5 DEF SweepIsTrue, MarksAreTrue, TrueMark, HandIsTrue, OneItemEach
    <3>2. RowsGoOn(p)'
      <4>1. ASSUME NEW r, GoesOn(p, r) PROVE GoesOn(p, r)'
        <5>1. Tale(r.note)' = Tale(r.note)
          BY <1>1 DEF Tale
        <5> QED
          BY <1>1, <1>4, <1>5, <4>1, <5>1 DEF GoesOn
      <4>2. ASSUME NEW i \in DOMAIN s.items, s.items[i].note \notin strayed PROVE GoesOn(p, s.items[i])'
        <5>1. GoesOn(p, s.items[i])
          BY <1>2, <1>4, <4>2 DEF SweepIsTrue, RowsGoOn
        <5> QED
          BY <4>1, <5>1
      <4> QED
        BY <1>1, <1>5, <4>2 DEF RowsGoOn
    <3> QED
      BY <1>4, <1>5, <1>8, <2>1, <3>1, <3>2 DEF SweepIsTrue, AsSaved, ItemsAreNews, NewIsUntold
  <2>2. CASE q # p
    <3>1. Single(q)' => Single(q)
      BY <1>8 DEF Single
    <3> QED
      BY <1>1, <1>2, <1>5, <2>2, <3>1, BystandersStayTrue DEF VaultInv
  <2> QED
    BY <2>1, <2>2
<1>11. LastIsSaved'
  <2> SUFFICES ASSUME NEW n \in Notes \ strayed, files[n].mtime # 0,
                      \A q \in Sweepers : Before(q)' => \A i \in Made(q, n)' : sweep'[q].items[i].kind = "chunk"
               PROVE  lastText[n] = files[n].text
    BY <1>1 DEF LastIsSaved
  <2>1. ASSUME NEW q \in Sweepers, Before(q) PROVE \A i \in Made(q, n) : sweep[q].items[i].kind = "chunk"
    <3>1. q # p /\ Before(q)'
      BY <1>8, <2>1
    <3>2. Made(q, n)' = Made(q, n) /\ sweep'[q] = sweep[q]
      BY <1>5, <3>1 DEF Made
    <3> QED
      BY <3>1, <3>2
  <2> QED
    BY <1>2, <2>1 DEF StoryIsTrue, LastIsSaved
<1>12. TalesAreTold'
  <2> SUFFICES ASSUME NEW n \in Notes \ strayed, \A q \in Sweepers : Telling(q)' => Made(q, n)' = {}
               PROVE  Tale(n)' = files[n].text
    BY <1>1 DEF TalesAreTold
  <2>1. ASSUME NEW q \in Sweepers, Telling(q) PROVE Made(q, n) = {}
    <3>1. Made(q, n)' = {}
      BY <1>8, <2>1
    <3>2. CASE q # p
      BY <1>5, <3>1, <3>2 DEF Made
    <3>3. CASE q = p
      <4>1. n # row.note
        BY <1>9
      <4>2. {i \in DOMAIN s.items : s.items[i].note = n} = {}
        BY <1>5, <3>1, <3>3 DEF Made
      <4> QED
        BY <1>4, <3>3, <4>1, <4>2
    <3> QED
      BY <3>2, <3>3
  <2>2. Tale(n) = files[n].text
    BY <1>2, <2>1 DEF StoryIsTrue, TalesAreTold
  <2> QED
    BY <1>1, <2>2 DEF Tale
<1>13. IdsAreTold'
  <2>1. \A id : SeenIsTold(id) => SeenIsTold(id)'
    BY <1>1 DEF SeenIsTold
  <2>2. \A q \in Sweepers : sweep'[q].ids = sweep[q].ids
    BY <1>4, <1>5
  <2> QED
    BY <1>1, <1>2, <1>8, <2>1, <2>2 DEF StoryIsTrue, IdsAreTold
<1>14. OneTells' /\ NoGaps'
  BY <1>1, <1>2, <1>8 DEF StoryIsTrue, OneTells, NoGaps
<1> QED
  BY <1>6, <1>7, <1>10, <1>11, <1>12, <1>13, <1>14 DEF VaultInv, StoryIsTrue

\* Where a row of a note goes on from the newest, files.json knows of the note, or the lake does.
LEMMA ToldOnesAreKnown ==
  ASSUME VaultTypes, FilesAreTrue, NEW p, NEW row \in NoteItems, row.note \in Notes, GoesOn(p, row)
  PROVE  /\ files[row.note].mtime # 0 \/ told[row.note] # << >>
         /\ row.kind = "tombstone" => files[row.note].mtime = 0
<1>1. row.kind = "tombstone" <=> row.new = Gone
  BY DEF NoteItems
<1>2. files[row.note].mtime = 0 <=> files[row.note].text = Gone
  BY DEF FilesAreTrue, TrueMark
<1> QED
  BY <1>1, <1>2 DEF GoesOn

\* A row that is told, or that should have been and excuses its note.
Excuses(row) == row.note \in strayed'
Continues(p, row) ==
  row.note \notin strayed /\ strayed' = strayed /\ GoesOn(p, row) /\ told'[row.note] = Append(told[row.note], row)

\* A poll that does nothing is not disturbed by a row of one that writes.
LEMMA ListenersStayTrue ==
  ASSUME VaultInv, NEW p \in Sweepers, NEW q \in Sweepers, q # p, Telling(p), NEW row \in NoteItems, row.note \in Notes,
         sweep'[q] = sweep[q], disk' = disk, files' = files, lastText' = lastText,
         \A m \in Notes : m # row.note => told'[m] = told[m],
         strayed \subseteq strayed', strayed' \in SUBSET Notes, Excuses(row) \/ Continues(p, row),
         Single(q)' => Single(q)
  PROVE  SweepIsTrue(q)'
<1>0. SweepIsTrue(q) /\ VaultTypes /\ FilesAreTrue /\ StoryIsTrue
  BY DEF VaultInv
<1>1. MarksAreTrue(q)'
  BY <1>0 DEF SweepIsTrue, MarksAreTrue, TrueMark
<1>2. HandIsTrue(q)'
  BY <1>0 DEF SweepIsTrue, HandIsTrue, TrueMark, Note, Old
<1>3. OneItemEach(q)'
  BY <1>0 DEF SweepIsTrue, OneItemEach
<1>4. AsSaved(q)'
  <2>1. Before(q)' = Before(q) /\ \A n : Made(q, n)' = Made(q, n)
    BY DEF Before, Made
  <2> QED
    BY <1>0, <2>1 DEF SweepIsTrue, AsSaved
<1>5. ASSUME NEW m \in Notes \ strayed', files[m].mtime = 0, told[m] = << >> PROVE told'[m] = << >>
  <2>1. CASE m # row.note
    BY <1>5, <2>1
  <2>2. CASE m = row.note
    BY <1>0, <1>5, <2>2, ToldOnesAreKnown DEF Excuses, Continues
  <2> QED
    BY <2>1, <2>2
<1>6. ItemsAreNews(q)'
  <2> SUFFICES ASSUME Before(q)', NEW i \in DOMAIN sweep'[q].items, sweep'[q].items[i].note \notin strayed'
               PROVE  ANews(q, sweep[q].items[i])'
    BY DEF ItemsAreNews
  <2>1. Before(q) /\ sweep[q].items[i].note \notin strayed /\ i \in DOMAIN sweep[q].items
    BY DEF Before
  <2>2. ANews(q, sweep[q].items[i]) /\ sweep[q].items[i].note \in Notes
    BY <1>0, <2>1, ItemsAreItems DEF SweepIsTrue, ItemsAreNews
  <2>3. sweep[q].items[i].note \notin strayed'
    OBVIOUS
  <2> QED
    BY <1>5, <2>2, <2>3 DEF ANews
<1>7. NewIsUntold(q)'
  <2> SUFFICES ASSUME sweep[q].pc = "images", Note(q) \notin strayed', files[Note(q)].mtime = 0 PROVE told'[Note(q)] = << >>
    BY DEF NewIsUntold, Note
  <2>1. sweep[q].todo # {}
    BY <1>0 DEF SweepIsTrue, HandIsTrue
  <2>2. Note(q) \in Notes
    BY <1>0, <2>1, FirstNoteIsOne
  <2>3. told[Note(q)] = << >>
    BY <1>0 DEF SweepIsTrue, NewIsUntold
  <2> QED
    BY <1>5, <2>2, <2>3
<1>8. RowsGoOn(q)'
  <2>1. CASE Telling(q)
    <3>1. strayed = Notes
      BY <1>0, <2>1 DEF StoryIsTrue, OneTells
    <3>2. \A i \in DOMAIN sweep[q].items : sweep[q].items[i].note \in Notes
      BY <1>0, ItemsAreItems
    <3> QED
      BY <3>1, <3>2 DEF RowsGoOn
  <2>2. CASE ~Telling(q)
    BY <2>2 DEF RowsGoOn, Telling
  <2> QED
    BY <2>1, <2>2
<1> QED
  BY <1>1, <1>2, <1>3, <1>4, <1>6, <1>7, <1>8 DEF SweepIsTrue

\* What is left to hand over, where a poll that writes is through with one of its items.
LEMMA LeftoversKeepLast ==
  ASSUME VaultTypes, LastIsSaved, NEW p \in Sweepers, ~Before(p), UNCHANGED <<files, lastText>>, strayed \subseteq strayed',
         \A q \in Sweepers : q # p => sweep'[q] = sweep[q]
  PROVE  LastIsSaved'
<1> SUFFICES ASSUME NEW n \in Notes \ strayed', files[n].mtime # 0,
                    \A q \in Sweepers : Before(q)' => \A i \in Made(q, n)' : sweep'[q].items[i].kind = "chunk"
             PROVE  lastText[n] = files[n].text
  BY DEF LastIsSaved
<1>1. ASSUME NEW q \in Sweepers, Before(q) PROVE \A i \in Made(q, n) : sweep[q].items[i].kind = "chunk"
  <2>1. q # p /\ sweep'[q] = sweep[q]
    BY <1>1
  <2>2. Made(q, n)' = Made(q, n) /\ Before(q)'
    BY <1>1, <2>1 DEF Made, Before
  <2> QED
    BY <2>1, <2>2
<1> QED
  BY <1>1 DEF LastIsSaved

\* A row at the end of the others.
LEMMA RowsGrow ==
  ASSUME NEW S, NEW rows \in Seq(S), NEW row \in S
  PROVE  /\ Append(rows, row) \in Seq(S) /\ Append(rows, row) # << >> /\ Last(Append(rows, row)) = row
         /\ Len(rows) \in Nat /\ Len(Append(rows, row)) = Len(rows) + 1
         /\ \A i \in 1..Len(rows) : Append(rows, row)[i] = rows[i]
         /\ Append(rows, row)[Len(rows) + 1] = row
         /\ rows # << >> => Last(rows) = rows[Len(rows)]
BY DEF Last

LEMMA TellingKeepsTheStory ==
  ASSUME VaultInv, NEW p \in Sweepers, NEW ok \in BOOLEAN, NEW lands \in BOOLEAN, TellRow(p, ok, lands) PROVE VaultInv'
<1>h. PICK row : row = Head(sweep[p].items)
  OBVIOUS
<1>i. PICK seen : seen = IF ok THEN sweep[p].ids \cup {row.id} ELSE sweep[p].ids
  OBVIOUS
<1>s. PICK s : s = Through(p, seen)
  OBVIOUS
<1>1. /\ sweep[p].pc = "write" /\ sweep[p].items # << >> /\ row.id \notin sweep[p].ids
      /\ UNCHANGED <<disk, files, lastText, ids>> /\ Goes(ok) /\ (ok => lands)
      /\ told' = (IF lands /\ ~Echoes(row) THEN [told EXCEPT ![row.note] = Append(@, row)] ELSE told)
      /\ strayed' = IF ok /\ ~Echoes(row) THEN strayed ELSE strayed \cup {row.note}
  BY <1>h DEF TellRow, stores
<1>2. VaultTypes /\ sweep[p] \in Sweeps /\ SweepIsTrue(p) /\ StoryIsTrue /\ Telling(p) /\ sweep[p].ids \in SUBSET RowIds
  BY <1>1 DEF VaultInv, VaultTypes, Telling, Sweeps
<1>3. sweep' = [sweep EXCEPT ![p] = s]
  BY <1>2, <1>h, <1>i, <1>s DEF TellRow, VaultTypes, Sweeps, Through
<1>r. /\ 1 \in DOMAIN sweep[p].items /\ sweep[p].items[1] = row /\ row \in NoteItems /\ row.id \in RowIds
      /\ row.id[1] = row.note /\ row.id[2] = row.kind
  <2>1. sweep[p].items \in Seq(NoteItems) /\ \A i \in DOMAIN sweep[p].items : sweep[p].items[i] \in NoteItems
    BY <1>2, ItemsAreItems
  <2>2. 1 \in DOMAIN sweep[p].items /\ sweep[p].items[1] = row
    BY <1>1, <1>h, <2>1, TailsAreLeft
  <2> QED
    BY <2>1, <2>2 DEF NoteItems
<1>4. /\ s \in Sweeps /\ s.pc = "write" /\ s.files = sweep[p].files /\ s.todo = {} /\ s.listed = sweep[p].listed
      /\ s.ids = seen
      /\ row \in NoteItems /\ row.note \in Notes
      /\ \A i, j \in DOMAIN s.items : s.items[i].note = s.items[j].note => i = j
      /\ \A i \in DOMAIN s.items : /\ s.items[i].note # row.note
                                   /\ \E j \in DOMAIN sweep[p].items : s.items[i] = sweep[p].items[j]
      /\ \A n : n # row.note /\ {i \in DOMAIN s.items : s.items[i].note = n} = {} => Made(p, n) = {}
  <2>1. VaultTypes /\ OneItemEach(p) /\ HandIsTrue(p) /\ Telling(p) /\ sweep[p].items # << >>
    BY <1>1, <1>2 DEF SweepIsTrue
  <2>2. seen \in SUBSET RowIds
    BY <1>2, <1>i, <1>r
  <2>3. Shifted(p, row, s, seen)
    BY <1>h, <1>s, <2>1, <2>2, ShiftsKeepItems
  <2> QED
    BY <2>3 DEF Shifted
<1>5. /\ sweep' \in [Sweepers -> Sweeps] /\ sweep'[p] = s
      /\ \A q \in Sweepers : q # p => sweep'[q] = sweep[q]
  BY <1>2, <1>3, <1>4, OthersSweepOn
<1>t. /\ told' \in [Notes -> Seq(NoteItems)]
      /\ \A m \in Notes : m # row.note => told'[m] = told[m]
      /\ told'[row.note] = told[row.note] \/ told'[row.note] = Append(told[row.note], row)
      /\ strayed \subseteq strayed' /\ strayed' \in SUBSET Notes
  <2>1. told \in [Notes -> Seq(NoteItems)] /\ strayed \in SUBSET Notes
    BY <1>2 DEF VaultTypes
  <2>2. Append(told[row.note], row) \in Seq(NoteItems)
    BY <1>4, <2>1, RowsGrow
  <2> QED
    BY <1>1, <1>4, <2>1, <2>2
<1>c. Excuses(row) \/ Continues(p, row)
  <2> SUFFICES ASSUME row.note \notin strayed' PROVE Continues(p, row)
    BY DEF Excuses
  <2>1. ok /\ ~Echoes(row) /\ strayed' = strayed /\ lands /\ row.note \notin strayed
    BY <1>1
  <2>2. told'[row.note] = Append(told[row.note], row)
    BY <1>1, <1>2, <1>4, <2>1 DEF VaultTypes
  <2>3. GoesOn(p, row)
    BY <1>2, <1>r, <2>1 DEF SweepIsTrue, RowsGoOn
  <2> QED
    BY <2>1, <2>2, <2>3 DEF Continues
<1>e. events' \in Nat /\ events' >= events
  BY <1>1, <1>2 DEF VaultTypes, Goes, Break, Event
<1>6. VaultTypes'
  BY <1>1, <1>2, <1>5, <1>t, <1>e DEF VaultTypes
<1>7. DiskIsOld' /\ FilesAreTrue'
  <2>1. \A n \in Notes : disk[n].mtime \in Nat
    BY <1>2 DEF VaultTypes, OnDisk
  <2>2. DiskIsOld'
    BY <1>1, <1>2, <1>e, <2>1 DEF VaultInv, DiskIsOld, VaultTypes
  <2>3. FilesAreTrue'
    BY <1>1 DEF VaultInv, FilesAreTrue, TrueMark
  <2> QED
    BY <2>2, <2>3
<1>8. ~Before(p) /\ ~Before(p)' /\ Telling(p)' /\ \A q \in Sweepers : Telling(q)' = Telling(q) /\ Before(q)' = Before(q)
  <2>1. ~Before(p) /\ ~Before(p)' /\ Telling(p)'
    BY <1>1, <1>4, <1>5 DEF Before, Telling
  <2>2. \A q \in Sweepers : q # p => Telling(q)' = Telling(q) /\ Before(q)' = Before(q)
    BY <1>5 DEF Before, Telling
  <2>3. Telling(p)' = Telling(p) /\ Before(p)' = Before(p)
    BY <1>1, <1>4, <1>5 DEF Before, Telling
  <2> QED
    BY <2>1, <2>2, <2>3
<1>9. \A m \in Notes : m # row.note => Tale(m)' = Tale(m)
  BY <1>t DEF Tale
<1>10. ASSUME NEW q \in Sweepers PROVE SweepIsTrue(q)'
  <2>1. CASE q = p
    <3>1. MarksAreTrue(p)' /\ HandIsTrue(p)' /\ OneItemEach(p)'
      BY <1>1, <1>2, <1>4, <1>5 DEF SweepIsTrue, MarksAreTrue, TrueMark, HandIsTrue, OneItemEach
    <3>2. RowsGoOn(p)'
      <4>1. ASSUME NEW r \in NoteItems, r.note \in Notes, r.note # row.note, GoesOn(p, r) PROVE GoesOn(p, r)'
        <5>1. Tale(r.note)' = Tale(r.note) /\ told'[r.note] = told[r.note]
          BY <1>9, <1>t, <4>1
        <5>2. r.id # row.id
          BY <1>r, <4>1 DEF NoteItems
        <5>3. r.id \notin s.ids
          BY <1>4, <1>i, <4>1, <5>2 DEF GoesOn
        <5> QED
          BY <1>1, <1>5, <4>1, <5>1, <5>3 DEF GoesOn
      <4>2. ASSUME NEW i \in DOMAIN s.items, s.items[i].note \notin strayed' PROVE GoesOn(p, s.items[i])'
        <5>1. PICK j \in DOMAIN sweep[p].items : s.items[i] = sweep[p].items[j]
          BY <1>4
        <5>2. sweep[p].items[j] \in NoteItems /\ sweep[p].items[j].note \in Notes
          BY <1>2, ItemsAreItems
        <5>3. GoesOn(p, sweep[p].items[j])
          BY <1>2, <1>t, <4>2, <5>1 DEF SweepIsTrue, RowsGoOn
        <5> QED
          BY <1>4, <4>1, <5>1, <5>2, <5>3
      <4> QED
        BY <1>5, <4>2 DEF RowsGoOn
    <3> QED
      BY <1>4, <1>5, <1>8, <2>1, <3>1, <3>2 DEF SweepIsTrue, AsSaved, ItemsAreNews, NewIsUntold
  <2>2. CASE q # p
    <3>1. Single(q)' => Single(q)
      BY <1>8 DEF Single
    <3>2. sweep'[q] = sweep[q] /\ UNCHANGED <<disk, files, lastText>>
      BY <1>1, <1>5, <2>2
    <3> QED
      BY <1>2, <1>4, <1>t, <1>c, <2>2, <3>1, <3>2, ListenersStayTrue
  <2> QED
    BY <2>1, <2>2
<1>11. LastIsSaved'
  BY <1>1, <1>2, <1>5, <1>8, <1>t, LeftoversKeepLast DEF StoryIsTrue
<1>12. TalesAreTold'
  <2> SUFFICES ASSUME NEW n \in Notes \ strayed', \A q \in Sweepers : Telling(q)' => Made(q, n)' = {}
               PROVE  Tale(n)' = files[n].text
    BY <1>1 DEF TalesAreTold
  <2>1. CASE n = row.note
    <3>1. Continues(p, row)
      BY <1>c, <2>1 DEF Excuses
    <3>2. told[row.note] \in Seq(NoteItems)
      BY <1>2, <1>4 DEF VaultTypes
    <3>3. told'[n] # << >> /\ Last(told'[n]) = row
      BY <1>4, <2>1, <3>1, <3>2, RowsGrow DEF Continues
    <3> QED
      BY <2>1, <3>1, <3>3 DEF Continues, GoesOn, Tale
  <2>2. CASE n # row.note
    <3>1. ASSUME NEW q \in Sweepers, Telling(q) PROVE Made(q, n) = {}
      <4>1. Made(q, n)' = {}
        BY <1>8, <3>1
      <4>2. CASE q # p
        BY <1>5, <4>1, <4>2 DEF Made
      <4>3. CASE q = p
        <5>1. {i \in DOMAIN s.items : s.items[i].note = n} = {}
          BY <1>5, <4>1, <4>3 DEF Made
        <5> QED
          BY <1>4, <2>2, <4>3, <5>1
      <4> QED
        BY <4>2, <4>3
    <3>2. Tale(n) = files[n].text
      BY <1>2, <1>t, <3>1 DEF StoryIsTrue, TalesAreTold
    <3> QED
      BY <1>9, <2>2, <3>2
  <2> QED
    BY <2>1, <2>2
<1>13. IdsAreTold'
  <2>1. ASSUME NEW id \in RowIds, SeenIsTold(id) PROVE SeenIsTold(id)'
    <3>1. id[1] \in Notes
      BY DEF RowIds
    <3>2. told[id[1]] # << >> => told'[id[1]] # << >>
      <4>1. told[row.note] \in Seq(NoteItems)
        BY <1>2, <1>4 DEF VaultTypes
      <4>2. Append(told[row.note], row) # << >>
        BY <1>4, <4>1, RowsGrow
      <4> QED
        BY <1>t, <3>1, <4>2
    <3> QED
      BY <1>1, <1>t, <2>1, <3>2 DEF SeenIsTold
  <2>2. SeenIsTold(row.id)'
    <3> SUFFICES ASSUME row.note \notin strayed'
                 PROVE  /\ told'[row.note] # << >>
                        /\ row.kind = "diff" /\ files[row.note].mtime # 0 => row.id[3] <= files[row.note].mtime
                        /\ row.kind = "tombstone" => files[row.note].mtime = 0
      BY <1>1, <1>r DEF SeenIsTold
    <3>1. Continues(p, row)
      BY <1>c DEF Excuses
    <3>2. told[row.note] \in Seq(NoteItems) /\ files[row.note].mtime \in Nat
      BY <1>2, <1>4 DEF VaultTypes, TextMarks
    <3>3. told'[row.note] # << >>
      BY <1>4, <3>1, <3>2, RowsGrow DEF Continues
    <3>4. row.kind = "tombstone" => files[row.note].mtime = 0
      BY <1>2, <1>4, <3>1, ToldOnesAreKnown DEF VaultInv, Continues
    <3> QED
      BY <3>1, <3>2, <3>3, <3>4 DEF Continues, GoesOn
  <2>3. ASSUME NEW q \in Sweepers, Telling(q), NEW id \in sweep'[q].ids PROVE SeenIsTold(id)'
    <3>1. CASE id \in sweep[q].ids
      <4>1. id \in RowIds
        BY <1>2, <3>1 DEF VaultTypes, Sweeps
      <4>2. SeenIsTold(id)
        BY <1>2, <2>3, <3>1 DEF StoryIsTrue, IdsAreTold
      <4> QED
        BY <2>1, <4>1, <4>2
    <3>2. CASE id \notin sweep[q].ids
      <4>1. id = row.id
        BY <1>4, <1>5, <1>i, <2>3, <3>2
      <4> QED
        BY <2>2, <4>1
    <3> QED
      BY <3>1, <3>2
  <2>4. \A id \in ids : SeenIsTold(id)'
    BY <1>2, <2>1 DEF StoryIsTrue, IdsAreTold, VaultTypes
  <2> QED
    BY <1>1, <1>8, <2>3, <2>4 DEF IdsAreTold
<1>14. OneTells'
  BY <1>2, <1>8, <1>t DEF StoryIsTrue, OneTells
<1>15. NoGaps'
  <2> SUFFICES ASSUME NEW n \in Notes \ strayed', NEW i \in 2..Len(told'[n]), told'[n][i].kind = "diff"
               PROVE  told'[n][i].old = told'[n][i - 1].new
    BY DEF NoGaps
  <2>0. n \in Notes \ strayed /\ told[n] \in Seq(NoteItems)
    BY <1>2, <1>t DEF VaultTypes
  <2>1. CASE told'[n] = told[n]
    BY <1>2, <2>0, <2>1 DEF StoryIsTrue, NoGaps
  <2>2. CASE told'[n] # told[n]
    <3>1. n = row.note /\ Continues(p, row)
      BY <1>t, <1>c, <2>2 DEF Excuses
    <3>2. told'[n] = Append(told[n], row)
      BY <3>1 DEF Continues
    <3>3. /\ Len(told[n]) \in Nat /\ Len(told'[n]) = Len(told[n]) + 1
          /\ \A k \in 1..Len(told[n]) : told'[n][k] = told[n][k]
          /\ told'[n][Len(told[n]) + 1] = row
          /\ told[n] # << >> => Last(told[n]) = told[n][Len(told[n])]
      BY <1>4, <2>0, <3>2, RowsGrow
    <3>k. PICK k : k = Len(told[n])
      OBVIOUS
    <3>m. PICK m : m = Len(told'[n])
      OBVIOUS
    <3>b. m = k + 1 /\ k \in Nat /\ \A j \in 1..k : told'[n][j] = told[n][j]
      BY <3>3, <3>k, <3>m
    <3>c. i \in 2..m
      BY <3>m
    <3>a. i \in Nat /\ i >= 2 /\ i <= k + 1 /\ k \in Nat /\ \A j \in 1..k : told'[n][j] = told[n][j]
      BY <3>b, <3>c
    <3>4. CASE i <= k
      <4>1. i \in 1..k /\ i - 1 \in 1..k /\ i \in 2..k
        BY <3>4, <3>a
      <4>2. i \in 2..Len(told[n]) /\ told'[n][i] = told[n][i] /\ told'[n][i - 1] = told[n][i - 1]
        BY <4>1, <3>a, <3>k
      <4> QED
        BY <1>2, <2>0, <4>2 DEF StoryIsTrue, NoGaps
    <3>5. CASE i > k
      <4>0. i = k + 1 /\ i - 1 = k /\ k \in 1..k /\ k > 0
        BY <3>5, <3>a
      <4>1. told'[n][i] = row /\ told'[n][i - 1] = told[n][Len(told[n])] /\ Len(told[n]) > 0
        BY <3>3, <3>a, <3>k, <4>0
      <4>2. told[n] # << >>
        BY <4>1
      <4>3. row.old = Tale(n)
        BY <3>1, <4>1 DEF Continues, GoesOn
      <4> QED
        BY <3>3, <4>1, <4>2, <4>3 DEF Tale
    <3> QED
      BY <3>a, <3>4, <3>5
  <2> QED
    BY <2>1, <2>2
<1> QED
  BY <1>6, <1>7, <1>10, <1>11, <1>12, <1>13, <1>14, <1>15 DEF VaultInv, StoryIsTrue

\* A poll that rests is a poll.
LEMMA RestsAreSweeps == NotSweeping \in Sweeps
BY DEF NotSweeping, Sweeps, NeverSeen, TextMarks, MaybeText, Gone

\* The story stays true where nothing is handed over any more, if the notes are excused that had
\* something to be handed over.
LEMMA IdleKeepsTheStory ==
  ASSUME StoryIsTrue, UNCHANGED <<files, lastText, told, ids>>, strayed \subseteq strayed',
         \A q \in Sweepers : ~Telling(q)' /\ ~Before(q)',
         \A q \in Sweepers : Before(q) => MovedOn(sweep[q].items) \subseteq strayed',
         \A n \in Notes \ strayed' : \A q \in Sweepers : Telling(q) => Made(q, n) = {}
  PROVE  StoryIsTrue'
<1>1. LastIsSaved'
  <2> SUFFICES ASSUME NEW n \in Notes \ strayed', files[n].mtime # 0 PROVE lastText[n] = files[n].text
    BY DEF LastIsSaved
  <2>1. ASSUME NEW q \in Sweepers, Before(q), NEW i \in Made(q, n) PROVE sweep[q].items[i].kind = "chunk"
    BY <2>1 DEF Made, MovedOn
  <2> QED
    BY <2>1 DEF StoryIsTrue, LastIsSaved
<1>2. TalesAreTold'
  <2>1. \A n : Tale(n)' = Tale(n)
    BY DEF Tale
  <2>2. ASSUME NEW n \in Notes \ strayed' PROVE Tale(n) = files[n].text
    BY DEF StoryIsTrue, TalesAreTold
  <2> QED
    BY <2>1, <2>2 DEF TalesAreTold
<1>3. IdsAreTold'
  <2>1. \A id : SeenIsTold(id) => SeenIsTold(id)'
    BY DEF SeenIsTold
  <2> QED
    BY <2>1 DEF StoryIsTrue, IdsAreTold
<1> QED
  BY <1>1, <1>2, <1>3 DEF StoryIsTrue, OneTells, NoGaps

LEMMA EndsKeepTheStory ==
  ASSUME VaultInv, NEW p \in Sweepers, SweepEnds(p) PROVE VaultInv'
<1>1. /\ sweep[p].pc = "write" /\ sweep[p].items = << >> /\ ids' = sweep[p].ids
      /\ sweep' = [sweep EXCEPT ![p] = NotSweeping]
      /\ UNCHANGED <<disk, files, lastText, told, events, strayed>>
  BY DEF SweepEnds, stores
<1>2. VaultTypes /\ sweep[p] \in Sweeps /\ SweepIsTrue(p) /\ StoryIsTrue /\ Telling(p) /\ sweep[p].ids \in SUBSET RowIds
  BY <1>1 DEF VaultInv, VaultTypes, Telling, Sweeps
<1>3. NotSweeping \in Sweeps
  BY RestsAreSweeps
<1>5. /\ sweep' \in [Sweepers -> Sweeps] /\ sweep'[p] = NotSweeping
      /\ \A q \in Sweepers : q # p => sweep'[q] = sweep[q]
  BY <1>1, <1>2, <1>3, OthersSweepOn
<1>6. VaultTypes'
  BY <1>1, <1>2, <1>5 DEF VaultTypes
<1>7. DiskIsOld' /\ FilesAreTrue'
  BY <1>1 DEF VaultInv, DiskIsOld, FilesAreTrue, TrueMark
<1>8. /\ ~Before(p) /\ ~Before(p)' /\ ~Telling(p)' /\ \A q \in Sweepers : Before(q)' = Before(q)
      /\ \A q \in Sweepers : q # p => Telling(q)' = Telling(q)
  <2>1. ~Before(p) /\ ~Before(p)' /\ ~Telling(p)'
    BY <1>1, <1>5 DEF Before, Telling, NotSweeping
  <2>2. \A q \in Sweepers : q # p => Telling(q)' = Telling(q) /\ Before(q)' = Before(q)
    BY <1>5 DEF Before, Telling
  <2>3. Before(p)' = Before(p)
    BY <1>1, <1>5 DEF Before, NotSweeping
  <2> QED
    BY <2>1, <2>2, <2>3
<1>9. ASSUME NEW q \in Sweepers PROVE SweepIsTrue(q)'
  <2>1. CASE q = p
    BY <1>5, <1>6, <1>7, <2>1, RestingIsTrue
  <2>2. CASE q # p
    <3>1. Single(q)' => Single(q)
      BY <1>8 DEF Single
    <3> QED
      BY <1>1, <1>2, <1>5, <2>2, <3>1, BystandersStayTrue DEF VaultInv
  <2> QED
    BY <2>1, <2>2
<1>10. LastIsSaved'
  BY <1>1, <1>2, <1>5, <1>8, LeftoversKeepLast DEF StoryIsTrue
<1>11. TalesAreTold'
  <2> SUFFICES ASSUME NEW n \in Notes \ strayed, \A q \in Sweepers : Telling(q)' => Made(q, n)' = {}
               PROVE  Tale(n)' = files[n].text
    BY <1>1 DEF TalesAreTold
  <2>1. ASSUME NEW q \in Sweepers, Telling(q) PROVE Made(q, n) = {}
    <3>1. CASE q # p
      BY <1>5, <1>8, <2>1, <3>1 DEF Made
    <3>2. CASE q = p
      BY <1>1, <3>2 DEF Made
    <3> QED
      BY <3>1, <3>2
  <2>2. Tale(n) = files[n].text
    BY <1>2, <2>1 DEF StoryIsTrue, TalesAreTold
  <2> QED
    BY <1>1, <2>2 DEF Tale
<1>12. IdsAreTold'
  <2>1. \A id : SeenIsTold(id) => SeenIsTold(id)'
    BY <1>1 DEF SeenIsTold
  <2>2. \A id \in ids' : SeenIsTold(id)
    BY <1>1, <1>2 DEF StoryIsTrue, IdsAreTold
  <2>3. \A q \in Sweepers : Telling(q)' => Telling(q) /\ sweep'[q].ids = sweep[q].ids
    BY <1>5, <1>8
  <2> QED
    BY <1>2, <2>1, <2>2, <2>3 DEF StoryIsTrue, IdsAreTold
<1>13. OneTells' /\ NoGaps'
  <2>1. \A q \in Sweepers : Telling(q)' => Telling(q)
    BY <1>8
  <2> QED
    BY <1>1, <1>2, <2>1 DEF StoryIsTrue, OneTells, NoGaps
<1> QED
  BY <1>6, <1>7, <1>9, <1>10, <1>11, <1>12, <1>13 DEF VaultInv, StoryIsTrue

\* Notes of which a poll that fails has more than a first row to hand over have moved on.
LEMMA FailsKeepTheStory ==
  ASSUME VaultInv, NEW p \in Sweepers, SweepFails(p) PROVE VaultInv'
<1>1. /\ sweep[p].pc \in {"images", "upload"} /\ Break
      /\ sweep' = [sweep EXCEPT ![p] = NotSweeping]
      /\ strayed' = IF Overlapped(p) THEN Notes ELSE strayed \cup MovedOn(sweep[p].items)
      /\ UNCHANGED <<disk, files, lastText, ids, told>>
  BY DEF SweepFails, stores
<1>2. VaultTypes /\ sweep[p] \in Sweeps /\ SweepIsTrue(p) /\ StoryIsTrue
  BY DEF VaultInv, VaultTypes
<1>3. NotSweeping \in Sweeps
  BY RestsAreSweeps
<1>5. /\ sweep' \in [Sweepers -> Sweeps] /\ sweep'[p] = NotSweeping
      /\ \A q \in Sweepers : q # p => sweep'[q] = sweep[q]
  BY <1>1, <1>2, <1>3, OthersSweepOn
<1>m. MovedOn(sweep[p].items) \subseteq Notes
  BY <1>2, ItemsAreItems DEF MovedOn
<1>e. events' \in Nat /\ events' >= events
  BY <1>1, <1>2 DEF VaultTypes, Break, Event
<1>t. strayed' \in SUBSET Notes
  BY <1>1, <1>2, <1>m DEF VaultTypes
<1>6. VaultTypes'
  BY <1>1, <1>2, <1>5, <1>e, <1>t DEF VaultTypes
<1>7. DiskIsOld' /\ FilesAreTrue'
  <2>1. \A n \in Notes : disk[n].mtime \in Nat
    BY <1>2 DEF VaultTypes, OnDisk
  <2>2. DiskIsOld'
    BY <1>1, <1>2, <1>e, <2>1 DEF VaultInv, DiskIsOld, VaultTypes
  <2>3. FilesAreTrue'
    BY <1>1 DEF VaultInv, FilesAreTrue, TrueMark
  <2> QED
    BY <2>2, <2>3
<1>8. CASE Overlapped(p)
  <2>1. strayed' = Notes
    BY <1>1, <1>8
  <2>2. ASSUME NEW q \in Sweepers PROVE MarksAreTrue(q)' /\ HandIsTrue(q)' /\ OneItemEach(q)'
    <3>1. CASE q = p
      BY <1>5, <1>6, <1>7, <3>1, RestingIsTrue DEF SweepIsTrue
    <3>2. CASE q # p
      <4>1. SweepIsTrue(q) /\ sweep'[q] = sweep[q] /\ disk' = disk
        BY <1>1, <1>5, <3>2 DEF VaultInv
      <4>2. MarksAreTrue(q)'
        BY <4>1 DEF SweepIsTrue, MarksAreTrue, TrueMark
      <4>3. HandIsTrue(q)'
        BY <4>1 DEF SweepIsTrue, HandIsTrue, TrueMark, Note, Old
      <4>4. OneItemEach(q)'
        BY <4>1 DEF SweepIsTrue, OneItemEach
      <4> QED
        BY <4>2, <4>3, <4>4
    <3> QED
      BY <3>1, <3>2
  <2>3. StoryIsTrue' /\ \A q \in Sweepers : SweepIsTrue(q)'
    BY <1>6, <2>1, <2>2, ExcusedStaysTrue
  <2> QED
    BY <1>6, <1>7, <2>3 DEF VaultInv
<1>9. CASE ~Overlapped(p)
  <2>1. strayed' = strayed \cup MovedOn(sweep[p].items) /\ \A q \in Sweepers : q # p => sweep[q].pc = "rest"
    BY <1>1, <1>9 DEF Overlapped
  <2>2. \A q \in Sweepers : ~Telling(q) /\ (q # p => ~Before(q))
    BY <1>1, <2>1 DEF Telling, Before
  <2>3. \A q \in Sweepers : ~Telling(q)' /\ ~Before(q)'
    <3>1. ~Telling(p)' /\ ~Before(p)'
      BY <1>5 DEF Telling, Before, NotSweeping
    <3>2. \A q \in Sweepers : q # p => ~Telling(q)' /\ ~Before(q)'
      BY <1>5, <2>1 DEF Telling, Before
    <3> QED
      BY <3>1, <3>2
  <2>4. \A q \in Sweepers : SweepIsTrue(q)'
    <3>1. ASSUME NEW q \in Sweepers, q # p PROVE SweepIsTrue(q)'
      BY <1>1, <1>5, <2>1, <3>1, RestersStayTrue DEF VaultInv
    <3>2. SweepIsTrue(p)'
      BY <1>5, <1>6, <1>7, RestingIsTrue
    <3> QED
      BY <3>1, <3>2
  <2>5. StoryIsTrue'
    BY <1>1, <1>2, <2>1, <2>2, <2>3, <1>t, IdleKeepsTheStory
  <2> QED
    BY <1>6, <1>7, <2>4, <2>5 DEF VaultInv
<1> QED
  BY <1>8, <1>9

\* The notes that a poll has more than a first row to hand over of, when the runner starts again.
LeftBehind(p) ==
  IF sweep[p].pc = "write" THEN {sweep[p].items[i].note : i \in {j \in DOMAIN sweep[p].items : sweep[p].items[j].id \notin sweep[p].ids}}
  ELSE MovedOn(sweep[p].items)

LEMMA RestartsKeepTheStory ==
  ASSUME VaultInv, RunnerRestarts PROVE VaultInv'
<1>1. /\ Break /\ sweep' = [p \in Sweepers |-> NotSweeping] /\ UNCHANGED <<disk, files, lastText, ids, told>>
      /\ strayed' = strayed \cup UNION {LeftBehind(p) : p \in Sweepers}
  BY DEF RunnerRestarts, LeftBehind, stores
<1>2. VaultTypes /\ StoryIsTrue /\ strayed \subseteq Notes
  BY DEF VaultInv, VaultTypes
<1>3. NotSweeping \in Sweeps
  BY RestsAreSweeps
<1>4. ASSUME NEW p \in Sweepers PROVE LeftBehind(p) \subseteq strayed' /\ LeftBehind(p) \subseteq Notes
  <2>1. \A i \in DOMAIN sweep[p].items : sweep[p].items[i].note \in Notes
    BY <1>2, ItemsAreItems
  <2>2. LeftBehind(p) \subseteq Notes
    BY <2>1 DEF LeftBehind, MovedOn
  <2> QED
    BY <1>1, <2>2
<1>t. strayed' \in SUBSET Notes /\ strayed \subseteq strayed'
  BY <1>1, <1>2, <1>4
<1>5. sweep' \in [Sweepers -> Sweeps] /\ \A q \in Sweepers : sweep'[q] = NotSweeping
  BY <1>1, <1>3
<1>e. events' \in Nat /\ events' >= events
  BY <1>1, <1>2 DEF VaultTypes, Break, Event
<1>6. VaultTypes'
  BY <1>1, <1>2, <1>5, <1>e, <1>t DEF VaultTypes
<1>7. DiskIsOld' /\ FilesAreTrue'
  <2>1. \A n \in Notes : disk[n].mtime \in Nat
    BY <1>2 DEF VaultTypes, OnDisk
  <2>2. DiskIsOld'
    BY <1>1, <1>2, <1>e, <2>1 DEF VaultInv, DiskIsOld, VaultTypes
  <2>3. FilesAreTrue'
    BY <1>1 DEF VaultInv, FilesAreTrue, TrueMark
  <2> QED
    BY <2>2, <2>3
<1>8. \A q \in Sweepers : SweepIsTrue(q)'
  BY <1>5, <1>6, <1>7, RestingIsTrue
<1>9. \A q \in Sweepers : ~Telling(q)' /\ ~Before(q)'
  BY <1>5 DEF Telling, Before, NotSweeping
<1>10. \A q \in Sweepers : Before(q) => MovedOn(sweep[q].items) \subseteq strayed'
  BY <1>4 DEF Before, LeftBehind
<1>11. ASSUME NEW n \in Notes \ strayed', NEW q \in Sweepers, Telling(q) PROVE Made(q, n) = {}
  <2> SUFFICES ASSUME NEW i \in DOMAIN sweep[q].items, sweep[q].items[i].note = n PROVE FALSE
    BY DEF Made
  <2>1. n \notin strayed
    BY <1>t
  <2>2. sweep[q].items[i].id \notin sweep[q].ids
    BY <1>11, <2>1 DEF VaultInv, SweepIsTrue, RowsGoOn, GoesOn
  <2>3. n \in LeftBehind(q)
    BY <1>11, <2>2 DEF LeftBehind, Telling
  <2> QED
    BY <1>4, <2>3
<1>12. StoryIsTrue'
  BY <1>1, <1>2, <1>t, <1>9, <1>10, <1>11, IdleKeepsTheStory
<1> QED
  BY <1>6, <1>7, <1>8, <1>12 DEF VaultInv

LEMMA TheStoryBegins == VaultInit => VaultInv
<1> SUFFICES ASSUME VaultInit PROVE VaultInv
  OBVIOUS
<1>1. /\ disk = [n \in Notes |-> [text |-> Gone, mtime |-> 0, fresh |-> FALSE]]
      /\ files = [n \in Notes |-> NeverSeen] /\ lastText = [n \in Notes |-> Gone]
      /\ sweep = [p \in Sweepers |-> NotSweeping] /\ ids = {} /\ told = [n \in Notes |-> << >>]
      /\ events = 0 /\ strayed = {}
  BY DEF VaultInit
<1>2. NotSweeping \in Sweeps
  BY RestsAreSweeps
<1>3. VaultTypes
  BY <1>1, <1>2 DEF VaultTypes, OnDisk, NeverSeen, TextMarks, MaybeText, Gone
<1>4. DiskIsOld /\ FilesAreTrue
  BY <1>1 DEF DiskIsOld, FilesAreTrue, TrueMark, NeverSeen, Gone
<1>5. ASSUME NEW p \in Sweepers PROVE SweepIsTrue(p)
  <2>1. /\ sweep[p].pc = "rest" /\ sweep[p].items = << >> /\ sweep[p].todo = {} /\ sweep[p].listed = {}
        /\ sweep[p].files = [n \in Notes |-> NeverSeen]
    BY <1>1 DEF NotSweeping
  <2>2. MarksAreTrue(p)
    BY <1>1, <2>1 DEF MarksAreTrue, TrueMark, NeverSeen, Gone
  <2> QED
    BY <2>1, <2>2 DEF SweepIsTrue, HandIsTrue, OneItemEach, AsSaved, ItemsAreNews, NewIsUntold, RowsGoOn, Before, Telling
<1>6. StoryIsTrue
  <2>1. \A p \in Sweepers : ~Telling(p)
    BY <1>1 DEF Telling, NotSweeping
  <2>2. LastIsSaved /\ TalesAreTold
    BY <1>1 DEF LastIsSaved, TalesAreTold, Tale, NeverSeen
  <2>3. NoGaps
    BY <1>1 DEF NoGaps
  <2> QED
    BY <1>1, <2>1, <2>2, <2>3 DEF StoryIsTrue, OneTells, IdsAreTold
<1> QED
  BY <1>3, <1>4, <1>5, <1>6 DEF VaultInv

\* While no poll is under way, a note of which the mark is the newest is as files.json
\* has it, and the rows of a note that nothing excuses end with that text and have no gaps.
LEMMA TheStoryIsTold == VaultInv => NotesAreTold
<1> SUFFICES ASSUME VaultInv, \A p \in Sweepers : sweep[p].pc = "rest", NEW n \in Notes
             PROVE  /\ disk[n].text # Gone /\ files[n].mtime = disk[n].mtime => files[n].text = disk[n].text
                    /\ n \notin strayed =>
                         /\ Tale(n) = files[n].text
                         /\ \A i \in 2..Len(told[n]) : told[n][i].kind = "diff" => told[n][i].old = told[n][i - 1].new
  BY DEF NotesAreTold
<1>1. \A p \in Sweepers : ~Telling(p)
  BY DEF Telling
<1>2. n \notin strayed => Tale(n) = files[n].text
  BY <1>1 DEF VaultInv, StoryIsTrue, TalesAreTold
<1> QED
  BY <1>2 DEF VaultInv, StoryIsTrue, NoGaps, FilesAreTrue, TrueMark

LEMMA StepsKeepTheStory == VaultInv /\ [VaultNext]_vaultVars => VaultInv'
<1> SUFFICES ASSUME VaultInv, [VaultNext]_vaultVars PROVE VaultInv'
  OBVIOUS
<1>1. CASE RunnerRestarts
  BY <1>1, RestartsKeepTheStory
<1>2. CASE Editor
  <2>1. ASSUME NEW n \in Notes, Settle(n) PROVE VaultInv'
    BY <2>1, SettlingKeepsTheStory
  <2>2. ASSUME NEW n \in Notes, NEW text \in NoteTexts \cup {Gone}, Change(n, text) PROVE VaultInv'
    BY <2>2, ChangesKeepTheStory DEF MaybeText
  <2> QED
    BY <1>2, <2>1, <2>2 DEF Editor
<1>3. ASSUME NEW p \in Sweepers, Sweep(p) PROVE VaultInv'
  <2>1. CASE SweepStarts(p)
    BY <2>1, StartsKeepTheStory
  <2>2. CASE Look(p)
    BY <2>2, LooksKeepTheStory
  <2>3. CASE Read(p)
    BY <2>3, ReadsKeepTheStory
  <2>4. CASE Emit(p)
    BY <2>4, EmitsKeepTheStory
  <2>5. CASE Tombstones(p)
    BY <2>5, TombstonesKeepTheStory
  <2>6. CASE SaveFiles(p)
    BY <2>6, SavesKeepTheStory
  <2>7. CASE SweepEnds(p)
    BY <2>7, EndsKeepTheStory
  <2>8. CASE SweepFails(p)
    BY <2>8, FailsKeepTheStory
  <2>9. CASE PassOver(p)
    BY <2>9, PassingKeepsTheStory
  <2>10. ASSUME NEW ok \in BOOLEAN, AlreadyIngested(p, ok) PROVE VaultInv'
    BY <2>10, AskingKeepsTheStory
  <2>11. ASSUME NEW ok \in BOOLEAN, NEW lands \in BOOLEAN, TellRow(p, ok, lands) PROVE VaultInv'
    BY <2>11, TellingKeepsTheStory
  <2> QED
    BY <1>3, <2>1, <2>2, <2>3, <2>4, <2>5, <2>6, <2>7, <2>8, <2>9, <2>10, <2>11 DEF Sweep
<1>4. CASE UNCHANGED vaultVars
  <2>1. UNCHANGED <<disk, files, lastText, sweep, ids, told, events, strayed>>
    BY <1>4 DEF vaultVars
  <2>2. VaultTypes' /\ DiskIsOld' /\ FilesAreTrue'
    BY <2>1 DEF VaultInv, VaultTypes, DiskIsOld, FilesAreTrue, TrueMark
  <2>3. \A q \in Sweepers : Before(q)' = Before(q) /\ Telling(q)' = Telling(q) /\ sweep'[q] = sweep[q]
    BY <2>1 DEF Before, Telling
  <2>4. ASSUME NEW q \in Sweepers PROVE SweepIsTrue(q)'
    <3>1. Single(q)' => Single(q)
      BY <2>3 DEF Single
    <3> QED
      BY <2>1, <2>3, <3>1, BystandersStayTrue DEF VaultInv
  <2>5. StoryIsTrue'
    BY <2>1, <2>3, StoryStaysTrue DEF VaultInv, VaultTypes
  <2> QED
    BY <2>2, <2>4, <2>5 DEF VaultInv
<1> QED
  BY <1>1, <1>2, <1>3, <1>4 DEF VaultNext

\* The vault producer: while no poll is under way, a note that counts as unchanged
\* is unchanged, and the rows of a note are a story without gaps that ends with the
\* text which files.json vouches for, unless something excuses it - however polls
\* of the loop and by hand, the editor, faults and restarts interleave.
THEOREM NotesStayTold == VaultSpec => []NotesAreTold
<1>1. VaultInit => VaultInv
  BY TheStoryBegins
<1>2. VaultInv /\ [VaultNext]_vaultVars => VaultInv'
  BY StepsKeepTheStory
<1>3. VaultInv => NotesAreTold
  BY TheStoryIsTold
<1> QED
  BY <1>1, <1>2, <1>3, PTL DEF VaultSpec
=============================================================================
