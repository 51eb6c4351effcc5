------------------------------- MODULE Sources -------------------------------
(***************************************************************************)
(* The source runner (source-runner/source_runner.py) with one configured  *)
(* source: the poll loop, manual polls, the set of seen ids and its file,  *)
(* and the requests that add, pause, resume and remove the source.         *)
(*                                                                         *)
(* add_source() makes new objects for the configuration and the state of   *)
(* the source; a poll that is under way keeps the ones it began with.  The *)
(* producer is a feed to which items are added.  The time of the next poll *)
(* is left out: an active source is polled again and again.                *)
(***************************************************************************)
EXTENDS Naturals, FiniteSets

CONSTANTS
  Items,      \* ids of items
  Pollers,    \* tasks that run _poll_source: the loop and manual polls
  TheLoop,    \* the loop among them
  SeenCap,    \* ids kept (1000)
  MaxErrors,  \* polls that may fail in a row (5)
  MaxObjs,    \* bound: objects of the source alive at once
  MaxFailures \* bound: requests that fail, lost answers, restarts

VARIABLES
  objs,     \* the objects made for the source that are still in use
  current,  \* the one in _sources and _states, 0 if the source is removed
  onDisk,   \* sources.json: the status, or "none"
  stateFile,    \* the state file: what _save_state last wrote
  polling,  \* what each poller is in the middle of
  feed,     \* the items that the producer shows
  written,  \* how often each item was written to the lake: 0, 1, or more (2)
  failures, \* things gone wrong so far (bounds the environment)
  smudged   \* history: items of which something went wrong

sourceVars == <<objs, current, onDisk, stateFile, polling, feed, written, failures, smudged>>

NewState == [errors |-> 0, seen |-> {}]
Unused == [status |-> "none", state |-> NewState]
NoPolling == [pc |-> "no", g |-> 0, todo |-> {}, seen |-> {}]

SourcesInit ==
  /\ objs = [g \in 1..MaxObjs |-> Unused]
  /\ current = 0 /\ onDisk = "none" /\ stateFile = NewState
  /\ polling = [p \in Pollers |-> NoPolling]
  /\ feed = {} /\ written = [i \in Items |-> 0]
  /\ failures = 0 /\ smudged = {}

Failing == failures < MaxFailures /\ failures' = failures + 1

\* Objects nobody refers to any more are forgotten.
Holds(p, g) == polling[p].pc # "no" /\ polling[p].g = g
Drop(os, g) == [os EXCEPT ![g] = Unused]
Free == {g \in 1..MaxObjs : objs[g] = Unused}

\* The items that the lake has, once or more.
InLake == {i \in Items : written[i] > 0}

More(n) == IF n < 2 THEN n + 1 ELSE n

\* Items appear; none is taken off the feed before it is polled.
Publish(i) ==
  /\ i \notin feed
  /\ feed' = feed \cup {i}
  /\ UNCHANGED <<objs, current, onDisk, stateFile, polling, written, failures, smudged>>

-----------------------------------------------------------------------------
(* SourceRequests: each runs to its end, and the files are written at once.       *)

\* A name that was used before finds no state file, but may find items.
Add ==
  /\ current = 0 /\ Free # {}
  /\ current' = CHOOSE g \in Free : TRUE
  /\ objs' = [objs EXCEPT ![current'] = [status |-> "active", state |-> NewState]]
  /\ onDisk' = "active" /\ stateFile' = NewState
  /\ smudged' = smudged \cup InLake \cup UNION {polling[p].todo : p \in Pollers}
  /\ UNCHANGED <<polling, feed, written, failures>>

RemoveSource ==
  /\ current # 0
  /\ current' = 0 /\ onDisk' = "none" /\ stateFile' = NewState
  /\ objs' = IF \E p \in Pollers : Holds(p, current) THEN objs ELSE Drop(objs, current)
  /\ UNCHANGED <<polling, feed, written, failures, smudged>>

Pause ==
  /\ current # 0 /\ objs[current].status # "paused"
  /\ objs' = [objs EXCEPT ![current].status = "paused"]
  /\ onDisk' = "paused"
  /\ UNCHANGED <<current, stateFile, polling, feed, written, failures, smudged>>

\* Variant: a resumed source starts from a new state.
ResumedState(state) == NewState

Resumed(state) == [state EXCEPT !.errors = 0]

Resume ==
  /\ current # 0 /\ objs[current].status # "active"
  /\ objs' = [objs EXCEPT ![current] = [status |-> "active", state |-> Resumed(@.state)]]
  /\ stateFile' = Resumed(objs[current].state) /\ onDisk' = "active"
  /\ UNCHANGED <<current, polling, feed, written, failures, smudged>>

-----------------------------------------------------------------------------
(* _poll_source()                                                          *)

Enters(p) ==
  /\ polling[p].pc = "no" /\ current # 0
  /\ polling' = [polling EXCEPT ![p] = [NoPolling EXCEPT !.pc = "fetch", !.g = current]]
  /\ UNCHANGED <<objs, current, onDisk, stateFile, feed, written, failures, smudged>>

\* run() polls a source that is active, once it is due, manual_poll() any.
LoopPolls == current # 0 /\ objs[current].status = "active" /\ Enters(TheLoop)
ManualPoll(p) == p # TheLoop /\ Enters(p)

\* A poll leaves the object of its source as it should be by then.
Leaves(p, obj) ==
  LET g == polling[p].g
  IN  objs' = IF g # current /\ ~\E q \in Pollers \ {p} : Holds(q, g)
              THEN Drop(objs, g) ELSE [objs EXCEPT ![g] = obj]

\* The producer fails; after some failures in a row the source is in error.  A poll of a
\* source that was removed overwrites the state file of the one that has its name now.
FetchFails(p) ==
  /\ polling[p].pc = "fetch"
  /\ Failing
  /\ LET obj   == objs[polling[p].g]
         next  == [obj.state EXCEPT !.errors = @ + 1]
         stops == next.errors >= MaxErrors
     IN  /\ Leaves(p, [status |-> IF stops THEN "error" ELSE obj.status, state |-> next])
         /\ stateFile' = next
  /\ onDisk' = IF current = 0 THEN "none" ELSE objs'[current].status
  /\ polling' = [polling EXCEPT ![p] = NoPolling]
  /\ smudged' = IF current \notin {0, polling[p].g} THEN smudged \cup InLake ELSE smudged
  /\ UNCHANGED <<current, feed, written>>

\* The items not seen yet are left to write.  Another poll of the same source
\* that is under way does not know of what this one is about to see, nor does
\* a source that was added since.
Fetched(p) ==
  /\ polling[p].pc = "fetch"
  /\ objs' = [objs EXCEPT ![polling[p].g].state.errors = 0]
  /\ LET seen == objs[polling[p].g].state.seen
     IN  polling' = [polling EXCEPT ![p].pc = "write", ![p].todo = feed \ seen, ![p].seen = seen]
  /\ smudged' = IF polling[p].g # current \/ \E q \in Pollers \ {p} : polling[q].pc = "write" THEN smudged \cup feed ELSE smudged
  /\ UNCHANGED <<current, onDisk, stateFile, feed, written, failures>>

\* Variant: an item counts as seen when its turn comes.
NowSeenBefore(p, i, lands) == polling[p].seen \cup {i}

\* An item counts as seen when its write has been answered.
NowSeen(p, i, lands) == polling[p].seen \cup IF lands THEN {i} ELSE {}

WriteItem(p, i) ==
  /\ polling[p].pc = "write" /\ i \in polling[p].todo
  /\ written' = [written EXCEPT ![i] = More(@)]
  /\ polling' = [polling EXCEPT ![p].todo = @ \ {i}, ![p].seen = NowSeen(p, i, TRUE)]
  /\ UNCHANGED <<objs, current, onDisk, stateFile, feed, failures, smudged>>

\* The write fails, or it lands and its answer is lost: the item is tried again.
WriteItemFails(p, i, lands) ==
  /\ polling[p].pc = "write" /\ i \in polling[p].todo
  /\ Failing
  /\ written' = IF lands THEN [written EXCEPT ![i] = More(@)] ELSE written
  /\ polling' = [polling EXCEPT ![p].todo = @ \ {i}, ![p].seen = NowSeen(p, i, FALSE)]
  /\ smudged' = smudged \cup {i}
  /\ UNCHANGED <<objs, current, onDisk, stateFile, feed>>

\* list(seen_set)[-1000:]: a set has no order, so any of them may be kept.
Capped(seen) ==
  IF Cardinality(seen) <= SeenCap THEN {seen}
  ELSE {s \in SUBSET seen : Cardinality(s) = SeenCap}

PollEnds(p) ==
  /\ polling[p].pc = "write" /\ polling[p].todo = {}
  /\ \E kept \in Capped(polling[p].seen) :
       LET next == [objs[polling[p].g].state EXCEPT !.seen = kept]
       IN  /\ Leaves(p, [objs[polling[p].g] EXCEPT !.state = next])
           /\ stateFile' = next
           /\ smudged' = smudged \cup (polling[p].seen \ kept)
  /\ polling' = [polling EXCEPT ![p] = NoPolling]
  /\ UNCHANGED <<current, onDisk, feed, written, failures>>

\* The runner starts again from its two files; the objects are gone.
RunnerRestart ==
  /\ Failing
  /\ polling' = [p \in Pollers |-> NoPolling]
  /\ objs' = [g \in 1..MaxObjs |->
       IF g = current THEN [status |-> onDisk, state |-> stateFile] ELSE Unused]
  /\ smudged' = smudged \cup UNION {polling[p].seen : p \in Pollers}
  /\ UNCHANGED <<current, onDisk, stateFile, feed, written>>

Outside == \E i \in Items : Publish(i)
SourceRequests == Add \/ RemoveSource \/ Pause \/ Resume \/ (\E p \in Pollers : ManualPoll(p)) \/ RunnerRestart
Poll(p) == Fetched(p) \/ PollEnds(p) \/ \E i \in Items : WriteItem(p, i)
Fails(p) == FetchFails(p) \/ \E i \in Items, lands \in BOOLEAN : WriteItemFails(p, i, lands)
SourcesNext ==
  \/ Outside \/ SourceRequests \/ LoopPolls
  \/ \E p \in Pollers : Poll(p) \/ Fails(p)

\* The loop wakes every 30 seconds, intervals pass, calls return.
SourcesFairness == WF_sourceVars(LoopPolls) /\ \A p \in Pollers : WF_sourceVars(Poll(p))
SourcesSpec == SourcesInit /\ [][SourcesNext]_sourceVars /\ SourcesFairness
-----------------------------------------------------------------------------
SourceStates == [errors : 0..MaxErrors + MaxFailures, seen : SUBSET Items]

\* Every variable has its type; the files hold what the objects held, and a
\* source in use has a status on disk.
SourcesTypeOK ==
  /\ objs \in [1..MaxObjs -> [status : {"none", "active", "paused", "error"}, state : SourceStates]]
  /\ current \in 0..MaxObjs /\ stateFile \in SourceStates
  /\ onDisk = IF current = 0 THEN "none" ELSE objs[current].status
  /\ \A p \in Pollers : /\ polling[p].pc \in {"no", "fetch", "write"} /\ polling[p].g \in 0..MaxObjs
                        /\ polling[p].todo \cup polling[p].seen \subseteq Items
  /\ feed \subseteq Items /\ failures \in 0..MaxFailures

\* What the runner takes for seen is in the lake: no order of failures, polls
\* and restarts makes it skip an item that was not written.
SeenAreWritten ==
  \A i \in Items :
    (i \in stateFile.seen \/ \E g \in 1..MaxObjs : i \in objs[g].state.seen) => written[i] > 0

\* An item is written once, unless the answer to its write was lost, two polls
\* overlapped, the cap dropped it, or it was forgotten in a restart or a removal, or
\* by a poll that outlived its source.
WrittenOnce == \A i \in Items : written[i] <= 1 \/ i \in smudged

\* An item in the feed of an active source gets into the lake.
NothingMissed ==
  \A i \in Items :
    (i \in feed /\ current # 0) ~>
      (written[i] > 0 \/ current = 0 \/ objs[current].status # "active")
=============================================================================
