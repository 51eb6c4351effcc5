---------------------------- MODULE ErrandsProofs ----------------------------
(***************************************************************************)
(* Proofs about what Fathom has others do, for every number of tasks,      *)
(* polls, operators and failures, and every schedule.                      *)
(*                                                                         *)
(* A helper task is put to a session once and wakes Fathom once: the       *)
(* dispatch of a task that has been put to a session lies behind both      *)
(* cursors of the agent, and an end that has woken Fathom behind the       *)
(* watcher's mark of its task.                                             *)
(*                                                                         *)
(* A routine fires once for a moment of its schedule: its fires are        *)
(* covered by the newest tick and by the last fire in memory, but for the  *)
(* one in hand.  A single_fire row fires once: once it has, a later row    *)
(* stands, or the scheduler is about to write one.  A delete takes effect: *)
(* its tombstone follows a live row of its workspace, so that the store    *)
(* drops it only for another tombstone that came in between.               *)
(*                                                                         *)
(* The agent's plugins put a task to an adapter once, and type a prompt    *)
(* once, as one line of its window.                                        *)
(***************************************************************************)
EXTENDS Helpers, Routines, Plugins, FiniteSetTheorems, TLAPS

\* Of numbers that are bounded one is the greatest.
LEMMA HasGreatest ==
  ASSUME NEW n \in Nat, NEW S \in SUBSET (0..n), S # {}
  PROVE  \E x \in S : \A y \in S : y <= x
<1> DEFINE Above(x) == {y \in S : y > x}
           Tails == {Above(x) : x \in S}
<1>0. IsFiniteSet(0..n)
  BY FS_Interval
<1>a. \A x \in S : x \in Nat
  OBVIOUS
<1>b. S \subseteq 0..n
  OBVIOUS
<1>1. IsFiniteSet(S) /\ \A x \in S : x \in Nat
  BY <1>0, <1>a, <1>b, FS_Subset, Zenon
<1>2. Tails \subseteq FiniteSubsetsOf(S) /\ Tails # {}
  <2>1. \A x \in S : Above(x) \in SUBSET S /\ IsFiniteSet(Above(x))
    BY <1>1, FS_Subset
  <2>2. \A x \in S : Above(x) \in FiniteSubsetsOf(S)
    BY <2>1 DEF FiniteSubsetsOf
  <2> HIDE DEF Above
  <2> QED
    BY <2>2
<1>3. (\A l \in Tails : \E x \in S : l = Above(x)) /\ \A y \in S : Above(y) \in Tails
  OBVIOUS
<1> HIDE DEF Tails, Above
<1>4. PICK least \in Tails : \A t \in Tails : ~(<<t, least>> \in StrictSubsetOrdering(S))
  BY <1>1, <1>2, WFMin, FS_StrictSubsetOrderingWellFounded
<1> PICK x \in S : least = Above(x)
  BY <1>3
<1>5. \A y \in S : ~(y > x)
  <2> SUFFICES ASSUME NEW y \in S, y > x PROVE FALSE
    OBVIOUS
  <2>a. \A z \in S : z > y => z > x
    BY <1>1
  <2>b. ~(y > y)
    BY <1>1
  <2>1. Above(y) \subseteq Above(x) /\ Above(x) \subseteq S /\ y \in Above(x) /\ y \notin Above(y)
    BY <2>a, <2>b, Zenon DEF Above
  <2>2. <<Above(y), Above(x)>> \in StrictSubsetOrdering(S)
    BY <2>1 DEF StrictSubsetOrdering
  <2> QED
    BY <1>3, <1>4, <2>2
<1> QED
  BY <1>1, <1>5

\* And one is the least.
LEMMA HasLeast ==
  ASSUME NEW n \in Nat, NEW S \in SUBSET (0..n), S # {}
  PROVE  \E x \in S : \A y \in S : x <= y
<1> DEFINE Mirror == {n - x : x \in S}
<1>0. \A y \in S : y \in Nat /\ n - y \in 0..n
  OBVIOUS
<1>2. (\A y \in S : n - y \in Mirror) /\ \A z \in Mirror : \E x \in S : z = n - x
  OBVIOUS
<1> HIDE DEF Mirror
<1>1. Mirror \in SUBSET (0..n) /\ Mirror # {}
  <2>1. \A z \in Mirror : z \in 0..n
    BY <1>0, <1>2
  <2> QED
    BY <1>2, <2>1
<1>3. PICK z \in Mirror : \A y \in Mirror : y <= z
  BY <1>1, HasGreatest
<1>4. PICK x \in S : z = n - x
  BY <1>2
<1>5. ASSUME NEW y \in S PROVE x <= y
  <2>1. n - y <= n - x
    BY <1>2, <1>3, <1>4
  <2> QED
    BY <1>0, <2>1
<1> QED
  BY <1>5
-----------------------------------------------------------------------------
(* Helper tasks.                                                             *)
PollRecord == [on : BOOLEAN, since : Nat, floor : Nat]
WatcherRecord == [at : {"prime", "primeSpawns", "sleep", "gather", "tick"}, floor : Nat,
                  active : SUBSET Tasks, closing : [Tasks -> Nat], hand : Nat]

HelperTypes ==
  /\ log \in Seq(Rows) /\ wakes \in Seq(Nat)
  /\ seen \in Nat /\ saved \in Nat
  /\ prompts \in [Tasks -> Nat] /\ minted \in [Tasks -> Nat]
  /\ poll \in [Polls -> PollRecord] /\ watcher \in WatcherRecord
  /\ posts \subseteq [kind : {"spawn", "abandoned"}, task : Tasks]

\* A task has one dispatch.
OneDispatch ==
  \A i, j \in 1..Len(log) :
    log[i].kind = "dispatch" /\ log[j].kind = "dispatch" /\ log[i].task = log[j].task => i = j

\* The dispatch of a task that has been put to a session lies behind both cursors, that in
\* memory and that in the file.
CursorsPass ==
  \A c \in Tasks : prompts[c] > 0 /\ c \notin rewound =>
    \E i \in 1..Len(log) : log[i] = [kind |-> "dispatch", task |-> c] /\ i <= seen /\ i <= saved

\* What wakes Fathom is an end; it lies behind the mark of its task, until the watcher
\* is to be primed anew.
WakesArePast ==
  \A i \in 1..Len(wakes) :
    LET w == wakes[i] IN
    /\ w \in 1..Len(log) /\ log[w].kind \in Ends
    /\ watcher.at = "prime" \/ w <= minted[log[w].task] \/ <<"mint", log[w].task>> \in spoilt

\* The end in hand has its mark, but not yet its message.
HandIsNew ==
  watcher.hand # 0 =>
    /\ watcher.at = "tick" /\ watcher.hand \in 1..Len(log) /\ log[watcher.hand].kind \in Ends
    /\ \/ <<"mint", log[watcher.hand].task>> \in spoilt
       \/ /\ watcher.hand <= minted[log[watcher.hand].task]
          /\ \A i \in 1..Len(wakes) : wakes[i] # watcher.hand

\* What the watcher is to close are ends, each of its own task.
ClosingAreEnds ==
  \A c \in Tasks : watcher.closing[c] # 0 =>
    /\ watcher.at = "tick" /\ watcher.closing[c] \in 1..Len(log)
    /\ log[watcher.closing[c]].kind \in Ends /\ log[watcher.closing[c]].task = c

AgentInv == OneDispatch /\ CursorsPass /\ PutToSessionsOnce
WatcherInv == WakesArePast /\ HandIsNew /\ ClosingAreEnds /\ WokenOnce
HelperInv == HelperTypes /\ AgentInv /\ WatcherInv
-----------------------------------------------------------------------------
\* What Top is of such numbers.
LEMMA TopOf ==
  ASSUME NEW n \in Nat, NEW S \in SUBSET (0..n)
  PROVE  /\ Top(S) \in 0..n
         /\ S # {} => Top(S) \in S
         /\ \A y \in S : y <= Top(S)
<1>1. CASE S = {}
  BY <1>1 DEF Top
<1>2. CASE S # {}
  <2>1. PICK x \in S : \A y \in S : y <= x
    BY <1>2, HasGreatest
  <2>2. Top(S) \in S /\ \A y \in S : y <= Top(S)
    BY <1>2, <2>1 DEF Top
  <2> QED
    BY <2>2
<1> QED
  BY <1>1, <1>2

\* Where the dispatch of a task is.
LEMMA DispatchPlaceIs ==
  ASSUME HelperTypes, OneDispatch, NEW c \in Tasks
  PROVE  /\ DispatchPlace(c) \in Nat
         /\ \A i \in 1..Len(log) : log[i].kind = "dispatch" /\ log[i].task = c => DispatchPlace(c) = i
<1> DEFINE P == Places({"dispatch"}, c, Len(log))
<1>1. Len(log) \in Nat /\ P \in SUBSET (0..Len(log))
  BY DEF HelperTypes, Places
<1>2. Top(P) \in 0..Len(log) /\ (P # {} => Top(P) \in P)
  BY <1>1, TopOf
<1>3. ASSUME NEW i \in 1..Len(log), log[i].kind = "dispatch", log[i].task = c PROVE Top(P) = i
  <2>1. i \in P
    BY <1>3 DEF Places
  <2>2. Top(P) \in P
    BY <1>2, <2>1
  <2> QED
    BY <1>3, <2>2 DEF Places, OneDispatch
<1> QED
  BY <1>2, <1>3 DEF DispatchPlace

LEMMA LogGrows ==
  ASSUME HelperTypes, NEW kind \in RowKinds, NEW c \in Tasks, Append1(kind, c)
  PROVE  /\ log' \in Seq(Rows) /\ Len(log) \in Nat /\ Len(log') = Len(log) + 1
         /\ log'[Len(log) + 1] = [kind |-> kind, task |-> c]
         /\ \A i \in 1..Len(log) : log'[i] = log[i] /\ i \in 1..Len(log')
<1>1. [kind |-> kind, task |-> c] \in Rows
  BY DEF Rows
<1> QED
  BY <1>1 DEF Append1, HelperTypes

LEMMA RowsAreOfTasks ==
  ASSUME HelperTypes, NEW w \in 1..Len(log)
  PROVE  log[w].task \in Tasks
<1>1. log[w] \in Rows
  BY DEF HelperTypes
<1> QED
  BY <1>1 DEF Rows

LEMMA AgentGrows ==
  ASSUME HelperTypes, AgentInv, NEW kind \in RowKinds, NEW c \in Tasks, Append1(kind, c),
         kind = "dispatch" => ~Has({"dispatch"}, c),
         UNCHANGED <<seen, saved, prompts, rewound>>
  PROVE  AgentInv'
<1>1. /\ Len(log) \in Nat /\ Len(log') = Len(log) + 1
      /\ log'[Len(log) + 1] = [kind |-> kind, task |-> c]
      /\ \A i \in 1..Len(log) : log'[i] = log[i] /\ i \in 1..Len(log')
  BY LogGrows
<1>2. kind = "dispatch" => \A i \in 1..Len(log) : ~(log[i].kind = "dispatch" /\ log[i].task = c)
  BY DEF Has, Places
<1>3. \A i \in 1..Len(log') : i \in 1..Len(log) \/ i = Len(log) + 1
  BY <1>1
<1>4. OneDispatch'
  <2> SUFFICES ASSUME NEW i \in 1..Len(log'), NEW j \in 1..Len(log'),
                      log'[i].kind = "dispatch", log'[j].kind = "dispatch", log'[i].task = log'[j].task
               PROVE  i = j
    BY DEF OneDispatch
  <2> QED
    BY <1>1, <1>2, <1>3 DEF AgentInv, OneDispatch
<1>5. CursorsPass'
  BY <1>1 DEF AgentInv, CursorsPass
<1>6. PutToSessionsOnce'
  BY DEF AgentInv, PutToSessionsOnce
<1> QED
  BY <1>4, <1>5, <1>6 DEF AgentInv

LEMMA WatcherGrows ==
  ASSUME HelperTypes, WatcherInv, NEW kind \in RowKinds, NEW c \in Tasks, Append1(kind, c),
         UNCHANGED <<watcher, minted, wakes>>, spoilt \subseteq spoilt'
  PROVE  WatcherInv'
<1>1. \A i \in 1..Len(log) : log'[i] = log[i] /\ i \in 1..Len(log')
  BY LogGrows
<1>2. WakesArePast'
  BY <1>1 DEF WatcherInv, WakesArePast
<1>3. HandIsNew'
  BY <1>1 DEF WatcherInv, HandIsNew
<1>4. ClosingAreEnds'
  BY <1>1 DEF WatcherInv, ClosingAreEnds
<1>5. WokenOnce'
  <2>1. \A i \in 1..Len(wakes) : wakes[i] \in 1..Len(log)
    BY DEF WatcherInv, WakesArePast
  <2>2. \A i \in 1..Len(wakes) : log'[wakes[i]] = log[wakes[i]]
    BY <1>1, <2>1
  <2>3. WokenOnce
    BY DEF WatcherInv
  <2>4. ASSUME NEW i \in 1..Len(wakes), NEW j \in 1..Len(wakes), wakes[i] = wakes[j],
               <<"mint", log'[wakes[i]].task>> \notin spoilt'
        PROVE  i = j
    <3>1. <<"mint", log[wakes[i]].task>> \notin spoilt
      BY <2>2, <2>4
    <3> QED
      BY <2>3, <2>4, <3>1 DEF WokenOnce
  <2>5. wakes' = wakes
    OBVIOUS
  <2> QED
    BY <2>4, <2>5 DEF WokenOnce
<1> QED
  BY <1>2, <1>3, <1>4, <1>5 DEF WatcherInv

LEMMA AgentStays ==
  ASSUME AgentInv, UNCHANGED <<log, seen, saved, prompts, rewound>>
  PROVE  AgentInv'
BY DEF AgentInv, OneDispatch, CursorsPass, PutToSessionsOnce

LEMMA WatcherStays ==
  ASSUME WatcherInv, UNCHANGED <<log, watcher, minted, wakes>>, spoilt \subseteq spoilt'
  PROVE  WatcherInv'
<1>1. WakesArePast' /\ HandIsNew'
  BY DEF WatcherInv, WakesArePast, HandIsNew
<1>2. ClosingAreEnds' /\ WokenOnce'
  BY DEF WatcherInv, ClosingAreEnds, WokenOnce
<1> QED
  BY <1>1, <1>2 DEF WatcherInv

LEMMA SpoilGrows == ASSUME NEW ok, NEW what, Spoil(ok, what) PROVE spoilt \subseteq spoilt'
BY DEF Spoil
-----------------------------------------------------------------------------
LEMMA HelpersStart == HelpersInit => HelperInv
<1> SUFFICES ASSUME HelpersInit PROVE HelperInv
  OBVIOUS
<1>1. Asleep \in WatcherRecord /\ watcher \in WatcherRecord /\ watcher.at = "prime" /\ watcher.hand = 0
      /\ \A c \in Tasks : watcher.closing[c] = 0
  BY DEF HelpersInit, Asleep, WatcherRecord, Nothing
<1>2. log = << >> /\ wakes = << >> /\ Len(log) = 0 /\ Len(wakes) = 0 /\ \A c \in Tasks : prompts[c] = 0
  BY DEF HelpersInit
<1>3. HelperTypes
  BY <1>1 DEF HelpersInit, HelperTypes, NoPoll, PollRecord
<1>4. AgentInv
  BY <1>2 DEF AgentInv, OneDispatch, CursorsPass, PutToSessionsOnce
<1>5. WatcherInv
  BY <1>1, <1>2 DEF WatcherInv, WakesArePast, HandIsNew, ClosingAreEnds, WokenOnce
<1> QED
  BY <1>3, <1>4, <1>5 DEF HelperInv

\* Dispatches and what sessions write or do.
LEMMA SessionSteps == HelperInv /\ Session => HelperInv'
<1> SUFFICES ASSUME HelperInv, NEW c \in Tasks,
                    Dispatch(c) \/ SessionStarts(c) \/ SessionSays(c) \/ SessionCompletes(c) \/ WindowLost(c)
             PROVE  HelperInv'
  BY DEF Session
<1>1. HelperTypes /\ AgentInv /\ WatcherInv
  BY DEF HelperInv
<1>2. CASE Dispatch(c) \/ SessionStarts(c) \/ SessionSays(c) \/ SessionCompletes(c)
  <2>1. PICK kind \in RowKinds : Append1(kind, c) /\ (kind = "dispatch" => ~Has({"dispatch"}, c))
    BY <1>2 DEF Dispatch, SessionStarts, SessionSays, SessionCompletes, RowKinds, Closures
  <2>2. UNCHANGED <<seen, saved, prompts, rewound, poll, posts, watcher, minted, wakes, spoilt>>
    BY <1>2 DEF Dispatch, SessionStarts, SessionSays, SessionCompletes, agentVars, watcherVars
  <2>3. HelperTypes'
    BY <1>1, <2>1, <2>2, LogGrows DEF HelperTypes
  <2> QED
    BY <1>1, <2>1, <2>2, <2>3, AgentGrows, WatcherGrows DEF HelperInv
<1>3. CASE WindowLost(c)
  <2>1. UNCHANGED <<log, seen, saved, prompts, rewound, poll, posts, watcher, minted, wakes, spoilt>>
    BY <1>3 DEF WindowLost, watcherVars
  <2>2. HelperTypes'
    BY <1>1, <2>1 DEF HelperTypes
  <2> QED
    BY <1>1, <2>1, <2>2, AgentStays, WatcherStays DEF HelperInv
<1> QED
  BY <1>2, <1>3

\* The turn of a poll: what is fresh had not been put to a session, unless it was rewound,
\* and lies behind the cursor afterwards.
LEMMA HandlingIsSound ==
  ASSUME HelperInv, NEW items \in SUBSET Tasks, NEW upTo \in Nat, NEW ended, NEW hooks \in SUBSET Tasks,
         NEW aged, HandleAnswers(items, upTo, ended, hooks, aged), NEW p \in Polls,
         poll' = [poll EXCEPT ![p] = NoPoll], UNCHANGED <<log, watcherVars>>, spoilt \subseteq spoilt',
         \A c \in items : \E i \in 1..Len(log) : log[i] = [kind |-> "dispatch", task |-> c] /\ i <= upTo
  PROVE  HelperInv'
<1>1. HelperTypes /\ AgentInv /\ WatcherInv /\ OneDispatch /\ CursorsPass /\ PutToSessionsOnce
  BY DEF HelperInv, AgentInv
<1>2. /\ prompts' = [c \in Tasks |-> prompts[c] + IF c \in Fresh(items) THEN 1 ELSE 0]
      /\ seen' = upTo /\ saved' = IF items # {} THEN seen' ELSE saved
      /\ rewound' = rewound \cup {c \in Tasks : upTo < DispatchPlace(c) /\ DispatchPlace(c) <= seen}
  BY DEF HandleAnswers
<1>3. posts' \subseteq [kind : {"spawn", "abandoned"}, task : Tasks]
  <2>1. PICK joined \in SUBSET Tasks, vanished \in SUBSET Tasks :
          posts' = posts \cup {[kind |-> "spawn", task |-> c] : c \in joined}
                         \cup {[kind |-> "abandoned", task |-> c] : c \in vanished}
    <3> DEFINE isOpen == {c \in Tasks : open[c] # "no"}
               spawning == Fresh(items) \ {c \in isOpen : window[c] = "up"}
               joins == {c \in hooks \ spawning : open[c] = "waiting"}
               closed == (isOpen \cup spawning) \cap ended
               lost == LostTasks((isOpen \ closed) \ spawning)
    <3>1. joins \in SUBSET Tasks /\ lost \in SUBSET Tasks
      BY DEF LostTasks
    <3>2. posts' = posts \cup {[kind |-> "spawn", task |-> c] : c \in joins}
                         \cup {[kind |-> "abandoned", task |-> c] : c \in lost}
      BY DEF HandleAnswers
    <3> HIDE DEF joins, lost
    <3> QED
      BY <3>1, <3>2
  <2> QED
    BY <1>1, <2>1 DEF HelperTypes
<1>4. HelperTypes'
  <2>1. prompts' \in [Tasks -> Nat] /\ seen' \in Nat /\ saved' \in Nat
    BY <1>1, <1>2 DEF HelperTypes
  <2>2. poll' \in [Polls -> PollRecord]
    BY <1>1 DEF HelperTypes, NoPoll, PollRecord
  <2> QED
    BY <1>1, <1>3, <2>1, <2>2 DEF HelperTypes, watcherVars
<1>5. ASSUME NEW c \in Tasks, c \notin rewound'
      PROVE  /\ prompts'[c] <= 1
             /\ prompts'[c] > 0 =>
                  \E i \in 1..Len(log) : log[i] = [kind |-> "dispatch", task |-> c] /\ i <= seen' /\ i <= saved'
  <2>1. c \notin rewound /\ prompts[c] \in Nat /\ prompts[c] <= 1 /\ seen \in Nat /\ saved \in Nat
    BY <1>1, <1>2, <1>5 DEF HelperTypes, PutToSessionsOnce
  <2>2. CASE c \in Fresh(items)
    <3>1. c \in items /\ DispatchPlace(c) > seen
      BY <2>2 DEF Fresh
    <3>2. PICK i \in 1..Len(log) : log[i] = [kind |-> "dispatch", task |-> c] /\ i <= upTo
      BY <3>1
    <3>3. DispatchPlace(c) = i
      BY <1>1, <3>2, DispatchPlaceIs
    <3>4. prompts[c] = 0
      <4> SUFFICES ASSUME prompts[c] > 0 PROVE FALSE
        BY <2>1
      <4>1. PICK j \in 1..Len(log) : log[j] = [kind |-> "dispatch", task |-> c] /\ j <= seen
        BY <1>1, <2>1 DEF CursorsPass
      <4>2. DispatchPlace(c) = j
        BY <1>1, <4>1, DispatchPlaceIs
      <4> QED
        BY <2>1, <3>1, <4>1, <4>2
    <3>5. prompts'[c] = 1 /\ seen' = upTo /\ saved' = upTo
      BY <1>2, <2>2, <3>1, <3>4
    <3> QED
      BY <3>2, <3>5
  <2>3. CASE c \notin Fresh(items)
    <3>1. prompts'[c] = prompts[c]
      BY <1>2, <2>1, <2>3
    <3>2. ASSUME prompts[c] > 0
          PROVE  \E i \in 1..Len(log) : log[i] = [kind |-> "dispatch", task |-> c] /\ i <= seen' /\ i <= saved'
      <4>1. PICK i \in 1..Len(log) : log[i] = [kind |-> "dispatch", task |-> c] /\ i <= seen /\ i <= saved
        BY <1>1, <2>1, <3>2 DEF CursorsPass
      <4>2. DispatchPlace(c) = i
        BY <1>1, <4>1, DispatchPlaceIs
      <4>3. ~(upTo < i)
        BY <1>2, <1>5, <4>1, <4>2
      <4>4. i <= upTo
        BY <4>3
      <4> QED
        BY <1>2, <4>1, <4>4
    <3> QED
      BY <2>1, <3>1, <3>2
  <2> QED
    BY <2>2, <2>3
<1>6. AgentInv'
  BY <1>1, <1>5 DEF AgentInv, OneDispatch, CursorsPass, PutToSessionsOnce
<1>7. WatcherInv'
  BY <1>1, WatcherStays DEF watcherVars
<1> QED
  BY <1>4, <1>6, <1>7 DEF HelperInv

\* The cursor that comes with a read of the inbox lies behind all that comes with it.
LEMMA InboxIsBehindCursor ==
  ASSUME HelperInv, NEW since \in Nat, NEW n \in 0..Len(log)
  PROVE  /\ Latest(since, n) \in Nat /\ Pending(since, n) \in SUBSET Tasks
         /\ \A c \in Pending(since, n) :
              \E i \in 1..Len(log) : log[i] = [kind |-> "dispatch", task |-> c] /\ i <= Latest(since, n)
<1> DEFINE found == {i \in 1..n : log[i].kind = "dispatch" /\ i >= since}
           S == {since} \cup found
<1>1. log \in Seq(Rows) /\ Len(log) \in Nat /\ n \in Nat
  BY DEF HelperInv, HelperTypes
<1>2. since + n \in Nat /\ S \in SUBSET (0..(since + n))
  BY <1>1
<1>3. Top(S) \in Nat /\ \A y \in S : y <= Top(S)
  <2>1. PICK m \in Nat : m = since + n /\ S \in SUBSET (0..m)
    BY <1>2
  <2> HIDE DEF S
  <2>2. Top(S) \in 0..m /\ \A y \in S : y <= Top(S)
    BY <2>1, TopOf
  <2> QED
    BY <2>1, <2>2
<1>4. ASSUME NEW c \in Pending(since, n)
      PROVE  \E i \in 1..Len(log) : log[i] = [kind |-> "dispatch", task |-> c] /\ i <= Top(S)
  <2>1. PICK i \in 1..n : log[i].kind = "dispatch" /\ log[i].task = c /\ i >= since
    BY <1>4 DEF Pending, Places
  <2>2. i \in S /\ i \in 1..Len(log)
    BY <1>1, <2>1
  <2>3. log[i] \in Rows
    BY <1>1, <2>2
  <2>4. log[i] = [kind |-> "dispatch", task |-> c]
    BY <2>1, <2>3 DEF Rows
  <2> QED
    BY <1>3, <2>2, <2>4
<1> HIDE DEF S
<1>5. Latest(since, n) = Top(S)
  BY DEF Latest, S
<1> QED
  BY <1>3, <1>4, <1>5 DEF Pending

LEMMA PollSteps ==
  ASSUME HelperInv, NEW p \in Polls,
         \/ PollStart(p) \/ PollFails(p) \/ PollTurnBlind(p)
         \/ \E aged \in SUBSET Tasks : PollTurn(p, aged)
  PROVE  HelperInv'
<1>1. /\ HelperTypes /\ AgentInv /\ WatcherInv /\ Len(log) \in Nat /\ seen \in Nat
      /\ poll[p] \in PollRecord /\ poll[p].since \in Nat /\ poll[p].floor \in Nat
  BY DEF HelperInv, HelperTypes, PollRecord
<1>2. CASE PollStart(p) \/ PollFails(p)
  <2>1. UNCHANGED <<log, seen, saved, prompts, rewound, posts, watcher, minted, wakes, spoilt>>
    BY <1>2 DEF PollStart, PollFails, watcherVars
  <2>a. PICK record \in PollRecord : poll' = [poll EXCEPT ![p] = record]
    <3>1. NoPoll \in PollRecord /\ [on |-> TRUE, since |-> seen, floor |-> Len(log)] \in PollRecord
      BY <1>1 DEF NoPoll, PollRecord
    <3> QED
      BY <1>2, <3>1 DEF PollStart, PollFails
  <2>2. poll' \in [Polls -> PollRecord]
    BY <1>1, <2>a DEF HelperTypes
  <2>3. HelperTypes'
    BY <1>1, <2>1, <2>2 DEF HelperTypes
  <2> QED
    BY <1>1, <2>1, <2>3, AgentStays, WatcherStays DEF HelperInv
<1>3. ASSUME NEW aged \in SUBSET Tasks, PollTurn(p, aged) PROVE HelperInv'
  <2>1. PICK i \in Since(p), ended \in Reads(p, Ends), hooks \in Reads(p, {"hook"}) :
          HandleAnswers(Pending(poll[p].since, i), Latest(poll[p].since, i), ended, hooks, aged)
    BY <1>3 DEF PollTurn
  <2>2. i \in 0..Len(log) /\ hooks \in SUBSET Tasks
    BY <1>1 DEF Since, Reads
  <2>3. spoilt \subseteq spoilt' /\ UNCHANGED <<log, watcherVars>> /\ poll' = [poll EXCEPT ![p] = NoPoll]
    BY <1>3, SpoilGrows DEF PollTurn
  <2>4. PICK items \in SUBSET Tasks, upTo \in Nat :
          /\ HandleAnswers(items, upTo, ended, hooks, aged)
          /\ \A c \in items : \E j \in 1..Len(log) : log[j] = [kind |-> "dispatch", task |-> c] /\ j <= upTo
    <3> DEFINE items == Pending(poll[p].since, i)
               upTo == Latest(poll[p].since, i)
    <3>1. /\ upTo \in Nat /\ items \in SUBSET Tasks
          /\ \A c \in items : \E j \in 1..Len(log) : log[j] = [kind |-> "dispatch", task |-> c] /\ j <= upTo
      BY <1>1, <2>2, InboxIsBehindCursor
    <3>2. HandleAnswers(items, upTo, ended, hooks, aged)
      BY <2>1
    <3> HIDE DEF items, upTo
    <3> QED
      BY <3>1, <3>2
  <2> QED
    BY <2>2, <2>3, <2>4, HandlingIsSound
<1>4. CASE PollTurnBlind(p)
  <2>1. PICK upTo \in {poll[p].since, seen}, ended \in Reads(p, Ends), hooks \in Reads(p, {"hook"}) :
          HandleAnswers({}, upTo, ended, hooks, {})
    BY <1>4 DEF PollTurnBlind
  <2>2. upTo \in Nat /\ hooks \in SUBSET Tasks
    BY <1>1 DEF Reads
  <2>3. spoilt \subseteq spoilt' /\ UNCHANGED <<log, watcherVars>> /\ poll' = [poll EXCEPT ![p] = NoPoll]
    BY <1>4, SpoilGrows DEF PollTurnBlind
  <2>4. PICK items \in SUBSET Tasks, aged \in SUBSET Tasks : items = {} /\ HandleAnswers(items, upTo, ended, hooks, aged)
    BY <2>1
  <2>5. \A c \in items : \E j \in 1..Len(log) : log[j] = [kind |-> "dispatch", task |-> c] /\ j <= upTo
    BY <2>4
  <2> QED
    BY <2>2, <2>3, <2>4, <2>5, HandlingIsSound
<1> QED
  BY <1>2, <1>3, <1>4

LEMMA PostSteps ==
  ASSUME HelperInv, (\E r \in posts : PostLands(r) \/ PostFails(r)) \/ AgentRestart
  PROVE  HelperInv'
<1>1. HelperTypes /\ AgentInv /\ WatcherInv
  BY DEF HelperInv
<1>2. ASSUME NEW r \in posts, PostLands(r) PROVE HelperInv'
  <2>1. r.kind \in RowKinds /\ r.kind # "dispatch" /\ r.task \in Tasks /\ Append1(r.kind, r.task)
    BY <1>1, <1>2 DEF PostLands, HelperTypes, RowKinds
  <2>2. /\ UNCHANGED <<seen, saved, prompts, rewound, poll, watcher, minted, wakes, spoilt>>
        /\ posts' \subseteq posts
    BY <1>2 DEF PostLands, watcherVars
  <2>3. HelperTypes'
    BY <1>1, <2>1, <2>2, LogGrows DEF HelperTypes
  <2> QED
    BY <1>1, <2>1, <2>2, <2>3, AgentGrows, WatcherGrows DEF HelperInv
<1>3. ASSUME NEW r \in posts, PostFails(r) PROVE HelperInv'
  <2>1. /\ UNCHANGED <<log, seen, saved, prompts, rewound, poll, watcher, minted, wakes>>
        /\ posts' \subseteq posts /\ spoilt \subseteq spoilt'
    BY <1>3, SpoilGrows DEF PostFails, watcherVars
  <2>2. HelperTypes'
    BY <1>1, <2>1 DEF HelperTypes
  <2> QED
    BY <1>1, <2>1, <2>2, AgentStays, WatcherStays DEF HelperInv
<1>4. CASE AgentRestart
  <2>1. /\ UNCHANGED <<log, prompts, rewound, watcher, minted, wakes>>
        /\ posts' = {} /\ spoilt \subseteq spoilt' /\ poll' = [x \in Polls |-> NoPoll]
        /\ seen' \in {seen, IF saved = 0 THEN Len(log) ELSE saved} /\ saved' \in {saved, seen}
    BY <1>4, SpoilGrows DEF AgentRestart, watcherVars
  <2>2. Len(log) \in Nat /\ seen \in Nat /\ saved \in Nat
    BY <1>1 DEF HelperTypes
  <2>3. poll' \in [Polls -> PollRecord]
    BY <2>1 DEF NoPoll, PollRecord
  <2>4. HelperTypes'
    BY <1>1, <2>1, <2>2, <2>3 DEF HelperTypes
  <2>5. CursorsPass'
    <3> SUFFICES ASSUME NEW c \in Tasks, prompts[c] > 0, c \notin rewound
                 PROVE  \E i \in 1..Len(log) : log[i] = [kind |-> "dispatch", task |-> c] /\ i <= seen' /\ i <= saved'
      BY <2>1 DEF CursorsPass
    <3>1. PICK i \in 1..Len(log) : log[i] = [kind |-> "dispatch", task |-> c] /\ i <= seen /\ i <= saved
      BY <1>1 DEF AgentInv, CursorsPass
    <3>2. i <= seen' /\ i <= saved'
      BY <2>1, <2>2, <3>1
    <3> QED
      BY <3>1, <3>2
  <2>6. AgentInv'
    BY <1>1, <2>1, <2>5 DEF AgentInv, OneDispatch, PutToSessionsOnce
  <2> QED
    BY <1>1, <2>1, <2>4, <2>6, WatcherStays DEF HelperInv
<1> QED
  BY <1>2, <1>3, <1>4
-----------------------------------------------------------------------------
\* A step of the watcher: the marks do not fall, unless it starts anew.
LEMMA WatcherOnly ==
  ASSUME HelperInv, UNCHANGED <<log, agentVars>>, watcher' \in WatcherRecord, minted' \in [Tasks -> Nat],
         wakes' \in Seq(Nat), WatcherInv'
  PROVE  HelperInv'
<1>1. HelperTypes'
  BY DEF HelperInv, HelperTypes, agentVars
<1>2. AgentInv'
  BY AgentStays DEF HelperInv, agentVars
<1> QED
  BY <1>1, <1>2 DEF HelperInv

\* Rows of a task, and what is on top of them and a mark.
LEMMA TopOfPlaces ==
  ASSUME HelperTypes, NEW S \in SUBSET (1..Len(log)), NEW m \in Nat
  PROVE  Top({m} \cup S) \in Nat /\ m <= Top({m} \cup S) /\ \A i \in S : i <= Top({m} \cup S)
<1>0. Len(log) \in Nat /\ \A y \in S : y \in 1..Len(log)
  BY DEF HelperTypes
<1> DEFINE T == {m} \cup S
<1>1. m + Len(log) \in Nat /\ \A y \in T : y \in 0..(m + Len(log))
  BY <1>0
<1>2. m \in T /\ S \subseteq T
  OBVIOUS
<1> HIDE DEF T
<1>3. Top(T) \in 0..(m + Len(log)) /\ \A y \in T : y <= Top(T)
  <2>1. PICK n \in Nat : n = m + Len(log)
    BY <1>1
  <2>2. T \in SUBSET (0..n)
    BY <1>1, <2>1
  <2> QED
    BY <2>1, <2>2, TopOf
<1>4. Top(T) \in Nat /\ m <= Top(T) /\ \A i \in S : i <= Top(T)
  BY <1>1, <1>2, <1>3
<1> QED
  BY <1>4 DEF T

\* The watcher has nothing in hand and nothing to close.
Empty(w) == w.hand = 0 /\ \A c \in Tasks : w.closing[c] = 0

LEMMA EmptyOutsideTicks ==
  ASSUME HelperInv, watcher.at # "tick"
  PROVE  Empty(watcher)
BY DEF HelperInv, WatcherInv, HandIsNew, ClosingAreEnds, Empty

LEMMA AsleepIsEmpty == Asleep \in WatcherRecord /\ Empty(Asleep) /\ Asleep.at = "sleep"
BY DEF Asleep, WatcherRecord, Nothing, Empty

\* Steps that leave the watcher with empty hands, and the marks where they are or higher.
LEMMA EmptyHanded ==
  ASSUME HelperInv, UNCHANGED <<log, agentVars, wakes>>, watcher' \in WatcherRecord, Empty(watcher'),
         minted' \in [Tasks -> Nat], \A c \in Tasks : minted[c] <= minted'[c], spoilt \subseteq spoilt',
         watcher.at # "prime" \/ watcher'.at = "prime"
  PROVE  HelperInv'
<1>1. HelperTypes /\ WatcherInv
  BY DEF HelperInv
<1>2. HandIsNew' /\ ClosingAreEnds'
  BY DEF HandIsNew, ClosingAreEnds, Empty
<1>3. \A w \in 1..Len(log) : log[w].task \in Tasks
  BY <1>1, RowsAreOfTasks
<1>4. WakesArePast'
  <2> SUFFICES ASSUME NEW i \in 1..Len(wakes)
               PROVE  /\ wakes[i] \in 1..Len(log) /\ log[wakes[i]].kind \in Ends
                      /\ \/ watcher'.at = "prime" \/ wakes[i] <= minted'[log[wakes[i]].task]
                         \/ <<"mint", log[wakes[i]].task>> \in spoilt'
    BY DEF WakesArePast
  <2>1. wakes[i] \in 1..Len(log) /\ log[wakes[i]].kind \in Ends
    BY <1>1 DEF WatcherInv, WakesArePast
  <2>2. CASE wakes[i] <= minted[log[wakes[i]].task]
    <3>1. log[wakes[i]].task \in Tasks
      BY <1>3, <2>1
    <3> DEFINE c == log[wakes[i]].task
    <3>2. minted[c] \in Nat /\ minted'[c] \in Nat /\ wakes[i] \in Nat /\ minted[c] <= minted'[c]
      BY <1>1, <2>1, <3>1 DEF HelperTypes
    <3>3. wakes[i] <= minted'[c]
      BY <2>2, <3>2
    <3> QED
      BY <2>1, <3>3
  <2> QED
    BY <1>1, <2>1, <2>2 DEF WatcherInv, WakesArePast
<1>5. WokenOnce'
  BY <1>1 DEF WatcherInv, WokenOnce
<1> QED
  BY <1>1, <1>2, <1>4, <1>5, WatcherOnly DEF WatcherInv, HelperTypes

\* Once the ends are marked again, all that has woken Fathom lies behind the marks.
LEMMA PrimeEndsStep == HelperInv /\ PrimeEnds => HelperInv'
<1> SUFFICES ASSUME HelperInv, PrimeEnds PROVE HelperInv'
  OBVIOUS
<1>1. HelperTypes /\ WatcherInv /\ Empty(watcher)
  BY EmptyOutsideTicks DEF HelperInv, PrimeEnds
<1>2. /\ minted' = [c \in Tasks |-> Top({minted[c]} \cup Places(Ends, c, Len(log)))]
      /\ UNCHANGED <<log, agentVars, wakes, spoilt>>
  BY DEF PrimeEnds
<1>3. \A c \in Tasks : /\ minted'[c] \in Nat
                       /\ \A i \in Places(Ends, c, Len(log)) : i <= minted'[c]
  <2> TAKE c \in Tasks
  <2>1. Places(Ends, c, Len(log)) \in SUBSET (1..Len(log)) /\ minted[c] \in Nat
    BY <1>1 DEF Places, HelperTypes
  <2> QED
    BY <1>1, <1>2, <2>1, TopOfPlaces
<1>4. watcher' \in WatcherRecord /\ Empty(watcher')
  <2>1. watcher \in WatcherRecord /\ Len(log) \in Nat
    BY <1>1 DEF HelperTypes
  <2>2. watcher' = [watcher EXCEPT !.at = "primeSpawns", !.floor = Len(log)]
    BY DEF PrimeEnds
  <2>3. watcher' \in WatcherRecord /\ watcher'.hand = watcher.hand /\ watcher'.closing = watcher.closing
    BY <2>1, <2>2 DEF WatcherRecord
  <2> QED
    BY <1>1, <2>3 DEF Empty
<1>5. HandIsNew' /\ ClosingAreEnds'
  BY <1>4 DEF HandIsNew, ClosingAreEnds, Empty
<1>6. WakesArePast'
  <2> SUFFICES ASSUME NEW i \in 1..Len(wakes)
               PROVE  wakes[i] \in 1..Len(log) /\ log[wakes[i]].kind \in Ends /\ wakes[i] <= minted'[log[wakes[i]].task]
    BY <1>2 DEF WakesArePast
  <2>1. wakes[i] \in 1..Len(log) /\ log[wakes[i]].kind \in Ends
    BY <1>1 DEF WatcherInv, WakesArePast
  <2>2. log[wakes[i]].task \in Tasks
    BY <1>1, <2>1, RowsAreOfTasks
  <2>3. wakes[i] \in Places(Ends, log[wakes[i]].task, Len(log))
    BY <2>1 DEF Places
  <2> QED
    BY <1>3, <2>1, <2>2, <2>3
<1>7. WokenOnce'
  BY <1>1, <1>2 DEF WatcherInv, WokenOnce
<1>8. minted' \in [Tasks -> Nat]
  BY <1>2, <1>3
<1> QED
  BY <1>1, <1>2, <1>4, <1>5, <1>6, <1>7, <1>8, WatcherOnly DEF WatcherInv, HelperTypes

\* The steps of priming and sleeping, failed gathers and a restart.
LEMMA IdleSteps ==
  ASSUME HelperInv,
         \/ PrimeSpawns \/ PrimeFails \/ TickStart \/ GatherFails \/ TickDone \/ WatcherRestart
  PROVE  HelperInv'
<1>1. HelperTypes /\ WatcherInv
  BY DEF HelperInv
<1>2. watcher' \in WatcherRecord /\ Empty(watcher')
  <2>1. CASE PrimeFails
    <3>1. Empty(watcher)
      BY <2>1, EmptyOutsideTicks DEF PrimeFails
    <3> QED
      BY <1>1, <2>1, <3>1 DEF PrimeFails, HelperTypes, WatcherRecord, Empty
  <2>2. CASE TickStart
    <3>1. Len(log) \in Nat
      BY <1>1 DEF HelperTypes
    <3> QED
      BY <2>2, <3>1, AsleepIsEmpty DEF TickStart, Watch, WatcherRecord, Empty
  <2>3. CASE PrimeSpawns \/ GatherFails \/ TickDone
    BY <2>3, AsleepIsEmpty DEF PrimeSpawns, GatherFails, TickDone, Watch
  <2>4. CASE WatcherRestart
    BY <2>4, AsleepIsEmpty DEF WatcherRestart, WatcherRecord, Empty
  <2> QED
    BY <2>1, <2>2, <2>3, <2>4
<1>3. UNCHANGED <<log, agentVars, wakes>> /\ spoilt \subseteq spoilt'
  BY SpoilGrows DEF PrimeSpawns, PrimeFails, TickStart, GatherFails, TickDone, WatcherRestart, Watch
<1>4. CASE WatcherRestart
  <2>1. watcher'.at = "prime" /\ minted' = [c \in Tasks |-> 0]
    BY <1>4, AsleepIsEmpty DEF WatcherRestart, WatcherRecord
  <2>2. HandIsNew' /\ ClosingAreEnds'
    BY <1>2 DEF HandIsNew, ClosingAreEnds, Empty
  <2>3. WakesArePast' /\ WokenOnce'
    BY <1>1, <1>3, <2>1 DEF WatcherInv, WakesArePast, WokenOnce
  <2> QED
    BY <1>1, <1>2, <1>3, <2>1, <2>2, <2>3, WatcherOnly DEF WatcherInv, HelperTypes
<1>5. CASE PrimeSpawns
  <2>1. watcher.at # "prime" /\ watcher.floor \in Nat
    BY <1>1, <1>5 DEF PrimeSpawns, HelperTypes, WatcherRecord
  <2>2. minted' \in [Tasks -> Nat] /\ \A c \in Tasks : minted[c] <= minted'[c]
    BY <1>1, <1>5, <2>1 DEF PrimeSpawns, HelperTypes
  <2> QED
    BY <1>2, <1>3, <2>1, <2>2, EmptyHanded
<1>6. CASE PrimeFails \/ TickStart \/ GatherFails \/ TickDone
  <2>1. minted' = minted /\ (watcher.at # "prime" \/ watcher'.at = "prime")
    BY <1>6 DEF PrimeFails, TickStart, GatherFails, TickDone, Watch
  <2>2. minted' \in [Tasks -> Nat] /\ \A c \in Tasks : minted[c] <= minted'[c]
    BY <1>1, <2>1 DEF HelperTypes
  <2> QED
    BY <1>2, <1>3, <2>1, <2>2, EmptyHanded
<1> QED
  BY <1>4, <1>5, <1>6

\* What the watcher has gathered for closing are ends of their tasks.
LEMMA GatheredStep == HelperInv /\ Gathered => HelperInv'
<1> SUFFICES ASSUME HelperInv, Gathered PROVE HelperInv'
  OBVIOUS
<1>1. HelperTypes /\ WatcherInv /\ Empty(watcher) /\ watcher.at = "gather"
  BY EmptyOutsideTicks DEF HelperInv, Gathered
<1>2. PICK spawns \in watcher.floor..Len(log), completes \in watcher.floor..Len(log), abandons \in watcher.floor..Len(log) :
        LET joined == {c \in Tasks : Places({"spawn"}, c, spawns) # {}}
            end(c) == Closure(c, completes, abandons)
        IN  Watch(IF joined = {} THEN Asleep
                  ELSE [Asleep EXCEPT !.at = "tick", !.active = {c \in joined : end(c) = 0},
                         !.closing = [c \in Tasks |-> IF c \in joined THEN end(c) ELSE 0]])
  BY Zenon DEF Gathered
<1> DEFINE joined == {c \in Tasks : Places({"spawn"}, c, spawns) # {}}
           active == {c \in joined : Closure(c, completes, abandons) = 0}
           closing == [c \in Tasks |-> IF c \in joined THEN Closure(c, completes, abandons) ELSE 0]
<1>3. UNCHANGED <<log, agentVars, minted, wakes, spoilt>>
  BY <1>2 DEF Watch
<1>4. CASE joined = {}
  <2>1. watcher' = Asleep
    BY <1>2, <1>4 DEF Watch
  <2>2. minted' \in [Tasks -> Nat] /\ \A c \in Tasks : minted[c] <= minted'[c]
    BY <1>1, <1>3 DEF HelperTypes
  <2> QED
    BY <1>1, <1>3, <2>1, <2>2, AsleepIsEmpty, EmptyHanded
<1>5. CASE joined # {}
  <2>1. watcher' = [Asleep EXCEPT !.at = "tick", !.active = active, !.closing = closing]
    BY <1>2, <1>5 DEF Watch
  <2>2. ASSUME NEW c \in Tasks
        PROVE  /\ closing[c] \in Nat
               /\ closing[c] # 0 => closing[c] \in 1..Len(log) /\ log[closing[c]].kind \in Ends /\ log[closing[c]].task = c
    <3> DEFINE S == Places(Ends, c, completes) \cup Places({"abandoned"}, c, abandons)
    <3>1. Len(log) \in Nat /\ completes \in 0..Len(log) /\ abandons \in 0..Len(log)
      BY <1>1 DEF HelperTypes, WatcherRecord
    <3>2. \A i \in S : i \in 1..Len(log) /\ log[i].kind \in Ends /\ log[i].task = c
      BY <3>1 DEF Places, Ends
    <3> HIDE DEF S
    <3>3. S \in SUBSET (0..Len(log))
      BY <3>1, <3>2
    <3>4. Top(S) \in 0..Len(log) /\ (S # {} => Top(S) \in S)
      BY <3>1, <3>3, TopOf
    <3>5. S = {} => Top(S) = 0
      BY DEF Top
    <3>6. closing[c] = Top(S) \/ closing[c] = 0
      BY DEF Closure, S
    <3> HIDE DEF closing
    <3> QED
      BY <3>1, <3>2, <3>4, <3>5, <3>6, SMTT(30)
  <2>3. closing \in [Tasks -> Nat] /\ active \in SUBSET Tasks
    <3>1. closing = [c \in Tasks |-> closing[c]]
      OBVIOUS
    <3>2. active \in SUBSET Tasks
      OBVIOUS
    <3> HIDE DEF closing, active
    <3> QED
      BY <2>2, <3>1, <3>2
  <2> HIDE DEF closing, active, joined
  <2>4. watcher' \in WatcherRecord /\ watcher'.at = "tick" /\ watcher'.hand = 0 /\ watcher'.closing = closing
    BY <2>1, <2>3 DEF WatcherRecord, Asleep
  <2>5. HandIsNew' /\ ClosingAreEnds'
    BY <1>3, <2>2, <2>4 DEF HandIsNew, ClosingAreEnds
  <2>6. WakesArePast' /\ WokenOnce'
    BY <1>1, <1>3 DEF WatcherInv, WakesArePast, WokenOnce
  <2> QED
    BY <1>1, <1>3, <2>4, <2>5, <2>6, WatcherOnly DEF WatcherInv, HelperTypes
<1> QED
  BY <1>4, <1>5

LEMMA ActiveSteps ==
  ASSUME HelperInv, NEW c \in Tasks, WatchActive(c) \/ WatchActiveFails(c)
  PROVE  HelperInv'
<1>1. HelperTypes /\ WatcherInv /\ watcher \in WatcherRecord /\ minted \in [Tasks -> Nat]
  BY DEF HelperInv, HelperTypes
<1>2. /\ UNCHANGED <<log, agentVars, wakes, spoilt>>
      /\ watcher' = [watcher EXCEPT !.active = @ \ {c}]
  BY DEF WatchActive, WatchActiveFails
<1>3. /\ watcher' \in WatcherRecord /\ watcher'.hand = watcher.hand /\ watcher'.closing = watcher.closing
      /\ watcher'.at = watcher.at
  BY <1>1, <1>2 DEF WatcherRecord
<1>4. minted' \in [Tasks -> Nat] /\ \A d \in Tasks : minted[d] <= minted'[d]
  <2>1. CASE WatchActive(c)
    <3>1. Replies(c) \in SUBSET (1..Len(log))
      BY DEF Replies, Places
    <3>2. minted' = [minted EXCEPT ![c] = Top({minted[c]} \cup Replies(c))]
      BY <2>1 DEF WatchActive
    <3>3. Top({minted[c]} \cup Replies(c)) \in Nat /\ minted[c] <= Top({minted[c]} \cup Replies(c))
      BY <1>1, <3>1, TopOfPlaces
    <3>4. PICK top \in Nat : minted[c] <= top /\ minted' = [minted EXCEPT ![c] = top]
      BY <3>2, <3>3
    <3> QED
      BY <1>1, <3>4
  <2>2. CASE WatchActiveFails(c)
    BY <1>1, <2>2 DEF WatchActiveFails
  <2> QED
    BY <2>1, <2>2
<1>5. \A w \in 1..Len(log) : log[w].task \in Tasks /\ w \in Nat
  BY <1>1, RowsAreOfTasks
<1>6. \A w \in 1..Len(log) : w <= minted[log[w].task] => w <= minted'[log[w].task]
  <2> SUFFICES ASSUME NEW w \in 1..Len(log), w <= minted[log[w].task] PROVE w <= minted'[log[w].task]
    OBVIOUS
  <2>1. PICK d \in Tasks : d = log[w].task
    BY <1>5
  <2>2. w \in Nat /\ minted[d] \in Nat /\ minted'[d] \in Nat /\ minted[d] <= minted'[d] /\ w <= minted[d]
    BY <1>1, <1>4, <1>5, <2>1
  <2>3. w <= minted'[d]
    BY <2>2
  <2> QED
    BY <2>1, <2>3
<1>7. WakesArePast'
  BY <1>1, <1>2, <1>3, <1>6 DEF WatcherInv, WakesArePast
<1>8. HandIsNew'
  BY <1>1, <1>2, <1>3, <1>6 DEF WatcherInv, HandIsNew
<1>9. ClosingAreEnds' /\ WokenOnce'
  BY <1>1, <1>2, <1>3 DEF WatcherInv, ClosingAreEnds, WokenOnce
<1> QED
  BY <1>1, <1>2, <1>3, <1>4, <1>7, <1>8, <1>9, WatcherOnly DEF WatcherInv, HelperTypes

\* An end that lies above the mark has not woken Fathom yet, and is marked when it is
\* taken in hand.
LEMMA ClosingSteps ==
  ASSUME HelperInv, NEW c \in Tasks, NEW ok \in BOOLEAN, WatchClosing(c, ok)
  PROVE  HelperInv'
<1>1. HelperTypes /\ WatcherInv /\ watcher \in WatcherRecord /\ minted \in [Tasks -> Nat]
  BY DEF HelperInv, HelperTypes
<1> DEFINE end == watcher.closing[c]
           shut == [watcher.closing EXCEPT ![c] = 0]
<1>2. /\ watcher.hand = 0 /\ end # 0 /\ watcher.at = "tick" /\ end \in 1..Len(log) /\ end \in Nat
      /\ log[end].kind \in Ends /\ log[end].task = c
  <2>1. watcher.hand = 0 /\ end # 0
    BY DEF WatchClosing
  <2>2. end \in 1..Len(log)
    BY <1>1, <2>1 DEF WatcherInv, ClosingAreEnds
  <2> QED
    BY <1>1, <2>1, <2>2 DEF WatcherInv, ClosingAreEnds
<1>3. UNCHANGED <<log, agentVars, wakes>>
  BY DEF WatchClosing
<1>4. shut \in [Tasks -> Nat] /\ shut[c] = 0 /\ \A d \in Tasks : shut[d] # 0 => shut[d] = watcher.closing[d]
  BY <1>1 DEF WatcherRecord
<1> DEFINE Takes == IsNew(c) /\ log[watcher.closing[c]].kind # "blank"
<1>m. minted' = minted \/ (minted[c] < end /\ minted' = [minted EXCEPT ![c] = end])
  BY DEF WatchClosing, IsNew
<1>n. minted' \in [Tasks -> Nat] /\ \A d \in Tasks : minted[d] <= minted'[d]
  <2> HIDE DEF end
  <2>1. CASE minted' = minted
    BY <1>1, <2>1
  <2>2. CASE minted[c] < end /\ minted' = [minted EXCEPT ![c] = end]
    BY <1>1, <1>2, <2>2
  <2> QED
    BY <1>m, <2>1, <2>2
<1>o. \A w \in 1..Len(log) : w <= minted[log[w].task] => w <= minted'[log[w].task]
  <2> SUFFICES ASSUME NEW w \in 1..Len(log), w <= minted[log[w].task] PROVE w <= minted'[log[w].task]
    OBVIOUS
  <2>1. PICK d \in Tasks : d = log[w].task
    BY <1>1, RowsAreOfTasks
  <2>2. w \in Nat /\ minted[d] \in Nat /\ minted'[d] \in Nat /\ minted[d] <= minted'[d] /\ w <= minted[d]
    BY <1>1, <1>n, <2>1
  <2>3. w <= minted'[d]
    BY <2>2
  <2> QED
    BY <2>1, <2>3
<1>5. CASE ~Takes
  <2>1. watcher' = [watcher EXCEPT !.closing[c] = 0] /\ UNCHANGED spoilt
    BY <1>5 DEF WatchClosing
  <2>2. watcher' = [watcher EXCEPT !.closing = shut]
    BY <2>1
  <2> HIDE DEF shut
  <2>3. watcher' \in WatcherRecord /\ watcher'.hand = 0 /\ watcher'.closing = shut /\ watcher'.at = "tick"
    BY <1>1, <1>2, <1>4, <2>2 DEF WatcherRecord
  <2>4. HandIsNew'
    BY <2>3 DEF HandIsNew
  <2>5. ClosingAreEnds'
    BY <1>1, <1>3, <1>4, <2>3 DEF WatcherInv, ClosingAreEnds
  <2>6. WokenOnce'
    BY <1>1, <1>3, <2>1 DEF WatcherInv, WokenOnce
  <2>7. WakesArePast'
    BY <1>1, <1>2, <1>3, <1>o, <2>1, <2>3 DEF WatcherInv, WakesArePast
  <2> QED
    BY <1>1, <1>3, <1>n, <2>1, <2>3, <2>4, <2>5, <2>6, <2>7, WatcherOnly DEF WatcherInv, HelperTypes
<1>6. CASE Takes
  <2>1. /\ minted[c] < end
        /\ Spoil(ok, {<<"mint", c>>})
        /\ minted' = IF ok THEN [minted EXCEPT ![c] = end] ELSE minted
        /\ watcher' = [watcher EXCEPT !.closing[c] = 0, !.hand = end]
    BY <1>6 DEF WatchClosing, IsNew, AfterIntent
  <2>2. watcher' = [watcher EXCEPT !.closing = shut, !.hand = end]
    BY <2>1
  <2>3. spoilt \subseteq spoilt' /\ (~ok => <<"mint", c>> \in spoilt')
    BY <2>1 DEF Spoil
  <2> HIDE DEF shut, end
  <2>4. watcher' \in WatcherRecord /\ watcher'.hand = end /\ watcher'.closing = shut /\ watcher'.at = "tick"
    BY <1>1, <1>2, <1>4, <2>2 DEF WatcherRecord
  <2>6. ok => minted'[c] = end
    BY <1>1, <2>1
  <2>8. WakesArePast'
    BY <1>1, <1>2, <1>3, <1>o, <2>3, <2>4 DEF WatcherInv, WakesArePast
  <2>9. <<"mint", c>> \in spoilt' \/ (end <= minted'[c] /\ \A i \in 1..Len(wakes) : wakes[i] # end)
    <3>1. CASE ok
      <4>1. end <= minted'[c]
        BY <1>2, <2>6, <3>1
      <4>2. ASSUME NEW i \in 1..Len(wakes), wakes[i] = end PROVE <<"mint", c>> \in spoilt'
        <5>1. watcher.at # "prime" /\ log[wakes[i]].task = c
          BY <1>2, <4>2
        <5>2. wakes[i] <= minted[c] \/ <<"mint", c>> \in spoilt
          BY <1>1, <5>1 DEF WatcherInv, WakesArePast
        <5>3. ~(end <= minted[c])
          <6>1. minted[c] \in Nat
            BY <1>1
          <6> QED
            BY <1>2, <2>1, <6>1
        <5> QED
          BY <2>3, <4>2, <5>2, <5>3
      <4> QED
        BY <4>1, <4>2
    <3>2. CASE ~ok
      BY <2>3, <3>2
    <3> QED
      BY <3>1, <3>2
  <2>10. HandIsNew'
    BY <1>2, <1>3, <2>4, <2>9 DEF HandIsNew
  <2>11. ClosingAreEnds'
    BY <1>1, <1>3, <1>4, <2>4 DEF WatcherInv, ClosingAreEnds
  <2>12. WokenOnce'
    BY <1>1, <1>3, <2>3 DEF WatcherInv, WokenOnce
  <2> QED
    BY <1>1, <1>3, <1>n, <2>4, <2>8, <2>10, <2>11, <2>12, WatcherOnly DEF WatcherInv, HelperTypes
<1> QED
  BY <1>5, <1>6

\* The end in hand wakes Fathom for the first time.
LEMMA AppendSteps ==
  ASSUME HelperInv, NEW ok \in BOOLEAN, WatchAppend(ok)
  PROVE  HelperInv'
<1>1. /\ HelperTypes /\ WatcherInv /\ watcher \in WatcherRecord /\ wakes \in Seq(Nat)
      /\ watcher.hand \in Nat /\ watcher.hand # 0 /\ watcher.at = "tick"
  BY DEF HelperInv, HelperTypes, WatchAppend, WatcherRecord, WatcherInv, HandIsNew
<1> DEFINE end == watcher.hand
<1>2. /\ UNCHANGED <<log, agentVars, minted>> /\ spoilt \subseteq spoilt'
      /\ wakes' = (IF ok THEN Append(wakes, end) ELSE wakes) /\ watcher' = [watcher EXCEPT !.hand = 0]
  BY SpoilGrows DEF WatchAppend
<1>3. /\ end \in 1..Len(log) /\ log[end].kind \in Ends
      /\ \/ <<"mint", log[end].task>> \in spoilt
         \/ end <= minted[log[end].task] /\ \A i \in 1..Len(wakes) : wakes[i] # end
  BY <1>1 DEF WatcherInv, HandIsNew
<1>4. watcher' \in WatcherRecord /\ watcher'.hand = 0 /\ watcher'.closing = watcher.closing /\ watcher'.at = "tick"
  BY <1>1, <1>2 DEF WatcherRecord
<1> HIDE DEF end
<1>5. /\ wakes' \in Seq(Nat) /\ Len(wakes) \in Nat
      /\ \A i \in 1..Len(wakes') : \/ i \in 1..Len(wakes) /\ wakes'[i] = wakes[i]
                                   \/ ok /\ i = Len(wakes) + 1 /\ wakes'[i] = end
  <2>1. end \in Nat /\ Len(wakes) \in Nat
    BY <1>1 DEF end
  <2>2. CASE ok
    BY <1>1, <1>2, <2>1, <2>2
  <2>3. CASE ~ok
    BY <1>1, <1>2, <2>1, <2>3
  <2> QED
    BY <2>2, <2>3
<1>6. WakesArePast'
  <2> SUFFICES ASSUME NEW i \in 1..Len(wakes')
               PROVE  /\ wakes'[i] \in 1..Len(log) /\ log[wakes'[i]].kind \in Ends
                      /\ wakes'[i] <= minted[log[wakes'[i]].task] \/ <<"mint", log[wakes'[i]].task>> \in spoilt
    BY <1>2 DEF WakesArePast
  <2>1. CASE i \in 1..Len(wakes) /\ wakes'[i] = wakes[i]
    BY <1>1, <2>1 DEF WatcherInv, WakesArePast
  <2>2. CASE wakes'[i] = end
    BY <1>3, <2>2
  <2> QED
    BY <1>5, <2>1, <2>2
<1>7. WokenOnce'
  <2> SUFFICES ASSUME NEW i \in 1..Len(wakes'), NEW j \in 1..Len(wakes'), wakes'[i] = wakes'[j],
                      <<"mint", log[wakes'[i]].task>> \notin spoilt
               PROVE  i = j
    BY <1>2 DEF WokenOnce
  <2>1. CASE i \in 1..Len(wakes) /\ j \in 1..Len(wakes) /\ wakes'[i] = wakes[i] /\ wakes'[j] = wakes[j]
    BY <1>1, <2>1 DEF WatcherInv, WokenOnce
  <2>2. CASE i = Len(wakes) + 1 /\ j = Len(wakes) + 1
    BY <2>2
  <2>3. CASE wakes'[i] = end /\ j \in 1..Len(wakes) /\ wakes'[j] = wakes[j]
    BY <1>3, <2>3
  <2>4. CASE wakes'[j] = end /\ i \in 1..Len(wakes) /\ wakes'[i] = wakes[i]
    BY <1>3, <2>4
  <2> QED
    BY <1>5, <2>1, <2>2, <2>3, <2>4
<1>8. HandIsNew' /\ ClosingAreEnds'
  BY <1>1, <1>2, <1>4 DEF HandIsNew, WatcherInv, ClosingAreEnds
<1> QED
  BY <1>1, <1>2, <1>4, <1>5, <1>6, <1>7, <1>8, WatcherOnly DEF WatcherInv, HelperTypes

LEMMA HelpersStep == HelperInv /\ [HelpersNext]_helperVars => HelperInv'
<1> SUFFICES ASSUME HelperInv, [HelpersNext]_helperVars PROVE HelperInv'
  OBVIOUS
<1>1. CASE UNCHANGED helperVars
  <2>1. UNCHANGED <<log, agentVars, watcherVars, spoilt>>
    BY <1>1 DEF helperVars
  <2>2. HelperTypes'
    BY <2>1 DEF HelperInv, HelperTypes, agentVars, watcherVars
  <2> QED
    BY <2>1, <2>2, AgentStays, WatcherStays DEF HelperInv, agentVars, watcherVars
<1>2. CASE Session
  BY <1>2, SessionSteps
<1>3. ASSUME NEW p \in Polls, Agent(p) \/ PollTurnBlind(p) \/ PollFails(p) \/ \E c \in Tasks : PollTurn(p, {c})
      PROVE  HelperInv'
  <2>1. \/ PollStart(p) \/ PollFails(p) \/ PollTurnBlind(p)
        \/ \E aged \in SUBSET Tasks : PollTurn(p, aged)
    BY <1>3 DEF Agent
  <2> QED
    BY <2>1, PollSteps
<1>4. CASE Deliver \/ AgentRestart \/ \E r \in posts : PostFails(r)
  BY <1>4, PostSteps DEF Deliver
<1>5. CASE PrimeEnds \/ Gathered
  BY <1>5, PrimeEndsStep, GatheredStep
<1>6. CASE PrimeSpawns \/ PrimeFails \/ TickStart \/ GatherFails \/ TickDone \/ WatcherRestart
  BY <1>6, IdleSteps
<1>7. ASSUME NEW c \in Tasks, NEW ok \in BOOLEAN, WatchActive(c) \/ WatchActiveFails(c) \/ WatchClosing(c, ok)
      PROVE  HelperInv'
  BY <1>7, ActiveSteps, ClosingSteps
<1>8. ASSUME NEW ok \in BOOLEAN, WatchAppend(ok) PROVE HelperInv'
  BY <1>8, AppendSteps
<1> QED
  BY <1>1, <1>2, <1>3, <1>4, <1>5, <1>6, <1>7, <1>8 DEF HelpersNext, Watcher, Failures

LEMMA HelpersAlways == HelpersSpec => []HelperInv
BY HelpersStart, HelpersStep, PTL DEF HelpersSpec

\* A helper task is put to a session once and wakes Fathom for its end once, over all
\* polls, failed calls and restarts of the agent and the watcher, unless a late poll moved
\* the mark back or the intent of the end could not be written.
THEOREM TasksActOnce == HelpersSpec => []HelpersActOnce
<1>1. HelperInv => HelpersActOnce
  BY DEF HelperInv, AgentInv, WatcherInv, HelpersActOnce
<1> QED
  BY <1>1, HelpersAlways, PTL
-----------------------------------------------------------------------------
(* Routines.                                                                 *)

CallRecord == [pc : Stages, read : Nat, new : Row, fire : Nat, seen : Nat, single : BOOLEAN,
               due : Nat, now : Nat]
FireRecord == [by : Actors, due : Nat, seen : Nat, at : Nat]
Scheduling == call[Cron]

\* What the proofs need of the types: most bounds are not needed.
RoutineTypes ==
  /\ specs \in Seq(Row)
  /\ {clock, boot, lastFire, tickAt} \subseteq Nat /\ tickAt <= clock
  /\ call \in [Actors -> CallRecord]
  /\ \A u \in Users : call[u].pc \notin {"hydrate", "fire", "tomb"}
  /\ fires \in Seq(FireRecord)

\* A tombstone under way follows a live row of the same workspace.
DeletesHaveRead ==
  \A a \in Actors : call[a].pc = "write" /\ call[a].new.deleted =>
    /\ call[a].read \in 1..NewestSpec
    /\ ~specs[call[a].read].deleted /\ specs[call[a].read].ws = call[a].new.ws

\* The scheduler fires for a row there is.
FiresHaveSeen == \A i \in CronFires : fires[i].seen \in 1..NewestSpec

\* What the scheduler knows while it fires: a moment ahead of the last fire, the row that
\* said so, its fire once there is one; what it deletes is no older than what it fired.
SchedulerKnows ==
  /\ Scheduling.pc \in {"fire", "intent", "tick", "row"} =>
       lastFire < Scheduling.due /\ Scheduling.due <= Scheduling.now /\ Scheduling.now <= clock
  /\ Scheduling.pc \in {"fire", "intent", "tick", "row", "tomb"} =>
       Scheduling.seen \in 1..NewestSpec /\ Scheduling.single = specs[Scheduling.seen].single
  /\ Scheduling.pc \in {"tick", "row", "tomb"} =>
       /\ Scheduling.fire \in CronFires
       /\ fires[Scheduling.fire].seen = Scheduling.seen /\ fires[Scheduling.fire].due = Scheduling.due
  /\ Scheduling.pc = "write" =>
       Scheduling.new.deleted /\ \A i \in CronFires : fires[i].seen <= Scheduling.read

\* The fires, but for the one in hand, are no later than the newest tick and the last
\* fire in memory.
TicksCover ==
  \A i \in CronFires : fires[i].due <= tickAt \/ (Scheduling.pc = "tick" /\ Scheduling.fire = i)
LastCovers ==
  Scheduling.pc # "hydrate" =>
    \A i \in CronFires :
      fires[i].due <= lastFire \/ (Scheduling.pc \in {"tick", "row"} /\ Scheduling.fire = i)
MomentsInv == excused \cap {"tick", "cold"} = {} => TicksCover /\ LastCovers

\* A single_fire row that has fired is not the live one, unless the scheduler is about to
\* delete it; and what it is about to fire has not fired.
Spent(i) == specs[fires[i].seen].single
ShotsAreOver ==
  \A i \in CronFires : Spent(i) =>
    \/ fires[i].seen < NewestSpec \/ ~Live \/ Scheduling.pc = "write"
    \/ Scheduling.pc \in {"tick", "row", "tomb"} /\ Scheduling.fire = i
ShotIsNew ==
  Scheduling.pc \in {"fire", "intent"} =>
    \A i \in CronFires : Spent(i) => fires[i].seen # Scheduling.seen
ShotsInv == "tomb" \notin excused => ShotsAreOver /\ ShotIsNew

CronInv == FiresHaveSeen /\ SchedulerKnows /\ MomentsInv /\ ShotsInv /\ FiredOnce
RoutineInv == RoutineTypes /\ DeletesHaveRead /\ CronInv
-----------------------------------------------------------------------------
\* What is due lies ahead of the pivot.
LEMMA NextFireIsAhead ==
  ASSUME NEW cron \in SUBSET (1..MaxTime), NEW pivot \in Int, NEW m \in Nat \ {0},
         NextFire(cron, pivot) = m
  PROVE  pivot < m
<1> DEFINE ahead == {k \in cron : pivot < k /\ k <= pivot + Horizon}
<1>1. ahead # {} /\ m = Min(ahead)
  BY DEF NextFire, None
<1>2. MaxTime \in Nat /\ ahead \in SUBSET (0..MaxTime)
  <2>1. MaxTime \in Nat
    BY RoutinesAssumption, Zenon
  <2>2. \A k \in ahead : k \in 1..MaxTime
    OBVIOUS
  <2> HIDE DEF ahead
  <2>3. \A k \in ahead : k \in 0..MaxTime
    BY <2>1, <2>2
  <2> QED
    BY <2>1, <2>3
<1>3. (\E x \in ahead : \A y \in ahead : x <= y) /\ \A k \in ahead : pivot < k
  BY <1>1, <1>2, HasLeast
<1> HIDE DEF ahead
<1> QED
  BY <1>1, <1>3 DEF Min

LEMMA NoCallIs == NoCall \in CallRecord /\ NoCall.pc = "idle"
<1>1. Blank \in Row
  BY RoutinesAssumption DEF Blank, Row
<1> QED
  BY <1>1 DEF NoCall, CallRecord, Stages, None

LEMMA CallBecomes ==
  ASSUME call \in [Actors -> CallRecord], NEW a \in Actors, NEW c \in CallRecord,
         call' = [call EXCEPT ![a] = c]
  PROVE  /\ call' \in [Actors -> CallRecord] /\ call'[a] = c
         /\ \A b \in Actors : b # a => call'[b] = call[b]
OBVIOUS

LEMMA CallGoes ==
  ASSUME call \in [Actors -> CallRecord], NEW a \in Actors, NEW pc \in Stages, GoesTo(a, pc)
  PROVE  /\ call' \in [Actors -> CallRecord] /\ call'[a] = [call[a] EXCEPT !.pc = pc]
         /\ call[a] \in CallRecord /\ call'[a].pc = pc
         /\ \A b \in Actors : b # a => call'[b] = call[b]
<1>1. call[a] \in CallRecord /\ [call[a] EXCEPT !.pc = pc] \in CallRecord
  BY DEF CallRecord
<1>2. call' = [call EXCEPT ![a] = [call[a] EXCEPT !.pc = pc]]
  BY DEF GoesTo
<1>3. [call[a] EXCEPT !.pc = pc].pc = pc
  BY <1>1 DEF CallRecord
<1> QED
  BY <1>1, <1>2, <1>3

LEMMA ActorsAre == /\ Cron \in Actors /\ \A u \in Users : u \in Actors /\ u # Cron
                   /\ \A a \in Actors : a \in Users \/ a = Cron
BY RoutinesAssumption DEF Actors

\* The log of specifications only grows.
LEMMA SpecsStand ==
  ASSUME RoutineTypes, specs' = specs \/ \E row \in Row : specs' = Append(specs, row)
  PROVE  /\ specs' \in Seq(Row) /\ NewestSpec \in Nat /\ NewestSpec' \in Nat
         /\ NewestSpec <= NewestSpec' /\ (specs' = specs \/ NewestSpec < NewestSpec')
         /\ \A i \in 1..NewestSpec : specs'[i] = specs[i] /\ i \in 1..NewestSpec'
<1>1. specs \in Seq(Row) /\ Len(specs) \in Nat
  BY DEF RoutineTypes
<1>2. CASE specs' = specs
  BY <1>1, <1>2 DEF NewestSpec
<1>3. CASE \E row \in Row : specs' = Append(specs, row)
  <2>1. PICK row \in Row : specs' = Append(specs, row)
    BY <1>3
  <2>2. /\ specs' \in Seq(Row) /\ Len(specs') = Len(specs) + 1
        /\ \A i \in 1..Len(specs) : specs'[i] = specs[i]
    BY <1>1, <2>1
  <2> QED
    BY <1>1, <2>2 DEF NewestSpec
<1> QED
  BY <1>2, <1>3

LEMMA DeletesStand ==
  ASSUME RoutineTypes, DeletesHaveRead, specs' = specs \/ \E row \in Row : specs' = Append(specs, row),
         \A a \in Actors : \/ call'[a] = call[a]
                           \/ ~(call'[a].pc = "write" /\ call'[a].new.deleted)
                           \/ /\ call'[a].read \in 1..NewestSpec
                              /\ ~specs[call'[a].read].deleted /\ specs[call'[a].read].ws = call'[a].new.ws
  PROVE  DeletesHaveRead'
<1> SUFFICES ASSUME NEW a \in Actors, call'[a].pc = "write", call'[a].new.deleted
             PROVE  /\ call'[a].read \in 1..NewestSpec'
                    /\ ~specs'[call'[a].read].deleted /\ specs'[call'[a].read].ws = call'[a].new.ws
  BY DEF DeletesHaveRead
<1>1. /\ call'[a].read \in 1..NewestSpec
      /\ ~specs[call'[a].read].deleted /\ specs[call'[a].read].ws = call'[a].new.ws
  <2>1. CASE call'[a] = call[a]
    BY <2>1 DEF DeletesHaveRead
  <2> QED
    BY <2>1
<1> QED
  BY <1>1, SpecsStand

\* What the fires are like does not depend on their times and on later specifications.
LEMMA FiresStand ==
  ASSUME RoutineTypes, CronInv,
         specs' = specs \/ \E row \in Row : specs' = Append(specs, row),
         CronFires' = CronFires,
         \A i \in CronFires : fires'[i].due = fires[i].due /\ fires'[i].seen = fires[i].seen,
         excused \subseteq excused'
  PROVE  /\ FiresHaveSeen' /\ FiredOnce' /\ \A i \in CronFires : Spent(i)' <=> Spent(i)
<1>1. \A i \in 1..NewestSpec : specs'[i] = specs[i] /\ i \in 1..NewestSpec'
  BY SpecsStand
<1>2. \A i \in CronFires : specs'[fires'[i].seen] = specs[fires[i].seen]
  BY <1>1 DEF CronInv, FiresHaveSeen
<1>3. FiresHaveSeen'
  BY <1>1 DEF CronInv, FiresHaveSeen
<1>4. NoMomentTwice'
  BY DEF CronInv, FiredOnce, NoMomentTwice
<1>5. SingleShot'
  BY <1>2 DEF CronInv, FiredOnce, SingleShot
<1> QED
  BY <1>2, <1>3, <1>4, <1>5 DEF FiredOnce, Spent

\* While the scheduler stands still, what is true of it stays true.
LEMMA CronStands ==
  ASSUME RoutineTypes, RoutineTypes', CronInv,
         specs' = specs \/ \E row \in Row : specs' = Append(specs, row),
         CronFires' = CronFires,
         \A i \in CronFires : fires'[i].due = fires[i].due /\ fires'[i].seen = fires[i].seen,
         Scheduling' = Scheduling, lastFire' = lastFire, tickAt <= tickAt', clock <= clock',
         excused \subseteq excused'
  PROVE  CronInv'
<1> DEFINE c == Scheduling
<1>1. /\ NewestSpec \in Nat /\ NewestSpec' \in Nat /\ NewestSpec <= NewestSpec'
      /\ specs' = specs \/ NewestSpec < NewestSpec'
      /\ \A i \in 1..NewestSpec : specs'[i] = specs[i] /\ i \in 1..NewestSpec'
  BY SpecsStand
<1>2. c \in CallRecord /\ CronFires \subseteq 1..Len(fires)
  BY ActorsAre DEF RoutineTypes, Scheduling, CronFires
<1>3. \A i \in CronFires : fires[i] \in FireRecord
  BY <1>2 DEF RoutineTypes
<1>4. FiresHaveSeen' /\ FiredOnce' /\ \A i \in CronFires : Spent(i)' <=> Spent(i)
  BY FiresStand
<1>5. SchedulerKnows'
  <2>1. c.due \in Nat /\ c.now \in Nat /\ clock \in Nat /\ clock' \in Nat
    BY <1>2 DEF CallRecord, RoutineTypes
  <2>2. c.pc \in {"fire", "intent", "tick", "row"} =>
          lastFire' < c.due /\ c.due <= c.now /\ c.now <= clock'
    BY <2>1 DEF CronInv, SchedulerKnows
  <2>3. c.pc \in {"fire", "intent", "tick", "row", "tomb"} =>
          c.seen \in 1..NewestSpec' /\ c.single = specs'[c.seen].single
    BY <1>1 DEF CronInv, SchedulerKnows
  <2>4. c.pc \in {"tick", "row", "tomb"} =>
          c.fire \in CronFires' /\ fires'[c.fire].seen = c.seen /\ fires'[c.fire].due = c.due
    BY DEF CronInv, SchedulerKnows
  <2>5. c.pc = "write" => c.new.deleted /\ \A i \in CronFires' : fires'[i].seen <= c.read
    BY DEF CronInv, SchedulerKnows
  <2> QED
    BY <2>2, <2>3, <2>4, <2>5 DEF SchedulerKnows
<1>6. MomentsInv'
  <2> SUFFICES ASSUME excused' \cap {"tick", "cold"} = {} PROVE TicksCover' /\ LastCovers'
    BY DEF MomentsInv
  <2>1. TicksCover /\ LastCovers
    BY DEF CronInv, MomentsInv
  <2>2. tickAt \in Nat /\ tickAt' \in Nat /\ \A i \in CronFires : fires[i].due \in Nat
    BY <1>3 DEF RoutineTypes, FireRecord
  <2>3. \A i \in CronFires : fires[i].due <= tickAt => fires'[i].due <= tickAt'
    BY <2>2
  <2> QED
    BY <2>1, <2>3 DEF TicksCover, LastCovers
<1>7. ShotsInv'
  <2> SUFFICES ASSUME "tomb" \notin excused' PROVE ShotsAreOver' /\ ShotIsNew'
    BY DEF ShotsInv
  <2>1. ShotsAreOver /\ ShotIsNew
    BY DEF CronInv, ShotsInv
  <2>2. \A i \in CronFires : fires[i].seen \in 1..NewestSpec /\ (Spent(i)' <=> Spent(i))
    BY <1>4 DEF CronInv, FiresHaveSeen
  <2>3. \A i \in CronFires : fires[i].seen < NewestSpec' \/ (specs' = specs /\ NewestSpec' = NewestSpec)
    BY <1>1, <2>2 DEF NewestSpec
  <2>4. specs' = specs => (Live' <=> Live)
    BY DEF Live, NewestSpec
  <2>5. ShotsAreOver'
    BY <2>1, <2>2, <2>3, <2>4 DEF ShotsAreOver
  <2>6. ShotIsNew'
    BY <2>1, <2>2 DEF ShotIsNew
  <2> QED
    BY <2>5, <2>6
<1> QED
  BY <1>4, <1>5, <1>6, <1>7 DEF CronInv

\* The scheduler comes to rest: its fires are covered, and single shots are over.
LEMMA CronRests ==
  ASSUME RoutineTypes, CronInv, Scheduling'.pc = "idle",
         specs' = specs \/ \E row \in Row : specs' = Append(specs, row),
         UNCHANGED <<fires, tickAt>>, excused \subseteq excused',
         excused' \cap {"tick", "cold"} = {} =>
           \A i \in CronFires : fires[i].due <= lastFire' /\ fires[i].due <= tickAt,
         "tomb" \notin excused' =>
           \A i \in CronFires : Spent(i) => fires[i].seen < NewestSpec' \/ ~Live'
  PROVE  CronInv'
<1>1. CronFires' = CronFires
  BY DEF CronFires
<1>2. FiresHaveSeen' /\ FiredOnce' /\ \A i \in CronFires : Spent(i)' <=> Spent(i)
  BY <1>1, FiresStand
<1>3. SchedulerKnows' /\ MomentsInv'
  BY <1>1 DEF SchedulerKnows, MomentsInv, TicksCover, LastCovers
<1>4. ShotsInv'
  BY <1>1, <1>2 DEF ShotsInv, ShotsAreOver, ShotIsNew
<1> QED
  BY <1>2, <1>3, <1>4 DEF CronInv

\* A tombstone that is dropped as a repetition repeats a later row than the one it
\* followed.
LEMMA RepeatIsLater ==
  ASSUME RoutineTypes, DeletesHaveRead, NEW a \in Actors,
         call[a].pc = "write", call[a].new.deleted, Repeats(call[a].new)
  PROVE  \E k \in (call[a].read + 1)..NewestSpec : specs[k].deleted
<1> DEFINE row == call[a].new
           alike == {i \in 1..Len(specs) : HasTags(specs[i], row.ws)}
           read == call[a].read
<1>1. Len(specs) \in Nat /\ alike \in SUBSET (0..Len(specs)) /\ alike # {}
  BY DEF RoutineTypes, Repeats
<1>2. PICK k \in alike : \A j \in alike : j <= k
  BY <1>1, HasGreatest
<1>3. \A k2 \in alike : (\A j \in alike : j <= k2) => k2 = k
  BY <1>1, <1>2
<1>4. specs[k] = row
  <2>1. specs[CHOOSE i \in alike : \A j \in alike : j <= i] = row
    BY DEF Repeats
  <2> HIDE DEF alike
  <2>2. (CHOOSE i \in alike : \A j \in alike : j <= i) = k
    BY <1>2, <1>3
  <2> QED
    BY <2>1, <2>2
<1>5. read \in 1..NewestSpec /\ ~specs[read].deleted /\ specs[read].ws = row.ws
  BY DEF DeletesHaveRead
<1>6. read \in alike
  BY <1>5 DEF HasTags, NewestSpec
<1>7. read <= k /\ read # k /\ k \in 1..NewestSpec
  BY <1>2, <1>4, <1>5, <1>6 DEF NewestSpec
<1> QED
  BY <1>1, <1>4, <1>5, <1>7, SMTT(30) DEF NewestSpec

LEMMA RoutinesStart == RoutinesInit => RoutineInv
<1> SUFFICES ASSUME RoutinesInit PROVE RoutineInv
  OBVIOUS
<1> DEFINE waking == [NoCall EXCEPT !.pc = "hydrate"]
<1>1. NoCall \in CallRecord /\ waking \in CallRecord /\ waking.pc = "hydrate" /\ NoCall.pc = "idle"
  BY NoCallIs DEF CallRecord, Stages
<1>2. call = [a \in Actors |-> IF a = Cron THEN waking ELSE NoCall]
  BY DEF RoutinesInit
<1> HIDE DEF waking
<1>3. /\ call \in [Actors -> CallRecord] /\ Scheduling.pc = "hydrate"
      /\ \A a \in Actors : call[a].pc \in {"hydrate", "idle"}
      /\ \A u \in Users : call[u].pc = "idle"
  BY <1>1, <1>2, ActorsAre DEF Scheduling
<1>4. fires = << >> /\ specs = << >> /\ CronFires = {} /\ clock = 1 /\ boot = 1 /\ lastFire = 0 /\ tickAt = 0
  BY DEF RoutinesInit, CronFires, None
<1>5. RoutineTypes
  <2>1. specs \in Seq(Row) /\ fires \in Seq(FireRecord)
    BY <1>4
  <2> QED
    BY <1>3, <1>4, <2>1 DEF RoutineTypes
<1>6. DeletesHaveRead
  BY <1>3 DEF DeletesHaveRead
<1>7. FiresHaveSeen /\ SchedulerKnows
  BY <1>3, <1>4 DEF FiresHaveSeen, SchedulerKnows
<1>8. MomentsInv /\ ShotsInv /\ FiredOnce
  BY <1>3, <1>4 DEF MomentsInv, TicksCover, LastCovers, ShotsInv, ShotsAreOver, ShotIsNew,
                    FiredOnce, NoMomentTwice, SingleShot
<1> QED
  BY <1>5, <1>6, <1>7, <1>8 DEF RoutineInv, CronInv
-----------------------------------------------------------------------------
LEMMA WritingIs ==
  ASSUME RoutineTypes, NEW row \in Row
  PROVE  /\ Writing(row) \in CallRecord /\ Writing(row).pc = "write"
         /\ Writing(row).read = NewestSpec /\ Writing(row).new = row
<1>1. NewestSpec \in Nat
  BY DEF NewestSpec, RoutineTypes
<1> QED
  BY <1>1, NoCallIs DEF Writing, CallRecord, Stages

LEMMA TombstoneIs ==
  ASSUME RoutineTypes, Live
  PROVE  /\ Tombstone \in Row /\ Tombstone.deleted /\ Tombstone.ws = specs[NewestSpec].ws
         /\ NewestSpec \in 1..NewestSpec /\ specs[NewestSpec] \in Row /\ ~specs[NewestSpec].deleted
<1>1. NewestSpec \in 1..NewestSpec /\ specs[NewestSpec] \in Row /\ ~specs[NewestSpec].deleted
  BY DEF NewestSpec, RoutineTypes, Live, None
<1>2. "none" \in Bodies
  BY RoutinesAssumption, Zenon
<1> QED
  BY <1>1, <1>2 DEF Tombstone, Row

\* The step of an operator's request that leaves the fires and specifications alone.
LEMMA UserMoves ==
  ASSUME RoutineInv, NEW u \in Users, NEW c \in CallRecord, call' = [call EXCEPT ![u] = c],
         c.pc \notin {"hydrate", "fire", "tomb"},
         c.pc = "write" /\ c.new.deleted =>
           c.read \in 1..NewestSpec /\ ~specs[c.read].deleted /\ specs[c.read].ws = c.new.ws,
         UNCHANGED <<specs, clock, lastFire, boot, tickAt, fires>>, excused \subseteq excused'
  PROVE  RoutineInv'
<1>1. RoutineTypes /\ u \in Actors /\ u # Cron /\ Cron \in Actors
  BY ActorsAre DEF RoutineInv
<1>2. call' \in [Actors -> CallRecord] /\ call'[u] = c /\ \A b \in Actors : b # u => call'[b] = call[b]
  BY <1>1, CallBecomes DEF RoutineTypes
<1>3. RoutineTypes'
  BY <1>1, <1>2, ActorsAre DEF RoutineTypes
<1>4. CronFires' = CronFires
  BY DEF CronFires
<1>5. Scheduling' = Scheduling
  BY <1>1, <1>2 DEF Scheduling
<1>6. CronInv'
  <2>1. tickAt <= tickAt' /\ clock <= clock' 
    BY <1>1 DEF RoutineTypes
  <2> QED
    BY <1>1, <1>3, <1>4, <1>5, <2>1, CronStands DEF RoutineInv
<1>7. DeletesHaveRead'
  BY <1>1, <1>2, DeletesStand DEF RoutineInv
<1> QED
  BY <1>3, <1>6, <1>7 DEF RoutineInv

LEMMA RequestSteps ==
  ASSUME RoutineInv, NEW u \in Users, Request(u)
  PROVE  RoutineInv'
<1>1. RoutineTypes
  BY DEF RoutineInv
<1>2. PICK c \in CallRecord :
        /\ Ask(u, c) /\ c.pc \in {"write", "intent"}
        /\ c.pc = "write" /\ c.new.deleted =>
             c.read \in 1..NewestSpec /\ ~specs[c.read].deleted /\ specs[c.read].ws = c.new.ws
  <2>1. CASE \E form \in Forms : Create(u, form)
    <3>1. PICK form \in Forms : Ask(u, Writing(form))
      BY <2>1 DEF Create
    <3>2. form \in Row /\ ~form.deleted
      BY RoutinesAssumption, Zenon
    <3> QED
      BY <1>1, <3>1, <3>2, WritingIs
  <2>2. CASE \E patch \in Patches : Update(u, patch)
    <3>1. PICK patch \in Patches : Live /\ Ask(u, Writing(Merge(patch, specs[NewestSpec])))
      BY <2>2 DEF Update
    <3>2. specs[NewestSpec] \in Row /\ ~specs[NewestSpec].deleted
      BY <1>1, <3>1, TombstoneIs
    <3>3. Merge(patch, specs[NewestSpec]) \in Row /\ ~Merge(patch, specs[NewestSpec]).deleted
      BY <3>2, RoutinesAssumption, Zenon
    <3> QED
      BY <1>1, <3>1, <3>3, WritingIs
  <2>3. CASE Delete(u)
    <3>1. Live /\ Ask(u, Writing(Tombstone))
      BY <2>3 DEF Delete
    <3> QED
      BY <1>1, <3>1, WritingIs, TombstoneIs
  <2>4. CASE FireNow(u)
    <3> DEFINE c == [NoCall EXCEPT !.pc = "intent", !.read = NewestSpec]
    <3>1. Ask(u, c)
      BY <2>4 DEF FireNow
    <3>2. NewestSpec \in Nat
      BY <1>1 DEF NewestSpec, RoutineTypes
    <3>3. c \in CallRecord /\ c.pc = "intent"
      BY <3>2, NoCallIs DEF CallRecord, Stages
    <3> HIDE DEF c
    <3> QED
      BY <3>1, <3>3
  <2> QED
    BY <2>1, <2>2, <2>3, <2>4 DEF Request
<1>3. /\ call' = [call EXCEPT ![u] = c]
      /\ UNCHANGED <<specs, clock, lastFire, boot, tickAt, fires>> /\ excused \subseteq excused'
  BY <1>2 DEF Ask
<1> QED
  BY <1>2, <1>3, UserMoves
-----------------------------------------------------------------------------
LEMMA WriteSteps ==
  ASSUME RoutineInv, NEW a \in Actors, WriteSpec(a)
  PROVE  RoutineInv'
<1>1. RoutineTypes /\ DeletesHaveRead /\ CronInv /\ call[a] \in CallRecord /\ call[a].pc = "write"
  BY DEF RoutineInv, RoutineTypes, WriteSpec
<1>2. \/ specs' = specs /\ Repeats(call[a].new)
      \/ specs' = Append(specs, call[a].new)
  BY DEF WriteSpec
<1>3. call[a].new \in Row
  BY <1>1 DEF CallRecord
<1>4. specs' = specs \/ \E row \in Row : specs' = Append(specs, row)
  BY <1>2, <1>3
<1>5. UNCHANGED <<clock, lastFire, boot, tickAt, fires, excused>> /\ call' = [call EXCEPT ![a] = NoCall]
  BY DEF WriteSpec, Done, history
<1>6. /\ call' \in [Actors -> CallRecord] /\ call'[a].pc = "idle"
      /\ \A b \in Actors : b # a => call'[b] = call[b]
  BY <1>1, <1>5, NoCallIs, CallBecomes DEF RoutineTypes
<1>7. RoutineTypes'
  BY <1>1, <1>4, <1>5, <1>6, ActorsAre, SpecsStand DEF RoutineTypes
<1>8. DeletesHaveRead'
  BY <1>1, <1>4, <1>6, DeletesStand
<1>9. CASE a # Cron
  <2>1. Scheduling' = Scheduling /\ CronFires' = CronFires
    BY <1>5, <1>6, <1>9, ActorsAre DEF Scheduling, CronFires
  <2>2. tickAt <= tickAt' /\ clock <= clock'
    BY <1>1, <1>5 DEF RoutineTypes
  <2>3. CronInv'
    BY <1>1, <1>4, <1>5, <1>7, <2>1, <2>2, CronStands
  <2> QED
    BY <1>7, <1>8, <2>3 DEF RoutineInv
<1>10. CASE a = Cron
  <2>1. Scheduling.pc = "write" /\ Scheduling'.pc = "idle"
    BY <1>1, <1>6, <1>10 DEF Scheduling
  <2>2. /\ Scheduling.new.deleted
        /\ \A i \in CronFires : fires[i].seen <= Scheduling.read
    BY <1>1, <2>1 DEF CronInv, SchedulerKnows
  <2>3. NewestSpec \in Nat /\ NewestSpec' \in Nat /\ \A i \in CronFires : fires[i].seen \in 1..NewestSpec
    BY <1>1, <1>4, SpecsStand DEF CronInv, FiresHaveSeen
  <2>4. \A i \in CronFires : fires[i].seen < NewestSpec'
    <3>1. CASE specs' = specs /\ Repeats(call[a].new)
      <4>1. PICK k \in (Scheduling.read + 1)..NewestSpec : specs[k].deleted
        BY <1>1, <1>10, <2>2, <3>1, RepeatIsLater DEF Scheduling
      <4>2. NewestSpec' = NewestSpec /\ Scheduling.read \in Nat
        BY <1>1, <1>10, <3>1 DEF NewestSpec, CallRecord, Scheduling
      <4> QED
        BY <2>2, <2>3, <4>1, <4>2
    <3>2. CASE specs' = Append(specs, call[a].new)
      <4>1. NewestSpec' = NewestSpec + 1
        BY <1>1, <1>3, <3>2 DEF NewestSpec, RoutineTypes
      <4> QED
        BY <2>3, <4>1
    <3> QED
      BY <1>2, <3>1, <3>2
  <2>5. excused' \cap {"tick", "cold"} = {} =>
          \A i \in CronFires : fires[i].due <= lastFire' /\ fires[i].due <= tickAt
    BY <1>1, <1>5, <2>1 DEF CronInv, MomentsInv, TicksCover, LastCovers
  <2>6. CronInv'
    BY <1>1, <1>4, <1>5, <2>1, <2>4, <2>5, CronRests
  <2> QED
    BY <1>7, <1>8, <2>6 DEF RoutineInv
<1> QED
  BY <1>9, <1>10

\* A write or an intent that fails: the request is over.
LEMMA FailSteps ==
  ASSUME RoutineInv, NEW a \in Actors, WriteFails(a) \/ IntentFails(a)
  PROVE  RoutineInv'
<1>1. RoutineTypes /\ DeletesHaveRead /\ CronInv /\ call[a].pc \in {"write", "intent"}
  BY DEF RoutineInv, WriteFails, IntentFails
<1>2. /\ UNCHANGED <<specs, clock, lastFire, boot, tickAt, fires>> /\ excused \subseteq excused'
      /\ call' = [call EXCEPT ![a] = NoCall]
      /\ a = Cron /\ call[a].pc = "write" => "tomb" \in excused'
  BY DEF WriteFails, IntentFails, Done
<1>3. CASE a # Cron
  <2>1. a \in Users
    BY <1>3, ActorsAre
  <2> QED
    BY <1>2, <2>1, NoCallIs, UserMoves
<1>4. CASE a = Cron
  <2>1. /\ call' \in [Actors -> CallRecord] /\ call'[a].pc = "idle"
        /\ \A b \in Actors : b # a => call'[b] = call[b]
    BY <1>1, <1>2, NoCallIs, CallBecomes DEF RoutineTypes
  <2>2. RoutineTypes'
    BY <1>1, <1>2, <2>1, ActorsAre DEF RoutineTypes
  <2>3. DeletesHaveRead'
    BY <1>1, <1>2, <2>1, DeletesStand
  <2>4. Scheduling'.pc = "idle" /\ Scheduling.pc \in {"write", "intent"}
    BY <1>1, <1>4, <2>1 DEF Scheduling
  <2>5. excused' \cap {"tick", "cold"} = {} =>
          \A i \in CronFires : fires[i].due <= lastFire' /\ fires[i].due <= tickAt
    BY <1>1, <1>2, <2>4 DEF CronInv, MomentsInv, TicksCover, LastCovers
  <2>6. "tomb" \notin excused' =>
          \A i \in CronFires : Spent(i) => fires[i].seen < NewestSpec' \/ ~Live'
    BY <1>1, <1>2, <1>4, <2>4 DEF CronInv, ShotsInv, ShotsAreOver, Scheduling, NewestSpec, Live
  <2>7. CronInv'
    BY <1>1, <1>2, <2>4, <2>5, <2>6, CronRests
  <2> QED
    BY <2>2, <2>3, <2>7 DEF RoutineInv
<1> QED
  BY <1>3, <1>4

LEMMA FiresGrow ==
  ASSUME RoutineTypes, NEW f \in FireRecord, fires' = Append(fires, f)
  PROVE  /\ fires' \in Seq(FireRecord) /\ Len(fires) \in Nat /\ Len(fires') = Len(fires) + 1
         /\ fires'[Len(fires) + 1] = f /\ \A i \in 1..Len(fires) : fires'[i] = fires[i]
         /\ CronFires' = CronFires \cup (IF f.by = Cron THEN {Len(fires) + 1} ELSE {})
<1>1. /\ fires' \in Seq(FireRecord) /\ Len(fires) \in Nat /\ Len(fires') = Len(fires) + 1
      /\ fires'[Len(fires) + 1] = f /\ \A i \in 1..Len(fires) : fires'[i] = fires[i]
  BY DEF RoutineTypes
<1>2. \A i : i \in 1..Len(fires') <=> i \in 1..Len(fires) \/ i = Len(fires) + 1
  BY <1>1
<1>3. \A i : i \in CronFires' <=> i \in 1..Len(fires') /\ fires'[i].by = Cron
  BY DEF CronFires
<1>4. \A i : i \in CronFires <=> i \in 1..Len(fires) /\ fires[i].by = Cron
  BY DEF CronFires
<1>5. Len(fires) + 1 \notin 1..Len(fires)
  BY <1>1
<1>6. \A i : i \in CronFires' <=> i \in CronFires \/ (f.by = Cron /\ i = Len(fires) + 1)
  BY <1>1, <1>2, <1>3, <1>4, <1>5
<1> QED
  BY <1>1, <1>6

LEMMA FireIsTimed ==
  ASSUME RoutineTypes, NEW k, NEW t \in Nat, fires' = [fires EXCEPT ![k].at = t]
  PROVE  /\ fires' \in Seq(FireRecord) /\ CronFires' = CronFires
         /\ \A i \in CronFires : fires'[i].due = fires[i].due /\ fires'[i].seen = fires[i].seen
<1>1. fires \in [1..Len(fires) -> FireRecord] /\ Len(fires) \in Nat
  BY DEF RoutineTypes
<1>2. ASSUME NEW i \in 1..Len(fires)
      PROVE  /\ fires'[i] \in FireRecord /\ fires'[i].by = fires[i].by
             /\ fires'[i].due = fires[i].due /\ fires'[i].seen = fires[i].seen
  <2>1. fires[i] \in FireRecord
    BY <1>1
  <2>2. fires'[i] = fires[i] \/ fires'[i] = [fires[i] EXCEPT !.at = t]
    BY <1>1
  <2> QED
    BY <2>1, <2>2 DEF FireRecord
<1>3. DOMAIN fires' = 1..Len(fires) /\ fires' = [i \in 1..Len(fires) |-> fires'[i]]
  BY <1>1
<1>4. fires' \in [1..Len(fires) -> FireRecord]
  BY <1>2, <1>3
<1>5. fires' \in Seq(FireRecord) /\ Len(fires') = Len(fires)
  BY <1>1, <1>4
<1> QED
  BY <1>2, <1>5 DEF CronFires

\* A step of a request of an operator that does not write a specification: it may add a
\* fire of its own, time one, or put its tick.
LEMMA UserFires ==
  ASSUME RoutineInv, NEW u \in Users, NEW c \in CallRecord,
         call' \in [Actors -> CallRecord], call'[u] = c, \A b \in Actors : b # u => call'[b] = call[b],
         c.pc \notin {"hydrate", "fire", "tomb", "write"},
         UNCHANGED <<specs, clock, lastFire, boot>>, excused \subseteq excused',
         tickAt' \in Nat, tickAt <= tickAt', tickAt' <= clock,
         fires' \in Seq(FireRecord), CronFires' = CronFires,
         \A i \in CronFires : fires'[i].due = fires[i].due /\ fires'[i].seen = fires[i].seen
  PROVE  RoutineInv'
<1>1. RoutineTypes /\ u \in Actors /\ u # Cron /\ Cron \in Actors
  BY ActorsAre DEF RoutineInv
<1>2. RoutineTypes'
  BY <1>1, ActorsAre DEF RoutineTypes
<1>3. Scheduling' = Scheduling
  BY <1>1 DEF Scheduling
<1>4. CronInv'
  <2>1. clock <= clock'
    BY <1>1 DEF RoutineTypes
  <2> QED
    BY <1>1, <1>2, <1>3, <2>1, CronStands DEF RoutineInv
<1>5. DeletesHaveRead'
  BY <1>1, DeletesStand DEF RoutineInv
<1> QED
  BY <1>2, <1>4, <1>5 DEF RoutineInv

LEMMA IntentSteps ==
  ASSUME RoutineInv, NEW a \in Actors, PutIntent(a)
  PROVE  RoutineInv'
<1> DEFINE f == [by |-> a, due |-> call[a].due, seen |-> call[a].seen, at |-> None]
           c == [call[a] EXCEPT !.pc = "tick", !.fire = Len(fires')]
<1>1. RoutineTypes /\ DeletesHaveRead /\ CronInv /\ call[a] \in CallRecord /\ call[a].pc = "intent"
  BY DEF RoutineInv, RoutineTypes, PutIntent
<1>2. /\ UNCHANGED <<specs, clock, lastFire, boot, tickAt, excused>>
      /\ fires' = Append(fires, f) /\ call' = [call EXCEPT ![a] = c]
  BY DEF PutIntent, history
<1>3. f \in FireRecord /\ f.by = a /\ f.due = call[a].due /\ f.seen = call[a].seen
  BY <1>1 DEF CallRecord, FireRecord, None
<1> HIDE DEF f
<1>4. /\ fires' \in Seq(FireRecord) /\ Len(fires) \in Nat /\ Len(fires') = Len(fires) + 1
      /\ fires'[Len(fires) + 1] = f /\ \A i \in 1..Len(fires) : fires'[i] = fires[i]
      /\ CronFires' = CronFires \cup (IF f.by = Cron THEN {Len(fires) + 1} ELSE {})
  BY <1>1, <1>2, <1>3, FiresGrow
<1>5. /\ c \in CallRecord /\ c.pc = "tick" /\ c.fire = Len(fires) + 1
      /\ c.due = call[a].due /\ c.now = call[a].now /\ c.seen = call[a].seen /\ c.single = call[a].single
  <2>1. PICK n \in Nat : n = Len(fires') /\ n = Len(fires) + 1
    BY <1>4
  <2>2. c = [call[a] EXCEPT !.pc = "tick", !.fire = n]
    BY <2>1
  <2>3. "tick" \in Stages
    BY DEF Stages
  <2> HIDE DEF c
  <2>4. /\ c \in CallRecord /\ c.pc = "tick" /\ c.fire = n
        /\ c.due = call[a].due /\ c.now = call[a].now /\ c.seen = call[a].seen /\ c.single = call[a].single
    BY <1>1, <2>2, <2>3 DEF CallRecord
  <2> QED
    BY <2>1, <2>4
<1> HIDE DEF c
<1>6. call' \in [Actors -> CallRecord] /\ call'[a] = c /\ \A b \in Actors : b # a => call'[b] = call[b]
  BY <1>1, <1>2, <1>5, CallBecomes DEF RoutineTypes
<1>7. CASE a # Cron
  <2>1. a \in Users /\ CronFires' = CronFires
    BY <1>3, <1>4, <1>7, ActorsAre
  <2>2. \A i \in CronFires : fires'[i] = fires[i]
    BY <1>4 DEF CronFires
  <2>3. tickAt' \in Nat /\ tickAt <= tickAt' /\ tickAt' <= clock
    BY <1>1, <1>2 DEF RoutineTypes
  <2> QED
    BY <1>2, <1>4, <1>5, <1>6, <2>1, <2>2, <2>3, UserFires
<1>8. CASE a = Cron
  <2> DEFINE new == Len(fires) + 1
  <2>1. Scheduling.pc = "intent" /\ Scheduling = call[a] /\ Scheduling' = c
    BY <1>1, <1>6, <1>8 DEF Scheduling
  <2>2. CronFires' = CronFires \cup {new} /\ new \notin CronFires
    BY <1>3, <1>4, <1>8 DEF CronFires
  <2>3. \A i \in CronFires : fires'[i] = fires[i]
    BY <1>4 DEF CronFires
  <2>4. /\ lastFire < c.due /\ c.due <= c.now /\ c.now <= clock
        /\ c.seen \in 1..NewestSpec /\ c.single = specs[c.seen].single
    BY <1>1, <1>5, <2>1 DEF CronInv, SchedulerKnows
  <2>5. fires'[new] = f /\ f.due = c.due /\ f.seen = c.seen
    BY <1>3, <1>4, <1>5
  <2> HIDE DEF new
  <2>6. NewestSpec' = NewestSpec /\ (Live' <=> Live)
    BY <1>2 DEF NewestSpec, Live
  <2>7. RoutineTypes'
    BY <1>1, <1>2, <1>4, <1>6, <1>8, ActorsAre DEF RoutineTypes
  <2>8. DeletesHaveRead'
    BY <1>1, <1>2, <1>5, <1>6, DeletesStand
  <2>9. FiresHaveSeen'
    BY <1>1, <2>2, <2>3, <2>4, <2>5, <2>6 DEF CronInv, FiresHaveSeen
  <2>10. SchedulerKnows'
    <3>1. c.fire = new
      BY <1>5 DEF new
    <3> QED
      BY <1>2, <1>5, <2>1, <2>2, <2>4, <2>5, <2>6, <3>1 DEF SchedulerKnows
  <2>11. c.fire = new
    BY <1>5 DEF new
  <2>12. ASSUME excused' \cap {"tick", "cold"} = {}
         PROVE  /\ TicksCover' /\ LastCovers' 
                /\ \A i, j \in CronFires' : fires'[i].due = fires'[j].due => i = j
    <3>1. /\ \A i \in CronFires : fires[i].due <= tickAt /\ fires[i].due <= lastFire
          /\ \A i, j \in CronFires : fires[i].due = fires[j].due => i = j
      BY <1>1, <1>2, <2>1, <2>12 DEF CronInv, MomentsInv, TicksCover, LastCovers, FiredOnce, NoMomentTwice
    <3>2. \A i \in CronFires : fires[i].due \in Nat
      <4>1. \A i \in CronFires : fires[i] \in FireRecord
        BY <1>1 DEF RoutineTypes, CronFires
      <4> QED
        BY <4>1 DEF FireRecord
    <3>3. \A i \in CronFires : fires[i].due # c.due
      <4>1. lastFire \in Nat /\ c.due \in Nat
        BY <1>1, <1>5 DEF RoutineTypes, CallRecord
      <4> QED
        BY <2>4, <3>1, <3>2, <4>1
    <3>4. TicksCover' /\ LastCovers'
      BY <1>2, <1>5, <2>1, <2>2, <2>3, <2>11, <3>1 DEF TicksCover, LastCovers
    <3>5. \A i, j \in CronFires' : fires'[i].due = fires'[j].due => i = j
      <4> SUFFICES ASSUME NEW i \in CronFires', NEW j \in CronFires', fires'[i].due = fires'[j].due
                   PROVE  i = j
        OBVIOUS
      <4>1. (i \in CronFires \/ i = new) /\ (j \in CronFires \/ j = new)
        BY <2>2
      <4>2. CASE i \in CronFires /\ j \in CronFires
        BY <2>3, <3>1, <4>2
      <4>3. CASE i \in CronFires /\ j = new
        BY <2>3, <2>5, <3>3, <4>3
      <4>4. CASE i = new /\ j \in CronFires
        BY <2>3, <2>5, <3>3, <4>4
      <4> QED
        BY <4>1, <4>2, <4>3, <4>4
    <3> QED
      BY <3>4, <3>5
  <2>13. ASSUME "tomb" \notin excused'
         PROVE  /\ ShotsAreOver' /\ ShotIsNew'
                /\ \A i, j \in CronFires' :
                     (fires'[i].seen = fires'[j].seen /\ specs'[fires'[i].seen].single) => i = j
    <3>1. /\ \A i \in CronFires : Spent(i) => fires[i].seen < NewestSpec \/ ~Live
          /\ \A i \in CronFires : Spent(i) => fires[i].seen # c.seen
          /\ \A i, j \in CronFires : (fires[i].seen = fires[j].seen /\ specs[fires[i].seen].single) => i = j
      BY <1>1, <1>2, <1>5, <2>1, <2>13
      DEF CronInv, ShotsInv, ShotsAreOver, ShotIsNew, FiredOnce, SingleShot
    <3>2. \A i \in CronFires : Spent(i)' <=> Spent(i)
      BY <1>2, <2>3 DEF Spent
    <3>3. ShotsAreOver' /\ ShotIsNew'
      BY <1>5, <2>1, <2>2, <2>3, <2>6, <2>11, <3>1, <3>2 DEF ShotsAreOver, ShotIsNew
    <3>4. \A i, j \in CronFires' :
            (fires'[i].seen = fires'[j].seen /\ specs'[fires'[i].seen].single) => i = j
      <4> SUFFICES ASSUME NEW i \in CronFires', NEW j \in CronFires',
                          fires'[i].seen = fires'[j].seen, specs'[fires'[i].seen].single
                   PROVE  i = j
        OBVIOUS
      <4>1. (i \in CronFires \/ i = new) /\ (j \in CronFires \/ j = new)
        BY <2>2
      <4>2. CASE i \in CronFires /\ j \in CronFires
        <5>1. specs[fires[i].seen].single /\ fires[i].seen = fires[j].seen
          BY <1>2, <2>3, <4>2
        <5> QED
          BY <3>1, <4>2, <5>1
      <4>3. CASE i \in CronFires /\ j = new
        BY <1>2, <2>3, <2>5, <3>1, <4>3 DEF Spent
      <4>4. CASE i = new /\ j \in CronFires
        BY <1>2, <2>3, <2>5, <3>1, <4>4, ZenonT(40) DEF Spent
      <4> QED
        BY <4>1, <4>2, <4>3, <4>4
    <3> QED
      BY <3>3, <3>4
  <2>14. CronInv'
    BY <2>9, <2>10, <2>12, <2>13 DEF CronInv, MomentsInv, ShotsInv, FiredOnce, NoMomentTwice, SingleShot
  <2> QED
    BY <2>7, <2>8, <2>14 DEF RoutineInv
<1> QED
  BY <1>7, <1>8
-----------------------------------------------------------------------------
LEMMA SwallowGrows == ASSUME NEW ok, NEW what, Swallow(ok, what)
                      PROVE  excused \subseteq excused' /\ (~ok => what \in excused')
BY DEF Swallow

\* A step of the scheduler.
LEMMA CronMoves ==
  ASSUME RoutineInv, NEW c \in CallRecord, call' = [call EXCEPT ![Cron] = c],
         c.pc = "write" => c.read \in 1..NewestSpec /\ ~specs[c.read].deleted /\ specs[c.read].ws = c.new.ws,
         UNCHANGED <<specs, clock, boot>>, lastFire' \in Nat, tickAt' \in Nat, tickAt' <= clock,
         fires' \in Seq(FireRecord)
  PROVE  /\ RoutineTypes' /\ DeletesHaveRead' /\ Scheduling' = c
         /\ RoutineTypes /\ CronInv /\ NewestSpec' = NewestSpec /\ (Live' <=> Live)
<1>1. RoutineTypes /\ Cron \in Actors
  BY ActorsAre DEF RoutineInv
<1>2. call' \in [Actors -> CallRecord] /\ call'[Cron] = c /\ \A b \in Actors : b # Cron => call'[b] = call[b]
  BY <1>1, CallBecomes DEF RoutineTypes
<1>3. RoutineTypes'
  BY <1>1, <1>2, ActorsAre DEF RoutineTypes
<1>4. DeletesHaveRead'
  BY <1>1, <1>2, DeletesStand DEF RoutineInv
<1> QED
  BY <1>1, <1>2, <1>3, <1>4 DEF RoutineInv, Scheduling, NewestSpec, Live

LEMMA CronWas ==
  ASSUME RoutineInv
  PROVE  /\ RoutineTypes /\ CronInv /\ Scheduling \in CallRecord /\ Scheduling = call[Cron] /\ Cron \in Actors
         /\ \A i \in CronFires : fires[i] \in FireRecord /\ fires[i].due \in Nat
         /\ lastFire \in Nat /\ tickAt \in Nat /\ clock \in Nat /\ boot \in Nat /\ tickAt <= clock
         /\ fires \in Seq(FireRecord) /\ NewestSpec \in Nat
<1>1. RoutineTypes /\ CronInv /\ Cron \in Actors
  BY ActorsAre DEF RoutineInv
<1>2. \A i \in CronFires : fires[i] \in FireRecord
  BY <1>1 DEF CronFires, RoutineTypes
<1>3. Scheduling \in CallRecord
  BY <1>1 DEF Scheduling, RoutineTypes
<1> QED
  BY <1>1, <1>2, <1>3 DEF FireRecord, RoutineTypes, Scheduling, NewestSpec

LEMMA TickSteps ==
  ASSUME RoutineInv, NEW a \in Actors, NEW ok \in BOOLEAN, PutTick(a, ok)
  PROVE  RoutineInv'
<1> DEFINE c == [call[a] EXCEPT !.pc = "row"]
<1>1. RoutineTypes /\ call[a].pc = "tick" /\ GoesTo(a, "row")
  BY DEF RoutineInv, PutTick
<1>2. /\ UNCHANGED <<specs, clock, lastFire, boot>> /\ excused \subseteq excused'
      /\ tickAt' = (IF ok THEN clock ELSE tickAt) /\ (~ok => "tick" \in excused')
      /\ fires' = [fires EXCEPT ![call[a].fire].at = clock]
  BY SwallowGrows DEF PutTick
<1>3. /\ call' \in [Actors -> CallRecord] /\ call'[a] = c /\ c.pc = "row" /\ call[a] \in CallRecord
      /\ \A b \in Actors : b # a => call'[b] = call[b]
  BY <1>1, CallGoes DEF RoutineTypes, Stages
<1>4. c \in CallRecord
  BY <1>3
<1>5. /\ fires' \in Seq(FireRecord) /\ CronFires' = CronFires
      /\ \A i \in CronFires : fires'[i].due = fires[i].due /\ fires'[i].seen = fires[i].seen
  <2>1. clock \in Nat
    BY <1>1 DEF RoutineTypes
  <2> QED
    BY <1>1, <1>2, <2>1, FireIsTimed
<1>6. /\ c.due = call[a].due /\ c.now = call[a].now /\ c.seen = call[a].seen
      /\ c.single = call[a].single /\ c.fire = call[a].fire
  BY <1>3 DEF CallRecord
<1>7. tickAt' \in Nat /\ tickAt <= tickAt' /\ tickAt' <= clock
  BY <1>1, <1>2 DEF RoutineTypes
<1> HIDE DEF c
<1>8. CASE a # Cron
  <2>1. a \in Users
    BY <1>8, ActorsAre
  <2> QED
    BY <1>2, <1>3, <1>4, <1>5, <1>7, <2>1, UserFires
<1>9. CASE a = Cron
  <2>1. /\ RoutineTypes /\ CronInv /\ Scheduling = call[a] /\ lastFire \in Nat /\ clock \in Nat /\ tickAt \in Nat
        /\ \A i \in CronFires : fires[i].due \in Nat
    BY <1>9, CronWas
  <2>2. call' = [call EXCEPT ![Cron] = c]
    BY <1>1, <1>9 DEF GoesTo, c
  <2>3. RoutineTypes' /\ DeletesHaveRead' /\ Scheduling' = c /\ NewestSpec' = NewestSpec /\ (Live' <=> Live)
    BY <1>2, <1>3, <1>4, <1>5, <1>7, <2>1, <2>2, CronMoves
  <2>4. FiresHaveSeen' /\ FiredOnce' /\ \A i \in CronFires : Spent(i)' <=> Spent(i)
    BY <1>2, <1>5, <2>1, FiresStand
  <2>5. SchedulerKnows'
    BY <1>1, <1>2, <1>3, <1>5, <1>6, <2>1, <2>3 DEF CronInv, SchedulerKnows
  <2>6. MomentsInv'
    <3> SUFFICES ASSUME excused' \cap {"tick", "cold"} = {} PROVE TicksCover' /\ LastCovers'
      BY DEF MomentsInv
    <3>1. TicksCover /\ LastCovers /\ tickAt' = clock
      BY <1>2, <2>1 DEF CronInv, MomentsInv
    <3>2. fires[c.fire].due = c.due /\ c.due <= c.now /\ c.now <= clock /\ c.due \in Nat /\ c.now \in Nat
      BY <1>1, <1>4, <1>6, <2>1 DEF CronInv, SchedulerKnows, CallRecord
    <3>3. \A i \in CronFires : fires[i].due <= tickAt'
      <4> SUFFICES ASSUME NEW i \in CronFires PROVE fires[i].due <= tickAt'
        OBVIOUS
      <4>1. fires[i].due <= tickAt \/ i = c.fire
        BY <1>1, <1>6, <2>1, <3>1 DEF TicksCover
      <4> QED
        BY <1>7, <2>1, <3>1, <3>2, <4>1
    <3>4. TicksCover'
      BY <1>5, <3>3 DEF TicksCover
    <3>5. LastCovers'
      BY <1>1, <1>2, <1>3, <1>5, <1>6, <2>1, <2>3, <3>1 DEF LastCovers
    <3> QED
      BY <3>4, <3>5
  <2>7. ShotsInv'
    <3> SUFFICES ASSUME "tomb" \notin excused' PROVE ShotsAreOver' /\ ShotIsNew'
      BY DEF ShotsInv
    <3>1. ShotsAreOver
      BY <1>2, <2>1 DEF CronInv, ShotsInv
    <3>2. ShotsAreOver'
      BY <1>1, <1>3, <1>5, <1>6, <2>1, <2>3, <2>4, <3>1 DEF ShotsAreOver
    <3>3. ShotIsNew'
      BY <1>3, <2>3 DEF ShotIsNew
    <3> QED
      BY <3>2, <3>3
  <2> QED
    BY <2>3, <2>4, <2>5, <2>6, <2>7 DEF RoutineInv, CronInv
<1> QED
  BY <1>8, <1>9

LEMMA RowSteps ==
  ASSUME RoutineInv, NEW a \in Actors, NEW ok \in BOOLEAN, PutRow(a, ok)
  PROVE  RoutineInv'
<1>1. RoutineTypes /\ call[a].pc = "row" /\ Return(a)
  BY DEF RoutineInv, PutRow
<1>2. UNCHANGED <<specs, clock, boot, tickAt, fires>> /\ excused \subseteq excused'
  BY SwallowGrows DEF PutRow
<1>3. CronFires' = CronFires
  BY <1>2 DEF CronFires
<1>4. CASE a # Cron
  <2>1. a \in Users /\ lastFire' = lastFire /\ call' = [call EXCEPT ![a] = NoCall]
    BY <1>1, <1>4, ActorsAre DEF Return, Done
  <2> QED
    BY <1>2, <2>1, NoCallIs, UserMoves
<1>5. CASE a = Cron
  <2>1. /\ RoutineTypes /\ CronInv /\ Scheduling \in CallRecord /\ Scheduling = call[Cron]
        /\ lastFire \in Nat /\ tickAt \in Nat /\ tickAt <= clock /\ fires \in Seq(FireRecord)
        /\ \A i \in CronFires : fires[i].due \in Nat
    BY CronWas
  <2>2. /\ lastFire' = Scheduling.now /\ Scheduling.pc = "row"
        /\ \/ Scheduling.single /\ GoesTo(Cron, "tomb")
           \/ ~Scheduling.single /\ call' = [call EXCEPT ![Cron] = NoCall]
    BY <1>1, <1>5, <2>1 DEF Return, Done
  <2>3. /\ Scheduling.now \in Nat /\ Scheduling.due \in Nat /\ Scheduling.due <= Scheduling.now
        /\ lastFire < Scheduling.due
        /\ Scheduling.single = specs[Scheduling.seen].single /\ Scheduling.seen \in 1..NewestSpec
        /\ Scheduling.fire \in CronFires
        /\ fires[Scheduling.fire].seen = Scheduling.seen /\ fires[Scheduling.fire].due = Scheduling.due
    BY <2>1, <2>2 DEF CronInv, SchedulerKnows, CallRecord
  <2>4. excused' \cap {"tick", "cold"} = {} =>
          \A i \in CronFires : fires[i].due <= lastFire' /\ fires[i].due <= tickAt
    <3> SUFFICES ASSUME excused' \cap {"tick", "cold"} = {}, NEW i \in CronFires
                 PROVE  fires[i].due <= lastFire' /\ fires[i].due <= tickAt
      OBVIOUS
    <3>1. fires[i].due <= tickAt /\ (fires[i].due <= lastFire \/ i = Scheduling.fire)
      BY <1>2, <2>1, <2>2 DEF CronInv, MomentsInv, TicksCover, LastCovers
    <3> QED
      BY <2>1, <2>2, <2>3, <3>1
  <2>5. "tomb" \notin excused' =>
          \A i \in CronFires : Spent(i) => fires[i].seen < NewestSpec \/ ~Live \/ i = Scheduling.fire
    BY <1>2, <2>1, <2>2 DEF CronInv, ShotsInv, ShotsAreOver
  <2>6. CASE ~Scheduling.single /\ call' = [call EXCEPT ![Cron] = NoCall]
    <3>1. /\ RoutineTypes' /\ DeletesHaveRead' /\ Scheduling' = NoCall
          /\ NewestSpec' = NewestSpec /\ (Live' <=> Live)
      BY <1>2, <2>1, <2>2, <2>3, <2>6, NoCallIs, CronMoves
    <3>2. ~Spent(Scheduling.fire)
      BY <2>3, <2>6 DEF Spent
    <3>3. "tomb" \notin excused' =>
            \A i \in CronFires : Spent(i) => fires[i].seen < NewestSpec' \/ ~Live'
      BY <2>5, <3>1, <3>2
    <3>4. CronInv'
      BY <1>2, <2>1, <2>4, <3>1, <3>3, NoCallIs, CronRests
    <3> QED
      BY <3>1, <3>4 DEF RoutineInv
  <2>7. CASE Scheduling.single /\ GoesTo(Cron, "tomb")
    <3> DEFINE c == [Scheduling EXCEPT !.pc = "tomb"]
    <3>1. "tomb" \in Stages /\ call' = [call EXCEPT ![Cron] = c]
      BY <2>1, <2>7 DEF GoesTo, Stages
    <3>2. /\ c \in CallRecord /\ c.pc = "tomb" /\ c.fire = Scheduling.fire /\ c.seen = Scheduling.seen
          /\ c.single = Scheduling.single /\ c.due = Scheduling.due
      BY <2>1, <3>1 DEF CallRecord
    <3> HIDE DEF c
    <3>3. RoutineTypes' /\ DeletesHaveRead' /\ Scheduling' = c /\ NewestSpec' = NewestSpec /\ (Live' <=> Live)
      BY <1>2, <2>1, <2>2, <2>3, <3>1, <3>2, CronMoves
    <3>4. FiresHaveSeen' /\ FiredOnce' /\ \A i \in CronFires : Spent(i)' <=> Spent(i)
      BY <1>2, <1>3, <2>1, FiresStand
    <3>5. SchedulerKnows'
      BY <1>2, <1>3, <2>3, <3>2, <3>3 DEF SchedulerKnows
    <3>6. MomentsInv'
      BY <1>2, <1>3, <2>4 DEF MomentsInv, TicksCover, LastCovers
    <3>7. ShotsInv'
      BY <1>2, <1>3, <2>5, <3>2, <3>3, <3>4 DEF ShotsInv, ShotsAreOver, ShotIsNew
    <3> QED
      BY <3>3, <3>4, <3>5, <3>6, <3>7 DEF RoutineInv, CronInv
  <2> QED
    BY <2>2, <2>6, <2>7
<1> QED
  BY <1>4, <1>5

LEMMA HydrateSteps ==
  ASSUME RoutineInv, NEW ok \in BOOLEAN, Hydrate(ok)
  PROVE  RoutineInv'
<1>1. /\ RoutineTypes /\ CronInv /\ Scheduling = call[Cron] /\ tickAt \in Nat /\ tickAt <= clock
      /\ fires \in Seq(FireRecord)
  BY CronWas
<1>2. /\ UNCHANGED <<specs, clock, boot, tickAt, fires>> /\ excused \subseteq excused'
      /\ lastFire' = (IF ok THEN tickAt ELSE 0) /\ (~ok => "cold" \in excused')
      /\ Scheduling.pc = "hydrate" /\ call' = [call EXCEPT ![Cron] = NoCall]
  BY <1>1, SwallowGrows DEF Hydrate, Done, None
<1>3. RoutineTypes' /\ DeletesHaveRead' /\ Scheduling' = NoCall /\ NewestSpec' = NewestSpec /\ (Live' <=> Live)
  BY <1>1, <1>2, NoCallIs, CronMoves
<1>4. excused' \cap {"tick", "cold"} = {} =>
        \A i \in CronFires : fires[i].due <= lastFire' /\ fires[i].due <= tickAt
  BY <1>1, <1>2 DEF CronInv, MomentsInv, TicksCover
<1>5. "tomb" \notin excused' =>
        \A i \in CronFires : Spent(i) => fires[i].seen < NewestSpec' \/ ~Live'
  BY <1>1, <1>2, <1>3 DEF CronInv, ShotsInv, ShotsAreOver
<1>6. CronInv'
  BY <1>1, <1>2, <1>3, <1>4, <1>5, NoCallIs, CronRests
<1> QED
  BY <1>3, <1>6 DEF RoutineInv

\* The moment that is due is ahead of the last fire, and its row has not been a single
\* shot yet.
LEMMA CheckSteps ==
  ASSUME RoutineInv, CheckOnce
  PROVE  RoutineInv'
<1>1. /\ RoutineTypes /\ CronInv /\ Scheduling = call[Cron] /\ tickAt \in Nat /\ tickAt <= clock
      /\ fires \in Seq(FireRecord) /\ lastFire \in Nat /\ clock \in Nat /\ boot \in Nat /\ NewestSpec \in Nat
  BY CronWas
<1>2. PICK m \in 1..clock :
        /\ Due(m)
        /\ call' = [call EXCEPT ![Cron] =
             [NoCall EXCEPT !.pc = "fire", !.due = m, !.now = clock, !.seen = NewestSpec,
                            !.single = specs[NewestSpec].single]]
  BY ZenonT(40) DEF CheckOnce
<1>3. /\ UNCHANGED <<specs, clock, boot, lastFire, tickAt, fires, excused>> /\ Scheduling.pc = "idle"
  BY <1>1 DEF CheckOnce, history
<1>4. /\ NewestSpec \in 1..NewestSpec /\ specs[NewestSpec] \in Row /\ Live
      /\ NextFire(specs[NewestSpec].cron, Pivot) = m
  BY <1>1, <1>2, TombstoneIs DEF Due
<1>5. specs[NewestSpec].single \in BOOLEAN /\ specs[NewestSpec].cron \in SUBSET (1..MaxTime)
  BY <1>4 DEF Row
<1>6. m \in Nat \ {0} /\ m <= clock
  BY <1>1
<1>7. lastFire < m
  <2>1. Grace \in Nat
    BY RoutinesAssumption, Zenon
  <2>2. Pivot \in Int /\ lastFire <= Pivot
    BY <1>1, <2>1 DEF Pivot, Max2
  <2>3. Pivot < m
    BY <1>4, <1>5, <1>6, <2>2, NextFireIsAhead
  <2> QED
    BY <1>1, <1>6, <2>2, <2>3
<1> DEFINE c == [NoCall EXCEPT !.pc = "fire", !.due = m, !.now = clock, !.seen = NewestSpec,
                               !.single = specs[NewestSpec].single]
<1>8. call' = [call EXCEPT ![Cron] = c]
  BY <1>2
<1>9. /\ c \in CallRecord /\ c.pc = "fire" /\ c.due = m /\ c.now = clock /\ c.seen = NewestSpec
      /\ c.single = specs[NewestSpec].single
  <2>1. "fire" \in Stages
    BY DEF Stages
  <2> QED
    BY <1>1, <1>5, <1>6, <2>1, NoCallIs DEF CallRecord
<1> HIDE DEF c
<1>10. RoutineTypes' /\ DeletesHaveRead' /\ Scheduling' = c /\ NewestSpec' = NewestSpec /\ (Live' <=> Live)
  BY <1>1, <1>3, <1>8, <1>9, CronMoves
<1>11. CronFires' = CronFires
  BY <1>3 DEF CronFires
<1>12. FiresHaveSeen' /\ FiredOnce' /\ \A i \in CronFires : Spent(i)' <=> Spent(i)
  BY <1>1, <1>3, <1>11, FiresStand
<1>13. SchedulerKnows'
  BY <1>1, <1>3, <1>4, <1>6, <1>7, <1>9, <1>10 DEF SchedulerKnows
<1>14. MomentsInv'
  BY <1>1, <1>3, <1>11 DEF CronInv, MomentsInv, TicksCover, LastCovers
<1>15. ShotsInv'
  <2> SUFFICES ASSUME "tomb" \notin excused' PROVE ShotsAreOver' /\ ShotIsNew'
    BY DEF ShotsInv
  <2>1. \A i \in CronFires : Spent(i) => fires[i].seen < NewestSpec
    BY <1>1, <1>3, <1>4 DEF CronInv, ShotsInv, ShotsAreOver
  <2>2. \A i \in CronFires : Spent(i) => fires[i].seen # NewestSpec
    BY <1>1, <2>1
  <2> QED
    BY <1>3, <1>9, <1>10, <1>11, <1>12, <2>1, <2>2 DEF ShotsAreOver, ShotIsNew
<1> QED
  BY <1>10, <1>12, <1>13, <1>14, <1>15 DEF RoutineInv, CronInv

LEMMA CronFireSteps ==
  ASSUME RoutineInv, CronFire
  PROVE  RoutineInv'
<1>1. /\ RoutineTypes /\ CronInv /\ Scheduling \in CallRecord /\ Scheduling = call[Cron]
      /\ tickAt \in Nat /\ tickAt <= clock
      /\ fires \in Seq(FireRecord) /\ lastFire \in Nat /\ NewestSpec \in Nat
  BY CronWas
<1>2. /\ UNCHANGED <<specs, clock, boot, lastFire, tickAt, fires, excused>> /\ Scheduling.pc = "fire"
  BY <1>1 DEF CronFire, history
<1>3. CronFires' = CronFires
  BY <1>2 DEF CronFires
<1>4. CASE Live
  <2> DEFINE c == [call[Cron] EXCEPT !.pc = "intent", !.read = NewestSpec]
  <2>1. "intent" \in Stages /\ call' = [call EXCEPT ![Cron] = c]
    BY <1>4 DEF CronFire, Stages
  <2>2. /\ c \in CallRecord /\ c.pc = "intent" /\ c.seen = Scheduling.seen /\ c.single = Scheduling.single
        /\ c.due = Scheduling.due /\ c.now = Scheduling.now
    BY <1>1, <2>1 DEF CallRecord
  <2> HIDE DEF c
  <2>3. RoutineTypes' /\ DeletesHaveRead' /\ Scheduling' = c /\ NewestSpec' = NewestSpec /\ (Live' <=> Live)
    BY <1>1, <1>2, <2>1, <2>2, CronMoves
  <2>4. FiresHaveSeen' /\ FiredOnce' /\ \A i \in CronFires : Spent(i)' <=> Spent(i)
    BY <1>1, <1>2, <1>3, FiresStand
  <2>5. SchedulerKnows'
    BY <1>1, <1>2, <1>3, <2>2, <2>3 DEF CronInv, SchedulerKnows
  <2>6. MomentsInv'
    BY <1>1, <1>2, <1>3 DEF CronInv, MomentsInv, TicksCover, LastCovers
  <2>7. ShotsInv'
    BY <1>1, <1>2, <1>3, <2>2, <2>3, <2>4 DEF CronInv, ShotsInv, ShotsAreOver, ShotIsNew
  <2> QED
    BY <2>3, <2>4, <2>5, <2>6, <2>7 DEF RoutineInv, CronInv
<1>5. CASE ~Live
  <2>1. call' = [call EXCEPT ![Cron] = NoCall]
    BY <1>5 DEF CronFire, Done
  <2>2. RoutineTypes' /\ DeletesHaveRead' /\ Scheduling' = NoCall /\ (Live' <=> Live)
    BY <1>1, <1>2, <2>1, NoCallIs, CronMoves
  <2>3. excused' \cap {"tick", "cold"} = {} =>
          \A i \in CronFires : fires[i].due <= lastFire' /\ fires[i].due <= tickAt
    BY <1>1, <1>2 DEF CronInv, MomentsInv, TicksCover, LastCovers
  <2>4. CronInv'
    BY <1>1, <1>2, <1>5, <2>2, <2>3, NoCallIs, CronRests
  <2> QED
    BY <2>2, <2>4 DEF RoutineInv
<1> QED
  BY <1>4, <1>5

LEMMA CronDeleteSteps ==
  ASSUME RoutineInv, CronDelete
  PROVE  RoutineInv'
<1>1. /\ RoutineTypes /\ CronInv /\ Scheduling \in CallRecord /\ Scheduling = call[Cron]
      /\ tickAt \in Nat /\ tickAt <= clock
      /\ fires \in Seq(FireRecord) /\ lastFire \in Nat /\ NewestSpec \in Nat
  BY CronWas
<1>2. /\ UNCHANGED <<specs, clock, boot, lastFire, tickAt, fires, excused>> /\ Scheduling.pc = "tomb"
  BY <1>1 DEF CronDelete, history
<1>3. CronFires' = CronFires
  BY <1>2 DEF CronFires
<1>4. CASE Live
  <2>1. PICK c \in CallRecord :
          /\ call' = [call EXCEPT ![Cron] = c]
          /\ c.pc = "write" /\ c.read = NewestSpec /\ c.new.deleted /\ c.new.ws = specs[NewestSpec].ws
          /\ NewestSpec \in 1..NewestSpec /\ ~specs[NewestSpec].deleted
    <3>1. call' = [call EXCEPT ![Cron] = Writing(Tombstone)]
      BY <1>4 DEF CronDelete
    <3> QED
      BY <1>1, <1>4, <3>1, WritingIs, TombstoneIs
  <2>2. RoutineTypes' /\ DeletesHaveRead' /\ Scheduling' = c /\ NewestSpec' = NewestSpec /\ (Live' <=> Live)
    BY <1>1, <1>2, <2>1, CronMoves
  <2>3. FiresHaveSeen' /\ FiredOnce'
    BY <1>1, <1>2, <1>3, FiresStand
  <2>4. SchedulerKnows'
    <3>1. \A i \in CronFires : fires[i].seen <= NewestSpec
      BY <1>1 DEF CronInv, FiresHaveSeen
    <3> QED
      BY <1>2, <1>3, <2>1, <2>2, <3>1 DEF SchedulerKnows
  <2>5. MomentsInv'
    BY <1>1, <1>2, <1>3 DEF CronInv, MomentsInv, TicksCover, LastCovers
  <2>6. ShotsInv'
    BY <2>1, <2>2 DEF ShotsInv, ShotsAreOver, ShotIsNew
  <2> QED
    BY <2>2, <2>3, <2>4, <2>5, <2>6 DEF RoutineInv, CronInv
<1>5. CASE ~Live
  <2>1. call' = [call EXCEPT ![Cron] = NoCall]
    BY <1>5 DEF CronDelete, Done
  <2>2. RoutineTypes' /\ DeletesHaveRead' /\ Scheduling' = NoCall /\ (Live' <=> Live)
    BY <1>1, <1>2, <2>1, NoCallIs, CronMoves
  <2>3. excused' \cap {"tick", "cold"} = {} =>
          \A i \in CronFires : fires[i].due <= lastFire' /\ fires[i].due <= tickAt
    BY <1>1, <1>2 DEF CronInv, MomentsInv, TicksCover, LastCovers
  <2>4. CronInv'
    BY <1>1, <1>2, <1>5, <2>2, <2>3, NoCallIs, CronRests
  <2> QED
    BY <2>2, <2>4 DEF RoutineInv
<1> QED
  BY <1>4, <1>5

LEMMA RestartSteps ==
  ASSUME RoutineInv, RoutinesRestart
  PROVE  RoutineInv'
<1> DEFINE waking == [NoCall EXCEPT !.pc = "hydrate"]
           pcs == {call[a].pc : a \in Actors}
<1>1. /\ RoutineTypes /\ CronInv /\ Scheduling = call[Cron] /\ Cron \in Actors /\ clock \in Nat
  BY CronWas
<1>2. /\ UNCHANGED <<specs, clock, tickAt, fires>> /\ lastFire' = 0 /\ boot' = clock
      /\ call' = [a \in Actors |-> IF a = Cron THEN waking ELSE NoCall]
      /\ excused' = excused
           \cup (IF "tick" \in pcs THEN {"tick"} ELSE {})
           \cup (IF pcs \cap {"tick", "row"} # {} THEN {"row"} ELSE {})
           \cup (IF call[Cron].pc \in {"tick", "row", "tomb", "write"} THEN {"tomb"} ELSE {})
  BY DEF RoutinesRestart, None
<1>3. Scheduling.pc \in pcs
  BY <1>1
<1>4. /\ excused \subseteq excused' /\ (Scheduling.pc = "tick" => "tick" \in excused')
      /\ (Scheduling.pc \in {"tick", "row", "tomb", "write"} => "tomb" \in excused')
  BY <1>1, <1>2, <1>3
<1>5. waking \in CallRecord /\ waking.pc = "hydrate"
  BY NoCallIs DEF CallRecord, Stages
<1> HIDE DEF waking, pcs
<1>6. /\ call' \in [Actors -> CallRecord] /\ Scheduling'.pc = "hydrate"
      /\ \A a \in Actors : call'[a].pc \in {"hydrate", "idle"}
      /\ \A u \in Users : call'[u].pc = "idle"
  BY <1>2, <1>5, NoCallIs, ActorsAre DEF Scheduling
<1>7. RoutineTypes'
  <2>1. clock' \in Nat /\ boot' \in Nat /\ lastFire' \in Nat /\ tickAt' \in Nat /\ tickAt' <= clock'
    BY <1>1, <1>2, CronWas
  <2>2. specs' \in Seq(Row) /\ fires' \in Seq(FireRecord)
    BY <1>1, <1>2 DEF RoutineTypes
  <2> QED
    BY <1>6, <2>1, <2>2 DEF RoutineTypes
<1>8. DeletesHaveRead'
  BY <1>6 DEF DeletesHaveRead
<1>9. CronFires' = CronFires
  BY <1>2 DEF CronFires
<1>10. FiresHaveSeen' /\ FiredOnce' /\ \A i \in CronFires : Spent(i)' <=> Spent(i)
  BY <1>1, <1>2, <1>4, <1>9, FiresStand
<1>11. SchedulerKnows' /\ LastCovers' /\ ShotIsNew'
  BY <1>6 DEF SchedulerKnows, LastCovers, ShotIsNew
<1>12. MomentsInv'
  <2> SUFFICES ASSUME excused' \cap {"tick", "cold"} = {} PROVE TicksCover'
    BY <1>11 DEF MomentsInv
  <2>1. TicksCover /\ Scheduling.pc # "tick"
    BY <1>1, <1>4 DEF CronInv, MomentsInv
  <2> QED
    BY <1>2, <1>9, <2>1 DEF TicksCover
<1>13. ShotsInv'
  <2> SUFFICES ASSUME "tomb" \notin excused' PROVE ShotsAreOver'
    BY <1>11 DEF ShotsInv
  <2>1. ShotsAreOver /\ Scheduling.pc \notin {"tick", "row", "tomb", "write"}
    BY <1>1, <1>4 DEF CronInv, ShotsInv
  <2>2. NewestSpec' = NewestSpec /\ (Live' <=> Live)
    BY <1>2 DEF NewestSpec, Live
  <2> QED
    BY <1>2, <1>9, <1>10, <2>1, <2>2 DEF ShotsAreOver
<1> QED
  BY <1>7, <1>8, <1>10, <1>11, <1>12, <1>13 DEF RoutineInv, CronInv

\* Steps of the clock, and of what the module does not change.
LEMMA TimePasses ==
  ASSUME RoutineInv, UNCHANGED <<specs, call, lastFire, boot, tickAt, fires, excused>>,
         clock' \in Nat, clock <= clock'
  PROVE  RoutineInv'
<1>1. RoutineTypes /\ tickAt \in Nat /\ tickAt <= clock /\ clock \in Nat /\ Cron \in Actors
  BY CronWas
<1>2. RoutineTypes'
  BY <1>1 DEF RoutineTypes
<1>3. DeletesHaveRead'
  BY <1>1, DeletesStand DEF RoutineInv
<1>4. CronInv'
  BY <1>1, <1>2, CronStands DEF RoutineInv, CronFires, Scheduling
<1> QED
  BY <1>2, <1>3, <1>4 DEF RoutineInv

LEMMA RoutinesStep == RoutineInv /\ [RoutinesNext]_routineVars => RoutineInv'
<1> SUFFICES ASSUME RoutineInv, [RoutinesNext]_routineVars PROVE RoutineInv'
  OBVIOUS
<1>1. CASE UNCHANGED routineVars
  <2>1. clock \in Nat /\ clock' = clock
    BY <1>1, CronWas DEF routineVars
  <2> QED
    BY <1>1, <2>1, TimePasses DEF routineVars, history
<1>2. CASE ClockTicks
  <2>1. clock \in Nat /\ clock' = clock + 1
    BY <1>2, CronWas DEF ClockTicks
  <2> QED
    BY <1>2, <2>1, TimePasses DEF ClockTicks, history
<1>3. ASSUME NEW a \in Actors, Proceed(a) \/ Falter(a) PROVE RoutineInv'
  BY <1>3, WriteSteps, FailSteps, IntentSteps, TickSteps, RowSteps DEF Proceed, Falter
<1>4. ASSUME NEW u \in Users, Request(u) \/ Proceed(u) PROVE RoutineInv'
  BY <1>3, <1>4, RequestSteps, ActorsAre
<1>5. CASE Scheduler \/ Hydrate(FALSE)
  BY <1>3, <1>5, HydrateSteps, CheckSteps, CronFireSteps, CronDeleteSteps, ActorsAre DEF Scheduler
<1> QED
  BY <1>1, <1>2, <1>3, <1>4, <1>5, RestartSteps DEF RoutinesNext

LEMMA RoutinesAlways == RoutinesSpec => []RoutineInv
BY RoutinesStart, RoutinesStep, PTL DEF RoutinesSpec

\* The scheduler fires a routine once for each moment of its schedule, and once for a
\* single_fire row, over edits, deletions, manual fires and restarts, unless a tick or a
\* tombstone could not be written or the ticks could not be read at a start.
THEOREM RoutinesFireOnce == RoutinesSpec => []FiredOnce
<1>1. RoutineInv => FiredOnce
  BY DEF RoutineInv, CronInv
<1> QED
  BY <1>1, RoutinesAlways, PTL

\* A request to write is answered without an error by its write only.
LEMMA OthersLeaveWriters ==
  ASSUME RoutineTypes, NEW a \in Actors, call[a].pc = "write",
         \/ call' = call
         \/ \E b \in Actors, c \in CallRecord : call[b].pc # "write" /\ call' = [call EXCEPT ![b] = c]
         \/ \E b \in Actors, pc \in Stages : call[b].pc # "write" /\ GoesTo(b, pc)
  PROVE  call'[a] = call[a]
<1>1. call \in [Actors -> CallRecord]
  BY DEF RoutineTypes
<1>2. ASSUME NEW b \in Actors, NEW c \in CallRecord, call[b].pc # "write", call' = [call EXCEPT ![b] = c]
      PROVE  call'[a] = call[a]
  BY <1>1, <1>2, CallBecomes
<1>3. ASSUME NEW b \in Actors, NEW pc \in Stages, call[b].pc # "write", GoesTo(b, pc)
      PROVE  call'[a] = call[a]
  BY <1>1, <1>3, CallGoes
<1> QED
  BY <1>2, <1>3

LEMMA DoneIs == \A b \in Actors : Done(b) => \E c \in CallRecord : call' = [call EXCEPT ![b] = c]
BY NoCallIs DEF Done

LEMMA WritesAnswer ==
  ASSUME RoutineInv, RoutinesNext, faults \in Nat, NEW a \in Actors, WriteAnswered(a)
  PROVE  WriteSpec(a)
<1>1. /\ RoutineTypes /\ Cron \in Actors /\ \A u \in Users : u \in Actors
      /\ call[a].pc = "write" /\ call'[a] # call[a] /\ faults' = faults /\ ~Fault
  BY ActorsAre DEF RoutineInv, WriteAnswered, Fault
<1> DEFINE Leaves == \/ call' = call
                     \/ \E b \in Actors, c \in CallRecord : call[b].pc # "write" /\ call' = [call EXCEPT ![b] = c]
                     \/ \E b \in Actors, pc \in Stages : call[b].pc # "write" /\ GoesTo(b, pc)
<1>2. ~Leaves
  BY <1>1, OthersLeaveWriters
<1>3. ASSUME NEW b \in Actors PROVE Proceed(b) \/ Falter(b) => WriteSpec(b)
  <2>1. ~WriteFails(b) /\ ~IntentFails(b)
    BY <1>1 DEF WriteFails, IntentFails
  <2>2. ~PutIntent(b)
    <3> SUFFICES ASSUME PutIntent(b) PROVE Leaves
      BY <1>2
    <3> DEFINE c == [call[b] EXCEPT !.pc = "tick", !.fire = Len(fires')]
    <3>1. call[b].pc = "intent" /\ call' = [call EXCEPT ![b] = c]
      BY DEF PutIntent
    <3>2. call[b] \in CallRecord /\ "tick" \in Stages
      BY <1>1 DEF RoutineTypes, Stages
    <3>3. Len(fires') \in Nat
      <4>1. [by |-> b, due |-> call[b].due, seen |-> call[b].seen, at |-> None] \in FireRecord
        BY <3>2 DEF CallRecord, FireRecord, None
      <4> QED
        BY <1>1, <4>1, FiresGrow DEF PutIntent
    <3>4. c \in CallRecord
      <4>1. PICK n \in Nat : n = Len(fires')
        BY <3>3
      <4>2. c = [call[b] EXCEPT !.pc = "tick", !.fire = n]
        BY <4>1
      <4> QED
        BY <3>2, <4>2 DEF CallRecord
    <3> HIDE DEF c
    <3> QED
      BY <3>1, <3>4
  <2>3. \A ok \in BOOLEAN : ~PutTick(b, ok)
    <3>1. "row" \in Stages
      BY DEF Stages
    <3> QED
      BY <1>2, <3>1 DEF PutTick
  <2>4. \A ok \in BOOLEAN : ~PutRow(b, ok)
    <3> SUFFICES ASSUME NEW ok \in BOOLEAN, PutRow(b, ok) PROVE Leaves
      BY <1>2
    <3>1. call[b].pc = "row" /\ (Done(b) \/ GoesTo(b, "tomb")) /\ "tomb" \in Stages
      BY DEF PutRow, Return, Stages
    <3> QED
      BY <3>1, DoneIs
  <2> QED
    BY <2>1, <2>2, <2>3, <2>4 DEF Proceed, Falter
<1>4. ASSUME NEW b \in Actors, WriteSpec(b) PROVE b = a
  <2>1. call' = [call EXCEPT ![b] = NoCall]
    BY <1>4 DEF WriteSpec, Done
  <2> QED
    BY <1>1, <2>1 DEF RoutineTypes
<1>5. ASSUME NEW u \in Users PROVE ~Request(u)
  <2>1. ASSUME NEW c, Ask(u, c) PROVE FALSE
    <3>1. call[u].pc = "idle" /\ call' = [call EXCEPT ![u] = c] /\ u \in Actors /\ u # a
      BY <1>1, <2>1 DEF Ask
    <3> QED
      BY <1>1, <3>1 DEF RoutineTypes
  <2> QED
    BY <2>1 DEF Request, Create, Update, Delete, FireNow
<1>6. ~CheckOnce /\ ~CronFire /\ ~CronDelete /\ \A ok \in BOOLEAN : ~Hydrate(ok)
  <2>1. ASSUME NEW c, call' = [call EXCEPT ![Cron] = c], call[Cron].pc # "write" PROVE FALSE
    BY <1>1, <2>1 DEF RoutineTypes
  <2> QED
    BY <2>1, ZenonT(40) DEF CheckOnce, CronFire, CronDelete, Hydrate, Done
<1>7. ~RoutinesRestart /\ ~ClockTicks
  BY <1>1 DEF RoutinesRestart, ClockTicks
<1> QED
  BY <1>1, <1>3, <1>4, <1>5, <1>6, <1>7 DEF RoutinesNext, Scheduler

FaultsCounted == faults \in Nat
LEMMA FaultsAreCounted == RoutinesSpec => []FaultsCounted
<1>1. RoutinesInit => FaultsCounted
  BY DEF RoutinesInit, FaultsCounted
<1>2. FaultsCounted /\ [RoutinesNext]_routineVars => FaultsCounted'
  <2> SUFFICES ASSUME faults \in Nat, [RoutinesNext]_routineVars PROVE faults' \in Nat
    BY DEF FaultsCounted
  <2>0. ASSUME NEW a \in Actors, Proceed(a) PROVE faults' \in Nat
    BY <2>0 DEF Proceed, WriteSpec, PutIntent, PutTick, PutRow, Swallow, history
  <2>1. CASE \E u \in Users : Request(u) \/ Proceed(u)
    BY <2>0, <2>1, ActorsAre DEF Request, Create, Update, Delete, FireNow, Ask
  <2>2. CASE \E a \in Actors : Falter(a)
    BY <2>2 DEF Falter, WriteFails, IntentFails, PutTick, PutRow, Swallow, Fault
  <2>3. CASE Scheduler \/ Hydrate(FALSE)
    <3>1. ASSUME NEW ok \in BOOLEAN, Hydrate(ok) PROVE faults' \in Nat
      BY <3>1 DEF Hydrate, Swallow, Fault
    <3>2. CheckOnce \/ CronFire \/ CronDelete => faults' = faults
      BY ZenonT(40) DEF CheckOnce, CronFire, CronDelete, history
    <3> QED
      BY <2>0, <2>3, <3>1, <3>2, ActorsAre DEF Scheduler
  <2>4. CASE RoutinesRestart \/ ClockTicks \/ UNCHANGED routineVars
    BY <2>4 DEF RoutinesRestart, ClockTicks, routineVars, Fault, history
  <2> QED
    BY <2>1, <2>2, <2>3, <2>4 DEF RoutinesNext
<1> QED
  BY <1>1, <1>2, PTL DEF RoutinesSpec

\* A delete that is answered without an error has left a deletion in the log since it was
\* asked for, even when the store drops its row as a repetition.
THEOREM DeletedIsDeleted == RoutinesSpec => DeletesTakeEffect
<1> DEFINE Effect == \A a \in Actors : WriteAnswered(a) /\ call[a].new.deleted =>
                       \E i \in (call[a].read + 1)..Len(specs') : specs'[i].deleted
<1>1. RoutineInv /\ FaultsCounted /\ [RoutinesNext]_routineVars => [Effect]_routineVars
  <2> SUFFICES ASSUME RoutineInv, faults \in Nat, RoutinesNext, NEW a \in Actors,
                      WriteAnswered(a), call[a].new.deleted
               PROVE  \E i \in (call[a].read + 1)..Len(specs') : specs'[i].deleted
    BY DEF FaultsCounted
  <2>1. /\ RoutineTypes /\ DeletesHaveRead /\ WriteSpec(a)
        /\ call[a].pc = "write" /\ call[a] \in CallRecord
    BY WritesAnswer DEF RoutineInv, WriteAnswered, RoutineTypes
  <2>2. CASE specs' = specs /\ Repeats(call[a].new)
    BY <2>1, <2>2, RepeatIsLater DEF NewestSpec
  <2>3. CASE specs' = Append(specs, call[a].new)
    <3>1. /\ Len(specs) \in Nat /\ Len(specs') = Len(specs) + 1
          /\ specs'[Len(specs) + 1] = call[a].new
      BY <2>1, <2>3 DEF RoutineTypes, CallRecord
    <3>2. call[a].read \in 1..Len(specs)
      BY <2>1 DEF DeletesHaveRead, NewestSpec
    <3> QED
      BY <3>1, <3>2
  <2> QED
    BY <2>1, <2>2, <2>3 DEF WriteSpec
<1> QED
  BY <1>1, RoutinesAlways, FaultsAreCounted, PTL DEF RoutinesSpec, DeletesTakeEffect

-----------------------------------------------------------------------------
(***************************************************************************)
(* Adapters: a task is put to an adapter once, and once more for each time *)
(* its end is lost from the window.  A task that was put to one so often   *)
(* and is not under way has an end in the window or a dispatch behind the  *)
(* cursor, and every poll under way will see that: the end at a row that   *)
(* its first query cannot miss, or the task among those that the plugin    *)
(* remembers for as long as the poll runs.                                 *)
(***************************************************************************)
InboxVisit == [on : BOOLEAN, since : Nat, floor : Nat, old : BOOLEAN, over : SUBSET Errands]
InboxRows == [kind : {"dispatch", "spawn", "complete", "error"}, task : Errands]
RunStates == AcpRequests \cup {"idle", "complete", "error"}

AdapterTypes ==
  /\ inbox \in Seq(InboxRows)
  /\ lapsed \in 0..Len(inbox)
  /\ cursor \in Nat
  /\ visits \in [Inboxes -> InboxVisit]
  /\ \A v \in Inboxes : visits[v].floor <= Len(inbox)
  /\ run \in [Errands -> RunStates]
  /\ proc \in [Errands -> {"none", "up", "closing"}]
  /\ recent \subseteq Errands
  /\ replies \subseteq InboxRows
  /\ puts \in [Errands -> Nat]
  /\ endsLost \in [Errands -> Nat]

\* A row is the one dispatch of its task, or comes after it.
IsDispatch(i, c) == i \in 1..Len(inbox) /\ inbox[i].kind = "dispatch" /\ inbox[i].task = c
Dispatched(c) == \E i \in 1..Len(inbox) : IsDispatch(i, c)
Follows(i) == \E j \in 1..i : IsDispatch(j, inbox[i].task)
InOrder ==
  /\ \A i \in 1..Len(inbox) : Follows(i)
  /\ \A c \in Errands : \A i, j \in 1..Len(inbox) : IsDispatch(i, c) /\ IsDispatch(j, c) => i = j
  /\ \A c \in Errands : run[c] # "idle" => Dispatched(c)
  /\ \A r \in replies : r.kind # "dispatch" /\ Dispatched(r.task)

EndedIn(c, n) == \E i \in lapsed + 1..n : i \in 1..Len(inbox) /\ inbox[i].kind \in EndKinds /\ inbox[i].task = c
Behind(c, k) == Dispatched(c) /\ \A i \in 1..Len(inbox) : IsDispatch(i, c) => i < k
PollKnows(v, c) == visits[v].on => \/ EndedIn(c, visits[v].floor) \/ Behind(c, visits[v].since)
                                   \/ c \in recent /\ c \in visits[v].over /\ EndedIn(c, Len(inbox))
EndIsKnown(c) == /\ EndedIn(c, Len(inbox)) \/ Behind(c, cursor)
                 /\ \A v \in Inboxes : PollKnows(v, c)
PutOnce(c) == puts[c] <= 1 + endsLost[c] /\ (puts[c] = 1 + endsLost[c] /\ run[c] = "idle" => EndIsKnown(c))
PutInv == \A c \in Errands \ unended : PutOnce(c)
AdaptersInv == AdapterTypes /\ InOrder /\ PutInv

LEMMA EndedMeansDispatched ==
  ASSUME AdapterTypes, InOrder, NEW c \in Errands, EndedIn(c, Len(inbox))
  PROVE  Dispatched(c)
<1>1. PICK i \in lapsed + 1..Len(inbox) : i \in 1..Len(inbox) /\ inbox[i].kind \in EndKinds /\ inbox[i].task = c
  BY DEF EndedIn
<1>2. PICK j \in 1..i : IsDispatch(j, c)
  BY <1>1 DEF InOrder, Follows
<1> QED
  BY <1>2 DEF Dispatched, IsDispatch

\* An end that no longer lies in the window has its dispatch behind it.
LEMMA EndedMeansBehind ==
  ASSUME AdapterTypes, InOrder, NEW c \in Errands, Ended(c), NEW k \in Nat, lapsed < k
  PROVE  EndedIn(c, Len(inbox)) \/ Behind(c, k)
<1>1. PICK i \in 1..Len(inbox) : inbox[i].kind \in EndKinds /\ inbox[i].task = c
  BY DEF Ended, RowsOf
<1>2. PICK j \in 1..i : IsDispatch(j, c)
  BY <1>1 DEF InOrder, Follows
<1>3. Len(inbox) \in Nat /\ lapsed \in Nat
  BY DEF AdapterTypes
<1>4. CASE i > lapsed
  BY <1>1, <1>3, <1>4 DEF EndedIn
<1>5. CASE ~(i > lapsed)
  <2>1. j < k /\ j \in 1..Len(inbox)
    BY <1>2, <1>3, <1>5 DEF IsDispatch
  <2>2. \A d \in 1..Len(inbox) : IsDispatch(d, c) => d = j
    BY <1>2, <2>1 DEF InOrder
  <2> QED
    BY <1>2, <2>1, <2>2 DEF Behind, Dispatched
<1> QED
  BY <1>4, <1>5

\* The log only grows, and what lies in it stays.
InboxKept ==
  /\ Len(inbox) \in Nat /\ Len(inbox') \in Nat /\ Len(inbox) <= Len(inbox')
  /\ \A i \in 1..Len(inbox) : inbox'[i] = inbox[i]

LEMMA InboxGrows ==
  ASSUME inbox \in Seq(InboxRows), UNCHANGED inbox \/ \E r \in InboxRows : inbox' = Append(inbox, r)
  PROVE  InboxKept
  BY DEF InboxKept

LEMMA EndsStay ==
  ASSUME InboxKept, UNCHANGED lapsed, lapsed \in Nat, NEW n \in Nat, NEW m \in Nat, n <= m, NEW c, EndedIn(c, n)
  PROVE  \E i \in lapsed + 1..m : i \in 1..Len(inbox') /\ inbox'[i].kind \in EndKinds /\ inbox'[i].task = c
<1>1. PICK i \in lapsed + 1..n : i \in 1..Len(inbox) /\ inbox[i].kind \in EndKinds /\ inbox[i].task = c
  BY DEF EndedIn
<1>2. i \in lapsed + 1..m /\ i \in 1..Len(inbox') /\ inbox'[i] = inbox[i]
  BY <1>1 DEF InboxKept
<1> QED
  BY <1>1, <1>2

\* No other row becomes a dispatch of the task.
DispatchesKept(c) ==
  \A i \in 1..Len(inbox') : IsDispatch(i, c)' => i \in 1..Len(inbox) /\ IsDispatch(i, c)

LEMMA DispatchedStays ==
  ASSUME InboxKept, NEW c, Dispatched(c)
  PROVE  Dispatched(c)'
<1>1. PICK i \in 1..Len(inbox) : IsDispatch(i, c)
  BY DEF Dispatched
<1>2. i \in 1..Len(inbox') /\ inbox'[i] = inbox[i]
  BY DEF InboxKept
<1>3. IsDispatch(i, c)'
  BY <1>1, <1>2 DEF IsDispatch
<1> QED
  BY <1>2, <1>3 DEF Dispatched

LEMMA BehindStays ==
  ASSUME InboxKept, NEW c, DispatchesKept(c), NEW k \in Nat, NEW m \in Nat, k <= m, Behind(c, k)
  PROVE  Dispatched(c)' /\ \A i \in 1..Len(inbox') : IsDispatch(i, c)' => i < m
<1>1. Dispatched(c)'
  BY DispatchedStays DEF Behind
<1>2. ASSUME NEW i \in 1..Len(inbox'), IsDispatch(i, c)' PROVE i < m
  <2>1. i < k
    BY <1>2 DEF DispatchesKept, Behind
  <2> QED
    BY <2>1
<1> QED
  BY <1>1, <1>2

\* A task that was dispatched is not dispatched again.
LEMMA KeepsDispatches ==
  ASSUME inbox \in Seq(InboxRows), NEW c \in Errands,
         \/ UNCHANGED inbox
         \/ \E r \in InboxRows : inbox' = Append(inbox, r) /\ (r.kind = "dispatch" => r.task # c)
  PROVE  DispatchesKept(c)
<1>1. CASE UNCHANGED inbox
  BY <1>1 DEF DispatchesKept, IsDispatch
<1>2. ASSUME NEW r \in InboxRows, inbox' = Append(inbox, r), r.kind = "dispatch" => r.task # c
      PROVE  DispatchesKept(c)
  <2>1. SUFFICES ASSUME NEW i \in 1..Len(inbox'), IsDispatch(i, c)' PROVE i \in 1..Len(inbox) /\ IsDispatch(i, c)
    BY DEF DispatchesKept
  <2>2. inbox'[i].kind = "dispatch" /\ inbox'[i].task = c
    BY <2>1 DEF IsDispatch
  <2>3. Len(inbox) \in Nat /\ Len(inbox') = Len(inbox) + 1 /\ inbox'[Len(inbox) + 1] = r
        /\ \A j \in 1..Len(inbox) : inbox'[j] = inbox[j]
    BY <1>2
  <2>4. i # Len(inbox) + 1
    BY <1>2, <2>2, <2>3
  <2>5. i \in 1..Len(inbox)
    BY <2>3, <2>4
  <2> QED
    BY <2>2, <2>3, <2>5 DEF IsDispatch
<1> QED
  BY <1>1, <1>2

\* What a step leaves alone keeps what is known of a task.
LEMMA TaskUndisturbed ==
  ASSUME AdapterTypes, AdapterTypes', PutInv, NEW c \in Errands, c \notin unended,
         puts'[c] = puts[c], UNCHANGED <<lapsed, endsLost>>,
         run'[c] = "idle" => run[c] = "idle",
         InboxKept, EndIsKnown(c) => DispatchesKept(c),
         c \in recent => c \in recent',
         EndIsKnown(c) => \/ cursor <= cursor'
                          \/ EndedIn(c, Len(inbox))
                          \/ Behind(c, cursor') /\ UNCHANGED inbox,
         \A v \in Inboxes : visits'[v].on => /\ visits[v].on /\ visits'[v].floor = visits[v].floor
                                             /\ visits'[v].since = visits[v].since
                                             /\ c \in visits[v].over => c \in visits'[v].over
  PROVE  PutOnce(c)'
<1>1. PutOnce(c) /\ UNCHANGED endsLost
  BY DEF PutInv
<1>2. SUFFICES ASSUME puts'[c] = 1 + endsLost'[c], run'[c] = "idle" PROVE EndIsKnown(c)'
  BY <1>1 DEF PutOnce
<1>3. EndIsKnown(c)
  BY <1>1, <1>2 DEF PutOnce
<1>4. Len(inbox) \in Nat /\ Len(inbox') \in Nat /\ Len(inbox) <= Len(inbox') /\ lapsed \in Nat /\ lapsed' = lapsed
  BY DEF AdapterTypes, InboxKept
<1>4a. cursor \in Nat /\ cursor' \in Nat
  BY DEF AdapterTypes
<1>k. InboxKept /\ DispatchesKept(c)
  BY <1>3
<1>ei. EndedIn(c, Len(inbox)) => EndedIn(c, Len(inbox))'
  <2>1. SUFFICES ASSUME EndedIn(c, Len(inbox)) PROVE EndedIn(c, Len(inbox))'
    OBVIOUS
  <2>2. \E i \in lapsed + 1..Len(inbox') : i \in 1..Len(inbox') /\ inbox'[i].kind \in EndKinds /\ inbox'[i].task = c
    BY <1>4, <2>1, EndsStay
  <2> QED
    BY <1>4, <2>2 DEF EndedIn
<1>5. (EndedIn(c, Len(inbox)) \/ Behind(c, cursor))'
  <2>1. CASE EndedIn(c, Len(inbox))
    BY <1>ei, <2>1
  <2>2. CASE cursor <= cursor' /\ Behind(c, cursor)
    <3>1. Dispatched(c)' /\ \A i \in 1..Len(inbox') : IsDispatch(i, c)' => i < cursor'
      BY <1>k, <1>4a, <2>2, BehindStays
    <3> QED
      BY <3>1 DEF Behind
  <2>3. CASE Behind(c, cursor') /\ UNCHANGED inbox
    BY <2>3 DEF Behind, Dispatched, IsDispatch
  <2> QED
    BY <1>3, <2>1, <2>2, <2>3 DEF EndIsKnown
<1>6. ASSUME NEW v \in Inboxes PROVE PollKnows(v, c)'
  <2>1. SUFFICES ASSUME visits'[v].on
                 PROVE (\/ EndedIn(c, visits[v].floor) \/ Behind(c, visits[v].since)
                        \/ c \in recent /\ c \in visits[v].over /\ EndedIn(c, Len(inbox)))'
    BY DEF PollKnows
  <2>2. /\ visits[v].on /\ visits'[v].floor = visits[v].floor /\ visits'[v].since = visits[v].since
        /\ c \in visits[v].over => c \in visits'[v].over
    BY <2>1
  <2>3. CASE c \in recent /\ c \in visits[v].over /\ EndedIn(c, Len(inbox))
    BY <1>ei, <2>2, <2>3
  <2>t. visits[v].floor \in Nat /\ visits[v].since \in Nat
    BY DEF AdapterTypes, InboxVisit
  <2>4. CASE EndedIn(c, visits[v].floor)
    <3>1. \E i \in lapsed + 1..visits[v].floor : i \in 1..Len(inbox') /\ inbox'[i].kind \in EndKinds /\ inbox'[i].task = c
      BY <1>4, <2>4, <2>t, EndsStay
    <3>2. EndedIn(c, visits[v].floor)'
      BY <1>4, <2>2, <3>1 DEF EndedIn
    <3> QED
      BY <3>2
  <2>5. CASE Behind(c, visits[v].since)
    <3>1. Dispatched(c)' /\ \A i \in 1..Len(inbox') : IsDispatch(i, c)' => i < visits[v].since
      BY <1>k, <2>5, <2>t, BehindStays
    <3>2. Behind(c, visits[v].since)'
      BY <2>2, <3>1 DEF Behind
    <3> QED
      BY <3>2
  <2> QED
    BY <1>3, <2>2, <2>3, <2>4, <2>5 DEF EndIsKnown, PollKnows
<1> QED
  BY <1>5, <1>6 DEF EndIsKnown

LEMMA CursorsAreNumbers ==
  ASSUME AdapterTypes, NEW since \in Nat, NEW n \in 0..Len(inbox)
  PROVE  NextCursor(since, n) \in Nat /\ NextCursor(since, n) >= since
<1> DEFINE new == {i \in 1..n : inbox[i].kind = "dispatch" /\ i > since}
<1>1. n \in Nat /\ new \subseteq 0..n
  BY DEF AdapterTypes
<1>2. CASE new = {}
  BY <1>2 DEF NextCursor
<1>3. CASE new # {}
  <2> HIDE DEF new
  <2>1. \E i \in new : \A j \in new : j <= i
    BY <1>1, <1>3, HasGreatest
  <2>2. (CHOOSE i \in new : \A j \in new : j <= i) \in new
    BY <2>1
  <2>n. \A x \in new : x \in Nat
    BY <1>1
  <2>3. (CHOOSE i \in new : \A j \in new : j <= i) \in Nat
    BY <2>n, <2>2, Zenon
  <2>g. \A x \in new : x > since
    BY DEF new
  <2>4. (CHOOSE i \in new : \A j \in new : j <= i) > since
    BY <2>g, <2>2, Zenon
  <2>5. NextCursor(since, n) = CHOOSE i \in new : \A j \in new : j <= i
    BY <1>3 DEF NextCursor, new
  <2> DEFINE k == CHOOSE i \in new : \A j \in new : j <= i
  <2> HIDE DEF k
  <2>6. k \in Nat /\ k > since /\ NextCursor(since, n) = k
    BY <2>3, <2>4, <2>5 DEF k
  <2> QED
    BY <2>6
<1> QED
  BY <1>2, <1>3

\* Starting again: nothing is remembered, and the cursor is somewhere.
LEMMA DyingKeepsTypes ==
  ASSUME AdapterTypes, Dies, UNCHANGED <<lapsed, endsLost, inbox, puts>>
  PROVE  AdapterTypes'
<1>1. cursor' \in Nat
  BY DEF AdapterTypes, Dies
<1>2. NoInboxPoll \in InboxVisit /\ NoInboxPoll.floor = 0
  BY DEF NoInboxPoll, InboxVisit
<1>3. visits' \in [Inboxes -> InboxVisit] /\ \A v \in Inboxes : visits'[v].floor <= Len(inbox')
  BY <1>2 DEF AdapterTypes, Dies
<1> QED
  BY <1>1, <1>3 DEF AdapterTypes, Dies, RunStates

LEMMA AdapterTypesKept ==
  ASSUME AdapterTypes, [AdaptersNext]_adapterVars
  PROVE  AdapterTypes'
<1> USE DEF RunStates
<1>n. Len(inbox) \in Nat /\ inbox \in Seq(InboxRows)
  BY DEF AdapterTypes
<1>w. ASSUME NEW v \in Inboxes PROVE visits[v] \in InboxVisit /\ visits[v].floor \in Nat /\ visits[v].floor <= Len(inbox)
  BY DEF AdapterTypes, InboxVisit
<1>e. NoInboxPoll \in InboxVisit /\ NoInboxPoll.floor = 0
  BY DEF NoInboxPoll, InboxVisit
<1>1. ASSUME NEW c \in Errands, Approve(c) PROVE AdapterTypes'
  <2>1. InboxRow("dispatch", c) \in InboxRows
    BY DEF InboxRow, InboxRows
  <2>2. inbox' \in Seq(InboxRows) /\ Len(inbox') \in Nat /\ Len(inbox) <= Len(inbox')
    BY <1>1, <1>n, <2>1 DEF Approve
  <2>3. lapsed' \in 0..Len(inbox') /\ \A v \in Inboxes : visits[v].floor <= Len(inbox')
    BY <1>1, <1>n, <1>w, <2>2 DEF AdapterTypes, Approve
  <2> QED
    BY <1>1, <2>2, <2>3 DEF AdapterTypes, Approve, memory
<1>2. ASSUME NEW v \in Inboxes, PollStarts(v) PROVE AdapterTypes'
  <2> DEFINE started == [NoInboxPoll EXCEPT !.on = TRUE, !.since = cursor, !.floor = Len(inbox)]
  <2>1. started \in InboxVisit /\ started.floor = Len(inbox)
    BY <1>n DEF AdapterTypes, NoInboxPoll, InboxVisit
  <2>2. visits' = [visits EXCEPT ![v] = started]
    BY <1>2 DEF PollStarts
  <2> HIDE DEF started
  <2>3. visits' \in [Inboxes -> InboxVisit] /\ \A u \in Inboxes : visits'[u].floor <= Len(inbox)
    BY <1>n, <1>w, <2>1, <2>2 DEF AdapterTypes
  <2> QED
    BY <1>2, <2>3 DEF AdapterTypes, PollStarts, memory
<1>3. ASSUME NEW v \in Inboxes, PollReturns(v) PROVE AdapterTypes'
  <2>1. visits' = [visits EXCEPT ![v] = NoInboxPoll]
    BY <1>3 DEF PollReturns
  <2>2. visits' \in [Inboxes -> InboxVisit] /\ \A u \in Inboxes : visits'[u].floor <= Len(inbox)
    BY <1>n, <1>w, <1>e, <2>1 DEF AdapterTypes
  <2>3. PICK n \in visits[v].floor..Len(inbox), new \in SUBSET Errands :
          LET spawned == new \ Commandless
          IN  /\ run' = [c \in Errands |-> IF c \in spawned THEN "initialize" ELSE run[c]]
              /\ proc' = [c \in Errands |-> IF c \in spawned THEN "up" ELSE proc[c]]
              /\ puts' = [c \in Errands |-> puts[c] + IF c \in spawned THEN 1 ELSE 0]
              /\ replies' = replies \cup {InboxRow("error", c) : c \in new \cap Commandless}
              /\ cursor' = IF visits[v].old THEN cursor ELSE NextCursor(visits[v].since, n)
    <3>1. PICK n \in visits[v].floor..Len(inbox) : \E later \in n..Len(inbox) :
            LET new == NewTasks(DueTasks(visits[v].since, n, later))
                spawned == new \ Commandless
            IN  /\ run' = [c \in Errands |-> IF c \in spawned THEN "initialize" ELSE run[c]]
                /\ proc' = [c \in Errands |-> IF c \in spawned THEN "up" ELSE proc[c]]
                /\ puts' = [c \in Errands |-> puts[c] + IF c \in spawned THEN 1 ELSE 0]
                /\ replies' = replies \cup {InboxRow("error", c) : c \in new \cap Commandless}
                /\ cursor' = IF visits[v].old THEN cursor ELSE NextCursor(visits[v].since, n)
      BY <1>3 DEF PollReturns
    <3>2. \A later : NewTasks(DueTasks(visits[v].since, n, later)) \in SUBSET Errands
      BY DEF NewTasks, DueTasks
    <3> QED
      BY <3>1, <3>2
  <2>4. run' \in [Errands -> RunStates]
    BY <2>3 DEF AdapterTypes, AcpRequests
  <2>5. proc' \in [Errands -> {"none", "up", "closing"}]
    BY <2>3 DEF AdapterTypes
  <2>6. puts' \in [Errands -> Nat]
    BY <2>3 DEF AdapterTypes
  <2>7. replies' \subseteq InboxRows
    BY <2>3 DEF AdapterTypes, InboxRow, InboxRows
  <2>8. cursor' \in Nat
    <3>1. visits[v].since \in Nat /\ n \in 0..Len(inbox)
      BY <1>n, <1>w DEF InboxVisit
    <3>2. NextCursor(visits[v].since, n) \in Nat
      BY <3>1, CursorsAreNumbers
    <3> QED
      BY <2>3, <3>2 DEF AdapterTypes
  <2> QED
    BY <1>3, <2>2, <2>4, <2>5, <2>6, <2>7, <2>8 DEF AdapterTypes, PollReturns
<1>4. ASSUME NEW v \in Inboxes, InboxFails(v) PROVE AdapterTypes'
  <2>1. visits' = [visits EXCEPT ![v] = NoInboxPoll]
    BY <1>4 DEF InboxFails
  <2>2. visits' \in [Inboxes -> InboxVisit] /\ \A u \in Inboxes : visits'[u].floor <= Len(inbox)
    BY <1>n, <1>w, <1>e, <2>1 DEF AdapterTypes
  <2> QED
    BY <1>4, <2>2 DEF AdapterTypes, InboxFails, memory
<1>5. ASSUME NEW c \in Errands, Answers(c) \/ Refuses(c) \/ TimesOut(c) PROVE AdapterTypes'
  <2>1. UNCHANGED <<inbox, cursor, visits, proc, recent, puts, lapsed, endsLost>>
    BY <1>5 DEF Answers, Refuses, TimesOut
  <2>2. run' \in [Errands -> RunStates]
    BY <1>5 DEF AdapterTypes, Answers, Refuses, TimesOut, Send, AcpRequests
  <2>3. replies' \subseteq InboxRows
    <3>1. replies' = replies \/ replies' = replies \cup {InboxRow("spawn", c)}
      BY <1>5 DEF Answers, Refuses, TimesOut, AcpRequests
    <3>2. InboxRow("spawn", c) \in InboxRows
      BY DEF InboxRow, InboxRows
    <3> QED
      BY <3>1, <3>2 DEF AdapterTypes
  <2> QED
    BY <2>1, <2>2, <2>3 DEF AdapterTypes
<1>6. ASSUME NEW c \in Errands, Exits(c) PROVE AdapterTypes'
  <2>1. CASE c \in dangling
    BY <1>6, <2>1, DyingKeepsTypes DEF Exits
  <2>2. CASE c \notin dangling
    BY <1>6, <2>2 DEF AdapterTypes, Exits
  <2> QED
    BY <2>1, <2>2
<1>7. ASSUME NEW c \in Errands, NEW ok \in BOOLEAN, NEW lands \in BOOLEAN, Reply(c, ok, lands) PROVE AdapterTypes'
  <2>1. InboxRow(run[c], c) \in InboxRows
    BY <1>7 DEF InboxRow, InboxRows, Reply
  <2>2. inbox' \in Seq(InboxRows) /\ Len(inbox') \in Nat /\ Len(inbox) <= Len(inbox')
    BY <1>7, <1>n, <2>1 DEF Reply
  <2>3. visits' \in [Inboxes -> InboxVisit] /\ \A v \in Inboxes : visits'[v].floor = visits[v].floor
    <3> DEFINE over(v) == IF visits[v].on THEN [visits[v] EXCEPT !.over = @ \cup {c}] ELSE visits[v]
    <3>1. \A v \in Inboxes : over(v) \in InboxVisit /\ over(v).floor = visits[v].floor
      BY <1>w DEF InboxVisit
    <3>2. visits' = visits \/ visits' = [v \in Inboxes |-> over(v)]
      BY <1>7 DEF Reply
    <3> HIDE DEF over
    <3> QED
      BY <3>1, <3>2 DEF AdapterTypes
  <2>l. lapsed' = lapsed /\ lapsed \in 0..Len(inbox)
    BY <1>7 DEF AdapterTypes, Reply
  <2>4. lapsed' \in 0..Len(inbox') /\ \A v \in Inboxes : visits'[v].floor <= Len(inbox')
    BY <1>n, <1>w, <2>2, <2>3, <2>l
  <2>5. /\ run' \in [Errands -> RunStates] /\ proc' \in [Errands -> {"none", "up", "closing"}]
        /\ recent' \subseteq Errands
    BY <1>7 DEF AdapterTypes, Reply
  <2> QED
    BY <1>7, <2>2, <2>3, <2>4, <2>5 DEF AdapterTypes, Reply
<1>8. ASSUME NEW c \in Errands, Forget(c) PROVE AdapterTypes'
  BY <1>8 DEF AdapterTypes, Forget
<1>9. ASSUME NEW r \in replies, Lands(r) PROVE AdapterTypes'
  <2>1. r \in InboxRows
    BY DEF AdapterTypes
  <2>2. inbox' \in Seq(InboxRows) /\ Len(inbox') \in Nat /\ Len(inbox) <= Len(inbox')
    BY <1>9, <1>n, <2>1 DEF Lands
  <2>3. lapsed' \in 0..Len(inbox') /\ \A v \in Inboxes : visits[v].floor <= Len(inbox')
    BY <1>9, <1>n, <1>w, <2>2 DEF AdapterTypes, Lands
  <2> QED
    BY <1>9, <2>2, <2>3 DEF AdapterTypes, Lands, memory
<1>10. ASSUME NEW r \in replies, IsLost(r) PROVE AdapterTypes'
  BY <1>10 DEF AdapterTypes, IsLost, memory
<1>11. ASSUME Reload PROVE AdapterTypes'
  <2> DEFINE reloaded(v) == [visits[v] EXCEPT !.old = visits[v].on]
  <2>1. \A v \in Inboxes : reloaded(v) \in InboxVisit /\ reloaded(v).floor = visits[v].floor
    BY <1>w DEF InboxVisit
  <2>2. visits' = [v \in Inboxes |-> reloaded(v)]
    BY <1>11 DEF Reload
  <2> HIDE DEF reloaded
  <2>3. visits' \in [Inboxes -> InboxVisit] /\ \A v \in Inboxes : visits'[v].floor <= Len(inbox)
    BY <1>w, <2>1, <2>2
  <2>4. cursor' \in Nat
    BY <1>n, <1>11 DEF AdapterTypes, Reload
  <2> QED
    BY <1>11, <2>3, <2>4 DEF AdapterTypes, Reload
<1>12. ASSUME AgentComesBack PROVE AdapterTypes'
  BY <1>12, DyingKeepsTypes DEF AgentComesBack
<1>13. ASSUME EndAges PROVE AdapterTypes'
  <2>0. UNCHANGED <<inbox, cursor, visits, run, proc, recent, replies, puts>>
    BY <1>13 DEF EndAges, memory
  <2>l. PICK i \in lapsed + 1..Len(inbox) : lapsed' = i
    BY <1>13 DEF EndAges
  <2>m. lapsed \in Nat
    BY <1>n DEF AdapterTypes
  <2>k. i \in 0..Len(inbox)
    BY <1>n, <2>m
  <2>1. lapsed' \in 0..Len(inbox) /\ UNCHANGED <<inbox, cursor, visits, run, proc, recent, replies, puts>>
    BY <2>0, <2>k, <2>l, Zenon
  <2>e. endsLost' = endsLost \/ \E d : endsLost' = [endsLost EXCEPT ![d] = @ + 1]
    BY <1>13, Zenon DEF EndAges
  <2>2. endsLost' \in [Errands -> Nat]
    BY <2>e DEF AdapterTypes
  <2> QED
    BY <2>1, <2>2 DEF AdapterTypes
<1>14. CASE UNCHANGED adapterVars
  BY <1>14 DEF AdapterTypes, adapterVars
<1> QED
  BY <1>1, <1>2, <1>3, <1>4, <1>5, <1>6, <1>7, <1>8, <1>9, <1>10, <1>11, <1>12, <1>13, <1>14
  DEF AdaptersNext, Progress, PollInbox

\* The order of the rows: a step adds no row, or one of a task that was dispatched, or
\* the dispatch of one that was not.
LEMMA OrderKept ==
  ASSUME AdapterTypes, InOrder, AdapterTypes',
         \/ UNCHANGED inbox
         \/ \E r \in InboxRows : /\ inbox' = Append(inbox, r)
                               /\ (r.kind = "dispatch") # Dispatched(r.task),
         \A c \in Errands : run'[c] # "idle" => run[c] # "idle" \/ Dispatched(c),
         \A r \in replies' : r \in replies \/ (r.kind # "dispatch" /\ Dispatched(r.task))
  PROVE  InOrder'
<1>1. InboxKept
  BY InboxGrows DEF AdapterTypes
<1>2. \A c : Dispatched(c) => Dispatched(c)'
  BY <1>1, DispatchedStays
<1>3. ASSUME NEW c \in Errands, run'[c] # "idle" PROVE Dispatched(c)'
  BY <1>2, <1>3 DEF InOrder
<1>4. ASSUME NEW r \in replies' PROVE r.kind # "dispatch" /\ Dispatched(r.task)'
  BY <1>2 DEF InOrder
<1>5. ASSUME NEW i \in 1..Len(inbox), Follows(i) PROVE Follows(i)'
  <2>1. PICK j \in 1..i : IsDispatch(j, inbox[i].task)
    BY <1>5 DEF Follows
  <2>2. j \in 1..Len(inbox) /\ inbox'[i] = inbox[i] /\ inbox'[j] = inbox[j] /\ j \in 1..Len(inbox')
    BY <1>1, <2>1 DEF InboxKept, IsDispatch
  <2> QED
    BY <2>1, <2>2 DEF Follows, IsDispatch
<1>6. CASE UNCHANGED inbox
  <2>1. \A i \in 1..Len(inbox') : Follows(i)'
    BY <1>5, <1>6 DEF InOrder
  <2>2. \A c \in Errands : \A i, j \in 1..Len(inbox') : IsDispatch(i, c)' /\ IsDispatch(j, c)' => i = j
    BY <1>6 DEF InOrder, IsDispatch
  <2> QED
    BY <1>3, <1>4, <2>1, <2>2 DEF InOrder
<1>7. ASSUME NEW r \in InboxRows, inbox' = Append(inbox, r), (r.kind = "dispatch") # Dispatched(r.task),
             NEW n, n = Len(inbox) + 1
      PROVE  InOrder'
  <2>1. Len(inbox) \in Nat /\ Len(inbox') = n /\ inbox'[n] = r /\ \A i \in 1..Len(inbox) : inbox'[i] = inbox[i]
    BY <1>7 DEF AdapterTypes
  <2>n. n = Len(inbox) + 1
    BY <1>7
  <2>2. Follows(n)'
    <3>1. CASE r.kind = "dispatch"
      BY <2>1, <2>n, <3>1 DEF Follows, IsDispatch
    <3>2. CASE r.kind # "dispatch"
      <4>1. PICK j \in 1..Len(inbox) : IsDispatch(j, r.task)
        BY <1>7, <3>2 DEF Dispatched
      <4>2. j \in 1..n /\ j \in 1..Len(inbox') /\ inbox'[j] = inbox[j]
        BY <2>1, <2>n
      <4> QED
        BY <2>1, <4>1, <4>2 DEF Follows, IsDispatch
    <3> QED
      BY <3>1, <3>2
  <2>3. \A i \in 1..Len(inbox') : Follows(i)'
    <3>1. \A i \in 1..Len(inbox') : i \in 1..Len(inbox) \/ i = n
      BY <2>1, <2>n
    <3> QED
      BY <1>5, <2>2, <3>1 DEF InOrder
  <2>4. ASSUME NEW c \in Errands, NEW i \in 1..Len(inbox'), NEW j \in 1..Len(inbox'), IsDispatch(i, c)', IsDispatch(j, c)'
        PROVE  i = j
    <3>1. CASE r.kind = "dispatch" /\ r.task = c
      <4>1. \A k \in 1..Len(inbox) : ~IsDispatch(k, c)
        BY <1>7, <3>1 DEF Dispatched
      <4>2. \A k \in 1..Len(inbox) : ~IsDispatch(k, c)'
        BY <2>1, <4>1 DEF IsDispatch
      <4> QED
        BY <2>1, <2>n, <2>4, <4>2
    <3>2. CASE ~(r.kind = "dispatch" /\ r.task = c)
      <4>1. i # n /\ j # n
        BY <2>1, <2>4, <3>2 DEF IsDispatch
      <4>2. i \in 1..Len(inbox) /\ j \in 1..Len(inbox)
        BY <2>1, <2>n, <4>1
      <4>3. IsDispatch(i, c) /\ IsDispatch(j, c)
        BY <2>1, <2>4, <4>2 DEF IsDispatch
      <4> QED
        BY <4>2, <4>3 DEF InOrder
    <3> QED
      BY <3>1, <3>2
  <2> QED
    BY <1>3, <1>4, <2>3, <2>4 DEF InOrder
<1> QED
  BY <1>6, <1>7

LEMMA InOrderKept ==
  ASSUME AdapterTypes, InOrder, AdapterTypes', [AdaptersNext]_adapterVars
  PROVE  InOrder'
<1>1. ASSUME NEW c \in Errands, Approve(c) PROVE InOrder'
  <2>1. ~Dispatched(c) /\ InboxRow("dispatch", c) \in InboxRows
    BY <1>1 DEF Approve, RowsOf, Dispatched, IsDispatch, InboxRow, InboxRows
  <2>2. InboxRow("dispatch", c).kind = "dispatch" /\ InboxRow("dispatch", c).task = c
    BY DEF InboxRow
  <2>3. inbox' = Append(inbox, InboxRow("dispatch", c)) /\ UNCHANGED <<run, replies>>
    BY <1>1 DEF Approve, memory
  <2> QED
    BY <2>1, <2>2, <2>3, OrderKept
<1>2. ASSUME NEW v \in Inboxes, PollReturns(v) PROVE InOrder'
  <2>1. PICK new \in SUBSET {c \in Errands : Dispatched(c)} :
          LET spawned == new \ Commandless
          IN  /\ run' = [c \in Errands |-> IF c \in spawned THEN "initialize" ELSE run[c]]
              /\ replies' = replies \cup {InboxRow("error", c) : c \in new \cap Commandless}
    <3>1. PICK n \in visits[v].floor..Len(inbox) : \E later \in n..Len(inbox) :
            LET new == NewTasks(DueTasks(visits[v].since, n, later))
                spawned == new \ Commandless
            IN  /\ run' = [c \in Errands |-> IF c \in spawned THEN "initialize" ELSE run[c]]
                /\ replies' = replies \cup {InboxRow("error", c) : c \in new \cap Commandless}
      BY <1>2 DEF PollReturns
    <3>2. n \in Nat /\ n <= Len(inbox) /\ Len(inbox) \in Nat
      BY DEF AdapterTypes, InboxVisit
    <3>3. \A later : DueTasks(visits[v].since, n, later) \subseteq {c \in Errands : Dispatched(c)}
      BY <3>2 DEF DueTasks, RowsOf, Dispatched, IsDispatch
    <3>4. \A later : NewTasks(DueTasks(visits[v].since, n, later)) \in SUBSET {c \in Errands : Dispatched(c)}
      BY <3>3 DEF NewTasks
    <3> QED
      BY <3>1, <3>4
  <2>2. \A c \in Errands : run'[c] # "idle" => run[c] # "idle" \/ Dispatched(c)
    BY <2>1
  <2>3. \A r \in replies' : r \in replies \/ (r.kind # "dispatch" /\ Dispatched(r.task))
    BY <2>1 DEF InboxRow
  <2>4. UNCHANGED inbox
    BY <1>2 DEF PollReturns
  <2> QED
    BY <2>2, <2>3, <2>4, OrderKept
<1>3. ASSUME NEW v \in Inboxes, PollStarts(v) \/ InboxFails(v) PROVE InOrder'
  <2>1. UNCHANGED <<inbox, run, replies>>
    BY <1>3 DEF PollStarts, InboxFails, memory
  <2> QED
    BY <2>1, OrderKept
<1>4. ASSUME NEW c \in Errands, Answers(c) \/ Refuses(c) \/ TimesOut(c) PROVE InOrder'
  <2>u. UNCHANGED inbox /\ run[c] \in AcpRequests
    BY <1>4 DEF Answers, Refuses, TimesOut
  <2>v. run[c] # "idle"
    BY <2>u DEF AcpRequests
  <2>1. UNCHANGED inbox /\ run[c] # "idle" /\ Dispatched(c)
    BY <2>u, <2>v, Zenon DEF InOrder
  <2>r. \E x : run' = [run EXCEPT ![c] = x]
    BY <1>4 DEF AdapterTypes, Answers, Refuses, TimesOut, Send, AcpRequests
  <2>2. \A d \in Errands : run'[d] # "idle" => run[d] # "idle" \/ d = c
    BY <2>r DEF AdapterTypes
  <2>3. \A r \in replies' : r \in replies \/ r = InboxRow("spawn", c)
    BY <1>4 DEF Answers, Refuses, TimesOut, AcpRequests
  <2>4. \A r \in replies' : r \in replies \/ (r.kind # "dispatch" /\ Dispatched(r.task))
    BY <2>1, <2>3 DEF InboxRow
  <2> QED
    BY <2>1, <2>2, <2>4, OrderKept
<1>5. ASSUME Dies, UNCHANGED inbox PROVE InOrder'
  <2>1. replies' = {} /\ \A c \in Errands : run'[c] = "idle"
    BY <1>5 DEF Dies
  <2> QED
    BY <1>5, <2>1, OrderKept
<1>6. ASSUME NEW c \in Errands, Exits(c) PROVE InOrder'
  <2>1. CASE c \in dangling
    BY <1>5, <1>6, <2>1 DEF Exits
  <2>2. CASE c \notin dangling
    <3>1. UNCHANGED <<inbox, replies>> /\ \A d \in Errands : run'[d] # "idle" => run[d] # "idle"
      BY <1>6, <2>2 DEF AdapterTypes, Exits, AcpRequests
    <3> QED
      BY <3>1, OrderKept
  <2> QED
    BY <2>1, <2>2
<1>7. ASSUME NEW c \in Errands, NEW ok \in BOOLEAN, NEW lands \in BOOLEAN, Reply(c, ok, lands) PROVE InOrder'
  <2>1. run[c] \in EndKinds /\ Dispatched(c) /\ UNCHANGED replies
    BY <1>7 DEF Reply, EndKinds, InOrder
  <2>2. InboxRow(run[c], c) \in InboxRows /\ InboxRow(run[c], c).kind # "dispatch" /\ InboxRow(run[c], c).task = c
    BY <2>1 DEF InboxRow, InboxRows, EndKinds
  <2>3. UNCHANGED inbox \/ inbox' = Append(inbox, InboxRow(run[c], c))
    BY <1>7 DEF Reply
  <2>4. \A d \in Errands : run'[d] # "idle" => run[d] # "idle" \/ d = c
    BY <1>7 DEF AdapterTypes, Reply
  <2> QED
    BY <2>1, <2>2, <2>3, <2>4, OrderKept
<1>8. ASSUME NEW r \in replies, Lands(r) \/ IsLost(r) PROVE InOrder'
  <2>1. r \in InboxRows /\ r.kind # "dispatch" /\ Dispatched(r.task)
    BY DEF AdapterTypes, InOrder
  <2>2. (UNCHANGED inbox \/ inbox' = Append(inbox, r)) /\ replies' \subseteq replies /\ UNCHANGED run
    BY <1>8 DEF Lands, IsLost, memory
  <2> QED
    BY <2>1, <2>2, OrderKept
<1>9. ASSUME \/ \E c \in Errands : Forget(c)
             \/ Reload \/ EndAges \/ UNCHANGED adapterVars
      PROVE  InOrder'
  <2>1. UNCHANGED <<inbox, run, replies>>
    BY <1>9 DEF Forget, Reload, EndAges, adapterVars, memory
  <2> QED
    BY <2>1, OrderKept
<1>10. ASSUME AgentComesBack PROVE InOrder'
  BY <1>5, <1>10 DEF AgentComesBack
<1> QED
  BY <1>1, <1>2, <1>3, <1>4, <1>6, <1>7, <1>8, <1>9, <1>10
  DEF AdaptersNext, Progress, PollInbox

\* A task that is not under way after the plugin died has its end written, or is
\* among those of which the plugin may have heard nothing.
LEMMA DyingKeepsPuts ==
  ASSUME AdapterTypes, InOrder, PutInv, Dies, UNCHANGED <<lapsed, endsLost, inbox, puts>>
  PROVE  PutInv'
<1> SUFFICES ASSUME NEW c \in Errands, c \notin unended' PROVE PutOnce(c)'
  BY DEF PutInv
<1>1. c \notin unended /\ Ended(c)
  BY DEF Dies
<1>2. puts[c] <= 1 + endsLost[c]
  BY <1>1 DEF PutInv, PutOnce
<1>3. cursor' \in Nat /\ lapsed < cursor'
  BY DEF Dies, AdapterTypes
<1>4. EndedIn(c, Len(inbox)) \/ Behind(c, cursor')
  BY <1>1, <1>3, EndedMeansBehind
<1>5. EndedIn(c, Len(inbox))' \/ Behind(c, cursor)'
  BY <1>4 DEF EndedIn, Behind, Dispatched, IsDispatch
<1>6. \A v \in Inboxes : ~visits'[v].on
  BY DEF Dies, NoInboxPoll
<1> QED
  BY <1>2, <1>5, <1>6 DEF PutOnce, EndIsKnown, PollKnows

\* A task whose end is known is in no poll's answer that is taken for news.
LEMMA KnownIsNotNew ==
  ASSUME AdapterTypes, NEW c \in Errands, EndIsKnown(c), NEW v \in Inboxes, visits[v].on,
         NEW n \in Nat, visits[v].floor <= n, n <= Len(inbox), NEW later \in Nat, n <= later, later <= Len(inbox)
  PROVE  c \notin NewTasks(DueTasks(visits[v].since, n, later))
<1>t. visits[v].floor \in Nat /\ visits[v].since \in Nat /\ lapsed \in Nat
  BY DEF AdapterTypes, InboxVisit
<1>1. CASE c \in recent
  BY <1>1 DEF NewTasks
<1>2. CASE EndedIn(c, visits[v].floor)
  <2>1. PICK i \in lapsed + 1..visits[v].floor : i \in 1..Len(inbox) /\ inbox[i].kind \in EndKinds /\ inbox[i].task = c
    BY <1>2 DEF EndedIn
  <2>x. i \in Nat /\ lapsed < i /\ i <= visits[v].floor
    BY <1>t
  <2>2. i \in 1..later /\ i \notin 1..lapsed
    BY <1>t, <2>x, SMTT(30)
  <2>3. i \in RowsOf(EndKinds, c, later)
    BY <2>1, <2>2 DEF RowsOf
  <2> QED
    BY <2>2, <2>3 DEF NewTasks, DueTasks
<1>3. CASE Behind(c, visits[v].since)
  <2>1. ASSUME NEW i \in RowsOf({"dispatch"}, c, n) PROVE ~(i >= visits[v].since)
    <3>1. i \in 1..n /\ inbox[i].kind = "dispatch" /\ inbox[i].task = c
      BY DEF RowsOf
    <3>2. i \in 1..Len(inbox) /\ IsDispatch(i, c)
      BY <3>1 DEF IsDispatch, AdapterTypes
    <3>3. i < visits[v].since
      BY <1>3, <3>2 DEF Behind
    <3> QED
      BY <1>t, <3>1, <3>3
  <2> QED
    BY <2>1 DEF NewTasks, DueTasks
<1> QED
  BY <1>1, <1>2, <1>3 DEF EndIsKnown, PollKnows

\* An end that gets out of the window unnoticed is counted; after any other the tasks
\* are known as before.
LEMMA AgingKeepsPuts ==
  ASSUME AdapterTypes, AdapterTypes', InOrder, PutInv, EndAges
  PROVE  PutInv'
<1> SUFFICES ASSUME NEW c \in Errands, c \notin unended' PROVE PutOnce(c)'
  BY DEF PutInv
<1>1. UNCHANGED <<inbox, cursor, visits, run, puts, unended>> /\ PutOnce(c)
  BY DEF EndAges, memory, PutInv
<1>2. PICK i \in lapsed + 1..Len(inbox) :
        /\ inbox[i].kind \in EndKinds
        /\ \A j \in lapsed + 1..i - 1 : inbox[j].kind \notin EndKinds
        /\ \A v \in Inboxes : visits[v].on => i <= visits[v].floor
        /\ lapsed' = i
        /\ endsLost' = IF EndIsLost(inbox[i].task, i) THEN [endsLost EXCEPT ![inbox[i].task] = @ + 1] ELSE endsLost
  BY DEF EndAges
<1>t. /\ Len(inbox) \in Nat /\ lapsed \in Nat /\ lapsed < i /\ i <= Len(inbox) /\ i \in Nat /\ cursor \in Nat
      /\ puts[c] \in Nat /\ endsLost[c] \in Nat
  BY DEF AdapterTypes
<1>w. ASSUME NEW v \in Inboxes PROVE visits[v].floor \in Nat /\ visits[v].since \in Nat /\ visits[v].floor <= Len(inbox)
  BY DEF AdapterTypes, InboxVisit
<1>3. CASE inbox[i].task # c
  <2>1. endsLost'[c] = endsLost[c]
    BY <1>2, <1>3 DEF AdapterTypes
  <2>2. ASSUME NEW n \in Nat, EndedIn(c, n) PROVE \E j \in i + 1..n : j \in 1..Len(inbox) /\ inbox[j].kind \in EndKinds /\ inbox[j].task = c
    <3>1. PICK j \in lapsed + 1..n : j \in 1..Len(inbox) /\ inbox[j].kind \in EndKinds /\ inbox[j].task = c
      BY <2>2 DEF EndedIn
    <3>2. j \notin lapsed + 1..i - 1 /\ j # i
      BY <1>2, <1>3, <3>1
    <3>x. j \in Int /\ lapsed < j /\ j <= n
      BY <1>t, <3>1, SMTT(30)
    <3>3. j \in i + 1..n
      BY <1>t, <3>2, <3>x, SMTT(30)
    <3> QED
      BY <3>1, <3>3
  <2>3. EndedIn(c, Len(inbox)) => EndedIn(c, Len(inbox))'
    BY <1>1, <1>2, <1>t, <2>2 DEF EndedIn
  <2>4. ASSUME NEW v \in Inboxes, EndedIn(c, visits[v].floor) PROVE EndedIn(c, visits[v].floor)'
    BY <1>1, <1>2, <1>w, <2>2, <2>4 DEF EndedIn
  <2>5. UNCHANGED recent
    BY DEF EndAges, memory
  <2>6. EndIsKnown(c) => EndIsKnown(c)'
    <3>1. \A k : Behind(c, k) => (\A i_1 \in 1..Len(inbox) : IsDispatch(i_1, c) => i_1 < k) /\ Dispatched(c)
      BY DEF Behind
    <3>2. Behind(c, cursor) => Behind(c, cursor)'
      BY <1>1 DEF Behind, Dispatched, IsDispatch
    <3>3. \A v \in Inboxes : Behind(c, visits[v].since) => Behind(c, visits[v].since)'
      BY <1>1 DEF Behind, Dispatched, IsDispatch
    <3>4. \A v \in Inboxes : PollKnows(v, c) => PollKnows(v, c)'
      BY <1>1, <2>3, <2>4, <2>5, <3>3 DEF PollKnows
    <3> QED
      BY <2>3, <3>2, <3>4 DEF EndIsKnown
  <2> QED
    BY <1>1, <2>1, <2>6 DEF PutOnce
<1>4. CASE inbox[i].task = c /\ EndIsLost(c, i)
  <2>1. endsLost'[c] = endsLost[c] + 1
    BY <1>2, <1>4 DEF AdapterTypes
  <2> QED
    BY <1>1, <1>t, <2>1 DEF PutOnce
<1>5. CASE inbox[i].task = c /\ ~EndIsLost(c, i)
  <2>1. endsLost'[c] = endsLost[c]
    BY <1>2, <1>5 DEF AdapterTypes
  <2>2. Dispatched(c)
    <3>1. EndedIn(c, Len(inbox))
      BY <1>2, <1>5, <1>t DEF EndedIn
    <3> QED
      BY <3>1, EndedMeansDispatched
  <2>3. ASSUME NEW k \in Nat, NEW n \in Nat, n <= Len(inbox), ~Unhidden(c, k, n, i)
        PROVE  \/ \A d \in 1..Len(inbox) : IsDispatch(d, c) => d < k
               \/ \E j \in i + 1..n : j \in 1..Len(inbox) /\ inbox[j].kind \in EndKinds /\ inbox[j].task = c
    <3>1. CASE \A d \in RowsOf({"dispatch"}, c, Len(inbox)) : ~(d >= k)
      <4>1. \A d \in 1..Len(inbox) : IsDispatch(d, c) => d \in RowsOf({"dispatch"}, c, Len(inbox))
        BY DEF IsDispatch, RowsOf
      <4>2. \A d \in 1..Len(inbox) : IsDispatch(d, c) => ~(d >= k)
        BY <3>1, <4>1
      <4>3. \A d \in 1..Len(inbox) : ~(d >= k) => d < k
        BY <2>3
      <4> QED
        BY <4>2, <4>3
    <3>2. CASE \E j \in RowsOf(EndKinds, c, n) : j \notin 1..i
      <4>1. PICK j \in 1..n : inbox[j].kind \in EndKinds /\ inbox[j].task = c /\ j \notin 1..i
        BY <3>2 DEF RowsOf
      <4>x. j \in Nat /\ 1 <= j /\ j <= n /\ ~(j <= i)
        BY <1>t, <2>3, <4>1, SMTT(30)
      <4>2. j \in i + 1..n /\ j \in 1..Len(inbox)
        BY <1>t, <2>3, <4>x, SMTT(30)
      <4> QED
        BY <4>1, <4>2
    <3> QED
      BY <2>3, <3>1, <3>2 DEF Unhidden
  <2>4. (EndedIn(c, Len(inbox)) \/ Behind(c, cursor))'
    <3>1. \/ \A d \in 1..Len(inbox) : IsDispatch(d, c) => d < cursor
          \/ \E j \in i + 1..Len(inbox) : j \in 1..Len(inbox) /\ inbox[j].kind \in EndKinds /\ inbox[j].task = c
      <4>1. ~Unhidden(c, cursor, Len(inbox), i)
        BY <1>5 DEF EndIsLost
      <4>2. cursor \in Nat /\ Len(inbox) \in Nat /\ Len(inbox) <= Len(inbox)
        BY <1>t
      <4> QED
        BY <2>3, <4>1, <4>2
    <3> QED
      BY <1>1, <1>2, <2>2, <3>1 DEF EndedIn, Behind, Dispatched, IsDispatch
  <2>5. ASSUME NEW v \in Inboxes PROVE PollKnows(v, c)'
    <3> SUFFICES ASSUME visits[v].on PROVE (EndedIn(c, visits[v].floor) \/ Behind(c, visits[v].since))'
      BY <1>1 DEF PollKnows
    <3>1. \/ \A d \in 1..Len(inbox) : IsDispatch(d, c) => d < visits[v].since
          \/ \E j \in i + 1..visits[v].floor : j \in 1..Len(inbox) /\ inbox[j].kind \in EndKinds /\ inbox[j].task = c
      <4>1. ~Unhidden(c, visits[v].since, visits[v].floor, i)
        BY <1>5 DEF EndIsLost
      <4>2. visits[v].since \in Nat /\ visits[v].floor \in Nat /\ visits[v].floor <= Len(inbox)
        BY <1>w
      <4> QED
        BY <2>3, <4>1, <4>2
    <3> QED
      BY <1>1, <1>2, <2>2, <3>1 DEF EndedIn, Behind, Dispatched, IsDispatch
  <2> QED
    BY <1>1, <2>1, <2>4, <2>5 DEF PutOnce, EndIsKnown
<1> QED
  BY <1>3, <1>4, <1>5

LEMMA PutInvKept ==
  ASSUME AdapterTypes, InOrder, PutInv, AdapterTypes', [AdaptersNext]_adapterVars
  PROVE  PutInv'
<1>n. Len(inbox) \in Nat /\ Len(inbox') \in Nat /\ inbox \in Seq(InboxRows)
  BY DEF AdapterTypes
<1>e. ~NoInboxPoll.on
  BY DEF NoInboxPoll
<1>w. ASSUME NEW v \in Inboxes PROVE visits[v] \in InboxVisit /\ visits[v].floor \in Nat /\ visits[v].floor <= Len(inbox)
  BY DEF AdapterTypes, InboxVisit
<1>s. ASSUME UNCHANGED inbox \/ \E r \in InboxRows : inbox' = Append(inbox, r)
      PROVE  InboxKept
  BY <1>s, <1>n, InboxGrows
<1>q. ASSUME NEW c \in Errands, \/ UNCHANGED inbox
                               \/ \E r \in InboxRows : inbox' = Append(inbox, r) /\ (r.kind = "dispatch" => r.task # c)
      PROVE  DispatchesKept(c)
  BY <1>q, <1>n, KeepsDispatches
<1>1. ASSUME NEW a \in Errands, Approve(a) PROVE PutInv'
  <2> SUFFICES ASSUME NEW c \in Errands, c \notin unended' PROVE PutOnce(c)'
    BY DEF PutInv
  <2>1. InboxRow("dispatch", a) \in InboxRows
    BY DEF InboxRow, InboxRows
  <2>2. InboxKept
    BY <1>1, <1>s, <2>1 DEF Approve
  <2>3. UNCHANGED <<lapsed, endsLost, cursor, visits, run, recent, puts, unended>>
    BY <1>1 DEF Approve, memory
  <2>4. ASSUME EndIsKnown(c) PROVE DispatchesKept(c)
    <3>1. Dispatched(c)
      BY <2>4, EndedMeansDispatched DEF EndIsKnown, Behind
    <3>2. a # c
      BY <1>1, <3>1 DEF Approve, Dispatched, IsDispatch, RowsOf
    <3> QED
      BY <1>1, <1>q, <2>1, <3>2 DEF Approve, InboxRow
  <2>5. cursor <= cursor'
    BY <2>3 DEF AdapterTypes
  <2> QED
    BY <2>2, <2>3, <2>4, <2>5, TaskUndisturbed
<1>2. ASSUME NEW a \in Inboxes, PollStarts(a) PROVE PutInv'
  <2> SUFFICES ASSUME NEW c \in Errands, c \notin unended' PROVE PutOnce(c)'
    BY DEF PutInv
  <2>1. PutOnce(c) /\ UNCHANGED <<lapsed, endsLost, cursor, inbox, run, recent, puts>>
    BY <1>2 DEF PutInv, PollStarts, memory
  <2>2. visits'[a].floor = Len(inbox) /\ visits'[a].since = cursor /\ \A v \in Inboxes \ {a} : visits'[v] = visits[v]
    BY <1>2 DEF PollStarts, NoInboxPoll, AdapterTypes
  <2>3. SUFFICES ASSUME EndIsKnown(c) PROVE EndIsKnown(c)'
    BY <2>1 DEF PutOnce
  <2>4. (EndedIn(c, Len(inbox)) \/ Behind(c, cursor)) /\ \A v \in Inboxes : PollKnows(v, c)
    BY <2>3 DEF EndIsKnown
  <2>n. (EndedIn(c, Len(inbox)) \/ Behind(c, cursor))'
    BY <2>1, <2>4 DEF EndedIn, Behind, Dispatched, IsDispatch
  <2>5. PollKnows(a, c)'
    BY <2>1, <2>2, <2>n DEF PollKnows, EndedIn, Behind
  <2>6. \A v \in Inboxes \ {a} : PollKnows(v, c)'
    BY <2>1, <2>2, <2>4 DEF PollKnows, EndedIn, Behind, Dispatched, IsDispatch
  <2> QED
    BY <2>n, <2>5, <2>6 DEF EndIsKnown
<1>3. ASSUME NEW a \in Inboxes, PollReturns(a) PROVE PutInv'
  <2> SUFFICES ASSUME NEW c \in Errands, c \notin unended' PROVE PutOnce(c)'
    BY DEF PutInv
  <2>1. PICK n \in visits[a].floor..Len(inbox) : \E later \in n..Len(inbox) :
          LET spawned == NewTasks(DueTasks(visits[a].since, n, later)) \ Commandless
          IN  /\ run' = [d \in Errands |-> IF d \in spawned THEN "initialize" ELSE run[d]]
              /\ puts' = [d \in Errands |-> puts[d] + IF d \in spawned THEN 1 ELSE 0]
              /\ cursor' = IF visits[a].old THEN cursor ELSE NextCursor(visits[a].since, n)
    BY <1>3 DEF PollReturns
  <2>2. PICK later \in n..Len(inbox) :
          LET spawned == NewTasks(DueTasks(visits[a].since, n, later)) \ Commandless
          IN  /\ run' = [d \in Errands |-> IF d \in spawned THEN "initialize" ELSE run[d]]
              /\ puts' = [d \in Errands |-> puts[d] + IF d \in spawned THEN 1 ELSE 0]
              /\ cursor' = IF visits[a].old THEN cursor ELSE NextCursor(visits[a].since, n)
    BY <2>1
  <2> DEFINE new == NewTasks(DueTasks(visits[a].since, n, later))
             spawned == new \ Commandless
  <2>3. n \in Nat /\ visits[a].floor <= n /\ n <= Len(inbox) /\ later \in Nat /\ n <= later /\ later <= Len(inbox)
    BY <1>n, <1>w
  <2>4. visits[a].on /\ UNCHANGED <<lapsed, endsLost, inbox, recent, unended>> /\ visits' = [visits EXCEPT ![a] = NoInboxPoll]
    BY <1>3 DEF PollReturns
  <2>5. \A v \in Inboxes : visits'[v].on => visits'[v] = visits[v]
    BY <1>e, <2>4 DEF AdapterTypes
  <2>6. new \subseteq Errands \ InFlight
    BY DEF NewTasks, DueTasks
  <2>7. EndIsKnown(c) => c \notin new
    BY <2>3, <2>4, KnownIsNotNew
  <2>p. \A d \in Errands : /\ run'[d] = (IF d \in spawned THEN "initialize" ELSE run[d])
                            /\ puts'[d] = puts[d] + IF d \in spawned THEN 1 ELSE 0
    BY <2>2
  <2>c. cursor' = cursor \/ cursor' = NextCursor(visits[a].since, n)
    BY <2>2
  <2> HIDE DEF new
  <2>8. CASE c \in spawned
    <3>1. run[c] = "idle" /\ run'[c] = "initialize" /\ puts'[c] = puts[c] + 1
      BY <2>p, <2>6, <2>8 DEF InFlight
    <3>2. PutOnce(c) /\ ~EndIsKnown(c)
      BY <2>4, <2>7, <2>8 DEF PutInv
    <3>3. puts[c] \in Nat /\ endsLost[c] \in Nat
      BY DEF AdapterTypes
    <3>4. puts[c] <= 1 + endsLost[c] /\ puts[c] # 1 + endsLost[c]
      BY <3>1, <3>2 DEF PutOnce
    <3>5. puts'[c] <= 1 + endsLost'[c]
      BY <2>4, <3>1, <3>3, <3>4
    <3> QED
      BY <3>1, <3>5 DEF PutOnce
  <2>9. CASE c \notin spawned
    <3>1. run'[c] = run[c] /\ puts'[c] = puts[c] + 0 /\ puts[c] \in Nat
      BY <2>p, <2>9 DEF AdapterTypes
    <3>2. puts'[c] = puts[c]
      BY <3>1
    <3>3. InboxKept /\ DispatchesKept(c)
      BY <1>s, <1>q, <2>4
    <3>4. ASSUME EndIsKnown(c)
          PROVE  cursor <= cursor' \/ EndedIn(c, Len(inbox)) \/ (Behind(c, cursor') /\ UNCHANGED inbox)
      <4>t. cursor \in Nat /\ visits[a].since \in Nat /\ visits[a].floor \in Nat /\ n \in 0..Len(inbox)
        BY <1>n, <1>w, <2>3 DEF AdapterTypes, InboxVisit
      <4>1. CASE cursor' = cursor
        BY <4>1, <4>t
      <4>2. CASE EndedIn(c, visits[a].floor)
        <5>1. \A i \in lapsed + 1..visits[a].floor : i \in 1..Len(inbox) => i \in lapsed + 1..Len(inbox)
          BY <1>n, <1>w DEF AdapterTypes
        <5> QED
          BY <4>2, <5>1 DEF EndedIn
      <4>3. CASE cursor' = NextCursor(visits[a].since, n) /\ Behind(c, visits[a].since)
        <5>1. cursor' \in Nat /\ visits[a].since <= cursor'
          BY <4>3, <4>t, CursorsAreNumbers
        <5>2. \A i \in 1..Len(inbox) : i < visits[a].since => i < cursor'
          BY <4>t, <5>1, <1>n, SMTT(30)
        <5> QED
          BY <2>4, <4>3, <5>2 DEF Behind
      <4> QED
        BY <2>4, <2>c, <3>4, <4>1, <4>2, <4>3 DEF EndIsKnown, PollKnows
    <3> QED
      BY <2>4, <2>5, <3>1, <3>2, <3>3, <3>4, TaskUndisturbed
  <2> QED
    BY <2>8, <2>9
<1>4. ASSUME NEW a \in Inboxes, InboxFails(a) PROVE PutInv'
  <2> SUFFICES ASSUME NEW c \in Errands, c \notin unended' PROVE PutOnce(c)'
    BY DEF PutInv
  <2>1. /\ UNCHANGED <<lapsed, endsLost, cursor, inbox, run, recent, puts, unended>>
        /\ visits' = [visits EXCEPT ![a] = NoInboxPoll]
    BY <1>4 DEF InboxFails, memory
  <2>2. \A v \in Inboxes : visits'[v].on => visits'[v] = visits[v]
    BY <1>e, <2>1 DEF AdapterTypes
  <2>3. InboxKept /\ DispatchesKept(c) /\ cursor <= cursor'
    BY <1>s, <1>q, <2>1 DEF AdapterTypes
  <2> QED
    BY <2>1, <2>2, <2>3, TaskUndisturbed
<1>5. ASSUME NEW a \in Errands, Answers(a) \/ Refuses(a) \/ TimesOut(a) PROVE PutInv'
  <2> SUFFICES ASSUME NEW c \in Errands, c \notin unended' PROVE PutOnce(c)'
    BY DEF PutInv
  <2>1. UNCHANGED <<lapsed, endsLost, cursor, inbox, visits, recent, puts, unended>>
    BY <1>5 DEF Answers, Refuses, TimesOut
  <2>2. run'[c] = "idle" => run[c] = "idle"
    BY <1>5 DEF AdapterTypes, Answers, Refuses, TimesOut, Send, AcpRequests
  <2>3. InboxKept /\ DispatchesKept(c) /\ cursor <= cursor'
    BY <1>s, <1>q, <2>1 DEF AdapterTypes
  <2> QED
    BY <2>1, <2>2, <2>3, TaskUndisturbed
<1>6. ASSUME NEW a \in Errands, Exits(a) PROVE PutInv'
  <2>1. CASE a \in dangling
    BY <1>6, <2>1, DyingKeepsPuts DEF Exits
  <2>2. CASE a \notin dangling
    <3> SUFFICES ASSUME NEW c \in Errands, c \notin unended' PROVE PutOnce(c)'
      BY DEF PutInv
    <3>1. UNCHANGED <<lapsed, endsLost, cursor, inbox, visits, recent, puts, unended>>
      BY <1>6, <2>2 DEF Exits
    <3>2. run'[c] = "idle" => run[c] = "idle"
      BY <1>6, <2>2 DEF AdapterTypes, Exits
    <3>3. InboxKept /\ DispatchesKept(c) /\ cursor <= cursor'
      BY <1>s, <1>q, <3>1 DEF AdapterTypes
    <3> QED
      BY <3>1, <3>2, <3>3, TaskUndisturbed
  <2> QED
    BY <2>1, <2>2
<1>7. ASSUME NEW a \in Errands, NEW ok \in BOOLEAN, NEW lands \in BOOLEAN, Reply(a, ok, lands) PROVE PutInv'
  <2> SUFFICES ASSUME NEW c \in Errands, c \notin unended' PROVE PutOnce(c)'
    BY DEF PutInv
  <2>1. c \notin unended /\ (c = a => ok) /\ UNCHANGED <<lapsed, endsLost, cursor, puts>>
    BY <1>7 DEF Reply
  <2>2. InboxRow(run[a], a) \in InboxRows /\ InboxRow(run[a], a).kind # "dispatch"
    BY <1>7 DEF InboxRow, InboxRows, Reply
  <2>3. InboxKept /\ DispatchesKept(c) /\ cursor <= cursor'
    BY <1>7, <1>s, <1>q, <2>1, <2>2 DEF Reply, AdapterTypes
  <2>4. \A v \in Inboxes : visits'[v].on => /\ visits[v].on /\ visits'[v].floor = visits[v].floor
                                            /\ visits'[v].since = visits[v].since
                                            /\ visits[v].over \subseteq visits'[v].over
    BY <1>7, <1>w DEF Reply, InboxVisit
  <2>5. recent \subseteq recent'
    BY <1>7 DEF Reply
  <2>6. CASE c # a
    <3>1. run'[c] = run[c]
      BY <1>7, <2>6 DEF Reply, AdapterTypes
    <3> QED
      BY <2>1, <2>3, <2>4, <2>5, <3>1, TaskUndisturbed
  <2>7. CASE c = a
    <3>1. ok /\ lands /\ inbox' = Append(inbox, InboxRow(run[a], a)) /\ run[a] \in {"complete", "error"}
      BY <1>7, <2>1, <2>7 DEF Reply
    <3>2. inbox'[Len(inbox) + 1] = InboxRow(run[a], a) /\ Len(inbox') = Len(inbox) + 1
      BY <1>n, <2>2, <3>1
    <3>3. EndedIn(c, Len(inbox))'
      <4>1. lapsed' = lapsed /\ lapsed \in 0..Len(inbox)
        BY <2>1 DEF AdapterTypes
      <4>2. Len(inbox) + 1 \in lapsed' + 1..Len(inbox') /\ Len(inbox) + 1 \in 1..Len(inbox')
        BY <1>n, <3>2, <4>1
      <4>3. inbox'[Len(inbox) + 1].kind \in EndKinds /\ inbox'[Len(inbox) + 1].task = c
        BY <2>7, <3>1, <3>2 DEF InboxRow, EndKinds
      <4> QED
        BY <4>2, <4>3 DEF EndedIn
    <3>4. c \in recent' /\ visits' = [v \in Inboxes |-> IF visits[v].on THEN [visits[v] EXCEPT !.over = @ \cup {a}] ELSE visits[v]]
      BY <1>7, <2>7, <3>1 DEF Reply
    <3>5. \A v \in Inboxes : visits'[v].on => c \in visits'[v].over
      BY <1>w, <2>7, <3>4 DEF InboxVisit
    <3>6. puts[c] <= 1 + endsLost[c]
      BY <2>1 DEF PutInv, PutOnce
    <3>7. EndIsKnown(c)'
      BY <3>3, <3>4, <3>5 DEF EndIsKnown, PollKnows
    <3> QED
      BY <2>1, <3>6, <3>7 DEF PutOnce
  <2> QED
    BY <2>6, <2>7
<1>8. ASSUME NEW a \in Errands, Forget(a) PROVE PutInv'
  <2> SUFFICES ASSUME NEW c \in Errands, c \notin unended' PROVE PutOnce(c)'
    BY DEF PutInv
  <2>1. /\ UNCHANGED <<lapsed, endsLost, cursor, inbox, visits, run, puts, unended>>
        /\ recent' = recent \ {a} /\ \A v \in Inboxes : a \notin visits[v].over
    BY <1>8 DEF Forget
  <2>2. PutOnce(c)
    BY <2>1 DEF PutInv
  <2>3. EndedIn(c, Len(inbox)) \/ Behind(c, cursor) => (EndedIn(c, Len(inbox)) \/ Behind(c, cursor))'
    BY <2>1 DEF EndedIn, Behind, Dispatched, IsDispatch
  <2>4. ASSUME NEW v \in Inboxes, PollKnows(v, c) PROVE PollKnows(v, c)'
    <3>1. /\ EndedIn(c, visits[v].floor) => EndedIn(c, visits[v].floor)'
          /\ EndedIn(c, Len(inbox)) => EndedIn(c, Len(inbox))'
          /\ Behind(c, visits[v].since) => Behind(c, visits[v].since)'
      BY <2>1 DEF EndedIn, Behind, Dispatched, IsDispatch
    <3> QED
      BY <2>1, <2>4, <3>1 DEF PollKnows
  <2> QED
    BY <2>1, <2>2, <2>3, <2>4 DEF PutOnce, EndIsKnown
<1>9. ASSUME NEW r \in replies, Lands(r) \/ IsLost(r) PROVE PutInv'
  <2> SUFFICES ASSUME NEW c \in Errands, c \notin unended' PROVE PutOnce(c)'
    BY DEF PutInv
  <2>1. r \in InboxRows /\ r.kind # "dispatch"
    BY DEF AdapterTypes, InOrder
  <2>2. InboxKept /\ DispatchesKept(c)
    BY <1>9, <1>s, <1>q, <2>1 DEF Lands, IsLost
  <2>3. UNCHANGED <<lapsed, endsLost, cursor, visits, run, recent, puts, unended>> /\ cursor <= cursor'
    BY <1>9 DEF Lands, IsLost, memory, AdapterTypes
  <2> QED
    BY <2>2, <2>3, TaskUndisturbed
<1>10. ASSUME Reload PROVE PutInv'
  <2> SUFFICES ASSUME NEW c \in Errands, c \notin unended' PROVE PutOnce(c)'
    BY DEF PutInv
  <2>1. c \notin unended /\ UNCHANGED <<lapsed, endsLost, inbox, run, recent, puts>>
    BY <1>10 DEF Reload
  <2>2. visits' = [v \in Inboxes |-> [visits[v] EXCEPT !.old = visits[v].on]]
    BY <1>10 DEF Reload
  <2>3. \A v \in Inboxes : visits'[v].on => /\ visits[v].on /\ visits'[v].floor = visits[v].floor
                                            /\ visits'[v].since = visits[v].since /\ visits'[v].over = visits[v].over
    BY <1>w, <2>2 DEF InboxVisit
  <2>4. InboxKept /\ DispatchesKept(c)
    BY <1>s, <1>q, <2>1
  <2>5. CASE run[c] = "idle"
    <3>1. Ended(c) /\ cursor' \in Nat /\ lapsed < cursor'
      BY <1>10, <2>5 DEF Reload, AdapterTypes
    <3>2. EndedIn(c, Len(inbox)) \/ Behind(c, cursor')
      BY <3>1, EndedMeansBehind
    <3> QED
      BY <2>1, <2>3, <2>4, <3>2, TaskUndisturbed
  <2>6. CASE run[c] # "idle"
    BY <2>1, <2>6 DEF PutInv, PutOnce
  <2> QED
    BY <2>5, <2>6
<1>11. ASSUME AgentComesBack PROVE PutInv'
  BY <1>11, DyingKeepsPuts DEF AgentComesBack
<1>12. ASSUME EndAges PROVE PutInv'
  BY <1>12, AgingKeepsPuts
<1>13. ASSUME UNCHANGED adapterVars PROVE PutInv'
  <2> SUFFICES ASSUME NEW c \in Errands, c \notin unended' PROVE PutOnce(c)'
    BY DEF PutInv
  <2>1. UNCHANGED <<lapsed, endsLost, cursor, inbox, visits, run, recent, puts, unended>> /\ cursor <= cursor'
    BY <1>13 DEF adapterVars, AdapterTypes
  <2>2. InboxKept /\ DispatchesKept(c)
    BY <1>s, <1>q, <2>1
  <2> QED
    BY <2>1, <2>2, TaskUndisturbed
<1> QED
  BY <1>1, <1>2, <1>3, <1>4, <1>5, <1>6, <1>7, <1>8, <1>9, <1>10, <1>11, <1>12, <1>13
  DEF AdaptersNext, Progress, PollInbox

THEOREM ErrandsAreAskedOnce == AdaptersSpec => []AskedOnce
<1>1. AdaptersInit => AdaptersInv
  <2> SUFFICES ASSUME AdaptersInit PROVE AdaptersInv
    OBVIOUS
  <2>1. NoInboxPoll \in InboxVisit /\ NoInboxPoll.floor = 0
    BY DEF NoInboxPoll, InboxVisit
  <2>2. visits \in [Inboxes -> InboxVisit] /\ \A v \in Inboxes : visits[v].floor <= 0
    BY <2>1 DEF AdaptersInit
  <2>3. AdapterTypes /\ PutInv
    BY <2>2 DEF AdaptersInit, AdapterTypes, RunStates, PutInv, PutOnce
  <2>4. InOrder
    BY DEF AdaptersInit, InOrder
  <2> QED
    BY <2>3, <2>4 DEF AdaptersInv
<1>2. AdaptersInv /\ [AdaptersNext]_adapterVars => AdaptersInv'
  BY AdapterTypesKept, InOrderKept, PutInvKept DEF AdaptersInv
<1>3. AdaptersInv => AskedOnce
  BY DEF AdaptersInv, PutInv, PutOnce, AskedOnce
<1> QED
  BY <1>1, <1>2, <1>3, PTL DEF AdaptersSpec

(***************************************************************************)
(* Windows: a prompt is typed once, as one line of its window.  A prompt   *)
(* that is not typed yet stands nowhere, and one that is stands in its own *)
(* window, in the line or in one submission.  A window without a clash has *)
(* one dispatch under way, whose prompt is the line once it is typed; it   *)
(* is not up yet only as long as that dispatch waits.                      *)
(***************************************************************************)
InjectionRecord == [pane : Nat, pc : {"waits", "types", "enters", "done"}]
PaneRecord ==
  [job : Jobs, shape : {"refused", "starting", "up", "ready", "gone"}, old : BOOLEAN, late : BOOLEAN,
   line : Seq(Nat), sent : Seq(Seq(Nat)), clash : BOOLEAN]

WindowTypes ==
  /\ orders \in Seq(Jobs) /\ injection \in Seq(InjectionRecord) /\ Len(injection) = Len(orders)
  /\ panes \in Seq(PaneRecord)
  /\ opened \in [Jobs -> Nat] /\ \A c \in Jobs : opened[c] <= Len(panes) /\ (opened[c] # 0 => panes[opened[c]].job = c)

Home(i) ==
  /\ injection[i].pane <= Len(panes)
  /\ injection[i].pane # 0 => orders[i] = panes[injection[i].pane].job
  /\ injection[i].pc # "done" => injection[i].pane # 0
Homes == \A i \in Orders : Home(i)

Busy == {"waits", "types", "enters"}
At(i, w, pcs) == injection[i].pane = w /\ injection[i].pc \in pcs
Typed(w) == {panes[w].line[n] : n \in DOMAIN panes[w].line}
Submitted(w, k) == {panes[w].sent[k][n] : n \in DOMAIN panes[w].sent[k]}

Lines(w) ==
  /\ \A i \in Typed(w) : i \in Orders /\ At(i, w, {"enters", "done"})
  /\ \A k \in DOMAIN panes[w].sent : \A i \in Submitted(w, k) :
       /\ i \in Orders /\ At(i, w, {"enters", "done"}) /\ i \notin Typed(w)
       /\ \A l \in DOMAIN panes[w].sent : i \in Submitted(w, l) => k = l

OneAtATime(w) == \A i, j \in Orders : At(i, w, Busy) /\ At(j, w, Busy) => i = j
YoungAreAwaited(w) == panes[w].shape \in {"starting", "up"} => \E i \in Orders : At(i, w, {"waits"})
TheLineIsTyped(w) ==
  /\ \A i \in Orders : At(i, w, {"enters"}) => panes[w].line = <<i>>
  /\ panes[w].line = <<>> \/ \E i \in Orders : At(i, w, {"enters"})
SentInOrder(w) ==
  \A k \in DOMAIN panes[w].sent :
    /\ Len(panes[w].sent[k]) = 1
    /\ \A i \in Orders : At(i, w, Busy) => panes[w].sent[k][1] < i
    /\ k > 1 => panes[w].sent[k - 1][1] < panes[w].sent[k][1]
Clean(w) == OneAtATime(w) /\ YoungAreAwaited(w) /\ TheLineIsTyped(w) /\ SentInOrder(w)
PaneInv(w) == Lines(w) /\ (~panes[w].clash => Clean(w))
WindowInv == Homes /\ \A w \in DOMAIN panes : PaneInv(w)

\* A window that a step leaves alone, but for its shape or a clash, stays in order.
LEMMA PaneUndisturbed ==
  ASSUME Len(orders) \in Nat, Len(orders') \in Nat, Len(orders) <= Len(orders'),
         NEW w, PaneInv(w),
         panes'[w].line = panes[w].line, panes'[w].sent = panes[w].sent,
         panes[w].clash => panes'[w].clash,
         panes'[w].shape \in {"starting", "up"} => panes[w].shape \in {"starting", "up"},
         \A i \in Orders : injection'[i].pane = injection[i].pane /\ (injection[i].pane = w => injection'[i] = injection[i]),
         \A i \in Orders' \ Orders : injection'[i].pane # w
  PROVE  PaneInv(w)'
<1>1. Orders \subseteq Orders'
  BY DEF Orders
<1>2. ASSUME NEW i \in Orders, NEW pcs PROVE At(i, w, pcs) <=> injection'[i].pane = w /\ injection'[i].pc \in pcs
  BY DEF At
<1>3. ASSUME NEW i \in Orders', NEW pcs, injection'[i].pane = w PROVE i \in Orders
  BY <1>3
<1>4. Lines(w)'
  <2>1. Lines(w)
    BY DEF PaneInv
  <2>2. \A i \in Typed(w) : i \in Orders' /\ injection'[i].pane = w /\ injection'[i].pc \in {"enters", "done"}
    BY <1>1, <1>2, <2>1 DEF Lines
  <2>3. \A k \in DOMAIN panes[w].sent : \A i \in Submitted(w, k) :
       /\ i \in Orders' /\ injection'[i].pane = w /\ injection'[i].pc \in {"enters", "done"} /\ i \notin Typed(w)
       /\ \A l \in DOMAIN panes[w].sent : i \in Submitted(w, l) => k = l
    BY <1>1, <1>2, <2>1 DEF Lines
  <2>4. Typed(w)' = Typed(w) /\ \A k : Submitted(w, k)' = Submitted(w, k)
    BY DEF Typed, Submitted
  <2>5. \A i \in Typed(w)' : i \in Orders' /\ At(i, w, {"enters", "done"})'
    BY <2>2, <2>4 DEF At
  <2>6. ASSUME NEW k \in DOMAIN panes'[w].sent, NEW i \in Submitted(w, k)'
        PROVE  /\ i \in Orders' /\ At(i, w, {"enters", "done"})' /\ i \notin Typed(w)'
               /\ \A l \in DOMAIN panes'[w].sent : i \in Submitted(w, l)' => k = l
    <3>1. k \in DOMAIN panes[w].sent /\ i \in Submitted(w, k)
      BY <2>4
    <3> QED
      BY <2>3, <2>4, <3>1 DEF At
  <2> QED
    BY <2>5, <2>6 DEF Lines
<1>5. ASSUME ~panes'[w].clash PROVE Clean(w)'
  <2>1. Clean(w)
    BY <1>5 DEF PaneInv
  <2>2. ASSUME NEW i \in Orders', NEW pcs, At(i, w, pcs)' PROVE i \in Orders /\ At(i, w, pcs)
    BY <1>2, <2>2 DEF At
  <2>3. ASSUME NEW i \in Orders, NEW pcs, At(i, w, pcs) PROVE i \in Orders' /\ At(i, w, pcs)'
    BY <1>1, <1>2, <2>3 DEF At
  <2>4. OneAtATime(w)'
    BY <2>1, <2>2 DEF Clean, OneAtATime
  <2>5. YoungAreAwaited(w)'
    BY <2>1, <2>3 DEF Clean, YoungAreAwaited
  <2>6. TheLineIsTyped(w)'
    BY <2>1, <2>2, <2>3 DEF Clean, TheLineIsTyped
  <2>7. SentInOrder(w)'
    BY <2>1, <2>2 DEF Clean, SentInOrder
  <2> QED
    BY <2>4, <2>5, <2>6, <2>7 DEF Clean
<1> QED
  BY <1>4, <1>5 DEF PaneInv

LEMMA WindowTypesKept ==
  ASSUME WindowTypes, Homes, [WindowsNext]_windowVars
  PROVE  WindowTypes'
<1>n. Len(orders) \in Nat /\ Len(panes) \in Nat
  BY DEF WindowTypes
<1>w. ASSUME NEW w \in DOMAIN panes PROVE w \in 1..Len(panes) /\ panes[w] \in PaneRecord
  BY DEF WindowTypes
<1>p. ASSUME NEW w \in DOMAIN panes, NEW r \in PaneRecord, r.job = panes[w].job, panes' = [panes EXCEPT ![w] = r],
             UNCHANGED opened
      PROVE  panes' \in Seq(PaneRecord) /\ \A c \in Jobs : opened'[c] <= Len(panes') /\ (opened'[c] # 0 => panes'[opened'[c]].job = c)
  <2>1. panes' \in Seq(PaneRecord) /\ Len(panes') = Len(panes)
    BY <1>p DEF WindowTypes
  <2>2. \A u \in 1..Len(panes) : panes'[u].job = panes[u].job
    BY <1>p DEF WindowTypes
  <2> QED
    BY <1>p, <2>1, <2>2 DEF WindowTypes
<1>t. ASSUME NEW c \in Jobs, NEW pane \in Nat, NEW pc \in {"waits", "types", "enters", "done"}, Take(c, pane, pc)
      PROVE  orders' \in Seq(Jobs) /\ injection' \in Seq(InjectionRecord) /\ Len(injection') = Len(orders')
  <2>1. [pane |-> pane, pc |-> pc] \in InjectionRecord
    BY DEF InjectionRecord
  <2> QED
    BY <1>t, <2>1 DEF Take, WindowTypes
<1>i. ASSUME NEW i \in Orders, NEW pc \in {"waits", "types", "enters", "done"}, injection' = [injection EXCEPT ![i].pc = pc]
      PROVE  injection' \in Seq(InjectionRecord) /\ Len(injection') = Len(injection)
  <2>1. i \in 1..Len(injection) /\ injection[i] \in InjectionRecord
    BY DEF Orders, WindowTypes
  <2>2. [injection[i] EXCEPT !.pc = pc] \in InjectionRecord
    BY <2>1 DEF InjectionRecord
  <2>3. injection' = [injection EXCEPT ![i] = [injection[i] EXCEPT !.pc = pc]]
    BY <1>i
  <2> QED
    BY <2>1, <2>2, <2>3 DEF WindowTypes
<1>b. ASSUME NEW i \in Orders, injection[i].pc # "done"
      PROVE  injection[i].pane \in DOMAIN panes /\ injection[i].pane \in Nat
  <2>0. injection[i] \in InjectionRecord
    BY DEF Orders, WindowTypes
  <2>1. injection[i].pane \in Nat
    BY <2>0 DEF InjectionRecord
  <2>2. injection[i].pane <= Len(panes) /\ injection[i].pane # 0
    BY <1>b DEF Homes, Home
  <2>3. DOMAIN panes = 1..Len(panes)
    BY DEF WindowTypes
  <2> QED
    BY <1>n, <2>1, <2>2, <2>3
<1>1. ASSUME NEW c \in Jobs, Ignore(c) PROVE WindowTypes'
  BY <1>1, <1>t DEF Ignore, WindowTypes
<1>2. ASSUME NEW c \in Jobs, Continue(c) PROVE WindowTypes'
  <2>1. opened[c] \in DOMAIN panes
    BY <1>2 DEF Continue, Alive, WindowTypes
  <2> DEFINE r == [panes[opened[c]] EXCEPT !.clash = @ \/ UnderWay(opened[c]) # {}]
  <2>2. r \in PaneRecord /\ r.job = panes[opened[c]].job
    BY <1>w, <2>1 DEF PaneRecord
  <2>3. panes' = [panes EXCEPT ![opened[c]] = r] /\ UNCHANGED opened
    BY <1>2 DEF Continue
  <2> HIDE DEF r
  <2>4. panes' \in Seq(PaneRecord) /\ \A d \in Jobs : opened'[d] <= Len(panes') /\ (opened'[d] # 0 => panes'[opened'[d]].job = d)
    BY <1>p, <2>1, <2>2, <2>3
  <2>5. orders' \in Seq(Jobs) /\ injection' \in Seq(InjectionRecord) /\ Len(injection') = Len(orders')
    BY <1>2, <1>t DEF Continue, WindowTypes
  <2> QED
    BY <2>3, <2>4, <2>5 DEF WindowTypes
<1>3. ASSUME NEW c \in Jobs, NEW display \in BOOLEAN, Open(c, display) PROVE WindowTypes'
  <2> DEFINE r == Pane(c, IF display THEN "starting" ELSE "refused")
  <2>1. r \in PaneRecord /\ r.job = c
    BY DEF Pane, PaneRecord
  <2>2. panes' = Append(panes, r) /\ opened' = [opened EXCEPT ![c] = Len(panes) + 1]
    BY <1>3 DEF Open
  <2>3. orders' \in Seq(Jobs) /\ injection' \in Seq(InjectionRecord) /\ Len(injection') = Len(orders')
    <3>1. Len(panes) + 1 \in Nat /\ (IF display THEN "waits" ELSE "done") \in {"waits", "types", "enters", "done"}
      BY <1>n
    <3> QED
      BY <1>3, <1>t, <3>1 DEF Open
  <2> HIDE DEF r
  <2>4. panes' \in Seq(PaneRecord) /\ Len(panes') = Len(panes) + 1 /\ panes'[Len(panes) + 1] = r
        /\ \A u \in 1..Len(panes) : panes'[u] = panes[u]
    BY <2>1, <2>2 DEF WindowTypes
  <2>5. opened' \in [Jobs -> Nat]
    BY <1>n, <2>2 DEF WindowTypes
  <2>6. ASSUME NEW d \in Jobs PROVE opened'[d] <= Len(panes') /\ (opened'[d] # 0 => panes'[opened'[d]].job = d)
    <3>1. CASE d = c
      BY <1>n, <2>1, <2>2, <2>4, <3>1 DEF WindowTypes
    <3>2. CASE d # c
      <4>1. opened'[d] = opened[d] /\ opened[d] \in Nat /\ opened[d] <= Len(panes) /\ (opened[d] # 0 => panes[opened[d]].job = d)
        BY <2>2, <3>2 DEF WindowTypes
      <4> QED
        BY <1>n, <2>4, <4>1
    <3> QED
      BY <3>1, <3>2
  <2> QED
    BY <2>3, <2>4, <2>5, <2>6 DEF WindowTypes
<1>4. ASSUME NEW w \in DOMAIN panes, Lost(w) \/ Ages(w) \/ (\E from \in {"starting", "up"}, to \in {"up", "ready"} : Grows(w, from, to))
      PROVE WindowTypes'
  <2>1. PICK r : panes' = [panes EXCEPT ![w] = r] /\ r \in PaneRecord /\ r.job = panes[w].job
    <3>1. CASE Ages(w)
      <4>1. panes' = [panes EXCEPT ![w] = [panes[w] EXCEPT !.old = TRUE, !.late = panes[w].old]]
        BY <1>w, <3>1 DEF Ages
      <4>2. [panes[w] EXCEPT !.old = TRUE, !.late = panes[w].old] \in PaneRecord
            /\ [panes[w] EXCEPT !.old = TRUE, !.late = panes[w].old].job = panes[w].job
        BY <1>w DEF PaneRecord
      <4> QED
        BY <4>1, <4>2
    <3>2. CASE \E to \in {"up", "ready", "gone"} : panes' = [panes EXCEPT ![w].shape = to]
      <4>1. PICK to \in {"up", "ready", "gone"} : panes' = [panes EXCEPT ![w].shape = to]
        BY <3>2
      <4>2. [panes[w] EXCEPT !.shape = to] \in PaneRecord /\ [panes[w] EXCEPT !.shape = to].job = panes[w].job
        BY <1>w DEF PaneRecord
      <4> QED
        BY <4>1, <4>2
    <3> QED
      BY <1>4, <3>1, <3>2 DEF Lost, Grows
  <2>2. UNCHANGED <<orders, injection, opened>>
    BY <1>4 DEF Lost, Ages, Grows
  <2> QED
    BY <1>p, <2>1, <2>2 DEF WindowTypes
<1>5. ASSUME NEW i \in Orders, Waited(i) PROVE WindowTypes'
  <2> DEFINE w == injection[i].pane
             r == [panes[w] EXCEPT !.clash = @ \/ panes[w].shape # "ready"]
  <2>1. w \in DOMAIN panes
    BY <1>5, <1>b DEF Waited
  <2>2. r \in PaneRecord /\ r.job = panes[w].job
    BY <1>w, <2>1, ZenonT(40) DEF PaneRecord
  <2>3. panes' = [panes EXCEPT ![w] = r] /\ UNCHANGED <<orders, opened>> /\ injection' = [injection EXCEPT ![i].pc = "types"]
    BY <1>5 DEF Waited
  <2>4. injection' \in Seq(InjectionRecord) /\ Len(injection') = Len(injection)
    BY <1>i, <2>3
  <2> HIDE DEF r, w
  <2> QED
    BY <1>p, <2>1, <2>2, <2>3, <2>4 DEF WindowTypes
<1>6. ASSUME NEW i \in Orders, NEW ok \in BOOLEAN, NEW kept \in BOOLEAN, Types(i, ok, kept) PROVE WindowTypes'
  <2> DEFINE w == injection[i].pane
             into == ok /\ Alive(w)
             r == IF into /\ kept THEN [panes[w] EXCEPT !.line = Append(@, i)] ELSE [panes[w] EXCEPT !.clash = @ \/ ~ok]
  <2>1. w \in DOMAIN panes
    BY <1>6, <1>b DEF Types
  <2>i. i \in Nat
    BY DEF Orders
  <2>2. r \in PaneRecord /\ r.job = panes[w].job
    <3>1. panes[w] \in PaneRecord /\ panes[w].line \in Seq(Nat)
      BY <1>w, <2>1 DEF PaneRecord
    <3>2. Append(panes[w].line, i) \in Seq(Nat)
      BY <2>i, <3>1
    <3>3. [panes[w] EXCEPT !.line = Append(@, i)] \in PaneRecord /\ [panes[w] EXCEPT !.line = Append(@, i)].job = panes[w].job
      BY <3>1, <3>2 DEF PaneRecord
    <3>4. [panes[w] EXCEPT !.clash = @ \/ ~ok] \in PaneRecord /\ [panes[w] EXCEPT !.clash = @ \/ ~ok].job = panes[w].job
      BY <3>1 DEF PaneRecord
    <3> QED
      BY <3>3, <3>4
  <2>3. panes' = [panes EXCEPT ![w] = r] /\ UNCHANGED <<orders, opened>>
        /\ injection' = [injection EXCEPT ![i].pc = IF into THEN "enters" ELSE "done"]
    BY <1>6 DEF Types
  <2>4. injection' \in Seq(InjectionRecord) /\ Len(injection') = Len(injection)
    <3>1. (IF into THEN "enters" ELSE "done") \in {"waits", "types", "enters", "done"}
      OBVIOUS
    <3> QED
      BY <1>i, <2>3, <3>1
  <2> HIDE DEF r, w, into
  <2> QED
    BY <1>p, <2>1, <2>2, <2>3, <2>4 DEF WindowTypes
<1>7. ASSUME NEW i \in Orders, NEW ok \in BOOLEAN, PressesEnter(i, ok) PROVE WindowTypes'
  <2> DEFINE w == injection[i].pane
             pressed == ok /\ panes[w].shape = "ready"
             r == IF pressed THEN [panes[w] EXCEPT !.sent = Append(@, panes[w].line), !.line = <<>>]
                  ELSE [panes[w] EXCEPT !.clash = TRUE]
  <2>1. w \in DOMAIN panes
    BY <1>7, <1>b DEF PressesEnter
  <2>2. r \in PaneRecord /\ r.job = panes[w].job
    <3>1. panes[w] \in PaneRecord /\ panes[w].line \in Seq(Nat) /\ panes[w].sent \in Seq(Seq(Nat))
      BY <1>w, <2>1 DEF PaneRecord
    <3>2. Append(panes[w].sent, panes[w].line) \in Seq(Seq(Nat)) /\ <<>> \in Seq(Nat)
      BY <3>1
    <3>3. [panes[w] EXCEPT !.sent = Append(@, panes[w].line), !.line = <<>>] \in PaneRecord
          /\ [panes[w] EXCEPT !.sent = Append(@, panes[w].line), !.line = <<>>].job = panes[w].job
      BY <3>1, <3>2 DEF PaneRecord
    <3>4. [panes[w] EXCEPT !.clash = TRUE] \in PaneRecord /\ [panes[w] EXCEPT !.clash = TRUE].job = panes[w].job
      BY <3>1 DEF PaneRecord
    <3> QED
      BY <3>3, <3>4
  <2>3. panes' = [panes EXCEPT ![w] = r] /\ UNCHANGED <<orders, opened>> /\ injection' = [injection EXCEPT ![i].pc = "done"]
    BY <1>7, <1>w, <2>1 DEF PressesEnter
  <2>4. injection' \in Seq(InjectionRecord) /\ Len(injection') = Len(injection)
    BY <1>i, <2>3
  <2> HIDE DEF r, w, pressed
  <2> QED
    BY <1>p, <2>1, <2>2, <2>3, <2>4 DEF WindowTypes
<1>8. ASSUME NEW c \in Jobs, Completed(c) \/ Abandon(c) PROVE WindowTypes'
  <2>1. opened' = [opened EXCEPT ![c] = 0] /\ UNCHANGED <<orders, injection>>
    BY <1>8 DEF Completed, Abandon
  <2>2. panes' \in Seq(PaneRecord) /\ Len(panes') = Len(panes) /\ \A u \in 1..Len(panes) : panes'[u].job = panes[u].job
    <3>1. CASE UNCHANGED panes
      BY <3>1 DEF WindowTypes
    <3>2. CASE Alive(opened[c]) /\ panes' = [panes EXCEPT ![opened[c]].shape = "gone"]
      <4>1. opened[c] \in DOMAIN panes
        BY <3>2 DEF Alive, WindowTypes
      <4>2. [panes[opened[c]] EXCEPT !.shape = "gone"] \in PaneRecord
            /\ [panes[opened[c]] EXCEPT !.shape = "gone"].job = panes[opened[c]].job
        BY <1>w, <4>1 DEF PaneRecord
      <4>3. panes' = [panes EXCEPT ![opened[c]] = [panes[opened[c]] EXCEPT !.shape = "gone"]]
        BY <3>2
      <4> QED
        BY <4>1, <4>2, <4>3 DEF WindowTypes
    <3> QED
      BY <1>8, <3>1, <3>2 DEF Completed, Abandon
  <2> QED
    BY <1>n, <2>1, <2>2 DEF WindowTypes
<1>9. ASSUME UNCHANGED windowVars PROVE WindowTypes'
  BY <1>9 DEF WindowTypes, windowVars
<1> QED
  BY <1>1, <1>2, <1>3, <1>4, <1>5, <1>6, <1>7, <1>8, <1>9 DEF WindowsNext

LEMMA HomeUndisturbed ==
  ASSUME WindowTypes, Len(panes') \in Nat, Len(panes) <= Len(panes'), \A u \in 1..Len(panes) : panes'[u].job = panes[u].job,
         NEW i \in Orders, Home(i), orders'[i] = orders[i], injection'[i].pane = injection[i].pane,
         injection'[i].pc # "done" => injection[i].pc # "done"
  PROVE  Home(i)'
<1>1. injection[i] \in InjectionRecord /\ Len(panes) \in Nat
  BY DEF WindowTypes, Orders
<1>2. injection[i].pane \in Nat /\ injection[i].pane <= Len(panes)
  BY <1>1 DEF InjectionRecord, Home
<1>3. injection[i].pane # 0 => panes'[injection[i].pane].job = panes[injection[i].pane].job
  BY <1>1, <1>2
<1> QED
  BY <1>1, <1>2, <1>3 DEF Home

\* One step of one prompt.
LEMMA PromptMoves ==
  ASSUME WindowTypes, NEW i \in Orders, NEW pc, injection' = [injection EXCEPT ![i].pc = pc]
  PROVE  /\ injection'[i].pc = pc /\ injection'[i].pane = injection[i].pane
         /\ \A j \in Orders : injection'[j].pane = injection[j].pane
         /\ \A j \in Orders \ {i} : injection'[j] = injection[j]
<1>1. DOMAIN injection = Orders /\ \A j \in Orders : injection[j] \in InjectionRecord
  BY DEF WindowTypes, Orders
<1>2. injection'[i] = [injection[i] EXCEPT !.pc = pc]
  BY <1>1
<1>3. injection'[i].pc = pc /\ injection'[i].pane = injection[i].pane
  BY <1>1, <1>2 DEF InjectionRecord
<1>4. \A j \in Orders \ {i} : injection'[j] = injection[j]
  BY <1>1
<1> QED
  BY <1>3, <1>4

\* The windows beside the one where a prompt moves, and the homes of all.
LEMMA OthersUndisturbed ==
  ASSUME WindowTypes, WindowInv, NEW i \in Orders, NEW pc, injection' = [injection EXCEPT ![i].pc = pc], injection[i].pc # "done",
         UNCHANGED orders, NEW w, w = injection[i].pane, NEW r \in PaneRecord, r.job = panes[w].job, panes' = [panes EXCEPT ![w] = r]
  PROVE  /\ w \in DOMAIN panes /\ DOMAIN panes' = DOMAIN panes /\ panes'[w] = r
         /\ Homes'
         /\ \A u \in DOMAIN panes \ {w} : PaneInv(u)'
<1>1. DOMAIN panes = 1..Len(panes) /\ Len(panes) \in Nat /\ Len(orders) \in Nat
  BY DEF WindowTypes
<1>2. injection[i] \in InjectionRecord
  BY DEF WindowTypes, Orders
<1>3. w \in DOMAIN panes
  <2>1. Home(i) /\ injection[i].pane \in Nat
    BY <1>2 DEF WindowInv, Homes, InjectionRecord
  <2> QED
    BY <1>1, <2>1 DEF Home
<1>4. Len(panes') = Len(panes) /\ panes'[w] = r /\ (\A u \in DOMAIN panes \ {w} : panes'[u] = panes[u]) /\ DOMAIN panes' = DOMAIN panes
  BY <1>3 DEF WindowTypes
<1>5. /\ \A j \in Orders : injection'[j].pane = injection[j].pane
      /\ \A j \in Orders \ {i} : injection'[j] = injection[j]
  BY PromptMoves
<1>6. Orders' = Orders
  BY DEF Orders
<1>7. ASSUME NEW j \in Orders PROVE Home(j)'
  <2>1. \A u \in 1..Len(panes) : panes'[u].job = panes[u].job
    BY <1>1, <1>4
  <2>2. Home(j) /\ Len(panes') \in Nat /\ Len(panes) <= Len(panes') /\ orders'[j] = orders[j]
    BY <1>1, <1>4 DEF WindowInv, Homes
  <2>3. injection'[j].pc # "done" => injection[j].pc # "done"
    BY <1>5
  <2> QED
    BY <1>5, <2>1, <2>2, <2>3, HomeUndisturbed
<1>8. ASSUME NEW u \in DOMAIN panes \ {w} PROVE PaneInv(u)'
  <2>1. PaneInv(u) /\ panes'[u] = panes[u]
    BY <1>4 DEF WindowInv
  <2>2. \A j \in Orders : injection[j].pane = u => injection'[j] = injection[j]
    BY <1>5
  <2>3. Len(orders') \in Nat /\ Len(orders) <= Len(orders') /\ Orders' \ Orders = {}
    BY <1>1, <1>6
  <2> QED
    BY <1>1, <1>5, <2>1, <2>2, <2>3, PaneUndisturbed
<1> QED
  BY <1>3, <1>4, <1>6, <1>7, <1>8 DEF Homes

\* The facts about a prompt that is not typed yet, or typed and not submitted.
LEMMA LoneDispatch ==
  ASSUME NEW i \in Orders, NEW w, At(i, w, Busy), Clean(w)
  PROVE  /\ \A j \in Orders : At(j, w, Busy) => j = i
         /\ injection[i].pc # "waits" => panes[w].shape \notin {"starting", "up"}
         /\ injection[i].pc # "enters" => panes[w].line = <<>>
         /\ injection[i].pc = "enters" => panes[w].line = <<i>>
<1>1. \A j \in Orders : At(j, w, Busy) => j = i
  BY DEF Clean, OneAtATime
<1>2. \A j \in Orders : At(j, w, {"waits"}) \/ At(j, w, {"enters"}) => At(j, w, Busy)
  BY DEF At, Busy
<1>3. injection[i].pc # "waits" => panes[w].shape \notin {"starting", "up"}
  BY <1>1, <1>2 DEF Clean, YoungAreAwaited, At
<1>4. injection[i].pc # "enters" => panes[w].line = <<>>
  BY <1>1, <1>2 DEF Clean, TheLineIsTyped, At
<1>5. injection[i].pc = "enters" => panes[w].line = <<i>>
  BY DEF Clean, TheLineIsTyped, At
<1> QED
  BY <1>1, <1>3, <1>4, <1>5

\* A step of a prompt that leaves what is typed and submitted as it is.
LEMMA PromptMovesOn ==
  ASSUME WindowTypes, NEW i \in Orders, NEW w, w = injection[i].pane, PaneInv(w), UNCHANGED orders,
         NEW pc, injection' = [injection EXCEPT ![i].pc = pc],
         <<injection[i].pc, pc>> \in {<<"waits", "types">>, <<"types", "enters">>, <<"types", "done">>, <<"enters", "done">>},
         panes'[w].line = panes[w].line, panes'[w].sent = panes[w].sent, panes[w].clash => panes'[w].clash,
         ~panes'[w].clash => pc \in {"types", "done"} /\ injection[i].pc # "enters" /\ panes'[w].shape \notin {"starting", "up"}
  PROVE  PaneInv(w)'
<1>1. /\ injection'[i].pc = pc /\ injection'[i].pane = w
      /\ \A j \in Orders : injection'[j].pane = injection[j].pane
      /\ \A j \in Orders \ {i} : injection'[j] = injection[j]
  BY PromptMoves
<1>2. Orders' = Orders /\ Typed(w)' = Typed(w) /\ \A k : Submitted(w, k)' = Submitted(w, k)
  BY DEF Orders, Typed, Submitted
<1>3. ASSUME NEW j \in Orders, At(j, w, {"enters", "done"}) PROVE At(j, w, {"enters", "done"})'
  BY <1>1, <1>3 DEF At
<1>4. Lines(w)'
  <2>1. Lines(w)
    BY DEF PaneInv
  <2>2. \A j \in Typed(w)' : j \in Orders' /\ At(j, w, {"enters", "done"})'
    BY <1>2, <1>3, <2>1 DEF Lines
  <2>3. ASSUME NEW k \in DOMAIN panes'[w].sent, NEW j \in Submitted(w, k)'
        PROVE  /\ j \in Orders' /\ At(j, w, {"enters", "done"})' /\ j \notin Typed(w)'
               /\ \A l \in DOMAIN panes'[w].sent : j \in Submitted(w, l)' => k = l
    <3>1. k \in DOMAIN panes[w].sent /\ j \in Submitted(w, k)
      BY <1>2
    <3>2. j \in Orders /\ At(j, w, {"enters", "done"}) /\ j \notin Typed(w)
          /\ \A l \in DOMAIN panes[w].sent : j \in Submitted(w, l) => k = l
      BY <2>1, <3>1 DEF Lines
    <3> QED
      BY <1>2, <1>3, <3>2
  <2> QED
    BY <2>2, <2>3 DEF Lines
<1>5. ASSUME ~panes'[w].clash PROVE Clean(w)'
  <2>1. Clean(w) /\ pc \in {"types", "done"} /\ injection[i].pc # "enters" /\ panes'[w].shape \notin {"starting", "up"}
    BY <1>5 DEF PaneInv
  <2>2. At(i, w, Busy)
    BY DEF At, Busy
  <2>3. (\A j \in Orders : At(j, w, Busy) => j = i) /\ panes[w].line = <<>>
    BY <2>1, <2>2, LoneDispatch
  <2>4. ASSUME NEW j \in Orders, At(j, w, Busy)' PROVE j = i
    BY <1>1, <2>3, <2>4 DEF At
  <2>5. \A j \in Orders : ~At(j, w, {"enters"})'
    BY <1>1, <2>1, <2>4 DEF At, Busy
  <2>6. OneAtATime(w)' /\ YoungAreAwaited(w)' /\ TheLineIsTyped(w)'
    BY <1>2, <2>1, <2>3, <2>4, <2>5 DEF OneAtATime, YoungAreAwaited, TheLineIsTyped
  <2>7. SentInOrder(w)'
    BY <1>2, <2>1, <2>2, <2>4 DEF Clean, SentInOrder
  <2> QED
    BY <2>6, <2>7 DEF Clean
<1> QED
  BY <1>4, <1>5 DEF PaneInv

\* The prompt is typed: it becomes a part of the line.
LEMMA PromptIsTyped ==
  ASSUME WindowTypes, NEW i \in Orders, NEW w \in DOMAIN panes, w = injection[i].pane, PaneInv(w), UNCHANGED orders,
         injection' = [injection EXCEPT ![i].pc = "enters"], injection[i].pc = "types",
         panes'[w] = [panes[w] EXCEPT !.line = Append(@, i)]
  PROVE  PaneInv(w)'
<1>1. /\ injection'[i].pc = "enters" /\ injection'[i].pane = w
      /\ \A j \in Orders : injection'[j].pane = injection[j].pane
      /\ \A j \in Orders \ {i} : injection'[j] = injection[j]
  BY PromptMoves
<1>0. panes[w] \in PaneRecord
  BY DEF WindowTypes
<1>2. panes[w] \in PaneRecord /\ panes[w].line \in Seq(Nat) /\ i \in Nat
  BY <1>0 DEF PaneRecord, Orders
<1>3. /\ panes'[w].line = Append(panes[w].line, i) /\ panes'[w].sent = panes[w].sent
      /\ panes'[w].clash = panes[w].clash /\ panes'[w].shape = panes[w].shape
  BY <1>2 DEF PaneRecord
<1>4. Typed(w)' = Typed(w) \cup {i}
  <2>1. DOMAIN panes'[w].line = 1..(Len(panes[w].line) + 1) /\ DOMAIN panes[w].line = 1..Len(panes[w].line)
        /\ Len(panes[w].line) \in Nat
    BY <1>2, <1>3
  <2>2. panes'[w].line[Len(panes[w].line) + 1] = i /\ \A n \in 1..Len(panes[w].line) : panes'[w].line[n] = panes[w].line[n]
    BY <1>2, <1>3
  <2>3. \A x \in Typed(w)' : x \in Typed(w) \/ x = i
    <3>1. \A n \in DOMAIN panes'[w].line : n \in DOMAIN panes[w].line \/ n = Len(panes[w].line) + 1
      BY <2>1
    <3> QED
      BY <2>1, <2>2, <3>1 DEF Typed
  <2>4. i \in Typed(w)'
    <3>1. Len(panes[w].line) + 1 \in DOMAIN panes'[w].line
      BY <2>1
    <3> QED
      BY <2>2, <3>1, Zenon DEF Typed
  <2>5. \A x \in Typed(w) : x \in Typed(w)'
    <3>1. \A n \in DOMAIN panes[w].line : n \in DOMAIN panes'[w].line /\ panes'[w].line[n] = panes[w].line[n]
      BY <2>1, <2>2
    <3> QED
      BY <3>1 DEF Typed
  <2> QED
    BY <2>3, <2>4, <2>5
<1>5. Orders' = Orders /\ \A k : Submitted(w, k)' = Submitted(w, k)
  BY <1>3 DEF Orders, Submitted
<1>6. ASSUME NEW j \in Orders, At(j, w, {"enters", "done"}) PROVE At(j, w, {"enters", "done"})' /\ j # i
  BY <1>1, <1>6 DEF At
<1>7. Lines(w)'
  <2>1. Lines(w)
    BY DEF PaneInv
  <2>2. \A j \in Typed(w)' : j \in Orders' /\ At(j, w, {"enters", "done"})'
    <3>1. At(i, w, {"enters", "done"})'
      BY <1>1 DEF At
    <3> QED
      BY <1>4, <1>5, <1>6, <2>1, <3>1 DEF Lines
  <2>3. ASSUME NEW k \in DOMAIN panes'[w].sent, NEW j \in Submitted(w, k)'
        PROVE  /\ j \in Orders' /\ At(j, w, {"enters", "done"})' /\ j \notin Typed(w)'
               /\ \A l \in DOMAIN panes'[w].sent : j \in Submitted(w, l)' => k = l
    <3>1. k \in DOMAIN panes[w].sent /\ j \in Submitted(w, k)
      BY <1>3, <1>5
    <3>2. j \in Orders /\ At(j, w, {"enters", "done"}) /\ j \notin Typed(w)
          /\ \A l \in DOMAIN panes[w].sent : j \in Submitted(w, l) => k = l
      BY <2>1, <3>1 DEF Lines
    <3> QED
      BY <1>3, <1>4, <1>5, <1>6, <3>2
  <2> QED
    BY <2>2, <2>3 DEF Lines
<1>8. ASSUME ~panes'[w].clash PROVE Clean(w)'
  <2>1. Clean(w)
    BY <1>3, <1>8 DEF PaneInv
  <2>2. At(i, w, Busy)
    BY DEF At, Busy
  <2>3. (\A j \in Orders : At(j, w, Busy) => j = i) /\ panes[w].line = <<>> /\ panes[w].shape \notin {"starting", "up"}
    BY <2>1, <2>2, LoneDispatch
  <2>4. ASSUME NEW j \in Orders, At(j, w, Busy)' PROVE j = i
    BY <1>1, <2>3, <2>4 DEF At
  <2>5. panes'[w].line = <<i>> /\ At(i, w, {"enters"})'
    BY <1>1, <1>2, <1>3, <2>3 DEF At
  <2>6. OneAtATime(w)' /\ YoungAreAwaited(w)'
    BY <1>3, <1>5, <2>3, <2>4 DEF OneAtATime, YoungAreAwaited
  <2>7. TheLineIsTyped(w)'
    <3>1. \A j \in Orders : At(j, w, {"enters"})' => j = i
      BY <2>4 DEF At, Busy
    <3> QED
      BY <1>5, <2>5, <3>1 DEF TheLineIsTyped
  <2>8. SentInOrder(w)'
    BY <1>3, <1>5, <2>1, <2>2, <2>4 DEF Clean, SentInOrder
  <2> QED
    BY <2>6, <2>7, <2>8 DEF Clean
<1> QED
  BY <1>7, <1>8 DEF PaneInv

\* The line is submitted.
LEMMA LineIsSubmitted ==
  ASSUME WindowTypes, NEW i \in Orders, NEW w \in DOMAIN panes, w = injection[i].pane, PaneInv(w), UNCHANGED orders,
         injection' = [injection EXCEPT ![i].pc = "done"], injection[i].pc = "enters", panes[w].shape = "ready",
         panes'[w] = [panes[w] EXCEPT !.sent = Append(@, panes[w].line), !.line = <<>>]
  PROVE  PaneInv(w)'
<1>1. /\ injection'[i].pc = "done" /\ injection'[i].pane = w
      /\ \A j \in Orders : injection'[j].pane = injection[j].pane
      /\ \A j \in Orders \ {i} : injection'[j] = injection[j]
  BY PromptMoves
<1>0. panes[w] \in PaneRecord
  BY DEF WindowTypes
<1>2. panes[w] \in PaneRecord /\ panes[w].line \in Seq(Nat) /\ panes[w].sent \in Seq(Seq(Nat)) /\ i \in Nat
  BY <1>0 DEF PaneRecord, Orders
<1>3. /\ panes'[w].line = <<>> /\ panes'[w].sent = Append(panes[w].sent, panes[w].line)
      /\ panes'[w].clash = panes[w].clash /\ panes'[w].shape = panes[w].shape
  BY <1>2 DEF PaneRecord
<1>l. PICK last \in Nat : last = Len(panes[w].sent) + 1
  BY <1>2
<1>4. /\ last \in Nat \ {0} /\ DOMAIN panes[w].sent = 1..(last - 1) /\ DOMAIN panes'[w].sent = 1..last
      /\ panes'[w].sent[last] = panes[w].line /\ \A k \in 1..(last - 1) : panes'[w].sent[k] = panes[w].sent[k]
  BY <1>2, <1>3, <1>l
<1>5. Orders' = Orders /\ Typed(w)' = {} /\ Submitted(w, last)' = Typed(w)
      /\ \A k \in 1..(last - 1) : Submitted(w, k)' = Submitted(w, k)
  <2>1. Orders' = Orders
    BY DEF Orders
  <2>2. Typed(w)' = {}
    BY <1>3 DEF Typed
  <2>3. Submitted(w, last)' = Typed(w)
    BY <1>4 DEF Submitted, Typed
  <2>4. \A k \in 1..(last - 1) : Submitted(w, k)' = Submitted(w, k)
    BY <1>4 DEF Submitted
  <2> QED
    BY <2>1, <2>2, <2>3, <2>4
<1>6. ASSUME NEW j \in Orders, At(j, w, {"enters", "done"}) PROVE At(j, w, {"enters", "done"})'
  BY <1>1, <1>6 DEF At
<1>7. Lines(w)'
  <2>1. Lines(w)
    BY DEF PaneInv
  <2>2. \A k \in 1..last : k = last \/ k \in 1..(last - 1)
    BY <1>4
  <2>3. ASSUME NEW k \in 1..last, NEW j \in Submitted(w, k)'
        PROVE  /\ j \in Orders' /\ At(j, w, {"enters", "done"})' /\ j \notin Typed(w)'
               /\ \A l \in 1..last : j \in Submitted(w, l)' => k = l
    <3>1. CASE k = last
      <4>1. j \in Typed(w)
        BY <1>5, <3>1
      <4>2. j \in Orders /\ At(j, w, {"enters", "done"}) /\ \A l \in 1..(last - 1) : j \notin Submitted(w, l)
        BY <1>4, <2>1, <4>1 DEF Lines
      <4> QED
        BY <1>5, <1>6, <2>2, <3>1, <4>2
    <3>2. CASE k \in 1..(last - 1)
      <4>1. j \in Submitted(w, k)
        BY <1>5, <3>2
      <4>2. j \in Orders /\ At(j, w, {"enters", "done"}) /\ j \notin Typed(w)
            /\ \A l \in 1..(last - 1) : j \in Submitted(w, l) => k = l
        BY <1>4, <2>1, <3>2, <4>1 DEF Lines
      <4>3. \A l \in 1..last : j \in Submitted(w, l)' => k = l
        BY <1>5, <2>2, <4>2
      <4> QED
        BY <1>5, <1>6, <4>2, <4>3
    <3> QED
      BY <2>2, <3>1, <3>2
  <2> QED
    BY <1>4, <1>5, <2>3 DEF Lines
<1>8. ASSUME ~panes'[w].clash PROVE Clean(w)'
  <2>1. Clean(w)
    BY <1>3, <1>8 DEF PaneInv
  <2>2. At(i, w, Busy)
    BY DEF At, Busy
  <2>3. (\A j \in Orders : At(j, w, Busy) => j = i) /\ panes[w].line = <<i>>
    BY <2>1, <2>2, LoneDispatch
  <2>4. ASSUME NEW j \in Orders, At(j, w, Busy)' PROVE FALSE
    BY <1>1, <2>3, <2>4 DEF At, Busy
  <2>5. \A j \in Orders : ~At(j, w, {"enters"})'
    BY <2>4 DEF At, Busy
  <2>6. OneAtATime(w)' /\ YoungAreAwaited(w)' /\ TheLineIsTyped(w)'
    BY <1>3, <1>5, <2>4, <2>5 DEF OneAtATime, YoungAreAwaited, TheLineIsTyped
  <2>7. ASSUME NEW k \in 1..last
        PROVE  Len(panes'[w].sent[k]) = 1 /\ (k > 1 => panes'[w].sent[k - 1][1] < panes'[w].sent[k][1])
    <3>1. \A l \in 1..(last - 1) : /\ Len(panes[w].sent[l]) = 1 /\ panes[w].sent[l][1] < i
                                   /\ l > 1 => panes[w].sent[l - 1][1] < panes[w].sent[l][1]
      BY <1>4, <2>1, <2>2 DEF Clean, SentInOrder
    <3>2. panes'[w].sent[last] = <<i>>
      BY <1>4, <2>3
    <3>3. CASE k = last
      <4>1. k > 1 => k - 1 \in 1..(last - 1)
        BY <1>4, <3>3
      <4>2. k > 1 => panes'[w].sent[k - 1][1] < i
        BY <1>4, <3>1, <4>1
      <4>i. Len(<<i>>) = 1 /\ <<i>>[1] = i
        BY <1>2
      <4>3. Len(panes'[w].sent[last]) = 1 /\ panes'[w].sent[last][1] = i
        BY <3>2, <4>i, Zenon
      <4> QED
        BY <3>3, <4>2, <4>3
    <3>4. CASE k # last
      <4>1. k \in 1..(last - 1) /\ (k > 1 => k - 1 \in 1..(last - 1))
        BY <1>4, <3>4
      <4> QED
        BY <1>4, <3>1, <4>1
    <3> QED
      BY <3>3, <3>4
  <2>8. SentInOrder(w)'
    BY <1>4, <1>5, <2>4, <2>7 DEF SentInOrder
  <2> QED
    BY <2>6, <2>8 DEF Clean
<1> QED
  BY <1>7, <1>8 DEF PaneInv

LEMMA DispatchTaken ==
  ASSUME WindowTypes, NEW c, NEW pane, NEW pc, Take(c, pane, pc)
  PROVE  LET new == Len(orders) + 1
         IN  /\ new \in Nat /\ new \notin Orders /\ Orders' = Orders \cup {new} /\ Len(orders) \in Nat /\ Len(orders') = new
             /\ orders'[new] = c /\ injection'[new].pane = pane /\ injection'[new].pc = pc
             /\ \A i \in Orders : i < new /\ orders'[i] = orders[i] /\ injection'[i] = injection[i]
<1>1. Len(orders) \in Nat /\ orders \in Seq(Jobs) /\ injection \in Seq(InjectionRecord) /\ Len(injection) = Len(orders)
  BY DEF WindowTypes
<1>2. orders' = Append(orders, c) /\ injection' = Append(injection, [pane |-> pane, pc |-> pc])
  BY DEF Take
<1>3. Len(orders') = Len(orders) + 1 /\ orders'[Len(orders) + 1] = c /\ \A i \in 1..Len(orders) : orders'[i] = orders[i]
  BY <1>1, <1>2
<1>4. injection'[Len(orders) + 1] = [pane |-> pane, pc |-> pc] /\ \A i \in 1..Len(orders) : injection'[i] = injection[i]
  BY <1>1, <1>2
<1>5. Orders' = Orders \cup {Len(orders) + 1}
  BY <1>1, <1>3 DEF Orders
<1> QED
  BY <1>1, <1>3, <1>4, <1>5 DEF Orders

LEMMA WindowInvKept ==
  ASSUME WindowTypes, WindowInv, WindowTypes', [WindowsNext]_windowVars
  PROVE  WindowInv'
<1>n. Len(orders) \in Nat /\ Len(panes) \in Nat /\ DOMAIN panes = 1..Len(panes) /\ Len(panes') \in Nat /\ DOMAIN panes' = 1..Len(panes')
  BY DEF WindowTypes
<1>w. ASSUME NEW w \in DOMAIN panes PROVE panes[w] \in PaneRecord /\ PaneInv(w)
  BY DEF WindowTypes, WindowInv
<1>h. ASSUME NEW i \in Orders PROVE injection[i] \in InjectionRecord /\ Home(i)
  BY DEF WindowTypes, WindowInv, Homes, Orders
\* Steps that neither begin nor move a prompt.
<1>q. ASSUME UNCHANGED <<orders, injection>>, Len(panes') = Len(panes),
             \A w \in DOMAIN panes : /\ panes'[w].line = panes[w].line /\ panes'[w].sent = panes[w].sent
                                     /\ panes'[w].job = panes[w].job /\ panes'[w].clash = panes[w].clash
                                     /\ panes'[w].shape \in {"starting", "up"} => panes[w].shape \in {"starting", "up"}
      PROVE  WindowInv'
  <2>1. Orders' = Orders /\ Len(orders') \in Nat /\ Len(orders) <= Len(orders')
    BY <1>n, <1>q DEF Orders
  <2>2. ASSUME NEW i \in Orders PROVE Home(i)'
    BY <1>n, <1>h, <1>q, HomeUndisturbed
  <2>3. ASSUME NEW w \in DOMAIN panes PROVE PaneInv(w)'
    BY <1>n, <1>w, <1>q, <2>1, PaneUndisturbed
  <2> QED
    BY <1>n, <1>q, <2>1, <2>2, <2>3 DEF WindowInv, Homes
<1>1. ASSUME NEW c \in Jobs, Ignore(c) PROVE WindowInv'
  <2>0. PICK new : new = Len(orders) + 1
    OBVIOUS
  <2>1. /\ new \in Nat /\ new \notin Orders /\ Orders' = Orders \cup {new} /\ Len(orders') = new
        /\ orders'[new] = c /\ injection'[new].pane = 0 /\ injection'[new].pc = "done"
        /\ \A i \in Orders : orders'[i] = orders[i] /\ injection'[i] = injection[i]
    BY <1>1, <2>0, DispatchTaken DEF Ignore
  <2>2. UNCHANGED panes
    BY <1>1 DEF Ignore
  <2>3. ASSUME NEW w \in DOMAIN panes PROVE PaneInv(w)'
    <3>1. w # 0 /\ PaneInv(w) /\ Len(orders) <= Len(orders') /\ Len(orders') \in Nat
      BY <1>n, <1>w, <2>0, <2>1
    <3>2. \A i \in Orders' \ Orders : injection'[i].pane # w
      BY <2>1, <3>1
    <3> QED
      BY <1>n, <2>1, <2>2, <3>1, <3>2, PaneUndisturbed
  <2>4. ASSUME NEW i \in Orders PROVE Home(i)'
    BY <1>n, <1>h, <2>1, <2>2, HomeUndisturbed
  <2>5. Home(new)'
    BY <1>n, <2>1 DEF Home
  <2> QED
    BY <2>1, <2>2, <2>3, <2>4, <2>5 DEF WindowInv, Homes
<1>2. ASSUME NEW c \in Jobs, Continue(c) PROVE WindowInv'
  <2>0. PICK new : new = Len(orders) + 1
    OBVIOUS
  <2>w. PICK w : w = opened[c]
    OBVIOUS
  <2>1. /\ new \in Nat /\ new \notin Orders /\ Orders' = Orders \cup {new} /\ Len(orders') = new
        /\ orders'[new] = c /\ injection'[new].pane = w /\ injection'[new].pc = "types"
        /\ \A i \in Orders : i < new /\ orders'[i] = orders[i] /\ injection'[i] = injection[i]
    BY <1>2, <2>0, <2>w, DispatchTaken DEF Continue
  <2>2. w \in DOMAIN panes /\ panes[w].job = c /\ panes[w].shape \in {"up", "ready"}
    BY <1>2, <2>w DEF Continue, Alive, WindowTypes
  <2>3. panes' = [panes EXCEPT ![w].clash = @ \/ UnderWay(w) # {}]
    BY <1>2, <2>w DEF Continue
  <2>4. panes'[w] = [panes[w] EXCEPT !.clash = @ \/ UnderWay(w) # {}] /\ (\A u \in DOMAIN panes \ {w} : panes'[u] = panes[u])
        /\ Len(panes') = Len(panes)
    BY <2>2, <2>3 DEF WindowTypes
  <2>5. /\ panes'[w].line = panes[w].line /\ panes'[w].sent = panes[w].sent /\ panes'[w].job = panes[w].job
        /\ panes'[w].shape = panes[w].shape /\ (panes'[w].clash <=> panes[w].clash \/ UnderWay(w) # {})
    BY <1>w, <2>2, <2>4 DEF PaneRecord
  <2>6. ASSUME NEW u \in DOMAIN panes \ {w} PROVE PaneInv(u)'
    <3>1. u # 0 /\ PaneInv(u) /\ Len(orders) <= Len(orders') /\ Len(orders') \in Nat
      BY <1>n, <1>w, <2>0, <2>1
    <3>2. \A i \in Orders' \ Orders : injection'[i].pane # u
      BY <2>1, <3>1
    <3> QED
      BY <1>n, <2>1, <2>4, <3>1, <3>2, PaneUndisturbed
  <2>7. ASSUME NEW i \in Orders PROVE Home(i)'
    <3>1. \A u \in 1..Len(panes) : panes'[u].job = panes[u].job
      BY <1>n, <2>4, <2>5
    <3> QED
      BY <1>n, <1>h, <2>1, <2>4, <3>1, HomeUndisturbed
  <2>8. Home(new)'
    BY <1>n, <2>1, <2>2, <2>4, <2>5 DEF Home
  <2>9. Lines(w)'
    <3>1. Lines(w)
      BY <1>w, <2>2 DEF PaneInv
    <3>2. Typed(w)' = Typed(w) /\ \A k : Submitted(w, k)' = Submitted(w, k)
      BY <2>5 DEF Typed, Submitted
    <3>3. \A i \in Orders : At(i, w, {"enters", "done"}) => i \in Orders' /\ At(i, w, {"enters", "done"})'
      BY <2>1 DEF At
    <3>4. \A i \in Typed(w)' : i \in Orders' /\ At(i, w, {"enters", "done"})'
      BY <3>1, <3>2, <3>3 DEF Lines
    <3>5. ASSUME NEW k \in DOMAIN panes'[w].sent, NEW i \in Submitted(w, k)'
          PROVE  /\ i \in Orders' /\ At(i, w, {"enters", "done"})' /\ i \notin Typed(w)'
                 /\ \A l \in DOMAIN panes'[w].sent : i \in Submitted(w, l)' => k = l
      <4>1. k \in DOMAIN panes[w].sent /\ i \in Submitted(w, k)
        BY <2>5, <3>2
      <4>2. i \in Orders /\ At(i, w, {"enters", "done"}) /\ i \notin Typed(w)
            /\ \A l \in DOMAIN panes[w].sent : i \in Submitted(w, l) => k = l
        BY <3>1, <4>1 DEF Lines
      <4> QED
        BY <2>5, <3>2, <3>3, <4>2
    <3> QED
      BY <3>4, <3>5 DEF Lines
  <2>10. ASSUME ~panes'[w].clash PROVE Clean(w)'
    <3>1. Clean(w) /\ UnderWay(w) = {}
      BY <1>w, <2>2, <2>5, <2>10 DEF PaneInv
    <3>2. \A i \in Orders : ~At(i, w, Busy)
      BY <3>1 DEF UnderWay, At, Busy
    <3>3. \A i \in Orders' : At(i, w, Busy)' => i = new
      BY <2>1, <3>2 DEF At
    <3>4. \A i \in Orders' : ~At(i, w, {"enters"})'
      BY <2>1, <3>2 DEF At, Busy
    <3>5. panes[w].line = <<>> /\ panes[w].shape \notin {"starting", "up"}
      BY <3>1, <3>2 DEF Clean, TheLineIsTyped, YoungAreAwaited, At, Busy
    <3>6. OneAtATime(w)' /\ YoungAreAwaited(w)' /\ TheLineIsTyped(w)'
      BY <2>5, <3>3, <3>4, <3>5 DEF OneAtATime, YoungAreAwaited, TheLineIsTyped
    <3>7. ASSUME NEW k \in DOMAIN panes[w].sent PROVE Len(panes[w].sent[k]) = 1 /\ panes[w].sent[k][1] < new
      <4>1. Len(panes[w].sent[k]) = 1
        BY <3>1 DEF Clean, SentInOrder
      <4>2. panes[w].sent[k] \in Seq(Nat)
        <5>1. panes[w].sent \in Seq(Seq(Nat))
          BY <1>w, <2>2 DEF PaneRecord
        <5> QED
          BY <5>1
      <4>3. 1 \in DOMAIN panes[w].sent[k]
        BY <4>1, <4>2
      <4>4. panes[w].sent[k][1] \in Submitted(w, k)
        BY <4>3 DEF Submitted
      <4>5. panes[w].sent[k][1] \in Orders
        BY <1>w, <2>2, <4>4 DEF PaneInv, Lines
      <4> QED
        BY <2>1, <4>1, <4>5
    <3>8. SentInOrder(w)'
      BY <2>5, <3>1, <3>3, <3>7 DEF Clean, SentInOrder
    <3> QED
      BY <3>6, <3>8 DEF Clean
  <2>11. PaneInv(w)'
    BY <2>9, <2>10 DEF PaneInv
  <2> QED
    BY <1>n, <2>1, <2>4, <2>6, <2>7, <2>8, <2>11 DEF WindowInv, Homes
<1>3. ASSUME NEW c \in Jobs, NEW display \in BOOLEAN, Open(c, display) PROVE WindowInv'
  <2>0. PICK new : new = Len(orders) + 1
    OBVIOUS
  <2>w. PICK w \in Nat : w = Len(panes) + 1
    BY <1>n
  <2> DEFINE r == Pane(c, IF display THEN "starting" ELSE "refused")
             pc == IF display THEN "waits" ELSE "done"
  <2>1. /\ new \in Nat /\ new \notin Orders /\ Orders' = Orders \cup {new} /\ Len(orders') = new
        /\ orders'[new] = c /\ injection'[new].pane = w /\ injection'[new].pc = pc
        /\ \A i \in Orders : i < new /\ orders'[i] = orders[i] /\ injection'[i] = injection[i]
    BY <1>3, <2>0, <2>w, DispatchTaken DEF Open
  <2>2. /\ Len(panes') = w /\ (\A u \in DOMAIN panes : panes'[u] = panes[u]) /\ panes'[w] = r
        /\ DOMAIN panes' = DOMAIN panes \cup {w} /\ w \notin DOMAIN panes
    <3>1. panes' = Append(panes, r)
      BY <1>3 DEF Open
    <3>2. panes \in Seq(PaneRecord) /\ r \in PaneRecord
      BY DEF WindowTypes, Pane, PaneRecord
    <3> HIDE DEF r
    <3> QED
      BY <1>n, <2>w, <3>1, <3>2
  <2>3. r.job = c /\ r.line = <<>> /\ r.sent = <<>> /\ r.shape = IF display THEN "starting" ELSE "refused"
    BY DEF Pane
  <2> HIDE DEF r
  <2>4. ASSUME NEW i \in Orders PROVE injection'[i].pane # w
    <3>1. injection[i].pane \in Nat /\ injection[i].pane <= Len(panes)
      BY <1>h DEF InjectionRecord, Home
    <3> QED
      BY <1>n, <2>w, <2>1, <3>1
  <2>5. ASSUME NEW u \in DOMAIN panes PROVE PaneInv(u)'
    <3>1. PaneInv(u) /\ Len(orders) <= Len(orders') /\ Len(orders') \in Nat
      BY <1>n, <1>w, <2>0, <2>1
    <3>2. \A i \in Orders' \ Orders : injection'[i].pane # u
      BY <2>1, <2>2
    <3> QED
      BY <1>n, <2>1, <2>2, <3>1, <3>2, PaneUndisturbed
  <2>6. ASSUME NEW i \in Orders PROVE Home(i)'
    <3>1. (\A u \in 1..Len(panes) : panes'[u].job = panes[u].job) /\ Len(panes) <= Len(panes')
      BY <1>n, <2>w, <2>2
    <3> QED
      BY <1>n, <1>h, <2>1, <3>1, HomeUndisturbed
  <2>7. Home(new)'
    BY <1>n, <2>w, <2>1, <2>2, <2>3 DEF Home
  <2>8. PaneInv(w)'
    <3>1. Typed(w)' = {} /\ panes'[w].line = <<>> /\ panes'[w].sent = <<>>
      BY <2>2, <2>3 DEF Typed
    <3>2. Lines(w)'
      BY <3>1 DEF Lines
    <3>3. \A i \in Orders' : At(i, w, Busy)' => i = new
      BY <2>1, <2>4 DEF At
    <3>4. OneAtATime(w)' /\ SentInOrder(w)'
      BY <3>1, <3>3 DEF OneAtATime, SentInOrder
    <3>5. YoungAreAwaited(w)'
      BY <2>1, <2>2, <2>3 DEF YoungAreAwaited, At
    <3>6. \A i \in Orders' : ~At(i, w, {"enters"})'
      BY <2>1, <3>3 DEF At, Busy
    <3>7. TheLineIsTyped(w)'
      BY <3>1, <3>6 DEF TheLineIsTyped
    <3> QED
      BY <3>2, <3>4, <3>5, <3>7 DEF PaneInv, Clean
  <2> QED
    BY <2>1, <2>2, <2>5, <2>6, <2>7, <2>8 DEF WindowInv, Homes
<1>4. ASSUME NEW w \in DOMAIN panes, Lost(w) \/ Ages(w) \/ Grows(w, "starting", "up") \/ Grows(w, "up", "ready") PROVE WindowInv'
  <2>1. UNCHANGED <<orders, injection>>
    BY <1>4 DEF Lost, Ages, Grows
  <2>2. Len(panes') = Len(panes) /\ (\A u \in DOMAIN panes \ {w} : panes'[u] = panes[u])
    BY <1>4 DEF Lost, Ages, Grows, WindowTypes
  <2>3. \/ panes'[w] = [panes[w] EXCEPT !.old = TRUE, !.late = panes[w].old]
        \/ panes'[w] = [panes[w] EXCEPT !.shape = "gone"]
        \/ \E to \in {"up", "ready"} : panes[w].shape \in {"starting", "up"} /\ panes'[w] = [panes[w] EXCEPT !.shape = to]
    <3>1. CASE Ages(w)
      BY <3>1 DEF Ages, WindowTypes
    <3>2. CASE Lost(w)
      BY <3>2 DEF Lost, WindowTypes
    <3>3. CASE Grows(w, "starting", "up") \/ Grows(w, "up", "ready")
      BY <3>3 DEF Grows, WindowTypes
    <3> QED
      BY <1>4, <3>1, <3>2, <3>3
  <2>4. /\ panes'[w].line = panes[w].line /\ panes'[w].sent = panes[w].sent
        /\ panes'[w].job = panes[w].job /\ panes'[w].clash = panes[w].clash
        /\ panes'[w].shape \in {"starting", "up"} => panes[w].shape \in {"starting", "up"}
    BY <1>w, <2>3 DEF PaneRecord
  <2> QED
    BY <1>q, <2>1, <2>2, <2>4
<1>5. ASSUME NEW i \in Orders, Waited(i) PROVE WindowInv'
  <2>w. PICK w : w = injection[i].pane
    OBVIOUS
  <2>v. panes[w] \in PaneRecord /\ PaneInv(w) /\ injection[i].pc = "waits"
    <3>1. injection[i].pc = "waits"
      BY <1>5 DEF Waited
    <3>2. injection[i].pane \in Nat /\ injection[i].pane # 0 /\ injection[i].pane <= Len(panes)
      BY <1>h, <3>1 DEF Home, InjectionRecord
    <3> QED
      BY <1>n, <1>w, <2>w, <3>1, <3>2
  <2>r. PICK r : r = [panes[w] EXCEPT !.clash = @ \/ panes[w].shape # "ready"]
    OBVIOUS
  <2>1. r \in PaneRecord /\ r.job = panes[w].job /\ r.line = panes[w].line /\ r.sent = panes[w].sent
        /\ r.shape = panes[w].shape /\ (r.clash <=> panes[w].clash \/ panes[w].shape # "ready")
    BY <2>v, <2>r DEF PaneRecord
  <2>2. injection' = [injection EXCEPT ![i].pc = "types"] /\ UNCHANGED orders /\ panes' = [panes EXCEPT ![w] = r]
    BY <1>5, <2>w, <2>r DEF Waited
  <2>3. /\ w \in DOMAIN panes /\ DOMAIN panes' = DOMAIN panes /\ panes'[w] = r
        /\ Homes' /\ \A u \in DOMAIN panes \ {w} : PaneInv(u)'
    BY <2>w, <2>v, <2>1, <2>2, OthersUndisturbed
  <2>4. PaneInv(w)'
    BY <2>w, <2>v, <2>1, <2>2, <2>3, PromptMovesOn
  <2> QED
    BY <2>3, <2>4 DEF WindowInv
<1>6. ASSUME NEW i \in Orders, NEW ok \in BOOLEAN, NEW kept \in BOOLEAN, Types(i, ok, kept) PROVE WindowInv'
  <2>w. PICK w : w = injection[i].pane
    OBVIOUS
  <2>v. w \in DOMAIN panes /\ panes[w] \in PaneRecord /\ PaneInv(w) /\ injection[i].pc = "types"
    <3>1. injection[i].pc = "types"
      BY <1>6 DEF Types
    <3>2. injection[i].pane \in Nat /\ injection[i].pane # 0 /\ injection[i].pane <= Len(panes)
      BY <1>h, <3>1 DEF Home, InjectionRecord
    <3> QED
      BY <1>n, <1>w, <2>w, <3>1, <3>2
  <2>1. CASE ok /\ Alive(w) /\ kept
    <3>r. PICK r : r = [panes[w] EXCEPT !.line = Append(@, i)]
      OBVIOUS
    <3>1. r \in PaneRecord /\ r.job = panes[w].job
      <4>1. Append(panes[w].line, i) \in Seq(Nat)
        <5>1. panes[w].line \in Seq(Nat) /\ i \in Nat
          BY <2>v DEF PaneRecord, Orders
        <5> QED
          BY <5>1
      <4> QED
        BY <2>v, <3>r, <4>1 DEF PaneRecord
    <3>2. injection' = [injection EXCEPT ![i].pc = "enters"] /\ UNCHANGED orders /\ panes' = [panes EXCEPT ![w] = r]
      BY <1>6, <2>w, <2>1, <3>r DEF Types
    <3>3. /\ DOMAIN panes' = DOMAIN panes /\ panes'[w] = r
          /\ Homes' /\ \A u \in DOMAIN panes \ {w} : PaneInv(u)'
      BY <2>w, <2>v, <3>1, <3>2, OthersUndisturbed
    <3>4. PaneInv(w)'
      BY <2>w, <2>v, <3>r, <3>2, <3>3, PromptIsTyped
    <3> QED
      BY <3>3, <3>4 DEF WindowInv
  <2>2. CASE ~(ok /\ Alive(w) /\ kept)
    <3>r. PICK r : r = [panes[w] EXCEPT !.clash = @ \/ ~ok]
      OBVIOUS
    <3>1. r \in PaneRecord /\ r.job = panes[w].job /\ r.line = panes[w].line /\ r.sent = panes[w].sent
          /\ r.shape = panes[w].shape /\ (r.clash <=> panes[w].clash \/ ~ok)
      BY <2>v, <3>r DEF PaneRecord
    <3>2. UNCHANGED orders /\ panes' = [panes EXCEPT ![w] = r]
      BY <1>6, <2>w, <2>2, <3>r DEF Types
    <3>p. PICK pc : pc = IF ok /\ Alive(w) THEN "enters" ELSE "done"
      OBVIOUS
    <3>3. injection' = [injection EXCEPT ![i].pc = pc]
      BY <1>6, <2>w, <3>p DEF Types
    <3>4. /\ DOMAIN panes' = DOMAIN panes /\ panes'[w] = r
          /\ Homes' /\ \A u \in DOMAIN panes \ {w} : PaneInv(u)'
      BY <2>w, <2>v, <3>1, <3>2, <3>3, OthersUndisturbed
    <3>5. ASSUME ~panes'[w].clash PROVE pc = "done" /\ panes'[w].shape \notin {"starting", "up"}
      <4>1. Clean(w) /\ ok
        BY <2>v, <3>1, <3>4, <3>5 DEF PaneInv
      <4>2. At(i, w, Busy)
        BY <2>w, <2>v DEF At, Busy
      <4>3. panes[w].shape \notin {"starting", "up"}
        BY <2>v, <4>1, <4>2, LoneDispatch
      <4>4. kept
        BY <1>6, <2>w, <4>3 DEF Types
      <4> QED
        BY <2>2, <3>p, <3>1, <3>4, <4>1, <4>3, <4>4
    <3>6. PaneInv(w)'
      <4>1. <<injection[i].pc, pc>> \in {<<"waits", "types">>, <<"types", "enters">>, <<"types", "done">>, <<"enters", "done">>}
        BY <2>v, <3>p
      <4> QED
        BY <2>w, <2>v, <3>1, <3>2, <3>3, <3>4, <3>5, <4>1, PromptMovesOn
    <3> QED
      BY <3>4, <3>6 DEF WindowInv
  <2> QED
    BY <2>1, <2>2
<1>7. ASSUME NEW i \in Orders, NEW ok \in BOOLEAN, PressesEnter(i, ok) PROVE WindowInv'
  <2>w. PICK w : w = injection[i].pane
    OBVIOUS
  <2>v. w \in DOMAIN panes /\ panes[w] \in PaneRecord /\ PaneInv(w) /\ injection[i].pc = "enters"
    <3>1. injection[i].pc = "enters"
      BY <1>7 DEF PressesEnter
    <3>2. injection[i].pane \in Nat /\ injection[i].pane # 0 /\ injection[i].pane <= Len(panes)
      BY <1>h, <3>1 DEF Home, InjectionRecord
    <3> QED
      BY <1>n, <1>w, <2>w, <3>1, <3>2
  <2>0. injection' = [injection EXCEPT ![i].pc = "done"] /\ UNCHANGED orders
    BY <1>7 DEF PressesEnter
  <2>1. CASE ok /\ panes[w].shape = "ready"
    <3>r. PICK r : r = [panes[w] EXCEPT !.sent = Append(@, panes[w].line), !.line = <<>>]
      OBVIOUS
    <3>1. r \in PaneRecord /\ r.job = panes[w].job
      <4>1. Append(panes[w].sent, panes[w].line) \in Seq(Seq(Nat)) /\ <<>> \in Seq(Nat)
        <5>1. panes[w].line \in Seq(Nat) /\ panes[w].sent \in Seq(Seq(Nat))
          BY <2>v DEF PaneRecord
        <5> QED
          BY <5>1
      <4> QED
        BY <2>v, <3>r, <4>1 DEF PaneRecord
    <3>2. panes' = [panes EXCEPT ![w] = r]
      <4>1. panes' = [panes EXCEPT ![w].sent = Append(@, panes[w].line), ![w].line = <<>>]
        BY <1>7, <2>w, <2>1 DEF PressesEnter
      <4> QED
        BY <2>v, <3>r, <4>1 DEF WindowTypes, PaneRecord
    <3>3. /\ DOMAIN panes' = DOMAIN panes /\ panes'[w] = r
          /\ Homes' /\ \A u \in DOMAIN panes \ {w} : PaneInv(u)'
      BY <2>w, <2>v, <2>0, <3>1, <3>2, OthersUndisturbed
    <3>4. PaneInv(w)'
      BY <2>w, <2>v, <2>0, <2>1, <3>r, <3>3, LineIsSubmitted, ZenonT(40)
    <3> QED
      BY <3>3, <3>4 DEF WindowInv
  <2>2. CASE ~(ok /\ panes[w].shape = "ready")
    <3>r. PICK r : r = [panes[w] EXCEPT !.clash = TRUE]
      OBVIOUS
    <3>1. r \in PaneRecord /\ r.job = panes[w].job /\ r.line = panes[w].line /\ r.sent = panes[w].sent /\ r.clash
      BY <2>v, <3>r DEF PaneRecord
    <3>2. panes' = [panes EXCEPT ![w] = r]
      BY <1>7, <2>w, <2>2, <3>r DEF PressesEnter
    <3>3. /\ DOMAIN panes' = DOMAIN panes /\ panes'[w] = r
          /\ Homes' /\ \A u \in DOMAIN panes \ {w} : PaneInv(u)'
      BY <2>w, <2>v, <2>0, <3>1, <3>2, OthersUndisturbed
    <3>4. PaneInv(w)'
      <4>1. <<injection[i].pc, "done">> \in {<<"waits", "types">>, <<"types", "enters">>, <<"types", "done">>, <<"enters", "done">>}
        BY <2>v
      <4> QED
        BY <2>w, <2>v, <2>0, <3>1, <3>3, <4>1, PromptMovesOn
    <3> QED
      BY <3>3, <3>4 DEF WindowInv
  <2> QED
    BY <2>1, <2>2
<1>8. ASSUME NEW c \in Jobs, Completed(c) \/ Abandon(c) PROVE WindowInv'
  <2>1. UNCHANGED <<orders, injection>>
    BY <1>8 DEF Completed, Abandon
  <2>2. CASE UNCHANGED panes
    BY <1>q, <2>1, <2>2
  <2>3. CASE Alive(opened[c]) /\ panes' = [panes EXCEPT ![opened[c]].shape = "gone"]
    <3>w. PICK w : w = opened[c]
      OBVIOUS
    <3>1. w \in DOMAIN panes
      BY <2>3, <3>w DEF Alive, WindowTypes
    <3>2. Len(panes') = Len(panes) /\ (\A u \in DOMAIN panes \ {w} : panes'[u] = panes[u]) /\ panes'[w] = [panes[w] EXCEPT !.shape = "gone"]
      BY <2>3, <3>w, <3>1 DEF WindowTypes
    <3>3. /\ panes'[w].line = panes[w].line /\ panes'[w].sent = panes[w].sent
          /\ panes'[w].job = panes[w].job /\ panes'[w].clash = panes[w].clash /\ panes'[w].shape = "gone"
      BY <1>w, <3>1, <3>2 DEF PaneRecord
    <3> QED
      BY <1>q, <2>1, <3>2, <3>3
  <2> QED
    BY <1>8, <2>2, <2>3 DEF Completed, Abandon
<1>9. ASSUME UNCHANGED windowVars PROVE WindowInv'
  BY <1>9, <1>q DEF windowVars
<1> QED
  BY <1>1, <1>2, <1>3, <1>4, <1>5, <1>6, <1>7, <1>8, <1>9 DEF WindowsNext

\* A set without two elements has at most one.
LEMMA AtMostOne ==
  ASSUME NEW S, \A x, y \in S : x = y
  PROVE  Cardinality(S) <= 1
<1>1. CASE S = {}
  BY <1>1, FS_EmptySet
<1>2. CASE S # {}
  <2>1. PICK x \in S : S = {x}
    BY <1>2
  <2> QED
    BY <2>1, FS_Singleton
<1> QED
  BY <1>1, <1>2

LEMMA WholePrompts ==
  ASSUME WindowTypes, WindowInv
  PROVE  PromptsAreWhole /\ TypedOnce
<1>n. DOMAIN panes = 1..Len(panes) /\ Len(panes) \in Nat
  BY DEF WindowTypes
<1>w. ASSUME NEW w \in DOMAIN panes
      PROVE  /\ panes[w].line \in Seq(Nat) /\ panes[w].sent \in Seq(Seq(Nat)) /\ Lines(w) /\ (~panes[w].clash => Clean(w))
  <2>1. panes[w] \in PaneRecord
    BY DEF WindowTypes
  <2> QED
    BY <2>1 DEF PaneRecord, WindowInv, PaneInv
<1>1. PromptsAreWhole
  <2>1. SUFFICES ASSUME NEW w \in DOMAIN panes, ~panes[w].clash, NEW k \in DOMAIN panes[w].sent
                 PROVE  /\ Len(panes[w].sent[k]) = 1 /\ orders[panes[w].sent[k][1]] = panes[w].job
                        /\ k > 1 => panes[w].sent[k - 1][1] < panes[w].sent[k][1]
    BY DEF PromptsAreWhole
  <2>2. Len(panes[w].sent[k]) = 1 /\ (k > 1 => panes[w].sent[k - 1][1] < panes[w].sent[k][1])
    BY <1>w, <2>1 DEF Clean, SentInOrder
  <2>3. panes[w].sent[k] \in Seq(Nat)
    BY <1>w
  <2>4. panes[w].sent[k][1] \in Submitted(w, k)
    <3>1. 1 \in DOMAIN panes[w].sent[k]
      BY <2>2, <2>3
    <3> QED
      BY <3>1 DEF Submitted
  <2>5. panes[w].sent[k][1] \in Orders /\ injection[panes[w].sent[k][1]].pane = w
    BY <1>w, <2>4 DEF Lines, At
  <2>6. orders[panes[w].sent[k][1]] = panes[w].job
    BY <1>n, <2>5 DEF WindowInv, Homes, Home
  <2> QED
    BY <2>2, <2>6
<1>2. TypedOnce
  <2> SUFFICES ASSUME NEW i \in Orders PROVE Cardinality(PlacesOf(i)) <= 1
    BY DEF TypedOnce
  <2>1. ASSUME NEW at \in PlacesOf(i)
        PROVE  /\ at = <<injection[i].pane, at[2]>> /\ injection[i].pane \in DOMAIN panes
               /\ \/ at[2] = 0 /\ i \in Typed(injection[i].pane)
                  \/ at[2] \in DOMAIN panes[injection[i].pane].sent /\ i \in Submitted(injection[i].pane, at[2])
    <3>1. PICK w \in DOMAIN panes, k \in 0..MaxOrders : at = <<w, k>> /\ \E n \in DOMAIN LineAt(w, k) : LineAt(w, k)[n] = i
      BY DEF PlacesOf
    <3>2. CASE k = 0
      <4>1. i \in Typed(w)
        BY <3>1, <3>2 DEF LineAt, Typed
      <4>2. injection[i].pane = w
        BY <1>w, <4>1 DEF Lines, At
      <4> QED
        BY <3>1, <3>2, <4>1, <4>2
    <3>3. CASE k # 0
      <4>1. panes[w].sent \in Seq(Seq(Nat)) /\ k \in Nat \ {0}
        BY <1>w, <3>3, WindowBounds
      <4>2. k <= Len(panes[w].sent) /\ LineAt(w, k) = panes[w].sent[k]
        <5>1. CASE k <= Len(panes[w].sent)
          BY <3>3, <5>1 DEF LineAt
        <5>2. CASE ~(k <= Len(panes[w].sent))
          <6>1. LineAt(w, k) = <<>>
            BY <3>3, <5>2 DEF LineAt
          <6> QED
            BY <3>1, <6>1
        <5> QED
          BY <5>1, <5>2
      <4>3. k \in DOMAIN panes[w].sent
        BY <4>1, <4>2
      <4>4. i \in Submitted(w, k)
        BY <3>1, <4>2 DEF Submitted
      <4>5. injection[i].pane = w
        BY <1>w, <4>3, <4>4 DEF Lines, At
      <4> QED
        BY <3>1, <4>3, <4>4, <4>5
    <3> QED
      BY <3>2, <3>3
  <2>2. ASSUME NEW at \in PlacesOf(i), NEW too \in PlacesOf(i) PROVE at = too
    <3> DEFINE w == injection[i].pane
    <3>1. /\ at = <<w, at[2]>> /\ w \in DOMAIN panes
          /\ \/ at[2] = 0 /\ i \in Typed(w)
             \/ at[2] \in DOMAIN panes[w].sent /\ i \in Submitted(w, at[2])
      BY <2>1
    <3>2. /\ too = <<w, too[2]>>
          /\ \/ too[2] = 0 /\ i \in Typed(w)
             \/ too[2] \in DOMAIN panes[w].sent /\ i \in Submitted(w, too[2])
      BY <2>1
    <3>3. at[2] = too[2]
      BY <1>w, <3>1, <3>2 DEF Lines
    <3> HIDE DEF w
    <3> QED
      BY <3>1, <3>2, <3>3, Zenon
  <2> QED
    BY <2>2, AtMostOne
<1> QED
  BY <1>1, <1>2

THEOREM PromptsAreTypedOnce == WindowsSpec => [](PromptsAreWhole /\ TypedOnce)
<1>1. WindowsInit => WindowTypes /\ WindowInv
  BY DEF WindowsInit, WindowTypes, WindowInv, Homes, Orders
<1>2. WindowTypes /\ WindowInv /\ [WindowsNext]_windowVars => WindowTypes' /\ WindowInv'
  BY WindowTypesKept, WindowInvKept DEF WindowInv
<1>3. WindowTypes /\ WindowInv => PromptsAreWhole /\ TypedOnce
  BY WholePrompts
<1> QED
  BY <1>1, <1>2, <1>3, PTL DEF WindowsSpec

\* Of the agent's plugins: AskedOnce, PromptsAreWhole and TypedOnce, for every number
\* of tasks, polls, dispatches and failures.
THEOREM PromptsArePutOnce == AdaptersSpec /\ WindowsSpec => []PromptedOnce
<1>1. AskedOnce /\ (PromptsAreWhole /\ TypedOnce) => PromptedOnce
  BY DEF PromptedOnce
<1> QED
  BY <1>1, ErrandsAreAskedOnce, PromptsAreTypedOnce, PTL
=============================================================================
