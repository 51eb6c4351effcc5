--------------------------- MODULE OperatorsProofs ---------------------------
(***************************************************************************)
(* Proofs about what people ask, decide and edit, for every set of people, *)
(* operators, requests and failures, and any clock.                        *)
(*                                                                         *)
(* The record of a proposal never runs ahead of the deed, and what nobody  *)
(* edits is done once.  The cache of contacts tells no lie about a role,   *)
(* and the guard of update_profile() and disable() keeps an active         *)
(* administrator as long as edits come one at a time.                      *)
(*                                                                         *)
(* What the OpenAI-compatible endpoint sends on answers the turn of its    *)
(* request, comes once, and does not pass an error off as an answer.       *)
(*                                                                         *)
(* The bell lists what waits and what is new, however proposals, decisions *)
(* and marks arrive between its queries.  A listing of proposed contacts   *)
(* shows what is open, and an acceptance in which no call failed leaves a  *)
(* contact who can be reached.                                             *)
(***************************************************************************)
EXTENDS Proposals, Contacts, Completions, Introductions, FiniteSetTheorems, SequenceTheorems, TLAPS

(* Numbers.                                                                  *)
\* Of numbers that are bounded one is the greatest.
LEMMA HasGreatest ==
  ASSUME NEW n \in Nat, NEW S \in SUBSET (0..n), S # {}
  PROVE  \E x \in S : \A y \in S : y <= x
<1> DEFINE Above(x) == {y \in S : y > x}
           Tails == {Above(x) : x \in S}
<1>0. IsFiniteSet(0..n)
  BY FS_Interval
<1>a. \A x \in S : x \in Nat
  OBVIOUS
<1>b. S \subseteq 0..n
  OBVIOUS
<1>1. IsFiniteSet(S) /\ \A x \in S : x \in Nat
  BY <1>0, <1>a, <1>b, FS_Subset, Zenon
<1>2. Tails \subseteq FiniteSubsetsOf(S) /\ Tails # {}
  <2>1. \A x \in S : Above(x) \in SUBSET S /\ IsFiniteSet(Above(x))
    BY <1>1, FS_Subset
  <2>2. \A x \in S : Above(x) \in FiniteSubsetsOf(S)
    BY <2>1 DEF FiniteSubsetsOf
  <2> HIDE DEF Above
  <2> QED
    BY <2>2
<1>3. (\A l \in Tails : \E x \in S : l = Above(x)) /\ \A y \in S : Above(y) \in Tails
  OBVIOUS
<1> HIDE DEF Tails, Above
<1>4. PICK least \in Tails : \A t \in Tails : ~(<<t, least>> \in StrictSubsetOrdering(S))
  BY <1>1, <1>2, WFMin, FS_StrictSubsetOrderingWellFounded
<1> PICK x \in S : least = Above(x)
  BY <1>3
<1>5. \A y \in S : ~(y > x)
  <2> SUFFICES ASSUME NEW y \in S, y > x PROVE FALSE
    OBVIOUS
  <2>a. \A z \in S : z > y => z > x
    BY <1>1
  <2>b. ~(y > y)
    BY <1>1
  <2>1. Above(y) \subseteq Above(x) /\ Above(x) \subseteq S /\ y \in Above(x) /\ y \notin Above(y)
    BY <2>a, <2>b, Zenon DEF Above
  <2>2. <<Above(y), Above(x)>> \in StrictSubsetOrdering(S)
    BY <2>1 DEF StrictSubsetOrdering
  <2> QED
    BY <1>3, <1>4, <2>2
<1> QED
  BY <1>1, <1>5

(* Proposals.                                                                *)
Statuses == {"none", "approved", "denied"}
Task == [pc : {"no", "policy", "check", "act", "insert", "decide", "record"}, edited : BOOLEAN,
         status : Statuses, result : Nat, lost : BOOLEAN]
DecisionRow == [status : Statuses, by : {"policy", "operator"}, result : Nat]

\* What the proofs need of the types: a bound on the result is not needed.
ProposalsTypes ==
  /\ task \in [Deciders -> Task]
  /\ effects \in Seq(BOOLEAN)
  /\ decisions \in Seq(DecisionRow)
  /\ races \in Nat

\* A task that is about to record an approval has done the deed, or has found it done.
Approving(t) == task[t].pc \in {"decide", "record"} /\ task[t].status = "approved"
DeedBeforeDecision == \A t \in Deciders : Approving(t) => effects # << >>

\* Unedited rows that have passed the check count as written: the first of them
\* came before every row, and each of the others met one on its way.
Waiting == {t \in Deciders : task[t].pc = "insert" /\ ~task[t].edited}
Unedited == kind # "helper" /\ \A i \in 1..Len(effects) : ~effects[i]
WaitingOnce == IsFiniteSet(Waiting) /\ (Unedited => Len(effects) + Cardinality(Waiting) <= 1 + races)

ProposalsInv == ProposalsTypes /\ DeedBeforeDecision /\ ApprovedIsDone /\ WaitingOnce

\* The last element of a sequence that is not empty is one of its elements.
LEMMA LastIsIn ==
  ASSUME NEW S, NEW s \in Seq(S), s # << >>
  PROVE  Len(s) \in 1..Len(s) /\ s[Len(s)] \in S
OBVIOUS

\* A sequence that grew by one element.
LEMMA Appended ==
  ASSUME NEW S, NEW s \in Seq(S), NEW x \in S
  PROVE  /\ Append(s, x) \in Seq(S) /\ Append(s, x) # << >>
         /\ Len(Append(s, x)) = Len(s) + 1 /\ Append(s, x)[Len(s) + 1] = x
         /\ \A i \in 1..Len(s) : Append(s, x)[i] = s[i]
OBVIOUS

LEMMA ProposalsStart == ProposalsInit => ProposalsInv
<1> SUFFICES ASSUME ProposalsInit PROVE ProposalsInv
  OBVIOUS
<1>1. ProposalsTypes
  BY DEF ProposalsInit, ProposalsTypes, Task, NoTask, Statuses
<1>2. DeedBeforeDecision
  BY DEF ProposalsInit, DeedBeforeDecision, Approving, NoTask
<1>3. ApprovedIsDone
  BY DEF ProposalsInit, ApprovedIsDone
<1>4. WaitingOnce
  <2>1. Waiting = {} /\ effects = << >> /\ races = 0
    BY DEF ProposalsInit, Waiting, NoTask
  <2>2. Len(effects) = 0
    BY <2>1
  <2> QED
    BY <2>1, <2>2, FS_EmptySet DEF WaitingOnce
<1> QED
  BY <1>1, <1>2, <1>3, <1>4 DEF ProposalsInv

\* Fewer rows on their way keep the count.
LEMMA FewerWait ==
  ASSUME WaitingOnce, effects \in Seq(BOOLEAN), races \in Nat, races' \in Nat, races <= races',
         UNCHANGED <<kind, effects>>, Waiting' \subseteq Waiting
  PROVE  WaitingOnce'
<1>1. IsFiniteSet(Waiting') /\ Cardinality(Waiting') <= Cardinality(Waiting)
  BY FS_Subset DEF WaitingOnce
<1>2. Cardinality(Waiting) \in Nat /\ Cardinality(Waiting') \in Nat /\ Len(effects) \in Nat
  BY <1>1, FS_CardinalityType DEF WaitingOnce
<1>3. Unedited' => Unedited /\ Len(effects') = Len(effects)
  BY DEF Unedited
<1> QED
  BY <1>1, <1>2, <1>3 DEF WaitingOnce

\* A step that changes tasks only, and sends none to its decision or to the store.
LEMMA QuietSteps ==
  ASSUME ProposalsInv, ProposalsTypes', UNCHANGED <<kind, effects, decisions>>, races' = races,
         \A t \in Deciders : Approving(t)' => Approving(t),
         Waiting' \subseteq Waiting
  PROVE  ProposalsInv'
<1>1. DeedBeforeDecision'
  BY DEF ProposalsInv, DeedBeforeDecision
<1>2. ApprovedIsDone'
  BY DEF ProposalsInv, ApprovedIsDone
<1>3. WaitingOnce'
  BY FewerWait DEF ProposalsInv, ProposalsTypes
<1> QED
  BY <1>1, <1>2, <1>3 DEF ProposalsInv

\* A step of one task that neither decides nor writes.
LEMMA IdleSteps ==
  ASSUME ProposalsInv, UNCHANGED <<kind, effects, decisions, races>>,
         NEW t \in Deciders, NEW next \in Task, task' = [task EXCEPT ![t] = next],
         next.pc = "insert" => task[t].pc = "insert" /\ next.edited = task[t].edited,
         next.pc \in {"decide", "record"} /\ next.status = "approved" => Approving(t)
  PROVE  ProposalsInv'
<1>0. task \in [Deciders -> Task]
  BY DEF ProposalsInv, ProposalsTypes
<1>1. ProposalsTypes'
  BY <1>0 DEF ProposalsInv, ProposalsTypes
<1>2. \A u \in Deciders : Approving(u)' => Approving(u)
  BY <1>0 DEF Approving
<1>3. Waiting' \subseteq Waiting
  BY <1>0 DEF Waiting
<1> QED
  BY <1>1, <1>2, <1>3, QuietSteps

LEMMA NoTaskIsTask == NoTask \in Task /\ NoTask.pc = "no"
BY DEF NoTask, Task, Statuses

\* The draft of the proposal, and the policy that may approve it on the spot.
LEMMA DraftSteps ==
  ASSUME ProposalsInv, NEW ok \in BOOLEAN, NEW lands \in BOOLEAN, Draft(ok, lands)
  PROVE  ProposalsInv'
<1>1. PICK next \in {"no", "act", "policy"} : Drafts(next, ok, lands)
  BY DEF Draft, ProposeProvenance, DispatchHelper, MintRoutine, DraftProposal
<1>2. UNCHANGED <<kind, effects, decisions, races>>
  BY <1>1 DEF Drafts, proposed
<1> DEFINE new == IF ok THEN [NoTask EXCEPT !.pc = next, !.status = IF next = "no" THEN "none" ELSE "approved"]
                  ELSE task[Drafter]
<1>3. Drafter \in Deciders /\ task[Drafter] \in Task /\ task[Drafter].pc = "no"
  BY <1>1 DEF Drafts, Deciders, ProposalsInv, ProposalsTypes
<1>4. new \in Task /\ new.pc \in {"no", "act", "policy"}
  BY <1>3 DEF NoTask, Task, Statuses
<1>5. task' = [task EXCEPT ![Drafter] = new]
  BY <1>1 DEF Drafts
<1> HIDE DEF new
<1> QED
  BY <1>2, <1>3, <1>4, <1>5, IdleSteps

LEMMA PolicySteps ==
  ASSUME ProposalsInv, NEW ok \in BOOLEAN, AskRoutine(ok)
  PROVE  ProposalsInv'
<1> DEFINE new == IF ok /\ lenient THEN [task[Drafter] EXCEPT !.pc = "act"] ELSE NoTask
<1>1. UNCHANGED <<kind, effects, decisions, races>>
  BY DEF AskRoutine, proposed
<1>2. Drafter \in Deciders /\ task[Drafter] \in Task
  BY DEF Deciders, ProposalsInv, ProposalsTypes
<1>3. new \in Task /\ new.pc \in {"no", "act"}
  BY <1>2, NoTaskIsTask DEF Task
<1>4. task' = [task EXCEPT ![Drafter] = new]
  BY DEF AskRoutine
<1> HIDE DEF new
<1> QED
  BY <1>1, <1>2, <1>3, <1>4, IdleSteps

\* A click sends a denial to its decision, and an approval to its deed.
LEMMA OperatorSteps ==
  ASSUME ProposalsInv, NEW o \in Operators, Operator(o)
  PROVE  ProposalsInv'
<1>1. o \in Deciders /\ task[o] \in Task
  BY DEF Deciders, ProposalsInv, ProposalsTypes
<1>2. ASSUME NEW status \in {"approved", "denied"}, NEW edited \in BOOLEAN, Click(o, status, edited)
      PROVE  ProposalsInv'
  <2> DEFINE new == [NoTask EXCEPT !.edited = edited, !.status = status,
                       !.pc = CASE status = "denied" -> "decide"
                                [] status = "approved" /\ kind = "routine" -> "check"
                                [] OTHER -> "act"]
  <2>1. new \in Task /\ new.pc # "insert" /\ new.pc # "record" /\ (new.pc = "decide" => new.status = "denied")
    BY DEF NoTask, Task, Statuses
  <2>2. task' = [task EXCEPT ![o] = new] /\ UNCHANGED <<kind, effects, decisions, races>>
    BY <1>2 DEF Click, proposed
  <2> HIDE DEF new
  <2> QED
    BY <1>1, <2>1, <2>2, IdleSteps
<1>3. ASSUME Check(o) PROVE ProposalsInv'
  <2>1. UNCHANGED <<kind, effects, decisions, races>>
    BY <1>3 DEF Check, proposed
  <2>2. PICK new \in {NoTask, [task[o] EXCEPT !.pc = "act"]} : task' = [task EXCEPT ![o] = new]
    BY <1>3 DEF Check, Goto
  <2>3. new \in Task /\ new.pc \in {"no", "act"}
    BY <1>1, <2>2, NoTaskIsTask DEF Task
  <2> QED
    BY <1>1, <2>1, <2>2, <2>3, IdleSteps
<1> QED
  BY <1>2, <1>3 DEF Operator

\* The routine is edited, or the api starts again.
LEMMA OtherSteps ==
  ASSUME ProposalsInv, EditRoutine \/ ApiRestart
  PROVE  ProposalsInv'
<1>0. task \in [Deciders -> Task]
  BY DEF ProposalsInv, ProposalsTypes
<1>1. UNCHANGED <<kind, effects, decisions, races>>
  BY DEF EditRoutine, ApiRestart, proposed
<1>2. \A t \in Deciders : task'[t] = task[t] \/ task'[t] = NoTask \/ task'[t] = [task[t] EXCEPT !.lost = TRUE]
  BY DEF EditRoutine, ApiRestart
<1>3. ProposalsTypes'
  <2>1. task' \in [Deciders -> Task]
    <3>1. CASE EditRoutine
      BY <3>1, <1>0 DEF EditRoutine
    <3>2. CASE ApiRestart
      <4>1. \A t \in Deciders : [task[t] EXCEPT !.lost = TRUE] \in Task
        BY <1>0 DEF Task
      <4>2. PICK calls : task' = [t \in Deciders |-> IF t \in calls THEN [task[t] EXCEPT !.lost = TRUE] ELSE NoTask]
        BY <3>2 DEF ApiRestart
      <4> QED
        BY <4>1, <4>2, NoTaskIsTask
    <3> QED
      BY <3>1, <3>2
  <2> QED
    BY <1>1, <2>1 DEF ProposalsInv, ProposalsTypes
<1>4. \A t \in Deciders : task'[t].pc = "no" \/ (task'[t].pc = task[t].pc /\ task'[t].status = task[t].status
                                              /\ task'[t].edited = task[t].edited)
  <2> SUFFICES ASSUME NEW t \in Deciders, task'[t] # NoTask
               PROVE  task'[t].pc = task[t].pc /\ task'[t].status = task[t].status /\ task'[t].edited = task[t].edited
    BY NoTaskIsTask
  <2>1. task[t] \in Task
    BY <1>0
  <2>2. CASE task'[t] = task[t]
    BY <2>2
  <2>3. CASE task'[t] = [task[t] EXCEPT !.lost = TRUE]
    BY <2>1, <2>3 DEF Task
  <2> QED
    BY <1>2, <2>2, <2>3
<1>5. \A t \in Deciders : Approving(t)' => Approving(t)
  BY <1>4 DEF Approving
<1>6. Waiting' \subseteq Waiting
  BY <1>4 DEF Waiting
<1> QED
  BY <1>1, <1>3, <1>5, <1>6, QuietSteps

\* A row that is on its way and has met another, or comes first.
LEMMA OneMoreWaits ==
  ASSUME WaitingOnce, effects \in Seq(BOOLEAN), races \in Nat, UNCHANGED <<kind, effects>>,
         NEW t \in Deciders, Waiting' = Waiting \cup {t},
         races' = races + 1 \/ (races' = races /\ Waiting = {} /\ (Unedited => effects = << >>))
  PROVE  WaitingOnce'
<1>1. IsFiniteSet(Waiting') /\ Cardinality(Waiting') <= Cardinality(Waiting) + 1
  <2> DEFINE W == Waiting
  <2>1. IsFiniteSet(W) /\ Cardinality(W) \in Nat
    BY FS_CardinalityType DEF WaitingOnce
  <2> HIDE DEF W
  <2>2. IsFiniteSet(W \cup {t}) /\ Cardinality(W \cup {t}) = IF t \in W THEN Cardinality(W) ELSE Cardinality(W) + 1
    BY <2>1, FS_AddElement
  <2>3. Cardinality(W \cup {t}) <= Cardinality(W) + 1
    BY <2>1, <2>2
  <2> USE DEF W
  <2> QED
    BY <2>2, <2>3
<1>2. Cardinality(Waiting) \in Nat /\ Cardinality(Waiting') \in Nat /\ Len(effects) \in Nat
  BY <1>1, FS_CardinalityType DEF WaitingOnce
<1>3. Unedited' => Unedited /\ Len(effects') = Len(effects)
  BY DEF Unedited
<1>4. CASE races' = races + 1
  BY <1>1, <1>2, <1>3, <1>4 DEF WaitingOnce
<1>5. CASE races' = races /\ Waiting = {} /\ (Unedited => effects = << >>)
  <2>1. Cardinality(Waiting) = 0
    BY <1>5, FS_EmptySet
  <2>2. Unedited => Len(effects) = 0
    BY <1>5
  <2> QED
    BY <1>1, <1>2, <1>3, <1>5, <2>1, <2>2 DEF WaitingOnce
<1> QED
  BY <1>4, <1>5

\* The deed: a row that repeats the newest one has been done, and any other goes
\* to the table.
LEMMA DeedSteps ==
  ASSUME ProposalsInv, NEW t \in Deciders, NEW ok \in BOOLEAN, Deed(t, ok)
  PROVE  ProposalsInv'
<1> DEFINE passes == ok /\ ~RepeatsDeed(task[t].edited)
<1>0. task \in [Deciders -> Task] /\ task[t] \in Task /\ task[t].edited \in BOOLEAN /\ task[t].pc = "act"
      /\ effects \in Seq(BOOLEAN) /\ races \in Nat
  BY DEF Deed, ProposalsInv, ProposalsTypes, Task
<1>1. UNCHANGED <<kind, effects, decisions>>
  BY DEF Deed, proposed
<1>2. task' = CASE passes -> [task EXCEPT ![t].pc = "insert"]
                [] ok /\ ~passes /\ ~task[t].lost -> [task EXCEPT ![t].pc = "decide"]
                [] OTHER -> [task EXCEPT ![t] = NoTask]
  BY DEF Deed
<1>3. races' = IF passes /\ Inserting # {} THEN races + 1 ELSE races
  BY DEF Deed
<1>4. CASE passes
  <2>1. task' = [task EXCEPT ![t].pc = "insert"]
    BY <1>2, <1>4
  <2>2. ProposalsTypes'
    <3>1. [task[t] EXCEPT !.pc = "insert"] \in Task
      BY <1>0 DEF Task
    <3>2. task' \in [Deciders -> Task]
      BY <1>0, <2>1, <3>1
    <3> QED
      BY <1>0, <1>1, <1>3, <3>2 DEF ProposalsInv, ProposalsTypes
  <2>3. \A u \in Deciders : Approving(u)' => Approving(u)
    BY <1>0, <2>1 DEF Approving
  <2>4. DeedBeforeDecision'
    BY <1>1, <2>3 DEF ProposalsInv, DeedBeforeDecision
  <2>5. ApprovedIsDone'
    BY <1>1 DEF ProposalsInv, ApprovedIsDone
  <2>6. WaitingOnce'
    <3>1. CASE task[t].edited
      <4>1. Waiting' \subseteq Waiting
        BY <1>0, <2>1, <3>1 DEF Waiting
      <4> QED
        BY <1>0, <1>1, <1>3, <4>1, FewerWait DEF ProposalsInv
    <3>2. CASE ~task[t].edited
      <4>1. Waiting' = Waiting \cup {t}
        BY <1>0, <2>1, <3>2 DEF Waiting
      <4>2. Inserting = {} => Waiting = {}
        BY DEF Inserting, Waiting
      <4>3. Unedited => effects = << >>
        <5> SUFFICES ASSUME Unedited, effects # << >> PROVE FALSE
          OBVIOUS
        <5>1. Len(effects) \in 1..Len(effects) /\ effects[Len(effects)] \in BOOLEAN
          BY <1>0, LastIsIn
        <5>2. ~effects[Len(effects)] /\ kind # "helper"
          BY <5>1 DEF Unedited
        <5> QED
          BY <1>0, <1>4, <3>2, <5>1, <5>2, Zenon DEF RepeatsDeed
      <4> HIDE DEF passes
      <4>5. races' = races + 1 \/ (races' = races /\ Waiting = {} /\ (Unedited => effects = << >>))
        BY <1>3, <1>4, <4>2, <4>3
      <4> QED
        BY <1>0, <1>1, <4>1, <4>5, OneMoreWaits DEF ProposalsInv
    <3> QED
      BY <3>1, <3>2
  <2> QED
    BY <2>2, <2>4, <2>5, <2>6 DEF ProposalsInv
<1>5. CASE ok /\ ~passes /\ ~task[t].lost
  <2>1. task' = [task EXCEPT ![t].pc = "decide"] /\ races' = races
    BY <1>2, <1>3, <1>5
  <2>2. effects # << >>
    BY <1>5 DEF RepeatsDeed
  <2>3. ProposalsTypes'
    <3>1. [task[t] EXCEPT !.pc = "decide"] \in Task
      BY <1>0 DEF Task
    <3>2. task' \in [Deciders -> Task]
      BY <1>0, <2>1, <3>1
    <3> QED
      BY <1>1, <2>1, <3>2 DEF ProposalsInv, ProposalsTypes
  <2>4. DeedBeforeDecision'
    BY <1>1, <2>2 DEF DeedBeforeDecision
  <2>5. ApprovedIsDone'
    BY <1>1 DEF ProposalsInv, ApprovedIsDone
  <2>6. Waiting' \subseteq Waiting
    BY <1>0, <2>1 DEF Waiting
  <2>7. WaitingOnce'
    BY <1>0, <1>1, <2>1, <2>6, FewerWait DEF ProposalsInv
  <2> QED
    BY <2>3, <2>4, <2>5, <2>7 DEF ProposalsInv
<1>6. CASE ~passes /\ ~(ok /\ ~task[t].lost)
  <2>1. task' = [task EXCEPT ![t] = NoTask] /\ races' = races
    BY <1>2, <1>3, <1>6
  <2> QED
    BY <1>1, <2>1, NoTaskIsTask, IdleSteps
<1> QED
  BY <1>4, <1>5, <1>6

\* The look before the decision is recorded.
LEMMA DecideSteps ==
  ASSUME ProposalsInv, NEW t \in Deciders, NEW ok \in BOOLEAN, Decide(t, ok)
  PROVE  ProposalsInv'
<1>1. task[t] \in Task /\ task[t].pc = "decide" /\ UNCHANGED <<kind, effects, decisions, races>>
  BY DEF Decide, proposed, ProposalsInv, ProposalsTypes
<1>2. PICK new \in {NoTask, [task[t] EXCEPT !.pc = "record"]} : task' = [task EXCEPT ![t] = new]
  BY DEF Decide
<1>3. new \in Task /\ new.pc # "insert" /\ (new.pc = "no" \/ new.status = task[t].status)
  BY <1>1, <1>2, NoTaskIsTask DEF Task
<1>4. new.pc \in {"decide", "record"} /\ new.status = "approved" => Approving(t)
  BY <1>1, <1>3 DEF Approving
<1> QED
  BY <1>1, <1>2, <1>3, <1>4, IdleSteps

\* An answer is lost, or an insertion fails.
LEMMA LoseSteps ==
  ASSUME ProposalsInv, NEW t \in Deciders, LoseAnswer(t) \/ InsertFails(t)
  PROVE  ProposalsInv'
<1>1. task[t] \in Task /\ UNCHANGED <<kind, effects, decisions, races>>
  BY DEF LoseAnswer, InsertFails, proposed, ProposalsInv, ProposalsTypes
<1>2. PICK new \in {NoTask, [task[t] EXCEPT !.lost = TRUE]} : task' = [task EXCEPT ![t] = new]
  BY DEF LoseAnswer, InsertFails
<1>3. new \in Task /\ (new.pc = "no" \/ (new.pc = task[t].pc /\ new.status = task[t].status /\ new.edited = task[t].edited))
  BY <1>1, <1>2, NoTaskIsTask DEF Task
<1>4. new.pc \in {"decide", "record"} /\ new.status = "approved" => Approving(t)
  BY <1>3 DEF Approving
<1> QED
  BY <1>1, <1>2, <1>3, <1>4, IdleSteps

\* The row of a deed gets into the table.
LEMMA DeedLands ==
  ASSUME ProposalsInv, NEW t \in Deciders, Insert(t), task[t].pc = "insert"
  PROVE  ProposalsInv'
<1>0. task \in [Deciders -> Task] /\ task[t] \in Task /\ task[t].edited \in BOOLEAN
      /\ effects \in Seq(BOOLEAN) /\ races \in Nat /\ decisions \in Seq(DecisionRow)
  BY DEF ProposalsInv, ProposalsTypes, Task
<1>1. kind' = kind /\ decisions' = decisions /\ races' = races /\ effects' = Append(effects, task[t].edited)
  BY DEF Insert, proposed
<1>2. task' = IF task[t].lost THEN [task EXCEPT ![t] = NoTask]
              ELSE [task EXCEPT ![t].pc = "decide", ![t].result = Len(effects')]
  BY DEF Insert
<1>3. effects' \in Seq(BOOLEAN) /\ effects' # << >> /\ Len(effects') = Len(effects) + 1
      /\ effects'[Len(effects) + 1] = task[t].edited /\ \A i \in 1..Len(effects) : effects'[i] = effects[i]
  BY <1>0, <1>1, Appended
<1>4. PICK new \in {NoTask, [task[t] EXCEPT !.pc = "decide", !.result = Len(effects')]} : task' = [task EXCEPT ![t] = new]
  BY <1>0, <1>2
<1>5. new \in Task /\ new.pc # "insert"
  <2>1. Len(effects') \in Nat
    BY <1>3
  <2> QED
    BY <1>0, <1>4, <2>1, NoTaskIsTask DEF Task
<1>6. ProposalsTypes'
  <2>1. task' \in [Deciders -> Task]
    BY <1>0, <1>4, <1>5
  <2> QED
    BY <1>0, <1>1, <1>3, <2>1 DEF ProposalsTypes
<1>7. DeedBeforeDecision' /\ ApprovedIsDone'
  BY <1>3 DEF DeedBeforeDecision, ApprovedIsDone
<1>8. Waiting' = Waiting \ {t}
  BY <1>0, <1>4, <1>5 DEF Waiting
<1>9. WaitingOnce'
  <2>1. IsFiniteSet(Waiting) /\ IsFiniteSet(Waiting') /\ Cardinality(Waiting) \in Nat /\ Cardinality(Waiting') \in Nat
        /\ Cardinality(Waiting') = IF t \in Waiting THEN Cardinality(Waiting) - 1 ELSE Cardinality(Waiting)
    BY <1>8, FS_RemoveElement, FS_CardinalityType DEF ProposalsInv, WaitingOnce
  <2> SUFFICES ASSUME Unedited' PROVE Len(effects') + Cardinality(Waiting') <= 1 + races'
    BY <2>1 DEF WaitingOnce
  <2>2. Len(effects) \in Nat /\ Len(effects) + 1 \in 1..Len(effects') /\ \A i \in 1..Len(effects) : i \in 1..Len(effects')
    BY <1>0, <1>3
  <2>3. ~effects'[Len(effects) + 1] /\ kind # "helper" /\ \A i \in 1..Len(effects) : ~effects'[i]
    BY <1>1, <2>2 DEF Unedited
  <2>4. t \in Waiting
    BY <1>3, <2>3 DEF Waiting
  <2>5. Unedited
    BY <1>3, <2>3 DEF Unedited
  <2>6. Len(effects) + Cardinality(Waiting) <= 1 + races
    BY <2>5 DEF ProposalsInv, WaitingOnce
  <2> QED
    BY <1>0, <1>1, <1>3, <2>1, <2>2, <2>4, <2>6
<1> QED
  BY <1>6, <1>7, <1>9 DEF ProposalsInv

\* The row of a decision gets into the table: it comes after the deed.
LEMMA DecisionLands ==
  ASSUME ProposalsInv, NEW t \in Deciders, Insert(t), task[t].pc = "record"
  PROVE  ProposalsInv'
<1> DEFINE row == Decision(t)
<1>0. task \in [Deciders -> Task] /\ task[t] \in Task /\ decisions \in Seq(DecisionRow)
      /\ effects \in Seq(BOOLEAN) /\ races \in Nat
  BY DEF ProposalsInv, ProposalsTypes
<1>1. row \in DecisionRow /\ row.status = task[t].status
  BY <1>0 DEF Decision, Task, DecisionRow
<1>2. UNCHANGED <<kind, effects, races>> /\ decisions' = Append(decisions, row) /\ task' = [task EXCEPT ![t] = NoTask]
  BY DEF Insert, proposed
<1>3. decisions' \in Seq(DecisionRow)
      /\ \A i \in 1..Len(decisions') : decisions'[i] = row \/ (i \in 1..Len(decisions) /\ decisions'[i] = decisions[i])
  <2> HIDE DEF row
  <2> QED
    BY <1>0, <1>1, <1>2
<1>4. ProposalsTypes'
  <2>1. task' \in [Deciders -> Task]
    BY <1>0, <1>2, NoTaskIsTask
  <2> QED
    BY <1>0, <1>2, <1>3, <2>1 DEF ProposalsTypes
<1>5. \A u \in Deciders : Approving(u)' => Approving(u)
  BY <1>0, <1>2, NoTaskIsTask DEF Approving
<1>6. DeedBeforeDecision'
  BY <1>2, <1>5 DEF ProposalsInv, DeedBeforeDecision
<1>7. ApprovedIsDone'
  <2>1. row.status = "approved" => effects # << >>
    BY <1>1 DEF ProposalsInv, DeedBeforeDecision, Approving
  <2> HIDE DEF row
  <2> QED
    BY <2>1, <1>2, <1>3 DEF ProposalsInv, ApprovedIsDone
<1>8. Waiting' \subseteq Waiting
  BY <1>0, <1>2, NoTaskIsTask DEF Waiting
<1>9. WaitingOnce'
  BY <1>0, <1>2, <1>8, FewerWait DEF ProposalsInv
<1> QED
  BY <1>4, <1>6, <1>7, <1>9 DEF ProposalsInv

LEMMA ProposalsStep == ProposalsInv /\ [ProposalsNext]_proposalVars => ProposalsInv'
<1> SUFFICES ASSUME ProposalsInv, [ProposalsNext]_proposalVars PROVE ProposalsInv'
  OBVIOUS
<1>1. CASE UNCHANGED proposalVars
  <2>1. ProposalsTypes' /\ UNCHANGED <<kind, effects, decisions, races>> /\ task' = task
    BY <1>1 DEF proposalVars, ProposalsInv, ProposalsTypes
  <2>2. Waiting' = Waiting /\ \A t \in Deciders : Approving(t)' => Approving(t)
    BY <2>1 DEF Waiting, Approving
  <2> QED
    BY <2>1, <2>2, QuietSteps
<1>2. ASSUME NEW ok \in BOOLEAN, NEW lands \in BOOLEAN, Draft(ok, lands) PROVE ProposalsInv'
  BY <1>2, DraftSteps
<1>3. ASSUME NEW t \in Deciders, NEW ok \in BOOLEAN, Act(t, ok) PROVE ProposalsInv'
  BY <1>3, DeedSteps DEF Act, ApproveHelper, ApproveProvenance, CreateRoutine
<1>4. ASSUME NEW t \in Deciders, NEW ok \in BOOLEAN, Decide(t, ok) PROVE ProposalsInv'
  BY <1>4, DecideSteps
<1>5. ASSUME NEW t \in Deciders, Insert(t) PROVE ProposalsInv'
  <2>1. task[t].pc \in {"insert", "record"}
    BY <1>5 DEF Insert
  <2> QED
    BY <1>5, <2>1, DeedLands, DecisionLands
<1>6. ASSUME NEW t \in Deciders, LoseAnswer(t) \/ InsertFails(t) PROVE ProposalsInv'
  BY <1>6, LoseSteps
<1>7. ASSUME NEW o \in Operators, Operator(o) PROVE ProposalsInv'
  BY <1>7, OperatorSteps
<1>8. ASSUME NEW ok \in BOOLEAN, AskRoutine(ok) PROVE ProposalsInv'
  BY <1>8, PolicySteps
<1>9. CASE EditRoutine \/ ApiRestart
  BY <1>9, OtherSteps
<1> QED
  BY <1>1, <1>2, <1>3, <1>4, <1>5, <1>6, <1>7, <1>8, <1>9 DEF ProposalsNext

LEMMA ProposalsAlways == ProposalsSpec => []ProposalsInv
BY ProposalsStart, ProposalsStep, PTL DEF ProposalsSpec

\* A proposal that shows as approved has been carried out, whatever failed or was
\* lost on the way, whoever else decided about it, and however often.
THEOREM RecordFollowsDeed == ProposalsSpec => []ApprovedIsDone
<1>1. ProposalsInv => ApprovedIsDone
  BY DEF ProposalsInv
<1> QED
  BY <1>1, ProposalsAlways, PTL

\* A routine is created, and provenance written, once for a proposal that nobody
\* edits, but for the writes that overlap in the store: each of them, and nothing
\* else, may let one more row in.
THEOREM DeedsAreDoneOnce == ProposalsSpec => []DoneOnce
<1>1. ProposalsInv => DoneOnce
  <2> SUFFICES ASSUME ProposalsInv, Unedited PROVE Len(effects) <= 1 + races
    BY DEF DoneOnce, Unedited
  <2>1. Len(effects) \in Nat /\ races \in Nat /\ Len(effects) + Cardinality(Waiting) <= 1 + races
    BY DEF ProposalsInv, ProposalsTypes, WaitingOnce
  <2>2. Cardinality(Waiting) \in Nat
    BY FS_CardinalityType DEF ProposalsInv, WaitingOnce
  <2> QED
    BY <2>1, <2>2
<1> QED
  BY <1>1, ProposalsAlways, PTL

-----------------------------------------------------------------------------
(* Contacts.                                                                 *)
EditRecord == [pc : {"no", "profile", "list", "count", "write", "invalidate"}, by : People, who : People,
               change : {"none", "disable", "admin", "member", "other"}, base : Roles, others : SUBSET People]
VisitRecord == [pc : Roles \cup {"no", "profile"}, who : People, at : Nat]
Entry == [has : BOOLEAN, role : Roles, at : Nat]

ContactTypes ==
  /\ People # {}
  /\ active \subseteq People /\ role \in [People -> Roles]
  /\ edit \in [Edits -> EditRecord]
  /\ visit \in [Visits -> VisitRecord] /\ contacts \in [People -> Entry]
  /\ now \in Nat /\ held \in [People -> [Roles -> Nat]]
  /\ glitches \in Nat /\ strained \in BOOLEAN

-----------------------------------------------------------------------------
\* What a look-up has read, its contact had when the look-up began, or since.
HeldSince == \A p \in People :
  /\ held[p][role[p]] = now
  /\ \A r \in Roles : held[p][r] <= now
VisitsAreTrue == \A v \in Visits :
  /\ visit[v].at <= now
  /\ visit[v].pc \in Roles /\ glitches = 0 => held[visit[v].who][visit[v].pc] >= visit[v].at

CacheInv == ContactTypes /\ HeldSince /\ VisitsAreTrue /\ CachedRolesWereTrue

\* While edits come one at a time, what an edit has read still stands, and one that
\* takes an administrator away has seen another.
Going(e) == edit[e].pc # "no"
StillStands == \A e \in Edits :
  /\ edit[e].pc \in {"list", "count", "write"} => edit[e].base = role[edit[e].who]
  /\ edit[e].pc \in {"list", "count"} => Removes(edit[e].change, edit[e].base)
  /\ edit[e].pc = "count" => edit[e].others = active \ {edit[e].who}
  /\ edit[e].pc = "write" /\ Removes(edit[e].change, edit[e].base)
       => \E p \in active \ {edit[e].who} : role[p] = "admin"
OneAtATime == \A e, f \in Edits : Going(e) /\ Going(f) => e = f

AdminInv == ContactTypes /\ (~strained => OneAtATime /\ StillStands /\ AnAdminRemains)

-----------------------------------------------------------------------------
LEMMA Empties ==
  ASSUME People # {}
  PROVE  /\ NoEdit \in EditRecord /\ NoEdit.pc = "no"
         /\ NoVisit \in VisitRecord /\ NoVisit.pc = "no" /\ NoVisit.at = 0
         /\ Unknown \in Entry /\ Unknown.has = FALSE
<1>1. (CHOOSE p \in People : TRUE) \in People
  OBVIOUS
<1> QED
  BY <1>1 DEF NoEdit, NoVisit, Unknown, EditRecord, VisitRecord, Entry, Roles

LEMMA ContactsStart == ContactsInit => CacheInv /\ AdminInv
<1> SUFFICES ASSUME ContactsInit PROVE CacheInv /\ AdminInv
  OBVIOUS
<1>1. People # {} /\ active = People /\ role \in [People -> Roles] /\ now = 1 /\ glitches = 0 /\ strained = FALSE
  BY DEF ContactsInit
<1>2. edit = [e \in Edits |-> NoEdit] /\ visit = [v \in Visits |-> NoVisit] /\ contacts = [p \in People |-> Unknown]
  BY DEF ContactsInit
<1>3. held = [p \in People |-> [r \in Roles |-> IF r = role[p] THEN 1 ELSE 0]]
  BY DEF ContactsInit
<1>4. ContactTypes
  BY <1>1, <1>2, <1>3, Empties DEF ContactTypes
<1>5. HeldSince
  BY <1>1, <1>3 DEF HeldSince
<1>6. VisitsAreTrue /\ CachedRolesWereTrue
  <2>1. \A v \in Visits : visit[v].at = 0 /\ visit[v].pc = "no"
    BY <1>1, <1>2, Empties
  <2>2. \A p \in People : contacts[p].has = FALSE
    BY <1>1, <1>2, Empties
  <2>3. VisitsAreTrue
    BY <1>1, <2>1 DEF VisitsAreTrue, Roles
  <2> QED
    BY <2>2, <2>3 DEF CachedRolesWereTrue
<1>7. OneAtATime /\ StillStands
  BY <1>1, <1>2, Empties DEF OneAtATime, StillStands, Going
<1>8. AnAdminRemains
  BY <1>1 DEF ContactsInit, AnAdminRemains, ActiveAdmins
<1> QED
  BY <1>4, <1>5, <1>6, <1>7, <1>8 DEF CacheInv, AdminInv

-----------------------------------------------------------------------------
\* The edit of one actor, from record to record.
LEMMA BeginTypes ==
  ASSUME ContactTypes, NEW e \in Edits, NEW a \in People, NEW p \in People,
         NEW change \in {"disable", "admin", "member", "other"}, Begin(e, a, p, change)
  PROVE  /\ edit' \in [Edits -> EditRecord] /\ p \in active
         /\ edit'[e].pc = "profile" /\ \A f \in Edits \ {e} : edit'[f] = edit[f]
         /\ UNCHANGED <<active, role, visit, contacts, now, held, glitches>> /\ strained' \in BOOLEAN
         /\ ~strained' => ~strained /\ \A f \in Edits \ {e} : edit[f].pc = "no"
<1> DEFINE begun == [NoEdit EXCEPT !.pc = "profile", !.by = a, !.who = p, !.change = change]
<1>1. begun \in EditRecord /\ begun.pc = "profile"
  BY Empties DEF EditRecord, ContactTypes
<1>2. edit' = [edit EXCEPT ![e] = begun]
  BY DEF Begin
<1> HIDE DEF begun
<1>3. edit' \in [Edits -> EditRecord] /\ edit'[e].pc = "profile" /\ \A f \in Edits \ {e} : edit'[f] = edit[f]
  BY <1>1, <1>2 DEF ContactTypes
<1> QED
  BY <1>3 DEF Begin, ContactTypes

LEMMA ReadProfileTypes ==
  ASSUME ContactTypes, NEW e \in Edits, NEW ok \in BOOLEAN, ReadProfile(e, ok)
  PROVE  /\ edit' \in [Edits -> EditRecord] /\ Going(e)
         /\ \A f \in Edits \ {e} : edit'[f] = edit[f]
         /\ edit'[e].who = edit[e].who /\ edit'[e].change = edit[e].change
         /\ ok => edit'[e].base = role[edit[e].who]
         /\ edit'[e].pc = IF Removes(edit'[e].change, edit'[e].base) THEN "list" ELSE "write"
         /\ UNCHANGED <<active, role, visit, contacts, now, held>>
<1> DEFINE base == IF ok THEN role[edit[e].who] ELSE "member"
           next == [edit[e] EXCEPT !.base = base, !.pc = IF Removes(edit[e].change, base) THEN "list" ELSE "write"]
<1>1. edit[e] \in EditRecord /\ base \in Roles
  BY DEF ContactTypes, EditRecord, Roles
<1>2. edit' = [edit EXCEPT ![e] = next]
  BY <1>1 DEF ReadProfile, ContactTypes, EditRecord
<1> HIDE DEF base
<1>3. next \in EditRecord /\ next.who = edit[e].who /\ next.change = edit[e].change /\ next.base = base
      /\ next.pc = IF Removes(next.change, next.base) THEN "list" ELSE "write"
  BY <1>1 DEF EditRecord
<1> HIDE DEF next
<1>4. edit' \in [Edits -> EditRecord] /\ edit'[e] = next /\ \A f \in Edits \ {e} : edit'[f] = edit[f]
  BY <1>2, <1>3 DEF ContactTypes
<1> QED
  BY <1>3, <1>4 DEF ReadProfile, Going, base

LEMMA ListAndCountTypes ==
  ASSUME ContactTypes, NEW e \in Edits, ListOthers(e) \/ CountOthers(e)
  PROVE  /\ edit' \in [Edits -> EditRecord] /\ Going(e)
         /\ \A f \in Edits \ {e} : edit'[f] = edit[f]
         /\ UNCHANGED <<active, role, visit, contacts, now, held, glitches, strained>>
<1>1. edit[e] \in EditRecord
  BY DEF ContactTypes
<1>2. PICK next \in EditRecord : edit' = [edit EXCEPT ![e] = next]
  <2>1. CASE ListOthers(e)
    <3>1. [edit[e] EXCEPT !.pc = "count", !.others = active \ {edit[e].who}] \in EditRecord
      BY <1>1 DEF EditRecord, ContactTypes
    <3> QED
      BY <2>1, <3>1 DEF ListOthers, ContactTypes
  <2>2. CASE CountOthers(e)
    <3>1. [edit[e] EXCEPT !.pc = "write"] \in EditRecord /\ NoEdit \in EditRecord
      BY <1>1, Empties DEF EditRecord, ContactTypes
    <3> QED
      BY <2>2, <3>1 DEF CountOthers, ContactTypes
  <2> QED
    BY <2>1, <2>2
<1> QED
  BY <1>2 DEF ContactTypes, Going, ListOthers, CountOthers

LEMMA InvalidateTypes ==
  ASSUME ContactTypes, NEW e \in Edits, Invalidate(e)
  PROVE  /\ edit' \in [Edits -> EditRecord] /\ edit'[e].pc = "no"
         /\ \A f \in Edits \ {e} : edit'[f] = edit[f]
         /\ contacts' \in [People -> Entry] /\ \A p \in People : contacts'[p] = contacts[p] \/ ~contacts'[p].has
         /\ UNCHANGED <<active, role, visit, now, held, glitches, strained>>
<1>1. edit' = [edit EXCEPT ![e] = NoEdit] /\ contacts' = [contacts EXCEPT ![edit[e].who] = Unknown]
      /\ UNCHANGED <<active, role, visit, now, held, glitches, strained>>
  BY DEF Invalidate
<1>2. NoEdit \in EditRecord /\ NoEdit.pc = "no" /\ Unknown \in Entry /\ Unknown.has = FALSE
  BY Empties DEF ContactTypes
<1> QED
  BY <1>1, <1>2 DEF ContactTypes

\* The one step that changes who is active, and who is what.
LEMMA WriteTypes ==
  ASSUME ContactTypes, NEW e \in Edits, NEW ok \in BOOLEAN, Write(e, ok)
  PROVE  /\ edit[e].pc = "write" /\ edit' \in [Edits -> EditRecord] /\ edit'[e].pc = "invalidate"
         /\ \A f \in Edits \ {e} : edit'[f] = edit[f]
         /\ active' = active \/ (edit[e].change = "disable" /\ active' = active \ {edit[e].who})
         /\ role' \in [People -> Roles]
         /\ role' = role \/ role' = [role EXCEPT ![edit[e].who] = IF edit[e].change \in Roles THEN edit[e].change ELSE edit[e].base]
         /\ edit[e].change = "disable" => role' = role
         /\ held' = [held EXCEPT ![edit[e].who] = [held[edit[e].who] EXCEPT ![role'[edit[e].who]] = now]]
         /\ edit[e].who \in People /\ UNCHANGED <<visit, contacts, now>>
<1>1. edit[e] \in EditRecord
  BY DEF ContactTypes
<1> DEFINE new == IF edit[e].change \in Roles THEN edit[e].change ELSE edit[e].base
<1>2. new \in Roles /\ edit[e].who \in People
  BY <1>1 DEF EditRecord
<1> DEFINE next == [edit[e] EXCEPT !.pc = "invalidate"]
<1>3. edit' = [edit EXCEPT ![e] = next]
  BY <1>1 DEF Write, ContactTypes
<1>4. next \in EditRecord /\ next.pc = "invalidate"
  BY <1>1 DEF EditRecord
<1>5. role' = role \/ role' = [role EXCEPT ![edit[e].who] = new]
  BY DEF Write
<1>6. role' \in [People -> Roles]
  BY <1>2, <1>5 DEF ContactTypes
<1>7. held' = [held EXCEPT ![edit[e].who] = [held[edit[e].who] EXCEPT ![role'[edit[e].who]] = now]]
  BY <1>2 DEF Write, ContactTypes
<1> HIDE DEF next
<1>8. edit' \in [Edits -> EditRecord] /\ edit'[e].pc = "invalidate" /\ \A f \in Edits \ {e} : edit'[f] = edit[f]
  BY <1>3, <1>4 DEF ContactTypes
<1> QED
  BY <1>2, <1>5, <1>6, <1>7, <1>8 DEF Write

\* A call counts as failed from then on.
LEMMA Calls ==
  ASSUME ContactTypes, NEW ok \in BOOLEAN, Call(ok)
  PROVE  /\ glitches' \in Nat /\ strained' \in BOOLEAN
         /\ glitches' = 0 => glitches = 0 /\ ok
         /\ ~strained' => ~strained /\ ok
<1>1. CASE ok
  BY <1>1 DEF Call, ContactTypes
<1>2. CASE ~ok
  BY <1>2 DEF Call, ContactTypes
<1> QED
  BY <1>1, <1>2

-----------------------------------------------------------------------------
\* The types hold in every step.
LEMMA VisitTypes ==
  ASSUME ContactTypes, NEW v \in Visits, Visit(v)
  PROVE  /\ visit' \in [Visits -> VisitRecord] /\ contacts' \in [People -> Entry]
         /\ \A u \in Visits \ {v} : visit'[u] = visit[u]
         /\ UNCHANGED <<active, role, edit, now, held>>
<1>1. visit[v] \in VisitRecord
  BY DEF ContactTypes
<1>2. CASE \E p \in People : Resolve(v, p)
  <2>1. PICK p \in People : Resolve(v, p)
    BY <1>2
  <2>2. [pc |-> "profile", who |-> p, at |-> now] \in VisitRecord
    BY DEF VisitRecord, ContactTypes
  <2> QED
    BY <2>1, <2>2 DEF Resolve, ContactTypes
<1>3. CASE \E ok \in BOOLEAN : Resolved(v, ok)
  <2>1. PICK ok \in BOOLEAN : Resolved(v, ok)
    BY <1>3
  <2>2. PICK pc \in Roles : visit' = [visit EXCEPT ![v] = [visit[v] EXCEPT !.pc = pc]]
    BY <2>1 DEF Resolved, Roles, ContactTypes
  <2>3. [visit[v] EXCEPT !.pc = pc] \in VisitRecord
    BY <1>1 DEF VisitRecord
  <2> QED
    BY <2>1, <2>2, <2>3 DEF Resolved, ContactTypes
<1>4. CASE Stored(v)
  <2>1. [has |-> TRUE, role |-> visit[v].pc, at |-> Stamp(v)] \in Entry
    BY <1>1, <1>4 DEF Entry, VisitRecord, Stamp, Stored
  <2>2. NoVisit \in VisitRecord
    BY Empties DEF ContactTypes
  <2> QED
    BY <1>4, <2>1, <2>2 DEF Stored, ContactTypes
<1> QED
  BY <1>2, <1>3, <1>4 DEF Visit

LEMMA TypesHold ==
  ASSUME ContactTypes, [ContactsNext]_contactVars
  PROVE  ContactTypes'
<1> USE DEF ContactTypes
<1>1. CASE UNCHANGED contactVars
  BY <1>1 DEF contactVars
<1>2. CASE \E e \in Edits : Edit(e)
  <2> SUFFICES ASSUME NEW e \in Edits, Edit(e) PROVE ContactTypes'
    BY <1>2
  <2>1. CASE \E a, p \in People, change \in {"disable", "admin", "member", "other"} : Begin(e, a, p, change)
    BY <2>1, BeginTypes
  <2>2. CASE ListOthers(e) \/ CountOthers(e)
    BY <2>2, ListAndCountTypes
  <2>3. CASE Invalidate(e)
    BY <2>3, InvalidateTypes
  <2>4. CASE \E ok \in BOOLEAN : ReadProfile(e, ok)
    <3>1. PICK ok \in BOOLEAN : ReadProfile(e, ok)
      BY <2>4
    <3>2. glitches' \in Nat /\ strained' \in BOOLEAN
      BY <3>1, Calls DEF ReadProfile
    <3> QED
      BY <3>1, <3>2, ReadProfileTypes
  <2>5. CASE \E ok \in BOOLEAN : Write(e, ok)
    <3>1. PICK ok \in BOOLEAN : Write(e, ok)
      BY <2>5
    <3>2. glitches' \in Nat /\ strained' \in BOOLEAN
      BY <3>1, Calls DEF Write
    <3>3. active' \subseteq People
      BY <3>1, WriteTypes
    <3>4. edit[e].who \in People /\ role' \in [People -> Roles]
          /\ held' = [held EXCEPT ![edit[e].who] = [held[edit[e].who] EXCEPT ![role'[edit[e].who]] = now]]
      BY <3>1, WriteTypes
    <3>5. [held[edit[e].who] EXCEPT ![role'[edit[e].who]] = now] \in [Roles -> Nat]
      BY <3>4
    <3>6. held' \in [People -> [Roles -> Nat]]
      BY <3>4, <3>5
    <3> QED
      BY <3>1, <3>2, <3>3, <3>6, WriteTypes
  <2> QED
    BY <2>1, <2>2, <2>3, <2>4, <2>5 DEF Edit
<1>3. CASE \E v \in Visits : Visit(v)
  <2> SUFFICES ASSUME NEW v \in Visits, Visit(v) PROVE ContactTypes'
    BY <1>3
  <2>1. glitches' \in Nat /\ strained' \in BOOLEAN
    BY Calls DEF Visit, Resolve, Resolved, Stored
  <2> QED
    BY <2>1, VisitTypes
<1>4. CASE Tick
  <2>1. now' = now + 1 /\ held' = [p \in People |-> [held[p] EXCEPT ![role[p]] = now']]
        /\ UNCHANGED <<active, role, edit, visit, contacts, glitches, strained>>
    BY <1>4 DEF Tick
  <2>2. \A p \in People : [held[p] EXCEPT ![role[p]] = now'] \in [Roles -> Nat]
    BY <2>1
  <2> QED
    BY <2>1, <2>2
<1> QED
  BY <1>1, <1>2, <1>3, <1>4 DEF ContactsNext

-----------------------------------------------------------------------------
\* Every step keeps what a contact held, and stamps the role it has at the time.
LEMMA HeldStays ==
  ASSUME ContactTypes, HeldSince, [ContactsNext]_contactVars
  PROVE  HeldSince' /\ \A p \in People, r \in Roles : held'[p][r] >= held[p][r]
<1>1. CASE UNCHANGED <<role, now, held>>
  BY <1>1 DEF HeldSince, ContactTypes
<1>2. ASSUME NEW e \in Edits, NEW ok \in BOOLEAN, Write(e, ok)
      PROVE  HeldSince' /\ \A p \in People, r \in Roles : held'[p][r] >= held[p][r]
  <2> DEFINE who == edit[e].who
  <2>1. /\ held' = [held EXCEPT ![who] = [held[who] EXCEPT ![role'[who]] = now]]
        /\ who \in People /\ role' \in [People -> Roles] /\ now' = now
    BY <1>2, WriteTypes
  <2>2. \A p \in People \ {who} : role'[p] = role[p]
    <3> DEFINE new == IF edit[e].change \in Roles THEN edit[e].change ELSE edit[e].base
    <3>1. role' = role \/ role' = [role EXCEPT ![who] = new]
      BY <1>2, WriteTypes
    <3> HIDE DEF new
    <3> QED
      BY <2>1, <3>1 DEF ContactTypes
  <2> HIDE DEF who
  <2>3. \A r \in Roles : held'[who][r] = (IF r = role'[who] THEN now ELSE held[who][r])
    BY <2>1 DEF ContactTypes
  <2>4. \A p \in People \ {who} : held'[p] = held[p]
    BY <2>1 DEF ContactTypes
  <2>5. \A p \in People, r \in Roles : held'[p][r] >= held[p][r] /\ held'[p][r] <= now
    BY <2>1, <2>3, <2>4 DEF HeldSince, ContactTypes
  <2>6. \A p \in People : held'[p][role'[p]] = now
    BY <2>1, <2>3, <2>4, <2>2 DEF HeldSince, ContactTypes
  <2> QED
    BY <2>1, <2>5, <2>6 DEF HeldSince, ContactTypes
<1>3. CASE Tick
  <2>1. now' = now + 1 /\ held' = [p \in People |-> [held[p] EXCEPT ![role[p]] = now']] /\ role' = role
    BY <1>3 DEF Tick
  <2>2. \A p \in People, r \in Roles : held'[p][r] = (IF r = role[p] THEN now' ELSE held[p][r])
    BY <2>1 DEF ContactTypes
  <2> QED
    BY <2>1, <2>2 DEF HeldSince, ContactTypes
<1>4. CASE \E e \in Edits : Edit(e)
  <2> SUFFICES ASSUME NEW e \in Edits, Edit(e), \A ok \in BOOLEAN : ~Write(e, ok)
               PROVE  UNCHANGED <<role, now, held>>
    BY <1>1, <1>2, <1>4
  <2> QED
    BY DEF Edit, Begin, ReadProfile, ListOthers, CountOthers, Invalidate
<1>5. CASE \E v \in Visits : Visit(v)
  BY <1>1, <1>5, VisitTypes
<1>6. CASE UNCHANGED contactVars
  BY <1>1, <1>6 DEF contactVars
<1> QED
  BY <1>3, <1>4, <1>5, <1>6 DEF ContactsNext

LEMMA GlitchesStay ==
  ASSUME ContactTypes, [ContactsNext]_contactVars, glitches' = 0
  PROVE  glitches = 0
<1>1. CASE \E e \in Edits : Edit(e)
  BY <1>1, Calls DEF Edit, Begin, ReadProfile, ListOthers, CountOthers, Invalidate, Write
<1>2. CASE \E v \in Visits : Visit(v)
  BY <1>2, Calls, SMTT(30) DEF Visit, Resolve, Resolved, Stored
<1>3. CASE Tick \/ UNCHANGED contactVars
  BY <1>3 DEF Tick, contactVars
<1> QED
  BY <1>1, <1>2, <1>3 DEF ContactsNext

\* What the requests under way and the cache hold stays true while held grows.
LEMMA CacheStays ==
  ASSUME CacheInv, [ContactsNext]_contactVars, ContactTypes', UNCHANGED <<visit, contacts>>
  PROVE  VisitsAreTrue' /\ CachedRolesWereTrue'
<1>1. (\A p \in People, r \in Roles : held'[p][r] >= held[p][r]) /\ (glitches' = 0 => glitches = 0) /\ now' >= now
  <2>1. now' >= now
    <3>1. CASE \E e \in Edits : Edit(e)
      <4>1. UNCHANGED now
        BY <3>1 DEF Edit, Begin, ReadProfile, ListOthers, CountOthers, Invalidate, Write
      <4> QED
        BY <4>1 DEF CacheInv, ContactTypes
    <3>2. CASE \E v \in Visits : Visit(v)
      BY <3>2, VisitTypes DEF CacheInv, ContactTypes
    <3>3. CASE Tick \/ UNCHANGED contactVars
      BY <3>3 DEF Tick, contactVars, CacheInv, ContactTypes
    <3> QED
      BY <3>1, <3>2, <3>3 DEF ContactsNext
  <2> QED
    BY <2>1, HeldStays, GlitchesStay DEF CacheInv
<1>2. VisitsAreTrue'
  <2> SUFFICES ASSUME NEW v \in Visits
               PROVE  /\ visit[v].at <= now'
                      /\ visit[v].pc \in Roles /\ glitches' = 0 => held'[visit[v].who][visit[v].pc] >= visit[v].at
    BY DEF VisitsAreTrue
  <2>1. visit[v].at \in Nat /\ visit[v].who \in People /\ now \in Nat /\ now' \in Nat
        /\ held \in [People -> [Roles -> Nat]] /\ held' \in [People -> [Roles -> Nat]]
    BY DEF CacheInv, ContactTypes, VisitRecord
  <2> QED
    BY <1>1, <2>1 DEF CacheInv, VisitsAreTrue
<1>3. CachedRolesWereTrue'
  <2> SUFFICES ASSUME glitches' = 0, NEW p \in People, contacts[p].has
               PROVE  held'[p][contacts[p].role] >= contacts[p].at
    BY DEF CachedRolesWereTrue
  <2>1. contacts[p].role \in Roles /\ contacts[p].at \in Nat
        /\ held \in [People -> [Roles -> Nat]] /\ held' \in [People -> [Roles -> Nat]]
    BY DEF CacheInv, ContactTypes, Entry
  <2> QED
    BY <1>1, <2>1 DEF CacheInv, CachedRolesWereTrue
<1> QED
  BY <1>2, <1>3

LEMMA CacheHolds ==
  ASSUME CacheInv, [ContactsNext]_contactVars
  PROVE  CacheInv'
<1>1. ContactTypes' /\ HeldSince' /\ (glitches' = 0 => glitches = 0)
  BY TypesHold, HeldStays, GlitchesStay DEF CacheInv
<1>2. CASE UNCHANGED <<visit, contacts>>
  BY <1>1, <1>2, CacheStays DEF CacheInv
<1>3. ASSUME NEW e \in Edits, Invalidate(e) PROVE VisitsAreTrue' /\ CachedRolesWereTrue'
  <2>1. UNCHANGED <<visit, now, held, glitches>> /\ \A p \in People : contacts'[p] = contacts[p] \/ ~contacts'[p].has
    BY <1>3, InvalidateTypes DEF CacheInv
  <2>2. VisitsAreTrue'
    BY <2>1 DEF CacheInv, VisitsAreTrue
  <2>3. CachedRolesWereTrue'
    BY <2>1 DEF CacheInv, CachedRolesWereTrue
  <2> QED
    BY <2>2, <2>3
<1>4. ASSUME NEW v \in Visits, Visit(v) PROVE VisitsAreTrue' /\ CachedRolesWereTrue'
  <2>1. UNCHANGED <<role, now, held>> /\ \A u \in Visits \ {v} : visit'[u] = visit[u]
    BY <1>4, VisitTypes DEF CacheInv
  <2>2. visit[v] \in VisitRecord /\ now \in Nat
    BY DEF CacheInv, ContactTypes
  <2>3. CASE \E p \in People : Resolve(v, p)
    <3>1. visit'[v].pc = "profile" /\ visit'[v].at = now /\ contacts' = contacts
      BY <2>3 DEF Resolve, CacheInv, ContactTypes
    <3> QED
      BY <1>1, <2>1, <2>2, <3>1 DEF CacheInv, VisitsAreTrue, CachedRolesWereTrue, Roles
  <2>4. CASE \E ok \in BOOLEAN : Resolved(v, ok)
    <3>1. PICK ok \in BOOLEAN : Resolved(v, ok)
      BY <2>4
    <3>2. glitches' = 0 => ok
      BY <3>1, Calls DEF Resolved, CacheInv
    <3>3. visit' = [visit EXCEPT ![v] = [visit[v] EXCEPT !.pc = IF ok /\ role[visit[v].who] = "admin" THEN "admin" ELSE "member"]]
          /\ contacts' = contacts
      BY <3>1 DEF Resolved
    <3>4. /\ visit'[v].pc = (IF ok /\ role[visit[v].who] = "admin" THEN "admin" ELSE "member")
          /\ visit'[v].at = visit[v].at /\ visit'[v].who = visit[v].who /\ visit[v].who \in People
      BY <2>2, <3>3 DEF CacheInv, ContactTypes, VisitRecord
    <3>5. ok => visit'[v].pc = role[visit[v].who]
      BY <3>4 DEF CacheInv, ContactTypes, Roles
    <3>6. ok => held'[visit'[v].who][visit'[v].pc] >= visit'[v].at
      BY <2>1, <2>2, <3>4, <3>5 DEF CacheInv, HeldSince, VisitsAreTrue, VisitRecord
    <3>7. VisitsAreTrue'
      BY <1>1, <2>1, <3>2, <3>4, <3>6 DEF CacheInv, VisitsAreTrue
    <3>8. CachedRolesWereTrue'
      BY <1>1, <2>1, <3>3 DEF CacheInv, CachedRolesWereTrue
    <3> QED
      BY <3>7, <3>8
  <2>5. CASE Stored(v)
    <3> DEFINE who == visit[v].who
    <3>1. /\ contacts' = [contacts EXCEPT ![who] = [has |-> TRUE, role |-> visit[v].pc, at |-> visit[v].at]]
          /\ visit' = [visit EXCEPT ![v] = NoVisit] /\ visit[v].pc \in Roles /\ glitches' = glitches
      BY <2>5 DEF Stored, Stamp
    <3>2. visit'[v].pc = "no" /\ visit'[v].at = 0
      BY <3>1, Empties DEF CacheInv, ContactTypes
    <3>3. VisitsAreTrue'
      BY <2>1, <2>2, <3>1, <3>2 DEF CacheInv, VisitsAreTrue, Roles
    <3>4. who \in People
      BY <2>2 DEF VisitRecord
    <3> HIDE DEF who
    <3>5. contacts'[who].role = visit[v].pc /\ contacts'[who].at = visit[v].at
          /\ \A p \in People \ {who} : contacts'[p] = contacts[p]
      BY <3>1, <3>4 DEF CacheInv, ContactTypes
    <3>6. glitches = 0 => held[who][visit[v].pc] >= visit[v].at
      BY <3>1 DEF CacheInv, VisitsAreTrue, who
    <3>7. CachedRolesWereTrue'
      BY <2>1, <3>1, <3>5, <3>6 DEF CacheInv, CachedRolesWereTrue
    <3> QED
      BY <3>3, <3>7
  <2> QED
    BY <1>4, <2>3, <2>4, <2>5 DEF Visit
<1>5. CASE \E e \in Edits : Edit(e) /\ ~Invalidate(e)
  BY <1>2, <1>5 DEF Edit, Begin, ReadProfile, ListOthers, CountOthers, Write
<1> QED
  BY <1>1, <1>2, <1>3, <1>4, <1>5 DEF ContactsNext, contactVars, Tick, CacheInv

\* A role that is served from the cache is one the contact has had since the look-up
\* began, whatever edits, failures and ticks come between look-up and store.
THEOREM CachedRolesAreTrue == ContactsSpec => []CachedRolesWereTrue
<1>1. ContactsInit => CacheInv
  BY ContactsStart
<1>2. CacheInv /\ [ContactsNext]_contactVars => CacheInv'
  BY CacheHolds
<1>3. CacheInv => CachedRolesWereTrue
  BY DEF CacheInv
<1> QED
  BY <1>1, <1>2, <1>3, PTL DEF ContactsSpec

-----------------------------------------------------------------------------
\* What others do while an edit is not going on leaves what it has read.
LEMMA UndisturbedStands ==
  ASSUME ContactTypes, StillStands, NEW e \in Edits, UNCHANGED <<active, role>>,
         \A f \in Edits \ {e} : edit'[f] = edit[f]
  PROVE  \A f \in Edits \ {e} :
           /\ edit'[f].pc \in {"list", "count", "write"} => edit'[f].base = role'[edit'[f].who]
           /\ edit'[f].pc \in {"list", "count"} => Removes(edit'[f].change, edit'[f].base)
           /\ edit'[f].pc = "count" => edit'[f].others = active' \ {edit'[f].who}
           /\ edit'[f].pc = "write" /\ Removes(edit'[f].change, edit'[f].base)
                => \E p \in active' \ {edit'[f].who} : role'[p] = "admin"
BY DEF StillStands

LEMMA OneStays ==
  ASSUME OneAtATime, NEW e \in Edits, Going(e), \A f \in Edits \ {e} : edit'[f] = edit[f]
  PROVE  OneAtATime' /\ \A f \in Edits \ {e} : edit[f].pc = "no" /\ edit'[f].pc = "no"
<1>1. \A f \in Edits \ {e} : edit[f].pc = "no" /\ edit'[f].pc = "no"
  BY DEF OneAtATime, Going
<1> QED
  BY <1>1 DEF OneAtATime, Going

LEMMA RemainsIf == (UNCHANGED <<active, role>> /\ AnAdminRemains) => AnAdminRemains'
BY DEF AnAdminRemains, ActiveAdmins

LEMMA GuardHolds ==
  ASSUME AdminInv, [ContactsNext]_contactVars
  PROVE  AdminInv'
<1>1. ContactTypes'
  BY TypesHold DEF AdminInv
<1> SUFFICES ASSUME ~strained'
             PROVE  OneAtATime' /\ StillStands' /\ AnAdminRemains'
  BY <1>1 DEF AdminInv
<1> USE DEF AdminInv
<1>2. CASE UNCHANGED <<active, role, edit, strained>>
  BY <1>2, RemainsIf DEF OneAtATime, Going, StillStands
<1>3. ASSUME NEW e \in Edits, Edit(e) PROVE OneAtATime' /\ StillStands' /\ AnAdminRemains'
  <2>1. CASE \E a, p \in People, change \in {"disable", "admin", "member", "other"} : Begin(e, a, p, change)
    <3>1. /\ edit'[e].pc = "profile" /\ \A f \in Edits \ {e} : edit'[f] = edit[f] /\ edit[f].pc = "no"
          /\ ~strained /\ UNCHANGED <<active, role>>
      BY <2>1, BeginTypes
    <3>2. OneAtATime' /\ AnAdminRemains'
      BY <3>1, RemainsIf DEF OneAtATime, Going
    <3>3. StillStands'
      BY <3>1 DEF StillStands
    <3> QED
      BY <3>2, <3>3
  <2>2. CASE ListOthers(e)
    <3>1. Going(e) /\ (\A f \in Edits \ {e} : edit'[f] = edit[f]) /\ ~strained /\ UNCHANGED <<active, role>>
      BY <2>2, ListAndCountTypes
    <3>2. edit[e].pc = "list" /\ edit' = [edit EXCEPT ![e] = [edit[e] EXCEPT !.pc = "count", !.others = active \ {edit[e].who}]]
      BY <2>2 DEF ListOthers, ContactTypes
    <3>3. /\ edit'[e].pc = "count" /\ edit'[e].others = active \ {edit[e].who}
          /\ edit'[e].who = edit[e].who /\ edit'[e].change = edit[e].change /\ edit'[e].base = edit[e].base
      BY <3>2 DEF ContactTypes, EditRecord
    <3>4. StillStands'
      BY <3>1, <3>2, <3>3, UndisturbedStands DEF StillStands
    <3> QED
      BY <3>1, <3>4, OneStays, RemainsIf
  <2>3. CASE CountOthers(e)
    <3>1. Going(e) /\ (\A f \in Edits \ {e} : edit'[f] = edit[f]) /\ ~strained /\ UNCHANGED <<active, role>>
      BY <2>3, ListAndCountTypes
    <3>2. edit[e].pc = "count" /\ edit' = [edit EXCEPT ![e] = IF OtherAdmins(e) = {} THEN NoEdit ELSE [edit[e] EXCEPT !.pc = "write"]]
      BY <2>3 DEF CountOthers, ContactTypes
    <3>3. CASE OtherAdmins(e) = {}
      <4>1. edit'[e].pc = "no"
        BY <3>2, <3>3, Empties DEF ContactTypes
      <4>2. StillStands'
        BY <3>1, <4>1, UndisturbedStands DEF StillStands
      <4> QED
        BY <3>1, <4>2, OneStays, RemainsIf
    <3>4. CASE OtherAdmins(e) # {}
      <4>1. /\ edit'[e].pc = "write" /\ edit'[e].who = edit[e].who /\ edit'[e].change = edit[e].change
            /\ edit'[e].base = edit[e].base
        BY <3>2, <3>4 DEF ContactTypes, EditRecord
      <4>2. \E p \in active \ {edit[e].who} : role[p] = "admin"
        BY <3>1, <3>2, <3>4 DEF OtherAdmins, StillStands
      <4>3. StillStands'
        BY <3>1, <3>2, <4>1, <4>2, UndisturbedStands DEF StillStands
      <4> QED
        BY <3>1, <4>3, OneStays, RemainsIf
    <3> QED
      BY <3>3, <3>4
  <2>4. CASE Invalidate(e)
    <3>1. /\ edit'[e].pc = "no" /\ (\A f \in Edits \ {e} : edit'[f] = edit[f]) /\ ~strained /\ UNCHANGED <<active, role>>
      BY <2>4, InvalidateTypes
    <3>2. Going(e)
      BY <2>4 DEF Invalidate, Going
    <3>3. StillStands'
      BY <3>1, UndisturbedStands DEF StillStands
    <3> QED
      BY <3>1, <3>2, <3>3, OneStays, RemainsIf
  <2>5. ASSUME NEW ok \in BOOLEAN, ReadProfile(e, ok) PROVE OneAtATime' /\ StillStands' /\ AnAdminRemains'
    <3>1. ~strained /\ ok
      BY <2>5, Calls DEF ReadProfile
    <3>2. Going(e) /\ (\A f \in Edits \ {e} : edit'[f] = edit[f]) /\ UNCHANGED <<active, role>>
      BY <2>5, ReadProfileTypes
    <3>3. /\ edit'[e].base = role'[edit'[e].who]
          /\ edit'[e].pc = IF Removes(edit'[e].change, edit'[e].base) THEN "list" ELSE "write"
      BY <2>5, <3>1, ReadProfileTypes
    <3>4. StillStands'
      BY <3>1, <3>2, <3>3, UndisturbedStands DEF StillStands
    <3> QED
      BY <3>1, <3>2, <3>4, OneStays, RemainsIf
  <2>6. ASSUME NEW ok \in BOOLEAN, Write(e, ok) PROVE OneAtATime' /\ StillStands' /\ AnAdminRemains'
    <3>1. ~strained
      BY <2>6, Calls DEF Write
    <3>2. Going(e) /\ edit[e].pc = "write" /\ edit'[e].pc = "invalidate" /\ \A f \in Edits \ {e} : edit'[f] = edit[f]
      BY <2>6, WriteTypes DEF Going
    <3>3. OneAtATime' /\ \A f \in Edits \ {e} : edit'[f].pc = "no"
      BY <3>1, <3>2, OneStays
    <3>4. StillStands'
      BY <3>2, <3>3 DEF StillStands
    <3>5. AnAdminRemains'
      <4> DEFINE who == edit[e].who
                 new == IF edit[e].change \in Roles THEN edit[e].change ELSE edit[e].base
      <4>1. edit[e].base = role[who] /\ edit[e].change \in {"none", "disable", "admin", "member", "other"} /\ who \in People
        BY <3>1, <3>2 DEF StillStands, ContactTypes, EditRecord
      <4>2. active' = active \/ (edit[e].change = "disable" /\ active' = active \ {who} /\ role' = role)
        BY <2>6, WriteTypes
      <4>3. role' = role \/ (active' = active /\ role' = [role EXCEPT ![who] = new])
        BY <2>6, WriteTypes
      <4>4. PICK p \in active : role[p] = "admin"
        BY <3>1 DEF AnAdminRemains, ActiveAdmins
      <4>5. CASE Removes(edit[e].change, edit[e].base)
        <5>1. PICK q \in active \ {who} : role[q] = "admin"
          BY <3>1, <3>2, <4>5 DEF StillStands
        <5>2. q \in active' /\ role'[q] = "admin"
          BY <4>1, <4>2, <4>3, <5>1 DEF ContactTypes
        <5> QED
          BY <5>2 DEF AnAdminRemains, ActiveAdmins
      <4>6. CASE ~Removes(edit[e].change, edit[e].base)
        <5>1. role[who] = "admin" => edit[e].change \notin {"disable", "member"}
          BY <4>1, <4>6 DEF Removes
        <5>2. role[who] = "admin" => new = "admin"
          BY <4>1, <5>1 DEF Roles
        <5> HIDE DEF who, new
        <5>3. p \in active' /\ role'[p] = "admin"
          BY <4>1, <4>2, <4>3, <4>4, <5>1, <5>2 DEF ContactTypes
        <5> QED
          BY <5>3 DEF AnAdminRemains, ActiveAdmins
      <4> QED
        BY <4>5, <4>6
    <3> QED
      BY <3>3, <3>4, <3>5
  <2> QED
    BY <1>3, <2>1, <2>2, <2>3, <2>4, <2>5, <2>6 DEF Edit
<1>4. CASE \E v \in Visits : Visit(v)
  <2>1. ~strained /\ UNCHANGED <<active, role, edit>>
    BY <1>4, Calls DEF Visit, Resolve, Resolved, Stored
  <2> QED
    BY <2>1, RemainsIf DEF OneAtATime, Going, StillStands
<1> QED
  BY <1>2, <1>3, <1>4 DEF ContactsNext, contactVars, Tick

\* As long as no two edits overlap and no call fails, some administrator is active.
THEOREM TheGuardKeepsAnAdmin == ContactsSpec => []AnAdminRemainsUnstrained
<1>1. ContactsInit => AdminInv
  BY ContactsStart
<1>2. AdminInv /\ [ContactsNext]_contactVars => AdminInv'
  BY GuardHolds
<1>3. AdminInv => AnAdminRemainsUnstrained
  BY DEF AdminInv, AnAdminRemainsUnstrained
<1> QED
  BY <1>1, <1>2, <1>3, PTL DEF ContactsSpec
-----------------------------------------------------------------------------
(* Completions.                                                              *)
Said == Texts \cup {"none", Before.text}
Turn == [role : {"user", "assistant"}, by : Requests \cup {{}}, text : Said, to : SUBSET Nat,
         kind : {"turn", "answer", "error", "empty"}]
AskRecord == [pc : {"no", "append", "wait", "closed"}, text : Said, after : Nat, own : Nat,
              out : Seq(Nat), finish : Outcomes]

\* What a request has sent on is right: rows that answer it, none twice, and no error
\* that is taken for an answer.
Right(log, r, rec) ==
  /\ \A k \in DOMAIN rec.out : rec.out[k] \in 1..Len(log)
  /\ \A k \in DOMAIN rec.out : \E turn \in log[rec.out[k]].to : log[turn].by = r
  /\ IsInjective(rec.out)
  /\ (r \notin Streamed /\ \E k \in DOMAIN rec.out : log[rec.out[k]].kind = "error") => rec.finish = "error"

CompletionTypes == turns \in Seq(Turn) /\ ask \in [Requests -> AskRecord]

\* A row addresses earlier rows, a request knows no turn but its own, and what it has
\* sent on are rows that are there.
RowsLookBack == \A i \in 1..Len(turns) : turns[i].to \subseteq 1..(i - 1)
OwnIsOwn == \A r \in Requests : ask[r].own # 0 => ask[r].own \in 1..Len(turns) /\ turns[ask[r].own].by = r
SentIsRight == \A r \in Requests : Right(turns, r, ask[r])

\* One that is not closed has not finished.
OpenIsUnfinished == \A r \in Requests : ask[r].pc = "closed" \/ ask[r].finish = "none"

CompletionInv == CompletionTypes /\ RowsLookBack /\ OwnIsOwn /\ SentIsRight /\ OpenIsUnfinished

\* The thread grows at its end.
LEMMA ThreadGrows ==
  ASSUME CompletionTypes, NEW row \in Turn, turns' = Append(turns, row)
  PROVE  /\ turns' \in Seq(Turn) /\ Len(turns') = Len(turns) + 1 /\ Len(turns) \in Nat
         /\ turns'[Len(turns) + 1] = row /\ \A i \in 1..Len(turns) : turns'[i] = turns[i]
BY DEF CompletionTypes

\* While it does, a request that sends nothing keeps what holds of it.
LEMMA RowsStay ==
  ASSUME CompletionInv,
         Len(turns) \in Nat, Len(turns') \in Nat, Len(turns) <= Len(turns'),
         \A i \in 1..Len(turns) : turns'[i] = turns[i],
         NEW r \in Requests, ask'[r].own = ask[r].own \/ ask'[r].own = 0
  PROVE  ask'[r].own # 0 => ask'[r].own \in 1..Len(turns') /\ turns'[ask'[r].own].by = r
<1>1. ask[r].own # 0 => ask[r].own \in 1..Len(turns) /\ turns[ask[r].own].by = r
  BY DEF CompletionInv, OwnIsOwn
<1> QED
  BY <1>1

LEMMA SentStay ==
  ASSUME CompletionInv,
         Len(turns) \in Nat, Len(turns') \in Nat, Len(turns) <= Len(turns'),
         \A i \in 1..Len(turns) : turns'[i] = turns[i],
         NEW r \in Requests, ask'[r].out = ask[r].out, ask'[r].finish = ask[r].finish \/ ask[r].finish # "error"
  PROVE  Right(turns', r, ask'[r])
<1> DEFINE out == ask[r].out
<1>1. \A k \in DOMAIN out : out[k] \in 1..Len(turns)
  BY DEF CompletionInv, SentIsRight, Right
<1>2. /\ \A k \in DOMAIN out : \E turn \in turns[out[k]].to : turns[turn].by = r
      /\ IsInjective(out)
      /\ (r \notin Streamed /\ \E k \in DOMAIN out : turns[out[k]].kind = "error") => ask[r].finish = "error"
  BY DEF CompletionInv, SentIsRight, Right
<1>3. \A k \in DOMAIN out : turns[out[k]].to \subseteq 1..Len(turns)
  <2> SUFFICES ASSUME NEW k \in DOMAIN out PROVE turns[out[k]].to \subseteq 1..Len(turns)
    OBVIOUS
  <2>1. out[k] \in 1..Len(turns)
    BY <1>1
  <2>2. turns[out[k]].to \subseteq 1..(out[k] - 1)
    BY <2>1 DEF CompletionInv, RowsLookBack
  <2> QED
    BY <2>1, <2>2
<1> HIDE DEF out
<1>4. \A k \in DOMAIN out : out[k] \in 1..Len(turns')
  BY <1>1
<1>5. \A k \in DOMAIN out : turns'[out[k]] = turns[out[k]]
  BY <1>1
<1>6. \A k \in DOMAIN out : \E turn \in turns'[out[k]].to : turns'[turn].by = r
  BY <1>2, <1>3, <1>5
<1>7. (r \notin Streamed /\ \E k \in DOMAIN out : turns'[out[k]].kind = "error") => ask[r].finish = "error"
  BY <1>2, <1>5
<1> QED
  BY <1>2, <1>4, <1>6, <1>7 DEF out, Right
-----------------------------------------------------------------------------
LEMMA FathomKeepsAsking ==
  ASSUME CompletionInv, NEW to \in SUBSET (1..Len(turns)), NEW of \in {"answer", "error", "empty"},
         FathomReplies(to, of)
  PROVE  CompletionInv'
<1> DEFINE row == [role |-> "assistant", by |-> {}, text |-> "none", to |-> to, kind |-> of]
<1>1. CompletionTypes /\ ask' = ask /\ turns' = Append(turns, row)
  BY DEF CompletionInv, FathomReplies
<1>2. row \in Turn
  BY DEF Turn, Said
<1>3. /\ turns' \in Seq(Turn) /\ Len(turns') = Len(turns) + 1 /\ Len(turns) \in Nat
      /\ turns'[Len(turns) + 1] = row /\ \A i \in 1..Len(turns) : turns'[i] = turns[i]
  BY <1>1, <1>2, ThreadGrows
<1>4. row.to \subseteq 1..Len(turns)
  OBVIOUS
<1> HIDE DEF row
<1>5. CompletionTypes'
  BY <1>1, <1>3 DEF CompletionTypes
<1>6. RowsLookBack'
  BY <1>3, <1>4 DEF CompletionInv, RowsLookBack
<1>7. OwnIsOwn'
  BY <1>1, <1>3, RowsStay DEF OwnIsOwn
<1>8. SentIsRight'
  BY <1>1, <1>3, SentStay DEF SentIsRight
<1>9. OpenIsUnfinished'
  BY <1>1 DEF CompletionInv, OpenIsUnfinished
<1> QED
  BY <1>5, <1>6, <1>7, <1>8, <1>9 DEF CompletionInv

\* One request is served; the thread stays or grows.
LEMMA OneServed ==
  ASSUME CompletionInv, NEW r \in Requests, NEW new \in AskRecord,
         ask' = [ask EXCEPT ![r] = new], turns' \in Seq(Turn),
         Len(turns) \in Nat, Len(turns') \in Nat, Len(turns) <= Len(turns'),
         \A i \in 1..Len(turns) : turns'[i] = turns[i],
         RowsLookBack',
         new.own # 0 => new.own \in 1..Len(turns') /\ turns'[new.own].by = r,
         Right(turns', r, new), new.pc = "closed" \/ new.finish = "none"
  PROVE  CompletionInv'
<1>1. ask'[r] = new /\ (\A q \in Requests \ {r} : ask'[q] = ask[q]) /\ ask' \in [Requests -> AskRecord]
  BY DEF CompletionInv, CompletionTypes
<1>2. CompletionTypes'
  BY <1>1 DEF CompletionTypes
<1>3. OwnIsOwn'
  <2>1. SUFFICES ASSUME NEW q \in Requests
                 PROVE  ask'[q].own # 0 => ask'[q].own \in 1..Len(turns') /\ turns'[ask'[q].own].by = q
    BY DEF OwnIsOwn
  <2>2. CASE q = r
    BY <1>1, <2>2
  <2>3. CASE q # r
    BY <1>1, <2>3, RowsStay
  <2> QED
    BY <2>2, <2>3
<1>4. SentIsRight'
  <2>1. SUFFICES ASSUME NEW q \in Requests
                 PROVE  Right(turns', q, ask'[q])
    BY DEF SentIsRight
  <2>2. CASE q = r
    BY <1>1, <2>2
  <2>3. CASE q # r
    BY <1>1, <2>3, SentStay
  <2> QED
    BY <2>2, <2>3
<1>5. OpenIsUnfinished'
  BY <1>1 DEF CompletionInv, OpenIsUnfinished
<1> QED
  BY <1>2, <1>3, <1>4, <1>5 DEF CompletionInv

\* Nothing sent is nothing wrong.
LEMMA NothingSentIsRight ==
  ASSUME NEW log, NEW r, NEW rec, rec.out = << >> PROVE Right(log, r, rec)
BY DEF Right, IsInjective

\* A request that changes neither the thread nor what it has sent on.
LEMMA QuietlyServed ==
  ASSUME CompletionInv, NEW r \in Requests, NEW new \in AskRecord,
         turns' = turns, ask' = [ask EXCEPT ![r] = new],
         new.own \in {0, ask[r].own}, new.pc = "closed" \/ new.finish = "none",
         new.out = << >> \/ (new.out = ask[r].out /\ (new.finish = ask[r].finish \/ ask[r].finish # "error"))
  PROVE  CompletionInv'
<1>1. /\ turns' \in Seq(Turn) /\ Len(turns) \in Nat /\ Len(turns') = Len(turns) /\ RowsLookBack'
      /\ ask'[r] = new /\ \A i \in 1..Len(turns) : turns'[i] = turns[i]
  BY DEF CompletionInv, CompletionTypes, RowsLookBack
<1>2. new.own # 0 => new.own \in 1..Len(turns') /\ turns'[new.own].by = r
  BY <1>1 DEF CompletionInv, OwnIsOwn
<1>3. Right(turns', r, new)
  <2>1. CASE new.out = << >>
    BY <2>1, NothingSentIsRight
  <2>2. CASE new.out = ask[r].out /\ (new.finish = ask[r].finish \/ ask[r].finish # "error")
    BY <1>1, <2>2, SentStay
  <2> QED
    BY <2>1, <2>2
<1>4. Len(turns') \in Nat /\ Len(turns) <= Len(turns')
  BY <1>1
<1> QED
  BY <1>1, <1>2, <1>3, <1>4, OneServed

LEMMA AppendsKeepAsking ==
  ASSUME CompletionInv, NEW r \in Requests, NEW ok \in BOOLEAN, NEW lands \in BOOLEAN, AppendTurn(r, ok, lands)
  PROVE  CompletionInv'
<1> DEFINE fresh == lands /\ ~RepeatsLast(r)
           row == [role |-> "user", by |-> r, text |-> ask[r].text, to |-> {}, kind |-> "turn"]
           own == IF ok /\ fresh THEN Len(turns') ELSE 0
           new == [ask[r] EXCEPT !.pc = "wait", !.own = own]
<1>0. ask[r] \in AskRecord /\ CompletionTypes /\ Len(turns) \in Nat
  BY DEF CompletionInv, CompletionTypes
<1>1. ask' = [ask EXCEPT ![r].pc = "wait", ![r].own = own]
  BY DEF AppendTurn
<1>2. ask' = [ask EXCEPT ![r] = new]
  BY <1>0, <1>1 DEF CompletionTypes
<1>3. new.out = ask[r].out /\ new.own = own /\ new.finish = ask[r].finish /\ new.finish = "none"
  <2>1. ask[r].pc = "append"
    BY DEF AppendTurn
  <2> QED
    BY <1>0, <2>1 DEF AskRecord, CompletionInv, OpenIsUnfinished
<1>4. CASE ~fresh
  <2>1. turns' = turns /\ own = 0
    BY <1>4 DEF AppendTurn
  <2>2. new \in AskRecord
    BY <1>0, <2>1 DEF AskRecord
  <2> HIDE DEF new, own, fresh
  <2> QED
    BY <1>2, <1>3, <2>1, <2>2, QuietlyServed
<1>5. CASE fresh
  <2>1. turns' = Append(turns, row)
    BY <1>5 DEF AppendTurn
  <2>2. row \in Turn
    BY <1>0 DEF Turn, AskRecord
  <2>3. /\ turns' \in Seq(Turn) /\ Len(turns') = Len(turns) + 1
        /\ turns'[Len(turns) + 1] = row /\ \A i \in 1..Len(turns) : turns'[i] = turns[i]
    BY <1>0, <2>1, <2>2, ThreadGrows
  <2>4. own \in {0, Len(turns) + 1}
    BY <2>3
  <2>5. new \in AskRecord
    <3>1. own \in Nat
      BY <1>0, <2>4
    <3> HIDE DEF own
    <3> QED
      BY <1>0, <3>1 DEF AskRecord
  <2>6. row.to = {} /\ row.by = r
    OBVIOUS
  <2> HIDE DEF new, own, fresh, row
  <2>7. RowsLookBack'
    BY <1>0, <2>3, <2>6 DEF CompletionInv, RowsLookBack
  <2>8. new.own # 0 => new.own \in 1..Len(turns') /\ turns'[new.own].by = r
    BY <1>0, <1>3, <2>3, <2>4, <2>6
  <2>9. Right(turns', r, new)
    <3>1. ask'[r] = new
      BY <1>0, <1>2 DEF CompletionTypes
    <3>2. Len(turns') \in Nat /\ Len(turns) <= Len(turns')
      BY <1>0, <2>3
    <3>3. Right(turns', r, ask'[r])
      BY <1>0, <1>3, <2>3, <3>1, <3>2, SentStay
    <3> QED
      BY <3>1, <3>3
  <2>10. Len(turns') \in Nat /\ Len(turns) <= Len(turns')
    BY <1>0, <2>3
  <2> QED
    BY <2>10, <1>3, <1>0, <1>2, <2>3, <2>5, <2>7, <2>8, <2>9, OneServed
<1> QED
  BY <1>4, <1>5

LEMMA PollsKeepAsking ==
  ASSUME CompletionInv, NEW r \in Requests, PollFinds(r)
  PROVE  CompletionInv'
<1> DEFINE rows == RowsFor(r)
           n == Cardinality(rows)
<1>0. ask[r] \in AskRecord /\ CompletionTypes /\ Len(turns) \in Nat /\ turns' = turns
  BY DEF CompletionInv, CompletionTypes, PollFinds
<1>1. PICK out \in Ordered(r, rows) :
        ask' = [ask EXCEPT ![r].pc = "closed", ![r].out = out, ![r].finish = FinishOf(r, rows)]
  BY DEF PollFinds
<1> DEFINE new == [ask[r] EXCEPT !.pc = "closed", !.out = out, !.finish = FinishOf(r, rows)]
<1>2. ask' = [ask EXCEPT ![r] = new]
  BY <1>0, <1>1 DEF CompletionTypes
<1>3. new.out = out /\ new.own = ask[r].own /\ new.finish = FinishOf(r, rows) /\ new.pc = "closed"
  BY <1>0 DEF AskRecord
<1>4. \A i \in rows : i \in 1..Len(turns) /\ ask[r].own \in turns[i].to
  BY <1>0 DEF RowsFor, AskRecord
<1>5. /\ out \in [1..n -> rows]
      /\ \A i, j \in 1..n : i < j => out[i] > out[j] \/ out[i] < out[j]
  BY <1>1 DEF Ordered
<1>6. IsFiniteSet(rows) /\ n \in Nat
  <2>1. rows \subseteq 1..Len(turns)
    BY <1>4
  <2>2. IsFiniteSet(1..Len(turns))
    BY <1>0, FS_Interval
  <2> HIDE DEF rows, n
  <2>3. IsFiniteSet(rows)
    BY <2>1, <2>2, FS_Subset
  <2> QED
    BY <2>3, FS_CardinalityType DEF n
<1>7. out \in Seq(Nat) /\ DOMAIN out = 1..n /\ \A k \in 1..n : out[k] \in rows
  BY <1>4, <1>5, <1>6
<1>8. FinishOf(r, rows) \in Outcomes
  BY DEF FinishOf, Outcomes
<1>9. new \in AskRecord
  BY <1>0, <1>7, <1>8 DEF AskRecord
<1>10. \A i, j \in 1..n : out[i] = out[j] => i = j
  BY <1>4, <1>5, <1>6, <1>7
<1>11. IsInjective(out)
  BY <1>7, <1>10 DEF IsInjective
<1>12. r \notin Streamed /\ (\E i \in rows : turns[i].kind = "error") => FinishOf(r, rows) = "error"
  BY DEF FinishOf
<1>13. \A i \in rows : ask[r].own # 0 /\ turns[ask[r].own].by = r
  <2> SUFFICES ASSUME NEW i \in rows PROVE ask[r].own # 0 /\ turns[ask[r].own].by = r
    OBVIOUS
  <2>1. ask[r].own \in 1..(i - 1)
    BY <1>4 DEF CompletionInv, RowsLookBack
  <2> QED
    BY <1>4, <2>1 DEF CompletionInv, OwnIsOwn
<1> HIDE DEF rows, n, new
<1>14. Right(turns', r, new)
  BY <1>0, <1>3, <1>4, <1>7, <1>11, <1>12, <1>13 DEF Right
<1>15. RowsLookBack' /\ (new.own # 0 => new.own \in 1..Len(turns') /\ turns'[new.own].by = r)
  BY <1>0, <1>3 DEF CompletionInv, RowsLookBack, OwnIsOwn
<1>16. /\ turns' \in Seq(Turn) /\ Len(turns') \in Nat /\ Len(turns) <= Len(turns')
       /\ \A i \in 1..Len(turns) : turns'[i] = turns[i]
  BY <1>0 DEF CompletionTypes
<1> QED
  BY <1>0, <1>2, <1>3, <1>9, <1>14, <1>15, <1>16, OneServed

LEMMA UnaskedTypes == Before \in AskRecord /\ Before.out = << >> /\ Before.own = 0 /\ Before.finish = "none"
<1>1. Before.text \in Said /\ "none" \in Outcomes /\ << >> \in Seq(Nat)
  BY DEF Said, Outcomes
<1>2. PICK t : Before = [pc |-> "no", text |-> t, after |-> 0, own |-> 0, out |-> << >>, finish |-> "none"]
  BY DEF Before
<1>3. t \in Said
  BY <1>1, <1>2
<1> QED
  BY <1>1, <1>2, <1>3 DEF AskRecord

LEMMA RequestsKeepAsking ==
  ASSUME CompletionInv, NEW r \in Requests, Arrive(r) \/ Deadline(r) \/ Disconnected(r)
  PROVE  CompletionInv'
<1>0. ask[r] \in AskRecord /\ CompletionTypes /\ Len(turns) \in Nat
  BY DEF CompletionInv, CompletionTypes
<1>1. CASE Arrive(r)
  <2>1. PICK t \in Texts :
          ask' = [ask EXCEPT ![r] = [Before EXCEPT !.pc = "append", !.text = t, !.after = Len(turns)]]
    BY <1>1 DEF Arrive
  <2> DEFINE new == [Before EXCEPT !.pc = "append", !.text = t, !.after = Len(turns)]
  <2>2. new \in AskRecord /\ new.out = << >> /\ new.own = 0 /\ new.finish = "none"
    <3>1. /\ Before \in AskRecord
          /\ Before.out = << >> /\ Before.own = 0 /\ Before.finish = "none"
      BY UnaskedTypes
    <3>2. t \in Said
      BY DEF Said
    <3> QED
      BY <1>0, <3>1, <3>2 DEF AskRecord
  <2>3. turns' = turns
    BY <1>1 DEF Arrive
  <2> HIDE DEF new
  <2> QED
    BY <2>1, <2>2, <2>3, QuietlyServed DEF new
<1>2. CASE Deadline(r) \/ Disconnected(r)
  <2>1. PICK end \in {"timeout", "gone"} :
          ask' = [ask EXCEPT ![r].pc = "closed", ![r].finish = end]
    BY <1>2 DEF Deadline, Disconnected
  <2> DEFINE new == [ask[r] EXCEPT !.pc = "closed", !.finish = end]
  <2>2. ask' = [ask EXCEPT ![r] = new]
    BY <1>0, <2>1 DEF CompletionTypes
  <2>3. new \in AskRecord /\ new.out = ask[r].out /\ new.own = ask[r].own /\ new.pc = "closed"
    BY <1>0 DEF AskRecord, Outcomes
  <2>4. turns' = turns
    BY <1>2 DEF Deadline, Disconnected
  <2> HIDE DEF new
  <2>5. ask[r].pc = "wait"
    BY <1>2 DEF Deadline, Disconnected
  <2> QED
    BY <2>2, <2>3, <2>4, <2>5, QuietlyServed DEF CompletionInv, OpenIsUnfinished
<1> QED
  BY <1>1, <1>2

LEMMA CompletionsStart == CompletionsInit => CompletionInv
<1> SUFFICES ASSUME CompletionsInit PROVE CompletionInv
  OBVIOUS
<1>1. turns = << >> /\ Len(turns) = 0 /\ turns \in Seq(Turn)
  BY DEF CompletionsInit
<1>2. ask \in [Requests -> AskRecord] /\ \A r \in Requests : ask[r] = Before
  BY UnaskedTypes DEF CompletionsInit
<1>3. SentIsRight
  BY <1>2, UnaskedTypes, NothingSentIsRight DEF SentIsRight
<1>4. RowsLookBack /\ OwnIsOwn /\ OpenIsUnfinished
  BY <1>1, <1>2, UnaskedTypes DEF RowsLookBack, OwnIsOwn, OpenIsUnfinished
<1> QED
  BY <1>1, <1>2, <1>3, <1>4 DEF CompletionInv, CompletionTypes

LEMMA CompletionStep == CompletionInv /\ [CompletionsNext]_completionVars => CompletionInv'
<1> SUFFICES ASSUME CompletionInv, [CompletionsNext]_completionVars PROVE CompletionInv'
  OBVIOUS
<1>1. CASE Fathom
  BY <1>1, FathomKeepsAsking DEF Fathom
<1>2. CASE \E r \in Requests : Serve(r)
  <2>1. PICK r \in Requests : Serve(r)
    BY <1>2
  <2> QED
    BY <2>1, AppendsKeepAsking, PollsKeepAsking, RequestsKeepAsking DEF Serve
<1>3. CASE UNCHANGED completionVars
  BY <1>3 DEF completionVars, CompletionInv, CompletionTypes, RowsLookBack, OwnIsOwn, SentIsRight, OpenIsUnfinished, Right
<1> QED
  BY <1>1, <1>2, <1>3 DEF CompletionsNext

\* A client receives answers to its own turn, not to an earlier or a parallel one of the
\* session, and none twice, for any number of requests, texts and failed calls: each
\* lap of _await_witness_reply() and _openai_stream() looks for the id of its own turn.
THEOREM AnswersReachTheirAsker == CompletionsSpec => []AnswersFindTheirAsker
<1>1. CompletionInv => AnswersFindTheirAsker
  BY DEF CompletionInv, SentIsRight, Right, AnswersFindTheirAsker
<1> QED
  BY <1>1, CompletionsStart, CompletionStep, PTL DEF CompletionsSpec
-----------------------------------------------------------------------------
(* The bell.                                                                 *)
Plea == Pleas \cup Formal
ListingPcs == {"no", "receipt", "drafts", "decisions", "answer"}
Since == [drafted : SUBSET Plea, decided : SUBSET Plea, happened : SUBSET Nat, read : Nat]
AListing ==
  [pc : ListingPcs, since : Since, viewed : Nat, todo : SUBSET Nat, crowded : SUBSET Plea,
   pending : SUBSET Plea, unread : SUBSET Nat, failed : BOOLEAN]
BellTypes ==
  /\ petitions \in Seq(Plea) /\ verdicts \subseteq Plea /\ chimes \subseteq Nat
  /\ eras \subseteq Nat /\ minors \subseteq Nat /\ \A e \in eras \cup minors : e <= moment
  /\ moment \in Nat /\ receipts \in Seq(Nat) /\ \A i \in DOMAIN receipts : receipts[i] <= moment
  /\ marking \in [Clerks -> Nat] /\ \A c \in Clerks : marking[c] <= moment
  /\ listing \in AListing

\* What a listing began with is still so, since nothing is taken back.
GreatestRead == Max({0} \cup ToSet(receipts))
SinceIsOld ==
  listing.pc # "no" =>
    /\ listing.since.drafted \subseteq ToSet(petitions) /\ listing.since.decided \subseteq verdicts
    /\ listing.since.read <= GreatestRead

\* A proposal that waited has been found to wait, or is among those to be asked for.
PleasAreAsked ==
  listing.pc \in {"decisions", "answer"} =>
    /\ listing.todo \subseteq DOMAIN petitions /\ (listing.pc = "answer" => listing.todo = {})
    /\ ~listing.failed =>
         (listing.since.drafted \cap Pleas) \ (verdicts \cup listing.crowded)
           \subseteq listing.pending \cup {petitions[i] : i \in listing.todo}
PendingWaited ==
  /\ listing.pc \notin {"decisions", "answer"} => listing.pending = {}
  /\ ~listing.failed => listing.pending \cap listing.since.decided = {}

\* What is newer than the receipt is listed, or will be with the eras if it is not
\* out of their query by then; and the receipt is no older than the newest one of
\* the beginning.
OutrunEras == eras \ NewestEras
NewsIsSeen ==
  \A h \in listing.since.happened :
    /\ listing.pc = "receipt" => h \in listing.unread \cup eras
    /\ listing.pc \in {"drafts", "decisions"} /\ h > listing.viewed => h \in listing.unread \cup eras
    /\ listing.pc = "answer" /\ ~listing.failed /\ h > listing.viewed => h \in listing.unread \cup OutrunEras
ViewIsRecent ==
  listing.pc \in {"drafts", "decisions", "answer"} =>
    /\ \A u \in listing.unread : u > listing.viewed
    /\ listing.viewed <= GreatestRead
    /\ ~listing.failed /\ ~Crossed => listing.since.read <= listing.viewed

BellInv == BellTypes /\ SinceIsOld /\ PleasAreAsked /\ PendingWaited /\ NewsIsSeen /\ ViewIsRecent

-----------------------------------------------------------------------------
LEMMA GreatestIsMax ==
  ASSUME NEW S, NEW x \in S, \A y \in S : y \in Nat /\ y <= x
  PROVE  Max(S) = x
BY DEF Max

LEMMA GreatestIsIn ==
  ASSUME NEW s \in Seq(Nat), NEW n \in Nat, \A i \in DOMAIN s : s[i] <= n
  PROVE  /\ Max({0} \cup ToSet(s)) \in Nat
         /\ \A i \in DOMAIN s : s[i] <= Max({0} \cup ToSet(s))
         /\ \A m \in Nat : (\A i \in DOMAIN s : s[i] <= m) => Max({0} \cup ToSet(s)) <= m
<1> DEFINE S == {0} \cup ToSet(s)
<1>1. S \in SUBSET (0..n) /\ S # {}
  BY DEF ToSet
<1>2. PICK x \in S : \A y \in S : y <= x
  BY <1>1, HasGreatest
<1>3. x \in Nat /\ \A y \in S : y \in Nat /\ y <= x
  BY <1>1, <1>2
<1>4. Max(S) = x
  <2> HIDE DEF S
  <2> QED
    BY <1>2, <1>3, GreatestIsMax
<1>5. \A i \in DOMAIN s : s[i] \in S
  BY DEF ToSet
<1>6. x = 0 \/ \E i \in DOMAIN s : x = s[i]
  BY <1>2 DEF ToSet
<1> HIDE DEF S
<1>7. /\ Max(S) \in Nat /\ \A i \in DOMAIN s : s[i] <= Max(S)
      /\ \A m \in Nat : (\A i \in DOMAIN s : s[i] <= m) => Max(S) <= m
  BY <1>3, <1>4, <1>5, <1>6
<1> QED
  BY <1>7 DEF S

\* Receipts that do not cross end with the greatest.
LEMMA LastIsGreatest ==
  ASSUME BellTypes
  PROVE  /\ GreatestRead \in Nat /\ LatestViewedAt \in Nat /\ LatestViewedAt <= GreatestRead
         /\ ~Crossed => LatestViewedAt = GreatestRead
<1>1. receipts \in Seq(Nat) /\ moment \in Nat /\ \A i \in DOMAIN receipts : receipts[i] <= moment
  BY DEF BellTypes
<1>2. /\ GreatestRead \in Nat /\ \A i \in DOMAIN receipts : receipts[i] <= GreatestRead
      /\ \A m \in Nat : (\A i \in DOMAIN receipts : receipts[i] <= m) => GreatestRead <= m
  BY <1>1, GreatestIsIn DEF GreatestRead
<1>3. CASE receipts = << >>
  BY <1>2, <1>3 DEF LatestViewedAt
<1>4. CASE receipts # << >>
  <2>1. Len(receipts) \in DOMAIN receipts /\ Last(receipts) = receipts[Len(receipts)] /\ LatestViewedAt = receipts[Len(receipts)]
    BY <1>1, <1>4 DEF Last, LatestViewedAt
  <2>2. ASSUME ~Crossed, NEW i \in DOMAIN receipts PROVE receipts[i] <= receipts[Len(receipts)]
    BY <1>1, <2>1, <2>2 DEF Crossed
  <2> QED
    BY <1>1, <1>2, <2>1, <2>2
<1> QED
  BY <1>3, <1>4

\* An era that is out of the query stays out.
LEMMA OutrunStays ==
  ASSUME BellTypes, BellTypes', eras \subseteq eras', minors \subseteq minors'
  PROVE  OutrunEras \subseteq OutrunEras'
<1> DEFINE Newer(e) == {n \in eras \cup minors : n > e}
           NewerNow(e) == {n \in eras' \cup minors' : n > e}
<1> SUFFICES ASSUME NEW e \in eras, ~(Cardinality(Newer(e)) < EraLimit)
             PROVE  ~(Cardinality(NewerNow(e)) < EraLimit)
  BY DEF OutrunEras, NewestEras
<1>1. moment' \in Nat /\ eras' \cup minors' \subseteq 0..moment'
  BY DEF BellTypes
<1>2. NewerNow(e) \subseteq 0..moment' /\ Newer(e) \subseteq NewerNow(e)
  BY <1>1
<1> HIDE DEF Newer, NewerNow
<1>3. IsFiniteSet(NewerNow(e))
  <2>1. IsFiniteSet(0..moment')
    BY <1>1, FS_Interval
  <2> QED
    BY <1>2, <2>1, FS_Subset
<1>4. IsFiniteSet(Newer(e)) /\ Cardinality(Newer(e)) <= Cardinality(NewerNow(e))
  BY <1>2, <1>3, FS_Subset
<1>5. Cardinality(Newer(e)) \in Nat /\ Cardinality(NewerNow(e)) \in Nat
  BY <1>3, <1>4, FS_CardinalityType
<1> QED
  BY <1>4, <1>5, EraLimitAssumption

\* What arrives beside a listing takes nothing back.
LEMMA ArrivalsKeepListings ==
  ASSUME BellInv, BellTypes', UNCHANGED listing,
         \A i \in DOMAIN petitions : i \in DOMAIN petitions' /\ petitions'[i] = petitions[i],
         verdicts \subseteq verdicts', eras \subseteq eras', minors \subseteq minors',
         \A i \in DOMAIN receipts : i \in DOMAIN receipts' /\ receipts'[i] = receipts[i]
  PROVE  BellInv'
<1>1. ToSet(petitions) \subseteq ToSet(petitions')
  BY DEF ToSet
<1>2. GreatestRead \in Nat /\ GreatestRead' \in Nat /\ GreatestRead <= GreatestRead'
  <2>1. /\ receipts \in Seq(Nat) /\ moment \in Nat /\ \A i \in DOMAIN receipts : receipts[i] <= moment
        /\ receipts' \in Seq(Nat) /\ moment' \in Nat /\ \A i \in DOMAIN receipts' : receipts'[i] <= moment'
    BY DEF BellInv, BellTypes
  <2>2. PICK s : s = receipts'
    OBVIOUS
  <2>3. /\ Max({0} \cup ToSet(s)) \in Nat /\ \A i \in DOMAIN s : s[i] <= Max({0} \cup ToSet(s))
        /\ s \in Seq(Nat)
    BY <2>1, <2>2, GreatestIsIn
  <2>4. /\ GreatestRead \in Nat
        /\ \A m \in Nat : (\A i \in DOMAIN receipts : receipts[i] <= m) => GreatestRead <= m
    BY <2>1, GreatestIsIn DEF GreatestRead
  <2>5. \A i \in DOMAIN receipts : receipts[i] <= Max({0} \cup ToSet(s))
    BY <2>2, <2>3
  <2>6. GreatestRead' = Max({0} \cup ToSet(s))
    BY <2>2 DEF GreatestRead
  <2> QED
    BY <2>3, <2>4, <2>5, <2>6
<1>3. Crossed => Crossed'
  BY DEF Crossed
<1>4. listing \in AListing
  BY DEF BellInv, BellTypes
<1>5. /\ listing.since.read \in Nat /\ listing.viewed \in Nat /\ listing.since.happened \subseteq Nat /\ listing.unread \subseteq Nat
  BY <1>4 DEF AListing, Since
<1>6. SinceIsOld'
  BY <1>1, <1>2, <1>5 DEF BellInv, SinceIsOld
<1>7. PleasAreAsked' /\ PendingWaited'
  BY DEF BellInv, PleasAreAsked, PendingWaited
<1>8. NewsIsSeen'
  <2>1. OutrunEras \subseteq OutrunEras'
    BY OutrunStays DEF BellInv
  <2> QED
    BY <2>1 DEF BellInv, NewsIsSeen
<1>9. ViewIsRecent'
  BY <1>2, <1>3, <1>5 DEF BellInv, ViewIsRecent
<1> QED
  BY <1>6, <1>7, <1>8, <1>9 DEF BellInv

LEMMA NoListingIsTyped == NoListing \in AListing /\ NoListing.pc = "no" /\ NoListing.pending = {} /\ NoListing.since.happened = {}
BY DEF NoListing, AListing, ListingPcs, Since

LEMMA BellStarts == BellInit => BellInv
<1> SUFFICES ASSUME BellInit PROVE BellInv
  OBVIOUS
<1>1. BellTypes
  BY NoListingIsTyped DEF BellInit, BellTypes
<1> QED
  BY <1>1, NoListingIsTyped DEF BellInit, BellInv, SinceIsOld, PleasAreAsked, PendingWaited, NewsIsSeen, ViewIsRecent

\* A list with one more.
LEMMA OneMore ==
  ASSUME NEW S, NEW s \in Seq(S), NEW x \in S, NEW t, t = Append(s, x)
  PROVE  /\ t \in Seq(S) /\ \A i \in DOMAIN s : i \in DOMAIN t /\ t[i] = s[i]
         /\ \A i \in DOMAIN t : i \in DOMAIN s \/ t[i] = x
OBVIOUS

LEMMA ArrivalsAreKept ==
  ASSUME BellInv,
         \/ \E p \in Plea : DraftPlea(p) \/ DecidePlea(p)
         \/ Chime \/ ChimesFade \/ NameEra \/ (\E c \in Clerks : MarkRead(c) \/ \E ok \in BOOLEAN : WriteViewedAt(c, ok))
  PROVE  BellInv'
<1>0. BellTypes
  BY DEF BellInv
<1>1. ASSUME NEW p \in Plea, DraftPlea(p) PROVE BellInv'
  <2>1. /\ petitions \in Seq(Plea) /\ petitions' = Append(petitions, p)
        /\ UNCHANGED <<verdicts, chimes, eras, minors, receipts, marking, listing, moment>>
    BY <1>0, <1>1 DEF DraftPlea, BellTypes
  <2>2. petitions' \in Seq(Plea) /\ \A i \in DOMAIN petitions : i \in DOMAIN petitions' /\ petitions'[i] = petitions[i]
    BY <2>1
  <2>3. BellTypes'
    BY <1>0, <2>1, <2>2 DEF BellTypes
  <2> QED
    BY <2>1, <2>2, <2>3, ArrivalsKeepListings
<1>2. ASSUME NEW p \in Plea, DecidePlea(p) PROVE BellInv'
  <2>1. verdicts' = verdicts \cup {p} /\ UNCHANGED <<petitions, chimes, eras, minors, receipts, marking, listing, moment>>
    BY <1>2 DEF DecidePlea
  <2>2. BellTypes'
    BY <1>0, <2>1 DEF BellTypes
  <2> QED
    BY <2>1, <2>2, ArrivalsKeepListings
<1>3. CASE Chime \/ NameEra
  <2>1. /\ moment' = moment + 1 /\ eras' \in {eras, eras \cup {moment'}} /\ chimes' \in {chimes, chimes \cup {moment'}}
        /\ minors' \in {minors, minors \cup {moment'}} /\ UNCHANGED <<petitions, verdicts, receipts, marking, listing>>
    BY <1>3 DEF Chime, NameEra, MomentPasses
  <2>2. BellTypes'
    <3>1. /\ moment \in Nat /\ receipts \in Seq(Nat) /\ marking \in [Clerks -> Nat]
          /\ \A i \in DOMAIN receipts : receipts[i] <= moment
          /\ \A c \in Clerks : marking[c] <= moment
          /\ eras \subseteq Nat /\ minors \subseteq Nat /\ \A e \in eras \cup minors : e <= moment
      BY <1>0 DEF BellTypes
    <3>2. /\ moment' \in Nat
          /\ \A i \in DOMAIN receipts : receipts[i] <= moment + 1
          /\ \A c \in Clerks : marking[c] <= moment + 1
          /\ \A e \in eras \cup minors : e <= moment + 1
      BY <2>1, <3>1
    <3>3. eras' \subseteq Nat /\ minors' \subseteq Nat /\ chimes' \subseteq Nat
      BY <1>0, <2>1, <3>2 DEF BellTypes
    <3>4. \A e \in eras' \cup minors' : e <= moment'
      BY <2>1, <3>1, <3>2
    <3> QED
      BY <1>0, <2>1, <3>2, <3>3, <3>4 DEF BellTypes
  <2> QED
    BY <2>1, <2>2, ArrivalsKeepListings
<1>6. CASE ChimesFade
  <2>1. chimes' \subseteq chimes /\ UNCHANGED <<petitions, verdicts, eras, minors, receipts, marking, listing, moment>>
    BY <1>6 DEF ChimesFade
  <2>2. BellTypes'
    BY <1>0, <2>1 DEF BellTypes
  <2> QED
    BY <2>1, <2>2, ArrivalsKeepListings
<1>4. ASSUME NEW c \in Clerks, MarkRead(c) PROVE BellInv'
  <2>1. /\ moment' = moment + 1 /\ marking' = [marking EXCEPT ![c] = moment']
        /\ UNCHANGED <<petitions, verdicts, eras, minors, chimes, receipts, listing>>
    BY <1>4 DEF MarkRead, MomentPasses
  <2>2. BellTypes'
    <3>1. /\ moment \in Nat /\ receipts \in Seq(Nat) /\ marking \in [Clerks -> Nat]
          /\ \A i \in DOMAIN receipts : receipts[i] <= moment
          /\ \A k \in Clerks : marking[k] <= moment
          /\ eras \subseteq Nat /\ minors \subseteq Nat /\ \A e \in eras \cup minors : e <= moment
      BY <1>0 DEF BellTypes
    <3>2. /\ moment' \in Nat /\ marking' \in [Clerks -> Nat]
          /\ \A i \in DOMAIN receipts : receipts[i] <= moment + 1
          /\ \A k \in Clerks : marking'[k] <= moment + 1
          /\ \A e \in eras \cup minors : e <= moment + 1
      BY <2>1, <3>1
    <3> QED
      BY <1>0, <2>1, <3>2 DEF BellTypes
  <2> QED
    BY <2>1, <2>2, ArrivalsKeepListings
<1>5. ASSUME NEW c \in Clerks, NEW ok \in BOOLEAN, WriteViewedAt(c, ok) PROVE BellInv'
  <2>1. /\ receipts' \in {receipts, Append(receipts, marking[c])} /\ marking' = [marking EXCEPT ![c] = 0]
        /\ UNCHANGED <<petitions, verdicts, eras, minors, chimes, moment, listing>>
    BY <1>5 DEF WriteViewedAt
  <2>2. /\ receipts \in Seq(Nat) /\ marking \in [Clerks -> Nat] /\ marking[c] \in Nat /\ marking[c] <= moment /\ moment \in Nat
        /\ \A i \in DOMAIN receipts : receipts[i] <= moment
        /\ \A k \in Clerks : marking[k] <= moment
    BY <1>0 DEF BellTypes
  <2>3. /\ receipts' \in Seq(Nat) /\ \A i \in DOMAIN receipts : i \in DOMAIN receipts' /\ receipts'[i] = receipts[i]
        /\ \A i \in DOMAIN receipts' : receipts'[i] <= moment
    <3>1. PICK t : t = receipts'
      OBVIOUS
    <3>2. CASE t = receipts
      BY <2>2, <3>1, <3>2
    <3>3. CASE t = Append(receipts, marking[c])
      <4>1. /\ t \in Seq(Nat) /\ \A i \in DOMAIN receipts : i \in DOMAIN t /\ t[i] = receipts[i]
            /\ \A i \in DOMAIN t : i \in DOMAIN receipts \/ t[i] = marking[c]
        BY <2>2, <3>3, OneMore
      <4> QED
        BY <2>2, <3>1, <4>1
    <3> QED
      BY <2>1, <3>1, <3>2, <3>3
  <2>4. marking' \in [Clerks -> Nat] /\ \A k \in Clerks : marking'[k] <= moment
    BY <2>1, <2>2
  <2>5. BellTypes'
    BY <1>0, <2>1, <2>3, <2>4 DEF BellTypes
  <2> QED
    BY <2>1, <2>3, <2>5, ArrivalsKeepListings
<1> QED
  BY <1>1, <1>2, <1>3, <1>4, <1>5, <1>6

\* A step of a listing, of which only the listing changes.
LEMMA ListingsAreKept ==
  ASSUME BellInv, UNCHANGED Unlisted, listing' \in AListing,
         SinceIsOld', PleasAreAsked', PendingWaited', NewsIsSeen', ViewIsRecent'
  PROVE  BellInv'
BY DEF BellInv, BellTypes, Unlisted

LEMMA ListingBegins ==
  ASSUME BellInv, ListAlerts
  PROVE  BellInv'
<1>0. /\ petitions \in Seq(Plea) /\ verdicts \subseteq Plea /\ chimes \subseteq Nat /\ eras \subseteq Nat /\ BellTypes
  BY DEF BellInv, BellTypes
<1>1. UNCHANGED Unlisted /\ UNCHANGED <<petitions, verdicts, receipts, eras, minors>> /\ GreatestRead' = GreatestRead /\ GreatestRead \in Nat
  BY <1>0, LastIsGreatest DEF ListAlerts, Unlisted, GreatestRead
<1>2. /\ listing'.pc = "receipt" /\ listing'.unread = chimes /\ listing'.pending = {} /\ listing'.failed = FALSE
      /\ listing'.since.drafted = ToSet(petitions) /\ listing'.since.decided = verdicts
      /\ listing'.since.happened = chimes \cup eras /\ listing'.since.read = GreatestRead
  BY DEF ListAlerts, NoListing, GreatestRead
<1>3. listing' \in AListing
  <2>1. ToSet(petitions) \subseteq Plea
    BY <1>0 DEF ToSet
  <2>2. [drafted |-> ToSet(petitions), decided |-> verdicts, happened |-> chimes \cup eras, read |-> GreatestRead] \in Since
    BY <1>0, <1>1, <2>1 DEF Since
  <2>3. listing' = [pc |-> "receipt", since |-> [drafted |-> ToSet(petitions), decided |-> verdicts, happened |-> chimes \cup eras, read |-> GreatestRead],
           viewed |-> 0, todo |-> {}, crowded |-> {}, pending |-> {}, unread |-> chimes, failed |-> FALSE]
    BY DEF ListAlerts, NoListing, GreatestRead
  <2> QED
    BY <1>0, <2>2, <2>3 DEF AListing, ListingPcs
<1>4. SinceIsOld' /\ PleasAreAsked' /\ PendingWaited' /\ NewsIsSeen' /\ ViewIsRecent'
  BY <1>1, <1>2 DEF SinceIsOld, PleasAreAsked, PendingWaited, NewsIsSeen, ViewIsRecent
<1> QED
  BY <1>1, <1>3, <1>4, ListingsAreKept

LEMMA ListingsAreTyped ==
  ASSUME BellInv
  PROVE  /\ listing \in AListing /\ listing.pc \in ListingPcs /\ listing.since \in Since /\ listing.viewed \in Nat
         /\ listing.todo \subseteq Nat /\ listing.crowded \subseteq Plea /\ listing.pending \subseteq Plea
         /\ listing.unread \subseteq Nat /\ listing.failed \in BOOLEAN /\ listing.since.read \in Nat
         /\ listing.since.happened \subseteq Nat
BY DEF BellInv, BellTypes, AListing, Since

LEMMA ReceiptIsRead ==
  ASSUME BellInv, NEW ok \in BOOLEAN, ReadReceipt(ok)
  PROVE  BellInv'
<1>0. BellTypes
  BY DEF BellInv
<1>1. /\ UNCHANGED Unlisted /\ UNCHANGED <<petitions, verdicts, receipts, eras, minors>> /\ GreatestRead' = GreatestRead /\ (Crossed' <=> Crossed)
      /\ listing.pc = "receipt"
  BY DEF ReadReceipt, Unlisted, GreatestRead, Crossed
<1>2. PICK v : v = IF ok THEN LatestViewedAt ELSE 0
  OBVIOUS
<1>3. /\ GreatestRead \in Nat /\ v \in Nat /\ v <= GreatestRead /\ (ok /\ ~Crossed => v = GreatestRead)
  BY <1>0, <1>2, LastIsGreatest
<1>4. listing' = [listing EXCEPT !.pc = "drafts", !.viewed = v, !.failed = ~ok, !.unread = {c \in listing.unread : c > v}]
  BY <1>2 DEF ReadReceipt
<1>5. /\ listing' \in AListing /\ listing'.pc = "drafts" /\ listing'.viewed = v /\ (listing'.failed <=> ~ok)
      /\ listing'.unread = {c \in listing.unread : c > v} /\ listing'.since = listing.since /\ listing'.pending = listing.pending
  <2>1. PICK b \in BOOLEAN : b = ~ok
    OBVIOUS
  <2>2. PICK u \in SUBSET Nat : u = {c \in listing.unread : c > v}
    BY ListingsAreTyped
  <2>3. listing' = [listing EXCEPT !.pc = "drafts", !.viewed = v, !.failed = b, !.unread = u]
    BY <1>4, <2>1, <2>2
  <2>4. /\ listing' \in AListing /\ listing'.pc = "drafts" /\ listing'.viewed = v /\ listing'.failed = b
        /\ listing'.unread = u /\ listing'.since = listing.since /\ listing'.pending = listing.pending
    BY ONLY <1>3, <2>3, ListingsAreTyped, BellInv, b \in BOOLEAN, u \in SUBSET Nat DEF AListing, ListingPcs
  <2> QED
    BY <2>1, <2>2, <2>4
<1>6. SinceIsOld' /\ PleasAreAsked'
  BY <1>1, <1>5 DEF BellInv, SinceIsOld, PleasAreAsked
<1>7. PendingWaited'
  <2>1. listing.pending = {}
    BY <1>1 DEF BellInv, PendingWaited
  <2> QED
    BY <1>5, <2>1 DEF PendingWaited
<1>8. NewsIsSeen'
  BY <1>1, <1>3, <1>5, ListingsAreTyped DEF BellInv, NewsIsSeen
<1>9. ViewIsRecent'
  BY <1>1, <1>3, <1>5, ListingsAreTyped DEF BellInv, ViewIsRecent, SinceIsOld
<1> QED
  BY <1>1, <1>5, <1>6, <1>7, <1>8, <1>9, ListingsAreKept

LEMMA DraftsAreRead ==
  ASSUME BellInv, NEW ok \in BOOLEAN, ReadDrafts(ok)
  PROVE  BellInv'
<1>1. /\ UNCHANGED Unlisted /\ UNCHANGED <<petitions, verdicts, receipts, eras, minors>> /\ GreatestRead' = GreatestRead /\ (Crossed' <=> Crossed)
      /\ listing.pc = "drafts"
  BY DEF ReadDrafts, Unlisted, GreatestRead, Crossed
<1>2. PICK todo \in SUBSET Nat : todo = IF ok THEN {i \in NewestPleas : petitions[i] \in Pleas} ELSE {}
  <2>1. NewestPleas \subseteq Nat
    BY DEF BellInv, BellTypes, NewestPleas
  <2> QED
    BY <2>1
<1>3. PICK crowded \in SUBSET Plea : crowded = ToSet(petitions) \ {petitions[i] : i \in NewestPleas}
  <2>1. ToSet(petitions) \subseteq Plea
    BY DEF BellInv, BellTypes, ToSet
  <2> QED
    BY <2>1
<1>4. PICK b \in BOOLEAN : b = (listing.failed \/ ~ok)
  OBVIOUS
<1>5. listing' = [listing EXCEPT !.pc = "decisions", !.failed = b, !.todo = todo, !.crowded = crowded]
  BY <1>2, <1>3, <1>4 DEF ReadDrafts
<1>6. /\ listing' \in AListing /\ listing'.pc = "decisions" /\ listing'.viewed = listing.viewed /\ listing'.failed = b
      /\ listing'.unread = listing.unread /\ listing'.since = listing.since /\ listing'.pending = listing.pending
      /\ listing'.todo = todo /\ listing'.crowded = crowded
  BY <1>5, ListingsAreTyped DEF AListing, ListingPcs
<1>7. SinceIsOld'
  BY <1>1, <1>6 DEF BellInv, SinceIsOld
<1>8. PleasAreAsked'
  <2>1. todo \subseteq DOMAIN petitions
    BY <1>2 DEF NewestPleas
  <2>2. ASSUME ok, NEW p \in ToSet(petitions) \cap Pleas, p \notin crowded PROVE p \in {petitions[i] : i \in todo}
    <3>1. PICK i \in NewestPleas : p = petitions[i]
      BY <1>3, <2>2
    <3> QED
      BY <1>2, <2>2, <3>1
  <2>3. listing.since.drafted \subseteq ToSet(petitions)
    BY <1>1 DEF BellInv, SinceIsOld
  <2>4. ~b => ok
    BY <1>4
  <2> QED
    BY <1>1, <1>6, <2>1, <2>2, <2>3, <2>4 DEF PleasAreAsked
<1>9. PendingWaited'
  BY <1>1, <1>6 DEF BellInv, PendingWaited
<1>10. NewsIsSeen'
  BY <1>1, <1>6 DEF BellInv, NewsIsSeen
<1>11. ViewIsRecent'
  BY <1>1, <1>4, <1>6 DEF BellInv, ViewIsRecent
<1> QED
  BY <1>1, <1>6, <1>7, <1>8, <1>9, <1>10, <1>11, ListingsAreKept

LEMMA DecisionsAreAsked ==
  ASSUME BellInv, NEW ok \in BOOLEAN, AskDecision(ok)
  PROVE  BellInv'
<1>0. PICK i \in listing.todo :
        /\ AskNext(i) /\ BellWorks(ok)
        /\ listing' = [listing EXCEPT
             !.todo = @ \ {i}, !.failed = @ \/ ~ok,
             !.pending = IF ok /\ petitions[i] \in verdicts THEN @ ELSE @ \cup {petitions[i]}]
        /\ UNCHANGED Unlisted
  BY Zenon DEF AskDecision
<1>1. /\ UNCHANGED <<petitions, verdicts, receipts, eras, minors>> /\ GreatestRead' = GreatestRead /\ (Crossed' <=> Crossed)
      /\ listing.pc = "decisions" /\ i \in DOMAIN petitions /\ petitions[i] \in Plea
  BY <1>0 DEF AskNext, Unlisted, GreatestRead, Crossed, BellInv, PleasAreAsked, BellTypes
<1>2. PICK b \in BOOLEAN : b = (listing.failed \/ ~ok)
  OBVIOUS
<1>3. PICK todo \in SUBSET Nat : todo = listing.todo \ {i}
  BY ListingsAreTyped
<1>4. PICK pending \in SUBSET Plea : pending = IF ok /\ petitions[i] \in verdicts THEN listing.pending ELSE listing.pending \cup {petitions[i]}
  BY <1>1, ListingsAreTyped
<1>5. listing' = [listing EXCEPT !.todo = todo, !.failed = b, !.pending = pending]
  BY <1>0, <1>2, <1>3, <1>4, ListingsAreTyped DEF AListing
<1>6. /\ listing' \in AListing /\ listing'.pc = "decisions" /\ listing'.viewed = listing.viewed /\ listing'.failed = b
      /\ listing'.unread = listing.unread /\ listing'.since = listing.since /\ listing'.pending = pending
      /\ listing'.todo = todo /\ listing'.crowded = listing.crowded
  BY <1>1, <1>5, ListingsAreTyped DEF AListing, ListingPcs
<1>7. SinceIsOld'
  BY <1>1, <1>6 DEF BellInv, SinceIsOld
<1>8. PleasAreAsked'
  <2>1. \A p \in {petitions[j] : j \in listing.todo} : p = petitions[i] \/ p \in {petitions[j] : j \in todo}
    BY <1>3
  <2>2. listing.pending \subseteq pending /\ (petitions[i] \in pending \/ petitions[i] \in verdicts)
    BY <1>4
  <2>3. /\ listing.todo \subseteq DOMAIN petitions
        /\ ~listing.failed => (listing.since.drafted \cap Pleas) \ (verdicts \cup listing.crowded)
                                \subseteq listing.pending \cup {petitions[j] : j \in listing.todo}
    BY <1>1 DEF BellInv, PleasAreAsked
  <2>4. ~b => (listing.since.drafted \cap Pleas) \ (verdicts \cup listing.crowded)
                \subseteq pending \cup {petitions[j] : j \in todo}
    BY <1>2, <2>1, <2>2, <2>3
  <2>5. todo \subseteq DOMAIN petitions
    BY <1>3, <2>3
  <2> QED
    BY <1>1, <1>6, <2>4, <2>5 DEF PleasAreAsked
<1>9. PendingWaited'
  <2>1. ~b => listing.since.decided \subseteq verdicts /\ ~listing.failed /\ (petitions[i] \in verdicts => pending = listing.pending)
    BY <1>1, <1>2, <1>4 DEF BellInv, SinceIsOld
  <2> QED
    BY <1>4, <1>6, <2>1 DEF BellInv, PendingWaited
<1>10. NewsIsSeen'
  BY <1>1, <1>6 DEF BellInv, NewsIsSeen
<1>11. ViewIsRecent'
  BY <1>1, <1>2, <1>6 DEF BellInv, ViewIsRecent
<1> QED
  BY <1>0, <1>6, <1>7, <1>8, <1>9, <1>10, <1>11, ListingsAreKept

LEMMA ErasAreRead ==
  ASSUME BellInv, NEW ok \in BOOLEAN, ReadEras(ok)
  PROVE  BellInv'
<1>1. /\ UNCHANGED Unlisted /\ UNCHANGED <<petitions, verdicts, receipts, eras, minors>> /\ GreatestRead' = GreatestRead /\ (Crossed' <=> Crossed)
      /\ listing.pc = "decisions" /\ listing.todo = {}
  BY DEF ReadEras, Unlisted, GreatestRead, Crossed
<1>2. PICK b \in BOOLEAN : b = (listing.failed \/ ~ok)
  OBVIOUS
<1>3. PICK unread \in SUBSET Nat : unread = listing.unread \cup (IF ok THEN {e \in NewestEras : e > listing.viewed} ELSE {})
  BY ListingsAreTyped DEF BellInv, BellTypes, NewestEras
<1>4. listing' = [listing EXCEPT !.pc = "answer", !.failed = b, !.unread = unread]
  BY <1>2, <1>3, ListingsAreTyped DEF ReadEras, AListing
<1>5. /\ listing' \in AListing /\ listing'.pc = "answer" /\ listing'.viewed = listing.viewed /\ listing'.failed = b
      /\ listing'.unread = unread /\ listing'.since = listing.since /\ listing'.pending = listing.pending
      /\ listing'.todo = {} /\ listing'.crowded = listing.crowded
  BY <1>1, <1>4, ListingsAreTyped DEF AListing, ListingPcs
<1>6. SinceIsOld' /\ PleasAreAsked' /\ PendingWaited'
  BY <1>1, <1>2, <1>5 DEF BellInv, SinceIsOld, PleasAreAsked, PendingWaited
<1>7. NewsIsSeen'
  <2>1. ~b => ok
    BY <1>2
  <2>2. eras \subseteq NewestEras \cup OutrunEras /\ OutrunEras' = OutrunEras
    BY <1>1 DEF OutrunEras, NewestEras
  <2> QED
    BY <1>1, <1>3, <1>5, <2>1, <2>2 DEF BellInv, NewsIsSeen
<1>8. ViewIsRecent'
  BY <1>1, <1>2, <1>3, <1>5 DEF BellInv, ViewIsRecent
<1> QED
  BY <1>1, <1>5, <1>6, <1>7, <1>8, ListingsAreKept

LEMMA ListingEnds ==
  ASSUME BellInv, BellAnswered
  PROVE  BellInv'
<1>1. UNCHANGED Unlisted /\ listing' = NoListing
  BY DEF BellAnswered
<1>2. SinceIsOld' /\ PleasAreAsked' /\ PendingWaited' /\ NewsIsSeen' /\ ViewIsRecent'
  BY <1>1, NoListingIsTyped DEF SinceIsOld, PleasAreAsked, PendingWaited, NewsIsSeen, ViewIsRecent
<1> QED
  BY <1>1, <1>2, NoListingIsTyped, ListingsAreKept

LEMMA BellStep == BellInv /\ [BellNext]_bellVars => BellInv'
<1> SUFFICES ASSUME BellInv, [BellNext]_bellVars PROVE BellInv'
  OBVIOUS
<1>1. CASE UNCHANGED bellVars
  <2>1. UNCHANGED <<petitions, verdicts, chimes, eras, minors, receipts, marking, listing, moment>>
    BY <1>1 DEF bellVars
  <2>2. BellTypes'
    BY <2>1 DEF BellInv, BellTypes
  <2> QED
    BY <2>1, <2>2, ArrivalsKeepListings
<1> QED
  BY <1>1, ArrivalsAreKept, ListingBegins, ReceiptIsRead, DraftsAreRead, DecisionsAreAsked, ErasAreRead, ListingEnds DEF BellNext, Plea

\* The bell lists what waits, not what was decided, and what came after the last mark
\* as read and is not out of its query, for any number of proposals, cards, provenance,
\* marks and failed queries: list_alerts()
\* asks for all of it in four queries while they arrive.
THEOREM WhatWaitsIsListed == BellSpec => [](PendingIsListed /\ UnreadIsListed)
<1>1. BellInv => PendingIsListed
  BY DEF BellInv, SinceIsOld, PleasAreAsked, PendingWaited, PendingIsListed, BellAnswers
<1>2. BellInv => UnreadIsListed
  <2> SUFFICES ASSUME BellInv, BellAnswers, ~Crossed PROVE /\ \A u \in listing.unread : u > listing.since.read
                                                         /\ \A h \in listing.since.happened : h > GreatestRead => h \in listing.unread \cup OutrunEras
    BY DEF UnreadIsListed, GreatestRead, OutrunEras
  <2>1. GreatestRead \in Nat
    BY LastIsGreatest DEF BellInv
  <2>2. listing.since.read <= listing.viewed /\ listing.viewed <= GreatestRead /\ \A u \in listing.unread : u > listing.viewed
    BY DEF BellInv, ViewIsRecent, BellAnswers
  <2>3. \A h \in listing.since.happened : h > listing.viewed => h \in listing.unread \cup OutrunEras
    BY DEF BellInv, NewsIsSeen, BellAnswers
  <2> QED
    BY <2>1, <2>2, <2>3, ListingsAreTyped
<1> QED
  BY <1>1, <1>2, BellStarts, BellStep, PTL DEF BellSpec

-----------------------------------------------------------------------------
(* Introductions.                                                            *)
Intro == [who : Strangers, at : Nat, gone : BOOLEAN]
ATomb == [of : Nat, by : Hosts, outcome : {"accepted", "rejected"}, clean : BOOLEAN, at : Nat, gone : BOOLEAN]
ADecision == [pc : {"idle", "profile", "reads", "handle", "tomb"}, of : Nat, name : Names \cup {"none"}, clean : BOOLEAN]
ALook == [pc : {"idle", "tombs", "shown"}, rows : SUBSET Nat, shown : SUBSET Nat, closed : SUBSET Nat, opened : SUBSET Nat]
IntrosTypes ==
  /\ intros \in Seq(Intro) /\ tombs \in Seq(ATomb) /\ \A t \in DOMAIN tombs : tombs[t].of \in DOMAIN intros
  /\ registry \in [Names -> {"unknown", "bare", "full"}] /\ bound \in [Strangers -> Names \cup {"none"}]
  /\ deciding \in [Hosts -> ADecision] /\ day \in Nat /\ look \in ALook

\* An acceptance under way has made its slug known, and one that is clean so far has a
\* bound handle by the time of its tombstone.
AcceptancesAreNamed ==
  \A d \in Hosts : deciding[d].pc # "idle" =>
    /\ deciding[d].of \in DOMAIN intros /\ deciding[d].name \in Names /\ registry[deciding[d].name] # "unknown"
    /\ deciding[d].pc = "tomb" /\ deciding[d].clean => bound[intros[deciding[d].of].who] # "none"
BoundAreKnown == \A w \in Strangers : bound[w] # "none" => registry[bound[w]] # "unknown"

\* What was resolved when a listing began still is, and the listing has read all that is
\* open or does not say so.
LookIsTrue ==
  look.pc = "tombs" => /\ look.closed \subseteq Closed /\ look.opened \in {{}, look.rows} /\ look.shown = {}
                       /\ IsFiniteSet(look.rows)

IntrosInv ==
  /\ IntrosTypes /\ AcceptancesAreNamed /\ BoundAreKnown /\ LookIsTrue
  /\ ListedIsOpen /\ OpenIsListed /\ AcceptedIsMinted

-----------------------------------------------------------------------------
\* A query that may return all of it returns all of it.
LEMMA LatestAreAll ==
  ASSUME NEW S \in SUBSET Nat, IsFiniteSet(S), NEW n, Cardinality(S) <= n, n \in Nat
  PROVE  LatestRows(S, n) = S
<1> SUFFICES ASSUME NEW i \in S PROVE Cardinality({j \in S : j > i}) < n
  BY DEF LatestRows
<1> DEFINE T == {j \in S : j > i}
<1>1. T \subseteq S /\ i \notin T
  OBVIOUS
<1>2. T # S
  BY <1>1
<1> HIDE DEF T
<1>3. IsFiniteSet(T) /\ Cardinality(T) <= Cardinality(S) /\ Cardinality(S) # Cardinality(T)
  BY <1>1, <1>2, FS_Subset
<1>4. Cardinality(T) \in Nat /\ Cardinality(S) \in Nat
  BY <1>3, FS_CardinalityType
<1> QED
  BY <1>3, <1>4 DEF T

LEMMA LatestAreSome ==
  ASSUME NEW S, NEW n
  PROVE  LatestRows(S, n) \subseteq S
BY DEF LatestRows

LEMMA ElementsAreIn ==
  ASSUME NEW S, NEW s \in Seq(S)
  PROVE  \A i \in DOMAIN s : s[i] \in S
OBVIOUS

LEMMA FunctionsAreLists ==
  ASSUME NEW S, NEW n \in Nat, NEW f \in [1..n -> S]
  PROVE  f \in Seq(S)
OBVIOUS

LEMMA RowsAreTyped ==
  ASSUME IntrosTypes
  PROVE  /\ \A i \in DOMAIN intros : intros[i] \in Intro /\ intros[i].who \in Strangers
         /\ \A t \in DOMAIN tombs : tombs[t] \in ATomb /\ tombs[t].of \in Nat
<1>1. /\ \A i \in DOMAIN intros : intros[i] \in Intro
      /\ \A t \in DOMAIN tombs : tombs[t] \in ATomb
  BY ElementsAreIn DEF IntrosTypes
<1> QED
  BY <1>1 DEF Intro, ATomb

LEMMA RowsAreFinite ==
  ASSUME IntrosTypes, NEW life
  PROVE  /\ LiveRows(intros, life) \subseteq Nat /\ IsFiniteSet(LiveRows(intros, life))
         /\ LiveRows(tombs, life) \subseteq Nat /\ IsFiniteSet(LiveRows(tombs, life))
<1>1. \A n \in Nat : IsFiniteSet(1..n)
  BY FS_Interval
<1>2. Len(intros) \in Nat /\ Len(tombs) \in Nat /\ DOMAIN intros = 1..Len(intros) /\ DOMAIN tombs = 1..Len(tombs)
  BY DEF IntrosTypes
<1>3. LiveRows(intros, life) \subseteq 1..Len(intros) /\ LiveRows(tombs, life) \subseteq 1..Len(tombs)
  BY <1>2 DEF LiveRows
<1> QED
  BY <1>1, <1>2, <1>3, FS_Subset

LEMMA IntroductionsStart == IntroductionsInit => IntrosInv
<1> SUFFICES ASSUME IntroductionsInit PROVE IntrosInv
  OBVIOUS
<1>1. /\ intros = << >> /\ tombs = << >> /\ DOMAIN tombs = {} /\ look = NoLook /\ look.pc = "idle" /\ look.shown = {}
      /\ \A w \in Strangers : bound[w] = "none"
      /\ \A d \in Hosts : deciding[d].pc = "idle"
  BY DEF IntroductionsInit, NoDecision, NoLook
<1>2. IntrosTypes
  BY <1>1 DEF IntroductionsInit, IntrosTypes, ADecision, NoDecision, ALook, NoLook
<1> QED
  BY <1>1, <1>2 DEF IntrosInv, AcceptancesAreNamed, BoundAreKnown, LookIsTrue, ListedIsOpen, OpenIsListed, AcceptedIsMinted

\* What the rows say stays, though the reaper marks them and new ones come.
LEMMA RowsStayTrue ==
  ASSUME IntrosInv, IntrosTypes', UNCHANGED <<look, day>>,
         \A i \in DOMAIN intros : i \in DOMAIN intros' /\ intros'[i].who = intros[i].who,
         \A t \in DOMAIN tombs : t \in DOMAIN tombs' /\ tombs'[t].of = tombs[t].of /\ tombs'[t].at = tombs[t].at
                                 /\ (tombs'[t].gone => t \notin LiveRows(tombs, TombLife)),
         \A n \in Names : registry[n] # "unknown" => registry'[n] # "unknown",
         \A w \in Strangers : bound[w] # "none" => bound'[w] = bound[w],
         \A w \in Strangers : bound'[w] # bound[w] => registry'[bound'[w]] # "unknown",
         AcceptancesAreNamed',
         \A t \in DOMAIN tombs' :
           \/ t \in DOMAIN tombs /\ tombs'[t].outcome = tombs[t].outcome /\ tombs'[t].clean = tombs[t].clean
           \/ (tombs'[t].outcome = "accepted" /\ tombs'[t].clean => bound[intros[tombs'[t].of].who] # "none" /\ tombs'[t].of \in DOMAIN intros)
  PROVE  IntrosInv'
<1>0. /\ IntrosTypes /\ tombs \in Seq(ATomb) /\ bound \in [Strangers -> Names \cup {"none"}] /\ bound' \in [Strangers -> Names \cup {"none"}]
      /\ \A i \in DOMAIN intros : intros[i].who \in Strangers
      /\ \A t \in DOMAIN tombs : tombs[t].of \in DOMAIN intros
  BY RowsAreTyped DEF IntrosInv, IntrosTypes
<1>1. BoundAreKnown'
  <2> SUFFICES ASSUME NEW w \in Strangers, bound'[w] # "none" PROVE registry'[bound'[w]] # "unknown"
    BY DEF BoundAreKnown
  <2>1. CASE bound'[w] = bound[w]
    BY <1>0, <2>1 DEF IntrosInv, BoundAreKnown
  <2> QED
    BY <2>1
<1>2. Closed \subseteq Closed'
  <2>2. \A t \in LiveRows(tombs, TombLife) : t \in LiveRows(tombs, TombLife)' /\ tombs'[t].of = tombs[t].of
    BY DEF LiveRows
  <2> QED
    BY <2>2 DEF Closed
<1>3. LookIsTrue' /\ ListedIsOpen' /\ OpenIsListed'
  BY <1>2 DEF IntrosInv, LookIsTrue, ListedIsOpen, OpenIsListed
<1>4. AcceptedIsMinted'
  <2> SUFFICES ASSUME NEW t \in DOMAIN tombs', tombs'[t].outcome = "accepted", tombs'[t].clean
               PROVE  LET at == bound'[intros'[tombs'[t].of].who] IN at # "none" /\ registry'[at] # "unknown"
    BY DEF AcceptedIsMinted
  <2>1. tombs'[t].of \in DOMAIN intros /\ bound[intros[tombs'[t].of].who] # "none"
    BY <1>0 DEF IntrosInv, AcceptedIsMinted
  <2>2. intros'[tombs'[t].of].who = intros[tombs'[t].of].who /\ intros[tombs'[t].of].who \in Strangers
    BY <1>0, <2>1
  <2>3. bound'[intros'[tombs'[t].of].who] # "none"
    BY <2>1, <2>2
  <2> QED
    BY <1>1, <2>2, <2>3 DEF BoundAreKnown
<1> QED
  BY <1>1, <1>3, <1>4 DEF IntrosInv

\* The steps of one administrator leave the acceptances of the others as they are.
LEMMA DecisionsStayNamed ==
  ASSUME IntrosInv, NEW d \in Hosts, NEW r \in ADecision, deciding' = [deciding EXCEPT ![d] = r],
         UNCHANGED intros,
         \A n \in Names : registry[n] # "unknown" => registry'[n] # "unknown",
         \A w \in Strangers : bound[w] # "none" => bound'[w] = bound[w],
         r.pc # "idle" => r.of \in DOMAIN intros /\ r.name \in Names /\ registry'[r.name] # "unknown",
         r.pc = "tomb" /\ r.clean => bound'[intros[r.of].who] # "none"
  PROVE  AcceptancesAreNamed' /\ deciding' \in [Hosts -> ADecision]
<1>1. /\ deciding \in [Hosts -> ADecision] /\ \A i \in DOMAIN intros : intros[i].who \in Strangers
  BY RowsAreTyped DEF IntrosInv, IntrosTypes
<1>2. deciding' \in [Hosts -> ADecision] /\ \A e \in Hosts : deciding'[e] = IF e = d THEN r ELSE deciding[e]
  BY <1>1
<1>3. ASSUME NEW e \in Hosts, deciding'[e].pc # "idle"
      PROVE  /\ deciding'[e].of \in DOMAIN intros /\ deciding'[e].name \in Names /\ registry'[deciding'[e].name] # "unknown"
             /\ deciding'[e].pc = "tomb" /\ deciding'[e].clean => bound'[intros[deciding'[e].of].who] # "none"
  <2>1. CASE e = d
    BY <1>2, <1>3, <2>1
  <2>2. CASE e # d
    <3>1. deciding'[e] = deciding[e]
      BY <1>2, <2>2
    <3>2. /\ deciding[e].of \in DOMAIN intros /\ deciding[e].name \in Names /\ registry[deciding[e].name] # "unknown"
          /\ deciding[e].pc = "tomb" /\ deciding[e].clean => bound[intros[deciding[e].of].who] # "none"
      BY <1>3, <3>1 DEF IntrosInv, AcceptancesAreNamed
    <3> QED
      BY <1>1, <3>1, <3>2
  <2> QED
    BY <2>1, <2>2
<1> QED
  BY <1>2, <1>3 DEF AcceptancesAreNamed

\* Calls of an acceptance that write no tombstone.
LEMMA CallsStayTrue ==
  ASSUME IntrosInv, AcceptancesAreNamed', deciding' \in [Hosts -> ADecision], UNCHANGED <<intros, tombs, look, day>>,
         registry' \in [Names -> {"unknown", "bare", "full"}], bound' \in [Strangers -> Names \cup {"none"}],
         \A n \in Names : registry[n] # "unknown" => registry'[n] # "unknown",
         \A w \in Strangers : bound[w] # "none" => bound'[w] = bound[w],
         \A w \in Strangers : bound'[w] # bound[w] => registry'[bound'[w]] # "unknown"
  PROVE  IntrosInv'
<1>1. IntrosTypes'
  BY DEF IntrosInv, IntrosTypes
<1>2. \A t \in DOMAIN tombs : tombs'[t].gone => t \notin LiveRows(tombs, TombLife)
  BY DEF LiveRows
<1> QED
  BY <1>1, <1>2, RowsStayTrue

LEMMA ProposingIsKept ==
  ASSUME IntrosInv, NEW who \in Strangers, Propose(who)
  PROVE  IntrosInv'
<1>1. /\ UNCHANGED <<tombs, registry, bound, deciding, look, day>>
      /\ intros' = Append(intros, [who |-> who, at |-> day, gone |-> FALSE])
  BY DEF Propose
<1>2. [who |-> who, at |-> day, gone |-> FALSE] \in Intro /\ intros \in Seq(Intro)
  BY DEF IntrosInv, IntrosTypes, Intro
<1>3. intros' \in Seq(Intro) /\ \A i \in DOMAIN intros : i \in DOMAIN intros' /\ intros'[i] = intros[i]
  BY <1>1, <1>2
<1>4. IntrosTypes'
  BY <1>1, <1>3 DEF IntrosInv, IntrosTypes
<1>5. AcceptancesAreNamed'
  BY <1>1, <1>3 DEF IntrosInv, AcceptancesAreNamed
<1>6. \A t \in DOMAIN tombs : tombs'[t].gone => t \notin LiveRows(tombs, TombLife)
  BY <1>1 DEF LiveRows
<1> QED
  BY <1>1, <1>3, <1>4, <1>5, <1>6, RowsStayTrue

LEMMA AcceptingIsKept ==
  ASSUME IntrosInv, NEW d \in Hosts, NEW i \in DOMAIN intros, NEW name \in Names, NEW ok \in BOOLEAN, Accept(d, i, name, ok)
  PROVE  IntrosInv'
<1>1. UNCHANGED <<intros, tombs, bound, look, day>>
  BY DEF Accept
<1>2. registry \in [Names -> {"unknown", "bare", "full"}] /\ bound \in [Strangers -> Names \cup {"none"}] /\ intros \in Seq(Intro)
      /\ deciding \in [Hosts -> ADecision]
  BY DEF IntrosInv, IntrosTypes
<1>3. CASE ok
  <2>1. /\ registry' = [registry EXCEPT ![name] = "bare"]
        /\ deciding' = [deciding EXCEPT ![d] = [NoDecision EXCEPT !.pc = "profile", !.of = i, !.name = name]]
    BY <1>3 DEF Accept
  <2>2. PICK r : r = [NoDecision EXCEPT !.pc = "profile", !.of = i, !.name = name]
    OBVIOUS
  <2>3. r \in ADecision /\ r.pc = "profile" /\ r.of = i /\ r.name = name
    <3>1. NoDecision \in ADecision /\ i \in Nat
      BY <1>2 DEF NoDecision, ADecision
    <3> QED
      BY <2>2, <3>1 DEF ADecision
  <2>4. deciding' = [deciding EXCEPT ![d] = r]
    BY <2>1, <2>2
  <2>5. /\ registry' \in [Names -> {"unknown", "bare", "full"}] /\ registry'[name] # "unknown"
        /\ \A n \in Names : registry[n] # "unknown" => registry'[n] # "unknown"
    BY <1>2, <2>1
  <2>6. AcceptancesAreNamed' /\ deciding' \in [Hosts -> ADecision]
    BY <1>1, <2>3, <2>4, <2>5, DecisionsStayNamed
  <2> QED
    BY <1>1, <1>2, <2>5, <2>6, CallsStayTrue
<1>4. CASE ~ok
  <2>1. UNCHANGED <<registry, deciding>>
    BY <1>4 DEF Accept
  <2>2. AcceptancesAreNamed'
    BY <1>1, <2>1 DEF IntrosInv, AcceptancesAreNamed
  <2> QED
    BY <1>1, <1>2, <2>1, <2>2, CallsStayTrue
<1> QED
  BY <1>3, <1>4

\* One acceptance, as it is known before each of its calls.
LEMMA AcceptanceIsNamed ==
  ASSUME IntrosInv, NEW d \in Hosts, deciding[d].pc # "idle"
  PROVE  /\ deciding[d] \in ADecision /\ deciding \in [Hosts -> ADecision] /\ deciding[d].of \in DOMAIN intros /\ deciding[d].name \in Names
         /\ registry[deciding[d].name] # "unknown" /\ intros[deciding[d].of].who \in Strangers /\ deciding[d].clean \in BOOLEAN
         /\ deciding[d].pc = "tomb" /\ deciding[d].clean => bound[intros[deciding[d].of].who] # "none"
         /\ registry \in [Names -> {"unknown", "bare", "full"}] /\ bound \in [Strangers -> Names \cup {"none"}]
<1>1. deciding[d] \in ADecision /\ deciding[d].clean \in BOOLEAN
  BY DEF IntrosInv, IntrosTypes, ADecision
<1>2. /\ deciding[d].of \in DOMAIN intros /\ deciding[d].name \in Names /\ registry[deciding[d].name] # "unknown"
      /\ deciding[d].pc = "tomb" /\ deciding[d].clean => bound[intros[deciding[d].of].who] # "none"
  BY DEF IntrosInv, AcceptancesAreNamed
<1>3. intros[deciding[d].of].who \in Strangers
  BY <1>2, RowsAreTyped DEF IntrosInv
<1> QED
  BY <1>1, <1>2, <1>3 DEF IntrosInv, IntrosTypes

LEMMA ProfilesAreKept ==
  ASSUME IntrosInv, NEW d \in Hosts, NEW ok \in BOOLEAN, WriteProfile(d, ok)
  PROVE  IntrosInv'
<1>1. /\ UNCHANGED <<intros, tombs, bound, look, day>> /\ deciding[d].pc = "profile"
      /\ registry' = IF ok THEN [registry EXCEPT ![deciding[d].name] = "full"] ELSE registry
      /\ deciding' = [deciding EXCEPT ![d].pc = "reads", ![d].clean = ok]
  BY DEF WriteProfile
<1>2. /\ deciding \in [Hosts -> ADecision] /\ deciding[d].of \in DOMAIN intros /\ deciding[d].name \in Names
      /\ registry[deciding[d].name] # "unknown" /\ registry \in [Names -> {"unknown", "bare", "full"}]
      /\ bound \in [Strangers -> Names \cup {"none"}]
  BY <1>1, AcceptanceIsNamed
<1>3. PICK r : r = [deciding[d] EXCEPT !.pc = "reads", !.clean = ok]
  OBVIOUS
<1>6. r \in ADecision /\ r.pc = "reads" /\ r.of = deciding[d].of /\ r.name = deciding[d].name
  <2>1. deciding[d] \in ADecision
    BY <1>2
  <2> QED
    BY <1>3, <2>1 DEF ADecision
<1>7. deciding' = [deciding EXCEPT ![d] = r]
  BY <1>1, <1>3
<1>8. r.of \in DOMAIN intros /\ r.name \in Names /\ r.pc # "tomb"
  BY <1>2, <1>6
<1>4. /\ registry' \in [Names -> {"unknown", "bare", "full"}]
      /\ \A n \in Names : registry[n] # "unknown" => registry'[n] # "unknown"
  BY <1>1, <1>2
<1>5. AcceptancesAreNamed' /\ deciding' \in [Hosts -> ADecision]
  <2>1. registry'[r.name] # "unknown"
    BY <1>2, <1>4, <1>6
  <2>2. r.pc = "tomb" /\ r.clean => bound'[intros[r.of].who] # "none"
    BY <1>8
  <2>3. \A w \in Strangers : bound[w] # "none" => bound'[w] = bound[w]
    BY <1>1
  <2> QED
    BY <1>1, <1>4, <1>6, <1>7, <1>8, <2>1, <2>2, <2>3, DecisionsStayNamed
<1> QED
  BY <1>1, <1>2, <1>4, <1>5, CallsStayTrue

LEMMA ReadingIsKept ==
  ASSUME IntrosInv, NEW d \in Hosts, NEW ok \in BOOLEAN, ReadProposal(d, ok)
  PROVE  IntrosInv'
<1>1. PICK there \in BOOLEAN : there = (ok /\ ~intros[deciding[d].of].gone)
  OBVIOUS
<1>2. /\ UNCHANGED <<intros, tombs, registry, bound, look, day>> /\ deciding[d].pc = "reads"
      /\ deciding' = [deciding EXCEPT ![d].pc = IF there THEN "handle" ELSE "tomb", ![d].clean = @ /\ there]
  BY <1>1 DEF ReadProposal
<1>3. /\ deciding \in [Hosts -> ADecision] /\ deciding[d].of \in DOMAIN intros /\ deciding[d].name \in Names
      /\ registry[deciding[d].name] # "unknown" /\ registry \in [Names -> {"unknown", "bare", "full"}]
      /\ bound \in [Strangers -> Names \cup {"none"}] /\ deciding[d].clean \in BOOLEAN
  BY <1>2, AcceptanceIsNamed
<1>4. PICK b \in BOOLEAN : b = (deciding[d].clean /\ there)
  OBVIOUS
<1>5. PICK pc \in {"handle", "tomb"} : pc = IF there THEN "handle" ELSE "tomb"
  OBVIOUS
<1>6. deciding' = [deciding EXCEPT ![d].pc = pc, ![d].clean = b]
  BY <1>2, <1>3, <1>4, <1>5
<1>10. PICK r : r = [deciding[d] EXCEPT !.pc = pc, !.clean = b]
  OBVIOUS
<1>7. r \in ADecision /\ r.pc = pc /\ r.clean = b /\ r.of = deciding[d].of /\ r.name = deciding[d].name
  <2>1. deciding[d] \in ADecision
    BY <1>3
  <2> QED
    BY <1>10, <2>1 DEF ADecision
<1>11. deciding' = [deciding EXCEPT ![d] = r]
  BY <1>6, <1>10
<1>8. ~(r.pc = "tomb" /\ r.clean)
  BY <1>4, <1>5, <1>7
<1>9. AcceptancesAreNamed' /\ deciding' \in [Hosts -> ADecision]
  <2>1. registry'[r.name] # "unknown" /\ r.of \in DOMAIN intros /\ r.name \in Names
    BY <1>2, <1>3, <1>7
  <2>2. r.pc = "tomb" /\ r.clean => bound'[intros[r.of].who] # "none"
    BY <1>8
  <2>3. /\ \A w \in Strangers : bound[w] # "none" => bound'[w] = bound[w]
        /\ \A n \in Names : registry[n] # "unknown" => registry'[n] # "unknown"
    BY <1>2
  <2> QED
    BY <1>2, <1>7, <1>11, <2>1, <2>2, <2>3, DecisionsStayNamed
<1> QED
  BY <1>2, <1>3, <1>9, CallsStayTrue

LEMMA HandlesAreKept ==
  ASSUME IntrosInv, NEW d \in Hosts, NEW ok \in BOOLEAN, AddHandle(d, ok)
  PROVE  IntrosInv'
<1>1. PICK who : who = intros[deciding[d].of].who
  OBVIOUS
<1>2. /\ UNCHANGED <<intros, tombs, registry, look, day>> /\ deciding[d].pc = "handle"
      /\ bound' = IF ok /\ bound[who] = "none" THEN [bound EXCEPT ![who] = deciding[d].name] ELSE bound
      /\ deciding' = [deciding EXCEPT ![d].pc = "tomb", ![d].clean = @ /\ ok]
  BY <1>1 DEF AddHandle
<1>3. /\ deciding \in [Hosts -> ADecision] /\ deciding[d].of \in DOMAIN intros /\ deciding[d].name \in Names
      /\ registry[deciding[d].name] # "unknown" /\ registry \in [Names -> {"unknown", "bare", "full"}]
      /\ bound \in [Strangers -> Names \cup {"none"}] /\ deciding[d].clean \in BOOLEAN /\ who \in Strangers
  BY <1>1, <1>2, AcceptanceIsNamed
<1>4. PICK b \in BOOLEAN : b = (deciding[d].clean /\ ok)
  OBVIOUS
<1>5. deciding' = [deciding EXCEPT ![d].pc = "tomb", ![d].clean = b]
  BY <1>2, <1>3, <1>4
<1>9. PICK r : r = [deciding[d] EXCEPT !.pc = "tomb", !.clean = b]
  OBVIOUS
<1>6. r \in ADecision /\ r.pc = "tomb" /\ r.clean = b /\ r.of = deciding[d].of /\ r.name = deciding[d].name
  <2>1. deciding[d] \in ADecision
    BY <1>3
  <2> QED
    BY <1>9, <2>1 DEF ADecision
<1>10. deciding' = [deciding EXCEPT ![d] = r]
  BY <1>5, <1>9
<1>7. /\ bound' \in [Strangers -> Names \cup {"none"}]
      /\ \A w \in Strangers : bound[w] # "none" => bound'[w] = bound[w]
      /\ \A w \in Strangers : bound'[w] # bound[w] => registry[bound'[w]] # "unknown"
      /\ ok => bound'[who] # "none"
  BY <1>2, <1>3, IntroductionsBounds
<1>8. AcceptancesAreNamed' /\ deciding' \in [Hosts -> ADecision]
  <2>1. r.clean => bound'[intros[r.of].who] # "none"
    BY <1>1, <1>4, <1>6, <1>7
  <2>2. registry'[r.name] # "unknown" /\ r.of \in DOMAIN intros /\ r.name \in Names
    BY <1>2, <1>3, <1>6
  <2> QED
    BY <1>2, <1>6, <1>7, <1>10, <2>1, <2>2, DecisionsStayNamed
<1> QED
  BY <1>2, <1>3, <1>7, <1>8, CallsStayTrue

LEMMA TombsAreKept ==
  ASSUME IntrosInv, NEW t \in ATomb, tombs' \in {tombs, Append(tombs, t)}, t.of \in DOMAIN intros,
         t.outcome = "accepted" /\ t.clean => bound[intros[t.of].who] # "none",
         UNCHANGED <<intros, registry, bound, look, day>>, deciding' \in [Hosts -> ADecision], AcceptancesAreNamed'
  PROVE  IntrosInv'
<1>1. tombs \in Seq(ATomb) /\ \A i \in DOMAIN tombs : tombs[i].of \in DOMAIN intros
  BY DEF IntrosInv, IntrosTypes
<1>2. PICK ts : ts = tombs'
  OBVIOUS
<1>3. /\ ts \in Seq(ATomb) /\ \A i \in DOMAIN tombs : i \in DOMAIN ts /\ ts[i] = tombs[i]
      /\ \A i \in DOMAIN ts : (i \in DOMAIN tombs /\ ts[i] = tombs[i]) \/ ts[i] = t
  <2>1. CASE ts = tombs
    BY <1>1, <2>1
  <2>2. CASE ts = Append(tombs, t)
    <3>1. \A i \in DOMAIN ts : i \in DOMAIN tombs \/ ts[i] = t
      BY <1>1, <2>2, OneMore
    <3> QED
      BY <1>1, <2>2, <3>1, OneMore
  <2> QED
    BY <1>2, <2>1, <2>2
<1>4. IntrosTypes'
  BY <1>1, <1>2, <1>3 DEF IntrosInv, IntrosTypes
<1>5. \A i \in DOMAIN tombs : i \in DOMAIN tombs' /\ tombs'[i] = tombs[i]
  BY <1>2, <1>3
<1>6. \A i \in DOMAIN tombs : tombs'[i].gone => i \notin LiveRows(tombs, TombLife)
  BY <1>5 DEF LiveRows
<1>7. \A i \in DOMAIN tombs' : (i \in DOMAIN tombs /\ tombs'[i] = tombs[i]) \/ tombs'[i] = t
  BY <1>2, <1>3
<1> QED
  BY <1>4, <1>5, <1>6, <1>7, RowsStayTrue

LEMMA ResolvingIsKept ==
  ASSUME IntrosInv, NEW d \in Hosts, NEW ok \in BOOLEAN, WriteTomb(d, ok)
  PROVE  IntrosInv'
<1>1. /\ UNCHANGED <<intros, registry, bound, look, day>> /\ deciding[d].pc = "tomb"
      /\ tombs' \in {tombs, Append(tombs, Tomb(d, deciding[d].of, "accepted", deciding[d].clean))}
      /\ deciding' = [deciding EXCEPT ![d] = NoDecision]
  BY DEF WriteTomb
<1>2. PICK t : t = Tomb(d, deciding[d].of, "accepted", deciding[d].clean)
  OBVIOUS
<1>3. /\ deciding[d].of \in DOMAIN intros /\ deciding[d].clean \in BOOLEAN /\ day \in Nat /\ intros \in Seq(Intro)
      /\ deciding[d].clean => bound[intros[deciding[d].of].who] # "none"
  BY <1>1, AcceptanceIsNamed DEF IntrosInv, IntrosTypes
<1>4. t \in ATomb /\ t.of = deciding[d].of /\ t.clean = deciding[d].clean
  BY <1>2, <1>3 DEF Tomb, ATomb
<1>5. NoDecision \in ADecision /\ NoDecision.pc = "idle"
  BY DEF NoDecision, ADecision
<1>6. AcceptancesAreNamed' /\ deciding' \in [Hosts -> ADecision]
  BY <1>1, <1>5, DecisionsStayNamed
<1> QED
  BY <1>1, <1>2, <1>3, <1>4, <1>6, TombsAreKept

LEMMA RejectingIsKept ==
  ASSUME IntrosInv, NEW d \in Hosts, NEW i \in DOMAIN intros, NEW ok \in BOOLEAN, Reject(d, i, ok)
  PROVE  IntrosInv'
<1>1. /\ UNCHANGED <<intros, registry, bound, deciding, look, day>>
      /\ tombs' \in {tombs, Append(tombs, Tomb(d, i, "rejected", TRUE))}
  BY DEF Reject
<1>2. PICK t : t = Tomb(d, i, "rejected", TRUE)
  OBVIOUS
<1>3. day \in Nat /\ intros \in Seq(Intro) /\ deciding \in [Hosts -> ADecision]
  BY DEF IntrosInv, IntrosTypes
<1>4. t \in ATomb /\ t.of = i /\ t.outcome = "rejected"
  BY <1>2, <1>3 DEF Tomb, ATomb
<1>5. AcceptancesAreNamed'
  BY <1>1 DEF IntrosInv, AcceptancesAreNamed
<1> QED
  BY <1>1, <1>2, <1>3, <1>4, <1>5, TombsAreKept

LEMMA BuryingIsKept ==
  ASSUME IntrosInv, Bury
  PROVE  IntrosInv'
<1>1. /\ intros \in Seq(Intro) /\ tombs \in Seq(ATomb) /\ \A t \in DOMAIN tombs : tombs[t].of \in DOMAIN intros
      /\ UNCHANGED <<registry, bound, deciding, look, day>>
      /\ intros' = Buried(intros, ProposalLife) /\ tombs' = Buried(tombs, TombLife)
  BY DEF Bury, IntrosInv, IntrosTypes
<1>2. PICK is : is = intros'
  OBVIOUS
<1>3. PICK ts : ts = tombs'
  OBVIOUS
<1>4. is \in Seq(Intro) /\ DOMAIN is = DOMAIN intros /\ \A i \in DOMAIN intros : is[i].who = intros[i].who
  <2>1. ASSUME NEW i \in DOMAIN intros, NEW b \in BOOLEAN PROVE /\ [intros[i] EXCEPT !.gone = b] \in Intro
                                                               /\ [intros[i] EXCEPT !.gone = b].who = intros[i].who
    <3>1. intros[i] \in Intro
      BY <1>1, ElementsAreIn
    <3> QED
      BY <3>1 DEF Intro
  <2>2. \A i \in DOMAIN intros : is[i] \in Intro /\ is[i].who = intros[i].who
    BY <1>1, <1>2, <2>1 DEF Buried
  <2>3. DOMAIN is = 1..Len(intros) /\ is = [i \in 1..Len(intros) |-> is[i]] /\ Len(intros) \in Nat
    BY <1>1, <1>2 DEF Buried
  <2>6. DOMAIN intros = 1..Len(intros)
    BY <1>1
  <2>7. \A i \in 1..Len(intros) : is[i] \in Intro
    BY <2>2, <2>6
  <2>4. is \in [1..Len(intros) -> Intro]
    BY ONLY <2>3, <2>7
  <2>5. is \in Seq(Intro)
    BY <2>3, <2>4, FunctionsAreLists
  <2> QED
    BY <2>2, <2>3, <2>5, <2>6
<1>5. /\ ts \in Seq(ATomb) /\ DOMAIN ts = DOMAIN tombs
      /\ \A t \in DOMAIN tombs : /\ ts[t].of = tombs[t].of /\ ts[t].at = tombs[t].at /\ ts[t].outcome = tombs[t].outcome
                                  /\ ts[t].clean = tombs[t].clean /\ (ts[t].gone => t \notin LiveRows(tombs, TombLife))
  <2>1. ASSUME NEW t \in DOMAIN tombs, NEW b \in BOOLEAN
        PROVE  LET x == [tombs[t] EXCEPT !.gone = b]
               IN  /\ x \in ATomb /\ x.of = tombs[t].of /\ x.at = tombs[t].at /\ x.outcome = tombs[t].outcome
                   /\ x.clean = tombs[t].clean /\ x.gone = b
    <3>1. tombs[t] \in ATomb
      BY <1>1, ElementsAreIn
    <3> QED
      BY <3>1 DEF ATomb
  <2>2. ASSUME NEW t \in DOMAIN tombs
        PROVE  /\ ts[t] \in ATomb /\ ts[t].of = tombs[t].of /\ ts[t].at = tombs[t].at /\ ts[t].outcome = tombs[t].outcome
               /\ ts[t].clean = tombs[t].clean /\ (ts[t].gone => t \notin LiveRows(tombs, TombLife))
    <3>1. PICK b \in BOOLEAN : b = (t \notin LiveRows(tombs, TombLife))
      OBVIOUS
    <3>2. ts[t] = [tombs[t] EXCEPT !.gone = b]
      BY <1>1, <1>3, <3>1 DEF Buried
    <3> QED
      BY <2>1, <3>1, <3>2
  <2>3. DOMAIN ts = 1..Len(tombs) /\ ts = [t \in 1..Len(tombs) |-> ts[t]] /\ Len(tombs) \in Nat
    BY <1>1, <1>3 DEF Buried
  <2>6. DOMAIN tombs = 1..Len(tombs)
    BY <1>1
  <2>7. \A t \in 1..Len(tombs) : ts[t] \in ATomb
    BY <2>2, <2>6
  <2>4. ts \in [1..Len(tombs) -> ATomb]
    BY ONLY <2>3, <2>7
  <2>5. ts \in Seq(ATomb)
    BY <2>3, <2>4, FunctionsAreLists
  <2> QED
    BY <2>2, <2>3, <2>5, <2>6
<1>6. IntrosTypes'
  BY <1>1, <1>2, <1>3, <1>4, <1>5 DEF IntrosInv, IntrosTypes
<1>7. AcceptancesAreNamed'
  <2>1. DOMAIN intros' = DOMAIN intros /\ \A i \in DOMAIN intros : intros'[i].who = intros[i].who
    BY <1>2, <1>4
  <2> QED
    BY <1>1, <2>1 DEF IntrosInv, AcceptancesAreNamed
<1>8. /\ \A i \in DOMAIN intros : i \in DOMAIN intros' /\ intros'[i].who = intros[i].who
      /\ DOMAIN tombs' = DOMAIN tombs
      /\ \A t \in DOMAIN tombs : /\ tombs'[t].of = tombs[t].of /\ tombs'[t].at = tombs[t].at /\ tombs'[t].outcome = tombs[t].outcome
                                  /\ tombs'[t].clean = tombs[t].clean /\ (tombs'[t].gone => t \notin LiveRows(tombs, TombLife))
  BY <1>2, <1>3, <1>4, <1>5
<1> QED
  BY <1>1, <1>6, <1>7, <1>8, RowsStayTrue

LEMMA LookingIsKept ==
  ASSUME IntrosInv, UNCHANGED <<intros, tombs, registry, bound, deciding>>, day' \in Nat, look' \in ALook,
         LookIsTrue', ListedIsOpen', OpenIsListed'
  PROVE  IntrosInv'
<1>1. IntrosTypes' /\ AcceptancesAreNamed' /\ BoundAreKnown' /\ AcceptedIsMinted'
  BY DEF IntrosInv, IntrosTypes, AcceptancesAreNamed, BoundAreKnown, AcceptedIsMinted
<1> QED
  BY <1>1 DEF IntrosInv

LEMMA ListingIsKept ==
  ASSUME IntrosInv, ListIntros
  PROVE  IntrosInv'
<1>1. UNCHANGED <<intros, tombs, registry, bound, deciding, day>> /\ day \in Nat /\ IntrosTypes
  BY DEF ListIntros, IntrosInv, IntrosTypes
<1>2. PICK live : live = LiveRows(intros, ProposalLife)
  OBVIOUS
<1>3. live \subseteq Nat /\ IsFiniteSet(live) /\ 2 * MostListed \in Nat
  BY <1>1, <1>2, RowsAreFinite, IntroductionsBounds
<1>4. /\ look'.pc = "tombs" /\ look'.rows = LatestRows(live, 2 * MostListed) /\ look'.shown = {} /\ look'.closed = Closed
      /\ look'.opened = IF Cardinality(live) <= 2 * MostListed THEN live ELSE {}
  BY <1>2 DEF ListIntros
<1>5. Cardinality(live) <= 2 * MostListed => LatestRows(live, 2 * MostListed) = live
  BY <1>3, LatestAreAll
<1>6. IsFiniteSet(LatestRows(live, 2 * MostListed))
  BY <1>3, LatestAreSome, FS_Subset
<1>7. Closed' = Closed
  BY <1>1 DEF Closed, LiveRows
<1>9. look' \in ALook
  <2>1. Closed \subseteq Nat
    BY <1>1 DEF Closed, LiveRows, IntrosTypes, ATomb
  <2>2. LatestRows(live, 2 * MostListed) \subseteq Nat
    BY <1>3, LatestAreSome
  <2>3. PICK o \in SUBSET Nat : o = IF Cardinality(live) <= 2 * MostListed THEN live ELSE {}
    BY <1>3
  <2>4. look' = [pc |-> "tombs", rows |-> LatestRows(live, 2 * MostListed), shown |-> {}, closed |-> Closed, opened |-> o]
    BY <1>2, <2>3 DEF ListIntros
  <2> QED
    BY <2>1, <2>2, <2>3, <2>4 DEF ALook
<1>8. LookIsTrue' /\ ListedIsOpen' /\ OpenIsListed'
  BY <1>4, <1>5, <1>6, <1>7 DEF LookIsTrue, ListedIsOpen, OpenIsListed
<1> QED
  BY <1>1, <1>8, <1>9, LookingIsKept

LEMMA ShowingIsKept ==
  ASSUME IntrosInv, NEW ok \in BOOLEAN, ListTombs(ok)
  PROVE  IntrosInv'
<1>1. UNCHANGED <<intros, tombs, registry, bound, deciding, day>> /\ day \in Nat /\ IntrosTypes /\ look.pc = "tombs"
  BY DEF ListTombs, IntrosInv, IntrosTypes
<1>2. PICK live : live = LiveRows(tombs, TombLife)
  OBVIOUS
<1>3. live \subseteq Nat /\ IsFiniteSet(live) /\ 2 * MostListed \in Nat /\ MostListed \in Nat
  BY <1>1, <1>2, RowsAreFinite, IntroductionsBounds
<1>4. PICK resolved : resolved = {tombs[t].of : t \in LatestRows(live, 2 * MostListed)}
  OBVIOUS
<1>5. CASE ~ok
  <2>1. look' = NoLook
    BY <1>5 DEF ListTombs
  <2>2. LookIsTrue' /\ ListedIsOpen' /\ OpenIsListed' /\ look' \in ALook
    BY <2>1 DEF NoLook, LookIsTrue, ListedIsOpen, OpenIsListed, ALook
  <2> QED
    BY <1>1, <2>2, LookingIsKept
<1>6. CASE ok
  <2>1. PICK all \in BOOLEAN : all <=> Cardinality(live) <= 2 * MostListed
    BY Zenon
  <2>2. look' = [look EXCEPT !.pc = "shown", !.shown = LatestRows(look.rows \ resolved, MostListed),
                             !.closed = IF all THEN @ ELSE {}, !.opened = IF all THEN @ \ Closed ELSE {}]
    BY <1>2, <1>4, <1>6, <2>1 DEF ListTombs
  <2>3. /\ look'.pc = "shown" /\ look'.shown = LatestRows(look.rows \ resolved, MostListed)
        /\ look'.closed = (IF all THEN look.closed ELSE {}) /\ look'.opened = IF all THEN look.opened \ Closed ELSE {}
        /\ look' \in ALook
    <3>1. look \in ALook /\ look.rows \subseteq Nat /\ look.closed \subseteq Nat /\ look.opened \subseteq Nat
      BY <1>1 DEF IntrosTypes, ALook
    <3>2. PICK s \in SUBSET Nat : s = LatestRows(look.rows \ resolved, MostListed)
      BY <3>1, LatestAreSome
    <3>3. PICK c \in SUBSET Nat : c = IF all THEN look.closed ELSE {}
      BY <3>1
    <3>4. PICK o \in SUBSET Nat : o = IF all THEN look.opened \ Closed ELSE {}
      BY <3>1
    <3>5. look' = [look EXCEPT !.pc = "shown", !.shown = s, !.closed = c, !.opened = o]
      BY <2>2, <3>1, <3>2, <3>3, <3>4 DEF ALook
    <3>6. look' \in ALook /\ look'.pc = "shown" /\ look'.shown = s /\ look'.closed = c /\ look'.opened = o
      BY <3>1, <3>5 DEF ALook
    <3> QED
      BY <3>2, <3>3, <3>4, <3>6
  <2>4. all => resolved = Closed
    BY <1>2, <1>3, <1>4, <2>1, LatestAreAll DEF Closed
  <2>5. look.closed \subseteq Closed /\ look.opened \in {{}, look.rows} /\ IsFiniteSet(look.rows)
    BY <1>1 DEF IntrosInv, LookIsTrue
  <2>6. LookIsTrue' /\ ListedIsOpen'
    BY <2>3, <2>4, <2>5, LatestAreSome DEF LookIsTrue, ListedIsOpen
  <2>7. OpenIsListed'
    <3> SUFFICES ASSUME Cardinality(look'.opened) <= MostListed, look'.opened # {} PROVE look'.opened \subseteq look'.shown
      BY DEF OpenIsListed
    <3>1. all /\ look'.opened = look.rows \ resolved
      BY <2>3, <2>4, <2>5
    <3>3. look.rows \subseteq Nat
      BY <1>1 DEF IntrosTypes, ALook
    <3>2. look.rows \ resolved \in SUBSET Nat /\ IsFiniteSet(look.rows \ resolved)
      BY <2>5, <3>3, FS_Subset
    <3> QED
      BY <1>3, <2>3, <3>1, <3>2, LatestAreAll
  <2> QED
    BY <1>1, <2>3, <2>6, <2>7, LookingIsKept
<1> QED
  BY <1>5, <1>6

LEMMA DaysAreKept ==
  ASSUME IntrosInv, NextDay
  PROVE  IntrosInv'
<1>1. UNCHANGED <<intros, tombs, registry, bound, deciding, look>> /\ day' \in Nat /\ look.pc # "tombs" /\ look \in ALook
  BY DEF NextDay, IntrosInv, IntrosTypes
<1>2. LookIsTrue' /\ ListedIsOpen' /\ OpenIsListed'
  BY <1>1 DEF IntrosInv, LookIsTrue, ListedIsOpen, OpenIsListed
<1> QED
  BY <1>1, <1>2, LookingIsKept

LEMMA IntroductionsStep == IntrosInv /\ [IntroductionsNext]_introVars => IntrosInv'
<1> SUFFICES ASSUME IntrosInv, [IntroductionsNext]_introVars PROVE IntrosInv'
  OBVIOUS
<1>1. CASE UNCHANGED introVars
  <2>1. UNCHANGED <<intros, tombs, registry, bound, deciding, look, day>>
    BY <1>1 DEF introVars
  <2> QED
    BY <2>1 DEF IntrosInv, IntrosTypes, AcceptancesAreNamed, BoundAreKnown, LookIsTrue, Closed, LiveRows, ListedIsOpen, OpenIsListed, AcceptedIsMinted
<1> QED
  BY <1>1, ProposingIsKept, AcceptingIsKept, ProfilesAreKept, ReadingIsKept, HandlesAreKept, ResolvingIsKept, RejectingIsKept,
     BuryingIsKept, ListingIsKept, ShowingIsKept, DaysAreKept DEF IntroductionsNext

\* A listing of proposed contacts shows what is open and nothing that was resolved, and an
\* acceptance of which no call failed leaves a contact with the person's handle, for any
\* number of people, administrators, days and failed calls (accept_proposal's five calls).
THEOREM IntroductionsComeTrue == IntroductionsSpec => []IntroductionsAreTrue
<1>1. IntrosInv => IntroductionsAreTrue
  BY DEF IntrosInv, IntroductionsAreTrue
<1> QED
  BY <1>1, IntroductionsStart, IntroductionsStep, PTL DEF IntroductionsSpec

\* Both together, as the runs check them.
THEOREM AlertsStayTrue == BellSpec /\ IntroductionsSpec => []AlertsAreTrue
<1>1. (PendingIsListed /\ UnreadIsListed) /\ IntroductionsAreTrue => AlertsAreTrue
  BY DEF AlertsAreTrue
<1> QED
  BY <1>1, WhatWaitsIsListed, IntroductionsComeTrue, PTL

==============================================================================
