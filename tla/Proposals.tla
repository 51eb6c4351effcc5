----------------------------- MODULE Proposals -----------------------------
(***************************************************************************)
(* One proposal, from its draft to what is done about it.  A tool of the   *)
(* harness (api/loop/harness/tools.py) or a producer in another process    *)
(* (draft_proposal in api/routes/proposals.py) writes it, and a policy may *)
(* approve it on the spot: all provenance, and the helpers of a routine    *)
(* that says so.  Operators approve it as it is or edited, or deny it.  An *)
(* approval first does the thing - it dispatches a helper, creates a       *)
(* routine or writes a row of provenance - and then records the decision.  *)
(* Both are rows of the delta store, which drops a row that repeats the    *)
(* newest one with its tags: it looks that one up and then inserts, with   *)
(* nothing that keeps another write from coming in between.  Drafts that   *)
(* the tools refuse write nothing.                                         *)
(*                                                                         *)
(* Updates and deletions of routines are left to Routines.                 *)
(***************************************************************************)
EXTENDS Naturals, Sequences, FiniteSets

CONSTANTS
  Operators,   \* requests of operators that can be under way at once
  Drafter,     \* the task that writes the draft
  MaxClicks,   \* bound: requests of operators
  MaxMisses    \* bound: calls that fail, answers lost, restarts

VARIABLES
  kind,      \* what is proposed
  origin,    \* who drafts it: the harness for a chat or a routine, or another process
  lenient,   \* does the routine approve of its helpers, as things stand?
  drafted,   \* is the proposal in the lake?
  task,      \* what each task is doing
  effects,   \* the rows that approvals have written: FALSE as drafted, TRUE edited
  decisions, \* the rows that record decisions
  races,     \* history: how often a row passed the store's check with another on its way
  clicks,    \* requests so far (bounds the operators)
  misses     \* things gone wrong so far (bounds the environment)

proposalVars == <<kind, origin, lenient, drafted, task, effects, decisions, races, clicks, misses>>
proposed == <<kind, origin, lenient>>

Deciders == Operators \cup {Drafter}
NoTask == [pc |-> "no", edited |-> FALSE, status |-> "none", result |-> 0, lost |-> FALSE]

ProposalsInit ==
  /\ kind \in {"helper", "routine", "provenance"}
  /\ origin \in {"chat", "routine", "elsewhere"} /\ lenient \in BOOLEAN
  /\ lenient => origin = "routine" /\ kind = "helper"
  /\ drafted = FALSE /\ task = [t \in Deciders |-> NoTask]
  /\ effects = << >> /\ decisions = << >> /\ races = 0 /\ clicks = 0 /\ misses = 0

\* A call is answered; or it fails, and what it was to write may be there.
Answer(ok) == IF ok THEN UNCHANGED misses ELSE misses < MaxMisses /\ misses' = misses + 1

Goto(t, pc) == task' = [task EXCEPT ![t].pc = pc]

\* The draft is written, and echoed to the puddle.  Without an answer the
\* drafter does not know its proposal and leaves it to the operator.
Drafts(next, ok, lands) ==
  /\ ~drafted /\ task[Drafter].pc = "no"
  /\ ok => lands
  /\ Answer(ok)
  /\ drafted' = lands
  /\ task' = [task EXCEPT ![Drafter] = IF ok THEN [NoTask EXCEPT !.pc = next, !.status = IF next = "no" THEN "none" ELSE "approved"] ELSE @]
  /\ UNCHANGED <<proposed, effects, decisions, races, clicks>>

\* The tools of the harness, and the door for other processes.
ProposeProvenance(ok, lands) == kind = "provenance" /\ origin # "elsewhere" /\ Drafts("act", ok, lands)
DispatchHelper(ok, lands) ==
  /\ kind = "helper" /\ origin # "elsewhere"
  /\ Drafts(IF origin = "routine" THEN "policy" ELSE "no", ok, lands)
MintRoutine(ok, lands) == kind = "routine" /\ origin # "elsewhere" /\ Drafts("no", ok, lands)
DraftProposal(ok, lands) == origin = "elsewhere" /\ Drafts(IF kind = "provenance" THEN "act" ELSE "no", ok, lands)
Draft(ok, lands) ==
  ProposeProvenance(ok, lands) \/ DispatchHelper(ok, lands) \/ MintRoutine(ok, lands) \/ DraftProposal(ok, lands)

\* The newest spec of the routine that the fire belongs to.
AskRoutine(ok) ==
  /\ task[Drafter].pc = "policy"
  /\ Answer(ok)
  /\ task' = [task EXCEPT ![Drafter] = IF ok /\ lenient THEN [@ EXCEPT !.pc = "act"] ELSE NoTask]
  /\ UNCHANGED <<proposed, drafted, effects, decisions, races, clicks>>

\* The routine is edited, or deleted.
EditRoutine ==
  /\ kind = "helper" /\ origin = "routine"
  /\ clicks < MaxClicks /\ clicks' = clicks + 1
  /\ lenient' = ~lenient
  /\ UNCHANGED <<kind, origin, drafted, task, effects, decisions, races, misses>>

\* approve_proposal() and deny_proposal() load the proposal; neither looks for
\* a decision.  An approval may carry edited arguments.
Click(o, status, edited) ==
  /\ drafted /\ task[o].pc = "no"
  /\ clicks < MaxClicks /\ clicks' = clicks + 1
  /\ edited => status = "approved"
  /\ task' = [task EXCEPT ![o] = [NoTask EXCEPT !.edited = edited, !.status = status,
                !.pc = CASE status = "denied" -> "decide"
                         [] status = "approved" /\ kind = "routine" -> "check"
                         [] OTHER -> "act"]]
  /\ UNCHANGED <<proposed, drafted, effects, decisions, races, misses>>

\* routines.create() is refused when the routine exists, and with it the
\* approval: no decision is recorded.
Check(o) ==
  /\ task[o].pc = "check"
  /\ IF effects = << >> THEN Goto(o, "act") ELSE task' = [task EXCEPT ![o] = NoTask]
  /\ UNCHANGED <<proposed, drafted, effects, decisions, races, clicks, misses>>

\* Variant: every approval makes its row unlike all others.
RepeatsNever(row) == FALSE

\* The duplicate check of the store.  The row of a dispatch carries a fresh
\* correlation; the others repeat themselves.
RepeatsDeed(row) == kind # "helper" /\ effects # << >> /\ effects[Len(effects)] = row

\* Variant: the decision is recorded before the deed, and the deed forgotten.
ActAfter(t, ok) ==
  /\ task[t].pc = "act"
  /\ Answer(ok)
  /\ task' = IF ok THEN [task EXCEPT ![t].pc = "decide"] ELSE [task EXCEPT ![t] = NoTask]
  /\ UNCHANGED <<proposed, drafted, effects, decisions, races, clicks>>

\* Rows that have passed the check and are not in the table yet.
Inserting == {t \in Deciders : task[t].pc = "insert"}

\* The row that does it is sent to the store, which looks for the newest one like
\* it: what repeats that is answered without an id and not written.
Deed(t, ok) ==
  /\ task[t].pc = "act"
  /\ Answer(ok)
  /\ LET passes == ok /\ ~RepeatsDeed(task[t].edited)
     IN  /\ task' = CASE passes -> [task EXCEPT ![t].pc = "insert"]
                      [] ok /\ ~passes /\ ~task[t].lost -> [task EXCEPT ![t].pc = "decide"]
                      [] OTHER -> [task EXCEPT ![t] = NoTask]
         /\ races' = IF passes /\ Inserting # {} THEN races + 1 ELSE races
  /\ UNCHANGED <<proposed, drafted, effects, decisions, clicks>>

\* A dispatch takes the origin of the proposal along, and provenance the centre
\* of what it is about; both are asked for first.
ApproveHelper(t, ok) == kind = "helper" /\ Deed(t, ok)
ApproveProvenance(t, ok) == kind = "provenance" /\ Deed(t, ok)
CreateRoutine(t, ok) == kind = "routine" /\ Deed(t, ok)
Act(t, ok) == ApproveHelper(t, ok) \/ ApproveProvenance(t, ok) \/ CreateRoutine(t, ok)

\* _write_decision(): dropped if the newest row of this status, decided by the
\* same, says the same.
Decision(t) == [status |-> task[t].status, by |-> IF t = Drafter THEN "policy" ELSE "operator", result |-> task[t].result]
Known(row) ==
  LET alike == SelectSeq(decisions, LAMBDA d : d.status = row.status /\ d.by = row.by)
  IN  alike # << >> /\ alike[Len(alike)] = row

Decide(t, ok) ==
  /\ task[t].pc = "decide"
  /\ Answer(ok)
  /\ task' = IF ok /\ ~Known(Decision(t)) THEN [task EXCEPT ![t].pc = "record"] ELSE [task EXCEPT ![t] = NoTask]
  /\ UNCHANGED <<proposed, drafted, effects, decisions, races, clicks>>

\* The store inserts the row, whether or not anyone still waits for the answer.
Insert(t) ==
  \/ /\ task[t].pc = "insert"
     /\ effects' = Append(effects, task[t].edited)
     /\ task' = IF task[t].lost THEN [task EXCEPT ![t] = NoTask]
                ELSE [task EXCEPT ![t].pc = "decide", ![t].result = Len(effects')]
     /\ UNCHANGED <<proposed, drafted, decisions, races, clicks, misses>>
  \/ /\ task[t].pc = "record"
     /\ decisions' = Append(decisions, Decision(t))
     /\ task' = [task EXCEPT ![t] = NoTask]
     /\ UNCHANGED <<proposed, drafted, effects, races, clicks, misses>>

\* The call is given up, and the store goes on with it; or the store fails.
LoseAnswer(t) ==
  /\ task[t].pc \in {"act", "insert"} /\ ~task[t].lost
  /\ Answer(FALSE)
  /\ task' = [task EXCEPT ![t].lost = TRUE]
  /\ UNCHANGED <<proposed, drafted, effects, decisions, races, clicks>>

InsertFails(t) ==
  /\ task[t].pc \in {"insert", "record"}
  /\ Answer(FALSE)
  /\ task' = [task EXCEPT ![t] = NoTask]
  /\ UNCHANGED <<proposed, drafted, effects, decisions, races, clicks>>

\* The api starts again; the store may go on with the calls that it has got.
ApiRestart ==
  /\ Answer(FALSE)
  /\ \E calls \in SUBSET {t \in Deciders : task[t].pc \in {"act", "insert", "decide", "record"}} :
       task' = [t \in Deciders |-> IF t \in calls THEN [task[t] EXCEPT !.lost = TRUE] ELSE NoTask]
  /\ UNCHANGED <<proposed, drafted, effects, decisions, races, clicks>>

Operator(o) ==
  \/ \E status \in {"approved", "denied"}, edited \in BOOLEAN : Click(o, status, edited)
  \/ Check(o)
ProposalsNext ==
  \/ \E ok, lands \in BOOLEAN : Draft(ok, lands)
  \/ \E t \in Deciders : \/ \E ok \in BOOLEAN : Act(t, ok) \/ Decide(t, ok)
                        \/ Insert(t) \/ LoseAnswer(t) \/ InsertFails(t)
  \/ \E o \in Operators : Operator(o)
  \/ \E ok \in BOOLEAN : AskRoutine(ok)
  \/ EditRoutine \/ ApiRestart

ProposalsSpec == ProposalsInit /\ [][ProposalsNext]_proposalVars
-----------------------------------------------------------------------------
\* Every variable has its type, and nothing is done about what is not drafted.
ProposalsTypeOK ==
  /\ \A t \in Deciders : task[t].pc \in {"no", "policy", "check", "act", "insert", "decide", "record"} /\ task[t].edited \in BOOLEAN
                      /\ task[t].status \in {"none", "approved", "denied"} /\ task[t].result \in 0..Len(effects)
                      /\ task[t].lost \in BOOLEAN
  /\ lenient \in BOOLEAN /\ (lenient => origin = "routine")
  /\ effects \in Seq(BOOLEAN) /\ (effects # << >> => drafted) /\ (decisions # << >> => drafted)
  /\ \A i \in 1..Len(decisions) : decisions[i].status \in {"approved", "denied"} /\ decisions[i].result \in 0..Len(effects)
  /\ races \in Nat /\ clicks \in 0..MaxClicks /\ misses \in 0..MaxMisses

\* A proposal that shows as approved has been carried out, whatever failed or
\* was lost on the way and whoever else decided about it: the record never
\* runs ahead of the deed.
ApprovedIsDone ==
  (\E i \in 1..Len(decisions) : decisions[i].status = "approved") => effects # << >>

\* A routine is created and provenance written once for a proposal that nobody
\* edits, although approvals are repeated after errors, overlap, and compete
\* with the policy; each further row takes two writes that overlap in the store.
\* (A helper is dispatched once for each approval.)
DoneOnce ==
  (kind # "helper" /\ \A i \in 1..Len(effects) : ~effects[i]) => Len(effects) <= 1 + races
=============================================================================
