------------------------------- MODULE Harness -------------------------------
(***************************************************************************)
(* The agentic loop of the api: the supervisor that polls the thread       *)
(* (api/loop/threaded_supervisor.py), the fire it runs                     *)
(* (api/loop/harness/threaded.py), and the operator's stop and dismiss     *)
(* endpoints (api/loop/routes.py), all interleaving on one event loop at   *)
(* the awaits, over a lake whose writes may fail and a process that may    *)
(* be restarted.                                                           *)
(*                                                                         *)
(* Environment choices that only the outside world limits are bounded:     *)
(* user rows by MaxPosted, and everything that goes wrong (a failed lake   *)
(* call, a restart, an operator stepping in, a model turn that achieves  *)
(* nothing) by MaxFaults.                                                  *)
(***************************************************************************)
EXTENDS Thread, Integers

CONSTANTS
  MaxPosted,           \* bound: rows posted by users and the routine scheduler
  MaxFaults,           \* bound: things that go wrong
  MaxSelf,             \* bound: self-continuations the model ever asks for
  MaxRows,             \* bound: no fire starts when the log is this long
  MaxConsecutiveFires, \* MAX_CONSECUTIVE_FIRES (5 in the code)
  MaxToolTurns,        \* MAX_TOOL_TURNS (10 in the code)
  MaxChain             \* MAX_AUTO_CONTINUE_CHAIN (3 in the code)

ASSUME HarnessAssumption ==
  /\ {MaxPosted, MaxFaults, MaxSelf, MaxRows, MaxChain} \subseteq Nat
  /\ {MaxConsecutiveFires, MaxToolTurns} \subseteq Nat \ {0}
  /\ 1 \in Sizes

VARIABLES
  sup,          \* where the supervisor loop is: "poll", "decide", "await"
  seen,         \* the pending count it read at its last poll
  fires,        \* consecutive_fires
  lastPending,  \* last_pending_count
  fire,         \* the await at which the fire in flight stands, or "idle"
  window,       \* the ids of the rows in its prompt
  pending,      \* the ids it selected to answer, snapshotted at its start
  addressed,    \* the ids the model passed to mark_addressed in this fire
  turn,         \* LLM calls made
  claims,       \* addr_set: the ids the fire's reply answers
  auto,         \* were they claimed by the harness rather than the model?
  todo,         \* the ids of addr_set that still await their mark
  more,         \* respond.next_prompt is set
  stop,         \* where POST /v1/loop/stop is: "none", "read", "mark"
  stopIds,      \* the ids it still has to cover
  down,         \* the gate's verdict on the hard tier
  faults,       \* things gone wrong so far (bounds the environment)
  shown,        \* history: ids some fire had in its window
  decided,      \* history: ids covered by the model or the operator by name
  broken,       \* history: ids whose claim was cut off from its reply
  missed        \* history: ids whose covering mark failed to be written

supVars == <<sup, seen, fires, lastPending>>
fireVars == <<fire, window, pending, addressed, turn, claims, auto, todo, more>>
stopVars == <<stop, stopIds>>
history == <<shown, decided, broken, missed>>
vars == <<threadVars, supVars, fireVars, stopVars, down, faults, history>>

FireStates ==
  {"idle", "window", "llm", "tools", "claim", "reply", "continue", "error", "errorClaim"}

FlagsTypeOK == auto \in BOOLEAN /\ more \in BOOLEAN /\ down \in BOOLEAN

CountersTypeOK ==
  /\ seen \in Nat /\ fires \in Nat /\ lastPending \in Nat \cup {-1}
  /\ turn \in 0..MaxToolTurns
  /\ faults \in 0..MaxFaults

IdSetsTypeOK ==
  /\ window \subseteq Ids /\ pending \subseteq UserIds /\ addressed \subseteq UserIds
  /\ claims \subseteq UserIds /\ todo \subseteq claims
  /\ stopIds \subseteq UserIds
  /\ shown \subseteq Ids /\ decided \subseteq UserIds
  /\ broken \subseteq UserIds /\ missed \subseteq UserIds

\* A fire is in flight exactly while the supervisor awaits it.
ControlTypeOK ==
  /\ sup \in {"poll", "decide", "await"}
  /\ fire \in FireStates
  /\ stop \in {"none", "read", "mark"}
  /\ sup = "await" <=> fire # "idle"

\* Every variable has its type: in particular no mark, claim or selection names
\* a row that is not a user row of the log (rows are never deleted), and the
\* turn budget of a fire is not overrun.
TypeOK == ThreadTypeOK /\ FlagsTypeOK /\ CountersTypeOK /\ IdSetsTypeOK /\ ControlTypeOK

Init ==
  /\ ThreadInit
  /\ sup = "poll" /\ seen = 0 /\ fires = 0 /\ lastPending = -1
  /\ fire = "idle" /\ window = {} /\ pending = {} /\ addressed = {}
  /\ turn = 0 /\ claims = {} /\ auto = FALSE /\ todo = {} /\ more = FALSE
  /\ stop = "none" /\ stopIds = {}
  /\ down = FALSE
  /\ faults = 0
  /\ shown = {} /\ decided = {} /\ broken = {} /\ missed = {}

-----------------------------------------------------------------------------
(* Shared shapes of a step.                                                *)

\* Something goes wrong, and there is still some of that left.
Fault == faults < MaxFaults /\ faults' = faults + 1

\* A step that is a fault when it does not succeed.
Attempt(ok) == IF ok THEN UNCHANGED faults ELSE Fault

ResetCounters == fires' = 0 /\ lastPending' = -1

\* The locals of run_threaded_fire are gone.
FireLocalsGone ==
  /\ fire' = "idle" /\ window' = {} /\ pending' = {} /\ addressed' = {}
  /\ turn' = 0 /\ claims' = {} /\ auto' = FALSE /\ todo' = {} /\ more' = FALSE

\* What only the model's turns read is dead once they are over.
PromptLocalsDead == window' = {} /\ addressed' = {} /\ turn' = 0

\* run_threaded_fire returns (or raises) and the supervisor goes to sleep.
FireReturns ==
  /\ FireLocalsGone
  /\ sup' = "poll"
  /\ UNCHANGED <<seen, fires, lastPending>>

\* The fire is torn down where it stands: what it was claiming is cut off
\* from the reply that was to follow.
FireTornDown ==
  /\ FireLocalsGone
  /\ sup' = "poll" /\ seen' = 0
  /\ ResetCounters
  /\ broken' = broken \cup (IF fire \in {"claim", "reply"} THEN claims ELSE {})

-----------------------------------------------------------------------------
(* What arrives from outside.                                              *)

SelfIds == {i \in UserIds : thread[i].kind = "self"}
Posted == UserIds \ SelfIds

\* A surface (the composer, an OpenAI client, a watcher) or a routine fire
\* appends a user row.  An append that fails leaves nothing behind and its
\* caller goes on, so only the ones that land are steps.
Post(kind, size) ==
  /\ Cardinality(Posted) < MaxPosted
  /\ AppendRow(UserRow(kind, size, 0))
  /\ UNCHANGED <<marks, expired, supVars, fireVars, stopVars, down, faults, history>>

\* An error row's hour is over: readers no longer see it.
ErrorRowExpires(i) ==
  /\ i \in Live /\ thread[i].kind = "error"
  /\ expired' = expired \cup {i}
  /\ UNCHANGED <<thread, marks, supVars, fireVars, stopVars, down, faults, history>>

\* The gate comes up again: a heartbeat is newer than the error, or the
\* error itself expired.
GateClears ==
  /\ down
  /\ down' = FALSE
  /\ UNCHANGED <<threadVars, supVars, fireVars, stopVars, faults, history>>

\* The operator dismisses one of the messages shown as pending.
Dismiss(i) ==
  /\ i \in Pending
  /\ Fault
  /\ MarkRow(i)
  /\ decided' = decided \cup {i}
  /\ UNCHANGED <<thread, expired, supVars, fireVars, stopVars, down, shown, broken, missed>>

-----------------------------------------------------------------------------
(* The supervisor.                                                         *)

\* Wake up and read the window; an empty queue resets the counters.
Poll ==
  /\ sup = "poll"
  /\ IF Pending = {}
       THEN ResetCounters /\ seen' = 0 /\ UNCHANGED sup
       ELSE sup' = "decide" /\ seen' = Cardinality(Pending) /\ UNCHANGED <<fires, lastPending>>
  /\ UNCHANGED <<threadVars, fireVars, stopVars, down, faults, history>>

PollFails ==
  /\ sup = "poll"
  /\ Fault
  /\ fires' = 0
  /\ UNCHANGED <<threadVars, sup, seen, lastPending, fireVars, stopVars, down, history>>

\* The hard tier is down and the probe budget of the interval is spent: hold
\* the queue.  How often that is the case is LlmGate's business.
Hold ==
  /\ sup = "decide" /\ down
  /\ ResetCounters
  /\ sup' = "poll" /\ seen' = 0
  /\ UNCHANGED <<threadVars, fireVars, stopVars, down, faults, history>>

Spinning == fires >= MaxConsecutiveFires /\ seen >= lastPending /\ lastPending > 0

\* Variant: idling keeps the counters.
AntiSpinKeepsCounting ==
  /\ sup = "decide"
  /\ Spinning
  /\ sup' = "poll" /\ seen' = 0
  /\ UNCHANGED <<threadVars, fires, lastPending, fireVars, stopVars, down, faults, history>>

\* The gate is up, or this fire is the probe.  Anti-spin: the queue does not
\* shrink, so sleep and start counting again.
AntiSpin ==
  /\ sup = "decide"
  /\ Spinning
  /\ ResetCounters
  /\ sup' = "poll" /\ seen' = 0
  /\ UNCHANGED <<threadVars, fireVars, stopVars, down, faults, history>>

StartFire ==
  /\ sup = "decide"
  /\ ~Spinning
  /\ Len(thread) < MaxRows
  /\ lastPending' = seen /\ fires' = fires + 1
  /\ sup' = "await" /\ seen' = 0
  /\ fire' = "window"
  /\ UNCHANGED <<threadVars, window, pending, addressed, turn, claims, auto, todo, more,
                 stopVars, down, faults, history>>

-----------------------------------------------------------------------------
(* The fire.                                                               *)

\* Variant: messages and routine fires alike.
SelectAll(S) == S

\* _select_pending_for_fire: everything a person or a surface wrote, or else
\* the oldest routine fire alone.
Select(S) ==
  LET typed == {i \in S : thread[i].kind # "routine"}
  IN  IF typed # {} THEN typed ELSE {i \in S : \A j \in S : i <= j}

\* The fire reads its own window, within the token budget.
ReadWindow ==
  /\ fire = "window"
  /\ window' = Trimmed(RollingWindow)
  /\ pending' = Select(Unaddressed(Trimmed(RollingWindow)))
  /\ shown' = shown \cup Trimmed(RollingWindow)
  /\ fire' = "llm"
  /\ UNCHANGED <<threadVars, supVars, addressed, turn, claims, auto, todo, more,
                 stopVars, down, faults, decided, broken, missed>>

\* The read raises; the supervisor swallows it and keeps its counters.
ReadWindowFails ==
  /\ fire = "window"
  /\ Fault
  /\ FireReturns
  /\ UNCHANGED <<threadVars, stopVars, down, history>>

\* Turn n: the model answers with tool calls, which are then run in order.
ToolTurn ==
  /\ fire = "llm"
  /\ fire' = "tools" /\ turn' = turn + 1
  /\ UNCHANGED <<threadVars, supVars, window, pending, addressed, claims, auto, todo, more,
                 stopVars, down, faults, history>>

\* The call fails for good: the fire turns to reporting the error on every
\* message it selected.
LLMFails ==
  /\ fire = "llm"
  /\ fire' = "error"
  /\ claims' = pending /\ todo' = pending /\ auto' = TRUE
  /\ PromptLocalsDead
  /\ UNCHANGED <<threadVars, supVars, pending, more, stopVars, down, faults, history>>

\* The tool mark_addressed(m).  The local list grows even when the write of
\* the mark does not land.
MarkAddressed(m, ok) ==
  /\ fire = "tools"
  /\ m \in (window \cap UserIds) \ addressed
  /\ Attempt(ok)
  /\ addressed' = addressed \cup {m}
  /\ IF ok THEN MarkRow(m) /\ decided' = decided \cup {m} ELSE UNCHANGED <<marks, decided>>
  /\ UNCHANGED <<thread, expired, supVars, fire, window, pending, turn, claims, auto, todo,
                 more, stopVars, down, shown, broken, missed>>

\* Variant: the turns are not counted.
NextTurnForever ==
  /\ fire = "tools"
  /\ fire' = "llm"
  /\ UNCHANGED <<threadVars, supVars, window, pending, addressed, turn, claims, auto, todo,
                 more, stopVars, down, faults, history>>

\* A turn without respond: ask the model again, unless the turns are used up.
NextTurn ==
  /\ fire = "tools" /\ turn < MaxToolTurns
  /\ fire' = "llm"
  /\ UNCHANGED <<threadVars, supVars, window, pending, addressed, turn, claims, auto, todo,
                 more, stopVars, down, faults, history>>

\* No body to send: the turns are used up, the model said nothing, or it
\* called respond with an empty body.  Nothing is claimed.
SayNothing ==
  /\ fire \in {"llm", "tools"}
  /\ Fault
  /\ FireReturns
  /\ UNCHANGED <<threadVars, stopVars, down, history>>

\* Variant: claim the queue as it stands when the reply is ready.
AddrSetOfQueue(named) ==
  IF named # {} THEN named ELSE IF addressed # {} THEN addressed ELSE Unaddressed(RollingWindow)

\* addr_set: what respond names, else what mark_addressed named, else the
\* whole snapshot.
AddrSet(named) ==
  IF named # {} THEN named ELSE IF addressed # {} THEN addressed ELSE pending

\* Variant: trust the marks the model's own tool calls wrote.
ToMarkTrusting(named) == AddrSet(named) \ addressed

\* Every id of addr_set is marked, whether or not the model's tool call
\* already did: that call's write may have failed unnoticed.
ToMark(named) == AddrSet(named)

\* The model gives its final answer, by the respond tool or as plain text
\* without a tool call (which names nothing and continues nothing).  An
\* answer that names nothing of what it was asked counts as a fault.
Respond(named, continues) ==
  /\ \/ fire = "tools"
     \/ fire = "llm" /\ named = {} /\ ~continues
  /\ continues => Cardinality(SelfIds) < MaxSelf
  /\ named \subseteq window \cap UserIds
  /\ Attempt(pending # {} => (AddrSet(named) \cup addressed) \cap pending # {})
  /\ claims' = AddrSet(named) /\ todo' = ToMark(named)
  /\ auto' = (named = {} /\ addressed = {})
  /\ more' = continues
  /\ fire' = "claim"
  /\ PromptLocalsDead
  /\ UNCHANGED <<threadVars, supVars, pending, stopVars, down, history>>

\* The model names only ids it made up: they are claimed and marked like any
\* other, no message is.
RespondAstray(continues) ==
  /\ fire = "tools"
  /\ continues => Cardinality(SelfIds) < MaxSelf
  /\ Fault
  /\ claims' = {} /\ todo' = {} /\ auto' = FALSE
  /\ more' = continues
  /\ fire' = "claim"
  /\ PromptLocalsDead
  /\ UNCHANGED <<threadVars, supVars, pending, stopVars, down, history>>

\* One tally mark of the address-claim loop; a failed write is logged and
\* the loop goes on.
ClaimMark(m, ok) ==
  /\ fire \in {"claim", "errorClaim"} /\ m \in todo
  /\ Attempt(ok)
  /\ IF ok THEN MarkRow(m) /\ UNCHANGED missed
           ELSE missed' = missed \cup {m} /\ UNCHANGED marks
  /\ todo' = todo \ {m}
  /\ UNCHANGED <<thread, expired, supVars, fire, window, pending, addressed, turn, claims,
                 auto, more, stopVars, down, shown, decided, broken>>

\* Variant: the reply does not wait for the marks.
ClaimsLeftBehind ==
  /\ fire = "claim"
  /\ fire' = "reply"
  /\ UNCHANGED <<threadVars, supVars, window, pending, addressed, turn, claims, auto, todo,
                 more, stopVars, down, faults, history>>

ClaimsDone ==
  /\ fire = "claim" /\ todo = {}
  /\ fire' = "reply"
  /\ UNCHANGED <<threadVars, supVars, window, pending, addressed, turn, claims, auto, todo,
                 more, stopVars, down, faults, history>>

\* Append the reply.  When the append fails the fire still goes on to the
\* self-continuation.
AppendReply(size, ok) ==
  /\ fire = "reply"
  /\ Attempt(ok)
  /\ IF ok THEN AppendRow(ReplyRow("reply", size, claims, auto)) /\ UNCHANGED broken
           ELSE broken' = broken \cup claims /\ UNCHANGED thread
  /\ IF more THEN /\ fire' = "continue"
                  /\ UNCHANGED <<supVars, window, pending, addressed, turn, claims, auto,
                                 todo, more>>
             ELSE FireReturns
  /\ UNCHANGED <<marks, expired, stopVars, down, shown, decided, missed>>

\* _maybe_continue_inquiry: the chain is one deeper than the deepest of the
\* snapshot rows that the reply claims.
IsNextDepth(d) ==
  /\ \A i \in pending \cap claims : thread[i].depth < d
  /\ d = 1 \/ \E i \in pending \cap claims : thread[i].depth + 1 = d

\* Past MaxChain the chain ends silently.
ContinueInquiry(size, ok) ==
  /\ fire = "continue"
  /\ Attempt(ok)
  /\ \/ ok /\ \E d \in 1..MaxChain : IsNextDepth(d) /\ AppendRow(UserRow("self", size, d))
     \/ (ok => \A d \in 1..MaxChain : ~IsNextDepth(d)) /\ UNCHANGED thread
  /\ FireReturns
  /\ UNCHANGED <<marks, expired, stopVars, down, history>>

\* The error path: first the error row, which also takes the gate down, then
\* a mark on every selected message.
AppendError(size, ok) ==
  /\ fire = "error"
  /\ Attempt(ok)
  /\ IF ok
       THEN AppendRow(ReplyRow("error", size, claims, TRUE)) /\ down' = TRUE /\ UNCHANGED broken
       ELSE broken' = broken \cup claims /\ UNCHANGED <<thread, down>>
  /\ fire' = "errorClaim"
  /\ UNCHANGED <<marks, expired, supVars, window, pending, addressed, turn, claims, auto, todo,
                 more, stopVars, shown, decided, missed>>

ErrorClaimsDone ==
  /\ fire = "errorClaim" /\ todo = {}
  /\ FireReturns
  /\ UNCHANGED <<threadVars, stopVars, down, faults, history>>

-----------------------------------------------------------------------------
(* The operator's stop, and a restart of the process.                      *)

\* cancel_active_fire(), if a fire is in flight.  The supervisor eats the
\* cancellation and goes back to polling.
StopRequest ==
  /\ stop = "none"
  /\ Fault
  /\ stop' = "read"
  /\ IF fire # "idle"
       THEN FireTornDown
       ELSE UNCHANGED <<supVars, fireVars, broken>>
  /\ UNCHANGED <<threadVars, stopIds, down, shown, decided, missed>>

StopReads ==
  /\ stop = "read"
  /\ stopIds' = Pending
  /\ stop' = "mark"
  /\ UNCHANGED <<threadVars, supVars, fireVars, down, faults, history>>

StopMarks(i, ok) ==
  /\ stop = "mark" /\ i \in stopIds
  /\ Attempt(ok)
  /\ IF ok THEN MarkRow(i) /\ decided' = decided \cup {i} ELSE UNCHANGED <<marks, decided>>
  /\ stopIds' = stopIds \ {i}
  /\ UNCHANGED <<thread, expired, supVars, fireVars, stop, down, shown, broken, missed>>

StopReturns ==
  /\ stop = "mark" /\ stopIds = {}
  /\ stop' = "none"
  /\ UNCHANGED <<threadVars, supVars, fireVars, stopIds, down, faults, history>>

\* The container is restarted: the lake stays, the process memory does not.
Restart ==
  /\ Fault
  /\ FireTornDown
  /\ stop' = "none" /\ stopIds' = {}
  /\ UNCHANGED <<threadVars, down, shown, decided, missed>>

-----------------------------------------------------------------------------
Environment ==
  \/ \E kind \in {"chat", "routine"}, size \in Sizes : Post(kind, size)
  \/ \E i \in Ids : ErrorRowExpires(i) \/ Dismiss(i)
  \/ GateClears

Supervisor == Poll \/ PollFails \/ Hold \/ AntiSpin \/ StartFire

Fire ==
  \/ ReadWindow \/ ReadWindowFails
  \/ ToolTurn \/ LLMFails \/ NextTurn \/ SayNothing
  \/ \E m \in window, ok \in BOOLEAN : MarkAddressed(m, ok)
  \/ \E named \in SUBSET (window \cap UserIds), continues \in BOOLEAN : Respond(named, continues)
  \/ \E continues \in BOOLEAN : RespondAstray(continues)
  \/ \E m \in todo, ok \in BOOLEAN : ClaimMark(m, ok)
  \/ ClaimsDone \/ ErrorClaimsDone
  \/ \E size \in Sizes, ok \in BOOLEAN :
       AppendReply(size, ok) \/ ContinueInquiry(size, ok) \/ AppendError(size, ok)

Stop ==
  \/ StopRequest \/ StopReads \/ StopReturns
  \/ \E i \in stopIds, ok \in BOOLEAN : StopMarks(i, ok)

Next == Environment \/ Supervisor \/ Fire \/ Stop \/ Restart

Spec == Init /\ [][Next]_vars

-----------------------------------------------------------------------------
(* Properties.                                                             *)

\* An id some assistant row claims to answer.
Answered(i) == \E r \in ReplyIds : i \in thread[r].claims

\* A fire never covers a message it has not had in its prompt: a message that
\* lands while a fire is under way survives that fire's address-claim
\* fallback (threaded.py takes the ids from the snapshot, not from the
\* queue as it stands when the reply is ready).
ClaimsOnlyShown == marks \subseteq shown \cup decided

\* A covered message was answered in the thread, unless somebody covered it
\* by name or a fault cut the fire off between its marks and its reply.
\* Nothing else may take a message out of the queue.
CoveredIsAnswered ==
  \A i \in marks :
    \/ Answered(i)
    \/ i \in decided \cup broken
    \/ fire \in {"claim", "reply"} /\ i \in claims

\* A message that a reply claimed is not claimed again by a later fire's
\* fallback, unless the write of its mark failed: what the order "marks
\* first, reply second" buys against a restart between the two.
NoSecondReply ==
  \A q, r \in ReplyIds :
    \A i \in thread[q].claims \cap thread[r].claims :
      q < r /\ thread[q].kind = "reply" /\ thread[r].auto => i \in missed

\* A reply the model left to the fallback answers one routine fire alone, or
\* no routine fire at all (_select_pending_for_fire: a routine is a discrete
\* prompt, never mashed together with others).
RoutineAnsweredAlone ==
  \A r \in ReplyIds :
    \A i \in thread[r].claims :
      thread[r].auto /\ thread[i].kind = "routine" => thread[r].claims = {i}

\* "A safety ceiling (MAX_AUTO_CONTINUE_CHAIN) prevents runaway chains"
\* (threaded.py): as long as nothing fails, each message somebody posted is
\* followed by at most MaxChain self-continuations.
ChainsAreBounded ==
  Cardinality(SelfIds) <= MaxChain * Cardinality(Posted)

\* "intent never silently vanishes" (docs/explanation/harness-topology.md): a
\* user row that no mark covers is still in the window the supervisor polls.
NothingVanishes == UserIds \ marks \subseteq RollingWindow

-----------------------------------------------------------------------------
(* Refinement.  The list is the user rows, a stroke is a tally mark, and   *)
(* the worker has in hand what the fire's reply is to answer.              *)

Claiming == fire \in {"claim", "reply", "error", "errorClaim"}

AnsweredIds == UNION {thread[r].claims : r \in ReplyIds}
Excused == decided \cup broken \cup missed
InHand == IF Claiming THEN claims ELSE {}
Unmarked == IF Claiming THEN todo ELSE {}

Inbox == INSTANCE Queue WITH
  asked    <- UserIds,
  struck   <- marks,
  answered <- AnsweredIds,
  excused  <- Excused,
  batch    <- InHand,
  left     <- Unmarked

\* The loop implements the inbox: every fire works one batch at a time and
\* answers it as a whole, a normal reply after all of its marks and an error
\* row before all of them, whatever the stop endpoint, failing writes and
\* restarts do in between.
WorksTheInbox == Inbox!Spec

-----------------------------------------------------------------------------
(* Liveness.  The event loop keeps every started coroutine going, the      *)
(* sleeps end, an LLM call returns or times out, and the error row's hour  *)
(* passes.                                                                 *)
Fairness ==
  /\ WF_vars(Supervisor)
  /\ WF_vars(Fire)
  /\ WF_vars(StopReads \/ StopReturns \/ \E i \in stopIds, ok \in BOOLEAN : StopMarks(i, ok))
  /\ WF_vars(GateClears)

FairSpec == Spec /\ Fairness

\* Whatever is pending is eventually covered or pushed out of the window, so
\* that the queue is empty time and again: through LLM failures, lost marks, a
\* gate that is down, restarts, and routine fires deferred behind messages.
QueueDrains == []<>(Pending = {})

=============================================================================
