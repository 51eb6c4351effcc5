--------------------------- MODULE HarnessProofs ---------------------------
(***************************************************************************)
(* What holds of the harness for every window, budget, ceiling and number  *)
(* of posts and faults.  Each invariant is proved inductive by itself or   *)
(* over the ones before it; the facts about the log come first.            *)
(***************************************************************************)
EXTENDS Harness, FiniteSetTheorems, TLAPS

-----------------------------------------------------------------------------
(* The log only grows, and the window is a part of it.                     *)

\* A step that leaves the log alone leaves every id what it was.
LEMMA SameLog ==
  ASSUME thread' = thread
  PROVE  Ids' = Ids /\ UserIds' = UserIds /\ ReplyIds' = ReplyIds
  BY DEF Ids, UserIds, ReplyIds

\* An append keeps every row where it is and adds one id.
LEMMA Appended ==
  ASSUME thread \in Seq(Row), NEW row \in Row, AppendRow(row)
  PROVE  /\ thread' \in Seq(Row)
         /\ Len(thread') = Len(thread) + 1
         /\ \A i \in Ids : thread'[i] = thread[i]
         /\ thread'[Len(thread) + 1] = row
         /\ Ids' = Ids \cup {Len(thread) + 1}
         /\ Len(thread) + 1 \notin Ids
         /\ UserIds \subseteq UserIds' /\ ReplyIds \subseteq ReplyIds'
         /\ UserIds' \subseteq UserIds \cup {Len(thread) + 1}
         /\ ReplyIds' \subseteq ReplyIds \cup {Len(thread) + 1}
<1>1. thread' = Append(thread, row) /\ Len(thread) \in Nat
  BY DEF AppendRow
<1>2. thread' \in Seq(Row) /\ Len(thread') = Len(thread) + 1
  BY <1>1
<1>3. \A i \in Ids : thread'[i] = thread[i]
  BY <1>1 DEF Ids
<1>4. thread'[Len(thread) + 1] = row
  BY <1>1
<1>5. Ids' = Ids \cup {Len(thread) + 1} /\ Len(thread) + 1 \notin Ids
  BY <1>1, <1>2 DEF Ids
<1>6. UserIds' = {i \in Ids' : thread'[i].role = "user"}
  BY DEF UserIds
<1>7. ReplyIds' = {i \in Ids' : thread'[i].role = "assistant"}
  BY DEF ReplyIds
<1>8. UserIds \subseteq UserIds' /\ UserIds' \subseteq UserIds \cup {Len(thread) + 1}
  BY <1>3, <1>5, <1>6 DEF UserIds
<1>9. ReplyIds \subseteq ReplyIds' /\ ReplyIds' \subseteq ReplyIds \cup {Len(thread) + 1}
  BY <1>3, <1>5, <1>7 DEF ReplyIds
<1> QED
  BY <1>2, <1>3, <1>4, <1>5, <1>8, <1>9

\* What a window of the log can hold.
LEMMA WindowFacts ==
  /\ Trimmed(RollingWindow) \subseteq Ids
  /\ \A S \in SUBSET Ids : Unaddressed(S) \subseteq UserIds \cap S
  /\ \A S : Select(S) \subseteq S
  /\ Pending \subseteq UserIds \cap RollingWindow
<1>1. RollingWindow \subseteq Ids
  BY DEF RollingWindow, Live
<1>2. Trimmed(RollingWindow) \subseteq Ids
  BY <1>1 DEF Trimmed
<1>3. \A S \in SUBSET Ids : Unaddressed(S) \subseteq UserIds \cap S
  BY DEF Unaddressed, UserIds
<1>4. \A S : Select(S) \subseteq S
  BY DEF Select
<1> QED
  BY <1>1, <1>2, <1>3, <1>4 DEF Pending

\* The queue can be counted.
LEMMA PendingIsCountable ==
  ASSUME thread \in Seq(Row)
  PROVE  Cardinality(Pending) \in Nat
<1>1. IsFiniteSet(Ids)
  BY FS_Interval DEF Ids
<1>2. Pending \subseteq Ids
  BY WindowFacts DEF UserIds
<1> QED
  BY <1>1, <1>2, FS_Subset, FS_CardinalityType

\* The rows the program appends are rows.
LEMMA RowTypes ==
  /\ \A kind \in UserKinds, size \in Sizes, depth \in Nat : UserRow(kind, size, depth) \in Row
  /\ \A kind \in ReplyKinds, size \in Sizes, C \in SUBSET Nat, a \in BOOLEAN :
       ReplyRow(kind, size, C, a) \in Row
<1>1. ASSUME NEW kind \in UserKinds, NEW size \in Sizes, NEW depth \in Nat
      PROVE  UserRow(kind, size, depth) \in Row
  BY <1>1 DEF Row, UserRow
<1>2. ASSUME NEW kind \in ReplyKinds, NEW size \in Sizes, NEW C \in SUBSET Nat, NEW a \in BOOLEAN
      PROVE  ReplyRow(kind, size, C, a) \in Row
  BY <1>2 DEF Row, ReplyRow
<1> QED
  BY <1>1, <1>2

-----------------------------------------------------------------------------
(* Type correctness, one part of the state at a time.                      *)

\* Every step leaves the flags flags.
LEMMA FlagsStep ==
  ASSUME FlagsTypeOK, Next
  PROVE  FlagsTypeOK'
<1> USE DEF FlagsTypeOK
<1>1. CASE Environment
  BY <1>1 DEF Environment, Post, ErrorRowExpires, GateClears, Dismiss, fireVars
<1>2. CASE Supervisor
  BY <1>2 DEF Supervisor, Poll, PollFails, Hold, AntiSpin, StartFire, fireVars
<1>3. CASE Fire
  BY <1>3 DEF Fire, ReadWindow, ReadWindowFails, ToolTurn, LLMFails, MarkAddressed, NextTurn,
              SayNothing, Respond, RespondAstray, ClaimMark, ClaimsDone, AppendReply,
              ContinueInquiry, AppendError, ErrorClaimsDone, FireReturns, FireLocalsGone
<1>4. CASE Stop \/ Restart
  BY <1>4 DEF Stop, StopRequest, StopReads, StopMarks, StopReturns, Restart, FireLocalsGone,
              FireTornDown, fireVars
<1> QED
  BY <1>1, <1>2, <1>3, <1>4 DEF Next

\* Every step leaves the supervisor, the fire and the stop handler at one of
\* their awaits, and the fire in flight exactly while it is awaited.
LEMMA ControlStep ==
  ASSUME ControlTypeOK, Next
  PROVE  ControlTypeOK'
<1> USE DEF ControlTypeOK, FireStates
<1>1. CASE Environment
  BY <1>1 DEF Environment, Post, ErrorRowExpires, GateClears, Dismiss, fireVars, supVars, stopVars
<1>2. CASE Supervisor
  BY <1>2 DEF Supervisor, Poll, PollFails, Hold, AntiSpin, StartFire, fireVars, stopVars
<1>3. CASE Fire
  <2>1. FireReturns => sup' = "poll" /\ fire' = "idle"
    BY DEF FireReturns, FireLocalsGone
  <2>2. UNCHANGED stop
    BY <1>3 DEF Fire, ReadWindow, ReadWindowFails, ToolTurn, LLMFails, MarkAddressed, NextTurn,
                SayNothing, Respond, RespondAstray, ClaimMark, ClaimsDone, AppendReply,
                ContinueInquiry, AppendError, ErrorClaimsDone, stopVars
  <2>3. ASSUME ReadWindow \/ ToolTurn \/ LLMFails \/ NextTurn \/ ClaimsDone
        PROVE  ControlTypeOK'
    BY <2>2, <2>3 DEF ReadWindow, ToolTurn, LLMFails, NextTurn, ClaimsDone, supVars
  <2>4. ASSUME ReadWindowFails \/ SayNothing \/ ErrorClaimsDone
        PROVE  ControlTypeOK'
    BY <2>1, <2>2, <2>4 DEF ReadWindowFails, SayNothing, ErrorClaimsDone
  <2>5. ASSUME NEW m, NEW ok, MarkAddressed(m, ok) \/ ClaimMark(m, ok)
        PROVE  ControlTypeOK'
    BY <2>2, <2>5 DEF MarkAddressed, ClaimMark, supVars
  <2>6. ASSUME NEW named, NEW continues, Respond(named, continues) \/ RespondAstray(continues)
        PROVE  ControlTypeOK'
    BY <2>2, <2>6 DEF Respond, RespondAstray, supVars
  <2>7. ASSUME NEW size, NEW ok,
               AppendReply(size, ok) \/ ContinueInquiry(size, ok) \/ AppendError(size, ok)
        PROVE  ControlTypeOK'
    BY <2>1, <2>2, <2>7 DEF AppendReply, ContinueInquiry, AppendError, supVars
  <2> QED
    BY <1>3, <2>3, <2>4, <2>5, <2>6, <2>7 DEF Fire
<1>4. CASE Stop
  BY <1>4 DEF Stop, StopRequest, StopReads, StopMarks, StopReturns, FireLocalsGone, FireTornDown,
              fireVars, supVars
<1>5. CASE Restart
  BY <1>5 DEF Restart, FireLocalsGone, FireTornDown
<1> QED
  BY <1>1, <1>2, <1>3, <1>4, <1>5 DEF Next

\* The model is only called while turns are left.
CountersInv ==
  /\ CountersTypeOK
  /\ fire \in {"idle", "window"} => turn = 0
  /\ fire = "llm" => turn < MaxToolTurns

\* Every step keeps the counters in range.
LEMMA CountersStep ==
  ASSUME ThreadTypeOK, ControlTypeOK, CountersInv, Next
  PROVE  CountersInv'
<1> USE DEF CountersInv, CountersTypeOK
<1>1. /\ MaxToolTurns \in Nat \ {0} /\ MaxFaults \in Nat
  BY HarnessAssumption DEF HarnessAssumption
<1>2. /\ Fault => faults' \in 0..MaxFaults
      /\ \A ok : Attempt(ok) => faults' \in 0..MaxFaults
  BY <1>1 DEF Fault, Attempt
<1>3. Cardinality(Pending) \in Nat
  BY PendingIsCountable DEF ThreadTypeOK
<1>4. CASE Environment
  BY <1>1, <1>2, <1>4
     DEF Environment, Post, ErrorRowExpires, Dismiss, GateClears, supVars, fireVars
<1>5. CASE Supervisor
  BY <1>1, <1>2, <1>3, <1>5
     DEF Supervisor, Poll, PollFails, Hold, AntiSpin, StartFire, ResetCounters, fireVars,
         ControlTypeOK
<1>6. CASE Fire
  <2>1. FireReturns => CountersInv' \/ faults' \notin 0..MaxFaults
    BY <1>1 DEF FireReturns, FireLocalsGone
  <2>2. ASSUME ReadWindow \/ ToolTurn \/ LLMFails \/ NextTurn \/ ClaimsDone
        PROVE  CountersInv'
    BY <1>1, <2>2
       DEF ReadWindow, ToolTurn, LLMFails, NextTurn, ClaimsDone, PromptLocalsDead, supVars
  <2>3. ASSUME ReadWindowFails \/ SayNothing \/ ErrorClaimsDone
        PROVE  CountersInv'
    BY <1>2, <2>1, <2>3 DEF ReadWindowFails, SayNothing, ErrorClaimsDone
  <2>4. ASSUME NEW m, NEW ok, MarkAddressed(m, ok) \/ ClaimMark(m, ok)
        PROVE  CountersInv'
    BY <1>1, <1>2, <2>4 DEF MarkAddressed, ClaimMark, supVars
  <2>5. ASSUME NEW named, NEW continues, Respond(named, continues) \/ RespondAstray(continues)
        PROVE  CountersInv'
    BY <1>1, <1>2, <2>5 DEF Respond, RespondAstray, PromptLocalsDead, supVars
  <2>6. ASSUME NEW size, NEW ok, AppendReply(size, ok)
        PROVE  CountersInv'
    BY <1>1, <1>2, <2>1, <2>6 DEF AppendReply, supVars
  <2>7. ASSUME NEW size, NEW ok, ContinueInquiry(size, ok)
        PROVE  CountersInv'
    BY <1>2, <2>1, <2>7 DEF ContinueInquiry
  <2>8. ASSUME NEW size, NEW ok, AppendError(size, ok)
        PROVE  CountersInv'
    BY <1>1, <1>2, <2>8 DEF AppendError, supVars
  <2> QED
    BY <1>6, <2>2, <2>3, <2>4, <2>5, <2>6, <2>7, <2>8 DEF Fire
<1>7. CASE Stop
  BY <1>1, <1>2, <1>7
     DEF Stop, StopRequest, StopReads, StopMarks, StopReturns, FireTornDown, FireLocalsGone,
         ResetCounters, supVars, fireVars
<1>8. CASE Restart
  BY <1>1, <1>2, <1>8 DEF Restart, FireTornDown, FireLocalsGone, ResetCounters
<1> QED
  BY <1>4, <1>5, <1>6, <1>7, <1>8 DEF Next

\* A row the program appends leaves a well-formed log, in which every id
\* keeps its place.
LEMMA LogGrows ==
  ASSUME ThreadTypeOK, NEW row \in Row, AppendRow(row), UNCHANGED <<marks, expired>>
  PROVE  ThreadTypeOK' /\ Ids \subseteq Ids' /\ UserIds \subseteq UserIds'
  BY Appended DEF ThreadTypeOK

\* Every step keeps the log well-formed and every set of ids one of ids of
\* the log.
LEMMA LogStep ==
  ASSUME ThreadTypeOK, FlagsTypeOK, IdSetsTypeOK, Next
  PROVE  ThreadTypeOK' /\ IdSetsTypeOK'
<1> DEFINE Goal == ThreadTypeOK' /\ IdSetsTypeOK'
<1> USE DEF IdSetsTypeOK
<1>1. /\ MaxChain \in Nat /\ 1 \in Sizes
  BY HarnessAssumption DEF HarnessAssumption
<1>2. /\ Trimmed(RollingWindow) \subseteq Ids
      /\ Select(Unaddressed(Trimmed(RollingWindow))) \subseteq UserIds
      /\ Pending \subseteq UserIds
      /\ UserIds \subseteq Nat
  BY WindowFacts DEF UserIds, Ids
<1>3. thread' = thread => Ids' = Ids /\ UserIds' = UserIds /\ ReplyIds' = ReplyIds
  BY SameLog
<1>4. CASE Environment
  <2>1. ASSUME NEW kind \in {"chat", "routine"}, NEW size \in Sizes, Post(kind, size)
        PROVE  Goal
    <3>1. UserRow(kind, size, 0) \in Row
      BY RowTypes DEF UserKinds
    <3>2. AppendRow(UserRow(kind, size, 0)) /\ UNCHANGED <<marks, expired>>
      BY <2>1 DEF Post
    <3>3. ThreadTypeOK' /\ Ids \subseteq Ids' /\ UserIds \subseteq UserIds'
      BY <3>1, <3>2, LogGrows
    <3> QED
      BY <2>1, <3>3 DEF Post, fireVars, stopVars, history
  <2>2. ASSUME NEW i \in Ids, ErrorRowExpires(i)
        PROVE  Goal
    <3>1. thread[i] \in Row /\ thread[i].kind = "error"
      BY <2>2 DEF ErrorRowExpires, ThreadTypeOK, Ids
    <3>2. i \in ReplyIds
      BY <3>1 DEF ReplyIds, Row, UserKinds
    <3> QED
      BY <1>3, <2>2, <3>2 DEF ErrorRowExpires, ThreadTypeOK, fireVars, stopVars, history
  <2>3. ASSUME NEW i \in Ids, Dismiss(i)
        PROVE  Goal
    BY <1>2, <1>3, <2>3 DEF Dismiss, MarkRow, ThreadTypeOK, fireVars, stopVars
  <2>4. ASSUME GateClears
        PROVE  Goal
    BY <1>3, <2>4 DEF GateClears, threadVars, ThreadTypeOK, fireVars, stopVars, history
  <2> QED
    BY <1>4, <2>1, <2>2, <2>3, <2>4 DEF Environment
<1>5. CASE Supervisor
  BY <1>3, <1>5
     DEF Supervisor, Poll, PollFails, Hold, AntiSpin, StartFire, ThreadTypeOK, threadVars,
         fireVars, stopVars, history
<1>6. CASE Fire
  <2>1. FireReturns => /\ window' = {} /\ pending' = {} /\ addressed' = {}
                       /\ claims' = {} /\ todo' = {}
    BY DEF FireReturns, FireLocalsGone
  <2>2. ASSUME ReadWindow
        PROVE  Goal
    BY <1>2, <1>3, <2>2 DEF ReadWindow, ThreadTypeOK, threadVars, stopVars
  <2>3. ASSUME ToolTurn \/ LLMFails \/ NextTurn \/ ClaimsDone
        PROVE  Goal
    BY <1>3, <2>3
       DEF ToolTurn, LLMFails, NextTurn, ClaimsDone, PromptLocalsDead, ThreadTypeOK, threadVars,
           stopVars, history
  <2>4. ASSUME ReadWindowFails \/ SayNothing \/ ErrorClaimsDone
        PROVE  Goal
    BY <1>3, <2>1, <2>4
       DEF ReadWindowFails, SayNothing, ErrorClaimsDone, ThreadTypeOK, threadVars, stopVars, history
  <2>5. ASSUME NEW m, NEW ok, MarkAddressed(m, ok)
        PROVE  Goal
    BY <1>3, <2>5 DEF MarkAddressed, MarkRow, ThreadTypeOK, stopVars
  <2>6. ASSUME NEW m, NEW ok, ClaimMark(m, ok)
        PROVE  Goal
    BY <1>3, <2>6 DEF ClaimMark, MarkRow, ThreadTypeOK, stopVars
  <2>7. ASSUME NEW named, NEW continues, Respond(named, continues) \/ RespondAstray(continues)
        PROVE  Goal
    <3>1. claims' \subseteq UserIds /\ todo' = claims'
      BY <2>7 DEF Respond, RespondAstray, AddrSet, ToMark
    <3> QED
      BY <1>3, <2>7, <3>1
         DEF Respond, RespondAstray, PromptLocalsDead, ThreadTypeOK, threadVars, stopVars, history
  <2>8. ASSUME NEW size \in Sizes, NEW ok, AppendReply(size, ok)
        PROVE  Goal
    <3>1. ReplyRow("reply", size, claims, auto) \in Row
      BY <1>2, RowTypes DEF ReplyKinds, FlagsTypeOK
    <3>2. ThreadTypeOK' /\ Ids \subseteq Ids' /\ UserIds \subseteq UserIds'
      BY <1>3, <2>8, <3>1, LogGrows DEF AppendReply, ThreadTypeOK
    <3>3. broken' \subseteq broken \cup claims
      BY <2>8 DEF AppendReply
    <3> QED
      BY <2>1, <2>8, <3>2, <3>3 DEF AppendReply, stopVars
  <2>9. ASSUME NEW size \in Sizes, NEW ok, ContinueInquiry(size, ok)
        PROVE  Goal
    <3>1. \A d \in 1..MaxChain : UserRow("self", size, d) \in Row
      BY <1>1, RowTypes DEF UserKinds
    <3>2. ThreadTypeOK' /\ Ids \subseteq Ids' /\ UserIds \subseteq UserIds'
      BY <1>3, <2>9, <3>1, LogGrows DEF ContinueInquiry, ThreadTypeOK
    <3> QED
      BY <2>1, <2>9, <3>2 DEF ContinueInquiry, stopVars, history
  <2>10. ASSUME NEW size \in Sizes, NEW ok, AppendError(size, ok)
         PROVE  Goal
    <3>1. ReplyRow("error", size, claims, TRUE) \in Row
      BY <1>2, RowTypes DEF ReplyKinds
    <3>2. ThreadTypeOK' /\ Ids \subseteq Ids' /\ UserIds \subseteq UserIds'
      BY <1>3, <2>10, <3>1, LogGrows DEF AppendError, ThreadTypeOK
    <3>3. broken' \subseteq broken \cup claims
      BY <2>10 DEF AppendError
    <3> QED
      BY <2>10, <3>2, <3>3 DEF AppendError, stopVars
  <2> QED
    BY <1>6, <2>2, <2>3, <2>4, <2>5, <2>6, <2>7, <2>8, <2>9, <2>10 DEF Fire
<1>7. CASE Stop
  <2>1. ASSUME StopRequest
        PROVE  Goal
    BY <1>3, <2>1
       DEF StopRequest, FireTornDown, FireLocalsGone, ThreadTypeOK, threadVars, fireVars
  <2>2. ASSUME StopReads \/ StopReturns
        PROVE  Goal
    BY <1>2, <1>3, <2>2 DEF StopReads, StopReturns, ThreadTypeOK, threadVars, fireVars, history
  <2>3. ASSUME NEW i \in stopIds, NEW ok, StopMarks(i, ok)
        PROVE  Goal
    BY <1>3, <2>3 DEF StopMarks, MarkRow, ThreadTypeOK, fireVars
  <2> QED
    BY <1>7, <2>1, <2>2, <2>3 DEF Stop
<1>8. CASE Restart
  BY <1>3, <1>8 DEF Restart, FireTornDown, FireLocalsGone, ThreadTypeOK, threadVars
<1> QED
  BY <1>4, <1>5, <1>6, <1>7, <1>8 DEF Next

\* The inductive form of the type invariant.
TypeInv == TypeOK /\ CountersInv

\* It holds when the process comes up.
LEMMA TypeInit == Init => TypeInv
<1> SUFFICES ASSUME Init PROVE TypeInv
  OBVIOUS
<1>1. ThreadTypeOK
  BY DEF Init, ThreadInit, ThreadTypeOK
<1>2. FlagsTypeOK
  BY DEF Init, FlagsTypeOK
<1>3. CountersInv
  BY HarnessAssumption DEF Init, CountersInv, CountersTypeOK, HarnessAssumption
<1>4. IdSetsTypeOK
  BY DEF Init, IdSetsTypeOK
<1>5. ControlTypeOK
  BY DEF Init, ControlTypeOK, FireStates
<1> QED
  BY <1>1, <1>2, <1>3, <1>4, <1>5 DEF TypeInv, TypeOK, CountersInv

\* Every step of the program preserves it.
LEMMA TypeStep == TypeInv /\ [Next]_vars => TypeInv'
<1>1. ASSUME TypeInv, Next
      PROVE  TypeInv'
  BY <1>1, FlagsStep, ControlStep, CountersStep, LogStep DEF TypeInv, TypeOK, CountersInv
<1>2. ASSUME TypeInv, UNCHANGED vars
      PROVE  TypeInv'
  <2>1. thread' = thread /\ UNCHANGED <<marks, expired>>
    BY <1>2 DEF vars, threadVars
  <2>2. ThreadTypeOK' /\ IdSetsTypeOK'
    BY <1>2, <2>1, SameLog
       DEF vars, fireVars, stopVars, history, TypeInv, TypeOK, ThreadTypeOK, IdSetsTypeOK
  <2>3. FlagsTypeOK' /\ ControlTypeOK'
    BY <1>2 DEF vars, supVars, fireVars, stopVars, TypeInv, TypeOK, FlagsTypeOK, ControlTypeOK
  <2>4. CountersInv'
    BY <1>2 DEF vars, supVars, fireVars, TypeInv, CountersInv, CountersTypeOK
  <2> QED
    BY <2>2, <2>3, <2>4 DEF TypeInv, TypeOK, CountersInv
<1> QED
  BY <1>1, <1>2

\* Every state the program reaches is well-typed: no mark or claim names a row
\* that is not there or is not a user row, the turn budget is never overrun,
\* and the supervisor and its fire never lose each other.
THEOREM TypeCorrect == Spec => []TypeOK
<1>1. TypeInv => TypeOK
  BY DEF TypeInv
<1> QED
  BY <1>1, TypeInit, TypeStep, PTL DEF Spec

\* The turn count stays below the ceiling while the model is asked, and a fire
\* that has not asked yet has made no call, besides every variable having its
\* type: what the later invariants build on.
THEOREM TypeInvariant == Spec => []TypeInv
  BY TypeInit, TypeStep, PTL DEF Spec

-----------------------------------------------------------------------------
(* A fire only ever covers what it had in its prompt.                      *)

\* Whatever the fire in flight may still cover was shown to it.
ShownInv ==
  /\ ClaimsOnlyShown
  /\ window \subseteq shown /\ pending \subseteq shown /\ addressed \subseteq shown
  /\ claims \subseteq shown /\ todo \subseteq shown

\* Nothing is shown or covered at the start.
LEMMA ShownInit == Init => ShownInv
  BY DEF Init, ThreadInit, ShownInv, ClaimsOnlyShown

\* What a step covers or claims comes from the prompt of the fire in flight.
LEMMA ShownStep == TypeInv /\ ShownInv /\ [Next]_vars => ShownInv'
<1> SUFFICES ASSUME TypeInv, ShownInv, [Next]_vars
             PROVE  ShownInv'
  OBVIOUS
<1> USE DEF ShownInv, ClaimsOnlyShown
<1>1. CASE Environment
  BY <1>1 DEF Environment, Post, ErrorRowExpires, GateClears, Dismiss, MarkRow, threadVars,
              fireVars, history
<1>2. CASE Supervisor
  BY <1>2 DEF Supervisor, Poll, PollFails, Hold, AntiSpin, StartFire, threadVars, fireVars, history
<1>3. CASE Fire
  <2>1. FireReturns => /\ window' = {} /\ pending' = {} /\ addressed' = {}
                       /\ claims' = {} /\ todo' = {}
    BY DEF FireReturns, FireLocalsGone
  <2>2. ASSUME ReadWindow
        PROVE  ShownInv'
    <3>1. Select(Unaddressed(Trimmed(RollingWindow))) \subseteq Trimmed(RollingWindow)
      BY WindowFacts
    <3> QED
      BY <2>2, <3>1 DEF ReadWindow, threadVars
  <2>3. ASSUME ToolTurn \/ LLMFails \/ NextTurn \/ ClaimsDone
        PROVE  ShownInv'
    BY <2>3 DEF ToolTurn, LLMFails, NextTurn, ClaimsDone, PromptLocalsDead, threadVars, history
  <2>4. ASSUME ReadWindowFails \/ SayNothing \/ ErrorClaimsDone
        PROVE  ShownInv'
    BY <2>1, <2>4 DEF ReadWindowFails, SayNothing, ErrorClaimsDone, threadVars, history
  <2>5. ASSUME NEW m, NEW ok, MarkAddressed(m, ok)
        PROVE  ShownInv'
    BY <2>5 DEF MarkAddressed, MarkRow
  <2>6. ASSUME NEW m, NEW ok, ClaimMark(m, ok)
        PROVE  ShownInv'
    BY <2>6 DEF ClaimMark, MarkRow
  <2>7. ASSUME NEW named, NEW continues, Respond(named, continues) \/ RespondAstray(continues)
        PROVE  ShownInv'
    BY <2>7 DEF Respond, RespondAstray, AddrSet, ToMark, PromptLocalsDead, threadVars, history
  <2>8. ASSUME NEW size, NEW ok,
               AppendReply(size, ok) \/ ContinueInquiry(size, ok) \/ AppendError(size, ok)
        PROVE  ShownInv'
    BY <2>1, <2>8 DEF AppendReply, ContinueInquiry, AppendError, history
  <2> QED
    BY <1>3, <2>2, <2>3, <2>4, <2>5, <2>6, <2>7, <2>8 DEF Fire
<1>4. CASE Stop
  BY <1>4 DEF Stop, StopRequest, StopReads, StopMarks, StopReturns, MarkRow, FireTornDown,
              FireLocalsGone, threadVars, fireVars, history
<1>5. CASE Restart
  BY <1>5 DEF Restart, FireTornDown, FireLocalsGone, threadVars
<1>6. CASE UNCHANGED vars
  BY <1>6 DEF vars, threadVars, fireVars, history
<1> QED
  BY <1>1, <1>2, <1>3, <1>4, <1>5, <1>6 DEF Next

\* A message that lands while a fire is under way is never covered by it, in
\* any interleaving of fires, stops, dismissals, failed writes and restarts.
THEOREM FiresCoverOnlyWhatTheySaw == Spec => []ClaimsOnlyShown
<1>1. ShownInv => ClaimsOnlyShown
  BY DEF ShownInv
<1> QED
  BY <1>1, ShownInit, ShownStep, TypeInvariant, PTL DEF Spec

-----------------------------------------------------------------------------
(* No message leaves the queue without an answer, save by name or by fault. *)

\* On the error path the answer comes before the marks.
CoveredInv ==
  /\ CoveredIsAnswered
  /\ fire = "errorClaim" => \A i \in claims : Answered(i) \/ i \in broken

\* Nothing is covered at the start.
LEMMA CoveredInit == Init => CoveredInv
  BY DEF Init, ThreadInit, CoveredInv, CoveredIsAnswered

\* An append takes back no answer, and the new row answers what it claims.
LEMMA AnsweredGrows ==
  ASSUME ThreadTypeOK, NEW row \in Row, AppendRow(row)
  PROVE  /\ \A i : Answered(i) => Answered(i)'
         /\ row.role = "assistant" => \A i \in row.claims : Answered(i)'
<1>1. /\ \A i \in Ids : thread'[i] = thread[i]
      /\ thread'[Len(thread) + 1] = row
      /\ Len(thread) + 1 \in Ids'
      /\ ReplyIds \subseteq ReplyIds'
  BY Appended DEF ThreadTypeOK
<1>2. ReplyIds \subseteq Ids
  BY DEF ReplyIds
<1>3. row.role = "assistant" => Len(thread) + 1 \in ReplyIds'
  BY <1>1 DEF ReplyIds
<1> QED
  BY <1>1, <1>2, <1>3 DEF Answered

\* No step takes a message out of the queue without an answer or a reason.
LEMMA CoveredStep == TypeInv /\ CoveredInv /\ [Next]_vars => CoveredInv'
<1> SUFFICES ASSUME TypeInv, CoveredInv, [Next]_vars
             PROVE  CoveredInv'
  OBVIOUS
<1> USE DEF CoveredInv, CoveredIsAnswered
<1>1. ThreadTypeOK /\ FlagsTypeOK /\ todo \subseteq claims /\ claims \subseteq UserIds
  BY DEF TypeInv, TypeOK, IdSetsTypeOK
<1>2. thread' = thread => \A i : Answered(i)' <=> Answered(i)
  BY SameLog DEF Answered
<1>3. UserIds \subseteq Nat
  BY DEF UserIds, Ids
<1>4. CASE Environment
  <2>1. ASSUME NEW kind \in {"chat", "routine"}, NEW size \in Sizes, Post(kind, size)
        PROVE  CoveredInv'
    <3>1. UserRow(kind, size, 0) \in Row
      BY RowTypes DEF UserKinds
    <3>2. \A i : Answered(i) => Answered(i)'
      BY <1>1, <2>1, <3>1, AnsweredGrows DEF Post
    <3> QED
      BY <2>1, <3>2 DEF Post, fireVars, history
  <2>2. ASSUME NEW i \in Ids, ErrorRowExpires(i) \/ Dismiss(i)
        PROVE  CoveredInv'
    BY <1>2, <2>2 DEF ErrorRowExpires, Dismiss, MarkRow, fireVars, history
  <2>3. ASSUME GateClears
        PROVE  CoveredInv'
    BY <1>2, <2>3 DEF GateClears, threadVars, fireVars, history
  <2> QED
    BY <1>4, <2>1, <2>2, <2>3 DEF Environment
<1>5. CASE Supervisor
  <2>1. UNCHANGED <<threadVars, claims, history>>
    BY <1>5 DEF Supervisor, Poll, PollFails, Hold, AntiSpin, StartFire, fireVars
  <2>2. sup = "decide" => fire = "idle"
    BY DEF TypeInv, TypeOK, ControlTypeOK
  <2>3. fire' = fire \/ (fire = "idle" /\ fire' = "window")
    BY <1>5, <2>2 DEF Supervisor, Poll, PollFails, Hold, AntiSpin, StartFire, fireVars
  <2> QED
    BY <1>2, <2>1, <2>3 DEF threadVars, history
<1>6. CASE Fire
  <2>1. FireReturns => fire' = "idle"
    BY DEF FireReturns, FireLocalsGone
  <2>2. ASSUME ReadWindow \/ ToolTurn \/ LLMFails \/ NextTurn \/ ClaimsDone
        PROVE  CoveredInv'
    BY <1>2, <2>2 DEF ReadWindow, ToolTurn, LLMFails, NextTurn, ClaimsDone, threadVars, history
  <2>3. ASSUME ReadWindowFails \/ SayNothing \/ ErrorClaimsDone
        PROVE  CoveredInv'
    BY <1>2, <2>1, <2>3 DEF ReadWindowFails, SayNothing, ErrorClaimsDone, threadVars, history
  <2>4. ASSUME NEW m, NEW ok, MarkAddressed(m, ok)
        PROVE  CoveredInv'
    BY <1>2, <2>4 DEF MarkAddressed, MarkRow
  <2>5. ASSUME NEW m, NEW ok, ClaimMark(m, ok)
        PROVE  CoveredInv'
    BY <1>1, <1>2, <2>5 DEF ClaimMark, MarkRow
  <2>6. ASSUME NEW named, NEW continues, Respond(named, continues) \/ RespondAstray(continues)
        PROVE  CoveredInv'
    BY <1>2, <2>6 DEF Respond, RespondAstray, threadVars, history
  <2>7. ASSUME NEW size \in Sizes, NEW ok, AppendReply(size, ok)
        PROVE  CoveredInv'
    <3>1. fire = "reply" /\ fire' \notin {"claim", "reply", "errorClaim"}
      BY <2>1, <2>7 DEF AppendReply
    <3>2. UNCHANGED <<marks, decided>>
      BY <2>7 DEF AppendReply
    <3>3. CASE AppendRow(ReplyRow("reply", size, claims, auto)) /\ UNCHANGED broken
      <4>1. ReplyRow("reply", size, claims, auto) \in Row
        BY <1>1, <1>3, RowTypes DEF ReplyKinds, FlagsTypeOK
      <4>2. /\ \A i : Answered(i) => Answered(i)'
            /\ \A i \in claims : Answered(i)'
        BY <1>1, <3>3, <4>1, AnsweredGrows DEF ReplyRow
      <4> QED
        BY <3>1, <3>2, <3>3, <4>2
    <3>4. CASE broken' = broken \cup claims /\ UNCHANGED thread
      BY <1>2, <3>1, <3>2, <3>4
    <3> QED
      BY <2>7, <3>3, <3>4 DEF AppendReply
  <2>8. ASSUME NEW size \in Sizes, NEW ok, ContinueInquiry(size, ok)
        PROVE  CoveredInv'
    <3>1. \A d \in 1..MaxChain : UserRow("self", size, d) \in Row
      BY HarnessAssumption, RowTypes DEF HarnessAssumption, UserKinds
    <3>2. \A i : Answered(i) => Answered(i)'
      BY <1>1, <1>2, <2>8, <3>1, AnsweredGrows DEF ContinueInquiry
    <3> QED
      BY <2>1, <2>8, <3>2 DEF ContinueInquiry, history
  <2>9. ASSUME NEW size \in Sizes, NEW ok, AppendError(size, ok)
        PROVE  CoveredInv'
    <3>1. fire = "error" /\ fire' = "errorClaim" /\ UNCHANGED <<marks, claims, decided>>
      BY <2>9 DEF AppendError
    <3>2. CASE AppendRow(ReplyRow("error", size, claims, TRUE)) /\ UNCHANGED broken
      <4>1. ReplyRow("error", size, claims, TRUE) \in Row
        BY <1>1, <1>3, RowTypes DEF ReplyKinds
      <4>2. /\ \A i : Answered(i) => Answered(i)'
            /\ \A i \in claims : Answered(i)'
        BY <1>1, <3>2, <4>1, AnsweredGrows DEF ReplyRow
      <4> QED
        BY <3>1, <3>2, <4>2
    <3>3. CASE broken' = broken \cup claims /\ UNCHANGED thread
      BY <1>2, <3>1, <3>3
    <3> QED
      BY <2>9, <3>2, <3>3 DEF AppendError
  <2> QED
    BY <1>6, <2>2, <2>3, <2>4, <2>5, <2>6, <2>7, <2>8, <2>9 DEF Fire
<1>7. CASE Stop
  <2>1. ASSUME StopRequest
        PROVE  CoveredInv'
    BY <1>2, <2>1 DEF StopRequest, FireTornDown, FireLocalsGone, threadVars, fireVars
  <2>2. ASSUME StopReads \/ StopReturns
        PROVE  CoveredInv'
    BY <1>2, <2>2 DEF StopReads, StopReturns, threadVars, fireVars, history
  <2>3. ASSUME NEW i \in stopIds, NEW ok, StopMarks(i, ok)
        PROVE  CoveredInv'
    BY <1>2, <2>3 DEF StopMarks, MarkRow, fireVars
  <2> QED
    BY <1>7, <2>1, <2>2, <2>3 DEF Stop
<1>8. CASE Restart
  BY <1>2, <1>8 DEF Restart, FireTornDown, FireLocalsGone, threadVars
<1>9. CASE UNCHANGED vars
  BY <1>2, <1>9 DEF vars, threadVars, fireVars, history
<1> QED
  BY <1>4, <1>5, <1>6, <1>7, <1>8, <1>9 DEF Next

\* A covered message has its answer in the thread, unless the model or the
\* operator covered it by name or a fault came between its mark and its reply.
THEOREM CoveredMessagesAreAnswered == Spec => []CoveredIsAnswered
<1>1. CoveredInv => CoveredIsAnswered
  BY DEF CoveredInv
<1> QED
  BY <1>1, CoveredInit, CoveredStep, TypeInvariant, PTL DEF Spec

-----------------------------------------------------------------------------
(* What the fallback answers: one routine fire alone, and nothing twice.   *)

\* A set of messages in which a routine fire can only be by itself.
Alone(S) == \A i \in S : thread[i].kind = "routine" => S = {i}

\* An id of S that a reply already claims lost its mark.
Fresh(S) ==
  \A q \in ReplyIds : \A i \in thread[q].claims \cap S :
    thread[q].kind = "reply" => i \in missed

\* What the replies of the log claim is in the log, and is off the queue
\* unless the write of its mark failed.
LoggedClaims ==
  \A q \in ReplyIds :
    /\ thread[q].claims \subseteq Ids
    /\ thread[q].kind = "reply" => thread[q].claims \subseteq marks \cup missed

\* What the fire in flight selected and claims.
FireClaims ==
  /\ Alone(pending)
  /\ fire # "continue" => Fresh(pending)
  /\ fire = "error" => auto
  /\ auto /\ fire \in {"claim", "reply", "error"} => claims = pending
  /\ fire \in {"claim", "reply"} => claims \subseteq marks \cup missed \cup todo
  /\ fire = "reply" => todo = {}

RepliesInv == LoggedClaims /\ FireClaims /\ RoutineAnsweredAlone /\ NoSecondReply

\* There is no reply at the start.
LEMMA RepliesInit == Init => RepliesInv
  BY DEF Init, ThreadInit, RepliesInv, LoggedClaims, FireClaims, RoutineAnsweredAlone,
         NoSecondReply, Alone, Fresh, ReplyIds, Ids

\* _select_pending_for_fire never puts a routine fire beside anything else.
LEMMA SelectAlone ==
  ASSUME NEW S \in SUBSET Nat
  PROVE  Alone(Select(S))
<1> DEFINE typed == {i \in S : thread[i].kind # "routine"}
<1>1. CASE typed # {}
  BY <1>1 DEF Select, Alone
<1>2. CASE typed = {}
  <2>1. Select(S) = {i \in S : \A j \in S : i <= j}
    BY <1>2 DEF Select
  <2>2. \A i, k \in Select(S) : i \in Nat /\ k \in Nat /\ i <= k /\ k <= i
    BY <2>1
  <2>3. \A i, k \in Select(S) : i = k
    BY <2>2
  <2> QED
    BY <2>3 DEF Alone
<1> QED
  BY <1>1, <1>2

\* Selected messages are uncovered, so a reply that claims one of them lost
\* its mark.
LEMMA SelectFresh ==
  ASSUME LoggedClaims, NEW S \in SUBSET Ids
  PROVE  Fresh(Select(Unaddressed(S)))
<1>1. Select(Unaddressed(S)) \cap marks = {}
  BY WindowFacts DEF Unaddressed
<1> QED
  BY <1>1 DEF LoggedClaims, Fresh

\* A step that appends nothing and takes back no mark changes nothing for the
\* replies of the log.
LEMMA RepliesStay ==
  ASSUME RepliesInv, thread' = thread, marks \subseteq marks', missed \subseteq missed'
  PROVE  LoggedClaims' /\ RoutineAnsweredAlone' /\ NoSecondReply'
<1>1. ReplyIds' = ReplyIds /\ Ids' = Ids
  BY SameLog
<1>2. LoggedClaims'
  BY <1>1 DEF RepliesInv, LoggedClaims
<1>3. RoutineAnsweredAlone'
  BY <1>1 DEF RepliesInv, RoutineAnsweredAlone
<1>4. NoSecondReply'
  BY <1>1 DEF RepliesInv, NoSecondReply
<1> QED
  BY <1>2, <1>3, <1>4

\* Nor does a new user row, which claims nothing and is in no claim yet.
LEMMA RepliesStayOnPost ==
  ASSUME ThreadTypeOK, RepliesInv, NEW row \in Row, AppendRow(row), row.role = "user",
         UNCHANGED <<marks, missed>>
  PROVE  /\ LoggedClaims' /\ RoutineAnsweredAlone' /\ NoSecondReply'
         /\ ReplyIds' = ReplyIds
<1>1. /\ \A i \in Ids : thread'[i] = thread[i]
      /\ thread'[Len(thread) + 1] = row
      /\ Ids \subseteq Ids' /\ Len(thread) + 1 \in Ids'
      /\ ReplyIds \subseteq ReplyIds' /\ ReplyIds' \subseteq ReplyIds \cup {Len(thread) + 1}
  BY Appended DEF ThreadTypeOK
<1>2. ReplyIds' = ReplyIds
  BY <1>1 DEF ReplyIds
<1>3. \A q \in ReplyIds : thread'[q] = thread[q]
  BY <1>1 DEF ReplyIds
<1>4. \A q \in ReplyIds : \A i \in thread[q].claims : thread'[i] = thread[i]
  BY <1>1 DEF RepliesInv, LoggedClaims
<1>5. LoggedClaims'
  BY <1>1, <1>2, <1>3 DEF RepliesInv, LoggedClaims
<1>6. RoutineAnsweredAlone'
  BY <1>2, <1>3, <1>4 DEF RepliesInv, RoutineAnsweredAlone
<1>7. NoSecondReply'
  BY <1>2, <1>3 DEF RepliesInv, NoSecondReply
<1> QED
  BY <1>2, <1>5, <1>6, <1>7

\* A new reply keeps both promises if its own claims do.
LEMMA RepliesStayOnReply ==
  ASSUME ThreadTypeOK, RepliesInv, NEW row \in Row, AppendRow(row), row.role = "assistant",
         row.claims \subseteq Ids,
         row.kind = "reply" => row.claims \subseteq marks \cup missed,
         row.auto => Alone(row.claims) /\ Fresh(row.claims),
         UNCHANGED <<marks, missed>>
  PROVE  LoggedClaims' /\ RoutineAnsweredAlone' /\ NoSecondReply'
<1> DEFINE new == Len(thread) + 1
<1>1. /\ \A i \in Ids : thread'[i] = thread[i]
      /\ thread'[new] = row
      /\ Ids \subseteq Ids' /\ new \notin Ids
      /\ ReplyIds' \subseteq ReplyIds \cup {new}
      /\ Ids \subseteq 1..Len(thread) /\ Len(thread) \in Nat
  BY Appended DEF ThreadTypeOK, Ids
<1>2. \A q \in ReplyIds : q \in Ids /\ thread'[q] = thread[q]
  BY <1>1 DEF ReplyIds
<1>3. LoggedClaims'
  BY <1>1, <1>2 DEF RepliesInv, LoggedClaims
<1>4. RoutineAnsweredAlone'
  BY <1>1, <1>2 DEF RepliesInv, LoggedClaims, RoutineAnsweredAlone, Alone
<1>5. NoSecondReply'
  <2> SUFFICES ASSUME NEW q \in ReplyIds', NEW r \in ReplyIds',
                      NEW i \in thread'[q].claims \cap thread'[r].claims,
                      q < r, thread'[q].kind = "reply", thread'[r].auto
               PROVE  i \in missed'
    BY DEF NoSecondReply
  <2>1. q \in ReplyIds
    <3>1. r \in ReplyIds \cup {new} /\ q \in ReplyIds \cup {new}
      BY <1>1
    <3>2. ReplyIds \subseteq 1..Len(thread)
      BY <1>1, <1>2
    <3>3. new \in Nat /\ r \in Nat /\ r <= new
      BY <1>1, <3>1, <3>2
    <3>4. q # new
      BY <3>3
    <3> QED
      BY <3>1, <3>4
  <2>2. CASE r = new
    BY <1>1, <1>2, <2>1, <2>2 DEF Fresh
  <2>3. CASE r \in ReplyIds
    BY <1>2, <2>1, <2>3 DEF RepliesInv, NoSecondReply
  <2> QED
    BY <1>1, <2>2, <2>3
<1> QED
  BY <1>3, <1>4, <1>5

\* No step breaks what is known of the replies in the log and of the one the
\* fire in flight prepares.
LEMMA RepliesStep == TypeInv /\ RepliesInv /\ [Next]_vars => RepliesInv'
<1> SUFFICES ASSUME TypeInv, RepliesInv, [Next]_vars
             PROVE  RepliesInv'
  OBVIOUS
<1> DEFINE Kept == LoggedClaims' /\ RoutineAnsweredAlone' /\ NoSecondReply'
<1>1. /\ ThreadTypeOK /\ FlagsTypeOK /\ ControlTypeOK
      /\ pending \subseteq UserIds /\ claims \subseteq UserIds
      /\ UserIds \subseteq Ids /\ Ids \subseteq Nat
  BY DEF TypeInv, TypeOK, IdSetsTypeOK, UserIds, Ids
<1>2. thread' = thread /\ marks \subseteq marks' /\ missed \subseteq missed' => Kept
  BY RepliesStay
<1>3. thread' = thread => ReplyIds' = ReplyIds
  BY SameLog
<1>4. Kept /\ FireClaims' => RepliesInv'
  BY DEF RepliesInv
<1>5. FireLocalsGone => FireClaims'
  BY DEF FireLocalsGone, FireClaims, Alone, Fresh
<1>6. FireClaims
  BY DEF RepliesInv
\* A step that leaves the fire where it is, and takes back no mark.
<1>7. UNCHANGED <<thread, fireVars>> /\ marks \subseteq marks' /\ missed \subseteq missed'
        => FireClaims'
  BY <1>3, <1>6 DEF FireClaims, Alone, Fresh, fireVars
<1>8. CASE Environment
  <2>1. ASSUME NEW kind \in {"chat", "routine"}, NEW size \in Sizes, Post(kind, size)
        PROVE  RepliesInv'
    <3>1. UserRow(kind, size, 0) \in Row /\ UserRow(kind, size, 0).role = "user"
      BY RowTypes DEF UserKinds, UserRow
    <3>2. Kept /\ ReplyIds' = ReplyIds
      BY <1>1, <2>1, <3>1, RepliesStayOnPost DEF Post, history
    <3>3. \A i \in Ids : thread'[i] = thread[i]
      BY <1>1, <2>1, <3>1, Appended DEF Post, ThreadTypeOK
    <3>4. \A q \in ReplyIds : thread'[q] = thread[q]
      BY <3>3 DEF ReplyIds
    <3>5. Alone(pending)' /\ (fire # "continue" => Fresh(pending)')
      BY <1>1, <1>6, <2>1, <3>2, <3>3, <3>4 DEF FireClaims, Alone, Fresh, Post, fireVars, history
    <3>6. FireClaims'
      BY <1>6, <2>1, <3>5 DEF FireClaims, Post, fireVars, history
    <3> QED
      BY <1>4, <3>2, <3>6
  <2>2. ASSUME NEW i \in Ids, ErrorRowExpires(i) \/ Dismiss(i)
        PROVE  RepliesInv'
    BY <1>2, <1>4, <1>7, <2>2 DEF ErrorRowExpires, Dismiss, MarkRow, history
  <2>3. ASSUME GateClears
        PROVE  RepliesInv'
    BY <1>2, <1>4, <1>7, <2>3 DEF GateClears, threadVars, history
  <2> QED
    BY <1>8, <2>1, <2>2, <2>3 DEF Environment
<1>9. CASE Supervisor
  <2>1. UNCHANGED <<threadVars, history>>
    BY <1>9 DEF Supervisor, Poll, PollFails, Hold, AntiSpin, StartFire
  <2>2. CASE UNCHANGED fireVars
    BY <1>2, <1>4, <1>7, <2>1, <2>2 DEF threadVars, history
  <2>3. CASE StartFire
    <3>1. /\ fire = "idle" /\ fire' = "window"
          /\ UNCHANGED <<pending, claims, todo, auto>>
      BY <1>1, <2>3 DEF StartFire, ControlTypeOK
    <3>2. FireClaims'
      BY <1>3, <1>6, <2>1, <3>1 DEF FireClaims, Alone, Fresh, threadVars, history
    <3> QED
      BY <1>2, <1>4, <2>1, <3>2 DEF threadVars, history
  <2> QED
    BY <1>9, <2>2, <2>3 DEF Supervisor, Poll, PollFails, Hold, AntiSpin
<1>10. CASE Stop
  <2>1. ASSUME StopRequest
        PROVE  RepliesInv'
    BY <1>2, <1>4, <1>5, <1>7, <2>1 DEF StopRequest, FireTornDown, threadVars
  <2>2. ASSUME StopReads \/ StopReturns
        PROVE  RepliesInv'
    BY <1>2, <1>4, <1>7, <2>2 DEF StopReads, StopReturns, threadVars, history
  <2>3. ASSUME NEW i \in stopIds, NEW ok, StopMarks(i, ok)
        PROVE  RepliesInv'
    BY <1>2, <1>4, <1>7, <2>3 DEF StopMarks, MarkRow
  <2> QED
    BY <1>10, <2>1, <2>2, <2>3 DEF Stop
<1>11. CASE Restart
  BY <1>2, <1>4, <1>5, <1>11 DEF Restart, FireTornDown, threadVars
<1>12. CASE UNCHANGED vars
  BY <1>2, <1>4, <1>7, <1>12 DEF vars, threadVars, history
<1>13. CASE Fire
  <2>1. ASSUME ReadWindow
        PROVE  RepliesInv'
    <3> DEFINE W == Trimmed(RollingWindow)
    <3>1. W \subseteq Ids /\ Unaddressed(W) \subseteq Nat
      BY <1>1, WindowFacts
    <3>2. Alone(Select(Unaddressed(W))) /\ Fresh(Select(Unaddressed(W)))
      BY <3>1, SelectAlone, SelectFresh DEF RepliesInv
    <3>3. FireClaims'
      BY <1>3, <2>1, <3>2 DEF ReadWindow, FireClaims, Alone, Fresh, threadVars
    <3> QED
      BY <1>2, <1>4, <2>1, <3>3 DEF ReadWindow, threadVars
  <2>2. ASSUME ToolTurn \/ LLMFails \/ NextTurn \/ ClaimsDone
        PROVE  RepliesInv'
    <3>1. UNCHANGED <<threadVars, pending, history>>
      BY <2>2 DEF ToolTurn, LLMFails, NextTurn, ClaimsDone
    <3>2. FireClaims'
      BY <1>3, <1>6, <2>2, <3>1
         DEF ToolTurn, LLMFails, NextTurn, ClaimsDone, FireClaims, Alone, Fresh, threadVars, history
    <3> QED
      BY <1>2, <1>4, <3>1, <3>2 DEF threadVars, history
  <2>3. ASSUME ReadWindowFails \/ SayNothing \/ ErrorClaimsDone
        PROVE  RepliesInv'
    BY <1>2, <1>4, <1>5, <2>3
       DEF ReadWindowFails, SayNothing, ErrorClaimsDone, FireReturns, threadVars, history
  <2>4. ASSUME NEW m, NEW ok, MarkAddressed(m, ok)
        PROVE  RepliesInv'
    <3>1. /\ fire = "tools" /\ marks \subseteq marks'
          /\ UNCHANGED <<thread, fire, pending, claims, todo, auto, missed>>
      BY <2>4 DEF MarkAddressed, MarkRow
    <3>2. FireClaims'
      BY <1>3, <1>6, <3>1 DEF FireClaims, Alone, Fresh
    <3> QED
      BY <1>2, <1>4, <3>1, <3>2
  <2>5. ASSUME NEW m, NEW ok, ClaimMark(m, ok)
        PROVE  RepliesInv'
    <3>1. /\ fire \in {"claim", "errorClaim"} /\ m \in todo /\ todo' = todo \ {m}
          /\ UNCHANGED <<thread, fire, pending, claims, auto>>
          /\ \/ marks' = marks \cup {m} /\ missed' = missed
             \/ marks' = marks /\ missed' = missed \cup {m}
      BY <2>5 DEF ClaimMark, MarkRow
    <3>2. FireClaims'
      BY <1>3, <1>6, <3>1 DEF FireClaims, Alone, Fresh
    <3> QED
      BY <1>2, <1>4, <3>1, <3>2
  <2>6. ASSUME NEW named, NEW continues, Respond(named, continues) \/ RespondAstray(continues)
        PROVE  RepliesInv'
    <3>1. /\ fire \in {"tools", "llm"} /\ fire' = "claim" /\ todo' = claims'
          /\ auto' => claims' = pending
          /\ UNCHANGED <<threadVars, pending, history>>
      BY <2>6 DEF Respond, RespondAstray, AddrSet, ToMark
    <3>2. FireClaims'
      BY <1>3, <1>6, <3>1 DEF FireClaims, Alone, Fresh, threadVars, history
    <3> QED
      BY <1>2, <1>4, <3>1, <3>2 DEF threadVars, history
  <2>7. ASSUME NEW size \in Sizes, NEW ok, AppendReply(size, ok)
        PROVE  RepliesInv'
    <3> DEFINE row == ReplyRow("reply", size, claims, auto)
    <3>1. /\ fire = "reply" /\ UNCHANGED <<marks, missed>>
          /\ AppendRow(row) \/ UNCHANGED thread
      BY <2>7 DEF AppendReply
    <3>2. /\ row \in Row /\ row.role = "assistant" /\ row.claims = claims /\ row.auto = auto
      BY <1>1, RowTypes DEF ReplyRow, ReplyKinds, FlagsTypeOK
    <3>3. /\ claims \subseteq marks \cup missed
          /\ auto => Alone(claims) /\ Fresh(claims)
      BY <1>6, <3>1 DEF FireClaims
    <3> HIDE DEF row
    <3>4. ASSUME AppendRow(row)
          PROVE  Kept
      <4>1. row.claims \subseteq Ids /\ (row.auto => Alone(row.claims) /\ Fresh(row.claims))
        BY <1>1, <3>2, <3>3
      <4>2. row.kind = "reply" => row.claims \subseteq marks \cup missed
        BY <3>2, <3>3
      <4> QED
        BY <1>1, <3>1, <3>2, <3>4, <4>1, <4>2, RepliesStayOnReply
    <3>5. Kept
      BY <1>2, <3>1, <3>4
    <3>6. FireClaims'
      <4>1. CASE FireReturns
        BY <1>5, <4>1 DEF FireReturns
      <4>2. CASE fire' = "continue" /\ UNCHANGED pending
        <5>1. \A i \in Ids : thread'[i] = thread[i]
          BY <1>1, <3>1, <3>2, Appended DEF ThreadTypeOK
        <5> QED
          BY <1>1, <1>6, <4>2, <5>1 DEF FireClaims, Alone
      <4> QED
        BY <2>7, <4>1, <4>2 DEF AppendReply
    <3> QED
      BY <1>4, <3>5, <3>6
  <2>8. ASSUME NEW size \in Sizes, NEW ok, ContinueInquiry(size, ok)
        PROVE  RepliesInv'
    <3>1. \A d \in 1..MaxChain : /\ UserRow("self", size, d) \in Row
                                 /\ UserRow("self", size, d).role = "user"
      BY HarnessAssumption, RowTypes DEF HarnessAssumption, UserKinds, UserRow
    <3>2. Kept
      BY <1>1, <1>2, <2>8, <3>1, RepliesStayOnPost DEF ContinueInquiry, history
    <3> QED
      BY <1>4, <1>5, <2>8, <3>2 DEF ContinueInquiry, FireReturns
  <2>9. ASSUME NEW size \in Sizes, NEW ok, AppendError(size, ok)
        PROVE  RepliesInv'
    <3> DEFINE row == ReplyRow("error", size, claims, TRUE)
    <3>1. /\ fire = "error" /\ fire' = "errorClaim"
          /\ UNCHANGED <<marks, missed, pending, claims, auto>>
          /\ AppendRow(row) \/ UNCHANGED thread
      BY <2>9 DEF AppendError
    <3>2. /\ row \in Row /\ row.role = "assistant" /\ row.claims = claims /\ row.kind = "error"
      BY <1>1, RowTypes DEF ReplyRow, ReplyKinds
    <3>3. claims = pending /\ Alone(pending) /\ Fresh(pending)
      BY <1>6, <3>1 DEF FireClaims
    <3> HIDE DEF row
    <3>4. ASSUME AppendRow(row)
          PROVE  Kept
      <4>1. row.claims \subseteq Ids /\ (row.auto => Alone(row.claims) /\ Fresh(row.claims))
        BY <1>1, <3>2, <3>3
      <4>2. row.kind = "reply" => row.claims \subseteq marks \cup missed
        BY <3>2, <3>3
      <4> QED
        BY <1>1, <3>1, <3>2, <3>4, <4>1, <4>2, RepliesStayOnReply
    <3>5. Kept
      BY <1>2, <3>1, <3>4
    <3>6. /\ \A i \in Ids : thread'[i] = thread[i]
          /\ \A q \in ReplyIds' : q \in ReplyIds \/ thread'[q] = row
          /\ ReplyIds \subseteq Ids
      BY <1>1, <1>3, <3>1, <3>2, Appended DEF ThreadTypeOK, ReplyIds
    <3>7. Alone(pending)' /\ Fresh(pending)'
      BY <1>1, <3>1, <3>2, <3>3, <3>6 DEF Alone, Fresh
    <3>8. FireClaims'
      BY <3>1, <3>7 DEF FireClaims
    <3> QED
      BY <1>4, <3>5, <3>8
  <2> QED
    BY <1>13, <2>1, <2>2, <2>3, <2>4, <2>5, <2>6, <2>7, <2>8, <2>9 DEF Fire
<1> QED
  BY <1>8, <1>9, <1>10, <1>11, <1>12, <1>13 DEF Next

\* So it holds in every reachable state.
LEMMA RepliesInvariant == Spec => []RepliesInv
  BY RepliesInit, RepliesStep, TypeInvariant, PTL DEF Spec

\* A reply left to the fallback answers one routine fire alone, or none.
THEOREM RoutinesAreAnsweredAlone == Spec => []RoutineAnsweredAlone
  BY RepliesInvariant, PTL DEF RepliesInv

\* A message that has a reply is not answered by a later fire's fallback,
\* unless the write of its mark failed.
THEOREM FallbackAnswersOnce == Spec => []NoSecondReply
  BY RepliesInvariant, PTL DEF RepliesInv

-----------------------------------------------------------------------------
(* The agentic loop implements the inbox of module Queue: the initial      *)
(* state is an empty inbox, and every step of the supervisor, the fire,    *)
(* the stop endpoint and the outside is a step of the inbox or none.       *)


\* What the inbox shows of the state.
View == <<UserIds, marks, AnsweredIds, Excused, InHand, Unmarked>>

\* A fire that is about to report an error has marked nothing, one that is
\* about to reply has tried every mark.
InHandInv ==
  /\ fire = "error" => todo = claims
  /\ fire = "reply" => todo = {}

RefInv == TypeInv /\ CoveredIsAnswered /\ InHandInv

\* A step that keeps the log and the fire changes nothing in the inbox but
\* what it marks and excuses.
LEMMA ViewStays ==
  ASSUME UNCHANGED <<thread, fire, claims, todo>>
  PROVE  UNCHANGED <<UserIds, AnsweredIds, InHand, Unmarked>>
  BY SameLog DEF AnsweredIds, InHand, Unmarked, Claiming

\* A fire that is not claiming has nothing in hand.
LEMMA NothingInHand ==
  ASSUME fire \notin {"claim", "reply", "error", "errorClaim"}
  PROVE  InHand = {} /\ Unmarked = {}
  BY DEF InHand, Unmarked, Claiming

\* At first nothing is selected.
LEMMA InHandInit == Init => InHandInv
  BY DEF Init, InHandInv

\* No step leaves a mark behind.
LEMMA InHandStep == TypeInv /\ InHandInv /\ [Next]_vars => InHandInv'
<1> SUFFICES ASSUME TypeInv, InHandInv, [Next]_vars
             PROVE  InHandInv'
  OBVIOUS
<1> USE DEF InHandInv
<1>1. CASE Environment
  BY <1>1 DEF Environment, Post, ErrorRowExpires, GateClears, Dismiss, fireVars
<1>2. CASE Supervisor
  BY <1>2 DEF Supervisor, Poll, PollFails, Hold, AntiSpin, StartFire, fireVars
<1>3. CASE Fire
  <2>1. FireReturns => fire' = "idle"
    BY DEF FireReturns, FireLocalsGone
  <2>2. ASSUME ReadWindow \/ ReadWindowFails \/ ToolTurn \/ LLMFails \/ NextTurn \/ SayNothing
                 \/ ClaimsDone \/ ErrorClaimsDone
        PROVE  InHandInv'
    BY <2>1, <2>2 DEF ReadWindow, ReadWindowFails, ToolTurn, LLMFails, NextTurn, SayNothing,
                      ClaimsDone, ErrorClaimsDone
  <2>3. ASSUME NEW m, NEW ok, MarkAddressed(m, ok) \/ ClaimMark(m, ok)
        PROVE  InHandInv'
    BY <2>3 DEF MarkAddressed, ClaimMark
  <2>4. ASSUME NEW named, NEW continues, Respond(named, continues) \/ RespondAstray(continues)
        PROVE  InHandInv'
    BY <2>4 DEF Respond, RespondAstray
  <2>5. ASSUME NEW size, NEW ok,
               AppendReply(size, ok) \/ ContinueInquiry(size, ok) \/ AppendError(size, ok)
        PROVE  InHandInv'
    BY <2>1, <2>5 DEF AppendReply, ContinueInquiry, AppendError
  <2> QED
    BY <1>3, <2>2, <2>3, <2>4, <2>5 DEF Fire
<1>4. CASE Stop \/ Restart
  BY <1>4 DEF Stop, StopRequest, StopReads, StopMarks, StopReturns, Restart, FireTornDown,
              FireLocalsGone, fireVars
<1>5. CASE UNCHANGED vars
  BY <1>5 DEF vars, fireVars
<1> QED
  BY <1>1, <1>2, <1>3, <1>4, <1>5 DEF Next

\* The invariant the step of the refinement rests on.
LEMMA RefInvariant == Spec => []RefInv
<1>1. Spec => []InHandInv
  BY InHandInit, InHandStep, TypeInvariant, PTL DEF Spec
<1> QED
  BY <1>1, TypeInvariant, CoveredMessagesAreAnswered, PTL DEF RefInv

-----------------------------------------------------------------------------
(* The steps.                                                              *)

\* A user row in the log is a message in the inbox, and answers nothing.
LEMMA UserRowAsks ==
  ASSUME ThreadTypeOK, NEW row \in Row, row.role = "user", AppendRow(row)
  PROVE  /\ UserIds' = UserIds \cup {Len(thread) + 1}
         /\ Len(thread) + 1 \notin UserIds
         /\ AnsweredIds' = AnsweredIds
<1>1. /\ \A i \in Ids : thread'[i] = thread[i]
      /\ thread'[Len(thread) + 1] = row
      /\ Ids' = Ids \cup {Len(thread) + 1} /\ Len(thread) + 1 \notin Ids
      /\ ReplyIds \subseteq ReplyIds' /\ ReplyIds' \subseteq ReplyIds \cup {Len(thread) + 1}
  BY Appended DEF ThreadTypeOK
<1>2. UserIds' = UserIds \cup {Len(thread) + 1} /\ Len(thread) + 1 \notin UserIds
  BY <1>1 DEF UserIds
<1>3. ReplyIds' = ReplyIds /\ \A r \in ReplyIds : thread'[r] = thread[r]
  BY <1>1 DEF ReplyIds
<1> QED
  BY <1>2, <1>3 DEF AnsweredIds

\* An assistant row answers what it claims, and is no message.
LEMMA ReplyRowAnswers ==
  ASSUME ThreadTypeOK, NEW row \in Row, row.role = "assistant", AppendRow(row)
  PROVE  UserIds' = UserIds /\ AnsweredIds' = AnsweredIds \cup row.claims
<1> DEFINE new == Len(thread) + 1
<1>1. /\ \A i \in Ids : thread'[i] = thread[i]
      /\ thread'[new] = row
      /\ Ids' = Ids \cup {new} /\ new \notin Ids
      /\ UserIds \subseteq UserIds' /\ UserIds' \subseteq UserIds \cup {new}
      /\ ReplyIds \subseteq ReplyIds' /\ ReplyIds' \subseteq ReplyIds \cup {new}
  BY Appended DEF ThreadTypeOK
<1>2. UserIds' = UserIds
  BY <1>1 DEF UserIds
<1>3. ReplyIds' = ReplyIds \cup {new} /\ new \notin ReplyIds
  BY <1>1 DEF ReplyIds
<1>4. \A r \in ReplyIds : thread'[r] = thread[r]
  BY <1>1 DEF ReplyIds
<1>5. AnsweredIds' = UNION {thread'[r].claims : r \in ReplyIds \cup {new}}
  BY <1>3 DEF AnsweredIds
<1> QED
  BY <1>1, <1>2, <1>4, <1>5 DEF AnsweredIds

\* A fire that is torn down puts its batch back, or is excused for it.
LEMMA TearDownIsInterrupt ==
  ASSUME RefInv, FireTornDown, UNCHANGED <<thread, marks, decided, missed>>
  PROVE  Inbox!Interrupt \/ Inbox!PutBack
<1>1. UserIds' = UserIds /\ ReplyIds' = ReplyIds /\ AnsweredIds' = AnsweredIds
  BY SameLog DEF AnsweredIds
<1>2. InHand' = {} /\ Unmarked' = {}
  BY DEF FireTornDown, FireLocalsGone, InHand, Unmarked, Claiming
<1>3. CASE fire \in {"claim", "reply"}
  <2>1. Excused' = Excused \cup InHand
    BY <1>3 DEF FireTornDown, Excused, InHand, Claiming
  <2> QED
    BY <1>1, <1>2, <2>1 DEF Inbox!Interrupt
<1>4. CASE fire \notin {"claim", "reply"}
  <2>1. Excused' = Excused
    BY <1>4 DEF FireTornDown, Excused
  <2>2. marks \subseteq AnsweredIds \cup Excused
    BY <1>4 DEF RefInv, CoveredIsAnswered, Answered, AnsweredIds, Excused
  <2> QED
    BY <1>1, <1>2, <2>1, <2>2 DEF Inbox!PutBack
<1> QED
  BY <1>3, <1>4

\* What arrives from outside.
LEMMA EnvironmentStep ==
  ASSUME RefInv, Environment
  PROVE  Inbox!Next \/ UNCHANGED View
<1>1. ASSUME NEW kind \in {"chat", "routine"}, NEW size \in Sizes, Post(kind, size)
      PROVE  Inbox!Ask
  <2>1. UserRow(kind, size, 0) \in Row /\ UserRow(kind, size, 0).role = "user"
    BY RowTypes DEF UserKinds, UserRow
  <2>2. AppendRow(UserRow(kind, size, 0)) /\ UNCHANGED <<marks, fire, claims, todo, history>>
    BY <1>1 DEF Post, fireVars
  <2>3. UserIds' = UserIds \cup {Len(thread) + 1} /\ Len(thread) + 1 \notin UserIds
          /\ AnsweredIds' = AnsweredIds
    BY <2>1, <2>2, UserRowAsks DEF RefInv, TypeInv, TypeOK
  <2>4. UNCHANGED <<marks, Excused, InHand, Unmarked>>
    BY <2>2 DEF history, Excused, InHand, Unmarked, Claiming
  <2> QED
    BY <2>3, <2>4 DEF Inbox!Ask
<1>2. ASSUME NEW i \in Ids, ErrorRowExpires(i)
      PROVE  UNCHANGED View
  BY <1>2, ViewStays DEF ErrorRowExpires, View, Excused, fireVars, history
<1>3. ASSUME NEW i \in Ids, Dismiss(i)
      PROVE  Inbox!StrikeByName
  <2>1. i \in UserIds
    BY <1>3, WindowFacts DEF Dismiss
  <2>2. UNCHANGED <<UserIds, AnsweredIds, InHand, Unmarked>>
    BY <1>3, ViewStays DEF Dismiss, fireVars
  <2>3. marks' = marks \cup {i} /\ Excused' = Excused \cup {i}
    BY <1>3 DEF Dismiss, MarkRow, Excused
  <2> QED
    BY <2>1, <2>2, <2>3 DEF Inbox!StrikeByName
<1>4. ASSUME GateClears
      PROVE  UNCHANGED View
  BY <1>4, ViewStays DEF GateClears, View, Excused, fireVars, threadVars, history
<1> QED
  BY <1>1, <1>2, <1>3, <1>4 DEF Environment, Inbox!Next

\* The supervisor touches nothing of the inbox.
LEMMA SupervisorStep ==
  ASSUME RefInv, Supervisor
  PROVE  UNCHANGED View
<1>1. UNCHANGED <<threadVars, history, claims, todo>>
  BY DEF Supervisor, Poll, PollFails, Hold, AntiSpin, StartFire, fireVars
<1>2. UNCHANGED <<UserIds, AnsweredIds, Excused, marks>>
  BY <1>1, SameLog DEF threadVars, history, AnsweredIds, Excused
<1>3. CASE UNCHANGED fire
  BY <1>1, <1>2, <1>3 DEF View, InHand, Unmarked, Claiming
<1>4. CASE StartFire
  <2>1. fire = "idle" /\ fire' = "window"
    BY <1>4 DEF StartFire, RefInv, TypeInv, TypeOK, ControlTypeOK
  <2> QED
    BY <1>2, <2>1 DEF View, InHand, Unmarked, Claiming
<1> QED
  BY <1>3, <1>4 DEF Supervisor, Poll, PollFails, Hold, AntiSpin, fireVars

\* The turns of a fire, until it takes its batch.
LEMMA TurnStep ==
  ASSUME RefInv,
         \/ ReadWindow \/ ReadWindowFails \/ ToolTurn \/ NextTurn \/ SayNothing
         \/ ClaimsDone
  PROVE  UNCHANGED View
<1>1. UNCHANGED <<thread, marks, decided, broken, missed>>
  BY DEF ReadWindow, ReadWindowFails, ToolTurn, NextTurn, SayNothing, ClaimsDone, threadVars,
         history
<1>2. UNCHANGED <<UserIds, AnsweredIds, Excused, marks>>
  BY <1>1, SameLog DEF AnsweredIds, Excused
<1>3. CASE ClaimsDone
  BY <1>2, <1>3 DEF ClaimsDone, View, InHand, Unmarked, Claiming
<1>4. CASE ~ClaimsDone
  <2>1. ~Claiming /\ fire' \in {"idle", "llm", "tools"}
    BY <1>4 DEF ReadWindow, ReadWindowFails, ToolTurn, NextTurn, SayNothing, FireReturns,
                FireLocalsGone, Claiming
  <2> QED
    BY <1>2, <2>1 DEF View, InHand, Unmarked, Claiming
<1> QED
  BY <1>3, <1>4

\* A fire takes its batch when its answer or its error is certain.
LEMMA TakeStep ==
  ASSUME RefInv,
         \/ LLMFails
         \/ \E named, continues : Respond(named, continues) \/ RespondAstray(continues)
  PROVE  Inbox!Take
<1>1. /\ fire \in {"llm", "tools"} /\ fire' \in {"claim", "error"}
      /\ todo' = claims'
      /\ UNCHANGED <<thread, marks, decided, broken, missed>>
  BY DEF LLMFails, Respond, RespondAstray, ToMark, threadVars, history
<1>2. claims' \subseteq UserIds
  BY DEF LLMFails, Respond, RespondAstray, AddrSet, RefInv, TypeInv, TypeOK, IdSetsTypeOK
<1>3. UNCHANGED <<UserIds, AnsweredIds, Excused, marks>>
  BY <1>1, SameLog DEF AnsweredIds, Excused
<1>4. InHand = {} /\ InHand' = claims' /\ Unmarked' = claims'
  BY <1>1 DEF InHand, Unmarked, Claiming
<1> QED
  BY <1>2, <1>3, <1>4 DEF Inbox!Take

\* Marks by name, and the marks of the claim.
LEMMA MarkStep ==
  ASSUME RefInv, NEW m, NEW ok \in BOOLEAN, MarkAddressed(m, ok) \/ ClaimMark(m, ok)
  PROVE  Inbox!Next \/ UNCHANGED View
<1>1. UNCHANGED <<UserIds, AnsweredIds>>
  BY SameLog DEF MarkAddressed, ClaimMark, AnsweredIds
<1>2. CASE MarkAddressed(m, ok)
  <2>1. UNCHANGED <<InHand, Unmarked>>
    BY <1>2 DEF MarkAddressed, InHand, Unmarked, Claiming
  <2>2. CASE ok
    <3>1. m \in UserIds /\ marks' = marks \cup {m} /\ Excused' = Excused \cup {m}
      BY <1>2, <2>2 DEF MarkAddressed, MarkRow, Excused
    <3> QED
      BY <1>1, <2>1, <3>1 DEF Inbox!StrikeByName, Inbox!Next
  <2>3. CASE ~ok
    BY <1>1, <1>2, <2>1, <2>3 DEF MarkAddressed, View, Excused
  <2> QED
    BY <2>2, <2>3
<1>3. CASE ClaimMark(m, ok)
  <2>1. m \in Unmarked /\ Unmarked' = Unmarked \ {m} /\ InHand' = InHand
    BY <1>3 DEF ClaimMark, InHand, Unmarked, Claiming
  <2>2. \/ marks' = marks \cup {m} /\ Excused' = Excused
        \/ Excused' = Excused \cup {m} /\ marks' = marks
    BY <1>3 DEF ClaimMark, MarkRow, Excused
  <2> QED
    BY <1>1, <2>1, <2>2 DEF Inbox!Strike, Inbox!Next
<1> QED
  BY <1>2, <1>3

\* The reply and the error row settle the batch.
LEMMA AppendStep ==
  ASSUME RefInv, NEW size \in Sizes, NEW ok \in BOOLEAN,
         AppendReply(size, ok) \/ AppendError(size, ok)
  PROVE  Inbox!Settle
<1>1. ThreadTypeOK /\ auto \in BOOLEAN /\ claims \in SUBSET Nat /\ todo \subseteq claims
  BY DEF RefInv, TypeInv, TypeOK, FlagsTypeOK, IdSetsTypeOK, UserIds, Ids
<1>2. UNCHANGED <<marks, decided, missed>>
  BY DEF AppendReply, AppendError
<1>3. /\ Unmarked \in {{}, InHand} /\ InHand = claims
      /\ InHand' = InHand \/ InHand' = {}
      /\ Unmarked' = Unmarked \cap InHand'
  <2>1. CASE AppendReply(size, ok)
    <3>1. fire = "reply" /\ fire' \in {"continue", "idle"} /\ todo = {}
      BY <2>1 DEF AppendReply, FireReturns, FireLocalsGone, RefInv, InHandInv
    <3> QED
      BY <3>1 DEF InHand, Unmarked, Claiming
  <2>2. CASE AppendError(size, ok)
    <3>1. fire = "error" /\ fire' = "errorClaim" /\ todo = claims /\ UNCHANGED <<claims, todo>>
      BY <2>2 DEF AppendError, RefInv, InHandInv
    <3> QED
      BY <3>1 DEF InHand, Unmarked, Claiming
  <2> QED
    BY <2>1, <2>2
<1>4. CASE ok
  <2>1. PICK row \in Row : row.role = "assistant" /\ row.claims = claims /\ AppendRow(row)
    <3>1. /\ ReplyRow("reply", size, claims, auto) \in Row
          /\ ReplyRow("error", size, claims, TRUE) \in Row
      BY <1>1, RowTypes DEF ReplyKinds
    <3>2. /\ ReplyRow("reply", size, claims, auto).role = "assistant"
          /\ ReplyRow("reply", size, claims, auto).claims = claims
          /\ ReplyRow("error", size, claims, TRUE).role = "assistant"
          /\ ReplyRow("error", size, claims, TRUE).claims = claims
      BY DEF ReplyRow
    <3> QED
      BY <1>4, <3>1, <3>2 DEF AppendReply, AppendError
  <2>2. UserIds' = UserIds /\ AnsweredIds' = AnsweredIds \cup claims
    BY <1>1, <2>1, ReplyRowAnswers
  <2>3. Excused' = Excused
    BY <1>2, <1>4 DEF AppendReply, AppendError, Excused
  <2> QED
    BY <1>2, <1>3, <2>2, <2>3 DEF Inbox!Settle
<1>5. CASE ~ok
  <2>1. UNCHANGED <<UserIds, AnsweredIds>>
    BY <1>5, SameLog DEF AppendReply, AppendError, AnsweredIds
  <2>2. Excused' = Excused \cup claims
    BY <1>2, <1>5 DEF AppendReply, AppendError, Excused
  <2> QED
    BY <1>2, <1>3, <2>1, <2>2 DEF Inbox!Settle
<1> QED
  BY <1>4, <1>5

\* A self-continuation is one more message.
LEMMA ContinueStep ==
  ASSUME RefInv, NEW size \in Sizes, NEW ok \in BOOLEAN, ContinueInquiry(size, ok)
  PROVE  Inbox!Ask \/ UNCHANGED View
<1>1. UNCHANGED <<marks, Excused, InHand, Unmarked>>
  BY DEF ContinueInquiry, FireReturns, FireLocalsGone, history, Excused, InHand, Unmarked, Claiming
<1>2. CASE UNCHANGED thread
  BY <1>1, <1>2, SameLog DEF View, AnsweredIds
<1>3. ASSUME NEW d \in 1..MaxChain, AppendRow(UserRow("self", size, d))
      PROVE  Inbox!Ask
  <2>1. UserRow("self", size, d) \in Row /\ UserRow("self", size, d).role = "user"
    BY HarnessAssumption, RowTypes DEF HarnessAssumption, UserKinds, UserRow
  <2>2. UserIds' = UserIds \cup {Len(thread) + 1} /\ Len(thread) + 1 \notin UserIds
          /\ AnsweredIds' = AnsweredIds
    BY <1>3, <2>1, UserRowAsks DEF RefInv, TypeInv, TypeOK
  <2> QED
    BY <1>1, <2>2 DEF Inbox!Ask
<1> QED
  BY <1>2, <1>3 DEF ContinueInquiry

\* The stop endpoint, and a restart.
LEMMA StopStep ==
  ASSUME RefInv, Stop \/ Restart
  PROVE  Inbox!Next \/ UNCHANGED View
<1>1. CASE StopRequest
  <2>1. UNCHANGED <<thread, marks, decided, missed>>
    BY <1>1 DEF StopRequest, threadVars
  <2>2. CASE fire # "idle"
    BY <1>1, <2>1, <2>2, TearDownIsInterrupt DEF StopRequest, Inbox!Next
  <2>3. CASE fire = "idle"
    BY <1>1, <2>1, <2>3, ViewStays DEF StopRequest, fireVars, View, Excused
  <2> QED
    BY <2>2, <2>3
<1>2. CASE StopReads \/ StopReturns
  BY <1>2, ViewStays DEF StopReads, StopReturns, threadVars, fireVars, history, View, Excused
<1>3. ASSUME NEW i \in stopIds, NEW ok \in BOOLEAN, StopMarks(i, ok)
      PROVE  Inbox!StrikeByName \/ UNCHANGED View
  <2>1. UNCHANGED <<UserIds, AnsweredIds, InHand, Unmarked>> /\ i \in UserIds
    BY <1>3, ViewStays DEF StopMarks, fireVars, RefInv, TypeInv, TypeOK, IdSetsTypeOK
  <2>2. CASE ok
    <3>1. marks' = marks \cup {i} /\ Excused' = Excused \cup {i}
      BY <1>3, <2>2 DEF StopMarks, MarkRow, Excused
    <3> QED
      BY <2>1, <3>1 DEF Inbox!StrikeByName
  <2>3. CASE ~ok
    BY <1>3, <2>1, <2>3 DEF StopMarks, View, Excused
  <2> QED
    BY <2>2, <2>3
<1>4. CASE Restart
  BY <1>4, TearDownIsInterrupt DEF Restart, threadVars, Inbox!Next
<1> QED
  BY <1>1, <1>2, <1>3, <1>4 DEF Stop, Inbox!Next

\* A fire that has marked its error's messages is done with them.
LEMMA DoneStep ==
  ASSUME RefInv, ErrorClaimsDone
  PROVE  Inbox!PutBack
<1>1. fire = "errorClaim" /\ InHand' = {} /\ Unmarked' = {}
  BY DEF ErrorClaimsDone, FireReturns, FireLocalsGone, InHand, Unmarked, Claiming
<1>2. UNCHANGED <<UserIds, marks, AnsweredIds, Excused>>
  BY SameLog DEF ErrorClaimsDone, threadVars, history, AnsweredIds, Excused
<1>3. marks \subseteq AnsweredIds \cup Excused
  BY <1>1 DEF RefInv, CoveredIsAnswered, Answered, AnsweredIds, Excused
<1> QED
  BY <1>1, <1>2, <1>3 DEF Inbox!PutBack

\* Every step of the loop is a step of the inbox, or the inbox does not see it.
LEMMA InboxStep ==
  ASSUME RefInv, [Next]_vars
  PROVE  Inbox!Next \/ UNCHANGED View
<1>1. CASE Environment
  BY <1>1, EnvironmentStep
<1>2. CASE Supervisor
  BY <1>2, SupervisorStep
<1>3. CASE Stop \/ Restart
  BY <1>3, StopStep
<1>4. CASE Fire
  <2>1. CASE \/ ReadWindow \/ ReadWindowFails \/ ToolTurn \/ NextTurn \/ SayNothing \/ ClaimsDone
    BY <2>1, TurnStep
  <2>2. CASE \/ LLMFails
             \/ \E named, continues : Respond(named, continues) \/ RespondAstray(continues)
    BY <2>2, TakeStep DEF Inbox!Next
  <2>3. CASE \E m, ok : ok \in BOOLEAN /\ (MarkAddressed(m, ok) \/ ClaimMark(m, ok))
    BY <2>3, MarkStep
  <2>4. CASE \E size \in Sizes, ok \in BOOLEAN : AppendReply(size, ok) \/ AppendError(size, ok)
    BY <2>4, AppendStep DEF Inbox!Next
  <2>5. CASE \E size \in Sizes, ok \in BOOLEAN : ContinueInquiry(size, ok)
    BY <2>5, ContinueStep DEF Inbox!Next
  <2>6. CASE ErrorClaimsDone
    BY <2>6, DoneStep DEF Inbox!Next
  <2> QED
    BY <1>4, <2>1, <2>2, <2>3, <2>4, <2>5, <2>6 DEF Fire
<1>5. CASE UNCHANGED vars
  BY <1>5, ViewStays DEF vars, threadVars, fireVars, history, View, Excused
<1> QED
  BY <1>1, <1>2, <1>3, <1>4, <1>5 DEF Next

\* The first state is an empty inbox.
LEMMA InboxInit == Init => Inbox!Init
  BY DEF Init, ThreadInit, Inbox!Init, UserIds, ReplyIds, Ids, AnsweredIds, Excused, InHand,
         Unmarked, Claiming

\* The agentic loop implements the inbox: whatever fails and whoever
\* interrupts, each fire works one batch at a time and answers it as a whole.
THEOREM LoopImplementsInbox == Spec => WorksTheInbox
<1>1. RefInv /\ [Next]_vars => [Inbox!Next]_(Inbox!queueVars)
  BY InboxStep DEF View, Inbox!queueVars
<1> QED
  BY <1>1, InboxInit, RefInvariant, PTL DEF Spec, WorksTheInbox, Inbox!Spec

=============================================================================
