------------------------------- MODULE Thread -------------------------------
(***************************************************************************)
(* The single global thread (api/thread.py).  Every surface appends its    *)
(* messages to one lake-backed log, and the only queue the system has is   *)
(* derived from it: the user rows of the rolling window that no tally      *)
(* mark covers.                                                            *)
(*                                                                         *)
(* A row's id is its position in the log.  Row contents are reduced to the *)
(* fields the harness decides on; a row's size is its token estimate in    *)
(* arbitrary units.                                                        *)
(***************************************************************************)
EXTENDS Naturals, Sequences, FiniteSets, FiniteSetsExt

CONSTANTS
  WindowMessages,  \* rows in the rolling window (15 in the code)
  WindowTokens,    \* token budget of a fire's window (12000 in the code)
  Sizes            \* the token estimates a row can have

ASSUME WindowAssumption ==
  /\ WindowMessages \in Nat \ {0}
  /\ WindowTokens \in Nat
  /\ Sizes \subseteq Nat \ {0}

VARIABLES
  thread,   \* the rows with kind:thread-msg, oldest first
  marks,    \* ids covered by a kind:tally-mark delta
  expired   \* ids of rows whose expires_at has passed

threadVars == <<thread, marks, expired>>

(***************************************************************************)
(* A user row asks for attention; an assistant row says which user rows it *)
(* answers.  "auto" tells the claims the harness made by itself from those *)
(* the model named: it is history, no code reads it.                       *)
(***************************************************************************)
UserKinds == {"chat", "routine", "self"}
ReplyKinds == {"reply", "error"}

Row ==
  [role : {"user"}, kind : UserKinds, size : Sizes, depth : Nat,
   claims : {{}}, auto : {FALSE}]
  \cup
  [role : {"assistant"}, kind : ReplyKinds, size : Sizes, depth : {0},
   claims : SUBSET Nat, auto : BOOLEAN]

UserRow(kind, size, depth) ==
  [role |-> "user", kind |-> kind, size |-> size, depth |-> depth,
   claims |-> {}, auto |-> FALSE]

\* Variant: the reply does not say what it answers.
ReplyRowUnaddressed(kind, size, claims, auto) ==
  [role |-> "assistant", kind |-> kind, size |-> size, depth |-> 0,
   claims |-> {}, auto |-> auto]

ReplyRow(kind, size, claims, auto) ==
  [role |-> "assistant", kind |-> kind, size |-> size, depth |-> 0,
   claims |-> claims, auto |-> auto]

Ids == 1..Len(thread)
UserIds == {i \in Ids : thread[i].role = "user"}
ReplyIds == {i \in Ids : thread[i].role = "assistant"}

\* The lake's default read filter drops expired rows.
Live == Ids \ expired

\* tail(): the newest WindowMessages rows that are still readable.
RollingWindow == {i \in Live : Cardinality({j \in Live : j > i}) < WindowMessages}

Tokens(S) == MapThenSumSet(LAMBDA i : thread[i].size, S)

\* tail(max_tokens): drop rows from the head while more than one is left and
\* the estimate exceeds the budget.
Trimmed(S) ==
  {i \in S : \/ Tokens({j \in S : j >= i}) <= WindowTokens
             \/ \A j \in S : j <= i}

\* unaddressed(): the user rows of a window that no mark covers.
Unaddressed(S) == {i \in S : thread[i].role = "user" /\ i \notin marks}

\* What the supervisor polls: build_window() without a token budget.
Pending == Unaddressed(RollingWindow)

AppendRow(row) == thread' = Append(thread, row)
MarkRow(i) == marks' = marks \cup {i}

ThreadInit == thread = << >> /\ marks = {} /\ expired = {}

ThreadTypeOK ==
  /\ thread \in Seq(Row)
  /\ marks \subseteq UserIds
  /\ expired \subseteq ReplyIds

=============================================================================
