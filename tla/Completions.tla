---------------------------- MODULE Completions ----------------------------
(***************************************************************************)
(* The OpenAI-compatible endpoint (api/server.py): a request puts its turn *)
(* into the lake, the puddle and the thread, and then polls the lake for   *)
(* rows that address the turn, until some arrive, the client hangs up or   *)
(* the deadline passes.                                                    *)
(*                                                                         *)
(* All requests are of one session.  Fathom (Harness) is the environment:  *)
(* it writes rows that address any turns, answers or reports of an         *)
(* upstream error.  The cards of the former witness, for which the code    *)
(* still polls, have no writer any more and are left out; so are requests  *)
(* without text, answered at once, and the limit of 20 rows per poll.      *)
(***************************************************************************)
EXTENDS Naturals, Sequences, FiniteSets, Functions

CONSTANTS
  Requests,   \* requests of the session
  Streamed,   \* those that want a stream
  Texts,      \* what users say
  MaxReplies, \* bound: rows Fathom writes
  MaxFumbles  \* bound: calls that fail

VARIABLES
  turns,   \* rows of the thread, oldest first
  ask,     \* each request
  fumbles  \* calls failed so far (bounds the environment)

completionVars == <<turns, ask, fumbles>>

\* A request: where it stands, what it says, the end of the thread when it
\* came (after_iso), its turn (0 if it knows none), the rows it has sent on,
\* and how it finished.
Before == [pc |-> "no", text |-> CHOOSE t \in Texts : TRUE, after |-> 0, own |-> 0,
           out |-> << >>, finish |-> "none"]

CompletionsInit ==
  /\ turns = << >> /\ ask = [r \in Requests |-> Before] /\ fumbles = 0

Fumble(ok) == IF ok THEN UNCHANGED fumbles ELSE fumbles < MaxFumbles /\ fumbles' = fumbles + 1

\* chat_completions() takes the time; the copy of the turn in the lake, which
\* may fail, and the intent in the puddle are rows that nothing here reads.
Arrive(r) ==
  /\ ask[r].pc = "no"
  /\ \E t \in Texts :
       ask' = [ask EXCEPT ![r] = [Before EXCEPT !.pc = "append", !.text = t, !.after = Len(turns)]]
  /\ UNCHANGED <<turns, fumbles>>

\* The duplicate check of the store: the session's last turn has this text.
RepeatsLast(r) ==
  LET said == SelectSeq(turns, LAMBDA row : row.role = "user")
  IN  said # << >> /\ said[Len(said)].text = ask[r].text

\* thread.append(): a repetition is dropped and has no id.  When the call
\* fails the turn may be in the thread all the same, and the request does not
\* know it.
AppendTurn(r, ok, lands) ==
  /\ ask[r].pc = "append"
  /\ Fumble(ok)
  /\ ok => lands
  /\ LET fresh == lands /\ ~RepeatsLast(r) IN
       /\ turns' = IF fresh
                   THEN Append(turns, [role |-> "user", by |-> r, text |-> ask[r].text,
                                       to |-> {}, kind |-> "turn"])
                   ELSE turns
       /\ ask' = [ask EXCEPT ![r].pc = "wait", ![r].own = IF ok /\ fresh THEN Len(turns') ELSE 0]

\* Fathom writes a row that addresses some turns; it may be empty.
FathomReplies(to, kind) ==
  /\ Len(SelectSeq(turns, LAMBDA row : row.role = "assistant")) < MaxReplies
  /\ \A i \in to : turns[i].role = "user"
  /\ turns' = Append(turns, [role |-> "assistant", by |-> {}, text |-> "none", to |-> to, kind |-> kind])
  /\ UNCHANGED <<ask, fumbles>>

\* Variant: the rows for any turn of the session.
RowsForSession(r) ==
  {i \in (ask[r].after + 1)..Len(turns) : ask[r].own # 0 /\ turns[i].to # {} /\ turns[i].kind # "empty"}

\* Variant: only the newest row is looked at.
RowsForNewest(r) == {i \in {Len(turns)} \ {0} : ask[r].own \in turns[i].to /\ turns[i].kind # "empty"}

\* _poll_thread_assistant(): none of them has been seen, since the first to be
\* seen end the request.
RowsFor(r) ==
  {i \in (ask[r].after + 1)..Len(turns) : ask[r].own \in turns[i].to /\ turns[i].kind # "empty"}

\* A stream sends rows as the query returns them, newest first; an unstreamed
\* answer joins them oldest first.
Ordered(r, rows) ==
  {out \in [1..Cardinality(rows) -> rows] :
     \A i, j \in 1..Cardinality(rows) : i < j => IF r \in Streamed THEN out[i] > out[j] ELSE out[i] < out[j]}

\* How a request ends that has rows to send: an unstreamed one with status 503
\* if it holds an error.  The stream sets "error", too, and then takes it back
\* because it has sent something.
FinishOf(r, rows) == IF r \notin Streamed /\ (\E i \in rows : turns[i].kind = "error") THEN "error" ELSE "stop"

\* A lap of the loop of _await_witness_reply() or _openai_stream() that finds
\* rows, and with them its end.
PollFinds(r) ==
  /\ ask[r].pc = "wait"
  /\ LET rows == RowsFor(r) IN
       /\ rows # {}
       /\ \E out \in Ordered(r, rows) :
            ask' = [ask EXCEPT ![r].pc = "closed", ![r].out = out, ![r].finish = FinishOf(r, rows)]
  /\ UNCHANGED <<turns, fumbles>>

\* The loop finds the deadline past.
Deadline(r) ==
  /\ ask[r].pc = "wait"
  /\ ask' = [ask EXCEPT ![r].pc = "closed", ![r].finish = "timeout"]
  /\ UNCHANGED <<turns, fumbles>>

\* The client hangs up, and the loop finds out.
Disconnected(r) ==
  /\ ask[r].pc = "wait"
  /\ ask' = [ask EXCEPT ![r].pc = "closed", ![r].finish = "gone"]
  /\ UNCHANGED <<turns, fumbles>>

Fathom ==
  \E to \in SUBSET (1..Len(turns)) \ {{}}, kind \in {"answer", "error", "empty"} : FathomReplies(to, kind)
Serve(r) ==
  \/ Arrive(r) \/ PollFinds(r) \/ Deadline(r) \/ Disconnected(r)
  \/ \E ok, lands \in BOOLEAN : AppendTurn(r, ok, lands)

CompletionsNext == Fathom \/ \E r \in Requests : Serve(r)

\* Polls go on; nothing has to fail, and clients have no end of patience.
CompletionsSpec == CompletionsInit /\ [][CompletionsNext]_completionVars
CompletionsFairness == \A r \in Requests : WF_completionVars(PollFinds(r))
CompletionsFairSpec == CompletionsSpec /\ CompletionsFairness
-----------------------------------------------------------------------------
Outcomes == {"none", "stop", "error", "timeout", "gone"}

\* Every variable has its type, and a request is finished when it is closed.
CompletionsTypeOK ==
  /\ \A i \in 1..Len(turns) : turns[i].to \subseteq 1..(i - 1)
  /\ \A r \in Requests :
       /\ ask[r].pc \in {"no", "append", "wait", "closed"}
       /\ ask[r].text \in Texts /\ ask[r].finish \in Outcomes
       /\ ask[r].own \in 0..Len(turns) /\ ask[r].out \in Seq(1..Len(turns))
       /\ (ask[r].finish # "none") = (ask[r].pc = "closed")
  /\ fumbles \in 0..MaxFumbles

\* What a client receives answers its own turn, not an earlier or a parallel
\* one of the session, no row of it comes twice, and an upstream error is
\* not taken for an answer by a client that did not ask for a stream.
AnswersFindTheirAsker ==
  \A r \in Requests :
    LET out == ask[r].out IN
    /\ \A k \in DOMAIN out : \E turn \in turns[out[k]].to : turns[turn].by = r
    /\ IsInjective(out)
    /\ (r \notin Streamed /\ \E k \in DOMAIN out : turns[out[k]].kind = "error") => ask[r].finish = "error"

\* A request whose turn Fathom has answered does not wait on for ever: it gets
\* the answer, unless it gives up first.  One whose turn was dropped as a
\* repetition, or that could not learn which turn is its own, is not covered.
AnsweredReturn ==
  \A r \in Requests :
    (ask[r].own # 0 /\ \E i \in 1..Len(turns) : turns[i].kind # "empty" /\ ask[r].own \in turns[i].to)
      ~> ask[r].pc = "closed"

\* A stream that has carried an upstream error closes with finish_reason
\* "error", so that the client knows it was no answer.
ErrorsAreMarked ==
  \A r \in Requests :
    (ask[r].pc = "closed" /\ \E k \in DOMAIN ask[r].out : turns[ask[r].out[k]].kind = "error") => ask[r].finish = "error"
=============================================================================
