-------------------------------- MODULE Queue --------------------------------
(***************************************************************************)
(* What the agentic loop promises to whoever posts a message: an inbox     *)
(* worked by one worker.  Messages only arrive.  The worker takes a batch  *)
(* of them, tries to strike every one off the list, and answers the batch  *)
(* as a whole, before the first stroke or after the last one.  A message   *)
(* is struck off in its batch or by somebody who says so; where a fault    *)
(* parts a stroke from its answer, the message counts as excused.          *)
(***************************************************************************)
EXTENDS Naturals

VARIABLES
  asked,     \* the messages that arrived
  struck,    \* those that are off the list
  answered,  \* those that an answer names
  excused,   \* those struck off by name, and those a fault took its toll on
  batch,     \* what the worker is about to answer
  left       \* what of it still awaits its stroke

queueVars == <<asked, struck, answered, excused, batch, left>>

Init ==
  /\ asked = {} /\ struck = {} /\ answered = {} /\ excused = {}
  /\ batch = {} /\ left = {}

\* A message arrives.
Ask ==
  /\ \E i \in asked' \ asked : asked' = asked \cup {i}
  /\ UNCHANGED <<struck, answered, excused, batch, left>>

\* The model or the operator strikes a message off by name.
StrikeByName ==
  /\ \E i \in asked : struck' = struck \cup {i} /\ excused' = excused \cup {i}
  /\ UNCHANGED <<asked, answered, batch, left>>

\* The worker, with nothing in hand, takes a batch.
Take ==
  /\ batch = {} /\ batch' \subseteq asked
  /\ left' = batch'
  /\ UNCHANGED <<asked, struck, answered, excused>>

\* One message of the batch is struck off, or the stroke misses.
Strike ==
  /\ \E i \in left :
       /\ left' = left \ {i}
       /\ \/ struck' = struck \cup {i} /\ UNCHANGED excused
          \/ excused' = excused \cup {i} /\ UNCHANGED struck
  /\ UNCHANGED <<asked, answered, batch>>

\* The batch is answered, or its answer is lost, all of it.
Settle ==
  /\ left \in {{}, batch}
  /\ \/ answered' = answered \cup batch /\ UNCHANGED excused
     \/ excused' = excused \cup batch /\ UNCHANGED answered
  /\ batch' = batch \/ batch' = {}
  /\ left' = left \cap batch'
  /\ UNCHANGED <<asked, struck>>

\* The worker is interrupted: what it has in hand is excused.
Interrupt ==
  /\ excused' = excused \cup batch
  /\ batch' = {} /\ left' = {}
  /\ UNCHANGED <<asked, struck, answered>>

\* The worker is done with the batch: nothing in it is off the list without
\* an answer or an excuse.
PutBack ==
  /\ batch \cap struck \subseteq answered \cup excused
  /\ batch' = {} /\ left' = {}
  /\ UNCHANGED <<asked, struck, answered, excused>>

Next == Ask \/ StrikeByName \/ Take \/ Strike \/ Settle \/ Interrupt \/ PutBack

Spec == Init /\ [][Next]_queueVars

\* What the spec is for: no message leaves the list unanswered and unexcused.
NothingSlips == struck \subseteq answered \cup excused \cup batch

=============================================================================
