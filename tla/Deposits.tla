------------------------------ MODULE Deposits ------------------------------
(* What brings rows into the lake besides the sources: the agent's plugins   *)
(* (Watchers) and its pusher, and transfers in bulk.                         *)
EXTENDS Pusher, Watchers, Transfer

\* Pusher and Watchers: a delta of the agent is written once unless an answer
\* was lost, and reloads and restarts do not repeat what the lake has.  Transfer: what
\* is brought in skips or spares what is there, and vectors are those of their rows.
NothingTwice == PushedOnce /\ NoEchoes /\ TransfersAreTrue
=============================================================================
