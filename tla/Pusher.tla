------------------------------- MODULE Pusher -------------------------------
(***************************************************************************)
(* The agent's way to the lake (addons/agent/pusher.js): plugins push      *)
(* deltas on a queue, a timer takes the whole queue every two seconds and  *)
(* posts it one delta after the other.  The timer does not wait for the    *)
(* flush before it, so flushes overlap.  A post that is answered with an   *)
(* error is given up, one that fails goes back to the end of the queue.    *)
(***************************************************************************)
EXTENDS Naturals, Sequences, SequencesExt

CONSTANTS
  Flushes,   \* flushes that can be under way at once
  MaxDeltas, \* bound: deltas pushed; they are numbered in order
  MaxLosses  \* bound: posts that fail or are refused

VARIABLES
  queue,   \* this.queue
  batch,   \* what each flush has left to post
  stopped, \* has stop() been called? The process exits right after it
  pushed,  \* deltas pushed so far
  lake,    \* what the delta store has written, in order
  refused, \* history: deltas that the api refused
  unheard, \* history: deltas posted without an answer
  losses   \* things gone wrong so far (bounds the environment)

pusherVars == <<queue, batch, stopped, pushed, lake, refused, unheard, losses>>

PusherInit ==
  /\ queue = << >> /\ batch = [f \in Flushes |-> << >>] /\ stopped = FALSE /\ pushed = 0
  /\ lake = << >> /\ refused = {} /\ unheard = {} /\ losses = 0

PushDelta ==
  /\ ~stopped /\ pushed < MaxDeltas
  /\ pushed' = pushed + 1 /\ queue' = Append(queue, pushed + 1)
  /\ UNCHANGED <<batch, stopped, lake, refused, unheard, losses>>

\* Variant: the queue is emptied when the flush has ended.
LeftAll(f) == queue

\* The queue after splice(0).
Left(f) == << >>

\* flush() takes all there is.
Flush(f) ==
  /\ ~stopped /\ queue # << >> /\ batch[f] = << >>
  /\ batch' = [batch EXCEPT ![f] = queue] /\ queue' = Left(f)
  /\ UNCHANGED <<stopped, pushed, lake, refused, unheard, losses>>

\* The store drops a delta that repeats the newest row of its tags.
StoredDelta(d) == IF lake # << >> /\ Last(lake) = d THEN lake ELSE Append(lake, d)

\* The next post of a flush, and its answer.
Posts(f, d) ==
  /\ ~stopped /\ batch[f] # << >> /\ d = Head(batch[f])
  /\ batch' = [batch EXCEPT ![f] = Tail(@)]
  /\ UNCHANGED <<stopped, pushed>>

PostAccepted(f) ==
  \E d \in 1..pushed :
    /\ Posts(f, d) /\ lake' = StoredDelta(d)
    /\ UNCHANGED <<queue, refused, unheard, losses>>

\* Variant: a post that raises is given up as well.
GiveUp(d) == queue

\* The queue after a post that raises.
Requeue(d) == Append(queue, d)

PostRefused(f) ==
  \E d \in 1..pushed :
    /\ Posts(f, d) /\ losses < MaxLosses /\ losses' = losses + 1
    /\ refused' = refused \cup {d}
    /\ UNCHANGED <<queue, lake, unheard>>

\* The request raises: it never arrived, or its answer was lost.
Raises(f, arrived) ==
  \E d \in 1..pushed :
    /\ Posts(f, d) /\ losses < MaxLosses /\ losses' = losses + 1
    /\ queue' = Requeue(d)
    /\ lake' = IF arrived THEN StoredDelta(d) ELSE lake
    /\ unheard' = IF arrived THEN unheard \cup {d} ELSE unheard
    /\ UNCHANGED refused

\* stop() starts a last flush; the handler of SIGINT exits without waiting for
\* it, so at most its first post and those under way arrive.
Stop(arrived) ==
  /\ ~stopped /\ stopped' = TRUE
  /\ LET first == IF queue = << >> THEN << >> ELSE <<Head(queue)>>
         under == {Head(batch[f]) : f \in {g \in Flushes : batch[g] # << >>}} \cup ToSet(first)
     IN  arrived \subseteq under /\ lake' = lake \o SetToSeq(arrived)
  /\ queue' = << >> /\ batch' = [f \in Flushes |-> << >>]
  /\ UNCHANGED <<pushed, refused, unheard, losses>>

PusherNext ==
  \/ PushDelta
  \/ \E f \in Flushes : Flush(f) \/ PostAccepted(f) \/ PostRefused(f) \/ \E arrived \in BOOLEAN : Raises(f, arrived)
  \/ \E arrived \in SUBSET (1..MaxDeltas) : Stop(arrived)

\* The timer goes on, and posts return.
PusherSpec == PusherInit /\ [][PusherNext]_pusherVars
PusherFairness == \A f \in Flushes : WF_pusherVars(Flush(f)) /\ WF_pusherVars(PostAccepted(f))
PusherFairSpec == PusherSpec /\ PusherFairness
-----------------------------------------------------------------------------
\* Every variable has its type.
PusherTypeOK ==
  /\ queue \in Seq(1..pushed) /\ \A f \in Flushes : batch[f] \in Seq(1..pushed)
  /\ stopped \in BOOLEAN /\ pushed \in 0..MaxDeltas
  /\ lake \in Seq(1..pushed) /\ refused \cup unheard \subseteq 1..pushed /\ losses \in 0..MaxLosses

\* A delta that a plugin has pushed reaches the lake unless the api refuses it,
\* through lost posts, lost answers and flushes that overlap, while the agent
\* runs.
PushedArrives ==
  \A d \in 1..MaxDeltas : (pushed >= d) ~> (stopped \/ d \in ToSet(lake) \cup refused)

\* It is written once, unless the answer to a post of it was lost.
PushedOnce ==
  \A i, j \in 1..Len(lake) : lake[i] = lake[j] /\ lake[i] \notin unheard => i = j

\* An agent that is stopped has posted all it had: what the comment on the last
\* flush says, and the exit right after it undoes.
StopFlushes ==
  stopped => \A d \in 1..pushed : d \in ToSet(lake) \cup refused
=============================================================================
