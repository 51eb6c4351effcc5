------------------------------ MODULE LlmGate ------------------------------
(***************************************************************************)
(* The LLM-down gate of the hard tier (api/loop/llm_gate.py), the          *)
(* heartbeats that open it (api/loop/llm.py), the error rows that close it *)
(* (api/loop/harness/threaded.py), and the two kinds of caller that ask    *)
(* it: the supervisor, which may probe while the gate is down, and a       *)
(* background producer (feed-orient), which may not.                       *)
(*                                                                         *)
(* A verdict takes two queries, one after the other, behind a lock and a   *)
(* cache, and time passes in ticks at any of the awaits.  Of the lake the  *)
(* gate sees the newest error and the newest heartbeat, so that is all of  *)
(* it there is here; the model whose name a heartbeat carries stays the    *)
(* same.  Ages are capped where nothing compares them any more.            *)
(***************************************************************************)
EXTENDS Naturals

CONSTANTS
  CacheTTL,       \* _CACHE_TTL_S (5 s in the code)
  ProbeInterval,  \* LLM_PROBE_INTERVAL_S (60 s)
  Debounce,       \* _HEARTBEAT_DEBOUNCE_S (30 s)
  RowTTL,         \* the life of a heartbeat and of an error row (1 h each)
  AskTime         \* bound: ticks a call of is_down takes at most

ASSUME GateAssumption ==
  /\ {CacheTTL, ProbeInterval, Debounce, RowTTL} \subseteq Nat \ {0}
  /\ AskTime \in Nat

Askers == {"supervisor", "producer"}

VARIABLES
  llmUp,     \* does the provider answer?
  errLife,   \* ticks the newest error row still has; 0: no reader sees one
  beat,      \* is there a heartbeat row in the table, expired or not?
  beatLife,  \* ticks the newest heartbeat row still has
  beatNewer, \* is the newest heartbeat newer than the newest error?
  cacheAge,  \* age of the cached verdict, NoCache when there is none
  cacheDown, \* the cached verdict
  pc,        \* at which await each asker stands
  asked,     \* how long ago each asker in is_down read the clock
  seenErr,   \* the read under way: did the first query return an error,
  seenOlder, \* and is the newest heartbeat newer than that error?
  probeAge,  \* ticks since the supervisor's last probe slot was claimed
  beatAge,   \* ticks since a heartbeat last passed the debounce
  writing,   \* is its write under way?
  downFor,   \* history: ticks since the lake was last seen to say "up"
  known      \* history: downFor had reached CacheTTL when the supervisor
             \* asked, and nothing has been up since

lake == <<errLife, beat, beatLife, beatNewer>>
cache == <<cacheAge, cacheDown>>
reading == <<seenErr, seenOlder>>
timers == <<probeAge, beatAge, writing>>
history == <<downFor, known>>
vars == <<llmUp, lake, cache, pc, asked, reading, timers, history>>

NoCache == CacheTTL + AskTime

\* Every variable has its type, and at most one asker is at its queries: the
\* lock serialises the reads that is_down() makes.
TypeOK ==
  /\ llmUp \in BOOLEAN
  /\ errLife \in 0..RowTTL /\ beatLife \in 0..RowTTL
  /\ beat \in BOOLEAN /\ beatNewer \in BOOLEAN
  /\ cacheAge \in 0..NoCache /\ cacheDown \in BOOLEAN
  /\ pc \in [Askers -> {"idle", "lock", "err", "ok", "call", "more", "error", "end"}]
  /\ asked \in [Askers -> 0..AskTime]
  /\ seenErr \in BOOLEAN /\ seenOlder \in BOOLEAN
  /\ probeAge \in 0..ProbeInterval /\ beatAge \in 0..Debounce /\ writing \in BOOLEAN
  /\ downFor \in 0..CacheTTL /\ known \in BOOLEAN
  /\ \A a, b \in Askers : {pc[a], pc[b]} \subseteq {"err", "ok"} => a = b

Init ==
  /\ llmUp = TRUE
  /\ errLife = 0 /\ beat = FALSE /\ beatLife = 0 /\ beatNewer = FALSE
  /\ cacheAge = NoCache /\ cacheDown = FALSE
  /\ pc = [a \in Askers |-> "idle"] /\ asked = [a \in Askers |-> 0]
  /\ seenErr = FALSE /\ seenOlder = FALSE
  /\ probeAge = ProbeInterval /\ beatAge = Debounce /\ writing = FALSE
  /\ downFor = 0 /\ known = FALSE

\* What the rows in the lake say: is_down() without cache and lock.
LakeDown == errLife > 0 /\ ~(beatLife > 0 /\ beatNewer)

\* History: the lake says "up" from here on.
Up == IF LakeDown' THEN UNCHANGED history ELSE downFor' = 0 /\ known' = FALSE

-----------------------------------------------------------------------------
(* is_down().                                                              *)

\* claim_probe(): one slot per interval.
ClaimProbe(granted) ==
  /\ granted = (probeAge >= ProbeInterval)
  /\ probeAge' = IF granted THEN 0 ELSE probeAge

\* The caller acts on the verdict without another await in between: an open
\* gate lets it call the model, a closed one only the supervisor's probe.
Answer(a, down) ==
  /\ asked' = [asked EXCEPT ![a] = 0]
  /\ UNCHANGED <<beatAge, writing>>
  /\ \/ ~down /\ pc' = [pc EXCEPT ![a] = "call"] /\ UNCHANGED probeAge
     \/ /\ down /\ a = "supervisor"
        /\ \E granted \in BOOLEAN :
             /\ ClaimProbe(granted)
             /\ pc' = [pc EXCEPT ![a] = IF granted THEN "call" ELSE "idle"]
     \/ down /\ a = "producer" /\ pc' = [pc EXCEPT ![a] = "idle"] /\ UNCHANGED probeAge

\* A fresh cache answers at once; otherwise line up for the lock, with the
\* clock read before the wait.
Ask(a) ==
  /\ pc[a] = "idle"
  /\ \/ cacheAge < CacheTTL /\ Answer(a, cacheDown) /\ UNCHANGED known
     \/ /\ cacheAge >= CacheTTL
        /\ pc' = [pc EXCEPT ![a] = "lock"]
        /\ known' = IF a = "supervisor" THEN downFor >= CacheTTL ELSE known
        /\ UNCHANGED <<asked, timers>>
  /\ UNCHANGED <<llmUp, lake, cache, reading, downFor>>

LockFree == \A b \in Askers : pc[b] \notin {"err", "ok"}

\* Variant: the reads are not serialised.
TakeLockAlways(a) ==
  /\ pc[a] = "lock"
  /\ pc' = [pc EXCEPT ![a] = "err"] /\ UNCHANGED <<asked, timers>>
  /\ UNCHANGED <<llmUp, lake, cache, reading, history>>

\* Inside the lock the cache is looked at again, with the old clock reading.
TakeLock(a) ==
  /\ pc[a] = "lock" /\ LockFree
  /\ \/ cacheAge < CacheTTL + asked[a] /\ Answer(a, cacheDown)
     \/ /\ cacheAge >= CacheTTL + asked[a]
        /\ pc' = [pc EXCEPT ![a] = "err"]
        /\ UNCHANGED <<asked, timers>>
  /\ UNCHANGED <<llmUp, lake, cache, reading, history>>

\* The newest error; a query that fails counts as "none".
ReadErr(a, ok) ==
  /\ pc[a] = "err"
  /\ seenErr' = (ok /\ errLife > 0) /\ seenOlder' = beatNewer
  /\ pc' = [pc EXCEPT ![a] = "ok"]
  /\ IF ok THEN UNCHANGED history ELSE downFor' = 0 /\ known' = FALSE
  /\ UNCHANGED <<llmUp, lake, cache, asked, timers>>

\* Variant: the cached pair carries the time it was stored.
StampAtStore(a) == 0

\* The cached pair carries the time the caller read the clock.
Stamp(a) == asked[a]

\* The newest heartbeat, and with it the verdict.
ReadOk(a, ok) ==
  /\ pc[a] = "ok"
  /\ \E down \in BOOLEAN :
       /\ down = (seenErr /\ ~(ok /\ beatLife > 0 /\ seenOlder))
       /\ cacheAge' = Stamp(a) /\ cacheDown' = down
       /\ Answer(a, down)
  /\ seenErr' = FALSE /\ seenOlder' = FALSE
  /\ UNCHANGED <<llmUp, lake, history>>

-----------------------------------------------------------------------------
(* The calls, and what they leave in the lake.                             *)

\* A call that succeeds starts a heartbeat, unless one was started within the
\* debounce.  A fire may call the model once more: later calls of a fire look
\* like its second.
CallSucceeds(a) ==
  /\ llmUp
  /\ \/ pc[a] = "call" /\ pc' = [pc EXCEPT ![a] = IF a = "supervisor" THEN "more" ELSE "idle"]
     \/ pc[a] = "more" /\ pc' = [pc EXCEPT ![a] = "end"]
  /\ IF beatAge >= Debounce
       THEN beatAge' = 0 /\ writing' = TRUE
       ELSE UNCHANGED <<beatAge, writing>>
  /\ UNCHANGED <<llmUp, lake, cache, asked, reading, probeAge, history>>

\* A fire that fails reports it; the producer only logs.
CallFails(a) ==
  /\ ~llmUp
  /\ pc[a] \in {"call", "more"}
  /\ pc' = [pc EXCEPT ![a] = IF a = "supervisor" THEN "error" ELSE "idle"]
  /\ UNCHANGED <<llmUp, lake, cache, asked, reading, timers, history>>

\* The store drops a heartbeat that repeats the newest row with its source
\* and tags, be that one expired or not, until the reaper has deleted it.
HeartbeatWrite(ok) ==
  /\ writing
  /\ writing' = FALSE
  /\ IF ok /\ ~beat
       THEN beat' = TRUE /\ beatLife' = RowTTL /\ beatNewer' = TRUE /\ seenOlder' = TRUE
       ELSE UNCHANGED <<beat, beatLife, beatNewer, seenOlder>>
  /\ UNCHANGED <<llmUp, errLife, cache, pc, asked, seenErr, probeAge, beatAge>>
  /\ Up

\* The error row of a failed fire names the messages it covers, so that it
\* never repeats the last one.
ErrorWrite(ok) ==
  /\ pc["supervisor"] = "error"
  /\ pc' = [pc EXCEPT !["supervisor"] = "end"]
  /\ IF ok THEN errLife' = RowTTL /\ beatNewer' = FALSE ELSE UNCHANGED <<errLife, beatNewer>>
  /\ UNCHANGED <<llmUp, beat, beatLife, cache, asked, reading, timers, history>>

\* The fire is over, or torn down at one of its awaits: either way the
\* supervisor drops the cached verdict.
FireEnds ==
  /\ pc["supervisor"] \in {"call", "more", "error", "end"}
  /\ pc' = [pc EXCEPT !["supervisor"] = "idle"]
  /\ cacheAge' = NoCache /\ cacheDown' = FALSE
  /\ UNCHANGED <<llmUp, lake, asked, reading, timers, history>>

\* reap_expired() deletes the row.
Reap ==
  /\ beat /\ beatLife = 0
  /\ beat' = FALSE
  /\ UNCHANGED <<llmUp, errLife, beatLife, beatNewer, cache, pc, asked, reading, timers, history>>

-----------------------------------------------------------------------------
(* The world.                                                              *)

ProviderFlips ==
  /\ llmUp' = ~llmUp
  /\ UNCHANGED <<lake, cache, pc, asked, reading, timers, history>>

Capped(n, cap) == IF n < cap THEN n + 1 ELSE n
Dwindled(n) == IF n = 0 THEN 0 ELSE n - 1

\* Variant: error rows do not expire.
ErrLifeForever == errLife
ErrLifeNext == Dwindled(errLife)

\* A call of is_down takes at most AskTime, and a heartbeat's write ends
\* before the debounce lets the next one start.
Tick ==
  /\ \A a \in Askers : pc[a] \in {"lock", "err", "ok"} => asked[a] < AskTime
  /\ writing => beatAge + 1 < Debounce
  /\ errLife' = ErrLifeNext /\ beatLife' = Dwindled(beatLife)
  /\ cacheAge' = Capped(cacheAge, NoCache)
  /\ asked' = [a \in Askers |-> IF pc[a] \in {"lock", "err", "ok"} THEN asked[a] + 1 ELSE 0]
  /\ probeAge' = Capped(probeAge, ProbeInterval) /\ beatAge' = Capped(beatAge, Debounce)
  /\ UNCHANGED <<llmUp, beat, beatNewer, cacheDown, pc, reading, writing>>
  /\ IF LakeDown' /\ LakeDown
       THEN downFor' = Capped(downFor, CacheTTL) /\ UNCHANGED known
       ELSE downFor' = 0 /\ known' = FALSE

Gate(a) == Ask(a) \/ TakeLock(a) \/ \E ok \in BOOLEAN : ReadErr(a, ok) \/ ReadOk(a, ok)
Call(a) == CallSucceeds(a) \/ CallFails(a)
Lake == (\E ok \in BOOLEAN : HeartbeatWrite(ok) \/ ErrorWrite(ok)) \/ Reap

Next ==
  \/ \E a \in Askers : Gate(a) \/ Call(a)
  \/ Lake \/ FireEnds \/ ProviderFlips \/ Tick

Spec == Init /\ [][Next]_vars

-----------------------------------------------------------------------------
(* Properties.                                                             *)

\* A fire that starts when the lake has said "down" for a whole cache life
\* before the supervisor asked, with no query failing, is a probe, and no
\* other probe was within ProbeInterval before it.  The cache, the old clock
\* readings at the lock, reads of the other callers that span the end of a
\* fire, and the two queries of a read must not add up to a stale "up".
FiresArePaced ==
  [][pc["supervisor"] # "call" /\ pc'["supervisor"] = "call"
       /\ (known \/ (pc["supervisor"] = "idle" /\ downFor >= CacheTTL))
     => probeAge >= ProbeInterval /\ probeAge' = 0]_vars

\* "success writes a heartbeat and flips the gate" (threaded_supervisor.py,
\* llm_gate.py): once the write of a heartbeat has gone through, the lake no
\* longer says "down".
HeartbeatFlipsGate == [][HeartbeatWrite(TRUE) => ~LakeDown']_vars

\* Timers run, queries return, and the lock is handed on in order.
Fairness ==
  /\ WF_vars(Tick) /\ WF_vars(Lake) /\ WF_vars(FireEnds)
  /\ \A a \in Askers : WF_vars(Gate(a)) /\ WF_vars(Call(a)) /\ SF_vars(TakeLock(a))

FairSpec == Spec /\ Fairness

\* Once the provider is back for good the gate opens for good, even if every
\* heartbeat is lost: background producers resume without anybody's help.
GateReopens == <>[]llmUp => <>[]~LakeDown

=============================================================================
