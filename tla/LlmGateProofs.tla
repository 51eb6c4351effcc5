--------------------------- MODULE LlmGateProofs ---------------------------
(* Proofs about the LLM-down gate, for every cache life, probe interval,     *)
(* debounce and row life: with a lake that has said "down" for a cache life  *)
(* the supervisor gets to call the model by a probe only.                    *)
EXTENDS LlmGate, TLAPS

Stages == {"idle", "lock", "err", "ok", "call", "more", "error", "end"}

\* What the proofs need of the types; outside of is_down no clock reading is old.
GateTypes ==
  /\ errLife \in Nat /\ beatLife \in Nat /\ cacheAge \in Nat /\ downFor \in 0..CacheTTL
  /\ beat \in BOOLEAN /\ beatNewer \in BOOLEAN /\ cacheDown \in BOOLEAN /\ known \in BOOLEAN
  /\ seenErr \in BOOLEAN /\ seenOlder \in BOOLEAN
  /\ pc \in [Askers -> Stages] /\ asked \in [Askers -> 0..AskTime]
  /\ \A a \in Askers : pc[a] \notin {"lock", "err", "ok"} => asked[a] = 0
  /\ \A a, b \in Askers : {pc[a], pc[b]} \subseteq {"err", "ok"} => a = b

\* The second query of the read under way may still make it say "up".
MaySayUp == ~seenErr \/ (seenOlder /\ beatLife > 0)

\* The history is what it says it is.
HistoryInv ==
  /\ ~LakeDown => downFor = 0 /\ ~known
  /\ known => downFor >= CacheTTL

\* An "up", in the cache or on its way there, is no younger than the last time the
\* lake said it.
CacheIsAged == ~cacheDown => downFor <= cacheAge
ReadIsAged == \A a \in Askers : pc[a] = "ok" /\ MaySayUp => downFor <= asked[a]
OwnReadIsTrue == pc["supervisor"] = "ok" /\ MaySayUp => ~known

\* While the supervisor waits for the lock with an old clock reading, an "up" grows
\* too old for that reading.
WaitIsAged ==
  known /\ pc["supervisor"] = "lock" =>
    /\ ~cacheDown => cacheAge >= CacheTTL + asked["supervisor"]
    /\ pc["producer"] = "ok" /\ MaySayUp => asked["producer"] >= CacheTTL + asked["supervisor"]

GateInv == GateTypes /\ HistoryInv /\ CacheIsAged /\ ReadIsAged /\ OwnReadIsTrue /\ WaitIsAged

-----------------------------------------------------------------------------
LEMMA GateStarts == Init => GateInv
<1> SUFFICES ASSUME Init PROVE GateInv
  OBVIOUS
<1>1. CacheTTL \in Nat /\ AskTime \in Nat /\ NoCache \in Nat /\ 0 \in 0..CacheTTL /\ 0 \in 0..AskTime
  BY GateAssumption DEF NoCache
<1>2. \A a \in Askers : pc[a] = "idle" /\ asked[a] = 0
  BY DEF Init
<1>3. pc \in [Askers -> Stages] /\ asked \in [Askers -> 0..AskTime]
  BY <1>1 DEF Init, Stages
<1>4. GateTypes
  BY <1>1, <1>2, <1>3 DEF Init, GateTypes
<1>5. "supervisor" \in Askers
  BY DEF Askers
<1> QED
  BY <1>1, <1>2, <1>4, <1>5, GateAssumption
     DEF Init, GateInv, HistoryInv, CacheIsAged, ReadIsAged, OwnReadIsTrue, WaitIsAged

\* A step that takes an asker out of its reading, or leaves it where it is, and
\* nothing else that the invariant looks at.
LEMMA PassingSteps ==
  ASSUME GateInv, UNCHANGED <<errLife, beatLife, beatNewer, history, reading>>, GateTypes',
         \A b \in Askers : pc'[b] \in {"lock", "ok"} => pc'[b] = pc[b] /\ asked'[b] = asked[b],
         UNCHANGED cache \/ (cacheAge' = NoCache /\ pc'["supervisor"] # "lock")
  PROVE  GateInv'
<1> USE DEF history, reading, cache
<1>1. "supervisor" \in Askers /\ "producer" \in Askers
  BY DEF Askers
<1>2. LakeDown' = LakeDown /\ MaySayUp' = MaySayUp
  BY DEF LakeDown, MaySayUp
<1>3. HistoryInv' /\ ReadIsAged' /\ OwnReadIsTrue'
  BY <1>1, <1>2 DEF GateInv, HistoryInv, ReadIsAged, OwnReadIsTrue
<1>4. CacheIsAged'
  BY GateAssumption DEF GateInv, CacheIsAged, GateTypes, NoCache
<1>5. WaitIsAged'
  BY <1>1, <1>2 DEF GateInv, WaitIsAged
<1> QED
  BY <1>3, <1>4, <1>5 DEF GateInv

\* What an answer leaves: the asker is out of is_down.
LEMMA Answered ==
  ASSUME GateTypes, NEW a \in Askers, NEW down \in BOOLEAN, Answer(a, down)
  PROVE  /\ pc' \in [Askers -> Stages] /\ asked' \in [Askers -> 0..AskTime]
         /\ pc'[a] \in {"idle", "call"} /\ asked'[a] = 0
         /\ \A b \in Askers \ {a} : pc'[b] = pc[b] /\ asked'[b] = asked[b]
         /\ down /\ pc'["supervisor"] = "call" /\ pc["supervisor"] # "call" => probeAge >= ProbeInterval /\ probeAge' = 0
<1>1. asked' = [asked EXCEPT ![a] = 0] /\ 0 \in 0..AskTime
  BY GateAssumption DEF Answer
<1>2. PICK stage \in {"idle", "call"} : pc' = [pc EXCEPT ![a] = stage]
  BY DEF Answer
<1>3. pc \in [Askers -> Stages] /\ asked \in [Askers -> 0..AskTime] /\ stage \in Stages
  BY DEF GateTypes, Stages
<1>4. down /\ pc'["supervisor"] = "call" /\ pc["supervisor"] # "call" => probeAge >= ProbeInterval /\ probeAge' = 0
  <2> SUFFICES ASSUME down, pc'["supervisor"] = "call", pc["supervisor"] # "call"
               PROVE  probeAge >= ProbeInterval /\ probeAge' = 0
    OBVIOUS
  <2>1. a = "supervisor"
    BY <1>2, <1>3
  <2>2. PICK granted \in BOOLEAN : ClaimProbe(granted) /\ pc' = [pc EXCEPT ![a] = IF granted THEN "call" ELSE "idle"]
    BY <2>1 DEF Answer
  <2>3. granted
    BY <1>3, <2>1, <2>2
  <2> QED
    BY <2>2, <2>3 DEF ClaimProbe
<1> QED
  BY <1>1, <1>2, <1>3, <1>4

\* Of a step that leaves the lake alone, the types are those of the asker that moves.
LEMMA TypesOfMoves ==
  ASSUME GateInv, NEW a \in Askers, UNCHANGED lake, downFor' \in 0..CacheTTL, known' \in BOOLEAN,
         pc' \in [Askers -> Stages], asked' \in [Askers -> 0..AskTime],
         \A b \in Askers \ {a} : pc'[b] = pc[b] /\ asked'[b] = asked[b],
         pc'[a] \notin {"lock", "err", "ok"} => asked'[a] = 0,
         pc'[a] \in {"err", "ok"} => \A b \in Askers \ {a} : pc[b] \notin {"err", "ok"},
         cacheAge' \in Nat, cacheDown' \in BOOLEAN, seenErr' \in BOOLEAN, seenOlder' \in BOOLEAN
  PROVE  GateTypes'
BY DEF GateInv, GateTypes, lake

-----------------------------------------------------------------------------
\* A fresh cache answers; an asker that lines up takes its clock reading with it.
LEMMA AskIsSound == \A a \in Askers : GateInv /\ Ask(a) => GateInv'
<1> SUFFICES ASSUME NEW a \in Askers, GateInv, Ask(a) PROVE GateInv'
  OBVIOUS
<1>1. pc[a] = "idle" /\ UNCHANGED <<llmUp, lake, cache, reading, downFor>>
  BY DEF Ask
<1>2. GateTypes
  BY DEF GateInv
<1>3. CASE cacheAge < CacheTTL /\ Answer(a, cacheDown) /\ UNCHANGED known
  <2>1. /\ pc' \in [Askers -> Stages] /\ asked' \in [Askers -> 0..AskTime]
        /\ pc'[a] \in {"idle", "call"} /\ asked'[a] = 0
        /\ \A b \in Askers \ {a} : pc'[b] = pc[b] /\ asked'[b] = asked[b]
    BY <1>2, <1>3, Answered DEF GateTypes
  <2>2. GateTypes'
    BY <1>1, <1>2, <1>3, <2>1, TypesOfMoves DEF GateTypes, cache, reading
  <2> QED
    BY <1>1, <1>3, <2>1, <2>2, PassingSteps DEF lake, history
<1>4. CASE /\ pc' = [pc EXCEPT ![a] = "lock"] /\ UNCHANGED asked
           /\ known' = IF a = "supervisor" THEN downFor >= CacheTTL ELSE known
  <2> USE DEF lake, cache, reading
  <2>1. pc'[a] = "lock" /\ asked[a] = 0 /\ \A b \in Askers \ {a} : pc'[b] = pc[b]
    BY <1>1, <1>2, <1>4 DEF GateTypes
  <2>2. pc' \in [Askers -> Stages] /\ known' \in BOOLEAN
    <3>1. known' \in BOOLEAN
      <4>1. CASE a = "supervisor"
        BY <1>4, <4>1
      <4>2. CASE a # "supervisor"
        BY <1>2, <1>4, <4>2 DEF GateTypes
      <4> QED
        BY <4>1, <4>2
    <3>2. pc' \in [Askers -> Stages]
      BY <1>2, <1>4 DEF GateTypes, Stages
    <3> QED
      BY <3>1, <3>2
  <2>2a. GateTypes'
    BY <1>1, <1>2, <1>4, <2>1, <2>2, TypesOfMoves DEF GateTypes
  <2>3. LakeDown' = LakeDown /\ MaySayUp' = MaySayUp
    BY <1>1 DEF LakeDown, MaySayUp
  <2>4. HistoryInv'
    BY <1>1, <1>2, <1>4, <2>3, GateAssumption DEF GateInv, HistoryInv, GateTypes
  <2>5. CacheIsAged' /\ ReadIsAged'
    BY <1>1, <1>4, <2>1, <2>3 DEF GateInv, CacheIsAged, ReadIsAged
  <2>6. OwnReadIsTrue'
    BY <1>4, <2>1, <2>3 DEF GateInv, OwnReadIsTrue, Askers
  <2>7. WaitIsAged'
    <3>1. CASE a = "supervisor"
      <4> SUFFICES ASSUME downFor >= CacheTTL
                   PROVE  /\ ~cacheDown => cacheAge >= CacheTTL
                          /\ pc["producer"] = "ok" /\ MaySayUp => asked["producer"] >= CacheTTL
        <5>1. asked' = asked /\ asked["supervisor"] = 0 /\ pc'["producer"] = pc["producer"] /\ known' = (downFor >= CacheTTL)
          BY <1>4, <2>1, <3>1 DEF Askers
        <5>2. CacheTTL + 0 = CacheTTL
          BY GateAssumption
        <5> QED
          BY <1>1, <2>3, <5>1, <5>2 DEF WaitIsAged
      <4>1. downFor = CacheTTL
        BY <1>2 , GateAssumption DEF GateTypes
      <4> QED
        BY <4>1 DEF GateInv, CacheIsAged, ReadIsAged, Askers
    <3>2. CASE a = "producer"
      BY <1>1, <1>4, <2>1, <2>3, <3>2 DEF GateInv, WaitIsAged, Askers
    <3> QED
      BY <3>1, <3>2 DEF Askers
  <2> QED
    BY <2>2a, <2>4, <2>5, <2>6, <2>7 DEF GateInv
<1> QED
  BY <1>3, <1>4 DEF Ask

LEMMA TakeLockIsSound == \A a \in Askers : GateInv /\ TakeLock(a) => GateInv'
<1> SUFFICES ASSUME NEW a \in Askers, GateInv, TakeLock(a) PROVE GateInv'
  OBVIOUS
<1>1. pc[a] = "lock" /\ LockFree /\ UNCHANGED <<llmUp, lake, cache, reading, history>>
  BY DEF TakeLock
<1>2. GateTypes
  BY DEF GateInv
<1>3. /\ pc' \in [Askers -> Stages] /\ asked' \in [Askers -> 0..AskTime]
      /\ pc'[a] \in {"idle", "call", "err"} /\ (pc'[a] # "err" => asked'[a] = 0)
      /\ \A b \in Askers \ {a} : pc'[b] = pc[b] /\ asked'[b] = asked[b]
  <2>1. CASE Answer(a, cacheDown)
    BY <1>2, <2>1, Answered DEF GateTypes
  <2>2. CASE pc' = [pc EXCEPT ![a] = "err"] /\ UNCHANGED asked
    BY <1>2, <2>2 DEF GateTypes, Stages
  <2> QED
    BY <2>1, <2>2 DEF TakeLock
<1>4. GateTypes'
  BY <1>1, <1>2, <1>3, TypesOfMoves DEF GateTypes, LockFree, cache, reading, history
<1> QED
  BY <1>1, <1>3, <1>4, PassingSteps DEF lake

\* The first query: an asker that may yet say "up" has seen the lake say it.
LEMMA ReadErrIsSound == \A a \in Askers, ok \in BOOLEAN : GateInv /\ ReadErr(a, ok) => GateInv'
<1> SUFFICES ASSUME NEW a \in Askers, NEW ok \in BOOLEAN, GateInv, ReadErr(a, ok) PROVE GateInv'
  OBVIOUS
<1> USE DEF lake, cache
<1>1. /\ pc[a] = "err" /\ seenErr' = (ok /\ errLife > 0) /\ seenOlder' = beatNewer /\ pc' = [pc EXCEPT ![a] = "ok"]
      /\ IF ok THEN UNCHANGED <<downFor, known>> ELSE downFor' = 0 /\ known' = FALSE
      /\ UNCHANGED <<lake, cache, asked>>
  BY DEF ReadErr, history
<1>2. GateTypes
  BY DEF GateInv
<1>3. pc'[a] = "ok" /\ \A b \in Askers \ {a} : pc'[b] = pc[b] /\ pc[b] \notin {"err", "ok"}
  BY <1>1, <1>2 DEF GateTypes
<1>4. GateTypes'
  <2>1. pc' \in [Askers -> Stages] /\ seenErr' \in BOOLEAN /\ seenOlder' \in BOOLEAN
    BY <1>1, <1>2 DEF GateTypes, Stages
  <2>2. downFor' \in 0..CacheTTL /\ known' \in BOOLEAN
    <3>1. CASE ok
      BY <1>1, <1>2, <3>1 DEF GateTypes
    <3>2. CASE ~ok
      <4>1. downFor' = 0 /\ known' = FALSE
        BY <1>1, <3>2
      <4>2. 0 \in 0..CacheTTL
        BY GateAssumption
      <4> QED
        BY <4>1, <4>2
    <3> QED
      BY <3>1, <3>2
  <2> QED
    BY <1>1, <1>2, <1>3, <2>1, <2>2, TypesOfMoves DEF GateTypes
<1>5. MaySayUp' => downFor' = 0 /\ known' = FALSE
  <2>1. CASE ~ok
    BY <1>1, <2>1
  <2>2. CASE ok
    BY <1>1, <1>2, <2>2 DEF MaySayUp, LakeDown, GateInv, HistoryInv, GateTypes
  <2> QED
    BY <2>1, <2>2
<1>6. \/ UNCHANGED <<downFor, known>>
      \/ downFor' = 0 /\ known' = FALSE
  BY <1>1
<1>7. HistoryInv'
  BY <1>1, <1>6, GateAssumption DEF GateInv, HistoryInv, LakeDown
<1>8. CacheIsAged'
  BY <1>1, <1>2, <1>6 DEF GateInv, CacheIsAged, GateTypes
<1>9. ReadIsAged' /\ OwnReadIsTrue'
  BY <1>1, <1>2, <1>3, <1>5 DEF ReadIsAged, OwnReadIsTrue, Askers, GateTypes
<1>10. WaitIsAged'
  BY <1>1, <1>3, <1>5, <1>6 DEF GateInv, WaitIsAged, Askers
<1> QED
  BY <1>4, <1>7, <1>8, <1>9, <1>10 DEF GateInv

\* The second query: the verdict is cached with the age of the clock reading.
LEMMA ReadOkIsSound == \A a \in Askers, ok \in BOOLEAN : GateInv /\ ReadOk(a, ok) => GateInv'
<1> SUFFICES ASSUME NEW a \in Askers, NEW ok \in BOOLEAN, GateInv, ReadOk(a, ok) PROVE GateInv'
  OBVIOUS
<1> USE DEF lake, history
<1>1. PICK down \in BOOLEAN :
        /\ down = (seenErr /\ ~(ok /\ beatLife > 0 /\ seenOlder))
        /\ cacheAge' = asked[a] /\ cacheDown' = down /\ Answer(a, down)
  BY DEF ReadOk, Stamp
<1>2. pc[a] = "ok" /\ seenErr' = FALSE /\ seenOlder' = FALSE /\ UNCHANGED <<lake, downFor, known>>
  BY DEF ReadOk
<1>3. GateTypes
  BY DEF GateInv
<1>4. /\ pc' \in [Askers -> Stages] /\ asked' \in [Askers -> 0..AskTime]
      /\ pc'[a] \in {"idle", "call"} /\ asked'[a] = 0
      /\ \A b \in Askers \ {a} : pc'[b] = pc[b] /\ asked'[b] = asked[b] /\ pc[b] \notin {"err", "ok"}
  <2>1. \A b \in Askers \ {a} : pc[b] \notin {"err", "ok"}
    BY <1>2, <1>3 DEF GateTypes
  <2> QED
    BY <1>1, <1>3, <2>1, Answered
<1>5. asked[a] \in Nat
  BY <1>3 DEF GateTypes
<1>6. GateTypes'
  BY <1>1, <1>2, <1>3, <1>4, <1>5, TypesOfMoves DEF GateTypes
<1>7. ~down => MaySayUp
  BY <1>1 DEF MaySayUp
<1>8. HistoryInv'
  BY <1>2 DEF GateInv, HistoryInv, LakeDown
<1>9. CacheIsAged'
  BY <1>1, <1>2, <1>7 DEF GateInv, CacheIsAged, ReadIsAged
<1>10. ReadIsAged' /\ OwnReadIsTrue'
  BY <1>4 DEF ReadIsAged, OwnReadIsTrue, Askers
<1>11. WaitIsAged'
  <2> SUFFICES ASSUME known, pc'["supervisor"] = "lock", ~down
               PROVE  asked[a] >= CacheTTL + asked'["supervisor"]
    BY <1>1, <1>2, <1>4 DEF WaitIsAged, Askers
  <2>1. a = "producer" /\ pc["supervisor"] = "lock" /\ asked'["supervisor"] = asked["supervisor"]
    BY <1>4 DEF Askers
  <2> QED
    BY <1>2, <1>7, <2>1 DEF GateInv, WaitIsAged
<1> QED
  BY <1>6, <1>8, <1>9, <1>10, <1>11 DEF GateInv

-----------------------------------------------------------------------------
\* Calls, and the end of a fire, which drops the cached verdict.
LEMMA CallsAreSound ==
  \A a \in Askers : GateInv /\ (CallSucceeds(a) \/ CallFails(a) \/ FireEnds) => GateInv'
<1> SUFFICES ASSUME NEW c \in Askers, GateInv, CallSucceeds(c) \/ CallFails(c) \/ FireEnds PROVE GateInv'
  OBVIOUS
<1>1. "supervisor" \in Askers
  BY DEF Askers
<1>2. PICK a \in Askers, stage \in {"idle", "more", "end", "error"} :
        pc[a] \in {"call", "more", "error", "end"} /\ pc' = [pc EXCEPT ![a] = stage]
  BY <1>1 DEF CallSucceeds, CallFails, FireEnds
<1>3. UNCHANGED <<lake, asked, reading, history>>
  BY DEF CallSucceeds, CallFails, FireEnds
<1>4. UNCHANGED cache \/ (cacheAge' = NoCache /\ cacheDown' = FALSE /\ pc'["supervisor"] = "idle")
  BY <1>1, <1>2 DEF CallSucceeds, CallFails, FireEnds, GateInv, GateTypes
<1>5. /\ pc' \in [Askers -> Stages] /\ pc'[a] \in {"idle", "more", "end", "error"} /\ asked'[a] = 0
      /\ \A b \in Askers \ {a} : pc'[b] = pc[b] /\ asked'[b] = asked[b]
  BY <1>2, <1>3 DEF GateInv, GateTypes, Stages
<1>6. cacheAge' \in Nat /\ cacheDown' \in BOOLEAN
  <2>1. NoCache \in Nat
    BY GateAssumption DEF NoCache
  <2>2. cacheAge \in Nat /\ cacheDown \in BOOLEAN
    BY DEF GateInv, GateTypes
  <2> QED
    BY <1>4, <2>1, <2>2 DEF cache
<1>7. GateTypes'
  BY <1>3, <1>5, <1>6, TypesOfMoves DEF GateInv, GateTypes, reading, history
<1> QED
  BY <1>3, <1>4, <1>5, <1>7, PassingSteps DEF lake

\* A heartbeat that gets through makes the lake say "up".
LEMMA HeartbeatIsSound == \A ok \in BOOLEAN : GateInv /\ HeartbeatWrite(ok) => GateInv'
<1> SUFFICES ASSUME NEW ok \in BOOLEAN, GateInv, HeartbeatWrite(ok) PROVE GateInv'
  OBVIOUS
<1> USE DEF cache
<1>1. UNCHANGED <<errLife, cache, pc, asked, seenErr>>
  BY DEF HeartbeatWrite
<1>2. IF LakeDown' THEN UNCHANGED <<downFor, known>> ELSE downFor' = 0 /\ known' = FALSE
  BY DEF HeartbeatWrite, Up, history
<1>3. GateTypes
  BY DEF GateInv
<1>4. CASE ok /\ ~beat
  <2>1. beatLife' = RowTTL /\ beat' = TRUE /\ beatNewer' = TRUE /\ seenOlder' = TRUE
    BY <1>4 DEF HeartbeatWrite
  <2>2. beatLife' > 0 /\ beatLife' \in Nat /\ 0 \in 0..CacheTTL
    BY <2>1, GateAssumption
  <2>3. ~LakeDown'
    BY <2>1, <2>2 DEF LakeDown
  <2>4. downFor' = 0 /\ known' = FALSE
    BY <1>2, <2>3
  <2>5. GateTypes'
    BY <1>1, <1>3, <2>1, <2>2, <2>4 DEF GateTypes
  <2> QED
    BY <1>1, <1>3, <2>4, <2>5
       DEF GateInv, HistoryInv, CacheIsAged, ReadIsAged, OwnReadIsTrue, WaitIsAged, GateTypes
<1>5. CASE ~(ok /\ ~beat)
  <2>1. UNCHANGED <<beat, beatLife, beatNewer, seenOlder>>
    BY <1>5 DEF HeartbeatWrite
  <2>2. LakeDown' = LakeDown
    BY <1>1, <2>1 DEF LakeDown
  <2>3. UNCHANGED <<downFor, known>>
    BY <1>2, <2>2 DEF GateInv, HistoryInv, GateTypes
  <2>4. GateTypes'
    BY <1>1, <1>3, <2>1, <2>3 DEF GateTypes
  <2> QED
    BY <1>1, <2>1, <2>3, <2>4, PassingSteps DEF history, reading
<1> QED
  BY <1>4, <1>5

\* An error row makes the lake say "down"; nobody who reads says less than before.
LEMMA ErrorIsSound == \A ok \in BOOLEAN : GateInv /\ ErrorWrite(ok) => GateInv'
<1> SUFFICES ASSUME NEW ok \in BOOLEAN, GateInv, ErrorWrite(ok) PROVE GateInv'
  OBVIOUS
<1> USE DEF cache, reading, history
<1>1. /\ pc["supervisor"] = "error" /\ pc' = [pc EXCEPT !["supervisor"] = "end"]
      /\ UNCHANGED <<beat, beatLife, cache, asked, reading, history>>
      /\ UNCHANGED <<errLife, beatNewer>> \/ (errLife' = RowTTL /\ beatNewer' = FALSE)
  BY DEF ErrorWrite
<1>2. GateTypes /\ "supervisor" \in Askers
  BY DEF GateInv, Askers
<1>3. pc' \in [Askers -> Stages] /\ pc'["supervisor"] = "end" /\ \A b \in Askers \ {"supervisor"} : pc'[b] = pc[b]
  BY <1>1, <1>2 DEF GateTypes, Stages
<1>4. errLife' \in Nat /\ beatNewer' \in BOOLEAN
  BY <1>1, <1>2, GateAssumption DEF GateTypes
<1>5. GateTypes'
  BY <1>1, <1>2, <1>3, <1>4 DEF GateTypes
<1>6. HistoryInv'
  <2>1. LakeDown' \/ UNCHANGED <<errLife, beatLife, beatNewer>>
    BY <1>1, GateAssumption DEF LakeDown
  <2> QED
    BY <1>1, <2>1 DEF GateInv, HistoryInv, LakeDown
<1>7. MaySayUp' = MaySayUp
  BY <1>1 DEF MaySayUp
<1> QED
  BY <1>1, <1>3, <1>5, <1>6, <1>7
     DEF GateInv, CacheIsAged, ReadIsAged, OwnReadIsTrue, WaitIsAged

LEMMA OthersAreSound == GateInv /\ (Reap \/ ProviderFlips \/ UNCHANGED vars) => GateInv'
<1> SUFFICES ASSUME GateInv, Reap \/ ProviderFlips \/ UNCHANGED vars PROVE GateInv'
  OBVIOUS
<1> USE DEF lake, cache, reading, history
<1>1. UNCHANGED <<errLife, beatLife, beatNewer, history, reading, cache, pc, asked>> /\ beat' \in BOOLEAN
  BY DEF Reap, ProviderFlips, vars, GateInv, GateTypes
<1>2. GateTypes'
  BY <1>1 DEF GateInv, GateTypes
<1> QED
  BY <1>1, <1>2, PassingSteps

\* Time passes for all alike.
LEMMA TickIsSound == GateInv /\ Tick => GateInv'
<1> SUFFICES ASSUME GateInv, Tick PROVE GateInv'
  OBVIOUS
<1> USE DEF reading
<1>1. /\ \A a \in Askers : pc[a] \in {"lock", "err", "ok"} => asked[a] < AskTime
      /\ errLife' = Dwindled(errLife) /\ beatLife' = Dwindled(beatLife)
      /\ cacheAge' = IF cacheAge < NoCache THEN cacheAge + 1 ELSE cacheAge
      /\ asked' = [a \in Askers |-> IF pc[a] \in {"lock", "err", "ok"} THEN asked[a] + 1 ELSE 0]
      /\ UNCHANGED <<beat, beatNewer, cacheDown, pc, reading>>
      /\ IF LakeDown' /\ LakeDown THEN downFor' = Capped(downFor, CacheTTL) /\ UNCHANGED known ELSE downFor' = 0 /\ known' = FALSE
  BY DEF Tick, ErrLifeNext, Capped
<1>2. GateTypes /\ "supervisor" \in Askers /\ "producer" \in Askers
  BY DEF GateInv, Askers
<1>3. CacheTTL \in Nat /\ CacheTTL > 0 /\ AskTime \in Nat /\ NoCache = CacheTTL + AskTime
  BY GateAssumption DEF NoCache
<1>4. \A n \in Nat : Dwindled(n) \in Nat /\ (Dwindled(n) > 0 => n > 0)
  BY DEF Dwindled
<1>5. errLife' \in Nat /\ beatLife' \in Nat /\ cacheAge' \in Nat /\ (MaySayUp' => MaySayUp)
  BY <1>1, <1>2, <1>3, <1>4 DEF GateTypes, MaySayUp
<1>6. \A a \in Askers : asked'[a] \in 0..AskTime /\ (pc[a] \notin {"lock", "err", "ok"} => asked'[a] = 0)
                       /\ (pc[a] \in {"lock", "err", "ok"} => asked'[a] = asked[a] + 1)
  BY <1>1, <1>2, <1>3 DEF GateTypes
<1>7. asked' \in [Askers -> 0..AskTime]
  BY <1>1, <1>6
<1>8. \/ downFor' = 0 /\ known' = FALSE
      \/ LakeDown' /\ LakeDown /\ known' = known /\ downFor' = IF downFor < CacheTTL THEN downFor + 1 ELSE downFor
  BY <1>1 DEF Capped
<1>9. downFor' \in 0..CacheTTL /\ known' \in BOOLEAN /\ downFor' <= downFor + 1
  <2>1. downFor' = 0 \/ downFor' = IF downFor < CacheTTL THEN downFor + 1 ELSE downFor
    BY <1>8
  <2>2. downFor \in 0..CacheTTL
    BY <1>2 DEF GateTypes
  <2>3. downFor' \in 0..CacheTTL /\ downFor' <= downFor + 1
    BY <1>3, <2>1, <2>2
  <2>4. known' \in BOOLEAN
    BY <1>2, <1>8 DEF GateTypes
  <2> QED
    BY <2>3, <2>4
<1>10. GateTypes'
  BY <1>1, <1>2, <1>5, <1>6, <1>7, <1>9 DEF GateTypes
<1>11. HistoryInv'
  BY <1>2, <1>3, <1>8 DEF GateInv, HistoryInv, GateTypes
<1>12. CacheIsAged'
  BY <1>1, <1>2, <1>3, <1>9 DEF GateInv, CacheIsAged, GateTypes
<1>13. ReadIsAged'
  BY <1>1, <1>2, <1>5, <1>6, <1>9 DEF GateInv, ReadIsAged, GateTypes
<1>14. OwnReadIsTrue'
  BY <1>1, <1>5, <1>8 DEF GateInv, OwnReadIsTrue
<1>15. WaitIsAged'
  <2> SUFFICES ASSUME known', pc["supervisor"] = "lock"
               PROVE  /\ ~cacheDown => cacheAge' >= CacheTTL + asked'["supervisor"]
                      /\ pc["producer"] = "ok" /\ MaySayUp' => asked'["producer"] >= CacheTTL + asked'["supervisor"]
    BY <1>1 DEF WaitIsAged
  <2>1. known /\ asked'["supervisor"] = asked["supervisor"] + 1 /\ asked["supervisor"] < AskTime
    BY <1>1, <1>2, <1>6, <1>8
  <2>2. asked["supervisor"] \in Nat /\ asked["producer"] \in Nat /\ cacheAge \in Nat
    BY <1>2 DEF GateTypes
  <2>3. ~cacheDown => cacheAge' >= CacheTTL + asked'["supervisor"]
    BY <1>1, <1>3, <2>1, <2>2 DEF GateInv, WaitIsAged
  <2>4. pc["producer"] = "ok" /\ MaySayUp' => asked'["producer"] >= CacheTTL + asked'["supervisor"]
    BY <1>2, <1>3, <1>5, <1>6, <2>1, <2>2 DEF GateInv, WaitIsAged
  <2> QED
    BY <2>3, <2>4
<1> QED
  BY <1>10, <1>11, <1>12, <1>13, <1>14, <1>15 DEF GateInv
-----------------------------------------------------------------------------
LEMMA GateSteps == GateInv /\ [Next]_vars => GateInv'
<1> SUFFICES ASSUME GateInv, [Next]_vars PROVE GateInv'
  OBVIOUS
<1>1. ASSUME NEW a \in Askers, Gate(a) \/ Call(a) PROVE GateInv'
  BY <1>1, AskIsSound, TakeLockIsSound, ReadErrIsSound, ReadOkIsSound, CallsAreSound DEF Gate, Call
<1>2. CASE Lake
  BY <1>2, HeartbeatIsSound, ErrorIsSound, OthersAreSound DEF Lake
<1>3. CASE FireEnds
  BY <1>3, CallsAreSound DEF Askers
<1> QED
  BY <1>1, <1>2, <1>3, OthersAreSound, TickIsSound DEF Next

\* What FiresArePaced says of a step.
Paced ==
  pc["supervisor"] # "call" /\ pc'["supervisor"] = "call" /\ (known \/ (pc["supervisor"] = "idle" /\ downFor >= CacheTTL))
    => probeAge >= ProbeInterval /\ probeAge' = 0

LEMMA StepsArePaced == GateInv /\ [Next]_vars => Paced
<1> SUFFICES ASSUME GateInv, [Next]_vars, pc["supervisor"] # "call", pc'["supervisor"] = "call",
                    known \/ (pc["supervisor"] = "idle" /\ downFor >= CacheTTL)
             PROVE  probeAge >= ProbeInterval /\ probeAge' = 0
  BY DEF Paced
<1>1. GateTypes /\ downFor >= CacheTTL
  BY DEF GateInv, HistoryInv
<1>2. "supervisor" \in Askers /\ CacheTTL \in Nat /\ CacheTTL > 0
  BY GateAssumption DEF Askers
<1>3. \A a \in Askers, down \in BOOLEAN : Answer(a, down) /\ down => probeAge >= ProbeInterval /\ probeAge' = 0
  BY <1>1, Answered
<1>4. \A a \in Askers, down \in BOOLEAN : Answer(a, down) => a = "supervisor"
  <2> SUFFICES ASSUME NEW a \in Askers, NEW down \in BOOLEAN, Answer(a, down), a # "supervisor" PROVE FALSE
    OBVIOUS
  <2> QED
    BY <1>1, <1>2, Answered
<1>5. ASSUME NEW a \in Askers, Ask(a) PROVE probeAge >= ProbeInterval /\ probeAge' = 0
  <2>1. cacheAge < CacheTTL /\ Answer(a, cacheDown)
    BY <1>1, <1>2, <1>5 DEF Ask, GateTypes
  <2>2. cacheDown
    BY <1>1, <1>2, <2>1 DEF GateInv, CacheIsAged, GateTypes
  <2> QED
    BY <1>1, <1>3, <2>1, <2>2 DEF GateTypes
<1>6. ASSUME NEW a \in Askers, TakeLock(a) PROVE probeAge >= ProbeInterval /\ probeAge' = 0
  <2>1. pc[a] = "lock" /\ cacheAge < CacheTTL + asked[a] /\ Answer(a, cacheDown)
    BY <1>1, <1>2, <1>6 DEF TakeLock, GateTypes
  <2>2. a = "supervisor" /\ known
    BY <1>1, <1>4, <2>1 DEF GateTypes
  <2>3. cacheDown
    BY <1>1, <1>2, <2>1, <2>2 DEF GateInv, WaitIsAged, GateTypes
  <2> QED
    BY <1>1, <1>3, <2>1, <2>3 DEF GateTypes
<1>7. ASSUME NEW a \in Askers, NEW ok \in BOOLEAN, ReadErr(a, ok) \/ ReadOk(a, ok)
      PROVE  probeAge >= ProbeInterval /\ probeAge' = 0
  <2>1. ReadOk(a, ok)
    BY <1>1, <1>2, <1>7 DEF ReadErr, GateTypes
  <2>2. PICK down \in BOOLEAN : down = (seenErr /\ ~(ok /\ beatLife > 0 /\ seenOlder)) /\ Answer(a, down)
    BY <2>1 DEF ReadOk
  <2>3. a = "supervisor" /\ pc["supervisor"] = "ok" /\ known
    BY <1>4, <2>1, <2>2 DEF ReadOk
  <2>4. ~MaySayUp
    BY <2>3 DEF GateInv, OwnReadIsTrue
  <2>5. down
    BY <2>2, <2>4 DEF MaySayUp
  <2> QED
    BY <1>3, <2>2, <2>5
<1>8. ASSUME NEW a \in Askers, Call(a) PROVE FALSE
  BY <1>1, <1>2, <1>8 DEF Call, CallSucceeds, CallFails, GateTypes
<1>9. CASE Lake \/ FireEnds \/ ProviderFlips \/ Tick \/ UNCHANGED vars
  BY <1>1, <1>2, <1>9 DEF Lake, HeartbeatWrite, ErrorWrite, Reap, FireEnds, ProviderFlips, Tick, vars, GateTypes
<1> QED
  BY <1>5, <1>6, <1>7, <1>8, <1>9 DEF Next, Gate

\* However slow the reads are and however they cross with fires, heartbeats and error
\* rows, a supervisor that asks when the lake has said "down" for a cache life is let
\* through by claim_probe() alone, once per interval.
THEOREM ProbesArePaced == Spec => FiresArePaced
<1>1. Init => GateInv
  BY GateStarts
<1>2. GateInv /\ [Next]_vars => GateInv'
  BY GateSteps
<1>3. GateInv /\ [Next]_vars => [Paced]_vars
  BY StepsArePaced
<1>4. Spec => [][Paced]_vars
  BY <1>1, <1>2, <1>3, PTL DEF Spec
<1> QED
  BY <1>4 DEF FiresArePaced, Paced
=============================================================================
