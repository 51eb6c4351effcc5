------------------------------- MODULE Crystal -------------------------------
(***************************************************************************)
(* The identity crystal and what regenerates it: the poller that watches   *)
(* the drift (api/auto_regen.py, drift.py), the refresh it runs            *)
(* (api/server.py), the newest crystal in the lake with its small cache    *)
(* (api/crystal.py) and the anchor against which drift is measured         *)
(* (api/crystal_anchor.py).  Operators, who may run the refresh, too, do   *)
(* not here.                                                               *)
(*                                                                         *)
(* Time is a counter of polls.  A candidate is accepted or rejected as the *)
(* model pleases; what it says is left out, and with it the facets pushed  *)
(* at the end and the history of drift.                                    *)
(***************************************************************************)
EXTENDS Naturals, Sequences

CONSTANTS
  Cooldown,    \* crystal_regen_cooldown_seconds
  CacheLife,   \* _CACHE_TTL_SECONDS
  MaxClock,    \* bound: the clock
  MaxCrystals, \* bound: crystals in the lake
  MaxSlips     \* bound: calls that fail, answers lost, restarts

\* What is cached at one poll is no longer used at the next.
ASSUME CrystalBounds ==
  Cooldown \in Nat /\ CacheLife \in {0, 1} /\ {MaxClock, MaxCrystals, MaxSlips} \subseteq Nat

VARIABLES
  time,      \* the clock
  crystals,  \* the times at which crystals were written
  anchored,  \* does crystal-anchor.json hold an anchor?
  cache,     \* _cache and _cache_at
  late,      \* is a read under way that saw the lake before the last crystal?
  check,     \* where _check_once stands, what it has read, what had ended before
  checked,   \* when the last check ended
  marker,    \* _last_fired_at, 0 if None
  inFlight,  \* _in_flight
  spawned,   \* a task of _trigger_regen that has not begun, and its check
  refresh,   \* refresh_crystal() as run by the poller's task and by an operator
  regens,    \* history: the refreshes of the poller's tasks
  slips      \* things gone wrong so far (bounds the environment)

checkVars == <<check, checked, marker, spawned>>
crystalVars == <<time, crystals, anchored, cache, late, checkVars, inFlight, refresh, regens, slips>>

LastCrystal == Len(crystals)
Uncached == [has |-> FALSE, sees |-> 0, at |-> 0]
NotChecking == [pc |-> "rest", sees |-> 0, knew |-> 0]
NoRegen == [on |-> FALSE, knew |-> 0]

CrystalInit ==
  /\ time = 1 /\ crystals = << >> /\ anchored = FALSE /\ cache = Uncached /\ late = FALSE
  /\ check = NotChecking /\ checked = 0 /\ marker = 0 /\ spawned = NoRegen /\ inFlight = FALSE
  /\ refresh = "no" /\ regens = << >> /\ slips = 0

Slip == slips < MaxSlips /\ slips' = slips + 1

-----------------------------------------------------------------------------
(* crystal.latest(), which keeps an empty lake out of its cache.           *)

Cached == cache.has /\ cache.sees # 0 /\ time - cache.at < CacheLife
Store(n) == cache' = [has |-> TRUE, sees |-> n, at |-> time]

\* Other readers, prompts above all, keep the cache warm.
OthersRead ==
  /\ ~Cached
  /\ Store(LastCrystal)
  /\ UNCHANGED <<time, crystals, anchored, late, checkVars, inFlight, refresh, regens, slips>>

\* A read that was under way when a crystal was written puts the one before
\* it into the cache.
LateRead ==
  /\ late
  /\ late' = FALSE
  /\ Store(LastCrystal - 1)
  /\ UNCHANGED <<time, crystals, anchored, checkVars, inFlight, refresh, regens, slips>>

-----------------------------------------------------------------------------
(* _check_once(): drift.sample(), then the cool-down.                      *)

\* The check returns, and the poller sleeps for longer than a read may take and
\* its answer is cached: a late one is of no use to the next check.
CheckReturns == check' = NotChecking /\ checked' = time /\ late' = FALSE

\* The marker takes the time of a crystal, which may be older than what it had:
\* rejections after that time no longer count.
SetMarker(at) ==
  /\ marker' = at
  /\ regens' = [i \in DOMAIN regens |->
       [regens[i] EXCEPT !.how = IF @ = "rejected" /\ regens[i].end > at THEN "forgotten" ELSE @]]

\* _within_cooldown(), once it has the newest crystal: nothing is awaited
\* between this and the spawning of the regen.
DecideRegen(n) ==
  /\ CheckReturns
  /\ IF n # 0 /\ time - crystals[n] < Cooldown
     THEN SetMarker(crystals[n]) /\ UNCHANGED spawned
     ELSE spawned' = [on |-> TRUE, knew |-> check.knew] /\ UNCHANGED <<marker, regens>>

\* Variant: the marker counts for nothing.
RecentNot == FALSE

\* A regen of this process ended within the cool-down.
Recent == marker # 0 /\ time - marker < Cooldown

\* The lake is asked for the newest crystal.
AskLake ==
  /\ check' = [check EXCEPT !.pc = "cooldown", !.sees = LastCrystal]
  /\ UNCHANGED <<late, checked, marker, spawned, regens>>

\* The drift is in the red, or there is no crystal: the marker is asked, then
\* the cache, then the lake.
AskCooldown ==
  \/ Recent /\ CheckReturns /\ UNCHANGED <<marker, spawned, regens>>
  \/ ~Recent /\ Cached /\ DecideRegen(cache.sees)
  \/ ~Recent /\ ~Cached /\ AskLake

\* With the newest crystal known, drift.sample() measures, if it has an anchor.
Measure(knew, n) ==
  [NotChecking EXCEPT !.pc = IF anchored THEN "measure" ELSE "heal", !.knew = knew, !.sees = n]

\* Those of the regens that are over.
Over == IF inFlight THEN Len(regens) - 1 ELSE Len(regens)

\* Polls are a minute apart: a spawned task has begun by then.
CheckStarts ==
  /\ check.pc = "rest" /\ ~spawned.on /\ checked < time
  /\ check' = IF Cached THEN Measure(Over, cache.sees)
              ELSE [pc |-> "sample", sees |-> LastCrystal, knew |-> Over]
  /\ UNCHANGED <<time, crystals, anchored, cache, late, checked, marker, spawned, inFlight, refresh, regens, slips>>

\* The lake answers the read that sample() waits for.
SampleRead ==
  /\ check.pc = "sample"
  /\ Store(check.sees)
  /\ IF check.sees # 0
     THEN check' = Measure(check.knew, check.sees) /\ UNCHANGED <<late, checked, marker, spawned, regens>>
     ELSE IF Recent THEN CheckReturns /\ UNCHANGED <<marker, spawned, regens>> ELSE AskLake
  /\ UNCHANGED <<time, crystals, anchored, inFlight, refresh, slips>>

\* The centroid is there: the drift is in the red or not.
Measured(red) ==
  /\ check.pc = "measure"
  /\ IF red THEN AskCooldown ELSE CheckReturns /\ UNCHANGED <<marker, spawned, regens>>
  /\ UNCHANGED <<time, crystals, anchored, cache, inFlight, refresh, slips>>

CooldownRead ==
  /\ check.pc = "cooldown"
  /\ Store(check.sees)
  /\ DecideRegen(check.sees)
  /\ UNCHANGED <<time, crystals, anchored, inFlight, refresh, slips>>

\* _self_heal_anchor(): the crystal is fine, only the anchor is missing.
Heal ==
  /\ check.pc = "heal"
  /\ anchored' = TRUE
  /\ CheckReturns
  /\ UNCHANGED <<time, crystals, cache, marker, spawned, inFlight, refresh, regens, slips>>

\* Any of these calls may fail, which never counts as "no crystal" or "red".
CheckFails ==
  /\ check.pc # "rest"
  /\ Slip
  /\ CheckReturns
  /\ UNCHANGED <<time, crystals, anchored, cache, marker, spawned, inFlight, refresh, regens>>

-----------------------------------------------------------------------------
(* _trigger_regen() and refresh_crystal().                                 *)

\* The spawned task looks at _in_flight only now.
TriggerStarts ==
  /\ spawned.on
  /\ spawned' = NoRegen
  /\ IF inFlight THEN UNCHANGED <<inFlight, refresh, regens>>
     ELSE /\ inFlight' = TRUE
          /\ refresh' = "generate"
          /\ regens' = Append(regens, [start |-> time, wrote |-> 0, end |-> 0, knew |-> spawned.knew, how |-> "running"])
  /\ UNCHANGED <<time, crystals, anchored, cache, late, check, checked, marker, slips>>

\* A refresh that returns starts the cool-down, one that raises does not.
Mark(how) == IF how = "raised" THEN marker ELSE time

\* The refresh returns or raises.
RefreshEnds(how) ==
  /\ refresh' = "no"
  /\ marker' = Mark(how) /\ inFlight' = FALSE
  /\ regens' = [regens EXCEPT ![Len(regens)].end = time, ![Len(regens)].how = how]

\* A candidate passes both gates, perhaps the second after a retry; or the
\* retry is rejected, too.
Accepted ==
  /\ refresh = "generate" /\ LastCrystal < MaxCrystals
  /\ refresh' = "write"
  /\ UNCHANGED <<time, crystals, anchored, cache, late, checkVars, inFlight, regens, slips>>

Rejected ==
  /\ refresh = "generate"
  /\ RefreshEnds("rejected")
  /\ UNCHANGED <<time, crystals, anchored, cache, late, check, checked, spawned, slips>>

\* crystal.write() empties the cache once the write is answered.
WriteCrystal ==
  /\ refresh = "write" /\ LastCrystal < MaxCrystals
  /\ crystals' = Append(crystals, time)
  /\ cache' = Uncached
  /\ late' \in {FALSE, ~Cached}
  /\ refresh' = "anchor"
  /\ regens' = [regens EXCEPT ![Len(regens)].wrote = time]
  /\ UNCHANGED <<time, anchored, checkVars, inFlight, slips>>

\* The model or the write raises; the write may have landed all the same.
RefreshRaises(lands) ==
  /\ refresh \in {"generate", "write"}
  /\ lands => refresh = "write" /\ LastCrystal < MaxCrystals
  /\ Slip
  /\ crystals' = IF lands THEN Append(crystals, time) ELSE crystals
  /\ RefreshEnds("raised")
  /\ UNCHANGED <<time, anchored, cache, late, check, checked, spawned>>

\* The anchor is the centroid of the lake as it is now; without it the old one
\* stays.
SaveAnchor(ok) ==
  /\ refresh = "anchor"
  /\ IF ok THEN anchored' = TRUE /\ UNCHANGED slips ELSE Slip /\ UNCHANGED anchored
  /\ refresh' = "seed"
  /\ UNCHANGED <<time, crystals, cache, late, checkVars, inFlight, regens>>

\* A first sample of the drift, the facets, and the refresh is done.
Seed ==
  /\ refresh = "seed"
  /\ IF Cached THEN UNCHANGED cache ELSE Store(LastCrystal)
  /\ RefreshEnds("wrote")
  /\ UNCHANGED <<time, crystals, anchored, late, check, checked, spawned, slips>>

\* The process starts again; the anchor's file may be lost with it.
CrystalRestart(keep) ==
  /\ Slip
  /\ anchored' = (anchored /\ keep)
  /\ cache' = Uncached /\ late' = FALSE /\ check' = NotChecking /\ checked' = time - 1 /\ marker' = 0 /\ spawned' = NoRegen
  /\ inFlight' = FALSE /\ refresh' = "no"
  /\ regens' = [i \in 1..Len(regens) |->
       IF regens[i].end # 0 THEN [regens[i] EXCEPT !.how = IF @ = "wrote" THEN @ ELSE "forgotten"]
       ELSE [regens[i] EXCEPT !.end = time, !.how = IF regens[i].wrote # 0 THEN "wrote" ELSE "forgotten"]]
  /\ UNCHANGED <<time, crystals>>

CrystalTick ==
  /\ time < MaxClock
  /\ time' = time + 1
  /\ UNCHANGED <<crystals, anchored, cache, late, checkVars, inFlight, refresh, regens, slips>>

Poller ==
  \/ CheckStarts \/ SampleRead \/ CooldownRead \/ Heal \/ CheckFails
  \/ \E red \in BOOLEAN : Measured(red)
Refresh ==
  \/ Accepted \/ Rejected \/ WriteCrystal \/ Seed
  \/ \E b \in BOOLEAN : RefreshRaises(b) \/ SaveAnchor(b)
CrystalNext ==
  \/ Poller \/ TriggerStarts \/ Refresh
  \/ OthersRead \/ LateRead \/ (\E keep \in BOOLEAN : CrystalRestart(keep)) \/ CrystalTick

CrystalSpec == CrystalInit /\ [][CrystalNext]_crystalVars
-----------------------------------------------------------------------------
\* Every variable has its type; a regen of the poller is under way exactly
\* while _in_flight is set, and it is the last one.
CrystalTypeOK ==
  /\ time \in 1..MaxClock /\ {marker, checked} \subseteq 0..time
  /\ crystals \in Seq(1..time) /\ LastCrystal <= MaxCrystals
  /\ cache.sees \in 0..LastCrystal /\ check.sees \in 0..LastCrystal
  /\ check.pc \in {"rest", "sample", "measure", "cooldown", "heal"}
  /\ refresh \in {"no", "generate", "write", "anchor", "seed"}
  /\ inFlight = (refresh # "no")
  /\ \A i \in 1..Len(regens) : (regens[i].end = 0) = (inFlight /\ i = Len(regens))
  /\ late => LastCrystal # 0
  /\ slips \in 0..MaxSlips

\* Once a regen of the poller has written a crystal, or had its candidates
\* rejected, no check that begins afterwards starts another within the
\* cool-down: not across failed reads, stale caches or restarts.  A restart
\* forgets rejections, and so does a check that puts an older crystal's time
\* into the marker.
RegensAreSpaced ==
  \A i, j \in DOMAIN regens :
    i <= regens[j].knew =>
      /\ regens[i].how = "wrote" => regens[j].start - regens[i].wrote >= Cooldown
      /\ regens[i].how = "rejected" => regens[j].start - regens[i].end >= Cooldown

\* Stated for the reader, and broken: the marker never goes back while the
\* process runs.  A write whose answer was lost leaves a crystal that one check
\* does not see in the cache; the next reads it while the regen of the first
\* ends, and puts its time in place of that end.
MarkerStays == [][marker' >= marker \/ marker' = 0]_crystalVars
=============================================================================
