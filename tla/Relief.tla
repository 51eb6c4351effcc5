------------------------------- MODULE Relief -------------------------------
(***************************************************************************)
(* Pressure and its relief: activity in the lake builds up pressure        *)
(* (api/feed_pressure.py), the watcher (api/loop/pressure.py) and the      *)
(* operator's buttons (api/loop/routes.py) fire tiers that post a prompt,  *)
(* take a bite of the pressure and go on cool-down (api/loop/relief.py).   *)
(* The cool-downs and the pressure's state are files and outlive the       *)
(* process.                                                                *)
(*                                                                         *)
(* Pressure is counted in tenths of the threshold, and what is carried     *)
(* over is rounded down to what some tier asks for.  What decays within    *)
(* the lake's window is either all there or all gone.  Time is kept as     *)
(* ages that end at the longest anybody asks for.                          *)
(***************************************************************************)
EXTENDS Naturals, FiniteSets, FiniteSetsExt

CONSTANTS
  Clicks,        \* requests of an operator that can be under way at once
  CoolAlert,     \* cooldown_seconds of the tiers
  CoolBridging,
  CoolSit,
  CoolFeed,
  Recency,       \* ALERT_RECENCY_S
  Surge,         \* what an activity adds to the pressure
  MaxActivity,   \* bound: activity in the lake
  MaxPresses,     \* bound: presses
  MaxHitches     \* bound: calls that fail, restarts

ASSUME ReliefBounds == CoolAlert \in Nat /\ CoolBridging \in Nat /\ CoolSit \in Nat /\ CoolFeed \in Nat

VARIABLES
  activity,   \* the weights of all rows the pressure counts
  anchor,     \* the activity before last_synthesis_at
  floor,      \* pressure_floor
  age,        \* the time since each tier's stamp in relief-cooldowns.json
  lastSit,    \* _last_sit
  alertAge,   \* the time since the newest alert card in the lake
  relief,     \* fire_relief() as run by the watcher and by each click
  presses,    \* buttons pressed (bounds the environment)
  hitches,    \* things gone wrong so far (bounds the environment)
  ago,        \* history: the time since each tier's prompt landed
  unstamped,  \* history: tiers whose last prompt lost its stamp to a fault
  early       \* history: tiers whose prompt landed too early without excuse

reliefVars == <<activity, anchor, floor, age, lastSit, alertAge, relief, presses, hitches, ago, unstamped, early>>
tables == <<age, lastSit>>
pressure == <<activity, anchor, floor>>

TheWatcher == "watcher"
Askers == {TheWatcher} \cup Clicks

\* RELIEF_TIERS: the floor of each tier, its bite, its cool-down.
Tiers == {"alert", "bridging", "reflection", "drift", "feed"}
SitGroup == {"reflection", "drift"}
MinPressure == [alert |-> 3, bridging |-> 5, reflection |-> 7, drift |-> 7, feed |-> 0]
ConsumeWeight == [alert |-> 2, bridging |-> 5, reflection |-> 10, drift |-> 10, feed |-> 3]
Cool == [alert |-> CoolAlert, bridging |-> CoolBridging, reflection |-> CoolSit,
         drift |-> CoolSit, feed |-> CoolFeed]

\* What is left of a pressure p after a bite of w tenths.
Carried(p, w) ==
  Max({n \in {0, 10} \cup {MinPressure[t] : t \in Tiers} : 10 * n <= p * (10 - w)})

OnCooldown(t) == age[t] < Cool[t]

\* Where a fire is; "tier" is the one it was asked for until it has picked one.
Resting == [pc |-> "rest", tier |-> "none", floor |-> 0, since |-> 0, alone |-> TRUE]

ReliefInit ==
  /\ activity = 0 /\ anchor = 0 /\ floor = 0
  /\ age = Cool /\ lastSit = "none" /\ alertAge = Recency
  /\ relief = [a \in Askers |-> Resting] /\ presses = 0 /\ hitches = 0
  /\ ago = Cool /\ unstamped = {} /\ early = {}

Hitch == hitches < MaxHitches /\ hitches' = hitches + 1
Try(ok) == IF ok THEN UNCHANGED hitches ELSE Hitch

-----------------------------------------------------------------------------
(* The outside.                                                            *)

Activity ==
  /\ activity + Surge <= MaxActivity
  /\ activity' = activity + Surge
  /\ UNCHANGED <<anchor, floor, tables, alertAge, relief, presses, hitches, ago, unstamped, early>>

Older(n, end) == IF n < end THEN n + 1 ELSE n

ReliefTick ==
  /\ age' = [t \in Tiers |-> Older(age[t], Cool[t])]
  /\ ago' = [t \in Tiers |-> Older(ago[t], Cool[t])]
  /\ alertAge' = Older(alertAge, Recency)
  /\ UNCHANGED <<pressure, lastSit, relief, presses, hitches, unstamped, early>>

\* Some fire of the harness routes a card as an alert.
AlertCard ==
  /\ alertAge' = 0
  /\ UNCHANGED <<pressure, tables, relief, presses, hitches, ago, unstamped, early>>

-----------------------------------------------------------------------------
(* read_pressure(): the state file first, then the volume since the anchor *)
(* it names.                                                               *)

\* The state of the relief with a read of the pressure begun.
ReadBegins(a, pc, tier) ==
  relief' = [relief EXCEPT ![a] = [pc |-> pc, tier |-> tier, floor |-> floor', since |-> anchor', alone |-> TRUE]]

\* A read that fails counts as no volume, like one where all has decayed.
Volumes(a) == {0, activity - relief[a].since}
Total(a, v) == v + relief[a].floor

ReliefEnds(a) == relief' = [relief EXCEPT ![a] = Resting]

\* The watcher cascades: it goes on firing until nothing is eligible.
FireReturns(a) == IF a = TheWatcher THEN ReadBegins(a, "volume", "none") ELSE ReliefEnds(a)

-----------------------------------------------------------------------------
(* pressure_watcher(), fire_pulse().                                       *)

WatcherPolls ==
  /\ relief[TheWatcher].pc = "rest"
  /\ UNCHANGED pressure
  /\ ReadBegins(TheWatcher, "ask", "none")
  /\ UNCHANGED <<tables, alertAge, presses, hitches, ago, unstamped, early>>

\* should_synthesize(): the watcher takes no notice of a first run, and
\* nothing sets last_wake_at in this state, so only the threshold counts.
ShouldSynthesize(v) ==
  /\ relief[TheWatcher].pc = "ask"
  /\ UNCHANGED pressure
  /\ IF Total(TheWatcher, v) >= 10 THEN ReadBegins(TheWatcher, "volume", "none") ELSE ReliefEnds(TheWatcher)
  /\ UNCHANGED <<tables, alertAge, presses, hitches, ago, unstamped, early>>

\* A button: of one tier, or of whatever is off cool-down.
FirePulse(a, wanted) ==
  /\ a \in Clicks /\ relief[a].pc = "rest" /\ presses < MaxPresses
  /\ presses' = presses + 1
  /\ UNCHANGED pressure
  /\ ReadBegins(a, "volume", wanted)
  /\ UNCHANGED <<tables, alertAge, hitches, ago, unstamped, early>>

-----------------------------------------------------------------------------
(* fire_relief().                                                          *)

\* A tier that a fire without a wish may take; presses bypass the floor.
Eligible(a, p, t) ==
  /\ t # "feed" /\ ~OnCooldown(t)
  /\ a \in Clicks \/ p >= MinPressure[t]

NextSit == IF lastSit = "reflection" THEN "drift" ELSE "reflection"

\* pick_tier(): the cheapest; the two sits by turns, unless one is cooling.
PickTier(a, p) ==
  LET can(t) == Eligible(a, p, t)
  IN  CASE can("alert") -> {"alert"}
        [] ~can("alert") /\ can("bridging") -> {"bridging"}
        [] ~can("alert") /\ ~can("bridging") ->
             IF can(NextSit) THEN {NextSit} ELSE {t \in SitGroup : can(t)}

Picks(a, p) ==
  IF relief[a].tier = "none" THEN PickTier(a, p)
  ELSE {t \in {relief[a].tier} : ~OnCooldown(t)}

\* The fires of a tier that have picked it and not posted yet.
Posting(t) == {b \in Askers : relief[b].pc \in {"recent", "post"} /\ relief[b].tier = t}

\* The volume is there.  From here to the post nobody looks at the cool-down
\* again, so fires that overlap post the same tier twice.
VolumeRead(a, v) ==
  /\ relief[a].pc = "volume"
  /\ \/ Picks(a, Total(a, v)) = {} /\ ReliefEnds(a)
     \/ \E t \in Picks(a, Total(a, v)) :
          relief' = [b \in Askers |->
            IF b = a THEN [Resting EXCEPT !.pc = IF t = "alert" THEN "recent" ELSE "post", !.tier = t,
                                          !.alone = (Posting(t) = {})]
            ELSE [relief[b] EXCEPT !.alone = @ /\ b \notin Posting(t)]]
  /\ UNCHANGED <<pressure, tables, alertAge, presses, hitches, ago, unstamped, early>>

\* Variant: the table is written without having been read.
StampAlone(t) ==
  /\ age' = [x \in Tiers |-> IF x = t THEN 0 ELSE Cool[x]]
  /\ lastSit' = IF t \in SitGroup THEN t ELSE lastSit

\* _stamp_cooldown(): read, change and write under one lock.
StampTier(t) ==
  /\ age' = [age EXCEPT ![t] = 0]
  /\ lastSit' = IF t \in SitGroup THEN t ELSE lastSit

\* An alert card is fresh: no fire, but a stamp, and the cascade ends.  The
\* query may fail, which counts as no card.
RecentAlert(a, ok) ==
  /\ relief[a].pc = "recent"
  /\ Try(ok)
  /\ IF ok /\ alertAge < Recency
     THEN StampTier("alert") /\ ReliefEnds(a)
     ELSE relief' = [relief EXCEPT ![a].pc = "post"] /\ UNCHANGED tables
  /\ UNCHANGED <<pressure, alertAge, presses, ago, unstamped, early>>

\* The prompt of tier t lands in the thread.
PromptLands(a, t) ==
  /\ ago' = [ago EXCEPT ![t] = 0]
  /\ early' = early \cup {x \in {t} : ago[x] < Cool[x] /\ relief[a].alone /\ x \notin unstamped}

\* The post, which may fail unnoticed, the stamp, and a sit's full reset.
Post(a, ok) ==
  /\ relief[a].pc = "post"
  /\ Try(ok)
  /\ LET t == relief[a].tier
     IN  /\ IF ok THEN PromptLands(a, t) ELSE UNCHANGED <<ago, early>>
         /\ StampTier(t)
         /\ unstamped' = unstamped \ {t}
         /\ IF ConsumeWeight[t] = 10
            THEN anchor' = activity /\ floor' = 0 /\ FireReturns(a)
            ELSE UNCHANGED <<anchor, floor>> /\ ReadBegins(a, "bite", t)
  /\ UNCHANGED <<activity, alertAge, presses>>

\* The stamp cannot be written: fire_relief() raises, and the watcher sleeps.
StampFails(a) ==
  /\ relief[a].pc = "post"
  /\ Hitch
  /\ PromptLands(a, relief[a].tier)
  /\ unstamped' = unstamped \cup {relief[a].tier}
  /\ ReliefEnds(a)
  /\ UNCHANGED <<pressure, tables, alertAge, presses>>

\* mark_synthesis(): what the bite leaves is carried over, from what was read
\* before; the anchor moves.  A state file that cannot be written changes
\* nothing.
Bite(a, v, ok) ==
  /\ relief[a].pc = "bite"
  /\ Try(ok)
  /\ IF ok THEN /\ floor' = Carried(Total(a, v), ConsumeWeight[relief[a].tier])
                /\ anchor' = activity
           ELSE UNCHANGED <<anchor, floor>>
  /\ FireReturns(a)
  /\ UNCHANGED <<activity, tables, alertAge, presses, ago, unstamped, early>>

\* The process starts again; posts under way may have landed.
ReliefRestart(landed) ==
  /\ Hitch
  /\ landed \subseteq {a \in Askers : relief[a].pc = "post"}
  /\ LET T == {relief[a].tier : a \in landed}
     IN  /\ ago' = [t \in Tiers |-> IF t \in T THEN 0 ELSE ago[t]]
         /\ unstamped' = unstamped \cup T
  /\ relief' = [a \in Askers |-> Resting]
  /\ UNCHANGED <<pressure, tables, alertAge, presses, early>>

Fire(a) ==
  \/ \E v \in Volumes(a) : VolumeRead(a, v)
  \/ \E ok \in BOOLEAN : RecentAlert(a, ok) \/ Post(a, ok) \/ \E v \in Volumes(a) : Bite(a, v, ok)

ReliefNext ==
  \/ Activity \/ ReliefTick \/ AlertCard
  \/ WatcherPolls \/ (\E v \in Volumes(TheWatcher) : ShouldSynthesize(v))
  \/ \E a \in Askers :
       \/ Fire(a) \/ StampFails(a)
       \/ \E wanted \in Tiers \cup {"none"} : FirePulse(a, wanted)
  \/ \E landed \in SUBSET Askers : ReliefRestart(landed)

ReliefSpec == ReliefInit /\ [][ReliefNext]_reliefVars
-----------------------------------------------------------------------------
\* Every variable has its type: the state files say nothing of the future, and
\* a fire that posts has picked a tier.
ReliefTypeOK ==
  /\ activity \in 0..MaxActivity /\ anchor \in 0..activity /\ floor \in Nat
  /\ \A t \in Tiers : age[t] \in 0..Cool[t] /\ ago[t] \in 0..Cool[t]
  /\ lastSit \in SitGroup \cup {"none"} /\ alertAge \in 0..Recency
  /\ \A a \in Askers :
       /\ relief[a].pc \in {"rest", "ask", "volume", "recent", "post", "bite"}
       /\ relief[a].tier \in Tiers \cup {"none"} /\ relief[a].since \in 0..activity
       /\ relief[a].pc \in {"recent", "post", "bite"} => relief[a].tier \in Tiers
  /\ {unstamped, early} \subseteq SUBSET Tiers
  /\ presses \in 0..MaxPresses /\ hitches \in 0..MaxHitches

\* A tier's prompt lands no sooner than its cool-down after the last one,
\* through cascades, buttons, suppressed alerts, restarts and failing bites,
\* unless two fires had picked the tier at once or a fault took the stamp of
\* the last one (the stamp comes "BEFORE consuming pressure so a crash
\* mid-consume doesn't re-fire the same tier", relief.py).
TiersAreSpaced == early = {}

\* "each tick fires AT MOST ONE tier" (api/loop/pressure.py) is not so: the
\* watcher posts again before it sleeps.
OneTierATick ==
  [][relief[TheWatcher].pc \in {"post", "bite"} => relief'[TheWatcher].pc # "volume"]_reliefVars
=============================================================================
