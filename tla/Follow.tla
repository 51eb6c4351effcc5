-------------------------------- MODULE Follow --------------------------------
(* The browser extension that sends screenshots to the lake                  *)
(* (addons/browser-extension).  A navigation, a blur, a scroll or the popup  *)
(* starts a capture, which reads the settings, checks that the user has not  *)
(* paused and that the tab has cooled down, takes a picture of what its      *)
(* window shows, uploads it, and puts it on a list of recent ones.  Each of  *)
(* these steps awaits the browser; captures run beside each other and beside *)
(* what the user does, and the worker loses its maps when it is put to sleep.*)
EXTENDS Naturals, Sequences, FiniteSets, SequencesExt
CONSTANTS
  Tabs,        \* the tabs of one window
  Pages,       \* what they may show
  Shunned,     \* the pages of the blocklist at the start
  ShotRest,    \* CAPTURE_COOLDOWN_MS
  MaxRecents,  \* MAX_RECENTS
  FarEnough,   \* scrollThresholdPct: how far a scroll goes before it counts
  MaxShots, MaxMoves, MaxTicks, MaxBumps \* bounds: captures, the user's moves, time, failures

ASSUME FollowBounds == ShotRest \in Nat /\ MaxRecents \in Nat /\ FarEnough \in Nat

VARIABLES
  shows, front,        \* the page of each tab, and the tab in front
  armed, blocklist,    \* enabled, and the settings' blocklist
  shots,               \* every capture that was begun, in order
  lastAt,              \* lastCaptureAt, 0 for none
  baseline, timers,    \* scrollBaseline, and scrollTimers with the fraction each will set, none for none
  recents,             \* the list in the popup, newest first
  revoking, revoked,   \* the popup's removal under way, and the user's own: what was taken off the list
  begun, tooSoon,      \* ghosts: when a capture of a tab last passed the check, and whether one did too early
  eased, overwrote,      \* ghosts: tabs whose cool-down was taken back since; two writers of the list overwrote
  tick, moves, bumps

followVars == <<shows, front, armed, blocklist, shots, lastAt, baseline, timers, recents, revoking, revoked,
                begun, tooSoon, eased, overwrote, tick, moves, bumps>>
user == <<shows, front, armed, blocklist, revoking, revoked>>
scrolls == <<baseline, timers>>
ghosts == <<begun, tooSoon, eased, overwrote>>

none == 9
\* page: the url the trigger saw.  known: the blocklist that was loaded.  pic: the page
\* in the picture.  moved: the window changed, or showed another tab, before the
\* picture.  was: what was blocked at the trigger; on: the user had it on since.
\* seen: the list as it was read.
Shot(t, reason, to) ==
  [pc |-> "settings", tab |-> t, page |-> shows[t], reason |-> reason, to |-> to, known |-> {}, pic |-> none,
   moved |-> t # front, was |-> blocklist, on |-> armed, seen |-> <<>>]
Unpictured(s) == s.pc \in {"settings", "checks", "pictures"}
Moved == [k \in DOMAIN shots |-> [shots[k] EXCEPT !.moved = @ \/ Unpictured(shots[k])]]
NoRemoval == [of |-> 0, seen |-> <<>>]
\* Who has read the list and not written it back.
Writers == {k \in DOMAIN shots : shots[k].pc = "lists"} \cup (IF revoking = NoRemoval THEN {} ELSE {0})
Move == moves < MaxMoves /\ moves' = moves + 1
Bump == bumps < MaxBumps /\ bumps' = bumps + 1
BeginShot(t, reason, to) == Len(shots) < MaxShots /\ shots' = Append(shots, Shot(t, reason, to))
Set(k, s) == shots' = [shots EXCEPT ![k] = s]

FollowInit ==
  /\ shows \in [Tabs -> Pages \ Shunned] /\ front \in Tabs /\ armed = TRUE /\ blocklist = Shunned
  /\ shots = <<>> /\ lastAt = [t \in Tabs |-> 0]
  /\ baseline = [t \in Tabs |-> 0] /\ timers = [t \in Tabs |-> none]
  /\ recents = <<>> /\ revoking = NoRemoval /\ revoked = {}
  /\ begun = [t \in Tabs |-> 0] /\ tooSoon = FALSE /\ eased = {} /\ overwrote = FALSE
  /\ tick = ShotRest /\ moves = 0 /\ bumps = 0
-----------------------------------------------------------------------------
\* A tab that comes to a page starts a capture, in front or not; the rest of the
\* window sees the new page only if it is in front.
Navigates(t, page) ==
  /\ Move /\ Len(shots) < MaxShots
  /\ shows' = [shows EXCEPT ![t] = page]
  /\ LET before == IF t = front THEN Moved ELSE shots
     IN  shots' = Append(before, [Shot(t, "navigation", none) EXCEPT !.page = page])
  /\ UNCHANGED <<front, armed, blocklist, revoking, revoked, lastAt, scrolls, recents, ghosts, tick, bumps>>

Activates(t) ==
  /\ t # front /\ Move /\ front' = t /\ shots' = Moved
  /\ UNCHANGED <<shows, armed, blocklist, revoking, revoked, lastAt, scrolls, recents, ghosts, tick, bumps>>

Blurs(t) ==
  /\ BeginShot(t, "blur", none)
  /\ UNCHANGED <<user, lastAt, scrolls, recents, ghosts, tick, moves, bumps>>

\* A scroll that has come far enough captures at once, any other one when no more
\* scrolls have come for two seconds.
Scrolls(t, to) ==
  /\ IF to - baseline[t] >= FarEnough /\ to >= baseline[t]
     THEN /\ BeginShot(t, "scroll", to)
          /\ timers' = [timers EXCEPT ![t] = none]
     ELSE timers' = [timers EXCEPT ![t] = to] /\ timers' # timers /\ UNCHANGED shots
  /\ Move /\ UNCHANGED <<user, lastAt, baseline, recents, ghosts, tick, bumps>>

TimerFires(t) ==
  /\ timers[t] # none /\ BeginShot(t, "scroll", timers[t])
  /\ timers' = [timers EXCEPT ![t] = none]
  /\ UNCHANGED <<user, lastAt, baseline, recents, ghosts, tick, moves, bumps>>

\* The popup's button: refused on a blocked page, else the cool-down is taken back.
Manual ==
  /\ shows[front] \notin blocklist /\ BeginShot(front, "manual", none)
  /\ lastAt' = [lastAt EXCEPT ![front] = 0] /\ eased' = eased \cup {front}
  /\ UNCHANGED <<user, scrolls, recents, begun, tooSoon, overwrote, tick, moves, bumps>>
-----------------------------------------------------------------------------
LoadSettings(k) ==
  /\ shots[k].pc = "settings"
  /\ Set(k, [shots[k] EXCEPT !.pc = "checks", !.known = blocklist])
  /\ UNCHANGED <<user, lastAt, scrolls, recents, ghosts, tick, moves, bumps>>

\* Paused, blocked or not cooled down: no capture.  Else the cool-down starts anew,
\* with no await between the check and the stamp.
CooledDown(t) == lastAt[t] = 0 \/ tick - lastAt[t] >= ShotRest
CheckShot(k) ==
  LET s == shots[k]
      passes == armed /\ s.page \notin s.known /\ CooledDown(s.tab)
  IN  /\ s.pc = "checks"
      /\ Set(k, [s EXCEPT !.pc = IF passes THEN "pictures" ELSE "after"])
      /\ IF passes
         THEN /\ lastAt' = [lastAt EXCEPT ![s.tab] = tick]
              /\ begun' = [begun EXCEPT ![s.tab] = tick] /\ eased' = eased \ {s.tab}
              /\ tooSoon' = (tooSoon \/ (begun[s.tab] # 0 /\ tick - begun[s.tab] < ShotRest /\ s.tab \notin eased))
         ELSE UNCHANGED <<lastAt, begun, tooSoon, eased>>
      /\ UNCHANGED <<user, scrolls, recents, overwrote, tick, moves, bumps>>

\* The picture is of the window.
Picture(k, ok) ==
  /\ shots[k].pc = "pictures" /\ (IF ok THEN UNCHANGED bumps ELSE Bump)
  /\ Set(k, IF ok THEN [shots[k] EXCEPT !.pc = "uploads", !.pic = shows[front]] ELSE [shots[k] EXCEPT !.pc = "after"])
  /\ UNCHANGED <<user, lastAt, scrolls, recents, ghosts, tick, moves>>

Upload(k, ok) ==
  /\ shots[k].pc = "uploads" /\ (IF ok THEN UNCHANGED bumps ELSE Bump)
  /\ Set(k, [shots[k] EXCEPT !.pc = IF ok THEN "reads" ELSE "after"])
  /\ UNCHANGED <<user, lastAt, scrolls, recents, ghosts, tick, moves>>

ReadRecents(k) ==
  /\ shots[k].pc = "reads"
  /\ Set(k, [shots[k] EXCEPT !.pc = "lists", !.seen = recents])
  /\ UNCHANGED <<user, lastAt, scrolls, recents, ghosts, tick, moves, bumps>>

Kept(list) == SubSeq(list, 1, IF Len(list) < MaxRecents THEN Len(list) ELSE MaxRecents)
WriteRecents(k) ==
  /\ shots[k].pc = "lists"
  /\ recents' = Kept(<<k>> \o shots[k].seen)
  /\ Set(k, [shots[k] EXCEPT !.pc = "listed"]) /\ overwrote' = (overwrote \/ Writers # {k})
  /\ UNCHANGED <<user, lastAt, scrolls, begun, tooSoon, eased, tick, moves, bumps>>

\* However a capture ended, the baseline of its tab is set.
After(k) ==
  LET s == shots[k]
  IN  /\ s.pc \in {"after", "listed"}
      /\ Set(k, [s EXCEPT !.pc = IF s.pc = "listed" THEN "done" ELSE "dropped", !.seen = <<>>])
      /\ baseline' = CASE s.reason = "navigation" -> [baseline EXCEPT ![s.tab] = 0]
                       [] s.reason = "scroll" -> [baseline EXCEPT ![s.tab] = s.to]
                       [] OTHER -> baseline
      /\ UNCHANGED <<user, lastAt, timers, recents, ghosts, tick, moves, bumps>>
-----------------------------------------------------------------------------
SetEnabled(on) ==
  /\ armed # on /\ Move /\ armed' = on
  /\ shots' = [k \in DOMAIN shots |-> [shots[k] EXCEPT !.on = @ \/ on]]
  /\ UNCHANGED <<shows, front, blocklist, revoking, revoked, lastAt, scrolls, recents, ghosts, tick, bumps>>

BlockPage ==
  /\ shows[front] \notin blocklist /\ Move /\ blocklist' = blocklist \cup {shows[front]}
  /\ UNCHANGED <<shows, front, armed, revoking, revoked, shots, lastAt, scrolls, recents, ghosts, tick, bumps>>

\* The popup takes one, which is there once, off the list that it reads and writes back.
Revoke(k) ==
  /\ k \in ToSet(recents) \ revoked /\ revoking = NoRemoval /\ Move
  /\ revoking' = [of |-> k, seen |-> recents]
  /\ UNCHANGED <<shows, front, armed, blocklist, revoked, shots, lastAt, scrolls, recents, ghosts, tick, bumps>>

Revoked ==
  /\ revoking # NoRemoval /\ revoking' = NoRemoval
  /\ recents' = RemoveFirst(revoking.seen, revoking.of) /\ revoked' = revoked \cup {revoking.of}
  /\ overwrote' = (overwrote \/ Writers # {0})
  /\ UNCHANGED <<shows, front, armed, blocklist, shots, lastAt, scrolls, begun, tooSoon, eased, tick, moves, bumps>>

\* The worker is put to sleep: what it held in memory is gone.
Sleeps ==
  /\ Bump /\ revoking = NoRemoval /\ \A k \in DOMAIN shots : shots[k].pc \in {"done", "dropped"}
  /\ lastAt' = [t \in Tabs |-> 0] /\ baseline' = [t \in Tabs |-> 0] /\ timers' = [t \in Tabs |-> none]
  /\ eased' = Tabs
  /\ UNCHANGED <<user, shots, recents, begun, tooSoon, overwrote, tick, moves>>

Passes ==
  /\ tick < ShotRest + MaxTicks /\ tick' = tick + 1
  /\ UNCHANGED <<user, shots, lastAt, scrolls, recents, ghosts, moves, bumps>>

FollowNext ==
  \/ \E t \in Tabs : \/ \E page \in Pages : Navigates(t, page)
                     \/ Activates(t) \/ Blurs(t) \/ TimerFires(t)
                     \/ \E to \in 0..FarEnough : Scrolls(t, to)
  \/ \E k \in DOMAIN shots : \/ LoadSettings(k) \/ CheckShot(k) \/ ReadRecents(k) \/ WriteRecents(k) \/ After(k) \/ Revoke(k)
                             \/ \E ok \in BOOLEAN : Picture(k, ok) \/ Upload(k, ok)
  \/ Manual \/ Revoked \/ BlockPage \/ Sleeps \/ Passes \/ \E on \in BOOLEAN : SetEnabled(on)

FollowSpec == FollowInit /\ [][FollowNext]_followVars
-----------------------------------------------------------------------------
FollowTypeOK ==
  /\ shows \in [Tabs -> Pages] /\ front \in Tabs /\ armed \in BOOLEAN /\ blocklist \subseteq Pages
  /\ Len(shots) <= MaxShots /\ \A k \in DOMAIN shots : shots[k].pic \in Pages \cup {none}
  /\ \A t \in Tabs : lastAt[t] \in {0} \cup ShotRest..tick /\ timers[t] \in {none} \cup 0..FarEnough
  /\ Len(recents) <= MaxRecents /\ ToSet(recents) \subseteq DOMAIN shots

\* However many triggers a tab has at once, its captures keep their distance, unless
\* the user asked for one or the worker slept in between.
ShotsAreSpaced == ~tooSoon

\* If the window stayed as the trigger found it, the picture is of the page it is
\* labelled with, which was not blocked by then; and a pause that began before the
\* trigger keeps every picture from being taken until it ends.
ShotsAreTrue ==
  \A k \in DOMAIN shots : shots[k].pic # none =>
    /\ ~shots[k].moved => shots[k].pic = shots[k].page
    /\ shots[k].page \notin shots[k].was /\ shots[k].on

\* While no two writers of the list cross each other, it has the newest of what was
\* uploaded, once each, without what the user has taken off.
Listed == {k \in DOMAIN shots : shots[k].pc \in {"listed", "done"}}
RecentsAreTrue ==
  ~overwrote =>
    /\ ToSet(recents) = Listed \ revoked \/ Cardinality(Listed) > MaxRecents
    /\ ToSet(recents) \subseteq Listed \ revoked /\ IsInjective(recents)

\* Stated for the reader, and broken: a picture shows the page it is labelled with.
\* A tab that navigates behind another one is captured as what is in front, and a
\* page that is left between check and picture is captured as the next one.
ShotsAreOfTheirPage == \A k \in DOMAIN shots : shots[k].pic # none => shots[k].pic = shots[k].page
\* Stated for the reader, and broken: what is blocked is in no picture.
BlockedIsNotSeen == \A k \in DOMAIN shots : shots[k].pic \notin Shunned
\* Stated for the reader, and broken: a capture that comes while a revocation is
\* written, or the other way round, puts back what was taken off.
RevokedStaysAway == ToSet(recents) \cap revoked = {}
\* Stated for the reader, and broken: the user who asks gets a picture of an open
\* page.  A blur between the button and its check starts the cool-down again.
ManualIsTaken ==
  \A k \in DOMAIN shots :
    shots[k].reason = "manual" /\ shots[k].pc = "dropped" => bumps > 0 \/ ~armed \/ moves > 0
=============================================================================
