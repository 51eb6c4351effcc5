------------------------------- MODULE Orient -------------------------------
(* The feed-orient crystal (loop/feed_orient.py, engage_card in              *)
(* loop/routes.py, orient_shift in harness/tools.py): thumbs of the user on  *)
(* cards are rows of the lake; when enough of them lie behind the newest     *)
(* crystal, or a fire or the operator asks for it, the model distils them    *)
(* into the next crystal, which then counts as the boundary of what has been *)
(* read.  One regeneration runs at a time; checks overlap it and each other. *)
(* The lake is the log of the thumbs and crystals.  Left out: the cards that *)
(* are read along, the look-back of 14 days and the text of a crystal, which *)
(* is the set of the thumbs that it has read.                                *)
EXTENDS Naturals, Sequences, FiniteSets, FiniteSetsExt

CONSTANTS
  Checks,      \* checks after an engagement that can be under way at once
  Threshold,   \* THUMB_REGEN_THRESHOLD
  MostRead,    \* ENGAGEMENT_LIMIT
  MaxSignals,  \* bound: rows in the log
  MaxFlaws     \* bound: queries, calls of the model and writes that fail, restarts

\* A query reads as many engagements as the threshold asks for.
ASSUME OrientBounds ==
  /\ Threshold \in Nat \ {0} /\ MostRead \in Nat /\ Threshold <= MostRead
  /\ MaxSignals \in Nat /\ MaxFlaws \in Nat

VARIABLES
  signals,  \* the log: [kind, heard]
  checking,    \* per check, where it is and the crystal it has found
  regen,    \* the regeneration: where it is, what it has found and read
  press,    \* the operator's button: where it is, and the crystal it has found
  cool,     \* the crystals that are not older than the cool-down
  flaws,
  passed,  \* history: thumbs that a fault or a regeneration under way excuses
  fired     \* history: crystals within whose cool-down the button fired

orientVars == <<signals, checking, regen, press, cool, flaws, passed, fired>>

Unasked == [pc |-> "no", prior |-> 0]
AtRest == [pc |-> "no", prior |-> 0, read |-> {}]

OrientInit ==
  /\ signals = <<>> /\ checking = [c \in Checks |-> Unasked] /\ regen = AtRest /\ press = Unasked
  /\ cool = {} /\ flaws = 0 /\ passed = {} /\ fired = {}

Succeeds(ok) == IF ok THEN flaws' = flaws ELSE flaws < MaxFlaws /\ flaws' = flaws + 1
Of(kind) == {i \in DOMAIN signals : signals[i].kind = kind}
NewestCrystal == Max({0} \cup Of("crystal"))
ThumbsSince(p) == {i \in Of("thumb") : i > p}

\* A query stops at its limit, newest first.
Engagements(p) == {i \in ThumbsSince(p) : Cardinality({j \in ThumbsSince(p) : j > i}) < MostRead}

\* The thumbs that a regeneration has not asked for any more.
Asked == regen.pc \in {"think", "write"}
-----------------------------------------------------------------------------
\* engage_card writes the marker and lets the check run behind its answer.  A
\* thumb that repeats the newest one on the same card is dropped by the store.
Engage(c, repeats) ==
  /\ checking[c].pc = "no" /\ checking' = [checking EXCEPT ![c] = [Unasked EXCEPT !.pc = "prior"]]
  /\ IF repeats THEN Of("thumb") # {} /\ UNCHANGED <<signals, passed>>
     ELSE /\ Len(signals) < MaxSignals
          /\ signals' = Append(signals, [kind |-> "thumb", heard |-> {}])
          /\ passed' = IF Asked THEN passed \cup {Len(signals) + 1} ELSE passed
  /\ UNCHANGED <<regen, press, cool, flaws, fired>>

\* _latest_feed_orient: a query that fails finds no crystal.
CheckPrior(c, ok) ==
  /\ checking[c].pc = "prior" /\ Succeeds(ok)
  /\ checking' = [checking EXCEPT ![c] = [pc |-> "count", prior |-> IF ok THEN NewestCrystal ELSE 0]]
  /\ UNCHANGED <<signals, regen, press, cool, passed, fired>>

\* regen_from_signal: skipped while a regeneration is in flight.
Signal == regen' = IF regen.pc = "no" THEN [AtRest EXCEPT !.pc = "gate"] ELSE regen

EnoughMore(p) == Cardinality(Engagements(p)) > Threshold
Enough(p) == Cardinality(Engagements(p)) >= Threshold

CheckCount(c, ok) ==
  /\ checking[c].pc = "count" /\ Succeeds(ok)
  /\ checking' = [checking EXCEPT ![c] = Unasked]
  /\ IF ok /\ Enough(checking[c].prior) THEN Signal ELSE UNCHANGED regen
  /\ UNCHANGED <<signals, press, cool, passed, fired>>

\* The tool of the harness: no check, no cool-down.
OrientShift ==
  /\ regen.pc = "no" /\ Signal
  /\ UNCHANGED <<signals, checking, press, cool, flaws, passed, fired>>

\* The operator's button obeys the cool-down of the crystal it has found.
ForceRunRegen ==
  /\ press.pc = "no" /\ regen.pc = "no" /\ press' = [Unasked EXCEPT !.pc = "prior"]
  /\ UNCHANGED <<signals, checking, regen, cool, flaws, passed, fired>>

ForceReadsPrior(ok) ==
  /\ press.pc = "prior" /\ Succeeds(ok)
  /\ press' = [pc |-> "decide", prior |-> IF ok THEN NewestCrystal ELSE 0]
  /\ UNCHANGED <<signals, checking, regen, cool, passed, fired>>

\* When another one is in flight by now, the call starts none.
ForceDecides ==
  /\ press.pc = "decide" /\ press' = Unasked
  /\ IF press.prior \in cool THEN UNCHANGED <<regen, fired>>
     ELSE /\ Signal
          /\ fired' = IF regen.pc = "no" THEN fired \cup (cool \cap {NewestCrystal}) ELSE fired
  /\ UNCHANGED <<signals, checking, cool, flaws, passed>>

CoolsDown ==
  /\ cool # {} /\ cool' = {}
  /\ UNCHANGED <<signals, checking, regen, press, flaws, passed, fired>>
-----------------------------------------------------------------------------
(* _run_regen.                                                             *)
GateIs(open) ==
  /\ regen.pc = "gate" /\ Succeeds(open)
  /\ regen' = IF open THEN [regen EXCEPT !.pc = "prior"] ELSE AtRest
  /\ UNCHANGED <<signals, checking, press, cool, passed, fired>>

RegenPrior(ok) ==
  /\ regen.pc = "prior" /\ Succeeds(ok)
  /\ regen' = [regen EXCEPT !.pc = "engagements", !.prior = IF ok THEN NewestCrystal ELSE 0]
  /\ UNCHANGED <<signals, checking, press, cool, passed, fired>>

\* Without an answer the prompt says "(none)" and the regeneration goes on.
RegenReads(ok) ==
  LET read == IF ok THEN Engagements(regen.prior) ELSE {}
  IN  /\ regen.pc = "engagements" /\ Succeeds(ok)
      /\ regen' = [regen EXCEPT !.pc = "think", !.read = read]
      /\ passed' = passed \cup (ThumbsSince(regen.prior) \ read)
      /\ UNCHANGED <<signals, checking, press, cool, fired>>

\* A call that fails, or comes back without a narrative, writes no crystal.
NoNarrativeWritten == regen' = [regen EXCEPT !.pc = "write", !.read = {}]
NoNarrative == regen' = AtRest

RegenThinks(ok) ==
  /\ regen.pc = "think" /\ Succeeds(ok)
  /\ IF ok THEN regen' = [regen EXCEPT !.pc = "write"] ELSE NoNarrative
  /\ UNCHANGED <<signals, checking, press, cool, passed, fired>>

\* A crystal that says what the newest one says is dropped by the store: that
\* counts as a write that fails.
RegenWrites(ok) ==
  /\ regen.pc = "write" /\ Succeeds(ok) /\ regen' = AtRest
  /\ IF ok THEN /\ Len(signals) < MaxSignals
                /\ signals' = Append(signals, [kind |-> "crystal", heard |-> regen.read])
                /\ cool' = {Len(signals) + 1}
     ELSE UNCHANGED <<signals, cool>>
  /\ UNCHANGED <<checking, press, passed, fired>>

OrientRestart ==
  /\ Succeeds(FALSE)
  /\ checking' = [c \in Checks |-> Unasked] /\ regen' = AtRest /\ press' = Unasked
  /\ UNCHANGED <<signals, cool, passed, fired>>

OrientNext ==
  \/ \E c \in Checks, ok \in BOOLEAN : Engage(c, ok) \/ CheckPrior(c, ok) \/ CheckCount(c, ok)
  \/ OrientShift \/ ForceRunRegen \/ ForceDecides \/ CoolsDown \/ OrientRestart
  \/ \E ok \in BOOLEAN : \/ ForceReadsPrior(ok) \/ GateIs(ok) \/ RegenPrior(ok)
                         \/ RegenReads(ok) \/ RegenThinks(ok) \/ RegenWrites(ok)

OrientSpec == OrientInit /\ [][OrientNext]_orientVars
-----------------------------------------------------------------------------
OrientTypeOK ==
  /\ \A i \in DOMAIN signals : signals[i].heard \subseteq Of("thumb") \cap 1..(i - 1)
  /\ Len(signals) <= MaxSignals /\ flaws \in 0..MaxFlaws
  /\ checking \in [Checks -> [pc : {"no", "prior", "count"}, prior : {0} \cup Of("crystal")]]
  /\ regen.pc \in {"no", "gate", "prior", "engagements", "think", "write"}
  /\ regen.prior \in {0} \cup Of("crystal") /\ regen.read \subseteq Of("thumb")
  /\ press \in [pc : {"no", "prior", "decide"}, prior : {0} \cup Of("crystal")]
  /\ cool \cup fired \subseteq Of("crystal") /\ passed \subseteq Of("thumb")

HeardThumbs == UNION {signals[i].heard : i \in Of("crystal")}

\* A thumb behind the newest crystal, which nobody asks for again, has been in
\* the prompt of a regeneration that wrote a crystal, unless it was written
\* after the prompt or a query had failed or stopped at its limit.
NoneIsPassedOver == \A i \in Of("thumb") : i < NewestCrystal => i \in HeardThumbs \cup passed

\* When nothing runs and nothing has failed, fewer thumbs than the threshold
\* wait: a check that a running regeneration swallows is made up for by it.
FewWait ==
  (flaws = 0 /\ regen.pc = "no" /\ \A c \in Checks : checking[c].pc = "no")
    => Cardinality(ThumbsSince(NewestCrystal)) < Threshold

\* What a thumb is for (feed_orient.py): it gets into a crystal, and soon enough.
ThumbsAreHeard == NoneIsPassedOver /\ FewWait

\* "30-min cooldown so spamming can't pin a regen storm" (feed_orient.py): a
\* press that has read the crystal before another regeneration ends, or cannot
\* read it, fires right after it.  TLC breaks it.
ButtonsAreSpaced == fired = {}
=============================================================================
