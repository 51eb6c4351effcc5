-------------------------------- MODULE Moods --------------------------------
(***************************************************************************)
(* The mood (api/mood.py): each fire may leave a mood shift in the lake    *)
(* (api/loop/witness.py), and a synthesis reads the shifts since the       *)
(* newest mood, asks the model, and writes the next mood.  Every fire      *)
(* starts a wake in the background that may outlive it                     *)
(* (api/loop/harness/threaded.py), and the operator has a button           *)
(* (api/routes/vitals.py), so syntheses overlap each other and the writes  *)
(* of fires.                                                               *)
(*                                                                         *)
(* The lake is the log of the rows that matter here; a row is named by its *)
(* place.  The limit of 500 shifts to a query is not reached.  What a mood *)
(* says is left out: a mood is the set of the shifts that it has read.     *)
(***************************************************************************)
EXTENDS Naturals, FiniteSets, Sequences, FiniteSetsExt

CONSTANTS
  Syntheses,  \* wakes and clicks that can be under way at once
  Overflow,   \* MOOD_SHIFT_OVERFLOW_THRESHOLD
  MaxRows,    \* bound: rows in the log
  MaxUpsets   \* bound: queries and writes that fail, restarts

ASSUME MoodBounds == Overflow \in Nat \ {0} /\ MaxRows \in Nat /\ MaxUpsets \in Nat

VARIABLES
  rows,         \* rows of the lake: [kind, took]
  synthesized,  \* last_synthesis_at is set
  fire,         \* a fire of the harness runs
  synth,        \* each synthesis: where it is and what it has read
  upsets,       \* things gone wrong so far (bounds the environment)
  missed        \* history: shifts that a fault or a synthesis under way excuses

moodVars == <<rows, synthesized, fire, synth, upsets, missed>>

Kinds == {"shift", "mood", "error"}
Idle == [pc |-> "idle", asks |-> "mood", prior |-> 0, shifts |-> {}]

MoodsInit ==
  /\ rows = << >> /\ synthesized = FALSE /\ fire = FALSE
  /\ synth = [w \in Syntheses |-> Idle] /\ upsets = 0 /\ missed = {}

Upset == upsets < MaxUpsets /\ upsets' = upsets + 1
Works(ok) == IF ok THEN UNCHANGED upsets ELSE Upset

Writes(kind, took) == Len(rows) < MaxRows /\ rows' = Append(rows, [kind |-> kind, took |-> took])

\* Variant: a query with the limit of its neighbours.
NewestShiftSince(p) ==
  {i \in DOMAIN rows : /\ rows[i].kind = "shift" /\ p < i
                      /\ \A j \in DOMAIN rows : rows[j].kind = "shift" => j <= i}

\* The place of the newest mood, or 0, and the shifts behind a place.
NewestMood == Max({0} \cup {i \in DOMAIN rows : rows[i].kind = "mood"})
ShiftsSince(p) == {i \in DOMAIN rows : rows[i].kind = "shift" /\ p < i}

\* Syntheses that have read the shifts and have not written their mood.
Thinking == {w \in Syntheses : synth[w].pc \in {"think", "write"}}

-----------------------------------------------------------------------------
(* The fires.                                                              *)

\* run_threaded_fire() begins: the wake is a task of its own.
FireStarts(w) ==
  /\ ~fire /\ fire' = TRUE
  /\ synth[w].pc = "idle"
  /\ synth' = [synth EXCEPT ![w].pc = "decide"]
  /\ UNCHANGED <<rows, synthesized, upsets, missed>>

\* _write_constituting_writes(): the attestation comes first, and when it
\* fails, so does the shift; a fire may have none, or be cancelled.
FireEnds(shift) ==
  /\ fire /\ fire' = FALSE
  /\ IF shift
     THEN /\ Writes("shift", {})
          /\ missed' = IF Thinking = {} THEN missed ELSE missed \cup {Len(rows) + 1}
     ELSE UNCHANGED <<rows, missed>>
  /\ UNCHANGED <<synthesized, synth, upsets>>

-----------------------------------------------------------------------------
(* maybe_synthesize_on_wake(), force_mood_synthesis().                     *)

Asks(w, what) == synth' = [synth EXCEPT ![w] = [Idle EXCEPT !.pc = "prior", !.asks = what]]
Rests(w) == synth' = [synth EXCEPT ![w] = Idle]

Button(w) ==
  /\ synth[w].pc = "idle"
  /\ Asks(w, "mood")
  /\ UNCHANGED <<rows, synthesized, fire, upsets, missed>>

\* The pressure and the time since the last wake may call for a mood or not;
\* the first run always does.  If not, the number of shifts may.
DecideMood(w, yes) ==
  /\ synth[w].pc = "decide"
  /\ yes \/ synthesized
  /\ Asks(w, IF yes THEN "mood" ELSE "overflow")
  /\ UNCHANGED <<rows, synthesized, fire, upsets, missed>>

\* A query for the newest mood that fails finds none.
ReadPrior(w, ok) ==
  /\ synth[w].pc = "prior"
  /\ Works(ok)
  /\ synth' = [synth EXCEPT ![w].pc = "shifts", ![w].prior = IF ok THEN NewestMood ELSE 0]
  /\ UNCHANGED <<rows, synthesized, fire, missed>>

\* A query for the shifts that fails finds none, and the mood goes on without.
ReadShifts(w, ok) ==
  /\ synth[w].pc = "shifts"
  /\ Works(ok)
  /\ LET found == IF ok THEN ShiftsSince(synth[w].prior) ELSE {}
     IN  IF synth[w].asks = "mood"
         THEN /\ synth' = [synth EXCEPT ![w].pc = "think", ![w].shifts = found]
              /\ missed' = IF ok THEN missed ELSE missed \cup ShiftsSince(0)
         ELSE /\ IF Cardinality(found) >= Overflow THEN Asks(w, "mood") ELSE Rests(w)
              /\ UNCHANGED missed
  /\ UNCHANGED <<rows, synthesized, fire>>

\* Nothing to go by (no shift, no activity, no mood), or the gate is closed.
Skip(w) ==
  /\ synth[w].pc = "think"
  /\ Rests(w)
  /\ UNCHANGED <<rows, synthesized, fire, upsets, missed>>

Answered(w) ==
  /\ synth[w].pc = "think"
  /\ synth' = [synth EXCEPT ![w].pc = "write"]
  /\ UNCHANGED <<rows, synthesized, fire, upsets, missed>>

\* The model's error is written for the dashboard; that may fail too.
ModelFails(w, ok) ==
  /\ synth[w].pc = "think"
  /\ Upset
  /\ IF ok THEN Writes("error", {}) ELSE UNCHANGED rows
  /\ Rests(w)
  /\ UNCHANGED <<synthesized, fire, missed>>

\* The mood, which may fail to be written, and mark_synthesis() all the same.
WriteMood(w, ok) ==
  /\ synth[w].pc = "write"
  /\ Works(ok)
  /\ IF ok THEN Writes("mood", synth[w].shifts) ELSE UNCHANGED rows
  /\ synthesized' = TRUE
  /\ Rests(w)
  /\ UNCHANGED <<fire, missed>>

\* The process starts again.
Restart ==
  /\ Upset
  /\ fire' = FALSE /\ synth' = [w \in Syntheses |-> Idle]
  /\ UNCHANGED <<rows, synthesized, missed>>

MoodsNext ==
  \/ Restart
  \/ \E shift \in BOOLEAN : FireEnds(shift)
  \/ \E w \in Syntheses :
       \/ FireStarts(w) \/ Button(w) \/ Skip(w) \/ Answered(w)
       \/ \E ok \in BOOLEAN : \/ DecideMood(w, ok) \/ ReadPrior(w, ok) \/ ReadShifts(w, ok)
                              \/ ModelFails(w, ok) \/ WriteMood(w, ok)

MoodsSpec == MoodsInit /\ [][MoodsNext]_moodVars
-----------------------------------------------------------------------------
\* Every variable has its type, and a mood has read shifts of the log.
MoodsTypeOK ==
  /\ rows \in Seq([kind : Kinds, took : SUBSET (1..Len(rows))]) /\ Len(rows) <= MaxRows
  /\ synthesized \in BOOLEAN /\ fire \in BOOLEAN
  /\ synth \in [Syntheses -> [pc : {"idle", "decide", "prior", "shifts", "think", "write"},
                              asks : {"mood", "overflow"}, prior : 0..Len(rows),
                              shifts : SUBSET (1..Len(rows))]]
  /\ upsets \in 0..MaxUpsets /\ missed \subseteq 1..Len(rows)

Heard == UNION {rows[i].took : i \in {j \in DOMAIN rows : rows[j].kind = "mood"}}

\* A shift that is older than the newest mood - which no later synthesis will
\* ask for - has been read by some mood, unless it was written while a
\* synthesis was thinking or a query failed ("anything after is "unread" by
\* the synthesizer", mood.py).
ShiftsAreHeard == \A i \in DOMAIN rows :
  rows[i].kind = "shift" /\ i < NewestMood => i \in Heard \cup missed

\* "synthesis reads accumulated shifts since the last carrier as its primary
\* input" (mood.py): that no shift is passed over is not so, a shift that is
\* written while the model is asked belongs to no mood.
NoShiftIsPassedOver == \A i \in DOMAIN rows :
  rows[i].kind = "shift" /\ i < NewestMood => i \in Heard

\* _latest_mood_regen_error(), which looks for the mood's time under a name
\* that latest_mood() does not use: any error left in the lake is shown.
RegenErrorShown == \E i \in DOMAIN rows : rows[i].kind = "error"

\* "if it's newer than the latest successful mood" (routes/vitals.py) is not
\* so, the error stays until it expires.
RecoveredIsNotStale ==
  RegenErrorShown => \E i \in DOMAIN rows : rows[i].kind = "error" /\ i > NewestMood
=============================================================================
