----------------------------- MODULE DrivesProofs -----------------------------
(***************************************************************************)
(* Proofs about what drives the system, for every set of syntheses,        *)
(* checks, clicks and tabs, every threshold and cool-down, any number of   *)
(* rows, failed calls and restarts.                                        *)
(*                                                                         *)
(* No shift of the mood is passed over but for a failed query or a         *)
(* synthesis that was thinking when it was written.  No thumb is passed    *)
(* over by the feed-orient crystals but for a query that failed or stopped *)
(* at its limit and a regeneration under way; and when all is at rest and  *)
(* nothing has failed, fewer thumbs wait than start a regeneration.  The   *)
(* poller's regenerations, the prompts of the tiers and the screenshots of *)
(* a tab keep the distance of their cool-downs.  The feed shows what it    *)
(* owes, once; and a screenshot and the list of recent ones are true.      *)
(***************************************************************************)
EXTENDS Moods, Orient, Drives, FiniteSetTheorems, WellFoundedInduction, TLAPS

(* Lists.                                                                    *)
\* A list without one of its elements.
LEMMA RemovingShifts ==
  ASSUME NEW S, NEW s \in Seq(S), NEW p \in DOMAIN s
  PROVE  /\ RemoveAt(s, p) \in Seq(S) /\ Len(RemoveAt(s, p)) = Len(s) - 1
         /\ \A i \in DOMAIN RemoveAt(s, p) : RemoveAt(s, p)[i] = s[IF i < p THEN i ELSE i + 1]
<1>1. p \in 1..Len(s) /\ Len(s) \in Nat
  OBVIOUS
<1>2. /\ SubSeq(s, 1, p - 1) \in Seq(S) /\ Len(SubSeq(s, 1, p - 1)) = p - 1
      /\ \A i \in 1..p - 1 : SubSeq(s, 1, p - 1)[i] = s[i]
  BY <1>1
<1>3. /\ SubSeq(s, p + 1, Len(s)) \in Seq(S) /\ Len(SubSeq(s, p + 1, Len(s))) = Len(s) - p
      /\ \A i \in 1..Len(s) - p : SubSeq(s, p + 1, Len(s))[i] = s[p + i]
  BY <1>1
<1> DEFINE a == SubSeq(s, 1, p - 1)
           b == SubSeq(s, p + 1, Len(s))
<1>4. RemoveAt(s, p) = a \o b
  BY DEF RemoveAt
<1> HIDE DEF a, b
<1>5. a \in Seq(S) /\ b \in Seq(S) /\ Len(a) = p - 1 /\ Len(b) = Len(s) - p
  BY <1>2, <1>3 DEF a, b
<1>6. a \o b \in Seq(S) /\ Len(a \o b) = Len(s) - 1
  BY <1>1, <1>5
<1>7. \A i \in 1..Len(s) - 1 : (a \o b)[i] = IF i < p THEN a[i] ELSE b[i - (p - 1)]
  <2>1. \A i \in 1..Len(a) + Len(b) : (a \o b)[i] = IF i <= Len(a) THEN a[i] ELSE b[i - Len(a)]
    BY ONLY <1>5, SMTT(20)
  <2> TAKE i \in 1..Len(s) - 1
  <2>2. i \in 1..Len(a) + Len(b) /\ (i <= Len(a) <=> i < p)
    BY ONLY <1>1, <1>5, i \in 1..Len(s) - 1
  <2> QED
    BY ONLY <1>5, <2>1, <2>2
<1>8. \A i \in 1..Len(s) - 1 : (a \o b)[i] = s[IF i < p THEN i ELSE i + 1]
  <2> TAKE i \in 1..Len(s) - 1
  <2>1. CASE i < p
    <3>1. i \in 1..p - 1
      BY <1>1, <2>1
    <3> QED
      BY <1>2, <1>7, <2>1, <3>1 DEF a
  <2>2. CASE ~(i < p)
    <3>1. i - (p - 1) \in 1..Len(s) - p /\ p + (i - (p - 1)) = i + 1
      BY <1>1, <2>2
    <3> QED
      BY <1>3, <1>7, <2>2, <3>1 DEF b
  <2> QED
    BY <2>1, <2>2
<1>9. DOMAIN RemoveAt(s, p) = 1..Len(s) - 1
  BY <1>1, <1>4, <1>6
<1> QED
  BY <1>4, <1>6, <1>8, <1>9

\* An element that is once in a list is not in what is left of it, and the others are.
LEMMA RemovingOnce ==
  ASSUME NEW S, NEW s \in Seq(S), \A i, j \in DOMAIN s : s[i] = s[j] => i = j, NEW p \in DOMAIN s
  PROVE  /\ RemoveAt(s, p) \in Seq(S) /\ Len(RemoveAt(s, p)) = Len(s) - 1
         /\ \A i, j \in DOMAIN RemoveAt(s, p) : RemoveAt(s, p)[i] = RemoveAt(s, p)[j] => i = j
         /\ {RemoveAt(s, p)[i] : i \in DOMAIN RemoveAt(s, p)} = {s[i] : i \in DOMAIN s} \ {s[p]}
<1> DEFINE u == RemoveAt(s, p)
           Was(i) == IF i < p THEN i ELSE i + 1
<1>1. u \in Seq(S) /\ Len(u) = Len(s) - 1 /\ \A i \in DOMAIN u : u[i] = s[Was(i)]
  BY RemovingShifts
<1> HIDE DEF u
<1>2. p \in 1..Len(s) /\ Len(s) \in Nat /\ DOMAIN s = 1..Len(s) /\ DOMAIN u = 1..Len(s) - 1
  BY <1>1
<1>3. \A i \in DOMAIN u : Was(i) \in DOMAIN s /\ Was(i) # p
  BY <1>2
<1>4. \A i, j \in DOMAIN u : Was(i) = Was(j) => i = j
  BY <1>2
<1>5. \A k \in DOMAIN s : k # p => \E i \in DOMAIN u : Was(i) = k
  <2> SUFFICES ASSUME NEW k \in DOMAIN s, k # p PROVE \E i \in DOMAIN u : Was(i) = k
    OBVIOUS
  <2>1. CASE k < p
    <3>1. k \in DOMAIN u /\ Was(k) = k
      BY <1>2, <2>1
    <3> QED
      BY <3>1
  <2>2. CASE k > p
    <3>1. k - 1 \in DOMAIN u /\ Was(k - 1) = k
      BY <1>2, <2>2
    <3> QED
      BY <3>1
  <2> QED
    BY <1>2, <2>1, <2>2
<1> HIDE DEF Was
<1>6. \A i, j \in DOMAIN u : u[i] = u[j] => i = j
  BY <1>1, <1>3, <1>4
<1>7. {u[i] : i \in DOMAIN u} = {s[i] : i \in DOMAIN s} \ {s[p]}
  <2>1. ASSUME NEW i \in DOMAIN u PROVE u[i] \in {s[k] : k \in DOMAIN s} \ {s[p]}
    BY <1>1, <1>3
  <2>2. ASSUME NEW k \in DOMAIN s, s[k] # s[p] PROVE s[k] \in {u[i] : i \in DOMAIN u}
    <3>1. PICK i \in DOMAIN u : Was(i) = k
      BY <1>5, <2>2
    <3> QED
      BY <1>1, <3>1
  <2> QED
    BY <2>1, <2>2
<1> QED
  BY <1>1, <1>6, <1>7 DEF u

\* A list of different things is no longer than a set that has them all.
LEMMA ListsFit ==
  ASSUME NEW S, NEW list \in Seq(S), \A i, j \in DOMAIN list : list[i] = list[j] => i = j, NEW T, IsFiniteSet(T), ToSet(list) \subseteq T
  PROVE  Len(list) <= Cardinality(T)
<1>1. DOMAIN list = 1..Len(list) /\ Len(list) \in Nat
  OBVIOUS
<1>2. list \in Injection(1..Len(list), T)
  <2>1. list \in [1..Len(list) -> T]
    BY <1>1 DEF ToSet
  <2> QED
    BY <1>1, <2>1 DEF Injection, IsInjective
<1>3. Cardinality(1..Len(list)) = Len(list) /\ IsFiniteSet(1..Len(list))
  <2>1. PICK n \in Nat : n = Len(list)
    BY <1>1
  <2>2. IsFiniteSet(1..n) /\ Cardinality(1..n) = IF 1 > n THEN 0 ELSE n - 1 + 1
    BY ONLY FS_Interval, n \in Int, 1 \in Int
  <2>3. Cardinality(1..n) = n
    BY ONLY <2>2, n \in Nat
  <2> QED
    BY ONLY <2>1, <2>2, <2>3
<1> QED
  BY <1>2, <1>3, FS_Injection

\* The list with a new capture in front.
Prepended(k, list) == <<k>> \o list
LEMMA PrependedLists ==
  ASSUME NEW list \in Seq(Nat), NEW k \in Nat, NEW all, all = Prepended(k, list)
  PROVE  /\ all \in Seq(Nat) /\ Len(all) = Len(list) + 1 /\ all[1] = k
         /\ \A i \in 1..Len(list) : all[i + 1] = list[i]
         /\ ToSet(all) = ToSet(list) \cup {k}
         /\ (\A i, j \in DOMAIN list : list[i] = list[j] => i = j) /\ k \notin ToSet(list) =>
              \A i, j \in DOMAIN all : all[i] = all[j] => i = j
<1>1. <<k>> \in Seq(Nat) /\ Len(<<k>>) = 1 /\ <<k>>[1] = k
  OBVIOUS
<1>2. /\ all \in Seq(Nat) /\ Len(all) = Len(list) + 1 /\ all[1] = k
      /\ \A i \in 1..Len(list) : all[i + 1] = list[i]
  BY <1>1 DEF Prepended
<1>3. DOMAIN list = 1..Len(list) /\ DOMAIN all = 1..Len(list) + 1 /\ Len(list) \in Nat
  BY <1>2
<1>4. \A i \in DOMAIN all : i = 1 \/ (i - 1 \in DOMAIN list /\ all[i] = list[i - 1])
  <2> SUFFICES ASSUME NEW i \in DOMAIN all, i # 1 PROVE i - 1 \in DOMAIN list /\ all[i] = list[i - 1]
    OBVIOUS
  <2>1. PICK j \in 1..Len(list) : i = j + 1
    <3>1. i - 1 \in 1..Len(list) /\ i = (i - 1) + 1
      BY ONLY <1>3, i \in DOMAIN all, i # 1
    <3> QED
      BY ONLY <3>1
  <2>2. i - 1 = j
    BY ONLY <2>1
  <2> QED
    BY ONLY <1>2, <1>3, <2>1, <2>2
<1>5. 1 \in DOMAIN all /\ \A i \in DOMAIN list : i + 1 \in DOMAIN all /\ all[i + 1] = list[i]
  BY <1>2, <1>3
<1>6. ToSet(all) = ToSet(list) \cup {k}
  <2>1. ToSet(all) = {all[i] : i \in DOMAIN all} /\ ToSet(list) = {list[i] : i \in DOMAIN list}
    BY DEF ToSet
  <2>2. \A i \in DOMAIN all : all[i] \in ToSet(list) \cup {k}
    BY <1>2, <1>4, <2>1
  <2>3. \A i \in DOMAIN list : list[i] \in {all[j] : j \in DOMAIN all}
    BY <1>5
  <2>4. k \in {all[j] : j \in DOMAIN all}
    BY <1>2, <1>5
  <2>5. ToSet(all) \subseteq ToSet(list) \cup {k}
    BY <2>1, <2>2
  <2>6. ToSet(list) \subseteq ToSet(all)
    BY <2>1, <2>3
  <2> QED
    BY <2>1, <2>4, <2>5, <2>6
<1>7. ASSUME \A i, j \in DOMAIN list : list[i] = list[j] => i = j, k \notin ToSet(list), NEW i \in DOMAIN all, NEW j \in DOMAIN all, all[i] = all[j]
      PROVE  i = j
  <2>1. CASE i = 1 \/ j = 1
    BY <1>2, <1>4, <1>7, <2>1 DEF ToSet
  <2>2. CASE i # 1 /\ j # 1
    <3>1. i - 1 = j - 1
      BY <1>4, <1>7, <2>2
    <3> QED
      BY <1>3, <3>1
  <2> QED
    BY <2>1, <2>2
<1> QED
  BY <1>2, <1>6, <1>7

LEMMA PrefixesOfLists ==
  ASSUME NEW all \in Seq(Nat), NEW n \in 0..Len(all)
  PROVE  LET u == SubSeq(all, 1, n)
         IN  Len(u) = n /\ DOMAIN u = 1..n /\ \A i \in 1..n : u[i] = all[i] /\ i \in DOMAIN all
<1>1. PICK u : u = SubSeq(all, 1, n)
  OBVIOUS
<1>2. Len(all) \in Nat /\ n \in Nat /\ n <= Len(all) /\ DOMAIN all = 1..Len(all)
  OBVIOUS
<1>3. u \in Seq(Nat) /\ Len(u) = n /\ \A i \in 1..n : u[i] = all[i]
  BY <1>1, <1>2
<1>4. DOMAIN u = 1..n
  BY <1>3
<1>5. \A i \in 1..n : i \in DOMAIN all
  BY <1>2
<1> QED
  BY <1>1, <1>3, <1>4, <1>5

-----------------------------------------------------------------------------
(* Moods.                                                                    *)
Row == [kind : Kinds, took : SUBSET Nat]
Synthesis == [pc : {"idle", "decide", "prior", "shifts", "think", "write"}, asks : {"mood", "overflow"},
              prior : Nat, shifts : SUBSET Nat]

MoodTypes == rows \in Seq(Row) /\ synth \in [Syntheses -> Synthesis]

MoodRows == {i \in DOMAIN rows : rows[i].kind = "mood"}

\* What Max is here: of a mood, if there is one.
NewestIsNewest ==
  /\ NewestMood \in Nat /\ NewestMood <= Len(rows)
  /\ NewestMood # 0 => NewestMood \in MoodRows

\* A synthesis that thinks has read every shift that no mood has, and none is excused.
ThinkersHaveRead == \A w \in Thinking, i \in DOMAIN rows :
  rows[i].kind = "shift" => i \in synth[w].shifts \cup Heard \cup missed
PriorsAreOld == \A w \in Syntheses : synth[w].prior <= NewestMood

MoodInv == MoodTypes /\ NewestIsNewest /\ PriorsAreOld /\ ThinkersHaveRead /\ ShiftsAreHeard

-----------------------------------------------------------------------------
LEMMA IdleIsASynthesis == Idle \in Synthesis /\ Idle.prior = 0 /\ Idle.pc = "idle"
BY DEF Idle, Synthesis

LEMMA MaxOf ==
  ASSUME NEW S, NEW x \in S, \A y \in S : y \in Nat /\ y <= x
  PROVE  Max(S) = x
BY DEF Max

LEMMA MoodsStart == MoodsInit => MoodInv
<1> SUFFICES ASSUME MoodsInit PROVE MoodInv
  OBVIOUS
<1>1. rows = << >> /\ synth = [w \in Syntheses |-> Idle] /\ DOMAIN rows = {} /\ Len(rows) = 0
  BY DEF MoodsInit
<1>2. MoodTypes
  BY <1>1, IdleIsASynthesis DEF MoodTypes
<1>3. {0} \cup {i \in DOMAIN rows : rows[i].kind = "mood"} = {0}
  BY <1>1
<1>4. NewestMood = 0
  BY <1>3, MaxOf DEF NewestMood
<1>5. NewestIsNewest /\ PriorsAreOld /\ ThinkersHaveRead /\ ShiftsAreHeard
  BY <1>1, <1>4, IdleIsASynthesis DEF NewestIsNewest, PriorsAreOld, ThinkersHaveRead, ShiftsAreHeard
<1> QED
  BY <1>2, <1>5 DEF MoodInv

\* A row is written behind the others, and the moods before it stay what they are.
LEMMA WrittenBehind ==
  ASSUME MoodInv, NEW kind \in Kinds, NEW took \in SUBSET Nat, Writes(kind, took)
  PROVE  /\ rows' \in Seq(Row) /\ Len(rows') = Len(rows) + 1 /\ Len(rows) \in Nat
         /\ DOMAIN rows' = 1..(Len(rows) + 1) /\ DOMAIN rows = 1..Len(rows)
         /\ rows'[Len(rows) + 1] = [kind |-> kind, took |-> took]
         /\ \A i \in DOMAIN rows : rows'[i] = rows[i]
<1>1. [kind |-> kind, took |-> took] \in Row /\ rows \in Seq(Row)
  BY DEF Row, MoodInv, MoodTypes
<1> QED
  BY <1>1 DEF Writes

LEMMA ANewMood ==
  ASSUME MoodInv, NEW took \in SUBSET Nat, Writes("mood", took)
  PROVE  NewestMood' = Len(rows) + 1 /\ Heard' = Heard \cup took /\ NewestIsNewest'
<1>1. /\ Len(rows') = Len(rows) + 1 /\ Len(rows) \in Nat
      /\ DOMAIN rows' = 1..(Len(rows) + 1) /\ DOMAIN rows = 1..Len(rows)
      /\ rows'[Len(rows) + 1] = [kind |-> "mood", took |-> took]
      /\ \A i \in DOMAIN rows : rows'[i] = rows[i]
  BY WrittenBehind DEF Kinds
<1>2. MoodRows' = MoodRows \cup {Len(rows) + 1}
  BY <1>1 DEF MoodRows
<1>3. \A y \in {0} \cup MoodRows' : y \in Nat /\ y <= Len(rows) + 1
  BY <1>1 DEF MoodRows
<1>4. Max({0} \cup MoodRows') = Len(rows) + 1
  BY <1>2, <1>3, MaxOf
<1>5. NewestMood' = Len(rows) + 1
  BY <1>4 DEF NewestMood, MoodRows
<1>6. NewestIsNewest'
  BY <1>1, <1>2, <1>5 DEF NewestIsNewest
<1>7. Heard' = Heard \cup took
  <2>1. Heard = UNION {rows[i].took : i \in MoodRows} /\ Heard' = UNION {rows'[i].took : i \in MoodRows'}
    BY DEF Heard, MoodRows
  <2>2. \A i \in MoodRows : rows'[i] = rows[i]
    BY <1>1 DEF MoodRows
  <2> QED
    BY <1>1, <1>2, <2>1, <2>2
<1> QED
  BY <1>5, <1>6, <1>7

LEMMA NoNewMood ==
  ASSUME MoodInv, NEW kind \in {"shift", "error"}, Writes(kind, {})
  PROVE  NewestMood' = NewestMood /\ Heard' = Heard /\ NewestIsNewest'
<1>1. /\ Len(rows') = Len(rows) + 1 /\ Len(rows) \in Nat
      /\ DOMAIN rows' = 1..(Len(rows) + 1) /\ DOMAIN rows = 1..Len(rows)
      /\ rows'[Len(rows) + 1] = [kind |-> kind, took |-> {}]
      /\ \A i \in DOMAIN rows : rows'[i] = rows[i]
  BY WrittenBehind DEF Kinds
<1>2. MoodRows' = MoodRows
  BY <1>1 DEF MoodRows
<1>3. NewestMood' = NewestMood
  BY <1>2 DEF NewestMood, MoodRows
<1>4. NewestIsNewest'
  BY <1>1, <1>2, <1>3 DEF NewestIsNewest, MoodInv
<1>5. Heard' = Heard
  <2>1. Heard = UNION {rows[i].took : i \in MoodRows} /\ Heard' = UNION {rows'[i].took : i \in MoodRows'}
    BY DEF Heard, MoodRows
  <2>2. \A i \in MoodRows : rows'[i] = rows[i]
    BY <1>1 DEF MoodRows
  <2> QED
    BY <1>2, <2>1, <2>2
<1> QED
  BY <1>3, <1>4, <1>5

-----------------------------------------------------------------------------
\* Steps that leave the lake alone.
LEMMA LakeStays ==
  ASSUME MoodInv, UNCHANGED rows, missed \subseteq missed', synth' \in [Syntheses -> Synthesis],
         \A w \in Syntheses : synth'[w].prior <= NewestMood,
         \A w \in Syntheses : synth'[w].pc \in {"think", "write"} =>
           \A i \in DOMAIN rows : rows[i].kind = "shift" => i \in synth'[w].shifts \cup Heard \cup missed'
  PROVE  MoodInv'
<1>1. NewestMood' = NewestMood /\ Heard' = Heard /\ MoodRows' = MoodRows
  BY DEF NewestMood, Heard, MoodRows
<1>2. MoodTypes' /\ NewestIsNewest'
  BY <1>1 DEF MoodInv, MoodTypes, NewestIsNewest
<1>3. PriorsAreOld' /\ ThinkersHaveRead' /\ ShiftsAreHeard'
  BY <1>1 DEF MoodInv, PriorsAreOld, ThinkersHaveRead, ShiftsAreHeard, Thinking
<1> QED
  BY <1>2, <1>3 DEF MoodInv

\* A synthesis goes on without reading shifts.
LEMMA GoesOn ==
  ASSUME MoodInv, UNCHANGED <<rows, missed>>, NEW w \in Syntheses, NEW next \in Synthesis,
         synth' = [synth EXCEPT ![w] = next], next.prior <= NewestMood,
         next.pc \in {"think", "write"} => synth[w].pc \in {"think", "write"} /\ next.shifts = synth[w].shifts
  PROVE  MoodInv'
<1>1. synth' \in [Syntheses -> Synthesis] /\ synth'[w] = next /\ \A v \in Syntheses \ {w} : synth'[v] = synth[v]
  BY DEF MoodInv, MoodTypes
<1>2. \A v \in Syntheses : synth'[v].prior <= NewestMood
  BY <1>1 DEF MoodInv, PriorsAreOld
<1>3. \A v \in Syntheses : synth'[v].pc \in {"think", "write"} =>
        \A i \in DOMAIN rows : rows[i].kind = "shift" => i \in synth'[v].shifts \cup Heard \cup missed'
  BY <1>1 DEF MoodInv, ThinkersHaveRead, Thinking
<1> QED
  BY <1>1, <1>2, <1>3, LakeStays

LEMMA PriorsFit ==
  ASSUME MoodInv, NEW w \in Syntheses
  PROVE  synth[w] \in Synthesis /\ synth[w].prior <= NewestMood /\ NewestMood \in Nat
BY DEF MoodInv, MoodTypes, PriorsAreOld, NewestIsNewest

\* The newest mood is asked for, and the shifts behind it.
LEMMA ReadsAreSound ==
  ASSUME MoodInv, NEW w \in Syntheses, NEW ok \in BOOLEAN, ReadPrior(w, ok) \/ ReadShifts(w, ok)
  PROVE  MoodInv'
<1>1. synth[w] \in Synthesis /\ synth[w].prior <= NewestMood /\ NewestMood \in Nat
  BY PriorsFit
<1>2. CASE ReadPrior(w, ok)
  <2> DEFINE prior == IF ok THEN NewestMood ELSE 0
             next == [synth[w] EXCEPT !.pc = "shifts", !.prior = prior]
  <2>1. prior \in Nat /\ prior <= NewestMood
    BY <1>1
  <2>2. synth' = [synth EXCEPT ![w] = next]
    BY <1>2 DEF ReadPrior, MoodInv, MoodTypes
  <2> HIDE DEF prior
  <2>3. next \in Synthesis /\ next.prior = prior /\ next.pc = "shifts"
    BY <1>1, <2>1 DEF Synthesis
  <2>4. UNCHANGED <<rows, missed>>
    BY <1>2 DEF ReadPrior
  <2> HIDE DEF next
  <2> QED
    BY <2>1, <2>2, <2>3, <2>4, GoesOn
<1>3. CASE ReadShifts(w, ok) /\ synth[w].asks = "mood"
  <2> DEFINE found == IF ok THEN ShiftsSince(synth[w].prior) ELSE {}
             next == [synth[w] EXCEPT !.pc = "think", !.shifts = found]
  <2>1. synth' = [synth EXCEPT ![w] = next] /\ UNCHANGED rows
        /\ missed' = IF ok THEN missed ELSE missed \cup ShiftsSince(0)
    BY <1>3 DEF ReadShifts, MoodInv, MoodTypes
  <2>2. found \in SUBSET Nat
    BY DEF ShiftsSince, MoodInv, MoodTypes
  <2>3. \A i \in DOMAIN rows : rows[i].kind = "shift" => i \in found \cup Heard \cup missed'
    <3> SUFFICES ASSUME NEW i \in DOMAIN rows, rows[i].kind = "shift" PROVE i \in found \cup Heard \cup missed'
      OBVIOUS
    <3>1. i \in Nat /\ i > 0 /\ synth[w].prior \in Nat
      BY <1>1 DEF Synthesis, MoodInv, MoodTypes
    <3>2. CASE ~ok
      BY <2>1, <3>1, <3>2 DEF ShiftsSince
    <3>3. CASE ok /\ synth[w].prior < i
      BY <3>3 DEF ShiftsSince
    <3>4. CASE ok /\ i <= synth[w].prior
      <4>1. i <= NewestMood /\ NewestMood # 0
        BY <1>1, <3>1, <3>4
      <4>2. rows[NewestMood].kind = "mood"
        BY <4>1 DEF MoodInv, NewestIsNewest, MoodRows
      <4>3. i < NewestMood
        BY <1>1, <3>1, <4>1, <4>2
      <4> QED
        BY <2>1, <3>4, <4>3 DEF MoodInv, ShiftsAreHeard
    <3> QED
      BY <3>1, <3>2, <3>3, <3>4
  <2> HIDE DEF found
  <2>4. next \in Synthesis /\ next.prior = synth[w].prior /\ next.shifts = found
    BY <1>1, <2>2 DEF Synthesis
  <2> HIDE DEF next
  <2>5. synth' \in [Syntheses -> Synthesis] /\ synth'[w] = next /\ \A v \in Syntheses \ {w} : synth'[v] = synth[v]
    BY <2>1, <2>4 DEF MoodInv, MoodTypes
  <2>6. missed \subseteq missed'
    BY <2>1
  <2>7. \A v \in Syntheses : synth'[v].prior <= NewestMood
    BY <1>1, <2>4, <2>5 DEF MoodInv, PriorsAreOld
  <2>8. \A v \in Syntheses : synth'[v].pc \in {"think", "write"} =>
          \A i \in DOMAIN rows : rows[i].kind = "shift" => i \in synth'[v].shifts \cup Heard \cup missed'
    BY <2>3, <2>4, <2>5, <2>6 DEF MoodInv, ThinkersHaveRead, Thinking
  <2> QED
    BY <2>1, <2>5, <2>6, <2>7, <2>8, LakeStays
<1>4. CASE ReadShifts(w, ok) /\ synth[w].asks # "mood"
  <2>1. /\ UNCHANGED <<rows, missed>>
        /\ \/ synth' = [synth EXCEPT ![w] = [Idle EXCEPT !.pc = "prior", !.asks = "mood"]]
           \/ synth' = [synth EXCEPT ![w] = Idle]
    BY <1>4 DEF ReadShifts, Asks, Rests
  <2>2. [Idle EXCEPT !.pc = "prior", !.asks = "mood"] \in Synthesis /\ Idle \in Synthesis
    BY DEF Idle, Synthesis
  <2>3. [Idle EXCEPT !.pc = "prior", !.asks = "mood"].prior = 0 /\ [Idle EXCEPT !.pc = "prior", !.asks = "mood"].pc = "prior"
    BY DEF Idle
  <2>4. PICK next \in Synthesis : synth' = [synth EXCEPT ![w] = next] /\ next.prior = 0 /\ next.pc \in {"prior", "idle"}
    BY <2>1, <2>2, <2>3, IdleIsASynthesis
  <2>5. next.prior <= NewestMood /\ next.pc \notin {"think", "write"}
    BY <1>1, <2>4
  <2> QED
    BY <2>1, <2>4, <2>5, GoesOn
<1> QED
  BY <1>2, <1>3, <1>4

\* A mood has read what its synthesis has, and any row else disturbs nobody.
LEMMA WritesAreSound ==
  ASSUME MoodInv, NEW w \in Syntheses, NEW ok \in BOOLEAN, WriteMood(w, ok) \/ ModelFails(w, ok)
  PROVE  MoodInv'
<1>1. UNCHANGED missed /\ synth[w].pc \in {"think", "write"} /\ synth' = [synth EXCEPT ![w] = Idle]
  BY DEF WriteMood, ModelFails, Rests
<1>2. synth' \in [Syntheses -> Synthesis] /\ synth'[w] = Idle /\ \A v \in Syntheses \ {w} : synth'[v] = synth[v]
  BY <1>1, IdleIsASynthesis DEF MoodInv, MoodTypes
<1>3. CASE UNCHANGED rows
  <2>1. Idle.prior <= NewestMood /\ Idle.pc \notin {"think", "write"}
    BY PriorsFit, IdleIsASynthesis
  <2> QED
    BY <1>1, <1>3, <2>1, IdleIsASynthesis, GoesOn
<1>4. CASE WriteMood(w, ok) /\ Writes("mood", synth[w].shifts)
  <2>1. synth[w].shifts \in SUBSET Nat
    BY PriorsFit DEF Synthesis
  <2>2. /\ rows' \in Seq(Row) /\ Len(rows) \in Nat
        /\ DOMAIN rows' = 1..(Len(rows) + 1) /\ DOMAIN rows = 1..Len(rows)
        /\ rows'[Len(rows) + 1] = [kind |-> "mood", took |-> synth[w].shifts]
        /\ \A i \in DOMAIN rows : rows'[i] = rows[i]
    BY <1>4, <2>1, WrittenBehind DEF Kinds
  <2>3. NewestMood' = Len(rows) + 1 /\ Heard' = Heard \cup synth[w].shifts /\ NewestIsNewest'
    BY <1>4, <2>1, ANewMood
  <2>4. PriorsAreOld'
    <3>1. \A v \in Syntheses : synth'[v].prior \in Nat /\ synth'[v].prior <= NewestMood
      BY <1>2, PriorsFit, IdleIsASynthesis DEF Synthesis
    <3> QED
      BY <2>2, <2>3, <3>1 DEF PriorsAreOld, MoodInv, NewestIsNewest
  <2>5. \A i \in DOMAIN rows : rows[i].kind = "shift" => i \in Heard' \cup missed'
    BY <1>1, <2>3 DEF MoodInv, ThinkersHaveRead, Thinking
  <2>6. \A i \in DOMAIN rows' : rows'[i].kind = "shift" => i \in DOMAIN rows /\ rows[i].kind = "shift"
    BY <2>2
  <2>7. ShiftsAreHeard' /\ ThinkersHaveRead'
    BY <2>5, <2>6 DEF ShiftsAreHeard, ThinkersHaveRead
  <2> QED
    BY <1>2, <2>2, <2>3, <2>4, <2>7 DEF MoodInv, MoodTypes
<1>5. CASE ModelFails(w, ok) /\ Writes("error", {})
  <2>1. /\ rows' \in Seq(Row) /\ Len(rows) \in Nat
        /\ DOMAIN rows' = 1..(Len(rows) + 1) /\ DOMAIN rows = 1..Len(rows)
        /\ rows'[Len(rows) + 1] = [kind |-> "error", took |-> {}]
        /\ \A i \in DOMAIN rows : rows'[i] = rows[i]
    BY <1>5, WrittenBehind DEF Kinds
  <2>2. NewestMood' = NewestMood /\ Heard' = Heard /\ NewestIsNewest'
    BY <1>5, NoNewMood
  <2>3. \A i \in DOMAIN rows' : rows'[i].kind = "shift" => i \in DOMAIN rows /\ rows[i].kind = "shift"
    BY <2>1
  <2>4. PriorsAreOld'
    BY <1>2, <2>2, PriorsFit, IdleIsASynthesis DEF PriorsAreOld
  <2>5. ThinkersHaveRead' /\ ShiftsAreHeard'
    BY <1>1, <1>2, <2>2, <2>3, IdleIsASynthesis DEF MoodInv, ThinkersHaveRead, ShiftsAreHeard, Thinking
  <2> QED
    BY <1>2, <2>1, <2>2, <2>4, <2>5 DEF MoodInv, MoodTypes
<1> QED
  BY <1>3, <1>4, <1>5 DEF WriteMood, ModelFails

\* A shift that is written while nobody thinks is behind the newest mood; else it is excused.
LEMMA ShiftsArrive ==
  ASSUME MoodInv, NEW shift \in BOOLEAN, FireEnds(shift)
  PROVE  MoodInv'
<1>1. CASE ~shift
  BY <1>1, LakeStays DEF FireEnds, MoodInv, MoodTypes, PriorsAreOld, ThinkersHaveRead, Thinking
<1>2. CASE shift
  <2>1. Writes("shift", {}) /\ missed' = (IF Thinking = {} THEN missed ELSE missed \cup {Len(rows) + 1}) /\ synth' = synth
    BY <1>2 DEF FireEnds
  <2>2. /\ rows' \in Seq(Row) /\ Len(rows) \in Nat
        /\ DOMAIN rows' = 1..(Len(rows) + 1) /\ DOMAIN rows = 1..Len(rows)
        /\ rows'[Len(rows) + 1] = [kind |-> "shift", took |-> {}]
        /\ \A i \in DOMAIN rows : rows'[i] = rows[i]
    BY <2>1, WrittenBehind DEF Kinds
  <2>3. NewestMood' = NewestMood /\ Heard' = Heard /\ NewestIsNewest'
    BY <2>1, NoNewMood
  <2>4. PriorsAreOld'
    BY <2>1, <2>3 DEF MoodInv, PriorsAreOld
  <2>5. ShiftsAreHeard'
    BY <2>1, <2>2, <2>3 DEF MoodInv, ShiftsAreHeard, NewestIsNewest
  <2>6. ThinkersHaveRead'
    <3>1. Thinking' = Thinking
      BY <2>1 DEF Thinking
    <3>2. \A i \in DOMAIN rows' : i \in DOMAIN rows \/ i = Len(rows) + 1
      BY <2>2
    <3> QED
      BY <2>1, <2>2, <2>3, <3>1, <3>2 DEF MoodInv, ThinkersHaveRead
  <2> QED
    BY <2>1, <2>2, <2>3, <2>4, <2>5, <2>6 DEF MoodInv, MoodTypes
<1> QED
  BY <1>1, <1>2

LEMMA MoodsHold ==
  ASSUME MoodInv, [MoodsNext]_moodVars
  PROVE  MoodInv'
<1>1. CASE UNCHANGED <<rows, synth, missed>>
  BY <1>1, LakeStays DEF MoodInv, MoodTypes, PriorsAreOld, ThinkersHaveRead, Thinking
<1>2. CASE Restart
  <2>1. synth' = [w \in Syntheses |-> Idle] /\ UNCHANGED <<rows, missed>>
    BY <1>2 DEF Restart
  <2> QED
    BY <2>1, IdleIsASynthesis, LakeStays DEF MoodInv, NewestIsNewest
<1>3. ASSUME NEW w \in Syntheses,
             FireStarts(w) \/ Button(w) \/ Skip(w) \/ Answered(w) \/ DecideMood(w, TRUE) \/ DecideMood(w, FALSE)
      PROVE  MoodInv'
  <2>1. UNCHANGED <<rows, missed>>
    BY <1>3 DEF FireStarts, Button, Skip, Answered, DecideMood
  <2>2. synth[w] \in Synthesis /\ synth[w].prior <= NewestMood /\ NewestMood \in Nat
    BY PriorsFit
  <2>3. PICK pc \in {"decide", "prior", "write"}, asks \in {"mood", "overflow"} :
          \/ synth' = [synth EXCEPT ![w] = [synth[w] EXCEPT !.pc = pc]] /\ (pc = "write" => synth[w].pc = "think")
          \/ synth' = [synth EXCEPT ![w] = [Idle EXCEPT !.pc = pc, !.asks = asks]] /\ pc # "write"
          \/ synth' = [synth EXCEPT ![w] = Idle]
    BY <1>3 DEF FireStarts, Button, Skip, Answered, DecideMood, Asks, Rests, MoodInv, MoodTypes
  <2>4. [synth[w] EXCEPT !.pc = pc] \in Synthesis /\ [Idle EXCEPT !.pc = pc, !.asks = asks] \in Synthesis
    BY <2>2 DEF Idle, Synthesis
  <2>5. /\ [synth[w] EXCEPT !.pc = pc].prior = synth[w].prior /\ [synth[w] EXCEPT !.pc = pc].shifts = synth[w].shifts
        /\ [synth[w] EXCEPT !.pc = pc].pc = pc
        /\ [Idle EXCEPT !.pc = pc, !.asks = asks].prior = 0 /\ [Idle EXCEPT !.pc = pc, !.asks = asks].pc = pc
    BY <2>2 DEF Idle, Synthesis
  <2>6. PICK next \in Synthesis :
          /\ synth' = [synth EXCEPT ![w] = next]
          /\ next.prior \in {0, synth[w].prior}
          /\ next.pc \in {"think", "write"} => synth[w].pc \in {"think", "write"} /\ next.shifts = synth[w].shifts
    BY <2>3, <2>4, <2>5, IdleIsASynthesis
  <2>7. next.prior <= NewestMood
    BY <2>2, <2>6
  <2> QED
    BY <2>1, <2>6, <2>7, GoesOn
<1> QED
  BY <1>1, <1>2, <1>3, ReadsAreSound, WritesAreSound, ShiftsArrive DEF MoodsNext, moodVars

\* A shift older than the newest mood has been read by some mood, but for those that
\* were written while a synthesis was thinking and those a failed query lost.
THEOREM ShiftsAreHeardOrExcused == MoodsSpec => []ShiftsAreHeard
<1>1. MoodsInit => MoodInv
  BY MoodsStart
<1>2. MoodInv /\ [MoodsNext]_moodVars => MoodInv'
  BY MoodsHold
<1>3. MoodInv => ShiftsAreHeard
  BY DEF MoodInv
<1> QED
  BY <1>1, <1>2, <1>3, PTL DEF MoodsSpec
-----------------------------------------------------------------------------
(* Orient.                                                                   *)
\* Of numbers that are bounded one is the greatest.
LEMMA HasGreatest ==
  ASSUME NEW n \in Nat, NEW S \in SUBSET (0..n), S # {}
  PROVE  \E x \in S : \A y \in S : y <= x
<1> DEFINE Above(x) == {y \in S : y > x}
           Tails == {Above(x) : x \in S}
<1>0. IsFiniteSet(0..n)
  BY FS_Interval
<1>a. \A x \in S : x \in Nat
  OBVIOUS
<1>b. S \subseteq 0..n
  OBVIOUS
<1>1. IsFiniteSet(S) /\ \A x \in S : x \in Nat
  BY <1>0, <1>a, <1>b, FS_Subset, Zenon
<1>2. Tails \subseteq FiniteSubsetsOf(S) /\ Tails # {}
  <2>1. \A x \in S : Above(x) \in SUBSET S /\ IsFiniteSet(Above(x))
    BY <1>1, FS_Subset
  <2>2. \A x \in S : Above(x) \in FiniteSubsetsOf(S)
    BY <2>1 DEF FiniteSubsetsOf
  <2> HIDE DEF Above
  <2> QED
    BY <2>2
<1>3. (\A l \in Tails : \E x \in S : l = Above(x)) /\ \A y \in S : Above(y) \in Tails
  OBVIOUS
<1> HIDE DEF Tails, Above
<1>4. PICK least \in Tails : \A t \in Tails : ~(<<t, least>> \in StrictSubsetOrdering(S))
  BY <1>1, <1>2, WFMin, FS_StrictSubsetOrderingWellFounded
<1> PICK x \in S : least = Above(x)
  BY <1>3
<1>5. \A y \in S : ~(y > x)
  <2> SUFFICES ASSUME NEW y \in S, y > x PROVE FALSE
    OBVIOUS
  <2>a. \A z \in S : z > y => z > x
    BY <1>1
  <2>b. ~(y > y)
    BY <1>1
  <2>1. Above(y) \subseteq Above(x) /\ Above(x) \subseteq S /\ y \in Above(x) /\ y \notin Above(y)
    BY <2>a, <2>b, Zenon DEF Above
  <2>2. <<Above(y), Above(x)>> \in StrictSubsetOrdering(S)
    BY <2>1 DEF StrictSubsetOrdering
  <2> QED
    BY <1>3, <1>4, <2>2
<1> QED
  BY <1>1, <1>5

Engaged == [kind : {"thumb", "crystal"}, heard : SUBSET Nat]
Asking == [pc : {"no", "prior", "count", "decide"}, prior : Nat]
Regen == [pc : {"no", "gate", "prior", "engagements", "think", "write"}, prior : Nat, read : SUBSET Nat]

OrientTypes ==
  /\ signals \in Seq(Engaged) /\ checking \in [Checks -> Asking] /\ regen \in Regen /\ flaws \in Nat

\* What Max is here: of a crystal, if there is one.
NewestHasNoLater ==
  /\ NewestCrystal \in Nat /\ NewestCrystal <= Len(signals)
  /\ NewestCrystal # 0 => NewestCrystal \in Of("crystal")

BoundariesAreOld == regen.prior <= NewestCrystal /\ \A c \in Checks : checking[c].prior <= NewestCrystal

\* A regeneration that has asked for the thumbs has each one behind its boundary.
RegenHasRead == Asked => \A i \in Of("thumb") : i <= regen.prior \/ i \in regen.read \cup passed

OrientInv ==
  /\ OrientTypes /\ NewestHasNoLater /\ BoundariesAreOld /\ RegenHasRead /\ NoneIsPassedOver /\ FewWait

-----------------------------------------------------------------------------
LEMMA Blanks ==
  /\ Unasked \in Asking /\ Unasked.pc = "no" /\ Unasked.prior = 0
  /\ AtRest \in Regen /\ AtRest.pc = "no" /\ AtRest.prior = 0
BY DEF Unasked, AtRest, Asking, Regen

LEMMA OrientStart == OrientInit => OrientInv
<1> SUFFICES ASSUME OrientInit PROVE OrientInv
  OBVIOUS
<1>1. signals = << >> /\ DOMAIN signals = {} /\ Len(signals) = 0 /\ \A kind : Of(kind) = {}
  BY DEF OrientInit, Of
<1>2. OrientTypes
  BY <1>1, Blanks DEF OrientInit, OrientTypes
<1>3. NewestCrystal = 0
  <2>1. {0} \cup Of("crystal") = {0}
    BY <1>1
  <2> QED
    BY <2>1, MaxOf DEF NewestCrystal
<1>4. NewestHasNoLater /\ BoundariesAreOld
  BY <1>1, <1>3, Blanks DEF OrientInit, NewestHasNoLater, BoundariesAreOld
<1>5. RegenHasRead /\ NoneIsPassedOver
  BY <1>1 DEF RegenHasRead, NoneIsPassedOver
<1>6. FewWait
  <2>1. ThumbsSince(NewestCrystal) = {}
    BY <1>1 DEF ThumbsSince
  <2> QED
    BY <2>1, FS_EmptySet, OrientBounds DEF FewWait
<1> QED
  BY <1>2, <1>4, <1>5, <1>6 DEF OrientInv

LEMMA ThumbsAreFew ==
  ASSUME OrientInv, NEW p \in Nat
  PROVE  /\ Len(signals) \in Nat /\ ThumbsSince(p) \in SUBSET (0..Len(signals))
         /\ IsFiniteSet(ThumbsSince(p)) /\ Cardinality(ThumbsSince(p)) \in Nat
<1>1. Len(signals) \in Nat /\ DOMAIN signals = 1..Len(signals)
  BY DEF OrientInv, OrientTypes
<1>2. ThumbsSince(p) \subseteq 0..Len(signals)
  BY <1>1 DEF ThumbsSince, Of
<1>3. IsFiniteSet(0..Len(signals))
  BY <1>1, FS_Interval
<1>4. IsFiniteSet(ThumbsSince(p))
  BY <1>2, <1>3, FS_Subset
<1> QED
  BY <1>1, <1>2, <1>4, FS_CardinalityType

\* What a query reads is all there is when that is less than its limit.
LEMMA ShortOfTheLimit ==
  ASSUME OrientInv, NEW p \in Nat, ~Enough(p)
  PROVE  Engagements(p) = ThumbsSince(p)
<1> DEFINE T == ThumbsSince(p)
           E == Engagements(p)
           D == T \ E
<1>1. Len(signals) \in Nat /\ T \in SUBSET (0..Len(signals)) /\ IsFiniteSet(T)
  BY ThumbsAreFew
<1>2. E \subseteq T /\ \A i \in T : Cardinality({j \in T : j > i}) < MostRead => i \in E
  BY DEF Engagements
<1>3. IsFiniteSet(E) /\ Cardinality(E) \in Nat /\ Cardinality(E) < Threshold
  <2>1. IsFiniteSet(E)
    BY <1>1, <1>2, FS_Subset, Zenon
  <2>2. Cardinality(E) \in Nat
    BY <2>1, FS_CardinalityType
  <2> QED
    BY <2>1, <2>2, OrientBounds DEF Enough
<1> HIDE DEF T, E
<1>4. SUFFICES ASSUME D # {} PROVE FALSE
  BY <1>2 DEF T, E
<1>5. D \in SUBSET (0..Len(signals))
  BY <1>1
<1> HIDE DEF D
<1>6. PICK m \in D : \A y \in D : y <= m
  BY <1>1, <1>4, <1>5, HasGreatest
<1>7. m \in T /\ m \notin E /\ m \in Nat /\ \A j \in T : j \in Nat
  BY <1>1, <1>6 DEF D
<1> DEFINE J == {j \in T : j > m}
<1>8. J \subseteq E
  <2> SUFFICES ASSUME NEW j \in T, j > m, j \notin E PROVE FALSE
    OBVIOUS
  <2>1. j <= m /\ j \in Nat
    BY <1>6, <1>7 DEF D
  <2> QED
    BY <1>7, <2>1
<1>9. Cardinality(J) \in Nat /\ Cardinality(J) <= Cardinality(E)
  <2> HIDE DEF J
  <2>1. IsFiniteSet(J) /\ Cardinality(J) <= Cardinality(E)
    BY <1>3, <1>8, FS_Subset
  <2> QED
    BY <2>1, FS_CardinalityType
<1>10. Cardinality(J) < MostRead
  <2> HIDE DEF J
  <2> QED
    BY <1>3, <1>9, OrientBounds
<1> QED
  BY <1>2, <1>7, <1>10

\* Fewer than enough wait behind an older boundary, and so behind the newest.
LEMMA FewWaitBehind ==
  ASSUME OrientInv, NEW p \in Nat, p <= NewestCrystal, ~Enough(p)
  PROVE  Cardinality(ThumbsSince(NewestCrystal)) < Threshold
<1>1. NewestCrystal \in Nat
  BY DEF OrientInv, NewestHasNoLater
<1>2. Engagements(p) = ThumbsSince(p)
  BY ShortOfTheLimit
<1>3. \A i \in Of("crystal") \cup Of("thumb") : i \in Nat
  BY DEF OrientInv, OrientTypes, Of
<1>4. ThumbsSince(NewestCrystal) \subseteq ThumbsSince(p)
  BY <1>1, <1>3 DEF ThumbsSince
<1>5. IsFiniteSet(ThumbsSince(p)) /\ Cardinality(ThumbsSince(p)) \in Nat
      /\ Cardinality(ThumbsSince(NewestCrystal)) \in Nat
  BY <1>1, ThumbsAreFew
<1>6. Cardinality(ThumbsSince(NewestCrystal)) <= Cardinality(ThumbsSince(p))
  BY <1>4, <1>5, FS_Subset
<1>7. ~(Cardinality(ThumbsSince(p)) >= Threshold)
  BY <1>2 DEF Enough
<1> QED
  BY <1>5, <1>6, <1>7, OrientBounds

-----------------------------------------------------------------------------
\* Steps that leave the log alone.
LEMMA LogStays ==
  ASSUME OrientInv, UNCHANGED signals, passed \subseteq passed', flaws' \in Nat,
         checking' \in [Checks -> Asking], regen' \in Regen,
         regen'.prior <= NewestCrystal, \A c \in Checks : checking'[c].prior <= NewestCrystal,
         regen'.pc \in {"think", "write"} =>
           \A i \in Of("thumb") : i <= regen'.prior \/ i \in regen'.read \cup passed',
         (flaws' = 0 /\ regen'.pc = "no" /\ \A c \in Checks : checking'[c].pc = "no")
           => Cardinality(ThumbsSince(NewestCrystal)) < Threshold
  PROVE  OrientInv'
<1>1. (\A kind : Of(kind)' = Of(kind)) /\ NewestCrystal' = NewestCrystal /\ HeardThumbs' = HeardThumbs
  BY DEF Of, NewestCrystal, HeardThumbs
<1>2. ThumbsSince(NewestCrystal)' = ThumbsSince(NewestCrystal)
  BY <1>1 DEF ThumbsSince
<1>3. OrientTypes' /\ NewestHasNoLater' /\ BoundariesAreOld'
  BY <1>1 DEF OrientInv, OrientTypes, NewestHasNoLater, BoundariesAreOld
<1>4. RegenHasRead' /\ NoneIsPassedOver'
  BY <1>1 DEF OrientInv, RegenHasRead, NoneIsPassedOver, Asked
<1>5. FewWait'
  BY <1>2 DEF FewWait
<1> QED
  BY <1>3, <1>4, <1>5 DEF OrientInv

\* What is known of the state before a step.
LEMMA OrientFacts ==
  ASSUME OrientInv
  PROVE  /\ regen \in Regen /\ regen.prior \in Nat /\ regen.prior <= NewestCrystal /\ NewestCrystal \in Nat
         /\ flaws \in Nat /\ checking \in [Checks -> Asking]
         /\ \A c \in Checks : checking[c].prior \in Nat /\ checking[c].prior <= NewestCrystal
BY DEF OrientInv, OrientTypes, NewestHasNoLater, BoundariesAreOld, Regen, Asking

LEMMA SucceedsOrFlaws ==
  ASSUME OrientInv, NEW ok \in BOOLEAN, Succeeds(ok)
  PROVE  flaws' \in Nat /\ (ok \/ flaws' # 0) /\ (flaws' = 0 => flaws = 0)
<1>1. flaws \in Nat
  BY OrientFacts
<1> QED
  BY <1>1 DEF Succeeds

\* A step of the checks or of the button that starts a regeneration at most.
LEMMA Started ==
  ASSUME OrientInv, Signal
  PROVE  \/ regen' = regen
         \/ regen' \in Regen /\ regen'.pc = "gate" /\ regen'.prior = 0
BY DEF Signal, AtRest, Regen

LEMMA ChecksAreSound ==
  ASSUME OrientInv, NEW c \in Checks, NEW ok \in BOOLEAN, CheckPrior(c, ok) \/ CheckCount(c, ok)
  PROVE  OrientInv'
<1>0. flaws' \in Nat /\ (ok \/ flaws' # 0) /\ UNCHANGED <<signals, passed>>
  BY SucceedsOrFlaws DEF CheckPrior, CheckCount
<1>f. /\ regen \in Regen /\ regen.prior \in Nat /\ regen.prior <= NewestCrystal /\ NewestCrystal \in Nat
      /\ checking \in [Checks -> Asking]
      /\ \A d \in Checks : checking[d].prior \in Nat /\ checking[d].prior <= NewestCrystal
  BY OrientFacts
<1>r. regen.pc \in {"think", "write"} => \A i \in Of("thumb") : i <= regen.prior \/ i \in regen.read \cup passed
  BY DEF OrientInv, RegenHasRead, Asked
<1>1. CASE CheckPrior(c, ok)
  <2>1. PICK prior \in {0, NewestCrystal} : checking' = [checking EXCEPT ![c] = [pc |-> "count", prior |-> prior]]
    BY <1>1 DEF CheckPrior
  <2>2. [pc |-> "count", prior |-> prior] \in Asking /\ prior <= NewestCrystal
    BY <1>f DEF Asking
  <2>3. checking' \in [Checks -> Asking] /\ checking'[c].prior = prior /\ checking'[c].pc = "count"
        /\ \A d \in Checks \ {c} : checking'[d] = checking[d]
    BY <1>f, <2>1, <2>2
  <2>4. regen' = regen
    BY <1>1 DEF CheckPrior
  <2>5. \A d \in Checks : checking'[d].prior <= NewestCrystal
    BY <1>f, <2>2, <2>3
  <2>6. ~(\A d \in Checks : checking'[d].pc = "no")
    BY <2>3
  <2> QED
    BY <1>0, <1>f, <1>r, <2>3, <2>4, <2>5, <2>6, LogStays
<1>2. CASE CheckCount(c, ok)
  <2>1. checking' = [checking EXCEPT ![c] = Unasked]
        /\ (IF ok /\ Enough(checking[c].prior) THEN Signal ELSE UNCHANGED regen)
    BY <1>2 DEF CheckCount
  <2>2. checking' \in [Checks -> Asking] /\ checking'[c].prior = 0
        /\ \A d \in Checks \ {c} : checking'[d] = checking[d]
    BY <1>f, <2>1, Blanks
  <2>3. \A d \in Checks : checking'[d].prior <= NewestCrystal
    BY <1>f, <2>2
  <2>4. \/ regen' = regen
        \/ regen' \in Regen /\ regen'.pc = "gate" /\ regen'.prior = 0
    BY <2>1, Started
  <2>5. regen' \in Regen /\ regen'.prior <= NewestCrystal
    BY <1>f, <2>4
  <2>6. regen'.pc \in {"think", "write"} =>
          \A i \in Of("thumb") : i <= regen'.prior \/ i \in regen'.read \cup passed'
    BY <1>0, <1>r, <2>4
  <2>7. (flaws' = 0 /\ regen'.pc = "no") => Cardinality(ThumbsSince(NewestCrystal)) < Threshold
    <3> SUFFICES ASSUME flaws' = 0, regen'.pc = "no" PROVE Cardinality(ThumbsSince(NewestCrystal)) < Threshold
      OBVIOUS
    <3>1. ~Enough(checking[c].prior)
      <4> SUFFICES ASSUME Enough(checking[c].prior) PROVE FALSE
        OBVIOUS
      <4>1. Signal
        BY <1>0, <2>1
      <4> QED
        BY <4>1 DEF Signal
    <3>2. checking[c].prior \in Nat /\ checking[c].prior <= NewestCrystal
      BY <1>f
    <3> QED
      BY <3>1, <3>2, FewWaitBehind
  <2> QED
    BY <1>0, <2>2, <2>3, <2>5, <2>6, <2>7, LogStays
<1> QED
  BY <1>1, <1>2

\* Steps that leave the log and the checks alone, and rest only after a fault.
LEMMA RegenMoves ==
  ASSUME OrientInv, UNCHANGED <<signals, checking>>, passed \subseteq passed', flaws' \in Nat,
         flaws' = 0 => flaws = 0,
         regen' \in Regen, regen'.prior <= NewestCrystal,
         regen'.pc \in {"think", "write"} =>
           \A i \in Of("thumb") : i <= regen'.prior \/ i \in regen'.read \cup passed',
         regen'.pc = "no" => flaws' # 0 \/ regen.pc = "no"
  PROVE  OrientInv'
<1>f. checking \in [Checks -> Asking] /\ \A c \in Checks : checking[c].prior <= NewestCrystal
  BY OrientFacts
<1>1. (flaws' = 0 /\ regen'.pc = "no" /\ \A c \in Checks : checking'[c].pc = "no")
        => Cardinality(ThumbsSince(NewestCrystal)) < Threshold
  BY DEF OrientInv, FewWait
<1> QED
  BY <1>f, <1>1, LogStays

LEMMA ButtonsAreSound ==
  ASSUME OrientInv,
         OrientShift \/ ForceRunRegen \/ ForceDecides \/ CoolsDown \/ ForceReadsPrior(TRUE) \/ ForceReadsPrior(FALSE)
  PROVE  OrientInv'
<1>f. /\ regen \in Regen /\ regen.prior \in Nat /\ regen.prior <= NewestCrystal /\ NewestCrystal \in Nat
      /\ flaws \in Nat
  BY OrientFacts
<1>r. regen.pc \in {"think", "write"} => \A i \in Of("thumb") : i <= regen.prior \/ i \in regen.read \cup passed
  BY DEF OrientInv, RegenHasRead, Asked
<1>1. UNCHANGED <<signals, checking, passed>>
  BY DEF OrientShift, ForceRunRegen, ForceDecides, CoolsDown, ForceReadsPrior
<1>2. flaws' \in Nat /\ (flaws' = 0 => flaws = 0)
  <2>1. CASE UNCHANGED flaws
    BY <1>f, <2>1
  <2>2. CASE Succeeds(TRUE) \/ Succeeds(FALSE)
    BY <2>2, SucceedsOrFlaws
  <2> QED
    BY <2>1, <2>2 DEF OrientShift, ForceRunRegen, ForceDecides, CoolsDown, ForceReadsPrior
<1>3. Signal \/ regen' = regen
  BY DEF OrientShift, ForceRunRegen, ForceDecides, CoolsDown, ForceReadsPrior
<1>4. \/ regen' = regen
      \/ regen' \in Regen /\ regen'.pc = "gate" /\ regen'.prior = 0
  BY <1>3, Started
<1>5. regen' \in Regen /\ regen'.prior <= NewestCrystal
  BY <1>f, <1>4
<1>6. regen'.pc \in {"think", "write"} =>
        \A i \in Of("thumb") : i <= regen'.prior \/ i \in regen'.read \cup passed'
  BY <1>1, <1>r, <1>4
<1>7. regen'.pc = "no" => regen.pc = "no"
  BY <1>4
<1> QED
  BY <1>1, <1>2, <1>5, <1>6, <1>7, RegenMoves

\* Up to the prompt: the thumbs that it does not show are excused.
LEMMA RegenAdvances ==
  ASSUME OrientInv, NEW ok \in BOOLEAN,
         GateIs(ok) \/ RegenPrior(ok) \/ RegenReads(ok) \/ RegenThinks(ok)
  PROVE  OrientInv'
<1>f. /\ regen \in Regen /\ regen.prior \in Nat /\ regen.prior <= NewestCrystal /\ NewestCrystal \in Nat
  BY OrientFacts
<1>r. regen.pc \in {"think", "write"} => \A i \in Of("thumb") : i <= regen.prior \/ i \in regen.read \cup passed
  BY DEF OrientInv, RegenHasRead, Asked
<1>1. Succeeds(ok) /\ UNCHANGED <<signals, checking>>
  BY DEF GateIs, RegenPrior, RegenReads, RegenThinks
<1>2. flaws' \in Nat /\ (ok \/ flaws' # 0) /\ (flaws' = 0 => flaws = 0)
  BY <1>1, SucceedsOrFlaws
<1>3. CASE GateIs(ok) \/ RegenThinks(ok)
  <2>1. /\ passed' = passed
        /\ \/ regen' = AtRest /\ ~ok
           \/ regen' = [regen EXCEPT !.pc = "prior"]
           \/ regen' = [regen EXCEPT !.pc = "write"] /\ regen.pc = "think"
    BY <1>3 DEF GateIs, RegenThinks, NoNarrative
  <2>2. /\ [regen EXCEPT !.pc = "prior"] \in Regen /\ [regen EXCEPT !.pc = "write"] \in Regen
        /\ [regen EXCEPT !.pc = "prior"].pc = "prior" /\ [regen EXCEPT !.pc = "prior"].prior = regen.prior
        /\ [regen EXCEPT !.pc = "write"].pc = "write" /\ [regen EXCEPT !.pc = "write"].prior = regen.prior
        /\ [regen EXCEPT !.pc = "write"].read = regen.read
    BY <1>f DEF Regen
  <2>3. \/ regen' \in Regen /\ regen'.pc = "no" /\ regen'.prior = 0 /\ ~ok
        \/ regen' \in Regen /\ regen'.pc = "prior" /\ regen'.prior = regen.prior
        \/ /\ regen' \in Regen /\ regen'.pc = "write" /\ regen'.prior = regen.prior
           /\ regen'.read = regen.read /\ regen.pc = "think"
    BY <2>1, <2>2, Blanks
  <2>4. regen' \in Regen /\ regen'.prior <= NewestCrystal
    BY <1>f, <2>3
  <2>5. regen'.pc \in {"think", "write"} =>
          \A i \in Of("thumb") : i <= regen'.prior \/ i \in regen'.read \cup passed'
    BY <1>r, <2>1, <2>3
  <2>6. regen'.pc = "no" => flaws' # 0
    BY <1>2, <2>3
  <2> QED
    BY <1>1, <1>2, <2>1, <2>4, <2>5, <2>6, RegenMoves
<1>4. CASE RegenPrior(ok)
  <2>1. PICK prior \in {0, NewestCrystal} : regen' = [regen EXCEPT !.pc = "engagements", !.prior = prior]
    BY <1>4 DEF RegenPrior
  <2>2. prior \in Nat /\ prior <= NewestCrystal /\ passed' = passed
    BY <1>f, <1>4 DEF RegenPrior
  <2>3. regen' \in Regen /\ regen'.pc = "engagements" /\ regen'.prior = prior
    BY <1>f, <2>1, <2>2 DEF Regen
  <2> QED
    BY <1>1, <1>2, <2>2, <2>3, RegenMoves
<1>5. CASE RegenReads(ok)
  <2> DEFINE read == IF ok THEN Engagements(regen.prior) ELSE {}
             next == [regen EXCEPT !.pc = "think", !.read = read]
  <2>1. regen' = next /\ passed' = passed \cup (ThumbsSince(regen.prior) \ read)
    BY <1>5 DEF RegenReads
  <2>2. read \in SUBSET Nat
    <3>1. \A i \in DOMAIN signals : i \in Nat
      BY DEF OrientInv, OrientTypes
    <3> QED
      BY <3>1 DEF Engagements, ThumbsSince, Of
  <2> HIDE DEF read
  <2>3. next \in Regen /\ next.pc = "think" /\ next.prior = regen.prior /\ next.read = read
    BY <1>f, <2>2 DEF Regen
  <2> HIDE DEF next
  <2>4. \A i \in Of("thumb") : i <= regen'.prior \/ i \in regen'.read \cup passed'
    <3> SUFFICES ASSUME NEW i \in Of("thumb"), ~(i <= regen.prior) PROVE i \in read \cup passed'
      BY <2>1, <2>3
    <3>1. i \in Nat
      BY DEF OrientInv, OrientTypes, Of
    <3>2. i \in ThumbsSince(regen.prior)
      BY <1>f, <3>1 DEF ThumbsSince
    <3> QED
      BY <2>1, <3>2
  <2>5. passed \subseteq passed' /\ regen' \in Regen /\ regen'.prior <= NewestCrystal /\ regen'.pc # "no"
    BY <1>f, <2>1, <2>3
  <2> QED
    BY <1>1, <1>2, <2>4, <2>5, RegenMoves
<1> QED
  BY <1>3, <1>4, <1>5

LEMMA RestartsAreSound ==
  ASSUME OrientInv, OrientRestart
  PROVE  OrientInv'
<1>1. /\ checking' = [c \in Checks |-> Unasked] /\ regen' = AtRest /\ UNCHANGED <<signals, passed>>
      /\ flaws' \in Nat /\ flaws' # 0
  BY SucceedsOrFlaws DEF OrientRestart
<1>2. NewestCrystal \in Nat
  BY OrientFacts
<1> QED
  BY <1>1, <1>2, Blanks, LogStays

-----------------------------------------------------------------------------
\* A row is written behind the others.
LEMMA LoggedBehind ==
  ASSUME OrientInv, NEW row \in Engaged, signals' = Append(signals, row)
  PROVE  /\ signals' \in Seq(Engaged) /\ Len(signals') = Len(signals) + 1 /\ Len(signals) \in Nat
         /\ DOMAIN signals' = 1..(Len(signals) + 1) /\ DOMAIN signals = 1..Len(signals)
         /\ signals'[Len(signals) + 1] = row /\ \A i \in DOMAIN signals : signals'[i] = signals[i]
BY DEF OrientInv, OrientTypes

LEMMA AThumbChangesNoCrystal ==
  ASSUME OrientInv, signals' = Append(signals, [kind |-> "thumb", heard |-> {}])
  PROVE  /\ signals' \in Seq(Engaged) /\ Len(signals) \in Nat /\ Len(signals') = Len(signals) + 1
         /\ NewestCrystal' = NewestCrystal /\ HeardThumbs' = HeardThumbs /\ NewestHasNoLater'
         /\ Of("thumb")' = Of("thumb") \cup {Len(signals) + 1}
<1>0. [kind |-> "thumb", heard |-> {}] \in Engaged
  BY DEF Engaged
<1>1. /\ signals' \in Seq(Engaged) /\ Len(signals') = Len(signals) + 1 /\ Len(signals) \in Nat
      /\ DOMAIN signals' = 1..(Len(signals) + 1) /\ DOMAIN signals = 1..Len(signals)
      /\ signals'[Len(signals) + 1] = [kind |-> "thumb", heard |-> {}]
      /\ \A i \in DOMAIN signals : signals'[i] = signals[i]
  BY <1>0, LoggedBehind
<1>2. Of("crystal")' = Of("crystal") /\ Of("thumb")' = Of("thumb") \cup {Len(signals) + 1}
  BY <1>1 DEF Of
<1>3. NewestCrystal' = NewestCrystal
  BY <1>2 DEF NewestCrystal
<1>4. HeardThumbs' = HeardThumbs
  <2>1. \A i \in Of("crystal") : signals'[i] = signals[i]
    BY <1>1 DEF Of
  <2> QED
    BY <1>2, <2>1 DEF HeardThumbs
<1>5. NewestHasNoLater'
  BY <1>1, <1>2, <1>3 DEF OrientInv, NewestHasNoLater
<1> QED
  BY <1>1, <1>2, <1>3, <1>4, <1>5

LEMMA ACrystalIsTheNewest ==
  ASSUME OrientInv, NEW read \in SUBSET Nat, signals' = Append(signals, [kind |-> "crystal", heard |-> read])
  PROVE  /\ signals' \in Seq(Engaged) /\ Len(signals) \in Nat
         /\ NewestCrystal' = Len(signals) + 1 /\ HeardThumbs' = HeardThumbs \cup read /\ NewestHasNoLater'
         /\ Of("thumb")' = Of("thumb") /\ Of("thumb") \subseteq 1..Len(signals)
<1>0. [kind |-> "crystal", heard |-> read] \in Engaged
  BY DEF Engaged
<1>1. /\ signals' \in Seq(Engaged) /\ Len(signals') = Len(signals) + 1 /\ Len(signals) \in Nat
      /\ DOMAIN signals' = 1..(Len(signals) + 1) /\ DOMAIN signals = 1..Len(signals)
      /\ signals'[Len(signals) + 1] = [kind |-> "crystal", heard |-> read]
      /\ \A i \in DOMAIN signals : signals'[i] = signals[i]
  BY <1>0, LoggedBehind
<1>2. /\ Of("crystal")' = Of("crystal") \cup {Len(signals) + 1} /\ Of("thumb")' = Of("thumb")
      /\ Of("thumb") \subseteq 1..Len(signals)
  BY <1>1 DEF Of
<1>3. NewestCrystal' = Len(signals) + 1
  <2>1. \A y \in {0} \cup Of("crystal")' : y \in Nat /\ y <= Len(signals) + 1
    BY <1>1 DEF Of
  <2>2. Len(signals) + 1 \in {0} \cup Of("crystal")'
    BY <1>2
  <2>3. Max({0} \cup Of("crystal")') = Len(signals) + 1
    BY <2>1, <2>2, MaxOf
  <2> QED
    BY <2>3 DEF NewestCrystal
<1>4. HeardThumbs' = HeardThumbs \cup read
  <2>1. \A i \in Of("crystal") : signals'[i] = signals[i]
    BY <1>1 DEF Of
  <2>2. signals'[Len(signals) + 1].heard = read
    BY <1>1
  <2>3. PICK old, new : old = Of("crystal") /\ new = Of("crystal")'
    OBVIOUS
  <2>4. HeardThumbs = UNION {signals[i].heard : i \in old} /\ HeardThumbs' = UNION {signals'[i].heard : i \in new}
    BY <2>3 DEF HeardThumbs
  <2>5. new = old \cup {Len(signals) + 1} /\ \A i \in old : signals'[i] = signals[i]
    BY <1>2, <2>1, <2>3
  <2>6. \A t : (\E i \in new : t \in signals'[i].heard) <=> (\E i \in old : t \in signals[i].heard) \/ t \in read
    BY <2>2, <2>5
  <2>7. /\ \A t : t \in HeardThumbs <=> \E i \in old : t \in signals[i].heard
        /\ \A t : t \in HeardThumbs' <=> \E i \in new : t \in signals'[i].heard
    BY <2>4
  <2> QED
    BY <2>6, <2>7
<1>5. NewestHasNoLater'
  BY <1>1, <1>2, <1>3 DEF NewestHasNoLater
<1> QED
  BY <1>1, <1>2, <1>3, <1>4, <1>5

LEMMA EngagesAreSound ==
  ASSUME OrientInv, NEW c \in Checks, NEW repeats \in BOOLEAN, Engage(c, repeats)
  PROVE  OrientInv'
<1>f. /\ regen \in Regen /\ regen.prior \in Nat /\ regen.prior <= NewestCrystal /\ NewestCrystal \in Nat
      /\ flaws \in Nat /\ checking \in [Checks -> Asking]
      /\ \A d \in Checks : checking[d].prior \in Nat /\ checking[d].prior <= NewestCrystal
  BY OrientFacts
<1>1. checking' = [checking EXCEPT ![c] = [Unasked EXCEPT !.pc = "prior"]] /\ regen' = regen /\ flaws' = flaws
  BY DEF Engage
<1>2. [Unasked EXCEPT !.pc = "prior"] \in Asking
      /\ [Unasked EXCEPT !.pc = "prior"].pc = "prior" /\ [Unasked EXCEPT !.pc = "prior"].prior = 0
  BY DEF Unasked, Asking
<1>3. checking' \in [Checks -> Asking] /\ checking'[c].prior = 0 /\ checking'[c].pc = "prior"
      /\ \A d \in Checks \ {c} : checking'[d] = checking[d]
  BY <1>f, <1>1, <1>2
<1>4. \A d \in Checks : checking'[d].prior <= NewestCrystal
  BY <1>f, <1>3
<1>5. CASE UNCHANGED <<signals, passed>>
  BY <1>f, <1>1, <1>3, <1>4, <1>5, LogStays DEF OrientInv, RegenHasRead, Asked
<1>6. CASE /\ signals' = Append(signals, [kind |-> "thumb", heard |-> {}])
           /\ passed' = IF Asked THEN passed \cup {Len(signals) + 1} ELSE passed
  <2>1. /\ signals' \in Seq(Engaged) /\ Len(signals) \in Nat /\ Len(signals') = Len(signals) + 1
        /\ NewestCrystal' = NewestCrystal /\ HeardThumbs' = HeardThumbs /\ NewestHasNoLater'
        /\ Of("thumb")' = Of("thumb") \cup {Len(signals) + 1}
    BY <1>6, AThumbChangesNoCrystal
  <2>2. OrientTypes' /\ BoundariesAreOld' /\ FewWait'
    BY <1>f, <1>1, <1>3, <1>4, <2>1 DEF OrientTypes, BoundariesAreOld, FewWait
  <2>3. passed \subseteq passed' /\ (Asked => Len(signals) + 1 \in passed')
    BY <1>6
  <2>4. RegenHasRead'
    <3>1. Asked' <=> Asked
      BY <1>1 DEF Asked
    <3>2. RegenHasRead
      BY DEF OrientInv
    <3> QED
      BY <1>1, <2>1, <2>3, <3>1, <3>2 DEF RegenHasRead
  <2>5. NoneIsPassedOver'
    <3> SUFFICES ASSUME NEW i \in Of("thumb")', i < NewestCrystal' PROVE i \in HeardThumbs' \cup passed'
      BY DEF NoneIsPassedOver
    <3>1. NewestCrystal <= Len(signals)
      BY DEF OrientInv, NewestHasNoLater
    <3>2. i # Len(signals) + 1
      BY <1>f, <2>1, <3>1
    <3>3. i \in Of("thumb") /\ i < NewestCrystal
      BY <2>1, <3>2
    <3> QED
      BY <2>1, <2>3, <3>3 DEF OrientInv, NoneIsPassedOver
  <2> QED
    BY <2>1, <2>2, <2>4, <2>5 DEF OrientInv
<1> QED
  BY <1>5, <1>6 DEF Engage

LEMMA CrystalsAreSound ==
  ASSUME OrientInv, NEW ok \in BOOLEAN, RegenWrites(ok)
  PROVE  OrientInv'
<1>f. /\ regen \in Regen /\ regen.prior \in Nat /\ regen.prior <= NewestCrystal /\ NewestCrystal \in Nat
      /\ checking \in [Checks -> Asking]
      /\ \A d \in Checks : checking[d].prior \in Nat /\ checking[d].prior <= NewestCrystal
  BY OrientFacts
<1>1. regen.pc = "write" /\ Succeeds(ok) /\ regen' = AtRest /\ UNCHANGED <<checking, passed>>
  BY DEF RegenWrites
<1>2. flaws' \in Nat /\ (ok \/ flaws' # 0)
  BY <1>1, SucceedsOrFlaws
<1>3. CASE ~ok
  <2>1. signals' = signals
    BY <1>3 DEF RegenWrites
  <2> QED
    BY <1>f, <1>1, <1>2, <1>3, <2>1, Blanks, LogStays
<1>4. CASE ok
  <2>1. signals' = Append(signals, [kind |-> "crystal", heard |-> regen.read]) /\ regen.read \in SUBSET Nat
    BY <1>f, <1>4 DEF RegenWrites, Regen
  <2>2. /\ signals' \in Seq(Engaged) /\ Len(signals) \in Nat
        /\ NewestCrystal' = Len(signals) + 1 /\ HeardThumbs' = HeardThumbs \cup regen.read /\ NewestHasNoLater'
        /\ Of("thumb")' = Of("thumb") /\ Of("thumb") \subseteq 1..Len(signals)
    BY <2>1, ACrystalIsTheNewest
  <2>3. NewestCrystal <= Len(signals) /\ (NewestCrystal # 0 => NewestCrystal \in Of("crystal"))
    BY DEF OrientInv, NewestHasNoLater
  <2>4. OrientTypes' /\ BoundariesAreOld'
    <3>1. \A d \in Checks : checking[d].prior <= Len(signals) + 1
      BY <1>f, <2>2, <2>3
    <3> QED
      BY <1>f, <1>1, <1>2, <2>2, <3>1, Blanks DEF OrientTypes, BoundariesAreOld
  <2>5. RegenHasRead'
    BY <1>1, Blanks DEF RegenHasRead, Asked
  <2>6. NoneIsPassedOver'
    <3> SUFFICES ASSUME NEW i \in Of("thumb"), i \notin regen.read \cup passed PROVE i \in HeardThumbs
      BY <1>1, <2>2 DEF NoneIsPassedOver
    <3>1. i <= regen.prior
      BY <1>1 DEF OrientInv, RegenHasRead, Asked
    <3>2. i \in Nat /\ i # 0
      BY <2>2
    <3>3. i <= NewestCrystal /\ NewestCrystal # 0
      BY <1>f, <3>1, <3>2
    <3>4. i # NewestCrystal
      BY <2>3, <3>3 DEF Of
    <3>5. i < NewestCrystal
      BY <1>f, <3>2, <3>3, <3>4
    <3> QED
      BY <3>5 DEF OrientInv, NoneIsPassedOver
  <2>7. FewWait'
    <3>1. ThumbsSince(NewestCrystal)' = {}
      BY <2>2 DEF ThumbsSince
    <3> QED
      BY <3>1, FS_EmptySet, OrientBounds DEF FewWait
  <2> QED
    BY <2>2, <2>4, <2>5, <2>6, <2>7 DEF OrientInv
<1> QED
  BY <1>3, <1>4

LEMMA OrientHolds ==
  ASSUME OrientInv, [OrientNext]_orientVars
  PROVE  OrientInv'
<1>1. CASE UNCHANGED orientVars
  BY <1>1, OrientFacts, LogStays DEF orientVars, OrientInv, RegenHasRead, Asked, FewWait
<1>2. ASSUME NEW c \in Checks, NEW ok \in BOOLEAN, Engage(c, ok) \/ CheckPrior(c, ok) \/ CheckCount(c, ok)
      PROVE  OrientInv'
  BY <1>2, EngagesAreSound, ChecksAreSound
<1>3. CASE OrientShift \/ ForceRunRegen \/ ForceDecides \/ CoolsDown \/ OrientRestart
  BY <1>3, ButtonsAreSound, RestartsAreSound
<1>4. ASSUME NEW ok \in BOOLEAN,
             ForceReadsPrior(ok) \/ GateIs(ok) \/ RegenPrior(ok) \/ RegenReads(ok) \/ RegenThinks(ok) \/ RegenWrites(ok)
      PROVE  OrientInv'
  BY <1>4, ButtonsAreSound, RegenAdvances, CrystalsAreSound
<1> QED
  BY <1>1, <1>2, <1>3, <1>4 DEF OrientNext

\* A thumb behind the newest crystal has been in the prompt of a regeneration that
\* wrote one, but for those that a failed or full query or a regeneration under way
\* excuses; and at rest, without a fault, fewer than the threshold wait.
THEOREM ThumbsGetHeard == OrientSpec => []ThumbsAreHeard
<1>1. OrientInit => OrientInv
  BY OrientStart
<1>2. OrientInv /\ [OrientNext]_orientVars => OrientInv'
  BY OrientHolds
<1>3. OrientInv => ThumbsAreHeard
  BY DEF OrientInv, ThumbsAreHeard
<1> QED
  BY <1>1, <1>2, <1>3, PTL DEF OrientSpec

-----------------------------------------------------------------------------
(* Crystal.                                                                  *)
TheCheck == [pc : {"rest", "sample", "measure", "cooldown", "heal"}, sees : Nat, knew : Nat]
ARegen ==
  [start : Nat, wrote : Nat, end : Nat, knew : Nat, how : {"running", "wrote", "rejected", "raised", "forgotten"}]
CrystalTypes ==
  /\ time \in Nat /\ time >= 1 /\ crystals \in Seq(Nat) /\ late \in BOOLEAN
  /\ cache \in [has : BOOLEAN, sees : Nat, at : Nat]
  /\ check \in TheCheck /\ checked \in Nat /\ marker \in Nat
  /\ spawned \in [on : BOOLEAN, knew : Nat] /\ inFlight \in BOOLEAN
  /\ refresh \in {"no", "generate", "write", "anchor", "seed"}
  /\ regens \in Seq(ARegen)

\* Nothing is of the future.
Past ==
  /\ cache.at <= time /\ checked <= time /\ (check.pc # "rest" => checked < time)
  /\ \A n \in DOMAIN crystals : crystals[n] <= time
  /\ \A i \in DOMAIN regens : regens[i].wrote <= time /\ regens[i].end <= time

\* The regen that is under way is the last one.
Flight ==
  /\ inFlight = (refresh # "no")
  /\ inFlight => Len(regens) # 0
  /\ \A i \in DOMAIN regens :
       /\ (regens[i].end = 0) = (inFlight /\ i = Len(regens))
       /\ regens[i].how = "wrote" => regens[i].wrote # 0 /\ regens[i].end # 0
       /\ regens[i].how = "rejected" => regens[i].end # 0
  /\ refresh \in {"anchor", "seed"} => regens[Len(regens)].wrote # 0

\* What is known of crystals and regens is of ones that are there.
Knowledge ==
  /\ cache.sees <= LastCrystal /\ check.sees <= LastCrystal
  /\ check.knew <= Over /\ spawned.knew <= Over
  /\ \A j \in DOMAIN regens : regens[j].knew < j
LateIsBehind == late = TRUE => LastCrystal # 0

\* Crystal n is no older than a moment.
Sees(n, at) == n \in DOMAIN crystals /\ crystals[n] >= at

\* The newest crystal is no older than any regen wrote, and a check that has asked the
\* lake has one that is no older than what was written before the check.
NewestIsNew == \A i \in DOMAIN regens : regens[i].wrote # 0 => Sees(LastCrystal, regens[i].wrote)
CheckSees ==
  \A i \in DOMAIN regens :
    regens[i].how = "wrote" /\ i <= check.knew /\ check.pc \in {"sample", "cooldown"} => Sees(check.sees, regens[i].wrote)

\* What a regen wrote is known to the marker, or to every read that counts from now on:
\* what the cache has from before is out of date when the next check asks.
Fresh(i) ==
  /\ late = TRUE => Sees(LastCrystal - 1, regens[i].wrote)
  /\ \/ cache.has = FALSE \/ Sees(cache.sees, regens[i].wrote) \/ cache.at <= checked
     \/ check.pc # "rest" /\ check.knew < i
Guarded == \A i \in DOMAIN regens : regens[i].how = "wrote" => marker >= regens[i].wrote \/ Fresh(i)

\* A rejection is known to the marker.
Rejections ==
  \A i \in DOMAIN regens : regens[i].how = "rejected" =>
    /\ marker >= regens[i].end
    /\ check.pc = "cooldown" /\ i <= check.knew => time - regens[i].end >= Cooldown

\* A task is spawned when the cool-down of all that its check knew of has passed.
SpawnedLate ==
  spawned.on = TRUE => \A i \in DOMAIN regens : i <= spawned.knew =>
    /\ regens[i].how = "wrote" => time - regens[i].wrote >= Cooldown
    /\ regens[i].how = "rejected" => time - regens[i].end >= Cooldown

CrystalInv ==
  /\ CrystalTypes /\ LateIsBehind /\ Past /\ Flight /\ Knowledge /\ NewestIsNew /\ CheckSees /\ Guarded
  /\ Rejections /\ SpawnedLate /\ RegensAreSpaced

\* The types of what the records hold.
Fields ==
  /\ cache.has \in BOOLEAN /\ cache.sees \in Nat /\ cache.at \in Nat
  /\ check.sees \in Nat /\ check.knew \in Nat /\ spawned.knew \in Nat
  /\ Len(crystals) \in Nat /\ DOMAIN crystals = 1..Len(crystals) /\ \A n \in DOMAIN crystals : crystals[n] \in Nat
  /\ Len(regens) \in Nat /\ DOMAIN regens = 1..Len(regens)
  /\ \A i \in DOMAIN regens :
       /\ regens[i] \in ARegen
       /\ regens[i].start \in Nat /\ regens[i].wrote \in Nat /\ regens[i].end \in Nat /\ regens[i].knew \in Nat

USE CrystalBounds DEF CrystalBounds

LEMMA FieldsHaveTypes == CrystalTypes => Fields
<1> SUFFICES ASSUME CrystalTypes PROVE Fields
  OBVIOUS
<1> USE DEF CrystalTypes
<1>1. cache.has \in BOOLEAN /\ cache.sees \in Nat /\ cache.at \in Nat /\ spawned.knew \in Nat
  OBVIOUS
<1>2. check.sees \in Nat /\ check.knew \in Nat
  BY DEF TheCheck
<1>3. Len(crystals) \in Nat /\ DOMAIN crystals = 1..Len(crystals) /\ \A n \in DOMAIN crystals : crystals[n] \in Nat
  OBVIOUS
<1>4. Len(regens) \in Nat /\ DOMAIN regens = 1..Len(regens) /\ \A i \in DOMAIN regens : regens[i] \in ARegen
  OBVIOUS
<1>5. \A i \in DOMAIN regens : regens[i].start \in Nat /\ regens[i].wrote \in Nat /\ regens[i].end \in Nat /\ regens[i].knew \in Nat
  BY <1>4 DEF ARegen
<1> QED
  BY <1>1, <1>2, <1>3, <1>4, <1>5 DEF Fields

\* No crystal, no regen: nothing to be spaced.
LEMMA CrystalStarts == CrystalInit => CrystalInv
<1> SUFFICES ASSUME CrystalInit PROVE CrystalInv
  OBVIOUS
<1> USE DEF CrystalInit, Uncached, NotChecking, NoRegen
<1>1. regens = << >> /\ crystals = << >> /\ Len(regens) = 0 /\ Len(crystals) = 0 /\ DOMAIN regens = {} /\ DOMAIN crystals = {}
  OBVIOUS
<1>2. CrystalTypes
  <2>1. time \in Nat /\ time >= 1 /\ checked \in Nat /\ marker \in Nat
    OBVIOUS
  <2>6. late \in BOOLEAN /\ inFlight \in BOOLEAN
    OBVIOUS
  <2>2. crystals \in Seq(Nat) /\ regens \in Seq(ARegen)
    OBVIOUS
  <2>3. cache \in [has : BOOLEAN, sees : Nat, at : Nat] /\ spawned \in [on : BOOLEAN, knew : Nat]
    OBVIOUS
  <2>4. check \in TheCheck
    BY DEF TheCheck
  <2>5. refresh \in {"no", "generate", "write", "anchor", "seed"}
    OBVIOUS
  <2> QED
    BY <2>1, <2>2, <2>3, <2>4, <2>5, <2>6 DEF CrystalTypes
<1>3. Past
  BY <1>1 DEF Past
<1>4. Flight /\ LateIsBehind
  BY <1>1 DEF Flight, LateIsBehind
<1>5. Knowledge
  BY <1>1 DEF Knowledge, Over, LastCrystal
<1>6. NewestIsNew /\ CheckSees /\ Guarded /\ Rejections /\ SpawnedLate /\ RegensAreSpaced
  BY <1>1 DEF NewestIsNew, CheckSees, Guarded, Rejections, SpawnedLate, RegensAreSpaced
<1> QED
  BY <1>2, <1>3, <1>4, <1>5, <1>6 DEF CrystalInv

\* Time makes distances longer and caches older.
LEMMA TickKeeps == CrystalInv /\ CrystalTick => CrystalInv'
<1> SUFFICES ASSUME CrystalInv, CrystalTick PROVE CrystalInv'
  OBVIOUS
<1> USE DEF CrystalInv
<1>1. /\ UNCHANGED <<crystals, anchored, cache, late, check, checked, marker, spawned, inFlight, refresh, regens, slips>>
      /\ time' = time + 1 /\ time \in Nat
  BY DEF CrystalTick, checkVars, CrystalTypes
<1>f. Fields
  BY FieldsHaveTypes
<1>2. CrystalTypes'
  BY <1>1 DEF CrystalTypes
<1>3. Past'
  BY <1>1, <1>f, SMTT(20) DEF Past, CrystalTypes, Fields
<1>4. Flight' /\ Knowledge' /\ LateIsBehind'
  BY <1>1 DEF Flight, Knowledge, LateIsBehind, Over, LastCrystal
<1>5. NewestIsNew' /\ CheckSees' /\ Guarded'
  BY <1>1 DEF NewestIsNew, CheckSees, Guarded, Fresh, Sees, LastCrystal
<1>9. ASSUME NEW n \in Nat, time - n >= Cooldown
      PROVE  time' - n >= Cooldown
  BY <1>1, <1>9
<1>6. Rejections'
  BY <1>1, <1>9, <1>f DEF Rejections, Fields
<1>7. SpawnedLate'
  BY <1>1, <1>9, <1>f DEF SpawnedLate, Fields
<1>8. RegensAreSpaced'
  BY <1>1 DEF RegensAreSpaced
<1> QED
  BY <1>2, <1>3, <1>4, <1>5, <1>6, <1>7, <1>8

\* A read that fills the cache sees whatever every regen wrote that is over, or all but the last.
LEMMA ReadersKeep == CrystalInv /\ (OthersRead \/ LateRead) => CrystalInv'
<1> SUFFICES ASSUME CrystalInv, OthersRead \/ LateRead PROVE CrystalInv'
  OBVIOUS
<1> USE DEF CrystalInv
<1>f. Fields
  BY FieldsHaveTypes
<1>1. /\ UNCHANGED <<time, crystals, anchored, check, checked, marker, spawned, inFlight, refresh, regens, slips>>
      /\ late' \in {late, FALSE} /\ late \in BOOLEAN
  BY DEF OthersRead, LateRead, checkVars, CrystalTypes
<1>2. \/ cache' = [has |-> TRUE, sees |-> LastCrystal, at |-> time]
      \/ late = TRUE /\ cache' = [has |-> TRUE, sees |-> LastCrystal - 1, at |-> time]
  <2>1. CASE OthersRead
    BY <2>1 DEF OthersRead, Store
  <2>2. CASE LateRead
    BY <2>2 DEF LateRead, Store, CrystalTypes
  <2> QED
    BY <2>1, <2>2
<1>12. PICK n : n = cache'.sees
  OBVIOUS
<1>13. n = LastCrystal \/ (late = TRUE /\ n = LastCrystal - 1)
  BY <1>2, <1>12
<1>14. cache' = [has |-> TRUE, sees |-> n, at |-> time]
  BY <1>2, <1>12
<1>3. late = TRUE => LastCrystal # 0
  BY DEF LateIsBehind
<1>4. n \in Nat /\ n <= LastCrystal /\ LastCrystal \in Nat
  <2>1. LastCrystal \in Nat
    BY <1>f DEF Fields, LastCrystal
  <2> QED
    BY <1>13, <1>3, <2>1
<1>5. cache' \in [has : BOOLEAN, sees : Nat, at : Nat] /\ cache'.sees = n /\ cache'.at = time
  BY <1>14, <1>4 DEF CrystalTypes
<1>6. CrystalTypes'
  BY <1>1, <1>5 DEF CrystalTypes
<1>7. Past'
  BY <1>1, <1>5, <1>f DEF Past, Fields, CrystalTypes
<1>11. Flight' /\ LateIsBehind'
  BY <1>1 DEF Flight, LateIsBehind, LastCrystal
<1>8. Knowledge'
  BY <1>1, <1>4, <1>5 DEF Knowledge, Over, LastCrystal
<1>9. NewestIsNew' /\ CheckSees' /\ Rejections' /\ SpawnedLate' /\ RegensAreSpaced'
  BY <1>1 DEF NewestIsNew, CheckSees, Rejections, SpawnedLate, RegensAreSpaced, Sees, LastCrystal
<1>10. Guarded'
  <2> SUFFICES ASSUME NEW i \in DOMAIN regens, regens[i].how = "wrote"
               PROVE  marker >= regens[i].wrote \/ Fresh(i)'
    BY <1>1 DEF Guarded
  <2>1. Sees(LastCrystal, regens[i].wrote)
    BY DEF NewestIsNew, Flight
  <2>2. CASE Fresh(i)
    <3>1. Sees(n, regens[i].wrote)
      BY <1>13, <2>1, <2>2 DEF Fresh
    <3> QED
      BY <1>1, <1>5, <2>2, <3>1 DEF Fresh, Sees, LastCrystal
  <2> QED
    BY <2>2 DEF Guarded
<1> QED
  BY <1>6, <1>7, <1>8, <1>9, <1>10, <1>11

\* A step of the check that returns, whatever it read, decided and put into the marker.
RegensKept ==
  /\ regens' \in Seq(ARegen) /\ Len(regens') = Len(regens)
  /\ \A i \in DOMAIN regens :
       /\ regens'[i].start = regens[i].start /\ regens'[i].wrote = regens[i].wrote
       /\ regens'[i].end = regens[i].end /\ regens'[i].knew = regens[i].knew
       /\ regens'[i].how = regens[i].how \/ (regens[i].how = "rejected" /\ regens'[i].how = "forgotten")

CacheFits == cache' \in [has : BOOLEAN, sees : Nat, at : Nat] /\ cache'.sees <= LastCrystal /\ cache'.at <= time

OldEnough(i) ==
  /\ regens[i].how = "wrote" => time - regens[i].wrote >= Cooldown
  /\ regens[i].how = "rejected" => time - regens[i].end >= Cooldown

\* A check that returns, with or without a task spawned and the marker set.
LEMMA ReturnKeeps ==
  ASSUME CrystalInv, CheckReturns, CacheFits, RegensKept, UNCHANGED <<time, crystals, inFlight, refresh>>,
         marker' \in Nat,
         \A i \in DOMAIN regens : regens'[i].how = "rejected" => marker' >= regens[i].end,
         spawned' \in [on : BOOLEAN, knew : Nat], spawned'.knew <= Over,
         spawned'.on = TRUE => \A i \in DOMAIN regens : i <= spawned'.knew => OldEnough(i)
  PROVE  CrystalInv'
<1> USE DEF CrystalInv
<1>f. Fields
  BY FieldsHaveTypes
<1>d. DOMAIN regens' = DOMAIN regens
  BY <1>f DEF RegensKept, Fields
<1>1. CrystalTypes'
  <2>1. check' \in TheCheck /\ checked' \in Nat /\ late' \in BOOLEAN
    BY DEF CheckReturns, NotChecking, TheCheck, CrystalTypes
  <2> QED
    BY <2>1 DEF CrystalTypes, RegensKept, CacheFits
<1>2. Past'
  <2>1. checked' <= time' /\ check'.pc = "rest"
    BY DEF CheckReturns, NotChecking, CrystalTypes
  <2>2. \A i \in DOMAIN regens' : regens'[i].wrote <= time' /\ regens'[i].end <= time'
    BY <1>d DEF Past, RegensKept
  <2> QED
    BY <2>1, <2>2 DEF Past, CacheFits
<1>3. Flight' /\ LateIsBehind'
  <2>1. LateIsBehind'
    BY DEF LateIsBehind, CheckReturns
  <2>2. ASSUME NEW i \in DOMAIN regens
        PROVE  /\ (regens'[i].end = 0) = (inFlight' /\ i = Len(regens'))
               /\ regens'[i].how = "wrote" => regens'[i].wrote # 0 /\ regens'[i].end # 0
               /\ regens'[i].how = "rejected" => regens'[i].end # 0
    <3>1. (regens[i].end = 0) = (inFlight /\ i = Len(regens))
      BY DEF Flight
    <3>2. (regens'[i].end = 0) = (inFlight' /\ i = Len(regens'))
      BY <3>1 DEF RegensKept
    <3> QED
      BY <3>2 DEF Flight, RegensKept
  <2>3. refresh' \in {"anchor", "seed"} => regens'[Len(regens')].wrote # 0
    BY <1>f DEF Flight, RegensKept, Fields
  <2>4. inFlight' = (refresh' # "no") /\ (inFlight' => Len(regens') # 0)
    BY DEF Flight, RegensKept
  <2> QED
    BY <1>d, <2>1, <2>2, <2>3, <2>4 DEF Flight
<1>4. Knowledge'
  <2>1. Over' = Over /\ LastCrystal' = LastCrystal /\ Over \in Nat
    BY <1>f DEF Over, LastCrystal, RegensKept, Fields, Flight
  <2>2. \A j \in DOMAIN regens : regens'[j].knew < j
    BY DEF Knowledge, RegensKept
  <2> QED
    BY <1>d, <2>1, <2>2, <1>f DEF Knowledge, CheckReturns, NotChecking, CacheFits, Fields, LastCrystal
<1>5. NewestIsNew'
  BY <1>d DEF NewestIsNew, RegensKept, Sees, LastCrystal
<1>6. CheckSees' /\ Guarded'
  BY <1>d DEF CheckSees, Guarded, Fresh, CheckReturns, NotChecking, CacheFits
<1>7. Rejections'
  BY <1>d DEF Rejections, CheckReturns, NotChecking, RegensKept
<1>8. SpawnedLate'
  BY <1>d DEF SpawnedLate, OldEnough, RegensKept
<1>9. RegensAreSpaced'
  BY <1>d DEF RegensAreSpaced, RegensKept
<1> QED
  BY <1>1, <1>2, <1>3, <1>4, <1>5, <1>6, <1>7, <1>8, <1>9

\* A step of the check that goes on: what it asks the lake for is the newest crystal.
LEMMA ProceedKeeps ==
  ASSUME CrystalInv, UNCHANGED <<time, crystals, inFlight, refresh, late, checked, marker, spawned, regens>>,
         check.pc # "rest", check' \in TheCheck, check'.knew = check.knew, check'.sees <= LastCrystal,
         check'.pc \in {"measure", "heal", "cooldown"},
         check'.pc = "cooldown" => check'.sees = LastCrystal /\ ~Recent,
         \/ cache' = cache
         \/ check.pc = "sample" /\ cache' = [has |-> TRUE, sees |-> check.sees, at |-> time]
  PROVE  CrystalInv'
<1> USE DEF CrystalInv
<1>f. Fields
  BY FieldsHaveTypes
<1>1. CacheFits
  <2>1. CASE cache' = cache
    BY <2>1 DEF CacheFits, CrystalTypes, Past, Knowledge
  <2>2. CASE cache' = [has |-> TRUE, sees |-> check.sees, at |-> time]
    <3>1. check.sees \in Nat /\ time \in Nat /\ check.sees <= LastCrystal
      BY <1>f DEF Fields, CrystalTypes, Knowledge
    <3>2. cache' \in [has : BOOLEAN, sees : Nat, at : Nat] /\ cache'.sees = check.sees /\ cache'.at = time
      BY <2>2, <3>1
    <3> QED
      BY <3>1, <3>2 DEF CacheFits
  <2> QED
    BY <2>1, <2>2
<1>2. CrystalTypes'
  BY <1>1 DEF CrystalTypes, CacheFits
<1>3. Past'
  BY <1>1 DEF Past, CacheFits
<1>4. Flight' /\ LateIsBehind' /\ NewestIsNew' /\ SpawnedLate' /\ RegensAreSpaced'
  BY DEF Flight, LateIsBehind, NewestIsNew, SpawnedLate, RegensAreSpaced, Sees, LastCrystal
<1>5. Knowledge'
  BY <1>1 DEF Knowledge, CacheFits, Over, LastCrystal
<1>6. CheckSees'
  BY <1>f DEF CheckSees, NewestIsNew, Flight, Sees, LastCrystal
<1>7. Rejections'
  <2> SUFFICES ASSUME NEW i \in DOMAIN regens, regens[i].how = "rejected"
               PROVE  marker >= regens[i].end /\ (check'.pc = "cooldown" => time - regens[i].end >= Cooldown)
    BY DEF Rejections
  <2>1. marker >= regens[i].end /\ regens[i].end \in Nat /\ regens[i].end # 0 /\ marker \in Nat /\ time \in Nat
    BY <1>f DEF Rejections, Fields, Flight, CrystalTypes
  <2> QED
    BY <2>1 DEF Recent
<1>8. Guarded'
  <2> SUFFICES ASSUME NEW i \in DOMAIN regens, regens[i].how = "wrote", Fresh(i)
               PROVE  Fresh(i)'
    BY DEF Guarded
  <2>1. CASE cache' = cache
    BY <2>1 DEF Fresh, Sees, LastCrystal
  <2>2. CASE check.pc = "sample" /\ cache' = [has |-> TRUE, sees |-> check.sees, at |-> time]
    <3>1. cache'.sees = check.sees
      BY <2>2
    <3>2. i <= check.knew => Sees(check.sees, regens[i].wrote)
      BY <2>2 DEF CheckSees
    <3>3. check.knew \in Nat /\ i \in Nat
      BY <1>f DEF Fields
    <3>4. Sees(cache'.sees, regens[i].wrote) \/ (check'.pc # "rest" /\ check'.knew < i)
      BY <3>1, <3>2, <3>3
    <3> QED
      BY <3>4 DEF Fresh, Sees, LastCrystal
  <2> QED
    BY <2>1, <2>2
<1> QED
  BY <1>2, <1>3, <1>4, <1>5, <1>6, <1>7, <1>8

\* A check begins: all that is over by now is what it knows.
LEMMA CheckStartKeeps == CrystalInv /\ CheckStarts => CrystalInv'
<1> SUFFICES ASSUME CrystalInv, CheckStarts PROVE CrystalInv'
  OBVIOUS
<1> USE DEF CrystalInv
<1>f. Fields
  BY FieldsHaveTypes
<1>o. Over \in Nat
  BY <1>f DEF Over, Fields, Flight
<1>1. /\ UNCHANGED <<time, crystals, inFlight, refresh, late, checked, marker, spawned, regens, cache>>
      /\ check.pc = "rest" /\ checked < time
  BY DEF CheckStarts
<1>2. /\ check' \in TheCheck /\ check'.knew = Over /\ check'.pc \in {"sample", "measure", "heal"}
      /\ check'.sees <= LastCrystal /\ (check'.pc = "sample" => check'.sees = LastCrystal)
  <2>1. CASE Cached
    <3>1. check' = [pc |-> IF anchored THEN "measure" ELSE "heal", knew |-> Over, sees |-> cache.sees]
      BY <2>1 DEF CheckStarts, Measure, NotChecking
    <3> QED
      BY <3>1, <1>o, <1>f DEF TheCheck, Fields, Knowledge
  <2>2. CASE ~Cached
    <3>1. check' = [pc |-> "sample", sees |-> LastCrystal, knew |-> Over]
      BY <2>2 DEF CheckStarts
    <3> QED
      BY <3>1, <1>o, <1>f DEF TheCheck, Fields, LastCrystal
  <2> QED
    BY <2>1, <2>2
<1>3. CrystalTypes'
  BY <1>1, <1>2 DEF CrystalTypes
<1>4. Past' /\ Flight' /\ LateIsBehind' /\ NewestIsNew' /\ SpawnedLate' /\ RegensAreSpaced'
  BY <1>1 DEF Past, Flight, LateIsBehind, NewestIsNew, SpawnedLate, RegensAreSpaced, Sees, LastCrystal
<1>5. Knowledge'
  BY <1>1, <1>2, <1>o DEF Knowledge, Over, LastCrystal
<1>6. CheckSees' /\ Rejections'
  BY <1>1, <1>2 DEF CheckSees, Rejections, NewestIsNew, Flight, Sees, LastCrystal
<1>7. Guarded'
  BY <1>1 DEF Guarded, Fresh, Sees, LastCrystal
<1> QED
  BY <1>3, <1>4, <1>5, <1>6, <1>7

\* The marker moves to a crystal's time: rejections that are later no longer count.
LEMMA MarkerMoves ==
  ASSUME CrystalInv, NEW at \in Nat, SetMarker(at)
  PROVE  /\ RegensKept /\ marker' \in Nat
         /\ \A i \in DOMAIN regens : regens'[i].how = "rejected" => marker' >= regens[i].end
<1>f. Fields /\ CrystalTypes
  BY FieldsHaveTypes DEF CrystalInv
<1>1. /\ DOMAIN regens' = DOMAIN regens /\ marker' = at
      /\ \A i \in DOMAIN regens : regens'[i] =
           [regens[i] EXCEPT !.how = IF @ = "rejected" /\ regens[i].end > at THEN "forgotten" ELSE @]
  BY DEF SetMarker
<1>2. ASSUME NEW i \in DOMAIN regens
      PROVE  /\ regens'[i] \in ARegen
             /\ regens'[i].start = regens[i].start /\ regens'[i].wrote = regens[i].wrote
             /\ regens'[i].end = regens[i].end /\ regens'[i].knew = regens[i].knew
             /\ regens'[i].how = regens[i].how \/ (regens[i].how = "rejected" /\ regens'[i].how = "forgotten")
             /\ regens'[i].how = "rejected" => at >= regens[i].end
  <2>1. regens[i] \in ARegen /\ regens[i].end \in Nat
    BY <1>f DEF Fields
  <2>2. PICK how : how = IF regens[i].how = "rejected" /\ regens[i].end > at THEN "forgotten" ELSE regens[i].how
    OBVIOUS
  <2>3. regens'[i] = [regens[i] EXCEPT !.how = how]
    BY <1>1, <2>2
  <2>4. how \in {"running", "wrote", "rejected", "raised", "forgotten"} /\ (how = "rejected" => at >= regens[i].end)
    BY <2>1, <2>2 DEF ARegen
  <2>5. how = regens[i].how \/ (regens[i].how = "rejected" /\ how = "forgotten")
    BY <2>2
  <2> QED
    BY <2>1, <2>3, <2>4, <2>5 DEF ARegen
<1>3. regens' \in Seq(ARegen) /\ Len(regens') = Len(regens)
  <2>1. Len(regens) \in Nat /\ DOMAIN regens = 1..Len(regens)
    BY <1>f DEF Fields
  <2>2. regens' = [i \in 1..Len(regens) |-> regens'[i]]
    BY <1>1, <2>1 DEF SetMarker
  <2>3. regens' \in [1..Len(regens) -> ARegen]
    BY <1>1, <1>2, <2>1, <2>2
  <2> QED
    BY <2>1, <2>3
<1> QED
  BY <1>1, <1>2, <1>3 DEF RegensKept

\* A decision: a crystal known to the check is recent, or all that it knows is old.
LEMMA DecisionKeeps ==
  ASSUME CrystalInv, CacheFits, UNCHANGED <<time, crystals, inFlight, refresh>>, NEW n \in Nat, n <= LastCrystal,
         DecideRegen(n),
         \A i \in DOMAIN regens : i <= check.knew =>
           /\ regens[i].how = "wrote" => time - regens[i].wrote >= Cooldown \/ Sees(n, regens[i].wrote)
           /\ regens[i].how = "rejected" => time - regens[i].end >= Cooldown
  PROVE  CrystalInv'
<1>f. Fields /\ CrystalTypes /\ Knowledge
  BY FieldsHaveTypes DEF CrystalInv
<1>1. CASE n # 0 /\ time - crystals[n] < Cooldown
  <2>1. crystals[n] \in Nat
    BY <1>1, <1>f DEF Fields, LastCrystal
  <2>2. SetMarker(crystals[n]) /\ UNCHANGED spawned /\ CheckReturns
    BY <1>1 DEF DecideRegen
  <2>3. /\ RegensKept /\ marker' \in Nat
        /\ \A i \in DOMAIN regens : regens'[i].how = "rejected" => marker' >= regens[i].end
    BY <2>1, <2>2, MarkerMoves
  <2>4. /\ spawned' \in [on : BOOLEAN, knew : Nat] /\ spawned'.knew <= Over
        /\ spawned'.on = TRUE => \A i \in DOMAIN regens : i <= spawned'.knew => OldEnough(i)
    BY <2>2, <1>f DEF CrystalInv, CrystalTypes, Knowledge, SpawnedLate, OldEnough
  <2> QED
    BY <2>2, <2>3, <2>4, ReturnKeeps
<1>2. CASE ~(n # 0 /\ time - crystals[n] < Cooldown)
  <2>1. spawned' = [on |-> TRUE, knew |-> check.knew] /\ UNCHANGED <<marker, regens>> /\ CheckReturns
    BY <1>2 DEF DecideRegen
  <2>2. RegensKept /\ marker' \in Nat
    BY <2>1, <1>f DEF RegensKept, CrystalTypes
  <2>3. \A i \in DOMAIN regens : regens'[i].how = "rejected" => marker' >= regens[i].end
    BY <2>1 DEF CrystalInv, Rejections
  <2>4. spawned' \in [on : BOOLEAN, knew : Nat] /\ spawned'.knew = check.knew
    BY <2>1, <1>f DEF Fields
  <2>5. ASSUME NEW i \in DOMAIN regens, i <= check.knew
        PROVE  OldEnough(i)
    <3>1. regens[i].wrote \in Nat /\ time \in Nat
      BY <1>f DEF Fields, CrystalTypes
    <3>2. ASSUME Sees(n, regens[i].wrote) PROVE time - regens[i].wrote >= Cooldown
      <4>1. n # 0 /\ crystals[n] \in Nat /\ crystals[n] >= regens[i].wrote
        BY <3>2, <1>f DEF Sees, Fields
      <4> QED
        BY <4>1, <1>2, <3>1
    <3> QED
      BY <2>5, <3>2 DEF OldEnough
  <2>6. spawned'.knew <= Over
    BY <2>4, <1>f DEF Knowledge
  <2> QED
    BY <2>1, <2>2, <2>3, <2>4, <2>5, <2>6, ReturnKeeps
<1> QED
  BY <1>1, <1>2

\* What a check knows of that was rejected is old once the marker is not recent.
LEMMA NotRecentIsOld ==
  ASSUME CrystalInv, ~Recent, NEW i \in DOMAIN regens
  PROVE  /\ regens[i].how = "rejected" => time - regens[i].end >= Cooldown
         /\ regens[i].how = "wrote" /\ marker >= regens[i].wrote => time - regens[i].wrote >= Cooldown
<1>1. /\ time \in Nat /\ marker \in Nat /\ regens[i].end \in Nat /\ regens[i].wrote \in Nat
  BY FieldsHaveTypes DEF CrystalInv, CrystalTypes, Fields
<1>2. regens[i].how = "rejected" => marker >= regens[i].end /\ regens[i].end # 0
  BY DEF CrystalInv, Rejections, Flight
<1>3. regens[i].how = "wrote" => regens[i].wrote # 0
  BY DEF CrystalInv, Flight
<1> QED
  BY <1>1, <1>2, <1>3 DEF Recent

\* A check that returns and leaves marker and task alone.
LEMMA PlainReturnKeeps ==
  ASSUME CrystalInv, CacheFits, CheckReturns, UNCHANGED <<time, crystals, inFlight, refresh, marker, spawned, regens>>
  PROVE  CrystalInv'
<1>f. Fields /\ CrystalTypes
  BY FieldsHaveTypes DEF CrystalInv
<1>1. RegensKept /\ marker' \in Nat
  BY <1>f DEF RegensKept, CrystalTypes
<1>2. \A i \in DOMAIN regens : regens'[i].how = "rejected" => marker' >= regens[i].end
  BY DEF CrystalInv, Rejections
<1>3. /\ spawned' \in [on : BOOLEAN, knew : Nat] /\ spawned'.knew <= Over
      /\ spawned'.on = TRUE => \A i \in DOMAIN regens : i <= spawned'.knew => OldEnough(i)
  BY <1>f DEF CrystalInv, CrystalTypes, Knowledge, SpawnedLate, OldEnough
<1> QED
  BY <1>1, <1>2, <1>3, ReturnKeeps

\* Two ways in which the cache goes on being no newer than the lake.
LEMMA CacheStays == CrystalInv /\ cache' = cache => CacheFits
BY DEF CrystalInv, CacheFits, CrystalTypes, Past, Knowledge

LEMMA CacheFills == CrystalInv /\ Store(check.sees) => CacheFits
<1> SUFFICES ASSUME CrystalInv, Store(check.sees) PROVE CacheFits
  OBVIOUS
<1>1. check.sees \in Nat /\ time \in Nat /\ check.sees <= LastCrystal
  BY FieldsHaveTypes DEF CrystalInv, Fields, CrystalTypes, Knowledge
<1>2. cache' \in [has : BOOLEAN, sees : Nat, at : Nat] /\ cache'.sees = check.sees /\ cache'.at = time
  BY <1>1 DEF Store
<1> QED
  BY <1>1, <1>2 DEF CacheFits

\* The marker is old, and the lake is asked for the newest crystal.
LEMMA AskKeeps ==
  ASSUME CrystalInv, AskLake, ~Recent, check.pc # "rest", UNCHANGED <<time, crystals, inFlight, refresh>>,
         \/ cache' = cache
         \/ check.pc = "sample" /\ cache' = [has |-> TRUE, sees |-> check.sees, at |-> time]
  PROVE  CrystalInv'
<1>f. Fields /\ CrystalTypes
  BY FieldsHaveTypes DEF CrystalInv
<1>1. LastCrystal \in Nat /\ check \in TheCheck /\ UNCHANGED <<late, checked, marker, spawned, regens>>
  BY <1>f DEF Fields, LastCrystal, CrystalTypes, AskLake
<1>2. check' = [check EXCEPT !.pc = "cooldown", !.sees = LastCrystal]
  BY DEF AskLake
<1>3. check' \in TheCheck /\ check'.knew = check.knew /\ check'.sees = LastCrystal /\ check'.pc = "cooldown"
  BY <1>1, <1>2 DEF TheCheck
<1> QED
  BY <1>1, <1>3, ProceedKeeps

\* The answer of sample()'s read is cached.
LEMMA SampleKeeps == CrystalInv /\ SampleRead => CrystalInv'
<1> SUFFICES ASSUME CrystalInv, SampleRead PROVE CrystalInv'
  OBVIOUS
<1>f. Fields /\ CrystalTypes /\ Knowledge
  BY FieldsHaveTypes DEF CrystalInv
<1>1. check.pc = "sample" /\ Store(check.sees) /\ UNCHANGED <<time, crystals, inFlight, refresh>>
  BY DEF SampleRead
<1>2. CacheFits /\ cache' = [has |-> TRUE, sees |-> check.sees, at |-> time]
  BY <1>1, CacheFills DEF Store
<1>3. CASE check.sees # 0
  <2>1. /\ check' = Measure(check.knew, check.sees)
        /\ UNCHANGED <<late, checked, marker, spawned, regens>>
    BY <1>3 DEF SampleRead
  <2>2. check' = [pc |-> IF anchored THEN "measure" ELSE "heal", knew |-> check.knew, sees |-> check.sees]
    BY <2>1 DEF Measure, NotChecking
  <2>3. check' \in TheCheck /\ check'.knew = check.knew /\ check'.sees <= LastCrystal /\ check'.pc \in {"measure", "heal"}
    BY <2>2, <1>f DEF TheCheck, Fields, Knowledge
  <2> QED
    BY <1>1, <1>2, <2>1, <2>3, ProceedKeeps
<1>4. CASE check.sees = 0 /\ Recent
  <2>1. CheckReturns /\ UNCHANGED <<marker, spawned, regens>>
    BY <1>4 DEF SampleRead
  <2> QED
    BY <1>1, <1>2, <2>1, PlainReturnKeeps
<1>5. CASE check.sees = 0 /\ ~Recent
  <2>1. AskLake
    BY <1>5 DEF SampleRead
  <2> QED
    BY <1>1, <1>2, <1>5, <2>1, AskKeeps
<1> QED
  BY <1>3, <1>4, <1>5

\* The drift in the red leads to the cool-down.
LEMMA MeasuredKeeps == ASSUME CrystalInv, NEW red \in BOOLEAN, Measured(red) PROVE CrystalInv'
<1>f. Fields /\ CrystalTypes /\ Knowledge /\ Past
  BY FieldsHaveTypes DEF CrystalInv
<1>1. /\ check.pc = "measure" /\ UNCHANGED <<time, crystals, inFlight, refresh, cache>> /\ CacheFits
      /\ AskCooldown \/ (CheckReturns /\ UNCHANGED <<marker, spawned, regens>>)
  BY CacheStays DEF Measured
<1>2. CASE CheckReturns /\ UNCHANGED <<marker, spawned, regens>>
  BY <1>1, <1>2, PlainReturnKeeps
<1>3. CASE ~Recent /\ Cached /\ DecideRegen(cache.sees)
  <2>1. cache.has = TRUE /\ time - cache.at < CacheLife /\ cache.at \in Nat /\ time \in Nat /\ checked \in Nat
    BY <1>3, <1>f DEF Cached, Fields, CrystalTypes
  <2>2. cache.at > checked
    BY <2>1, <1>1, <1>f DEF Past
  <2>3. ASSUME NEW i \in DOMAIN regens, i <= check.knew
        PROVE  /\ regens[i].how = "wrote" => time - regens[i].wrote >= Cooldown \/ Sees(cache.sees, regens[i].wrote)
               /\ regens[i].how = "rejected" => time - regens[i].end >= Cooldown
    <3>1. CASE Fresh(i)
      <4>1. i \in Nat /\ check.knew \in Nat
        BY <1>f DEF Fields
      <4> QED
        BY <2>1, <2>2, <2>3, <3>1, <4>1, <1>3, NotRecentIsOld DEF Fresh
    <3>2. CASE ~Fresh(i)
      BY <3>2, <1>3, NotRecentIsOld DEF CrystalInv, Guarded
    <3> QED
      BY <3>1, <3>2
  <2>4. cache.sees \in Nat /\ cache.sees <= LastCrystal
    BY <1>f DEF Fields, Knowledge
  <2> QED
    BY <1>1, <1>3, <2>3, <2>4, DecisionKeeps
<1>4. CASE ~Recent /\ AskLake
  BY <1>1, <1>4, AskKeeps
<1> QED
  BY <1>1, <1>2, <1>3, <1>4 DEF AskCooldown

\* What the lake has answered decides.
LEMMA CooldownReadKeeps == CrystalInv /\ CooldownRead => CrystalInv'
<1> SUFFICES ASSUME CrystalInv, CooldownRead PROVE CrystalInv'
  OBVIOUS
<1>f. Fields /\ Knowledge
  BY FieldsHaveTypes DEF CrystalInv
<1>1. /\ check.pc = "cooldown" /\ Store(check.sees) /\ DecideRegen(check.sees)
      /\ UNCHANGED <<time, crystals, inFlight, refresh>> /\ CacheFits
  BY CacheFills DEF CooldownRead
<1>2. check.sees \in Nat /\ check.sees <= LastCrystal
  BY <1>f DEF Fields, Knowledge
<1>3. ASSUME NEW i \in DOMAIN regens, i <= check.knew
      PROVE  /\ regens[i].how = "wrote" => Sees(check.sees, regens[i].wrote)
             /\ regens[i].how = "rejected" => time - regens[i].end >= Cooldown
  BY <1>1, <1>3 DEF CrystalInv, CheckSees, Rejections
<1> QED
  BY <1>1, <1>2, <1>3, DecisionKeeps

\* A check that heals the anchor or fails spawns nothing.
LEMMA HealAndFailKeep == CrystalInv /\ (Heal \/ CheckFails) => CrystalInv'
<1> SUFFICES ASSUME CrystalInv, Heal \/ CheckFails PROVE CrystalInv'
  OBVIOUS
<1>1. CheckReturns /\ UNCHANGED <<time, crystals, cache, inFlight, refresh, marker, spawned, regens>>
  BY DEF Heal, CheckFails
<1> QED
  BY <1>1, CacheStays, PlainReturnKeeps

-----------------------------------------------------------------------------
\* The crystals grow, if they change.
Grows == crystals' = crystals \/ crystals' = Append(crystals, time)
SeesThen(n, at) == n \in DOMAIN crystals' /\ crystals'[n] >= at

\* A lake that grows keeps what was in it.
LEMMA WhatWasSeenIs ==
  ASSUME CrystalInv, Grows
  PROVE  /\ crystals' \in Seq(Nat) /\ LastCrystal' >= LastCrystal /\ LastCrystal \in Nat /\ LastCrystal' \in Nat
         /\ \A n \in DOMAIN crystals' : crystals'[n] <= time
         /\ \A n, at : Sees(n, at) => SeesThen(n, at)
         /\ \A i \in DOMAIN regens : regens[i].wrote # 0 => SeesThen(LastCrystal', regens[i].wrote)
<1>f. Fields /\ CrystalTypes /\ Past /\ NewestIsNew
  BY FieldsHaveTypes DEF CrystalInv
<1>1. CASE crystals' = crystals
  <2>1. LastCrystal' = LastCrystal /\ LastCrystal \in Nat /\ crystals' \in Seq(Nat)
    BY <1>1, <1>f DEF LastCrystal, Fields, CrystalTypes
  <2>2. \A n, at : Sees(n, at) => SeesThen(n, at)
    BY <1>1 DEF Sees, SeesThen
  <2> QED
    BY <1>1, <2>1, <2>2, <1>f DEF NewestIsNew, Past
<1>2. CASE crystals' = Append(crystals, time)
  <2>0. time \in Nat /\ crystals \in Seq(Nat)
    BY <1>f DEF CrystalTypes
  <2>1. /\ crystals' \in Seq(Nat) /\ LastCrystal' = LastCrystal + 1 /\ LastCrystal \in Nat
        /\ DOMAIN crystals' = 1..(LastCrystal + 1) /\ DOMAIN crystals = 1..LastCrystal
    BY <1>2, <2>0 DEF LastCrystal
  <2>2. crystals'[LastCrystal + 1] = time /\ \A n \in DOMAIN crystals : crystals'[n] = crystals[n]
    BY <1>2, <2>0 DEF LastCrystal
  <2>3. \A n \in DOMAIN crystals' : crystals'[n] <= time
    BY <2>0, <2>1, <2>2, <1>f, SMTT(20) DEF Past
  <2>4. \A n, at : Sees(n, at) => SeesThen(n, at)
    BY <2>1, <2>2 DEF Sees, SeesThen
  <2>5. \A i \in DOMAIN regens : SeesThen(LastCrystal', regens[i].wrote)
    BY <2>1, <2>2, <1>f DEF SeesThen, Past
  <2> QED
    BY <2>1, <2>3, <2>4, <2>5
<1> QED
  BY <1>1, <1>2 DEF Grows

\* A step of the refresh that changes its phase, or does nothing.
LEMMA PhaseKeeps ==
  ASSUME CrystalInv,
         UNCHANGED <<time, crystals, cache, late, check, checked, marker, inFlight, regens>>,
         spawned' \in {spawned, NoRegen},
         \/ refresh' = refresh
         \/ refresh = "generate" /\ refresh' = "write"
         \/ refresh = "anchor" /\ refresh' = "seed"
  PROVE  CrystalInv'
<1> USE DEF CrystalInv
<1>1. spawned'.knew \in {spawned.knew, 0} /\ spawned' \in [on : BOOLEAN, knew : Nat]
      /\ (spawned'.on = TRUE => spawned' = spawned)
  <2>1. CASE spawned' = spawned
    BY <2>1 DEF CrystalTypes
  <2>2. CASE spawned' = NoRegen
    BY <2>2 DEF NoRegen
  <2> QED
    BY <2>1, <2>2
<1>2. CrystalTypes'
  BY <1>1 DEF CrystalTypes
<1>3. Past' /\ LateIsBehind' /\ NewestIsNew' /\ CheckSees' /\ Guarded' /\ Rejections' /\ RegensAreSpaced'
  BY DEF Past, LateIsBehind, NewestIsNew, CheckSees, Guarded, Rejections, RegensAreSpaced, Fresh, Sees, LastCrystal
<1>4. Flight'
  BY DEF Flight
<1>5. Over' = Over /\ Over \in Nat
  BY FieldsHaveTypes DEF Over, Fields, Flight
<1>6. Knowledge'
  BY <1>1, <1>5 DEF Knowledge, LastCrystal
<1>7. SpawnedLate'
  BY <1>1 DEF SpawnedLate
<1> QED
  BY <1>2, <1>3, <1>4, <1>6, <1>7

\* What happens to the last regen, the one under way.
LastIs(wrote, end, how) ==
  /\ regens' \in Seq(ARegen) /\ Len(regens') = Len(regens)
  /\ \A i \in DOMAIN regens : i # Len(regens) => regens'[i] = regens[i]
  /\ regens'[Len(regens)].wrote = wrote /\ regens'[Len(regens)].end = end /\ regens'[Len(regens)].how = how
  /\ regens'[Len(regens)].start = regens[Len(regens)].start /\ regens'[Len(regens)].knew = regens[Len(regens)].knew

\* The regen under way.
LEMMA TheLastIs ==
  ASSUME CrystalInv, inFlight,
         NEW wrote \in Nat, NEW end \in Nat, NEW how \in {"running", "wrote", "rejected", "raised", "forgotten"},
         NEW last, last = [regens[Len(regens)] EXCEPT !.wrote = wrote, !.end = end, !.how = how],
         regens' = [regens EXCEPT ![Len(regens)] = last]
  PROVE  LastIs(wrote, end, how)
<1>1. /\ regens \in Seq(ARegen) /\ Len(regens) \in DOMAIN regens /\ regens[Len(regens)] \in ARegen
      /\ DOMAIN regens = 1..Len(regens)
  BY FieldsHaveTypes DEF CrystalInv, CrystalTypes, Fields, Flight
<1>2. /\ last \in ARegen /\ last.wrote = wrote /\ last.end = end /\ last.how = how
      /\ last.start = regens[Len(regens)].start /\ last.knew = regens[Len(regens)].knew
  BY <1>1 DEF ARegen
<1>3. regens' \in Seq(ARegen) /\ Len(regens') = Len(regens) /\ regens'[Len(regens)] = last
      /\ \A i \in DOMAIN regens : i # Len(regens) => regens'[i] = regens[i]
  BY <1>1, <1>2
<1> QED
  BY <1>2, <1>3 DEF LastIs

\* A refresh that ends, with its crystal written or not.
LEMMA RefreshEndKeeps ==
  ASSUME CrystalInv, inFlight, UNCHANGED <<time, late, check, checked, spawned>>, Grows,
         NEW how \in {"wrote", "rejected", "raised"}, RefreshEnds(how),
         how = "wrote" => regens[Len(regens)].wrote # 0,
         crystals' = crystals \/ how = "raised",
         cache' = cache \/ (how = "wrote" /\ cache' = [has |-> TRUE, sees |-> LastCrystal, at |-> time])
  PROVE  CrystalInv'
<1> USE DEF CrystalInv
<1>f. Fields
  BY FieldsHaveTypes
<1> DEFINE k == Len(regens)
<1>k. k \in DOMAIN regens /\ regens[k] \in ARegen /\ regens[k].wrote \in Nat /\ time \in Nat /\ time # 0
      /\ Over = k - 1 /\ k \in Nat /\ DOMAIN regens = 1..k
  <2>1. inFlight = TRUE
    BY DEF CrystalTypes
  <2>2. k \in Nat /\ DOMAIN regens = 1..k /\ k # 0
    BY <1>f DEF Fields, Flight
  <2>3. k \in DOMAIN regens /\ regens[k] \in ARegen /\ regens[k].wrote \in Nat
    BY <2>2, <1>f DEF Fields
  <2>4. time \in Nat /\ time # 0
    BY DEF CrystalTypes
  <2>5. Over = k - 1
    BY <2>1 DEF Over
  <2> QED
    BY <2>2, <2>3, <2>4, <2>5
<1>1. LastIs(regens[k].wrote, time, how)
  <2>1. PICK last : last = [regens[k] EXCEPT !.end = time, !.how = how]
    OBVIOUS
  <2>2. last = [regens[k] EXCEPT !.wrote = regens[k].wrote, !.end = time, !.how = how]
    BY <2>1, <1>k DEF ARegen
  <2>3. regens' = [regens EXCEPT ![k] = last]
    BY <2>1, <1>k DEF RefreshEnds
  <2> QED
    BY <2>2, <2>3, <1>k, TheLastIs
<1>2. /\ DOMAIN regens' = DOMAIN regens
      /\ \A i \in DOMAIN regens :
           /\ regens'[i].wrote = regens[i].wrote /\ regens'[i].start = regens[i].start /\ regens'[i].knew = regens[i].knew
           /\ i # k => regens'[i] = regens[i]
      /\ regens'[k].end = time /\ regens'[k].how = how
  BY <1>1, <1>k DEF LastIs
<1>3. /\ inFlight' = FALSE /\ refresh' = "no" /\ marker' = IF how = "raised" THEN marker ELSE time
  BY DEF RefreshEnds, Mark
<1>g. /\ crystals' \in Seq(Nat) /\ LastCrystal' >= LastCrystal /\ LastCrystal \in Nat /\ LastCrystal' \in Nat
      /\ \A n \in DOMAIN crystals' : crystals'[n] <= time
      /\ \A n, at : Sees(n, at) => SeesThen(n, at)
      /\ \A i \in DOMAIN regens : regens[i].wrote # 0 => SeesThen(LastCrystal', regens[i].wrote)
  BY WhatWasSeenIs
<1>c. /\ cache' \in [has : BOOLEAN, sees : Nat, at : Nat] /\ cache'.at <= time /\ cache'.sees <= LastCrystal
      /\ how # "wrote" => cache' = cache
  <2>1. CASE cache' = cache
    BY <2>1 DEF CrystalTypes, Past, Knowledge
  <2>2. CASE how = "wrote" /\ cache' = [has |-> TRUE, sees |-> LastCrystal, at |-> time]
    <3>1. cache' \in [has : BOOLEAN, sees : Nat, at : Nat] /\ cache'.at = time /\ cache'.sees = LastCrystal
      BY <2>2, <1>g, <1>k
    <3> QED
      BY <2>2, <3>1, <1>g, <1>k
  <2> QED
    BY <2>1, <2>2
<1>4. CrystalTypes'
  BY <1>1, <1>3, <1>c, <1>g, <1>k DEF CrystalTypes, LastIs
<1>5. Past'
  <2>1. \A i \in DOMAIN regens' : regens'[i].wrote <= time /\ regens'[i].end <= time
    BY <1>2, <1>k DEF Past
  <2> QED
    BY <1>c, <1>g, <2>1 DEF Past
<1>6. LateIsBehind'
  BY <1>g, <1>f DEF LateIsBehind, LastCrystal
<1>7. Flight'
  <2>1. ASSUME NEW i \in DOMAIN regens
        PROVE  /\ regens'[i].end # 0
               /\ regens'[i].how = "wrote" => regens'[i].wrote # 0
    BY <1>2, <1>k DEF Flight
  <2> QED
    BY <1>2, <1>3, <2>1 DEF Flight
<1>8. Knowledge'
  <2>1. Over' = k
    BY <1>1, <1>3 DEF Over, LastIs
  <2>2. check.knew <= Over' /\ spawned.knew <= Over'
    BY <1>k, <1>f, <2>1 DEF Knowledge, Fields
  <2>3. cache'.sees <= LastCrystal' /\ check.sees <= LastCrystal'
    BY <1>c, <1>g, <1>f, SMTT(20) DEF Knowledge, Fields
  <2>4. \A j \in DOMAIN regens' : regens'[j].knew < j
    BY <1>2 DEF Knowledge
  <2> QED
    BY <2>2, <2>3, <2>4 DEF Knowledge
<1>9. NewestIsNew'
  BY <1>2, <1>g DEF NewestIsNew, Sees, SeesThen
<1>10. CheckSees'
  <2> SUFFICES ASSUME NEW i \in DOMAIN regens, regens'[i].how = "wrote", i <= check.knew, check.pc \in {"sample", "cooldown"}
               PROVE  SeesThen(check.sees, regens[i].wrote)
    BY <1>2 DEF CheckSees, Sees, SeesThen
  <2>1. i # k
    BY <1>k, <1>f DEF Knowledge, Fields
  <2> QED
    BY <2>1, <1>2, <1>g DEF CheckSees
<1>11. Guarded'
  <2> SUFFICES ASSUME NEW i \in DOMAIN regens, regens'[i].how = "wrote"
               PROVE  marker' >= regens'[i].wrote \/ Fresh(i)'
    BY <1>2 DEF Guarded
  <2>1. CASE how # "raised"
    BY <2>1, <1>2, <1>3, <1>k DEF Past
  <2>2. CASE how = "raised"
    <3>1. i # k /\ regens[i].how = "wrote" /\ cache' = cache /\ marker' = marker /\ regens'[i] = regens[i]
      BY <2>2, <1>2, <1>3, <1>c
    <3>2. CASE Fresh(i)
      <4>1. ASSUME late' = TRUE PROVE SeesThen(LastCrystal' - 1, regens[i].wrote)
        <5>1. regens[i].wrote # 0
          BY <3>1 DEF Flight
        <5>2. CASE crystals' = crystals
          BY <4>1, <5>2, <3>2 DEF Fresh, Sees, SeesThen, LastCrystal
        <5>3. CASE crystals' = Append(crystals, time)
          <6>1. LastCrystal' - 1 = LastCrystal /\ Sees(LastCrystal, regens[i].wrote)
            BY <5>1, <5>3, <1>k DEF NewestIsNew, LastCrystal, CrystalTypes
          <6> QED
            BY <6>1, <1>g
        <5> QED
          BY <5>2, <5>3 DEF Grows
      <4>2. Sees(cache.sees, regens[i].wrote) => SeesThen(cache'.sees, regens'[i].wrote)
        BY <3>1, <1>g
      <4> QED
        BY <3>1, <3>2, <4>1, <4>2 DEF Fresh, Sees, SeesThen
    <3> QED
      BY <3>1, <3>2 DEF Guarded
  <2> QED
    BY <2>1, <2>2
<1>12. Rejections'
  <2> SUFFICES ASSUME NEW i \in DOMAIN regens, regens'[i].how = "rejected"
               PROVE  /\ marker' >= regens'[i].end
                      /\ check.pc = "cooldown" /\ i <= check.knew => time - regens'[i].end >= Cooldown
    BY <1>2 DEF Rejections
  <2>1. i <= check.knew => i # k
    BY <1>k, <1>f DEF Knowledge, Fields
  <2>2. regens'[i].end <= time /\ (i # k => regens'[i] = regens[i])
    BY <1>2, <1>k DEF Past
  <2>3. marker' >= regens'[i].end
    BY <1>2, <1>3, <2>2, <1>k DEF Rejections
  <2> QED
    BY <2>1, <2>2, <2>3 DEF Rejections
<1>13. SpawnedLate'
  <2> SUFFICES ASSUME spawned.on = TRUE, NEW i \in DOMAIN regens, i <= spawned.knew
               PROVE  regens'[i] = regens[i]
    BY <1>2 DEF SpawnedLate
  <2> QED
    BY <1>2, <1>k, <1>f DEF Knowledge, Fields
<1>14. RegensAreSpaced'
  <2> SUFFICES ASSUME NEW i \in DOMAIN regens, NEW j \in DOMAIN regens, i <= regens[j].knew
               PROVE  regens'[i] = regens[i]
    BY <1>2 DEF RegensAreSpaced
  <2> QED
    BY <1>2, <1>k, <1>f DEF Knowledge, Fields
<1> QED
  BY <1>4, <1>5, <1>6, <1>7, <1>8, <1>9, <1>10, <1>11, <1>12, <1>13, <1>14

\* A crystal is written: the cache is emptied, a late read is behind.
LEMMA WriteKeeps == CrystalInv /\ WriteCrystal => CrystalInv'
<1> SUFFICES ASSUME CrystalInv, WriteCrystal PROVE CrystalInv'
  OBVIOUS
<1> USE DEF CrystalInv
<1>f. Fields
  BY FieldsHaveTypes
<1>1. /\ refresh = "write" /\ crystals' = Append(crystals, time) /\ refresh' = "anchor"
      /\ regens' = [regens EXCEPT ![Len(regens)].wrote = time]
      /\ UNCHANGED <<time, check, checked, marker, spawned, inFlight>>
  BY DEF WriteCrystal, checkVars
<1>2. cache' = [has |-> FALSE, sees |-> 0, at |-> 0] /\ late' \in BOOLEAN
  BY DEF WriteCrystal, Uncached, Cached
<1> DEFINE k == Len(regens)
<1>k. /\ inFlight = TRUE /\ k \in DOMAIN regens /\ regens[k] \in ARegen /\ time \in Nat /\ time # 0
      /\ regens[k].end = 0 /\ k \in Nat /\ DOMAIN regens = 1..k
  <2>1. inFlight = TRUE
    BY <1>1 DEF CrystalTypes, Flight
  <2>2. k \in Nat /\ DOMAIN regens = 1..k /\ k # 0
    BY <2>1, <1>f DEF Fields, Flight
  <2>3. k \in DOMAIN regens /\ regens[k] \in ARegen /\ regens[k].end \in Nat
    BY <2>2, <1>f DEF Fields
  <2>4. regens[k].end = 0
    BY <2>1, <2>3 DEF Flight
  <2> QED
    BY <2>1, <2>2, <2>3, <2>4 DEF CrystalTypes
<1>3. LastIs(time, 0, regens[k].how)
  <2>1. PICK last : last = [regens[k] EXCEPT !.wrote = time]
    OBVIOUS
  <2>2. regens[k].how \in {"running", "wrote", "rejected", "raised", "forgotten"}
    BY <1>k DEF ARegen
  <2>3. last = [regens[k] EXCEPT !.wrote = time, !.end = 0, !.how = regens[k].how]
    BY <2>1, <1>k DEF ARegen
  <2>4. regens' = [regens EXCEPT ![k] = last]
    BY <2>1, <1>1, <1>k
  <2>5. inFlight /\ 0 \in Nat /\ time \in Nat
    BY <1>k
  <2> QED
    BY <2>2, <2>3, <2>4, <2>5, TheLastIs
<1>4. /\ DOMAIN regens' = DOMAIN regens /\ Len(regens') = k /\ regens' \in Seq(ARegen)
      /\ \A i \in DOMAIN regens :
           /\ regens'[i].end = regens[i].end /\ regens'[i].start = regens[i].start /\ regens'[i].knew = regens[i].knew
           /\ regens'[i].how = regens[i].how
           /\ i # k => regens'[i] = regens[i]
      /\ regens'[k].wrote = time
  BY <1>3, <1>k DEF LastIs
<1>5. /\ regens[k].how # "wrote" /\ regens[k].how # "rejected"
  BY <1>k DEF Flight
<1>g. /\ crystals' \in Seq(Nat) /\ LastCrystal' >= LastCrystal /\ LastCrystal \in Nat /\ LastCrystal' \in Nat
      /\ \A n \in DOMAIN crystals' : crystals'[n] <= time
      /\ \A n, at : Sees(n, at) => SeesThen(n, at)
      /\ \A i \in DOMAIN regens : regens[i].wrote # 0 => SeesThen(LastCrystal', regens[i].wrote)
  BY <1>1, WhatWasSeenIs DEF Grows
<1>l. LastCrystal' = LastCrystal + 1 /\ SeesThen(LastCrystal', time)
  BY <1>1, <1>k DEF LastCrystal, SeesThen, CrystalTypes
<1>6. CrystalTypes'
  BY <1>1, <1>2, <1>4, <1>g DEF CrystalTypes
<1>7. Past'
  <2>1. \A i \in DOMAIN regens' : regens'[i].wrote <= time /\ regens'[i].end <= time
    BY <1>4, <1>k DEF Past
  <2> QED
    BY <1>1, <1>2, <1>g, <1>k, <2>1 DEF Past
<1>8. LateIsBehind' /\ Flight'
  BY <1>1, <1>4, <1>5, <1>k, <1>l, <1>g DEF LateIsBehind, Flight
<1>9. Knowledge'
  <2>1. Over' = Over
    BY <1>1, <1>4 DEF Over
  <2> QED
    BY <1>1, <1>2, <1>4, <1>g, <1>f, <2>1 DEF Knowledge, Fields
<1>10. NewestIsNew'
  <2> SUFFICES ASSUME NEW i \in DOMAIN regens, regens'[i].wrote # 0
               PROVE  SeesThen(LastCrystal', regens'[i].wrote)
    BY <1>4 DEF NewestIsNew, Sees, SeesThen
  <2> QED
    BY <1>4, <1>g, <1>l
<1>11. CheckSees'
  <2> SUFFICES ASSUME NEW i \in DOMAIN regens, regens[i].how = "wrote", i <= check.knew, check.pc \in {"sample", "cooldown"}
               PROVE  SeesThen(check.sees, regens'[i].wrote)
    BY <1>1, <1>4 DEF CheckSees, Sees, SeesThen
  <2> QED
    BY <1>4, <1>5, <1>g DEF CheckSees
<1>12. Guarded'
  <2> SUFFICES ASSUME NEW i \in DOMAIN regens, regens[i].how = "wrote"
               PROVE  Fresh(i)'
    BY <1>1, <1>4 DEF Guarded
  <2>1. regens'[i] = regens[i] /\ regens[i].wrote # 0
    BY <1>4, <1>5 DEF Flight
  <2>2. SeesThen(LastCrystal' - 1, regens'[i].wrote)
    BY <2>1, <1>l, <1>g DEF NewestIsNew
  <2> QED
    BY <2>2, <1>2 DEF Fresh, Sees, SeesThen
<1>13. Rejections' /\ SpawnedLate' /\ RegensAreSpaced'
  <2>1. Rejections'
    BY <1>1, <1>4, <1>5 DEF Rejections
  <2>2. SpawnedLate'
    BY <1>1, <1>4, <1>5 DEF SpawnedLate
  <2>3. RegensAreSpaced'
    BY <1>4, <1>5 DEF RegensAreSpaced
  <2> QED
    BY <2>1, <2>2, <2>3
<1> QED
  BY <1>6, <1>7, <1>8, <1>9, <1>10, <1>11, <1>12, <1>13

\* The task begins, unless another regen is under way.
LEMMA TriggerKeeps == CrystalInv /\ TriggerStarts => CrystalInv'
<1> SUFFICES ASSUME CrystalInv, TriggerStarts PROVE CrystalInv'
  OBVIOUS
<1> USE DEF CrystalInv
<1>f. Fields
  BY FieldsHaveTypes
<1>1. /\ spawned' = NoRegen /\ UNCHANGED <<time, crystals, cache, late, check, checked, marker>>
      /\ spawned.on = TRUE
  BY DEF TriggerStarts, CrystalTypes
<1>2. CASE inFlight
  <2>1. UNCHANGED <<inFlight, refresh, regens>>
    BY <1>2 DEF TriggerStarts
  <2> QED
    BY <1>1, <2>1, PhaseKeeps
<1>3. CASE ~inFlight
  <2> DEFINE k == Len(regens)
             new == [start |-> time, wrote |-> 0, end |-> 0, knew |-> spawned.knew, how |-> "running"]
  <2>1. inFlight' = TRUE /\ refresh' = "generate" /\ regens' = Append(regens, new)
    BY <1>3 DEF TriggerStarts
  <2>k. k \in Nat /\ DOMAIN regens = 1..k /\ regens \in Seq(ARegen) /\ Over = k /\ inFlight = FALSE /\ time \in Nat
    BY <1>3, <1>f DEF Fields, CrystalTypes, Over
  <2>2. new \in ARegen /\ new.wrote = 0 /\ new.end = 0 /\ new.how = "running" /\ new.knew = spawned.knew /\ new.start = time
    BY <2>k, <1>f DEF ARegen, Fields
  <2> HIDE DEF new
  <2>3. /\ regens' \in Seq(ARegen) /\ Len(regens') = k + 1 /\ DOMAIN regens' = 1..(k + 1)
        /\ regens'[k + 1] = new /\ \A i \in DOMAIN regens : regens'[i] = regens[i]
    BY <2>1, <2>2, <2>k
  <2>4. \A i \in DOMAIN regens' : i \in DOMAIN regens \/ i = k + 1
    BY <2>3, <2>k
  <2>5. CrystalTypes'
    BY <1>1, <2>1, <2>3, <1>f DEF CrystalTypes, NoRegen
  <2>6. Past' /\ LateIsBehind'
    <3>1. \A i \in DOMAIN regens' : regens'[i].wrote <= time /\ regens'[i].end <= time
      BY <2>2, <2>3, <2>4, <2>k DEF Past
    <3> QED
      BY <1>1, <3>1 DEF Past, LateIsBehind, LastCrystal
  <2>7. Flight'
    <3>1. ASSUME NEW i \in DOMAIN regens'
          PROVE  /\ (regens'[i].end = 0) = (inFlight' /\ i = Len(regens'))
                 /\ regens'[i].how = "wrote" => regens'[i].wrote # 0 /\ regens'[i].end # 0
                 /\ regens'[i].how = "rejected" => regens'[i].end # 0
      <4>1. CASE i \in DOMAIN regens
        <5>1. i # Len(regens') /\ regens'[i] = regens[i] /\ regens[i].end # 0
          BY <4>1, <2>3, <2>k DEF Flight
        <5> QED
          BY <5>1, <4>1 DEF Flight
      <4>2. CASE i = k + 1
        BY <4>2, <2>1, <2>2, <2>3
      <4> QED
        BY <4>1, <4>2, <2>4
    <3> QED
      <4>1. Len(regens') # 0
        BY <2>3, <2>k
      <4>2. inFlight' = (refresh' # "no") /\ refresh' \notin {"anchor", "seed"}
        BY <2>1
      <4> QED
        BY <3>1, <4>1, <4>2 DEF Flight
  <2>8. Knowledge'
    <3>1. Over' = k /\ spawned'.knew = 0
      BY <1>1, <2>1, <2>3, <2>k DEF Over, NoRegen
    <3>2. \A j \in DOMAIN regens' : regens'[j].knew < j
      BY <2>2, <2>3, <2>4, <2>k, <1>f, SMTT(20) DEF Knowledge, Fields
    <3> QED
      BY <1>1, <2>k, <3>1, <3>2 DEF Knowledge, LastCrystal
  <2>9. NewestIsNew' /\ CheckSees' /\ Guarded' /\ Rejections'
    BY <1>1, <2>2, <2>3, <2>4 DEF NewestIsNew, CheckSees, Guarded, Rejections, Fresh, Sees, LastCrystal
  <2>10. SpawnedLate'
    BY <1>1 DEF SpawnedLate, NoRegen
  <2>11. RegensAreSpaced'
    <3> SUFFICES ASSUME NEW i \in DOMAIN regens', NEW j \in DOMAIN regens', i <= regens'[j].knew
                 PROVE  /\ regens'[i].how = "wrote" => regens'[j].start - regens'[i].wrote >= Cooldown
                        /\ regens'[i].how = "rejected" => regens'[j].start - regens'[i].end >= Cooldown
      BY DEF RegensAreSpaced
    <3>1. CASE i = k + 1
      BY <3>1, <2>2, <2>3
    <3>2. CASE i \in DOMAIN regens /\ j \in DOMAIN regens
      BY <3>2, <2>3 DEF RegensAreSpaced
    <3>3. CASE i \in DOMAIN regens /\ j = k + 1
      BY <3>3, <2>2, <2>3, <1>1 DEF SpawnedLate
    <3> QED
      BY <3>1, <3>2, <3>3, <2>4
  <2> QED
    BY <2>5, <2>6, <2>7, <2>8, <2>9, <2>10, <2>11
<1> QED
  BY <1>2, <1>3

\* The process starts again: rejections are forgotten, crystals are not.
LEMMA RestartKeeps == ASSUME CrystalInv, NEW keep \in BOOLEAN, CrystalRestart(keep) PROVE CrystalInv'
<1> USE DEF CrystalInv
<1>f. Fields
  BY FieldsHaveTypes
<1>1. /\ UNCHANGED <<time, crystals>> /\ late' = FALSE /\ checked' = time - 1 /\ marker' = 0
      /\ cache' = [has |-> FALSE, sees |-> 0, at |-> 0] /\ check' = [pc |-> "rest", sees |-> 0, knew |-> 0]
      /\ spawned' = [on |-> FALSE, knew |-> 0] /\ inFlight' = FALSE /\ refresh' = "no"
  BY DEF CrystalRestart, Uncached, NotChecking, NoRegen
<1>t. time \in Nat /\ time >= 1
  BY DEF CrystalTypes
<1>2. regens' = [i \in 1..Len(regens) |->
        IF regens[i].end # 0 THEN [regens[i] EXCEPT !.how = IF @ = "wrote" THEN @ ELSE "forgotten"]
        ELSE [regens[i] EXCEPT !.end = time, !.how = IF regens[i].wrote # 0 THEN "wrote" ELSE "forgotten"]]
  BY DEF CrystalRestart
<1>3. ASSUME NEW i \in DOMAIN regens
      PROVE  /\ regens'[i] \in ARegen
             /\ regens'[i].start = regens[i].start /\ regens'[i].wrote = regens[i].wrote /\ regens'[i].knew = regens[i].knew
             /\ regens'[i].end # 0 /\ regens'[i].end <= time
             /\ regens'[i].how # "rejected"
             /\ regens'[i].how = "wrote" => regens[i].wrote # 0 /\ (regens[i].how = "wrote" \/ i = Len(regens))
  <2>1. regens[i] \in ARegen /\ regens[i].end \in Nat /\ i \in 1..Len(regens)
    BY <1>f DEF Fields
  <2>2. CASE regens[i].end # 0
    <3>1. PICK how : how = IF regens[i].how = "wrote" THEN "wrote" ELSE "forgotten"
      OBVIOUS
    <3>2. regens'[i] = [regens[i] EXCEPT !.how = how]
      BY <1>2, <2>1, <2>2, <3>1
    <3> QED
      BY <2>1, <2>2, <3>1, <3>2 DEF ARegen, Flight, Past
  <2>3. CASE regens[i].end = 0
    <3>1. PICK how : how = IF regens[i].wrote # 0 THEN "wrote" ELSE "forgotten"
      OBVIOUS
    <3>2. regens'[i] = [regens[i] EXCEPT !.end = time, !.how = how]
      BY <1>2, <2>1, <2>3, <3>1
    <3>3. i = Len(regens)
      BY <2>3 DEF Flight
    <3>4. how \in {"running", "wrote", "rejected", "raised", "forgotten"} /\ how # "rejected" /\ time \in Nat /\ time # 0
      BY <3>1, <1>t
    <3>5. PICK next : next = [regens[i] EXCEPT !.end = time, !.how = how]
      OBVIOUS
    <3>6. /\ next \in ARegen /\ next.start = regens[i].start /\ next.wrote = regens[i].wrote
          /\ next.knew = regens[i].knew /\ next.end = time /\ next.how = how
      BY <2>1, <3>4, <3>5 DEF ARegen
    <3>7. regens'[i] = next
      BY <3>2, <3>5
    <3>8. how = "wrote" => regens[i].wrote # 0
      BY <3>1
    <3> QED
      BY <3>3, <3>4, <3>6, <3>7, <3>8, <1>t
  <2> QED
    BY <2>2, <2>3
<1>4. DOMAIN regens' = DOMAIN regens /\ regens' \in Seq(ARegen) /\ Len(regens') = Len(regens)
  <2>1. Len(regens) \in Nat /\ DOMAIN regens = 1..Len(regens)
    BY <1>f DEF Fields
  <2>2. regens' \in [1..Len(regens) -> ARegen]
    BY <1>2, <1>3, <2>1
  <2> QED
    BY <2>1, <2>2
<1>5. CrystalTypes'
  <2>1. check' \in TheCheck /\ checked' \in Nat
    BY <1>1, <1>t DEF TheCheck
  <2> QED
    BY <1>1, <1>4, <2>1 DEF CrystalTypes
<1>6. Past' /\ LateIsBehind'
  BY <1>1, <1>3, <1>4, <1>t, SMTT(20) DEF Past, LateIsBehind
<1>7. Flight'
  BY <1>1, <1>3, <1>4 DEF Flight
<1>8. Knowledge'
  BY <1>1, <1>3, <1>4, <1>f DEF Knowledge, Over, LastCrystal, Fields
<1>9. NewestIsNew' /\ CheckSees' /\ Guarded' /\ Rejections' /\ SpawnedLate'
  BY <1>1, <1>3, <1>4 DEF NewestIsNew, CheckSees, Guarded, Fresh, Rejections, SpawnedLate, Sees, LastCrystal
<1>10. RegensAreSpaced'
  <2> SUFFICES ASSUME NEW i \in DOMAIN regens, NEW j \in DOMAIN regens, i <= regens[j].knew, regens'[i].how = "wrote"
               PROVE  regens[j].start - regens[i].wrote >= Cooldown
    BY <1>3, <1>4 DEF RegensAreSpaced
  <2>1. i # Len(regens)
    BY <1>f DEF Knowledge, Fields
  <2> QED
    BY <1>3, <2>1 DEF RegensAreSpaced
<1> QED
  BY <1>5, <1>6, <1>7, <1>8, <1>9, <1>10

\* Every step of a refresh.
LEMMA RefreshKeeps == CrystalInv /\ Refresh => CrystalInv'
<1> SUFFICES ASSUME CrystalInv, Refresh PROVE CrystalInv'
  OBVIOUS
<1>1. CASE Accepted
  <2>1. /\ UNCHANGED <<time, crystals, cache, late, check, checked, marker, inFlight, regens, spawned>>
        /\ refresh = "generate" /\ refresh' = "write"
    BY <1>1 DEF Accepted, checkVars
  <2> QED
    BY <2>1, PhaseKeeps
<1>2. ASSUME NEW ok \in BOOLEAN, SaveAnchor(ok) PROVE CrystalInv'
  <2>1. /\ UNCHANGED <<time, crystals, cache, late, check, checked, marker, inFlight, regens, spawned>>
        /\ refresh = "anchor" /\ refresh' = "seed"
    BY <1>2 DEF SaveAnchor, checkVars
  <2> QED
    BY <2>1, PhaseKeeps
<1>3. CASE WriteCrystal
  BY <1>3, WriteKeeps
<1>4. CASE Rejected
  <2>1. /\ UNCHANGED <<time, crystals, cache, late, check, checked, spawned>> /\ RefreshEnds("rejected") /\ inFlight
    BY <1>4 DEF Rejected, CrystalInv, Flight
  <2> QED
    BY <2>1, RefreshEndKeeps DEF Grows
<1>5. ASSUME NEW lands \in BOOLEAN, RefreshRaises(lands) PROVE CrystalInv'
  <2>1. /\ UNCHANGED <<time, cache, late, check, checked, spawned>> /\ RefreshEnds("raised") /\ inFlight /\ Grows
    BY <1>5 DEF RefreshRaises, CrystalInv, Flight, Grows
  <2> QED
    BY <2>1, RefreshEndKeeps
<1>6. CASE Seed
  <2>1. /\ UNCHANGED <<time, crystals, late, check, checked, spawned>> /\ RefreshEnds("wrote") /\ inFlight /\ Grows
        /\ regens[Len(regens)].wrote # 0
    BY <1>6 DEF Seed, CrystalInv, Flight, Grows
  <2>2. cache' = cache \/ cache' = [has |-> TRUE, sees |-> LastCrystal, at |-> time]
    BY <1>6 DEF Seed, Store
  <2> QED
    BY <2>1, <2>2, RefreshEndKeeps
<1> QED
  BY <1>1, <1>2, <1>3, <1>4, <1>5, <1>6 DEF Refresh

\* Regenerations keep their distance, as their cool-down asks.
THEOREM RegenerationsAreSpaced == CrystalSpec => []RegensAreSpaced
<1>1. CrystalInit => CrystalInv
  BY CrystalStarts
<1>2. CrystalInv /\ [CrystalNext]_crystalVars => CrystalInv'
  <2> SUFFICES ASSUME CrystalInv, [CrystalNext]_crystalVars PROVE CrystalInv'
    OBVIOUS
  <2>1. CASE Poller
    BY <2>1, CheckStartKeeps, SampleKeeps, CooldownReadKeeps, HealAndFailKeep, MeasuredKeeps DEF Poller
  <2>2. CASE TriggerStarts \/ Refresh \/ OthersRead \/ LateRead \/ CrystalTick
    BY <2>2, TriggerKeeps, RefreshKeeps, ReadersKeep, TickKeeps
  <2>3. ASSUME NEW keep \in BOOLEAN, CrystalRestart(keep) PROVE CrystalInv'
    BY <2>3, RestartKeeps
  <2>4. CASE UNCHANGED crystalVars
    <3>1. /\ UNCHANGED <<time, crystals, cache, late, check, checked, marker, inFlight, regens, spawned, refresh>>
      BY <2>4 DEF crystalVars, checkVars
    <3> QED
      BY <3>1, PhaseKeeps
  <2> QED
    BY <2>1, <2>2, <2>3, <2>4 DEF CrystalNext
<1>3. CrystalInv => RegensAreSpaced
  BY DEF CrystalInv
<1> QED
  BY <1>1, <1>2, <1>3, PTL DEF CrystalSpec

-----------------------------------------------------------------------------
(* Relief.                                                                   *)
AFire(r) ==
  /\ r = [pc |-> r.pc, tier |-> r.tier, floor |-> r.floor, since |-> r.since, alone |-> r.alone]
  /\ r.alone \in BOOLEAN
  /\ r.tier \in Tiers \cup {"none"}
  /\ r.pc \in {"recent", "post"} => r.tier \in Tiers
  /\ r.pc = "recent" => r.tier = "alert"
ReliefTypes ==
  /\ age \in [Tiers -> Nat] /\ ago \in [Tiers -> Nat]
  /\ DOMAIN relief = Askers /\ \A a \in Askers : AFire(relief[a])

\* A tier's stamp is no older than its last prompt, unless that lost its stamp.
StampsAreTrue == \A t \in Tiers : t \in unstamped \/ age[t] <= ago[t]

\* A fire on its way to the post, with no other of its tier: its tier's last prompt
\* landed long enough ago.
Urgent(a) == relief[a].pc \in {"recent", "post"} /\ relief[a].alone = TRUE
AloneIsAlone == \A a \in Askers : Urgent(a) => Posting(relief[a].tier) = {a}
PromptsAreDue ==
  \A a \in Askers : Urgent(a) => relief[a].tier \in unstamped \/ ago[relief[a].tier] >= Cool[relief[a].tier]

ReliefInv == ReliefTypes /\ StampsAreTrue /\ AloneIsAlone /\ PromptsAreDue /\ TiersAreSpaced

USE ReliefBounds DEF ReliefBounds

\* The cool-downs are numbers.
LEMMA TheCoolDowns == \A t \in Tiers : Cool[t] \in Nat
BY DEF Tiers, Cool

\* No fire is under way, and every stamp is as old as its cool-down.
LEMMA ReliefStarts == ReliefInit => ReliefInv
<1> SUFFICES ASSUME ReliefInit PROVE ReliefInv
  OBVIOUS
<1>1. Cool \in [Tiers -> Nat]
  BY TheCoolDowns DEF Cool, Tiers
<1>2. \A a \in Askers : relief[a] = Resting
  BY DEF ReliefInit
<1>3. ReliefTypes
  BY <1>1, <1>2 DEF ReliefInit, ReliefTypes, AFire, Resting
<1>4. \A a \in Askers : ~Urgent(a)
  BY <1>2 DEF Urgent, Resting
<1>5. StampsAreTrue
  BY <1>1 DEF ReliefInit, StampsAreTrue
<1> QED
  BY <1>3, <1>4, <1>5 DEF ReliefInv, AloneIsAlone, PromptsAreDue, TiersAreSpaced, ReliefInit

\* A fire that begins, ends or goes on where no prompt is on its way.
LEMMA OthersStayAlone ==
  ASSUME ReliefInv, NEW a \in Askers, NEW r, AFire(r), relief' = [relief EXCEPT ![a] = r],
         r.pc \notin {"recent", "post"} \/ (r.pc = "post" /\ relief[a].pc = "recent" /\ r.tier = relief[a].tier
                                            /\ r.alone = relief[a].alone)
  PROVE  /\ DOMAIN relief' = Askers /\ \A b \in Askers : AFire(relief'[b])
         /\ AloneIsAlone'
         /\ \A b \in Askers : Urgent(b)' => Urgent(b) /\ relief'[b].tier = relief[b].tier
<1> USE DEF ReliefInv
<1>1. DOMAIN relief' = Askers /\ relief'[a] = r /\ \A b \in Askers : b # a => relief'[b] = relief[b]
  BY DEF ReliefTypes
<1>2. \A b \in Askers : AFire(relief'[b])
  BY <1>1 DEF ReliefTypes, AFire
<1>3. \A b \in Askers : relief'[b].pc \in {"recent", "post"} =>
        relief[b].pc \in {"recent", "post"} /\ relief'[b].tier = relief[b].tier /\ relief'[b].alone = relief[b].alone
  BY <1>1
<1>4. \A b \in Askers : Urgent(b)' => Urgent(b) /\ relief'[b].tier = relief[b].tier
  BY <1>3 DEF Urgent
<1>5. \A t : Posting(t)' \subseteq Posting(t)
  BY <1>3 DEF Posting
<1>6. AloneIsAlone'
  <2> SUFFICES ASSUME NEW b \in Askers, Urgent(b)'
               PROVE  Posting(relief[b].tier)' = {b}
    BY <1>4 DEF AloneIsAlone
  <2>1. b \in Posting(relief[b].tier)' 
    BY <1>4 DEF Posting, Urgent
  <2> QED
    BY <1>4, <1>5, <2>1 DEF AloneIsAlone
<1> QED
  BY <1>1, <1>2, <1>4, <1>6

\* A step that touches neither the clocks nor what is known of lost stamps.
LEMMA QuietKeeps ==
  ASSUME ReliefInv, UNCHANGED <<age, ago, unstamped, early>>, NEW a \in Askers, NEW r, AFire(r),
         relief' = [relief EXCEPT ![a] = r],
         r.pc \notin {"recent", "post"} \/ (r.pc = "post" /\ relief[a].pc = "recent" /\ r.tier = relief[a].tier
                                            /\ r.alone = relief[a].alone)
  PROVE  ReliefInv'
<1>1. /\ DOMAIN relief' = Askers /\ \A b \in Askers : AFire(relief'[b])
      /\ AloneIsAlone'
      /\ \A b \in Askers : Urgent(b)' => Urgent(b) /\ relief'[b].tier = relief[b].tier
  BY OthersStayAlone
<1>2. ReliefTypes'
  BY <1>1 DEF ReliefInv, ReliefTypes, AFire
<1>3. StampsAreTrue' /\ TiersAreSpaced'
  BY DEF ReliefInv, StampsAreTrue, TiersAreSpaced
<1>4. PromptsAreDue'
  BY <1>1 DEF ReliefInv, PromptsAreDue
<1> QED
  BY <1>1, <1>2, <1>3, <1>4 DEF ReliefInv

\* A fire that begins a read, or ends, has no prompt on its way.
LEMMA ReadBeginsRecord ==
  ASSUME NEW a \in Askers, NEW pc \in {"ask", "volume", "bite"}, NEW tier \in Tiers \cup {"none"},
         ReadBegins(a, pc, tier) \/ ReliefEnds(a)
  PROVE  \E r : AFire(r) /\ r.pc \notin {"recent", "post"} /\ relief' = [relief EXCEPT ![a] = r]
<1>1. PICK r : /\ r \in {[pc |-> pc, tier |-> tier, floor |-> floor', since |-> anchor', alone |-> TRUE], Resting}
               /\ relief' = [relief EXCEPT ![a] = r]
  BY DEF ReadBegins, ReliefEnds
<1>2. AFire(r) /\ r.pc \notin {"recent", "post"}
  <2>1. CASE r = Resting
    BY <2>1 DEF AFire, Resting
  <2>2. CASE r = [pc |-> pc, tier |-> tier, floor |-> floor', since |-> anchor', alone |-> TRUE]
    <3>1. r.pc = pc /\ r.tier = tier /\ r.floor = floor' /\ r.since = anchor' /\ r.alone = TRUE
      BY <2>2
    <3>2. r = [pc |-> r.pc, tier |-> r.tier, floor |-> r.floor, since |-> r.since, alone |-> r.alone]
      BY <2>2, <3>1
    <3> QED
      BY <3>1, <3>2 DEF AFire
  <2> QED
    BY <1>1, <2>1, <2>2
<1> QED
  BY <1>1, <1>2

\* So such a step keeps everything, if the clocks stay.
LEMMA ReadBeginsIsQuiet ==
  ASSUME ReliefInv, UNCHANGED <<age, ago, unstamped, early>>, NEW a \in Askers,
         NEW pc \in {"ask", "volume", "bite"}, NEW tier \in Tiers \cup {"none"}, ReadBegins(a, pc, tier) \/ ReliefEnds(a)
  PROVE  ReliefInv'
BY ReadBeginsRecord, QuietKeeps

\* The time goes on alike since the stamp and since the prompt.
LEMMA ReliefTickKeeps == ReliefInv /\ ReliefTick => ReliefInv'
<1> SUFFICES ASSUME ReliefInv, ReliefTick PROVE ReliefInv'
  OBVIOUS
<1> USE DEF ReliefInv
<1>1. /\ age' = [t \in Tiers |-> Older(age[t], Cool[t])] /\ ago' = [t \in Tiers |-> Older(ago[t], Cool[t])]
      /\ UNCHANGED <<relief, unstamped, early>>
  BY DEF ReliefTick
<1>2. \A t \in Tiers : age[t] \in Nat /\ ago[t] \in Nat /\ Cool[t] \in Nat
  BY TheCoolDowns DEF ReliefTypes
<1>3. ReliefTypes'
  BY <1>1, <1>2 DEF ReliefTypes, Older
<1>4. ASSUME NEW t \in Tiers
      PROVE  /\ age[t] <= ago[t] => age'[t] <= ago'[t] \/ ago'[t] >= age'[t]
             /\ ago[t] >= Cool[t] => ago'[t] >= Cool[t]
  BY <1>1, <1>2 DEF Older
<1>5. StampsAreTrue'
  BY <1>1, <1>2, <1>3, <1>4 DEF StampsAreTrue, ReliefTypes
<1>6. AloneIsAlone' /\ TiersAreSpaced'
  BY <1>1 DEF AloneIsAlone, TiersAreSpaced, Urgent, Posting
<1>7. PromptsAreDue'
  BY <1>1, <1>4 DEF PromptsAreDue, Urgent, ReliefTypes, AFire
<1> QED
  BY <1>3, <1>5, <1>6, <1>7

\* A tier whose stamp is old enough had its last prompt long enough ago.
LEMMA TheStampTells ==
  ASSUME ReliefInv, NEW t \in Tiers, ~OnCooldown(t) PROVE t \in unstamped \/ ago[t] >= Cool[t]
<1>1. age[t] \in Nat /\ ago[t] \in Nat /\ Cool[t] \in Nat /\ (t \in unstamped \/ age[t] <= ago[t])
  BY TheCoolDowns DEF ReliefInv, ReliefTypes, StampsAreTrue
<1> QED
  BY <1>1 DEF OnCooldown

\* Only whether it is alone changes.
LEMMA AloneChanges ==
  ASSUME NEW s, AFire(s), NEW alone
  PROVE  [s EXCEPT !.alone = alone] = [pc |-> s.pc, tier |-> s.tier, floor |-> s.floor, since |-> s.since, alone |-> alone]
<1>1. PICK pc, tier, floors, since, was : s = [pc |-> pc, tier |-> tier, floor |-> floors, since |-> since, alone |-> was]
  BY DEF AFire
<1>2. s.pc = pc /\ s.tier = tier /\ s.floor = floors /\ s.since = since
  BY <1>1
<1>3. [s EXCEPT !.alone = alone] = [pc |-> pc, tier |-> tier, floor |-> floors, since |-> since, alone |-> alone]
  BY <1>1
<1> QED
  BY <1>2, <1>3

\* A fire that picks a tier looks whether it is the only one, and no other fire that has
\* picked it is any more.
LEMMA PickKeeps ==
  ASSUME ReliefInv, UNCHANGED <<age, ago, unstamped, early>>, NEW a \in Askers, relief[a].pc = "volume",
         NEW t \in Tiers, ~OnCooldown(t),
         relief' = [b \in Askers |->
            IF b = a THEN [Resting EXCEPT !.pc = IF t = "alert" THEN "recent" ELSE "post", !.tier = t,
                                          !.alone = (Posting(t) = {})]
            ELSE [relief[b] EXCEPT !.alone = @ /\ b \notin Posting(t)]]
  PROVE  ReliefInv'
<1> USE DEF ReliefInv
<1>1. PICK r : r = [Resting EXCEPT !.pc = IF t = "alert" THEN "recent" ELSE "post", !.tier = t, !.alone = (Posting(t) = {})]
  OBVIOUS
<1>2. /\ AFire(r) /\ r.tier = t /\ r.pc \in {"recent", "post"} /\ (r.alone = TRUE => Posting(t) = {})
  <2>1. PICK alone \in BOOLEAN : alone = (Posting(t) = {})
    OBVIOUS
  <2>2. PICK pc : pc = IF t = "alert" THEN "recent" ELSE "post"
    OBVIOUS
  <2>3. r = [pc |-> pc, tier |-> t, floor |-> 0, since |-> 0, alone |-> alone]
    BY <1>1, <2>1, <2>2 DEF Resting
  <2>4. r.pc = pc /\ r.tier = t /\ r.floor = 0 /\ r.since = 0 /\ r.alone = alone
    BY <2>3
  <2> QED
    BY <2>1, <2>2, <2>3, <2>4 DEF AFire
<1>3. relief'[a] = r /\ DOMAIN relief' = Askers
  BY <1>1
<1>4. ASSUME NEW b \in Askers, b # a
      PROVE  /\ AFire(relief'[b])
             /\ relief'[b].pc = relief[b].pc /\ relief'[b].tier = relief[b].tier
             /\ relief'[b].alone = TRUE => relief[b].alone = TRUE /\ b \notin Posting(t)
  <2>1. PICK alone : alone = (relief[b].alone /\ b \notin Posting(t))
    OBVIOUS
  <2>2. AFire(relief[b])
    BY DEF ReliefTypes
  <2>3. alone \in BOOLEAN /\ (alone = TRUE => relief[b].alone = TRUE /\ b \notin Posting(t))
    BY <2>1, <2>2 DEF AFire
  <2>4. relief'[b] = [relief[b] EXCEPT !.alone = alone]
    BY <1>4, <2>1
  <2>5. /\ relief'[b] = [pc |-> relief[b].pc, tier |-> relief[b].tier, floor |-> relief[b].floor,
                         since |-> relief[b].since, alone |-> alone]
    BY <2>2, <2>4, AloneChanges
  <2>6. /\ relief'[b].pc = relief[b].pc /\ relief'[b].tier = relief[b].tier /\ relief'[b].alone = alone
        /\ relief'[b].floor = relief[b].floor /\ relief'[b].since = relief[b].since
    BY <2>5
  <2> QED
    BY <2>2, <2>3, <2>5, <2>6 DEF AFire
<1>5. ReliefTypes'
  BY <1>2, <1>3, <1>4, ZenonT(20) DEF ReliefTypes, AFire
<1>6. StampsAreTrue' /\ TiersAreSpaced'
  BY DEF StampsAreTrue, TiersAreSpaced
<1>7. \A b \in Askers : b # a /\ Urgent(b)' => Urgent(b) /\ relief[b].tier # t
  BY <1>4 DEF Urgent, Posting
<1>8. AloneIsAlone'
  <2> SUFFICES ASSUME NEW b \in Askers, Urgent(b)', NEW c \in Askers, relief'[c].pc \in {"recent", "post"},
                      relief'[c].tier = relief'[b].tier
               PROVE  c = b
    BY ZenonT(20) DEF AloneIsAlone, Posting, Urgent
  <2>1. CASE b = a
    <3>1. relief'[b].tier = t /\ relief'[b].alone = TRUE
      BY <2>1, <1>2, <1>3 DEF Urgent
    <3>2. Posting(t) = {} /\ relief'[c].tier = t
      BY <2>1, <3>1, <1>2, <1>3
    <3>3. ASSUME c # a PROVE FALSE
      <4>1. relief[c].pc \in {"recent", "post"} /\ relief[c].tier = t
        BY <3>2, <3>3, <1>4
      <4> QED
        BY <4>1, <3>2 DEF Posting
    <3> QED
      BY <2>1, <3>3
  <2>2. CASE b # a /\ c = a
    BY <2>2, <1>2, <1>3, <1>4, <1>7
  <2>3. CASE b # a /\ c # a
    <3>1. c \in Posting(relief[b].tier) /\ Urgent(b)
      BY <2>3, <1>4, <1>7 DEF Posting
    <3> QED
      BY <3>1 DEF AloneIsAlone
  <2> QED
    BY <2>1, <2>2, <2>3
<1>9. PromptsAreDue'
  <2> SUFFICES ASSUME NEW b \in Askers, Urgent(b)'
               PROVE  relief'[b].tier \in unstamped \/ ago[relief'[b].tier] >= Cool[relief'[b].tier]
    BY DEF PromptsAreDue
  <2>1. CASE b = a
    <3>4. relief'[b].tier = t
      BY <2>1, <1>2, <1>3
    <3> QED
      BY <3>4, TheStampTells
  <2>2. CASE b # a
    BY <2>2, <1>4, <1>7 DEF PromptsAreDue
  <2> QED
    BY <2>1, <2>2
<1> QED
  BY <1>5, <1>6, <1>8, <1>9

\* The steps that stamp a tier, post its prompt, or both: of the fires that go on, none
\* that is alone is of that tier.
LEMMA StampKeeps ==
  ASSUME ReliefInv, NEW a \in Askers, relief[a].pc \in {"recent", "post"}, NEW r, AFire(r),
         r.pc \notin {"recent", "post"}, relief' = [relief EXCEPT ![a] = r],
         NEW t, t = relief[a].tier,
         ago' = ago \/ ago' = [ago EXCEPT ![t] = 0],
         \/ age' = age /\ unstamped' = unstamped \cup {t}
         \/ age' = [age EXCEPT ![t] = 0] /\ unstamped' \in {unstamped, unstamped \ {t}},
         early' = early \/ (early' = early \cup {x \in {t} : ago[x] < Cool[x] /\ relief[a].alone /\ x \notin unstamped})
  PROVE  ReliefInv'
<1> USE DEF ReliefInv
<1>1. /\ DOMAIN relief' = Askers /\ \A b \in Askers : AFire(relief'[b])
      /\ AloneIsAlone'
      /\ \A b \in Askers : Urgent(b)' => Urgent(b) /\ relief'[b].tier = relief[b].tier
  BY OthersStayAlone
<1>2. t \in Tiers /\ AFire(relief[a]) /\ age \in [Tiers -> Nat] /\ ago \in [Tiers -> Nat]
  BY DEF ReliefTypes, AFire
<1>3. age' \in [Tiers -> Nat] /\ ago' \in [Tiers -> Nat]
  BY <1>2
<1>4. ReliefTypes'
  BY <1>1, <1>3 DEF ReliefTypes, AFire
<1>5. StampsAreTrue'
  <2> SUFFICES ASSUME NEW x \in Tiers PROVE x \in unstamped' \/ age'[x] <= ago'[x]
    BY DEF StampsAreTrue
  <2>1. CASE x = t
    BY <2>1, <1>2, <1>3
  <2>2. CASE x # t
    <3>1. age'[x] = age[x] /\ ago'[x] = ago[x] /\ (x \in unstamped => x \in unstamped')
      BY <2>2, <1>2
    <3> QED
      BY <3>1 DEF StampsAreTrue
  <2> QED
    BY <2>1, <2>2
<1>6. TiersAreSpaced'
  <2>1. relief[a].alone = TRUE => ~(ago[t] < Cool[t]) \/ t \in unstamped
    BY <1>2, TheCoolDowns DEF PromptsAreDue, Urgent
  <2>2. relief[a].alone \in BOOLEAN
    BY <1>2 DEF AFire
  <2>3. {x \in {t} : ago[x] < Cool[x] /\ relief[a].alone /\ x \notin unstamped} = {}
    BY <2>1, <2>2
  <2> QED
    BY <2>3 DEF TiersAreSpaced
<1>7. PromptsAreDue'
  <2> SUFFICES ASSUME NEW b \in Askers, Urgent(b)'
               PROVE  relief'[b].tier \in unstamped' \/ ago'[relief'[b].tier] >= Cool[relief'[b].tier]
    BY DEF PromptsAreDue
  <2>1. Urgent(b) /\ relief'[b].tier = relief[b].tier /\ b # a
    BY <1>1, <1>2 DEF Urgent, ReliefTypes
  <2>2. relief[b].tier # t
    BY <2>1 DEF AloneIsAlone, Posting
  <2>3. relief[b].tier \in Tiers
    BY <2>1 DEF ReliefTypes, AFire, Urgent
  <2>4. ago'[relief[b].tier] = ago[relief[b].tier] /\ (relief[b].tier \in unstamped => relief[b].tier \in unstamped')
    BY <2>2, <2>3, <1>2
  <2> QED
    BY <2>1, <2>4 DEF PromptsAreDue
<1> QED
  BY <1>1, <1>4, <1>5, <1>6, <1>7

\* Whatever is picked is a tier that is off its cool-down.
LEMMA PicksAreDue ==
  ASSUME NEW a \in Askers, relief[a].tier \in Tiers \cup {"none"}, NEW p, NEW t \in Picks(a, p)
  PROVE  t \in Tiers /\ ~OnCooldown(t)
<1>1. CASE relief[a].tier # "none"
  BY <1>1 DEF Picks
<1>2. CASE relief[a].tier = "none"
  <2>1. t \in PickTier(a, p)
    BY <1>2 DEF Picks
  <2>2. t \in Tiers /\ Eligible(a, p, t)
    BY <2>1 DEF PickTier, NextSit, SitGroup, Tiers
  <2> QED
    BY <2>2 DEF Eligible
<1> QED
  BY <1>1, <1>2

\* The fire picks a tier, or ends.
LEMMA VolumeReadKeeps ==
  ASSUME ReliefInv, NEW a \in Askers, NEW v, VolumeRead(a, v) PROVE ReliefInv'
<1> DEFINE p == Total(a, v)
<1>1. UNCHANGED <<age, ago, unstamped, early>> /\ relief[a].pc = "volume"
  BY DEF VolumeRead, tables
<1>t. relief[a].tier \in Tiers \cup {"none"}
  BY DEF ReliefInv, ReliefTypes, AFire
<1>2. CASE ReliefEnds(a)
  BY <1>1, <1>2, ReadBeginsIsQuiet
<1>3. CASE ~ReliefEnds(a)
  <2>1. PICK t \in Picks(a, p) :
          relief' = [b \in Askers |->
            IF b = a THEN [Resting EXCEPT !.pc = IF t = "alert" THEN "recent" ELSE "post", !.tier = t,
                                          !.alone = (Posting(t) = {})]
            ELSE [relief[b] EXCEPT !.alone = @ /\ b \notin Posting(t)]]
    BY <1>3 DEF VolumeRead
  <2>2. t \in Tiers /\ ~OnCooldown(t)
    BY <1>t, PicksAreDue
  <2> QED
    BY <1>1, <2>1, <2>2, PickKeeps
<1> QED
  BY <1>2, <1>3

\* The fresh card's suppression stamps the alert tier; otherwise the fire is on its way to
\* the post.
LEMMA RecentAlertKeeps ==
  ASSUME ReliefInv, NEW a \in Askers, NEW ok \in BOOLEAN, RecentAlert(a, ok) PROVE ReliefInv'
<1>1. relief[a].pc = "recent" /\ UNCHANGED <<ago, unstamped, early>>
  BY DEF RecentAlert
<1>2. AFire(relief[a]) /\ relief[a].tier = "alert" /\ DOMAIN relief = Askers
  BY <1>1 DEF ReliefInv, ReliefTypes, AFire
<1>3. CASE StampTier("alert") /\ ReliefEnds(a)
  <2>1. age' = [age EXCEPT !["alert"] = 0] /\ relief' = [relief EXCEPT ![a] = Resting]
    BY <1>3 DEF StampTier, ReliefEnds
  <2>2. AFire(Resting) /\ Resting.pc \notin {"recent", "post"}
    BY DEF AFire, Resting
  <2> QED
    BY <1>1, <1>2, <2>1, <2>2, StampKeeps
<1>4. CASE relief' = [relief EXCEPT ![a].pc = "post"] /\ UNCHANGED tables
  <2>1. PICK r : r = [pc |-> "post", tier |-> relief[a].tier, floor |-> relief[a].floor,
                      since |-> relief[a].since, alone |-> relief[a].alone]
    OBVIOUS
  <2>2. /\ r.pc = "post" /\ r.tier = relief[a].tier /\ r.floor = relief[a].floor
        /\ r.since = relief[a].since /\ r.alone = relief[a].alone
    BY <2>1
  <2>3. AFire(r)
    BY <1>2, <2>1, <2>2 DEF AFire
  <2>4. [relief[a] EXCEPT !.pc = "post"] = r
    BY <1>2, <2>1 DEF AFire
  <2>5. relief' = [relief EXCEPT ![a] = r]
    BY <1>2, <1>4, <2>4
  <2> QED
    BY <1>1, <1>4, <2>2, <2>3, <2>5, QuietKeeps DEF tables
<1> QED
  BY <1>3, <1>4 DEF RecentAlert

\* A fire that has posted goes on without a prompt on its way.
LEMMA PostKeeps ==
  ASSUME ReliefInv, NEW a \in Askers, NEW ok \in BOOLEAN, Post(a, ok) PROVE ReliefInv'
<1> DEFINE t == relief[a].tier
<1>1. relief[a].pc = "post" /\ t \in Tiers
  BY DEF Post, ReliefInv, ReliefTypes, AFire
<1>2. /\ age' = [age EXCEPT ![t] = 0] /\ unstamped' = unstamped \ {t}
  BY DEF Post, StampTier
<1>3. ago' = ago \/ ago' = [ago EXCEPT ![t] = 0]
  BY DEF Post, PromptLands
<1>4. early' = early \/ (early' = early \cup {x \in {t} : ago[x] < Cool[x] /\ relief[a].alone /\ x \notin unstamped})
  BY DEF Post, PromptLands
<1>5. PICK pc \in {"ask", "volume", "bite"}, tier \in Tiers \cup {"none"} : ReadBegins(a, pc, tier) \/ ReliefEnds(a)
  <2>1. CASE FireReturns(a)
    BY <2>1 DEF FireReturns
  <2>2. CASE ReadBegins(a, "bite", t)
    BY <2>2, <1>1
  <2> QED
    BY <2>1, <2>2 DEF Post
<1>6. PICK r : AFire(r) /\ r.pc \notin {"recent", "post"} /\ relief' = [relief EXCEPT ![a] = r]
  BY <1>5, ReadBeginsRecord
<1> QED
  BY <1>1, <1>2, <1>3, <1>4, <1>6, StampKeeps

\* A prompt that landed without its stamp is known as such.
LEMMA StampFailsKeeps ==
  ASSUME ReliefInv, NEW a \in Askers, StampFails(a) PROVE ReliefInv'
<1> DEFINE t == relief[a].tier
<1>1. relief[a].pc = "post" /\ age' = age /\ unstamped' = unstamped \cup {t} /\ relief' = [relief EXCEPT ![a] = Resting]
  BY DEF StampFails, ReliefEnds, tables
<1>2. /\ ago' = [ago EXCEPT ![t] = 0]
      /\ early' = early \cup {x \in {t} : ago[x] < Cool[x] /\ relief[a].alone /\ x \notin unstamped}
  BY DEF StampFails, PromptLands
<1>3. AFire(Resting) /\ Resting.pc \notin {"recent", "post"}
  BY DEF AFire, Resting
<1> QED
  BY <1>1, <1>2, <1>3, StampKeeps

\* The posts that had landed are the ones whose stamps are lost.
LEMMA ReliefRestartKeeps ==
  ASSUME ReliefInv, NEW landed \in SUBSET Askers, ReliefRestart(landed) PROVE ReliefInv'
<1> USE DEF ReliefInv
<1> DEFINE T == {relief[a].tier : a \in landed}
<1>1. /\ ago' = [t \in Tiers |-> IF t \in T THEN 0 ELSE ago[t]] /\ unstamped' = unstamped \cup T
      /\ relief' = [a \in Askers |-> Resting] /\ age' = age /\ early' = early
  BY DEF ReliefRestart, tables
<1>2. \A a \in Askers : relief'[a] = Resting
  BY <1>1
<1>3. AFire(Resting) /\ Resting.pc = "rest"
  BY DEF AFire, Resting
<1>4. ago' \in [Tiers -> Nat]
  BY <1>1 DEF ReliefTypes
<1>5. ReliefTypes'
  BY <1>1, <1>2, <1>3, <1>4 DEF ReliefTypes, AFire
<1>6. StampsAreTrue' /\ TiersAreSpaced'
  BY <1>1 DEF StampsAreTrue, TiersAreSpaced
<1>7. \A a \in Askers : ~Urgent(a)'
  BY <1>2, <1>3 DEF Urgent
<1> QED
  BY <1>5, <1>6, <1>7 DEF AloneIsAlone, PromptsAreDue

\* Every step keeps the invariant.
LEMMA ReliefKeeps == ReliefInv /\ [ReliefNext]_reliefVars => ReliefInv'
<1> SUFFICES ASSUME ReliefInv, [ReliefNext]_reliefVars PROVE ReliefInv'
  OBVIOUS
<1>1. CASE UNCHANGED reliefVars \/ Activity \/ AlertCard
  <2>1. UNCHANGED <<age, relief, ago, unstamped, early>>
    BY <1>1 DEF reliefVars, Activity, AlertCard, tables
  <2> QED
    BY <2>1 DEF ReliefInv, ReliefTypes, StampsAreTrue, AloneIsAlone, PromptsAreDue, TiersAreSpaced, Urgent, Posting
<1>2. CASE ReliefTick
  BY <1>2, ReliefTickKeeps
<1>3. CASE WatcherPolls
  BY <1>3, ReadBeginsIsQuiet DEF WatcherPolls, Askers, tables
<1>4. ASSUME NEW v, ShouldSynthesize(v) PROVE ReliefInv'
  BY <1>4, ReadBeginsIsQuiet DEF ShouldSynthesize, Askers, tables
<1>5. ASSUME NEW a \in Askers, Fire(a) PROVE ReliefInv'
  <2>1. ASSUME NEW v, NEW ok \in BOOLEAN, Bite(a, v, ok) PROVE ReliefInv'
    <3>1. UNCHANGED <<age, ago, unstamped, early>> /\ FireReturns(a)
      BY <2>1 DEF Bite, tables
    <3> QED
      BY <3>1, ReadBeginsIsQuiet DEF FireReturns
  <2> QED
    BY <1>5, <2>1, VolumeReadKeeps, RecentAlertKeeps, PostKeeps DEF Fire
<1>6. ASSUME NEW a \in Askers, NEW wanted \in Tiers \cup {"none"}, FirePulse(a, wanted) PROVE ReliefInv'
  BY <1>6, ReadBeginsIsQuiet DEF FirePulse, tables
<1> QED
  BY <1>1, <1>2, <1>3, <1>4, <1>5, <1>6, StampFailsKeeps, ReliefRestartKeeps DEF ReliefNext

\* A tier's prompt lands no sooner than its cool-down after the last one (fire_relief).
THEOREM TierPromptsAreSpaced == ReliefSpec => []TiersAreSpaced
<1>1. ReliefInv => TiersAreSpaced
  BY DEF ReliefInv
<1> QED
  BY <1>1, ReliefStarts, ReliefKeeps, PTL DEF ReliefSpec

-----------------------------------------------------------------------------
(* Follow.                                                                   *)
\* A capture as it is kept.
ShotPcs ==
  {"settings", "checks", "pictures", "uploads", "reads", "lists", "listed", "after", "done", "dropped"}
Reasons == {"navigation", "blur", "scroll", "manual"}
AShotRecord ==
  [pc : ShotPcs, tab : Tabs, page : Pages, reason : Reasons, to : Nat, known : SUBSET (Pages \cup Shunned),
   pic : Pages \cup {none}, moved : BOOLEAN, was : SUBSET (Pages \cup Shunned), on : BOOLEAN, seen : Seq(Nat)]
FollowTypes ==
  /\ shows \in [Tabs -> Pages] /\ front \in Tabs /\ armed \in BOOLEAN /\ blocklist \subseteq Pages \cup Shunned
  /\ shots \in Seq(AShotRecord) /\ timers \in [Tabs -> Nat] /\ recents \in Seq(Nat)
  /\ revoking \in [of : Nat, seen : Seq(Nat)]
  /\ lastAt \in [Tabs -> Nat] /\ begun \in [Tabs -> Nat] /\ eased \subseteq Tabs /\ tick \in Nat
\* The stamp of a tab's cool-down is that of its last capture that passed, unless it was
\* taken back.
StampsAreShots == \A t \in Tabs : begun[t] # 0 /\ t \notin eased => lastAt[t] = begun[t]
FollowInv == FollowTypes /\ StampsAreShots /\ tooSoon = FALSE

USE FollowBounds DEF FollowBounds

\* No capture, no stamp.
LEMMA FollowStarts == FollowInit => FollowInv
<1> SUFFICES ASSUME FollowInit PROVE FollowInv
  OBVIOUS
<1>1. shots \in Seq(AShotRecord) /\ recents \in Seq(Nat) /\ revoking \in [of : Nat, seen : Seq(Nat)]
  BY DEF FollowInit, NoRemoval
<1>2. FollowTypes
  BY <1>1 DEF FollowInit, FollowTypes, none
<1> QED
  BY <1>2 DEF FollowInit, FollowInv, StampsAreShots

\* A capture that has not read the list.
LEMMA NothingSeen == <<>> \in Seq(Nat)
OBVIOUS

\* A capture that begins.
LEMMA AShot ==
  ASSUME FollowTypes, NEW t \in Tabs, NEW reason \in Reasons, NEW to \in Nat
  PROVE  Shot(t, reason, to) \in AShotRecord /\ Shot(t, reason, to).tab = t
<1>1. PICK moved \in BOOLEAN : moved = (t # front)
  OBVIOUS
<1>2. Shot(t, reason, to) =
        [pc |-> "settings", tab |-> t, page |-> shows[t], reason |-> reason, to |-> to, known |-> {}, pic |-> none,
         moved |-> moved, was |-> blocklist, on |-> armed, seen |-> <<>>]
  BY <1>1 DEF Shot
<1>3. shows[t] \in Pages /\ none \in Pages \cup {none} /\ blocklist \in SUBSET (Pages \cup Shunned) /\ armed \in BOOLEAN
  BY DEF FollowTypes
<1>4. <<>> \in Seq(Nat)
  BY NothingSeen
<1>5. {} \in SUBSET (Pages \cup Shunned)
  OBVIOUS
<1>8. "settings" \in ShotPcs
  BY DEF ShotPcs
<1>6. Shot(t, reason, to).tab = t
  BY <1>2
<1>7. Shot(t, reason, to) \in AShotRecord
  BY <1>1, <1>2, <1>3, <1>4, <1>5, <1>8 DEF AShotRecord
<1> QED
  BY <1>6, <1>7

\* The captures with a new one.
LEMMA BegunShots ==
  ASSUME FollowTypes, NEW t \in Tabs, NEW reason \in Reasons, NEW to \in Nat, BeginShot(t, reason, to)
  PROVE  shots' \in Seq(AShotRecord)
<1>1. Shot(t, reason, to) \in AShotRecord /\ shots \in Seq(AShotRecord)
  BY AShot DEF FollowTypes
<1>2. shots' = Append(shots, Shot(t, reason, to))
  BY DEF BeginShot
<1>3. PICK s \in AShotRecord : s = Shot(t, reason, to)
  BY <1>1
<1> QED
  BY <1>1, <1>2, <1>3

\* What a capture holds.
LEMMA ShotTypes ==
  ASSUME FollowTypes, NEW k \in DOMAIN shots PROVE shots[k] \in AShotRecord /\ shots[k].tab \in Tabs /\ shots[k].seen \in Seq(Nat)
<1>1. shots[k] \in AShotRecord
  BY DEF FollowTypes
<1> QED
  BY <1>1 DEF AShotRecord

\* A capture that goes on.
LEMMA ShotSteps ==
  ASSUME NEW s \in AShotRecord, NEW pc \in ShotPcs
  PROVE  /\ [s EXCEPT !.pc = pc] \in AShotRecord
         /\ \A known \in SUBSET (Pages \cup Shunned) : [s EXCEPT !.pc = pc, !.known = known] \in AShotRecord
         /\ \A pic \in Pages \cup {none} : [s EXCEPT !.pc = pc, !.pic = pic] \in AShotRecord
         /\ \A list \in Seq(Nat) : [s EXCEPT !.pc = pc, !.seen = list] \in AShotRecord
         /\ \A page \in Pages : [s EXCEPT !.page = page] \in AShotRecord
<1>1. [s EXCEPT !.pc = pc] \in AShotRecord
  BY DEF AShotRecord
<1>2. \A known \in SUBSET (Pages \cup Shunned) : [s EXCEPT !.pc = pc, !.known = known] \in AShotRecord
  BY DEF AShotRecord
<1>3. \A pic \in Pages \cup {none} : [s EXCEPT !.pc = pc, !.pic = pic] \in AShotRecord
  BY DEF AShotRecord
<1>4. \A list \in Seq(Nat) : [s EXCEPT !.pc = pc, !.seen = list] \in AShotRecord
  BY DEF AShotRecord
<1>5. \A page \in Pages : [s EXCEPT !.page = page] \in AShotRecord
  BY DEF AShotRecord
<1> QED
  BY <1>1, <1>2, <1>3, <1>4, <1>5

\* The captures with one that has gone on.
LEMMA SetShots ==
  ASSUME FollowTypes, NEW k \in DOMAIN shots, NEW s \in AShotRecord, Set(k, s)
  PROVE  shots' \in Seq(AShotRecord)
<1>1. shots' = [shots EXCEPT ![k] = s]
  BY DEF Set
<1>2. DOMAIN shots = 1..Len(shots) /\ Len(shots) \in Nat
  BY DEF FollowTypes
<1>3. shots \in [1..Len(shots) -> AShotRecord] /\ k \in 1..Len(shots)
  BY <1>2 DEF FollowTypes
<1>4. shots' \in [1..Len(shots) -> AShotRecord]
  BY <1>1, <1>3
<1> QED
  BY <1>2, <1>4

\* The captures changed one by one.
LEMMA ShotsAreASequence ==
  ASSUME FollowTypes, NEW list \in [DOMAIN shots -> AShotRecord] PROVE list \in Seq(AShotRecord)
<1>1. DOMAIN shots = 1..Len(shots) /\ Len(shots) \in Nat
  BY DEF FollowTypes
<1> QED
  BY <1>1

\* The captures when the window changes.
LEMMA MovedShots == ASSUME FollowTypes PROVE Moved \in Seq(AShotRecord)
<1>1. ASSUME NEW k \in DOMAIN shots PROVE [shots[k] EXCEPT !.moved = @ \/ Unpictured(shots[k])] \in AShotRecord
  <2>1. PICK moved \in BOOLEAN : moved = (shots[k].moved \/ Unpictured(shots[k]))
    OBVIOUS
  <2>2. shots[k] \in AShotRecord
    BY DEF FollowTypes
  <2>3. [shots[k] EXCEPT !.moved = moved] \in AShotRecord
    BY <2>1, <2>2 DEF AShotRecord
  <2> QED
    BY <2>1, <2>3
<1>2. Moved \in [DOMAIN shots -> AShotRecord]
  BY <1>1 DEF Moved
<1> QED
  BY <1>2, ShotsAreASequence

\* The captures when the user pauses or goes on.
LEMMA EnabledShots ==
  ASSUME FollowTypes, NEW on \in BOOLEAN, SetEnabled(on) PROVE shots' \in Seq(AShotRecord)
<1>1. ASSUME NEW k \in DOMAIN shots PROVE [shots[k] EXCEPT !.on = @ \/ on] \in AShotRecord
  <2>1. PICK now \in BOOLEAN : now = (shots[k].on \/ on)
    OBVIOUS
  <2>2. shots[k] \in AShotRecord
    BY DEF FollowTypes
  <2>3. [shots[k] EXCEPT !.on = now] \in AShotRecord
    BY <2>1, <2>2 DEF AShotRecord
  <2> QED
    BY <2>1, <2>3
<1>2. shots' \in [DOMAIN shots -> AShotRecord]
  BY <1>1 DEF SetEnabled
<1> QED
  BY <1>2, ShotsAreASequence

\* The list cut off at its limit is one.
LEMMA KeptIsAList ==
  ASSUME NEW list \in Seq(Nat), NEW k \in Nat PROVE Kept(<<k>> \o list) \in Seq(Nat)
<1>1. PICK all \in Seq(Nat) : all = <<k>> \o list
  <2>1. <<k>> \in Seq(Nat)
    OBVIOUS
  <2>2. <<k>> \o list \in Seq(Nat)
    BY <2>1
  <2> QED
    BY <2>2
<1>2. PICK n : n = IF Len(all) < MaxRecents THEN Len(all) ELSE MaxRecents
  OBVIOUS
<1>3. n \in 0..Len(all)
  BY <1>2
<1>4. SubSeq(all, 1, n) \in Seq(Nat)
  BY <1>3
<1> QED
  BY <1>1, <1>2, <1>4 DEF Kept

\* A set of numbers has a least one.
LEMMA LeastOnes == ASSUME NEW I \in SUBSET Nat, I # {} PROVE Min(I) \in I
<1> DEFINE R == OpToRel(<, Nat)
<1>0. IsWellFoundedOn(R, Nat) /\ I \subseteq Nat
  BY NatLessThanWellFounded
<1>r. \A i, j \in Nat : j < i => <<j, i>> \in R
  BY DEF OpToRel
<1> HIDE DEF R
<1>1. PICK i \in I : \A j \in I : ~(<<j, i>> \in R)
  BY <1>0, WFMin
<1>2. ASSUME NEW j \in I PROVE i <= j
  <2>1. i \in Nat /\ j \in Nat
    BY <1>0
  <2>2. ~(j < i)
    BY <2>1, <1>1, <1>r
  <2> QED
    BY <2>1, <2>2
<1> QED
  BY <1>2 DEF Min

\* The list without one of its entries is one.
LEMMA RemovedIsAList ==
  ASSUME NEW list \in Seq(Nat), NEW k PROVE RemoveFirst(list, k) \in Seq(Nat)
<1> DEFINE I == {i \in 1..Len(list) : list[i] = k}
<1>1. CASE I = {}
  BY <1>1 DEF RemoveFirst
<1>2. CASE I # {}
  <2>1. Min(I) \in I
    <3>1. I \in SUBSET Nat
      OBVIOUS
    <3> HIDE DEF I
    <3> QED
      BY <1>2, <3>1, LeastOnes
  <2>2. RemoveFirst(list, k) = RemoveAt(list, Min(I))
    BY <1>2 DEF RemoveFirst, SelectInSeq
  <2>3. PICK i \in 1..Len(list) : i = Min(I)
    BY <2>1
  <2>4. SubSeq(list, 1, i - 1) \in Seq(Nat) /\ SubSeq(list, i + 1, Len(list)) \in Seq(Nat)
    OBVIOUS
  <2>5. SubSeq(list, 1, i - 1) \o SubSeq(list, i + 1, Len(list)) \in Seq(Nat)
    BY <2>4
  <2> QED
    BY <2>2, <2>3, <2>5 DEF RemoveAt
<1> QED
  BY <1>1, <1>2

\* The steps of a capture but its check keep the types.
LEMMA SetKeepsTypes ==
  ASSUME FollowTypes, NEW k \in DOMAIN shots, NEW s \in AShotRecord, Set(k, s),
         recents' \in Seq(Nat), UNCHANGED <<user, timers, lastAt, begun, eased, tick>>
  PROVE  FollowTypes'
BY SetShots DEF FollowTypes, user


\* Every step keeps the types.
LEMMA FollowKeepsTypes == FollowTypes /\ [FollowNext]_followVars => FollowTypes'
<1> SUFFICES ASSUME FollowTypes, [FollowNext]_followVars PROVE FollowTypes'
  OBVIOUS
<1> USE DEF user, scrolls, ghosts
<1>0. none \in Nat
  BY DEF none
<1>1. CASE UNCHANGED followVars
  BY <1>1 DEF FollowTypes, followVars
<1>2. ASSUME NEW t \in Tabs, NEW page \in Pages, Navigates(t, page) PROVE FollowTypes'
  <2>1. PICK before \in {Moved, shots} : shots' = Append(before, [Shot(t, "navigation", none) EXCEPT !.page = page])
    BY <1>2 DEF Navigates
  <2>2. before \in Seq(AShotRecord)
    BY MovedShots DEF FollowTypes
  <2>3. [Shot(t, "navigation", none) EXCEPT !.page = page] \in AShotRecord
    <3>1. PICK s \in AShotRecord : s = Shot(t, "navigation", none)
      BY <1>0, AShot DEF Reasons
    <3> QED
      BY <3>1, ShotSteps DEF ShotPcs
  <2>4. shots' \in Seq(AShotRecord)
    BY <2>1, <2>2, <2>3
  <2>5. shows' \in [Tabs -> Pages]
    BY <1>2 DEF Navigates, FollowTypes
  <2> QED
    BY <1>2, <2>4, <2>5 DEF Navigates, FollowTypes
<1>3. ASSUME NEW t \in Tabs, Activates(t) PROVE FollowTypes'
  <2>1. shots' \in Seq(AShotRecord)
    BY <1>3, MovedShots DEF Activates
  <2> QED
    BY <1>3, <2>1 DEF Activates, FollowTypes
<1>4. ASSUME NEW t \in Tabs, Blurs(t) PROVE FollowTypes'
  <2>1. shots' \in Seq(AShotRecord)
    BY <1>0, <1>4, BegunShots DEF Reasons, Blurs
  <2> QED
    BY <1>4, <2>1 DEF Blurs, FollowTypes
<1>5. ASSUME NEW t \in Tabs, TimerFires(t) PROVE FollowTypes'
  <2>1. timers[t] \in Nat /\ timers' \in [Tabs -> Nat]
    BY <1>0, <1>5 DEF TimerFires, FollowTypes
  <2>2. shots' \in Seq(AShotRecord)
    BY <1>5, <2>1, BegunShots DEF Reasons, TimerFires
  <2> QED
    BY <1>5, <2>1, <2>2 DEF TimerFires, FollowTypes
<1>6. ASSUME NEW t \in Tabs, NEW to \in 0..FarEnough, Scrolls(t, to) PROVE FollowTypes'
  <2>1. to \in Nat
    OBVIOUS
  <2>2. timers' = [timers EXCEPT ![t] = none] \/ timers' = [timers EXCEPT ![t] = to]
    BY <1>6 DEF Scrolls
  <2>3. BeginShot(t, "scroll", to) \/ shots' = shots
    BY <1>6 DEF Scrolls
  <2>4. timers' \in [Tabs -> Nat]
    BY <1>0, <2>1, <2>2 DEF FollowTypes
  <2>5. shots' \in Seq(AShotRecord)
    BY <2>1, <2>3, BegunShots DEF Reasons, FollowTypes
  <2> QED
    BY <1>6, <2>4, <2>5 DEF Scrolls, FollowTypes
<1>7. CASE Manual
  <2>1. shots' \in Seq(AShotRecord)
    <3>1. front \in Tabs /\ BeginShot(front, "manual", none)
      BY <1>7 DEF Manual, FollowTypes
    <3> QED
      BY <1>0, <3>1, BegunShots DEF Reasons
  <2> QED
    BY <1>7, <2>1 DEF Manual, FollowTypes
<1>8. ASSUME NEW k \in DOMAIN shots, LoadSettings(k) PROVE FollowTypes'
  <2>1. [shots[k] EXCEPT !.pc = "checks", !.known = blocklist] \in AShotRecord
    BY ShotTypes, ShotSteps DEF ShotPcs, FollowTypes
  <2> QED
    BY <1>8, <2>1, SetKeepsTypes DEF LoadSettings, FollowTypes
<1>9. ASSUME NEW k \in DOMAIN shots, CheckShot(k) PROVE FollowTypes'
  <2>1. PICK pc \in {"pictures", "after"} : Set(k, [shots[k] EXCEPT !.pc = pc])
    BY <1>9 DEF CheckShot
  <2>2. [shots[k] EXCEPT !.pc = pc] \in AShotRecord /\ shots[k].tab \in Tabs
    BY ShotTypes, ShotSteps DEF ShotPcs
  <2>3. shots' \in Seq(AShotRecord)
    BY <2>1, <2>2, SetShots
  <2>4. lastAt' \in [Tabs -> Nat] /\ begun' \in [Tabs -> Nat] /\ eased' \subseteq Tabs
    BY <1>9, <2>2 DEF CheckShot, FollowTypes
  <2> QED
    BY <1>9, <2>3, <2>4 DEF CheckShot, FollowTypes
<1>10. ASSUME NEW k \in DOMAIN shots, NEW ok \in BOOLEAN, Picture(k, ok) PROVE FollowTypes'
  <2>1. [shots[k] EXCEPT !.pc = "uploads", !.pic = shows[front]] \in AShotRecord /\ [shots[k] EXCEPT !.pc = "after"] \in AShotRecord
    <3>1. shows[front] \in Pages
      BY DEF FollowTypes
    <3> QED
      BY <3>1, ShotTypes, ShotSteps DEF ShotPcs
  <2> QED
    BY <1>10, <2>1, SetKeepsTypes DEF Picture, FollowTypes
<1>11. ASSUME NEW k \in DOMAIN shots, NEW ok \in BOOLEAN, Upload(k, ok) PROVE FollowTypes'
  <2>1. PICK pc \in {"reads", "after"} : Set(k, [shots[k] EXCEPT !.pc = pc])
    BY <1>11 DEF Upload
  <2>2. [shots[k] EXCEPT !.pc = pc] \in AShotRecord
    BY ShotTypes, ShotSteps DEF ShotPcs
  <2> QED
    BY <1>11, <2>1, <2>2, SetKeepsTypes DEF Upload, FollowTypes
<1>12. ASSUME NEW k \in DOMAIN shots, ReadRecents(k) PROVE FollowTypes'
  <2>1. [shots[k] EXCEPT !.pc = "lists", !.seen = recents] \in AShotRecord
    BY ShotTypes, ShotSteps DEF ShotPcs, FollowTypes
  <2> QED
    BY <1>12, <2>1, SetKeepsTypes DEF ReadRecents, FollowTypes
<1>13. ASSUME NEW k \in DOMAIN shots, WriteRecents(k) PROVE FollowTypes'
  <2>1. [shots[k] EXCEPT !.pc = "listed"] \in AShotRecord /\ shots[k].seen \in Seq(Nat)
    BY ShotTypes, ShotSteps DEF ShotPcs
  <2>2. k \in Nat
    BY DEF FollowTypes
  <2>3. recents' \in Seq(Nat)
    BY <1>13, <2>1, <2>2, KeptIsAList DEF WriteRecents
  <2> QED
    BY <1>13, <2>1, <2>3, SetKeepsTypes DEF WriteRecents, FollowTypes
<1>14. ASSUME NEW k \in DOMAIN shots, After(k) PROVE FollowTypes'
  <2>1. PICK pc \in {"done", "dropped"} : Set(k, [shots[k] EXCEPT !.pc = pc, !.seen = <<>>])
    BY <1>14 DEF After
  <2>2. [shots[k] EXCEPT !.pc = pc, !.seen = <<>>] \in AShotRecord
    BY NothingSeen, ShotTypes, ShotSteps DEF ShotPcs
  <2> QED
    BY <1>14, <2>1, <2>2, SetKeepsTypes DEF After, FollowTypes
<1>15. ASSUME NEW k, Revoke(k) PROVE FollowTypes'
  <2>1. revoking' \in [of : Nat, seen : Seq(Nat)]
    BY <1>15, SMTT(20) DEF Revoke, FollowTypes, ToSet
  <2> QED
    BY <1>15, <2>1 DEF Revoke, FollowTypes
<1>16. CASE Revoked
  <2>1. revoking.seen \in Seq(Nat) /\ NoRemoval \in [of : Nat, seen : Seq(Nat)]
    BY NothingSeen DEF FollowTypes, NoRemoval
  <2>2. recents' \in Seq(Nat)
    BY <1>16, <2>1, RemovedIsAList DEF Revoked
  <2> QED
    BY <1>16, <2>1, <2>2 DEF Revoked, FollowTypes
<1>17. CASE BlockPage
  <2>1. shows[front] \in Pages
    BY DEF FollowTypes
  <2> QED
    BY <1>17, <2>1 DEF BlockPage, FollowTypes
<1>18. CASE Sleeps
  <2>1. lastAt' = [t \in Tabs |-> 0] /\ timers' = [t \in Tabs |-> none] /\ eased' = Tabs
    BY <1>18 DEF Sleeps
  <2>2. lastAt' \in [Tabs -> Nat] /\ timers' \in [Tabs -> Nat]
    BY <1>0, <2>1
  <2>3. UNCHANGED <<user, shots, recents, begun, tick>>
    BY <1>18 DEF Sleeps
  <2> QED
    BY <2>1, <2>2, <2>3 DEF FollowTypes
<1>19. CASE Passes
  BY <1>19 DEF Passes, FollowTypes
<1>20. ASSUME NEW on \in BOOLEAN, SetEnabled(on) PROVE FollowTypes'
  BY <1>20, EnabledShots DEF SetEnabled, FollowTypes
<1> QED
  BY <1>1, <1>2, <1>3, <1>4, <1>5, <1>6, <1>7, <1>8, <1>9, <1>10, <1>11, <1>12, <1>13, <1>14, <1>15, <1>16, <1>17, <1>18,
     <1>19, <1>20 DEF FollowNext

\* Every step keeps stamps true, and with them the distance.
LEMMA FollowKeeps == FollowInv /\ [FollowNext]_followVars => FollowInv'
<1> SUFFICES ASSUME FollowInv, [FollowNext]_followVars PROVE FollowInv'
  OBVIOUS
<1> USE DEF FollowInv, ghosts
<1>1. FollowTypes'
  BY FollowKeepsTypes
<1>2. CASE UNCHANGED <<lastAt, begun, tooSoon, eased>>
  BY <1>1, <1>2 DEF StampsAreShots
<1>3. CASE Manual
  <2>1. front \in Tabs /\ lastAt' = [lastAt EXCEPT ![front] = 0] /\ eased' = eased \cup {front} /\ UNCHANGED <<begun, tooSoon>>
    BY <1>3 DEF Manual, FollowTypes
  <2>2. StampsAreShots'
    BY <2>1 DEF StampsAreShots, FollowTypes
  <2> QED
    BY <1>1, <2>1, <2>2
<1>4. CASE Sleeps
  <2>1. eased' = Tabs /\ UNCHANGED tooSoon
    BY <1>4 DEF Sleeps
  <2> QED
    BY <1>1, <2>1 DEF StampsAreShots
<1>5. ASSUME NEW k \in DOMAIN shots, CheckShot(k), ~UNCHANGED <<lastAt, begun, tooSoon, eased>> PROVE FollowInv'
  <2> DEFINE t == shots[k].tab
  <2>1. /\ CooledDown(t) /\ lastAt' = [lastAt EXCEPT ![t] = tick]
        /\ begun' = [begun EXCEPT ![t] = tick] /\ eased' = eased \ {t}
        /\ tooSoon' = (tooSoon \/ (begun[t] # 0 /\ tick - begun[t] < ShotRest /\ t \notin eased))
    BY <1>5 DEF CheckShot
  <2>2. t \in Tabs
    BY ShotTypes
  <2>3. StampsAreShots'
    BY <2>1, <2>2 DEF StampsAreShots, FollowTypes
  <2>4. begun[t] # 0 /\ t \notin eased => ~(tick - begun[t] < ShotRest)
    BY <2>1, <2>2, SMTT(20) DEF StampsAreShots, FollowTypes, CooledDown
  <2>5. ~tooSoon'
    BY <2>1, <2>4
  <2>6. tooSoon' \in BOOLEAN
    BY <2>1
  <2> QED
    BY <1>1, <2>3, <2>5, <2>6
<1>6. UNCHANGED <<lastAt, begun, tooSoon, eased>> \/ Manual \/ Sleeps \/ \E k \in DOMAIN shots : CheckShot(k)
  BY DEF FollowNext, followVars, Navigates, Activates, Blurs, TimerFires, Scrolls, LoadSettings, ReadRecents, WriteRecents,
         After, Revoke, Picture, Upload, Revoked, BlockPage, Passes, SetEnabled
<1> QED
  BY <1>2, <1>3, <1>4, <1>5, <1>6

\* A tab's captures keep their distance (captureTab).
THEOREM ScreenshotsAreSpaced == FollowSpec => []ShotsAreSpaced
<1>1. FollowInv => ShotsAreSpaced
  BY DEF FollowInv, ShotsAreSpaced
<1> QED
  BY <1>1, FollowStarts, FollowKeeps, PTL DEF FollowSpec

-----------------------------------------------------------------------------
\* What holds of a capture in a window: as long as it is unpictured and the window
\* stayed, the tab shows its page; what was blocked at its trigger is known to it or
\* will be; and it was let through only when the user had it on.
InWindow(s, sh, fr, on, bl) ==
  /\ s.pc \in {"settings", "checks", "pictures"} /\ ~s.moved => fr = s.tab /\ sh[s.tab] = s.page
  /\ s.pc = "settings" => s.was \subseteq bl
  /\ s.pc = "checks" => s.was \subseteq s.known
  /\ s.pc \in {"settings", "checks"} /\ on => s.on
  /\ s.pc = "pictures" \/ s.pic # none => s.page \notin s.was /\ s.on
  /\ s.pic # none /\ ~s.moved => s.pic = s.page
ShotsAreSound == \A k \in DOMAIN shots : InWindow(shots[k], shows, front, armed, blocklist)

\* The shots of a step, told apart by what becomes of them.
LEMMA AppendedShots ==
  ASSUME NEW S, NEW b \in Seq(S), NEW n \in S, NEW c, c = Append(b, n)
  PROVE  /\ \A k \in DOMAIN b : k \in DOMAIN c /\ c[k] = b[k]
         /\ \A k \in DOMAIN c : k \in DOMAIN b \/ c[k] = n
         /\ \A k \in DOMAIN c : k \notin DOMAIN b => c[k] = n
<1>1. c \in Seq(S) /\ Len(c) = Len(b) + 1 /\ Len(b) \in Nat /\ c[Len(b) + 1] = n /\ \A i \in 1..Len(b) : c[i] = b[i]
  OBVIOUS
<1>2. DOMAIN b = 1..Len(b) /\ DOMAIN c = 1..Len(b) + 1
  BY <1>1
<1>3. \A i \in 1..Len(b) + 1 : i \in 1..Len(b) \/ i = Len(b) + 1
  BY <1>1
<1>4. \A i \in 1..Len(b) : i \in 1..Len(b) + 1
  BY <1>1
<1>5. \A k \in DOMAIN c : k \notin DOMAIN b => c[k] = n
  BY <1>1, <1>2, <1>3
<1> QED
  BY <1>1, <1>2, <1>4, <1>5

LEMMA BegunIsSound ==
  ASSUME FollowTypes, NEW t \in Tabs, NEW reason \in Reasons, NEW to \in Nat
  PROVE  /\ InWindow(Shot(t, reason, to), shows, front, armed, blocklist)
         /\ Shot(t, reason, to).pc = "settings" /\ Shot(t, reason, to).seen = << >>
<1>1. PICK moved \in BOOLEAN : moved = (t # front)
  OBVIOUS
<1>2. PICK on \in BOOLEAN : on = armed
  BY DEF FollowTypes
<1>3. PICK s : s = Shot(t, reason, to)
  OBVIOUS
<1>4. s = [pc |-> "settings", tab |-> t, page |-> shows[t], reason |-> reason, to |-> to, known |-> {}, pic |-> none,
           moved |-> moved, was |-> blocklist, on |-> on, seen |-> <<>>]
  BY <1>1, <1>2, <1>3 DEF Shot
<1>5. /\ s.pc = "settings" /\ s.tab = t /\ s.page = shows[t] /\ s.pic = none /\ s.was = blocklist /\ s.seen = << >>
  BY <1>4
<1>6. (s.moved <=> t # front) /\ (s.on <=> armed)
  BY <1>1, <1>2, <1>4
<1>7. InWindow(s, shows, front, armed, blocklist)
  BY <1>5, <1>6 DEF InWindow
<1> QED
  BY <1>3, <1>5, <1>7

LEMMA TurnedIsSound ==
  ASSUME FollowTypes, NEW t \in Tabs, NEW page \in Pages, NEW sh, sh = [shows EXCEPT ![t] = page],
         NEW s, s = [Shot(t, "navigation", none) EXCEPT !.page = page]
  PROVE  InWindow(s, sh, front, armed, blocklist) /\ s.pc = "settings" /\ s.seen = << >>
<1>1. PICK moved \in BOOLEAN : moved = (t # front)
  OBVIOUS
<1>2. PICK on \in BOOLEAN : on = armed
  BY DEF FollowTypes
<1>3. s = [pc |-> "settings", tab |-> t, page |-> page, reason |-> "navigation", to |-> none, known |-> {}, pic |-> none,
           moved |-> moved, was |-> blocklist, on |-> on, seen |-> <<>>]
  BY <1>1, <1>2 DEF Shot
<1>4. /\ s.pc = "settings" /\ s.tab = t /\ s.page = page /\ s.pic = none /\ s.was = blocklist /\ s.seen = << >>
  BY <1>3
<1>5. (s.moved <=> t # front) /\ (s.on <=> armed)
  <2>1. s.moved = moved /\ s.on = on
    BY ONLY <1>3
  <2>2. s.moved <=> t # front
    BY ONLY <1>1, <2>1
  <2>3. s.on <=> armed
    BY ONLY <1>2, <2>1
  <2> QED
    BY <2>2, <2>3
<1>6. sh[t] = page
  BY DEF FollowTypes
<1> QED
  BY <1>4, <1>5, <1>6 DEF InWindow

\* A capture when the window moves.
MovedOne(s) == [s EXCEPT !.moved = @ \/ Unpictured(s)]
LEMMA MovedIsSound ==
  ASSUME NEW s \in AShotRecord, NEW sh, NEW fr, NEW on, NEW bl, NEW sh2, NEW fr2, InWindow(s, sh, fr, on, bl)
  PROVE  /\ InWindow(MovedOne(s), sh2, fr2, on, bl)
         /\ MovedOne(s).pc = s.pc /\ MovedOne(s).seen = s.seen
<1>1. PICK moved \in BOOLEAN : moved = (s.moved \/ Unpictured(s))
  OBVIOUS
<1>2. PICK r : r = [s EXCEPT !.moved = moved]
  OBVIOUS
<1>3. r = MovedOne(s)
  BY <1>1, <1>2 DEF MovedOne
<1>4. /\ r.pc = s.pc /\ r.tab = s.tab /\ r.page = s.page /\ r.pic = s.pic /\ r.was = s.was /\ r.seen = s.seen /\ r.known = s.known
  BY <1>2 DEF AShotRecord
<1>5. (r.moved <=> s.moved \/ Unpictured(s)) /\ (r.on <=> s.on)
  BY <1>1, <1>2 DEF AShotRecord
<1>6. InWindow(r, sh2, fr2, on, bl)
  BY <1>4, <1>5 DEF InWindow, Unpictured
<1> QED
  BY <1>3, <1>4, <1>6

\* A capture when the user pauses, or goes on.
TurnedOn(s, on) == [s EXCEPT !.on = @ \/ on]
LEMMA EnabledIsSound ==
  ASSUME NEW s \in AShotRecord, NEW sh, NEW fr, NEW was, NEW on \in BOOLEAN, NEW bl, InWindow(s, sh, fr, was, bl)
  PROVE  /\ InWindow(TurnedOn(s, on), sh, fr, on, bl)
         /\ TurnedOn(s, on).pc = s.pc /\ TurnedOn(s, on).seen = s.seen
<1>1. PICK now \in BOOLEAN : now = (s.on \/ on)
  OBVIOUS
<1>2. PICK r : r = [s EXCEPT !.on = now]
  OBVIOUS
<1>3. r = TurnedOn(s, on)
  BY <1>1, <1>2 DEF TurnedOn
<1>4. /\ r.pc = s.pc /\ r.tab = s.tab /\ r.page = s.page /\ r.pic = s.pic /\ r.was = s.was /\ r.seen = s.seen /\ r.known = s.known
  BY <1>2 DEF AShotRecord
<1>5. (r.moved <=> s.moved) /\ (r.on <=> s.on \/ on)
  BY <1>1, <1>2 DEF AShotRecord
<1>6. InWindow(r, sh, fr, on, bl)
  BY <1>4, <1>5 DEF InWindow
<1> QED
  BY <1>3, <1>4, <1>6

\* A capture whose window shows another page behind it, or where more is blocked.
LEMMA ElsewhereIsSound ==
  ASSUME NEW s, NEW sh, NEW fr, NEW on, NEW bl, NEW sh2, NEW bl2, InWindow(s, sh, fr, on, bl),
         sh2[fr] = sh[fr], bl \subseteq bl2
  PROVE  InWindow(s, sh2, fr, on, bl2)
BY DEF InWindow

\* A capture that goes on.
LEMMA StepsAreSound ==
  ASSUME NEW s \in AShotRecord, NEW sh, NEW fr, NEW on, NEW bl, InWindow(s, sh, fr, on, bl)
  PROVE  /\ s.pc = "settings" => InWindow([s EXCEPT !.pc = "checks", !.known = bl], sh, fr, on, bl)
         /\ s.pc = "checks" /\ on /\ s.page \notin s.known => InWindow([s EXCEPT !.pc = "pictures"], sh, fr, on, bl)
         /\ s.pc = "pictures" => InWindow([s EXCEPT !.pc = "uploads", !.pic = sh[fr]], sh, fr, on, bl)
         /\ \A pc \in {"after", "reads", "listed"} : InWindow([s EXCEPT !.pc = pc], sh, fr, on, bl)
         /\ \A seen : \A pc \in {"lists", "done", "dropped"} : InWindow([s EXCEPT !.pc = pc, !.seen = seen], sh, fr, on, bl)
<1>1. s.moved \in BOOLEAN /\ s.on \in BOOLEAN
  BY DEF AShotRecord
<1>2. ASSUME s.pc = "settings" PROVE InWindow([s EXCEPT !.pc = "checks", !.known = bl], sh, fr, on, bl)
  <2>1. PICK r : r = [s EXCEPT !.pc = "checks", !.known = bl]
    OBVIOUS
  <2>2. /\ r.pc = "checks" /\ r.known = bl /\ r.tab = s.tab /\ r.page = s.page /\ r.pic = s.pic /\ r.was = s.was
    BY <2>1 DEF AShotRecord
  <2>3. r.moved = s.moved /\ r.on = s.on
    BY <2>1 DEF AShotRecord
  <2>4. InWindow(r, sh, fr, on, bl)
    BY <1>2, <2>2, <2>3 DEF InWindow
  <2> QED
    BY <2>1, <2>4
<1>3. ASSUME s.pc = "checks", on, s.page \notin s.known PROVE InWindow([s EXCEPT !.pc = "pictures"], sh, fr, on, bl)
  <2>1. PICK r : r = [s EXCEPT !.pc = "pictures"]
    OBVIOUS
  <2>2. /\ r.pc = "pictures" /\ r.known = s.known /\ r.tab = s.tab /\ r.page = s.page /\ r.pic = s.pic /\ r.was = s.was
    BY <2>1 DEF AShotRecord
  <2>3. r.moved = s.moved /\ r.on = s.on
    BY <2>1 DEF AShotRecord
  <2>4. s.on /\ s.page \notin s.was
    BY <1>3 DEF InWindow
  <2>5. InWindow(r, sh, fr, on, bl)
    BY <1>3, <2>2, <2>3, <2>4 DEF InWindow
  <2> QED
    BY <2>1, <2>5
<1>4. ASSUME s.pc = "pictures" PROVE InWindow([s EXCEPT !.pc = "uploads", !.pic = sh[fr]], sh, fr, on, bl)
  <2>1. PICK r : r = [s EXCEPT !.pc = "uploads", !.pic = sh[fr]]
    OBVIOUS
  <2>2. /\ r.pc = "uploads" /\ r.known = s.known /\ r.tab = s.tab /\ r.page = s.page /\ r.pic = sh[fr] /\ r.was = s.was
    BY <2>1 DEF AShotRecord
  <2>3. r.moved = s.moved /\ r.on = s.on
    BY <2>1 DEF AShotRecord
  <2>4. s.on /\ s.page \notin s.was /\ (~s.moved => sh[fr] = s.page)
    BY <1>4 DEF InWindow
  <2>5. InWindow(r, sh, fr, on, bl)
    BY <2>2, <2>3, <2>4 DEF InWindow
  <2> QED
    BY <2>1, <2>5
<1>5. ASSUME NEW pc \in {"after", "reads", "listed", "lists", "done", "dropped"}, NEW r, r.pc = pc, r.known = s.known,
             r.tab = s.tab, r.page = s.page, r.pic = s.pic, r.was = s.was, r.moved = s.moved, r.on = s.on
      PROVE  InWindow(r, sh, fr, on, bl)
  BY <1>5 DEF InWindow
<1>6. ASSUME NEW pc \in {"after", "reads", "listed"} PROVE InWindow([s EXCEPT !.pc = pc], sh, fr, on, bl)
  <2>1. PICK r : r = [s EXCEPT !.pc = pc]
    OBVIOUS
  <2>2. /\ r.pc = pc /\ r.known = s.known /\ r.tab = s.tab /\ r.page = s.page /\ r.pic = s.pic /\ r.was = s.was
        /\ r.moved = s.moved /\ r.on = s.on
    BY <2>1 DEF AShotRecord
  <2> QED
    BY <1>5, <2>1, <2>2
<1>7. ASSUME NEW seen, NEW pc \in {"lists", "done", "dropped"}
      PROVE  InWindow([s EXCEPT !.pc = pc, !.seen = seen], sh, fr, on, bl)
  <2>1. PICK r : r = [s EXCEPT !.pc = pc, !.seen = seen]
    OBVIOUS
  <2>2. /\ r.pc = pc /\ r.known = s.known /\ r.tab = s.tab /\ r.page = s.page /\ r.pic = s.pic /\ r.was = s.was
        /\ r.moved = s.moved /\ r.on = s.on
    BY <2>1 DEF AShotRecord
  <2> QED
    BY <1>5, <2>1, <2>2
<1> QED
  BY <1>2, <1>3, <1>4, <1>6, <1>7

\* Every step keeps the captures sound.
LEMMA SetShotsAre ==
  ASSUME FollowTypes, NEW k \in DOMAIN shots, NEW s, Set(k, s)
  PROVE  /\ DOMAIN shots' = DOMAIN shots /\ shots'[k] = s
         /\ \A j \in DOMAIN shots : j # k => shots'[j] = shots[j]
BY DEF Set, FollowTypes

LEMMA SetIsSound ==
  ASSUME FollowTypes, ShotsAreSound, NEW k \in DOMAIN shots, NEW s, Set(k, s),
         InWindow(s, shows, front, armed, blocklist), UNCHANGED <<shows, front, armed, blocklist>>
  PROVE  ShotsAreSound'
BY SetShotsAre DEF ShotsAreSound

LEMMA BeginIsSound ==
  ASSUME FollowTypes, ShotsAreSound, NEW t \in Tabs, NEW reason \in Reasons, NEW to \in Nat, BeginShot(t, reason, to),
         UNCHANGED <<shows, front, armed, blocklist>>
  PROVE  ShotsAreSound'
<1>1. PICK s \in AShotRecord : s = Shot(t, reason, to)
  BY AShot
<1>2. shots \in Seq(AShotRecord) /\ shots' = Append(shots, s)
  BY <1>1 DEF BeginShot, FollowTypes
<1>3. \A k \in DOMAIN shots' : (k \in DOMAIN shots /\ shots'[k] = shots[k]) \/ shots'[k] = s
  BY <1>2, AppendedShots
<1>4. InWindow(s, shows, front, armed, blocklist)
  BY <1>1, BegunIsSound
<1> QED
  BY <1>3, <1>4 DEF ShotsAreSound

LEMMA MovedAre ==
  ASSUME FollowTypes
  PROVE  DOMAIN Moved = DOMAIN shots /\ \A k \in DOMAIN shots : Moved[k] = MovedOne(shots[k]) /\ shots[k] \in AShotRecord
BY ShotTypes DEF Moved, MovedOne

LEMMA NavigatingIsSound ==
  ASSUME FollowTypes, ShotsAreSound, NEW t \in Tabs, NEW page \in Pages, Navigates(t, page)
  PROVE  ShotsAreSound'
<1>1. /\ shows' = [shows EXCEPT ![t] = page] /\ UNCHANGED <<front, armed, blocklist>>
      /\ shots' = Append(IF t = front THEN Moved ELSE shots, [Shot(t, "navigation", none) EXCEPT !.page = page])
  BY DEF Navigates
<1>2. PICK s : s = [Shot(t, "navigation", none) EXCEPT !.page = page]
  OBVIOUS
<1>3. PICK sh : sh = [shows EXCEPT ![t] = page]
  OBVIOUS
<1>4. InWindow(s, sh, front, armed, blocklist)
  BY <1>2, <1>3, TurnedIsSound
<1>5. s \in AShotRecord
  <2>1. PICK r \in AShotRecord : r = Shot(t, "navigation", none)
    BY AShot DEF Reasons, none
  <2> QED
    BY <1>2, <2>1, ShotSteps DEF ShotPcs
<1>6. PICK b : b = IF t = front THEN Moved ELSE shots
  OBVIOUS
<1>7. /\ b \in Seq(AShotRecord)
      /\ \A k \in DOMAIN b : InWindow(b[k], sh, front, armed, blocklist)
  <2>1. CASE t = front
    <3>1. b = Moved
      BY <1>6, <2>1
    <3> QED
      BY <3>1, MovedShots, MovedAre, MovedIsSound DEF ShotsAreSound
  <2>2. CASE t # front
    <3>1. b = shots /\ sh[front] = shows[front]
      BY <1>3, <1>6, <2>2 DEF FollowTypes
    <3> QED
      BY <3>1, ElsewhereIsSound DEF ShotsAreSound, FollowTypes
  <2> QED
    BY <2>1, <2>2
<1>8. PICK c : c = shots'
  OBVIOUS
<1>9. c = Append(b, s)
  BY <1>1, <1>2, <1>6, <1>8
<1>10. \A k \in DOMAIN c : k \notin DOMAIN b => c[k] = s
  BY <1>5, <1>7, <1>9, AppendedShots
<1>11. \A k \in DOMAIN b : c[k] = b[k]
  BY <1>5, <1>7, <1>9, AppendedShots
<1>12. \A k \in DOMAIN c : InWindow(c[k], sh, front, armed, blocklist)
  <2> TAKE k \in DOMAIN c
  <2>1. CASE k \in DOMAIN b
    BY <1>7, <1>11, <2>1
  <2>2. CASE k \notin DOMAIN b
    BY <1>4, <1>10, <2>2
  <2> QED
    BY <2>1, <2>2
<1> QED
  BY <1>1, <1>3, <1>8, <1>12 DEF ShotsAreSound

LEMMA FollowStaysSound == FollowTypes /\ ShotsAreSound /\ [FollowNext]_followVars => ShotsAreSound'
<1> SUFFICES ASSUME FollowTypes, ShotsAreSound, [FollowNext]_followVars PROVE ShotsAreSound'
  OBVIOUS
<1>0. none \in Nat
  BY DEF none
<1> USE DEF user
<1>1. ASSUME UNCHANGED <<shots, shows, front, armed, blocklist>> PROVE ShotsAreSound'
  BY <1>1 DEF ShotsAreSound
<1>3. ASSUME NEW t \in Tabs, Activates(t) PROVE ShotsAreSound'
  <2>1. shots' = Moved /\ UNCHANGED <<shows, armed, blocklist>>
    BY <1>3 DEF Activates
  <2>2. PICK fr : fr = front'
    OBVIOUS
  <2>3. \A k \in DOMAIN Moved : InWindow(Moved[k], shows, fr, armed, blocklist)
    BY MovedAre, MovedIsSound DEF ShotsAreSound
  <2> QED
    BY <2>1, <2>2, <2>3 DEF ShotsAreSound
<1>4. ASSUME NEW t \in Tabs, Blurs(t) PROVE ShotsAreSound'
  BY <1>0, <1>4, BeginIsSound DEF Blurs, Reasons
<1>5. ASSUME NEW t \in Tabs, TimerFires(t) PROVE ShotsAreSound'
  <2>1. timers[t] \in Nat
    BY DEF FollowTypes
  <2> QED
    BY <1>5, <2>1, BeginIsSound DEF TimerFires, Reasons
<1>6. ASSUME NEW t \in Tabs, NEW to \in 0..FarEnough, Scrolls(t, to) PROVE ShotsAreSound'
  <2>1. (BeginShot(t, "scroll", to) \/ shots' = shots) /\ UNCHANGED <<shows, front, armed, blocklist>>
    BY <1>6 DEF Scrolls
  <2> QED
    BY <1>1, <2>1, BeginIsSound DEF Reasons
<1>7. CASE Manual
  <2>1. front \in Tabs
    BY DEF FollowTypes
  <2> QED
    BY <1>0, <1>7, <2>1, BeginIsSound DEF Manual, Reasons
<1>8. ASSUME NEW k \in DOMAIN shots, LoadSettings(k) PROVE ShotsAreSound'
  <2>1. shots[k] \in AShotRecord /\ InWindow(shots[k], shows, front, armed, blocklist)
    BY ShotTypes DEF ShotsAreSound
  <2> QED
    BY <1>8, <2>1, StepsAreSound, SetIsSound DEF LoadSettings
<1>9. ASSUME NEW k \in DOMAIN shots, CheckShot(k) PROVE ShotsAreSound'
  <2>1. shots[k] \in AShotRecord /\ InWindow(shots[k], shows, front, armed, blocklist)
    BY ShotTypes DEF ShotsAreSound
  <2>2. \/ Set(k, [shots[k] EXCEPT !.pc = "after"])
        \/ shots[k].pc = "checks" /\ armed /\ shots[k].page \notin shots[k].known /\ Set(k, [shots[k] EXCEPT !.pc = "pictures"])
    BY <1>9 DEF CheckShot
  <2>3. UNCHANGED <<shows, front, armed, blocklist>>
    BY <1>9 DEF CheckShot
  <2> QED
    BY <2>1, <2>2, <2>3, StepsAreSound, SetIsSound
<1>10. ASSUME NEW k \in DOMAIN shots, NEW ok \in BOOLEAN, Picture(k, ok) PROVE ShotsAreSound'
  <2>1. shots[k] \in AShotRecord /\ InWindow(shots[k], shows, front, armed, blocklist)
    BY ShotTypes DEF ShotsAreSound
  <2>2. /\ shots[k].pc = "pictures" /\ UNCHANGED <<shows, front, armed, blocklist>>
        /\ \/ Set(k, [shots[k] EXCEPT !.pc = "after"])
           \/ Set(k, [shots[k] EXCEPT !.pc = "uploads", !.pic = shows[front]])
    BY <1>10 DEF Picture
  <2> QED
    BY <2>1, <2>2, StepsAreSound, SetIsSound
<1>11. ASSUME NEW k \in DOMAIN shots, NEW ok \in BOOLEAN, Upload(k, ok) PROVE ShotsAreSound'
  <2>1. shots[k] \in AShotRecord /\ InWindow(shots[k], shows, front, armed, blocklist)
    BY ShotTypes DEF ShotsAreSound
  <2>2. PICK pc \in {"reads", "after"} : Set(k, [shots[k] EXCEPT !.pc = pc])
    BY <1>11 DEF Upload
  <2> QED
    BY <1>11, <2>1, <2>2, StepsAreSound, SetIsSound DEF Upload
<1>12. ASSUME NEW k \in DOMAIN shots, ReadRecents(k) PROVE ShotsAreSound'
  <2>1. shots[k] \in AShotRecord /\ InWindow(shots[k], shows, front, armed, blocklist)
    BY ShotTypes DEF ShotsAreSound
  <2>2. InWindow([shots[k] EXCEPT !.pc = "lists", !.seen = recents], shows, front, armed, blocklist)
    BY <2>1, StepsAreSound
  <2> QED
    BY <1>12, <2>2, SetIsSound DEF ReadRecents
<1>13. ASSUME NEW k \in DOMAIN shots, WriteRecents(k) PROVE ShotsAreSound'
  <2>1. shots[k] \in AShotRecord /\ InWindow(shots[k], shows, front, armed, blocklist)
    BY ShotTypes DEF ShotsAreSound
  <2> QED
    BY <1>13, <2>1, StepsAreSound, SetIsSound DEF WriteRecents
<1>14. ASSUME NEW k \in DOMAIN shots, After(k) PROVE ShotsAreSound'
  <2>1. shots[k] \in AShotRecord /\ InWindow(shots[k], shows, front, armed, blocklist)
    BY ShotTypes DEF ShotsAreSound
  <2>2. PICK pc \in {"done", "dropped"} : Set(k, [shots[k] EXCEPT !.pc = pc, !.seen = <<>>])
    BY <1>14 DEF After
  <2>3. InWindow([shots[k] EXCEPT !.pc = pc, !.seen = <<>>], shows, front, armed, blocklist)
    BY <2>1, StepsAreSound
  <2> QED
    BY <1>14, <2>2, <2>3, SetIsSound DEF After
<1>17. CASE BlockPage
  <2>1. PICK bl : bl = blocklist'
    OBVIOUS
  <2>2. blocklist \subseteq bl /\ UNCHANGED <<shots, shows, front, armed>>
    BY <1>17, <2>1 DEF BlockPage
  <2>3. \A k \in DOMAIN shots : InWindow(shots[k], shows, front, armed, bl)
    BY <2>2, ElsewhereIsSound DEF ShotsAreSound
  <2> QED
    BY <2>1, <2>2, <2>3 DEF ShotsAreSound
<1>20. ASSUME NEW on \in BOOLEAN, SetEnabled(on) PROVE ShotsAreSound'
  <2>1. /\ armed' = on /\ UNCHANGED <<shows, front, blocklist>>
        /\ shots' = [k \in DOMAIN shots |-> TurnedOn(shots[k], on)]
    BY <1>20 DEF SetEnabled, TurnedOn
  <2>2. \A k \in DOMAIN shots : InWindow(TurnedOn(shots[k], on), shows, front, on, blocklist)
    BY ShotTypes, EnabledIsSound DEF ShotsAreSound
  <2>3. \A k \in DOMAIN shots : InWindow(TurnedOn(shots[k], on), shows, front, armed', blocklist)
    BY <2>1, <2>2
  <2> QED
    BY <2>1, <2>3 DEF ShotsAreSound
<1>21. UNCHANGED followVars \/ Revoked \/ Sleeps \/ Passes \/ (\E k \in DOMAIN shots : Revoke(k)) =>
         UNCHANGED <<shots, shows, front, armed, blocklist>>
  BY DEF followVars, Revoked, Sleeps, Passes, Revoke
<1> QED
  BY <1>1, <1>3, <1>4, <1>5, <1>6, <1>7, <1>8, <1>9, <1>10, <1>11, <1>12, <1>13, <1>14, <1>17,
     <1>20, <1>21, NavigatingIsSound DEF FollowNext

\* While no two writers of the list crossed each other, each has read it as it is; and
\* the list holds what was uploaded and not taken off, once, and all of it unless it is cut.
RecentsAreKept ==
  ~overwrote =>
    /\ \A k \in DOMAIN shots : shots[k].pc = "lists" => shots[k].seen = recents
    /\ revoking # NoRemoval => revoking.seen = recents /\ revoking.of \in ToSet(recents)
    /\ revoked \subseteq Listed /\ ToSet(recents) \subseteq Listed \ revoked
    /\ \A i, j \in DOMAIN recents : recents[i] = recents[j] => i = j
    /\ ToSet(recents) = Listed \ revoked \/ Cardinality(Listed) > MaxRecents

\* A step that leaves the list alone and lists nothing.
LEMMA QuietIsKept ==
  ASSUME RecentsAreKept, UNCHANGED <<recents, revoking, revoked, overwrote>>, Listed' = Listed,
         \A k \in DOMAIN shots' : shots'[k].pc = "lists" => k \in DOMAIN shots /\ shots[k].pc = "lists" /\ shots'[k].seen = shots[k].seen
  PROVE  RecentsAreKept'
BY DEF RecentsAreKept

\* Captures that begin, or that the window or the user changes.
Alike(b) ==
  /\ \A k \in DOMAIN shots : k \in DOMAIN b /\ b[k].pc = shots[k].pc /\ b[k].seen = shots[k].seen
  /\ \A k \in DOMAIN b : k \notin DOMAIN shots => b[k].pc = "settings"
LEMMA AlikeIsKept ==
  ASSUME RecentsAreKept, UNCHANGED <<recents, revoking, revoked, overwrote>>, Alike(shots')
  PROVE  RecentsAreKept'
<1>1. Listed' = Listed
  <2>1. \A k \in DOMAIN shots' : shots'[k].pc \in {"listed", "done"} => k \in DOMAIN shots /\ shots[k].pc \in {"listed", "done"}
    BY DEF Alike
  <2>2. \A k \in DOMAIN shots : shots[k].pc \in {"listed", "done"} => k \in DOMAIN shots' /\ shots'[k].pc \in {"listed", "done"}
    BY DEF Alike
  <2> QED
    BY <2>1, <2>2 DEF Listed
<1>2. \A k \in DOMAIN shots' : shots'[k].pc = "lists" => k \in DOMAIN shots /\ shots[k].pc = "lists" /\ shots'[k].seen = shots[k].seen
  BY DEF Alike
<1> QED
  BY <1>1, <1>2, QuietIsKept

LEMMA BegunAreAlike ==
  ASSUME FollowTypes, NEW b \in Seq(AShotRecord), Alike(b), NEW s \in AShotRecord, s.pc = "settings", shots' = Append(b, s)
  PROVE  Alike(shots')
<1>1. PICK c : c = shots'
  OBVIOUS
<1>2. c = Append(b, s)
  BY <1>1
<1>3. /\ \A k \in DOMAIN b : k \in DOMAIN c /\ c[k] = b[k]
      /\ \A k \in DOMAIN c : k \notin DOMAIN b => c[k] = s
  BY <1>2, AppendedShots
<1>4. Alike(c)
  BY <1>3 DEF Alike
<1> QED
  BY <1>1, <1>4

LEMMA BegunShotsAreAlike ==
  ASSUME FollowTypes, NEW t \in Tabs, NEW reason \in Reasons, NEW to \in Nat, BeginShot(t, reason, to)
  PROVE  Alike(shots')
<1>1. PICK s \in AShotRecord : s = Shot(t, reason, to)
  BY AShot
<1>2. s.pc = "settings"
  BY <1>1, BegunIsSound
<1>3. shots \in Seq(AShotRecord) /\ shots' = Append(shots, s)
  BY <1>1 DEF BeginShot, FollowTypes
<1>4. Alike(shots)
  BY DEF Alike
<1> QED
  BY <1>2, <1>3, <1>4, BegunAreAlike

LEMMA MovedAreAlike == ASSUME FollowTypes, ShotsAreSound PROVE Alike(Moved)
<1>1. ASSUME NEW k \in DOMAIN shots PROVE Moved[k].pc = shots[k].pc /\ Moved[k].seen = shots[k].seen
  <2>1. Moved[k] = MovedOne(shots[k]) /\ shots[k] \in AShotRecord /\ InWindow(shots[k], shows, front, armed, blocklist)
    BY MovedAre DEF ShotsAreSound
  <2> QED
    BY <2>1, MovedIsSound
<1> QED
  BY <1>1, MovedAre DEF Alike

LEMMA NavigatedAreAlike ==
  ASSUME FollowTypes, ShotsAreSound, NEW t \in Tabs, NEW page \in Pages, Navigates(t, page)
  PROVE  Alike(shots')
<1>1. PICK b \in {Moved, shots} : shots' = Append(b, [Shot(t, "navigation", none) EXCEPT !.page = page])
  BY DEF Navigates
<1>2. PICK s : s = [Shot(t, "navigation", none) EXCEPT !.page = page]
  OBVIOUS
<1>3. s \in AShotRecord
  <2>1. PICK r \in AShotRecord : r = Shot(t, "navigation", none)
    BY AShot DEF Reasons, none
  <2> QED
    BY <1>2, <2>1, ShotSteps DEF ShotPcs
<1>4. s.pc = "settings"
  <2>1. PICK sh : sh = [shows EXCEPT ![t] = page]
    OBVIOUS
  <2> QED
    BY <1>2, <2>1, TurnedIsSound
<1>5. b \in Seq(AShotRecord) /\ Alike(b)
  BY MovedShots, MovedAreAlike DEF FollowTypes, Alike
<1> QED
  BY <1>1, <1>2, <1>3, <1>4, <1>5, BegunAreAlike

\* A capture that goes on without the list.
LEMMA SetIsKept ==
  ASSUME FollowTypes, RecentsAreKept, NEW k \in DOMAIN shots, NEW s, Set(k, s),
         UNCHANGED <<recents, revoking, revoked, overwrote>>,
         s.pc # "lists", s.pc \in {"listed", "done"} <=> shots[k].pc \in {"listed", "done"}
  PROVE  RecentsAreKept'
<1>1. DOMAIN shots' = DOMAIN shots /\ shots'[k] = s /\ \A j \in DOMAIN shots : j # k => shots'[j] = shots[j]
  BY SetShotsAre
<1>2. Listed' = Listed
  BY <1>1 DEF Listed
<1>3. \A j \in DOMAIN shots' : shots'[j].pc = "lists" => j \in DOMAIN shots /\ shots[j].pc = "lists" /\ shots'[j].seen = shots[j].seen
  BY <1>1
<1> QED
  BY <1>2, <1>3, QuietIsKept

LEMMA GoingOnIsKept ==
  ASSUME FollowTypes, RecentsAreKept, NEW k \in DOMAIN shots, NEW s, Set(k, s),
         UNCHANGED <<recents, revoking, revoked, overwrote>>,
         s.pc \notin {"lists", "listed", "done"}, shots[k].pc \notin {"listed", "done"}
  PROVE  RecentsAreKept'
BY SetIsKept

LEMMA PcsOfSteps ==
  ASSUME NEW s \in AShotRecord, NEW pc
  PROVE  /\ [s EXCEPT !.pc = pc].pc = pc
         /\ \A known : [s EXCEPT !.pc = pc, !.known = known].pc = pc
         /\ \A pic : [s EXCEPT !.pc = pc, !.pic = pic].pc = pc
         /\ \A seen : [s EXCEPT !.pc = pc, !.seen = seen].pc = pc /\ [s EXCEPT !.pc = pc, !.seen = seen].seen = seen
BY DEF AShotRecord

LEMMA ReadingIsKept ==
  ASSUME FollowTypes, RecentsAreKept, NEW k \in DOMAIN shots, ReadRecents(k)
  PROVE  RecentsAreKept'
<1>1. PICK s : s = [shots[k] EXCEPT !.pc = "lists", !.seen = recents]
  OBVIOUS
<1>2. Set(k, s) /\ UNCHANGED <<recents, revoking, revoked, overwrote>> /\ shots[k].pc = "reads"
  BY <1>1 DEF ReadRecents, user, ghosts
<1>3. s.pc = "lists" /\ s.seen = recents
  BY <1>1, ShotTypes, PcsOfSteps
<1>4. DOMAIN shots' = DOMAIN shots /\ shots'[k] = s /\ \A j \in DOMAIN shots : j # k => shots'[j] = shots[j]
  BY <1>2, SetShotsAre
<1>5. Listed' = Listed
  BY <1>2, <1>3, <1>4 DEF Listed
<1> QED
  BY <1>2, <1>3, <1>4, <1>5 DEF RecentsAreKept

\* The captures that were listed are finitely many.
LEMMA ListedIsFinite == ASSUME FollowTypes PROVE IsFiniteSet(Listed) /\ Cardinality(Listed) \in Nat
<1>1. Listed \subseteq 1..Len(shots) /\ Len(shots) \in Nat
  BY DEF Listed, FollowTypes
<1>2. IsFiniteSet(1..Len(shots))
  BY <1>1, FS_Interval
<1> QED
  BY <1>1, <1>2, FS_Subset, FS_CardinalityType

\* What is kept of a list: all of it, or as much as fits.
LEMMA KeptLists ==
  ASSUME NEW all \in Seq(Nat), \A i, j \in DOMAIN all : all[i] = all[j] => i = j
  PROVE  /\ ToSet(Kept(all)) \subseteq ToSet(all)
         /\ \A i, j \in DOMAIN Kept(all) : Kept(all)[i] = Kept(all)[j] => i = j
         /\ Len(all) <= MaxRecents => ToSet(Kept(all)) = ToSet(all)
<1>1. PICK n \in 0..Len(all) :
        n = (IF Len(all) < MaxRecents THEN Len(all) ELSE MaxRecents) /\ (Len(all) <= MaxRecents => n = Len(all))
  <2>1. Len(all) \in Nat
    OBVIOUS
  <2>2. CASE Len(all) < MaxRecents
    <3>1. Len(all) \in 0..Len(all)
      BY <2>1
    <3> QED
      BY <2>2, <3>1
  <2>3. CASE ~(Len(all) < MaxRecents)
    <3>1. MaxRecents \in 0..Len(all) /\ (Len(all) <= MaxRecents => MaxRecents = Len(all))
      BY <2>1, <2>3
    <3> QED
      BY <2>3, <3>1
  <2> QED
    BY <2>2, <2>3
<1>2. DOMAIN all = 1..Len(all)
  OBVIOUS
<1>3. PICK u : u = SubSeq(all, 1, n)
  OBVIOUS
<1>4. Len(u) = n /\ DOMAIN u = 1..n /\ \A i \in 1..n : u[i] = all[i] /\ i \in DOMAIN all
  BY ONLY <1>3, PrefixesOfLists, all \in Seq(Nat), n \in 0..Len(all)
<1>5. Kept(all) = u
  BY <1>1, <1>3 DEF Kept
<1>6. ToSet(u) \subseteq ToSet(all) /\ \A i, j \in DOMAIN u : u[i] = u[j] => i = j
  BY <1>4 DEF ToSet
<1>7. n = Len(all) => ToSet(u) = ToSet(all)
  BY <1>2, <1>4 DEF ToSet
<1> QED
  BY <1>1, <1>5, <1>6, <1>7

LEMMA WritingIsKept ==
  ASSUME FollowTypes, RecentsAreKept, NEW k \in DOMAIN shots, WriteRecents(k)
  PROVE  RecentsAreKept'
<1> SUFFICES ASSUME ~overwrote' PROVE RecentsAreKept'
  BY DEF RecentsAreKept
<1>1. PICK s : s = [shots[k] EXCEPT !.pc = "listed"]
  OBVIOUS
<1>2. /\ Set(k, s) /\ recents' = Kept(<<k>> \o shots[k].seen) /\ overwrote' = (overwrote \/ Writers # {k})
      /\ UNCHANGED <<revoking, revoked>> /\ shots[k].pc = "lists" /\ s.pc = "listed"
  BY <1>1, ShotTypes, PcsOfSteps DEF WriteRecents, user
<1>3. ~overwrote /\ Writers = {k}
  BY <1>2
<1>4. shots[k].seen = recents /\ k \in Nat /\ k # 0 /\ recents \in Seq(Nat)
  <2>1. k \in 1..Len(shots) /\ Len(shots) \in Nat
    BY DEF FollowTypes
  <2>2. k \in Nat /\ k # 0
    BY <2>1
  <2> QED
    BY <1>2, <1>3, <2>2 DEF RecentsAreKept, FollowTypes
<1>5. revoking = NoRemoval /\ \A j \in DOMAIN shots : shots[j].pc = "lists" => j = k
  <2>1. 0 \notin Writers
    BY ONLY <1>3, <1>4
  <2>2. revoking = NoRemoval
    BY <2>1 DEF Writers
  <2>3. \A j \in DOMAIN shots : shots[j].pc = "lists" => j \in Writers
    BY DEF Writers
  <2> QED
    BY <1>3, <2>2, <2>3
<1>6. DOMAIN shots' = DOMAIN shots /\ shots'[k] = s /\ \A j \in DOMAIN shots : j # k => shots'[j] = shots[j]
  BY <1>2, SetShotsAre
<1>7. Listed' = Listed \cup {k} /\ k \notin Listed
  BY <1>2, <1>6 DEF Listed
<1>8. /\ revoked \subseteq Listed /\ ToSet(recents) \subseteq Listed \ revoked
      /\ \A i, j \in DOMAIN recents : recents[i] = recents[j] => i = j
      /\ ToSet(recents) = Listed \ revoked \/ Cardinality(Listed) > MaxRecents
  BY <1>3 DEF RecentsAreKept
<1>9. PICK all : all = Prepended(k, recents)
  OBVIOUS
<1>10. /\ all \in Seq(Nat) /\ Len(all) = Len(recents) + 1 /\ ToSet(all) = ToSet(recents) \cup {k}
       /\ \A i, j \in DOMAIN all : all[i] = all[j] => i = j
  <2>1. k \notin ToSet(recents)
    BY <1>7, <1>8
  <2> QED
    <3>1. PICK list \in Seq(Nat), new \in Nat : list = recents /\ new = k
      BY ONLY <1>4
    <3>2. all = Prepended(new, list)
      BY ONLY <1>9, <3>1
    <3>3. (\A i, j \in DOMAIN list : list[i] = list[j] => i = j) /\ new \notin ToSet(list) =>
            \A i, j \in DOMAIN all : all[i] = all[j] => i = j
      BY ONLY <3>2, PrependedLists
    <3>4. all \in Seq(Nat) /\ Len(all) = Len(list) + 1 /\ ToSet(all) = ToSet(list) \cup {new}
      BY ONLY <3>2, PrependedLists
    <3> QED
      BY ONLY <1>8, <2>1, <3>1, <3>3, <3>4
<1>11. /\ ToSet(recents') \subseteq ToSet(all)
       /\ \A i, j \in DOMAIN recents' : recents'[i] = recents'[j] => i = j
       /\ Len(all) <= MaxRecents => ToSet(recents') = ToSet(all)
  <2>1. recents' = Kept(all)
    BY <1>2, <1>4, <1>9 DEF Prepended
  <2> QED
    BY <1>10, <2>1, KeptLists
<1>12. ToSet(recents') = Listed' \ revoked \/ Cardinality(Listed') > MaxRecents
  <2>1. PICK T : T = Listed \cup {k}
    OBVIOUS
  <2>2. IsFiniteSet(T) /\ Cardinality(T) \in Nat /\ Cardinality(Listed) \in Nat /\ Cardinality(Listed) <= Cardinality(T)
    <3>1. IsFiniteSet(Listed) /\ Cardinality(Listed) \in Nat
      BY ListedIsFinite
    <3>2. IsFiniteSet(T)
      BY <2>1, <3>1, FS_AddElement
    <3> QED
      BY <2>1, <3>1, <3>2, FS_Subset, FS_CardinalityType
  <2>3. Len(all) <= Cardinality(T) /\ Len(all) \in Nat
    <3>1. all \in Seq(Nat) /\ IsFiniteSet(T) /\ ToSet(all) \subseteq T /\ \A i, j \in DOMAIN all : all[i] = all[j] => i = j
      BY <1>8, <1>10, <2>1, <2>2
    <3>2. Len(all) <= Cardinality(T)
      BY ONLY <3>1, ListsFit
    <3> QED
      BY ONLY <3>1, <3>2
  <2>4. CASE Cardinality(Listed) > MaxRecents
    BY <1>7, <2>1, <2>2, <2>4
  <2>5. CASE Len(all) > MaxRecents
    BY <1>7, <2>1, <2>2, <2>3, <2>5
  <2>6. CASE ToSet(recents) = Listed \ revoked /\ Len(all) <= MaxRecents
    BY <1>7, <1>8, <1>10, <1>11, <2>6
  <2> QED
    BY <1>8, <2>3, <2>4, <2>5, <2>6
<1>13. revoked \subseteq Listed' /\ ToSet(recents') \subseteq Listed' \ revoked
  BY <1>7, <1>8, <1>10, <1>11
<1>14. \A j \in DOMAIN shots' : shots'[j].pc # "lists"
  BY <1>2, <1>5, <1>6
<1> QED
  BY <1>2, <1>5, <1>11, <1>12, <1>13, <1>14 DEF RecentsAreKept

LEMMA RemovedLists ==
  ASSUME NEW list \in Seq(Nat), NEW k \in ToSet(list), \A i, j \in DOMAIN list : list[i] = list[j] => i = j
  PROVE  /\ ToSet(RemoveFirst(list, k)) = ToSet(list) \ {k}
         /\ \A i, j \in DOMAIN RemoveFirst(list, k) : RemoveFirst(list, k)[i] = RemoveFirst(list, k)[j] => i = j
<1> DEFINE I == {i \in 1..Len(list) : list[i] = k}
<1>1. I # {} /\ I \in SUBSET Nat
  BY SMTT(20) DEF ToSet
<1>2. RemoveFirst(list, k) = RemoveAt(list, Min(I))
  BY <1>1 DEF RemoveFirst, SelectInSeq
<1>3. Min(I) \in I
  <2> HIDE DEF I
  <2> QED
    BY <1>1, LeastOnes
<1>4. PICK p \in DOMAIN list : p = Min(I) /\ list[p] = k
  <2>1. PICK m : m = Min(I)
    OBVIOUS
  <2>2. m \in 1..Len(list) /\ list[m] = k
    BY <1>3, <2>1
  <2>3. m \in DOMAIN list
    BY <2>2
  <2> QED
    BY <2>1, <2>2, <2>3
<1>5. PICK u : u = RemoveFirst(list, k)
  OBVIOUS
<1>6. u = RemoveAt(list, p)
  BY <1>2, <1>4, <1>5
<1>7. /\ \A i, j \in DOMAIN u : u[i] = u[j] => i = j
      /\ {u[i] : i \in DOMAIN u} = {list[i] : i \in DOMAIN list} \ {list[p]}
  <2>1. list \in Seq(Nat) /\ p \in DOMAIN list
    OBVIOUS
  <2>2. /\ \A i, j \in DOMAIN RemoveAt(list, p) : RemoveAt(list, p)[i] = RemoveAt(list, p)[j] => i = j
        /\ {RemoveAt(list, p)[i] : i \in DOMAIN RemoveAt(list, p)} = {list[i] : i \in DOMAIN list} \ {list[p]}
    BY ONLY <2>1, RemovingOnce, \A i, j \in DOMAIN list : list[i] = list[j] => i = j
  <2> QED
    BY ONLY <1>6, <2>2
<1>8. ToSet(u) = ToSet(list) \ {k}
  BY <1>4, <1>7 DEF ToSet
<1> QED
  BY <1>5, <1>7, <1>8

LEMMA RevokedIsKept ==
  ASSUME FollowTypes, RecentsAreKept, Revoked
  PROVE  RecentsAreKept'
<1> SUFFICES ASSUME ~overwrote' PROVE RecentsAreKept'
  BY DEF RecentsAreKept
<1>1. /\ revoking # NoRemoval /\ revoking' = NoRemoval /\ recents' = RemoveFirst(revoking.seen, revoking.of)
      /\ revoked' = revoked \cup {revoking.of} /\ overwrote' = (overwrote \/ Writers # {0}) /\ shots' = shots
  BY DEF Revoked
<1>2. ~overwrote /\ Writers = {0}
  BY <1>1
<1>3. \A k \in DOMAIN shots : shots[k].pc # "lists"
  BY <1>2 DEF Writers, FollowTypes
<1>4. /\ revoking.seen = recents /\ revoking.of \in ToSet(recents) /\ recents \in Seq(Nat)
      /\ revoked \subseteq Listed /\ ToSet(recents) \subseteq Listed \ revoked
      /\ \A i, j \in DOMAIN recents : recents[i] = recents[j] => i = j
      /\ ToSet(recents) = Listed \ revoked \/ Cardinality(Listed) > MaxRecents
  BY <1>1, <1>2 DEF RecentsAreKept, FollowTypes
<1>5. /\ ToSet(recents') = ToSet(recents) \ {revoking.of}
      /\ \A i, j \in DOMAIN recents' : recents'[i] = recents'[j] => i = j
  <2>1. recents' = RemoveFirst(recents, revoking.of)
    BY <1>1, <1>4
  <2> QED
    BY <1>4, <2>1, RemovedLists
<1>6. Listed' = Listed
  BY <1>1 DEF Listed
<1>7. revoked' \subseteq Listed' /\ ToSet(recents') \subseteq Listed' \ revoked'
  BY <1>1, <1>4, <1>5, <1>6
<1>8. ToSet(recents') = Listed' \ revoked' \/ Cardinality(Listed') > MaxRecents
  BY <1>1, <1>4, <1>5, <1>6
<1> QED
  BY <1>1, <1>3, <1>5, <1>7, <1>8 DEF RecentsAreKept

LEMMA RevokingIsKept ==
  ASSUME FollowTypes, RecentsAreKept, NEW k \in DOMAIN shots, Revoke(k)
  PROVE  RecentsAreKept'
<1>1. /\ k \in ToSet(recents) /\ revoking' = [of |-> k, seen |-> recents]
      /\ UNCHANGED <<recents, revoked, shots, overwrote>> /\ Listed' = Listed
  BY DEF Revoke, ghosts, Listed
<1>2. revoking'.of = k /\ revoking'.seen = recents
  BY <1>1
<1> QED
  BY <1>1, <1>2 DEF RecentsAreKept

LEMMA RecentsStayKept == FollowTypes /\ ShotsAreSound /\ RecentsAreKept /\ [FollowNext]_followVars => RecentsAreKept'
<1> SUFFICES ASSUME FollowTypes, ShotsAreSound, RecentsAreKept, [FollowNext]_followVars PROVE RecentsAreKept'
  OBVIOUS
<1>0. none \in Nat /\ front \in Tabs
  BY DEF none, FollowTypes
<1> USE DEF user, ghosts
<1>1. ASSUME UNCHANGED <<shots, recents, revoking, revoked, overwrote>> PROVE RecentsAreKept'
  BY <1>1, AlikeIsKept DEF Alike
<1>2. ASSUME NEW t \in Tabs, NEW page \in Pages, Navigates(t, page) PROVE RecentsAreKept'
  BY <1>2, NavigatedAreAlike, AlikeIsKept DEF Navigates
<1>3. ASSUME NEW t \in Tabs, Activates(t) PROVE RecentsAreKept'
  BY <1>3, MovedAreAlike, AlikeIsKept DEF Activates
<1>4. ASSUME NEW t \in Tabs, Blurs(t) PROVE RecentsAreKept'
  BY <1>0, <1>4, BegunShotsAreAlike, AlikeIsKept DEF Blurs, Reasons
<1>5. ASSUME NEW t \in Tabs, TimerFires(t) PROVE RecentsAreKept'
  <2>1. timers[t] \in Nat
    BY DEF FollowTypes
  <2> QED
    BY <1>5, <2>1, BegunShotsAreAlike, AlikeIsKept DEF TimerFires, Reasons
<1>6. ASSUME NEW t \in Tabs, NEW to \in 0..FarEnough, Scrolls(t, to) PROVE RecentsAreKept'
  <2>1. (BeginShot(t, "scroll", to) \/ shots' = shots) /\ UNCHANGED <<recents, revoking, revoked, overwrote>>
    BY <1>6 DEF Scrolls
  <2> QED
    BY <1>1, <2>1, BegunShotsAreAlike, AlikeIsKept DEF Reasons
<1>7. CASE Manual
  BY <1>0, <1>7, BegunShotsAreAlike, AlikeIsKept DEF Manual, Reasons
<1>8. ASSUME NEW k \in DOMAIN shots, LoadSettings(k) PROVE RecentsAreKept'
  <2>1. PICK s : s = [shots[k] EXCEPT !.pc = "checks", !.known = blocklist]
    OBVIOUS
  <2>2. s.pc = "checks"
    BY <2>1, ShotTypes, PcsOfSteps
  <2>3. Set(k, s) /\ shots[k].pc = "settings" /\ UNCHANGED <<recents, revoking, revoked, overwrote>>
    BY <1>8, <2>1 DEF LoadSettings
  <2> QED
    BY <2>2, <2>3, GoingOnIsKept
<1>9. ASSUME NEW k \in DOMAIN shots, CheckShot(k) PROVE RecentsAreKept'
  <2>1. PICK pc \in {"pictures", "after"} : Set(k, [shots[k] EXCEPT !.pc = pc])
    BY <1>9 DEF CheckShot
  <2>2. shots[k].pc = "checks" /\ UNCHANGED <<recents, revoking, revoked, overwrote>>
    BY <1>9 DEF CheckShot
  <2>3. PICK s : s = [shots[k] EXCEPT !.pc = pc]
    OBVIOUS
  <2>4. s.pc = pc
    BY <2>3, ShotTypes, PcsOfSteps
  <2> QED
    BY <2>1, <2>2, <2>3, <2>4, GoingOnIsKept
<1>10. ASSUME NEW k \in DOMAIN shots, NEW ok \in BOOLEAN, Picture(k, ok) PROVE RecentsAreKept'
  <2>1. /\ shots[k].pc = "pictures" /\ UNCHANGED <<recents, revoking, revoked, overwrote>>
        /\ \/ Set(k, [shots[k] EXCEPT !.pc = "after"])
           \/ Set(k, [shots[k] EXCEPT !.pc = "uploads", !.pic = shows[front]])
    BY <1>10 DEF Picture
  <2>2. PICK s : Set(k, s) /\ (s = [shots[k] EXCEPT !.pc = "after"] \/ s = [shots[k] EXCEPT !.pc = "uploads", !.pic = shows[front]])
    BY <2>1
  <2>3. s.pc \in {"after", "uploads"}
    <3>1. shots[k] \in AShotRecord
      BY ShotTypes
    <3>2. [shots[k] EXCEPT !.pc = "after"].pc = "after" /\ [shots[k] EXCEPT !.pc = "uploads", !.pic = shows[front]].pc = "uploads"
      BY <3>1, PcsOfSteps
    <3> QED
      BY <2>2, <3>2
  <2> QED
    BY <2>1, <2>2, <2>3, GoingOnIsKept
<1>11. ASSUME NEW k \in DOMAIN shots, NEW ok \in BOOLEAN, Upload(k, ok) PROVE RecentsAreKept'
  <2>1. PICK pc \in {"reads", "after"} : Set(k, [shots[k] EXCEPT !.pc = pc])
    BY <1>11 DEF Upload
  <2>2. shots[k].pc = "uploads" /\ UNCHANGED <<recents, revoking, revoked, overwrote>>
    BY <1>11 DEF Upload
  <2>3. PICK s : s = [shots[k] EXCEPT !.pc = pc]
    OBVIOUS
  <2>4. s.pc = pc
    BY <2>3, ShotTypes, PcsOfSteps
  <2> QED
    BY <2>1, <2>2, <2>3, <2>4, GoingOnIsKept
<1>14. ASSUME NEW k \in DOMAIN shots, After(k) PROVE RecentsAreKept'
  <2>1. /\ shots[k].pc \in {"after", "listed"} /\ UNCHANGED <<recents, revoking, revoked, overwrote>>
        /\ Set(k, [shots[k] EXCEPT !.pc = IF shots[k].pc = "listed" THEN "done" ELSE "dropped", !.seen = <<>>])
    BY <1>14 DEF After
  <2>2. PICK pc : pc = IF shots[k].pc = "listed" THEN "done" ELSE "dropped"
    OBVIOUS
  <2>3. [shots[k] EXCEPT !.pc = pc, !.seen = <<>>].pc = pc
    BY ShotTypes, PcsOfSteps
  <2>4. PICK s : s = [shots[k] EXCEPT !.pc = pc, !.seen = <<>>]
    OBVIOUS
  <2>5. Set(k, s) /\ s.pc = pc
    BY <2>1, <2>2, <2>3, <2>4
  <2>6. CASE shots[k].pc = "listed"
    BY <2>1, <2>2, <2>5, <2>6, SetIsKept
  <2>7. CASE shots[k].pc = "after"
    BY <2>1, <2>2, <2>5, <2>7, GoingOnIsKept
  <2> QED
    BY <2>1, <2>6, <2>7
<1>20. ASSUME NEW on \in BOOLEAN, SetEnabled(on) PROVE RecentsAreKept'
  <2>1. /\ UNCHANGED <<recents, revoking, revoked, overwrote>>
        /\ shots' = [k \in DOMAIN shots |-> TurnedOn(shots[k], on)]
    BY <1>20 DEF SetEnabled, TurnedOn
  <2>2. \A k \in DOMAIN shots : TurnedOn(shots[k], on).pc = shots[k].pc /\ TurnedOn(shots[k], on).seen = shots[k].seen
    BY ShotTypes, EnabledIsSound DEF ShotsAreSound
  <2>3. Alike(shots')
    BY <2>1, <2>2 DEF Alike
  <2> QED
    BY <2>1, <2>3, AlikeIsKept
<1>21. UNCHANGED followVars \/ BlockPage \/ Sleeps \/ Passes => UNCHANGED <<shots, recents, revoking, revoked, overwrote>>
  BY DEF followVars, BlockPage, Sleeps, Passes
<1> QED
  BY <1>1, <1>2, <1>3, <1>4, <1>5, <1>6, <1>7, <1>8, <1>9, <1>10, <1>11, <1>14, <1>20, <1>21,
     ReadingIsKept, WritingIsKept, RevokedIsKept, RevokingIsKept DEF FollowNext

TruthInv == FollowTypes /\ ShotsAreSound /\ RecentsAreKept
LEMMA TruthStarts == FollowInit => TruthInv
<1> SUFFICES ASSUME FollowInit PROVE TruthInv
  OBVIOUS
<1>1. FollowTypes
  BY FollowStarts DEF FollowInv
<1>2. shots = << >> /\ recents = << >> /\ revoking = NoRemoval /\ revoked = {} /\ DOMAIN shots = {} /\ DOMAIN recents = {}
  BY DEF FollowInit
<1>3. Listed = {} /\ ToSet(recents) = {}
  BY <1>2 DEF Listed, ToSet
<1> QED
  BY <1>1, <1>2, <1>3 DEF TruthInv, ShotsAreSound, RecentsAreKept

LEMMA TruthIsTold == TruthInv => ShotsAreTrue /\ RecentsAreTrue
<1> SUFFICES ASSUME TruthInv PROVE ShotsAreTrue /\ RecentsAreTrue
  OBVIOUS
<1>1. ShotsAreTrue
  BY DEF TruthInv, ShotsAreSound, InWindow, ShotsAreTrue
<1>2. RecentsAreTrue
  BY DEF TruthInv, RecentsAreKept, RecentsAreTrue, IsInjective
<1> QED
  BY <1>1, <1>2

\* What the screenshots and the list of recent ones tell is true (captureTab, popup.js).
THEOREM ScreenshotsAreTrue == FollowSpec => [](ShotsAreTrue /\ RecentsAreTrue)
<1>1. TruthInv /\ [FollowNext]_followVars => TruthInv'
  BY FollowKeepsTypes, FollowStaysSound, RecentsStayKept DEF TruthInv
<1> QED
  BY <1>1, TruthStarts, TruthIsTold, PTL DEF FollowSpec

-----------------------------------------------------------------------------
(* Feed.                                                                     *)
\* What is kept of the items and of the writes.
Items == {Own(x) : x \in Displayed} \cup {Copy(x) : x \in Displayed}
Progress == [pc : {"no", "row", "cut", "done", "over"}, row : {"none", "known", "lost", "failed"}]
FeedTypes ==
  /\ puddle \subseteq Items /\ stored \in Seq(Displayed) /\ progress \in [Displayed -> Progress]
  /\ (bridge = NoBridge \/ (bridge \in [reply : Letters, card : {1, 2}, last : {1, 2}] /\ bridge.card <= bridge.last))
  /\ rehydrate \in [at : {"over", "reads", "copied"}, unread : SUBSET {"seeds", "cards"}, read : SUBSET Displayed]
  /\ view.items \subseteq Items /\ view.due \subseteq Displayed /\ owed \subseteq Displayed /\ overlapped \subseteq Displayed

\* A row is in the lake once, and only if it was written.
StoredOnce == \A i, j \in DOMAIN stored : stored[i] = stored[j] => i = j
RowsAreWritten ==
  \A x \in Displayed :
    /\ progress[x].pc = "no" <=> progress[x].row = "none"
    /\ x \in StoredRows => progress[x].row \in {"known", "lost"}
    /\ progress[x].pc = "row" /\ progress[x].row \in {"known", "lost"} => x \in StoredRows
ItemsAreWritten(items) ==
  \A x \in Displayed :
    /\ Own(x) \in items => progress[x].pc \in {"done", "over"}
    /\ Copy(x) \in items => progress[x].row \in {"known", "lost"}
ReadsAreWritten == \A x \in rehydrate.read : progress[x].row \in {"known", "lost"}

\* A card that is owed is in the lake, and a seed that was owed when the feed looked has an item.
OwedIsThere ==
  /\ \A x \in owed \cap Cards : x \in StoredRows
  /\ \A x \in owed \cap Seeds : Own(x) \in puddle \/ Copy(x) \in puddle
  /\ \A x \in view.due \cap Seeds : Own(x) \in view.items \/ Copy(x) \in view.items

\* A card that a restart reads has no item of its own, now or later, unless it was
\* being mirrored.
CopiesAreAlone ==
  \A x \in Cards : (x \in rehydrate.read \/ Copy(x) \in puddle) /\ x \notin overlapped =>
    Own(x) \notin puddle /\ progress[x].pc \notin {"no", "row"}
ViewsAreApart == \A x \in Cards : Own(x) \in view.items /\ Copy(x) \in view.items => x \in overlapped
NoneIsCopied ==
  "cards" \in rehydrate.unread =>
    \A x \in Cards : x \notin rehydrate.read /\ Copy(x) \notin puddle /\ Copy(x) \notin view.items

FeedInv ==
  /\ FeedTypes /\ StoredOnce /\ RowsAreWritten /\ ItemsAreWritten(puddle) /\ ItemsAreWritten(view.items) /\ ReadsAreWritten
  /\ OwedIsThere /\ CopiesAreAlone /\ ViewsAreApart /\ NoneIsCopied

-----------------------------------------------------------------------------
LEMMA CardsAndSeeds ==
  /\ Displayed = Seeds \cup Cards /\ Seeds \cap Cards = {} /\ Seeds \cap Letters = {}
  /\ \A x \in Cards : x[1] \in Letters /\ x[2] \in {1, 2} /\ x = <<x[1], x[2]>>
  /\ \A r \in Letters, n \in {1, 2} : <<r, n>> \in Cards
BY FeedBounds DEF Displayed, Cards

LEMMA ItemsDiffer ==
  /\ \A x \in Displayed : Own(x) \in Items /\ Copy(x) \in Items
  /\ \A x, y : /\ Own(x) # Copy(y) /\ (Own(x) = Own(y) => x = y) /\ (Copy(x) = Copy(y) => x = y)
               /\ Own(x).thing = x /\ ~Own(x).copy /\ Copy(x).thing = x /\ Copy(x).copy
BY DEF Items, Own, Copy

LEMMA FeedStarts == FeedInit => FeedInv
<1> SUFFICES ASSUME FeedInit PROVE FeedInv
  OBVIOUS
<1>1. /\ stored = << >> /\ puddle = {} /\ view.items = {} /\ view.due = {} /\ owed = {} /\ rehydrate.read = {}
      /\ rehydrate.unread = {} /\ StoredRows = {} /\ \A x \in Displayed : progress[x].pc = "no" /\ progress[x].row = "none"
  BY DEF FeedInit, NoView, Quiet, StoredRows
<1>2. FeedTypes
  BY <1>1 DEF FeedTypes, FeedInit, Progress, Quiet
<1> QED
  BY <1>1, <1>2 DEF FeedInv, StoredOnce, RowsAreWritten, ItemsAreWritten, ReadsAreWritten, OwedIsThere, CopiesAreAlone,
     ViewsAreApart, NoneIsCopied

LEMMA ProgressIsTyped ==
  ASSUME FeedInv, NEW x \in Displayed
  PROVE  /\ progress[x] \in Progress /\ progress[x].pc \in {"no", "row", "cut", "done", "over"}
         /\ progress[x].row \in {"none", "known", "lost", "failed"}
BY DEF FeedInv, FeedTypes, Progress

\* A row that is written is new to the lake.
LEMMA RowsAreNew ==
  ASSUME FeedInv, NEW x \in Displayed, NEW how \in {"known", "lost", "failed"}, StoreRow(x, how)
  PROVE  /\ stored' \in Seq(Displayed) /\ StoredOnce' /\ StoredRows' = StoredRows \cup (IF how = "failed" THEN {} ELSE {x})
<1>1. stored \in Seq(Displayed) /\ x \notin StoredRows /\ stored' = IF how = "failed" THEN stored ELSE Append(stored, x)
  BY DEF StoreRow, FeedInv, FeedTypes, RowsAreWritten
<1>2. CASE how = "failed"
  BY <1>1, <1>2 DEF FeedInv, StoredOnce, StoredRows
<1>3. CASE how # "failed"
  <2>1. /\ stored' \in Seq(Displayed) /\ Len(stored') = Len(stored) + 1 /\ stored'[Len(stored) + 1] = x
        /\ \A i \in 1..Len(stored) : stored'[i] = stored[i]
    BY <1>1, <1>3
  <2>2. Len(stored) \in Nat /\ DOMAIN stored = 1..Len(stored) /\ DOMAIN stored' = 1..Len(stored) + 1
    BY <1>1, <2>1
  <2>3. \A i \in 1..Len(stored) : stored[i] # x
    BY <1>1, <2>2 DEF StoredRows
  <2>4. StoredOnce'
    BY <2>1, <2>2, <2>3 DEF FeedInv, StoredOnce
  <2>5. \A i \in DOMAIN stored' : i \in 1..Len(stored) \/ i = Len(stored) + 1
    BY <2>2
  <2>6. StoredRows' = StoredRows \cup {x}
    <3>1. \A y \in StoredRows' : y \in StoredRows \cup {x}
      BY <2>1, <2>2, <2>5 DEF StoredRows
    <3>2. \A y \in StoredRows : y \in StoredRows'
      <4> TAKE y \in StoredRows
      <4>1. PICK i \in 1..Len(stored) : y = stored[i]
        BY <2>2 DEF StoredRows
      <4>2. i \in DOMAIN stored' /\ stored'[i] = y
        BY <2>1, <2>2, <4>1
      <4> QED
        BY <4>2 DEF StoredRows
    <3>3. x \in StoredRows'
      <4>1. Len(stored) + 1 \in DOMAIN stored'
        BY <2>2
      <4> QED
        BY <2>1, <4>1 DEF StoredRows
    <3> QED
      BY <3>1, <3>2, <3>3
  <2> QED
    BY <1>3, <2>1, <2>4, <2>6
<1> QED
  BY <1>2, <1>3

\* The thing that a step writes.
LEMMA RowIsSafe ==
  ASSUME FeedInv, NEW x \in Displayed, NEW how \in {"known", "lost", "failed"}, StoreRow(x, how), UNCHANGED bridge
  PROVE  FeedInv'
<1>1. /\ progress[x].pc = "no" /\ progress' = [progress EXCEPT ![x] = [pc |-> "row", row |-> how]]
      /\ UNCHANGED <<puddle, bridge, rehydrate, view, owed, overlapped>>
  BY DEF StoreRow
<1>2. stored' \in Seq(Displayed) /\ StoredOnce' /\ StoredRows' = StoredRows \cup (IF how = "failed" THEN {} ELSE {x})
  BY RowsAreNew
<1>3. /\ progress' \in [Displayed -> Progress] /\ progress'[x].pc = "row" /\ progress'[x].row = how
      /\ \A y \in Displayed \ {x} : progress'[y] = progress[y]
  <2>1. [pc |-> "row", row |-> how] \in Progress /\ progress \in [Displayed -> Progress]
    BY DEF Progress, FeedInv, FeedTypes
  <2> QED
    BY <1>1, <2>1
<1>4. FeedTypes'
  BY <1>1, <1>2, <1>3 DEF FeedInv, FeedTypes
<1>5. /\ progress[x].row = "none" /\ x \notin rehydrate.read /\ x \notin StoredRows
      /\ Own(x) \notin puddle /\ Copy(x) \notin puddle /\ Own(x) \notin view.items /\ Copy(x) \notin view.items
  BY <1>1 DEF FeedInv, RowsAreWritten, ItemsAreWritten, ReadsAreWritten
<1>6. RowsAreWritten'
  BY <1>2, <1>3, <1>5 DEF FeedInv, RowsAreWritten
<1>7. ItemsAreWritten(puddle)' /\ ItemsAreWritten(view.items)' /\ ReadsAreWritten'
  BY <1>1, <1>3, <1>5 DEF FeedInv, FeedTypes, ItemsAreWritten, ReadsAreWritten
<1>8. OwedIsThere' /\ ViewsAreApart' /\ NoneIsCopied'
  BY <1>1, <1>2 DEF FeedInv, OwedIsThere, ViewsAreApart, NoneIsCopied
<1>9. CopiesAreAlone'
  BY <1>1, <1>3, <1>5, CardsAndSeeds DEF FeedInv, CopiesAreAlone
<1> QED
  BY <1>2, <1>4, <1>6, <1>7, <1>8, <1>9 DEF FeedInv

\* An item of one's own, and the thing is owed if there is more of it than the item.
LEMMA ItemIsSafe ==
  ASSUME FeedInv, NEW x \in Displayed, PutItem(x), FeedTypes',
         owed' = owed \cup {x} \/ owed' = owed, x \in Cards /\ x \in owed' => x \in owed \/ progress[x].row # "failed"
  PROVE  FeedInv'
<1>1. /\ progress[x].pc = "row" /\ progress' = [progress EXCEPT ![x].pc = "done"]
      /\ puddle' = puddle \cup {Own(x)}
      /\ UNCHANGED <<stored, rehydrate, view, overlapped>>
  BY DEF PutItem
<1>2. progress \in [Displayed -> Progress] /\ progress[x] \in Progress
  BY DEF FeedInv, FeedTypes
<1>3. /\ progress'[x].pc = "done" /\ progress'[x].row = progress[x].row
      /\ \A y \in Displayed \ {x} : progress'[y] = progress[y]
  BY <1>1, <1>2 DEF Progress
<1>4. StoredRows' = StoredRows /\ StoredOnce'
  BY <1>1 DEF StoredRows, StoredOnce, FeedInv
<1>5. RowsAreWritten'
  BY <1>1, <1>3, <1>4 DEF FeedInv, RowsAreWritten
<1>6. ItemsAreWritten(puddle)' /\ ItemsAreWritten(view.items)' /\ ReadsAreWritten'
  BY <1>1, <1>3, ItemsDiffer DEF FeedInv, FeedTypes, ItemsAreWritten, ReadsAreWritten
<1>7. OwedIsThere'
  <2>1. progress[x].row # "none" /\ progress[x].row \in {"none", "known", "lost", "failed"}
    BY <1>1, ProgressIsTyped DEF FeedInv, RowsAreWritten
  <2>2. x \in Cards /\ x \in owed' => x \in StoredRows
    BY <1>1, <2>1 DEF FeedInv, RowsAreWritten, OwedIsThere
  <2> QED
    BY <1>1, <1>4, <2>2 DEF FeedInv, OwedIsThere
<1>8. ViewsAreApart' /\ NoneIsCopied'
  BY <1>1, ItemsDiffer DEF FeedInv, ViewsAreApart, NoneIsCopied
<1>9. CopiesAreAlone'
  BY <1>1, <1>3, ItemsDiffer, CardsAndSeeds DEF FeedInv, CopiesAreAlone
<1> QED
  BY <1>4, <1>5, <1>6, <1>7, <1>8, <1>9 DEF FeedInv

\* The card that the harness mirrors.
LEMMA MirroredIsACard ==
  ASSUME FeedInv, bridge # NoBridge
  PROVE  /\ bridge.reply \in Letters /\ bridge.card \in {1, 2} /\ bridge.last \in {1, 2} /\ bridge.card <= bridge.last
         /\ <<bridge.reply, bridge.card>> \in Cards /\ <<bridge.reply, bridge.card>> \in Displayed
BY CardsAndSeeds DEF FeedInv, FeedTypes

LEMMA WritingIsShown ==
  ASSUME FeedInv,
         \/ \E s \in Seeds : EchoSeed(s) \/ \E how \in {"known", "lost", "failed"} : PostSeed(s, how)
         \/ \E how \in {"known", "lost", "failed"} : BridgeRow(how)
         \/ BridgeItem
  PROVE  FeedInv'
<1>1. ASSUME NEW s \in Seeds, NEW how \in {"known", "lost", "failed"}, PostSeed(s, how) PROVE FeedInv'
  BY <1>1, RowIsSafe DEF PostSeed, Displayed
<1>2. ASSUME NEW how \in {"known", "lost", "failed"}, BridgeRow(how) PROVE FeedInv'
  BY <1>2, RowIsSafe, MirroredIsACard DEF BridgeRow
<1>3. ASSUME NEW x \in Displayed, PutItem(x), owed' \subseteq Displayed,
             (bridge' = NoBridge \/ (bridge' \in [reply : Letters, card : {1, 2}, last : {1, 2}] /\ bridge'.card <= bridge'.last))
      PROVE  FeedTypes'
  <2>1. progress \in [Displayed -> Progress] /\ progress[x] \in Progress
    BY DEF FeedInv, FeedTypes
  <2>2. [progress[x] EXCEPT !.pc = "done"] \in Progress
    BY <2>1 DEF Progress
  <2>3. progress' \in [Displayed -> Progress]
    BY <1>3, <2>1, <2>2 DEF PutItem
  <2> QED
    BY <1>3, <2>3, ItemsDiffer DEF PutItem, FeedInv, FeedTypes
<1>4. ASSUME NEW s \in Seeds, EchoSeed(s) PROVE FeedInv'
  <2>1. s \in Displayed /\ s \notin Cards /\ PutItem(s) /\ owed' = owed \cup {s} /\ bridge' = bridge
    BY <1>4, CardsAndSeeds DEF EchoSeed
  <2>2. FeedTypes'
    BY <1>3, <2>1 DEF FeedInv, FeedTypes
  <2> QED
    BY <2>1, <2>2, ItemIsSafe
<1>5. CASE BridgeItem
  <2>1. PICK x \in Displayed : x = <<bridge.reply, bridge.card>> /\ x \in Cards
    BY <1>5, MirroredIsACard DEF BridgeItem
  <2>2. PutItem(x) /\ owed' = IF progress[x].row = "failed" THEN owed ELSE owed \cup {x}
    BY <1>5, <2>1 DEF BridgeItem
  <2>3. (bridge' = NoBridge \/ (bridge' \in [reply : Letters, card : {1, 2}, last : {1, 2}] /\ bridge'.card <= bridge'.last))
    <3>1. CASE bridge.card = bridge.last
      BY <1>5, <3>1 DEF BridgeItem
    <3>2. CASE bridge.card # bridge.last
      <4>1. /\ bridge \in [reply : Letters, card : {1, 2}, last : {1, 2}] /\ bridge.card = 1 /\ bridge.last = 2
            /\ bridge' = [bridge EXCEPT !.card = bridge.card + 1]
        BY <1>5, <3>2 DEF BridgeItem, FeedInv, FeedTypes
      <4>2. bridge' = [bridge EXCEPT !.card = 2]
        BY <4>1
      <4> QED
        BY <4>1, <4>2
    <3> QED
      BY <3>1, <3>2
  <2>4. owed' \subseteq Displayed
    BY <2>1, <2>2 DEF FeedInv, FeedTypes
  <2>5. FeedTypes'
    BY <1>3, <2>2, <2>3, <2>4
  <2> QED
    BY <2>2, <2>5, ItemIsSafe
<1> QED
  BY <1>1, <1>2, <1>4, <1>5

LEMMA BridgingIsSafe ==
  ASSUME FeedInv, NEW r \in Letters, NEW n \in {1, 2}, StartBridge(r, n)
  PROVE  FeedInv'
<1>1. /\ bridge' = [reply |-> r, card |-> 1, last |-> n]
      /\ UNCHANGED <<puddle, stored, progress, rehydrate, view, owed, overlapped>>
  BY DEF StartBridge
<1>2. FeedTypes'
  BY <1>1 DEF FeedInv, FeedTypes
<1> QED
  BY <1>1, <1>2 DEF FeedInv, StoredOnce, StoredRows, RowsAreWritten, ItemsAreWritten, ReadsAreWritten, OwedIsThere,
     CopiesAreAlone, ViewsAreApart, NoneIsCopied

LEMMA ReboundIsSafe ==
  ASSUME FeedInv, FeedRestarts
  PROVE  FeedInv'
<1>1. /\ puddle' = {} /\ bridge' = NoBridge /\ overlapped' = {} /\ view'.items = {} /\ view'.due = {}
      /\ progress' = [x \in Displayed |-> IF progress[x].pc = "row" THEN [progress[x] EXCEPT !.pc = "cut"] ELSE progress[x]]
      /\ rehydrate' = [at |-> "reads", unread |-> {"seeds", "cards"}, read |-> {}]
      /\ owed' = Cards \cap StoredRows /\ stored' = stored
  BY DEF FeedRestarts, NoView
<1>2. /\ progress' \in [Displayed -> Progress]
      /\ \A x \in Displayed : /\ progress'[x].row = progress[x].row
                              /\ progress'[x].pc = IF progress[x].pc = "row" THEN "cut" ELSE progress[x].pc
  <2>1. progress \in [Displayed -> Progress]
    BY DEF FeedInv, FeedTypes
  <2>2. \A q \in Progress : /\ [q EXCEPT !.pc = "cut"] \in Progress
                            /\ [q EXCEPT !.pc = "cut"].pc = "cut" /\ [q EXCEPT !.pc = "cut"].row = q.row
    BY DEF Progress
  <2> QED
    BY <1>1, <2>1, <2>2
<1>3. rehydrate'.read = {} /\ StoredRows' = StoredRows /\ StoredOnce'
  BY <1>1 DEF StoredRows, StoredOnce, FeedInv
<1>4. FeedTypes'
  BY <1>1, <1>2, CardsAndSeeds DEF FeedInv, FeedTypes
<1>5. RowsAreWritten'
  BY <1>2, <1>3 DEF FeedInv, RowsAreWritten
<1>6. ItemsAreWritten(puddle)' /\ ItemsAreWritten(view.items)' /\ ReadsAreWritten' /\ OwedIsThere' /\ CopiesAreAlone'
      /\ ViewsAreApart' /\ NoneIsCopied'
  BY <1>1, <1>3, CardsAndSeeds
  DEF ItemsAreWritten, ReadsAreWritten, OwedIsThere, CopiesAreAlone, ViewsAreApart, NoneIsCopied
<1> QED
  BY <1>3, <1>4, <1>5, <1>6 DEF FeedInv

\* A slice is read.
LEMMA SlicesAreSafe ==
  ASSUME FeedInv, NEW ok \in BOOLEAN, ReadSeeds(ok) \/ ReadCards(ok)
  PROVE  FeedInv'
<1>1. PICK found \in SUBSET StoredRows :
        /\ rehydrate'.read = rehydrate.read \cup found /\ rehydrate'.unread \subseteq rehydrate.unread
        /\ rehydrate' \in [at : {"over", "reads", "copied"}, unread : SUBSET {"seeds", "cards"}, read : SUBSET Displayed]
        /\ \/ found \subseteq Seeds /\ overlapped' = overlapped
           \/ /\ "cards" \in rehydrate.unread /\ "cards" \notin rehydrate'.unread /\ found = {} /\ overlapped' = overlapped
           \/ /\ "cards" \in rehydrate.unread /\ "cards" \notin rehydrate'.unread /\ found \subseteq Cards
              /\ overlapped' = {x \in found : Own(x) \in puddle \/ progress[x].pc = "row"}
  <2>1. /\ rehydrate \in [at : {"over", "reads", "copied"}, unread : SUBSET {"seeds", "cards"}, read : SUBSET Displayed]
        /\ StoredRows \subseteq Displayed
    BY DEF FeedInv, FeedTypes, StoredRows
  <2>2. \A kind : NewestRows(kind) \subseteq StoredRows \cap kind
    BY DEF NewestRows, StoredRows
  <2>3. PICK slice \in {"seeds", "cards"}, found \in SUBSET StoredRows :
          /\ slice \in rehydrate.unread
          /\ rehydrate' = [rehydrate EXCEPT !.unread = @ \ {slice}, !.read = @ \cup found]
          /\ slice = "seeds" => found \subseteq Seeds /\ overlapped' = overlapped
          /\ slice = "cards" => \/ found = {} /\ overlapped' = overlapped
                                \/ found \subseteq Cards /\ overlapped' = {x \in found : Own(x) \in puddle \/ progress[x].pc = "row"}
    <3>1. CASE ReadSeeds(ok)
      <4>1. PICK found \in SUBSET StoredRows :
              found \subseteq Seeds /\ rehydrate' = [rehydrate EXCEPT !.unread = @ \ {"seeds"}, !.read = @ \cup found]
        <5>1. CASE ok
          BY <2>2, <3>1, <5>1 DEF ReadSeeds, ReadSlice
        <5>2. CASE ~ok
          BY <3>1, <5>2 DEF ReadSeeds, ReadSlice
        <5> QED
          BY <5>1, <5>2
      <4> QED
        BY <3>1, <4>1 DEF ReadSeeds, ReadSlice
    <3>2. CASE ReadCards(ok)
      <4>1. CASE ok
        <5>1. /\ rehydrate' = [rehydrate EXCEPT !.unread = @ \ {"cards"}, !.read = @ \cup NewestRows(Cards)]
              /\ overlapped' = {x \in NewestRows(Cards) : Own(x) \in puddle \/ progress[x].pc = "row"}
              /\ "cards" \in rehydrate.unread
          BY <3>2, <4>1 DEF ReadCards, ReadSlice
        <5> QED
          BY <2>2, <5>1
      <4>2. CASE ~ok
        <5>1. /\ rehydrate' = [rehydrate EXCEPT !.unread = @ \ {"cards"}, !.read = @ \cup {}]
              /\ overlapped' = overlapped /\ "cards" \in rehydrate.unread
          BY <3>2, <4>2 DEF ReadCards, ReadSlice
        <5> QED
          BY <5>1
      <4> QED
        BY <4>1, <4>2
    <3> QED
      BY <3>1, <3>2
  <2>4. /\ rehydrate'.read = rehydrate.read \cup found /\ rehydrate'.unread = rehydrate.unread \ {slice}
        /\ rehydrate' \in [at : {"over", "reads", "copied"}, unread : SUBSET {"seeds", "cards"}, read : SUBSET Displayed]
    <3>1. rehydrate.read \cup found \in SUBSET Displayed /\ rehydrate.unread \ {slice} \in SUBSET {"seeds", "cards"}
      BY <2>1, <2>3
    <3> QED
      BY <2>1, <2>3, <3>1
  <2> QED
    BY <2>3, <2>4
<1>2. UNCHANGED <<puddle, stored, progress, bridge, view, owed>> /\ StoredRows' = StoredRows
  BY DEF ReadSeeds, ReadCards, ReadSlice, StoredRows
<1>3. FeedTypes' /\ StoredOnce' /\ RowsAreWritten'
  <2>1. overlapped' \subseteq Displayed
    BY <1>1 DEF FeedInv, FeedTypes, StoredRows
  <2> QED
    BY <1>1, <1>2, <2>1 DEF FeedInv, FeedTypes, StoredOnce, RowsAreWritten
<1>4. ItemsAreWritten(puddle)' /\ ItemsAreWritten(view.items)' /\ OwedIsThere'
  BY <1>2 DEF FeedInv, ItemsAreWritten, OwedIsThere
<1>5. \A x \in found : x \in Displayed /\ progress[x].row \in {"known", "lost"} /\ progress[x].pc # "no"
  BY <1>1 DEF FeedInv, FeedTypes, RowsAreWritten, StoredRows
<1>6. ReadsAreWritten'
  BY <1>1, <1>2, <1>5 DEF FeedInv, ReadsAreWritten
<1>7. CopiesAreAlone' /\ ViewsAreApart'
  BY <1>1, <1>2, <1>5, CardsAndSeeds DEF FeedInv, CopiesAreAlone, ViewsAreApart, NoneIsCopied
<1>8. NoneIsCopied'
  BY <1>1, <1>2, CardsAndSeeds DEF FeedInv, NoneIsCopied
<1> QED
  BY <1>3, <1>4, <1>6, <1>7, <1>8 DEF FeedInv

LEMMA CopyingIsSafe ==
  ASSUME FeedInv, CopySlices
  PROVE  FeedInv'
<1>1. /\ rehydrate.unread = {} /\ puddle' = puddle \cup {Copy(x) : x \in rehydrate.read}
      /\ owed' = owed \cup (rehydrate.read \cap StoredRows)
      /\ rehydrate' = [at |-> "copied", unread |-> {}, read |-> {}]
      /\ UNCHANGED <<stored, progress, bridge, view, overlapped>> /\ rehydrate.read \subseteq Displayed
  BY DEF CopySlices, Quiet, FeedInv, FeedTypes
<1>2. StoredRows' = StoredRows
  BY <1>1 DEF StoredRows
<1>3. \A x \in Displayed : /\ Copy(x) \in puddle' <=> Copy(x) \in puddle \/ x \in rehydrate.read
                           /\ Own(x) \in puddle' <=> Own(x) \in puddle
  BY <1>1, ItemsDiffer
<1>4. FeedTypes'
  BY <1>1, ItemsDiffer DEF FeedInv, FeedTypes
<1>5. StoredOnce' /\ RowsAreWritten' /\ ItemsAreWritten(view.items)' /\ ReadsAreWritten' /\ ViewsAreApart' /\ NoneIsCopied'
  BY <1>1, <1>2 DEF FeedInv, StoredOnce, RowsAreWritten, ItemsAreWritten, ReadsAreWritten, ViewsAreApart, NoneIsCopied
<1>6. ItemsAreWritten(puddle)'
  BY <1>1, <1>3 DEF FeedInv, ItemsAreWritten, ReadsAreWritten
<1>7. OwedIsThere'
  BY <1>1, <1>2, <1>3, CardsAndSeeds DEF FeedInv, OwedIsThere
<1>8. CopiesAreAlone'
  BY <1>1, <1>3, CardsAndSeeds DEF FeedInv, CopiesAreAlone
<1> QED
  BY <1>4, <1>5, <1>6, <1>7, <1>8 DEF FeedInv

LEMMA EndingIsSafe ==
  ASSUME FeedInv, CopiesEnd
  PROVE  FeedInv'
<1>1. /\ puddle' = {i \in puddle : ~i.copy} /\ owed' = {x \in owed : x \in Cards \/ Own(x) \in puddle}
      /\ rehydrate' = [at |-> "over", unread |-> {}, read |-> {}]
      /\ UNCHANGED <<stored, progress, bridge, view, overlapped>>
  BY DEF CopiesEnd, Quiet
<1>2. StoredRows' = StoredRows
  BY <1>1 DEF StoredRows
<1>3. \A x \in Displayed : Copy(x) \notin puddle' /\ (Own(x) \in puddle' <=> Own(x) \in puddle)
  BY <1>1, ItemsDiffer
<1>4. FeedTypes'
  BY <1>1 DEF FeedInv, FeedTypes
<1>5. StoredOnce' /\ RowsAreWritten' /\ ItemsAreWritten(view.items)' /\ ReadsAreWritten' /\ ViewsAreApart' /\ NoneIsCopied'
  BY <1>1, <1>2 DEF FeedInv, StoredOnce, RowsAreWritten, ItemsAreWritten, ReadsAreWritten, ViewsAreApart, NoneIsCopied
<1>6. ItemsAreWritten(puddle)'
  BY <1>1, <1>3 DEF FeedInv, ItemsAreWritten
<1>7. OwedIsThere' /\ CopiesAreAlone'
  BY <1>1, <1>2, <1>3, CardsAndSeeds DEF FeedInv, OwedIsThere, CopiesAreAlone
<1> QED
  BY <1>4, <1>5, <1>6, <1>7 DEF FeedInv

LEMMA ExpiringTakesOut ==
  ASSUME FeedInv, NEW x \in Displayed, Expire(x)
  PROVE  stored' \in Seq(Displayed) /\ StoredOnce' /\ StoredRows' = StoredRows \ {x}
<1>1. stored' = (IF x \in StoredRows THEN RemoveAt(stored, Place(x)) ELSE stored) /\ stored \in Seq(Displayed)
  BY DEF Expire, FeedInv, FeedTypes
<1>2. CASE x \notin StoredRows
  BY <1>1, <1>2 DEF FeedInv, StoredOnce, StoredRows
<1>3. CASE x \in StoredRows
  <2>1. PICK p \in DOMAIN stored : p = Place(x) /\ stored[p] = x
    BY <1>3 DEF StoredRows, Place
  <2>2. \A i, j \in DOMAIN stored : stored[i] = stored[j] => i = j
    BY DEF FeedInv, StoredOnce
  <2>3. stored' = RemoveAt(stored, p)
    BY <1>1, <1>3, <2>1
  <2>4. /\ stored' \in Seq(Displayed) /\ \A i, j \in DOMAIN stored' : stored'[i] = stored'[j] => i = j
        /\ {stored'[i] : i \in DOMAIN stored'} = {stored[i] : i \in DOMAIN stored} \ {x}
    <3>1. /\ RemoveAt(stored, p) \in Seq(Displayed)
          /\ \A i, j \in DOMAIN RemoveAt(stored, p) : RemoveAt(stored, p)[i] = RemoveAt(stored, p)[j] => i = j
          /\ {RemoveAt(stored, p)[i] : i \in DOMAIN RemoveAt(stored, p)} = {stored[i] : i \in DOMAIN stored} \ {stored[p]}
      BY ONLY <1>1, <2>2, RemovingOnce
    <3> QED
      BY ONLY <2>1, <2>3, <3>1
  <2> QED
    BY <2>4 DEF StoredOnce, StoredRows
<1> QED
  BY <1>2, <1>3

LEMMA ExpiringIsSafe ==
  ASSUME FeedInv, NEW x \in Displayed, Expire(x)
  PROVE  FeedInv'
<1>1. /\ progress' = [progress EXCEPT ![x].pc = "over"] /\ puddle' = puddle \ {Own(x)} /\ owed' = owed \ {x}
      /\ UNCHANGED <<bridge, rehydrate, view, overlapped>>
      /\ progress[x].pc \in {"done", "cut"}
  BY DEF Expire
<1>2. stored' \in Seq(Displayed) /\ StoredOnce' /\ StoredRows' = StoredRows \ {x}
  BY ExpiringTakesOut
<1>3. /\ progress' \in [Displayed -> Progress] /\ progress'[x].pc = "over" /\ progress'[x].row = progress[x].row
      /\ \A y \in Displayed \ {x} : progress'[y] = progress[y]
  <2>1. progress \in [Displayed -> Progress] /\ progress[x] \in Progress
    BY DEF FeedInv, FeedTypes
  <2>2. PICK q : q = [progress[x] EXCEPT !.pc = "over"]
    OBVIOUS
  <2>3. q \in Progress /\ q.pc = "over" /\ q.row = progress[x].row
    BY <2>1, <2>2 DEF Progress
  <2>4. progress' = [progress EXCEPT ![x] = q]
    BY <1>1, <2>2
  <2> QED
    BY <2>1, <2>3, <2>4
<1>4. \A y \in Displayed : /\ Copy(y) \in puddle' <=> Copy(y) \in puddle
                           /\ y # x => (Own(y) \in puddle' <=> Own(y) \in puddle)
                           /\ Own(x) \notin puddle'
  BY <1>1, ItemsDiffer
<1>5. FeedTypes'
  BY <1>1, <1>2, <1>3 DEF FeedInv, FeedTypes
<1>6. RowsAreWritten'
  BY <1>1, <1>2, <1>3 DEF FeedInv, RowsAreWritten
<1>7. ItemsAreWritten(puddle)' /\ ItemsAreWritten(view.items)' /\ ReadsAreWritten'
  BY <1>1, <1>3, <1>4 DEF FeedInv, FeedTypes, ItemsAreWritten, ReadsAreWritten
<1>8. OwedIsThere'
  BY <1>1, <1>2, <1>4, CardsAndSeeds DEF FeedInv, OwedIsThere
<1>9. CopiesAreAlone'
  BY <1>1, <1>3, <1>4, CardsAndSeeds DEF FeedInv, CopiesAreAlone
<1>10. ViewsAreApart' /\ NoneIsCopied'
  BY <1>1, <1>4, CardsAndSeeds DEF FeedInv, ViewsAreApart, NoneIsCopied
<1> QED
  BY <1>2, <1>5, <1>6, <1>7, <1>8, <1>9, <1>10 DEF FeedInv

LEMMA LookingIsSafe ==
  ASSUME FeedInv, FeedReads \/ FeedAnswers
  PROVE  FeedInv'
<1>1. /\ UNCHANGED <<puddle, stored, progress, bridge, rehydrate, owed, overlapped>> /\ StoredRows' = StoredRows
      /\ \/ view'.items = puddle /\ view'.due = owed
         \/ view'.items = {} /\ view'.due = {}
  BY DEF FeedReads, FeedAnswers, NoView, StoredRows
<1>2. FeedTypes' /\ StoredOnce' /\ RowsAreWritten' /\ ReadsAreWritten' /\ ItemsAreWritten(puddle)' /\ CopiesAreAlone'
  BY <1>1 DEF FeedInv, FeedTypes, StoredOnce, RowsAreWritten, ReadsAreWritten, ItemsAreWritten, CopiesAreAlone
<1>3. ItemsAreWritten(view.items)' /\ OwedIsThere' /\ NoneIsCopied'
  BY <1>1 DEF FeedInv, ItemsAreWritten, OwedIsThere, NoneIsCopied
<1>4. ViewsAreApart'
  BY <1>1 DEF FeedInv, CopiesAreAlone, ViewsAreApart
<1> QED
  BY <1>2, <1>3, <1>4 DEF FeedInv

LEMMA FeedKeeps == FeedInv /\ [FeedNext]_feedVars => FeedInv'
<1> SUFFICES ASSUME FeedInv, [FeedNext]_feedVars PROVE FeedInv'
  OBVIOUS
<1>1. CASE UNCHANGED feedVars
  <2>1. UNCHANGED <<puddle, stored, progress, bridge, rehydrate, view, owed, overlapped>>
    BY <1>1 DEF feedVars
  <2> QED
    BY <2>1 DEF FeedInv, FeedTypes, StoredOnce, StoredRows, RowsAreWritten, ItemsAreWritten, ReadsAreWritten, OwedIsThere,
       CopiesAreAlone, ViewsAreApart, NoneIsCopied
<1> QED
  BY <1>1, WritingIsShown, BridgingIsSafe, ReboundIsSafe, SlicesAreSafe, CopyingIsSafe, EndingIsSafe, ExpiringIsSafe,
     LookingIsSafe DEF FeedNext
-----------------------------------------------------------------------------
\* The items that show a thing are its own and its copy.
LEMMA ItemsOfAThing ==
  ASSUME FeedInv, NEW x \in Displayed, NEW i \in view.items, i.thing = x
  PROVE  i = Own(x) \/ i = Copy(x)
<1>1. PICK y \in Displayed : i = Own(y) \/ i = Copy(y)
  BY DEF FeedInv, FeedTypes, Items
<1>2. y = x
  BY <1>1, ItemsDiffer
<1> QED
  BY <1>1, <1>2

Shown(x) == {i \in KeptItems(view.items) : i.thing = x}
LEMMA ShownIsCounted ==
  ASSUME FeedInv, NEW x \in Displayed
  PROVE  /\ Shown(x) \subseteq {Own(x), Copy(x)} /\ Shown(x) \subseteq view.items
         /\ IsFiniteSet(Shown(x)) /\ Cardinality(Shown(x)) \in Nat
         /\ (Shown(x) # {} => Cardinality(Shown(x)) >= 1)
         /\ (Shown(x) = {} => Cardinality(Shown(x)) = 0)
         /\ (~(Own(x) \in Shown(x) /\ Copy(x) \in Shown(x)) => Cardinality(Shown(x)) <= 1)
         /\ \A ok \in BOOLEAN : FeedAnswer(ok)[x] = Cardinality(Shown(x))
              + (IF x \in (IF ok THEN Cards \cap StoredRows ELSE {}) \ Recalled(view.items) THEN 1 ELSE 0)
<1>1. Shown(x) \subseteq {Own(x), Copy(x)} /\ Shown(x) \subseteq view.items
  BY ItemsOfAThing DEF Shown, KeptItems
<1>2. IsFiniteSet({Own(x), Copy(x)})
  <2>1. IsFiniteSet({} \cup {Own(x)})
    BY FS_EmptySet, FS_AddElement
  <2>2. IsFiniteSet(({} \cup {Own(x)}) \cup {Copy(x)})
    BY <2>1, FS_AddElement
  <2>3. ({} \cup {Own(x)}) \cup {Copy(x)} = {Own(x), Copy(x)}
    OBVIOUS
  <2> QED
    BY <2>2, <2>3
<1>3. IsFiniteSet(Shown(x)) /\ Cardinality(Shown(x)) \in Nat
  BY <1>1, <1>2, FS_Subset, FS_CardinalityType
<1>4. Shown(x) # {} => Cardinality(Shown(x)) >= 1
  BY <1>3, FS_EmptySet
<1>5. Shown(x) = {} => Cardinality(Shown(x)) = 0
  BY FS_EmptySet
<1>6. ~(Own(x) \in Shown(x) /\ Copy(x) \in Shown(x)) => Cardinality(Shown(x)) <= 1
  <2>1. \A i : Shown(x) \subseteq {i} => Cardinality(Shown(x)) <= 1
    <3> TAKE i
    <3>1. IsFiniteSet({i}) /\ Cardinality({i}) = 1
      BY FS_Singleton
    <3> HAVE Shown(x) \subseteq {i}
    <3> QED
      BY <3>1, FS_Subset
  <2>2. ~(Own(x) \in Shown(x) /\ Copy(x) \in Shown(x)) => Shown(x) \subseteq {Own(x)} \/ Shown(x) \subseteq {Copy(x)}
    BY <1>1
  <2> QED
    BY <2>1, <2>2
<1>7. \A ok \in BOOLEAN : FeedAnswer(ok)[x] = Cardinality(Shown(x))
        + (IF x \in (IF ok THEN Cards \cap StoredRows ELSE {}) \ Recalled(view.items) THEN 1 ELSE 0)
  BY DEF FeedAnswer, Showing, Shown
<1> QED
  BY <1>1, <1>3, <1>4, <1>5, <1>6, <1>7

LEMMA ShownCounts ==
  ASSUME FeedInv, NEW x \in Displayed, Shown(x) # {}, NEW ok \in BOOLEAN
  PROVE  FeedAnswer(ok)[x] >= 1
<1>1. PICK c : c = Cardinality(Shown(x))
  OBVIOUS
<1>2. PICK b \in {0, 1} : b = IF x \in (IF ok THEN Cards \cap StoredRows ELSE {}) \ Recalled(view.items) THEN 1 ELSE 0
  OBVIOUS
<1>3. c \in Nat /\ c >= 1 /\ FeedAnswer(ok)[x] = c + b
  BY <1>1, <1>2, ShownIsCounted
<1> QED
  BY <1>3

\* A seed is shown by its own item or by its copy.
LEMMA SeedsAreShown ==
  ASSUME FeedInv, NEW x \in Seeds, Own(x) \in view.items \/ Copy(x) \in view.items
  PROVE  Shown(x) # {}
<1>1. x \in Displayed /\ x \notin Cards /\ x \notin Letters
  BY CardsAndSeeds
<1>2. ASSUME NEW i \in view.items, i.thing = x, NEW j \in view.items, SameKey(i, j) PROVE j = Own(x) \/ j = Copy(x)
  <2>1. Key(i) = x /\ Key(j) = x
    BY <1>2 DEF SameKey, Key
  <2>2. PICK y \in Displayed : j = Own(y) \/ j = Copy(y)
    BY <1>2 DEF FeedInv, FeedTypes, Items
  <2>3. y = x
    BY <1>1, <2>1, <2>2, ItemsDiffer, CardsAndSeeds DEF Key
  <2> QED
    BY <2>2, <2>3
<1>3. ASSUME NEW i \in {Own(x), Copy(x)}, i \in view.items, i = Own(x) \/ Own(x) \notin view.items PROVE i \in Shown(x)
  <2>1. i.thing = x
    BY ItemsDiffer
  <2>2. ASSUME NEW j \in view.items, SameKey(i, j) PROVE ~Newer(j, i)
    <3>1. j = Own(x) \/ j = Copy(x)
      BY <1>2, <1>3, <2>1, <2>2
    <3>2. j.thing = x /\ i.thing = x
      BY <2>1, <3>1, ItemsDiffer
    <3>3. ~(i.copy /\ ~j.copy)
      BY <1>3, <2>2, <3>1, ItemsDiffer
    <3> QED
      BY <3>2, <3>3 DEF Newer
  <2> QED
    BY <1>3, <2>1, <2>2 DEF Shown, KeptItems
<1> QED
  BY <1>3

\* A card that the lake has is shown as its row, or by the item that stands for the row.
LEMMA CardsAreShown ==
  ASSUME FeedInv, NEW x \in Cards, x \in StoredRows
  PROVE  FeedAnswer(TRUE)[x] >= 1
<1>1. x \in Displayed
  BY CardsAndSeeds
<1>2. CASE x \in Recalled(view.items)
  <2>1. PICK i \in KeptItems(view.items) : i.thing = x
    BY <1>2 DEF Recalled
  <2>2. Shown(x) # {}
    BY <2>1 DEF Shown
  <2> QED
    BY <1>1, <2>2, ShownCounts
<1>3. CASE x \notin Recalled(view.items)
  <2>1. PICK c : c = Cardinality(Shown(x))
    OBVIOUS
  <2>2. FeedAnswer(TRUE)[x] = Cardinality(Shown(x)) + 1
    <3>1. x \in (Cards \cap StoredRows) \ Recalled(view.items)
      BY <1>3
    <3> QED
      BY <1>1, <3>1 DEF FeedAnswer, Showing, Shown
  <2>3. c \in Nat
    BY <1>1, <2>1, ShownIsCounted
  <2>4. PICK a : a = FeedAnswer(TRUE)[x]
    OBVIOUS
  <2>5. a = c + 1
    BY <2>1, <2>2, <2>4
  <2>6. a >= 1
    BY <2>3, <2>5
  <2> QED
    BY <2>4, <2>6
<1> QED
  BY <1>2, <1>3

LEMMA FeedShowsAll == FeedInv => ShowsAll
<1> SUFFICES ASSUME FeedInv, NEW x \in view.due \cap owed PROVE FeedAnswer(TRUE)[x] >= 1
  BY DEF ShowsAll
<1>1. x \in Displayed /\ Displayed = Seeds \cup Cards
  BY CardsAndSeeds DEF FeedInv, FeedTypes
<1>2. CASE x \in Cards
  BY <1>2, CardsAreShown DEF FeedInv, OwedIsThere
<1>3. CASE x \in Seeds
  <2>1. Shown(x) # {}
    BY <1>3, SeedsAreShown DEF FeedInv, OwedIsThere
  <2> QED
    BY <1>1, <2>1, ShownCounts
<1> QED
  BY <1>1, <1>2, <1>3

LEMMA FeedShowsOnce == FeedInv => ShowsOnce
<1> SUFFICES ASSUME FeedInv, NEW x \in Displayed, NEW ok \in BOOLEAN, progress[x].row # "lost", x \notin overlapped
             PROVE  FeedAnswer(ok)[x] <= 1
  BY DEF ShowsOnce
<1>1. ~(Own(x) \in Shown(x) /\ Copy(x) \in Shown(x))
  <2> SUFFICES ASSUME Own(x) \in Shown(x), Copy(x) \in Shown(x) PROVE FALSE
    OBVIOUS
  <2>1. Own(x) \in view.items /\ Copy(x) \in KeptItems(view.items) /\ Copy(x) \in view.items
    BY DEF Shown, KeptItems
  <2>2. x \in Seeds
    BY <2>1, CardsAndSeeds DEF FeedInv, ViewsAreApart
  <2>3. progress[x].row = "known"
    BY <2>1 DEF FeedInv, ItemsAreWritten
  <2>4. SameKey(Copy(x), Own(x)) /\ Newer(Own(x), Copy(x))
    BY <2>2, <2>3, ItemsDiffer DEF SameKey, HasKey, Key, Newer
  <2> QED
    BY <2>1, <2>4 DEF KeptItems
<1>2. Cardinality(Shown(x)) <= 1 /\ Cardinality(Shown(x)) \in Nat
  BY <1>1, ShownIsCounted
<1>3. CASE x \in StoredRows /\ x \notin Recalled(view.items)
  <2>1. Shown(x) = {}
    <3> SUFFICES ASSUME NEW i \in Shown(x) PROVE FALSE
      OBVIOUS
    <3>1. i \in KeptItems(view.items) /\ i.thing = x
      BY DEF Shown
    <3>2. progress[x].row = "known"
      BY <1>3 DEF FeedInv, RowsAreWritten
    <3> QED
      BY <1>3, <3>1, <3>2 DEF Recalled, RecallsRow
  <2> QED
    BY <2>1, ShownIsCounted
<1>4. CASE ~(x \in StoredRows /\ x \notin Recalled(view.items))
  BY <1>2, <1>4, ShownIsCounted
<1> QED
  BY <1>3, <1>4

\* What the feed owes is shown, and shown once.
THEOREM FeedShowsWhatIsOwed == FeedSpec => [](ShowsAll /\ ShowsOnce)
<1> QED
  BY FeedStarts, FeedKeeps, FeedShowsAll, FeedShowsOnce, PTL DEF FeedSpec

-----------------------------------------------------------------------------
\* Crystal, Relief and Follow: regenerations, the tiers' prompts and screenshots keep the
\* distance of their cool-downs.
THEOREM DrivesStaySpaced == CrystalSpec /\ ReliefSpec /\ FollowSpec => []DrivesAreSpaced
<1>1. RegensAreSpaced /\ TiersAreSpaced /\ ShotsAreSpaced => DrivesAreSpaced
  BY DEF DrivesAreSpaced
<1> QED
  BY <1>1, RegenerationsAreSpaced, TierPromptsAreSpaced, ScreenshotsAreSpaced, PTL

\* Feed and Follow: the feed shows what it owes, once; a picture is of its page unless
\* the window changed, of nothing that was paused or blocked; and the popup lists the
\* newest (get_feed, captureTab, popup.js).
THEOREM FeedStaysTrue == FeedSpec /\ FollowSpec => []FeedIsTrue
<1>1. (ShowsAll /\ ShowsOnce) /\ (ShotsAreTrue /\ RecentsAreTrue) => FeedIsTrue
  BY DEF FeedIsTrue
<1> QED
  BY <1>1, FeedShowsWhatIsOwed, ScreenshotsAreTrue, PTL
===============================================================================
