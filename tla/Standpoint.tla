----------------------------- MODULE Standpoint -----------------------------
(* What a fire knows of itself (api/standpoint.py): six queries side by side *)
(* gather the newest identity crystal, the mood, what was endorsed or        *)
(* refuted, what was concluded, the alerts raised and the pictures seen.     *)
(* Each may fail by itself and is empty then; each has its own window and    *)
(* its own limit, and the lake goes on between them.  When all are there,    *)
(* the conclusions that were refuted are taken out.                          *)
EXTENDS Recall
CONSTANTS
  Sights,       \* rows that may arrive, as [kind, src]
  Stances,      \* the relations that one row's tags may state, in their order
  EndorsedFor, ConcludedFor, AlertedFor, SeenFor,  \* the windows, in hours
  MostScanned, MostEndorsed, MostConcluded, MostRegens, MostCards, MostAlerts, MostVisuals,
  MaxScene, MaxHours, MaxBlanks  \* bounds: rows, hours, queries that fail

ASSUME StandpointBounds ==
  /\ MostScanned \in Nat /\ MostEndorsed \in Nat /\ MostRegens \in Nat
  /\ MostCards \in Nat /\ MostAlerts \in Nat /\ MostVisuals \in Nat

VARIABLES
  scenery,  \* the rows of the lake, in the order of arrival
  gather,   \* a gathering of the standpoint
  hour, blanks

standVars == <<scenery, gather, hour, blanks>>

StandFields == {"identity", "affect", "endorsements", "understanding", "alerts", "visuals"}
SightRows == 1..Len(scenery)
SightsOf(kinds) == {i \in SightRows : scenery[i].kind \in kinds}
FreshFor(i, hours) == gather.from - scenery[i].at <= hours
SinceHours(hours) == {i \in SightRows : FreshFor(i, hours)}
NewestOf(rows, most) == {i \in rows : Cardinality({j \in rows : j > i}) < most}
NewestSight(rows) == IF rows = {} THEN 0 ELSE CHOOSE i \in rows : \A j \in rows : j <= i

StandInit ==
  /\ scenery = <<>> /\ hour = 0 /\ blanks = 0
  /\ gather = [pc |-> "idle", began |-> 0, from |-> 0, due |-> {}, failed |-> {}, held |-> [f \in StandFields |-> {}]]
-----------------------------------------------------------------------------
\* Any row may relate to conclusions: cards and conclusions cite, people refute.
Arrives(sight, tags) ==
  /\ Len(scenery) < MaxScene
  /\ scenery' = Append(scenery, [kind |-> sight.kind, src |-> sight.src, tags |-> tags, at |-> hour])
  /\ UNCHANGED <<gather, hour, blanks>>

HourPasses ==
  /\ hour < MaxHours /\ hour' = hour + 1
  /\ UNCHANGED <<scenery, gather, blanks>>
-----------------------------------------------------------------------------
\* A row takes one stance: its first refutation or affirmation, else its last
\* citation, else the first row that it answers or engages.
StanceOf(tags) ==
  LET At(rels) == {k \in DOMAIN tags : tags[k].rel \in rels}
      First(rels) == tags[CHOOSE k \in At(rels) : \A l \in At(rels) : k <= l]
  IN  CASE At({"refutes", "affirms"}) # {} -> First({"refutes", "affirms"})
        [] At({"refutes", "affirms"}) = {} /\ At({"from"}) # {} ->
             tags[CHOOSE k \in At({"from"}) : \A l \in At({"from"}) : l <= k]
        [] OTHER -> IF At({"reply-to", "engages"}) = {} THEN [rel |-> "none", of |-> 0]
                    ELSE First({"reply-to", "engages"})
Stance(i) == StanceOf(scenery[i].tags)
Taking(rows) == {i \in rows : Stance(i).rel # "none"}

\* The newest regenerations hold those of the feed's crystal, too, which are skipped.
LoadIdentity == {NewestSight(NewestOf(SightsOf({"identity", "orient"}), MostRegens) \cap SightsOf({"identity"}))} \ {0}
LoadAffect == {NewestSight(SightsOf({"mood"}))} \ {0}
LoadEndorsements == NewestOf(Taking(NewestOf(SinceHours(EndorsedFor), MostScanned)), MostEndorsed)
LoadUnderstanding == NewestOf(SightsOf({"conclusion"}) \cap SinceHours(ConcludedFor), MostConcluded)
LoadAlerts == NewestOf(NewestOf(SightsOf({"alert", "card"}) \cap SinceHours(AlertedFor), MostCards) \cap SightsOf({"alert"}), MostAlerts)
\* Of each source the newest picture, among twice as many as are wanted.
LoadVisuals ==
  LET fetched == NewestOf(SightsOf({"picture"}) \cap SinceHours(SeenFor), 2 * MostVisuals)
  IN  NewestOf({i \in fetched : \A j \in fetched : scenery[j].src = scenery[i].src => j <= i}, MostVisuals)

Load(f) ==
  CASE f = "identity" -> LoadIdentity
    [] f = "affect" -> LoadAffect
    [] f = "endorsements" -> LoadEndorsements
    [] f = "understanding" -> LoadUnderstanding
    [] f = "alerts" -> LoadAlerts
    [] f = "visuals" -> LoadVisuals

GatherBegins ==
  /\ gather.pc = "idle"
  /\ gather' = [gather EXCEPT !.pc = "reads", !.began = Len(scenery), !.from = hour, !.due = StandFields]
  /\ UNCHANGED <<scenery, hour, blanks>>

\* One of the six queries returns or fails.
GatherReads(f, ok) ==
  /\ f \in gather.due
  /\ IF ok THEN UNCHANGED blanks ELSE blanks < MaxBlanks /\ blanks' = blanks + 1
  /\ gather' = [gather EXCEPT !.due = @ \ {f}, !.failed = IF ok THEN @ ELSE @ \cup {f},
                              !.held[f] = IF ok THEN Load(f) ELSE {}]
  /\ UNCHANGED <<scenery, hour>>

Refuted == {Stance(i).of : i \in {e \in gather.held["endorsements"] : Stance(e).rel = "refutes"}}

Compose ==
  /\ gather.pc = "reads" /\ gather.due = {}
  /\ gather' = [gather EXCEPT !.pc = "told", !.held["understanding"] = @ \ Refuted]
  /\ UNCHANGED <<scenery, hour, blanks>>

\* The tags of a row about conclusions that are there.
TagsOf(rels) == {[k \in DOMAIN rels |-> [rel |-> rels[k], of |-> of[k]]] : of \in [DOMAIN rels -> SightsOf({"conclusion"})]}
StandNext ==
  \/ \E sight \in Sights : Arrives(sight, <<>>) \/ \E rels \in Stances : \E tags \in TagsOf(rels) : Arrives(sight, tags)
  \/ HourPasses
  \/ GatherBegins
  \/ \E f \in StandFields, ok \in BOOLEAN : GatherReads(f, ok)
  \/ Compose

StandSpec == StandInit /\ [][StandNext]_standVars
-----------------------------------------------------------------------------
StandpointTypeOK ==
  /\ \A i \in SightRows : /\ [kind |-> scenery[i].kind, src |-> scenery[i].src] \in Sights /\ scenery[i].at \in 0..hour
                     /\ \A k \in DOMAIN scenery[i].tags : scenery[i].tags[k].of \in 1..(i - 1)
  /\ gather.pc \in {"idle", "reads", "told"} /\ gather.began \in 0..Len(scenery) /\ gather.from \in 0..hour
  /\ gather.due \subseteq StandFields /\ gather.failed \subseteq StandFields
  /\ gather.held \in [StandFields -> SUBSET SightRows]
  /\ hour \in 0..MaxHours /\ blanks \in 0..MaxBlanks

Told(f) == gather.pc = "told" /\ f \notin gather.failed
NewerThan(i, rows) == Cardinality({j \in rows : j > i})

\* A conclusion that was refuted before the gathering began is not told, as long as
\* the refutation is within its window and not crowded out by later rows.
RefutedStaysOut ==
  Told("endorsements") =>
    \A r \in 1..gather.began :
      (/\ Stance(r).rel = "refutes" /\ FreshFor(r, EndorsedFor)
       /\ NewerThan(r, SightRows) < MostScanned /\ NewerThan(r, Taking(SightRows)) < MostEndorsed)
        => Stance(r).of \notin gather.held["understanding"]

\* The identity told is no older than the newest one when the gathering began,
\* unless so many crystals of the feed have followed that none is found.
IdentityIsCurrent ==
  Told("identity") =>
    \A c \in 1..gather.began \cap SightsOf({"identity"}) :
      NewerThan(c, SightsOf({"identity", "orient"})) < MostRegens => \E i \in gather.held["identity"] : c <= i

\* An alert that was raised before is known, and every source of pictures is seen,
\* within the windows and the limits.
SightsAreTold ==
  /\ Told("alerts") =>
       \A a \in 1..gather.began \cap SightsOf({"alert"}) :
         (FreshFor(a, AlertedFor) /\ NewerThan(a, SightsOf({"alert", "card"})) < MostCards /\ NewerThan(a, SightsOf({"alert"})) < MostAlerts)
           => a \in gather.held["alerts"]
  /\ Told("visuals") =>
       \A v \in 1..gather.began \cap SightsOf({"picture"}) :
         (/\ FreshFor(v, SeenFor) /\ NewerThan(v, SightsOf({"picture"})) < 2 * MostVisuals
          /\ Cardinality({scenery[j].src : j \in {k \in SightsOf({"picture"}) : k > v}} \ {scenery[v].src}) < MostVisuals)
           => \E i \in gather.held["visuals"] : scenery[i].src = scenery[v].src

StandpointIsTrue == RefutedStaysOut /\ IdentityIsCurrent /\ SightsAreTold

\* What a refutation is for: the conclusion stays away.
RefutedStaysAway ==
  gather.pc = "told" /\ gather.failed = {} =>
    \A r \in 1..gather.began : Stance(r).rel = "refutes" => Stance(r).of \notin gather.held["understanding"]

\* Recall: a row is shown once, the summaries above it are shown with it, and a
\* thought that is marked as self-referential cites nothing from outside.
\* Standpoint: what was refuted is not told, and what is current is.
RecallIsTrue == RecallsAreTrue /\ StandpointIsTrue
=============================================================================
