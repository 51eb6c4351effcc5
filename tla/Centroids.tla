----------------------------- MODULE Centroids ------------------------------
(* The centroid of a summary (compute_centroid in api/provenance_centroid.py):*)
(* a walk down the rows that it cites, layer by layer, to the moments at the *)
(* bottom, whose vectors are averaged.  A layer is fetched with one request, *)
(* which may fail and of which the store reads so many ids; rows may get     *)
(* their vectors, or go, between two layers.                                 *)
EXTENDS Drafters
CONSTANTS
  Lakes,      \* what cites what, as functions from rows to sequences of rows; moments cite nothing
  Roots,      \* what a summary may cite itself
  MaxDepth, LeafCap,
  BatchCap,   \* how many ids of a request the store reads
  MaxGone, MaxDrops  \* bounds: rows that go, requests that fail

ASSUME CentroidsBounds ==
  /\ MaxDepth \in Nat /\ LeafCap \in Nat /\ BatchCap \in Nat
  /\ \A lake \in Lakes : lake \in [DOMAIN lake -> Seq(DOMAIN lake)] /\ Roots \subseteq Seq(DOMAIN lake)

VARIABLES
  cites,   \* the lake
  vectors, \* the rows that have a vector
  remains, \* the rows that are in the lake
  walk,    \* pc, layer, depth, seen, leaves (the rows whose vectors are averaged), lost (ids marked as seen that were never read)
  drops

centroidVars == <<cites, vectors, remains, walk, drops>>

All == DOMAIN cites
SummaryRows == {i \in All : cites[i] # <<>>}
CentroidsInit ==
  /\ cites \in Lakes
  /\ vectors \in {All, All \ SummaryRows} \cup {All \ {i} : i \in All}
  /\ remains = All /\ drops = 0
  /\ walk = [pc |-> "idle", root |-> <<>>, layer |-> <<>>, depth |-> 0, seen |-> {}, leaves |-> <<>>, lost |-> {}, start |-> {}]
-----------------------------------------------------------------------------
WalkBegins(from) ==
  /\ walk.pc = "idle" /\ from # <<>>
  /\ walk' = [walk EXCEPT !.pc = "layer", !.root = from, !.layer = from, !.start = vectors \cap remains]
  /\ UNCHANGED <<cites, vectors, remains, drops>>

\* Ids that were met in an earlier layer are left out; within a layer they repeat.
FreshIds(layer, seen) == Among(layer, All \ seen)
TooDeep(depth) == depth > MaxDepth
\* A summary at the bottom of the walk counts as a moment, with its own vector.
WalksDown(i, depth) == i \in SummaryRows /\ depth < MaxDepth
LeafRows(rows, depth) == Among(rows, {i \in vectors : ~WalksDown(i, depth)})
NextLayer(rows, depth) ==
  LET upTo[k \in 0..Len(rows)] ==
        IF k = 0 THEN <<>> ELSE upTo[k - 1] \o (IF WalksDown(rows[k], depth) THEN cites[rows[k]] ELSE <<>>)
  IN  upTo[Len(rows)]
UpTo(seq, n) == SubSeq(seq, 1, IF Len(seq) < n THEN Len(seq) ELSE n)

WalkStops == TooDeep(walk.depth) \/ Len(walk.leaves) >= LeafCap \/ FreshIds(walk.layer, walk.seen) = <<>>
CollectLayer ==
  /\ walk.pc = "layer" /\ ~WalkStops
  /\ LET fresh == FreshIds(walk.layer, walk.seen)
         asked == UpTo(fresh, BatchCap)
         rows == Among(asked, remains)
         leaves == UpTo(walk.leaves \o LeafRows(rows, walk.depth), LeafCap)
     IN  walk' = [walk EXCEPT !.seen = @ \cup ToSet(fresh), !.leaves = leaves, !.depth = @ + 1,
                              !.lost = @ \cup (ToSet(fresh) \ ToSet(asked)),
                              !.layer = IF Len(leaves) = LeafCap THEN <<>> ELSE NextLayer(rows, walk.depth)]
  /\ UNCHANGED <<cites, vectors, remains, drops>>

\* The request fails: what lies below is not walked.
LayerDrops ==
  /\ walk.pc = "layer" /\ ~WalkStops /\ drops < MaxDrops /\ drops' = drops + 1
  /\ walk' = [walk EXCEPT !.seen = @ \cup ToSet(walk.layer), !.lost = @ \cup ToSet(FreshIds(walk.layer, walk.seen)), !.layer = <<>>]
  /\ UNCHANGED <<cites, vectors, remains>>

WalkEnds ==
  /\ walk.pc = "layer" /\ WalkStops
  /\ walk' = [walk EXCEPT !.pc = IF walk.leaves = <<>> THEN "none" ELSE "mean"]
  /\ UNCHANGED <<cites, vectors, remains, drops>>

RowIsEmbedded(i) ==
  /\ i \in remains \ vectors /\ vectors' = vectors \cup {i}
  /\ UNCHANGED <<cites, remains, walk, drops>>
RowGoes(i) ==
  /\ i \in remains /\ Cardinality(All \ remains) < MaxGone /\ remains' = remains \ {i}
  /\ UNCHANGED <<cites, vectors, walk, drops>>

CentroidsNext ==
  \/ \E from \in Roots : WalkBegins(from)
  \/ CollectLayer \/ LayerDrops \/ WalkEnds
  \/ \E i \in All : RowIsEmbedded(i) \/ RowGoes(i)
CentroidsSpec == CentroidsInit /\ [][CentroidsNext]_centroidVars
-----------------------------------------------------------------------------
CentroidsTypeOK ==
  /\ vectors \subseteq All /\ remains \subseteq All
  /\ walk.pc \in {"idle", "layer", "mean", "none"} /\ walk.depth \in 0..(MaxDepth + 1)
  /\ walk.seen \subseteq All /\ walk.lost \subseteq walk.seen /\ ToSet(walk.leaves) \subseteq walk.seen
  /\ Len(walk.leaves) <= LeafCap

WalkIsDone == walk.pc \in {"mean", "none"}
\* What lies within so many steps below the rows that the summary cites.
Below[n \in 0..MaxDepth] ==
  IF n = 0 THEN ToSet(walk.root) ELSE Below[n - 1] \cup UNION {ToSet(cites[i]) : i \in Below[n - 1]}
IsMoment(i) == i \notin SummaryRows \/ \A n \in 0..(MaxDepth - 1) : i \notin Below[n]

\* Only moments below the summary are averaged, and all of those that had a vector
\* when the walk began, unless a request failed or was too wide, or the cap of leaves
\* was met.  Where rows have gone or were not read, a row may be met further down
\* than it lies.
MomentsAreMet ==
  /\ \A i \in ToSet(walk.leaves) : i \in Below[MaxDepth]
  /\ remains = All /\ walk.lost = {} => \A i \in ToSet(walk.leaves) : IsMoment(i)
  /\ WalkIsDone /\ walk.lost = {} /\ remains = All /\ Len(walk.leaves) < LeafCap =>
       \A i \in Below[MaxDepth] \cap walk.start : IsMoment(i) => i \in ToSet(walk.leaves)

\* Where no two rows cite the same one, each moment counts once.
IsTree ==
  \A i, j \in All : \A k \in DOMAIN cites[i], l \in DOMAIN cites[j] : cites[i][k] = cites[j][l] => i = j /\ k = l
CountedOnceInTrees == IsInjective(walk.leaves) \/ ~(IsTree /\ IsInjective(walk.root))
CentroidsAreTrue == MomentsAreMet /\ CountedOnceInTrees

\* What the comment at the filter says: a row that two summaries cite counts once.
CountedOnce == IsInjective(walk.leaves)
=============================================================================
