------------------------------ MODULE Timelines ------------------------------
(***************************************************************************)
(* A plan with a search and a timeline step                                *)
(* (delta-store/deltas/plan.py): the rows that the search has found become *)
(* anchors, each with a window of the lake around it, and windows that     *)
(* meet become one strip.  The lake goes on between the two steps, each of *)
(* which is a query of its own.                                            *)
(*                                                                         *)
(* A table is a sequence of rows [at, src] in the order of their times,    *)
(* no two of which are equal; a row is named by its place.  The limits on  *)
(* the rows of a search and on the strips of an answer are not reached.    *)
(***************************************************************************)
EXTENDS Integers, FiniteSetsExt, Centroids

CONSTANTS
  Tables,           \* the tables to choose from
  MaxFound,         \* bound: rows that a search finds
  Radius,           \* radius_minutes
  Gap,              \* gap_minutes
  MaxPerSide,       \* max_per_side
  MergeGap,         \* merge_gap_seconds
  Second,           \* the resolution of a second
  CollapseSources,  \* collapse_sources
  ExcludeSources    \* exclude_sources

ASSUME TimelinesBounds ==
  /\ Radius \in Nat /\ Gap \in Nat /\ MaxPerSide \in Nat /\ MergeGap \in Nat
  /\ \A t \in Tables :
       /\ t \in Seq([at : Nat, src : STRING])
       /\ \A i, j \in DOMAIN t : i < j => t[i].at < t[j].at

VARIABLES
  table,    \* every row there will be
  landed,   \* how many of them are in the lake
  expired,  \* rows whose expires_at has passed
  step,     \* the step of the plan that is next
  seeds,    \* resolved rows of the search
  strips    \* the answer of the timeline step

timelineVars == <<table, landed, expired, step, seeds, strips>>

LakeRows == 1..landed \ expired
At(i) == table[i].at

TimelinesInit ==
  /\ table \in Tables /\ landed \in {Len(table) - 1, Len(table)} /\ landed >= 0 /\ expired = {}
  /\ step = "search" /\ seeds = {} /\ strips = << >>

-----------------------------------------------------------------------------
(* The lake goes on.                                                       *)

Written ==
  /\ step = "timeline" /\ landed < Len(table)
  /\ landed' = landed + 1
  /\ UNCHANGED <<table, expired, step, seeds, strips>>

Expires(i) ==
  /\ step = "timeline" /\ i \in LakeRows /\ expired = {}
  /\ expired' = expired \cup {i}
  /\ UNCHANGED <<table, landed, step, seeds, strips>>

-----------------------------------------------------------------------------
(* The window of a seed.                                                   *)

Distance(i, j) == IF i < j THEN At(j) - At(i) ELSE At(i) - At(j)

\* The query: of any source, the seed itself among them.
Here == {i \in LakeRows : table[i].src \notin ExcludeSources}
Around(s) == {i \in Here : Distance(i, s) <= Radius}

\* The seed, or if it is not there, the row nearest to it, the earlier of two.
Centre(rows, s) ==
  IF s \in rows THEN s
  ELSE Min({i \in rows : \A j \in rows : Distance(i, s) <= Distance(j, s)})

\* _gap_trim(): outward up to a silence longer than Gap, then the cap.
Path(rows, c, i) == {k \in rows : (i <= k /\ k <= c) \/ (c <= k /\ k <= i)}
Silent(path) == \E k, l \in path : k < l /\ (\A m \in path : m <= k \/ m >= l) /\ Distance(k, l) > Gap
Reaches(rows, c, i) == LET path == Path(rows, c, i) IN ~Silent(path) /\ Cardinality(path) <= MaxPerSide + 1
GapTrim(s) ==
  LET rows == Around(s)
      c == Centre(rows, s)
  IN  {i \in rows : Reaches(rows, c, i)}

-----------------------------------------------------------------------------
(* What is shown of a strip: entries that stand for one row, or for a run. *)

Entry(i) == [ids |-> {i}, src |-> table[i].src, at |-> At(i), kind |-> "row", count |-> 1]
Collapsed(entries, i, j) ==
  [ids |-> UNION {entries[k].ids : k \in i..j}, src |-> entries[i].src, at |-> entries[i].at,
   kind |-> "collapsed", count |-> j - i + 1]

\* Bursts are of one source and one second; runs, of one collapsed source.
Alike(how, a, b) ==
  a.src = b.src /\ IF how = "burst" THEN a.at \div Second = b.at \div Second ELSE a.src \in CollapseSources
RunEnd(entries, how, i) == Max({j \in i..Len(entries) : \A k \in (i + 1)..j : Alike(how, entries[i], entries[k])})
IsProtected(e, protected) == e.kind = "row" /\ e.ids \subseteq protected

\* Folds the runs of entries that are alike, but none with a protected row.  A
\* run that is kept is tried again from its second entry on.
Collapse(entries, how, protected) ==
  LET upTo[i \in 0..Len(entries)] ==
        IF i = 0 THEN [out |-> <<>>, next |-> 1]
        ELSE LET done == upTo[i - 1]
                 end == RunEnd(entries, how, i)
             IN  IF i < done.next THEN done
                 ELSE IF end = i \/ \E k \in i..end : IsProtected(entries[k], protected)
                 THEN [out |-> Append(done.out, entries[i]), next |-> i + 1]
                 ELSE [out |-> Append(done.out, Collapsed(entries, i, end)), next |-> end + 1]
  IN  upTo[Len(entries)].out

Entries(rows) ==
  LET upTo[i \in 0..Len(table)] ==
        IF i = 0 THEN <<>> ELSE IF i \in rows THEN Append(upTo[i - 1], Entry(i)) ELSE upTo[i - 1]
  IN  upTo[Len(table)]
Shown(raws, anchors) == Collapse(Collapse(Entries(raws), "burst", anchors), "run", anchors)

-----------------------------------------------------------------------------
(* The strips.                                                             *)

Strip(anchors, raws) ==
  [anchors |-> anchors, raws |-> raws, tStart |-> At(Min(raws)), tEnd |-> At(Max(raws)),
   shown |-> Shown(raws, anchors)]

Windows == [s \in {x \in seeds : Around(x) # {}} |-> GapTrim(s)]

\* The windows that begin at a row meet in any case.
Openers(windows, i) == {s \in DOMAIN windows : Min(windows[s]) = i}
OpenedAt(windows, i) == LET some == Openers(windows, i) IN Strip(some, UNION {windows[s] : s \in some})

\* Variant: the end of a strip stays where its first window ended.
JoinedWithOldEnd(p, w) == [Strip(p.anchors \cup w.anchors, p.raws \cup w.raws) EXCEPT !.tEnd = p.tEnd]

Joined(p, w) == Strip(p.anchors \cup w.anchors, p.raws \cup w.raws)

MergeWindow(done, w) ==
  IF done # << >> /\ w.tStart - done[Len(done)].tEnd <= MergeGap
  THEN [done EXCEPT ![Len(done)] = Joined(done[Len(done)], w)]
  ELSE Append(done, w)

\* In the order in which the windows begin.
Merged(windows) ==
  LET upTo[i \in 0..Len(table)] ==
        IF i = 0 THEN <<>>
        ELSE IF Openers(windows, i) = {} THEN upTo[i - 1] ELSE MergeWindow(upTo[i - 1], OpenedAt(windows, i))
  IN  upTo[Len(table)]

-----------------------------------------------------------------------------
(* execute().                                                              *)

\* Any rows may be the closest ones.
Search(found) ==
  /\ step = "search" /\ found \subseteq LakeRows /\ Cardinality(found) <= MaxFound
  /\ seeds' = found /\ step' = "timeline"
  /\ UNCHANGED <<table, landed, expired, strips>>

\* Without seeds the step is skipped with a warning.
Timeline ==
  /\ step = "timeline"
  /\ strips' = Merged(Windows)
  /\ step' = "done"
  /\ UNCHANGED <<table, landed, expired, seeds>>

TimelinesNext ==
  \/ Written \/ Timeline
  \/ \E i \in LakeRows : Expires(i)
  \/ \E found \in SUBSET LakeRows : Search(found)

TimelinesSpec == TimelinesInit /\ [][TimelinesNext]_timelineVars
-----------------------------------------------------------------------------
\* Every variable has its type: strips are made of rows of the lake.
TimelinesTypeOK ==
  /\ table \in Seq([at : Nat, src : STRING]) /\ landed \in 0..Len(table) /\ expired \subseteq 1..landed
  /\ step \in {"search", "timeline", "done"} /\ seeds \subseteq 1..landed
  /\ \A k \in DOMAIN strips : strips[k].raws \subseteq LakeRows /\ strips[k].anchors \subseteq seeds

\* The rows that strip x shows, each with its entry.
ShowsIds(x) == UNION {x.shown[k].ids : k \in DOMAIN x.shown}

\* Every seed with something around it anchors one strip, and its row, if it
\* is there, is seen in it uncollapsed, even when it came into the strip with
\* another seed's window.
AnchorsAreSeen ==
  \A s \in {x \in seeds : Around(x) # {}} :
    \E k \in DOMAIN strips :
      /\ s \in strips[k].anchors
      /\ \A j \in DOMAIN strips \ {k} : s \notin strips[j].anchors
      /\ s \in Around(s) => \E e \in DOMAIN strips[k].shown :
           strips[k].shown[e].ids = {s} /\ strips[k].shown[e].kind = "row"

\* Strips come in the order of time, further apart than MergeGap, and show
\* every one of their rows once.
StripsAreApart ==
  /\ \A k \in 1..(Len(strips) - 1) : At(Min(strips[k + 1].raws)) - At(Max(strips[k].raws)) > MergeGap
  /\ \A k \in DOMAIN strips : LET x == strips[k] IN
       /\ ShowsIds(x) = x.raws
       /\ \A a, b \in DOMAIN x.shown : a < b => Max(x.shown[a].ids) < Min(x.shown[b].ids)

\* A row inside a strip is left out of it only between two windows that the
\* merge has joined over it.
HolesAreMerges ==
  \A k \in DOMAIN strips : LET x == strips[k] IN
    \A i \in Here \ x.raws :
      (\E a, b \in x.raws : a < i /\ i < b) =>
        Distance(Max({a \in x.raws : a < i}), Min({b \in x.raws : b > i})) <= MergeGap

\* The answer to the timeline step is what the strips promise for the lake as
\* it was at that step ("any two windows whose ranges are within
\* `merge_gap_seconds` of each other become one timeline", plan.py).
TimelineIsTrue == step = "done" => AnchorsAreSeen /\ StripsAreApart /\ HolesAreMerges

\* "`count` is the number of deltas folded together" (models.py) is not so: a
\* run of a collapsed source counts a burst that was folded before as one.
EntriesAreCounted ==
  \A k \in DOMAIN strips : \A e \in DOMAIN strips[k].shown :
    strips[k].shown[e].count = Cardinality(strips[k].shown[e].ids)

\* What is summed up is true: the strips of a timeline, the drafts of summaries and
\* their centroids.
StripsAreTrue == TimelineIsTrue /\ CentroidsAreTrue /\ DraftsAreTrue
=============================================================================
