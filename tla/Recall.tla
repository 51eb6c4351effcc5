------------------------------- MODULE Recall -------------------------------
(* Recall (api/search.py): a question becomes a plan of steps, the delta     *)
(* store runs it, and what it finds is cleaned of repetitions.  Then recall  *)
(* goes down from each summary to what it cites and up from each row to the  *)
(* summaries that cite it, the latter over an index that all recalls share   *)
(* for a minute.  A deep recall ends with a thought: a new summary that      *)
(* cites what was found, and that later recalls find.                        *)
EXTENDS Integers, SequencesExt
CONSTANTS
  Recalls,     \* recalls that may run at a time
  Moments,     \* the rows at the start, a sequence of "outside", "self" and "own" chat turns
  Plans,       \* what the planner may answer: sequences of steps
  MaxHits,     \* bound: rows that one step finds
  MostCited,   \* _SEDIMENT_PROVENANCE_LIMIT, rows fetched on the way down
  MostRisen,   \* _UPWARD_EXPANSION_FETCH_CAP, rows fetched on the way up
  MostSources, \* _SEDIMENT_MAX_SOURCES, rows that a thought cites
  IndexLife,   \* _PROVENANCE_PARENT_CACHE_TTL_S
  MaxCites, MaxMemories, MaxMinutes, MaxStumbles \* bounds

\* A plan has steps, the first of which fetches, and each union names two that do.
Fetching(plan) == {plan[k].id : k \in {k \in DOMAIN plan : plan[k].act \notin {"union", "timeline"}}}
WellFormed(plan) ==
  /\ plan # <<>> /\ plan[1].id \in Fetching(plan)
  /\ \A k \in DOMAIN plan :
       plan[k].act = "union" => Len(plan[k].of) >= 2 /\ plan[k].of[1] \in Fetching(plan) /\ plan[k].of[2] \in Fetching(plan)

ASSUME RecallBounds ==
  /\ IndexLife \in Nat \ {0}
  /\ Moments \in Seq({"outside", "self", "own"})
  /\ Plans \subseteq Seq([id : STRING, act : STRING, of : Seq(STRING)])
  /\ \A plan \in Plans : WellFormed(plan)

VARIABLES
  memories,  \* the lake, in the order of arrival
  parents,   \* _PROVENANCE_PARENT_CACHE with its time; whole: neither read had failed
  recalls,   \* the recalls that run
  minute, stumbles

recallVars == <<memories, parents, recalls, minute, stumbles>>

Ids == 1..Len(memories)
\* outside: its source is none of the loop's own, as those of chat turns and of
\* approved summaries are not; grounded: the mark of a thought.
Memory(kind, cites, outside, grounded) ==
  [kind |-> kind, cites |-> cites, outside |-> outside, grounded |-> grounded, at |-> minute]
Summaries == {i \in Ids : memories[i].kind \in {"provenance", "sediment"}}
Step(id, act, of) == [id |-> id, act |-> act, of |-> of]
Root == Step("root", "search", <<>>)
\* shown: deltas_by_step; index: the index this recall goes up by, loaded at since.
\* clean: no fetch failed or was cut; silenced: nothing is shown though a search came near.
NoRecall == [pc |-> "idle", deep |-> FALSE, armed |-> FALSE, talk |-> FALSE, view |-> "timeline", plan |-> <<>>,
         shown |-> <<>>, index |-> {}, since |-> 0, whole |-> TRUE, clean |-> TRUE, silenced |-> FALSE]
RowsShown(shown) == UNION {shown[k].rows : k \in DOMAIN shown}
SeenBy(s) == RowsShown(recalls[s].shown)
SetRecall(s, r) == recalls' = [recalls EXCEPT ![s] = r]
Stumble == stumbles < MaxStumbles /\ stumbles' = stumbles + 1

RecallInit ==
  /\ memories = [i \in 1..Len(Moments) |->
       [kind |-> "moment", cites |-> {}, outside |-> Moments[i] # "self", grounded |-> FALSE, at |-> 0]]
  /\ parents = [pairs |-> {}, at |-> 0, whole |-> TRUE]
  /\ recalls = [s \in Recalls |-> NoRecall]
  /\ minute = 0 /\ stumbles = 0
-----------------------------------------------------------------------------
\* The conversation joins the plan as a step of its own: in the union that ends
\* the plan, or in one that is added.
WithSession(plan) ==
  LET session == Step("_session", "filter", <<>>)
      last == plan[Len(plan)]
  IN  IF last.act = "union"
      THEN Front(plan) \o <<session, [last EXCEPT !.of = Append(@, "_session")]>>
      ELSE plan \o <<session, Step("_combined", "union", <<plan[1].id, "_session">>)>>

\* The strips are drawn around the last step that finds rows by their meaning.
WithTimeline(plan) ==
  LET anchors == SelectSeq(plan, LAMBDA step : step.act \in {"search", "chain", "bridge", "neighbors"})
  IN  IF anchors = <<>> THEN plan
      ELSE Append(plan, Step("_timeline", "timeline", <<anchors[Len(anchors)].id>>))

Drawn(r, plan) == IF r.view = "timeline" THEN WithTimeline(plan) ELSE plan
Shallow(r) == [r EXCEPT !.pc = "executes", !.deep = FALSE, !.plan = Drawn(r, <<Root>>)]

AskRecall(s, deep, armed, talk, view) ==
  /\ recalls[s].pc = "idle"
  /\ LET r == [NoRecall EXCEPT !.pc = "plans", !.deep = deep, !.armed = armed, !.talk = talk, !.view = view]
     IN  SetRecall(s, IF deep THEN r ELSE Shallow(r))
  /\ UNCHANGED <<memories, parents, minute, stumbles>>

\* The planner's tier is down, or its answer is no plan: the recall goes on shallow.
NoPlan(s) ==
  /\ recalls[s].pc = "plans" /\ Stumble
  /\ SetRecall(s, Shallow(recalls[s]))
  /\ UNCHANGED <<memories, parents, minute>>

Planned(s, plan) ==
  /\ recalls[s].pc = "plans"
  /\ LET r == recalls[s]
     IN  SetRecall(s, [r EXCEPT !.pc = "executes", !.plan = Drawn(r, IF r.talk THEN WithSession(plan) ELSE plan)])
  /\ UNCHANGED <<memories, parents, minute, stumbles>>
-----------------------------------------------------------------------------
\* What the executor answers for a step, when found is what each step that fetches
\* finds.  A union takes the first two of its steps, however many it names, and a
\* chain from nothing is skipped.
Payload(step, found) == CASE step.act = "union" -> found[step.of[1]] \cup found[step.of[2]]
                          [] step.act = "chain" /\ found[step.of[1]] = {} -> {}
                          [] step.act = "timeline" -> {}
                          [] OTHER -> found[step.id]
OwnTurns == {i \in Ids : i <= Len(Moments) /\ Moments[i] = "own"}
\* Variant: a step is cleaned of what the step before it has shown only.
CleanedOfLast(plan, found) ==
  [k \in DOMAIN plan |->
    [id |-> plan[k].id,
     rows |-> Payload(plan[k], found) \ (OwnTurns \cup IF k = 1 THEN {} ELSE Payload(plan[k - 1], found))]]
\* Fathom's own turns are left out, and so is a row that an earlier step has shown.
Cleaned(plan, found) ==
  [k \in DOMAIN plan |->
    [id |-> plan[k].id,
     rows |-> Payload(plan[k], found) \ (OwnTurns \cup UNION {Payload(plan[j], found) : j \in 1..(k - 1)})]]
\* What the searches found, and what of it is shown for them.
Came(plan, found) == UNION {found[id] : id \in {plan[k].id : k \in {k \in DOMAIN plan : plan[k].act = "search"}}}
Searched(plan, shown) == UNION {shown[k].rows : k \in {k \in DOMAIN plan : plan[k].act = "search"}}

\* The store runs the plan; near are the rows within the floor of the question.
\* With a floor, a recall none of whose searches comes near ends empty, before
\* anything is added to it.  The shallow view of deltas drops the far rows only.
Flat(rows) == [NoRecall EXCEPT !.pc = "answers", !.view = "deltas", !.shown = <<[id |-> "root", rows |-> rows]>>]
Executed(s, found, near) ==
  LET r == recalls[s]
      shown == Cleaned(r.plan, found)
      anchors == Searched(r.plan, shown)
  IN  /\ r.pc = "executes"
      /\ SetRecall(s, IF ~r.deep /\ r.view = "deltas"
                THEN Flat(IF r.armed THEN found["root"] \cap near ELSE found["root"])
                ELSE IF r.armed /\ anchors # {} /\ anchors \cap near = {}
                THEN [NoRecall EXCEPT !.pc = "answers", !.silenced = (Came(r.plan, found) \ OwnTurns) \cap near # {}]
                ELSE [NoRecall EXCEPT !.pc = "descends", !.deep = r.deep, !.shown = shown])
      /\ UNCHANGED <<memories, parents, minute, stumbles>>

NotExecuted(s) ==
  /\ recalls[s].pc = "executes" /\ Stumble
  /\ SetRecall(s, [NoRecall EXCEPT !.pc = "answers"])
  /\ UNCHANGED <<memories, parents, minute>>
-----------------------------------------------------------------------------
Some(rows, most) == {chosen \in SUBSET rows : Cardinality(chosen) = (IF Cardinality(rows) < most THEN Cardinality(rows) ELSE most)}
\* A step of its own for the rows that a fetch brings, unless it brings none.
Shows(r, id, rows) == IF rows = {} THEN r ELSE [r EXCEPT !.shown = Append(@, [id |-> id, rows |-> rows])]

\* Down: what the summaries among the rows cite and is not shown yet.
Descend(s) ==
  LET r == recalls[s]
      refs == (UNION {memories[i].cites : i \in SeenBy(s) \cap Summaries}) \ SeenBy(s)
  IN  /\ r.pc = "descends"
      /\ \/ /\ \E got \in Some(refs, MostCited) :
                 SetRecall(s, [Shows(r, "_provenance", got) EXCEPT !.pc = "loads", !.clean = (got = refs)])
            /\ UNCHANGED stumbles
         \/ refs # {} /\ Stumble /\ SetRecall(s, [r EXCEPT !.pc = "loads", !.clean = FALSE])
      /\ UNCHANGED <<memories, parents, minute>>

\* Up, first the index: the shared one while it is young, else two reads of the
\* lake, one per kind of summary; one that fails is left out.
LoadIndex(s) ==
  /\ recalls[s].pc = "loads"
  /\ SetRecall(s, IF parents.pairs # {} /\ minute - parents.at < IndexLife
            THEN [recalls[s] EXCEPT !.pc = "ascends", !.index = parents.pairs, !.since = minute, !.whole = parents.whole]
            ELSE [recalls[s] EXCEPT !.pc = "provenance", !.since = minute])
  /\ UNCHANGED <<memories, parents, minute, stumbles>>

Pairs(kind) == {p \in Ids \X Ids : memories[p[2]].kind = kind /\ p[1] \in memories[p[2]].cites}
ReadIndex(s, ok) ==
  LET r == recalls[s]
      index == r.index \cup IF ok THEN Pairs(r.pc) ELSE {}
  IN  /\ r.pc \in {"provenance", "sediment"}
      /\ IF ok THEN UNCHANGED stumbles ELSE Stumble
      /\ SetRecall(s, [r EXCEPT !.pc = IF r.pc = "provenance" THEN "sediment" ELSE "ascends",
                          !.index = index, !.whole = @ /\ ok])
      /\ parents' = IF r.pc = "sediment" THEN [pairs |-> index, at |-> r.since, whole |-> r.whole /\ ok] ELSE parents
      /\ UNCHANGED <<memories, minute>>

\* Up, three layers of summaries at most.
Above(index, rows) == {p[2] : p \in {p \in index : p[1] \in rows}}
Ancestors(index, rows) ==
  LET one == Above(index, rows) \ rows
      two == Above(index, one) \ (rows \cup one)
      three == Above(index, two) \ (rows \cup one \cup two)
  IN  one \cup two \cup three

Ascend(s) ==
  LET r == recalls[s]
      risen == Ancestors(r.index, SeenBy(s))
      next == IF r.deep THEN "thinks" ELSE "answers"
  IN  /\ r.pc = "ascends"
      /\ \/ /\ \E got \in Some(risen, MostRisen) :
                 SetRecall(s, [Shows(r, "_ascendance", got) EXCEPT !.pc = next, !.clean = @ /\ got = risen])
            /\ UNCHANGED stumbles
         \/ risen # {} /\ Stumble /\ SetRecall(s, [r EXCEPT !.pc = next, !.clean = FALSE])
      /\ UNCHANGED <<memories, parents, minute>>
-----------------------------------------------------------------------------
\* The thought: a summary of what is shown, unless that is a single row.  It is
\* marked by whether anything shown came from outside, and cites some of it.
Think(s) ==
  /\ recalls[s].pc = "thinks" /\ Cardinality(SeenBy(s)) >= 2 /\ Len(memories) < MaxMemories
  /\ \E cites \in Some(SeenBy(s), MostSources) :
       memories' = Append(memories, Memory("sediment", cites, FALSE, \E i \in SeenBy(s) : memories[i].outside))
  /\ SetRecall(s, [recalls[s] EXCEPT !.pc = "answers"])
  /\ UNCHANGED <<parents, minute, stumbles>>

\* Too little is shown, the tier is down, or the call or the write fails.
NoThought(s) ==
  /\ recalls[s].pc = "thinks"
  /\ IF Cardinality(SeenBy(s)) < 2 \/ Len(memories) = MaxMemories THEN UNCHANGED stumbles ELSE Stumble
  /\ SetRecall(s, [recalls[s] EXCEPT !.pc = "answers"])
  /\ UNCHANGED <<memories, parents, minute>>

RecallReturns(s) ==
  /\ recalls[s].pc = "answers" /\ SetRecall(s, NoRecall)
  /\ UNCHANGED <<memories, parents, minute, stumbles>>

\* An episode or a topic that was proposed and approved comes into the lake.
Approved(cites) ==
  /\ Len(memories) < MaxMemories
  /\ memories' = Append(memories, Memory("provenance", cites, TRUE, FALSE))
  /\ UNCHANGED <<parents, recalls, minute, stumbles>>

MinutePasses ==
  /\ minute < MaxMinutes /\ minute' = minute + 1
  /\ UNCHANGED <<memories, parents, recalls, stumbles>>

RecallNext ==
  \/ \E s \in Recalls, armed, talk \in BOOLEAN, view \in {"timeline", "deltas"} : AskRecall(s, TRUE, armed, talk, view)
  \/ \E s \in Recalls, armed \in BOOLEAN, view \in {"timeline", "deltas"} : AskRecall(s, FALSE, armed, FALSE, view)
  \/ \E s \in Recalls :
       \/ NoPlan(s) \/ NotExecuted(s) \/ Descend(s) \/ LoadIndex(s) \/ Ascend(s) \/ Think(s) \/ NoThought(s) \/ RecallReturns(s)
       \/ \E plan \in Plans : Planned(s, plan)
       \/ \E found \in [Fetching(recalls[s].plan) -> {rows \in SUBSET Ids : Cardinality(rows) <= MaxHits}] :
            \E near \in IF recalls[s].armed THEN SUBSET Came(recalls[s].plan, found) ELSE {{}} :
              Executed(s, found, near)
       \/ \E ok \in BOOLEAN : ReadIndex(s, ok)
  \/ \E cites \in {c \in SUBSET Ids : Cardinality(c) \in 1..MaxCites} : Approved(cites)
  \/ MinutePasses

RecallSpec == RecallInit /\ [][RecallNext]_recallVars
-----------------------------------------------------------------------------
RecallTypeOK ==
  /\ \A i \in Ids : /\ memories[i].kind \in {"moment", "provenance", "sediment"}
                    /\ memories[i].cites \subseteq 1..(i - 1) /\ memories[i].at \in 0..minute
  /\ Len(memories) <= MaxMemories /\ parents.pairs \subseteq Ids \X Ids
  /\ \A s \in Recalls : SeenBy(s) \subseteq Ids

\* A row is shown once, in the first step that has it, however many steps of the
\* plan, summaries and ancestors lead to it.
ShownOnce ==
  \A s \in Recalls : \A i, j \in DOMAIN recalls[s].shown :
    i # j => recalls[s].shown[i].rows \cap recalls[s].shown[j].rows = {}

\* When no read fails and none is cut, three layers of the summaries above what
\* was found are shown with it, but for those younger than the index may be.
Found(s) == UNION {x.rows : x \in {y \in ToSet(recalls[s].shown) : y.id # "_ascendance"}}
CitersOf(rows, until) == {p \in Summaries : memories[p].at <= until /\ memories[p].cites \cap rows # {}}
AncestorsAreShown ==
  \A s \in Recalls :
    recalls[s].pc = "thinks" /\ recalls[s].clean /\ recalls[s].whole =>
      LET until == recalls[s].since - IndexLife
          one == CitersOf(Found(s), until)
          two == CitersOf(one, until)
      IN  one \cup two \cup CitersOf(two, until) \subseteq SeenBy(s)

\* A thought that is marked as self-referential cites nothing from outside.
SelfReferenceIsReal ==
  \A i \in Ids : memories[i].kind = "sediment" /\ ~memories[i].grounded => \A c \in memories[i].cites : ~memories[c].outside

RecallsAreTrue == ShownOnce /\ AncestorsAreShown /\ SelfReferenceIsReal

\* Stated for the reader, and broken: a search that came near is not silenced.  A
\* row that an earlier filter of the plan has found is no anchor of the search.
NearIsHeard == \A s \in Recalls : ~recalls[s].silenced
\* Stated for the reader, and broken: a thought marked as grounded cites something
\* from outside.  The mark looks at all rows, the citation at the first ones.
GroundedCites ==
  \A i \in Ids : memories[i].kind = "sediment" /\ memories[i].grounded => \E c \in memories[i].cites : memories[c].outside
\* Stated for the reader, and broken: Fathom's own turns are not recalled.  What a
\* summary cites is not cleaned.
OwnTurnsStayOut == \A s \in Recalls : recalls[s].view = "timeline" => SeenBy(s) \cap OwnTurns = {}
=============================================================================
