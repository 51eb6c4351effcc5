------------------------------ MODULE Drafters ------------------------------
(* The scripts that draft summaries (scripts/topical_agent.py on two levels, *)
(* scripts/reflective_agent.py): rows are pulled, a model groups them and    *)
(* may cite anything, each group is put to the operator and then posted as a *)
(* draft to the API, which writes it unless it repeats the newest one.       *)
EXTENDS Naturals, Sequences, FiniteSets, SequencesExt
CONSTANTS
  Happenings, Episodes,  \* rows of the lake: what happened, and what sums it up
  Groupings,          \* what the model may return: groups [title, ids], with no title or ids of no row
  MostSeen,           \* limit of the pull
  MaxSnarls          \* bound: failures, and rows that expire

ASSUME DraftersBounds ==
  /\ MostSeen \in Nat
  /\ \A groups \in Groupings :
       groups \in Seq(ToSet(groups)) /\ \A k \in DOMAIN groups : groups[k].ids \in Seq(ToSet(groups[k].ids))

VARIABLES
  pool,    \* the rows of the lake, oldest first
  draft,   \* a run: its script, what it has pulled, the groups, where it is, what it counts
  slots,   \* the drafts in the lake, in the order of their writing
  snarls

\* The members of S that a sequence has, in their order.
Among(s, S) ==
  LET upTo[k \in 0..Len(s)] ==
        IF k = 0 THEN <<>> ELSE IF s[k] \in S THEN Append(upTo[k - 1], s[k]) ELSE upTo[k - 1]
  IN  upTo[Len(s)]

drafterVars == <<pool, draft, slots, snarls>>

Scripts == {"episodes", "topics", "reflective"}
IdleRun == [pc |-> "idle", script |-> "episodes", auto |-> FALSE, pulled |-> {}, groups |-> <<>>, at |-> 1,
            written |-> 0, asked |-> {}, quit |-> 0, unsure |-> {}, dropped |-> {}, exit |-> 0]
DraftersInit == pool = <<>> /\ draft = IdleRun /\ slots = <<>> /\ snarls = 0
-----------------------------------------------------------------------------
RowArrives(i) ==
  /\ i \notin ToSet(pool) /\ pool' = Append(pool, i)
  /\ UNCHANGED <<draft, slots, snarls>>
RowExpires(i) ==
  /\ i \in ToSet(pool) /\ snarls < MaxSnarls /\ snarls' = snarls + 1
  /\ pool' = Among(pool, ToSet(pool) \ {i})
  /\ UNCHANGED <<draft, slots>>

Snarls == snarls < MaxSnarls /\ snarls' = snarls + 1
RunEnds(run, exit) == [run EXCEPT !.pc = "done", !.exit = exit]

\* The newest rows of the kind that the script looks for.
WantedBy(script) == IF script = "topics" THEN Episodes ELSE Happenings \cup Episodes
NewestPulled(rows) == ToSet(SubSeq(rows, Len(rows) - (IF Len(rows) < MostSeen THEN Len(rows) ELSE MostSeen) + 1, Len(rows)))
PullPool(script, auto, ok) ==
  /\ draft.pc = "idle"
  /\ IF ok THEN UNCHANGED snarls ELSE Snarls
  /\ LET rows == NewestPulled(Among(pool, WantedBy(script)))
         run == [draft EXCEPT !.script = script, !.auto = auto]
     IN  draft' = CASE ~ok -> RunEnds(run, IF script = "episodes" THEN 1 ELSE 2)
                    [] ok /\ rows = {} -> RunEnds(run, IF script = "reflective" THEN 2 ELSE 0)
                    [] OTHER -> [run EXCEPT !.pc = "compose", !.pulled = rows]
  /\ UNCHANGED <<pool, slots>>

\* The model returns groups, none, or nothing that can be read; the reflective
\* script asks for one and takes a title for consent.
ComposeGroups(groups) ==
  /\ draft.pc = "compose"
  /\ draft.script = "reflective" => Len(groups) <= 1 /\ (groups # <<>> => groups[1].title # "")
  /\ draft' = IF groups = <<>> THEN RunEnds(draft, 0) ELSE [draft EXCEPT !.pc = "group", !.groups = groups]
  /\ UNCHANGED <<pool, slots, snarls>>
ComposeFails ==
  /\ draft.pc = "compose" /\ Snarls
  /\ draft' = RunEnds(draft, IF draft.script = "reflective" THEN 0 ELSE 2)
  /\ UNCHANGED <<pool, slots>>

AtGroup == draft.pc = "group" /\ draft.at <= Len(draft.groups)
TheGroup == draft.groups[draft.at]
\* Ids that were not pulled are dropped; an id may be there twice.
KeptIds(ids) == Among(ids, draft.pulled)
\* Topics want two ids, episodes one; the reflective script does not count them.
Complete ==
  CASE draft.script = "episodes" -> TheGroup.title # "" /\ KeptIds(TheGroup.ids) # <<>>
    [] draft.script = "topics" -> TheGroup.title # "" /\ Len(KeptIds(TheGroup.ids)) >= 2
    [] draft.script = "reflective" -> TRUE
NextGroup == [draft EXCEPT !.at = @ + 1, !.pc = "group"]

SkipGroup ==
  /\ AtGroup /\ ~Complete
  /\ draft' = NextGroup
  /\ UNCHANGED <<pool, slots, snarls>>
\* Anything but a yes is a no; q ends a topical run.
AnswerAsked(word) ==
  /\ AtGroup /\ Complete
  /\ draft.auto => word = "yes"
  /\ word = "quit" => draft.script # "reflective"
  /\ draft' = CASE word = "yes" -> [draft EXCEPT !.pc = "post", !.asked = @ \cup {draft.at}]
                [] word = "no" -> NextGroup
                [] word = "quit" -> [draft EXCEPT !.pc = "done", !.quit = draft.at]
  /\ UNCHANGED <<pool, slots, snarls>>

TheDraft == [script |-> draft.script, title |-> TheGroup.title, ids |-> KeptIds(TheGroup.ids), by |-> draft.at]
\* The store drops a draft whose content repeats the newest of its source and tags;
\* the title is one of the tags.
RepeatsDraft(row) ==
  LET alike == {k \in DOMAIN slots : slots[k].title = row.title}
  IN  alike # {} /\ LET last == CHOOSE k \in alike : \A l \in alike : l <= k IN slots[last].ids = row.ids
WritesDraft == slots' = IF RepeatsDraft(TheDraft) THEN slots ELSE Append(slots, TheDraft)

\* A draft that was dropped is answered with no id, and counted.
PostDraft(reaches, answered) ==
  /\ draft.pc = "post"
  /\ IF reaches THEN WritesDraft ELSE UNCHANGED slots
  /\ IF reaches /\ answered THEN UNCHANGED snarls ELSE Snarls
  /\ LET told == reaches /\ answered
         run == [NextGroup EXCEPT !.written = IF told THEN @ + 1 ELSE @,
                                  !.unsure = IF reaches /\ ~answered THEN @ \cup {draft.at} ELSE @,
                                  !.dropped = IF reaches /\ RepeatsDraft(TheDraft) THEN @ \cup {draft.at} ELSE @]
     IN  draft' = IF draft.script = "reflective" /\ ~told THEN RunEnds(run, 1) ELSE run
  /\ UNCHANGED pool

FinishRun ==
  /\ draft.pc = "group" /\ draft.at > Len(draft.groups)
  /\ draft' = RunEnds(draft, 0)
  /\ UNCHANGED <<pool, slots, snarls>>

DraftersNext ==
  \/ \E i \in Happenings \cup Episodes : RowArrives(i) \/ RowExpires(i)
  \/ \E script \in Scripts, auto, ok \in BOOLEAN : PullPool(script, auto, ok)
  \/ \E groups \in Groupings : ComposeGroups(groups)
  \/ ComposeFails \/ SkipGroup \/ FinishRun
  \/ \E word \in {"yes", "no", "quit"} : AnswerAsked(word)
  \/ \E reaches, answered \in BOOLEAN : PostDraft(reaches, answered)
DraftersSpec == DraftersInit /\ [][DraftersNext]_drafterVars
-----------------------------------------------------------------------------
DraftersTypeOK ==
  /\ ToSet(pool) \subseteq Happenings \cup Episodes /\ IsInjective(pool)
  /\ draft.pc \in {"idle", "compose", "group", "post", "done"} /\ draft.script \in Scripts
  /\ draft.at \in 1..(Len(draft.groups) + 1) /\ draft.written < draft.at /\ draft.exit \in 0..2
  /\ \A k \in DOMAIN slots : slots[k].by \in DOMAIN draft.groups
  /\ snarls \in 0..MaxSnarls

\* A draft cites rows that were pulled, and what its level sums up: episodes at least
\* one row, topics nothing but episodes.
DraftsAreGrounded ==
  \A k \in DOMAIN slots :
    /\ ToSet(slots[k].ids) \subseteq draft.pulled
    /\ slots[k].script = "episodes" => slots[k].ids # <<>>
    /\ slots[k].script = "topics" => ToSet(slots[k].ids) \subseteq Episodes

\* A group is drafted at most once, when the operator was asked for it and did not
\* end the run, and the count tells the drafts apart from those whose answer was
\* lost and those that the store has dropped.
DraftsAreCounted ==
  /\ \A k, l \in DOMAIN slots : slots[k].by = slots[l].by => k = l
  /\ \A k \in DOMAIN slots : slots[k].by \in draft.asked /\ (draft.quit > 0 => slots[k].by < draft.quit)
  /\ draft.written = Len(slots) - Cardinality(draft.unsure \ draft.dropped) + Cardinality(draft.dropped \ draft.unsure)
DraftsAreTrue == DraftsAreGrounded /\ DraftsAreCounted

\* What the prompt asks of a topic: it spans more than one episode.
TopicsSpan == \A k \in DOMAIN slots : slots[k].script = "topics" => Cardinality(ToSet(slots[k].ids)) >= 2
=============================================================================
