-------------------------------- MODULE Bell --------------------------------
(* The bell in the dashboard's header (routes/alerts.py).  It lists what     *)
(* waits for a decision of the operator - proposals, by their rows and the   *)
(* decisions in the lake - and what has happened since the operator last     *)
(* marked all as read: cards of the puddle, and provenance that was created. *)
(* A listing asks the lake four kinds of questions, one after the other,     *)
(* while proposals, decisions and marks arrive.  Moments are the order of    *)
(* timestamps.  One operator; titles and previews are left out.              *)
EXTENDS Naturals, Sequences, FiniteSets, SequencesExt, FiniteSetsExt

CONSTANTS
  Pleas,        \* proposals that wait for the operator: tools, provenance from L3 up
  Formal,       \* L1 and L2 provenance, approved by the policy, with the same tags
  Clerks,       \* marks as read that can be under way at once
  Lookback,     \* the limit of the query for proposals, 50 in the code
  EraLimit,     \* the limit of the query for provenance of all levels, 20 in the code
  MaxMoments,   \* bound: cards, provenance and marks
  MaxMisfires   \* bound: queries that fail

ASSUME EraLimitAssumption == EraLimit \in Nat

VARIABLES
  petitions,  \* rows of proposals, in order
  verdicts,   \* proposals with a decision in the lake
  chimes,     \* the moments of alert and dm cards among the newest 500 of the puddle
  eras,       \* the moments of created provenance from L3 up
  minors,     \* the moments of created provenance of L1 and L2, which does not ring
  receipts,   \* rows of read receipts, in order: the moment each one names
  marking,    \* per mark under way, the moment it has taken, or 0
  listing,    \* a listing under way and what it has found
  moment, misfires

bellVars == <<petitions, verdicts, chimes, eras, minors, receipts, marking, listing, moment, misfires>>

\* since: what a listing began with.  crowded: what the limit left out.
NoListing ==
  [pc |-> "no", since |-> [drafted |-> {}, decided |-> {}, happened |-> {}, read |-> 0], viewed |-> 0,
   todo |-> {}, crowded |-> {}, pending |-> {}, unread |-> {}, failed |-> FALSE]

BellInit ==
  /\ petitions = <<>> /\ verdicts = {} /\ chimes = {} /\ eras = {} /\ minors = {} /\ receipts = <<>>
  /\ marking = [c \in Clerks |-> 0] /\ listing = NoListing /\ moment = 0 /\ misfires = 0

BellWorks(ok) == IF ok THEN misfires' = misfires ELSE misfires < MaxMisfires /\ misfires' = misfires + 1
MomentPasses == moment < MaxMoments /\ moment' = moment + 1
-----------------------------------------------------------------------------
DraftPlea(p) ==
  /\ p \notin ToSet(petitions) /\ petitions' = Append(petitions, p)
  /\ UNCHANGED <<verdicts, chimes, eras, minors, receipts, marking, listing, moment, misfires>>

DecidePlea(p) ==
  /\ p \in ToSet(petitions) \ verdicts /\ verdicts' = verdicts \cup {p}
  /\ UNCHANGED <<petitions, chimes, eras, minors, receipts, marking, listing, moment, misfires>>

Chime ==
  /\ MomentPasses /\ chimes' = chimes \cup {moment'}
  /\ UNCHANGED <<petitions, verdicts, eras, minors, receipts, marking, listing, misfires>>

\* Newer cards push old ones out of the query, or out of the puddle.
ChimesFade == \E c \in chimes :
  /\ chimes' = {d \in chimes : d > c}
  /\ UNCHANGED <<petitions, verdicts, eras, minors, receipts, marking, listing, moment, misfires>>

\* Provenance is created, of a level that rings or of one that does not.
NameEra ==
  /\ MomentPasses
  /\ \/ eras' = eras \cup {moment'} /\ UNCHANGED minors
     \/ minors' = minors \cup {moment'} /\ UNCHANGED eras
  /\ UNCHANGED <<petitions, verdicts, chimes, receipts, marking, listing, misfires>>

\* A mark takes the time and then writes it; two of them may cross.
MarkRead(c) ==
  /\ marking[c] = 0 /\ MomentPasses /\ marking' = [marking EXCEPT ![c] = moment']
  /\ UNCHANGED <<petitions, verdicts, chimes, eras, minors, receipts, listing, misfires>>

WriteViewedAt(c, ok) ==
  /\ marking[c] # 0 /\ BellWorks(ok)
  /\ receipts' = IF ok THEN Append(receipts, marking[c]) ELSE receipts
  /\ marking' = [marking EXCEPT ![c] = 0]
  /\ UNCHANGED <<petitions, verdicts, chimes, eras, minors, listing, moment>>
-----------------------------------------------------------------------------
LatestViewedAt == IF receipts = <<>> THEN 0 ELSE Last(receipts)
Unlisted == <<petitions, verdicts, chimes, eras, minors, receipts, marking, moment>>

\* The newest proposals, of which only those that wait are looked at.
NewestPleas == {i \in DOMAIN petitions : i > Len(petitions) - Lookback}

\* The listing looks at the puddle first and keeps what it sees there.
ListAlerts ==
  /\ listing.pc = "no"
  /\ listing' = [NoListing EXCEPT
       !.pc = "receipt", !.unread = chimes,
       !.since = [drafted |-> ToSet(petitions), decided |-> verdicts, happened |-> chimes \cup eras,
                  read |-> Max({0} \cup ToSet(receipts))]]
  /\ UNCHANGED Unlisted /\ UNCHANGED misfires

\* A receipt that cannot be read is none: everything is unread.
ReadReceipt(ok) ==
  LET viewed == IF ok THEN LatestViewedAt ELSE 0
  IN  /\ listing.pc = "receipt" /\ BellWorks(ok)
      /\ listing' = [listing EXCEPT !.pc = "drafts", !.viewed = viewed, !.failed = ~ok,
                                    !.unread = {c \in listing.unread : c > viewed}]
      /\ UNCHANGED Unlisted

\* Without an answer there are no proposals.
ReadDrafts(ok) ==
  /\ listing.pc = "drafts" /\ BellWorks(ok)
  /\ listing' = [listing EXCEPT
       !.pc = "decisions", !.failed = @ \/ ~ok,
       !.todo = IF ok THEN {i \in NewestPleas : petitions[i] \in Pleas} ELSE {},
       !.crowded = ToSet(petitions) \ {petitions[i] : i \in NewestPleas}]
  /\ UNCHANGED Unlisted

\* One question for each of them, the newest first; an answer that fails is no decision.
AskNext(i) == listing.pc = "decisions" /\ i \in listing.todo /\ \A j \in listing.todo : j <= i
AskGivesUp(ok) == \E i \in listing.todo :
  /\ AskNext(i) /\ BellWorks(ok)
  /\ listing' = IF ok /\ petitions[i] \in verdicts THEN [listing EXCEPT !.todo = {}]
                ELSE [listing EXCEPT !.todo = @ \ {i}, !.pending = @ \cup {petitions[i]}]
  /\ UNCHANGED Unlisted
AskDecision(ok) == \E i \in listing.todo :
  /\ AskNext(i) /\ BellWorks(ok)
  /\ listing' = [listing EXCEPT
       !.todo = @ \ {i}, !.failed = @ \/ ~ok,
       !.pending = IF ok /\ petitions[i] \in verdicts THEN @ ELSE @ \cup {petitions[i]}]
  /\ UNCHANGED Unlisted

\* One query for the newest provenance, of which only the levels that ring are kept.
NewestEras == {e \in eras : Cardinality({n \in eras \cup minors : n > e}) < EraLimit}
ReadEras(ok) ==
  /\ listing.pc = "decisions" /\ listing.todo = {} /\ BellWorks(ok)
  /\ listing' = [listing EXCEPT
       !.pc = "answer", !.failed = @ \/ ~ok,
       !.unread = @ \cup (IF ok THEN {e \in NewestEras : e > listing.viewed} ELSE {})]
  /\ UNCHANGED Unlisted

BellAnswered ==
  /\ listing.pc = "answer" /\ listing' = NoListing
  /\ UNCHANGED Unlisted /\ UNCHANGED misfires

BellNext ==
  \/ \E p \in Pleas \cup Formal : DraftPlea(p) \/ DecidePlea(p)
  \/ Chime \/ ChimesFade \/ NameEra
  \/ \E c \in Clerks : MarkRead(c) \/ \E ok \in BOOLEAN : WriteViewedAt(c, ok)
  \/ ListAlerts \/ BellAnswered
  \/ \E ok \in BOOLEAN : ReadReceipt(ok) \/ ReadDrafts(ok) \/ AskDecision(ok) \/ ReadEras(ok)

BellSpec == BellInit /\ [][BellNext]_bellVars
-----------------------------------------------------------------------------
BellTypeOK ==
  /\ IsInjective(petitions) /\ verdicts \subseteq ToSet(petitions) /\ ToSet(petitions) \subseteq Pleas \cup Formal
  /\ chimes \cup eras \cup minors \cup ToSet(receipts) \subseteq 1..moment /\ moment <= MaxMoments
  /\ marking \in [Clerks -> 0..moment]
  /\ listing.pc \in {"no", "receipt", "drafts", "decisions", "answer"}
  /\ listing.pending \subseteq Pleas /\ misfires \in 0..MaxMisfires

BellAnswers == listing.pc = "answer" /\ ~listing.failed
Crossed == \E i, j \in DOMAIN receipts : i < j /\ receipts[i] > receipts[j]

\* A listing shows each proposal that waited from its beginning to its end and
\* was among the newest, and none that had been verdicts before
\* (_pending_proposal_alerts asks for the decisions one by one).
PendingIsListed ==
  BellAnswers =>
    /\ (listing.since.drafted \cap Pleas) \ (verdicts \cup listing.crowded) \subseteq listing.pending
    /\ listing.pending \cap listing.since.decided = {}

\* What came after every receipt is listed, an era unless newer provenance has
\* filled the limit of its query, and what came before a receipt that was there
\* when the listing began is not - unless two marks have crossed.
UnreadIsListed ==
  BellAnswers /\ ~Crossed =>
    /\ \A u \in listing.unread : u > listing.since.read
    /\ \A h \in listing.since.happened :
         h > Max({0} \cup ToSet(receipts)) => h \in listing.unread \cup (eras \ NewestEras)

\* "they stay until the operator approves or denies" (list_alerts): proposals
\* that others crowd out of the query's limit do not.  TLC breaks it.
PendingStays ==
  BellAnswers => (listing.since.drafted \cap Pleas) \ verdicts \subseteq listing.pending
=============================================================================
