---------------------------- MODULE Introductions ----------------------------
(* People that Fathom or a bridge has noticed (api/contacts.py,              *)
(* api/routes/contacts.py): a proposal waits in the lake for 30 days, an     *)
(* administrator accepts or rejects it, and a tombstone that lives longer    *)
(* than any proposal takes it off the list.  An acceptance is five calls in  *)
(* a row of which all but the first may fail unnoticed: the slug, the        *)
(* profile, the proposal, the handle, the tombstone.  Nothing asks whether   *)
(* the proposal is still open.                                               *)
EXTENDS Bell, FiniteSets

CONSTANTS
  Strangers,     \* people to propose, each with a handle of his own
  Names,         \* slugs
  Hosts,      \* administrators
  MostListed,    \* list_proposals(limit)
  ProposalLife,  \* PROPOSAL_TTL_SECONDS
  TombLife,      \* PROPOSAL_RESOLVED_TTL_SECONDS
  MaxIntros, MaxTombs, MaxDays, MaxLapses \* bounds

VARIABLES
  intros,    \* contact-proposal rows, in the order of arrival
  tombs,     \* contact-proposal-resolved rows, likewise
  registry,  \* each slug: unknown, bare (no profile was written) or full
  bound,     \* the slug that a stranger's handle is bound to
  deciding,  \* the acceptance each administrator has under way
  look,      \* a listing of the proposals
  day, lapses

ASSUME IntroductionsBounds == "none" \notin Names /\ MostListed \in Nat

introVars == <<intros, tombs, registry, bound, deciding, look, day, lapses>>

Lapse == lapses < MaxLapses /\ lapses' = lapses + 1
Attempt(ok) == IF ok THEN UNCHANGED lapses ELSE Lapse
\* gone: the reaper has deleted the row.  clean: no call of the acceptance failed,
\* and the proposal was there to be read.
LiveRows(rows, life) == {i \in DOMAIN rows : ~rows[i].gone /\ day - rows[i].at < life}
\* The newest rows of a query.
LatestRows(live, most) == {i \in live : Cardinality({j \in live : j > i}) < most}
NoDecision == [pc |-> "idle", of |-> 0, name |-> "none", clean |-> TRUE]
NoLook == [pc |-> "idle", rows |-> {}, shown |-> {}, closed |-> {}, opened |-> {}]
Closed == {tombs[t].of : t \in LiveRows(tombs, TombLife)}

IntroductionsInit ==
  /\ intros = <<>> /\ tombs = <<>>
  /\ registry = [n \in Names |-> "unknown"] /\ bound = [w \in Strangers |-> "none"]
  /\ deciding = [d \in Hosts |-> NoDecision] /\ look = NoLook
  /\ day = 0 /\ lapses = 0
-----------------------------------------------------------------------------
\* The lake drops a proposal that says what the last one about the same person said,
\* even if that was resolved or has expired, as long as the row is there.
Propose(who) ==
  /\ Len(intros) < MaxIntros
  /\ ~\E i \in DOMAIN intros : intros[i].who = who /\ ~intros[i].gone
  /\ intros' = Append(intros, [who |-> who, at |-> day, gone |-> FALSE])
  /\ UNCHANGED <<tombs, registry, bound, deciding, look, day, lapses>>
-----------------------------------------------------------------------------
\* An acceptance names the proposal and the slug.  A slug that is taken ends it.
Accept(d, i, name, ok) ==
  /\ deciding[d].pc = "idle" /\ registry[name] = "unknown" /\ Attempt(ok)
  /\ IF ok THEN /\ registry' = [registry EXCEPT ![name] = "bare"]
                /\ deciding' = [deciding EXCEPT ![d] = [NoDecision EXCEPT !.pc = "profile", !.of = i, !.name = name]]
     ELSE UNCHANGED <<registry, deciding>>
  /\ UNCHANGED <<intros, tombs, bound, look, day>>

WriteProfile(d, ok) ==
  /\ deciding[d].pc = "profile" /\ Attempt(ok)
  /\ registry' = IF ok THEN [registry EXCEPT ![deciding[d].name] = "full"] ELSE registry
  /\ deciding' = [deciding EXCEPT ![d].pc = "reads", ![d].clean = ok]
  /\ UNCHANGED <<intros, tombs, bound, look, day>>

\* The handle comes from the proposal as it was written; without it, none is bound.
ReadProposal(d, ok) ==
  LET there == ok /\ ~intros[deciding[d].of].gone
  IN  /\ deciding[d].pc = "reads" /\ Attempt(ok)
      /\ deciding' = [deciding EXCEPT ![d].pc = IF there THEN "handle" ELSE "tomb", ![d].clean = @ /\ there]
      /\ UNCHANGED <<intros, tombs, registry, bound, look, day>>

\* A handle that is bound stays where it is.
AddHandle(d, ok) ==
  LET who == intros[deciding[d].of].who
  IN  /\ deciding[d].pc = "handle" /\ Attempt(ok)
      /\ bound' = IF ok /\ bound[who] = "none" THEN [bound EXCEPT ![who] = deciding[d].name] ELSE bound
      /\ deciding' = [deciding EXCEPT ![d].pc = "tomb", ![d].clean = @ /\ ok]
      /\ UNCHANGED <<intros, tombs, registry, look, day>>

Tomb(d, i, outcome, clean) == [of |-> i, by |-> d, outcome |-> outcome, clean |-> clean, at |-> day, gone |-> FALSE]
WriteTomb(d, ok) ==
  /\ deciding[d].pc = "tomb" /\ Attempt(ok) /\ Len(tombs) < MaxTombs
  /\ tombs' = IF ok THEN Append(tombs, Tomb(d, deciding[d].of, "accepted", deciding[d].clean)) ELSE tombs
  /\ deciding' = [deciding EXCEPT ![d] = NoDecision]
  /\ UNCHANGED <<intros, registry, bound, look, day>>

\* A rejection is the tombstone alone; a second one by the same administrator says
\* the same, and is dropped.
Reject(d, i, ok) ==
  /\ deciding[d].pc = "idle" /\ Attempt(ok) /\ Len(tombs) < MaxTombs
  /\ ~\E t \in DOMAIN tombs : tombs[t].of = i /\ tombs[t].by = d /\ tombs[t].outcome = "rejected" /\ ~tombs[t].gone
  /\ tombs' = IF ok THEN Append(tombs, Tomb(d, i, "rejected", TRUE)) ELSE tombs
  /\ UNCHANGED <<intros, registry, bound, deciding, look, day>>
-----------------------------------------------------------------------------
\* A listing reads the newest proposals, then the newest tombstones, twice as many
\* as it shows of each.
ListIntros ==
  /\ look.pc # "tombs"
  /\ look' = [pc |-> "tombs", rows |-> LatestRows(LiveRows(intros, ProposalLife), 2 * MostListed), shown |-> {}, closed |-> Closed,
              opened |-> IF Cardinality(LiveRows(intros, ProposalLife)) <= 2 * MostListed THEN LiveRows(intros, ProposalLife) ELSE {}]
  /\ UNCHANGED <<intros, tombs, registry, bound, deciding, day, lapses>>

ListTombs(ok) ==
  LET resolved == {tombs[t].of : t \in LatestRows(LiveRows(tombs, TombLife), 2 * MostListed)}
      AllRead == Cardinality(LiveRows(tombs, TombLife)) <= 2 * MostListed
  IN  /\ look.pc = "tombs" /\ Attempt(ok)
      /\ look' = IF ~ok THEN NoLook
                 ELSE [look EXCEPT !.pc = "shown", !.shown = LatestRows(look.rows \ resolved, MostListed),
                                   !.closed = IF AllRead THEN @ ELSE {}, !.opened = IF AllRead THEN @ \ Closed ELSE {}]
      /\ UNCHANGED <<intros, tombs, registry, bound, deciding, day>>

\* No call takes days.
NextDay ==
  /\ day < MaxDays /\ day' = day + 1 /\ look.pc # "tombs" /\ \A d \in Hosts : deciding[d].pc = "idle"
  /\ UNCHANGED <<intros, tombs, registry, bound, deciding, look, lapses>>

\* The reaper deletes what has expired, all at once.
Buried(rows, life) == [i \in DOMAIN rows |-> [rows[i] EXCEPT !.gone = i \notin LiveRows(rows, life)]]
Bury ==
  /\ intros' = Buried(intros, ProposalLife) /\ tombs' = Buried(tombs, TombLife)
  /\ <<intros', tombs'>> # <<intros, tombs>>
  /\ UNCHANGED <<registry, bound, deciding, look, day, lapses>>

IntroductionsNext ==
  \/ \E w \in Strangers : Propose(w)
  \/ \E d \in Hosts, ok \in BOOLEAN :
       \/ \E i \in DOMAIN intros : Reject(d, i, ok) \/ \E name \in Names : Accept(d, i, name, ok)
       \/ WriteProfile(d, ok) \/ ReadProposal(d, ok) \/ AddHandle(d, ok) \/ WriteTomb(d, ok)
  \/ ListIntros \/ ListTombs(TRUE) \/ ListTombs(FALSE)
  \/ NextDay \/ Bury

IntroductionsSpec == IntroductionsInit /\ [][IntroductionsNext]_introVars
-----------------------------------------------------------------------------
IntroductionsTypeOK ==
  /\ Len(intros) <= MaxIntros /\ \A i \in DOMAIN intros : intros[i].who \in Strangers /\ intros[i].at <= day
  /\ \A t \in DOMAIN tombs : tombs[t].of \in DOMAIN intros /\ tombs[t].outcome \in {"accepted", "rejected"}
  /\ registry \in [Names -> {"unknown", "bare", "full"}] /\ bound \in [Strangers -> Names \cup {"none"}]
  /\ \A d \in Hosts : deciding[d].pc \in {"idle", "profile", "reads", "handle", "tomb"}
  /\ look.shown \subseteq look.rows

\* A listing shows nothing that was resolved when it began, however long ago, and
\* all that is open, if it may show that many, as long as the rows of each kind
\* are no more than it reads.
ListedIsOpen == look.shown \cap look.closed = {}
OpenIsListed == look.pc = "shown" /\ Cardinality(look.opened) <= MostListed => look.opened \subseteq look.shown

\* An acceptance that went well has left a contact, and the person's handle is
\* bound, to this contact or to one of an earlier acceptance.
AcceptedIsMinted ==
  \A t \in DOMAIN tombs : tombs[t].outcome = "accepted" /\ tombs[t].clean =>
    LET at == bound[intros[tombs[t].of].who] IN at # "none" /\ registry[at] # "unknown"

IntroductionsAreTrue == ListedIsOpen /\ OpenIsListed /\ AcceptedIsMinted

\* Stated for the reader, and broken: a proposal is accepted once.  Nothing looks
\* for a tombstone, and each acceptance has a slug of its own.
OneContactAnIntro ==
  \A s, t \in DOMAIN tombs : tombs[s].outcome = "accepted" /\ tombs[t].outcome = "accepted" /\ tombs[s].of = tombs[t].of => s = t
\* Stated for the reader, and broken: who was rejected became no contact.  An
\* acceptance whose tombstone was lost can only be rejected any more.
RejectedIsNoContact == \A t \in DOMAIN tombs : tombs[t].outcome = "rejected" => bound[intros[tombs[t].of].who] = "none"
-----------------------------------------------------------------------------
\* Bell and Introductions: what waits is listed, what was decided or marked as read
\* is not, and an acceptance leaves a contact who can be reached.
AlertsAreTrue == PendingIsListed /\ UnreadIsListed /\ IntroductionsAreTrue
=============================================================================
