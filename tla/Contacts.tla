------------------------------ MODULE Contacts ------------------------------
(***************************************************************************)
(* Contacts: a row of the registry says whether a contact is active, its   *)
(* newest profile row in the lake what it may do (api/contacts.py).  The   *)
(* authentication of each request keeps contacts in a cache (api/auth.py); *)
(* administrators edit and disable contacts (api/routes/contacts.py), and  *)
(* an edit that would leave no active administrator is to be refused.      *)
(*                                                                         *)
(* Every call to the delta store is a step.  Of a profile only the role is *)
(* kept; handles, proposals and tokens are left out, and contacts are not  *)
(* created: the behaviours start with the people there are.                *)
(***************************************************************************)
EXTENDS Naturals, FiniteSets

CONSTANTS
  People,    \* the contacts
  Edits,     \* edits that can be under way at once
  Visits,    \* requests being authenticated at once
  TTL,       \* _CONTACT_CACHE_TTL
  MaxNow,    \* bound: the clock
  MaxEdits,  \* bound: edits
  MaxGlitches \* bound: calls that fail

VARIABLES
  active,    \* the contacts that are not disabled
  role,      \* the role in the newest profile row of each
  said,      \* the role in the newest row that each actor wrote for it, if all
             \*   else in it still stands
  edit,      \* each edit
  visit,     \* each request that looks a contact up
  contacts,  \* _CONTACT_CACHE
  now,       \* the clock
  held,      \* history: when each contact last had each role
  edits,     \* edits so far (bounds the operators)
  glitches,  \* calls failed so far (bounds the environment)
  strained   \* history: have two edits overlapped, or has a call failed?

contactVars == <<active, role, said, edit, visit, contacts, now, held, edits, glitches, strained>>

Roles == {"admin", "member"}
NoEdit == [pc |-> "no", by |-> CHOOSE p \in People : TRUE, who |-> CHOOSE p \in People : TRUE, change |-> "none", base |-> "member", others |-> {}]
NoVisit == [pc |-> "no", who |-> CHOOSE p \in People : TRUE, at |-> 0]
Unknown == [has |-> FALSE, role |-> "member", at |-> 0]

ContactsInit ==
  /\ active = People /\ role \in [People -> Roles] /\ \E p \in People : role[p] = "admin"
  /\ said = [p \in People |-> [a \in People |-> "none"]]
  /\ edit = [e \in Edits |-> NoEdit] /\ visit = [v \in Visits |-> NoVisit]
  /\ contacts = [p \in People |-> Unknown]
  /\ now = 1 /\ held = [p \in People |-> [r \in Roles |-> IF r = role[p] THEN 1 ELSE 0]]
  /\ edits = 0 /\ glitches = 0 /\ strained = FALSE

\* A call is answered, or fails.
Call(ok) ==
  IF ok THEN UNCHANGED <<glitches, strained>>
  ELSE glitches < MaxGlitches /\ glitches' = glitches + 1 /\ strained' = TRUE

-----------------------------------------------------------------------------
(* update_profile() and disable().                                         *)

\* An administrator edits a contact that is active: disables it, sets its
\* role, or changes something else of its profile.
Begin(e, a, p, change) ==
  /\ edit[e].pc = "no" /\ p \in active
  /\ edits < MaxEdits /\ edits' = edits + 1
  /\ strained' = (strained \/ \E f \in Edits \ {e} : edit[f].pc # "no")
  /\ edit' = [edit EXCEPT ![e] = [NoEdit EXCEPT !.pc = "profile", !.by = a, !.who = p, !.change = change]]
  /\ UNCHANGED <<active, role, said, visit, contacts, now, held, glitches>>

\* Would the edit take an administrator away?
Removes(change, base) == base = "admin" /\ change \in {"disable", "member"}

\* Its profile; when the read fails it counts as a member.
ReadProfile(e, ok) ==
  /\ edit[e].pc = "profile"
  /\ Call(ok)
  /\ LET base == IF ok THEN role[edit[e].who] ELSE "member"
     IN  edit' = [edit EXCEPT ![e].base = base,
                    ![e].pc = IF Removes(edit[e].change, base) THEN "list" ELSE "write"]
  /\ UNCHANGED <<active, role, said, visit, contacts, now, held, edits>>

\* _count_other_active_admins(): the registry, then the profile of each.
ListOthers(e) ==
  /\ edit[e].pc = "list"
  /\ edit' = [edit EXCEPT ![e].pc = "count", ![e].others = active \ {edit[e].who}]
  /\ UNCHANGED <<active, role, said, visit, contacts, now, held, edits, glitches, strained>>

\* Variant: whoever is active counts.
OtherAdminsAny(e) == edit[e].others

OtherAdmins(e) == {p \in edit[e].others : role[p] = "admin"}

\* Without another administrator the edit is refused.
CountOthers(e) ==
  /\ edit[e].pc = "count"
  /\ edit' = [edit EXCEPT ![e] = IF OtherAdmins(e) = {} THEN NoEdit ELSE [@ EXCEPT !.pc = "write"]]
  /\ UNCHANGED <<active, role, said, visit, contacts, now, held, edits, glitches, strained>>

\* The duplicate check of the store: a row carries its actor, unless contacts
\* edit themselves, and repeats what this actor wrote last.
RepeatsProfile(e, new) ==
  edit[e].by # edit[e].who /\ edit[e].change # "other" /\ said[edit[e].who][edit[e].by] = new

\* The registry's row is disabled, or a profile row written that holds the
\* role as it was read unless the edit sets it.  A profile row that cannot be
\* written is reported nowhere.
Write(e, ok) ==
  /\ edit[e].pc = "write"
  /\ Call(ok)
  /\ LET p == edit[e].who
         new == IF edit[e].change \in Roles THEN edit[e].change ELSE edit[e].base
         written == ok /\ edit[e].change # "disable" /\ ~RepeatsProfile(e, new)
     IN  /\ active' = IF ok /\ edit[e].change = "disable" THEN active \ {p} ELSE active
         /\ role' = IF written THEN [role EXCEPT ![p] = new] ELSE role
         /\ said' = IF ~written THEN said
                    ELSE [said EXCEPT ![p] = [a \in People |-> IF a = edit[e].by THEN new
                                              ELSE IF edit[e].change = "other" THEN "none" ELSE @[a]]]
         /\ held' = [held EXCEPT ![p][role'[p]] = now]
  /\ edit' = [edit EXCEPT ![e].pc = "invalidate"]
  /\ UNCHANGED <<visit, contacts, now, edits>>

\* The endpoint empties the cache of the contact and answers.
Invalidate(e) ==
  /\ edit[e].pc = "invalidate"
  /\ contacts' = [contacts EXCEPT ![edit[e].who] = Unknown]
  /\ edit' = [edit EXCEPT ![e] = NoEdit]
  /\ UNCHANGED <<active, role, said, visit, now, held, edits, glitches, strained>>

-----------------------------------------------------------------------------
(* resolve_contact().                                                      *)

FreshContact(p) == contacts[p].has /\ now - contacts[p].at < TTL

\* Variant: an entry is stamped with the time at which it is stored.
StampStored(v) == now

\* An entry is stamped with the time at which the look-up began.
Stamp(v) == visit[v].at

\* A request whose contact is not in the cache looks it up; a disabled contact
\* is not found, and not cached.
Resolve(v, p) ==
  /\ visit[v].pc = "no" /\ ~FreshContact(p) /\ p \in active
  /\ visit' = [visit EXCEPT ![v] = [pc |-> "profile", who |-> p, at |-> now]]
  /\ UNCHANGED <<active, role, said, edit, contacts, now, held, edits, glitches, strained>>

\* The profile is read; a contact whose profile cannot be read is taken, and
\* cached, as a member.
Resolved(v, ok) ==
  /\ visit[v].pc = "profile"
  /\ Call(ok)
  /\ visit' = [visit EXCEPT ![v] = [@ EXCEPT !.pc = IF ok /\ role[visit[v].who] = "admin" THEN "admin" ELSE "member"]]
  /\ UNCHANGED <<active, role, said, edit, contacts, now, held, edits>>

\* The handles are read, and the contact is stored.
Stored(v) ==
  /\ visit[v].pc \in Roles
  /\ contacts' = [contacts EXCEPT ![visit[v].who] = [has |-> TRUE, role |-> visit[v].pc, at |-> Stamp(v)]]
  /\ visit' = [visit EXCEPT ![v] = NoVisit]
  /\ UNCHANGED <<active, role, said, edit, now, held, edits, glitches, strained>>

Tick ==
  /\ now < MaxNow
  /\ now' = now + 1
  /\ held' = [p \in People |-> [held[p] EXCEPT ![role[p]] = now']]
  /\ UNCHANGED <<active, role, said, edit, visit, contacts, edits, glitches, strained>>

Edit(e) ==
  \/ \E a, p \in People, change \in {"disable", "admin", "member", "other"} : Begin(e, a, p, change)
  \/ ListOthers(e) \/ CountOthers(e) \/ Invalidate(e)
  \/ \E ok \in BOOLEAN : ReadProfile(e, ok) \/ Write(e, ok)
Visit(v) ==
  \/ \E p \in People : Resolve(v, p)
  \/ \E ok \in BOOLEAN : Resolved(v, ok)
  \/ Stored(v)

ContactsNext == (\E e \in Edits : Edit(e)) \/ (\E v \in Visits : Visit(v)) \/ Tick

ContactsSpec == ContactsInit /\ [][ContactsNext]_contactVars
-----------------------------------------------------------------------------
\* Every variable has its type, and nothing is cached from the future.
ContactsTypeOK ==
  /\ active \subseteq People /\ role \in [People -> Roles]
  /\ said \in [People -> [People -> Roles \cup {"none"}]]
  /\ \A e \in Edits :
       /\ edit[e].pc \in {"no", "profile", "list", "count", "write", "invalidate"}
       /\ {edit[e].by, edit[e].who} \subseteq People /\ edit[e].base \in Roles /\ edit[e].others \subseteq People
  /\ \A v \in Visits : visit[v].pc \in Roles \cup {"no", "profile"} /\ visit[v].at \in 0..now
  /\ contacts \in [People -> [has : BOOLEAN, role : Roles, at : 0..now]]
  /\ now \in 1..MaxNow /\ held \in [People -> [Roles -> 0..now]]
  /\ edits \in 0..MaxEdits /\ glitches \in 0..MaxGlitches /\ strained \in BOOLEAN

ActiveAdmins == {p \in active : role[p] = "admin"}

\* The registry always has at least one active administrator.
AnAdminRemains == ActiveAdmins # {}

\* As long as edits come one at a time and no call fails, the guard keeps an
\* administrator, whatever is disabled, demoted, promoted or edited, and in
\* which order.
AnAdminRemainsUnstrained == strained \/ AnAdminRemains

\* A role that an edit sets is the contact's when the edit is answered, if no
\* other edit came between.  The duplicate check breaks it: one who demotes a
\* contact, sees another promote it and demotes it again repeats a row.
EditsTakeHold ==
  \A e \in Edits :
    edit[e].pc = "invalidate" /\ edit[e].change \in Roles /\ ~strained => role[edit[e].who] = edit[e].change

\* A role that is served from the cache is one the contact has had within the
\* last TTL, even when the look-up was under way as the role changed, unless
\* its read failed.
CachedRolesWereTrue ==
  glitches = 0 =>
    \A p \in People : contacts[p].has => held[p][contacts[p].role] >= contacts[p].at
=============================================================================
