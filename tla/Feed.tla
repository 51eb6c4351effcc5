-------------------------------- MODULE Feed --------------------------------
(* The feed of the dashboard (loop/routes.py, harness/threaded.py,           *)
(* loop/worker.py, loop/puddle.py).  A seed of the user and each card of a   *)
(* reply is written twice: as a row of the lake and then as an item of the   *)
(* puddle, which lives in memory, ends with its time to live and is filled   *)
(* again from the lake after a restart.  The feed merges both, and must show *)
(* each thing once.  An item is known by the thing it shows and by whether   *)
(* it is a copy from the lake; the rest of it follows from how the thing was *)
(* written.  Left out: items that are written once only, the pages of the    *)
(* feed and its limit of 500.                                                *)
EXTENDS Naturals, Sequences, FiniteSets, SequencesExt

CONSTANTS
  Seeds,        \* what users send through the composer
  Letters,      \* replies of the harness, each with one card or two
  MaxRecalled,  \* rows of a kind that a restart reads (REHYDRATE_MAX_TURNS)
  MaxGaps,      \* bound: calls that fail or whose answer is lost
  MaxBoots      \* bound: restarts

VARIABLES
  puddle,     \* the items
  stored,     \* the things whose row is in the lake, in order
  progress,   \* per thing, how far its two writes are, and what came of the row
  bridge,     \* the reply that the harness is mirroring, and its next card
  rehydrate,  \* the reads of the cold start
  view,       \* a request for the feed
  owed,       \* the things that a feed has to show
  overlapped,    \* cards that a restart read while its own harness wrote them
  gaps, boots

feedVars == <<puddle, stored, progress, bridge, rehydrate, view, owed, overlapped, gaps, boots>>

Cards == Letters \X {1, 2}
Displayed == Seeds \cup Cards

ASSUME FeedBounds == Seeds \cap (Cards \cup Letters) = {}

NoBridge == [reply |-> "none", card |-> 0, last |-> 0]
Quiet == [at |-> "over", unread |-> {}, read |-> {}]
NoView == [on |-> FALSE, items |-> {}, due |-> {}]

FeedInit ==
  /\ puddle = {} /\ stored = <<>> /\ owed = {} /\ overlapped = {} /\ gaps = 0 /\ boots = 0
  /\ progress = [x \in Displayed |-> [pc |-> "no", row |-> "none"]]
  /\ bridge = NoBridge /\ rehydrate = Quiet /\ view = NoView

Own(x) == [thing |-> x, copy |-> FALSE]
Copy(x) == [thing |-> x, copy |-> TRUE]
StoredRows == {stored[i] : i \in DOMAIN stored}
Place(x) == CHOOSE i \in DOMAIN stored : stored[i] = x
-----------------------------------------------------------------------------
\* What becomes of a call to the lake: its row is written and known, written
\* while the answer is lost, or not written.
Outcome(how) == IF how = "known" THEN gaps' = gaps ELSE gaps < MaxGaps /\ gaps' = gaps + 1

StoreRow(x, how) ==
  /\ progress[x].pc = "no" /\ Outcome(how)
  /\ progress' = [progress EXCEPT ![x] = [pc |-> "row", row |-> how]]
  /\ stored' = IF how = "failed" THEN stored ELSE Append(stored, x)
  /\ UNCHANGED <<puddle, rehydrate, view, owed, overlapped, boots>>

PutItem(x) ==
  /\ progress[x].pc = "row"
  /\ progress' = [progress EXCEPT ![x].pc = "done"]
  /\ puddle' = puddle \cup {Own(x)}
  /\ UNCHANGED <<stored, rehydrate, view, overlapped, gaps, boots>>

\* post_seed writes whatever comes of the row, and the feed owes the seed.
PostSeed(s, how) == StoreRow(s, how) /\ UNCHANGED bridge
EchoSeed(s) == PutItem(s) /\ owed' = owed \cup {s} /\ UNCHANGED bridge

\* The harness mirrors the cards of a reply one after the other.  A card whose
\* row failed has nothing but its item, which a sibling hides.
StartBridge(r, n) ==
  /\ bridge = NoBridge /\ progress[<<r, 1>>].pc = "no"
  /\ bridge' = [reply |-> r, card |-> 1, last |-> n]
  /\ UNCHANGED <<puddle, stored, progress, rehydrate, view, owed, overlapped, gaps, boots>>

BridgeRow(how) ==
  /\ bridge # NoBridge /\ StoreRow(<<bridge.reply, bridge.card>>, how)
  /\ UNCHANGED bridge

BridgeItem ==
  LET x == <<bridge.reply, bridge.card>>
  IN  /\ bridge # NoBridge /\ PutItem(x)
      /\ owed' = IF progress[x].row = "failed" THEN owed ELSE owed \cup {x}
      /\ bridge' = IF bridge.card = bridge.last THEN NoBridge
                   ELSE [bridge EXCEPT !.card = bridge.card + 1]
-----------------------------------------------------------------------------
\* A restart empties the puddle and cuts off what is under way.  What the lake
\* has of the cards is owed at once; seeds are when they have been read.
FeedRestarts ==
  /\ boots < MaxBoots /\ boots' = boots + 1
  /\ puddle' = {} /\ bridge' = NoBridge /\ view' = NoView /\ overlapped' = {}
  /\ progress' = [x \in Displayed |->
       IF progress[x].pc = "row" THEN [progress[x] EXCEPT !.pc = "cut"] ELSE progress[x]]
  /\ rehydrate' = [at |-> "reads", unread |-> {"seeds", "cards"}, read |-> {}]
  /\ owed' = Cards \cap StoredRows
  /\ UNCHANGED <<stored, gaps>>

\* The newest rows of a kind.
NewestRows(kind) ==
  {stored[i] : i \in {j \in DOMAIN stored :
     /\ stored[j] \in kind
     /\ Cardinality({k \in DOMAIN stored : k > j /\ stored[k] \in kind}) < MaxRecalled}}

\* Each slice is read for itself, while the harness and the composer work; one
\* that fails is left out.
ReadSlice(slice, kind, ok) ==
  /\ slice \in rehydrate.unread /\ Outcome(IF ok THEN "known" ELSE "failed")
  /\ rehydrate' = [rehydrate EXCEPT !.unread = @ \ {slice}, !.read = @ \cup (IF ok THEN NewestRows(kind) ELSE {})]
  /\ UNCHANGED <<puddle, stored, progress, bridge, view, owed, boots>>

ReadSeeds(ok) == ReadSlice("seeds", Seeds, ok) /\ UNCHANGED overlapped
ReadCards(ok) ==
  /\ ReadSlice("cards", Cards, ok)
  /\ overlapped' = IF ~ok THEN overlapped
                ELSE {x \in NewestRows(Cards) : Own(x) \in puddle \/ progress[x].pc = "row"}

\* The copies are written in one go, for the seeds that were read as well as
\* for the cards.
CopySlices ==
  /\ rehydrate.at = "reads" /\ rehydrate.unread = {}
  /\ puddle' = puddle \cup {Copy(x) : x \in rehydrate.read}
  /\ owed' = owed \cup (rehydrate.read \cap StoredRows)
  /\ rehydrate' = [Quiet EXCEPT !.at = "copied"]
  /\ UNCHANGED <<stored, progress, bridge, view, overlapped, gaps, boots>>

\* Time to live: the copies of a restart end together, and the item and the
\* row of a thing after the same time.
CopiesEnd ==
  /\ rehydrate.at = "copied"
  /\ puddle' = {i \in puddle : ~i.copy}
  /\ owed' = {x \in owed : x \in Cards \/ Own(x) \in puddle}
  /\ rehydrate' = Quiet
  /\ UNCHANGED <<stored, progress, bridge, view, overlapped, gaps, boots>>

Expire(x) ==
  /\ progress[x].pc \in {"done", "cut"} /\ (x \in Cards => bridge.reply # x[1])
  /\ progress' = [progress EXCEPT ![x].pc = "over"]
  /\ puddle' = puddle \ {Own(x)}
  /\ stored' = IF x \in StoredRows THEN RemoveAt(stored, Place(x)) ELSE stored
  /\ owed' = owed \ {x}
  /\ UNCHANGED <<bridge, rehydrate, view, overlapped, gaps, boots>>
-----------------------------------------------------------------------------
\* The key that an item is deduplicated by: the first lake-id, else the first
\* recalled-id.  All cards of a reply carry the id of the thread's row.
HasKey(i) == i.copy \/ i.thing \in Cards \/ progress[i.thing].row = "known"
Key(i) == IF i.copy \/ i.thing \in Seeds THEN i.thing ELSE i.thing[1]

\* Of two items with one key the newer is kept: a later card of the reply, and
\* an item rather than the copy of the row before it.
Newer(i, j) == IF i.thing = j.thing THEN j.copy /\ ~i.copy ELSE i.thing[2] > j.thing[2]
SameKey(i, j) == HasKey(i) /\ HasKey(j) /\ Key(i) = Key(j)
KeptItems(items) == {i \in items : ~\E j \in items : SameKey(i, j) /\ Newer(j, i)}

\* The rows of the lake that the kept items stand for.
RecallsRow(i) == i.copy \/ progress[i.thing].row = "known"
RecalledByAll(items) == {i.thing : i \in {j \in items : RecallsRow(j)}}
Recalled(items) == {i.thing : i \in {j \in KeptItems(items) : RecallsRow(j)}}

\* How often the answer shows a thing: as a kept item, and as a card of the
\* lake that no kept item stands for.
Showing(items, lake) ==
  [x \in Displayed |-> Cardinality({i \in KeptItems(items) : i.thing = x})
                       + (IF x \in lake \ Recalled(items) THEN 1 ELSE 0)]

\* get_feed looks at the puddle, waits for the lake, and answers; when the lake
\* fails it answers with the items alone.
FeedReads ==
  /\ ~view.on /\ view' = [on |-> TRUE, items |-> puddle, due |-> owed]
  /\ UNCHANGED <<puddle, stored, progress, bridge, rehydrate, owed, overlapped, gaps, boots>>

FeedAnswer(ok) == Showing(view.items, IF ok THEN Cards \cap StoredRows ELSE {})

FeedAnswers ==
  /\ view.on /\ view' = NoView
  /\ UNCHANGED <<puddle, stored, progress, bridge, rehydrate, owed, overlapped, gaps, boots>>

FeedNext ==
  \/ \E s \in Seeds : EchoSeed(s) \/ \E how \in {"known", "lost", "failed"} : PostSeed(s, how)
  \/ \E r \in Letters, n \in {1, 2} : StartBridge(r, n)
  \/ \E how \in {"known", "lost", "failed"} : BridgeRow(how)
  \/ BridgeItem \/ FeedRestarts \/ CopySlices \/ CopiesEnd
  \/ \E ok \in BOOLEAN : ReadSeeds(ok) \/ ReadCards(ok)
  \/ \E x \in Displayed : Expire(x)
  \/ FeedReads \/ FeedAnswers

FeedSpec == FeedInit /\ [][FeedNext]_feedVars
-----------------------------------------------------------------------------
FeedTypeOK ==
  /\ puddle \subseteq {Own(x) : x \in Displayed} \cup {Copy(x) : x \in Displayed}
  /\ Len(stored) = Cardinality(StoredRows) /\ StoredRows \subseteq Displayed
  /\ \A x \in Displayed : progress[x].pc \in {"no", "row", "cut", "done", "over"}
  /\ owed \subseteq Displayed /\ overlapped \subseteq Cards
  /\ gaps \in 0..MaxGaps /\ boots \in 0..MaxBoots

\* What the feed owed when it looked at the puddle, and owes when the lake
\* answers, is in its answer, though the cards of a reply hide each other in the
\* puddle and the lake's rows are left out for items (get_feed's recalled ids).
ShowsAll == view.on => \A x \in view.due \cap owed : FeedAnswer(TRUE)[x] >= 1

\* Nothing is shown twice, unless the answer to its write was lost or a restart
\* read its row while the harness was still mirroring it.
ShowsOnce ==
  view.on => \A x \in Displayed, ok \in BOOLEAN :
               progress[x].row # "lost" /\ x \notin overlapped => FeedAnswer(ok)[x] <= 1

\* Stated as it reads, "Each card becomes its own pair of deltas ... so the
\* dashboard renders them as N separate cards" (threaded.py): a card without a
\* row is hidden by the next card of its reply.  TLC breaks it.
EveryCardIsShown == view.on => \A i \in view.items : FeedAnswer(TRUE)[i.thing] >= 1
=============================================================================
