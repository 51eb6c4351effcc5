------------------------------ MODULE LakeStore ------------------------------
(***************************************************************************)
(* The delta store's table and its media directory                         *)
(* (delta-store/deltas/store.py, media.py), with what works on both at the *)
(* same time: writers that upload an image or refer to one again, the      *)
(* reaper and the embed loop (delta-store/deltas/server.py).               *)
(*                                                                         *)
(* A row's id is its place in the order of insertion, which stands for the *)
(* order of timestamps; deleted rows keep their place.  A row is reduced   *)
(* to its image, its life, and which of its three vectors are there.  The  *)
(* write of a row that repeats its predecessor leaves nothing behind and   *)
(* is no step; a row with an image is never taken for a repetition.        *)
(***************************************************************************)
EXTENDS Naturals, Sequences, FiniteSets

CONSTANTS
  Writers,     \* clients of the store that write rows with images
  Hashes,      \* contents of images
  NoMedia,     \* stands for a row or a writer without an image
  EmbedBatch,  \* EMBED_BATCH_SIZE (32 in the code)
  MaxRows,     \* bound: rows ever inserted
  MaxFaults    \* bound: calls that fail, uploads given up, restarts

ASSUME StoreAssumption ==
  /\ NoMedia \notin Hashes
  /\ EmbedBatch \in Nat \ {0}
  /\ {MaxRows, MaxFaults} \subseteq Nat

VARIABLES
  table,     \* the rows of the table deltas, oldest first
  files,     \* the hashes whose file is in the media directory
  damaged,   \* those of them whose file is not written to its end
  writing,   \* the hash whose file each writer is having written
  hold,      \* the hash each writer has in hand for the row it will write
  orphans,   \* the files reap_loop still has to delete
  stage,     \* where embed_loop stands
  batch,     \* the ids it fetched and has not stored yet
  img,       \* it has an image vector for the row at hand
  faults,    \* things gone wrong so far (bounds the environment)
  survivors  \* history: while files are to be deleted, the ids the reap left

embedVars == <<stage, batch, img>>
mediaVars == <<files, damaged, writing>>
vars == <<table, mediaVars, hold, orphans, embedVars, faults, survivors>>

Media == Hashes \cup {NoMedia}

\* "kept" rows have no expires_at; the others turn "expired" when it has
\* passed, and "gone" when they are deleted.  prov is the tag
\* kind:provenance; axis says what provenance_embedding holds.
Row == [media : Media, life : {"kept", "ttl", "expired", "gone"}, prov : BOOLEAN,
        text : BOOLEAN, image : BOOLEAN, axis : {"none", "tags", "centroid"}]

Ids == 1..Len(table)
InTable == {i \in Ids : table[i].life # "gone"}

\* A file that is being written is there and not whole, and only one writer is at it.
Uploads ==
  \A w \in Writers :
    writing[w] # NoMedia =>
      /\ writing[w] \in damaged /\ hold[w] = NoMedia
      /\ \A v \in Writers \ {w} : writing[v] # writing[w]

\* Every variable has its type, and the embed loop holds an image vector only
\* on its way to store it, and ids only while it works on them.
TypeOK ==
  /\ table \in Seq(Row)
  /\ files \subseteq Hashes /\ damaged \subseteq files
  /\ writing \in [Writers -> Media]
  /\ Uploads
  /\ hold \in [Writers -> Media]
  /\ orphans \subseteq Hashes
  /\ stage \in {"fetch", "texts", "path", "image", "store"}
  /\ batch \subseteq Ids
  /\ img \in BOOLEAN
  /\ faults \in 0..MaxFaults
  /\ survivors \subseteq Ids
  /\ stage = "fetch" => batch = {}
  /\ img => stage = "store"

Init ==
  /\ table = << >> /\ files = {} /\ damaged = {}
  /\ writing = [w \in Writers |-> NoMedia]
  /\ hold = [w \in Writers |-> NoMedia]
  /\ orphans = {}
  /\ stage = "fetch" /\ batch = {} /\ img = FALSE
  /\ faults = 0 /\ survivors = {}

Fault == faults < MaxFaults /\ faults' = faults + 1
Attempt(ok) == IF ok THEN UNCHANGED faults ELSE Fault

-----------------------------------------------------------------------------
(* Writers.                                                                *)

Idle(w) == hold[w] = NoMedia /\ writing[w] = NoMedia

\* ingest() finds a file of that name, whatever is in it, and writes none.
Upload(w, h) ==
  /\ Idle(w) /\ h \in files
  /\ hold' = [hold EXCEPT ![w] = h]
  /\ UNCHANGED <<table, mediaVars, orphans, embedVars, faults, survivors>>

\* ingest() finds none: the file appears when it is opened, and is whole when
\* all of it has been written.
UploadBegins(w, h) ==
  /\ Idle(w) /\ h \notin files
  /\ files' = files \cup {h} /\ damaged' = damaged \cup {h}
  /\ writing' = [writing EXCEPT ![w] = h]
  /\ UNCHANGED <<table, hold, orphans, embedVars, faults, survivors>>

UploadEnds(w) ==
  /\ writing[w] # NoMedia
  /\ damaged' = damaged \ {writing[w]}
  /\ writing' = [writing EXCEPT ![w] = NoMedia]
  /\ hold' = [hold EXCEPT ![w] = writing[w]]
  /\ UNCHANGED <<table, files, orphans, embedVars, faults, survivors>>

\* The write fails half-way: what was written stays under its name.
UploadBreaks(w) ==
  /\ writing[w] # NoMedia
  /\ Fault
  /\ writing' = [writing EXCEPT ![w] = NoMedia]
  /\ UNCHANGED <<table, files, damaged, hold, orphans, embedVars, survivors>>

\* An engagement snapshot takes over the hash of a row it has read by id,
\* which finds expired rows too.
Refer(w, i) ==
  /\ Idle(w)
  /\ i \in InTable /\ table[i].media # NoMedia
  /\ hold' = [hold EXCEPT ![w] = table[i].media]
  /\ UNCHANGED <<table, mediaVars, orphans, embedVars, faults, survivors>>

\* The client goes away before it writes its row.
GiveUp(w) ==
  /\ hold[w] # NoMedia
  /\ Fault
  /\ hold' = [hold EXCEPT ![w] = NoMedia]
  /\ UNCHANGED <<table, mediaVars, orphans, embedVars, survivors>>

\* write() inserts the row, without a text or an image vector.
Insert(media, life, prov, axis) ==
  /\ Len(table) < MaxRows
  /\ table' = Append(table, [media |-> media, life |-> life, prov |-> prov,
                             text |-> FALSE, image |-> FALSE, axis |-> axis])

WriteMediaRow(w, life) ==
  /\ hold[w] # NoMedia
  /\ Insert(hold[w], life, FALSE, "none")
  /\ hold' = [hold EXCEPT ![w] = NoMedia]
  /\ UNCHANGED <<mediaVars, orphans, embedVars, faults, survivors>>

WriteTextRow(life) ==
  /\ Insert(NoMedia, life, FALSE, "none")
  /\ UNCHANGED <<mediaVars, hold, orphans, embedVars, faults, survivors>>

\* A provenance row never expires and comes with the centroid of its
\* constituents, if one could be computed.
WriteProvenance(axis) ==
  /\ Insert(NoMedia, "kept", TRUE, axis)
  /\ UNCHANGED <<mediaVars, hold, orphans, embedVars, faults, survivors>>

\* update_provenance_embedding_only(), on behalf of the centroid backfill.
Backfill(i) ==
  /\ i \in InTable /\ table[i].prov
  /\ table' = [table EXCEPT ![i].axis = "centroid"]
  /\ UNCHANGED <<mediaVars, hold, orphans, embedVars, faults, survivors>>

-----------------------------------------------------------------------------
(* Time and the reaper.                                                    *)

Expire(i) ==
  /\ i \in Ids /\ table[i].life = "ttl"
  /\ table' = [table EXCEPT ![i].life = "expired"]
  /\ UNCHANGED <<mediaVars, hold, orphans, embedVars, faults, survivors>>

Expired == {i \in Ids : table[i].life = "expired"}

\* Variant: every image of a deleted row goes.
OrphansUnchecked == {table[i].media : i \in Expired} \cap Hashes

\* The images of the expired rows that no other row refers to.
Orphans ==
  {h \in Hashes : /\ \E i \in Expired : table[i].media = h
                  /\ \A i \in InTable \ Expired : table[i].media # h}

\* reap_expired(): one transaction.
Reap ==
  /\ orphans = {} /\ Expired # {}
  /\ orphans' = Orphans
  /\ survivors' = IF Orphans = {} THEN {} ELSE InTable \ Expired
  /\ table' = [i \in Ids |-> IF i \in Expired THEN [table[i] EXCEPT !.life = "gone"]
                                              ELSE table[i]]
  /\ UNCHANGED <<mediaVars, hold, embedVars, faults>>

\* The files go one by one, after the transaction; one that cannot be
\* deleted stays.  A writer whose file goes writes on, into nothing, and has
\* the hash in hand.
DeleteFile(h, ok) ==
  /\ h \in orphans
  /\ Attempt(ok)
  /\ orphans' = orphans \ {h}
  /\ survivors' = IF orphans = {h} THEN {} ELSE survivors
  /\ IF ok
       THEN /\ files' = files \ {h} /\ damaged' = damaged \ {h}
            /\ writing' = [w \in Writers |-> IF writing[w] = h THEN NoMedia ELSE writing[w]]
            /\ hold' = [w \in Writers |-> IF writing[w] = h THEN h ELSE hold[w]]
       ELSE UNCHANGED <<mediaVars, hold>>
  /\ UNCHANGED <<table, embedVars>>

-----------------------------------------------------------------------------
(* The embed loop.                                                         *)

Unembedded ==
  {i \in InTable : ~table[i].text \/ (table[i].media # NoMedia /\ ~table[i].image)}

\* ORDER BY timestamp DESC LIMIT EmbedBatch.
Newest(S) == {i \in S : Cardinality({j \in S : j > i}) < EmbedBatch}

\* Variant: the ids stay behind.
BatchDroppedHalf == stage' = "fetch" /\ img' = FALSE /\ UNCHANGED batch

\* An exception: the rest of the batch is dropped.
BatchDropped == stage' = "fetch" /\ batch' = {} /\ img' = FALSE

EmbedFetch ==
  /\ stage = "fetch" /\ Unembedded # {}
  /\ stage' = "texts" /\ batch' = Newest(Unembedded)
  /\ UNCHANGED <<table, mediaVars, hold, orphans, img, faults, survivors>>

EmbedTexts(ok) ==
  /\ stage = "texts"
  /\ Attempt(ok)
  /\ IF ok THEN stage' = "path" /\ UNCHANGED <<batch, img>> ELSE BatchDropped
  /\ UNCHANGED <<table, mediaVars, hold, orphans, survivors>>

\* The row at hand: batches are worked off newest first.
AtHand(i) == i \in batch /\ \A j \in batch : j <= i

\* Variant: the file is taken to be there.
HasPathTrusting(i) == table[i].media # NoMedia

\* resolve(): is there a file for the row's image?
HasPath(i) == table[i].media \in files

EmbedPath(i) ==
  /\ stage = "path" /\ AtHand(i)
  /\ stage' = IF HasPath(i) THEN "image" ELSE "store"
  /\ UNCHANGED <<table, mediaVars, hold, orphans, batch, img, faults, survivors>>

EmbedBatchDone ==
  /\ stage = "path" /\ batch = {}
  /\ stage' = "fetch"
  /\ UNCHANGED <<table, mediaVars, hold, orphans, batch, img, faults, survivors>>

\* embed_image() decodes the file, which may be gone by now or not be whole.
EmbedImage(i, ok) ==
  /\ stage = "image" /\ AtHand(i)
  /\ Attempt(ok)
  /\ IF ok /\ table[i].media \in files \ damaged
       THEN stage' = "store" /\ img' = TRUE /\ UNCHANGED batch
       ELSE BatchDropped
  /\ UNCHANGED <<table, mediaVars, hold, orphans, survivors>>

\* Variant: the vector of the tags goes into every row.
AxisUngated(row) == "tags"

\* The vector of the tags goes into every row that is no provenance row.
Axis(row) == IF row.prov THEN row.axis ELSE "tags"

\* The row with its vectors; an image vector there was is not taken away.
Embedded(row) == [row EXCEPT !.text = TRUE, !.image = row.image \/ img, !.axis = Axis(row)]

\* An UPDATE by id, which finds nothing when the row is deleted.
EmbedStore(i, ok) ==
  /\ stage = "store" /\ AtHand(i)
  /\ Attempt(ok)
  /\ IF ok
       THEN /\ stage' = "path" /\ batch' = batch \ {i} /\ img' = FALSE
            /\ table' = IF i \in InTable
                          THEN [table EXCEPT ![i] = Embedded(table[i])]
                          ELSE table
       ELSE BatchDropped /\ UNCHANGED table
  /\ UNCHANGED <<mediaVars, hold, orphans, survivors>>

-----------------------------------------------------------------------------
\* The service is restarted: what the reaper had still to delete is forgotten,
\* files stay as far as they were written, and the writers that ran in the
\* service itself are gone.
Restart(inside) ==
  /\ Fault
  /\ hold' = [w \in Writers |-> IF w \in inside THEN NoMedia ELSE hold[w]]
  /\ orphans' = {} /\ survivors' = {}
  /\ writing' = [w \in Writers |-> NoMedia]
  /\ BatchDropped
  /\ UNCHANGED <<table, files, damaged>>

Write ==
  \/ \E w \in Writers :
       \/ \E h \in Hashes : Upload(w, h) \/ UploadBegins(w, h)
       \/ UploadEnds(w) \/ UploadBreaks(w)
       \/ \E i \in Ids : Refer(w, i)
       \/ GiveUp(w)
       \/ \E life \in {"kept", "ttl"} : WriteMediaRow(w, life)
  \/ \E life \in {"kept", "ttl"} : WriteTextRow(life)
  \/ \E axis \in {"none", "centroid"} : WriteProvenance(axis)
  \/ \E i \in Ids : Backfill(i)

Reaper == Reap \/ \E h \in orphans, ok \in BOOLEAN : DeleteFile(h, ok)

Embed ==
  \/ EmbedFetch \/ EmbedBatchDone
  \/ \E ok \in BOOLEAN : EmbedTexts(ok)
  \/ \E i \in batch : EmbedPath(i) \/ \E ok \in BOOLEAN : EmbedImage(i, ok) \/ EmbedStore(i, ok)

Next ==
  \/ Write \/ Reaper \/ Embed
  \/ \E i \in Ids : Expire(i)
  \/ \E inside \in SUBSET Writers : Restart(inside)

Spec == Init /\ [][Next]_vars

Fairness == WF_vars(Reaper) /\ WF_vars(Embed)

FairSpec == Spec /\ Fairness

-----------------------------------------------------------------------------
(* Properties.                                                             *)

\* The reaper never takes the image from a row that outlived the reap's
\* transaction: a hash shared by two rows survives until both are reaped,
\* in spite of the files being deleted after the commit.
SharedMediaSurvives ==
  [][\A i \in survivors : table[i].media \in files => table[i].media \in files']_vars

\* The centroid of a provenance row is never overwritten, whichever of the
\* write, the backfill and the embed loop comes last.
CentroidsAreKept ==
  [][\A i \in InTable : table[i].prov /\ table[i].axis = "centroid"
       => table'[i].axis = "centroid"]_vars

\* Rows in the table whose image has no file.
Bereft == {i \in InTable : table[i].media # NoMedia /\ table[i].media \notin files}

\* Rows that break off every batch they are in: their image is there and cannot
\* be decoded.
Stuck == {i \in Unembedded : table[i].media \in damaged}

\* As long as fewer rows than a batch have lost their image, and neither it nor a
\* newer row has a damaged one, every row gets the vector of its text or is
\* reaped: rows that come back in every batch, newest first, and files that
\* vanish under the loop or break it off at an older row starve nobody.
EmbeddingCatchesUp ==
  \A i \in 1..MaxRows :
    <>[](Cardinality(Bereft) < EmbedBatch /\ \A j \in Stuck : j < i)
      => [](i \in InTable => <>(i \notin InTable \/ table[i].text))

\* "a hash shared by two deltas survives until both reap" (reap_expired): a
\* row in the table has the file of its image.
MediaOutlivesRow == Bereft = {}

=============================================================================
