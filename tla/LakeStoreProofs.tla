--------------------------- MODULE LakeStoreProofs ---------------------------
(***************************************************************************)
(* Proofs about LakeStore, for any writers, images, batch size and bounds. *)
(***************************************************************************)
EXTENDS LakeStore, TLAPS

\* The table only grows, and a row keeps its place, its image and its tags.
TableGrows ==
  /\ Len(table) <= Len(table')
  /\ \A i \in Ids : table'[i].media = table[i].media /\ table'[i].prov = table[i].prov

\* A row inserted is at the end, and leaves the others alone.
LEMMA InsertExtends ==
  ASSUME TypeOK, NEW media \in Media, NEW life \in {"kept", "ttl"}, NEW prov \in BOOLEAN,
         NEW axis \in {"none", "tags", "centroid"}, Insert(media, life, prov, axis)
  PROVE  /\ table' \in Seq(Row)
         /\ Len(table') = Len(table) + 1
         /\ \A i \in Ids : table'[i] = table[i]
         /\ TableGrows
<1>1. [media |-> media, life |-> life, prov |-> prov,
       text |-> FALSE, image |-> FALSE, axis |-> axis] \in Row
  BY DEF Row
<1>2. table \in Seq(Row)
  BY DEF TypeOK
<1> QED BY <1>1, <1>2 DEF Insert, TableGrows, Ids

\* A row replaced in place leaves the others alone.
LEMMA UpdateKeepsPlaces ==
  ASSUME TypeOK, NEW i \in Ids, NEW row \in Row, table' = [table EXCEPT ![i] = row],
         row.media = table[i].media, row.prov = table[i].prov
  PROVE  /\ table' \in Seq(Row)
         /\ Len(table') = Len(table)
         /\ table'[i] = row
         /\ \A j \in Ids : j # i => table'[j] = table[j]
         /\ TableGrows
<1>1. table \in Seq(Row)
  BY DEF TypeOK
<1>2. table' \in Seq(Row) /\ Len(table') = Len(table)
  BY <1>1 DEF Ids
<1>3. \A j \in Ids : table'[j] = IF j = i THEN row ELSE table[j]
  BY <1>1 DEF Ids
<1> QED BY <1>1, <1>2, <1>3 DEF TableGrows, Ids

\* The reap's transaction turns expired rows into deleted ones.
LEMMA ReapKeepsPlaces ==
  ASSUME TypeOK, Reap
  PROVE  /\ table' \in Seq(Row)
         /\ Len(table') = Len(table)
         /\ \A i \in Ids : table'[i] = IF i \in Expired THEN [table[i] EXCEPT !.life = "gone"]
                                                       ELSE table[i]
         /\ TableGrows
<1>1. table \in Seq(Row) /\ Len(table) \in Nat
  BY DEF TypeOK
<1>2. \A i \in Ids : table[i] \in Row
  BY <1>1 DEF Ids
<1>3. \A i \in Ids : [table[i] EXCEPT !.life = "gone"] \in Row
  BY <1>2 DEF Row
<1>4. table' \in [1..Len(table) -> Row]
  BY <1>2, <1>3 DEF Reap, Ids
<1>5. table' \in Seq(Row) /\ Len(table') = Len(table)
  BY <1>1, <1>4
<1>6. \A i \in Ids : table'[i] = IF i \in Expired THEN [table[i] EXCEPT !.life = "gone"]
                                                    ELSE table[i]
  BY DEF Reap
<1>7. \A i \in Ids : table'[i].media = table[i].media /\ table'[i].prov = table[i].prov
  BY <1>2, <1>6 DEF Row
<1> QED BY <1>1, <1>5, <1>6, <1>7 DEF TableGrows

-----------------------------------------------------------------------------
(* What every step does to the table.                                      *)

\* A centroid that is there stays there.
CentroidsStay ==
  \A i \in Ids : table[i].prov /\ table[i].axis = "centroid" => table'[i].axis = "centroid"

\* Whatever a step does to the table, it does by one of the three lemmas.
LEMMA TableStep ==
  ASSUME TypeOK, Next
  PROVE  table' \in Seq(Row) /\ TableGrows /\ CentroidsStay
<1> DEFINE Goal == table' \in Seq(Row) /\ TableGrows /\ CentroidsStay
<1>1. table \in Seq(Row) /\ Len(table) \in Nat /\ hold \in [Writers -> Media]
      /\ img \in BOOLEAN /\ batch \subseteq Ids
  BY DEF TypeOK
<1>2. \A i \in Ids : table[i] \in Row
  BY <1>1 DEF Ids
<1>3. ASSUME table' = table PROVE Goal
  BY <1>1, <1>3 DEF TableGrows, CentroidsStay
<1>4. ASSUME NEW media \in Media, NEW life \in {"kept", "ttl"}, NEW prov \in BOOLEAN,
             NEW axis \in {"none", "tags", "centroid"}, Insert(media, life, prov, axis)
      PROVE  Goal
  BY <1>4, InsertExtends DEF CentroidsStay
<1>5. ASSUME NEW i \in Ids, NEW row \in Row, table' = [table EXCEPT ![i] = row],
             row.media = table[i].media, row.prov = table[i].prov,
             table[i].prov /\ table[i].axis = "centroid" => row.axis = "centroid"
      PROVE  Goal
  <2>1. /\ table' \in Seq(Row) /\ TableGrows /\ table'[i] = row
        /\ \A j \in Ids : j # i => table'[j] = table[j]
    BY <1>5, UpdateKeepsPlaces
  <2>2. ASSUME NEW j \in Ids, table[j].prov, table[j].axis = "centroid"
        PROVE  table'[j].axis = "centroid"
    BY <1>5, <2>1, <2>2
  <2> QED BY <2>1, <2>2 DEF CentroidsStay
<1>6. ASSUME NEW w \in Writers, NEW h \in Hashes, Upload(w, h) \/ UploadBegins(w, h) PROVE Goal
  BY <1>3, <1>6 DEF Upload, UploadBegins
<1>7. ASSUME NEW w \in Writers, NEW i \in Ids, Refer(w, i) PROVE Goal
  BY <1>3, <1>7 DEF Refer
<1>8. ASSUME NEW w \in Writers, GiveUp(w) PROVE Goal
  BY <1>3, <1>8 DEF GiveUp
<1>9. ASSUME NEW w \in Writers, NEW life \in {"kept", "ttl"}, WriteMediaRow(w, life) PROVE Goal
  <2>1. hold[w] \in Media
    BY <1>1
  <2> QED BY <1>4, <1>9, <2>1 DEF WriteMediaRow
<1>10. ASSUME NEW life \in {"kept", "ttl"}, WriteTextRow(life) PROVE Goal
  BY <1>4, <1>10 DEF WriteTextRow, Media
<1>11. ASSUME NEW axis \in {"none", "centroid"}, WriteProvenance(axis) PROVE Goal
  BY <1>4, <1>11 DEF WriteProvenance, Media
<1>12. ASSUME NEW i \in Ids, Backfill(i) PROVE Goal
  <2> DEFINE row == [table[i] EXCEPT !.axis = "centroid"]
  <2>1. /\ row \in Row /\ row.axis = "centroid"
        /\ row.media = table[i].media /\ row.prov = table[i].prov
    BY <1>2 DEF Row
  <2>2. table' = [table EXCEPT ![i] = row]
    BY <1>12 DEF Backfill
  <2> HIDE DEF row
  <2> QED BY <1>5, <2>1, <2>2
<1>13. ASSUME NEW i \in Ids, Expire(i) PROVE Goal
  <2> DEFINE row == [table[i] EXCEPT !.life = "expired"]
  <2>1. /\ row \in Row /\ row.axis = table[i].axis
        /\ row.media = table[i].media /\ row.prov = table[i].prov
    BY <1>2 DEF Row
  <2>2. table' = [table EXCEPT ![i] = row]
    BY <1>13 DEF Expire
  <2> HIDE DEF row
  <2> QED BY <1>5, <2>1, <2>2
<1>14. CASE Reap
  <2>1. \A i \in Ids : table'[i].axis = table[i].axis
    <3>1. \A i \in Ids : table'[i] = IF i \in Expired THEN [table[i] EXCEPT !.life = "gone"]
                                                      ELSE table[i]
      BY <1>14, ReapKeepsPlaces
    <3> QED BY <1>2, <3>1 DEF Row
  <2> QED BY <1>14, <2>1, ReapKeepsPlaces DEF CentroidsStay
<1>15. ASSUME NEW h \in orphans, NEW ok \in BOOLEAN, DeleteFile(h, ok) PROVE Goal
  BY <1>3, <1>15 DEF DeleteFile
<1>16. CASE EmbedFetch \/ EmbedBatchDone
  BY <1>3, <1>16 DEF EmbedFetch, EmbedBatchDone
<1>17. ASSUME NEW ok \in BOOLEAN, EmbedTexts(ok) PROVE Goal
  BY <1>3, <1>17 DEF EmbedTexts
<1>18. ASSUME NEW i \in batch, NEW ok \in BOOLEAN, EmbedPath(i) \/ EmbedImage(i, ok) PROVE Goal
  BY <1>3, <1>18 DEF EmbedPath, EmbedImage
<1>19. ASSUME NEW i \in batch, NEW ok \in BOOLEAN, EmbedStore(i, ok) PROVE Goal
  <2>1. CASE table' = table
    BY <1>3, <2>1
  <2>2. CASE table' # table
    <3> DEFINE row == Embedded(table[i])
    <3>1. i \in Ids /\ table[i] \in Row
      BY <1>1, <1>2
    <3>2. row \in Row
      BY <1>1, <3>1 DEF Row, Axis, Embedded
    <3>3. /\ row.media = table[i].media /\ row.prov = table[i].prov
          /\ row.axis = Axis(table[i])
      BY <3>1 DEF Row, Embedded
    <3>4. table[i].prov /\ table[i].axis = "centroid" => row.axis = "centroid"
      BY <3>3 DEF Axis
    <3>5. table' = [table EXCEPT ![i] = row]
      BY <1>19, <2>2 DEF EmbedStore
    <3> HIDE DEF row
    <3> QED BY <1>5, <3>1, <3>2, <3>3, <3>4, <3>5
  <2> QED BY <2>1, <2>2
<1>20. ASSUME NEW inside \in SUBSET Writers, Restart(inside) PROVE Goal
  BY <1>3, <1>20 DEF Restart
<1>21. CASE Write
  <2>1. ASSUME NEW w \in Writers, UploadEnds(w) \/ UploadBreaks(w) PROVE table' = table
    BY <2>1 DEF UploadEnds, UploadBreaks
  <2> QED BY <1>3, <1>6, <1>7, <1>8, <1>9, <1>10, <1>11, <1>12, <1>21, <2>1 DEF Write
<1>22. CASE Reaper
  BY <1>14, <1>15, <1>22 DEF Reaper
<1>23. CASE Embed
  BY <1>16, <1>17, <1>18, <1>19, <1>23 DEF Embed
<1> QED
  BY <1>13, <1>20, <1>21, <1>22, <1>23 DEF Next

-----------------------------------------------------------------------------
(* Type correctness.                                                       *)

\* Ids stay ids, and what the embed loop and the reaper hold stays in range.
LEMMA TypeStep ==
  ASSUME TypeOK, Next
  PROVE  TypeOK'
<1> DEFINE Sets == /\ files' \subseteq Hashes /\ damaged' \subseteq files'
                   /\ writing' \in [Writers -> Media] /\ Uploads'
                   /\ hold' \in [Writers -> Media]
                   /\ orphans' \subseteq Hashes
                   /\ survivors' \subseteq Ids
           Loop == /\ stage' \in {"fetch", "texts", "path", "image", "store"}
                   /\ batch' \subseteq Ids
                   /\ img' \in BOOLEAN
                   /\ (stage' = "fetch" => batch' = {})
                   /\ (img' => stage' = "store")
           Faults == faults' \in 0..MaxFaults
<1>1. table' \in Seq(Row) /\ Ids \subseteq Ids'
  <2>1. table \in Seq(Row)
    BY DEF TypeOK
  <2> QED BY <2>1, TableStep DEF TableGrows, Ids
<1>2. \A i \in Ids : table[i] \in Row
  BY DEF TypeOK, Ids
<1>3. Faults
  <2>1. faults' = faults \/ Fault
    BY DEF Next, Write, Reaper, Embed, Upload, UploadBegins, UploadEnds, UploadBreaks, Refer, GiveUp, WriteMediaRow, WriteTextRow,
           WriteProvenance, Backfill, Expire, Reap, DeleteFile, EmbedFetch, EmbedBatchDone,
           EmbedTexts, EmbedPath, EmbedImage, EmbedStore, Restart, Attempt
  <2> QED BY <2>1, StoreAssumption DEF TypeOK, Fault
<1>4. ASSUME UNCHANGED <<mediaVars, hold, orphans, survivors>> PROVE Sets
  BY <1>4 DEF TypeOK, Uploads, mediaVars
<1>5. ASSUME UNCHANGED embedVars PROVE Loop
  BY <1>5 DEF TypeOK, embedVars
<1>6. ASSUME BatchDropped PROVE Loop
  BY <1>6 DEF BatchDropped
<1>7. ASSUME NEW w \in Writers, NEW h \in Hashes, Upload(w, h) PROVE Sets /\ Loop
  <2>1. Sets
    BY <1>7 DEF Upload, TypeOK, Media, Uploads, Idle, mediaVars
  <2> QED BY <1>5, <1>7, <2>1 DEF Upload
<1>7a. ASSUME NEW w \in Writers, NEW h \in Hashes, UploadBegins(w, h) PROVE Sets /\ Loop
  <2>1. files' \subseteq Hashes /\ damaged' \subseteq files' /\ writing' \in [Writers -> Media]
    BY <1>7a DEF UploadBegins, TypeOK, Media
  <2>2. h # NoMedia /\ \A v \in Writers : writing[v] # h
    BY <1>7a, StoreAssumption DEF UploadBegins, TypeOK, Uploads
  <2>3. writing'[w] = h /\ hold[w] = NoMedia /\ h \in damaged' /\ \A v \in Writers \ {w} : writing'[v] = writing[v]
    BY <1>7a DEF UploadBegins, TypeOK, Idle
  <2>4. Uploads'
    BY <1>7a, <2>2, <2>3 DEF UploadBegins, TypeOK, Uploads
  <2> QED BY <1>5, <1>7a, <2>1, <2>4 DEF UploadBegins, TypeOK
<1>7b. ASSUME NEW w \in Writers, UploadEnds(w) PROVE Sets /\ Loop
  <2>1. writing[w] \in damaged /\ \A v \in Writers \ {w} : writing[v] # writing[w]
    BY <1>7b DEF UploadEnds, TypeOK, Uploads
  <2>2. damaged' \subseteq files' /\ files' \subseteq Hashes /\ hold' \in [Writers -> Media] /\ writing' \in [Writers -> Media]
    BY <1>7b DEF UploadEnds, TypeOK, Media
  <2>3. writing'[w] = NoMedia /\ \A v \in Writers \ {w} : writing'[v] = writing[v] /\ hold'[v] = hold[v]
    BY <1>7b DEF UploadEnds, TypeOK
  <2>4. Uploads'
    BY <1>7b, <2>1, <2>3 DEF UploadEnds, TypeOK, Uploads
  <2> QED BY <1>5, <1>7b, <2>2, <2>4 DEF UploadEnds, TypeOK
<1>7c. ASSUME NEW w \in Writers, UploadBreaks(w) PROVE Sets /\ Loop
  <2>1. Sets
    BY <1>7c DEF UploadBreaks, TypeOK, Media, Uploads
  <2> QED BY <1>5, <1>7c, <2>1 DEF UploadBreaks
<1>8. ASSUME NEW w \in Writers, NEW i \in Ids, Refer(w, i) PROVE Sets /\ Loop
  <2>1. table[i].media \in Media
    BY <1>2 DEF Row
  <2>2. Sets
    BY <1>8, <2>1 DEF Refer, TypeOK, Uploads, Idle, mediaVars
  <2> QED BY <1>5, <1>8, <2>2 DEF Refer
<1>9. ASSUME NEW w \in Writers, GiveUp(w) PROVE Sets /\ Loop
  <2>1. Sets
    BY <1>9 DEF GiveUp, TypeOK, Media, Uploads, mediaVars
  <2> QED BY <1>5, <1>9, <2>1 DEF GiveUp
<1>10. ASSUME NEW w \in Writers, NEW life \in {"kept", "ttl"}, WriteMediaRow(w, life)
       PROVE  Sets /\ Loop
  <2>1. Sets
    BY <1>10 DEF WriteMediaRow, TypeOK, Media, Uploads, mediaVars
  <2> QED BY <1>5, <1>10, <2>1 DEF WriteMediaRow
<1>11. ASSUME NEW life \in {"kept", "ttl"}, WriteTextRow(life) PROVE Sets /\ Loop
  BY <1>4, <1>5, <1>11 DEF WriteTextRow
<1>12. ASSUME NEW axis \in {"none", "centroid"}, WriteProvenance(axis) PROVE Sets /\ Loop
  BY <1>4, <1>5, <1>12 DEF WriteProvenance
<1>13. ASSUME NEW i \in Ids, Backfill(i) \/ Expire(i) PROVE Sets /\ Loop
  BY <1>4, <1>5, <1>13 DEF Backfill, Expire
<1>14. ASSUME Reap PROVE Sets /\ Loop
  <2>1. Sets
    BY <1>14 DEF Reap, Orphans, InTable, TypeOK, Uploads, mediaVars
  <2> QED BY <1>5, <1>14, <2>1 DEF Reap
<1>15. ASSUME NEW h \in orphans, NEW ok \in BOOLEAN, DeleteFile(h, ok) PROVE Sets /\ Loop
  <2>1. CASE ~ok
    <3>1. Sets
      BY <1>15, <2>1 DEF DeleteFile, TypeOK, Uploads, mediaVars
    <3> QED BY <1>5, <1>15, <3>1 DEF DeleteFile
  <2>2. CASE ok
    <3>1. /\ files' \subseteq Hashes /\ damaged' \subseteq files' /\ h \in Hashes
          /\ orphans' \subseteq Hashes /\ survivors' \subseteq Ids
      BY <1>15, <2>2 DEF DeleteFile, TypeOK
    <3>2. hold' \in [Writers -> Media] /\ writing' \in [Writers -> Media]
      BY <1>15, <2>2, <3>1 DEF DeleteFile, TypeOK, Media
    <3>3. Uploads'
      BY <1>15, <2>2 DEF DeleteFile, TypeOK, Uploads
    <3> QED BY <1>5, <1>15, <3>1, <3>2, <3>3 DEF DeleteFile
  <2> QED BY <2>1, <2>2
<1>16. ASSUME EmbedFetch PROVE Sets /\ Loop
  <2>1. Newest(Unembedded) \subseteq Ids
    BY DEF Newest, Unembedded, InTable
  <2>2. Loop
    BY <1>16, <2>1 DEF EmbedFetch, TypeOK
  <2> QED BY <1>4, <1>16, <2>2 DEF EmbedFetch
<1>17. ASSUME EmbedBatchDone PROVE Sets /\ Loop
  <2>1. Loop
    BY <1>17 DEF EmbedBatchDone, TypeOK
  <2> QED BY <1>4, <1>17, <2>1 DEF EmbedBatchDone
<1>18. ASSUME NEW ok \in BOOLEAN, EmbedTexts(ok) PROVE Sets /\ Loop
  <2>1. CASE ok
    <3>1. Loop
      BY <1>18, <2>1 DEF EmbedTexts, TypeOK
    <3> QED BY <1>4, <1>18, <3>1 DEF EmbedTexts
  <2>2. CASE ~ok
    BY <1>4, <1>6, <1>18, <2>2 DEF EmbedTexts
  <2> QED BY <2>1, <2>2
<1>19. ASSUME NEW i \in batch, EmbedPath(i) PROVE Sets /\ Loop
  <2>1. stage' \in {"image", "store"} /\ ~img
    BY <1>19 DEF EmbedPath, TypeOK
  <2>2. Loop
    BY <1>19, <2>1 DEF EmbedPath, TypeOK
  <2> QED BY <1>4, <1>19, <2>2 DEF EmbedPath
<1>20. ASSUME NEW i \in batch, NEW ok \in BOOLEAN, EmbedImage(i, ok) PROVE Sets /\ Loop
  <2>1. CASE ok /\ table[i].media \in files \ damaged
    <3>1. Loop
      BY <1>20, <2>1 DEF EmbedImage, TypeOK
    <3> QED BY <1>4, <1>20, <3>1 DEF EmbedImage
  <2>2. CASE ~(ok /\ table[i].media \in files \ damaged)
    BY <1>4, <1>6, <1>20, <2>2 DEF EmbedImage
  <2> QED BY <2>1, <2>2
<1>21. ASSUME NEW i \in batch, NEW ok \in BOOLEAN, EmbedStore(i, ok) PROVE Sets /\ Loop
  <2>1. CASE ok
    <3>1. Loop
      BY <1>21, <2>1 DEF EmbedStore, TypeOK
    <3> QED BY <1>4, <1>21, <3>1 DEF EmbedStore
  <2>2. CASE ~ok
    BY <1>4, <1>6, <1>21, <2>2 DEF EmbedStore
  <2> QED BY <2>1, <2>2
<1>22. ASSUME NEW inside \in SUBSET Writers, Restart(inside) PROVE Sets /\ Loop
  <2>1. hold' \in [Writers -> Media] /\ writing' \in [Writers -> Media]
    BY <1>22 DEF Restart, TypeOK, Media
  <2>2. Sets
    BY <1>22, <2>1 DEF Restart, TypeOK, Uploads
  <2> QED BY <1>6, <1>22, <2>2 DEF Restart
<1>23. ASSUME Write PROVE Sets /\ Loop
  BY <1>7, <1>7a, <1>7b, <1>7c, <1>8, <1>9, <1>10, <1>11, <1>12, <1>13, <1>23 DEF Write
<1>24. ASSUME Reaper PROVE Sets /\ Loop
  BY <1>14, <1>15, <1>24 DEF Reaper
<1>25. ASSUME Embed PROVE Sets /\ Loop
  BY <1>16, <1>17, <1>18, <1>19, <1>20, <1>21, <1>25 DEF Embed
<1>26. Sets /\ Loop
  BY <1>13, <1>22, <1>23, <1>24, <1>25 DEF Next
<1> QED
  BY <1>1, <1>3, <1>26 DEF TypeOK

\* Every reachable state is well typed, for any writers, images, batch size
\* and bounds: no id the embed loop or the reaper holds is out of range, and
\* an image vector waits only to be stored (embed_loop, reap_loop).
THEOREM StoreTypeCorrect == Spec => []TypeOK
<1>1. Init => TypeOK
  <2> SUFFICES ASSUME Init PROVE TypeOK
    OBVIOUS
  <2>1. /\ table \in Seq(Row) /\ hold \in [Writers -> Media] /\ faults \in 0..MaxFaults
        /\ writing \in [Writers -> Media] /\ Uploads
    BY StoreAssumption DEF Init, Media, Uploads
  <2>2. img \in BOOLEAN /\ ~img
    BY DEF Init
  <2> QED BY <2>1, <2>2 DEF Init, TypeOK
<1>2. TypeOK /\ [Next]_vars => TypeOK'
  <2> SUFFICES ASSUME TypeOK, [Next]_vars PROVE TypeOK'
    OBVIOUS
  <2>1. CASE Next
    BY <2>1, TypeStep
  <2>2. CASE UNCHANGED vars
    BY <2>2 DEF vars, mediaVars, embedVars, TypeOK, Ids, Uploads
  <2> QED BY <2>1, <2>2
<1> QED BY <1>1, <1>2, PTL DEF Spec

-----------------------------------------------------------------------------
(* Centroids.                                                              *)

\* The embed loop, the backfill and the reaper, in whatever order they meet
\* a provenance row, leave its centroid in place.
THEOREM CentroidsSurvive == Spec => CentroidsAreKept
<1>1. TypeOK /\ [Next]_vars =>
        [\A i \in InTable : table[i].prov /\ table[i].axis = "centroid"
           => table'[i].axis = "centroid"]_vars
  <2> SUFFICES ASSUME TypeOK, Next
               PROVE  \A i \in InTable : table[i].prov /\ table[i].axis = "centroid"
                        => table'[i].axis = "centroid"
    OBVIOUS
  <2> QED BY TableStep DEF CentroidsStay, InTable
<1> QED BY <1>1, StoreTypeCorrect, PTL DEF Spec, CentroidsAreKept

-----------------------------------------------------------------------------
(* Shared images.                                                          *)

\* The inductive invariant: no file to be deleted belongs to a row that the
\* reap left in the table.
Sparing == \A i \in survivors : table[i].media \notin orphans

\* Only the reaper changes what is to be deleted, and its transaction looks
\* at every row that it leaves.
LEMMA SparingStep ==
  ASSUME TypeOK, Sparing, Next
  PROVE  Sparing'
<1>1. survivors \subseteq Ids /\ \A i \in Ids : table'[i].media = table[i].media
  BY TableStep DEF TypeOK, TableGrows
<1>2. ASSUME orphans' \subseteq orphans, survivors' \subseteq survivors PROVE Sparing'
  BY <1>1, <1>2 DEF Sparing
<1>3. CASE Write
  BY <1>2, <1>3 DEF Write, Upload, UploadBegins, UploadEnds, UploadBreaks, Refer, GiveUp, WriteMediaRow, WriteTextRow,
                    WriteProvenance, Backfill
<1>4. CASE \E i \in Ids : Expire(i)
  BY <1>2, <1>4 DEF Expire
<1>5. CASE Reap
  <2>1. \A i \in InTable \ Expired : table[i].media \notin Orphans
    BY DEF Orphans
  <2>2. survivors' \subseteq InTable \ Expired /\ orphans' = Orphans
    BY <1>5 DEF Reap
  <2>3. InTable \subseteq Ids
    BY DEF InTable
  <2> QED BY <1>1, <2>1, <2>2, <2>3 DEF Sparing
<1>6. ASSUME NEW h \in orphans, NEW ok \in BOOLEAN, DeleteFile(h, ok) PROVE Sparing'
  BY <1>2, <1>6 DEF DeleteFile
<1>7. CASE Embed
  BY <1>2, <1>7 DEF Embed, EmbedFetch, EmbedBatchDone, EmbedTexts, EmbedPath, EmbedImage,
                    EmbedStore
<1>8. CASE \E inside \in SUBSET Writers : Restart(inside)
  BY <1>2, <1>8 DEF Restart
<1> QED
  BY <1>3, <1>4, <1>5, <1>6, <1>7, <1>8 DEF Next, Reaper

\* A step that removes a file removes an orphan's.
LEMMA OnlyOrphansGo ==
  ASSUME Next
  PROVE  files \ files' \subseteq orphans
<1>1. CASE Write
  BY <1>1 DEF Write, mediaVars, Upload, UploadBegins, UploadEnds, UploadBreaks, Refer, GiveUp, WriteMediaRow, WriteTextRow,
              WriteProvenance, Backfill
<1>2. CASE Reaper
  BY <1>2 DEF Reaper, mediaVars, Reap, DeleteFile
<1>3. CASE Embed
  BY <1>3 DEF Embed, mediaVars, EmbedFetch, EmbedBatchDone, EmbedTexts, EmbedPath, EmbedImage, EmbedStore
<1>4. CASE \E i \in Ids : Expire(i)
  BY <1>4 DEF Expire, mediaVars
<1>5. CASE \E inside \in SUBSET Writers : Restart(inside)
  BY <1>5 DEF Restart
<1> QED
  BY <1>1, <1>2, <1>3, <1>4, <1>5 DEF Next

\* However many rows share an image and however late its deletion comes, the
\* rows that outlived the reap's transaction keep it (reap_expired, reap_loop).
THEOREM SurvivorsKeepTheirImage == Spec => SharedMediaSurvives
<1>1. Init => Sparing
  BY DEF Init, Sparing
<1>2. TypeOK /\ Sparing /\ [Next]_vars => Sparing'
  <2> SUFFICES ASSUME TypeOK, Sparing, [Next]_vars PROVE Sparing'
    OBVIOUS
  <2>1. CASE Next
    BY <2>1, SparingStep
  <2>2. CASE UNCHANGED vars
    BY <2>2 DEF vars, mediaVars, Sparing
  <2> QED BY <2>1, <2>2
<1>3. Sparing /\ [Next]_vars =>
        [\A i \in survivors : table[i].media \in files => table[i].media \in files']_vars
  BY OnlyOrphansGo DEF Sparing
<1> QED BY <1>1, <1>2, <1>3, StoreTypeCorrect, PTL DEF Spec, SharedMediaSurvives

=============================================================================
