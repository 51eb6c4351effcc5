-------------------------------- MODULE Vault --------------------------------
(***************************************************************************)
(* The vault producer (source-runner/sources/vault.py): notes on disk are  *)
(* told to the lake as a first row with their text, rows with diffs, and a *)
(* tombstone.  What a poll has seen is kept in two places that are written *)
(* at different times: the last text of each note as soon as its row is    *)
(* made up, files.json at the end of the poll.  The rows are written later *)
(* by the source runner (source_runner.py), which skips ids it has seen.   *)
(* Polls of the loop and by hand overlap where they wait, and the editor   *)
(* never waits.                                                            *)
(*                                                                         *)
(* A text is the number of times a note says its line, so that two diffs   *)
(* may read the same.  A note is one chunk.  Images matter only because a  *)
(* poll waits for their upload.  The cap of the seen ids is not reached.   *)
(***************************************************************************)
EXTENDS Integers, FiniteSets, Sequences, SequencesExt, FiniteSetsExt

CONSTANTS
  Notes,     \* numbers, in the order of their paths
  Sweepers,  \* polls that can be under way at once
  MaxText,   \* bound: lines in a note
  MaxEvents  \* bound: changes on disk, calls and writes that fail, restarts, overlaps

ASSUME VaultBounds == Notes \subseteq Nat /\ IsFiniteSet(Notes) /\ MaxText \in Nat

VARIABLES
  disk,     \* each note on disk; fresh: changed within DEBOUNCE_SECONDS
  files,    \* files.json: the mtime and the text (its sha256) of each note
  lastText, \* last-content/
  sweep,    \* what each poll is doing
  ids,      \* seen_ids
  told,     \* the rows of each note in the lake, in the order they were written
  events,   \* events so far: bounds the environment, and is the clock of mtimes
  broken,   \* history: something went wrong
  strayed   \* history: notes whose rows are excused

vaultVars == <<disk, files, lastText, sweep, ids, told, events, broken, strayed>>
stores == <<files, lastText>>

NoteTexts == 0..MaxText
Gone == -1
NeverSeen == [mtime |-> 0, text |-> Gone]
NotSweeping == [pc |-> "rest", files |-> [n \in Notes |-> NeverSeen], listed |-> {}, todo |-> {},
            mtime |-> 0, text |-> Gone, items |-> << >>, ids |-> {}]

VaultInit ==
  /\ disk = [n \in Notes |-> [text |-> Gone, mtime |-> 0, fresh |-> FALSE]]
  /\ files = [n \in Notes |-> NeverSeen] /\ lastText = [n \in Notes |-> Gone]
  /\ sweep = [p \in Sweepers |-> NotSweeping] /\ ids = {} /\ told = [n \in Notes |-> << >>]
  /\ events = 0 /\ broken = FALSE /\ strayed = {}

Event == events < MaxEvents /\ events' = events + 1
Break == Event /\ broken' = TRUE
Goes(ok) == IF ok THEN UNCHANGED <<events, broken>> ELSE Break

\* A poll that does not wait runs alone.
Alone(p) == \A q \in Sweepers \ {p} : sweep[q].pc \notin {"visit", "read"}
Overlapped(p) == \E q \in Sweepers \ {p} : sweep[q].pc # "rest"

-----------------------------------------------------------------------------
(* The editor.                                                             *)

Change(n, text) ==
  /\ Event
  /\ disk[n].text # text
  /\ disk' = [disk EXCEPT ![n] = [text |-> text, mtime |-> events + 1, fresh |-> TRUE]]
  /\ UNCHANGED <<stores, sweep, ids, told, broken, strayed>>

Settle(n) ==
  /\ disk[n].fresh /\ disk' = [disk EXCEPT ![n].fresh = FALSE]
  /\ UNCHANGED <<stores, sweep, ids, told, events, broken, strayed>>

-----------------------------------------------------------------------------
(* VaultProducer.poll()                                                    *)

SweepStarts(p) ==
  /\ sweep[p].pc = "rest" /\ Alone(p)
  /\ IF Overlapped(p) THEN Event ELSE UNCHANGED events
  /\ LET found == {n \in Notes : disk[n].text # Gone}
     IN  sweep' = [sweep EXCEPT ![p] = [NotSweeping EXCEPT !.pc = "visit", !.files = files, !.listed = found, !.todo = found]]
  /\ UNCHANGED <<disk, stores, ids, told, broken, strayed>>

Note(p) == Min(sweep[p].todo)

\* The poll is done with its note, having entered it in its copy of files.json
\* or not.
Swept(p, mark) ==
  sweep' = [sweep EXCEPT ![p].pc = "visit", ![p].todo = @ \ {Note(p)}, ![p].files[Note(p)] = mark]
MarkOf(p, text) == [mtime |-> sweep[p].mtime, text |-> text]
Old(p) == sweep[p].files[Note(p)]

\* stat(): not there any more, too fresh, or as it was.
Look(p) ==
  /\ sweep[p].pc = "visit" /\ sweep[p].todo # {}
  /\ LET d == disk[Note(p)]
     IN  IF d.text = Gone \/ d.fresh \/ d.mtime = Old(p).mtime
         THEN Swept(p, Old(p))
         ELSE sweep' = [sweep EXCEPT ![p].pc = "read", ![p].mtime = d.mtime]
  /\ UNCHANGED <<disk, stores, ids, told, events, broken, strayed>>

\* Variant: the time of the note is taken after its text, and the editor
\* may have been quicker.
ReadThenLook(p) ==
  /\ sweep[p].pc = "read"
  /\ LET text == sweep[p].text
     IN  \/ /\ text = Gone /\ sweep' = [sweep EXCEPT ![p].text = disk[Note(p)].text]
         \/ /\ text # Gone
            /\ IF Old(p).mtime # 0 /\ Old(p).text = text
               THEN Swept(p, [mtime |-> disk[Note(p)].mtime, text |-> text])
               ELSE sweep' = [sweep EXCEPT ![p].pc = IF Old(p).mtime = 0 THEN "ask" ELSE "images",
                                           ![p].mtime = disk[Note(p)].mtime]
  /\ UNCHANGED <<disk, stores, ids, told, events, broken, strayed>>

\* read_text(), which sees what the editor has made of the note since.
Read(p) ==
  /\ sweep[p].pc = "read"
  /\ LET text == disk[Note(p)].text
     IN  CASE text = Gone -> Swept(p, Old(p))
           [] Old(p).mtime # 0 /\ Old(p).text = text -> Swept(p, MarkOf(p, text))
           [] OTHER -> sweep' = [sweep EXCEPT ![p].pc = IF Old(p).mtime = 0 THEN "ask" ELSE "images",
                                              ![p].text = text]
  /\ UNCHANGED <<disk, stores, ids, told, events, broken, strayed>>

\* _doc_already_ingested(): a new note of which the lake has rows is taken for
\* told.  A query that fails finds none.
AlreadyIngested(p, ok) ==
  /\ sweep[p].pc = "ask" /\ Alone(p)
  /\ Goes(ok)
  /\ LET n == Note(p) IN
     /\ IF ok /\ told[n] # << >>
        THEN Swept(p, MarkOf(p, sweep[p].text)) /\ lastText' = [lastText EXCEPT ![n] = sweep[p].text]
        ELSE sweep' = [sweep EXCEPT ![p].pc = "images"] /\ UNCHANGED lastText
     /\ strayed' = IF told[n] = << >> THEN strayed ELSE strayed \cup {n}
  /\ UNCHANGED <<disk, files, ids, told>>

Chunk(n, text) == [note |-> n, kind |-> "chunk", old |-> Gone, new |-> text, id |-> <<n, "chunk", text>>]
Diff(n, old, text, mtime) ==
  [note |-> n, kind |-> "diff", old |-> IF old = Gone THEN 0 ELSE old, new |-> text, id |-> <<n, "diff", mtime>>]
Grave(n, when) == [note |-> n, kind |-> "tombstone", old |-> lastText[n], new |-> Gone, id |-> <<n, "tombstone", when>>]

\* The images are uploaded or not; the row is made up and the last text kept.
Emit(p) ==
  /\ sweep[p].pc = "images" /\ Alone(p)
  /\ LET n == Note(p)
         text == sweep[p].text
         item == IF Old(p).mtime = 0 THEN Chunk(n, text) ELSE Diff(n, lastText[n], text, sweep[p].mtime)
     IN  /\ sweep' = [sweep EXCEPT ![p].pc = "visit", ![p].todo = @ \ {n}, ![p].files[n] = MarkOf(p, text),
                                   ![p].items = Append(@, item)]
         /\ lastText' = [lastText EXCEPT ![n] = text]
  /\ UNCHANGED <<disk, files, ids, told, events, broken, strayed>>

\* Notes that were not found this time.
Missed(p) == {n \in Notes \ sweep[p].listed : sweep[p].files[n].mtime # 0}
Graves(notes) == SetToSeq({Grave(n, events) : n \in notes})

Tombstones(p) ==
  /\ sweep[p].pc = "visit" /\ sweep[p].todo = {}
  /\ sweep' = [sweep EXCEPT ![p].pc = "upload", ![p].items = @ \o Graves(Missed(p)),
                            ![p].files = [n \in Notes |-> IF n \in Missed(p) THEN NeverSeen ELSE sweep[p].files[n]]]
  /\ lastText' = [n \in Notes |-> IF n \in Missed(p) THEN Gone ELSE lastText[n]]
  /\ UNCHANGED <<disk, files, ids, told, events, broken, strayed>>

\* The standalone images are there, files.json is saved, and the runner takes
\* the items with the ids that it has seen.
SaveFiles(p) ==
  /\ sweep[p].pc = "upload" /\ Alone(p)
  /\ files' = sweep[p].files
  /\ strayed' = IF Overlapped(p) THEN Notes ELSE strayed
  /\ sweep' = [sweep EXCEPT ![p].pc = "write", ![p].ids = ids]
  /\ UNCHANGED <<disk, lastText, ids, told, events, broken>>

\* A diff that was made up and is not handed over is lost, since its note's
\* last text has moved on; so has that of a note that comes back before its
\* tombstone is made up again.  A first row will be made up again.
MovedOn(items) == {items[i].note : i \in {j \in DOMAIN items : items[j].kind # "chunk"}}

\* A file cannot be written, and the poll fails.
SweepFails(p) ==
  /\ sweep[p].pc \in {"images", "upload"} /\ Alone(p)
  /\ Break
  /\ sweep' = [sweep EXCEPT ![p] = NotSweeping]
  /\ strayed' = IF Overlapped(p) THEN Notes ELSE strayed \cup MovedOn(sweep[p].items)
  /\ UNCHANGED <<disk, stores, ids, told>>

-----------------------------------------------------------------------------
(* _poll_source(): the items are written one after the other.              *)

\* The store drops a row that reads like the newest of its kind.
Wording(row) == IF row.kind = "diff" THEN row.new - row.old ELSE IF row.kind = "chunk" THEN row.new ELSE row.old
Echoes(row) ==
  LET alike == SelectSeq(told[row.note], LAMBDA r : r.kind = row.kind)
  IN  alike # << >> /\ Wording(Last(alike)) = Wording(row)

\* An item that the runner had seen before is left out.  (It drops them all
\* before it writes the first: no two items of a poll have the same id.)
PassOver(p) ==
  /\ sweep[p].pc = "write" /\ sweep[p].items # << >>
  /\ Head(sweep[p].items).id \in sweep[p].ids
  /\ sweep' = [sweep EXCEPT ![p].items = Tail(@)]
  /\ UNCHANGED <<disk, stores, ids, told, events, broken, strayed>>

TellRow(p, ok, lands) ==
  /\ sweep[p].pc = "write" /\ sweep[p].items # << >>
  /\ Head(sweep[p].items).id \notin sweep[p].ids
  /\ ok => lands
  /\ Goes(ok)
  /\ LET row == Head(sweep[p].items) IN
     /\ told' = IF lands /\ ~Echoes(row) THEN [told EXCEPT ![row.note] = Append(@, row)] ELSE told
     /\ sweep' = [sweep EXCEPT ![p].items = Tail(@), ![p].ids = IF ok THEN @ \cup {row.id} ELSE @]
     /\ strayed' = IF ok /\ ~Echoes(row) THEN strayed ELSE strayed \cup {row.note}
  /\ UNCHANGED <<disk, stores, ids>>

SweepEnds(p) ==
  /\ sweep[p].pc = "write" /\ sweep[p].items = << >>
  /\ ids' = sweep[p].ids
  /\ sweep' = [sweep EXCEPT ![p] = NotSweeping]
  /\ UNCHANGED <<disk, stores, told, events, broken, strayed>>

\* The runner starts again; rows that files.json says were made up are lost.
RunnerRestarts ==
  /\ Break
  /\ sweep' = [p \in Sweepers |-> NotSweeping]
  /\ strayed' = strayed \cup UNION {
       IF sweep[p].pc = "write" THEN {sweep[p].items[i].note : i \in {j \in DOMAIN sweep[p].items : sweep[p].items[j].id \notin sweep[p].ids}}
       ELSE MovedOn(sweep[p].items) : p \in Sweepers}
  /\ UNCHANGED <<disk, stores, ids, told>>

Editor == \E n \in Notes : Settle(n) \/ \E text \in NoteTexts \cup {Gone} : Change(n, text)
Sweep(p) ==
  \/ SweepStarts(p) \/ Look(p) \/ Read(p) \/ Emit(p) \/ Tombstones(p) \/ SaveFiles(p) \/ SweepEnds(p) \/ SweepFails(p)
  \/ PassOver(p)
  \/ \E ok \in BOOLEAN : AlreadyIngested(p, ok) \/ \E lands \in BOOLEAN : TellRow(p, ok, lands)

VaultNext == RunnerRestarts \/ Editor \/ \E p \in Sweepers : Sweep(p)

VaultSpec == VaultInit /\ [][VaultNext]_vaultVars
-----------------------------------------------------------------------------
Marks == [mtime : 0..MaxEvents, text : NoteTexts \cup {Gone}]

\* Every variable has its type, and a note that was never on disk is not known.
VaultTypeOK ==
  /\ disk \in [Notes -> [text : NoteTexts \cup {Gone}, mtime : 0..events, fresh : BOOLEAN]]
  /\ files \in [Notes -> Marks] /\ lastText \in [Notes -> NoteTexts \cup {Gone}]
  /\ \A n \in Notes : disk[n].mtime = 0 => files[n] = NeverSeen /\ told[n] = << >>
  /\ \A p \in Sweepers : /\ sweep[p].pc \in {"rest", "visit", "read", "ask", "images", "upload", "write"}
                         /\ sweep[p].files \in [Notes -> Marks] /\ sweep[p].todo \subseteq sweep[p].listed
                         /\ sweep[p].listed \subseteq Notes
  /\ events \in 0..MaxEvents /\ broken \in BOOLEAN /\ strayed \subseteq Notes

\* The text of a note as its rows tell it.
Tale(n) == IF told[n] = << >> THEN Gone ELSE Last(told[n]).new

\* While no poll is under way: a note that counts as unchanged is unchanged,
\* however the editor came between stat and read; and the rows of a note are a
\* story without gaps that ends with the text which files.json vouches for -
\* unless a fault or an overlapping poll came in between, the note came back
\* after its deletion, or the store took a diff for a repetition.
NotesAreTold ==
  (\A p \in Sweepers : sweep[p].pc = "rest") =>
    \A n \in Notes :
      /\ disk[n].text # Gone /\ files[n].mtime = disk[n].mtime => files[n].text = disk[n].text
      /\ n \notin strayed =>
           /\ Tale(n) = files[n].text
           /\ \A i \in 2..Len(told[n]) : told[n][i].kind = "diff" => told[n][i].old = told[n][i - 1].new

\* "MODIFIED -> emit 1 diff-delta ... pure additive" (vault.py) is not all:
\* the lake keeps a note as deleted that came back, and loses the second of
\* two edits that read the same.
WholeStory ==
  (~broken /\ \A p \in Sweepers : sweep[p].pc = "rest") => \A n \in Notes : Tale(n) = files[n].text
=============================================================================
