------------------------------ MODULE Transfer ------------------------------
(* Rows that reach the delta store in bulk, and the rows they meet there:    *)
(* an import (import_batch in delta-store/deltas/store.py), with or without  *)
(* skipping what is there, a batch (write_batch) and the migration from      *)
(* SQLite (migrate.py) go line by line within one transaction, beside        *)
(* single writes, the embed loop, the backfill that stores vectors again     *)
(* (scripts/backfill_provenance_centroids.py), and deletions.  The rows that *)
(* a transaction has written are locked until it ends.                       *)
EXTENDS Naturals, Sequences
CONSTANTS
  Keys, Contents,        \* ids and contents of rows
  Modes,                 \* \subseteq {"skip", "overwrite", "batch", "migrate"}
  MaxLines, MaxRewrites, MaxBreaks  \* bounds: lines of a transfer, other changes, lost connections
ASSUME TransferBounds == "none" \notin Keys \cup Contents /\ Modes \subseteq {"skip", "overwrite", "batch", "migrate"}

VARIABLES
  shelf,   \* the committed rows: body, and the body that the content vector was made of
  tx,      \* the transfer: its lines, what its transaction has written, its counts
  loop, refill,  \* the row that the embed loop and the backfill have read
  stale,   \* history: the rows whose content changed under an import, or under a reader
  rewrites, breaks

transferVars == <<shelf, tx, loop, refill, stale, rewrites, breaks>>

Absent == [body |-> "none", vec |-> "none"]
Line == [key : Keys, body : Contents, flaw : {"none", "shape", "text"}]
NoTransfer == [pc |-> "idle", mode |-> "skip", lines |-> <<>>, at |-> 1, over |-> [k \in Keys |-> Absent], base |-> {},
         aborted |-> FALSE, written |-> 0, skipped |-> 0, errors |-> 0]

IsThere(k) == shelf[k] # Absent
Locked(k) == tx.over[k] # Absent
InHand(k) == k \in {loop.key, refill.key}

TransferInit ==
  /\ shelf = [k \in Keys |-> Absent] /\ tx = NoTransfer
  /\ loop = [key |-> "none"] /\ refill = [key |-> "none"]
  /\ stale = {} /\ rewrites = 0 /\ breaks = 0
-----------------------------------------------------------------------------
\* A line may miss a field or have one that cannot be converted, which is found
\* before the statement is sent, or a text that the database refuses.
BeginTransfer(mode, lines) ==
  /\ tx.pc = "idle"
  /\ tx' = [tx EXCEPT !.pc = "line", !.mode = mode, !.lines = lines, !.base = {k \in Keys : IsThere(k)}]
  /\ UNCHANGED <<shelf, loop, refill, stale, rewrites, breaks>>

AtLine == tx.pc = "line" /\ tx.at <= Len(tx.lines)
TheLine == tx.lines[tx.at]
Sees(k) == IF Locked(k) THEN tx.over[k] ELSE shelf[k]
NextLine == [tx EXCEPT !.at = @ + 1, !.pc = "line"]
\* An exception that nobody catches rolls the transaction back.
Raise == [tx EXCEPT !.pc = "raised", !.over = NoTransfer.over]

\* With skip_duplicates each line is looked up before it is inserted; after an
\* error in the transaction the look-up itself raises.
LookUp ==
  /\ AtLine /\ tx.mode = "skip"
  /\ tx' = CASE tx.aborted -> Raise
             [] ~tx.aborted /\ Sees(TheLine.key) # Absent -> [NextLine EXCEPT !.skipped = @ + 1]
             [] OTHER -> [tx EXCEPT !.pc = "insert"]
  /\ UNCHANGED <<shelf, loop, refill, stale, rewrites, breaks>>

\* What the statement makes of the row: an import keeps the vectors of a row that it
\* overwrites, a batch resets them, the migration leaves the row alone and brings
\* vectors along.
Inserted(mode, line, old) ==
  CASE mode \in {"skip", "overwrite"} -> [body |-> line.body, vec |-> old.vec]
    [] mode = "batch" -> [body |-> line.body, vec |-> "none"]
    [] mode = "migrate" -> IF old # Absent THEN old ELSE [body |-> line.body, vec |-> line.body]

\* The migration strips what the database would refuse.
RefusedText(line) == line.flaw = "text" /\ tx.mode # "migrate"

\* An import counts the error and goes on in its aborted transaction; the migration
\* has a savepoint for each row; a batch gives up.
InsertLine ==
  /\ tx.pc = "insert" \/ (AtLine /\ tx.mode # "skip")
  /\ LET line == TheLine
         old == Sees(line.key)
         fails == line.flaw = "shape" \/ tx.aborted \/ RefusedText(line)
     IN  /\ tx' = CASE fails /\ tx.mode = "batch" -> Raise
                    [] fails /\ tx.mode # "batch" ->
                         [NextLine EXCEPT !.errors = @ + 1, !.aborted = @ \/ RefusedText(line)]
                    [] OTHER -> [NextLine EXCEPT !.written = @ + 1, !.over[line.key] = Inserted(tx.mode, line, old)]
         /\ stale' = IF ~fails /\ old # Absent /\ tx.mode \in {"skip", "overwrite"} THEN stale \cup {line.key} ELSE stale
  /\ UNCHANGED <<shelf, loop, refill, rewrites, breaks>>

\* A transaction that was aborted is rolled back by its COMMIT, without an error.
Commit ==
  /\ tx.pc = "line" /\ tx.at > Len(tx.lines)
  /\ shelf' = [k \in Keys |-> IF ~tx.aborted /\ Locked(k) THEN tx.over[k] ELSE shelf[k]]
  /\ stale' = stale \cup {k \in Keys : InHand(k) /\ shelf'[k].body # shelf[k].body}
  /\ tx' = [tx EXCEPT !.pc = "ok", !.over = NoTransfer.over]
  /\ UNCHANGED <<loop, refill, rewrites, breaks>>

\* The connection is lost.
Breaks ==
  /\ tx.pc \in {"line", "insert"} /\ breaks < MaxBreaks /\ breaks' = breaks + 1
  /\ tx' = Raise
  /\ UNCHANGED <<shelf, loop, refill, stale, rewrites>>
-----------------------------------------------------------------------------
\* A write under an id that is there replaces the row and resets its vector.
Upsert(body) == [body |-> body, vec |-> "none"]
RowChanges == rewrites < MaxRewrites /\ rewrites' = rewrites + 1
WriteRow(k, body) ==
  /\ ~Locked(k) /\ RowChanges
  /\ shelf' = [shelf EXCEPT ![k] = Upsert(body)]
  /\ stale' = IF InHand(k) THEN stale \cup {k} ELSE stale \ {k}
  /\ UNCHANGED <<tx, loop, refill, breaks>>

DeleteRow(k) ==
  /\ IsThere(k) /\ ~Locked(k) /\ RowChanges
  /\ shelf' = [shelf EXCEPT ![k] = Absent] /\ tx' = [tx EXCEPT !.base = @ \ {k}]
  /\ stale' = IF InHand(k) THEN stale \cup {k} ELSE stale \ {k}
  /\ UNCHANGED <<loop, refill, breaks>>

\* The embed loop reads a row without a vector, and stores one after the embedding.
EmbedReads(k) ==
  /\ loop.key = "none" /\ IsThere(k) /\ shelf[k].vec = "none"
  /\ loop' = [key |-> k, vec |-> shelf[k].body]
  /\ UNCHANGED <<shelf, tx, refill, stale, rewrites, breaks>>
\* The backfill passes the vector back that it has read, to store a centroid with it.
BackfillReads(k) ==
  /\ refill.key = "none" /\ shelf[k].vec # "none"
  /\ refill' = [key |-> k, vec |-> shelf[k].vec]
  /\ UNCHANGED <<shelf, tx, loop, stale, rewrites, breaks>>

UpdateEmbeddings(held) ==
  /\ held.key # "none" /\ ~Locked(held.key)
  /\ shelf' = IF IsThere(held.key) THEN [shelf EXCEPT ![held.key].vec = held.vec] ELSE shelf
EmbedStores ==
  /\ UpdateEmbeddings(loop) /\ loop' = [key |-> "none"]
  /\ UNCHANGED <<tx, refill, stale, rewrites, breaks>>
BackfillStores ==
  /\ UpdateEmbeddings(refill) /\ refill' = [key |-> "none"]
  /\ UNCHANGED <<tx, loop, stale, rewrites, breaks>>

Lines == UNION {[1..n -> Line] : n \in 1..MaxLines}
TransferNext ==
  \/ \E mode \in Modes, lines \in Lines : BeginTransfer(mode, lines)
  \/ LookUp \/ InsertLine \/ Commit \/ Breaks
  \/ \E k \in Keys : DeleteRow(k) \/ EmbedReads(k) \/ BackfillReads(k) \/ \E body \in Contents : WriteRow(k, body)
  \/ EmbedStores \/ BackfillStores
TransferSpec == TransferInit /\ [][TransferNext]_transferVars
-----------------------------------------------------------------------------
TransferTypeOK ==
  /\ shelf \in [Keys -> [body : Contents, vec : Contents \cup {"none"}] \cup {Absent}]
  /\ tx.pc \in {"idle", "line", "insert", "ok", "raised"} /\ tx.mode \in Modes \cup {"skip"}
  /\ \A k \in Keys : Locked(k) => tx.pc \in {"line", "insert"}
  /\ tx.written + tx.skipped + tx.errors <= Len(tx.lines)
  /\ stale \subseteq Keys

\* The content vector of a row is of its content, unless an import has overwritten
\* the content, or it changed while the loop or the backfill had the row in hand.
VectorsAreTrue == \A k \in Keys \ stale : shelf[k].vec \in {"none", shelf[k].body}

\* A row that the transfer found stays as it was, when it skips what is there or
\* migrates: what it has written are other rows.
OldRowsStay == tx.mode \in {"skip", "migrate"} => \A k \in tx.base : tx.over[k] \in {Absent, shelf[k]}

\* A bad row of the migration costs itself and no other, and a transfer whose lines
\* are in order counts what it has written.
Flaws == {i \in DOMAIN tx.lines : tx.lines[i].flaw # "none"}
GoodRowsGetIn ==
  tx.pc = "ok" /\ (tx.mode = "migrate" \/ Flaws = {}) /\ rewrites = 0
    => \A i \in DOMAIN tx.lines : tx.lines[i].flaw # "shape" => IsThere(tx.lines[i].key)

TransfersAreTrue == VectorsAreTrue /\ OldRowsStay /\ GoodRowsGetIn

\* What import_batch and _insert_batch say of what they return.
CountsAreTrue ==
  tx.pc = "ok" /\ rewrites = 0 /\ tx.written > 0 => \E k \in Keys : IsThere(k)
=============================================================================
