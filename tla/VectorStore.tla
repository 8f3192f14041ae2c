---------------------------- MODULE VectorStore ----------------------------
(***************************************************************************)
(* The memory of a persona: VectorStore (vector_store.py) as the tools of  *)
(* the memory server (server.py) use it.  Texts and positions are rows of  *)
(* a SQLite table, vectors are in a FAISS index that is rewritten as a     *)
(* file after every change.  Row e points at its vector by the position    *)
(* faiss_idx, counted from 0.                                              *)
(*                                                                         *)
(* One lock is held for the whole of an operation, so operations do not    *)
(* interleave; but the container can be killed at any step of one, and the *)
(* table and the file are written one after the other.  A vector is named  *)
(* by the entry whose text it embeds.                                      *)
(***************************************************************************)
EXTENDS Integers, Sequences, FiniteSets

CONSTANTS
  Entry,     \* entries; the name of a deleted one stands for a new one later
  NoEntry    \* the entry of an operation that inserts none

ASSUME EntryOK == IsFiniteSet(Entry) /\ NoEntry \notin Entry

VARIABLES
  at,      \* the step the operation under the lock is at
  cur,     \* the entry it inserts
  vec,     \* the index in memory
  row,     \* faiss_idx of every row, as the connection sees the table
  saved,   \* the same, as committed
  file,    \* vectors.index on disk; a missing file is as good as an empty one
  torn,    \* is the file one whose writing was not finished?
  told,    \* history: ids handed out by memory_store, not deleted since
  cut      \* history: was a save of the index ever cut short?

vars == <<at, cur, vec, row, saved, file, torn, told, cut>>

NoRow == -1

Rows == {e \in Entry : row[e] # NoRow}

TypeOK ==
  /\ at \in {"closed", "idle", "insert", "rebuild", "save", "write"}
  /\ cur \in Entry \cup {NoEntry}
  /\ vec \in Seq(Entry)
  /\ row \in [Entry -> Nat \cup {NoRow}]
  /\ saved \in [Entry -> Nat \cup {NoRow}]
  /\ file \in Seq(Entry)
  /\ torn \in BOOLEAN
  /\ told \subseteq Entry
  /\ cut \in BOOLEAN

Init ==
  /\ at = "closed"
  /\ cur = NoEntry
  /\ vec = <<>>
  /\ row = [e \in Entry |-> NoRow]
  /\ saved = row
  /\ file = <<>>
  /\ torn = FALSE
  /\ told = {}
  /\ cut = FALSE

-----------------------------------------------------------------------------
\* Mutants: an INSERT that is not committed; a rebuild that leaves the positions in
\* the table alone; a delete that acknowledges an entry.
InsertUncommitted ==
  /\ at = "insert"
  /\ row' = [row EXCEPT ![cur] = Len(vec) - 1]
  /\ at' = "save"
  /\ UNCHANGED <<cur, vec, saved, file, torn, told, cut>>

KeepNumbers(order) == row

AcknowledgeAny ==
  /\ at = "write"
  /\ file' = vec
  /\ torn' = FALSE
  /\ told' = told \cup {cur}
  /\ cur' = NoEntry
  /\ at' = "idle"
  /\ UNCHANGED <<vec, row, saved, cut>>

-----------------------------------------------------------------------------
\* The first request of a process opens the store; when the file cannot be read
\* that request fails, and so does every later one.
Open ==
  /\ at = "closed"
  /\ ~torn
  /\ vec' = file
  /\ at' = "idle"
  /\ UNCHANGED <<cur, row, saved, file, torn, told, cut>>

OpenFails ==
  /\ at = "closed"
  /\ torn
  /\ UNCHANGED vars

(***************************************************************************)
(* insert: the vector is added in memory, the row inserted and committed,  *)
(* the index written.  An INSERT that fails leaves a vector with no row.   *)
(***************************************************************************)
Insert(e) ==
  /\ at = "idle"
  /\ row[e] = NoRow
  /\ vec' = Append(vec, e)
  /\ cur' = e
  /\ at' = "insert"
  /\ UNCHANGED <<row, saved, file, torn, told, cut>>

InsertRow ==
  /\ at = "insert"
  /\ row' = [row EXCEPT ![cur] = Len(vec) - 1]
  /\ saved' = row'
  /\ at' = "save"
  /\ UNCHANGED <<cur, vec, file, torn, told, cut>>

InsertFails ==
  /\ at = "insert"
  /\ at' = "idle"
  /\ cur' = NoEntry
  /\ UNCHANGED <<vec, row, saved, file, torn, told, cut>>

(***************************************************************************)
(* delete: the row goes at once; then the index is rebuilt from the        *)
(* vectors of the remaining rows, in the order of their positions, and the *)
(* rows are renumbered in one transaction.  A position past the end of the *)
(* index raises half-way through: the rows before it keep their new number *)
(* in the transaction that is left open, and nothing is saved.             *)
(***************************************************************************)
Delete(e) ==
  /\ at = "idle"
  /\ row[e] # NoRow
  /\ row' = [row EXCEPT ![e] = NoRow]
  /\ saved' = row'
  /\ told' = told \ {e}
  /\ at' = "rebuild"
  /\ UNCHANGED <<cur, vec, file, torn, cut>>

DeleteUnknown(e) ==
  /\ at = "idle"
  /\ row[e] = NoRow
  /\ UNCHANGED vars

\* The orders in which ORDER BY faiss_idx may return the rows.
Orders ==
  {o \in [1..Cardinality(Rows) -> Rows] :
     /\ \A e \in Rows : \E i \in DOMAIN o : o[i] = e
     /\ \A i, j \in DOMAIN o : i <= j => row[o[i]] <= row[o[j]]}

Renumbered(order) ==
  [e \in Entry |-> IF e \in Rows /\ row[e] < Len(vec)
                   THEN (CHOOSE i \in DOMAIN order : order[i] = e) - 1
                   ELSE row[e]]

Rebuild ==
  /\ at = "rebuild"
  /\ \A e \in Rows : row[e] < Len(vec)
  /\ \E order \in Orders :
       /\ vec' = [i \in DOMAIN order |-> vec[row[order[i]] + 1]]
       /\ row' = Renumbered(order)
  /\ saved' = row'
  /\ at' = "save"
  /\ UNCHANGED <<cur, file, torn, told, cut>>

RebuildFails ==
  /\ at = "rebuild"
  /\ \E e \in Rows : row[e] >= Len(vec)
  /\ \E order \in Orders : row' = Renumbered(order)
  /\ at' = "idle"
  /\ UNCHANGED <<cur, vec, saved, file, torn, told, cut>>

(***************************************************************************)
(* _save_index writes the file in place; a full disk stops it.  The id of  *)
(* an inserted entry is returned when the file is complete.                *)
(***************************************************************************)
StartSave ==
  /\ at = "save"
  /\ torn' = TRUE
  /\ at' = "write"
  /\ UNCHANGED <<cur, vec, row, saved, file, told, cut>>

FinishSave ==
  /\ at = "write"
  /\ file' = vec
  /\ torn' = FALSE
  /\ told' = told \cup ({cur} \ {NoEntry})
  /\ cur' = NoEntry
  /\ at' = "idle"
  /\ UNCHANGED <<vec, row, saved, cut>>

SaveFails ==
  /\ at = "write"
  /\ cut' = TRUE
  /\ cur' = NoEntry
  /\ at' = "idle"
  /\ UNCHANGED <<vec, row, saved, file, torn, told>>

\* The container stops, at any step: what was not committed is rolled back.
Kill ==
  /\ at # "closed"
  /\ at' = "closed"
  /\ cut' = (cut \/ at \in {"save", "write"})
  /\ cur' = NoEntry
  /\ vec' = <<>>
  /\ row' = saved
  /\ UNCHANGED <<saved, file, torn, told>>

-----------------------------------------------------------------------------
Next ==
  \/ Open \/ OpenFails
  \/ \E e \in Entry : Insert(e) \/ Delete(e) \/ DeleteUnknown(e)
  \/ InsertRow \/ InsertFails
  \/ Rebuild \/ RebuildFails
  \/ StartSave \/ FinishSave \/ SaveFails
  \/ Kill

Spec == Init /\ [][Next]_vars

-----------------------------------------------------------------------------
\* What a search that hits the vector of e returns: the rows at its positions.
Found(e) == {r \in Rows : \E i \in DOMAIN vec : vec[i] = e /\ row[r] = i - 1}

\* Searching for the text of a stored entry finds that entry and no other, after
\* any inserts, deletes, failed inserts and restarts, as long as no save of the
\* index was cut short: the positions in the table and the index move together.
Recall == at = "idle" /\ ~cut => \A e \in Rows : Found(e) = {e}

\* The same with saves cut short as well, as the module's own description has it:
\* "Data persists across server restarts via filesystem storage."
RecallAfterKill == at = "idle" => \A e \in Rows : Found(e) = {e}

\* An entry whose id was returned is in the committed table until it is deleted,
\* wherever the process is killed and whatever becomes of the index.
Durable == \A e \in told : saved[e] # NoRow /\ row[e] # NoRow

=============================================================================
