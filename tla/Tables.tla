------------------------------- MODULE Tables -------------------------------
(***************************************************************************)
(* The SQLite schema of db.rs as far as the catalog of personas and agent  *)
(* types needs it: which columns are unique, which refer to other tables,  *)
(* and what a statement does.  No statement of db_ops.rs runs in a         *)
(* transaction: a sequence of statements that fails, or is cut short,      *)
(* keeps what its first statements did.                                    *)
(***************************************************************************)
EXTENDS Naturals, Sequences

Table == {"agents", "personas", "servers", "mounts", "sessions", "containers", "repos"}

\* PRIMARY KEY and UNIQUE, less the keys that are fresh UUIDs of every insert.
Unique ==
  [agents |-> {{"id"}, {"name"}}, personas |-> {{"id"}, {"name"}},
   servers |-> {{"id"}, {"persona", "name"}}, sessions |-> {{"id"}},
   mounts |-> {}, containers |-> {}, repos |-> {{"persona", "ws"}}]

\* REFERENCES, with or without ON DELETE CASCADE.
Refers(from, column, to, cascade) ==
  [from |-> from, column |-> column, to |-> to, cascade |-> cascade]
References ==
  {Refers("personas", "agent", "agents", FALSE),
   Refers("servers", "persona", "personas", TRUE),
   Refers("mounts", "persona", "personas", TRUE),
   Refers("repos", "persona", "personas", TRUE),
   Refers("sessions", "persona", "personas", FALSE),
   Refers("containers", "persona", "personas", FALSE)}

EmptyDb == [t \in Table |-> {}]

\* The rows among cand that share a key with row, and the references of row
\* that lead nowhere.
Clashes(t, cand, row) ==
  \E key \in Unique[t] : \E r \in cand : \A c \in key : r[c] = row[c]
Dangles(db, t, row) ==
  \E f \in References : f.from = t /\ \A r \in db[f.to] : r.id # row[f.column]

\* The rows that refer to one of gone by reference f.
Referring(db, f, gone) == {r \in db[f.from] : \E g \in gone : r[f.column] = g.id}

Result(db, ok) == [db |-> db, ok |-> ok]

Insert(db, t, row) ==
  IF Clashes(t, db[t], row) \/ Dangles(db, t, row)
  THEN Result(db, FALSE)
  ELSE Result([db EXCEPT ![t] = @ \cup {row}], TRUE)

Delete(db, t, gone) ==
  IF \E f \in References : f.to = t /\ ~f.cascade /\ Referring(db, f, gone) # {}
  THEN Result(db, FALSE)
  ELSE Result([u \in Table |->
                 IF u = t THEN db[u] \ gone
                 ELSE db[u] \ UNION {Referring(db, f, gone) :
                        f \in {g \in References : g.to = t /\ g.from = u}}], TRUE)

Update(db, t, row) ==
  LET others == {r \in db[t] : r.id # row.id}
  IN  IF Clashes(t, others, row) \/ Dangles(db, t, row)
      THEN Result(db, FALSE)
      ELSE Result([db EXCEPT ![t] = others \cup {row}], TRUE)

\* A statement: INSERT, UPDATE ... WHERE id, DELETE ... WHERE column = value.
\* The functions of db_ops.rs that answer NotFound when no row matched need one.
Inserts(t, row) == [do |-> "insert", table |-> t, row |-> row]
Updates(t, row, needed) == [do |-> "update", table |-> t, row |-> row, needed |-> needed]
Deletes(t, column, value, needed) ==
  [do |-> "delete", table |-> t, column |-> column, value |-> value, needed |-> needed]

Matching(db, s) ==
  IF s.do = "update" THEN {r \in db[s.table] : r.id = s.row.id}
  ELSE {r \in db[s.table] : r[s.column] = s.value}

Exec(db, s) ==
  IF s.do = "insert" THEN Insert(db, s.table, s.row)
  ELSE IF Matching(db, s) = {} THEN Result(db, ~s.needed)
  ELSE IF s.do = "update" THEN Update(db, s.table, s.row)
  ELSE Delete(db, s.table, Matching(db, s))

\* Statements one after the other; the first that fails is the last.
Run(db, stmts) ==
  LET after[k \in 0..Len(stmts)] ==
        IF k = 0 THEN Result(db, TRUE)
        ELSE IF after[k - 1].ok THEN Exec(after[k - 1].db, stmts[k]) ELSE after[k - 1]
  IN  after[Len(stmts)]

\* Every key is unique, every reference leads to a row.
Consistent(db) ==
  /\ \A t \in Table, r \in UNION {db[u] : u \in Table} :
       r \in db[t] => ~Clashes(t, db[t] \ {r}, r) /\ ~Dangles(db, t, r)
=============================================================================
