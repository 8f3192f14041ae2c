-------------------------- MODULE VectorStoreProofs -------------------------
(***************************************************************************)
(* Theorems about VectorStore, for any finite set of entries and histories *)
(* of any length.  The invariant says where, at every step of an           *)
(* operation, the positions of the table agree with the index in memory    *)
(* and with the file; it is the conjunction of named parts.                *)
(***************************************************************************)
EXTENDS VectorStore, FiniteSetTheorems, TLAPS

\* The positions r lead to the right vectors of the index v.
Points(r, v) ==
  \A e \in Entry : r[e] # NoRow => r[e] < Len(v) /\ v[r[e] + 1] = e

\* What the operation under way has done so far.
Progress ==
  /\ at = "insert" => cur \in Entry /\ Len(vec) > 0 /\ vec[Len(vec)] = cur
  /\ at \in {"save", "write"} /\ cur # NoEntry => row[cur] # NoRow
  /\ at \in {"closed", "idle", "rebuild"} => cur = NoEntry

\* An open transaction changes positions only: it holds the committed rows.
SameRows ==
  /\ \A e \in Entry : row[e] = NoRow <=> saved[e] = NoRow
  /\ \A e \in told : saved[e] # NoRow

\* As long as no save was cut short.
Agreement ==
  ~cut =>
    /\ row = saved
    /\ at # "closed" => Points(row, vec)
    /\ at \notin {"save", "write"} => ~torn /\ Points(saved, file)

Inv == TypeOK /\ Progress /\ SameRows /\ Agreement

-----------------------------------------------------------------------------
\* A rebuild numbers the rows so that each leads to its own vector, and keeps them.
LEMMA RebuildPoints ==
  ASSUME TypeOK, NEW order \in Orders, \A e \in Rows : row[e] < Len(vec)
  PROVE  LET v == [i \in DOMAIN order |-> vec[row[order[i]] + 1]] IN
           /\ v \in Seq(Entry)
           /\ Renumbered(order) \in [Entry -> Nat \cup {NoRow}]
           /\ \A e \in Entry : Renumbered(order)[e] = NoRow <=> row[e] = NoRow
           /\ Points(row, vec) => Points(Renumbered(order), v)
<1> DEFINE n == Cardinality(Rows)
           v == [i \in DOMAIN order |-> vec[row[order[i]] + 1]]
<1>1. n \in Nat
  <2>1. IsFiniteSet(Rows)  BY EntryOK, FS_Subset DEF EntryOK, Rows
  <2> QED  BY <2>1, FS_CardinalityType
<1>2. order \in [1..n -> Rows] /\ \A e \in Rows : \E i \in 1..n : order[i] = e
  BY DEF Orders
<1>3. \A i \in 1..n : order[i] \in Entry /\ row[order[i]] \in Nat /\ row[order[i]] < Len(vec)
  BY <1>2 DEF TypeOK, Rows, NoRow
<1>4. v \in [1..n -> Entry]
  <2> SUFFICES ASSUME NEW i \in 1..n PROVE vec[row[order[i]] + 1] \in Entry
    BY <1>2
  <2>1. row[order[i]] + 1 \in 1..Len(vec)  BY <1>3 DEF TypeOK
  <2> QED  BY <2>1 DEF TypeOK
<1>5. v \in Seq(Entry) /\ Len(v) = n  BY <1>1, <1>4
<1>6. ASSUME NEW e \in Rows
      PROVE  /\ Renumbered(order)[e] + 1 \in 1..n
             /\ order[Renumbered(order)[e] + 1] = e
             /\ Renumbered(order)[e] \in Nat
  <2> DEFINE k == CHOOSE i \in DOMAIN order : order[i] = e
  <2>1. k \in 1..n /\ order[k] = e  BY <1>2
  <2>2. Renumbered(order)[e] = k - 1  BY DEF Renumbered, Rows
  <2> HIDE DEF k, n
  <2>3. k - 1 + 1 = k /\ k - 1 \in Nat  BY <1>1, <2>1
  <2> QED  BY <2>1, <2>2, <2>3
<1>7. \A e \in Entry \ Rows : Renumbered(order)[e] = NoRow /\ row[e] = NoRow
  BY DEF Renumbered, Rows
<1> HIDE DEF n
<1>8. Renumbered(order) \in [Entry -> Nat \cup {NoRow}]
  <2>1. \A e \in Entry : Renumbered(order)[e] \in Nat \cup {NoRow}  BY <1>6, <1>7
  <2>2. Renumbered(order) = [e \in Entry |-> Renumbered(order)[e]]  BY DEF Renumbered
  <2> QED  BY <2>1, <2>2
<1>9. \A e \in Entry : Renumbered(order)[e] = NoRow <=> row[e] = NoRow
  BY <1>6, <1>7 DEF Rows, NoRow
<1>10. ASSUME Points(row, vec) PROVE Points(Renumbered(order), v)
  <2> SUFFICES ASSUME NEW e \in Entry, Renumbered(order)[e] # NoRow
               PROVE  /\ Renumbered(order)[e] < Len(v)
                      /\ v[Renumbered(order)[e] + 1] = e
    BY DEF Points
  <2>1. e \in Rows  BY <1>7
  <2>2. v[Renumbered(order)[e] + 1] = vec[row[e] + 1]  BY <1>2, <1>6, <2>1
  <2>3. vec[row[e] + 1] = e  BY <1>10, <2>1 DEF Points, Rows
  <2> QED  BY <1>1, <1>5, <1>6, <2>1, <2>2, <2>3
<1> QED  BY <1>5, <1>8, <1>9, <1>10

\* A rebuild that raises changes positions only.
LEMMA RebuildFailsKeeps ==
  ASSUME TypeOK, NEW order \in Orders
  PROVE  /\ Renumbered(order) \in [Entry -> Nat \cup {NoRow}]
         /\ \A e \in Entry : Renumbered(order)[e] = NoRow <=> row[e] = NoRow
<1> DEFINE n == Cardinality(Rows)
<1>1. n \in Nat
  <2>1. IsFiniteSet(Rows)  BY EntryOK, FS_Subset DEF EntryOK, Rows
  <2> QED  BY <2>1, FS_CardinalityType
<1>2. order \in [1..n -> Rows] /\ \A e \in Rows : \E i \in 1..n : order[i] = e
  BY DEF Orders
<1>3. ASSUME NEW e \in Entry
      PROVE  /\ Renumbered(order)[e] \in Nat \cup {NoRow}
             /\ Renumbered(order)[e] = NoRow <=> row[e] = NoRow
  <2> DEFINE k == CHOOSE i \in DOMAIN order : order[i] = e
  <2>1. CASE e \in Rows /\ row[e] < Len(vec)
    <3>1. k \in 1..n  BY <1>2, <2>1
    <3>2. Renumbered(order)[e] = k - 1  BY <2>1 DEF Renumbered
    <3> HIDE DEF k, n
    <3> QED  BY <1>1, <2>1, <3>1, <3>2 DEF Rows, NoRow
  <2>2. CASE ~(e \in Rows /\ row[e] < Len(vec))
    BY <2>2 DEF Renumbered, TypeOK
  <2> QED  BY <2>1, <2>2
<1>4. Renumbered(order) = [e \in Entry |-> Renumbered(order)[e]]  BY DEF Renumbered
<1> QED  BY <1>3, <1>4

-----------------------------------------------------------------------------
LEMMA InitInv == Init => Inv
<1> SUFFICES ASSUME Init PROVE Inv
  OBVIOUS
<1> USE DEF Init, NoRow
<1>1. TypeOK
  <2>1. row \in [Entry -> Nat \cup {NoRow}] /\ saved \in [Entry -> Nat \cup {NoRow}]
    OBVIOUS
  <2>2. vec \in Seq(Entry) /\ file \in Seq(Entry)  OBVIOUS
  <2>3. torn \in BOOLEAN /\ cut \in BOOLEAN  OBVIOUS
  <2> QED  BY <2>1, <2>2, <2>3 DEF TypeOK
<1>2. \A e \in Entry : row[e] = NoRow /\ saved[e] = NoRow
  OBVIOUS
<1>3. Progress /\ SameRows /\ Agreement
  BY <1>2 DEF Progress, SameRows, Agreement, Points
<1> QED  BY <1>1, <1>3 DEF Inv

LEMMA NextInv == Inv /\ [Next]_vars => Inv'
<1> SUFFICES ASSUME Inv, [Next]_vars PROVE Inv'
  OBVIOUS
<1> USE EntryOK DEF EntryOK, Inv, NoRow
<1> USE DEF TypeOK, Progress, SameRows, Agreement
<1>1. ASSUME Open PROVE Inv'
  BY <1>1 DEF Open, Points
<1>2. ASSUME NEW e \in Entry, Insert(e) PROVE Inv'
  <2>1. vec' \in Seq(Entry) /\ Len(vec') = Len(vec) + 1 /\ vec'[Len(vec')] = e
    BY <1>2 DEF Insert
  <2>2. \A i \in 1..Len(vec) : vec'[i] = vec[i]  BY <1>2 DEF Insert
  <2>3. ~cut => Points(row, vec')
    <3> SUFFICES ASSUME ~cut, NEW d \in Entry, row[d] # NoRow
                 PROVE  row[d] < Len(vec') /\ vec'[row[d] + 1] = d
      BY DEF Points
    <3>1. row[d] \in Nat /\ row[d] < Len(vec) /\ vec[row[d] + 1] = d
      BY <1>2 DEF Insert, Points
    <3>2. row[d] + 1 \in 1..Len(vec)  BY <3>1
    <3> QED  BY <2>1, <2>2, <3>1, <3>2
  <2> QED  BY <1>2, <2>1, <2>3 DEF Insert
<1>3. ASSUME InsertRow PROVE Inv'
  <2>1. Len(vec) - 1 \in Nat /\ vec[Len(vec) - 1 + 1] = cur /\ cur \in Entry
    BY <1>3 DEF InsertRow
  <2>2. row' \in [Entry -> Nat \cup {NoRow}] /\ row'[cur] # NoRow /\ saved' = row'
    BY <1>3, <2>1 DEF InsertRow
  <2>3. \A e \in Entry : row'[e] = NoRow => row[e] = NoRow
    BY <1>3, <2>1 DEF InsertRow
  <2>4. ~cut => Points(row', vec)
    BY <1>3, <2>1 DEF InsertRow, Points
  <2> QED  BY <1>3, <2>2, <2>3, <2>4 DEF InsertRow
<1>4. ASSUME InsertFails PROVE Inv'
  BY <1>4 DEF InsertFails, Points
<1>5. ASSUME NEW e \in Entry, Delete(e) PROVE Inv'
  BY <1>5 DEF Delete, Points
<1>6. ASSUME Rebuild PROVE Inv'
  <2>1. PICK order \in Orders :
          /\ vec' = [i \in DOMAIN order |-> vec[row[order[i]] + 1]]
          /\ row' = Renumbered(order)
    BY <1>6 DEF Rebuild
  <2>2. /\ vec' \in Seq(Entry)
        /\ row' \in [Entry -> Nat \cup {NoRow}]
        /\ \A e \in Entry : row'[e] = NoRow <=> row[e] = NoRow
        /\ Points(row, vec) => Points(row', vec')
    BY <1>6, <2>1, RebuildPoints DEF Rebuild
  <2> QED  BY <1>6, <2>2 DEF Rebuild
<1>7. ASSUME RebuildFails PROVE Inv'
  <2>1. PICK order \in Orders : row' = Renumbered(order)
    BY <1>7 DEF RebuildFails
  <2>2. /\ row' \in [Entry -> Nat \cup {NoRow}]
        /\ \A e \in Entry : row'[e] = NoRow <=> row[e] = NoRow
    BY <2>1, RebuildFailsKeeps
  <2>3. PICK e \in Entry : row[e] # NoRow /\ row[e] >= Len(vec)
    BY <1>7 DEF RebuildFails, Rows
  <2>4. Len(vec) \in Nat /\ row[e] \in Nat  BY <2>3
  <2>5. ~(row[e] < Len(vec))  BY <2>3, <2>4
  <2>6. cut  BY <1>7, <2>3, <2>5 DEF RebuildFails, Points
  <2> QED  BY <1>7, <2>2, <2>6 DEF RebuildFails
<1>8. ASSUME StartSave PROVE Inv'
  BY <1>8 DEF StartSave, Points
<1>9. ASSUME FinishSave PROVE Inv'
  <2>1. told' \subseteq Entry /\ \A e \in told' : saved[e] # NoRow
    BY <1>9 DEF FinishSave
  <2> QED  BY <1>9, <2>1 DEF FinishSave
<1>10. ASSUME SaveFails PROVE Inv'
  BY <1>10 DEF SaveFails, Points
<1>11. ASSUME Kill PROVE Inv'
  <2>1. cut' \in BOOLEAN  BY <1>11 DEF Kill
  <2>2. ~cut' => ~cut /\ at \notin {"save", "write"}  BY <1>11 DEF Kill
  <2>3. /\ at' = "closed" /\ cur' = NoEntry /\ vec' = <<>> /\ row' = saved
        /\ UNCHANGED <<saved, file, torn, told>>
    BY <1>11 DEF Kill
  <2> QED  BY <2>1, <2>2, <2>3 DEF Points
<1>12. ASSUME UNCHANGED vars PROVE Inv'
  BY <1>12 DEF vars, Points
<1> QED
  BY <1>1, <1>2, <1>3, <1>4, <1>5, <1>6, <1>7, <1>8, <1>9, <1>10, <1>11, <1>12
  DEF Next, OpenFails, DeleteUnknown

\* Inv holds in every reachable state.
THEOREM InvAlways == Spec => []Inv
<1>1. Init => Inv  BY InitInv
<1>2. Inv /\ [Next]_vars => Inv'  BY NextInv
<1> QED  BY <1>1, <1>2, PTL DEF Spec

-----------------------------------------------------------------------------
\* Every variable keeps its type, through failed inserts and rebuilds and kills.
THEOREM TypeCorrect == Spec => []TypeOK
<1>1. Inv => TypeOK  BY DEF Inv
<1> QED  BY <1>1, InvAlways, PTL

\* Entries are found by their own vectors until a save is cut short: the tools of
\* the memory server return the text that was stored for what was embedded.
THEOREM RecallAlways == Spec => []Recall
<1>1. Inv => Recall
  <2> SUFFICES ASSUME Inv, at = "idle", ~cut, NEW e \in Rows PROVE Found(e) = {e}
    BY DEF Recall
  <2>1. Points(row, vec)  BY DEF Inv, Agreement
  <2>2. row[e] \in Nat /\ row[e] < Len(vec) /\ vec[row[e] + 1] = e
    BY <2>1 DEF Points, Rows, Inv, TypeOK
  <2>3. row[e] + 1 \in DOMAIN vec /\ row[e] = row[e] + 1 - 1
    BY <2>2 DEF Inv, TypeOK
  <2>4. e \in Found(e)  BY <2>2, <2>3 DEF Found
  <2>5. ASSUME NEW r \in Found(e) PROVE r = e
    <3>1. PICK i \in DOMAIN vec : vec[i] = e /\ row[r] = i - 1 /\ r \in Rows
      BY <2>5 DEF Found
    <3>2. i \in Nat /\ row[r] + 1 = i  BY <3>1 DEF Inv, TypeOK
    <3>3. vec[row[r] + 1] = r  BY <2>1, <3>1 DEF Points, Rows
    <3> QED  BY <3>1, <3>2, <3>3
  <2> QED  BY <2>4, <2>5
<1> QED  BY <1>1, InvAlways, PTL

\* What memory_store has acknowledged is in the committed table until deleted.
THEOREM DurableAlways == Spec => []Durable
<1>1. Inv => Durable  BY DEF Inv, Durable, SameRows, TypeOK
<1> QED  BY <1>1, InvAlways, PTL

=============================================================================
