--------------------------- MODULE CatalogProofs ---------------------------
(***************************************************************************)
(* What holds of the Catalog for every number of requests, rows, releases, *)
(* migrations and ends of the process: types, keys and references, the     *)
(* start, the built-in agents, active sessions, workspaces, and the        *)
(* personas an import leaves alone.                                        *)
(*                                                                         *)
(* A step leaves the tables alone or executes statements of one closure,   *)
(* all or the first of them (NextRuns).  What each statement preserves,    *)
(* the step therefore preserves (RunKeeps); the properties differ in what  *)
(* is said of a statement.                                                 *)
(***************************************************************************)
EXTENDS Catalog, FiniteSetTheorems, WellFoundedInduction, TLAPS

---------------------------------------------------------------------------
(* Runs of statements *)

\* The states that the statements of a sequence lead through.
Trace(db0, stmts, t) ==
  /\ t[0] = Result(db0, TRUE)
  /\ \A k \in 1..Len(stmts) :
       t[k] = IF t[k - 1].ok THEN Exec(t[k - 1].db, stmts[k]) ELSE t[k - 1]

Step(t, k, stmts) == IF t[k - 1].ok THEN Exec(t[k - 1].db, stmts[k]) ELSE t[k - 1]

\* The run itself, as a function from how far it has come to what that made.
After(t, m, db0, stmts) ==
  [k \in 0..m |-> IF k = 0 THEN Result(db0, TRUE) ELSE Step(t, k, stmts)]

\* A set of numbers has a least one; induction below is an argument from it.
LEMMA LeastNumber ==
  ASSUME NEW S, S \subseteq Nat, S # {}
  PROVE  \E m \in S : \A k \in S : m <= k
<1> DEFINE R == OpToRel(<, Nat)
<1>1. PICK m \in S : \A k \in S : <<k, m>> \notin R
  <2>1. IsWellFoundedOn(R, Nat)
    BY NatLessThanWellFounded
  <2> HIDE DEF R
  <2> QED BY <2>1, WFMin
<1>2. ASSUME NEW k \in S PROVE m <= k
  <2>1. k \in Nat /\ m \in Nat
    OBVIOUS
  <2>2. k < m => <<k, m>> \in R
    BY <2>1 DEF OpToRel
  <2>3. ~(k < m)
    <3> HIDE DEF R
    <3> QED BY <1>1, <2>2
  <2> QED BY <2>1, <2>3
<1> QED BY <1>2

\* Induction from 0 to n, on a set G of numbers.
LEMMA UpTo ==
  ASSUME NEW n \in Nat, NEW G, 0 \in G, \A k \in 1..n : k - 1 \in G => k \in G
  PROVE  \A k \in 0..n : k \in G
<1> SUFFICES ASSUME NEW q \in 0..n, q \notin G PROVE FALSE
  OBVIOUS
<1> DEFINE B == {k \in 0..n : k \notin G}
<1>1. B \subseteq Nat /\ B # {}
  OBVIOUS
<1>2. PICK m \in B : \A k \in B : m <= k
  <2> HIDE DEF B
  <2> QED BY <1>1, LeastNumber
<1>3. m \in 1..n /\ m - 1 \in 0..n /\ m - 1 < m
  BY <1>2
<1>4. m - 1 \in G
  <2> SUFFICES ASSUME m - 1 \notin G PROVE FALSE
    OBVIOUS
  <2>1. m - 1 \in B
    BY <1>3
  <2> QED BY <1>2, <1>3, <2>1
<1> QED BY <1>2, <1>3, <1>4

\* Runs are defined by recursion on how far they have come: they exist.
LEMMA TraceExists ==
  ASSUME NEW db0, NEW stmts, Len(stmts) \in Nat
  PROVE  \E t : t = After(t, Len(stmts), db0, stmts)
<1> DEFINE n == Len(stmts)
           Rec(t, m) == t = After(t, m, db0, stmts)
           G == {m \in 0..n : \E t : Rec(t, m)}
<1>0. n \in Nat
  OBVIOUS
<1>1. 0 \in G
  <2> DEFINE t == [k \in 0..0 |-> Result(db0, TRUE)]
  <2>1. Rec(t, 0)
    BY DEF After
  <2> HIDE DEF Rec, t
  <2>2. \E u : Rec(u, 0)
    BY <2>1
  <2> QED BY <2>2
<1>2. ASSUME NEW m \in 1..n, m - 1 \in G PROVE m \in G
  <2>1. PICK t : Rec(t, m - 1)
    BY <1>2
  <2> DEFINE u == [k \in 0..m |-> IF k = m THEN Step(t, m, stmts) ELSE t[k]]
             w == After(u, m, db0, stmts)
  <2>2. ASSUME NEW k \in 0..m PROVE u[k] = w[k]
    <3>0. \A q \in 0..(m - 1) :
            t[q] = IF q = 0 THEN Result(db0, TRUE) ELSE Step(t, q, stmts)
      BY <2>1 DEF After
    <3>1. w[k] = IF k = 0 THEN Result(db0, TRUE) ELSE Step(u, k, stmts)
      BY DEF After
    <3>2. CASE k = 0
      <4>1. u[0] = t[0] /\ 0 \in 0..(m - 1)
        OBVIOUS
      <4> QED BY <4>1, <3>0, <3>1, <3>2
    <3>3. CASE k # 0
      <4>1. u[k - 1] = t[k - 1]
        BY <3>3
      <4>2. Step(u, k, stmts) = Step(t, k, stmts)
        BY <4>1 DEF Step
      <4>3. u[k] = Step(t, k, stmts)
        <5>1. CASE k = m
          BY <5>1
        <5>2. CASE k # m
          <6>1. k \in 0..(m - 1) /\ u[k] = t[k]
            BY <5>2
          <6> QED BY <6>1, <3>0, <3>3
        <5> QED BY <5>1, <5>2
      <4> QED BY <4>2, <4>3, <3>1, <3>3
    <3> QED BY <3>2, <3>3
  <2>3. u = w
    BY <2>2 DEF After
  <2>4. Rec(u, m)
    BY <2>3
  <2> HIDE DEF Rec, u, w
  <2>5. \E v : Rec(v, m)
    BY <2>4
  <2> QED BY <2>5
<1>3. n \in G
  <2> HIDE DEF G
  <2>1. \A k \in 1..n : k - 1 \in G => k \in G
    BY <1>2
  <2>2. \A k \in 0..n : k \in G
    <3> HIDE DEF n
    <3> QED BY <1>0, <1>1, <2>1, UpTo
  <2> QED BY <1>0, <2>2
<1> QED BY <1>3

\* Run is where its states lead.
LEMMA RunTrace ==
  ASSUME NEW db0, NEW stmts, Len(stmts) \in Nat
  PROVE  \E t : Trace(db0, stmts, t) /\ Run(db0, stmts) = t[Len(stmts)]
<1> DEFINE n == Len(stmts)
           F(t) == [k \in 0..n |-> IF k = 0 THEN Result(db0, TRUE)
                    ELSE IF t[k - 1].ok THEN Exec(t[k - 1].db, stmts[k]) ELSE t[k - 1]]
           after == CHOOSE t : t = F(t)
<1>1. \E t : t = F(t)
  <2>1. PICK t : t = After(t, n, db0, stmts)
    BY TraceExists
  <2>2. t = F(t)
    BY <2>1 DEF After, Step
  <2> QED BY <2>2
<1>2. after = F(after)
  BY <1>1
<1>3. Run(db0, stmts) = after[n]
  BY DEF Run
<1>4. Trace(db0, stmts, after)
  <2> HIDE DEF after
  <2>1. after[0] = Result(db0, TRUE)
    BY <1>2
  <2>2. ASSUME NEW k \in 1..n
        PROVE  after[k] = IF after[k - 1].ok THEN Exec(after[k - 1].db, stmts[k]) ELSE after[k - 1]
    <3>1. k \in 0..n /\ k # 0
      OBVIOUS
    <3>2. after[k] = F(after)[k]
       BY <1>2
    <3> QED BY <3>1, <3>2
  <2> QED BY <2>1, <2>2 DEF Trace
<1> QED BY <1>3, <1>4

\* What the run leads through, as a set U: what holds of the tables it starts
\* from and is preserved by every statement holds of those it ends with.
LEMMA RunKeeps ==
  ASSUME NEW Q, NEW stmts \in Seq(Q), NEW d0
  PROVE  \E U : /\ d0 \in U /\ Run(d0, stmts).db \in U
                /\ \A G : /\ d0 \in G
                          /\ \A d \in G, s \in Q : Exec(d, s).db \in U => Exec(d, s).db \in G
                          => Run(d0, stmts).db \in G
<1> DEFINE n == Len(stmts)
<1>0. n \in Nat /\ \A k \in 1..n : stmts[k] \in Q
  OBVIOUS
<1>1. PICK t : Trace(d0, stmts, t) /\ Run(d0, stmts) = t[n]
  BY <1>0, RunTrace
<1>2. /\ t[0].db = d0
      /\ \A k \in 1..n : \/ t[k].db = Exec(t[k - 1].db, stmts[k]).db
                         \/ t[k].db = t[k - 1].db
  BY <1>1 DEF Trace, Result
<1> DEFINE U == {t[k].db : k \in 0..n}
<1>3. d0 \in U /\ t[n].db \in U
  BY <1>0, <1>2
<1>4. ASSUME NEW G, d0 \in G,
             \A d \in G, s \in Q : Exec(d, s).db \in U => Exec(d, s).db \in G
      PROVE  t[n].db \in G
  <2> DEFINE H == {k \in 0..n : t[k].db \in G}
  <2>1. 0 \in H
    BY <1>0, <1>2, <1>4
  <2>2. ASSUME NEW k \in 1..n, k - 1 \in H PROVE k \in H
    <3>1. t[k - 1].db \in G /\ k \in 0..n /\ t[k].db \in U
      BY <2>2
    <3> HIDE DEF U
    <3>2. t[k].db \in G
      BY <1>0, <1>2, <1>4, <3>1
    <3> QED BY <3>1, <3>2
  <2>3. n \in H
    <3> HIDE DEF H, n
    <3>1. \A k \in 0..n : k \in H
      BY <1>0, <2>1, <2>2, UpTo
    <3> QED BY <1>0, <3>1
  <2> QED BY <2>3
<1> HIDE DEF U
<1> QED BY <1>1, <1>3, <1>4

\* A run whose first statement fails is over.
LEMMA RunStuck ==
  ASSUME NEW Q, NEW stmts \in Seq(Q), NEW d0, stmts # <<>>, ~Exec(d0, stmts[1]).ok
  PROVE  Run(d0, stmts) = Exec(d0, stmts[1])
<1> DEFINE n == Len(stmts)
           e == Exec(d0, stmts[1])
<1>0. n \in Nat /\ 1 \in 1..n
  OBVIOUS
<1>1. PICK t : Trace(d0, stmts, t) /\ Run(d0, stmts) = t[n]
  BY <1>0, RunTrace
<1>2. t[0].db = d0 /\ t[0].ok
  BY <1>1 DEF Trace, Result
<1> DEFINE H == {k \in 0..n : k # 0 => t[k] = e}
<1>3. 0 \in H
  BY <1>0
<1>4. ASSUME NEW k \in 1..n, k - 1 \in H PROVE k \in H
  <2>1. t[k] = IF t[k - 1].ok THEN Exec(t[k - 1].db, stmts[k]) ELSE t[k - 1]
    BY <1>1 DEF Trace
  <2>2. CASE k = 1
    BY <1>2, <2>1, <2>2
  <2>3. CASE k # 1
    <3>1. t[k - 1] = e
      BY <1>4, <2>3
    <3> QED BY <2>1, <3>1
  <2> QED BY <2>2, <2>3
<1>5. n \in H
  <2> HIDE DEF H, n
  <2>1. \A k \in 0..n : k \in H
    BY <1>0, <1>3, <1>4, UpTo
  <2> QED BY <1>0, <2>1
<1> QED BY <1>0, <1>1, <1>5

\* A run that succeeds executes every statement with success.
LEMMA RunAll ==
  ASSUME NEW Q, NEW stmts \in Seq(Q), NEW d0, Run(d0, stmts).ok
  PROVE  \E t : /\ t[0] = d0 /\ t[Len(stmts)] = Run(d0, stmts).db
                /\ \A k \in 1..Len(stmts) : /\ Exec(t[k - 1], stmts[k]).ok
                                            /\ t[k] = Exec(t[k - 1], stmts[k]).db
<1> DEFINE n == Len(stmts)
<1>0. n \in Nat
  OBVIOUS
<1>1. PICK t : Trace(d0, stmts, t) /\ Run(d0, stmts) = t[n]
  BY <1>0, RunTrace
<1>2. t[0].db = d0
  BY <1>1 DEF Trace, Result
<1>3. \A k \in 1..n : t[k] = IF t[k - 1].ok THEN Exec(t[k - 1].db, stmts[k]) ELSE t[k - 1]
  BY <1>1 DEF Trace
<1>4. ASSUME NEW m \in 0..n, ~t[m].ok PROVE FALSE
  <2> DEFINE H == {k \in 0..n : k >= m => t[k] = t[m]}
  <2>1. 0 \in H
    BY <1>0
  <2>2. ASSUME NEW k \in 1..n, k - 1 \in H PROVE k \in H
    <3>1. CASE k - 1 >= m
      <4>1. t[k - 1] = t[m]
        BY <2>2, <3>1
      <4>2. t[k] = t[m]
        BY <1>3, <1>4, <4>1
      <4> QED BY <4>2
    <3>2. CASE k = m
      BY <3>2
    <3>3. CASE k < m
      BY <3>3
    <3> QED BY <3>1, <3>2, <3>3
  <2>3. n \in H
    <3> HIDE DEF H, n
    <3>1. \A k \in 0..n : k \in H
      BY <1>0, <2>1, <2>2, UpTo
    <3> QED BY <1>0, <3>1
  <2>4. t[n] = t[m]
    BY <1>0, <2>3
  <2> QED BY <1>1, <1>4, <2>4
<1> DEFINE u == [k \in 0..n |-> t[k].db]
<1>5. u[0] = d0 /\ u[n] = Run(d0, stmts).db
  BY <1>0, <1>1, <1>2
<1>6. ASSUME NEW k \in 1..n
      PROVE  Exec(u[k - 1], stmts[k]).ok /\ u[k] = Exec(u[k - 1], stmts[k]).db
  <2>1. k \in 0..n /\ k - 1 \in 0..n
    OBVIOUS
  <2>2. t[k].ok /\ t[k - 1].ok
    BY <1>4, <2>1
  <2>3. t[k] = Exec(t[k - 1].db, stmts[k])
    BY <1>3, <2>2
  <2> QED BY <2>1, <2>2, <2>3
<1> HIDE DEF u
<1> QED BY <1>5, <1>6

\* Runs of one statement and of none.
LEMMA OneStatement ==
  ASSUME NEW s, NEW d
  PROVE  Run(d, <<s>>) = Exec(d, s)
<1>1. Len(<<s>>) = 1 /\ <<s>>[1] = s
  OBVIOUS
<1>2. PICK t : Trace(d, <<s>>, t) /\ Run(d, <<s>>) = t[1]
  BY <1>1, RunTrace
<1>3. t[0].db = d /\ t[0].ok /\ t[1] = Exec(d, s)
  BY <1>1, <1>2 DEF Trace, Result
<1> QED BY <1>2, <1>3

LEMMA NoStatement ==
  ASSUME NEW d PROVE Run(d, <<>>) = Result(d, TRUE)
<1>1. PICK t : Trace(d, <<>>, t) /\ Run(d, <<>>) = t[0]
  BY RunTrace
<1> QED BY <1>1 DEF Trace

---------------------------------------------------------------------------
(* What a statement does *)

\* The row is there; the others with its id are not; the rows gone are not, and
\* the rows that refer to one of them went with it.
Others(d, t, row) == {x \in d[t] : x.id # row.id}
Having(d, t, column, value) == {x \in d[t] : x[column] = value}
Cascaded(d, t, u, gone) ==
  UNION {Referring(d, f, gone) : f \in {g \in References : g.to = t /\ g.from = u}}
Left(d, t, gone) ==
  [u \in Table |-> IF u = t THEN d[u] \ gone ELSE d[u] \ Cascaded(d, t, u, gone)]
Unreferred(d, t, gone) ==
  \A f \in References : f.to = t /\ ~f.cascade => Referring(d, f, gone) = {}

Added(d, e, t, row) ==
  \/ ~e.ok /\ e.db = d
  \/ /\ e.ok /\ e.db = [d EXCEPT ![t] = @ \cup {row}]
     /\ ~Clashes(t, d[t], row) /\ ~Dangles(d, t, row)
Replaced(d, e, t, row) ==
  \/ e.db = d /\ (e.ok => \A x \in d[t] : x.id # row.id)
  \/ /\ e.ok /\ e.db = [d EXCEPT ![t] = Others(d, t, row) \cup {row}]
     /\ \E x \in d[t] : x.id = row.id
     /\ ~Clashes(t, Others(d, t, row), row) /\ ~Dangles(d, t, row)
Taken(d, e, t, gone) ==
  \/ e.db = d /\ ~(e.ok /\ gone # {})
  \/ e.ok /\ e.db = Left(d, t, gone) /\ Unreferred(d, t, gone)

\* The three statements: what rusqlite makes of each.
LEMMA ExecInserts ==
  ASSUME NEW d, NEW t, NEW row
  PROVE  Added(d, Exec(d, Inserts(t, row)), t, row)
<1>1. Exec(d, Inserts(t, row)) = Insert(d, t, row)
  BY DEF Exec, Inserts
<1>2. CASE Clashes(t, d[t], row) \/ Dangles(d, t, row)
  BY <1>1, <1>2 DEF Insert, Result, Added
<1>3. CASE ~(Clashes(t, d[t], row) \/ Dangles(d, t, row))
  <2> DEFINE after == [d EXCEPT ![t] = @ \cup {row}]
  <2>1. Insert(d, t, row) = Result(after, TRUE)
    BY <1>3 DEF Insert
  <2>2. Exec(d, Inserts(t, row)).ok /\ Exec(d, Inserts(t, row)).db = after
    <3> HIDE DEF after
    <3> QED BY <1>1, <2>1 DEF Result
  <2> QED BY <1>3, <2>2 DEF Added
<1> QED BY <1>2, <1>3

LEMMA ExecUpdates ==
  ASSUME NEW d, NEW t, NEW row, NEW needed
  PROVE  Replaced(d, Exec(d, Updates(t, row, needed)), t, row)
<1> DEFINE s == Updates(t, row, needed)
           others == {x \in d[t] : x.id # row.id}
<1>1. /\ s.do = "update" /\ s.table = t /\ s.row = row
      /\ Matching(d, s) = {x \in d[t] : x.id = row.id}
  BY DEF Updates, Matching
<1>2. CASE Matching(d, s) = {}
  <2>1. Exec(d, s) = Result(d, ~s.needed)
    BY <1>1, <1>2 DEF Exec
  <2>2. \A x \in d[t] : x.id # row.id
    BY <1>1, <1>2
  <2> QED BY <2>1, <2>2 DEF Result, Replaced
<1>3. CASE Matching(d, s) # {}
  <2>1. Exec(d, s) = Update(d, t, row)
    BY <1>1, <1>3 DEF Exec
  <2>2. CASE Clashes(t, others, row) \/ Dangles(d, t, row)
    BY <2>1, <2>2 DEF Update, Result, Replaced
  <2>3. CASE ~(Clashes(t, others, row) \/ Dangles(d, t, row))
    <3> DEFINE after == [d EXCEPT ![t] = others \cup {row}]
    <3>1. Update(d, t, row) = Result(after, TRUE)
      BY <2>3 DEF Update
    <3>2. Exec(d, s).ok /\ Exec(d, s).db = after
      <4> HIDE DEF after, s
      <4> QED BY <2>1, <3>1 DEF Result
    <3>3. \E x \in d[t] : x.id = row.id
      BY <1>1, <1>3
    <3> QED BY <2>3, <3>2, <3>3 DEF Replaced, Others
  <2> QED BY <2>2, <2>3
<1> QED BY <1>2, <1>3

LEMMA ExecDeletes ==
  ASSUME NEW d, NEW t, NEW c, NEW v, NEW needed
  PROVE  Taken(d, Exec(d, Deletes(t, c, v, needed)), t, Having(d, t, c, v))
<1> DEFINE s == Deletes(t, c, v, needed)
           gone == Having(d, t, c, v)
<1>1. /\ s.do = "delete" /\ s.table = t /\ Matching(d, s) = gone
  BY DEF Deletes, Matching, Having
<1>2. CASE gone = {}
  BY <1>1, <1>2 DEF Exec, Result, Taken
<1>3. CASE gone # {}
  <2>1. Exec(d, s) = Delete(d, t, gone)
    BY <1>1, <1>3 DEF Exec
  <2>2. CASE \E f \in References : f.to = t /\ ~f.cascade /\ Referring(d, f, gone) # {}
    <3>1. Delete(d, t, gone) = Result(d, FALSE)
      BY <2>2 DEF Delete
    <3> QED BY <2>1, <3>1 DEF Result, Taken
  <2>3. CASE ~\E f \in References : f.to = t /\ ~f.cascade /\ Referring(d, f, gone) # {}
    <3>1. Delete(d, t, gone) = Result(Left(d, t, gone), TRUE)
      BY <2>3 DEF Delete, Cascaded, Left
    <3>2. Exec(d, s).ok /\ Exec(d, s).db = Left(d, t, gone)
      <4> HIDE DEF s, gone
      <4> QED BY <2>1, <3>1 DEF Result
    <3>3. Unreferred(d, t, gone)
      BY <2>3 DEF Unreferred
    <3> QED BY <3>2, <3>3 DEF Taken
  <2> QED BY <2>2, <2>3
<1> QED BY <1>2, <1>3

\* The tables.
LEMMA TablesAre ==
  /\ "agents" \in Table /\ "personas" \in Table /\ "servers" \in Table /\ "mounts" \in Table
  /\ "sessions" \in Table /\ "repos" \in Table
BY DEF Table

\* What insertions and updates do to each table.
LEMMA AddedIs ==
  ASSUME NEW d, DOMAIN d = Table, NEW t \in Table, NEW row, NEW e, Added(d, e, t, row)
  PROVE  /\ DOMAIN e.db = Table /\ \A u \in Table \ {t} : e.db[u] = d[u]
         /\ e.db[t] = d[t] \/ e.db[t] = d[t] \cup {row}
         /\ e.ok => e.db[t] = d[t] \cup {row}
<1>1. CASE e.db = d /\ ~e.ok
  BY <1>1
<1>2. CASE e.db = [d EXCEPT ![t] = @ \cup {row}]
  <2> DEFINE x == e.db
  <2>1. x = [d EXCEPT ![t] = @ \cup {row}]
    BY <1>2
  <2> HIDE DEF x
  <2>2. DOMAIN x = Table /\ x[t] = d[t] \cup {row} /\ \A u \in Table \ {t} : x[u] = d[u]
    BY <2>1
  <2> QED BY <2>2 DEF x
<1> QED BY <1>1, <1>2 DEF Added

LEMMA ReplacedIs ==
  ASSUME NEW d, DOMAIN d = Table, NEW t \in Table, NEW row, NEW e, Replaced(d, e, t, row)
  PROVE  /\ DOMAIN e.db = Table /\ \A u \in Table \ {t} : e.db[u] = d[u]
         /\ \/ e.db[t] = d[t] /\ (e.ok => \A x \in d[t] : x.id # row.id)
            \/ /\ e.ok /\ e.db[t] = Others(d, t, row) \cup {row}
               /\ \E x \in d[t] : x.id = row.id
<1>1. CASE e.db = d /\ (e.ok => \A x \in d[t] : x.id # row.id)
  BY <1>1
<1>2. CASE /\ e.db = [d EXCEPT ![t] = Others(d, t, row) \cup {row}]
           /\ e.ok /\ \E x \in d[t] : x.id = row.id
  <2> DEFINE x == e.db
  <2>1. x = [d EXCEPT ![t] = Others(d, t, row) \cup {row}]
    BY <1>2
  <2> HIDE DEF x
  <2>2. /\ DOMAIN x = Table /\ x[t] = Others(d, t, row) \cup {row}
        /\ \A u \in Table \ {t} : x[u] = d[u]
    BY <2>1
  <2> QED BY <1>2, <2>2 DEF x
<1> QED BY <1>1, <1>2 DEF Replaced

\* Rows go from the table itself and from those whose references cascade.
LEMMA TakenIs ==
  ASSUME NEW d, DOMAIN d = Table, NEW t \in Table, NEW gone, NEW e, Taken(d, e, t, gone)
  PROVE  /\ DOMAIN e.db = Table
         /\ \/ e.db = d /\ ~(e.ok /\ gone # {})
            \/ /\ e.ok /\ e.db[t] = d[t] \ gone /\ Unreferred(d, t, gone)
               /\ \A u \in Table \ {t} : e.db[u] = d[u] \ Cascaded(d, t, u, gone)
<1>1. CASE e.db = d /\ ~(e.ok /\ gone # {})
  BY <1>1
<1>2. CASE e.ok /\ e.db = Left(d, t, gone) /\ Unreferred(d, t, gone)
  <2> DEFINE x == e.db
  <2>1. x = Left(d, t, gone)
    BY <1>2
  <2> HIDE DEF x
  <2>2. /\ DOMAIN x = Table /\ x[t] = d[t] \ gone
        /\ \A u \in Table \ {t} : x[u] = d[u] \ Cascaded(d, t, u, gone)
    BY <2>1 DEF Left
  <2> QED BY <1>2, <2>2 DEF x
<1> QED BY <1>1, <1>2 DEF Taken

---------------------------------------------------------------------------
(* Rows in order *)

\* f lists S in the order of column c, as an ORDER BY does.
Sorts(f, S, c) ==
  /\ \A x \in S : \E i \in DOMAIN f : f[i] = x
  /\ \A i, j \in DOMAIN f : i < j => f[i][c] <= f[j][c]

\* A finite set can be listed in the order of a number in its members.
LEMMA SortingExists ==
  ASSUME NEW S, IsFiniteSet(S), NEW c, \A x \in S : x[c] \in Nat
  PROVE  \E f \in [1..Cardinality(S) -> S] : Sorts(f, S, c)
<1> DEFINE n == Cardinality(S)
           Sortable(m, R) == \E f \in [1..m -> R] : Sorts(f, R, c)
           H == {m \in 0..n : \A R \in SUBSET S : Cardinality(R) = m => Sortable(m, R)}
<1>0. n \in Nat
  BY FS_CardinalityType
<1>1. 0 \in H
  <2> SUFFICES ASSUME NEW R \in SUBSET S, Cardinality(R) = 0 PROVE Sortable(0, R)
    BY <1>0
  <2>1. R = {}
    BY FS_Subset, FS_EmptySet
  <2> DEFINE f == [i \in 1..0 |-> i]
  <2>2. f \in [1..0 -> R] /\ Sorts(f, R, c)
    BY <2>1 DEF Sorts
  <2> HIDE DEF f
  <2> QED BY <2>2
<1>2. ASSUME NEW m \in 1..n, m - 1 \in H PROVE m \in H
  <2> SUFFICES ASSUME NEW R \in SUBSET S, Cardinality(R) = m PROVE Sortable(m, R)
    BY <1>0
  <2>1. IsFiniteSet(R) /\ R # {}
    BY <1>0, FS_Subset, FS_EmptySet
  <2> DEFINE V == {x[c] : x \in R}
  <2>2. V \subseteq Nat /\ V # {}
    BY <2>1
  <2>3. PICK v \in V : \A w \in V : v <= w
    <3> HIDE DEF V
    <3> QED BY <2>2, LeastNumber
  <2>4. PICK x \in R : x[c] = v
    OBVIOUS
  <2>5. \A y \in R : x[c] <= y[c]
    BY <2>3, <2>4
  <2> DEFINE T == R \ {x}
  <2>6. T \in SUBSET S /\ Cardinality(T) = m - 1
    BY <2>1, FS_RemoveElement
  <2>7. PICK g \in [1..(m - 1) -> T] : Sorts(g, T, c)
    <3>1. Sortable(m - 1, T)
      <4> HIDE DEF T, Sortable
      <4> QED BY <1>2, <2>6
    <3> QED BY <3>1
  <2> DEFINE f == [i \in 1..m |-> IF i = 1 THEN x ELSE g[i - 1]]
  <2>8. \A i \in 1..m : i # 1 => i - 1 \in 1..(m - 1) /\ f[i] = g[i - 1] /\ g[i - 1] \in T
    OBVIOUS
  <2>9. f \in [1..m -> R] /\ f[1] = x
    BY <2>8
  <2>10. \A y \in R : \E i \in 1..m : f[i] = y
    <3> SUFFICES ASSUME NEW y \in R, y # x PROVE \E i \in 1..m : f[i] = y
      BY <2>9
    <3>1. PICK i \in 1..(m - 1) : g[i] = y
      BY <2>7 DEF Sorts
    <3>2. i + 1 \in 1..m /\ f[i + 1] = g[i]
      OBVIOUS
    <3> QED BY <3>1, <3>2
  <2>11. ASSUME NEW i \in 1..m, NEW j \in 1..m, i < j PROVE f[i][c] <= f[j][c]
    <3>1. f[j] \in R
      BY <2>9
    <3>2. CASE i = 1
      BY <2>5, <2>9, <3>1, <3>2
    <3>3. CASE i # 1
      <4>1. g[i - 1][c] <= g[j - 1][c]
        <5>1. i - 1 \in 1..(m - 1) /\ j - 1 \in 1..(m - 1) /\ i - 1 < j - 1
          BY <2>11, <3>3
        <5> QED BY <2>7, <5>1 DEF Sorts
      <4>2. f[i] = g[i - 1] /\ f[j] = g[j - 1]
        BY <2>11, <3>3
      <4> QED BY <4>1, <4>2
    <3> QED BY <3>2, <3>3
  <2>12. Sorts(f, R, c)
    BY <2>9, <2>10, <2>11 DEF Sorts
  <2> HIDE DEF f
  <2> QED BY <2>9, <2>12
<1>3. n \in H
  <2> HIDE DEF H, n
  <2>1. \A k \in 0..n : k \in H
    BY <1>0, <1>1, <1>2, UpTo
  <2> QED BY <1>0, <2>1
<1>4. Sortable(n, S)
  <2> HIDE DEF Sortable
  <2> QED BY <1>3
<1> QED BY <1>4

\* A loop over rows in the order of a column, which inserts every row once.
LEMMA InOrderIs ==
  ASSUME NEW S, IsFiniteSet(S), NEW c, \A x \in S : x[c] \in Nat
  PROVE  InOrder(S, c) \in [1..Cardinality(S) -> S] /\ Sorts(InOrder(S, c), S, c)
<1> DEFINE n == Cardinality(S)
           f == InOrder(S, c)
<1>1. PICK g \in [1..n -> S] : Sorts(g, S, c)
  BY SortingExists
<1>2. f = CHOOSE h \in [1..n -> S] : Sorts(h, S, c)
  BY DEF InOrder, Sorts
<1> QED BY <1>1, <1>2

LEMMA InsertAllIs ==
  ASSUME NEW t, NEW S, IsFiniteSet(S), NEW c, \A x \in S : x[c] \in Nat
  PROVE  LET B == InsertAll(t, S, c)
         IN  /\ B \in Seq({Inserts(t, x) : x \in S}) /\ Len(B) = Cardinality(S)
             /\ \A x \in S : \E i \in 1..Len(B) : B[i] = Inserts(t, x)
<1> DEFINE n == Cardinality(S)
           f == InOrder(S, c)
           B == InsertAll(t, S, c)
           Q == {Inserts(t, x) : x \in S}
<1>0. n \in Nat
  BY FS_CardinalityType
<1>1. f \in [1..n -> S] /\ Sorts(f, S, c)
  BY InOrderIs
<1>2. B = [i \in 1..n |-> Inserts(t, f[i])]
  BY DEF InsertAll
<1> HIDE DEF f, n
<1>3. B \in [1..n -> Q]
  BY <1>1, <1>2
<1>4. \A x \in S : \E i \in 1..n : B[i] = Inserts(t, x)
  BY <1>1, <1>2 DEF Sorts
<1> HIDE DEF B, Q
<1>5. B \in Seq(Q) /\ Len(B) = n
  BY <1>0, <1>3
<1> QED BY <1>4, <1>5 DEF n, B, Q

---------------------------------------------------------------------------
(* The statements of the closures *)

\* The insertions of the rows R.
Ins(t, R) == {Inserts(t, row) : row \in R}

\* Statements of Q were executed, in some order and however often.
Executes(Q) == \E B \in Seq(Q) : db' = Run(db, B).db

\* What each closure inserts, updates and deletes.
SeedRows ==
  {[id |-> fresh + i, name |-> Builtins[i], builtin |-> TRUE] :
     i \in {j \in DOMAIN Builtins : ~IsBuiltin(Builtins[j])}}
CreateRow(r) ==
  [id |-> fresh, name |-> req[r].form.name, agent |-> req[r].agent, ws |-> req[r].form.ws]
ServerRows(p, names) ==
  {[id |-> fresh + i, persona |-> p, name |-> names[i]] : i \in 1..Len(names)}
MountRows(p, paths) ==
  {[persona |-> p, path |-> Canonical[paths[i]], position |-> i - 1] : i \in 1..Len(paths)}
CreateStmts(r) ==
  Ins("personas", {CreateRow(r)}) \cup Ins("servers", ServerRows(fresh, req[r].form.servers))
  \cup Ins("mounts", MountRows(fresh, req[r].form.mounts))
UpdateStmts(r) ==
  {Updates("personas", Updated(r), FALSE)}
  \cup {Deletes("mounts", "persona", Updated(r).id, FALSE)}
  \cup {Deletes("servers", "id", x.id, TRUE) : x \in Rows("servers", "persona", Updated(r).id)}
  \cup (IF req[r].form.servers = Keep THEN {}
        ELSE Ins("servers", ServerRows(Updated(r).id, req[r].form.servers)))
  \cup (IF req[r].form.mounts = Keep THEN {}
        ELSE Ins("mounts", MountRows(Updated(r).id, req[r].form.mounts)))
DeleteStmts(r) ==
  {Deletes("sessions", "persona", req[r].persona, FALSE),
   Deletes("personas", "id", req[r].persona, FALSE)}
NewAgents(r) == {a \in req[r].payload.agents : ~a.builtin}
OverwriteStmts(p) ==
  {Deletes("sessions", "persona", Existing(p).id, FALSE),
   Deletes("personas", "id", Existing(p).id, FALSE)}
CopyRow(p, id, name) == [id |-> id, name |-> name, agent |-> p.agent, ws |-> p.ws]
CopiedMounts(r, p, id) ==
  {[m EXCEPT !.persona = id] : m \in {x \in req[r].payload.mounts : x.persona = p.id}}
CopyStmts(r, p, id, name) ==
  Ins("personas", {CopyRow(p, id, name)})
  \cup Ins("servers", {s \in req[r].payload.servers : s.persona = p.id})
  \cup Ins("mounts", CopiedMounts(r, p, id))
RepoRows(r) ==
  {[persona |-> mx[1][2], ws |-> mx[2].ws] :
     mx \in {x \in req[r].map \X req[r].payload.repos : x[2].persona = x[1][1]}}

\* Sequences of statements.
LEMMA Concatenation ==
  ASSUME NEW P, NEW Q, NEW s \in Seq(P), NEW t \in Seq(Q)
  PROVE  /\ s \o t \in Seq(P \cup Q) /\ Len(s \o t) = Len(s) + Len(t)
         /\ \A i \in 1..Len(s) : (s \o t)[i] = s[i]
         /\ \A i \in 1..Len(t) : (s \o t)[Len(s) + i] = t[i]
<1>1. s \in Seq(P \cup Q) /\ t \in Seq(P \cup Q)
  OBVIOUS
<1> QED BY <1>1

LEMMA Single == ASSUME NEW s PROVE <<s>> \in Seq({s}) /\ Len(<<s>>) = 1 /\ <<s>>[1] = s
OBVIOUS

LEMMA Wider == ASSUME NEW P, NEW Q, P \subseteq Q, NEW s \in Seq(P) PROVE s \in Seq(Q)
OBVIOUS

LEMMA Prefix ==
  ASSUME NEW Q, NEW s \in Seq(Q), NEW k \in 1..Len(s)
  PROVE  SubSeq(s, 1, k) \in Seq(Q)
OBVIOUS

\* The loops over the servers and the mounts that a form gives.
LEMMA ServersInserted ==
  ASSUME NEW p, NEW S, NEW names \in Seq(S)
  PROVE  /\ InsertServers(p, names) \in Seq(Ins("servers", ServerRows(p, names)))
         /\ Len(InsertServers(p, names)) = Len(names)
<1> DEFINE n == Len(names)
           B == [i \in 1..n |->
                    Inserts("servers", [id |-> fresh + i, persona |-> p, name |-> names[i]])]
<1>1. n \in Nat
  OBVIOUS
<1>2. B \in [1..n -> Ins("servers", ServerRows(p, names))]
  BY DEF Ins, ServerRows
<1>3. InsertServers(p, names) = B
  BY DEF InsertServers
<1> HIDE DEF B, n
<1>4. B \in Seq(Ins("servers", ServerRows(p, names))) /\ Len(B) = n
  BY <1>1, <1>2
<1> QED BY <1>3, <1>4 DEF n

LEMMA MountsInserted ==
  ASSUME NEW p, NEW S, NEW paths \in Seq(S)
  PROVE  /\ InsertMounts(p, paths) \in Seq(Ins("mounts", MountRows(p, paths)))
         /\ Len(InsertMounts(p, paths)) = Len(paths)
<1> DEFINE n == Len(paths)
           B == [i \in 1..n |->
                    Inserts("mounts", [persona |-> p, path |-> Canonical[paths[i]], position |-> i - 1])]
<1>1. n \in Nat
  OBVIOUS
<1>2. B \in [1..n -> Ins("mounts", MountRows(p, paths))]
  BY DEF Ins, MountRows
<1>3. InsertMounts(p, paths) = B
  BY DEF InsertMounts
<1> HIDE DEF B, n
<1>4. B \in Seq(Ins("mounts", MountRows(p, paths))) /\ Len(B) = n
  BY <1>1, <1>2
<1> QED BY <1>3, <1>4 DEF n

---------------------------------------------------------------------------
(* Types *)

\* Where a request may be between two of its closures.
Stage == {"idle", "create", "read", "update", "delete", "new_agent", "agent", "delete_agent",
         "import_agents", "import_personas", "import_repos"}
Importing == {"import_agents", "import_personas", "import_repos"}
WsOf(q) == IF q.form.ws = Keep THEN q.saw.ws ELSE q.form.ws

\* What a request under way carries.
Carries(q, next) ==
  /\ q.at \in Stage
  /\ q.at = "create" => q.form \in CreateForms /\ MountsAllowed(q.form.mounts, q.form.ws)
  /\ q.at = "read" => q.form \in UpdateForms
  /\ q.at = "update" =>
       /\ q.form \in UpdateForms
       /\ q.saw.id \in Nat \ {0} /\ q.saw.id < next
       /\ q.saw.name \in PersonaName /\ q.saw.ws \in Place
       /\ q.form.mounts # Keep => MountsAllowed(q.form.mounts, WsOf(q))
  /\ q.at = "agent" => q.agent \in Nat \ {0} /\ q.agent < next
  /\ q.at \in Importing => WellFormed(q.payload, Exported, next)
  /\ q.at \in {"import_agents", "import_personas"} => q.form \in ImportForms
  /\ q.at = "import_personas" =>
       /\ DOMAIN q = {"at", "payload", "form", "resolved", "todo", "map"}
       /\ q.todo \subseteq q.payload.personas
  /\ q.at \in {"import_personas", "import_repos"} =>
       IsFiniteSet(q.map) /\ \A m \in q.map : m[2] \in Nat

\* The type invariant, with what a request carries from an earlier closure. A mount
\* allowed for the workspace the update saw is not known to be allowed for a later one.
Types ==
  /\ menu \in Menu /\ release \in DOMAIN Releases
  /\ phase \in {"down", "migrating", "seeding", "up", "failed"}
  /\ schema \in [version : Nat, ahead : Nat, mine : Nat]
  /\ schema.version <= Len(Statements) /\ schema.mine <= schema.ahead
  /\ fresh \in Nat \ {0} /\ exits \in Nat
  /\ WellFormed(db, Table, fresh)
  /\ file # NoFile => WellFormed(file, Exported, fresh)
  /\ DOMAIN req = Slot /\ \A r \in Slot : Carries(req[r], fresh)
  /\ phase # "up" => \A r \in Slot : req[r] = Idle
  /\ lock \in Slot \cup {NoRequest}
  /\ lock # NoRequest => req[lock].at = "import_personas"
  /\ marks \subseteq {"torn_migration", "name_taken", "written_back", "workspace_alone", "imported"}

\* Each closure either refuses and executes nothing, or is made of the statements above.
LEMMA CreateBlockIs ==
  ASSUME Types, NEW r \in Slot, req[r].at = "create"
  PROVE  LET B == CreateBlock(r)
             form == req[r].form
         IN  \/ B = <<>>
             \/ /\ B \in Seq(CreateStmts(r))
                /\ Len(B) = 1 + Len(form.servers) + Len(form.mounts)
                /\ ~NameTaken("personas", form.name, 0) /\ ~WorkspaceTaken(form.ws, 0)
<1> DEFINE form == req[r].form
           s == InsertServers(fresh, form.servers)
           m == InsertMounts(fresh, form.mounts)
           x == Inserts("personas", CreateRow(r))
<1>1. form \in CreateForms
  BY DEF Types, Carries
<1>2. form.servers \in Seq(STRING) /\ form.mounts \in Seq(Place)
  BY <1>1, FormsAssumption
<1>3. /\ s \in Seq(Ins("servers", ServerRows(fresh, form.servers))) /\ Len(s) = Len(form.servers)
      /\ m \in Seq(Ins("mounts", MountRows(fresh, form.mounts))) /\ Len(m) = Len(form.mounts)
  BY <1>2, ServersInserted, MountsInserted
<1>4. CASE NameTaken("personas", form.name, 0) \/ WorkspaceTaken(form.ws, 0)
           \/ ~HasRow("agents", req[r].agent)
  BY <1>4 DEF CreateBlock
<1>5. CASE ~(NameTaken("personas", form.name, 0) \/ WorkspaceTaken(form.ws, 0)
             \/ ~HasRow("agents", req[r].agent))
  <2>1. CreateBlock(r) = (<<x>> \o s) \o m
    BY <1>5 DEF CreateBlock, CreateRow
  <2> HIDE DEF s, m, x
  <2>2. <<x>> \in Seq({x}) /\ Len(<<x>>) = 1
    BY Single
  <2>3. /\ <<x>> \o s \in Seq({x} \cup Ins("servers", ServerRows(fresh, form.servers)))
        /\ Len(<<x>> \o s) = 1 + Len(form.servers)
    BY <1>3, <2>2, Concatenation
  <2>4. /\ CreateBlock(r) \in Seq(({x} \cup Ins("servers", ServerRows(fresh, form.servers)))
                                  \cup Ins("mounts", MountRows(fresh, form.mounts)))
        /\ Len(CreateBlock(r)) = 1 + Len(form.servers) + Len(form.mounts)
    <3> DEFINE u == <<x>> \o s
    <3>1. CreateBlock(r) = u \o m
      BY <2>1
    <3> HIDE DEF u
    <3>2. u \in Seq({x} \cup Ins("servers", ServerRows(fresh, form.servers)))
          /\ Len(u) = 1 + Len(form.servers)
      BY <2>3 DEF u
    <3> DEFINE P == {x} \cup Ins("servers", ServerRows(fresh, form.servers))
               M == Ins("mounts", MountRows(fresh, form.mounts))
    <3>3. u \in Seq(P) /\ m \in Seq(M)
      BY <1>3, <3>2
    <3> HIDE DEF P, M
    <3>4. u \o m \in Seq(P \cup M) /\ Len(u \o m) = Len(u) + Len(m)
      BY <3>3, Concatenation
    <3> QED BY <1>3, <3>1, <3>2, <3>4 DEF P, M
  <2>5. {x} = Ins("personas", {CreateRow(r)})
    BY DEF Ins, x
  <2> QED BY <1>5, <2>4, <2>5 DEF CreateStmts
<1> QED BY <1>4, <1>5

\* The loop over the servers there are.
LEMMA ServersDeleted ==
  ASSUME Types, NEW p
  PROVE  DeleteServers(p) \in Seq({Deletes("servers", "id", x.id, TRUE) :
                                    x \in Rows("servers", "persona", p)})
<1> DEFINE S == Rows("servers", "persona", p)
           n == Cardinality(S)
           f == InOrder(S, "id")
           Q == {Deletes("servers", "id", x.id, TRUE) : x \in S}
           B == [i \in 1..n |-> Deletes("servers", "id", f[i].id, TRUE)]
<1>1. IsFiniteSet(S) /\ \A x \in S : x["id"] \in Nat
  <2>1. "servers" \in Table /\ WellFormed(db, Table, fresh)
    BY DEF Types, Table
  <2>2. IsFiniteSet(db.servers) /\ \A x \in db.servers : x.id \in Nat
    BY <2>1 DEF WellFormed
  <2> QED BY <2>2, FS_Subset DEF Rows
<1>2. f \in [1..n -> S] /\ n \in Nat
  <2> HIDE DEF S
  <2> QED BY <1>1, InOrderIs, FS_CardinalityType
<1>3. DeleteServers(p) = B
  BY <1>2 DEF DeleteServers
<1> HIDE DEF f, n, S
<1>4. B \in [1..n -> Q]
  BY <1>2
<1> HIDE DEF B, Q
<1>5. B \in Seq(Q)
  BY <1>2, <1>4
<1> QED BY <1>3, <1>5 DEF Q, S

LEMMA UpdateBlockIs ==
  ASSUME Types, NEW r \in Slot, req[r].at = "update"
  PROVE  LET B == UpdateBlock(r)
             form == req[r].form
         IN  \/ UpdateRefused(r) /\ B = <<>>
             \/ /\ ~UpdateRefused(r) /\ B \in Seq(UpdateStmts(r)) /\ Len(B) >= 1
                /\ B[1] = Updates("personas", Updated(r), FALSE)
                /\ form.servers # Keep =>
                     form.servers \in Seq(STRING) /\ Len(B) >= 1 + Len(form.servers)
                /\ form.mounts # Keep =>
                     /\ form.mounts \in Seq(Place)
                     /\ \E m \in 2..Len(B) :
                          /\ B[m] = Deletes("mounts", "persona", Updated(r).id, FALSE)
                          /\ \A k \in (m + 1)..Len(B) :
                               B[k] \in Ins("mounts", MountRows(Updated(r).id, form.mounts))
<1> DEFINE form == req[r].form
           row == Updated(r)
           x == Updates("personas", row, FALSE)
           D == {Deletes("servers", "id", v.id, TRUE) : v \in Rows("servers", "persona", row.id)}
           y == DeleteServers(row.id)
           z == Deletes("mounts", "persona", row.id, FALSE)
           s == InsertServers(row.id, form.servers)
           m == InsertMounts(row.id, form.mounts)
           servers == IF form.servers = Keep THEN <<>> ELSE y \o s
           mounts == IF form.mounts = Keep THEN <<>> ELSE <<z>> \o m
           B == UpdateBlock(r)
<1>1. form \in UpdateForms
  BY DEF Types, Carries
<1>2. /\ form.servers # Keep => form.servers \in Seq(STRING)
      /\ form.mounts # Keep => form.mounts \in Seq(Place)
  BY <1>1, FormsAssumption
<1>3. CASE UpdateRefused(r)
  BY <1>3 DEF UpdateBlock
<1>4. CASE ~UpdateRefused(r)
  <2>1. B = (<<x>> \o servers) \o mounts
    BY <1>4 DEF UpdateBlock
  <2>2. /\ form.servers = Keep => servers \in Seq({}) /\ Len(servers) = 0
        /\ form.servers # Keep =>
             /\ servers \in Seq(D \cup Ins("servers", ServerRows(row.id, form.servers)))
             /\ Len(servers) >= Len(form.servers)
    <3>1. CASE form.servers = Keep
      BY <3>1
    <3>2. CASE form.servers # Keep
      <4>1. /\ s \in Seq(Ins("servers", ServerRows(row.id, form.servers)))
            /\ Len(s) = Len(form.servers)
        BY <1>2, <3>2, ServersInserted
      <4>2. servers = y \o s
        BY <3>2
      <4>3. y \in Seq(D)
        BY ServersDeleted
      <4> HIDE DEF s, y, servers, D
      <4>4. Len(y) \in Nat /\ Len(form.servers) \in Nat
        BY <1>2, <3>2, <4>3
      <4>5. /\ servers \in Seq(D \cup Ins("servers", ServerRows(row.id, form.servers)))
            /\ Len(servers) = Len(y) + Len(s)
        <5> DEFINE W == Ins("servers", ServerRows(row.id, form.servers))
        <5>1. s \in Seq(W)
          BY <4>1
        <5> HIDE DEF W
        <5>2. y \o s \in Seq(D \cup W) /\ Len(y \o s) = Len(y) + Len(s)
          BY <4>3, <5>1, Concatenation
        <5> QED BY <4>2, <5>2 DEF W
      <4> QED BY <3>2, <4>1, <4>4, <4>5
    <3> QED BY <3>1, <3>2
  <2>3. /\ form.mounts = Keep => mounts \in Seq({}) /\ Len(mounts) = 0
        /\ form.mounts # Keep =>
             /\ mounts \in Seq({z} \cup Ins("mounts", MountRows(row.id, form.mounts)))
             /\ Len(mounts) = 1 + Len(form.mounts) /\ mounts[1] = z
             /\ \A k \in 2..Len(mounts) :
                  mounts[k] \in Ins("mounts", MountRows(row.id, form.mounts))
    <3>1. CASE form.mounts = Keep
      BY <3>1
    <3>2. CASE form.mounts # Keep
      <4>1. /\ m \in Seq(Ins("mounts", MountRows(row.id, form.mounts)))
            /\ Len(m) = Len(form.mounts)
        BY <1>2, <3>2, MountsInserted
      <4>2. mounts = <<z>> \o m
        BY <3>2
      <4> HIDE DEF m, z, mounts
      <4>3. <<z>> \in Seq({z}) /\ Len(<<z>>) = 1 /\ <<z>>[1] = z
        BY Single
      <4>4. /\ mounts \in Seq({z} \cup Ins("mounts", MountRows(row.id, form.mounts)))
            /\ Len(mounts) = 1 + Len(m)
            /\ \A i \in 1..1 : mounts[i] = <<z>>[i]
            /\ \A i \in 1..Len(m) : mounts[1 + i] = m[i]
        BY <4>1, <4>2, <4>3, Concatenation
      <4>5. mounts[1] = z
        BY <4>3, <4>4
      <4>6. ASSUME NEW k \in 2..Len(mounts)
            PROVE  mounts[k] \in Ins("mounts", MountRows(row.id, form.mounts))
        <5>1. k - 1 \in 1..Len(m) /\ mounts[k] = m[k - 1]
          BY <4>1, <4>4
        <5> QED BY <4>1, <5>1
      <4> QED BY <3>2, <4>1, <4>4, <4>5, <4>6
    <3> QED BY <3>1, <3>2
  <2> HIDE DEF servers, mounts, x, y, z, s, m, D
  <2>4. <<x>> \in Seq({x}) /\ Len(<<x>>) = 1 /\ <<x>>[1] = x
    BY Single
  <2>5. servers \in Seq(UpdateStmts(r)) /\ mounts \in Seq(UpdateStmts(r)) /\ x \in UpdateStmts(r)
    <3>1. x \in UpdateStmts(r)
      BY DEF UpdateStmts, x
    <3>2. servers \in Seq(UpdateStmts(r))
      <4>1. CASE form.servers = Keep
        BY <2>2, <4>1
      <4>2. CASE form.servers # Keep
        <5>1. D \cup Ins("servers", ServerRows(row.id, form.servers)) \subseteq UpdateStmts(r)
          BY <4>2 DEF UpdateStmts, D
        <5> QED BY <2>2, <4>2, <5>1
      <4> QED BY <4>1, <4>2
    <3>3. mounts \in Seq(UpdateStmts(r))
      <4>1. CASE form.mounts = Keep
        BY <2>3, <4>1
      <4>2. CASE form.mounts # Keep
        <5>1. {z} \cup Ins("mounts", MountRows(row.id, form.mounts)) \subseteq UpdateStmts(r)
          BY <4>2 DEF UpdateStmts, z
        <5> QED BY <2>3, <4>2, <5>1
      <4> QED BY <4>1, <4>2
    <3> QED BY <3>1, <3>2, <3>3
  <2>6. /\ <<x>> \o servers \in Seq(UpdateStmts(r)) /\ Len(<<x>> \o servers) = 1 + Len(servers)
        /\ (<<x>> \o servers)[1] = x
    <3>1. <<x>> \in Seq(UpdateStmts(r))
      BY <2>4, <2>5
    <3> QED BY <2>4, <2>5, <3>1, Concatenation
  <2> DEFINE a == <<x>> \o servers
  <2>7. /\ B \in Seq(UpdateStmts(r)) /\ Len(B) = Len(a) + Len(mounts)
        /\ \A i \in 1..Len(a) : B[i] = a[i]
        /\ \A i \in 1..Len(mounts) : B[Len(a) + i] = mounts[i]
    <3> HIDE DEF a, B
    <3> QED BY <2>1, <2>5, <2>6, Concatenation DEF a
  <2>8. Len(servers) \in Nat /\ Len(mounts) \in Nat
    BY <2>5
  <2>9. Len(B) >= 1 /\ B[1] = x
    <3> HIDE DEF a, B
    <3> QED BY <2>6, <2>7, <2>8 DEF a
  <2>10. form.servers # Keep => Len(B) >= 1 + Len(form.servers)
    <3> HIDE DEF a, B
    <3> SUFFICES ASSUME form.servers # Keep PROVE Len(B) >= 1 + Len(form.servers)
      OBVIOUS
    <3>1. Len(form.servers) \in Nat
      BY <1>2
    <3> QED BY <2>2, <2>6, <2>7, <2>8, <3>1 DEF a
  <2>11. ASSUME form.mounts # Keep
         PROVE  \E k \in 2..Len(B) :
                  /\ B[k] = z
                  /\ \A i \in (k + 1)..Len(B) :
                       B[i] \in Ins("mounts", MountRows(row.id, form.mounts))
    <3> HIDE DEF a, B
    <3> DEFINE k == Len(a) + 1
    <3>1. Len(form.mounts) \in Nat
      BY <1>2, <2>11
    <3>2. Len(mounts) >= 1
      BY <2>3, <2>11, <3>1
    <3>3. k \in 2..Len(B) /\ B[k] = z
      BY <2>3, <2>6, <2>7, <2>8, <2>11, <3>2 DEF a
    <3>4. ASSUME NEW i \in (k + 1)..Len(B)
          PROVE  B[i] \in Ins("mounts", MountRows(row.id, form.mounts))
      <4>1. Len(a) \in Nat
        BY <2>6, <2>8 DEF a
      <4>2. i - Len(a) \in 2..Len(mounts) /\ i = Len(a) + (i - Len(a))
        BY <2>7, <2>8, <4>1
      <4>3. B[i] = mounts[i - Len(a)]
        <5>1. i - Len(a) \in 1..Len(mounts)
          BY <2>8, <4>1, <4>2
        <5> QED BY <2>7, <4>2, <5>1
      <4> QED BY <2>3, <2>11, <4>2, <4>3
    <3> HIDE DEF k
    <3> QED BY <3>3, <3>4
  <2> HIDE DEF B
  <2>12. B \in Seq(UpdateStmts(r))
    BY <2>7
  <2> QED BY <1>2, <1>4, <2>9, <2>10, <2>11, <2>12 DEF B, x, z
<1> QED BY <1>3, <1>4

\* What is read for each member of a finite set is finite.
LEMMA ImageFinite ==
  ASSUME NEW S, IsFiniteSet(S), NEW f, DOMAIN f = S
  PROVE  IsFiniteSet({f[x] : x \in S})
<1> DEFINE T == {f[x] : x \in S}
           g == [x \in S |-> f[x]]
<1>1. g \in Surjection(S, T)
  BY DEF Surjection
<1> QED BY <1>1, FS_Surjection

\* delete refuses while a session of the persona is active.
LEMMA DeleteBlockIs ==
  ASSUME NEW r \in Slot
  PROVE  LET B == DeleteBlock(r)
         IN  \/ B = <<>>
             \/ /\ B \in Seq(DeleteStmts(r)) /\ Len(B) = 2
                /\ \A s \in db.sessions : s.persona = req[r].persona => ~s.active
<1>1. CASE \E s \in Rows("sessions", "persona", req[r].persona) : s.active
  BY <1>1 DEF DeleteBlock
<1>2. CASE ~\E s \in Rows("sessions", "persona", req[r].persona) : s.active
  <2> DEFINE x == Deletes("sessions", "persona", req[r].persona, FALSE)
             y == Deletes("personas", "id", req[r].persona, FALSE)
  <2>1. DeleteBlock(r) = <<x, y>>
    BY <1>2 DEF DeleteBlock
  <2>2. DeleteStmts(r) = {x, y}
    BY DEF DeleteStmts
  <2> HIDE DEF x, y
  <2>3. DeleteBlock(r) \in Seq(DeleteStmts(r)) /\ Len(DeleteBlock(r)) = 2
    BY <2>1, <2>2
  <2> QED BY <1>2, <2>3 DEF Rows
<1> QED BY <1>1, <1>2

\* The first closure of an import inserts custom agent types only.
LEMMA AgentsBlockIs ==
  ASSUME Types, NEW r \in Slot, req[r].at = "import_agents"
  PROVE  AgentsBlock(r) \in Seq(Ins("agents", NewAgents(r)))
<1> DEFINE S == {a \in req[r].payload.agents : ~a.builtin /\ ~NameTaken("agents", a.name, 0)}
<1>1. WellFormed(req[r].payload, Exported, fresh)
  BY DEF Types, Carries, Importing
<1>2. "agents" \in Exported
  BY DEF Exported
<1>3. IsFiniteSet(req[r].payload.agents) /\ \A a \in req[r].payload.agents : a.id \in Nat
  BY <1>1, <1>2 DEF WellFormed
<1>4. IsFiniteSet(S) /\ \A x \in S : x["id"] \in Nat
  BY <1>3, FS_Subset
<1>5. AgentsBlock(r) = InsertAll("agents", S, "id")
  BY DEF AgentsBlock
<1>6. S \subseteq NewAgents(r)
  BY DEF NewAgents
<1> HIDE DEF S
<1>7. AgentsBlock(r) \in Seq({Inserts("agents", x) : x \in S})
  BY <1>4, <1>5, InsertAllIs
<1>8. {Inserts("agents", x) : x \in S} \subseteq Ins("agents", NewAgents(r))
  BY <1>6 DEF Ins
<1> QED BY <1>7, <1>8, Wider

\* The import goes through the personas of the file in order, one closure each.
LEMMA NextPersonaIs ==
  ASSUME Types, NEW r \in Slot, req[r].at = "import_personas", req[r].todo # {}
  PROVE  NextPersona(r) \in req[r].todo /\ NextPersona(r) \in req[r].payload.personas
<1> DEFINE place(p) == CHOOSE i \in DOMAIN PersonaNames : PersonaNames[i] = p.name
           V == {place(p) : p \in req[r].todo}
<1>1. req[r].todo \subseteq req[r].payload.personas /\ WellFormed(req[r].payload, Exported, fresh)
  BY DEF Types, Carries, Importing
<1>2. \A p \in req[r].todo : p.name \in PersonaName
  BY <1>1 DEF WellFormed
<1>3. DOMAIN PersonaNames \subseteq Nat
  BY FormsAssumption
<1>4. \A p \in req[r].todo : place(p) \in DOMAIN PersonaNames
  BY <1>2 DEF PersonaName
<1> HIDE DEF place
<1>5. V \subseteq Nat /\ V # {}
  BY <1>3, <1>4
<1>6. PICK v \in V : \A w \in V : v <= w
  <2> HIDE DEF V
  <2> QED BY <1>5, LeastNumber
<1>7. PICK p \in req[r].todo : \A q \in req[r].todo : place(p) <= place(q)
  BY <1>6
<1>8. NextPersona(r) = CHOOSE x \in req[r].todo : \A q \in req[r].todo : place(x) <= place(q)
  BY DEF NextPersona, place
<1>9. NextPersona(r) \in req[r].todo
  BY <1>7, <1>8
<1> QED BY <1>1, <1>9

\* A persona of the file is copied before its servers and mounts.
LEMMA CopyBlockIs ==
  ASSUME Types, NEW r \in Slot, req[r].at = "import_personas",
         NEW p \in req[r].payload.personas, NEW id, NEW name
  PROVE  LET B == CopyBlock(r, p, id, name)
         IN  /\ B \in Seq(CopyStmts(r, p, id, name)) /\ Len(B) >= 1
             /\ B[1] = Inserts("personas", CopyRow(p, id, name))
<1> DEFINE x == Inserts("personas", CopyRow(p, id, name))
           S == {s \in req[r].payload.servers : s.persona = p.id}
           M0 == {m \in req[r].payload.mounts : m.persona = p.id}
           M == {[m EXCEPT !.persona = id] : m \in M0}
           Q == CopyStmts(r, p, id, name)
<1>1. WellFormed(req[r].payload, Exported, fresh)
  BY DEF Types, Carries, Importing
<1>2. "servers" \in Exported /\ "mounts" \in Exported
  BY DEF Exported
<1>3. IsFiniteSet(S) /\ \A s \in S : s["id"] \in Nat
  <2>1. IsFiniteSet(req[r].payload.servers) /\ \A s \in req[r].payload.servers : s.id \in Nat
    BY <1>1, <1>2 DEF WellFormed
  <2> QED BY <2>1, FS_Subset
<1>4. IsFiniteSet(M) /\ \A m \in M : m["position"] \in Nat
  <2>1. /\ IsFiniteSet(req[r].payload.mounts)
        /\ \A m \in req[r].payload.mounts : m.position \in Nat /\ DOMAIN m = Column["mounts"]
    BY <1>1, <1>2 DEF WellFormed
  <2>2. IsFiniteSet(M0)
    BY <2>1, FS_Subset
  <2> DEFINE f == [m \in M0 |-> [m EXCEPT !.persona = id]]
  <2>3. IsFiniteSet({f[m] : m \in M0})
    <3>1. DOMAIN f = M0
      OBVIOUS
    <3> HIDE DEF f, M0
    <3> QED BY <2>2, <3>1, ImageFinite
  <2>4. M = {f[m] : m \in M0}
    OBVIOUS
  <2>5. "position" \in Column["mounts"]
    BY DEF Column
  <2>6. \A m \in M0 : [m EXCEPT !.persona = id].position = m.position
    BY <2>1, <2>5
  <2>7. \A m \in M0 : [m EXCEPT !.persona = id]["position"] \in Nat
    BY <2>1, <2>6
  <2> HIDE DEF f
  <2>8. IsFiniteSet(M)
    BY <2>3, <2>4
  <2> QED BY <2>7, <2>8
<1>5. CopyBlock(r, p, id, name)
        = ((<<x>> \o InsertAll("servers", S, "id")) \o InsertAll("servers", S, "id"))
          \o InsertAll("mounts", M, "position")
  BY DEF CopyBlock, CopyRow, ServerCopies, MountCopies
<1>6. /\ {Inserts("servers", s) : s \in S} \subseteq Q
      /\ {Inserts("mounts", m) : m \in M} \subseteq Q /\ x \in Q
  BY DEF CopyStmts, Ins, CopiedMounts
<1> DEFINE s == InsertAll("servers", S, "id")
           m == InsertAll("mounts", M, "position")
<1> HIDE DEF S, M, Q, x
<1>7. s \in Seq(Q) /\ m \in Seq(Q)
  <2>1. s \in Seq({Inserts("servers", y) : y \in S}) /\ m \in Seq({Inserts("mounts", y) : y \in M})
    BY <1>3, <1>4, InsertAllIs
  <2> HIDE DEF s, m
  <2> QED BY <1>6, <2>1
<1> HIDE DEF s, m
<1>8. <<x>> \in Seq(Q) /\ Len(<<x>>) = 1 /\ <<x>>[1] = x
  BY <1>6
<1>9. CopyBlock(r, p, id, name) = ((<<x>> \o s) \o s) \o m
  BY <1>5 DEF s, m
<1>10. ((<<x>> \o s) \o s) \o m \in Seq(Q) /\ Len(((<<x>> \o s) \o s) \o m) >= 1
       /\ (((<<x>> \o s) \o s) \o m)[1] = x
  BY <1>7, <1>8
<1> QED BY <1>9, <1>10 DEF Q, x

\* What becomes of a persona of the file.
LEMMA PersonaBlockIs ==
  ASSUME NEW r \in Slot
  PROVE  LET p == NextPersona(r)
             B == PersonaBlock(r)
         IN  \/ NameTaken("personas", p.name, 0) /\ B = <<>>
             \/ ~NameTaken("personas", p.name, 0) /\ B = CopyBlock(r, p, p.id, p.name)
             \/ /\ NameTaken("personas", p.name, 0) /\ Resolution(r, p) = "rename"
                /\ B = CopyBlock(r, p, fresh, req[r].form.name)
             \/ /\ NameTaken("personas", p.name, 0) /\ Resolution(r, p) = "overwrite"
                /\ p.name \in req[r].resolved /\ req[r].form.action = "overwrite"
                /\ B = <<Deletes("sessions", "persona", Existing(p).id, FALSE),
                         Deletes("personas", "id", Existing(p).id, FALSE)>>
                       \o CopyBlock(r, p, fresh, p.name)
<1> DEFINE p == NextPersona(r)
<1>1. CASE ~NameTaken("personas", p.name, 0)
  BY <1>1 DEF PersonaBlock
<1>2. CASE NameTaken("personas", p.name, 0) /\ Resolution(r, p) = "rename"
  BY <1>2 DEF PersonaBlock
<1>3. CASE NameTaken("personas", p.name, 0) /\ Resolution(r, p) = "overwrite"
  <2>1. p.name \in req[r].resolved /\ req[r].form.action = "overwrite"
    BY <1>3 DEF Resolution
  <2> QED BY <1>3, <2>1 DEF PersonaBlock
<1>4. CASE /\ NameTaken("personas", p.name, 0)
           /\ Resolution(r, p) # "rename" /\ Resolution(r, p) # "overwrite"
  BY <1>4 DEF PersonaBlock
<1> QED BY <1>1, <1>2, <1>3, <1>4

\* An overwritten persona goes with its sessions before the copy comes.
LEMMA OverwritingBlock ==
  ASSUME NEW s, NEW t, NEW Q, NEW B \in Seq(Q)
  PROVE  <<s, t>> \o B \in Seq({s, t} \cup Q) /\ Len(<<s, t>> \o B) = 2 + Len(B)
<1>1. <<s, t>> \in Seq({s, t}) /\ Len(<<s, t>>) = 2
  OBVIOUS
<1> QED BY <1>1, Concatenation

\* The last closure of an import, and the built-in agents of a start.
LEMMA ReposBlockIs ==
  ASSUME Types, NEW r \in Slot, req[r].at = "import_repos"
  PROVE  ReposBlock(r) \in Seq(Ins("repos", RepoRows(r)))
<1> DEFINE Pairs == {x \in req[r].map \X req[r].payload.repos : x[2].persona = x[1][1]}
           f == [mx \in Pairs |-> [persona |-> mx[1][2], ws |-> mx[2].ws]]
           S == {[persona |-> mx[1][2], ws |-> mx[2].ws] : mx \in Pairs}
<1>1. /\ WellFormed(req[r].payload, Exported, fresh) /\ "repos" \in Exported
      /\ IsFiniteSet(req[r].map) /\ \A m \in req[r].map : m[2] \in Nat
  BY DEF Types, Carries, Importing, Exported
<1>2. IsFiniteSet(Pairs)
  <2>1. IsFiniteSet(req[r].payload.repos)
    BY <1>1 DEF WellFormed
  <2>2. IsFiniteSet(req[r].map \X req[r].payload.repos)
    BY <1>1, <2>1, FS_Product
  <2> QED BY <2>2, FS_Subset
<1>3. IsFiniteSet(S)
  <2>1. DOMAIN f = Pairs /\ S = {f[x] : x \in Pairs}
    OBVIOUS
  <2> HIDE DEF f, Pairs, S
  <2> QED BY <1>2, <2>1, ImageFinite
<1>4. \A x \in S : x["persona"] \in Nat
  BY <1>1
<1>5. ReposBlock(r) = InsertAll("repos", S, "persona") /\ S = RepoRows(r)
  BY DEF ReposBlock, RepoRows
<1> HIDE DEF S
<1> QED BY <1>3, <1>4, <1>5, InsertAllIs DEF Ins

LEMMA SeedBlockIs ==
  ASSUME Types
  PROVE  /\ Builtins \in Seq(STRING)
         /\ SeedBlock \in Seq(Ins("agents", SeedRows))
         /\ \A row \in SeedRows : \E i \in 1..Len(SeedBlock) : SeedBlock[i] = Inserts("agents", row)
<1> DEFINE I == {j \in DOMAIN Builtins : ~IsBuiltin(Builtins[j])}
           f == [i \in I |-> [id |-> fresh + i, name |-> Builtins[i], builtin |-> TRUE]]
<1>1. Builtins \in Seq(STRING)
  <2> DEFINE R == [builtins : Seq(STRING), statements : Seq(Nat \ {0})]
  <2>1. Releases[release] \in R
    <3>1. Releases \in Seq(R)
      BY ReleasesAssumption
    <3> HIDE DEF R
    <3> QED BY <3>1 DEF Types
  <2> QED BY <2>1 DEF Builtins
<1>2. IsFiniteSet(I) /\ I \subseteq Nat
  <2>1. DOMAIN Builtins = 1..Len(Builtins) /\ Len(Builtins) \in Nat
    BY <1>1
  <2>2. IsFiniteSet(1..Len(Builtins))
    BY <2>1, FS_Interval
  <2> QED BY <2>1, <2>2, FS_Subset
<1>3. IsFiniteSet(SeedRows)
  <2>1. DOMAIN f = I /\ SeedRows = {f[x] : x \in I}
    BY DEF SeedRows
  <2> HIDE DEF f, I
  <2> QED BY <1>2, <2>1, ImageFinite
<1>4. \A x \in SeedRows : x["id"] \in Nat
  BY <1>2 DEF SeedRows, Types
<1>5. SeedBlock = InsertAll("agents", SeedRows, "id")
  BY DEF SeedBlock, SeedRows
<1> QED BY <1>1, <1>3, <1>4, <1>5, InsertAllIs DEF Ins

---------------------------------------------------------------------------
(* What the steps do to the tables *)

\* The closure's statements took effect, or as many as the end left time for.
Ran(B) ==
  /\ fresh' = fresh + Len(B)
  /\ \/ db' = Run(db, B).db
     \/ \E k \in 1..(Len(B) - 1) : db' = Run(db, SubSeq(B, 1, k)).db

\* A closure cut short still executed statements of its own only.
LEMMA RanExecutes ==
  ASSUME NEW Q, NEW B \in Seq(Q), Ran(B) PROVE Executes(Q)
<1>1. CASE db' = Run(db, B).db
  BY <1>1 DEF Executes
<1>2. ASSUME NEW k \in 1..(Len(B) - 1), db' = Run(db, SubSeq(B, 1, k)).db PROVE Executes(Q)
  <2>1. k \in 1..Len(B)
    OBVIOUS
  <2>2. SubSeq(B, 1, k) \in Seq(Q)
    BY <2>1, Prefix
  <2> QED BY <1>2, <2>2 DEF Executes
<1> QED BY <1>1, <1>2 DEF Ran

LEMMA RanEmpty == ASSUME Ran(<<>>) PROVE db' = db /\ fresh' = fresh + 0
<1>1. db' = Run(db, <<>>).db
  BY DEF Ran
<1> QED BY <1>1, NoStatement DEF Result, Ran

LEMMA RanStuck ==
  ASSUME NEW Q, NEW B \in Seq(Q), B # <<>>, Ran(B), ~Exec(db, B[1]).ok
  PROVE  db' = Exec(db, B[1]).db
<1>1. CASE db' = Run(db, B).db
  BY <1>1, RunStuck
<1>2. ASSUME NEW k \in 1..(Len(B) - 1), db' = Run(db, SubSeq(B, 1, k)).db
      PROVE  db' = Exec(db, B[1]).db
  <2>1. k \in 1..Len(B)
    OBVIOUS
  <2> DEFINE C == SubSeq(B, 1, k)
  <2>2. C \in Seq(Q) /\ C # <<>> /\ C[1] = B[1]
    BY <2>1
  <2> HIDE DEF C
  <2>3. Run(db, C) = Exec(db, C[1])
    BY <2>2, RunStuck
  <2> QED BY <1>2, <2>2, <2>3 DEF C
<1> QED BY <1>1, <1>2 DEF Ran

\* What a step may have done to the tables: nothing, or statements of one closure.
RunsSeed ==
  phase = "seeding" /\ Executes(Ins("agents", SeedRows)) /\ fresh' = fresh + Len(Builtins) + 1
RunsCreate(r) ==
  /\ req[r].at = "create" /\ Executes(CreateStmts(r))
  /\ ~NameTaken("personas", req[r].form.name, 0) /\ ~WorkspaceTaken(req[r].form.ws, 0)
  /\ fresh' = fresh + 1 + Len(req[r].form.servers) + Len(req[r].form.mounts)
\* What the update does not look at is marked; the given workspaces are stored
\* when it is complete.
UpdateLooked(r) ==
  \/ Unchecked(r, FALSE) \subseteq marks'
  \/ /\ Unchecked(r, TRUE) \subseteq marks'
     /\ db' = Run(db, UpdateBlock(r)).db /\ Run(db, UpdateBlock(r)).ok
RunsUpdate(r) ==
  /\ req[r].at = "update" /\ Executes(UpdateStmts(r)) /\ ~UpdateRefused(r) /\ UpdateLooked(r)
  /\ fresh' \in Nat /\ fresh' > fresh
  /\ req[r].form.servers # Keep => fresh' > fresh + Len(req[r].form.servers)
RunsDelete(r) ==
  /\ req[r].at = "delete" /\ Executes(DeleteStmts(r)) /\ fresh' = fresh + 2
  /\ \A s \in db.sessions : s.persona = req[r].persona => ~s.active
RunsAgent(r) ==
  /\ fresh' = fresh + 1
  /\ \/ /\ req[r].at = "new_agent"
        /\ Executes({Inserts("agents", [id |-> fresh, name |-> req[r].name, builtin |-> FALSE])})
     \/ /\ req[r].at = "agent"
        /\ Executes({Updates("agents", [id |-> req[r].agent, name |-> req[r].name,
                                        builtin |-> FALSE], TRUE)})
     \/ /\ req[r].at = "delete_agent"
        /\ Executes({Deletes("agents", "id", req[r].agent, TRUE)})
RunsImportAgents(r) ==
  /\ req[r].at = "import_agents" /\ Executes(Ins("agents", NewAgents(r)))
  /\ fresh' \in Nat /\ fresh' >= fresh
RunsImportRepos(r) ==
  /\ req[r].at = "import_repos" /\ Executes(Ins("repos", RepoRows(r)))
  /\ fresh' \in Nat /\ fresh' >= fresh
\* The persona to be replaced is gone before another one comes.
Vacated(id) ==
  (\A x \in db'["personas"] : x.id # id) \/ db'["personas"] \subseteq db["personas"]
\* A persona of the file under its own id, which no row has, or under a new one.
RunsImport(r) ==
  LET p == NextPersona(r)
  IN  /\ req[r].at = "import_personas" /\ req[r].todo # {}
      /\ fresh' \in Nat /\ fresh' > fresh /\ Unlooked(r, p) \subseteq marks'
      /\ \/ /\ ~NameTaken("personas", p.name, 0)
            /\ ~HasRow("personas", p.id) /\ Executes(CopyStmts(r, p, p.id, p.name))
         \/ /\ NameTaken("personas", p.name, 0) /\ Resolution(r, p) = "rename"
            /\ Executes(CopyStmts(r, p, fresh, req[r].form.name))
         \/ /\ NameTaken("personas", p.name, 0) /\ Resolution(r, p) = "overwrite"
            /\ p.name \in req[r].resolved /\ req[r].form.action = "overwrite"
            /\ Executes(OverwriteStmts(p) \cup CopyStmts(r, p, fresh, p.name))
            /\ Vacated(Existing(p).id)
RunsSession ==
  /\ fresh' = fresh + 1
  /\ \/ \E p \in db.personas :
          Executes({Inserts("sessions", [id |-> fresh, persona |-> p.id, active |-> TRUE])})
     \/ \E s \in db.sessions :
          s.active /\ Executes({Updates("sessions", [s EXCEPT !.active = FALSE], FALSE)})

RunsRequest(r) ==
  \/ RunsCreate(r) \/ RunsUpdate(r) \/ RunsDelete(r) \/ RunsAgent(r)
  \/ RunsImportAgents(r) \/ RunsImport(r) \/ RunsImportRepos(r)
Unmoved == db' = db /\ fresh' \in Nat /\ fresh' >= fresh
StepRuns ==
  \/ Unmoved
  \/ RunsSeed \/ RunsSession
  \/ phase = "up" /\ \E r \in Slot : RunsRequest(r)

\* Every closure, complete or cut short, did one of these.
LEMMA CreateRan ==
  ASSUME Types, NEW r \in Slot, phase = "up", req[r].at = "create", Ran(CreateBlock(r))
  PROVE  Unmoved \/ RunsCreate(r)
<1>1. CASE CreateBlock(r) = <<>>
  BY <1>1, RanEmpty DEF Unmoved, Types
<1>2. CASE CreateBlock(r) # <<>>
  <2>1. RunsCreate(r)
    <3>1. /\ CreateBlock(r) \in Seq(CreateStmts(r))
          /\ Len(CreateBlock(r)) = 1 + Len(req[r].form.servers) + Len(req[r].form.mounts)
          /\ ~NameTaken("personas", req[r].form.name, 0) /\ ~WorkspaceTaken(req[r].form.ws, 0)
      BY <1>2, CreateBlockIs
    <3>2. Executes(CreateStmts(r))
      BY <3>1, RanExecutes
    <3>3. req[r].form.servers \in Seq(STRING) /\ req[r].form.mounts \in Seq(Place)
      BY FormsAssumption DEF Types, Carries
    <3>4. Len(req[r].form.servers) \in Nat /\ Len(req[r].form.mounts) \in Nat
      BY <3>3
    <3>5. fresh' = fresh + 1 + Len(req[r].form.servers) + Len(req[r].form.mounts)
      <4> DEFINE a == Len(req[r].form.servers)
                 b == Len(req[r].form.mounts)
                 n == Len(CreateBlock(r))
      <4>1. a \in Nat /\ b \in Nat /\ n = 1 + a + b /\ fresh \in Nat /\ fresh' = fresh + n
        BY <3>1, <3>4 DEF Ran, Types
      <4> HIDE DEF a, b, n
      <4>2. fresh' = fresh + 1 + a + b
        BY <4>1
      <4> QED BY <4>2 DEF a, b
    <3> QED BY <3>1, <3>2, <3>5 DEF RunsCreate
  <2> QED BY <2>1
<1> QED BY <1>1, <1>2

LEMMA UpdateRan ==
  ASSUME Types, NEW r \in Slot, phase = "up", req[r].at = "update", Ran(UpdateBlock(r)),
         UpdateLooked(r)
  PROVE  Unmoved \/ RunsUpdate(r)
<1>1. CASE UpdateBlock(r) = <<>>
  BY <1>1, RanEmpty DEF Unmoved, Types
<1>2. CASE UpdateBlock(r) # <<>>
  <2>1. /\ ~UpdateRefused(r) /\ UpdateBlock(r) \in Seq(UpdateStmts(r))
        /\ Len(UpdateBlock(r)) >= 1
        /\ req[r].form.servers # Keep =>
             /\ req[r].form.servers \in Seq(STRING)
             /\ Len(UpdateBlock(r)) >= 1 + Len(req[r].form.servers)
    BY <1>2, UpdateBlockIs
  <2>2. Executes(UpdateStmts(r))
    BY <2>1, RanExecutes
  <2>3. Len(UpdateBlock(r)) \in Nat
    BY <2>1
  <2>4. fresh' \in Nat /\ fresh' > fresh
    BY <2>1, <2>3 DEF Ran, Types
  <2>5. req[r].form.servers # Keep => fresh' > fresh + Len(req[r].form.servers)
    <3> SUFFICES ASSUME req[r].form.servers # Keep
                 PROVE  fresh' > fresh + Len(req[r].form.servers)
      OBVIOUS
    <3>1. Len(req[r].form.servers) \in Nat
      BY <2>1
    <3> QED BY <2>1, <2>3, <3>1 DEF Ran, Types
  <2> QED BY <2>1, <2>2, <2>4, <2>5 DEF RunsUpdate
<1> QED BY <1>1, <1>2

LEMMA DeleteRan ==
  ASSUME Types, NEW r \in Slot, phase = "up", req[r].at = "delete", Ran(DeleteBlock(r))
  PROVE  Unmoved \/ RunsDelete(r)
<1>1. CASE DeleteBlock(r) = <<>>
  BY <1>1, RanEmpty DEF Unmoved, Types
<1>2. CASE DeleteBlock(r) # <<>>
  <2>1. /\ DeleteBlock(r) \in Seq(DeleteStmts(r)) /\ Len(DeleteBlock(r)) = 2
        /\ \A s \in db.sessions : s.persona = req[r].persona => ~s.active
    BY <1>2, DeleteBlockIs
  <2>2. Executes(DeleteStmts(r)) /\ fresh' = fresh + 2
    BY <2>1, RanExecutes DEF Ran
  <2> QED BY <2>1, <2>2 DEF RunsDelete
<1> QED BY <1>1, <1>2

LEMMA AgentRan ==
  ASSUME Types, NEW r \in Slot, phase = "up",
         \/ req[r].at \in {"new_agent", "agent"} /\ (Ran(AgentBlock(r)) \/ Ran(<<>>))
         \/ req[r].at = "delete_agent" /\ Ran(DeleteAgentBlock(r))
  PROVE  Unmoved \/ RunsAgent(r)
<1>1. CASE Ran(<<>>)
  BY <1>1, RanEmpty DEF Unmoved, Types
<1>2. ASSUME NEW s, Ran(<<s>>) PROVE Executes({s}) /\ fresh' = fresh + 1
  <2>1. <<s>> \in Seq({s}) /\ Len(<<s>>) = 1
    OBVIOUS
  <2> QED BY <1>2, <2>1, RanExecutes DEF Ran
<1>3. CASE req[r].at = "new_agent" /\ Ran(AgentBlock(r))
  <2>1. AgentBlock(r) =
          <<Inserts("agents", [id |-> fresh, name |-> req[r].name, builtin |-> FALSE])>>
    BY <1>3 DEF AgentBlock
  <2>2. RunsAgent(r)
    BY <1>2, <1>3, <2>1 DEF RunsAgent
  <2> QED BY <2>2
<1>4. CASE req[r].at = "agent" /\ Ran(AgentBlock(r))
  <2>1. AgentBlock(r) = <<Updates("agents", [id |-> req[r].agent, name |-> req[r].name,
                                            builtin |-> FALSE], TRUE)>>
    BY <1>4 DEF AgentBlock
  <2>2. RunsAgent(r)
    BY <1>2, <1>4, <2>1 DEF RunsAgent
  <2> QED BY <2>2
<1>5. CASE req[r].at = "delete_agent" /\ Ran(DeleteAgentBlock(r))
  <2>1. CASE DeleteAgentBlock(r) = <<>>
    BY <1>1, <1>5, <2>1
  <2>2. CASE DeleteAgentBlock(r) # <<>>
    <3>1. DeleteAgentBlock(r) = <<Deletes("agents", "id", req[r].agent, TRUE)>>
      BY <2>2 DEF DeleteAgentBlock
    <3>2. RunsAgent(r)
      BY <1>2, <1>5, <3>1 DEF RunsAgent
    <3> QED BY <3>2
  <2> QED BY <2>1, <2>2
<1> QED BY <1>1, <1>3, <1>4, <1>5

LEMMA ImportAgentsRan ==
  ASSUME Types, NEW r \in Slot, phase = "up", req[r].at = "import_agents", Ran(AgentsBlock(r))
  PROVE  Unmoved \/ RunsImportAgents(r)
<1>1. AgentsBlock(r) \in Seq(Ins("agents", NewAgents(r)))
  BY AgentsBlockIs
<1>2. Len(AgentsBlock(r)) \in Nat
  BY <1>1
<1>3. Executes(Ins("agents", NewAgents(r)))
  BY <1>1, RanExecutes
<1>4. fresh' \in Nat /\ fresh' >= fresh
  BY <1>2 DEF Ran, Types
<1> QED BY <1>3, <1>4 DEF RunsImportAgents

LEMMA ImportReposRan ==
  ASSUME Types, NEW r \in Slot, phase = "up", req[r].at = "import_repos", Ran(ReposBlock(r))
  PROVE  Unmoved \/ RunsImportRepos(r)
<1>1. ReposBlock(r) \in Seq(Ins("repos", RepoRows(r)))
  BY ReposBlockIs
<1>2. Len(ReposBlock(r)) \in Nat
  BY <1>1
<1>3. Executes(Ins("repos", RepoRows(r)))
  BY <1>1, RanExecutes
<1>4. fresh' \in Nat /\ fresh' >= fresh
  BY <1>2 DEF Ran, Types
<1> QED BY <1>3, <1>4 DEF RunsImportRepos

\* A copy under a new id leaves an id that no persona has any more alone.
Free(d, e) == DOMAIN d = Table /\ \A x \in d["personas"] : x.id # e
LEMMA VacatedStays ==
  ASSUME NEW d, NEW e, Free(d, e), NEW r, NEW p, NEW id, id # e, NEW name,
         NEW s \in CopyStmts(r, p, id, name)
  PROVE  Free(Exec(d, s).db, e)
<1>0. DOMAIN d = Table /\ \A x \in d["personas"] : x.id # e
  BY DEF Free
<1>1. PICK t \in Table : \E row : s = Inserts(t, row) /\ (t = "personas" => row.id = id)
  BY TablesAre DEF CopyStmts, Ins, CopyRow
<1>6. PICK row : s = Inserts(t, row) /\ (t = "personas" => row.id = id)
  BY <1>1
<1> DEFINE y == Exec(d, s)
<1>2. Added(d, y, t, row)
  BY <1>6, ExecInserts
<1> HIDE DEF y
<1>3. /\ DOMAIN y.db = Table /\ \A u \in Table \ {t} : y.db[u] = d[u]
      /\ y.db[t] = d[t] \/ y.db[t] = d[t] \cup {row}
  BY <1>0, <1>2, AddedIs
<1>4. "personas" \in Table
  BY DEF Table
<1>5. \A x \in y.db["personas"] : x.id # e
  BY <1>0, <1>6, <1>3, <1>4
<1> QED BY <1>3, <1>5 DEF y, Free

\* The overwriting block, or as many of its statements as the end left time for.
LEMMA RunVacates ==
  ASSUME DOMAIN db = Table, NEW e, NEW r, NEW p, NEW id, id # e, NEW name,
         NEW Q, NEW B \in Seq(Q),
         Len(B) >= 1 => B[1] = Deletes("sessions", "persona", e, FALSE),
         Len(B) >= 2 => B[2] = Deletes("personas", "id", e, FALSE),
         \A k \in 3..Len(B) : B[k] \in CopyStmts(r, p, id, name)
  PROVE  \/ \A x \in Run(db, B).db["personas"] : x.id # e
         \/ Run(db, B).db["personas"] \subseteq db["personas"]
<1> DEFINE n == Len(B)
<1>0. n \in Nat
  OBVIOUS
<1>1. PICK t : Trace(db, B, t) /\ Run(db, B) = t[n]
  BY <1>0, RunTrace
<1>2. t[0].db = db /\ t[0].ok
  BY <1>1 DEF Trace, Result
<1>3. \A k \in 1..n : t[k] = IF t[k - 1].ok THEN Exec(t[k - 1].db, B[k]) ELSE t[k - 1]
  BY <1>1 DEF Trace
<1> DEFINE Gone(d) == \A x \in d["personas"] : x.id # e
           Fewer(d) == d["personas"] \subseteq db["personas"]
           H == {k \in 0..n : /\ DOMAIN t[k].db = Table /\ (Gone(t[k].db) \/ Fewer(t[k].db))
                              /\ k >= 2 /\ t[k].ok => Gone(t[k].db)
                              /\ k <= 1 => Fewer(t[k].db)}
<1>4. 0 \in H
  BY <1>0, <1>2
<1>5. ASSUME NEW k \in 1..n, k - 1 \in H PROVE k \in H
  <2> DEFINE d == t[k - 1].db
             y == Exec(d, B[k])
  <2>0. DOMAIN d = Table /\ k \in 0..n
    BY <1>5
  <2>1. CASE ~t[k - 1].ok
    <3>1. t[k] = t[k - 1]
      BY <1>3, <2>1
    <3> QED BY <1>5, <2>1, <3>1
  <2>2. CASE t[k - 1].ok /\ k = 1
    <3>1. Taken(d, y, "sessions", Having(d, "sessions", "persona", e)) /\ t[k] = y
      <4>1. B[k] = Deletes("sessions", "persona", e, FALSE)
        <5>1. k = 1 /\ Len(B) >= 1
          BY <1>0, <2>2
        <5>2. B[1] = Deletes("sessions", "persona", e, FALSE)
          BY <5>1
        <5> QED BY <5>1, <5>2
      <4>2. t[k] = y
        BY <1>3, <2>2
      <4> HIDE DEF d
      <4> QED BY <4>1, <4>2, ExecDeletes
    <3> HIDE DEF y
    <3> DEFINE gone == Having(d, "sessions", "persona", e)
    <3>2. Taken(d, y, "sessions", gone)
      BY <3>1
    <3> HIDE DEF gone
    <3>3. DOMAIN y.db = Table /\ y.db["personas"] \subseteq d["personas"]
      BY <2>0, <3>2, TakenIs, TablesAre
    <3>4. Fewer(d)
      BY <1>5, <2>2
    <3> HIDE DEF d
    <3> QED BY <2>0, <2>2, <3>1, <3>3, <3>4
  <2>3. CASE t[k - 1].ok /\ k = 2
    <3> DEFINE gone == Having(d, "personas", "id", e)
    <3>1. Taken(d, y, "personas", gone) /\ t[k] = y
      <4>1. B[k] = Deletes("personas", "id", e, FALSE)
        <5>1. k = 2 /\ Len(B) >= 2
          BY <1>0, <2>3
        <5>2. B[2] = Deletes("personas", "id", e, FALSE)
          BY <5>1
        <5> QED BY <5>1, <5>2
      <4>2. t[k] = y
        BY <1>3, <2>3
      <4> HIDE DEF d
      <4> QED BY <4>1, <4>2, ExecDeletes
    <3> HIDE DEF y
    <3>2. /\ DOMAIN y.db = Table
          /\ (y.db = d /\ ~(y.ok /\ gone # {})) \/ y.db["personas"] = d["personas"] \ gone
      <4> HIDE DEF gone
      <4> QED BY <2>0, <3>1, TakenIs, TablesAre
    <3>3. (y.ok => Gone(y.db)) /\ y.db["personas"] \subseteq d["personas"]
      BY <3>2 DEF Having
    <3>4. Fewer(d)
      BY <1>5, <2>3
    <3> HIDE DEF d, gone
    <3> QED BY <2>0, <2>3, <3>1, <3>2, <3>3, <3>4
  <2>4. CASE t[k - 1].ok /\ k # 1 /\ k # 2
    <3>1. Gone(d) /\ t[k] = y /\ B[k] \in CopyStmts(r, p, id, name)
      BY <1>3, <1>5, <2>4
    <3>2. DOMAIN y.db = Table /\ Gone(y.db)
      <4> HIDE DEF d
      <4> DEFINE s == B[k]
      <4>1. s \in CopyStmts(r, p, id, name)
        BY <3>1
      <4> HIDE DEF s
      <4>2. Free(d, e)
        BY <2>0, <3>1 DEF Free
      <4>3. Free(Exec(d, s).db, e)
        BY <4>1, <4>2, VacatedStays
      <4> QED BY <4>3 DEF s, Free
    <3> HIDE DEF d, y
    <3> QED BY <2>0, <2>4, <3>1, <3>2
  <2> QED BY <2>1, <2>2, <2>3, <2>4
<1>6. n \in H
  <2> HIDE DEF H, n
  <2>1. \A k \in 0..n : k \in H
    BY <1>0, <1>4, <1>5, UpTo
  <2> QED BY <1>0, <2>1
<1> QED BY <1>1, <1>6

LEMMA OverwritingVacates ==
  ASSUME Types, NEW r \in Slot, req[r].at = "import_personas", NEW p \in req[r].payload.personas,
         NEW e, fresh # e, NEW name, NEW B, Ran(B),
         B = <<Deletes("sessions", "persona", e, FALSE), Deletes("personas", "id", e, FALSE)>>
             \o CopyBlock(r, p, fresh, name)
  PROVE  Vacated(e)
<1> DEFINE s1 == Deletes("sessions", "persona", e, FALSE)
           s2 == Deletes("personas", "id", e, FALSE)
           C == CopyBlock(r, p, fresh, name)
           P == CopyStmts(r, p, fresh, name)
           Q == {s1, s2} \cup P
<1>1. C \in Seq(P) /\ B = <<s1, s2>> \o C
  BY CopyBlockIs
<1> HIDE DEF s1, s2, C, P
<1>2. /\ B \in Seq(Q) /\ Len(B) = 2 + Len(C) /\ B[1] = s1 /\ B[2] = s2 /\ Len(C) \in Nat
      /\ \A k \in 3..Len(B) : B[k] \in P
  <2>1. <<s1, s2>> \in Seq({s1, s2}) /\ Len(<<s1, s2>>) = 2
        /\ <<s1, s2>>[1] = s1 /\ <<s1, s2>>[2] = s2
    OBVIOUS
  <2> DEFINE h == <<s1, s2>>
  <2>2. h \in Seq({s1, s2}) /\ Len(h) = 2 /\ h[1] = s1 /\ h[2] = s2 /\ B = h \o C
    BY <1>1, <2>1
  <2> HIDE DEF h
  <2> DEFINE S == {s1, s2}
  <2>3. /\ B \in Seq(Q) /\ Len(B) = Len(h) + Len(C)
        /\ \A i \in 1..Len(h) : B[i] = h[i]
        /\ \A i \in 1..Len(C) : B[Len(h) + i] = C[i]
    <3>1. h \in Seq(S)
      BY <2>2
    <3> HIDE DEF S
    <3>2. h \o C \in Seq(S \cup P)
      BY <1>1, <3>1, Concatenation
    <3>3. /\ Len(h \o C) = Len(h) + Len(C)
          /\ \A i \in 1..Len(h) : (h \o C)[i] = h[i]
          /\ \A i \in 1..Len(C) : (h \o C)[Len(h) + i] = C[i]
      BY <1>1, <3>1, Concatenation
    <3> QED BY <2>2, <3>2, <3>3 DEF S
  <2>4. Len(C) \in Nat /\ \A i \in 1..Len(C) : C[i] \in P
    BY <1>1
  <2>5. ASSUME NEW k \in 3..Len(B) PROVE B[k] \in P
    <3> HIDE DEF Q
    <3>1. k - 2 \in 1..Len(C) /\ 2 + (k - 2) = k
      BY <2>2, <2>3, <2>4
    <3>2. B[2 + (k - 2)] = C[k - 2]
      BY <2>2, <2>3, <3>1
    <3> QED BY <2>4, <3>1, <3>2
  <2>6. B[1] = s1 /\ B[2] = s2
    <3>1. 1 \in 1..Len(h) /\ 2 \in 1..Len(h)
      BY <2>2
    <3> QED BY <2>2, <2>3, <3>1
  <2> HIDE DEF Q
  <2> QED BY <2>2, <2>3, <2>4, <2>5, <2>6
<1>3. DOMAIN db = Table
  BY DEF Types, WellFormed
<1>4. ASSUME NEW D \in Seq(Q), Len(D) >= 1 => D[1] = s1, Len(D) >= 2 => D[2] = s2,
             \A k \in 3..Len(D) : D[k] \in P, db' = Run(db, D).db
      PROVE  Vacated(e)
  <2> HIDE DEF Q
  <2> QED BY <1>3, <1>4, RunVacates DEF Vacated, s1, s2, P
<1>5. CASE db' = Run(db, B).db
  BY <1>2, <1>4, <1>5
<1>6. ASSUME NEW k \in 1..(Len(B) - 1), db' = Run(db, SubSeq(B, 1, k)).db PROVE Vacated(e)
  <2> DEFINE D == SubSeq(B, 1, k)
  <2>1. k \in 1..Len(B)
    BY <1>2
  <2>2. D \in Seq(Q) /\ Len(D) = k /\ \A i \in 1..k : D[i] = B[i]
    <3> HIDE DEF Q
    <3>1. B \in Seq(Q)
      BY <1>2
    <3>2. D \in Seq(Q)
      BY <2>1, <3>1, Prefix
    <3>3. k \in Nat /\ Len(B) \in Nat /\ k <= Len(B)
      BY <2>1, <3>1
    <3>4. Len(D) = k
      BY <3>1, <3>3
    <3>5. \A i \in 1..k : D[i] = B[i]
      BY <3>1, <3>3
    <3> QED BY <3>2, <3>4, <3>5
  <2>3. \A i \in 3..Len(D) : D[i] \in P
    <3> HIDE DEF D
    <3>1. \A i \in 3..k : i \in 1..k /\ i \in 3..Len(B)
      BY <1>2, <2>1
    <3> QED BY <1>2, <2>2, <3>1
  <2>4. (Len(D) >= 1 => D[1] = s1) /\ (Len(D) >= 2 => D[2] = s2)
    <3> HIDE DEF D
    <3>1. 1 \in 1..k /\ (k >= 2 => 2 \in 1..k)
      BY <2>1
    <3> QED BY <1>2, <2>2, <3>1
  <2> QED BY <1>4, <1>6, <2>2, <2>3, <2>4
<1> QED BY <1>5, <1>6 DEF Ran

LEMMA ImportRan ==
  ASSUME Types, NEW r \in Slot, phase = "up", req[r].at = "import_personas", req[r].todo # {},
         Ran(PersonaBlock(r)), Unlooked(r, NextPersona(r)) \subseteq marks'
  PROVE  Unmoved \/ RunsImport(r)
<1> DEFINE p == NextPersona(r)
           B == PersonaBlock(r)
<1>1. p \in req[r].payload.personas
  BY NextPersonaIs
<1> HIDE DEF p, B
<1>2. Ran(B)
  BY DEF B
<1>3. ASSUME NEW id, NEW name
      PROVE  /\ CopyBlock(r, p, id, name) \in Seq(CopyStmts(r, p, id, name))
             /\ Len(CopyBlock(r, p, id, name)) \in Nat /\ Len(CopyBlock(r, p, id, name)) >= 1
             /\ CopyBlock(r, p, id, name)[1] = Inserts("personas", CopyRow(p, id, name))
  BY <1>1, CopyBlockIs
<1>4. ASSUME NEW Q, B \in Seq(Q), Len(B) >= 1
      PROVE  Executes(Q) /\ fresh' \in Nat /\ fresh' > fresh
  <2>1. Len(B) \in Nat
    BY <1>4
  <2>2. fresh' \in Nat /\ fresh' > fresh
    BY <1>2, <1>4, <2>1 DEF Ran, Types
  <2> QED BY <1>2, <1>4, <2>2, RanExecutes
<1>5. CASE B = <<>>
  BY <1>2, <1>5, RanEmpty DEF Unmoved, Types
<1>6. CASE ~NameTaken("personas", p.name, 0) /\ B = CopyBlock(r, p, p.id, p.name)
  <2>1. B \in Seq(CopyStmts(r, p, p.id, p.name)) /\ Len(B) >= 1 /\ Len(B) \in Nat
        /\ B[1] = Inserts("personas", CopyRow(p, p.id, p.name))
    BY <1>3, <1>6
  <2>2. Executes(CopyStmts(r, p, p.id, p.name)) /\ fresh' \in Nat /\ fresh' > fresh
    BY <1>4, <2>1
  <2>3. CASE ~HasRow("personas", p.id)
    BY <1>6, <2>2, <2>3 DEF RunsImport, p
  <2>4. CASE HasRow("personas", p.id)
    <3> DEFINE row == CopyRow(p, p.id, p.name)
    <3>1. Clashes("personas", db["personas"], row)
      <4>1. {"id"} \in Unique["personas"] /\ row["id"] = p.id
        BY DEF Unique, CopyRow
      <4>2. PICK x \in db["personas"] : x["id"] = p.id
        BY <2>4 DEF HasRow
      <4> QED BY <4>1, <4>2 DEF Clashes
    <3>2. DOMAIN db = Table /\ "personas" \in Table
      BY DEF Types, WellFormed, Table
    <3>3. ~Exec(db, Inserts("personas", row)).ok /\ Exec(db, Inserts("personas", row)).db = db
      BY <3>1, ExecInserts DEF Added
    <3>4. B # <<>>
      BY <2>1
    <3>5. db' = db
      BY <1>2, <2>1, <3>3, <3>4, RanStuck
    <3> QED BY <2>2, <3>5 DEF Unmoved, Types
  <2> QED BY <2>3, <2>4
<1>7. CASE /\ NameTaken("personas", p.name, 0) /\ Resolution(r, p) = "rename"
           /\ B = CopyBlock(r, p, fresh, req[r].form.name)
  <2>1. B \in Seq(CopyStmts(r, p, fresh, req[r].form.name)) /\ Len(B) >= 1
    BY <1>3, <1>7
  <2>2. Executes(CopyStmts(r, p, fresh, req[r].form.name)) /\ fresh' \in Nat /\ fresh' > fresh
    BY <1>4, <2>1
  <2> QED BY <1>7, <2>2 DEF RunsImport, p
<1>8. CASE /\ NameTaken("personas", p.name, 0) /\ Resolution(r, p) = "overwrite"
           /\ p.name \in req[r].resolved /\ req[r].form.action = "overwrite"
           /\ B = <<Deletes("sessions", "persona", Existing(p).id, FALSE),
                    Deletes("personas", "id", Existing(p).id, FALSE)>>
                  \o CopyBlock(r, p, fresh, p.name)
  <2> DEFINE Q == OverwriteStmts(p) \cup CopyStmts(r, p, fresh, p.name)
  <2>1. B \in Seq(Q) /\ Len(B) >= 1
    <3> DEFINE C == CopyBlock(r, p, fresh, p.name)
    <3>1. C \in Seq(CopyStmts(r, p, fresh, p.name)) /\ Len(C) \in Nat
      BY <1>3
    <3> HIDE DEF C
    <3> DEFINE s == Deletes("sessions", "persona", Existing(p).id, FALSE)
               t == Deletes("personas", "id", Existing(p).id, FALSE)
    <3>2. B = <<s, t>> \o C /\ OverwriteStmts(p) = {s, t}
      BY <1>8 DEF C, OverwriteStmts
    <3> HIDE DEF s, t
    <3>3. B \in Seq({s, t} \cup CopyStmts(r, p, fresh, p.name)) /\ Len(B) = 2 + Len(C)
      BY <3>1, <3>2, OverwritingBlock
    <3> QED BY <3>1, <3>2, <3>3
  <2>2. Executes(Q) /\ fresh' \in Nat /\ fresh' > fresh
    <3> HIDE DEF Q
    <3> QED BY <1>4, <2>1
  <2>3. Vacated(Existing(p).id)
    <3>1. Existing(p) \in db.personas
      BY <1>8 DEF Existing, NameTaken
    <3>2. Existing(p).id # fresh
      BY <3>1 DEF Types, WellFormed, Table
    <3> QED BY <1>1, <1>2, <1>8, <3>2, OverwritingVacates
  <2> QED BY <1>8, <2>2, <2>3 DEF RunsImport, p
<1> QED BY <1>5, <1>6, <1>7, <1>8, PersonaBlockIs DEF p, B

\* The steps of requests that read only, and those that write.
StepsKeepTables(r) ==
  \/ StartCreate(r) \/ StartUpdate(r) \/ ReadPersona(r) \/ StartDelete(r)
  \/ StartAgent(r) \/ StartDeleteAgent(r) \/ StartImport(r) \/ PersonasImported(r)
StepsRun(r) ==
  \/ Create(r) \/ UpdatePersona(r) \/ DeletePersona(r) \/ WriteAgent(r) \/ DeleteAgent(r)
  \/ ImportAgents(r) \/ ImportPersona(r) \/ ImportRepos(r)

LEMMA StepsAre == ASSUME NEW r, RequestStep(r) PROVE StepsKeepTables(r) \/ StepsRun(r)
BY DEF RequestStep, StepsKeepTables, StepsRun

LEMMA KeepsTables ==
  ASSUME NEW r, StepsKeepTables(r)
  PROVE  UNCHANGED <<db, fresh, exits, marks, file>> /\ UNCHANGED startup
<1>1. ASSUME NEW op, NEW q, Start(r, op, q)
      PROVE  UNCHANGED <<db, fresh, exits, marks, file>> /\ UNCHANGED startup
  BY <1>1 DEF Start
<1>2. CASE StartCreate(r)
  BY <1>1, <1>2 DEF StartCreate
<1>3. CASE StartUpdate(r)
  BY <1>1, <1>3 DEF StartUpdate
<1>4. CASE StartDelete(r)
  BY <1>1, <1>4 DEF StartDelete
<1>5. CASE StartAgent(r)
  BY <1>1, <1>5 DEF StartAgent
<1>6. CASE StartDeleteAgent(r)
  BY <1>1, <1>6 DEF StartDeleteAgent
<1>7. CASE StartImport(r)
  BY <1>1, <1>7 DEF StartImport
<1>8. CASE ReadPersona(r)
  BY <1>8 DEF ReadPersona
<1>9. CASE PersonasImported(r)
  BY <1>9 DEF PersonasImported
<1> QED BY <1>2, <1>3, <1>4, <1>5, <1>6, <1>7, <1>8, <1>9 DEF StepsKeepTables

\* A closure is a run of its statements.
LEMMA ClosureRan ==
  ASSUME NEW r, NEW B, Closure(r, B)
  PROVE  Ran(B) /\ UNCHANGED <<exits, file>> /\ UNCHANGED startup
BY DEF Closure, Ran

LEMMA RequestRuns ==
  ASSUME Types, NEW r \in Slot, StepsRun(r)
  PROVE  /\ phase = "up" /\ StepRuns
         /\ UNCHANGED <<exits, file>> /\ UNCHANGED startup
<1>0. ASSUME phase = "up", Unmoved \/ RunsRequest(r) PROVE phase = "up" /\ StepRuns
  BY <1>0 DEF StepRuns
<1>1. CASE Create(r)
  <2>1. Unmoved \/ RunsCreate(r)
    BY <1>1, ClosureRan, CreateRan DEF Create, At
  <2> QED BY <1>0, <1>1, <2>1, ClosureRan DEF Create, At, RunsRequest
<1>2. CASE UpdatePersona(r)
  <2>1. Ran(UpdateBlock(r)) /\ db' = Run(db, UpdateBlock(r)).db
        /\ phase = "up" /\ req[r].at = "update"
    BY <1>2, ClosureRan DEF UpdatePersona, At, Closure
  <2>2. marks' = marks \cup Unchecked(r, Run(db, UpdateBlock(r)).ok)
    BY <1>2 DEF UpdatePersona
  <2>3. UpdateLooked(r)
    <3>1. CASE Run(db, UpdateBlock(r)).ok
      <4>1. Unchecked(r, Run(db, UpdateBlock(r)).ok) = Unchecked(r, TRUE)
        BY <3>1 DEF Unchecked, LeavesMounts
      <4> QED BY <2>1, <2>2, <3>1, <4>1 DEF UpdateLooked
    <3>2. CASE ~Run(db, UpdateBlock(r)).ok
      <4>1. Unchecked(r, Run(db, UpdateBlock(r)).ok) = Unchecked(r, FALSE)
        BY <3>2 DEF Unchecked, LeavesMounts
      <4> QED BY <2>2, <4>1 DEF UpdateLooked
    <3> QED BY <3>1, <3>2
  <2>4. Unmoved \/ RunsUpdate(r)
    BY <2>1, <2>3, UpdateRan
  <2> QED BY <1>0, <1>2, <2>1, <2>4, ClosureRan DEF UpdatePersona, RunsRequest
<1>3. CASE DeletePersona(r)
  <2>1. Unmoved \/ RunsDelete(r)
    BY <1>3, ClosureRan, DeleteRan DEF DeletePersona, At
  <2> QED BY <1>0, <1>3, <2>1, ClosureRan DEF DeletePersona, At, RunsRequest
<1>4. CASE WriteAgent(r)
  <2>1. Unmoved \/ RunsAgent(r)
    BY <1>4, ClosureRan, AgentRan DEF WriteAgent, At
  <2> QED BY <1>0, <1>4, <2>1, ClosureRan DEF WriteAgent, At, RunsRequest
<1>5. CASE DeleteAgent(r)
  <2>1. Unmoved \/ RunsAgent(r)
    BY <1>5, ClosureRan, AgentRan DEF DeleteAgent, At
  <2> QED BY <1>0, <1>5, <2>1, ClosureRan DEF DeleteAgent, At, RunsRequest
<1>6. CASE ImportAgents(r)
  <2>1. Unmoved \/ RunsImportAgents(r)
    BY <1>6, ClosureRan, ImportAgentsRan DEF ImportAgents, At
  <2> QED BY <1>0, <1>6, <2>1, ClosureRan DEF ImportAgents, At, RunsRequest
<1>7. CASE ImportPersona(r)
  <2>0. Unlooked(r, NextPersona(r)) \subseteq marks'
    BY <1>7 DEF ImportPersona
  <2>1. Unmoved \/ RunsImport(r)
    BY <1>7, <2>0, ClosureRan, ImportRan DEF ImportPersona, At
  <2> QED BY <1>0, <1>7, <2>1, ClosureRan DEF ImportPersona, At, RunsRequest
<1>8. CASE ImportRepos(r)
  <2>1. Unmoved \/ RunsImportRepos(r)
    BY <1>8, ClosureRan, ImportReposRan DEF ImportRepos, At
  <2> QED BY <1>0, <1>8, <2>1, ClosureRan DEF ImportRepos, At, RunsRequest
<1> QED BY <1>1, <1>2, <1>3, <1>4, <1>5, <1>6, <1>7, <1>8 DEF StepsRun

\* The same of the start, of the end inside a closure, and of sessions.
LEMMA SeedRuns == ASSUME Types, Seed PROVE StepRuns
<1>1. SeedBlock \in Seq(Ins("agents", SeedRows))
  BY SeedBlockIs
<1>2. Executes(Ins("agents", SeedRows)) /\ fresh' = fresh + Len(Builtins) + 1 /\ phase = "seeding"
  BY <1>1 DEF Seed, Executes
<1> QED BY <1>2 DEF StepRuns, RunsSeed

LEMMA ExitInsideRuns == ASSUME Types, ExitInside PROVE StepRuns
<1>1. CASE /\ phase = "seeding"
           /\ \E k \in 1..(Len(SeedBlock) - 1) : db' = Run(db, SubSeq(SeedBlock, 1, k)).db
           /\ fresh' = fresh + Len(Builtins) + 1
  <2>1. SeedBlock \in Seq(Ins("agents", SeedRows))
    BY SeedBlockIs
  <2>2. PICK k \in 1..(Len(SeedBlock) - 1) : db' = Run(db, SubSeq(SeedBlock, 1, k)).db
    BY <1>1
  <2>3. k \in 1..Len(SeedBlock)
    BY <2>1
  <2>4. SubSeq(SeedBlock, 1, k) \in Seq(Ins("agents", SeedRows))
    BY <2>1, <2>3, Prefix
  <2>5. Executes(Ins("agents", SeedRows))
    BY <2>2, <2>4 DEF Executes
  <2> QED BY <1>1, <2>5 DEF StepRuns, RunsSeed
<1>2. ASSUME phase = "up", NEW r \in Slot,
             \E k \in 1..(Len(CurrentBlock(r)) - 1) :
               db' = Run(db, SubSeq(CurrentBlock(r), 1, k)).db,
             fresh' = fresh + Len(CurrentBlock(r)),
             marks' = marks \cup
               (IF req[r].at = "update" THEN Unchecked(r, FALSE)
                ELSE IF req[r].at = "import_personas" THEN Unlooked(r, NextPersona(r)) ELSE {})
      PROVE  StepRuns
  <2>0. ASSUME Unmoved \/ RunsRequest(r) PROVE StepRuns
    BY <1>2, <2>0 DEF StepRuns
  <2>1. Ran(CurrentBlock(r))
    BY <1>2 DEF Ran
  <2>2. CASE req[r].at = "create"
    <3>1. CurrentBlock(r) = CreateBlock(r)
      BY <2>2 DEF CurrentBlock
    <3>3. Unmoved \/ RunsCreate(r)
      BY <1>2, <2>1, <2>2, <3>1, CreateRan
    <3> QED BY <2>0, <3>3 DEF RunsRequest
  <2>3. CASE req[r].at = "update"
    <3>1. CurrentBlock(r) = UpdateBlock(r)
      BY <2>3 DEF CurrentBlock
    <3>2. UpdateLooked(r)
      BY <1>2, <2>3 DEF UpdateLooked
    <3>3. Unmoved \/ RunsUpdate(r)
      BY <1>2, <2>1, <2>3, <3>1, <3>2, UpdateRan
    <3> QED BY <2>0, <3>3 DEF RunsRequest
  <2>4. CASE req[r].at = "delete"
    <3>1. CurrentBlock(r) = DeleteBlock(r)
      BY <2>4 DEF CurrentBlock
    <3>3. Unmoved \/ RunsDelete(r)
      BY <1>2, <2>1, <2>4, <3>1, DeleteRan
    <3> QED BY <2>0, <3>3 DEF RunsRequest
  <2>5. CASE req[r].at = "import_agents"
    <3>1. CurrentBlock(r) = AgentsBlock(r)
      BY <2>5 DEF CurrentBlock
    <3>3. Unmoved \/ RunsImportAgents(r)
      BY <1>2, <2>1, <2>5, <3>1, ImportAgentsRan
    <3> QED BY <2>0, <3>3 DEF RunsRequest
  <2>6. CASE req[r].at = "import_personas" /\ req[r].todo # {}
    <3>1. CurrentBlock(r) = PersonaBlock(r)
      BY <2>6 DEF CurrentBlock
    <3>2. Unlooked(r, NextPersona(r)) \subseteq marks'
      BY <1>2, <2>6
    <3>3. Unmoved \/ RunsImport(r)
      BY <1>2, <2>1, <2>6, <3>1, <3>2, ImportRan
    <3> QED BY <2>0, <3>3 DEF RunsRequest
  <2>7. CASE req[r].at = "import_repos"
    <3>1. CurrentBlock(r) = ReposBlock(r)
      BY <2>7 DEF CurrentBlock
    <3>3. Unmoved \/ RunsImportRepos(r)
      BY <1>2, <2>1, <2>7, <3>1, ImportReposRan
    <3> QED BY <2>0, <3>3 DEF RunsRequest
  <2>8. CASE /\ req[r].at \notin {"create", "update", "delete", "import_agents", "import_repos"}
             /\ ~(req[r].at = "import_personas" /\ req[r].todo # {})
    <3>1. CurrentBlock(r) = <<>>
      BY <2>8 DEF CurrentBlock
    <3> QED BY <2>1, <3>1, RanEmpty DEF StepRuns, Unmoved, Types
  <2> QED BY <2>2, <2>3, <2>4, <2>5, <2>6, <2>7, <2>8
<1> QED BY <1>1, <1>2 DEF ExitInside

LEMMA SessionRuns == ASSUME Types, SessionEvent PROVE StepRuns
<1>0. DOMAIN db = Table /\ "sessions" \in Table
  BY DEF Types, WellFormed, Table
<1>1. ASSUME NEW p \in db.personas,
             db' = Insert(db, "sessions", [id |-> fresh, persona |-> p.id, active |-> TRUE]).db
      PROVE  RunsSession
  <2> DEFINE s == Inserts("sessions", [id |-> fresh, persona |-> p.id, active |-> TRUE])
  <2>1. db' = Exec(db, s).db
    BY <1>1 DEF Exec, Inserts
  <2> HIDE DEF s
  <2>2. <<s>> \in Seq({s}) /\ db' = Run(db, <<s>>).db
    BY <2>1, OneStatement
  <2>3. Executes({s})
    BY <2>2 DEF Executes
  <2> QED BY <2>3 DEF RunsSession, SessionEvent, s
<1>2. ASSUME NEW x \in db.sessions, x.active,
             db' = Update(db, "sessions", [x EXCEPT !.active = FALSE]).db
      PROVE  RunsSession
  <2> DEFINE row == [x EXCEPT !.active = FALSE]
             s == Updates("sessions", row, FALSE)
  <2>1. DOMAIN x = Column["sessions"]
    BY <1>0 DEF Types, WellFormed
  <2>2. row.id = x.id
    BY <2>1 DEF Column
  <2> HIDE DEF row
  <2>3. Matching(db, s) # {} /\ s.do = "update" /\ s.table = "sessions" /\ s.row = row
    BY <2>2 DEF Matching, Updates
  <2>4. db' = Exec(db, s).db
    <3>1. Exec(db, s) = Update(db, "sessions", row)
      BY <2>3 DEF Exec
    <3> QED BY <1>2, <3>1 DEF row
  <2> HIDE DEF s
  <2>5. <<s>> \in Seq({s}) /\ db' = Run(db, <<s>>).db
    BY <2>4, OneStatement
  <2>6. Executes({s})
    BY <2>5 DEF Executes
  <2> QED BY <1>2, <2>6 DEF RunsSession, SessionEvent, s, row
<1> QED BY <1>1, <1>2 DEF SessionEvent, StepRuns

\* Every step leaves the tables alone or executed statements of one closure.
LEMMA NextRuns == ASSUME Types, CatalogNext PROVE StepRuns
<1>1. CASE Open \/ Migrate \/ RecordVersion \/ Migrated \/ Exit \/ Upgrade \/ Export
  <2>1. UNCHANGED <<db, fresh>>
    BY <1>1 DEF Open, Migrate, RecordVersion, Migrated, Exit, Upgrade, Export
  <2> QED BY <2>1 DEF StepRuns, Unmoved, Types
<1>2. ASSUME NEW r \in Slot, RequestStep(r) PROVE StepRuns
  <2>1. CASE StepsKeepTables(r)
    BY <2>1, KeepsTables DEF StepRuns, Unmoved, Types
  <2> QED BY <1>2, <2>1, StepsAre, RequestRuns
<1> QED BY <1>1, <1>2, SeedRuns, ExitInsideRuns, SessionRuns DEF CatalogNext

---------------------------------------------------------------------------
(* What every statement preserves *)

\* Tables with an id of their own; rows and statements that fit them.
Numbered == {"agents", "personas", "servers", "sessions"}
RowFits(t, row, next) ==
  /\ DOMAIN row = Column[t]
  /\ t \in Numbered => row.id \in Nat \ {0} /\ row.id < next
  /\ t = "personas" => row.name \in PersonaName /\ row.ws \in Place
  /\ t = "mounts" => row.position \in Nat
Statement(s, next) ==
  \/ \E t \in Table : \E row : RowFits(t, row, next) /\ s = Inserts(t, row)
  \/ \E t \in Table : \E row, needed : RowFits(t, row, next) /\ s = Updates(t, row, needed)
  \/ \E t \in Table : \E c, v, needed : s = Deletes(t, c, v, needed)

Tidy(d, next) ==
  /\ DOMAIN d = Table
  /\ \A t \in Table : IsFiniteSet(d[t]) /\ \A row \in d[t] : RowFits(t, row, next)

\* The same row by row, and that it is kept by every statement.
LEMMA WellFormedIsTidy ==
  ASSUME NEW d, NEW next PROVE WellFormed(d, Table, next) <=> Tidy(d, next)
<1>1. Table \cap Numbered = Numbered /\ "personas" \in Table /\ "mounts" \in Table
  BY DEF Table, Numbered
<1>2. ASSUME WellFormed(d, Table, next) PROVE Tidy(d, next)
  BY <1>1, <1>2 DEF WellFormed, Tidy, RowFits, Numbered
<1>3. ASSUME Tidy(d, next) PROVE WellFormed(d, Table, next)
  <2>1. \A t \in Table : \A row \in d[t] : RowFits(t, row, next)
    BY <1>3 DEF Tidy
  <2>2. \A t \in Table : \A row \in d[t] : DOMAIN row = Column[t]
    BY <2>1 DEF RowFits
  <2>3. \A t \in Numbered : \A row \in d[t] : row.id \in Nat \ {0} /\ row.id < next
    BY <1>1, <2>1 DEF RowFits
  <2>4. \A row \in d["personas"] : row.name \in PersonaName /\ row.ws \in Place
    BY <1>1, <2>1 DEF RowFits
  <2>5. \A row \in d["mounts"] : row.position \in Nat
    BY <1>1, <2>1 DEF RowFits
  <2> QED BY <1>1, <1>3, <2>2, <2>3, <2>4, <2>5 DEF WellFormed, Tidy, Numbered
<1> QED BY <1>2, <1>3

LEMMA AddedTidy ==
  ASSUME NEW d, NEW next, Tidy(d, next), NEW t \in Table, NEW row, RowFits(t, row, next),
         NEW e, Added(d, e, t, row), NEW x, x = e.db
  PROVE  Tidy(x, next)
<1>1. CASE x = d
  BY <1>1
<1>2. CASE x = [d EXCEPT ![t] = @ \cup {row}]
  <2>1. DOMAIN x = Table /\ \A u \in Table : x[u] = IF u = t THEN d[u] \cup {row} ELSE d[u]
    BY <1>2 DEF Tidy
  <2>2. ASSUME NEW u \in Table PROVE IsFiniteSet(x[u])
    <3>1. IsFiniteSet(d[u]) /\ IsFiniteSet(d[u] \cup {row})
      BY FS_AddElement DEF Tidy
    <3> QED BY <2>1, <3>1
  <2> QED BY <2>1, <2>2 DEF Tidy
<1> QED BY <1>1, <1>2 DEF Added

LEMMA ReplacedTidy ==
  ASSUME NEW d, NEW next, Tidy(d, next), NEW t \in Table, NEW row, RowFits(t, row, next),
         NEW e, Replaced(d, e, t, row), NEW x, x = e.db
  PROVE  Tidy(x, next)
<1>1. CASE x = d
  BY <1>1
<1>2. CASE x = [d EXCEPT ![t] = Others(d, t, row) \cup {row}]
  <2>1. /\ DOMAIN x = Table /\ Others(d, t, row) \subseteq d[t]
        /\ \A u \in Table : x[u] = IF u = t THEN Others(d, t, row) \cup {row} ELSE d[u]
    BY <1>2 DEF Tidy, Others
  <2>2. ASSUME NEW u \in Table PROVE IsFiniteSet(x[u])
    <3>1. IsFiniteSet(d[u]) /\ IsFiniteSet(Others(d, t, row))
      BY <2>1, FS_Subset DEF Tidy
    <3>2. IsFiniteSet(Others(d, t, row) \cup {row})
      BY <3>1, FS_AddElement
    <3> QED BY <2>1, <3>1, <3>2
  <2> QED BY <2>1, <2>2 DEF Tidy
<1> QED BY <1>1, <1>2 DEF Replaced

LEMMA TakenTidy ==
  ASSUME NEW d, NEW next, Tidy(d, next), NEW t \in Table, NEW gone,
         NEW e, Taken(d, e, t, gone), NEW x, x = e.db
  PROVE  Tidy(x, next)
<1>1. CASE x = d
  BY <1>1
<1>2. CASE x = Left(d, t, gone)
  <2>1. DOMAIN x = Table /\ \A u \in Table : x[u] \in SUBSET d[u]
    BY <1>2 DEF Left
  <2>2. \A u \in Table : IsFiniteSet(x[u])
    BY <2>1, FS_Subset DEF Tidy
  <2> QED BY <2>1, <2>2 DEF Tidy
<1> QED BY <1>1, <1>2 DEF Taken

LEMMA ExecTidy ==
  ASSUME NEW d, NEW next, Tidy(d, next), NEW s, Statement(s, next)
  PROVE  Tidy(Exec(d, s).db, next)
<1>1. ASSUME NEW t \in Table, NEW row, RowFits(t, row, next), s = Inserts(t, row)
      PROVE  Tidy(Exec(d, s).db, next)
  BY <1>1, ExecInserts, AddedTidy
<1>2. ASSUME NEW t \in Table, NEW row, NEW needed, RowFits(t, row, next),
             s = Updates(t, row, needed)
      PROVE  Tidy(Exec(d, s).db, next)
  BY <1>2, ExecUpdates, ReplacedTidy
<1>3. ASSUME NEW t \in Table, NEW c, NEW v, NEW needed, s = Deletes(t, c, v, needed)
      PROVE  Tidy(Exec(d, s).db, next)
  BY <1>3, ExecDeletes, TakenTidy
<1> QED BY <1>1, <1>2, <1>3 DEF Statement

\* A reference from table t leads to agents or personas, by a column of the row.
LEMMA ReferencesAre ==
  \A f \in References : /\ f.from \in Table /\ f.to \in {"agents", "personas"} /\ f.from # f.to
                        /\ f.cascade => f.from \notin {"agents", "personas"}
BY DEF References, Refers, Table

\* Consistency row by row: no key is used twice, no reference dangles.
LEMMA ConsistentIs ==
  ASSUME NEW d
  PROVE  Consistent(d) <=>
           \A t \in Table : \A r \in d[t] : ~Clashes(t, d[t] \ {r}, r) /\ ~Dangles(d, t, r)
BY DEF Consistent

\* Insertions, updates and deletions keep keys and references.
LEMMA AddedConsistent ==
  ASSUME NEW d, DOMAIN d = Table, Consistent(d), NEW t \in Table, NEW row,
         NEW e, Added(d, e, t, row), NEW x, x = e.db
  PROVE  Consistent(x)
<1>0. \A u \in Table : \A r \in d[u] : ~Clashes(u, d[u] \ {r}, r) /\ ~Dangles(d, u, r)
  BY ConsistentIs
<1>1. CASE x = d
  BY <1>1
<1>2. CASE /\ x = [d EXCEPT ![t] = @ \cup {row}]
           /\ ~Clashes(t, d[t], row) /\ ~Dangles(d, t, row)
  <2>1. \A u \in Table : x[u] = IF u = t THEN d[u] \cup {row} ELSE d[u]
    BY <1>2
  <2> SUFFICES ASSUME NEW u \in Table, NEW r \in x[u]
               PROVE  ~Clashes(u, x[u] \ {r}, r) /\ ~Dangles(x, u, r)
    BY ConsistentIs
  <2>2. r \in d[u] \/ (u = t /\ r = row)
    BY <2>1
  <2>3. ~Dangles(d, u, r)
    BY <1>0, <1>2, <2>2
  <2>4. ~Dangles(x, u, r)
    BY <2>1, <2>3, ReferencesAre DEF Dangles, Table
  <2>5. CASE r \in d[u] /\ ~(u = t /\ r # row)
    <3>1. x[u] \ {r} \subseteq d[u] \ {r}
      BY <2>1, <2>5
    <3> QED BY <1>0, <2>4, <2>5, <3>1 DEF Clashes
  <2>6. CASE u = t /\ r # row
    <3>1. r \in d[t] /\ x[t] \ {r} = (d[t] \ {r}) \cup {row}
      BY <2>1, <2>2, <2>6
    <3>2. ~Clashes(t, d[t] \ {r}, r)
      BY <1>0, <3>1
    <3>3. ~\E key \in Unique[t] : \A c \in key : row[c] = r[c]
      BY <1>2, <3>1 DEF Clashes
    <3>4. ~Clashes(t, (d[t] \ {r}) \cup {row}, r)
      BY <3>2, <3>3 DEF Clashes
    <3> QED BY <2>4, <2>6, <3>1, <3>4
  <2>7. CASE u = t /\ r = row
    <3>1. x[t] \ {r} \subseteq d[t]
      BY <2>1, <2>7
    <3> QED BY <1>2, <2>4, <2>7, <3>1 DEF Clashes
  <2> QED BY <2>2, <2>5, <2>6, <2>7
<1> QED BY <1>1, <1>2 DEF Added

LEMMA ReplacedConsistent ==
  ASSUME NEW d, DOMAIN d = Table, Consistent(d), NEW t \in Table, NEW row,
         NEW e, Replaced(d, e, t, row), NEW x, x = e.db
  PROVE  Consistent(x)
<1> DEFINE others == Others(d, t, row)
<1>0. \A u \in Table : \A r \in d[u] : ~Clashes(u, d[u] \ {r}, r) /\ ~Dangles(d, u, r)
  BY ConsistentIs
<1>1. CASE x = d
  BY <1>1
<1>2. CASE /\ x = [d EXCEPT ![t] = others \cup {row}]
           /\ ~Clashes(t, others, row) /\ ~Dangles(d, t, row)
  <2>1. \A u \in Table : x[u] = IF u = t THEN others \cup {row} ELSE d[u]
    BY <1>2
  <2>2. others \subseteq d[t] /\ \A y \in d[t] : y \in others \/ y.id = row.id
    BY DEF Others
  <2> HIDE DEF others
  <2> SUFFICES ASSUME NEW u \in Table, NEW r \in x[u]
               PROVE  ~Clashes(u, x[u] \ {r}, r) /\ ~Dangles(x, u, r)
    BY ConsistentIs
  <2>3. r \in d[u] \/ (u = t /\ r = row)
    BY <2>1, <2>2
  <2>4. ~Dangles(d, u, r)
    BY <1>0, <1>2, <2>3
  <2>5. ~Dangles(x, u, r)
    <3> SUFFICES ASSUME NEW f \in References, f.from = u
                 PROVE  \E y \in x[f.to] : y.id = r[f.column]
      BY DEF Dangles
    <3>1. PICK y \in d[f.to] : y.id = r[f.column]
      BY <2>4 DEF Dangles
    <3>2. f.to \in Table
      BY ReferencesAre DEF Table
    <3>3. CASE f.to # t
      BY <2>1, <3>1, <3>2, <3>3
    <3>4. CASE f.to = t
      BY <2>1, <2>2, <3>1, <3>4
    <3> QED BY <3>3, <3>4
  <2>6. CASE u # t
    BY <1>0, <2>1, <2>3, <2>5, <2>6
  <2>7. CASE u = t /\ r = row
    <3>1. x[t] \ {r} \subseteq others
      BY <2>1, <2>7
    <3> QED BY <1>2, <2>5, <2>7, <3>1 DEF Clashes
  <2>8. CASE u = t /\ r # row
    <3>1. r \in others /\ r \in d[t] /\ x[t] \ {r} \subseteq (d[t] \ {r}) \cup {row}
      BY <2>1, <2>2, <2>8
    <3>2. ~Clashes(t, d[t] \ {r}, r)
      BY <1>0, <3>1
    <3>3. ~\E key \in Unique[t] : \A c \in key : row[c] = r[c]
      BY <1>2, <3>1 DEF Clashes
    <3>4. ~Clashes(t, (d[t] \ {r}) \cup {row}, r)
      BY <3>2, <3>3 DEF Clashes
    <3> QED BY <2>5, <2>8, <3>1, <3>4 DEF Clashes
  <2> QED BY <2>6, <2>7, <2>8
<1> QED BY <1>1, <1>2 DEF Replaced

LEMMA TakenConsistent ==
  ASSUME NEW d, DOMAIN d = Table, Consistent(d), NEW t \in Table, NEW gone,
         NEW e, Taken(d, e, t, gone), NEW x, x = e.db
  PROVE  Consistent(x)
<1>0. \A u \in Table : \A r \in d[u] : ~Clashes(u, d[u] \ {r}, r) /\ ~Dangles(d, u, r)
  BY ConsistentIs
<1>1. CASE x = d
  BY <1>1
<1>2. CASE x = Left(d, t, gone) /\ Unreferred(d, t, gone)
  <2>1. \A u \in Table : x[u] = IF u = t THEN d[u] \ gone ELSE d[u] \ Cascaded(d, t, u, gone)
    BY <1>2 DEF Left
  <2>2. \A u \in Table : x[u] \subseteq d[u]
    BY <2>1
  <2> SUFFICES ASSUME NEW u \in Table, NEW r \in x[u]
               PROVE  ~Clashes(u, x[u] \ {r}, r) /\ ~Dangles(x, u, r)
    BY ConsistentIs
  <2>3. r \in d[u] /\ ~Clashes(u, d[u] \ {r}, r) /\ ~Dangles(d, u, r)
    BY <1>0, <2>2
  <2>4. x[u] \ {r} \subseteq d[u] \ {r}
    BY <2>2
  <2>5. ~Clashes(u, x[u] \ {r}, r)
    BY <2>3, <2>4 DEF Clashes
  <2>6. ASSUME NEW f \in References, f.from = u
        PROVE  \E y \in x[f.to] : y.id = r[f.column]
    <3>1. PICK y \in d[f.to] : y.id = r[f.column]
      BY <2>3, <2>6 DEF Dangles
    <3>2. f.to \in Table /\ f.to \in {"agents", "personas"} /\ f.from # f.to
      BY ReferencesAre DEF Table
    <3>3. CASE f.to = t
      <4>1. SUFFICES y \notin gone
        BY <2>1, <3>1, <3>2, <3>3
      <4>2. SUFFICES ASSUME y \in gone PROVE FALSE
        OBVIOUS
      <4>3. r \in Referring(d, f, gone)
        BY <2>3, <2>6, <3>1, <4>2 DEF Referring
      <4>4. f.cascade
        BY <1>2, <3>3, <4>3 DEF Unreferred
      <4>5. r \in Cascaded(d, t, u, gone)
        BY <2>6, <3>3, <4>3 DEF Cascaded
      <4> QED BY <2>1, <2>6, <3>2, <3>3, <4>5
    <3>4. CASE f.to # t
      <4>1. Cascaded(d, t, f.to, gone) = {}
        <5> SUFFICES ASSUME NEW g \in References, g.to = t, g.from = f.to
                     PROVE  Referring(d, g, gone) = {}
          BY DEF Cascaded
        <5>1. ~g.cascade
          BY <3>2, ReferencesAre
        <5> QED BY <1>2, <5>1 DEF Unreferred
      <4> QED BY <2>1, <3>1, <3>2, <3>4, <4>1
    <3> QED BY <3>3, <3>4
  <2>7. ~Dangles(x, u, r)
    BY <2>6 DEF Dangles
  <2> QED BY <2>5, <2>7
<1> QED BY <1>1, <1>2 DEF Taken

LEMMA ExecConsistent ==
  ASSUME NEW d, DOMAIN d = Table, Consistent(d), NEW s, NEW next, Statement(s, next)
  PROVE  Consistent(Exec(d, s).db)
<1>1. ASSUME NEW t \in Table, NEW row, s = Inserts(t, row)
      PROVE  Consistent(Exec(d, s).db)
  BY <1>1, ExecInserts, AddedConsistent
<1>2. ASSUME NEW t \in Table, NEW row, NEW needed, s = Updates(t, row, needed)
      PROVE  Consistent(Exec(d, s).db)
  BY <1>2, ExecUpdates, ReplacedConsistent
<1>3. ASSUME NEW t \in Table, NEW c, NEW v, NEW needed, s = Deletes(t, c, v, needed)
      PROVE  Consistent(Exec(d, s).db)
  BY <1>3, ExecDeletes, TakenConsistent
<1> QED BY <1>1, <1>2, <1>3 DEF Statement

---------------------------------------------------------------------------
(* Keys and references *)

\* Rows of each table fit it.
LEMMA RecordsFit ==
  ASSUME NEW next \in Nat
  PROVE  /\ \A i, n, b : i \in Nat \ {0} /\ i < next =>
              RowFits("agents", [id |-> i, name |-> n, builtin |-> b], next)
         /\ \A i, n, a, w : i \in Nat \ {0} /\ i < next /\ n \in PersonaName /\ w \in Place =>
              RowFits("personas", [id |-> i, name |-> n, agent |-> a, ws |-> w], next)
         /\ \A i, p, n : i \in Nat \ {0} /\ i < next =>
              RowFits("servers", [id |-> i, persona |-> p, name |-> n], next)
         /\ \A p, w, i : i \in Nat =>
              RowFits("mounts", [persona |-> p, path |-> w, position |-> i], next)
         /\ \A i, p, a : i \in Nat \ {0} /\ i < next =>
              RowFits("sessions", [id |-> i, persona |-> p, active |-> a], next)
         /\ \A p, w : RowFits("repos", [persona |-> p, ws |-> w], next)
BY DEF RowFits, Column, Numbered

\* Every statement of Q fits its table.
Fits(Q, next) == \A s \in Q : Statement(s, next)

LEMMA InsertsFit ==
  ASSUME NEW t \in Table, NEW R, NEW next, \A row \in R : RowFits(t, row, next)
  PROVE  Fits(Ins(t, R), next)
BY DEF Fits, Ins, Statement

LEMMA SomeFit ==
  ASSUME NEW t \in Table, NEW row, NEW c, NEW v, NEW needed, NEW next
  PROVE  /\ RowFits(t, row, next) => Statement(Inserts(t, row), next)
         /\ RowFits(t, row, next) => Statement(Updates(t, row, needed), next)
         /\ Statement(Deletes(t, c, v, needed), next)
BY DEF Statement

LEMMA SeedFits ==
  ASSUME Types, RunsSeed
  PROVE  fresh' \in Nat /\ fresh' > fresh /\ Fits(Ins("agents", SeedRows), fresh')
<1>1. Builtins \in Seq(STRING) /\ fresh \in Nat
  BY SeedBlockIs DEF Types
<1> DEFINE n == Len(Builtins)
<1>2. n \in Nat /\ DOMAIN Builtins = 1..n /\ fresh' = fresh + n + 1
  BY <1>1 DEF RunsSeed
<1> HIDE DEF n
<1>3. fresh' \in Nat /\ fresh' > fresh
  BY <1>1, <1>2
<1>4. ASSUME NEW row \in SeedRows PROVE RowFits("agents", row, fresh')
  <2>1. PICK i \in DOMAIN Builtins :
          row = [id |-> fresh + i, name |-> Builtins[i], builtin |-> TRUE]
    BY DEF SeedRows
  <2>2. fresh + i \in Nat \ {0} /\ fresh + i < fresh'
    BY <1>1, <1>2
  <2> QED BY <1>3, <2>1, <2>2, RecordsFit
<1> QED BY <1>3, <1>4, InsertsFit, TablesAre

LEMMA ServersFit ==
  ASSUME NEW p, NEW S, NEW names \in Seq(S), fresh \in Nat,
         fresh' \in Nat, fresh' > fresh + Len(names)
  PROVE  Fits(Ins("servers", ServerRows(p, names)), fresh')
<1>1. ASSUME NEW row \in ServerRows(p, names) PROVE RowFits("servers", row, fresh')
  <2>1. PICK i \in 1..Len(names) : row = [id |-> fresh + i, persona |-> p, name |-> names[i]]
    BY DEF ServerRows
  <2>2. Len(names) \in Nat
    OBVIOUS
  <2>3. fresh + i \in Nat \ {0} /\ fresh + i < fresh'
    BY <2>2
  <2> QED BY <2>1, <2>3, RecordsFit
<1> QED BY <1>1, InsertsFit, TablesAre

LEMMA MountsFit ==
  ASSUME NEW p, NEW paths \in Seq(Place), NEW next \in Nat
  PROVE  Fits(Ins("mounts", MountRows(p, paths)), next)
<1>1. ASSUME NEW row \in MountRows(p, paths) PROVE RowFits("mounts", row, next)
  <2>1. PICK i \in 1..Len(paths) :
          row = [persona |-> p, path |-> Canonical[paths[i]], position |-> i - 1]
    BY DEF MountRows
  <2>2. i - 1 \in Nat
    OBVIOUS
  <2> QED BY <2>1, <2>2, RecordsFit
<1> QED BY <1>1, InsertsFit, TablesAre

LEMMA CreateFits ==
  ASSUME Types, NEW r \in Slot, RunsCreate(r)
  PROVE  fresh' \in Nat /\ fresh' > fresh /\ Fits(CreateStmts(r), fresh')
<1> DEFINE form == req[r].form
           a == Len(form.servers)
           b == Len(form.mounts)
<1>1. /\ form.name \in PersonaName /\ form.ws \in Place
      /\ form.servers \in Seq(STRING) /\ form.mounts \in Seq(Place)
  BY FormsAssumption DEF Types, Carries, RunsCreate
<1>2. fresh \in Nat \ {0} /\ a \in Nat /\ b \in Nat /\ fresh' = fresh + 1 + a + b
  BY <1>1 DEF Types, RunsCreate
<1>3. fresh' \in Nat /\ fresh' > fresh /\ fresh' > fresh + a
  <2> HIDE DEF a, b
  <2> QED BY <1>2
<1>4. Fits(Ins("personas", {CreateRow(r)}), fresh')
  <2>1. RowFits("personas", CreateRow(r), fresh')
    BY <1>1, <1>2, <1>3, RecordsFit DEF CreateRow
  <2> QED BY <2>1, InsertsFit, TablesAre
<1>5. Fits(Ins("servers", ServerRows(fresh, form.servers)), fresh')
  BY <1>1, <1>2, <1>3, ServersFit
<1>6. Fits(Ins("mounts", MountRows(fresh, form.mounts)), fresh')
  BY <1>1, <1>3, MountsFit
<1> QED BY <1>3, <1>4, <1>5, <1>6 DEF Fits, CreateStmts

LEMMA UpdatedIs ==
  ASSUME Types, NEW r \in Slot, req[r].at = "update"
  PROVE  /\ Updated(r).id = req[r].saw.id /\ Updated(r).id \in Nat \ {0} /\ Updated(r).id < fresh
         /\ Updated(r).name \in PersonaName
         /\ Updated(r).ws \in Place /\ Updated(r).ws = WsOf(req[r])
         /\ DOMAIN Updated(r) = Column["personas"]
<1>1. req[r].form \in UpdateForms
      /\ req[r].saw.id \in Nat \ {0} /\ req[r].saw.id < fresh
      /\ req[r].saw.name \in PersonaName /\ req[r].saw.ws \in Place
  BY DEF Types, Carries
<1>2. req[r].form.name \in PersonaName \cup {Keep} /\ req[r].form.ws \in Place \cup {Keep}
  BY <1>1, FormsAssumption
<1>3. DOMAIN Updated(r) = Column["personas"]
  BY DEF Updated, Column
<1> QED BY <1>1, <1>2, <1>3 DEF Updated, WsOf

LEMMA UpdateFits ==
  ASSUME Types, NEW r \in Slot, RunsUpdate(r)
  PROVE  fresh' \in Nat /\ fresh' > fresh /\ Fits(UpdateStmts(r), fresh')
<1> DEFINE form == req[r].form
           row == Updated(r)
<1>1. /\ fresh \in Nat /\ fresh' \in Nat /\ fresh' > fresh
      /\ form.servers # Keep => fresh' > fresh + Len(form.servers)
  BY DEF Types, RunsUpdate
<1>2. /\ form.servers # Keep => form.servers \in Seq(STRING)
      /\ form.mounts # Keep => form.mounts \in Seq(Place)
  BY FormsAssumption DEF Types, Carries, RunsUpdate
<1>3. RowFits("personas", row, fresh')
  <2>1. /\ row.id \in Nat \ {0} /\ row.id < fresh /\ row.name \in PersonaName /\ row.ws \in Place
        /\ DOMAIN row = Column["personas"]
    BY UpdatedIs DEF RunsUpdate
  <2> HIDE DEF row
  <2> QED BY <1>1, <2>1 DEF RowFits, Numbered
<1>4. /\ Statement(Updates("personas", row, FALSE), fresh')
      /\ \A v : Statement(Deletes("servers", "id", v, TRUE), fresh')
      /\ Statement(Deletes("mounts", "persona", row.id, FALSE), fresh')
  BY <1>3, SomeFit, TablesAre
<1>5. form.servers # Keep => Fits(Ins("servers", ServerRows(row.id, form.servers)), fresh')
  BY <1>1, <1>2, ServersFit
<1>6. form.mounts # Keep => Fits(Ins("mounts", MountRows(row.id, form.mounts)), fresh')
  BY <1>1, <1>2, MountsFit
<1> QED BY <1>1, <1>4, <1>5, <1>6 DEF Fits, UpdateStmts

LEMMA CopyFits ==
  ASSUME Types, NEW r \in Slot, req[r].at = "import_personas",
         NEW p \in req[r].payload.personas, NEW id \in Nat \ {0}, NEW name \in PersonaName,
         fresh' \in Nat, fresh' > fresh, id < fresh'
  PROVE  Fits(CopyStmts(r, p, id, name), fresh')
<1> DEFINE payload == req[r].payload
<1>0. fresh \in Nat \ {0}
  BY DEF Types
<1>1. WellFormed(payload, Exported, fresh)
  BY DEF Types, Carries, Importing
<1>2. /\ \A x \in payload.servers :
           DOMAIN x = Column["servers"] /\ x.id \in Nat \ {0} /\ x.id < fresh
      /\ \A x \in payload.mounts : DOMAIN x = Column["mounts"] /\ x.position \in Nat
      /\ p.ws \in Place
  <2>1. {"servers", "mounts", "personas"} \subseteq Exported
    BY DEF Exported
  <2> QED BY <1>1, <2>1 DEF WellFormed
<1>3. Fits(Ins("personas", {CopyRow(p, id, name)}), fresh')
  <2>1. RowFits("personas", CopyRow(p, id, name), fresh')
    BY <1>2, RecordsFit DEF CopyRow
  <2> QED BY <2>1, InsertsFit, TablesAre
<1>4. Fits(Ins("servers", {s \in payload.servers : s.persona = p.id}), fresh')
  <2>1. \A s \in payload.servers : RowFits("servers", s, fresh')
    BY <1>0, <1>2 DEF RowFits, Numbered
  <2> QED BY <2>1, InsertsFit, TablesAre
<1>5. Fits(Ins("mounts", CopiedMounts(r, p, id)), fresh')
  <2>1. ASSUME NEW m \in payload.mounts
        PROVE  RowFits("mounts", [m EXCEPT !.persona = id], fresh')
    <3>1. /\ DOMAIN [m EXCEPT !.persona = id] = DOMAIN m
          /\ [m EXCEPT !.persona = id].position = m.position
      BY <1>2 DEF Column
    <3> QED BY <1>2, <3>1 DEF RowFits, Numbered
  <2>2. \A m \in CopiedMounts(r, p, id) : RowFits("mounts", m, fresh')
    BY <2>1 DEF CopiedMounts
  <2> QED BY <2>2, InsertsFit, TablesAre
<1> QED BY <1>3, <1>4, <1>5 DEF Fits, CopyStmts

\* The statements of every closure fit, so that every step keeps what they keep.
LEMMA StepFits ==
  ASSUME Types, StepRuns
  PROVE  /\ fresh' \in Nat /\ fresh' >= fresh
         /\ db' = db \/ \E Q : Executes(Q) /\ Fits(Q, fresh')
<1>0. fresh \in Nat \ {0}
  BY DEF Types
<1>1. CASE RunsSeed
  BY <1>0, <1>1, SeedFits DEF RunsSeed
<1>2. CASE RunsSession
  <2>1. fresh' \in Nat /\ fresh' = fresh + 1
    BY <1>0, <1>2 DEF RunsSession
  <2>2. ASSUME NEW p \in db.personas
        PROVE  Fits({Inserts("sessions", [id |-> fresh, persona |-> p.id, active |-> TRUE])},
                    fresh')
    <3>1. RowFits("sessions", [id |-> fresh, persona |-> p.id, active |-> TRUE], fresh')
      BY <1>0, <2>1, RecordsFit
    <3> QED BY <3>1, SomeFit, TablesAre DEF Fits
  <2>3. ASSUME NEW s \in db.sessions
        PROVE  Fits({Updates("sessions", [s EXCEPT !.active = FALSE], FALSE)}, fresh')
    <3>1. DOMAIN s = Column["sessions"] /\ s.id \in Nat \ {0} /\ s.id < fresh
      BY TablesAre DEF Types, WellFormed
    <3>2. DOMAIN [s EXCEPT !.active = FALSE] = Column["sessions"]
          /\ [s EXCEPT !.active = FALSE].id = s.id
      BY <3>1 DEF Column
    <3>3. RowFits("sessions", [s EXCEPT !.active = FALSE], fresh')
      BY <1>0, <2>1, <3>1, <3>2 DEF RowFits, Numbered
    <3> QED BY <3>3, SomeFit, TablesAre DEF Fits
  <2>4. \E Q : Executes(Q) /\ Fits(Q, fresh')
    <3>1. CASE \E p \in db.personas :
                 Executes({Inserts("sessions", [id |-> fresh, persona |-> p.id, active |-> TRUE])})
      BY <2>2, <3>1
    <3>2. CASE \E s \in db.sessions :
                 Executes({Updates("sessions", [s EXCEPT !.active = FALSE], FALSE)})
      BY <2>3, <3>2
    <3> QED BY <1>2, <3>1, <3>2 DEF RunsSession
  <2> QED BY <1>0, <2>1, <2>4
<1>3. ASSUME NEW r \in Slot, RunsCreate(r) \/ RunsUpdate(r)
      PROVE  fresh' \in Nat /\ fresh' >= fresh /\ \E Q : Executes(Q) /\ Fits(Q, fresh')
  <2>1. CASE RunsCreate(r)
    <3>1. Executes(CreateStmts(r))
      BY <2>1 DEF RunsCreate
    <3>2. fresh' \in Nat /\ fresh' > fresh /\ Fits(CreateStmts(r), fresh')
      BY <2>1, CreateFits
    <3> QED BY <1>0, <3>1, <3>2
  <2>2. CASE RunsUpdate(r)
    BY <1>0, <2>2, UpdateFits DEF RunsUpdate
  <2> QED BY <1>3, <2>1, <2>2
<1>4. ASSUME NEW r \in Slot, RunsDelete(r)
      PROVE  fresh' \in Nat /\ fresh' >= fresh /\ \E Q : Executes(Q) /\ Fits(Q, fresh')
  <2>1. Fits(DeleteStmts(r), fresh')
    BY SomeFit, TablesAre DEF Fits, DeleteStmts
  <2> QED BY <1>0, <1>4, <2>1 DEF RunsDelete
<1>5. ASSUME NEW r \in Slot, RunsAgent(r)
      PROVE  fresh' \in Nat /\ fresh' >= fresh /\ \E Q : Executes(Q) /\ Fits(Q, fresh')
  <2>1. fresh' \in Nat /\ fresh' = fresh + 1
    BY <1>0, <1>5 DEF RunsAgent
  <2>2. Fits({Inserts("agents", [id |-> fresh, name |-> req[r].name, builtin |-> FALSE])}, fresh')
    <3>1. RowFits("agents", [id |-> fresh, name |-> req[r].name, builtin |-> FALSE], fresh')
      BY <1>0, <2>1, RecordsFit
    <3> QED BY <3>1, SomeFit, TablesAre DEF Fits
  <2>3. ASSUME req[r].at = "agent"
        PROVE  Fits({Updates("agents", [id |-> req[r].agent, name |-> req[r].name,
                                        builtin |-> FALSE], TRUE)}, fresh')
    <3>1. req[r].agent \in Nat \ {0} /\ req[r].agent < fresh'
      BY <1>0, <2>1, <2>3 DEF Types, Carries
    <3>2. RowFits("agents", [id |-> req[r].agent, name |-> req[r].name, builtin |-> FALSE], fresh')
      BY <2>1, <3>1, RecordsFit
    <3> QED BY <3>2, SomeFit, TablesAre DEF Fits
  <2>4. Fits({Deletes("agents", "id", req[r].agent, TRUE)}, fresh')
    BY SomeFit, TablesAre DEF Fits
  <2>5. \E Q : Executes(Q) /\ Fits(Q, fresh')
    BY <1>5, <2>2, <2>3, <2>4 DEF RunsAgent
  <2> QED BY <1>0, <2>1, <2>5
<1>6. ASSUME NEW r \in Slot, RunsImportAgents(r)
      PROVE  fresh' \in Nat /\ fresh' >= fresh /\ \E Q : Executes(Q) /\ Fits(Q, fresh')
  <2>1. ASSUME NEW a \in NewAgents(r) PROVE RowFits("agents", a, fresh')
    <3>1. WellFormed(req[r].payload, Exported, fresh) /\ "agents" \in Exported
      BY <1>6 DEF RunsImportAgents, Types, Carries, Importing, Exported
    <3>2. a \in req[r].payload.agents
      BY DEF NewAgents
    <3>3. DOMAIN a = Column["agents"] /\ a.id \in Nat \ {0} /\ a.id < fresh
      BY <3>1, <3>2 DEF WellFormed
    <3> QED BY <1>0, <1>6, <3>3 DEF RowFits, Numbered, RunsImportAgents
  <2>2. Fits(Ins("agents", NewAgents(r)), fresh')
    BY <2>1, InsertsFit, TablesAre
  <2> QED BY <1>6, <2>2 DEF RunsImportAgents
<1>7. ASSUME NEW r \in Slot, RunsImportRepos(r)
      PROVE  fresh' \in Nat /\ fresh' >= fresh /\ \E Q : Executes(Q) /\ Fits(Q, fresh')
  <2>1. fresh' \in Nat
    BY <1>7 DEF RunsImportRepos
  <2>2. \A row \in RepoRows(r) : RowFits("repos", row, fresh')
    BY <2>1, RecordsFit DEF RepoRows
  <2>3. Fits(Ins("repos", RepoRows(r)), fresh')
    BY <2>2, InsertsFit, TablesAre
  <2> QED BY <1>7, <2>3 DEF RunsImportRepos
<1>8. ASSUME NEW r \in Slot, RunsImport(r)
      PROVE  fresh' \in Nat /\ fresh' >= fresh /\ \E Q : Executes(Q) /\ Fits(Q, fresh')
  <2> DEFINE p == NextPersona(r)
  <2>1. /\ req[r].at = "import_personas" /\ req[r].todo # {}
        /\ fresh' \in Nat /\ fresh' > fresh
    BY <1>8 DEF RunsImport
  <2>2. p \in req[r].payload.personas
    BY <2>1, NextPersonaIs
  <2>3. /\ p.id \in Nat \ {0} /\ p.id < fresh
        /\ p.name \in PersonaName /\ req[r].form.name \in PersonaName
    <3>1. WellFormed(req[r].payload, Exported, fresh) /\ "personas" \in Exported
          /\ req[r].form \in ImportForms
      BY <2>1 DEF Types, Carries, Importing, Exported
    <3> HIDE DEF p
    <3> QED BY <2>2, <3>1, FormsAssumption DEF WellFormed
  <2> HIDE DEF p
  <2>4. /\ Fits(CopyStmts(r, p, p.id, p.name), fresh')
        /\ Fits(CopyStmts(r, p, fresh, p.name), fresh')
        /\ Fits(CopyStmts(r, p, fresh, req[r].form.name), fresh')
    BY <1>0, <2>1, <2>2, <2>3, CopyFits
  <2>5. Fits(OverwriteStmts(p) \cup CopyStmts(r, p, fresh, p.name), fresh')
    BY <2>4, SomeFit, TablesAre DEF Fits, OverwriteStmts
  <2>6. \E Q : Executes(Q) /\ Fits(Q, fresh')
    BY <1>8, <2>4, <2>5 DEF RunsImport, p
  <2> QED BY <1>0, <2>1, <2>6
<1> QED BY <1>1, <1>2, <1>3, <1>4, <1>5, <1>6, <1>7, <1>8 DEF StepRuns, RunsRequest, Unmoved

\* More ids given out do no harm.
LEMMA LaterFits ==
  ASSUME NEW d, NEW T, NEW n \in Nat, NEW m \in Nat, n <= m, WellFormed(d, T, n)
  PROVE  WellFormed(d, T, m)
BY DEF WellFormed

LEMMA ExecutesKeeps ==
  ASSUME NEW Q, NEW next, Fits(Q, next), Executes(Q), WellFormed(db, Table, next)
  PROVE  WellFormed(db', Table, next) /\ (Consistent(db) => Consistent(db'))
<1>1. PICK B \in Seq(Q) : db' = Run(db, B).db
  BY DEF Executes
<1> DEFINE x == Run(db, B).db
<1>2. PICK U : /\ db \in U /\ x \in U
               /\ \A G : /\ db \in G
                         /\ \A d \in G, s \in Q : Exec(d, s).db \in U => Exec(d, s).db \in G
                         => x \in G
  BY RunKeeps
<1> HIDE DEF x
<1> DEFINE G == {d \in U : Tidy(d, next) /\ (Consistent(db) => Consistent(d))}
<1>3. db \in G
  BY <1>2, WellFormedIsTidy
<1>4. ASSUME NEW d \in G, NEW s \in Q, Exec(d, s).db \in U PROVE Exec(d, s).db \in G
  <2>1. Statement(s, next)
    BY DEF Fits
  <2>2. Tidy(Exec(d, s).db, next)
    BY <2>1, ExecTidy
  <2>3. Consistent(db) => Consistent(Exec(d, s).db)
    BY <2>1, ExecConsistent DEF Tidy
  <2> QED BY <1>4, <2>2, <2>3
<1>5. x \in G
  <2> HIDE DEF G
  <2> QED BY <1>2, <1>3, <1>4
<1> QED BY <1>1, <1>5, WellFormedIsTidy DEF x

LEMMA StepKeeps ==
  ASSUME Types, StepRuns
  PROVE  /\ fresh' \in Nat \ {0} /\ fresh' >= fresh
         /\ WellFormed(db', Table, fresh') /\ (Consistent(db) => Consistent(db'))
<1>1. /\ fresh' \in Nat \ {0} /\ fresh' >= fresh
      /\ db' = db \/ \E Q : Executes(Q) /\ Fits(Q, fresh')
  BY StepFits DEF Types
<1>2. WellFormed(db, Table, fresh')
  BY <1>1, LaterFits DEF Types
<1>3. CASE db' = db
  BY <1>1, <1>2, <1>3
<1>4. ASSUME NEW Q, Executes(Q), Fits(Q, fresh')
      PROVE  WellFormed(db', Table, fresh') /\ (Consistent(db) => Consistent(db'))
  BY <1>2, <1>4, ExecutesKeeps
<1> QED BY <1>1, <1>3, <1>4

---------------------------------------------------------------------------
(* Types are kept *)

\* Migrations are numbers of statements.
LEMMA StatementsAre ==
  \A i \in DOMAIN Releases :
    Len(Releases[i].statements) \in Nat /\ \A k \in 1..Len(Releases[i].statements) :
                                             Releases[i].statements[k] \in Nat \ {0}
<1> DEFINE R == [builtins : Seq(STRING), statements : Seq(Nat \ {0})]
<1>1. Releases \in Seq(R)
  BY ReleasesAssumption
<1>2. \A i \in DOMAIN Releases : Releases[i] \in R
  <2> HIDE DEF R
  <2> QED BY <1>1
<1> QED BY <1>2

\* An export is a well-formed file.
LEMMA PayloadFits ==
  ASSUME NEW n, WellFormed(db, Table, n)
  PROVE  WellFormed(Payload, Exported, n)
<1>1. Exported \subseteq Table /\ {"personas", "mounts"} \subseteq Exported
  BY DEF Exported, Table
<1>2. DOMAIN Payload = Exported /\ \A t \in Exported : Payload[t] = db[t]
  BY DEF Payload
<1>3. Payload.personas = db.personas /\ Payload.mounts = db.mounts
  BY <1>1, <1>2
<1> HIDE DEF Payload
<1>4. \A t \in Exported : IsFiniteSet(Payload[t]) /\ \A row \in Payload[t] : DOMAIN row = Column[t]
  BY <1>1, <1>2 DEF WellFormed
<1>5. \A t \in Exported \cap {"agents", "personas", "servers", "sessions"} :
        \A row \in Payload[t] : row.id \in Nat \ {0} /\ row.id < n
  BY <1>1, <1>2 DEF WellFormed
<1>6. /\ \A p \in Payload.personas : p.name \in PersonaName /\ p.ws \in Place
      /\ \A m \in Payload.mounts : m.position \in Nat
  BY <1>3 DEF WellFormed
<1> QED BY <1>2, <1>4, <1>5, <1>6 DEF WellFormed

\* Types hold at the start.
LEMMA InitTypes == CatalogInit => Types
<1> SUFFICES ASSUME CatalogInit PROVE Types
  OBVIOUS
<1>1. Releases # <<>> /\ Len(Releases) \in Nat /\ DOMAIN Releases = 1..Len(Releases)
  BY ReleasesAssumption
<1>2. release \in DOMAIN Releases
  BY <1>1 DEF CatalogInit
<1>3. WellFormed(db, Table, FirstId)
  <2>1. CASE db = EmptyDb
    BY <2>1, FS_EmptySet DEF EmptyDb, WellFormed, Table
  <2> QED BY <2>1, EstablishedAssumption DEF CatalogInit
<1>4. file # NoFile => WellFormed(file, Exported, FirstId)
  BY <1>3, PayloadFits, ForeignAssumption DEF CatalogInit
<1>5. schema \in [version : Nat, ahead : Nat, mine : Nat] /\ schema.version <= Len(Statements)
      /\ schema.mine <= schema.ahead
  BY <1>2, StatementsAre DEF CatalogInit, Statements
<1>6. DOMAIN req = Slot /\ \A r \in Slot : req[r] = Idle
  BY DEF CatalogInit
<1>7. Carries(Idle, FirstId)
  BY DEF Carries, Idle, Stage, Importing
<1>8. /\ menu \in Menu /\ phase \in {"down", "migrating", "seeding", "up", "failed"}
      /\ fresh = FirstId /\ exits = 0 /\ lock = NoRequest /\ marks = {} /\ fresh \in Nat \ {0}
  BY DEF CatalogInit, FirstId
<1> QED BY <1>2, <1>3, <1>4, <1>5, <1>6, <1>7, <1>8 DEF Types

\* What a request carries stays good while others work.
LEMMA CarriesLater ==
  ASSUME NEW q, NEW n \in Nat, NEW m \in Nat, n <= m, Carries(q, n)
  PROVE  Carries(q, m)
BY LaterFits DEF Carries

\* A step of one request keeps types when it leaves that request something good.
LEMMA RequestTypes ==
  ASSUME Types, NEW r \in Slot, phase = "up", UNCHANGED <<startup, file, exits>>,
         fresh' \in Nat \ {0}, fresh' >= fresh, WellFormed(db', Table, fresh'),
         marks' \subseteq marks \cup {"written_back", "workspace_alone", "imported"},
         NEW q, Carries(q, fresh'), req' = [req EXCEPT ![r] = q],
         lock' = NoRequest \/ (lock' = lock /\ lock # r) \/ (lock' = r /\ q.at = "import_personas")
  PROVE  Types'
<1>1. /\ UNCHANGED <<menu, release, phase, schema, file, exits>>
  BY DEF startup
<1>2. DOMAIN req' = Slot /\ req'[r] = q /\ \A s \in Slot \ {r} : req'[s] = req[s]
  BY DEF Types
<1>3. \A s \in Slot : Carries(req'[s], fresh')
  BY <1>2, CarriesLater DEF Types
<1>4. file # NoFile => WellFormed(file, Exported, fresh')
  BY LaterFits DEF Types
<1>5. lock' \in Slot \cup {NoRequest} /\ (lock' # NoRequest => req'[lock'].at = "import_personas")
  BY <1>2, NoRequestAssumption DEF Types
<1>6. Statements' = Statements
  BY <1>1 DEF Statements
<1>7. /\ menu \in Menu /\ release \in DOMAIN Releases
      /\ schema \in [version : Nat, ahead : Nat, mine : Nat]
      /\ schema.version <= Len(Statements) /\ schema.mine <= schema.ahead /\ exits \in Nat
  BY DEF Types
<1>8. marks' \subseteq {"torn_migration", "name_taken", "written_back", "workspace_alone",
                       "imported"}
  BY DEF Types
<1> QED BY <1>1, <1>2, <1>3, <1>4, <1>5, <1>6, <1>7, <1>8 DEF Types

LEMMA IdleCarries == ASSUME NEW n PROVE Carries(Idle, n)
BY DEF Carries, Idle, Stage, Importing

\* Types are kept by the steps of requests that read, and by those that write.
LEMMA StartTypes ==
  ASSUME Types, NEW r \in Slot, NEW op, NEW q, Start(r, op, q), Carries(q, fresh)
  PROVE  Types'
<1>1. /\ phase = "up" /\ UNCHANGED <<startup, file, exits>> /\ UNCHANGED <<db, fresh, lock, marks>>
      /\ req' = [req EXCEPT ![r] = q] /\ req[r] = Idle
  BY DEF Start
<1>2. lock # r
  BY <1>1, NoRequestAssumption DEF Types, Idle
<1>3. fresh' \in Nat \ {0} /\ fresh' >= fresh /\ WellFormed(db', Table, fresh')
  BY <1>1 DEF Types
<1>4. /\ Carries(q, fresh') /\ lock' = lock
      /\ marks' \subseteq marks \cup {"written_back", "workspace_alone", "imported"}
  BY <1>1
<1> QED BY <1>1, <1>2, <1>3, <1>4, RequestTypes

LEMMA KeepsTypes ==
  ASSUME Types, NEW r \in Slot, StepsKeepTables(r)
  PROVE  Types'
<1>0. fresh \in Nat \ {0} /\ WellFormed(db, Table, fresh) /\ Carries(req[r], fresh)
  BY DEF Types
<1>1. CASE StartCreate(r)
  <2>1. PICK form \in CreateForms, a \in db.agents :
          /\ MountsAllowed(form.mounts, form.ws)
          /\ Start(r, "create", [at |-> "create", form |-> form, agent |-> a.id])
    BY <1>1 DEF StartCreate
  <2> DEFINE q == [at |-> "create", form |-> form, agent |-> a.id]
  <2>2. Carries(q, fresh)
    BY <2>1 DEF Carries, Stage, Importing
  <2> QED BY <2>1, <2>2, StartTypes
<1>2. CASE StartUpdate(r)
  <2>1. PICK form \in UpdateForms, p \in db.personas :
          Start(r, "update", [at |-> "read", form |-> form, persona |-> p.id])
    BY <1>2 DEF StartUpdate
  <2> DEFINE q == [at |-> "read", form |-> form, persona |-> p.id]
  <2>2. Carries(q, fresh)
    BY DEF Carries, Stage, Importing
  <2> QED BY <2>1, <2>2, StartTypes
<1>3. CASE StartDelete(r)
  <2>1. PICK p \in db.personas : Start(r, "delete", [at |-> "delete", persona |-> p.id])
    BY <1>3 DEF StartDelete
  <2>2. Carries([at |-> "delete", persona |-> p.id], fresh)
    BY DEF Carries, Stage, Importing
  <2> QED BY <2>1, <2>2, StartTypes
<1>4. CASE StartAgent(r)
  <2>1. ASSUME NEW name, Start(r, "agents", [at |-> "new_agent", name |-> name]) PROVE Types'
    <3>1. Carries([at |-> "new_agent", name |-> name], fresh)
      BY DEF Carries, Stage, Importing
    <3> QED BY <2>1, <3>1, StartTypes
  <2>2. ASSUME NEW a \in db.agents, NEW name,
               Start(r, "agents", [at |-> "agent", agent |-> a.id, name |-> name])
        PROVE  Types'
    <3>1. a.id \in Nat \ {0} /\ a.id < fresh
      BY <1>0, TablesAre DEF WellFormed
    <3>2. Carries([at |-> "agent", agent |-> a.id, name |-> name], fresh)
      BY <3>1 DEF Carries, Stage, Importing
    <3> QED BY <2>2, <3>2, StartTypes
  <2> QED BY <1>4, <2>1, <2>2 DEF StartAgent
<1>5. CASE StartDeleteAgent(r)
  <2>1. PICK a \in db.agents : Start(r, "agents", [at |-> "delete_agent", agent |-> a.id])
    BY <1>5 DEF StartDeleteAgent
  <2>2. Carries([at |-> "delete_agent", agent |-> a.id], fresh)
    BY DEF Carries, Stage, Importing
  <2> QED BY <2>1, <2>2, StartTypes
<1>6. CASE StartImport(r)
  <2>1. PICK form \in ImportForms :
          Start(r, "import", [at |-> "import_agents", payload |-> file, form |-> form,
                              resolved |-> DetectConflicts(file)])
    BY <1>6 DEF StartImport
  <2>2. WellFormed(file, Exported, fresh)
    BY <1>6 DEF Types, StartImport
  <2> DEFINE q == [at |-> "import_agents", payload |-> file, form |-> form,
                   resolved |-> DetectConflicts(file)]
  <2>3. Carries(q, fresh)
    BY <2>2 DEF Carries, Stage, Importing
  <2> QED BY <2>1, <2>3, StartTypes
<1>7. ASSUME NEW q, Carries(q, fresh), req' = [req EXCEPT ![r] = q], phase = "up",
             UNCHANGED <<startup, file, exits>>, UNCHANGED <<db, fresh, marks>>,
             lock' = NoRequest \/ (lock' = lock /\ lock # r)
      PROVE  Types'
  <2>1. fresh' \in Nat \ {0} /\ fresh' >= fresh /\ WellFormed(db', Table, fresh')
    BY <1>0, <1>7
  <2>2. /\ Carries(q, fresh')
        /\ marks' \subseteq marks \cup {"written_back", "workspace_alone", "imported"}
    BY <1>7
  <2> QED BY <1>7, <2>1, <2>2, RequestTypes
<1>8. CASE ReadPersona(r)
  <2>1. /\ phase = "up" /\ req[r].at = "read" /\ lock \in {NoRequest, r}
        /\ UNCHANGED <<startup, file, exits>> /\ UNCHANGED <<db, fresh, marks>>
    BY <1>8 DEF ReadPersona, At
  <2>2. lock # r
    BY <2>1, NoRequestAssumption DEF Types
  <2>3. CASE Finish(r)
    BY <1>7, <2>1, <2>3, IdleCarries DEF Finish
  <2>4. ASSUME NEW saw, HasRow("personas", req[r].persona), saw = RowOf("personas", req[r].persona),
               GoTo(r, [at |-> "update", form |-> req[r].form, saw |-> saw]),
               req[r].form.mounts # Keep =>
                 MountsAllowed(req[r].form.mounts,
                               IF req[r].form.ws = Keep THEN saw.ws ELSE req[r].form.ws)
        PROVE  Types'
    <3> DEFINE q == [at |-> "update", form |-> req[r].form, saw |-> saw]
    <3>1. saw \in db["personas"]
      BY <2>4 DEF HasRow, RowOf
    <3>2. saw.id \in Nat \ {0} /\ saw.id < fresh /\ saw.name \in PersonaName /\ saw.ws \in Place
      BY <1>0, <3>1, TablesAre DEF WellFormed
    <3>3. req[r].form \in UpdateForms
      BY <1>0, <2>1 DEF Carries
    <3>4. Carries(q, fresh)
      BY <2>4, <3>2, <3>3 DEF Carries, Stage, Importing, WsOf
    <3>5. req' = [req EXCEPT ![r] = q] /\ lock' = lock
      BY <2>4 DEF GoTo
    <3> QED BY <1>7, <2>1, <2>2, <3>4, <3>5
  <2> QED BY <1>8, <2>3, <2>4 DEF ReadPersona
<1>9. CASE PersonasImported(r)
  <2> DEFINE q == [at |-> "import_repos", payload |-> req[r].payload, map |-> req[r].map]
  <2>1. /\ phase = "up" /\ req[r].at = "import_personas"
        /\ UNCHANGED <<startup, file, exits>> /\ UNCHANGED <<db, fresh, marks>>
        /\ req' = [req EXCEPT ![r] = q] /\ lock' = NoRequest
    BY <1>9 DEF PersonasImported, At
  <2>2. Carries(q, fresh)
    BY <1>0, <2>1 DEF Carries, Stage, Importing
  <2> QED BY <1>7, <2>1, <2>2
<1> QED BY <1>1, <1>2, <1>3, <1>4, <1>5, <1>6, <1>8, <1>9 DEF StepsKeepTables

LEMMA RunTypes ==
  ASSUME Types, NEW r \in Slot, StepsRun(r)
  PROVE  Types'
<1>0. /\ phase = "up" /\ UNCHANGED <<startup, file, exits>>
      /\ fresh' \in Nat \ {0} /\ fresh' >= fresh /\ WellFormed(db', Table, fresh')
      /\ fresh \in Nat \ {0}
  BY RequestRuns, StepKeeps DEF Types
<1>1. ASSUME NEW q, Carries(q, fresh'), req' = [req EXCEPT ![r] = q],
             marks' \subseteq marks \cup {"written_back", "workspace_alone", "imported"},
             \/ lock' = NoRequest \/ (lock' = lock /\ lock # r)
             \/ lock' = r /\ q.at = "import_personas"
      PROVE  Types'
  BY <1>0, <1>1, RequestTypes
<1>2. ASSUME Finish(r),
             marks' \subseteq marks \cup {"written_back", "workspace_alone", "imported"}
      PROVE  Types'
  BY <1>1, <1>2, IdleCarries DEF Finish
<1>3. CASE Create(r) \/ DeletePersona(r) \/ WriteAgent(r) \/ DeleteAgent(r) \/ ImportRepos(r)
  <2>1. Finish(r) /\ marks' = marks
    BY <1>3 DEF Create, DeletePersona, WriteAgent, DeleteAgent, ImportRepos
  <2> QED BY <1>2, <2>1
<1>4. CASE UpdatePersona(r)
  BY <1>2, <1>4 DEF UpdatePersona, Unchecked
<1>5. CASE ImportAgents(r)
  <2> DEFINE q == [at |-> "import_personas", payload |-> req[r].payload, form |-> req[r].form,
                   resolved |-> req[r].resolved, todo |-> req[r].payload.personas, map |-> {}]
  <2>1. req[r].at = "import_agents" /\ lock \in {NoRequest, r} /\ marks' = marks
        /\ (Finish(r) \/ GoTo(r, q))
    BY <1>5 DEF ImportAgents, At
  <2>2. lock # r
    BY <2>1, NoRequestAssumption DEF Types
  <2>3. Carries(req[r], fresh')
    BY <1>0, CarriesLater DEF Types
  <2>4. Carries(q, fresh')
    BY <2>1, <2>3, FS_EmptySet DEF Carries, Stage, Importing
  <2>5. CASE GoTo(r, q)
    <3>1. req' = [req EXCEPT ![r] = q] /\ lock' = lock
      BY <2>5 DEF GoTo
    <3> QED BY <1>1, <2>1, <2>2, <2>4, <3>1
  <2> QED BY <1>2, <2>1, <2>5
<1>6. CASE ImportPersona(r)
  <2> DEFINE p == NextPersona(r)
             q == [req[r] EXCEPT !.todo = @ \ {p}, !.map = @ \cup ImportedAs(r, p)]
  <2>1. /\ req[r].at = "import_personas" /\ req[r].todo # {}
        /\ marks' = marks \cup Unlooked(r, p)
        /\ \/ Finish(r)
           \/ /\ req' = [req EXCEPT ![r].todo = @ \ {p}, ![r].map = @ \cup ImportedAs(r, p)]
              /\ lock' = r
    BY <1>6 DEF ImportPersona, At
  <2>2. marks' \subseteq marks \cup {"written_back", "workspace_alone", "imported"}
    BY <2>1 DEF Unlooked
  <2>3. CASE /\ req' = [req EXCEPT ![r].todo = @ \ {p}, ![r].map = @ \cup ImportedAs(r, p)]
             /\ lock' = r
    <3>1. /\ DOMAIN req[r] = {"at", "payload", "form", "resolved", "todo", "map"}
          /\ req[r].todo \subseteq req[r].payload.personas /\ Carries(req[r], fresh)
          /\ IsFiniteSet(req[r].map) /\ \A m \in req[r].map : m[2] \in Nat
      BY <2>1 DEF Types, Carries
    <3>2. req' = [req EXCEPT ![r] = q]
      BY <2>3 DEF Types
    <3>3. /\ q.at = "import_personas" /\ q.payload = req[r].payload /\ q.form = req[r].form
          /\ q.todo = req[r].todo \ {p} /\ q.map = req[r].map \cup ImportedAs(r, p)
          /\ DOMAIN q = {"at", "payload", "form", "resolved", "todo", "map"}
      BY <2>1, <3>1
    <3>4. p \in req[r].payload.personas
      BY <2>1, NextPersonaIs
    <3>5. p.id \in Nat
      <4>1. WellFormed(req[r].payload, Exported, fresh) /\ "personas" \in Exported
        BY <2>1, <3>1 DEF Carries, Importing, Exported
      <4> HIDE DEF p
      <4> QED BY <3>4, <4>1 DEF WellFormed
    <3>6. IsFiniteSet(q.map) /\ \A m \in q.map : m[2] \in Nat
      <4>1. IsFiniteSet({<<p.id, p.id>>}) /\ IsFiniteSet({<<p.id, fresh>>}) /\ IsFiniteSet({})
        BY FS_Singleton, FS_EmptySet
      <4>2. IsFiniteSet(ImportedAs(r, p)) /\ \A m \in ImportedAs(r, p) : m[2] \in Nat
        <5> HIDE DEF p
        <5> QED BY <1>0, <3>5, <4>1 DEF ImportedAs
      <4>3. IsFiniteSet(req[r].map \cup ImportedAs(r, p))
        BY <3>1, <4>2, FS_Union
      <4> HIDE DEF p, q
      <4>4. q.map = req[r].map \cup ImportedAs(r, p)
        BY <3>3
      <4>5. \A m \in req[r].map \cup ImportedAs(r, p) : m[2] \in Nat
        BY <3>1, <4>2
      <4> QED BY <4>3, <4>4, <4>5
    <3>7. Carries(q, fresh)
      <4> HIDE DEF p, q
      <4> QED BY <2>1, <3>1, <3>3, <3>6 DEF Carries, Stage, Importing
    <3>8. Carries(q, fresh')
      BY <1>0, <3>7, CarriesLater
    <3> HIDE DEF q, p
    <3> QED BY <1>1, <2>2, <2>3, <3>2, <3>3, <3>8
  <2> QED BY <1>2, <2>1, <2>2, <2>3
<1> QED BY <1>3, <1>4, <1>5, <1>6 DEF StepsRun

\* Types are kept by the start and the end of the process, and by an upgrade.
LEMMA IdleTypes ==
  ASSUME Types, DOMAIN req' = Slot, \A r \in Slot : req'[r] = Idle, lock' = NoRequest,
         UNCHANGED <<menu, file>>,
         release' \in DOMAIN Releases,
         phase' \in {"down", "migrating", "seeding", "up", "failed"},
         schema' \in [version : Nat, ahead : Nat, mine : Nat], schema'.mine <= schema'.ahead,
         schema'.version <= Len(Releases[release'].statements), exits' \in Nat,
         fresh' \in Nat \ {0}, fresh' >= fresh, WellFormed(db', Table, fresh'),
         marks' \subseteq {"torn_migration", "name_taken", "written_back", "workspace_alone",
                           "imported"}
  PROVE  Types'
<1>1. fresh \in Nat \ {0} /\ menu \in Menu /\ (file # NoFile => WellFormed(file, Exported, fresh))
  BY DEF Types
<1>2. file # NoFile => WellFormed(file, Exported, fresh')
  BY <1>1, LaterFits
<1>3. DOMAIN req' = Slot /\ \A r \in Slot : req'[r] = Idle /\ Carries(req'[r], fresh')
  BY IdleCarries
<1> QED BY <1>1, <1>2, <1>3 DEF Types, Statements

LEMMA SystemTypes ==
  ASSUME Types,
         Open \/ Migrate \/ RecordVersion \/ Migrated \/ Seed \/ Exit \/ ExitInside \/ Upgrade
  PROVE  Types'
<1>0. /\ menu \in Menu /\ release \in DOMAIN Releases /\ fresh \in Nat \ {0}
      /\ schema \in [version : Nat, ahead : Nat, mine : Nat] /\ schema.mine <= schema.ahead
      /\ schema.version <= Len(Statements) /\ exits \in Nat
      /\ WellFormed(db, Table, fresh) /\ DOMAIN req = Slot
      /\ phase # "up" => \A r \in Slot : req[r] = Idle
      /\ lock \in Slot \cup {NoRequest} /\ (lock # NoRequest => req[lock].at = "import_personas")
      /\ marks \subseteq {"torn_migration", "name_taken", "written_back", "workspace_alone",
                          "imported"}
  BY DEF Types
<1>1. ASSUME phase # "up"
      PROVE  DOMAIN req = Slot /\ (\A r \in Slot : req[r] = Idle) /\ lock = NoRequest
  BY <1>0, <1>1 DEF Idle
<1>2. Len(Statements) \in Nat /\ \A k \in 1..Len(Statements) : Statements[k] \in Nat \ {0}
  BY <1>0, StatementsAre DEF Statements
<1>3. fresh' \in Nat \ {0} /\ fresh' >= fresh /\ WellFormed(db', Table, fresh')
  <2>1. CatalogNext
    BY DEF CatalogNext
  <2> QED BY <2>1, NextRuns, StepKeeps
<1>4. CASE Open
  <2>1. /\ phase # "up" /\ UNCHANGED <<menu, release, lock, req, file, exits, marks>>
        /\ phase' = "migrating" /\ schema' = [schema EXCEPT !.mine = 0]
    BY <1>4 DEF Open
  <2>2. schema' \in [version : Nat, ahead : Nat, mine : Nat] /\ schema'.mine <= schema'.ahead
        /\ schema'.version = schema.version
    BY <1>0, <2>1
  <2> QED BY <1>0, <1>1, <1>3, <2>1, <2>2, IdleTypes DEF Statements
<1>5. CASE Migrate
  <2>1. /\ phase # "up" /\ UNCHANGED <<menu, release, lock, req, file, exits, marks>>
        /\ phase' \in {"failed", "migrating"}
        /\ schema' = schema \/ schema' = [schema EXCEPT !.ahead = @ + 1, !.mine = @ + 1]
    BY <1>5 DEF Migrate
  <2>2. schema' \in [version : Nat, ahead : Nat, mine : Nat] /\ schema'.mine <= schema'.ahead
        /\ schema'.version = schema.version
    <3>1. CASE schema' = schema
      BY <1>0, <3>1
    <3>2. CASE schema' = [schema EXCEPT !.ahead = @ + 1, !.mine = @ + 1]
      <4>2. schema.ahead \in Nat /\ schema.mine \in Nat
        BY <1>0
      <4>1. /\ schema' \in [version : Nat, ahead : Nat, mine : Nat]
            /\ schema'.version = schema.version
            /\ schema'.ahead = schema.ahead + 1 /\ schema'.mine = schema.mine + 1
        <5> DEFINE a == schema.ahead + 1
                   m == schema.mine + 1
        <5>1. a \in Nat /\ m \in Nat /\ schema' = [schema EXCEPT !.ahead = a, !.mine = m]
          BY <3>2, <4>2
        <5> HIDE DEF a, m
        <5>2. /\ schema' \in [version : Nat, ahead : Nat, mine : Nat]
              /\ schema'.version = schema.version /\ schema'.ahead = a /\ schema'.mine = m
          BY <1>0, <5>1
        <5> QED BY <5>2 DEF a, m
      <4> QED BY <1>0, <4>1, <4>2
    <3> QED BY <2>1, <3>1, <3>2
  <2> QED BY <1>0, <1>1, <1>3, <2>1, <2>2, IdleTypes DEF Statements
<1>6. CASE RecordVersion
  <2>1. /\ phase # "up" /\ UNCHANGED <<menu, release, phase, lock, req, file, exits, marks>>
        /\ phase = "migrating" /\ schema.version < Len(Statements)
        /\ schema' = [version |-> schema.version + 1, ahead |-> 0, mine |-> 0]
    BY <1>6 DEF RecordVersion, Pending
  <2>2. schema' \in [version : Nat, ahead : Nat, mine : Nat] /\ schema'.mine <= schema'.ahead
        /\ schema'.version <= Len(Statements)
    BY <1>0, <1>2, <2>1
  <2> QED BY <1>0, <1>1, <1>3, <2>1, <2>2, IdleTypes DEF Statements
<1>7. CASE Migrated
  <2>1. /\ phase # "up" /\ UNCHANGED <<menu, release, schema, lock, req, file, exits, marks>>
        /\ phase' = "seeding"
    BY <1>7 DEF Migrated
  <2> QED BY <1>0, <1>1, <1>3, <2>1, IdleTypes DEF Statements
<1>8. CASE Seed
  <2>1. /\ phase # "up" /\ UNCHANGED <<menu, release, schema, lock, req, file, exits>>
        /\ phase' = "up" /\ marks' \subseteq marks \cup {"name_taken"}
    BY <1>8 DEF Seed
  <2> QED BY <1>0, <1>1, <1>3, <2>1, IdleTypes DEF Statements
<1>9. CASE Exit
  <2>1. /\ UNCHANGED <<menu, release, schema, file>> /\ phase' = "down" /\ exits' = exits + 1
        /\ lock' = NoRequest /\ DOMAIN req' = Slot /\ \A r \in Slot : req'[r] = Idle
        /\ marks' \subseteq marks \cup {"torn_migration"}
    BY <1>9 DEF Exit, Ended
  <2> QED BY <1>0, <1>3, <2>1, IdleTypes DEF Statements
<1>10. CASE ExitInside
  <2>1. /\ UNCHANGED <<menu, release, schema, file>> /\ phase' = "down" /\ exits' = exits + 1
        /\ lock' = NoRequest /\ DOMAIN req' = Slot /\ \A r \in Slot : req'[r] = Idle
    BY <1>10 DEF ExitInside, Ended
  <2>2. marks' \subseteq marks \cup {"written_back", "workspace_alone", "imported"}
    BY <1>10 DEF ExitInside, Unchecked, Unlooked
  <2> QED BY <1>0, <1>3, <2>1, <2>2, IdleTypes DEF Statements
<1>11. CASE Upgrade
  <2>1. /\ phase = "down" /\ UNCHANGED <<menu, phase, schema, lock, req, file, exits, marks>>
        /\ release < Len(Releases) /\ release' = release + 1
    BY <1>11 DEF Upgrade
  <2>2. release' \in DOMAIN Releases /\ release \in 1..release'
        /\ DOMAIN Releases = 1..Len(Releases) /\ Len(Releases) \in Nat
    <3>1. DOMAIN Releases = 1..Len(Releases) /\ Len(Releases) \in Nat
      BY ReleasesAssumption
    <3> QED BY <1>0, <2>1, <3>1
  <2>3. Len(Releases[release].statements) <= Len(Releases[release'].statements)
    BY <2>2, ReleasesAssumption
  <2>4. schema'.version <= Len(Releases[release'].statements)
    <3>1. Len(Releases[release'].statements) \in Nat
      BY <2>2, StatementsAre
    <3> QED BY <1>0, <1>2, <2>1, <2>3, <3>1 DEF Statements
  <2>5. /\ schema' \in [version : Nat, ahead : Nat, mine : Nat] /\ schema'.mine <= schema'.ahead
        /\ DOMAIN req' = Slot /\ (\A r \in Slot : req'[r] = Idle) /\ lock' = NoRequest
    BY <1>0, <1>1, <2>1
  <2> QED BY <1>0, <1>3, <2>1, <2>2, <2>4, <2>5, IdleTypes
<1> QED BY <1>4, <1>5, <1>6, <1>7, <1>8, <1>9, <1>10, <1>11

\* Types are kept by an export and by a session.
LEMMA OtherTypes ==
  ASSUME Types, Export \/ SessionEvent
  PROVE  Types'
<1>1. fresh' \in Nat \ {0} /\ fresh' >= fresh /\ WellFormed(db', Table, fresh')
  <2>1. CatalogNext
    BY DEF CatalogNext
  <2> QED BY <2>1, NextRuns, StepKeeps
<1>2. UNCHANGED <<menu, release, phase, schema, lock, req, exits, marks>>
  BY DEF Export, SessionEvent, startup
<1>3. file' = file \/ file' = Payload
  BY DEF Export, SessionEvent
<1>4. /\ fresh \in Nat /\ WellFormed(db, Table, fresh)
      /\ file # NoFile => WellFormed(file, Exported, fresh)
  BY DEF Types
<1>5. file' # NoFile => WellFormed(file', Exported, fresh')
  <2>1. WellFormed(Payload, Exported, fresh)
    BY <1>4, PayloadFits
  <2> QED BY <1>1, <1>3, <1>4, <2>1, LaterFits
<1>6. \A r \in Slot : Carries(req[r], fresh')
  BY <1>1, <1>4, CarriesLater DEF Types
<1> QED BY <1>1, <1>2, <1>5, <1>6 DEF Types, Statements

\* Every step keeps types.
LEMMA NextTypes == Types /\ [CatalogNext]_catalogVars => Types'
<1> SUFFICES ASSUME Types, [CatalogNext]_catalogVars PROVE Types'
  OBVIOUS
<1>1. CASE UNCHANGED catalogVars
  BY <1>1 DEF catalogVars, Types, Statements
<1>2. ASSUME NEW r \in Slot, RequestStep(r) PROVE Types'
  BY <1>2, StepsAre, KeepsTypes, RunTypes
<1> QED BY <1>1, <1>2, SystemTypes, OtherTypes DEF CatalogNext

\* A new database and the established ones are consistent.
LEMMA InitConsistent == CatalogInit => Consistent(db)
<1> SUFFICES ASSUME CatalogInit PROVE Consistent(db)
  OBVIOUS
<1>1. CASE db = EmptyDb
  BY <1>1 DEF EmptyDb, Consistent
<1> QED BY <1>1, EstablishedAssumption DEF CatalogInit

\* Types hold and tables are consistent, always.
LEMMA AlwaysTypes == CatalogSpec => [](Types /\ Consistent(db))
<1>1. CatalogInit => Types /\ Consistent(db)
  BY InitTypes, InitConsistent
<1>2. Types /\ Consistent(db) /\ [CatalogNext]_catalogVars => Types' /\ Consistent(db)'
  <2> SUFFICES ASSUME Types, Consistent(db), [CatalogNext]_catalogVars
               PROVE  Types' /\ Consistent(db')
    BY DEF Consistent, Clashes, Dangles
  <2>1. Types'
    BY NextTypes
  <2>2. Consistent(db')
    BY NextRuns, StepKeeps DEF catalogVars
  <2> QED BY <2>1, <2>2
<1> QED BY <1>1, <1>2, PTL DEF CatalogSpec

\* The variables of the catalog keep their types: migrations, requests, tables and files.
THEOREM CatalogTypesCorrect == CatalogSpec => []CatalogTypeOK
<1>1. Types => CatalogTypeOK
  BY DEF Types, CatalogTypeOK
<1> QED BY <1>1, AlwaysTypes, PTL

\* No two rows of a table share a primary key or a unique name, and no reference
\* dangles, whatever closures interleave and wherever the process ends (the PRIMARY KEY,
\* UNIQUE and FOREIGN KEY clauses of db.rs under PRAGMA foreign_keys).
THEOREM CatalogConsistent == CatalogSpec => []TablesConsistent
<1>1. Consistent(db) => TablesConsistent
  BY DEF TablesConsistent
<1> QED BY <1>1, AlwaysTypes, PTL

---------------------------------------------------------------------------
(* Starting *)

\* A statement of a migration without its row in schema_version is this
\* process's own, or one of a process that ended between them.
Torn == "torn_migration" \in marks
StartFacts ==
  /\ phase = "migrating" /\ schema.ahead > schema.mine => Torn
  /\ phase = "migrating" /\ ~Pending => schema.mine = 0
  /\ phase # "migrating" /\ schema.ahead > 0 => Torn
  /\ phase = "failed" => Torn

\* A new database has no torn migration.
LEMMA StartFactsInit == CatalogInit => StartFacts
BY DEF CatalogInit, StartFacts, Pending

\* A statement ahead of schema_version is accounted for by every step.
LEMMA StartFactsNext == Types /\ StartFacts /\ [CatalogNext]_catalogVars => StartFacts'
<1> SUFFICES ASSUME Types, StartFacts, [CatalogNext]_catalogVars PROVE StartFacts'
  OBVIOUS
<1>0. /\ schema \in [version : Nat, ahead : Nat, mine : Nat] /\ schema.mine <= schema.ahead
      /\ schema.version <= Len(Statements) /\ release \in DOMAIN Releases
  BY DEF Types
<1>1. Len(Statements) \in Nat
  BY <1>0, StatementsAre DEF Statements
<1>2. ASSUME UNCHANGED startup, Torn => Torn' PROVE StartFacts'
  BY <1>2 DEF startup, StartFacts, Pending, Statements
<1>3. CASE Open
  BY <1>0, <1>3 DEF Open, StartFacts, Torn
<1>4. CASE Migrate
  <2>1. phase = "migrating" /\ Pending /\ marks' = marks /\ release' = release
    BY <1>4 DEF Migrate
  <2>2. CASE schema.ahead > schema.mine
    <3>1. phase' = "failed" /\ schema' = schema
      BY <1>4, <2>2 DEF Migrate
    <3> QED BY <2>1, <2>2, <3>1 DEF StartFacts, Torn
  <2>3. CASE ~(schema.ahead > schema.mine)
    <3>1. phase' = phase /\ schema' = [schema EXCEPT !.ahead = @ + 1, !.mine = @ + 1]
      BY <1>4, <2>3 DEF Migrate
    <3>2. /\ schema'.version = schema.version
          /\ schema'.ahead = schema.ahead + 1 /\ schema'.mine = schema.mine + 1
          /\ schema.ahead \in Nat /\ schema.mine \in Nat
      BY <1>0, <3>1
    <3>3. ~(schema'.ahead > schema'.mine)
      BY <2>3, <3>2
    <3>4. Pending'
      BY <2>1, <3>2 DEF Pending, Statements
    <3> QED BY <2>1, <3>1, <3>3, <3>4 DEF StartFacts, Torn
  <2> QED BY <2>2, <2>3
<1>5. CASE RecordVersion
  BY <1>5 DEF RecordVersion, StartFacts, Torn
<1>6. CASE Migrated
  BY <1>0, <1>6 DEF Migrated, StartFacts, Torn
<1>7. CASE Seed
  <2>1. phase = "seeding" /\ phase' = "up" /\ schema' = schema /\ (Torn => Torn')
    BY <1>7 DEF Seed, Torn
  <2> QED BY <2>1 DEF StartFacts
<1>8. CASE Exit
  <2>1. /\ phase' = "down" /\ schema' = schema /\ (Torn => Torn')
        /\ phase = "migrating" /\ schema.ahead > 0 => Torn'
    BY <1>8 DEF Exit, Ended, Torn
  <2> QED BY <2>1 DEF StartFacts
<1>9. CASE ExitInside
  <2>1. phase' = "down" /\ schema' = schema /\ (Torn => Torn') /\ phase # "migrating"
    BY <1>9 DEF ExitInside, Ended, Torn
  <2> QED BY <2>1 DEF StartFacts
<1>10. CASE Upgrade
  <2>1. phase = "down" /\ UNCHANGED <<phase, schema, marks>>
    BY <1>10 DEF Upgrade
  <2> QED BY <2>1 DEF StartFacts, Torn
<1>11. CASE Export \/ SessionEvent
  BY <1>2, <1>11 DEF Export, SessionEvent, Torn
<1>12. ASSUME NEW r \in Slot, RequestStep(r) PROVE StartFacts'
  <2>1. CASE StepsKeepTables(r)
    BY <1>2, <2>1, KeepsTables DEF Torn
  <2>2. CASE StepsRun(r)
    <3>1. marks \subseteq marks'
      BY <2>2 DEF StepsRun, Create, DeletePersona, WriteAgent, DeleteAgent, ImportRepos,
                  UpdatePersona, ImportAgents, ImportPersona
    <3> QED BY <1>2, <2>2, <3>1, RequestRuns DEF Torn
  <2> QED BY <1>12, <2>1, <2>2, StepsAre
<1>13. CASE UNCHANGED catalogVars
  BY <1>2, <1>13 DEF catalogVars, startup, Torn
<1> QED BY <1>3, <1>4, <1>5, <1>6, <1>7, <1>8, <1>9, <1>10, <1>11, <1>12, <1>13 DEF CatalogNext

\* A start fails only over a migration of which a process that ended executed the
\* statement and not recorded the version (run_migrations in db.rs).
THEOREM CatalogStarts == CatalogSpec => []StartSucceeds
<1>1. StartFacts => StartSucceeds
  BY DEF StartFacts, StartSucceeds, Torn
<1> QED BY <1>1, AlwaysTypes, StartFactsInit, StartFactsNext, PTL DEF CatalogSpec

---------------------------------------------------------------------------
(* Built-in agents *)

\* A deletion reaches another table only from personas to what belongs to them.
LEMMA CascadesTo ==
  ASSUME NEW d, NEW t, NEW gone, Unreferred(d, t, gone), NEW u
  PROVE  /\ t # "personas" \/ u \notin {"servers", "mounts", "repos"} =>
              Cascaded(d, t, u, gone) = {}
         /\ t = "personas" /\ u \in {"servers", "mounts", "repos"} =>
              Cascaded(d, t, u, gone) = {r \in d[u] : \E g \in gone : r.persona = g.id}
<1>1. \A f \in References :
        /\ f.cascade => f.from \in {"servers", "mounts", "repos"} /\ f.to = "personas"
        /\ f.from \in {"servers", "mounts", "repos"} => f.column = "persona" /\ f.to = "personas"
  BY DEF References, Refers
<1>2. ASSUME t # "personas" \/ u \notin {"servers", "mounts", "repos"}
      PROVE  Cascaded(d, t, u, gone) = {}
  <2> SUFFICES ASSUME NEW f \in References, f.to = t, f.from = u PROVE Referring(d, f, gone) = {}
    BY DEF Cascaded
  <2>1. ~f.cascade
    BY <1>1, <1>2
  <2> QED BY <2>1 DEF Unreferred
<1>3. ASSUME t = "personas", u \in {"servers", "mounts", "repos"}
      PROVE  Cascaded(d, t, u, gone) = {r \in d[u] : \E g \in gone : r.persona = g.id}
  <2>1. \E f \in References : f.to = t /\ f.from = u
    BY <1>3 DEF References, Refers
  <2>2. \A f \in References : f.to = t /\ f.from = u =>
          Referring(d, f, gone) = {r \in d[u] : \E g \in gone : r.persona = g.id}
    BY <1>1, <1>3 DEF Referring
  <2> QED BY <2>1, <2>2 DEF Cascaded
<1> QED BY <1>2, <1>3

\* The built-in agents of the database.
BuiltinRows(d) == {a \in d["agents"] : a.builtin}

\* A statement that leaves the built-in agents B alone.
Spares(s, B) ==
  \/ \E t \in Table \ {"agents"} : \E row : s = Inserts(t, row)
  \/ \E t \in Table \ {"agents"} : \E row, needed : s = Updates(t, row, needed)
  \/ \E t \in Table \ {"agents"} : \E c, v, needed : s = Deletes(t, c, v, needed)
  \/ \E row : ~row.builtin /\ s = Inserts("agents", row)
  \/ \E row, needed : /\ ~row.builtin /\ \A a \in B : a.id # row.id
                      /\ s = Updates("agents", row, needed)
  \/ \E v, needed : (\A a \in B : a.id # v) /\ s = Deletes("agents", "id", v, needed)

\* Such a statement, and any number of them, leave the built-in agents alone.
LEMMA ExecSpares ==
  ASSUME NEW d, DOMAIN d = Table, NEW s, Spares(s, BuiltinRows(d))
  PROVE  DOMAIN Exec(d, s).db = Table /\ BuiltinRows(Exec(d, s).db) = BuiltinRows(d)
<1> DEFINE e == Exec(d, s)
           B == BuiltinRows(d)
<1>0. "agents" \in Table
  BY TablesAre
<1>1. ASSUME NEW t \in Table, NEW row, s = Inserts(t, row), t = "agents" => ~row.builtin
      PROVE  DOMAIN e.db = Table /\ BuiltinRows(e.db) = B
  <2>1. Added(d, e, t, row)
    BY <1>1, ExecInserts
  <2> HIDE DEF e
  <2>2. /\ DOMAIN e.db = Table /\ \A u \in Table \ {t} : e.db[u] = d[u]
        /\ e.db[t] = d[t] \/ e.db[t] = d[t] \cup {row}
    BY <2>1, AddedIs
  <2> QED BY <1>0, <1>1, <2>2 DEF BuiltinRows
<1>2. ASSUME NEW t \in Table, NEW row, NEW needed, s = Updates(t, row, needed),
             t = "agents" => ~row.builtin /\ \A a \in B : a.id # row.id
      PROVE  DOMAIN e.db = Table /\ BuiltinRows(e.db) = B
  <2>1. Replaced(d, e, t, row)
    BY <1>2, ExecUpdates
  <2> HIDE DEF e
  <2>2. /\ DOMAIN e.db = Table /\ \A u \in Table \ {t} : e.db[u] = d[u]
        /\ e.db[t] = d[t] \/ e.db[t] = Others(d, t, row) \cup {row}
    BY <2>1, ReplacedIs
  <2> QED BY <1>0, <1>2, <2>2 DEF BuiltinRows, Others
<1>3. ASSUME NEW t \in Table, NEW c, NEW v, NEW needed, s = Deletes(t, c, v, needed),
             t = "agents" => c = "id" /\ \A a \in B : a.id # v
      PROVE  DOMAIN e.db = Table /\ BuiltinRows(e.db) = B
  <2> DEFINE gone == Having(d, t, c, v)
  <2>1. Taken(d, e, t, gone)
    BY <1>3, ExecDeletes
  <2>2. t = "agents" => \A a \in B : a \notin gone
    BY <1>3 DEF Having, BuiltinRows
  <2> HIDE DEF e, gone
  <2>3. /\ DOMAIN e.db = Table
        /\ \/ e.db = d
           \/ /\ e.db[t] = d[t] \ gone /\ Unreferred(d, t, gone)
              /\ \A u \in Table \ {t} : e.db[u] = d[u] \ Cascaded(d, t, u, gone)
    BY <2>1, TakenIs
  <2>4. CASE e.db = d
    BY <2>3, <2>4
  <2>5. CASE /\ e.db[t] = d[t] \ gone /\ Unreferred(d, t, gone)
             /\ \A u \in Table \ {t} : e.db[u] = d[u] \ Cascaded(d, t, u, gone)
    <3>1. Cascaded(d, t, "agents", gone) = {}
      BY <2>5, CascadesTo
    <3>2. e.db["agents"] = IF t = "agents" THEN d["agents"] \ gone ELSE d["agents"]
      BY <1>0, <2>5, <3>1
    <3> QED BY <2>2, <2>3, <3>2 DEF BuiltinRows
  <2> QED BY <2>3, <2>4, <2>5
<1> QED BY <1>0, <1>1, <1>2, <1>3 DEF Spares

LEMMA ExecutesSpares ==
  ASSUME NEW Q, Executes(Q), DOMAIN db = Table, \A s \in Q : Spares(s, BuiltinRows(db))
  PROVE  BuiltinRows(db') = BuiltinRows(db)
<1>1. PICK B \in Seq(Q) : db' = Run(db, B).db
  BY DEF Executes
<1> DEFINE x == Run(db, B).db
<1>2. PICK U : /\ db \in U /\ x \in U
               /\ \A G : /\ db \in G
                         /\ \A d \in G, s \in Q : Exec(d, s).db \in U => Exec(d, s).db \in G
                         => x \in G
  BY RunKeeps
<1> HIDE DEF x
<1> DEFINE G == {d \in U : DOMAIN d = Table /\ BuiltinRows(d) = BuiltinRows(db)}
<1>3. db \in G
  BY <1>2
<1>4. ASSUME NEW d \in G, NEW s \in Q, Exec(d, s).db \in U PROVE Exec(d, s).db \in G
  BY <1>4, ExecSpares
<1>5. x \in G
  <2> HIDE DEF G
  <2> QED BY <1>2, <1>3, <1>4
<1> QED BY <1>1, <1>5 DEF x

\* Requests under way change no built-in agent.
AgentsChosen ==
  \A r \in Slot : req[r].at \in {"agent", "delete_agent"} =>
                    \A a \in BuiltinRows(db) : a.id # req[r].agent

\* Once the application is up, no step changes a built-in agent.
LEMMA StepSpares ==
  ASSUME Types, AgentsChosen, phase = "up", StepRuns
  PROVE  BuiltinRows(db') = BuiltinRows(db)
<1> DEFINE B == BuiltinRows(db)
<1>0. DOMAIN db = Table
  BY DEF Types, WellFormed
<1>1. ASSUME NEW t \in Table \ {"agents"}, NEW row, NEW c, NEW v, NEW needed
      PROVE  /\ Spares(Inserts(t, row), B) /\ Spares(Updates(t, row, needed), B)
             /\ Spares(Deletes(t, c, v, needed), B)
  BY DEF Spares
<1>2. /\ "personas" \in Table \ {"agents"} /\ "servers" \in Table \ {"agents"}
      /\ "mounts" \in Table \ {"agents"} /\ "sessions" \in Table \ {"agents"}
      /\ "repos" \in Table \ {"agents"}
  BY DEF Table
<1>3. ASSUME NEW t \in Table \ {"agents"}, NEW R PROVE \A s \in Ins(t, R) : Spares(s, B)
  BY <1>1 DEF Ins
<1>4. ASSUME NEW r \in Slot, NEW p, NEW id, NEW name
      PROVE  \A s \in CopyStmts(r, p, id, name) : Spares(s, B)
  BY <1>2, <1>3 DEF CopyStmts
<1>5. \E Q : db' = db \/ (Executes(Q) /\ \A s \in Q : Spares(s, B))
  <2>1. CASE RunsSession
    <3>1. \A s \in {Inserts("sessions", [id |-> fresh, persona |-> p.id, active |-> TRUE]) :
                      p \in db.personas}
               \cup {Updates("sessions", [x EXCEPT !.active = FALSE], FALSE) : x \in db.sessions} :
            Spares(s, B)
      BY <1>1, <1>2
    <3>2. CASE \E p \in db.personas :
                 Executes({Inserts("sessions", [id |-> fresh, persona |-> p.id, active |-> TRUE])})
      BY <3>1, <3>2
    <3>3. CASE \E x \in db.sessions :
                 Executes({Updates("sessions", [x EXCEPT !.active = FALSE], FALSE)})
      BY <3>1, <3>3
    <3> QED BY <2>1, <3>2, <3>3 DEF RunsSession
  <2>2. ASSUME NEW r \in Slot, RunsRequest(r)
        PROVE  \E Q : Executes(Q) /\ \A s \in Q : Spares(s, B)
    <3>1. CASE RunsCreate(r)
      <4>1. Executes(CreateStmts(r))
        BY <3>1 DEF RunsCreate
      <4>2. \A s \in CreateStmts(r) : Spares(s, B)
        BY <1>2, <1>3 DEF CreateStmts
      <4> QED BY <4>1, <4>2
    <3>2. CASE RunsUpdate(r)
      <4>1. Executes(UpdateStmts(r))
        BY <3>2 DEF RunsUpdate
      <4>2. \A s \in UpdateStmts(r) : Spares(s, B)
        <5> DEFINE row == Updated(r)
        <5>1. /\ Spares(Updates("personas", row, FALSE), B)
              /\ \A v : Spares(Deletes("servers", "id", v, TRUE), B)
              /\ Spares(Deletes("mounts", "persona", row.id, FALSE), B)
          BY <1>1, <1>2
        <5>2. /\ \A s \in Ins("servers", ServerRows(row.id, req[r].form.servers)) : Spares(s, B)
              /\ \A s \in Ins("mounts", MountRows(row.id, req[r].form.mounts)) : Spares(s, B)
          BY <1>2, <1>3
        <5> HIDE DEF B
        <5> QED BY <5>1, <5>2 DEF UpdateStmts
      <4> QED BY <4>1, <4>2
    <3>3. CASE RunsDelete(r)
      <4>1. Executes(DeleteStmts(r))
        BY <3>3 DEF RunsDelete
      <4>2. \A s \in DeleteStmts(r) : Spares(s, B)
        BY <1>1, <1>2 DEF DeleteStmts
      <4> QED BY <4>1, <4>2
    <3>4. CASE RunsAgent(r)
      <4>1. CASE Executes({Inserts("agents",
                                   [id |-> fresh, name |-> req[r].name, builtin |-> FALSE])})
        <5>1. Spares(Inserts("agents", [id |-> fresh, name |-> req[r].name, builtin |-> FALSE]), B)
          BY DEF Spares
        <5> DEFINE Q == {Inserts("agents", [id |-> fresh, name |-> req[r].name, builtin |-> FALSE])}
        <5>9. Executes(Q) /\ \A s \in Q : Spares(s, B)
          BY <4>1, <5>1
        <5> HIDE DEF Q, B
        <5> QED BY <5>9
      <4>2. CASE /\ req[r].at = "agent"
                 /\ Executes({Updates("agents", [id |-> req[r].agent, name |-> req[r].name,
                                                 builtin |-> FALSE], TRUE)})
        <5>1. \A a \in B : a.id # req[r].agent
          BY <4>2 DEF AgentsChosen
        <5>2. Spares(Updates("agents", [id |-> req[r].agent, name |-> req[r].name,
                                        builtin |-> FALSE], TRUE), B)
          BY <5>1 DEF Spares
        <5> DEFINE Q == {Updates("agents", [id |-> req[r].agent, name |-> req[r].name,
                                            builtin |-> FALSE], TRUE)}
        <5>9. Executes(Q) /\ \A s \in Q : Spares(s, B)
          BY <4>2, <5>2
        <5> HIDE DEF Q, B
        <5> QED BY <5>9
      <4>3. CASE /\ req[r].at = "delete_agent"
                 /\ Executes({Deletes("agents", "id", req[r].agent, TRUE)})
        <5>1. \A a \in B : a.id # req[r].agent
          BY <4>3 DEF AgentsChosen
        <5>2. Spares(Deletes("agents", "id", req[r].agent, TRUE), B)
          BY <5>1 DEF Spares
        <5> DEFINE Q == {Deletes("agents", "id", req[r].agent, TRUE)}
        <5>9. Executes(Q) /\ \A s \in Q : Spares(s, B)
          BY <4>3, <5>2
        <5> HIDE DEF Q, B
        <5> QED BY <5>9
      <4> QED BY <3>4, <4>1, <4>2, <4>3 DEF RunsAgent
    <3>5. CASE RunsImportAgents(r)
      <4>1. \A s \in Ins("agents", NewAgents(r)) : Spares(s, B)
        BY DEF Ins, NewAgents, Spares
      <4> QED BY <3>5, <4>1 DEF RunsImportAgents
    <3>6. CASE RunsImport(r)
      <4> DEFINE p == NextPersona(r)
      <4>1. \A s \in OverwriteStmts(p) \cup CopyStmts(r, p, fresh, p.name) : Spares(s, B)
        BY <1>1, <1>2, <1>4 DEF OverwriteStmts
      <4> HIDE DEF p
      <4> QED BY <1>4, <3>6, <4>1 DEF RunsImport, p
    <3>7. CASE RunsImportRepos(r)
      <4>1. \A s \in Ins("repos", RepoRows(r)) : Spares(s, B)
        BY <1>2, <1>3
      <4> QED BY <3>7, <4>1 DEF RunsImportRepos
    <3> QED BY <2>2, <3>1, <3>2, <3>3, <3>4, <3>5, <3>6, <3>7 DEF RunsRequest
  <2> QED BY <2>1, <2>2 DEF StepRuns, RunsSeed, Unmoved
<1> QED BY <1>0, <1>5, ExecutesSpares

\* Insertions that succeed add their rows; all of a run do when it succeeds.
LEMMA InsertGrows ==
  ASSUME NEW d, DOMAIN d = Table, NEW row, Exec(d, Inserts("agents", row)).ok
  PROVE  /\ DOMAIN Exec(d, Inserts("agents", row)).db = Table
         /\ Exec(d, Inserts("agents", row)).db["agents"] = d["agents"] \cup {row}
<1> DEFINE e == Exec(d, Inserts("agents", row))
<1>1. Added(d, e, "agents", row) /\ e.ok
  BY ExecInserts
<1> HIDE DEF e
<1>2. DOMAIN e.db = Table /\ e.db["agents"] = d["agents"] \cup {row}
  BY <1>1, AddedIs, TablesAre
<1> QED BY <1>2 DEF e

LEMMA AllInserted ==
  ASSUME NEW R, NEW B \in Seq(Ins("agents", R)), NEW d, DOMAIN d = Table, Run(d, B).ok
  PROVE  /\ d["agents"] \subseteq Run(d, B).db["agents"]
         /\ \A row \in R : (\E i \in 1..Len(B) : B[i] = Inserts("agents", row))
                             => row \in Run(d, B).db["agents"]
<1> DEFINE n == Len(B)
<1>0. n \in Nat /\ \A k \in 1..n : B[k] \in Ins("agents", R)
  OBVIOUS
<1>1. PICK t : /\ t[0] = d /\ t[n] = Run(d, B).db
               /\ \A k \in 1..n : Exec(t[k - 1], B[k]).ok /\ t[k] = Exec(t[k - 1], B[k]).db
  BY RunAll
<1> HIDE DEF n
<1>2. ASSUME NEW k \in 1..n, DOMAIN t[k - 1] = Table
      PROVE  DOMAIN t[k] = Table /\ \E row \in R : /\ B[k] = Inserts("agents", row)
                                                   /\ t[k]["agents"] = t[k - 1]["agents"] \cup {row}
  <2>1. PICK row \in R : B[k] = Inserts("agents", row)
    BY <1>0 DEF Ins
  <2> QED BY <1>1, <1>2, <2>1, InsertGrows
<1> DEFINE H == {k \in 0..n : DOMAIN t[k] = Table}
<1>3. \A k \in 0..n : DOMAIN t[k] = Table
  <2>1. 0 \in H
    BY <1>0, <1>1
  <2>2. \A k \in 1..n : k - 1 \in H => k \in H
    BY <1>0, <1>2
  <2>3. \A k \in 0..n : k \in H
    <3> HIDE DEF H
    <3> QED BY <1>0, <2>1, <2>2, UpTo
  <2> QED BY <2>3
<1>4. \A k \in 1..n : t[k - 1]["agents"] \subseteq t[k]["agents"]
  <2> SUFFICES ASSUME NEW k \in 1..n PROVE t[k - 1]["agents"] \subseteq t[k]["agents"]
    OBVIOUS
  <2>1. k - 1 \in 0..n
    BY <1>0
  <2> QED BY <1>2, <1>3, <2>1
<1>5. ASSUME NEW x, NEW m \in 0..n, x \in t[m]["agents"] PROVE x \in t[n]["agents"]
  <2> DEFINE K == {k \in 0..n : k >= m => x \in t[k]["agents"]}
  <2>1. 0 \in K
    BY <1>0, <1>5
  <2>2. ASSUME NEW k \in 1..n, k - 1 \in K PROVE k \in K
    <3>1. CASE k = m
      BY <1>5, <3>1
    <3>2. CASE k # m
      <4>1. k >= m => k - 1 >= m
        BY <3>2
      <4> QED BY <1>4, <2>2, <4>1
    <3> QED BY <3>1, <3>2
  <2>3. \A k \in 0..n : k \in K
    <3> HIDE DEF K
    <3> QED BY <1>0, <2>1, <2>2, UpTo
  <2> QED BY <1>0, <2>3
<1>6. d["agents"] \subseteq t[n]["agents"]
  BY <1>0, <1>1, <1>5
<1>7. ASSUME NEW row \in R, NEW i \in 1..n, B[i] = Inserts("agents", row)
      PROVE  row \in t[n]["agents"]
  <2>1. i - 1 \in 0..n /\ i \in 0..n
    BY <1>0
  <2>2. DOMAIN t[i - 1] = Table
    BY <1>3, <2>1
  <2>3. row \in t[i]["agents"]
    BY <1>1, <1>7, <2>2, InsertGrows
  <2> QED BY <1>5, <2>1, <2>3
<1> QED BY <1>1, <1>6, <1>7 DEF n

\* A start that succeeds inserts every built-in agent that was missing.
LEMMA SeedInserts == ASSUME Types, Seed PROVE BuiltinsReady'
<1>0. DOMAIN db = Table
  BY DEF Types, WellFormed
<1>1. /\ SeedBlock \in Seq(Ins("agents", SeedRows))
      /\ \A row \in SeedRows : \E i \in 1..Len(SeedBlock) : SeedBlock[i] = Inserts("agents", row)
  BY SeedBlockIs
<1>2. db' = Run(db, SeedBlock).db /\ (Run(db, SeedBlock).ok \/ "name_taken" \in marks')
      /\ release' = release
  BY DEF Seed
<1>3. ASSUME Run(db, SeedBlock).ok PROVE HasBuiltins(db', Builtins)
  <2>1. db.agents \subseteq db'.agents /\ SeedRows \subseteq db'.agents
    BY <1>0, <1>1, <1>2, <1>3, AllInserted
  <2> SUFFICES ASSUME NEW i \in DOMAIN Builtins
               PROVE  \E a \in db'.agents : a.name = Builtins[i] /\ a.builtin
    BY DEF HasBuiltins
  <2>2. CASE IsBuiltin(Builtins[i])
    BY <2>1, <2>2 DEF IsBuiltin
  <2>3. CASE ~IsBuiltin(Builtins[i])
    <3>1. [id |-> fresh + i, name |-> Builtins[i], builtin |-> TRUE] \in SeedRows
      BY <2>3 DEF SeedRows
    <3> QED BY <2>1, <3>1
  <2> QED BY <2>2, <2>3
<1>4. Builtins' = Builtins
  BY <1>2 DEF Builtins
<1> QED BY <1>2, <1>3, <1>4 DEF BuiltinsReady

\* Nothing is under way at the start.
LEMMA AgentsInit == CatalogInit => AgentsChosen /\ BuiltinsReady
<1> SUFFICES ASSUME CatalogInit PROVE AgentsChosen /\ BuiltinsReady
  OBVIOUS
<1>1. AgentsChosen
  BY DEF CatalogInit, AgentsChosen, Idle
<1>2. BuiltinsReady
  <2> SUFFICES ASSUME phase = "up" PROVE HasBuiltins(db, Builtins)
    BY DEF BuiltinsReady
  <2>1. db \in Established /\ release = Len(Releases)
    BY DEF CatalogInit
  <2> QED BY <2>1, EstablishedAssumption DEF Builtins
<1> QED BY <1>1, <1>2

\* Built-in agents that stay are still there; requests that chose a custom one still do.
LEMMA ReadyKept ==
  ASSUME BuiltinsReady, phase = "up", phase' = "up", release' = release,
         BuiltinRows(db') = BuiltinRows(db), "name_taken" \in marks => "name_taken" \in marks'
  PROVE  BuiltinsReady'
<1>1. Builtins' = Builtins
  BY DEF Builtins
<1>2. ASSUME HasBuiltins(db, Builtins) PROVE HasBuiltins(db', Builtins)
  BY <1>2 DEF HasBuiltins, BuiltinRows
<1> QED BY <1>1, <1>2 DEF BuiltinsReady

LEMMA ChosenKept ==
  ASSUME AgentsChosen, BuiltinRows(db') = BuiltinRows(db), NEW r \in Slot, NEW q,
         DOMAIN req = Slot, req' = [req EXCEPT ![r] = q],
         q.at \in {"agent", "delete_agent"} => \A a \in BuiltinRows(db) : a.id # q.agent
  PROVE  AgentsChosen'
<1>1. req'[r] = q /\ \A s \in Slot \ {r} : req'[s] = req[s]
  OBVIOUS
<1>2. BuiltinRows(db)' = BuiltinRows(db)
  BY DEF BuiltinRows
<1> QED BY <1>1, <1>2 DEF AgentsChosen

\* An id is a built-in agent's or a custom one's, never both.
LEMMA CustomAgents ==
  ASSUME Types, Consistent(db), NEW a \in db.agents, ~a.builtin
  PROVE  \A b \in BuiltinRows(db) : b.id # a.id
<1> SUFFICES ASSUME NEW b \in BuiltinRows(db), b.id = a.id PROVE FALSE
  OBVIOUS
<1>1. b \in db["agents"] /\ a \in db["agents"] \ {b}
  BY DEF BuiltinRows
<1>2. ~Clashes("agents", db["agents"] \ {b}, b)
  BY <1>1, ConsistentIs, TablesAre
<1>3. {"id"} \in Unique["agents"] /\ \A c \in {"id"} : a[c] = b[c]
  BY DEF Unique
<1> QED BY <1>1, <1>2, <1>3 DEF Clashes

\* Every step of a request keeps to custom agents.
LEMMA RequestChosen ==
  ASSUME Types, Consistent(db), AgentsChosen, BuiltinRows(db') = BuiltinRows(db),
         NEW r \in Slot, RequestStep(r)
  PROVE  AgentsChosen'
<1>0. DOMAIN req = Slot
  BY DEF Types
<1>1. ASSUME NEW q, req' = [req EXCEPT ![r] = q], q.at \notin {"agent", "delete_agent"}
      PROVE  AgentsChosen'
  BY <1>0, <1>1, ChosenKept
<1>2. ASSUME NEW a \in db.agents, ~a.builtin, NEW q, req' = [req EXCEPT ![r] = q], q.agent = a.id
      PROVE  AgentsChosen'
  BY <1>0, <1>2, ChosenKept, CustomAgents
<1>3. ASSUME Finish(r) PROVE AgentsChosen'
  BY <1>1, <1>3 DEF Finish, Idle
<1>4. CASE Create(r) \/ DeletePersona(r) \/ WriteAgent(r) \/ DeleteAgent(r) \/ ImportRepos(r)
           \/ UpdatePersona(r)
  BY <1>3, <1>4 DEF Create, DeletePersona, WriteAgent, DeleteAgent, ImportRepos, UpdatePersona
<1>5. CASE StartCreate(r) \/ StartUpdate(r) \/ StartDelete(r) \/ StartImport(r)
  <2>1. ASSUME NEW op, NEW q, Start(r, op, q), q.at \notin {"agent", "delete_agent"}
        PROVE  AgentsChosen'
    BY <1>1, <2>1 DEF Start
  <2>2. CASE StartCreate(r)
    BY <2>1, <2>2 DEF StartCreate
  <2>3. CASE StartUpdate(r)
    BY <2>1, <2>3 DEF StartUpdate
  <2>4. CASE StartDelete(r)
    BY <2>1, <2>4 DEF StartDelete
  <2>5. CASE StartImport(r)
    BY <2>1, <2>5 DEF StartImport
  <2> QED BY <1>5, <2>2, <2>3, <2>4, <2>5
<1>6. CASE StartAgent(r)
  <2>1. ASSUME NEW name, Start(r, "agents", [at |-> "new_agent", name |-> name]) PROVE AgentsChosen'
    BY <1>1, <2>1 DEF Start
  <2>2. ASSUME NEW a \in db.agents, ~a.builtin, NEW name,
               Start(r, "agents", [at |-> "agent", agent |-> a.id, name |-> name])
        PROVE  AgentsChosen'
    BY <1>2, <2>2 DEF Start
  <2> QED BY <1>6, <2>1, <2>2 DEF StartAgent
<1>7. CASE StartDeleteAgent(r)
  BY <1>2, <1>7 DEF StartDeleteAgent, Start
<1>8. CASE ReadPersona(r)
  <2>1. ASSUME NEW saw, GoTo(r, [at |-> "update", form |-> req[r].form, saw |-> saw])
        PROVE  AgentsChosen'
    BY <1>1, <2>1 DEF GoTo
  <2> QED BY <1>3, <1>8, <2>1 DEF ReadPersona
<1>9. CASE PersonasImported(r)
  BY <1>1, <1>9 DEF PersonasImported
<1>10. CASE ImportAgents(r)
  BY <1>1, <1>3, <1>10 DEF ImportAgents, GoTo
<1>11. CASE ImportPersona(r)
  <2> DEFINE p == NextPersona(r)
             q == [req[r] EXCEPT !.todo = @ \ {p}, !.map = @ \cup ImportedAs(r, p)]
  <2>1. req[r].at = "import_personas"
        /\ \/ Finish(r)
           \/ req' = [req EXCEPT ![r].todo = @ \ {p}, ![r].map = @ \cup ImportedAs(r, p)]
    BY <1>11 DEF ImportPersona, At
  <2>2. DOMAIN req[r] = {"at", "payload", "form", "resolved", "todo", "map"}
    BY <2>1 DEF Types, Carries
  <2>3. q.at = "import_personas"
    BY <2>1, <2>2
  <2>4. CASE req' = [req EXCEPT ![r].todo = @ \ {p}, ![r].map = @ \cup ImportedAs(r, p)]
    <3>1. req' = [req EXCEPT ![r] = q]
      BY <1>0, <2>4
    <3> HIDE DEF q
    <3> QED BY <1>1, <2>3, <3>1
  <2> QED BY <1>3, <2>1, <2>4
<1> QED BY <1>4, <1>5, <1>6, <1>7, <1>8, <1>9, <1>10, <1>11 DEF RequestStep

\* Every step keeps the built-in agents in place.
LEMMA AgentsNext ==
  Types /\ Consistent(db) /\ AgentsChosen /\ BuiltinsReady /\ [CatalogNext]_catalogVars
    => AgentsChosen' /\ BuiltinsReady'
<1> SUFFICES ASSUME Types, Consistent(db), AgentsChosen, BuiltinsReady, [CatalogNext]_catalogVars
             PROVE  AgentsChosen' /\ BuiltinsReady'
  OBVIOUS
<1>0. /\ phase # "up" => \A r \in Slot : req[r] = Idle
      /\ lock # NoRequest => req[lock].at = "import_personas"
  BY DEF Types
<1>1. ASSUME \A r \in Slot : req'[r] = Idle PROVE AgentsChosen'
  BY <1>1 DEF AgentsChosen, Idle
<1>2. CASE Open \/ Migrate \/ RecordVersion \/ Migrated \/ Upgrade
  <2>1. phase # "up" /\ phase' # "up" /\ req' = req
    BY <1>2 DEF Open, Migrate, RecordVersion, Migrated, Upgrade
  <2> QED BY <1>0, <1>1, <2>1 DEF BuiltinsReady
<1>3. CASE Seed
  <2>1. phase # "up" /\ req' = req
    BY <1>3 DEF Seed
  <2> QED BY <1>0, <1>1, <1>3, <2>1, SeedInserts
<1>4. CASE Exit \/ ExitInside
  <2>1. phase' = "down" /\ \A r \in Slot : req'[r] = Idle
    BY <1>4 DEF Exit, ExitInside, Ended
  <2> QED BY <1>1, <2>1 DEF BuiltinsReady
<1>5. CASE Export \/ SessionEvent
  <2>1. phase = "up" /\ UNCHANGED <<menu, release, phase, schema, req, marks>>
    BY <1>5 DEF Export, SessionEvent, startup
  <2>2. BuiltinRows(db') = BuiltinRows(db)
    BY <1>5, <2>1, NextRuns, StepSpares DEF CatalogNext
  <2>3. AgentsChosen'
    BY <2>1, <2>2 DEF AgentsChosen, BuiltinRows
  <2> QED BY <2>1, <2>2, <2>3, ReadyKept
<1>6. ASSUME NEW r \in Slot, RequestStep(r) PROVE AgentsChosen' /\ BuiltinsReady'
  <2>1. phase = "up" /\ UNCHANGED startup /\ marks \subseteq marks'
    <3>1. CASE StepsRun(r)
      <4>1. marks \subseteq marks'
        BY <3>1 DEF StepsRun, Create, DeletePersona, WriteAgent, DeleteAgent, ImportRepos,
                    UpdatePersona, ImportAgents, ImportPersona
      <4> QED BY <3>1, <4>1, RequestRuns
    <3>2. CASE StepsKeepTables(r)
      <4>1. phase = "up"
        BY <3>2 DEF StepsKeepTables, StartCreate, StartUpdate, StartDelete, StartAgent,
                    StartDeleteAgent, StartImport, ReadPersona, PersonasImported, At, Start
      <4> QED BY <3>2, <4>1, KeepsTables
    <3> QED BY <1>6, <3>1, <3>2, StepsAre
  <2>2. BuiltinRows(db') = BuiltinRows(db)
    BY <1>6, <2>1, NextRuns, StepSpares DEF CatalogNext
  <2>3. phase' = "up" /\ release' = release
    BY <2>1 DEF startup
  <2> QED BY <1>6, <2>1, <2>2, <2>3, ReadyKept, RequestChosen
<1>7. CASE UNCHANGED catalogVars
  BY <1>7 DEF catalogVars, AgentsChosen, BuiltinRows, BuiltinsReady, Builtins, HasBuiltins
<1> QED BY <1>2, <1>3, <1>4, <1>5, <1>6, <1>7 DEF CatalogNext

\* When the application is up, the agents built into its release are there, marked as
\* built in, unless a custom agent had the name of one at the last start (agent_manager.rs:
\* seed_builtin_agents, and what update and delete refuse).
THEOREM CatalogBuiltins == CatalogSpec => []BuiltinsReady
<1> DEFINE Inv == Types /\ Consistent(db)
<1>1. CatalogInit => AgentsChosen /\ BuiltinsReady
  BY AgentsInit
<1>2. Inv /\ AgentsChosen /\ BuiltinsReady /\ [CatalogNext]_catalogVars
        => AgentsChosen' /\ BuiltinsReady'
  BY AgentsNext
<1>3. CatalogSpec => []Inv
  BY AlwaysTypes
<1> HIDE DEF Inv
<1> QED BY <1>1, <1>2, <1>3, PTL DEF CatalogSpec

---------------------------------------------------------------------------
(* Sessions *)

\* The session is there, of the same persona.
HasSession(d, x) == \E y \in d["sessions"] : y.id = x.id /\ y.persona = x.persona

\* A statement that leaves session x there.
KeepsSession(s, x) ==
  \/ \E t \in Table : \E row : s = Inserts(t, row)
  \/ \E t \in Table \ {"sessions"} : \E row, needed : s = Updates(t, row, needed)
  \/ \E t \in Table \ {"sessions"} : \E c, v, needed : s = Deletes(t, c, v, needed)
  \/ \E row, needed : /\ row.id = x.id => row.persona = x.persona
                      /\ s = Updates("sessions", row, needed)
  \/ \E v, needed : v # x.persona /\ s = Deletes("sessions", "persona", v, needed)

\* Such a statement, and any number of them, leave the session there.
LEMMA ExecKeepsSession ==
  ASSUME NEW d, DOMAIN d = Table, NEW x, HasSession(d, x), NEW s, KeepsSession(s, x)
  PROVE  DOMAIN Exec(d, s).db = Table /\ HasSession(Exec(d, s).db, x)
<1> DEFINE e == Exec(d, s)
<1>0. "sessions" \in Table
  BY TablesAre
<1>1. ASSUME NEW t \in Table, NEW row, s = Inserts(t, row)
      PROVE  DOMAIN e.db = Table /\ HasSession(e.db, x)
  <2>1. Added(d, e, t, row)
    BY <1>1, ExecInserts
  <2> HIDE DEF e
  <2>2. /\ DOMAIN e.db = Table /\ \A u \in Table \ {t} : e.db[u] = d[u]
        /\ e.db[t] = d[t] \/ e.db[t] = d[t] \cup {row}
    BY <2>1, AddedIs
  <2> QED BY <1>0, <2>2 DEF HasSession
<1>2. ASSUME NEW t \in Table, NEW row, NEW needed, s = Updates(t, row, needed),
             t = "sessions" => (row.id = x.id => row.persona = x.persona)
      PROVE  DOMAIN e.db = Table /\ HasSession(e.db, x)
  <2>1. Replaced(d, e, t, row)
    BY <1>2, ExecUpdates
  <2> HIDE DEF e
  <2>2. /\ DOMAIN e.db = Table /\ \A u \in Table \ {t} : e.db[u] = d[u]
        /\ e.db[t] = d[t] \/ e.db[t] = Others(d, t, row) \cup {row}
    BY <2>1, ReplacedIs
  <2> QED BY <1>0, <1>2, <2>2 DEF HasSession, Others
<1>3. ASSUME NEW t \in Table, NEW c, NEW v, NEW needed, s = Deletes(t, c, v, needed),
             t = "sessions" => c = "persona" /\ v # x.persona
      PROVE  DOMAIN e.db = Table /\ HasSession(e.db, x)
  <2> DEFINE gone == Having(d, t, c, v)
  <2>1. Taken(d, e, t, gone)
    BY <1>3, ExecDeletes
  <2>2. t = "sessions" => \A y \in gone : y.persona # x.persona
    BY <1>3 DEF Having
  <2> HIDE DEF e, gone
  <2>3. /\ DOMAIN e.db = Table
        /\ \/ e.db = d
           \/ /\ e.db[t] = d[t] \ gone /\ Unreferred(d, t, gone)
              /\ \A u \in Table \ {t} : e.db[u] = d[u] \ Cascaded(d, t, u, gone)
    BY <2>1, TakenIs
  <2>4. CASE e.db = d
    BY <2>3, <2>4
  <2>5. CASE /\ e.db[t] = d[t] \ gone /\ Unreferred(d, t, gone)
             /\ \A u \in Table \ {t} : e.db[u] = d[u] \ Cascaded(d, t, u, gone)
    <3>1. Cascaded(d, t, "sessions", gone) = {}
      BY <2>5, CascadesTo
    <3>2. e.db["sessions"] = IF t = "sessions" THEN d["sessions"] \ gone ELSE d["sessions"]
      BY <1>0, <2>5, <3>1
    <3> QED BY <2>2, <2>3, <3>2 DEF HasSession
  <2> QED BY <2>3, <2>4, <2>5
<1> QED BY <1>0, <1>1, <1>2, <1>3 DEF KeepsSession

LEMMA ExecutesKeepsSession ==
  ASSUME NEW Q, Executes(Q), DOMAIN db = Table, NEW x \in db["sessions"],
         \A s \in Q : KeepsSession(s, x)
  PROVE  HasSession(db', x)
<1>1. PICK B \in Seq(Q) : db' = Run(db, B).db
  BY DEF Executes
<1> DEFINE y == Run(db, B).db
<1>2. PICK U : /\ db \in U /\ y \in U
               /\ \A G : /\ db \in G
                         /\ \A d \in G, s \in Q : Exec(d, s).db \in U => Exec(d, s).db \in G
                         => y \in G
  BY RunKeeps
<1> HIDE DEF y
<1> DEFINE G == {d \in U : DOMAIN d = Table /\ HasSession(d, x)}
<1>3. db \in G
  BY <1>2 DEF HasSession
<1>4. ASSUME NEW d \in G, NEW s \in Q, Exec(d, s).db \in U PROVE Exec(d, s).db \in G
  BY <1>4, ExecKeepsSession
<1>5. y \in G
  <2> HIDE DEF G
  <2> QED BY <1>2, <1>3, <1>4
<1> QED BY <1>1, <1>5 DEF y

\* The persona an import finds by its name has that name.
LEMMA ExistingIs ==
  ASSUME Types, NEW p, NameTaken("personas", p.name, 0)
  PROVE  Existing(p) \in db.personas /\ Existing(p).name = p.name
BY DEF NameTaken, Existing

\* Every step but an overwriting import keeps an active session.
LEMMA SessionKept ==
  ASSUME Types, Consistent(db), StepRuns, NEW x \in db["sessions"], x.active,
         ~\E r \in Slot : Overwrites(r, x.persona)
  PROVE  db' = db \/ HasSession(db', x)
<1>0. DOMAIN db = Table
  BY DEF Types, WellFormed
<1>1. ASSUME NEW t \in Table, NEW row, NEW c, NEW v, NEW needed
      PROVE  /\ KeepsSession(Inserts(t, row), x)
             /\ t # "sessions" => KeepsSession(Updates(t, row, needed), x)
                                  /\ KeepsSession(Deletes(t, c, v, needed), x)
  BY DEF KeepsSession
<1>2. ASSUME NEW t \in Table, NEW R PROVE \A s \in Ins(t, R) : KeepsSession(s, x)
  BY <1>1 DEF Ins
<1>3. ASSUME NEW v, v # x.persona PROVE KeepsSession(Deletes("sessions", "persona", v, FALSE), x)
  BY <1>3 DEF KeepsSession
<1>4. ASSUME NEW r \in Slot, NEW p, NEW id, NEW name
      PROVE  \A s \in CopyStmts(r, p, id, name) : KeepsSession(s, x)
  BY <1>2, TablesAre DEF CopyStmts
<1>5. ASSUME NEW Q, Executes(Q), \A s \in Q : KeepsSession(s, x) PROVE HasSession(db', x)
  BY <1>0, <1>5, ExecutesKeepsSession
<1>6. CASE RunsSeed
  BY <1>2, <1>5, <1>6, TablesAre DEF RunsSeed
<1>7. CASE RunsSession
  <2>1. CASE \E p \in db.personas :
               Executes({Inserts("sessions", [id |-> fresh, persona |-> p.id, active |-> TRUE])})
    <3>1. PICK p \in db.personas :
            Executes({Inserts("sessions", [id |-> fresh, persona |-> p.id, active |-> TRUE])})
      BY <2>1
    <3> DEFINE s == Inserts("sessions", [id |-> fresh, persona |-> p.id, active |-> TRUE])
    <3>2. KeepsSession(s, x) /\ Executes({s})
      BY <1>1, <3>1, TablesAre
    <3> HIDE DEF s
    <3> QED BY <1>5, <3>2
  <2>2. CASE \E y \in db.sessions :
               Executes({Updates("sessions", [y EXCEPT !.active = FALSE], FALSE)})
    <3>1. PICK y \in db.sessions :
            Executes({Updates("sessions", [y EXCEPT !.active = FALSE], FALSE)})
      BY <2>2
    <3> DEFINE row == [y EXCEPT !.active = FALSE]
               s == Updates("sessions", row, FALSE)
    <3>2. y.id = x.id => y = x
      <4> SUFFICES ASSUME y.id = x.id, y # x PROVE FALSE
        OBVIOUS
      <4>1. ~Clashes("sessions", db["sessions"] \ {x}, x)
        BY ConsistentIs, TablesAre
      <4>2. {"id"} \in Unique["sessions"] /\ \A c \in {"id"} : y[c] = x[c]
        BY DEF Unique
      <4> QED BY <4>1, <4>2 DEF Clashes
    <3>3. row.id = y.id /\ row.persona = y.persona
      <4>1. DOMAIN y = Column["sessions"]
        BY TablesAre DEF Types, WellFormed
      <4> QED BY <4>1 DEF Column
    <3> HIDE DEF row
    <3>4. KeepsSession(s, x) /\ Executes({s})
      BY <3>1, <3>2, <3>3 DEF KeepsSession, row
    <3> HIDE DEF s
    <3> QED BY <1>5, <3>4
  <2> QED BY <1>7, <2>1, <2>2 DEF RunsSession
<1>8. ASSUME NEW r \in Slot, RunsRequest(r) PROVE HasSession(db', x)
  <2>1. CASE RunsCreate(r)
    <3>1. \A s \in CreateStmts(r) : KeepsSession(s, x)
      BY <1>2, TablesAre DEF CreateStmts
    <3>2. Executes(CreateStmts(r))
      BY <2>1 DEF RunsCreate
    <3> QED BY <1>5, <3>1, <3>2
  <2>2. CASE RunsUpdate(r)
    <3> DEFINE row == Updated(r)
    <3>1. /\ KeepsSession(Updates("personas", row, FALSE), x)
          /\ \A v : KeepsSession(Deletes("servers", "id", v, TRUE), x)
          /\ KeepsSession(Deletes("mounts", "persona", row.id, FALSE), x)
      BY <1>1, TablesAre
    <3>2. \A s \in UpdateStmts(r) : KeepsSession(s, x)
      BY <1>2, <3>1, TablesAre DEF UpdateStmts
    <3>3. Executes(UpdateStmts(r))
      BY <2>2 DEF RunsUpdate
    <3> QED BY <1>5, <3>2, <3>3
  <2>3. CASE RunsDelete(r)
    <3>1. req[r].persona # x.persona /\ Executes(DeleteStmts(r))
      BY <2>3 DEF RunsDelete
    <3>2. \A s \in DeleteStmts(r) : KeepsSession(s, x)
      BY <1>1, <1>3, <3>1, TablesAre DEF DeleteStmts
    <3> QED BY <1>5, <3>1, <3>2
  <2>4. CASE RunsAgent(r)
    <3>1. ASSUME NEW row, Executes({Inserts("agents", row)}) PROVE HasSession(db', x)
      BY <1>1, <1>5, <3>1, TablesAre
    <3>2. ASSUME NEW row, Executes({Updates("agents", row, TRUE)}) PROVE HasSession(db', x)
      BY <1>1, <1>5, <3>2, TablesAre
    <3>3. ASSUME NEW v, Executes({Deletes("agents", "id", v, TRUE)}) PROVE HasSession(db', x)
      BY <1>1, <1>5, <3>3, TablesAre
    <3> QED BY <2>4, <3>1, <3>2, <3>3 DEF RunsAgent
  <2>5. CASE RunsImportAgents(r)
    BY <1>2, <1>5, <2>5, TablesAre DEF RunsImportAgents
  <2>6. CASE RunsImport(r)
    <3> DEFINE p == NextPersona(r)
    <3>1. req[r].at = "import_personas" /\ p \in req[r].todo
      BY <2>6, NextPersonaIs DEF RunsImport
    <3>2. ASSUME NameTaken("personas", p.name, 0), p.name \in req[r].resolved,
                 req[r].form.action = "overwrite"
          PROVE  \A s \in OverwriteStmts(p) : KeepsSession(s, x)
      <4>1. Existing(p).id # x.persona
        <5>1. Existing(p) \in db.personas /\ Existing(p).name = p.name
          BY <3>2, ExistingIs
        <5> QED BY <3>1, <3>2, <5>1 DEF Overwrites
      <4> HIDE DEF p
      <4> QED BY <1>1, <1>3, <4>1, TablesAre DEF OverwriteStmts
    <3> HIDE DEF p
    <3> QED BY <1>4, <1>5, <2>6, <3>2 DEF RunsImport, p
  <2>7. CASE RunsImportRepos(r)
    BY <1>2, <1>5, <2>7, TablesAre DEF RunsImportRepos
  <2> QED BY <1>8, <2>1, <2>2, <2>3, <2>4, <2>5, <2>6, <2>7 DEF RunsRequest
<1> QED BY <1>6, <1>7, <1>8 DEF StepRuns, Unmoved

\* No step removes an active session from the database, except the import that overwrites
\* its persona (delete in persona_manager.rs refuses, import in
\* export_import_manager.rs does not look).
THEOREM CatalogSessionsKept == CatalogSpec => ActiveSessionsKept
<1>1. Types /\ Consistent(db) /\ [CatalogNext]_catalogVars =>
        [\A s \in db.sessions :
           s.active /\ (\A t \in db'.sessions : t.id # s.id)
             => \E r \in Slot : Overwrites(r, s.persona)]_catalogVars
  <2> SUFFICES ASSUME Types, Consistent(db), CatalogNext, NEW s \in db.sessions, s.active,
                      \A t \in db'.sessions : t.id # s.id
               PROVE  \E r \in Slot : Overwrites(r, s.persona)
    OBVIOUS
  <2>1. StepRuns
    BY NextRuns
  <2> SUFFICES ASSUME ~\E r \in Slot : Overwrites(r, s.persona) PROVE FALSE
    OBVIOUS
  <2>2. db' = db \/ HasSession(db', s)
    BY <2>1, SessionKept
  <2> QED BY <2>2 DEF HasSession
<1> QED BY <1>1, AlwaysTypes, PTL DEF CatalogSpec, ActiveSessionsKept

---------------------------------------------------------------------------
(* Workspaces *)

\* The statement inserts personas of P only, updates them to those of R only, and
\* inserts mounts of M only.
Footprint(s, P, R, M) ==
  \/ \E t \in Table \ {"personas", "mounts"} : \E row : s = Inserts(t, row)
  \/ \E t \in Table \ {"personas", "mounts"} : \E row, needed : s = Updates(t, row, needed)
  \/ \E t \in Table : \E c, v, needed : s = Deletes(t, c, v, needed)
  \/ \E row \in P : s = Inserts("personas", row)
  \/ \E row \in R : \E needed : s = Updates("personas", row, needed)
  \/ \E row \in M : s = Inserts("mounts", row)

\* All the personas and mounts that statements of such a footprint can lead to.
Grown(d, x, P, R, M) ==
  /\ DOMAIN x = Table /\ x["mounts"] \subseteq d["mounts"] \cup M
  /\ \A p \in x["personas"] :
       \/ p \in d["personas"] \cup P
       \/ p \in R /\ \E q \in d["personas"] \cup P : q.id = p.id

\* One statement, and any number of them.
LEMMA ExecGrows ==
  ASSUME NEW d, DOMAIN d = Table, NEW s, NEW P, NEW R, NEW M, Footprint(s, P, R, M)
  PROVE  Grown(d, Exec(d, s).db, P, R, M)
<1> DEFINE e == Exec(d, s)
<1>0. "personas" \in Table /\ "mounts" \in Table /\ "personas" # "mounts"
  BY TablesAre
<1>1. ASSUME NEW t \in Table, NEW row, s = Inserts(t, row),
             t = "personas" => row \in P, t = "mounts" => row \in M
      PROVE  Grown(d, e.db, P, R, M)
  <2>1. Added(d, e, t, row)
    BY <1>1, ExecInserts
  <2> HIDE DEF e
  <2>2. /\ DOMAIN e.db = Table /\ \A u \in Table \ {t} : e.db[u] = d[u]
        /\ e.db[t] = d[t] \/ e.db[t] = d[t] \cup {row}
    BY <2>1, AddedIs
  <2> QED BY <1>0, <1>1, <2>2 DEF Grown
<1>2. ASSUME NEW t \in Table, NEW row, NEW needed, s = Updates(t, row, needed),
             t = "personas" => row \in R, t # "mounts"
      PROVE  Grown(d, e.db, P, R, M)
  <2>1. Replaced(d, e, t, row)
    BY <1>2, ExecUpdates
  <2> HIDE DEF e
  <2>2. /\ DOMAIN e.db = Table /\ \A u \in Table \ {t} : e.db[u] = d[u]
        /\ \/ e.db[t] = d[t]
           \/ e.db[t] = Others(d, t, row) \cup {row} /\ \E x \in d[t] : x.id = row.id
    BY <2>1, ReplacedIs
  <2> QED BY <1>0, <1>2, <2>2 DEF Grown, Others
<1>3. ASSUME NEW t \in Table, NEW c, NEW v, NEW needed, s = Deletes(t, c, v, needed)
      PROVE  Grown(d, e.db, P, R, M)
  <2> DEFINE gone == Having(d, t, c, v)
  <2>1. Taken(d, e, t, gone)
    BY <1>3, ExecDeletes
  <2> HIDE DEF e, gone
  <2>2. /\ DOMAIN e.db = Table
        /\ \/ e.db = d
           \/ /\ e.db[t] = d[t] \ gone
              /\ \A u \in Table \ {t} : e.db[u] = d[u] \ Cascaded(d, t, u, gone)
    BY <2>1, TakenIs
  <2>3. e.db["personas"] \subseteq d["personas"] /\ e.db["mounts"] \subseteq d["mounts"]
    BY <1>0, <2>2
  <2> QED BY <2>2, <2>3 DEF Grown
<1> QED BY <1>0, <1>1, <1>2, <1>3 DEF Footprint

LEMMA GrownTwice ==
  ASSUME NEW d, NEW x, NEW y, NEW P, NEW R, NEW M, Grown(d, x, P, R, M), Grown(x, y, P, R, M)
  PROVE  Grown(d, y, P, R, M)
BY DEF Grown

LEMMA ExecutesGrows ==
  ASSUME NEW Q, Executes(Q), DOMAIN db = Table, NEW P, NEW R, NEW M,
         \A s \in Q : Footprint(s, P, R, M)
  PROVE  Grown(db, db', P, R, M)
<1>1. PICK B \in Seq(Q) : db' = Run(db, B).db
  BY DEF Executes
<1> DEFINE x == Run(db, B).db
<1>2. PICK U : /\ db \in U /\ x \in U
               /\ \A G : /\ db \in G
                         /\ \A d \in G, s \in Q : Exec(d, s).db \in U => Exec(d, s).db \in G
                         => x \in G
  BY RunKeeps
<1> HIDE DEF x
<1> DEFINE G == {d \in U : Grown(db, d, P, R, M)}
<1>3. db \in G
  BY <1>2 DEF Grown
<1>4. ASSUME NEW d \in G, NEW s \in Q, Exec(d, s).db \in U PROVE Exec(d, s).db \in G
  <2>1. Grown(db, d, P, R, M) /\ DOMAIN d = Table
    BY DEF Grown
  <2>2. Grown(d, Exec(d, s).db, P, R, M)
    BY <2>1, ExecGrows
  <2> QED BY <1>4, <2>1, <2>2, GrownTwice
<1>5. x \in G
  <2> HIDE DEF G
  <2> QED BY <1>2, <1>3, <1>4
<1> QED BY <1>1, <1>5 DEF x

\* In consistent tables a persona has its id for itself, and a mount has its persona.
LEMMA PersonasKeyed ==
  ASSUME NEW d, Consistent(d)
  PROVE  /\ \A p, q \in d["personas"] : p.id = q.id => p = q
         /\ \A m \in d["mounts"] : \E p \in d["personas"] : p.id = m.persona
<1>1. ASSUME NEW p \in d["personas"], NEW q \in d["personas"], p.id = q.id, p # q PROVE FALSE
  <2>1. ~Clashes("personas", d["personas"] \ {p}, p)
    BY ConsistentIs, TablesAre
  <2>2. {"id"} \in Unique["personas"] /\ \A c \in {"id"} : q[c] = p[c]
    BY <1>1 DEF Unique
  <2> QED BY <1>1, <2>1, <2>2 DEF Clashes
<1>2. ASSUME NEW m \in d["mounts"] PROVE \E p \in d["personas"] : p.id = m.persona
  <2>1. ~Dangles(d, "mounts", m)
    BY ConsistentIs, TablesAre
  <2>2. PICK f \in References : f.from = "mounts" /\ f.column = "persona" /\ f.to = "personas"
    BY DEF References, Refers
  <2> QED BY <2>1, <2>2 DEF Dangles
<1> QED BY <1>1, <1>2

\* A persona whose workspace is nobody else's joins.
LEMMA PersonaJoins ==
  ASSUME NEW d, NEW x, PersonasApart(d), Consistent(x), NEW row,
         \A p \in x["personas"] : p \in d["personas"] \/ p = row,
         row \in x["personas"] =>
           \A p \in d["personas"] : p \in x["personas"] /\ p.ws = row.ws => p.id = row.id
  PROVE  PersonasApart(x)
<1>1. \A p, q \in x["personas"] : p.id = q.id => p = q
  BY PersonasKeyed
<1> QED BY <1>1 DEF PersonasApart

\* A persona that is new comes with its own mounts.
LEMMA MountsJoin ==
  ASSUME NEW d, NEW x, MountsApart(d), Consistent(d), NEW row, NEW M,
         \A p \in d["personas"] : p.id # row.id,
         \A p \in x["personas"] : p \in d["personas"] \/ p = row,
         x["mounts"] \subseteq d["mounts"] \cup M,
         \A m \in M : m.persona = row.id /\ m.path # Canonical[row.ws]
  PROVE  MountsApart(x)
<1>1. \A m \in d["mounts"] : m.persona # row.id
  BY PersonasKeyed
<1> QED BY <1>1 DEF MountsApart

\* A persona gets another workspace, and mounts that go with it.
LEMMA MountsReplaced ==
  ASSUME NEW d, NEW x, MountsApart(d), NEW row, NEW M,
         \A p \in x["personas"] : p.id # row.id => p \in d["personas"],
         \A p \in x["personas"] : p.id = row.id => p = row,
         x["mounts"] \subseteq d["mounts"] \cup M,
         \A m \in x["mounts"] : m.persona = row.id => m \in M,
         \A m \in M : m.persona = row.id /\ m.path # Canonical[row.ws]
  PROVE  MountsApart(x)
BY DEF MountsApart

\* The mounts an update gives; none when it leaves them out.
GivenMounts(r) ==
  IF req[r].form.mounts = Keep THEN {} ELSE MountRows(Updated(r).id, req[r].form.mounts)

\* Footprints of the statements of closures.
LEMMA SomeFootprints ==
  ASSUME NEW P, NEW R, NEW M
  PROVE  /\ \A t \in Table \ {"personas", "mounts"} : \A X : \A s \in Ins(t, X) :
              Footprint(s, P, R, M)
         /\ \A t \in Table \ {"personas", "mounts"} : \A row, needed :
              Footprint(Updates(t, row, needed), P, R, M)
         /\ \A t \in Table : \A c, v, needed : Footprint(Deletes(t, c, v, needed), P, R, M)
         /\ \A s \in Ins("personas", P) : Footprint(s, P, R, M)
         /\ \A s \in Ins("mounts", M) : Footprint(s, P, R, M)
         /\ \A row \in R : \A needed : Footprint(Updates("personas", row, needed), P, R, M)
BY DEF Footprint, Ins

LEMMA OtherTables ==
  /\ "agents" \in Table \ {"personas", "mounts"} /\ "servers" \in Table \ {"personas", "mounts"}
  /\ "sessions" \in Table \ {"personas", "mounts"} /\ "repos" \in Table \ {"personas", "mounts"}
BY DEF Table

\* An update has a footprint of one persona.
LEMMA UpdateFootprint ==
  ASSUME NEW r PROVE \A s \in UpdateStmts(r) : Footprint(s, {}, {Updated(r)}, GivenMounts(r))
<1> DEFINE row == Updated(r)
           M == GivenMounts(r)
           F(s) == Footprint(s, {}, {row}, M)
<1>1. F(Updates("personas", row, FALSE))
  BY SomeFootprints
<1>2. /\ \A v : F(Deletes("servers", "id", v, TRUE))
      /\ F(Deletes("mounts", "persona", row.id, FALSE))
  BY SomeFootprints, TablesAre
<1>3. \A s \in Ins("servers", ServerRows(row.id, req[r].form.servers)) : F(s)
  BY SomeFootprints, OtherTables
<1>4. req[r].form.mounts # Keep =>
        \A s \in Ins("mounts", MountRows(row.id, req[r].form.mounts)) : F(s)
  BY SomeFootprints DEF GivenMounts
<1> HIDE DEF F
<1>5. \A s \in UpdateStmts(r) : F(s)
  BY <1>1, <1>2, <1>3, <1>4 DEF UpdateStmts
<1> QED BY <1>5 DEF F

\* An update that succeeds leaves the persona with the row and the mounts it gives.
LEMMA UpdateComplete ==
  ASSUME Types, NEW r \in Slot, req[r].at = "update", ~UpdateRefused(r),
         req[r].form.mounts # Keep, NEW x, x = Run(db, UpdateBlock(r)).db,
         Run(db, UpdateBlock(r)).ok
  PROVE  /\ \A p \in x["personas"] : p.id = Updated(r).id => p = Updated(r)
         /\ \A m \in x["mounts"] : m.persona = Updated(r).id => m \in GivenMounts(r)
<1> DEFINE B == UpdateBlock(r)
           n == Len(B)
           row == Updated(r)
           M == GivenMounts(r)
<1>1. /\ B \in Seq(UpdateStmts(r)) /\ n >= 1 /\ B[1] = Updates("personas", row, FALSE)
      /\ \E m \in 2..n : B[m] = Deletes("mounts", "persona", row.id, FALSE)
  BY UpdateBlockIs
<1>2. DOMAIN db = Table
  BY DEF Types, WellFormed
<1>3. PICK t : /\ t[0] = db /\ t[n] = x
               /\ \A k \in 1..n : Exec(t[k - 1], B[k]).ok /\ t[k] = Exec(t[k - 1], B[k]).db
  BY <1>1, RunAll
<1>4. \A s \in UpdateStmts(r) : Footprint(s, {}, {row}, M)
  BY UpdateFootprint
<1>5. n \in Nat /\ \A k \in 1..n : B[k] \in UpdateStmts(r)
  BY <1>1
<1>6. PICK m \in 2..n : B[m] = Deletes("mounts", "persona", row.id, FALSE)
  BY <1>1
<1> HIDE DEF B, n, row, M
<1> DEFINE D == {k \in 0..n : DOMAIN t[k] = Table}
<1>7. \A k \in 0..n : k \in D
  <2>1. 0 \in D
    BY <1>2, <1>3, <1>5
  <2>2. ASSUME NEW k \in 1..n, k - 1 \in D PROVE k \in D
    <3>1. Grown(t[k - 1], t[k], {}, {row}, M)
      BY <1>3, <1>4, <1>5, <2>2, ExecGrows
    <3> QED BY <3>1 DEF Grown
  <2> HIDE DEF D
  <2> QED BY <1>5, <2>1, <2>2, UpTo
<1>8. \A k \in 1..n : DOMAIN t[k - 1] = Table /\ Grown(t[k - 1], t[k], {}, {row}, M)
  <2> SUFFICES ASSUME NEW k \in 1..n
               PROVE  DOMAIN t[k - 1] = Table /\ Grown(t[k - 1], t[k], {}, {row}, M)
    OBVIOUS
  <2>1. k - 1 \in 0..n
    BY <1>5
  <2>2. DOMAIN t[k - 1] = Table
    BY <1>7, <2>1
  <2> QED BY <1>3, <1>4, <1>5, <2>2, ExecGrows
<1> DEFINE Settled(d) == \A p \in d["personas"] : p.id = row.id => p = row
           Given(d) == \A y \in d["mounts"] : y.persona = row.id => y \in M
           S == {k \in 0..n : k >= 1 => Settled(t[k])}
           G == {k \in 0..n : k >= m => Given(t[k])}
<1>9. \A k \in 0..n : k \in S
  <2>1. 0 \in S
    BY <1>5
  <2>2. ASSUME NEW k \in 1..n, k - 1 \in S PROVE k \in S
    <3>1. CASE k = 1
      <4> DEFINE e == Exec(t[0], B[1])
      <4>0. e.ok /\ t[1] = e.db /\ t[0] = db
        BY <1>3, <3>1
      <4>1. Replaced(db, e, "personas", row)
        BY <1>1, <4>0, ExecUpdates DEF B, row
      <4> HIDE DEF e
      <4>2. \/ e.db["personas"] = db["personas"] /\ \A y \in db["personas"] : y.id # row.id
            \/ e.db["personas"] = Others(db, "personas", row) \cup {row}
        BY <1>2, <4>0, <4>1, ReplacedIs, TablesAre
      <4>3. Settled(t[1])
        BY <4>0, <4>2 DEF Others
      <4> QED BY <3>1, <4>3
    <3>2. CASE k # 1
      <4>1. Settled(t[k - 1])
        BY <2>2, <3>2
      <4>2. Settled(t[k])
        BY <1>8, <4>1 DEF Grown
      <4> QED BY <4>2
    <3> QED BY <3>1, <3>2
  <2> HIDE DEF S
  <2> QED BY <1>5, <2>1, <2>2, UpTo
<1>10. \A k \in 0..n : k \in G
  <2>1. 0 \in G
    BY <1>5
  <2>2. ASSUME NEW k \in 1..n, k - 1 \in G PROVE k \in G
    <3>1. CASE k = m
      <4> DEFINE d == t[m - 1]
                 e == Exec(d, B[m])
                 gone == Having(d, "mounts", "persona", row.id)
      <4>0. e.ok /\ t[m] = e.db /\ DOMAIN d = Table
        BY <1>3, <1>8, <3>1
      <4>1. Taken(d, e, "mounts", gone)
        BY <1>6, ExecDeletes
      <4> HIDE DEF d, e
      <4>2. (e.db = d /\ gone = {}) \/ e.db["mounts"] = d["mounts"] \ gone
        <5> HIDE DEF gone
        <5> QED BY <4>0, <4>1, TakenIs, TablesAre
      <4>3. Given(t[m])
        BY <4>0, <4>2 DEF Having
      <4> QED BY <3>1, <4>3
    <3>2. CASE k # m
      <4>1. k >= m => Given(t[k - 1])
        BY <2>2, <3>2
      <4>2. k >= m => Given(t[k])
        BY <1>8, <4>1 DEF Grown
      <4> QED BY <4>2
    <3> QED BY <3>1, <3>2
  <2> HIDE DEF G
  <2> QED BY <1>5, <2>1, <2>2, UpTo
<1>11. Settled(t[n]) /\ Given(t[n])
  <2>1. n \in 0..n /\ n >= 1 /\ n >= m
    BY <1>5, <1>6
  <2> QED BY <1>9, <1>10, <2>1
<1> QED BY <1>3, <1>11 DEF row, M

\* The marks under which workspaces may coincide, and those under which a mount may.
\* StepApart holds of every step.
Stale == {"written_back", "imported"}
Beside == Stale \cup {"workspace_alone"}
StepApart ==
  /\ PersonasApart(db) /\ marks' \cap Stale = {} => PersonasApart(db')
  /\ MountsApart(db) /\ marks' \cap Beside = {} => MountsApart(db')

\* Steps that insert nothing of the kind, or one persona with its mounts.
LEMMA NoneJoins ==
  ASSUME NEW d, NEW x, Grown(d, x, {}, {}, {})
  PROVE  (PersonasApart(d) => PersonasApart(x)) /\ (MountsApart(d) => MountsApart(x))
<1>1. x["personas"] \subseteq d["personas"] /\ x["mounts"] \subseteq d["mounts"]
  BY DEF Grown
<1> QED BY <1>1 DEF PersonasApart, MountsApart

\* The row's workspace is nobody else's in tables x, and none of the mounts M.
WorkspaceOwn(d, x, row) ==
  row \in x["personas"] => \A p \in d["personas"] : p \in x["personas"] => p.ws # row.ws
MountsOwn(M, row) == \A m \in M : m.persona = row.id /\ m.path # Canonical[row.ws]
LEMMA OneJoins ==
  ASSUME NEW d, NEW x, Consistent(d), Consistent(x), NEW row, NEW M, Grown(d, x, {row}, {}, M),
         \A p \in d["personas"] : p.id # row.id
  PROVE  /\ PersonasApart(d) /\ WorkspaceOwn(d, x, row) => PersonasApart(x)
         /\ MountsApart(d) /\ MountsOwn(M, row) => MountsApart(x)
<1>1. /\ \A p \in x["personas"] : p \in d["personas"] \/ p = row
      /\ x["mounts"] \subseteq d["mounts"] \cup M
  BY DEF Grown
<1>2. ASSUME PersonasApart(d), WorkspaceOwn(d, x, row) PROVE PersonasApart(x)
  <2>1. row \in x["personas"] =>
          \A p \in d["personas"] : p \in x["personas"] /\ p.ws = row.ws => p.id = row.id
    BY <1>2 DEF WorkspaceOwn
  <2> QED BY <1>1, <1>2, <2>1, PersonaJoins
<1>3. ASSUME MountsApart(d), MountsOwn(M, row) PROVE MountsApart(x)
  BY <1>1, <1>3, MountsJoin DEF MountsOwn
<1> QED BY <1>2, <1>3

\* Ids and workspaces of personas in well-formed tables.
LEMMA PersonasAre ==
  ASSUME Types
  PROVE  /\ DOMAIN db = Table /\ \A p \in db["personas"] : p.id \in Nat \ {0} /\ p.id < fresh
         /\ \A p \in db["personas"] : p.id # fresh
         /\ \A ws : ~WorkspaceTaken(ws, 0) => \A p \in db["personas"] : p.ws # ws
<1>1. /\ DOMAIN db = Table /\ \A p \in db["personas"] : p.id \in Nat \ {0} /\ p.id < fresh
      /\ fresh \in Nat
  BY TablesAre DEF Types, WellFormed
<1>2. \A p \in db["personas"] : p.id # fresh /\ p.id # 0
  BY <1>1
<1> QED BY <1>1, <1>2 DEF WorkspaceTaken

\* A created, an imported and an updated persona are kept apart.
LEMMA CreateApart ==
  ASSUME Types, Consistent(db), Consistent(db'), NEW r \in Slot, RunsCreate(r)
  PROVE  StepApart
<1> DEFINE row == CreateRow(r)
           M == MountRows(fresh, req[r].form.mounts)
<1>1. Executes(CreateStmts(r)) /\ ~WorkspaceTaken(row.ws, 0) /\ row.id = fresh
  BY DEF RunsCreate, CreateRow
<1>2. \A s \in CreateStmts(r) : Footprint(s, {row}, {}, M)
  <2> DEFINE F(s) == Footprint(s, {row}, {}, M)
  <2>1. /\ \A s \in Ins("personas", {row}) : F(s)
        /\ \A s \in Ins("servers", ServerRows(fresh, req[r].form.servers)) : F(s)
        /\ \A s \in Ins("mounts", M) : F(s)
    BY SomeFootprints, OtherTables
  <2> HIDE DEF F
  <2>2. \A s \in CreateStmts(r) : F(s)
    BY <2>1 DEF CreateStmts
  <2> QED BY <2>2 DEF F
<1>3. MountsOwn(M, row)
  <2>1. MountsAllowed(req[r].form.mounts, req[r].form.ws) /\ req[r].form.mounts \in Seq(Place)
    BY FormsAssumption DEF Types, Carries, RunsCreate
  <2> QED BY <2>1 DEF MountsAllowed, MountRows, CreateRow, MountsOwn
<1> HIDE DEF row, M
<1>4. Grown(db, db', {row}, {}, M)
  BY <1>1, <1>2, ExecutesGrows, PersonasAre
<1>5. \A p \in db["personas"] : p.id # row.id /\ p.ws # row.ws
  BY <1>1, PersonasAre
<1>6. WorkspaceOwn(db, db', row)
  BY <1>5 DEF WorkspaceOwn
<1> QED BY <1>3, <1>4, <1>5, <1>6, OneJoins DEF StepApart

LEMMA ImportApart ==
  ASSUME Types, Consistent(db), Consistent(db'), NEW r \in Slot, RunsImport(r)
  PROVE  StepApart
<1> DEFINE p == NextPersona(r)
<1>0. /\ req[r].at = "import_personas" /\ req[r].todo # {} /\ Unlooked(r, p) \subseteq marks'
      /\ p \in req[r].payload.personas
  BY NextPersonaIs DEF RunsImport
<1>1. PICK id : \E name :
        /\ \A x \in db["personas"] : x.id # id
        /\ Executes(OverwriteStmts(p) \cup CopyStmts(r, p, id, name))
        /\ ImportedAs(r, p) # {} /\ (Overwritten(r, p) = 0 \/ Vacated(Overwritten(r, p)))
  <2>1. \A x \in db["personas"] : x.id # fresh
    BY PersonasAre
  <2>2. ~HasRow("personas", p.id) => \A x \in db["personas"] : x.id # p.id
    BY DEF HasRow
  <2>3. \A Q, S : Executes(Q) => Executes(S \cup Q)
    BY Wider DEF Executes
  <2> HIDE DEF p
  <2>4. CASE /\ ~NameTaken("personas", p.name, 0)
             /\ ~HasRow("personas", p.id) /\ Executes(CopyStmts(r, p, p.id, p.name))
    <3>1. ImportedAs(r, p) # {} /\ Overwritten(r, p) = 0
      BY <2>4 DEF ImportedAs, Overwritten
    <3> QED BY <2>2, <2>3, <2>4, <3>1
  <2>5. CASE /\ NameTaken("personas", p.name, 0) /\ Resolution(r, p) = "rename"
             /\ Executes(CopyStmts(r, p, fresh, req[r].form.name))
    <3>1. ImportedAs(r, p) # {} /\ Overwritten(r, p) = 0
      BY <2>5 DEF ImportedAs, Overwritten
    <3> QED BY <2>1, <2>3, <2>5, <3>1
  <2>6. CASE /\ NameTaken("personas", p.name, 0) /\ Resolution(r, p) = "overwrite"
             /\ Executes(OverwriteStmts(p) \cup CopyStmts(r, p, fresh, p.name))
             /\ Vacated(Existing(p).id)
    <3>1. ImportedAs(r, p) # {} /\ Vacated(Overwritten(r, p))
      BY <2>6 DEF ImportedAs, Overwritten
    <3> QED BY <2>1, <2>6, <3>1
  <2> QED BY <2>4, <2>5, <2>6 DEF RunsImport, p
<1>2. PICK name : /\ \A x \in db["personas"] : x.id # id
                  /\ Executes(OverwriteStmts(p) \cup CopyStmts(r, p, id, name))
                  /\ ImportedAs(r, p) # {} /\ (Overwritten(r, p) = 0 \/ Vacated(Overwritten(r, p)))
  BY <1>1
<1> DEFINE row == CopyRow(p, id, name)
           M == CopiedMounts(r, p, id)
           Q == OverwriteStmts(p) \cup CopyStmts(r, p, id, name)
<1>3. \A s \in Q : Footprint(s, {row}, {}, M)
  <2> DEFINE F(s) == Footprint(s, {row}, {}, M)
  <2>1. /\ \A s \in Ins("personas", {row}) : F(s)
        /\ \A s \in Ins("servers", {s \in req[r].payload.servers : s.persona = p.id}) : F(s)
        /\ \A s \in Ins("mounts", M) : F(s)
    BY SomeFootprints, OtherTables
  <2>2. \A s \in OverwriteStmts(p) : F(s)
    BY SomeFootprints, TablesAre DEF OverwriteStmts
  <2> HIDE DEF F, p
  <2>3. \A s \in Q : F(s)
    BY <2>1, <2>2 DEF CopyStmts
  <2> QED BY <2>3 DEF F
<1>4. row.id = id /\ row.ws = p.ws
  BY DEF CopyRow
<1>5. ASSUME marks' \cap Stale = {}
      PROVE  /\ ~WorkspaceTaken(p.ws, Overwritten(r, p))
             /\ \A m \in req[r].payload.mounts : m.persona = p.id => m.path # Canonical[p.ws]
  <2> HIDE DEF p
  <2> QED BY <1>0, <1>2, <1>5 DEF Unlooked, Stale
<1>6. ASSUME marks' \cap Stale = {} PROVE MountsOwn(M, row)
  <2>1. WellFormed(req[r].payload, Exported, fresh)
    BY <1>0 DEF Types, Carries, Importing
  <2>2. \A m \in req[r].payload.mounts : DOMAIN m = Column["mounts"]
    BY <2>1 DEF WellFormed, Exported
  <2> SUFFICES ASSUME NEW m \in req[r].payload.mounts, m.persona = p.id
               PROVE  /\ [m EXCEPT !.persona = id].persona = id
                      /\ [m EXCEPT !.persona = id].path # Canonical[p.ws]
    BY <1>4 DEF CopiedMounts, MountsOwn
  <2>3. [m EXCEPT !.persona = id].persona = id /\ [m EXCEPT !.persona = id].path = m.path
    BY <2>2 DEF Column
  <2> HIDE DEF p
  <2> QED BY <1>5, <1>6, <2>3
<1> HIDE DEF row, M, Q
<1>7. Grown(db, db', {row}, {}, M)
  BY <1>2, <1>3, ExecutesGrows, PersonasAre DEF Q
<1>8. marks' \cap Beside = {} => marks' \cap Stale = {}
  BY DEF Beside
<1> HIDE DEF p
<1>9. ASSUME marks' \cap Stale = {} PROVE WorkspaceOwn(db, db', row)
  <2>1. SUFFICES ASSUME row \in db'["personas"], NEW x \in db["personas"],
                        x \in db'["personas"], x.ws = row.ws
                 PROVE  FALSE
    BY DEF WorkspaceOwn
  <2>2. x.id = Overwritten(r, p) /\ x.id # 0
    BY <1>4, <1>5, <1>9, <2>1, PersonasAre DEF WorkspaceTaken
  <2>3. row \in db["personas"]
    BY <1>2, <2>1, <2>2 DEF Vacated
  <2> QED BY <1>2, <1>4, <2>3
<1> QED BY <1>2, <1>4, <1>6, <1>7, <1>8, <1>9, OneJoins DEF StepApart

LEMMA UpdateApart ==
  ASSUME Types, Consistent(db), Consistent(db'), NEW r \in Slot, RunsUpdate(r)
  PROVE  StepApart
<1> DEFINE row == Updated(r)
           M == GivenMounts(r)
<1>1. /\ req[r].at = "update" /\ Executes(UpdateStmts(r)) /\ ~UpdateRefused(r) /\ UpdateLooked(r)
      /\ DOMAIN db = Table
  BY PersonasAre DEF RunsUpdate
<1>2. Grown(db, db', {}, {row}, M)
  BY <1>1, UpdateFootprint, ExecutesGrows
<1>3. /\ \A p \in db'["personas"] :
           p \in db["personas"] \/ (p = row /\ \E q \in db["personas"] : q.id = row.id)
      /\ db'["mounts"] \subseteq db["mounts"] \cup M
  BY <1>2 DEF Grown
<1>4. row.ws = WsOf(req[r])
  BY <1>1, UpdatedIs
<1>5. \A m \in M : m.persona = row.id /\ m.path # Canonical[row.ws]
  <2>1. CASE req[r].form.mounts = Keep
    BY <2>1 DEF GivenMounts
  <2>2. CASE req[r].form.mounts # Keep
    <3>1. /\ MountsAllowed(req[r].form.mounts, row.ws)
          /\ req[r].form.mounts \in Seq(Place)
      BY <1>1, <1>4, <2>2, FormsAssumption DEF Types, Carries
    <3> HIDE DEF row
    <3> QED BY <2>2, <3>1 DEF MountsAllowed, MountRows, GivenMounts, row
  <2> QED BY <2>1, <2>2
<1>6. ASSUME marks' \cap Stale = {} PROVE ~WritesBack(r)
  BY <1>1, <1>6 DEF UpdateLooked, Unchecked, Stale
<1>7. ASSUME marks' \cap Stale = {}, Parsed[row.ws] = Parsed[req[r].saw.ws]
      PROVE  \A p \in db["personas"] : p.id = row.id => p.ws = row.ws
  BY <1>6, <1>7 DEF WritesBack
<1>8. ASSUME PersonasApart(db), marks' \cap Stale = {} PROVE PersonasApart(db')
  <2>1. CASE Parsed[row.ws] = Parsed[req[r].saw.ws]
    <3>1. row \in db'["personas"] => \A p \in db["personas"] : p.ws = row.ws => p.id = row.id
      <4>1. SUFFICES ASSUME row \in db'["personas"], NEW p \in db["personas"], p.ws = row.ws
                     PROVE  p.id = row.id
        OBVIOUS
      <4>2. PICK q \in db["personas"] : q.id = row.id
        BY <1>3, <4>1
      <4>3. q.ws = row.ws
        BY <1>7, <1>8, <2>1, <4>2
      <4> QED BY <1>8, <4>1, <4>2, <4>3 DEF PersonasApart
    <3> HIDE DEF row
    <3> QED BY <1>3, <1>8, <3>1, PersonaJoins
  <2>2. CASE Parsed[row.ws] # Parsed[req[r].saw.ws]
    <3>1. \A p \in db["personas"] : p.ws = row.ws => p.id = row.id
      BY <1>1, <2>2 DEF UpdateRefused, WorkspaceTaken
    <3> HIDE DEF row
    <3> QED BY <1>3, <1>8, <3>1, PersonaJoins
  <2> QED BY <2>1, <2>2
<1>9. ASSUME MountsApart(db), marks' \cap Beside = {} PROVE MountsApart(db')
  <2>1. marks' \cap Stale = {}
    BY <1>9 DEF Beside
  <2>2. CASE req[r].form.ws = Keep
    <3>1. row.ws = req[r].saw.ws
      BY <1>4, <2>2 DEF WsOf
    <3>2. \A p \in db["personas"] : p.id = row.id => p.ws = row.ws
      BY <1>7, <2>1, <3>1
    <3> HIDE DEF row, M
    <3> QED BY <1>3, <1>5, <1>9, <3>2 DEF MountsApart
  <2>3. CASE req[r].form.ws # Keep
    <3>1. ~LeavesMounts(r, TRUE) /\ db' = Run(db, UpdateBlock(r)).db /\ Run(db, UpdateBlock(r)).ok
      BY <1>1, <1>9, <2>3 DEF UpdateLooked, Unchecked, LeavesMounts, Beside
    <3>2. req[r].form.mounts # Keep
      BY <2>3, <3>1 DEF LeavesMounts
    <3>3. /\ \A p \in db'["personas"] : p.id = row.id => p = row
          /\ \A m \in db'["mounts"] : m.persona = row.id => m \in M
      BY <1>1, <3>1, <3>2, UpdateComplete
    <3>4. \A p \in db'["personas"] : p.id # row.id => p \in db["personas"]
      BY <1>3
    <3> HIDE DEF row, M
    <3> QED BY <1>3, <1>5, <1>9, <3>3, <3>4, MountsReplaced
  <2> QED BY <2>2, <2>3
<1> QED BY <1>8, <1>9 DEF StepApart

\* Every step keeps workspaces apart, or leaves its mark.
LEMMA StepStaysApart ==
  ASSUME Types, Consistent(db), Consistent(db'), StepRuns
  PROVE  StepApart
<1> DEFINE F(s) == Footprint(s, {}, {}, {})
<1>0. DOMAIN db = Table
  BY PersonasAre
<1>1. ASSUME NEW Q, Executes(Q), \A s \in Q : F(s) PROVE StepApart
  <2>1. Grown(db, db', {}, {}, {})
    BY <1>0, <1>1, ExecutesGrows
  <2> QED BY <2>1, NoneJoins DEF StepApart
<1>2. /\ \A t \in Table \ {"personas", "mounts"} : \A X : \A s \in Ins(t, X) : F(s)
      /\ \A t \in Table \ {"personas", "mounts"} : \A row, needed : F(Updates(t, row, needed))
      /\ \A t \in Table : \A c, v, needed : F(Deletes(t, c, v, needed))
  BY SomeFootprints
<1> HIDE DEF F
<1>3. ASSUME NEW s, Executes({s}), F(s) PROVE StepApart
  BY <1>1, <1>3
<1>4. ASSUME NEW t \in Table \ {"personas", "mounts"}, NEW row PROVE F(Inserts(t, row))
  BY <1>2 DEF Ins
<1>5. CASE Unmoved
  BY <1>5 DEF StepApart, Unmoved
<1>6. CASE RunsSeed
  BY <1>1, <1>2, <1>6, OtherTables DEF RunsSeed
<1>7. CASE RunsSession
  <2>1. ASSUME NEW row, Executes({Inserts("sessions", row)}) PROVE StepApart
    BY <1>3, <1>4, <2>1, OtherTables
  <2>2. ASSUME NEW row, Executes({Updates("sessions", row, FALSE)}) PROVE StepApart
    BY <1>2, <1>3, <2>2, OtherTables
  <2> QED BY <1>7, <2>1, <2>2 DEF RunsSession
<1>8. ASSUME NEW r \in Slot, RunsRequest(r) PROVE StepApart
  <2>1. CASE RunsDelete(r)
    <3>1. \A s \in DeleteStmts(r) : F(s)
      BY <1>2, TablesAre DEF DeleteStmts
    <3> QED BY <1>1, <2>1, <3>1 DEF RunsDelete
  <2>2. CASE RunsAgent(r)
    <3>1. ASSUME NEW row, Executes({Inserts("agents", row)}) PROVE StepApart
      BY <1>3, <1>4, <3>1, OtherTables
    <3>2. ASSUME NEW row, Executes({Updates("agents", row, TRUE)}) PROVE StepApart
      BY <1>2, <1>3, <3>2, OtherTables
    <3>3. ASSUME NEW v, Executes({Deletes("agents", "id", v, TRUE)}) PROVE StepApart
      BY <1>2, <1>3, <3>3, TablesAre
    <3> QED BY <2>2, <3>1, <3>2, <3>3 DEF RunsAgent
  <2>3. CASE RunsImportAgents(r)
    BY <1>1, <1>2, <2>3, OtherTables DEF RunsImportAgents
  <2>4. CASE RunsImportRepos(r)
    BY <1>1, <1>2, <2>4, OtherTables DEF RunsImportRepos
  <2> QED BY <1>8, <2>1, <2>2, <2>3, <2>4, CreateApart, UpdateApart, ImportApart DEF RunsRequest
<1> QED BY <1>5, <1>6, <1>7, <1>8 DEF StepRuns

AllApart ==
  /\ marks \cap Stale = {} => PersonasApart(db)
  /\ marks \cap Beside = {} => MountsApart(db)

\* At the start, tables are kept apart.
LEMMA ApartInit == CatalogInit => AllApart
<1> SUFFICES ASSUME CatalogInit PROVE AllApart
  OBVIOUS
<1>1. PersonasApart(db) /\ MountsApart(db)
  <2>1. CASE db = EmptyDb
    <3>1. db.mounts = {} /\ db.personas = {}
      BY <2>1, TablesAre DEF EmptyDb
    <3> QED BY <3>1 DEF PersonasApart, MountsApart
  <2> QED BY <2>1, EstablishedAssumption DEF CatalogInit
<1> QED BY <1>1 DEF AllApart

\* Marks stay for good.
LEMMA MarksStay == ASSUME [CatalogNext]_catalogVars PROVE marks \cap Beside \subseteq marks'
<1>1. ASSUME NEW r \in Slot, RequestStep(r) PROVE marks \subseteq marks'
  <2>1. CASE StepsRun(r)
    BY <2>1 DEF StepsRun, Create, DeletePersona, WriteAgent, DeleteAgent, ImportRepos,
                UpdatePersona, ImportAgents, ImportPersona
  <2>2. CASE StepsKeepTables(r)
    BY <2>2, KeepsTables
  <2> QED BY <1>1, <2>1, <2>2, StepsAre
<1>2. CASE Seed
  BY <1>2 DEF Seed, Beside, Stale
<1>3. CASE Exit \/ ExitInside
  BY <1>3 DEF Exit, ExitInside
<1>4. CASE Open \/ Migrate \/ RecordVersion \/ Migrated \/ Upgrade \/ Export \/ SessionEvent
  BY <1>4 DEF Open, Migrate, RecordVersion, Migrated, Upgrade, Export, SessionEvent
<1>5. CASE UNCHANGED catalogVars
  BY <1>5 DEF catalogVars
<1> QED BY <1>1, <1>2, <1>3, <1>4, <1>5 DEF CatalogNext

\* Every step keeps the invariant.
LEMMA ApartNext ==
  Types /\ Consistent(db) /\ AllApart /\ [CatalogNext]_catalogVars => AllApart'
<1> SUFFICES ASSUME Types, Consistent(db), AllApart, [CatalogNext]_catalogVars PROVE AllApart'
  OBVIOUS
<1>1. marks \cap Beside \subseteq marks'
  BY MarksStay
<1>2. /\ marks' \cap Stale = {} => marks \cap Stale = {}
      /\ marks' \cap Beside = {} => marks \cap Beside = {}
  BY <1>1 DEF Beside
<1>3. CASE CatalogNext
  <2>1. StepRuns
    BY <1>3, NextRuns
  <2>2. Consistent(db')
    BY <2>1, StepKeeps
  <2>3. StepApart
    BY <2>1, <2>2, StepStaysApart
  <2> QED BY <1>2, <2>3 DEF AllApart, StepApart
<1>4. CASE UNCHANGED catalogVars
  BY <1>4 DEF catalogVars, AllApart
<1> QED BY <1>3, <1>4

\* No two personas have one path for their workspace and no persona mounts its own
\* workspace again, under whichever path, unless an update wrote back a workspace that
\* was stale or respelled, an import took a workspace that was taken or mounted, or an
\* update gave a workspace and not, or not yet when it ended, the mounts that go with
\* it (the checks of persona_manager.rs).
THEOREM CatalogWorkspacesApart == CatalogSpec => []WorkspacesApart
<1> DEFINE Inv == Types /\ Consistent(db)
<1>1. CatalogInit => AllApart
  BY ApartInit
<1>2. Inv /\ AllApart /\ [CatalogNext]_catalogVars => AllApart'
  BY ApartNext
<1>3. CatalogSpec => []Inv
  BY AlwaysTypes
<1>4. AllApart => WorkspacesApart
  BY DEF AllApart, WorkspacesApart, Beside, Stale
<1> HIDE DEF Inv
<1> QED BY <1>1, <1>2, <1>3, <1>4, PTL DEF CatalogSpec

---------------------------------------------------------------------------
(* What an import leaves alone *)

\* The statement leaves the persona id as it is, but for servers of S.
LeavesPersona(s, id, S) ==
  \/ \E t \in {"agents", "repos"} : \E row : s = Inserts(t, row)
  \/ \E row : row.id # id /\ s = Inserts("personas", row)
  \/ \E row : row.persona # id /\ s = Inserts("mounts", row)
  \/ \E row \in S : s = Inserts("servers", row)
  \/ \E v : v # id /\ s \in {Deletes("sessions", "persona", v, FALSE),
                             Deletes("personas", "id", v, FALSE)}

\* What such statements leave of the persona.
PersonaLeft(d, x, id, S) ==
  /\ DOMAIN x = Table
  /\ \A p : p.id = id => (p \in x["personas"] <=> p \in d["personas"])
  /\ \A m : m.persona = id => /\ m \in x["mounts"] <=> m \in d["mounts"]
                              /\ m \in x["sessions"] <=> m \in d["sessions"]
                              /\ m \in d["servers"] => m \in x["servers"]
                              /\ m \in x["servers"] => m \in d["servers"] \cup S

\* One statement, and any number of them.
LEMMA ExecLeaves ==
  ASSUME NEW d, DOMAIN d = Table, NEW s, NEW id, NEW S, LeavesPersona(s, id, S)
  PROVE  PersonaLeft(d, Exec(d, s).db, id, S)
<1> DEFINE e == Exec(d, s)
<1>0. {"personas", "mounts", "sessions", "servers", "agents", "repos"} \subseteq Table
  BY DEF Table
<1>1. ASSUME NEW t \in Table, NEW row, s = Inserts(t, row), t # "sessions",
             t = "personas" => row.id # id, t = "mounts" => row.persona # id,
             t = "servers" => row \in S
      PROVE  PersonaLeft(d, e.db, id, S)
  <2>1. Added(d, e, t, row)
    BY <1>1, ExecInserts
  <2> HIDE DEF e
  <2>2. /\ DOMAIN e.db = Table /\ \A u \in Table \ {t} : e.db[u] = d[u]
        /\ e.db[t] = d[t] \/ e.db[t] = d[t] \cup {row}
    BY <2>1, AddedIs
  <2>3. e.db["sessions"] = d["sessions"]
    BY <1>0, <1>1, <2>2
  <2>4. \A p : p.id = id => (p \in e.db["personas"] <=> p \in d["personas"])
    BY <1>0, <1>1, <2>2
  <2>5. \A m : m.persona = id => (m \in e.db["mounts"] <=> m \in d["mounts"])
    BY <1>0, <1>1, <2>2
  <2>6. d["servers"] \subseteq e.db["servers"] /\ e.db["servers"] \subseteq d["servers"] \cup S
    BY <1>0, <1>1, <2>2
  <2> QED BY <2>2, <2>3, <2>4, <2>5, <2>6 DEF PersonaLeft
<1>2. ASSUME NEW t \in {"sessions", "personas"}, NEW c, NEW v, v # id,
             s = Deletes(t, c, v, FALSE), c = IF t = "sessions" THEN "persona" ELSE "id"
      PROVE  PersonaLeft(d, e.db, id, S)
  <2> DEFINE gone == Having(d, t, c, v)
  <2>1. Taken(d, e, t, gone)
    BY <1>2, ExecDeletes
  <2>2. \A g \in gone : IF t = "sessions" THEN g.persona # id ELSE g.id # id
    BY <1>2 DEF Having
  <2> HIDE DEF e, gone
  <2>3. /\ DOMAIN e.db = Table
        /\ \/ e.db = d
           \/ /\ e.db[t] = d[t] \ gone /\ Unreferred(d, t, gone)
              /\ \A u \in Table \ {t} : e.db[u] = d[u] \ Cascaded(d, t, u, gone)
    BY <1>0, <2>1, TakenIs
  <2>4. CASE e.db = d
    BY <2>3, <2>4 DEF PersonaLeft
  <2>5. CASE /\ e.db[t] = d[t] \ gone /\ Unreferred(d, t, gone)
             /\ \A u \in Table \ {t} : e.db[u] = d[u] \ Cascaded(d, t, u, gone)
    <3>1. /\ Cascaded(d, t, "sessions", gone) = {} /\ Cascaded(d, t, "personas", gone) = {}
          /\ \A m \in Cascaded(d, t, "mounts", gone) \cup Cascaded(d, t, "servers", gone) :
               m.persona # id
      <4>1. CASE t = "sessions"
        BY <2>5, <4>1, CascadesTo
      <4>2. CASE t = "personas"
        BY <2>2, <2>5, <4>2, CascadesTo
      <4> QED BY <1>2, <4>1, <4>2
    <3>2. /\ \A p : p.id = id => (p \in e.db["personas"] <=> p \in d["personas"])
          /\ \A m : m.persona = id => (m \in e.db["sessions"] <=> m \in d["sessions"])
      BY <1>0, <1>2, <2>2, <2>5, <3>1
    <3>3. /\ e.db["mounts"] = d["mounts"] \ Cascaded(d, t, "mounts", gone)
          /\ e.db["servers"] = d["servers"] \ Cascaded(d, t, "servers", gone)
      BY <1>0, <1>2, <2>5
    <3> QED BY <2>3, <3>1, <3>2, <3>3 DEF PersonaLeft
  <2> QED BY <2>3, <2>4, <2>5
<1> QED BY <1>0, <1>1, <1>2 DEF LeavesPersona

LEMMA ExecutesLeaves ==
  ASSUME NEW Q, Executes(Q), DOMAIN db = Table, NEW id, NEW S,
         \A s \in Q : LeavesPersona(s, id, S)
  PROVE  PersonaLeft(db, db', id, S)
<1>1. PICK B \in Seq(Q) : db' = Run(db, B).db
  BY DEF Executes
<1> DEFINE x == Run(db, B).db
<1>2. PICK U : /\ db \in U /\ x \in U
               /\ \A G : /\ db \in G
                         /\ \A d \in G, s \in Q : Exec(d, s).db \in U => Exec(d, s).db \in G
                         => x \in G
  BY RunKeeps
<1> HIDE DEF x
<1> DEFINE G == {d \in U : PersonaLeft(db, d, id, S)}
<1>3. db \in G
  BY <1>2 DEF PersonaLeft
<1>4. ASSUME NEW d \in G, NEW s \in Q, Exec(d, s).db \in U PROVE Exec(d, s).db \in G
  <2>1. PersonaLeft(db, d, id, S) /\ DOMAIN d = Table
    BY DEF PersonaLeft
  <2>2. PersonaLeft(d, Exec(d, s).db, id, S)
    BY <2>1, ExecLeaves
  <2>3. PersonaLeft(db, Exec(d, s).db, id, S)
    BY <2>1, <2>2 DEF PersonaLeft
  <2> QED BY <1>4, <2>3
<1>5. x \in G
  <2> HIDE DEF G
  <2> QED BY <1>2, <1>3, <1>4
<1> QED BY <1>1, <1>5 DEF x

\* A closure of an import leaves alone every persona that it does not overwrite.
LEMMA ImportLeaves ==
  ASSUME Types, NEW r \in Slot, RunsImport(r) \/ RunsImportAgents(r), NEW x \in db["personas"],
         ~Overwrites(r, x.id)
  PROVE  PersonaLeft(db, db', x.id, req[r].payload.servers)
<1> DEFINE S == req[r].payload.servers
           L(s) == LeavesPersona(s, x.id, S)
<1>0. DOMAIN db = Table /\ x.id # fresh
  BY PersonasAre
<1>1. ASSUME NEW Q, Executes(Q), \A s \in Q : L(s) PROVE PersonaLeft(db, db', x.id, S)
  BY <1>0, <1>1, ExecutesLeaves
<1>2. CASE RunsImportAgents(r)
  <2>1. \A s \in Ins("agents", NewAgents(r)) : L(s)
    BY DEF Ins, LeavesPersona
  <2> QED BY <1>1, <1>2, <2>1 DEF RunsImportAgents
<1>3. CASE RunsImport(r)
  <2> DEFINE p == NextPersona(r)
  <2>0. req[r].at = "import_personas" /\ p \in req[r].todo
    BY <1>3, NextPersonaIs DEF RunsImport
  <2>1. ASSUME NEW id, NEW name, id # x.id PROVE \A s \in CopyStmts(r, p, id, name) : L(s)
    <3>1. \A s \in Ins("personas", {CopyRow(p, id, name)}) : L(s)
      BY <2>1 DEF Ins, LeavesPersona, CopyRow
    <3>2. \A s \in Ins("servers", {y \in req[r].payload.servers : y.persona = p.id}) : L(s)
      BY DEF Ins, LeavesPersona
    <3>3. \A s \in Ins("mounts", CopiedMounts(r, p, id)) : L(s)
      <4>1. \A m \in req[r].payload.mounts : [m EXCEPT !.persona = id].persona = id
        <5>1. WellFormed(req[r].payload, Exported, fresh) /\ "mounts" \in Exported
          BY <2>0 DEF Types, Carries, Importing, Exported
        <5>2. \A m \in req[r].payload.mounts : DOMAIN m = Column["mounts"]
          BY <5>1 DEF WellFormed
        <5> QED BY <5>2 DEF Column
      <4>2. \A m \in CopiedMounts(r, p, id) : m.persona = id
        BY <4>1 DEF CopiedMounts
      <4> QED BY <2>1, <4>2 DEF Ins, LeavesPersona
    <3> HIDE DEF p, L
    <3> QED BY <3>1, <3>2, <3>3 DEF CopyStmts
  <2>2. ASSUME NameTaken("personas", p.name, 0), p.name \in req[r].resolved,
               req[r].form.action = "overwrite"
        PROVE  \A s \in OverwriteStmts(p) : L(s)
    <3>1. Existing(p).id # x.id
      <4>1. Existing(p) \in db.personas /\ Existing(p).name = p.name
        BY <2>2, ExistingIs
      <4> QED BY <2>0, <2>2, <4>1 DEF Overwrites
    <3> HIDE DEF p
    <3> QED BY <3>1 DEF OverwriteStmts, LeavesPersona
  <2>3. ~HasRow("personas", p.id) => p.id # x.id
    BY DEF HasRow
  <2> HIDE DEF p, L
  <2>4. CASE ~HasRow("personas", p.id) /\ Executes(CopyStmts(r, p, p.id, p.name))
    BY <1>1, <2>1, <2>3, <2>4
  <2>5. CASE Executes(CopyStmts(r, p, fresh, req[r].form.name))
    BY <1>0, <1>1, <2>1, <2>5
  <2>6. CASE /\ NameTaken("personas", p.name, 0)
             /\ p.name \in req[r].resolved /\ req[r].form.action = "overwrite"
             /\ Executes(OverwriteStmts(p) \cup CopyStmts(r, p, fresh, p.name))
    <3> DEFINE Q == OverwriteStmts(p) \cup CopyStmts(r, p, fresh, p.name)
    <3>1. Executes(Q) /\ \A s \in Q : L(s)
      BY <1>0, <2>1, <2>2, <2>6
    <3> HIDE DEF Q
    <3> QED BY <1>1, <3>1
  <2> QED BY <1>3, <2>4, <2>5, <2>6 DEF RunsImport, p
<1> QED BY <1>2, <1>3

\* A step of a request is that request's, and one of an import is of three.
LEMMA RequestMoves ==
  ASSUME Types, NEW r \in Slot, RequestStep(r) PROVE \E q : req' = [req EXCEPT ![r] = q]
<1>1. CASE StepsKeepTables(r)
  <2>1. ASSUME NEW op, NEW q, Start(r, op, q) PROVE \E x : req' = [req EXCEPT ![r] = x]
    BY <2>1 DEF Start
  <2>2. CASE ReadPersona(r) \/ PersonasImported(r)
    BY <2>2 DEF ReadPersona, PersonasImported, Finish, GoTo
  <2>3. CASE StartCreate(r)
    BY <2>1, <2>3 DEF StartCreate
  <2>4. CASE StartUpdate(r)
    BY <2>1, <2>4 DEF StartUpdate
  <2>5. CASE StartDelete(r)
    BY <2>1, <2>5 DEF StartDelete
  <2>6. CASE StartAgent(r)
    BY <2>1, <2>6 DEF StartAgent
  <2>7. CASE StartDeleteAgent(r)
    BY <2>1, <2>7 DEF StartDeleteAgent
  <2>8. CASE StartImport(r)
    BY <2>1, <2>8 DEF StartImport
  <2> QED BY <1>1, <2>2, <2>3, <2>4, <2>5, <2>6, <2>7, <2>8 DEF StepsKeepTables
<1>2. CASE StepsRun(r)
  <2>1. CASE Finish(r)
    BY <2>1 DEF Finish
  <2>2. CASE ImportAgents(r)
    BY <2>1, <2>2 DEF ImportAgents, GoTo
  <2>3. CASE ImportPersona(r)
    <3> DEFINE p == NextPersona(r)
               q == [req[r] EXCEPT !.todo = @ \ {p}, !.map = @ \cup ImportedAs(r, p)]
    <3>1. CASE req' = [req EXCEPT ![r].todo = @ \ {p}, ![r].map = @ \cup ImportedAs(r, p)]
      <4>1. DOMAIN req = Slot
        BY DEF Types
      <4>2. req' = [req EXCEPT ![r] = q]
        BY <3>1, <4>1
      <4> HIDE DEF q
      <4> QED BY <4>2
    <3> QED BY <2>1, <2>3, <3>1 DEF ImportPersona
  <2> QED BY <1>2, <2>1, <2>2, <2>3 DEF StepsRun, Create, UpdatePersona, DeletePersona, WriteAgent,
             DeleteAgent, ImportRepos
<1> QED BY <1>1, <1>2, StepsAre

\* The closures of an import between which requests of others may run.
LEMMA ImportSteps ==
  ASSUME NEW r \in Slot, RequestStep(r), req[r].at \in {"import_agents", "import_personas"}
  PROVE  ImportAgents(r) \/ ImportPersona(r) \/ PersonasImported(r)
<1>1. ASSUME NEW op, NEW q, Start(r, op, q) PROVE FALSE
  BY <1>1 DEF Start, Idle
<1>2. ~(\/ StartCreate(r) \/ StartUpdate(r) \/ StartDelete(r) \/ StartAgent(r)
        \/ StartDeleteAgent(r) \/ StartImport(r))
  BY <1>1 DEF StartCreate, StartUpdate, StartDelete, StartAgent, StartDeleteAgent, StartImport
<1>3. ~(\/ Create(r) \/ ReadPersona(r) \/ UpdatePersona(r) \/ DeletePersona(r) \/ WriteAgent(r)
        \/ DeleteAgent(r) \/ ImportRepos(r))
  BY DEF Create, ReadPersona, UpdatePersona, DeletePersona, WriteAgent, DeleteAgent, ImportRepos, At
<1> QED BY <1>2, <1>3 DEF RequestStep

\* What is left, in the terms of the property.
LEMMA LeftIs ==
  ASSUME Types, NEW d, NEW x, NEW id, NEW S, PersonaLeft(d, x, id, S)
  PROVE  /\ Of(x, id) = Of(d, id)
         /\ \A s \in d.servers : s.persona = id => s \in x.servers
         /\ \A s \in x.servers \ d.servers : s.persona = id => s \in S
BY DEF PersonaLeft, Of

\* An import changes nothing of a persona that is not to be overwritten: its row, mounts
\* and sessions stay as they are, and its servers can only gain servers of the file
\* (import in export_import_manager.rs, which skips, renames or overwrites).
THEOREM CatalogImportKeeps == CatalogSpec => ImportKeepsOthers
<1> DEFINE Kept(r, p) ==
             /\ Of(db', p.id) = Of(db, p.id)
             /\ \A s \in db.servers : s.persona = p.id => s \in db'.servers
             /\ \A s \in db'.servers \ db.servers :
                  s.persona = p.id => s \in req[r].payload.servers
<1>1. ASSUME Types, CatalogNext, NEW r \in Slot, req[r].at \in {"import_agents", "import_personas"},
             req'[r] # req[r], exits' = exits, NEW p \in db.personas, ~Overwrites(r, p.id)
      PROVE  Kept(r, p)
  <2>1. ImportAgents(r) \/ ImportPersona(r) \/ PersonasImported(r)
    <3>1. exits \in Nat /\ DOMAIN req = Slot
      BY <1>1 DEF Types
    <3>2. ~(Exit \/ ExitInside)
      <4>1. ~Ended
        BY <1>1, <3>1 DEF Ended
      <4> QED BY <4>1 DEF Exit, ExitInside
    <3>3. ~(\/ Open \/ Migrate \/ RecordVersion \/ Migrated \/ Seed \/ Upgrade \/ Export
            \/ SessionEvent)
      BY <1>1 DEF Open, Migrate, RecordVersion, Migrated, Seed, Upgrade, Export, SessionEvent
    <3>4. PICK q \in Slot : RequestStep(q)
      BY <1>1, <3>2, <3>3 DEF CatalogNext
    <3>5. q = r
      BY <1>1, <3>1, <3>4, RequestMoves
    <3> QED BY <1>1, <3>4, <3>5, ImportSteps
  <2>2. CASE db' = db
    BY <2>2
  <2>3. CASE RunsImport(r) \/ RunsImportAgents(r)
    <3>1. PersonaLeft(db, db', p.id, req[r].payload.servers)
      BY <1>1, <2>3, ImportLeaves
    <3> QED BY <1>1, <3>1, LeftIs
  <2>4. CASE PersonasImported(r)
    BY <2>2, <2>4 DEF PersonasImported
  <2>5. CASE ImportAgents(r)
    <3>1. Unmoved \/ RunsImportAgents(r)
      BY <1>1, <2>5, ClosureRan, ImportAgentsRan DEF ImportAgents, At
    <3> QED BY <2>2, <2>3, <3>1 DEF Unmoved
  <2>6. CASE ImportPersona(r)
    <3>1. Unlooked(r, NextPersona(r)) \subseteq marks'
      BY <2>6 DEF ImportPersona
    <3>2. Unmoved \/ RunsImport(r)
      BY <1>1, <2>6, <3>1, ClosureRan, ImportRan DEF ImportPersona, At
    <3> QED BY <2>2, <2>3, <3>2 DEF Unmoved
  <2> QED BY <2>1, <2>4, <2>5, <2>6
<1>2. Types /\ Consistent(db) /\ [CatalogNext]_catalogVars =>
        [\A r \in Slot :
           req[r].at \in {"import_agents", "import_personas"} /\ req'[r] # req[r]
             /\ exits' = exits =>
             \A p \in db.personas :
               ~Overwrites(r, p.id) =>
                 /\ Of(db', p.id) = Of(db, p.id)
                 /\ \A s \in db.servers : s.persona = p.id => s \in db'.servers
                 /\ \A s \in db'.servers \ db.servers :
                      s.persona = p.id => s \in req[r].payload.servers]_catalogVars
  BY <1>1
<1> QED BY <1>2, AlwaysTypes, PTL DEF CatalogSpec, ImportKeepsOthers

=============================================================================
