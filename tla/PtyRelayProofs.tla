---------------------------- MODULE PtyRelayProofs ----------------------------
(***************************************************************************)
(* What the viewers of a terminal are promised, for every number of        *)
(* viewers, chunks, processes and every capacity of the channel.           *)
(***************************************************************************)
EXTENDS PtyRelay, TLAPS

\* A viewer that is attached.
Session ==
  [at : Process, from : Nat \ {0}, next : Nat, got : Seq(Nat), skipped : SUBSET Nat, typed : Nat,
   control : SUBSET Nat, queue : Seq(Nat), refused : SUBSET Nat, sent : Nat]

Types ==
  /\ spawned \in 0..MaxSpawns /\ entry \in 0..spawned
  /\ opening \subseteq 1..spawned /\ alive \subseteq 1..spawned
  /\ output \in [Process -> 0..MaxOutput]
  /\ input \in [Process -> [Viewer -> Seq(Nat)]]
  /\ viewer \in [Viewer -> {Away} \cup Session]

\* The chunks up to the next one, the received and the skipped ones.
LEMMA Skipping ==
  ASSUME NEW a \in Nat, NEW b \in Nat, NEW c \in Nat, a <= b, b <= c,
         NEW G, NEW S, G \cup S = a..(b - 1), G \cap S = {}
  PROVE  /\ G \cup (S \cup b..(c - 1)) = a..(c - 1)
         /\ G \cap (S \cup b..(c - 1)) = {}
<1>1. a..(b - 1) \cup b..(c - 1) = a..(c - 1)
  OBVIOUS
<1>2. \A g \in G : g \notin b..(c - 1)
  <2> SUFFICES ASSUME NEW g \in G PROVE g \notin b..(c - 1)
    OBVIOUS
  <2>1. g \in a..(b - 1)
    OBVIOUS
  <2> QED BY <2>1
<1>3. G \cup (S \cup b..(c - 1)) = a..(c - 1)
  <2>1. G \cup (S \cup b..(c - 1)) = (G \cup S) \cup b..(c - 1)
    OBVIOUS
  <2> QED BY <1>1, <2>1
<1> QED BY <1>2, <1>3

LEMMA Relaying ==
  ASSUME NEW a \in Nat, NEW b \in Nat, a <= b,
         NEW G, NEW S, G \cup S = a..(b - 1), G \cap S = {}
  PROVE  (G \cup {b}) \cup S = a..b /\ (G \cup {b}) \cap S = {}
<1>1. a..(b - 1) \cup {b} = a..b
  OBVIOUS
<1>2. b \notin S
  <2>1. b \notin a..(b - 1)
    OBVIOUS
  <2> QED BY <2>1
<1>3. (G \cup {b}) \cup S = (G \cup S) \cup {b}
  OBVIOUS
<1> QED BY <1>1, <1>2, <1>3

\* A queue that ends with the last of t messages typed.
LastOf(q, t) == Len(q) <= t /\ \A j \in 1..Len(q) : q[j] = t - Len(q) + j

LEMMA QueueGrows ==
  ASSUME NEW q \in Seq(Nat), NEW t \in Nat, LastOf(q, t)
  PROVE  LastOf(Append(q, t + 1), t + 1) /\ Len(Append(q, t + 1)) = Len(q) + 1
<1> DEFINE r == Append(q, t + 1)
<1>1. /\ Len(q) \in Nat /\ Len(r) = Len(q) + 1 /\ r[Len(q) + 1] = t + 1
      /\ \A j \in 1..Len(q) : r[j] = q[j]
  OBVIOUS
<1> HIDE DEF r
<1>2. ASSUME NEW j \in 1..(Len(q) + 1) PROVE r[j] = (t + 1) - (Len(q) + 1) + j
  <2>1. CASE j = Len(q) + 1
    BY <1>1, <2>1
  <2>2. CASE j \in 1..Len(q)
    <3>1. r[j] = t - Len(q) + j
      BY <1>1, <2>2 DEF LastOf
    <3> QED BY <1>1, <3>1
  <2> QED BY <1>1, <2>1, <2>2
<1> QED BY <1>1, <1>2 DEF LastOf, r

LEMMA QueueShrinks ==
  ASSUME NEW q \in Seq(Nat), NEW t \in Nat, LastOf(q, t), q # <<>>
  PROVE  /\ LastOf(Tail(q), t) /\ Len(Tail(q)) = Len(q) - 1 /\ Len(q) \in Nat \ {0}
         /\ Head(q) = t - Len(q) + 1
<1>1. /\ Len(q) \in Nat \ {0} /\ Len(Tail(q)) = Len(q) - 1 /\ Head(q) = q[1]
      /\ \A j \in 1..(Len(q) - 1) : Tail(q)[j] = q[j + 1]
  OBVIOUS
<1>2. ASSUME NEW j \in 1..(Len(q) - 1) PROVE Tail(q)[j] = t - (Len(q) - 1) + j
  <2>1. j + 1 \in 1..Len(q) /\ Tail(q)[j] = q[j + 1]
    BY <1>1
  <2>2. q[j + 1] = t - Len(q) + (j + 1)
    BY <2>1 DEF LastOf
  <2> QED BY <1>1, <2>1, <2>2
<1>3. Head(q) = t - Len(q) + 1
  BY <1>1 DEF LastOf
<1> QED BY <1>1, <1>2, <1>3 DEF LastOf

\* What a process has read since its first s messages: the first h typed, without X.
ReadSince(own, s, h, X) ==
  /\ \A i, j \in (s + 1)..Len(own) : i < j => own[i] < own[j]
  /\ {own[i] : i \in (s + 1)..Len(own)} = 1..h \ X

LEMMA ReadGrows ==
  ASSUME NEW own \in Seq(Nat), NEW s \in Nat, NEW h \in Nat, NEW X,
         s <= Len(own), h + 1 \notin X, ReadSince(own, s, h, X)
  PROVE  ReadSince(Append(own, h + 1), s, h + 1, X) /\ Len(Append(own, h + 1)) = Len(own) + 1
<1> DEFINE r == Append(own, h + 1)
           n == Len(own)
<1>1. /\ n \in Nat /\ Len(r) = n + 1 /\ r[n + 1] = h + 1
      /\ \A j \in 1..n : r[j] = own[j]
  OBVIOUS
<1>2. /\ \A i, j \in (s + 1)..n : i < j => own[i] < own[j]
      /\ {own[i] : i \in (s + 1)..n} = 1..h \ X /\ s <= n
  BY DEF ReadSince
<1>3. \A j \in (s + 1)..n : own[j] \in 1..h
  BY <1>2
<1> HIDE DEF r, n
<1>4. \A j \in (s + 1)..n : j \in 1..n
  BY <1>1
<1>5. \A j \in (s + 1)..(n + 1) : j = n + 1 \/ j \in (s + 1)..n
  BY <1>1
<1>6. ASSUME NEW i \in (s + 1)..(n + 1), NEW j \in (s + 1)..(n + 1), i < j
      PROVE  r[i] < r[j]
  <2>1. i \in (s + 1)..n /\ r[i] = own[i] /\ own[i] \in 1..h
    BY <1>1, <1>3, <1>4, <1>5, <1>6
  <2>2. CASE j = n + 1
    BY <1>1, <2>1, <2>2
  <2>3. CASE j \in (s + 1)..n
    <3>1. r[j] = own[j]
      BY <1>1, <1>4, <2>3
    <3> QED BY <1>2, <1>6, <2>1, <2>3, <3>1
  <2> QED BY <1>5, <2>2, <2>3
<1>7. {r[i] : i \in (s + 1)..(n + 1)} = {own[i] : i \in (s + 1)..n} \cup {h + 1}
  <2>1. n + 1 \in (s + 1)..(n + 1) /\ \A i \in (s + 1)..n : i \in (s + 1)..(n + 1)
    BY <1>1, <1>2
  <2> QED BY <1>1, <1>4, <1>5, <2>1
<1>8. 1..(h + 1) \ X = (1..h \ X) \cup {h + 1}
  OBVIOUS
<1>9. Len(r) = n + 1
  BY <1>1
<1> QED BY <1>2, <1>6, <1>7, <1>8, <1>9 DEF ReadSince, r, n

\* The processes a session, its place in the channel and its queue refer to.
Placed(w) == w.at \in 1..spawned /\ w.from <= w.next /\ w.next <= output[w.at] + 1
Handled(w) == w.typed - Len(w.queue)
Queued(w, own) ==
  /\ w.sent <= Len(own) /\ LastOf(w.queue, w.typed)
  /\ w.refused \subseteq 1..Handled(w)
Served(v) ==
  /\ Placed(viewer[v]) /\ Queued(viewer[v], input[viewer[v].at][v])
  /\ OutputInOrder(v) /\ InputInOrder(v)
Inv == Types /\ \A v \in Viewer : Attached(v) => Served(v)

LEMMA SessionTyped ==
  ASSUME Types, NEW v \in Viewer, Attached(v)
  PROVE  /\ viewer[v] \in Session /\ viewer[v].at \in Process
         /\ output[viewer[v].at] \in 0..MaxOutput /\ input[viewer[v].at][v] \in Seq(Nat)
BY DEF Types, Attached, Session

LEMMA AwayIsAway ==
  ASSUME NEW w \in Session
  PROVE  w # Away
BY BoundAssumption DEF Session, Away, Process

\* Served looks at the viewer, its process's output and its own input only.
LEMMA SameServed ==
  ASSUME Inv, NEW v \in Viewer, Attached(v)', viewer'[v] = viewer[v],
         input'[viewer[v].at][v] = input[viewer[v].at][v],
         output[viewer[v].at] <= output'[viewer[v].at], output'[viewer[v].at] \in 0..MaxOutput,
         spawned <= spawned', spawned' \in Nat
  PROVE  Served(v)'
<1>1. Attached(v) /\ Served(v) /\ Types
  BY DEF Inv, Attached
<1>2. viewer[v] \in Session /\ output[viewer[v].at] \in 0..MaxOutput
  BY <1>1, SessionTyped
<1>3. Placed(viewer[v])'
  <2>1. /\ viewer[v].at \in 1..spawned /\ viewer[v].next <= output[viewer[v].at] + 1
        /\ viewer[v].from <= viewer[v].next /\ viewer[v].next \in Nat /\ viewer[v].at \in Nat
    BY <1>1, <1>2, BoundAssumption DEF Served, Placed, Session, Process
  <2>2. spawned \in Nat /\ output[viewer[v].at] \in Nat /\ output'[viewer[v].at] \in Nat
    BY <1>1, <1>2, BoundAssumption DEF Types
  <2> QED BY <2>1, <2>2 DEF Placed
<1>4. Queued(viewer[v], input[viewer[v].at][v])'
  BY <1>1 DEF Served, Queued, Handled
<1>5. OutputInOrder(v)'
  <2>1. \A s \in viewer[v].skipped : s + Capacity <= output'[viewer[v].at]
    <3>1. /\ \A s \in viewer[v].skipped : s \in Nat /\ s + Capacity <= output[viewer[v].at]
          /\ output[viewer[v].at] \in Nat /\ output'[viewer[v].at] \in Nat /\ Capacity \in Nat
      BY <1>1, <1>2, CapacityAssumption, BoundAssumption DEF Served, OutputInOrder, Session
    <3> QED BY <3>1
  <2> QED BY <1>1, <2>1 DEF Served, OutputInOrder
<1>6. InputInOrder(v)'
  BY <1>1 DEF Served, InputInOrder
<1> QED BY <1>3, <1>4, <1>5, <1>6 DEF Served

LEMMA NextTyped ==
  ASSUME Inv, [RelayNext]_relayVars
  PROVE  Types' /\ spawned <= spawned' /\ spawned' \in Nat
<1>0. Types /\ MaxSpawns \in Nat /\ MaxOutput \in Nat /\ MaxInput \in Nat /\ spawned \in Nat
  BY BoundAssumption DEF Inv, Types
<1>1. CASE Spawn
  BY <1>0, <1>1 DEF Spawn, Types
<1>2. CASE Kill
  BY <1>0, <1>2 DEF Kill, Types
<1>3. ASSUME NEW p \in Process, Output(p) PROVE Types' /\ UNCHANGED spawned
  BY <1>0, <1>3 DEF Output, Types
<1>4. ASSUME NEW p \in Process, EndOfFile(p) PROVE Types' /\ UNCHANGED spawned
  BY <1>0, <1>4 DEF EndOfFile, Types
<1>4a. ASSUME NEW p \in Process, EnterSession(p) PROVE Types' /\ UNCHANGED spawned
  BY <1>0, <1>4a DEF EnterSession, Types
<1>4b. ASSUME NEW p \in Process, OpenFails(p) PROVE Types' /\ UNCHANGED spawned
  BY <1>0, <1>4b DEF OpenFails, Types
<1>5. ASSUME NEW v \in Viewer, NEW w \in {Away} \cup Session, viewer' = [viewer EXCEPT ![v] = w],
             UNCHANGED <<entry, opening, spawned, alive, output, input>>
      PROVE  Types' /\ UNCHANGED spawned
  BY <1>0, <1>5 DEF Types
<1>6. ASSUME NEW v \in Viewer, Attach(v) PROVE Types' /\ UNCHANGED spawned
  <2> DEFINE w == [at |-> entry, from |-> output[entry] + 1, next |-> output[entry] + 1, got |-> <<>>,
                   skipped |-> {}, typed |-> 0, control |-> {}, queue |-> <<>>, refused |-> {},
                   sent |-> Len(input[entry][v])]
  <2>1. entry \in Process /\ output[entry] \in Nat /\ input[entry][v] \in Seq(Nat)
    BY <1>0, <1>6 DEF Attach, Types, Process
  <2>2. w \in Session
    BY <2>1 DEF Session
  <2>3. viewer' = [viewer EXCEPT ![v] = w] /\ UNCHANGED <<entry, opening, spawned, alive, output, input>>
    BY <1>6 DEF Attach
  <2> HIDE DEF w
  <2> QED BY <1>5, <2>2, <2>3
<1>7. ASSUME NEW v \in Viewer, Lag(v) PROVE Types' /\ UNCHANGED spawned
  <2> DEFINE old == viewer[v]
             w == [old EXCEPT !.next = Oldest(old.at),
                              !.skipped = @ \cup old.next .. (Oldest(old.at) - 1)]
  <2>1. old \in Session /\ output[old.at] \in Nat
    BY <1>0, <1>7, SessionTyped DEF Lag
  <2>2. Oldest(old.at) \in Nat
    BY <2>1, CapacityAssumption DEF Oldest
  <2>3. old.next \in Nat /\ old.next .. (Oldest(old.at) - 1) \subseteq Nat
    BY <2>1, <2>2 DEF Session
  <2>4. viewer' = [viewer EXCEPT ![v] = w]
    BY <1>7 DEF Lag
  <2>5. w \in Session
    <3> HIDE DEF old
    <3> QED BY <2>1, <2>2, <2>3 DEF Session
  <2> HIDE DEF w
  <2> QED BY <1>5, <1>7, <2>4, <2>5 DEF Lag
<1>8. ASSUME NEW v \in Viewer, Relay(v) PROVE Types' /\ UNCHANGED spawned
  <2> DEFINE old == viewer[v]
             w == [old EXCEPT !.next = @ + 1, !.got = Append(@, old.next)]
  <2>1. old \in Session
    BY <1>0, <1>8, SessionTyped DEF Relay
  <2>2. viewer' = [viewer EXCEPT ![v] = w]
    BY <1>8 DEF Relay
  <2>3. w \in Session
    <3> HIDE DEF old
    <3>1. old.next + 1 \in Nat /\ old.got \in Seq(Nat) /\ old.next \in Nat
      BY <2>1 DEF Session
    <3>2. Append(old.got, old.next) \in Seq(Nat)
      BY <3>1
    <3> QED BY <2>1, <3>1, <3>2 DEF Session
  <2> HIDE DEF w
  <2> QED BY <1>5, <1>8, <2>2, <2>3 DEF Relay
<1>9. ASSUME NEW v \in Viewer, Type(v) PROVE Types' /\ UNCHANGED spawned
  <2> DEFINE old == viewer[v]
             w(controls) == [old EXCEPT !.typed = @ + 1, !.queue = Append(@, old.typed + 1),
                                        !.control = @ \cup controls]
  <2>1. old \in Session
    BY <1>0, <1>9, SessionTyped DEF Type
  <2>2. PICK controls \in {{}, {old.typed + 1}} : viewer' = [viewer EXCEPT ![v] = w(controls)]
    BY <1>9 DEF Type
  <2>3. w(controls) \in Session
    <3> HIDE DEF old
    <3>1. old.typed + 1 \in Nat /\ old.queue \in Seq(Nat) /\ old.control \subseteq Nat
      BY <2>1 DEF Session
    <3>2. Append(old.queue, old.typed + 1) \in Seq(Nat) /\ old.control \cup controls \subseteq Nat
      BY <2>2, <3>1
    <3> QED BY <2>1, <3>1, <3>2 DEF Session
  <2>4. UNCHANGED <<entry, opening, spawned, alive, output, input>>
    BY <1>9 DEF Type
  <2> HIDE DEF w
  <2> QED BY <1>5, <2>2, <2>3, <2>4
<1>10. ASSUME NEW v \in Viewer, WriteInput(v) PROVE Types' /\ UNCHANGED spawned
  <2> DEFINE old == viewer[v]
             taken == [old EXCEPT !.queue = Tail(@)]
             failed == [old EXCEPT !.queue = Tail(@), !.refused = @ \cup {Head(old.queue)}]
             own == input[old.at][v]
             more == Append(own, Head(old.queue))
  <2>1. old \in Session /\ old.at \in Process /\ own \in Seq(Nat)
    BY <1>0, <1>10, SessionTyped DEF WriteInput
  <2>2. old.queue \in Seq(Nat) /\ old.queue # <<>> /\ old.refused \subseteq Nat
    BY <1>10, <2>1 DEF WriteInput, Session
  <2>3. taken \in Session /\ failed \in Session /\ more \in Seq(Nat)
    <3> HIDE DEF old, own
    <3>1. Head(old.queue) \in Nat /\ Tail(old.queue) \in Seq(Nat)
      BY <2>2
    <3>2. more \in Seq(Nat)
      BY <2>1, <3>1
    <3>3. old.refused \cup {Head(old.queue)} \subseteq Nat
      BY <2>2, <3>1
    <3>4. taken \in Session /\ failed \in Session
      BY <2>1, <3>1, <3>3 DEF Session
    <3> QED BY <3>2, <3>4
  <2>4. PICK w \in {taken, failed} : viewer' = [viewer EXCEPT ![v] = w]
    BY <1>10 DEF WriteInput
  <2>5. input' \in [Process -> [Viewer -> Seq(Nat)]]
    <3>1. UNCHANGED input \/ input' = [input EXCEPT ![old.at] = [input[old.at] EXCEPT ![v] = more]]
      BY <1>10 DEF WriteInput
    <3>2. input \in [Process -> [Viewer -> Seq(Nat)]]
      BY <1>0 DEF Types
    <3> HIDE DEF old, more
    <3>3. [input[old.at] EXCEPT ![v] = more] \in [Viewer -> Seq(Nat)]
      BY <2>1, <2>3, <3>2
    <3> QED BY <2>1, <3>1, <3>2, <3>3
  <2>6. w \in Session
    BY <2>3, <2>4
  <2>7. UNCHANGED <<entry, opening, spawned, alive, output>>
    BY <1>10 DEF WriteInput
  <2> HIDE DEF taken, failed
  <2>8. viewer' \in [Viewer -> {Away} \cup Session]
    BY <1>0, <2>4, <2>6 DEF Types
  <2> QED BY <1>0, <2>5, <2>7, <2>8 DEF Types
<1>11. ASSUME NEW v \in Viewer, Detach(v) PROVE Types' /\ UNCHANGED spawned
  BY <1>5, <1>11 DEF Detach
<1>12. CASE UNCHANGED relayVars
  BY <1>0, <1>12 DEF relayVars, Types
<1> QED
  BY <1>0, <1>1, <1>2, <1>3, <1>4, <1>4a, <1>4b, <1>6, <1>7, <1>8, <1>9, <1>10, <1>11,
     <1>12
     DEF RelayNext, Spawn, Kill, relayVars

\* What another viewer does, or a process other than its own, leaves it served.
LEMMA OthersServed ==
  ASSUME Inv, NEW u \in Viewer, NEW v \in Viewer \ {u}, Attached(v)',
         \A x \in Viewer \ {u} : viewer'[x] = viewer[x],
         \A p \in Process : input'[p][v] = input[p][v],
         UNCHANGED <<spawned, alive, output>>
  PROVE  Served(v)'
<1>1. Attached(v) /\ Types /\ viewer'[v] = viewer[v]
  BY DEF Inv, Attached
<1>2. viewer[v].at \in Process /\ output[viewer[v].at] \in 0..MaxOutput
  BY <1>1, SessionTyped
<1>3. output[viewer[v].at] \in Nat /\ spawned \in Nat
  BY <1>1, <1>2, BoundAssumption DEF Types
<1> QED BY <1>1, <1>2, <1>3, SameServed

LEMMA AttachServes ==
  ASSUME Inv, NEW v \in Viewer, Attach(v)
  PROVE  Served(v)'
<1> DEFINE w == [at |-> entry, from |-> output[entry] + 1, next |-> output[entry] + 1, got |-> <<>>,
                 skipped |-> {}, typed |-> 0, control |-> {}, queue |-> <<>>, refused |-> {},
                   sent |-> Len(input[entry][v])]
<1>1. /\ viewer'[v] = w /\ UNCHANGED <<entry, opening, spawned, alive, output, input>>
      /\ entry \in 1..spawned /\ entry \in Process /\ spawned \in Nat
      /\ output[entry] \in Nat /\ input[entry][v] \in Seq(Nat)
  BY BoundAssumption DEF Inv, Types, Attach, Process
<1>2. Len(input[entry][v]) \in Nat
  BY <1>1
<1>3. /\ w.at = entry /\ w.from = output[entry] + 1 /\ w.next = output[entry] + 1 /\ w.got = <<>>
      /\ w.skipped = {} /\ w.typed = 0 /\ w.queue = <<>> /\ w.sent = Len(input[entry][v])
      /\ w.control = {} /\ w.refused = {}
  OBVIOUS
<1> HIDE DEF w
<1>4. Placed(viewer[v])' /\ Queued(viewer[v], input[viewer[v].at][v])'
  BY <1>1, <1>2, <1>3 DEF Placed, Queued, Handled, LastOf
<1>5. OutputInOrder(v)'
  BY <1>1, <1>2, <1>3 DEF OutputInOrder
<1>6. InputInOrder(v)'
  <2> DEFINE n == Len(input[entry][v])
  <2>1. w.typed - Len(w.queue) = 0
    <3>1. w.typed = 0 /\ Len(w.queue) = 0
      BY <1>3
    <3> QED BY <3>1
  <2>2. (n + 1)..n = {} /\ 1..0 = {}
    <3> HIDE DEF n
    <3> QED BY <1>2 DEF n
  <2>3. viewer'[v] = w /\ w.sent = n /\ input'[w.at][v] = input[entry][v]
    BY <1>1, <1>3
  <2> QED BY <2>1, <2>2, <2>3 DEF InputInOrder
<1> QED BY <1>4, <1>5, <1>6 DEF Served

LEMMA LagServes ==
  ASSUME Inv, NEW v \in Viewer, Lag(v)
  PROVE  Served(v)'
<1> DEFINE old == viewer[v]
           oldest == Oldest(old.at)
           w == [old EXCEPT !.next = oldest, !.skipped = @ \cup old.next .. (oldest - 1)]
           G == {old.got[i] : i \in DOMAIN old.got}
<1>1. Attached(v) /\ Served(v) /\ Types /\ old \in Session
  BY SessionTyped DEF Inv, Lag
<1>2. /\ viewer'[v] = w /\ UNCHANGED <<entry, opening, spawned, alive, output, input>> /\ old.next < oldest
  BY <1>1 DEF Lag, Types
<1>3. /\ old.from \in Nat \ {0} /\ old.next \in Nat /\ output[old.at] \in Nat /\ Capacity \in Nat \ {0}
      /\ old.from <= old.next /\ old.next <= output[old.at] + 1
  BY <1>1, SessionTyped, BoundAssumption, CapacityAssumption DEF Session, Served, Placed
<1>4. oldest = output[old.at] - Capacity + 1 /\ output[old.at] > Capacity /\ oldest \in Nat
  BY <1>2, <1>3 DEF Oldest
<1>5. /\ w.at = old.at /\ w.from = old.from /\ w.next = oldest /\ w.got = old.got
      /\ w.skipped = old.skipped \cup old.next .. (oldest - 1)
      /\ w.typed = old.typed /\ w.queue = old.queue /\ w.sent = old.sent
      /\ w.control = old.control /\ w.refused = old.refused
  BY <1>1 DEF Session
<1> HIDE DEF w, oldest
<1>6. Placed(viewer[v])'
  BY <1>1, <1>2, <1>3, <1>4, <1>5 DEF Served, Placed
<1>7. Queued(viewer[v], input[viewer[v].at][v])' /\ InputInOrder(v)'
  BY <1>1, <1>2, <1>5 DEF Served, Queued, Handled, InputInOrder
<1>8. OutputInOrder(v)'
  <2>1. /\ \A i \in 1..(Len(old.got) - 1) : old.got[i] < old.got[i + 1]
        /\ G \cup old.skipped = old.from .. (old.next - 1) /\ G \cap old.skipped = {}
        /\ \A s \in old.skipped : s + Capacity <= output[old.at]
    BY <1>1 DEF Served, OutputInOrder
  <2> HIDE DEF G
  <2>2. G \cup w.skipped = w.from .. (w.next - 1) /\ G \cap w.skipped = {}
    <3>1. old.next <= oldest
      BY <1>2, <1>3, <1>4
    <3>2. old.from \in Nat /\ old.next \in Nat /\ oldest \in Nat /\ old.from <= old.next
      BY <1>3, <1>4
    <3>3. G \cup old.skipped = old.from .. (old.next - 1) /\ G \cap old.skipped = {}
      BY <2>1
    <3> HIDE DEF old
    <3>4. /\ G \cup (old.skipped \cup old.next .. (oldest - 1)) = old.from .. (oldest - 1)
          /\ G \cap (old.skipped \cup old.next .. (oldest - 1)) = {}
      BY <3>1, <3>2, <3>3, Skipping
    <3> QED BY <1>5, <3>4
  <2>3. \A s \in w.skipped : s + Capacity <= output[w.at]
    <3> DEFINE o == output[old.at]
    <3>1. \A s \in old.skipped : s + Capacity <= o
      BY <2>1
    <3>2. o \in Nat /\ Capacity \in Nat /\ oldest = o - Capacity + 1 /\ old.next \in Nat
      BY <1>3, <1>4
    <3> HIDE DEF old, o
    <3>3. \A s \in old.next .. (oldest - 1) : s + Capacity <= o
      BY <3>2
    <3>4. \A s \in w.skipped : s + Capacity <= o
      BY <1>5, <3>1, <3>3
    <3> QED BY <1>5, <3>4 DEF o
  <2> QED BY <1>2, <1>5, <2>1, <2>2, <2>3 DEF OutputInOrder, G
<1> QED BY <1>6, <1>7, <1>8 DEF Served

LEMMA RelayServes ==
  ASSUME Inv, NEW v \in Viewer, Relay(v)
  PROVE  Served(v)'
<1> DEFINE old == viewer[v]
           w == [old EXCEPT !.next = @ + 1, !.got = Append(@, old.next)]
           G == {old.got[i] : i \in DOMAIN old.got}
<1>1. Attached(v) /\ Served(v) /\ Types /\ old \in Session
  BY SessionTyped DEF Inv, Relay
<1>2. viewer'[v] = w /\ UNCHANGED <<entry, opening, spawned, alive, output, input>>
  BY <1>1 DEF Relay, Types
<1>3. /\ old.from \in Nat \ {0} /\ old.next \in Nat /\ output[old.at] \in Nat
      /\ old.from <= old.next /\ old.got \in Seq(Nat)
  BY <1>1, SessionTyped, BoundAssumption DEF Session, Served, Placed
<1>4. old.next <= output[old.at]
  <2>1. Oldest(old.at) \in Nat
    BY <1>3, CapacityAssumption DEF Oldest
  <2> QED BY <1>3, <2>1 DEF Relay
<1>5. /\ w.at = old.at /\ w.from = old.from /\ w.next = old.next + 1
      /\ w.got = Append(old.got, old.next) /\ w.skipped = old.skipped
      /\ w.typed = old.typed /\ w.queue = old.queue /\ w.sent = old.sent
      /\ w.control = old.control /\ w.refused = old.refused
  BY <1>1 DEF Session
<1> HIDE DEF w
<1>6. Placed(viewer[v])'
  BY <1>1, <1>2, <1>3, <1>4, <1>5 DEF Served, Placed
<1>7. Queued(viewer[v], input[viewer[v].at][v])' /\ InputInOrder(v)'
  BY <1>1, <1>2, <1>5 DEF Served, Queued, Handled, InputInOrder
<1>8. OutputInOrder(v)'
  <2>1. /\ \A i \in 1..(Len(old.got) - 1) : old.got[i] < old.got[i + 1]
        /\ G \cup old.skipped = old.from .. (old.next - 1) /\ G \cap old.skipped = {}
        /\ \A s \in old.skipped : s + Capacity <= output[old.at]
    BY <1>1 DEF Served, OutputInOrder
  <2>2. /\ Len(w.got) = Len(old.got) + 1 /\ Len(old.got) \in Nat /\ DOMAIN w.got = 1..(Len(old.got) + 1)
        /\ DOMAIN old.got = 1..Len(old.got)
        /\ \A i \in 1..Len(old.got) : w.got[i] = old.got[i]
        /\ w.got[Len(old.got) + 1] = old.next
    <3> DEFINE g == old.got
               x == old.next
    <3>1. g \in Seq(Nat) /\ x \in Nat /\ w.got = Append(g, x)
      BY <1>3, <1>5
    <3> HIDE DEF old, g, x
    <3>2. /\ Len(Append(g, x)) = Len(g) + 1 /\ Len(g) \in Nat
          /\ DOMAIN Append(g, x) = 1..(Len(g) + 1) /\ DOMAIN g = 1..Len(g)
          /\ \A i \in 1..Len(g) : Append(g, x)[i] = g[i]
          /\ Append(g, x)[Len(g) + 1] = x
      BY <3>1
    <3>3. g = old.got /\ x = old.next
      BY DEF g, x
    <3> QED BY <3>1, <3>2, <3>3
  <2> DEFINE b == old.next
  <2>3. {w.got[i] : i \in DOMAIN w.got} = G \cup {b}
    <3> HIDE DEF old
    <3> QED BY <2>2
  <2>4. \A i \in 1..Len(old.got) : old.got[i] < old.next
    <3>1. \A i \in 1..Len(old.got) : old.got[i] \in G
      BY <2>2
    <3> HIDE DEF G
    <3> QED BY <1>3, <2>1, <3>1
  <2>5. \A i \in 1..(Len(w.got) - 1) : w.got[i] < w.got[i + 1]
    <3> SUFFICES ASSUME NEW i \in 1..Len(old.got) PROVE w.got[i] < w.got[i + 1]
      BY <2>2
    <3>1. CASE i = Len(old.got)
      BY <2>2, <2>4, <3>1
    <3>2. CASE i # Len(old.got)
      <4>1. i \in 1..(Len(old.got) - 1) /\ i + 1 \in 1..Len(old.got)
        BY <2>2, <3>2
      <4> QED BY <2>1, <2>2, <4>1
    <3> QED BY <3>1, <3>2
  <2>6. (G \cup {b}) \cup w.skipped = w.from .. (w.next - 1) /\ (G \cup {b}) \cap w.skipped = {}
    <3> DEFINE a == old.from
               S == old.skipped
    <3>1. a \in Nat /\ b \in Nat /\ a <= b /\ G \cup S = a..(b - 1) /\ G \cap S = {}
      BY <1>3, <2>1
    <3>2. w.skipped = S /\ w.from = a /\ w.next = b + 1
      BY <1>5
    <3> HIDE DEF old, G, a, b, S
    <3>3. (G \cup {b}) \cup S = a..b /\ (G \cup {b}) \cap S = {}
      BY <3>1, Relaying
    <3>4. (b + 1) - 1 = b
      BY <3>1
    <3> QED BY <3>2, <3>3, <3>4
  <2> HIDE DEF G, b
  <2>7. \A s \in w.skipped : s + Capacity <= output[w.at]
    BY <1>5, <2>1
  <2> QED BY <1>2, <2>3, <2>5, <2>6, <2>7 DEF OutputInOrder
<1> QED BY <1>6, <1>7, <1>8 DEF Served

\* What a viewer's process has read of it, in the words of ReadSince.
LEMMA InputRead ==
  ASSUME NEW v \in Viewer
  PROVE  InputInOrder(v) <=>
           ReadSince(input[viewer[v].at][v], viewer[v].sent, Handled(viewer[v]),
                     viewer[v].control \cup viewer[v].refused)
BY DEF InputInOrder, ReadSince, Handled

LEMMA TypeServes ==
  ASSUME Inv, NEW v \in Viewer, Type(v)
  PROVE  Served(v)'
<1> DEFINE old == viewer[v]
           w(c) == [old EXCEPT !.typed = @ + 1, !.queue = Append(@, old.typed + 1),
                               !.control = @ \cup c]
           own == input[old.at][v]
<1>1. Attached(v) /\ Served(v) /\ Types /\ old \in Session /\ own \in Seq(Nat)
  BY SessionTyped DEF Inv, Type
<1>2. UNCHANGED <<entry, opening, spawned, alive, output, input>>
  BY DEF Type
<1>3. PICK c \in {{}, {old.typed + 1}} : viewer'[v] = w(c)
  BY <1>1 DEF Type, Types
<1> DEFINE new == w(c)
<1>4. /\ new.at = old.at /\ new.from = old.from /\ new.next = old.next /\ new.got = old.got
      /\ new.skipped = old.skipped /\ new.typed = old.typed + 1 /\ new.refused = old.refused
      /\ new.queue = Append(old.queue, old.typed + 1) /\ new.sent = old.sent
      /\ new.control = old.control \cup c
  BY <1>1 DEF Session
<1>5. old.typed \in Nat /\ old.queue \in Seq(Nat) /\ old.sent \in Nat
  BY <1>1 DEF Session
<1>6. viewer'[v] = new
  BY <1>3
<1> HIDE DEF w, new
<1>7. Placed(viewer[v])' /\ OutputInOrder(v)'
  BY <1>1, <1>2, <1>4, <1>6 DEF Served, Placed, OutputInOrder
<1>8. LastOf(new.queue, new.typed) /\ Len(new.queue) = Len(old.queue) + 1 /\ Len(old.queue) \in Nat
  BY <1>1, <1>4, <1>5, QueueGrows DEF Served, Queued
<1>9. Handled(new) = Handled(old) /\ Handled(old) \in Nat /\ Handled(old) <= old.typed
  <2> DEFINE m == Len(old.queue)
             t == old.typed
  <2>1. m \in Nat /\ t \in Nat /\ new.typed = t + 1 /\ Len(new.queue) = m + 1 /\ m <= t
    BY <1>1, <1>4, <1>5, <1>8 DEF Served, Queued, LastOf
  <2> HIDE DEF m, t
  <2>2. t - m = (t + 1) - (m + 1) /\ t - m \in Nat /\ t - m <= t
    BY <2>1
  <2> QED BY <2>1, <2>2 DEF Handled, m, t
<1>10. Queued(new, own)
  BY <1>1, <1>4, <1>8, <1>9 DEF Served, Queued
<1>11. InputInOrder(v)'
  <2>1. ReadSince(own, old.sent, Handled(old), old.control \cup old.refused)
    BY <1>1, InputRead DEF Served
  <2>2. 1..Handled(old) \ (old.control \cup old.refused)
          = 1..Handled(new) \ (new.control \cup new.refused)
    <3> DEFINE h == Handled(old)
               t == old.typed
    <3>1. h \in Nat /\ t \in Nat /\ h <= t /\ Handled(new) = h
      BY <1>5, <1>9
    <3> HIDE DEF h, t
    <3>2. \A n \in 1..h : n # t + 1
      BY <3>1
    <3>3. \A n \in 1..h : n \notin c
      BY <3>2, <1>3 DEF t
    <3> QED BY <1>4, <3>1, <3>3 DEF h
  <2>3. ReadSince(own, new.sent, Handled(new), new.control \cup new.refused)
    BY <1>4, <2>1, <2>2 DEF ReadSince
  <2>4. viewer'[v] = new /\ input'[new.at][v] = own
    BY <1>2, <1>4, <1>6
  <2> HIDE DEF own
  <2> QED BY <2>3, <2>4 DEF InputInOrder, ReadSince, Handled
<1> QED BY <1>2, <1>4, <1>6, <1>7, <1>10, <1>11 DEF Served

LEMMA WriteInputServes ==
  ASSUME Inv, NEW v \in Viewer, WriteInput(v)
  PROVE  Served(v)'
<1> DEFINE old == viewer[v]
           message == Head(old.queue)
           taken == [old EXCEPT !.queue = Tail(@)]
           failed == [old EXCEPT !.queue = Tail(@), !.refused = @ \cup {message}]
           own == input[old.at][v]
           read == input'[old.at][v]
           new == viewer'[v]
           h == Handled(old)
           X == old.control \cup old.refused
           Y == new.control \cup new.refused
<1>1. /\ Attached(v) /\ Served(v) /\ Types /\ old \in Session /\ own \in Seq(Nat) /\ old.at \in Process
  BY SessionTyped DEF Inv, WriteInput
<1>2. UNCHANGED <<entry, opening, spawned, alive, output>> /\ old.queue # <<>>
  BY DEF WriteInput
<1>3. old.typed \in Nat /\ old.queue \in Seq(Nat) /\ old.sent \in Nat
  BY <1>1 DEF Session
\* Swallowed, written or refused.
<1>4. \/ message \in old.control /\ new = taken /\ read = own
      \/ message \notin old.control /\ new = taken /\ read = Append(own, message)
      \/ message \notin old.control /\ new = failed /\ read = own
  <2> DEFINE p == old.at
             m == Append(own, message)
  <2>1. \/ message \in old.control /\ viewer' = [viewer EXCEPT ![v] = taken] /\ UNCHANGED input
        \/ /\ message \notin old.control /\ viewer' = [viewer EXCEPT ![v] = taken]
           /\ input' = [input EXCEPT ![p] = [input[p] EXCEPT ![v] = m]]
        \/ message \notin old.control /\ viewer' = [viewer EXCEPT ![v] = failed] /\ UNCHANGED input
    BY DEF WriteInput
  <2>2. /\ input \in [Process -> [Viewer -> Seq(Nat)]] /\ p \in Process
        /\ input[p] \in [Viewer -> Seq(Nat)] /\ viewer \in [Viewer -> {Away} \cup Session]
    BY <1>1 DEF Types
  <2> HIDE DEF old, p, m, taken, failed, message
  <2>3. \/ message \in old.control /\ viewer'[v] = taken /\ input'[p][v] = input[p][v]
        \/ message \notin old.control /\ viewer'[v] = taken /\ input'[p][v] = m
        \/ message \notin old.control /\ viewer'[v] = failed /\ input'[p][v] = input[p][v]
    BY <2>1, <2>2
  <2> QED BY <2>3 DEF p, m
<1>5. /\ new.at = old.at /\ new.from = old.from /\ new.next = old.next /\ new.got = old.got
      /\ new.skipped = old.skipped /\ new.typed = old.typed /\ new.queue = Tail(old.queue)
      /\ new.sent = old.sent /\ new.control = old.control
  <2> HIDE DEF message, read, own, new
  <2>1. new = taken \/ new = failed
    BY <1>4
  <2> QED BY <1>1, <2>1 DEF Session
<1>6. \/ message \in old.control /\ new.refused = old.refused /\ read = own
      \/ /\ message \notin old.control /\ new.refused = old.refused
         /\ read = Append(own, message)
      \/ /\ message \notin old.control /\ new.refused = old.refused \cup {message}
         /\ read = own
  <2> HIDE DEF message, read, own, new
  <2>1. taken.refused = old.refused /\ failed.refused = old.refused \cup {message}
    BY <1>1 DEF Session
  <2> HIDE DEF taken, failed
  <2> QED BY <1>4, <2>1
<1> HIDE DEF new
<1>7. Placed(viewer[v])' /\ OutputInOrder(v)'
  BY <1>1, <1>2, <1>5 DEF Served, Placed, OutputInOrder, new
<1>8. /\ LastOf(new.queue, new.typed) /\ Len(new.queue) = Len(old.queue) - 1 /\ Len(old.queue) \in Nat \ {0}
      /\ message = old.typed - Len(old.queue) + 1 /\ Len(old.queue) <= old.typed
  <2>1. LastOf(old.queue, old.typed)
    BY <1>1 DEF Served, Queued
  <2> HIDE DEF old
  <2>2. Len(old.queue) <= old.typed
    BY <2>1 DEF LastOf
  <2> QED BY <1>2, <1>3, <1>5, <2>1, <2>2, QueueShrinks
<1>9. Handled(new) = h + 1 /\ message = h + 1 /\ h \in Nat
  <2> DEFINE m == Len(old.queue)
             t == old.typed
  <2>1. /\ m \in Nat \ {0} /\ t \in Nat /\ m <= t
        /\ new.typed = t /\ Len(new.queue) = m - 1 /\ message = t - m + 1 /\ h = t - m
    BY <1>3, <1>5, <1>8 DEF Handled
  <2> HIDE DEF m, t, h, message
  <2>2. t - (m - 1) = (t - m) + 1 /\ t - m \in Nat
    BY <2>1
  <2> QED BY <2>1, <2>2 DEF Handled
<1>10. ReadSince(own, old.sent, h, X) /\ old.refused \subseteq 1..h /\ old.sent <= Len(own)
  BY <1>1, InputRead DEF Served, Queued
<1> HIDE DEF h, message, own, read
<1>11. h + 1 \notin old.refused
  BY <1>9, <1>10
<1>12. /\ ReadSince(read, old.sent, h + 1, Y) /\ old.sent <= Len(read)
       /\ new.refused \subseteq 1..(h + 1)
  <2>0. \A r \in 1..h : r \in 1..(h + 1) /\ r # h + 1
    BY <1>9
  <2>1. CASE h + 1 \in Y /\ read = own /\ new.refused \subseteq old.refused \cup {h + 1}
    <3>1. \A n : n \in Y => n \in X \/ n = h + 1
      BY <1>5, <2>1
    <3>2. X \subseteq Y
      BY <1>5, <1>6
    <3>3. 1..h \ X = 1..(h + 1) \ Y
      <4>1. \A n \in 1..(h + 1) : n \in 1..h \/ n = h + 1
        BY <1>9
      <4> HIDE DEF X, Y
      <4> QED BY <2>0, <2>1, <3>1, <3>2, <4>1
    <3>4. h + 1 \in 1..(h + 1)
      BY <1>9
    <3> QED BY <1>10, <2>0, <2>1, <3>3, <3>4 DEF ReadSince
  <2>2. CASE h + 1 \notin X /\ new.refused = old.refused /\ read = Append(own, h + 1)
    <3>1. Y = X
      BY <1>5, <2>2
    <3>2. own \in Seq(Nat) /\ Len(own) \in Nat
      BY <1>1 DEF own
    <3>3. ReadSince(Append(own, h + 1), old.sent, h + 1, X) /\ Len(Append(own, h + 1)) = Len(own) + 1
      <4> HIDE DEF X
      <4> QED BY <1>3, <1>9, <1>10, <2>2, <3>2, ReadGrows
    <3>4. old.sent <= Len(read)
      BY <1>3, <1>10, <2>2, <3>2, <3>3
    <3> QED BY <1>10, <2>0, <2>2, <3>1, <3>3, <3>4
  <2>3. \/ h + 1 \in Y /\ read = own /\ new.refused \subseteq old.refused \cup {h + 1}
        \/ h + 1 \notin X /\ new.refused = old.refused /\ read = Append(own, h + 1)
    BY <1>5, <1>6, <1>9, <1>11
  <2> QED BY <2>1, <2>2, <2>3
<1>13. Queued(new, read)
  BY <1>5, <1>8, <1>9, <1>12 DEF Queued
<1>14. InputInOrder(v)'
  BY <1>5, <1>9, <1>12 DEF InputInOrder, ReadSince, Handled, new, read
<1> QED BY <1>5, <1>7, <1>13, <1>14 DEF Served, new, read

LEMMA NextServed ==
  ASSUME Inv, [RelayNext]_relayVars, NEW v \in Viewer, Attached(v)'
  PROVE  Served(v)'
<1>0. /\ Types /\ Types' /\ spawned \in Nat /\ spawned' \in Nat /\ spawned <= spawned'
      /\ (Attached(v) => /\ viewer[v] \in Session /\ viewer[v].at \in Process
                         /\ viewer[v].at \in 1..spawned
                         /\ output[viewer[v].at] \in 0..MaxOutput
                         /\ output'[viewer[v].at] \in 0..MaxOutput
                         /\ output[viewer[v].at] \in Nat)
  <2>1. Types /\ Types' /\ spawned \in Nat /\ spawned' \in Nat /\ spawned <= spawned'
    BY NextTyped, BoundAssumption DEF Inv, Types
  <2>2. Attached(v) => viewer[v].at \in 1..spawned
    BY DEF Inv, Served, Placed
  <2>3. ASSUME NEW p \in Process
        PROVE  output[p] \in 0..MaxOutput /\ output'[p] \in 0..MaxOutput /\ output[p] \in Nat
    BY <2>1, BoundAssumption DEF Types
  <2>4. Attached(v) => viewer[v] \in Session /\ viewer[v].at \in Process
    BY <2>1, SessionTyped
  <2> QED BY <2>1, <2>2, <2>3, <2>4
\* An action that leaves the viewers and the input alone.
<1>1. ASSUME UNCHANGED <<viewer, input>>,
             \A p \in Process : output[p] <= output'[p]
      PROVE  Served(v)'
  <2>1. Attached(v) /\ viewer'[v] = viewer[v]
    BY <1>1 DEF Attached
  <2>2. /\ input'[viewer[v].at][v] = input[viewer[v].at][v]
        /\ output[viewer[v].at] <= output'[viewer[v].at]
    BY <1>0, <1>1, <2>1
  <2> QED BY <1>0, <2>1, <2>2, SameServed
\* An action of one viewer, which serves that viewer.
<1>2. ASSUME NEW u \in Viewer, NEW w, viewer' = [viewer EXCEPT ![u] = w],
             \A x \in Viewer \ {u} : \A p \in Process : input'[p][x] = input[p][x],
             UNCHANGED <<spawned, alive, output>>,
             u = v => Served(v)'
      PROVE  Served(v)'
  <2>1. CASE u # v
    <3>1. \A x \in Viewer \ {u} : viewer'[x] = viewer[x]
      BY <1>0, <1>2 DEF Types
    <3>2. v \in Viewer \ {u}
      BY <2>1
    <3> QED BY <1>2, <3>1, <3>2, OthersServed
  <2> QED BY <1>2, <2>1
<1>3. \A p \in Process : output[p] \in Nat /\ output[p] <= output[p]
  BY <1>0, BoundAssumption DEF Types
<1>4. CASE Spawn
  BY <1>1, <1>3, <1>4 DEF Spawn
<1>5. CASE Kill
  BY <1>1, <1>3, <1>5 DEF Kill
<1>6. ASSUME NEW p \in Process, Output(p) PROVE Served(v)'
  <2>1. \A x \in Process : output[x] <= output'[x]
    BY <1>0, <1>3, <1>6 DEF Output, Types
  <2> QED BY <1>1, <1>6, <2>1 DEF Output
<1>7. ASSUME NEW p \in Process, EndOfFile(p) PROVE Served(v)'
  BY <1>1, <1>3, <1>7 DEF EndOfFile
<1>7a. ASSUME NEW p \in Process, EnterSession(p) PROVE Served(v)'
  BY <1>1, <1>3, <1>7a DEF EnterSession
<1>7b. ASSUME NEW p \in Process, OpenFails(p) PROVE Served(v)'
  BY <1>1, <1>3, <1>7b DEF OpenFails
<1>8. ASSUME NEW u \in Viewer, Attach(u) PROVE Served(v)'
  <2>1. u = v => Served(v)'
    BY <1>8, AttachServes
  <2> QED BY <1>2, <1>8, <2>1 DEF Attach
<1>9. ASSUME NEW u \in Viewer, Lag(u) PROVE Served(v)'
  <2>1. u = v => Served(v)'
    BY <1>9, LagServes
  <2>2. \E w : viewer' = [viewer EXCEPT ![u] = w]
    BY <1>9 DEF Lag
  <2> QED BY <1>2, <1>9, <2>1, <2>2 DEF Lag
<1>10. ASSUME NEW u \in Viewer, Relay(u) PROVE Served(v)'
  <2>1. u = v => Served(v)'
    BY <1>10, RelayServes
  <2>2. \E w : viewer' = [viewer EXCEPT ![u] = w]
    BY <1>10 DEF Relay
  <2> QED BY <1>2, <1>10, <2>1, <2>2 DEF Relay
<1>11. ASSUME NEW u \in Viewer, Type(u) PROVE Served(v)'
  <2>1. u = v => Served(v)'
    BY <1>11, TypeServes
  <2>2. \E w : viewer' = [viewer EXCEPT ![u] = w]
    BY <1>11 DEF Type
  <2> QED BY <1>2, <1>11, <2>1, <2>2 DEF Type
<1>12. ASSUME NEW u \in Viewer, WriteInput(u) PROVE Served(v)'
  <2>1. u = v => Served(v)'
    BY <1>12, WriteInputServes
  <2>2. \E w : viewer' = [viewer EXCEPT ![u] = w]
    BY <1>12 DEF WriteInput
  <2>3. \A x \in Viewer \ {u} : \A p \in Process : input'[p][x] = input[p][x]
    <3>1. input \in [Process -> [Viewer -> Seq(Nat)]]
      BY <1>0 DEF Types
    <3>2. viewer[u].at \in Process
      BY <1>0, <1>12, SessionTyped DEF WriteInput
    <3> DEFINE own == viewer[u].at
    <3>3. \/ UNCHANGED input
          \/ \E m : input' = [input EXCEPT ![own] = [input[own] EXCEPT ![u] = m]]
      BY <1>12 DEF WriteInput
    <3> HIDE DEF own
    <3> SUFFICES ASSUME NEW x \in Viewer \ {u}, NEW p \in Process PROVE input'[p][x] = input[p][x]
      OBVIOUS
    <3>4. ASSUME NEW m, input' = [input EXCEPT ![own] = [input[own] EXCEPT ![u] = m]]
          PROVE  input'[p][x] = input[p][x]
      <4>1. CASE p = own
        <5>1. input'[p] = [input[p] EXCEPT ![u] = m] /\ input[p] \in [Viewer -> Seq(Nat)]
          BY <3>1, <3>4, <4>1
        <5> QED BY <5>1
      <4>2. CASE p # own
        BY <3>1, <3>4, <4>2
      <4> QED BY <4>1, <4>2
    <3> QED BY <3>3, <3>4
  <2> QED BY <1>2, <1>12, <2>1, <2>2, <2>3 DEF WriteInput
<1>13. ASSUME NEW u \in Viewer, Detach(u) PROVE Served(v)'
  <2>1. u # v
    BY <1>0, <1>13 DEF Detach, Attached, Types
  <2> QED BY <1>2, <1>13, <2>1 DEF Detach
<1>14. CASE UNCHANGED relayVars
  BY <1>1, <1>3, <1>14 DEF relayVars
<1> QED
  BY <1>4, <1>5, <1>6, <1>7, <1>7a, <1>7b, <1>8, <1>9, <1>10, <1>11, <1>12, <1>13, <1>14
     DEF RelayNext

LEMMA InitInv == RelayInit => Inv
<1> SUFFICES ASSUME RelayInit PROVE Inv
  OBVIOUS
<1>1. output \in [Process -> 0..MaxOutput] /\ viewer \in [Viewer -> {Away} \cup Session]
  BY BoundAssumption DEF RelayInit
<1>2. input \in [Process -> [Viewer -> Seq(Nat)]]
  BY DEF RelayInit
<1>3. spawned \in 0..MaxSpawns /\ entry \in 0..spawned /\ alive \subseteq 1..spawned
      /\ opening \subseteq 1..spawned
  BY BoundAssumption DEF RelayInit
<1>4. \A v \in Viewer : ~Attached(v)
  BY DEF RelayInit, Attached
<1> QED BY <1>1, <1>2, <1>3, <1>4 DEF Inv, Types

LEMMA InvHolds == RelaySpec => []Inv
<1>1. Inv /\ [RelayNext]_relayVars => Inv'
  BY NextTyped, NextServed DEF Inv
<1> QED BY <1>1, InitInv, PTL DEF RelaySpec

\* The map names a process that was spawned, a viewer is at one and reads from
\* its subscription to the chunk after the last (pty_bridge.rs).
THEOREM RelayTypeCorrect == RelaySpec => []RelayTypeOK
<1>1. Inv => RelayTypeOK
  <2> SUFFICES ASSUME Inv PROVE RelayTypeOK
    OBVIOUS
  <2>1. /\ entry \in 0..spawned /\ spawned \in 0..MaxSpawns
        /\ opening \subseteq 1..spawned /\ alive \subseteq 1..spawned
    BY DEF Inv, Types
  <2>2. \A p \in Process : output[p] \in 0..MaxOutput
    BY DEF Inv, Types
  <2>3. ASSUME NEW v \in Viewer, Attached(v)
        PROVE  viewer[v].at \in 1..spawned /\ viewer[v].next \in viewer[v].from .. MaxOutput + 1
    <3>1. /\ viewer[v].at \in 1..spawned /\ viewer[v].from <= viewer[v].next
          /\ viewer[v].next <= output[viewer[v].at] + 1
      BY <2>3 DEF Inv, Served, Placed
    <3>2. /\ viewer[v].from \in Nat /\ viewer[v].next \in Nat
          /\ output[viewer[v].at] \in 0..MaxOutput /\ MaxOutput \in Nat
      BY <2>3, SessionTyped, BoundAssumption DEF Inv, Session
    <3>3. ASSUME NEW n \in Nat, NEW f \in Nat, NEW o \in 0..MaxOutput, f <= n, n <= o + 1
          PROVE  n \in f .. MaxOutput + 1
      BY <3>2, <3>3
    <3> QED BY <3>1, <3>2, <3>3
  <2> QED BY <2>1, <2>2, <2>3 DEF RelayTypeOK
<1> QED BY <1>1, InvHolds, PTL

\* Every viewer gets the output since it subscribed once and in order, save the
\* oldest chunks of a channel that overflowed.  Of the messages it types exactly
\* those that neither begin with Ctrl-A nor fail to be written reach its process,
\* once and in order (attach_ws, pty_bridge.rs).
THEOREM EveryViewerServed == RelaySpec => []ViewersServed
<1>1. Inv => ViewersServed
  BY DEF Inv, Served, ViewersServed
<1> QED BY <1>1, InvHolds, PTL
=============================================================================
