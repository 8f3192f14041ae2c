-------------------------- MODULE McpContainersProofs --------------------------
(***************************************************************************)
(* The memory containers, for any personas, rows, ports, requests,         *)
(* failures of Docker and ends of the application: types always, and the   *)
(* agreement of personas, rows, ports and containers when requests come    *)
(* one at a time.                                                          *)
(***************************************************************************)
EXTENDS McpContainers, TLAPS

\* A container of p's name and p's row go together; so do the row and the memory.
Matches(p) == RowsOf(p) = {docker[p].id} \ {NoRow} /\ \A c \in RowsOf(p) : row[c].linked
Clean(p)   == Matches(p) /\ (persona[p] # "on" => RowsOf(p) = {})
Bare(p)    == RowsOf(p) = {} /\ docker[p] = NoContainer

\* What holds whatever runs at once: ids in use keep their owner, and the foreign
\* key of an allocation its row.
Owned(c, p) == c \in Row /\ Exists(c) => row[c].owner = p

Names ==
  /\ fault \subseteq Persona
  /\ \A q \in Process : ~At(q, "idle") => req[q].p \in Persona
  /\ \A q \in Process : Owned(req[q].n, req[q].p) /\ Owned(req[q].c, req[q].p)
  /\ \A t \in todo : Owned(t[1], t[2])
  /\ \A k \in Port : alloc[k] # NoRow => Exists(alloc[k])
  /\ \A p \in Persona : docker[p].id = NoRow => docker[p] = NoContainer

\* Steps between which the row and the container of a persona differ.
Building   == {"allocate", "set_port", "docker_create"}
Removing   == {"docker_rm", "release", "drop"}
Unsettling == Building \cup Removing \cup {"insert", "link", "find", "undo", "revert"}

\* One request at a time, and none before startup is over.
Serial ==
  /\ \A q, s \in Request : ~At(q, "idle") /\ ~At(s, "idle") => q = s
  /\ phase \in {"boot", "start_all", "reconcile"} => \A q \in Request : At(q, "idle")
  /\ phase \in {"boot", "up"} => At(Main, "idle") /\ todo = {}
  /\ phase = "start_all" => req[Main].at \in {"idle", "row_start", "mark_running", "mark_failed"}
  /\ phase = "reconcile" =>
       req[Main].at \in {"idle", "insert", "link", "docker_start", "mark_running"} \cup Building
  /\ phase = "stop_all" => req[Main].at \in {"idle", "row_stop", "mark_stopped"}
  /\ ~At(Main, "idle") => req[Main].job = phase /\ ~req[Main].again

\* What the handler of a persona that Docker did not fail knows at each step.
Working(q) ==
  LET r == req[q]
      p == r.p
  IN  /\ r.at = "save" =>
           /\ ~r.again
           /\ r.job = "edit" => r.mem = (persona[p] = "on")
           /\ r.job = "enable" => persona[p] = "off" /\ r.mem
      /\ r.at = "insert" => persona[p] = "on" /\ Bare(p) /\ ~r.again
      /\ r.at \in Building =>
           persona[p] = "on" /\ RowsOf(p) = {r.n} /\ docker[p] = NoContainer /\ ~r.again
      /\ r.at = "link" => persona[p] = "on" /\ RowsOf(p) = {r.n} /\ docker[p].id = r.n
      /\ r.at \in Removing => RowsOf(p) = {r.c} /\ r.job # "ensure"
      /\ r.at = "docker_rm" => docker[p].id = r.c
      /\ r.at \in {"release", "drop"} => docker[p] = NoContainer
      /\ r.at = "find" => Matches(p)
      /\ r.at \in {"undo", "revert"} => Bare(p)

Settling ==
  /\ \A q \in Process : ~At(q, "idle") /\ req[q].p \notin fault => Working(q)
  /\ \A p \in Persona \ fault :
       (\A q \in Process : req[q].p = p => req[q].at \notin Unsettling) => Clean(p)
  /\ phase = "reconcile" => \A t \in todo :
       /\ t[1] = NoRow
       /\ t[2] \notin fault => Bare(t[2])
       /\ ~At(Main, "idle") => t[2] # req[Main].p

\* Which personas reconcile has left to see to.
Covered(p) ==
  \/ RowsOf(p) # {}
  \/ FreePorts = {}
  \/ \E t \in todo : t[2] = p
  \/ At(Main, "insert") /\ req[Main].p = p

Reconciling ==
  phase = "reconcile" =>
    /\ \A p \in Persona : persona[p] = "on" => Covered(p)
    /\ \A t \in todo : persona[t[2]] = "on"
    /\ At(Main, "insert") => persona[req[Main].p] = "on"
    /\ At(Main, "allocate") =>
         req[Main].n \in Row /\ Exists(req[Main].n) /\ \A k \in Port : alloc[k] # req[Main].n

HasPort(c) == row[c].port \in Port /\ alloc[row[c].port] = c

\* Ports, as long as Docker did not fail at all.
Ports ==
  fault = {} =>
    /\ \A c \in Row : Exists(c) =>
         \/ HasPort(c)
         \/ \E q \in Process : \/ req[q].n = c /\ req[q].at \in {"allocate", "set_port"}
                               \/ req[q].c = c /\ At(q, "drop")
    /\ \A q \in Process : At(q, "set_port") => req[q].got \in Port /\ alloc[req[q].got] = req[q].n
    /\ \A q \in Process : req[q].at \in {"docker_rm", "release"} => req[q].port = row[req[q].c].port
-----------------------------------------------------------------------------
(***************************************************************************)
(* Types.                                                                  *)
(***************************************************************************)
Handler ==
  [at : Steps, job : Jobs, p : Persona \cup {NoPersona}, mem : BOOLEAN,
   n : Row \cup {NoRow}, got : Port \cup {NoPort},
   c : Row \cup {NoRow}, port : Port \cup {NoPort},
   linked : BOOLEAN, again : BOOLEAN]

RowRecord ==
  [owner : Persona \cup {NoPersona}, port : Port \cup {NoPort}, linked : BOOLEAN, status : Status]

\* TypeOK, save that only a persona is blamed, which needs more (Names).
Typed ==
  /\ persona \in [Persona -> {"absent", "off", "on"}]
  /\ row \in [Row -> RowRecord]
  /\ alloc \in [Port -> Row \cup {NoRow}]
  /\ docker \in [Persona -> [id : Row \cup {NoRow}, up : BOOLEAN]]
  /\ req \in [Process -> Handler]
  /\ phase \in {"boot", "start_all", "reconcile", "up", "stop_all"}
  /\ todo \subseteq (Row \cup {NoRow}) \X Persona

LEMMA IdleTyped == Idle \in Handler
BY DEF Idle, Handler, Steps, Jobs, NoPort

\* A row whose port or Docker id is set stays what it was otherwise.
LEMMA RowUpdate ==
  ASSUME NEW x \in RowRecord
  PROVE  /\ [x EXCEPT !.linked = TRUE] \in RowRecord
         /\ [x EXCEPT !.linked = TRUE].owner = x.owner /\ [x EXCEPT !.linked = TRUE].port = x.port
         /\ \A k : [x EXCEPT !.port = k].owner = x.owner /\ [x EXCEPT !.port = k].linked = x.linked
BY DEF RowRecord

LEMMA AbsentTyped == Absent \in RowRecord
BY DEF Absent, RowRecord, Status, NoPort

LEMMA CopyTyped ==
  ASSUME Typed, NEW c \in Row, NEW job \in Jobs, NEW step \in Steps
  PROVE  Copy(job, step, c) \in Handler
<1>1. row[c] \in RowRecord
  BY DEF Typed
<1>2. /\ row[c].owner \in Persona \cup {NoPersona} /\ row[c].port \in Port \cup {NoPort}
      /\ row[c].linked \in BOOLEAN
  BY <1>1 DEF RowRecord
<1> QED BY <1>2, IdleTyped DEF Copy, Handler

LEMMA GotoTyped ==
  ASSUME Typed, NEW q \in Process, NEW step \in Steps, Goto(q, step)
  PROVE  req' \in [Process -> Handler]
<1>1. [req[q] EXCEPT !.at = step] \in Handler
  BY DEF Typed, Handler
<1>2. req' = [req EXCEPT ![q] = [req[q] EXCEPT !.at = step]]
  BY DEF Goto
<1> QED BY <1>1, <1>2 DEF Typed

LEMMA FinishTyped ==
  ASSUME Typed, NEW q \in Process, Finish(q)
  PROVE  req' \in [Process -> Handler]
BY IdleTyped DEF Typed, Finish

LEMMA FailedTyped ==
  ASSUME Typed, NEW q \in Process, Failed(q)
  PROVE  req' \in [Process -> Handler]
<1> DEFINE r == req[q]
           w == CASE r.job = "create" -> [r EXCEPT !.at = "undo"]
                  [] r.job = "enable" -> [r EXCEPT !.at = "revert"]
                  [] r.again          -> [r EXCEPT !.at = IF r.linked THEN "docker_rm" ELSE "release",
                                                   !.again = FALSE, !.n = NoRow]
                  [] OTHER            -> Idle
<1>1. r \in Handler
  BY DEF Typed
<1>2. w \in {[r EXCEPT !.at = "undo"], [r EXCEPT !.at = "revert"],
             [r EXCEPT !.at = IF r.linked THEN "docker_rm" ELSE "release", !.again = FALSE, !.n = NoRow],
             Idle}
  OBVIOUS
<1>3. w \in Handler
  <2> HIDE DEF w
  <2>1. /\ [r EXCEPT !.at = "undo"] \in Handler
        /\ [r EXCEPT !.at = "revert"] \in Handler
        /\ [r EXCEPT !.at = IF r.linked THEN "docker_rm" ELSE "release", !.again = FALSE, !.n = NoRow]
             \in Handler
    <3> HIDE DEF r
    <3>1. ASSUME NEW step \in {"docker_rm", "release"}
          PROVE  [r EXCEPT !.at = step, !.again = FALSE, !.n = NoRow] \in Handler
      BY <1>1 DEF Handler, Steps
    <3>2. (IF r.linked THEN "docker_rm" ELSE "release") \in {"docker_rm", "release"}
      OBVIOUS
    <3>3. [r EXCEPT !.at = "undo"] \in Handler /\ [r EXCEPT !.at = "revert"] \in Handler
      BY <1>1 DEF Handler, Steps
    <3> QED BY <3>1, <3>2, <3>3
  <2> HIDE DEF r
  <2> QED BY <1>2, <2>1, IdleTyped
<1>4. req' = [req EXCEPT ![q] = w]
  BY DEF Failed
<1> HIDE DEF w
<1> QED BY <1>3, <1>4 DEF Typed

LEMMA SetStatusTyped ==
  ASSUME Typed, NEW c, NEW new \in Status, SetStatus(c, new)
  PROVE  row' \in [Row -> RowRecord]
<1>1. CASE c \in Row
  <2>1. [row[c] EXCEPT !.status = new] \in RowRecord
    BY <1>1 DEF Typed, RowRecord
  <2> QED BY <1>1, <2>1 DEF SetStatus, Typed
<1>2. CASE c \notin Row
  BY <1>2 DEF SetStatus, Typed
<1> QED BY <1>1, <1>2

LEMMA DeleteRowTyped ==
  ASSUME Typed, NEW c, DeleteRow(c)
  PROVE  row' \in [Row -> RowRecord] /\ alloc' \in [Port -> Row \cup {NoRow}]
BY AbsentTyped DEF DeleteRow, Typed

LEMMA RequestsTyped ==
  ASSUME Typed, NEW q \in Request, NEW p \in Persona,
         CreatePersona(q, p) \/ PutPersona(q, p) \/ DeletePersona(q, p) \/ Ensure(q, p)
  PROVE  Typed'
<1>0. q \in Process
  BY DEF Process
<1>1. CASE CreatePersona(q, p)
  <2>1. [Idle EXCEPT !.at = "insert", !.job = "create", !.p = p] \in Handler
    BY IdleTyped DEF Handler, Steps, Jobs
  <2> QED BY <1>0, <1>1, <2>1 DEF CreatePersona, Typed
<1>2. CASE PutPersona(q, p)
  <2>1. ASSUME NEW mem \in BOOLEAN, NEW job \in Jobs
        PROVE  [Idle EXCEPT !.at = "save", !.p = p, !.mem = mem, !.job = job] \in Handler
    BY IdleTyped DEF Handler, Steps
  <2>2. PICK mem \in BOOLEAN :
          req' = [req EXCEPT ![q] = [Idle EXCEPT
            !.at = "save", !.p = p, !.mem = mem,
            !.job = IF mem = (persona[p] = "on") THEN "edit"
                    ELSE IF mem THEN "enable" ELSE "disable"]]
    BY <1>2 DEF PutPersona
  <2> DEFINE job == IF mem = (persona[p] = "on") THEN "edit" ELSE IF mem THEN "enable" ELSE "disable"
  <2>3. job \in Jobs
    BY DEF Jobs
  <2>4. req' = [req EXCEPT ![q] = [Idle EXCEPT !.at = "save", !.p = p, !.mem = mem, !.job = job]]
    BY <2>2
  <2> HIDE DEF job
  <2>5. req' \in [Process -> Handler]
    BY <1>0, <2>1, <2>3, <2>4 DEF Typed
  <2> QED BY <1>2, <2>5 DEF PutPersona, Typed, tables
<1>3. CASE DeletePersona(q, p)
  <2>1. [Idle EXCEPT !.at = "find", !.job = "delete", !.p = p] \in Handler
    BY IdleTyped DEF Handler, Steps, Jobs
  <2> QED BY <1>0, <1>3, <2>1 DEF DeletePersona, Typed
<1>4. CASE Ensure(q, p)
  <2>1. CASE req' = [req EXCEPT ![q] = [Idle EXCEPT !.at = "insert", !.job = "ensure", !.p = p]]
    <3>1. [Idle EXCEPT !.at = "insert", !.job = "ensure", !.p = p] \in Handler
      BY IdleTyped DEF Handler, Steps, Jobs
    <3> QED BY <1>0, <1>4, <2>1, <3>1 DEF Ensure, Typed, tables
  <2>2. ASSUME NEW c \in RowsOf(p),
               req' = [req EXCEPT ![q] = [Copy("ensure",
                 IF ~row[c].linked THEN "release"
                 ELSE IF row[c].status = "running" THEN "inspect" ELSE "restart", c)
                 EXCEPT !.again = row[c].status = "failed"]]
        PROVE  Typed'
    <3> DEFINE step == IF ~row[c].linked THEN "release"
                       ELSE IF row[c].status = "running" THEN "inspect" ELSE "restart"
               again == row[c].status = "failed"
               w == Copy("ensure", step, c)
    <3>1. step \in Steps /\ again \in BOOLEAN /\ c \in Row /\ "ensure" \in Jobs
      BY DEF Steps, RowsOf, Jobs
    <3>2. req' = [req EXCEPT ![q] = [w EXCEPT !.again = again]]
      BY <2>2
    <3> HIDE DEF step, again
    <3>3. w \in Handler
      BY <3>1, CopyTyped
    <3> HIDE DEF w
    <3>4. [w EXCEPT !.again = again] \in Handler
      BY <3>1, <3>3 DEF Handler
    <3>5. req' \in [Process -> Handler]
      BY <1>0, <3>2, <3>4 DEF Typed
    <3> QED BY <1>4, <3>5 DEF Ensure, Typed, tables
  <2> QED BY <1>4, <2>1, <2>2 DEF Ensure
<1> QED BY <1>1, <1>2, <1>3, <1>4

LEMMA PageTyped ==
  ASSUME Typed, NEW q \in Request, NEW c \in Row, PageStart(q, c) \/ PageStop(q, c) \/ PageRemove(q, c)
  PROVE  Typed'
<1>0. q \in Process /\ "page" \in Jobs /\ {"row_start", "row_stop", "docker_rm", "release"} \subseteq Steps
  BY DEF Process, Jobs, Steps
<1>1. PICK step \in {"row_start", "row_stop", "docker_rm", "release"} :
        req' = [req EXCEPT ![q] = Copy("page", step, c)]
  BY DEF PageStart, PageStop, PageRemove
<1>2. req' \in [Process -> Handler]
  BY <1>0, <1>1, CopyTyped DEF Typed
<1> QED BY <1>2 DEF PageStart, PageStop, PageRemove, Typed, tables

LEMMA HandleTyped ==
  ASSUME Typed, NEW q \in Process, Handle(q)
  PROVE  Typed'
<1> DEFINE r == req[q]
<1>0. /\ r \in Handler /\ r.p \in Persona \cup {NoPersona} /\ r.n \in Row \cup {NoRow}
      /\ r.c \in Row \cup {NoRow} /\ r.got \in Port \cup {NoPort}
  BY DEF Typed, Handler
<1>s. /\ {"insert", "find", "undo", "revert", "docker_create", "link", "docker_start", "mark_running",
          "docker_rm", "mark_failed", "restart", "release", "drop", "mark_stopped"} \subseteq Steps
      /\ {"running", "failed", "stopped"} \subseteq Status
  BY DEF Steps, Status
\* The steps that change the container, and those that only move on.
<1>d. ASSUME NEW d \in [id : Row \cup {NoRow}, up : BOOLEAN], docker' = [docker EXCEPT ![r.p] = d]
      PROVE  docker' \in [Persona -> [id : Row \cup {NoRow}, up : BOOLEAN]]
  BY <1>d DEF Typed
<1>u. ASSUME NEW b \in BOOLEAN, docker' = [docker EXCEPT ![r.p].up = b]
      PROVE  docker' \in [Persona -> [id : Row \cup {NoRow}, up : BOOLEAN]]
  <2>1. CASE r.p \in Persona
    <3>1. [docker[r.p] EXCEPT !.up = b] \in [id : Row \cup {NoRow}, up : BOOLEAN]
      BY <2>1 DEF Typed
    <3> QED BY <1>d, <1>u, <3>1
  <2>2. CASE r.p \notin Persona
    BY <1>u, <2>2 DEF Typed
  <2> QED BY <2>1, <2>2
<1>k. \A s \in Steps : Goto(q, s) => req' \in [Process -> Handler]
  BY GotoTyped
<1>f. Finish(q) \/ Failed(q) => req' \in [Process -> Handler]
  BY FinishTyped, FailedTyped
<1>1. CASE SavePersona(q)
  <2>1. req' \in [Process -> Handler]
    BY <1>1, <1>s, <1>k, <1>f DEF SavePersona
  <2>2. persona' \in [Persona -> {"absent", "off", "on"}]
    BY <1>1 DEF SavePersona, Typed
  <2> QED BY <1>1, <2>1, <2>2 DEF SavePersona, Typed
<1>2. CASE UndoCreate(q)
  BY <1>2, <1>f DEF UndoCreate, Typed
<1>3. CASE RevertEnable(q)
  BY <1>3, <1>f DEF RevertEnable, Typed
<1>4. CASE InsertRow(q)
  <2>1. CASE Failed(q) /\ UNCHANGED row
    BY <1>4, <1>f, <2>1 DEF InsertRow, Typed
  <2>2. ASSUME NEW c \in Row,
               row' = [row EXCEPT ![c] = [owner |-> req[q].p, port |-> NoPort,
                                          linked |-> FALSE, status |-> "created"]],
               req' = [req EXCEPT ![q] = [@ EXCEPT !.at = "allocate", !.n = c]]
        PROVE  Typed'
    <3>1. [owner |-> r.p, port |-> NoPort, linked |-> FALSE, status |-> "created"] \in RowRecord
      BY <1>0 DEF RowRecord, Status
    <3>2. [r EXCEPT !.at = "allocate", !.n = c] \in Handler
      BY <1>0 DEF Handler, Steps
    <3>3. row' \in [Row -> RowRecord] /\ req' \in [Process -> Handler]
      BY <2>2, <3>1, <3>2 DEF Typed
    <3> QED BY <1>4, <3>3 DEF InsertRow, Typed
  <2> QED BY <1>4, <2>1, <2>2 DEF InsertRow
<1>5. CASE AllocatePort(q)
  <2>1. ASSUME NEW k \in FreePorts, alloc' = [alloc EXCEPT ![k] = r.n], UNCHANGED row,
               req' = [req EXCEPT ![q] = [@ EXCEPT !.at = "set_port", !.got = k]]
        PROVE  Typed'
    <3>1. [r EXCEPT !.at = "set_port", !.got = k] \in Handler
      BY <1>0 DEF Handler, Steps, FreePorts
    <3>2. alloc' \in [Port -> Row \cup {NoRow}] /\ req' \in [Process -> Handler]
      BY <1>0, <2>1, <3>1 DEF Typed
    <3> QED BY <1>5, <2>1, <3>2 DEF AllocatePort, Typed
  <2>2. CASE DeleteRow(r.n) /\ Failed(q)
    BY <1>5, <1>f, <2>2, DeleteRowTyped DEF AllocatePort, Typed
  <2> QED BY <1>5, <2>1, <2>2 DEF AllocatePort
<1>6. CASE SetPort(q)
  <2>1. row' \in [Row -> RowRecord]
    <3>1. UNCHANGED row \/ row' = [row EXCEPT ![r.n].port = r.got]
      BY <1>6 DEF SetPort
    <3>2. ASSUME row' = [row EXCEPT ![r.n].port = r.got], r.n \in Row PROVE row' \in [Row -> RowRecord]
      <4>1. [row[r.n] EXCEPT !.port = r.got] \in RowRecord
        BY <1>0, <3>2 DEF Typed, RowRecord
      <4> QED BY <3>2, <4>1 DEF Typed
    <3>3. ASSUME row' = [row EXCEPT ![r.n].port = r.got], r.n \notin Row PROVE row' \in [Row -> RowRecord]
      BY <3>3 DEF Typed
    <3> QED BY <3>1, <3>2, <3>3 DEF Typed
  <2> QED BY <1>6, <1>s, <1>k, <2>1 DEF SetPort, Typed
<1>7. CASE CreateContainer(q)
  <2>1. docker' = [docker EXCEPT ![r.p] = [id |-> r.n, up |-> FALSE]]
    BY <1>7 DEF CreateContainer
  <2>2. docker' \in [Persona -> [id : Row \cup {NoRow}, up : BOOLEAN]]
    BY <1>0, <1>d, <2>1
  <2> QED BY <1>7, <1>s, <1>k, <2>2 DEF CreateContainer, Typed, tables
<1>8. CASE CreateFails(q)
  BY <1>8, <1>f DEF CreateFails, Typed, tables
<1>9. CASE LinkContainer(q)
  <2>1. row' \in [Row -> RowRecord]
    <3>1. UNCHANGED row \/ row' = [row EXCEPT ![r.n].linked = TRUE]
      BY <1>9 DEF LinkContainer
    <3>2. ASSUME row' = [row EXCEPT ![r.n].linked = TRUE], r.n \in Row PROVE row' \in [Row -> RowRecord]
      <4>1. [row[r.n] EXCEPT !.linked = TRUE] \in RowRecord
        BY <3>2, RowUpdate DEF Typed
      <4> QED BY <3>2, <4>1 DEF Typed
    <3>3. ASSUME row' = [row EXCEPT ![r.n].linked = TRUE], r.n \notin Row PROVE row' \in [Row -> RowRecord]
      BY <3>3 DEF Typed
    <3> QED BY <3>1, <3>2, <3>3 DEF Typed
  <2> QED BY <1>9, <1>s, <1>k, <2>1 DEF LinkContainer, Typed
<1>10. CASE StartContainer(q)
  <2>1. docker' = [docker EXCEPT ![r.p].up = TRUE]
    BY <1>10 DEF StartContainer
  <2> QED BY <1>10, <1>s, <1>k, <1>u, <2>1 DEF StartContainer, Typed, tables
<1>11. CASE StartFails(q)
  <2>1. req' \in [Process -> Handler]
    BY <1>11, <1>s, <1>k, <1>f DEF StartFails, At
  <2> QED BY <1>11, <2>1 DEF StartFails, Typed, tables
<1>12. CASE MarkRunning(q)
  BY <1>12, <1>s, <1>f, SetStatusTyped DEF MarkRunning, Typed
<1>13. CASE MarkFailed(q)
  BY <1>13, <1>s, <1>f, SetStatusTyped DEF MarkFailed, Typed
<1>14. CASE MarkStopped(q)
  BY <1>14, <1>s, <1>f, SetStatusTyped DEF MarkStopped, Typed
<1>15. CASE Inspect(q)
  BY <1>15, <1>s, <1>k, <1>f DEF Inspect, Typed, tables
<1>16. CASE InspectFails(q)
  BY <1>16, <1>s, <1>k DEF InspectFails, Typed, tables
<1>17. CASE FindToRemove(q)
  <2>1. ASSUME NEW c \in RowsOf(r.p),
               req' = [req EXCEPT ![q] = Copy("disable", IF row[c].linked THEN "docker_rm" ELSE "release", c)]
        PROVE  req' \in [Process -> Handler]
    <3> DEFINE step == IF row[c].linked THEN "docker_rm" ELSE "release"
    <3>1. step \in Steps /\ "disable" \in Jobs /\ c \in Row
      BY <1>s DEF Jobs, RowsOf
    <3>2. req' = [req EXCEPT ![q] = Copy("disable", step, c)]
      BY <2>1
    <3> HIDE DEF step
    <3> QED BY <3>1, <3>2, CopyTyped DEF Typed
  <2>2. req' \in [Process -> Handler]
    BY <1>17, <1>f, <2>1 DEF FindToRemove
  <2> QED BY <1>17, <2>2 DEF FindToRemove, Typed, tables
<1>18. CASE RemoveContainer(q)
  <2>1. NoContainer \in [id : Row \cup {NoRow}, up : BOOLEAN]
    BY DEF NoContainer
  <2> QED BY <1>18, <1>s, <1>k, <1>d, <2>1 DEF RemoveContainer, Typed, tables
<1>19. CASE RemoveFails(q)
  <2>1. UNCHANGED docker \/ docker' = [docker EXCEPT ![r.p].up = FALSE]
    BY <1>19 DEF RemoveFails
  <2>2. docker' \in [Persona -> [id : Row \cup {NoRow}, up : BOOLEAN]]
    BY <1>u, <2>1 DEF Typed
  <2>3. req' \in [Process -> Handler]
    BY <1>19, <1>s, <1>k, <1>f DEF RemoveFails
  <2> QED BY <1>19, <2>2, <2>3 DEF RemoveFails, Typed, tables
<1>20. CASE ReleasePort(q)
  BY <1>20, <1>s, <1>k DEF ReleasePort, Typed
<1>21. CASE DropRow(q)
  <2>1. req' \in [Process -> Handler]
    BY <1>21, <1>s, <1>k, <1>f DEF DropRow
  <2> QED BY <1>21, <2>1, DeleteRowTyped DEF DropRow, Typed
<1>22. CASE StopContainer(q)
  <2>1. docker' = [docker EXCEPT ![r.p].up = FALSE]
    BY <1>22 DEF StopContainer
  <2> QED BY <1>22, <1>s, <1>k, <1>u, <2>1 DEF StopContainer, Typed, tables
<1>23. CASE StopFails(q)
  <2>1. req' \in [Process -> Handler]
    BY <1>23, <1>s, <1>k, <1>f DEF StopFails
  <2> QED BY <1>23, <2>1 DEF StopFails, Typed, tables
<1> QED
  BY <1>1, <1>2, <1>3, <1>4, <1>5, <1>6, <1>7, <1>8, <1>9, <1>10, <1>11, <1>12, <1>13, <1>14, <1>15,
     <1>16, <1>17, <1>18, <1>19, <1>20, <1>21, <1>22, <1>23
     DEF Handle

LEMMA MainTyped ==
  ASSUME Typed,
         \/ Boot \/ Reconcile \/ BootDone \/ Exit \/ Restart
         \/ MainNext("start_all", "start_all", "row_start")
         \/ MainNext("reconcile", "reconcile", "insert")
         \/ MainNext("stop_all", "stop_all", "row_stop")
  PROVE  Typed'
<1>1. ASSUME NEW from \in Jobs, NEW step \in Steps, MainNext(from, from, step)
      PROVE  Typed'
  <2>1. PICK t \in todo : req' = [req EXCEPT ![Main] = [Idle EXCEPT
            !.at = step, !.job = from, !.p = t[2], !.n = t[1]]] /\ todo' = todo \ {t}
    BY <1>1 DEF MainNext
  <2>2. t[1] \in Row \cup {NoRow} /\ t[2] \in Persona
    BY DEF Typed
  <2>3. [Idle EXCEPT !.at = step, !.job = from, !.p = t[2], !.n = t[1]] \in Handler
    BY <2>2, IdleTyped DEF Handler
  <2> QED BY <1>1, <2>1, <2>3 DEF MainNext, Typed, Process, tables
<1>2. {"start_all", "reconcile", "stop_all"} \subseteq Jobs /\ {"row_start", "insert", "row_stop"} \subseteq Steps
  BY DEF Jobs, Steps
<1>3. CASE Boot
  BY <1>3 DEF Boot, LinkedRows, Typed, tables
<1>4. CASE Reconcile
  BY <1>4 DEF Reconcile, Missing, Typed, tables
<1>5. CASE BootDone
  BY <1>5 DEF BootDone, Typed, tables
<1>6. CASE Exit
  BY <1>6 DEF Exit, LinkedRows, Typed, tables
<1>7. CASE Restart
  BY <1>7, IdleTyped DEF Restart, Typed, tables
<1> QED BY <1>1, <1>2, <1>3, <1>4, <1>5, <1>6, <1>7

LEMMA DockerTyped ==
  ASSUME Typed, NEW p \in Persona, ContainerExits(p) \/ RemovedByHand(p)
  PROVE  Typed'
<1>1. [docker[p] EXCEPT !.up = FALSE] \in [id : Row \cup {NoRow}, up : BOOLEAN]
  BY DEF Typed
<1>2. NoContainer \in [id : Row \cup {NoRow}, up : BOOLEAN]
  BY DEF NoContainer
<1>3. CASE ContainerExits(p)
  BY <1>1, <1>3 DEF ContainerExits, Typed, tables
<1>4. CASE RemovedByHand(p)
  BY <1>2, <1>4 DEF RemovedByHand, Typed, tables
<1> QED BY <1>3, <1>4

LEMMA NextTyped ==
  ASSUME Typed, [Next]_vars
  PROVE  Typed'
<1>1. CASE UNCHANGED vars
  BY <1>1 DEF vars, tables, Typed
<1> QED BY <1>1, RequestsTyped, PageTyped, HandleTyped, MainTyped, DockerTyped DEF Next

-----------------------------------------------------------------------------
(***************************************************************************)
(* What a step of a handler can change: its own persona, container and     *)
(* rows.                                                                   *)
(***************************************************************************)
RowsKept(q) ==
  \A d \in Row :
    \/ row'[d] = row[d]
    \/ d \in {req[q].n, req[q].c} /\ row'[d].owner \in {row[d].owner, NoPersona}
    \/ Fresh(d) /\ row'[d].owner = req[q].p /\ req'[q].n = d

HandlerKept(q) ==
  /\ \A s \in Process \ {q} : req'[s] = req[s]
  /\ \/ req'[q] = Idle
     \/ /\ req'[q].p = req[q].p
        /\ \A d \in {req'[q].n, req'[q].c} :
             d \in {req[q].n, req[q].c, NoRow} \/ (d \in Row /\ row'[d].owner = req[q].p)

AllocKept == \A k \in Port : alloc'[k] # NoRow => alloc'[k] \in Row /\ row'[alloc'[k]].owner # NoPersona

OthersKept(q) ==
  /\ UNCHANGED <<phase, todo>>
  /\ fault \subseteq fault' /\ fault' \subseteq fault \cup {req[q].p}
  /\ \A p \in Persona \ {req[q].p} : persona'[p] = persona[p] /\ docker'[p] = docker[p]
  /\ req[q].p \in Persona =>
       docker'[req[q].p] = docker[req[q].p] \/ docker'[req[q].p] = NoContainer
       \/ docker'[req[q].p].id # NoRow

Kept(q) == RowsKept(q) /\ HandlerKept(q) /\ AllocKept /\ OthersKept(q)

LEMMA RequestAndMain == Main \notin Request /\ NoPersona \notin Persona /\ NoRow \notin Row
BY ConstantsOK

LEMMA GotoKept ==
  ASSUME Typed, NEW q \in Process, NEW step, Goto(q, step)
  PROVE  HandlerKept(q) /\ req'[q] = [req[q] EXCEPT !.at = step]
<1>1. req[q] \in Handler /\ req' = [req EXCEPT ![q] = [req[q] EXCEPT !.at = step]]
  BY DEF Typed, Goto
<1>2. req'[q] = [req[q] EXCEPT !.at = step] /\ \A s \in Process \ {q} : req'[s] = req[s]
  BY <1>1 DEF Typed
<1>3. req'[q].p = req[q].p /\ req'[q].n = req[q].n /\ req'[q].c = req[q].c
  BY <1>1, <1>2 DEF Handler
<1> QED BY <1>2, <1>3 DEF HandlerKept

LEMMA FinishKept ==
  ASSUME Typed, NEW q \in Process, Finish(q)
  PROVE  HandlerKept(q) /\ req'[q] = Idle
BY DEF Typed, Finish, HandlerKept

LEMMA FailedKept ==
  ASSUME Typed, NEW q \in Process, Failed(q)
  PROVE  /\ HandlerKept(q)
         /\ \/ req[q].job = "create" /\ req'[q] = [req[q] EXCEPT !.at = "undo"]
            \/ req[q].job = "enable" /\ req'[q] = [req[q] EXCEPT !.at = "revert"]
            \/ /\ req[q].again
               /\ req'[q] = [req[q] EXCEPT !.at = IF req[q].linked THEN "docker_rm" ELSE "release",
                                           !.again = FALSE, !.n = NoRow]
            \/ req[q].job \notin {"create", "enable"} /\ ~req[q].again /\ req'[q] = Idle
<1> DEFINE r == req[q]
           third == [r EXCEPT !.at = IF r.linked THEN "docker_rm" ELSE "release",
                                            !.again = FALSE, !.n = NoRow]
           w == CASE r.job = "create" -> [r EXCEPT !.at = "undo"]
                  [] r.job = "enable" -> [r EXCEPT !.at = "revert"]
                  [] r.again          -> third
                  [] OTHER            -> Idle
<1>1. r \in Handler
  BY DEF Typed
<1>2. \/ r.job = "create" /\ w = [r EXCEPT !.at = "undo"]
      \/ r.job = "enable" /\ w = [r EXCEPT !.at = "revert"]
      \/ r.again /\ w = third
      \/ r.job \notin {"create", "enable"} /\ ~r.again /\ w = Idle
  <2> HIDE DEF third, r
  <2> QED BY <1>1 DEF Handler
<1>3. req' = [req EXCEPT ![q] = w]
  BY DEF Failed
<1>4. req'[q] = w /\ \A s \in Process \ {q} : req'[s] = req[s]
  <2> HIDE DEF w
  <2> QED BY <1>3 DEF Typed
<1>5. w = Idle \/ (w.p = r.p /\ w.n \in {r.n, NoRow} /\ w.c = r.c)
  <2> HIDE DEF w
  <2>1. third.p = r.p /\ third.n = NoRow /\ third.c = r.c
    <3> HIDE DEF r
    <3> QED BY <1>1 DEF Handler
  <2>2. [r EXCEPT !.at = "undo"].p = r.p /\ [r EXCEPT !.at = "undo"].n = r.n /\ [r EXCEPT !.at = "undo"].c = r.c
    <3> HIDE DEF r
    <3> QED BY <1>1 DEF Handler
  <2>3. [r EXCEPT !.at = "revert"].p = r.p /\ [r EXCEPT !.at = "revert"].n = r.n
        /\ [r EXCEPT !.at = "revert"].c = r.c
    <3> HIDE DEF r
    <3> QED BY <1>1 DEF Handler
  <2> HIDE DEF third
  <2> QED BY <1>2, <2>1, <2>2, <2>3
<1> HIDE DEF w
<1>6. HandlerKept(q)
  BY <1>4, <1>5 DEF HandlerKept
<1> QED BY <1>2, <1>4, <1>6

LEMMA SetStatusKept ==
  ASSUME Typed, NEW q \in Process, NEW new \in Status, SetStatus(req[q].n, new)
  PROVE  /\ RowsKept(q)
         /\ \A d \in Row : row'[d].owner = row[d].owner /\ row'[d].linked = row[d].linked
                           /\ row'[d].port = row[d].port
<1>1. ASSUME NEW d \in Row PROVE row'[d] = row[d] \/ (d = req[q].n /\ row'[d] = [row[d] EXCEPT !.status = new])
  BY DEF SetStatus, Typed
<1>2. ASSUME NEW d \in Row
      PROVE  row'[d].owner = row[d].owner /\ row'[d].linked = row[d].linked /\ row'[d].port = row[d].port
  <2>1. row[d] \in RowRecord
    BY DEF Typed
  <2> QED BY <1>1, <2>1 DEF RowRecord
<1> QED BY <1>1, <1>2 DEF RowsKept

LEMMA DeleteRowKept ==
  ASSUME Typed, Names, NEW q \in Process, NEW d \in {req[q].n, req[q].c}, DeleteRow(d)
  PROVE  RowsKept(q) /\ AllocKept
<1>1. \A e \in Row : row'[e] = row[e] \/ (e = d /\ row'[e].owner = NoPersona)
  BY DEF DeleteRow, Absent
<1>2. ASSUME NEW k \in Port, alloc'[k] # NoRow
      PROVE  alloc'[k] \in Row /\ row'[alloc'[k]].owner # NoPersona
  <2>1. alloc'[k] = alloc[k] /\ alloc[k] # d /\ alloc[k] \in Row
    BY <1>2 DEF DeleteRow, Typed
  <2>2. row[alloc[k]].owner # NoPersona /\ row'[alloc[k]] = row[alloc[k]]
    BY <1>2, <2>1 DEF Names, Exists, DeleteRow
  <2> QED BY <2>1, <2>2
<1> QED BY <1>1, <1>2 DEF RowsKept, AllocKept

LEMMA RowsSame ==
  ASSUME Typed, Names, NEW q \in Process,
         \A d \in Row : row'[d] = row[d] \/ (d = req[q].n /\ row'[d].owner = row[d].owner),
         UNCHANGED alloc
  PROVE  RowsKept(q) /\ AllocKept
<1>1. RowsKept(q)
  BY DEF RowsKept
<1>2. \A d \in Row : row'[d].owner = row[d].owner
  OBVIOUS
<1>3. AllocKept
  BY <1>2 DEF AllocKept, Names, Exists, Typed
<1> QED BY <1>1, <1>3

LEMMA HandleKept ==
  ASSUME Typed, Names, NEW q \in Process, Handle(q)
  PROVE  Kept(q)
<1> DEFINE r == req[q]
<1>0. /\ r \in Handler /\ r.n \in Row \cup {NoRow} /\ r.c \in Row \cup {NoRow}
      /\ {"running", "failed", "stopped"} \subseteq Status
  BY DEF Typed, Handler, Status
<1>s. UNCHANGED <<row, alloc>> => RowsKept(q) /\ AllocKept
  BY RowsSame
<1>h. Finish(q) \/ Failed(q) \/ (\E step : Goto(q, step)) => HandlerKept(q)
  BY FinishKept, FailedKept, GotoKept
<1>d. ASSUME UNCHANGED <<persona, phase, todo>>, fault' \in {fault, fault \cup {r.p}},
             UNCHANGED docker \/ (\E b \in BOOLEAN : docker' = [docker EXCEPT ![r.p].up = b] /\ docker[r.p].id # NoRow)
             \/ docker' = [docker EXCEPT ![r.p] = NoContainer]
             \/ docker' = [docker EXCEPT ![r.p] = [id |-> r.n, up |-> FALSE]]
      PROVE  OthersKept(q)
  <2>1. \A p \in Persona \ {r.p} : docker'[p] = docker[p]
    BY <1>d DEF Typed
  <2>2. ASSUME r.p \in Persona
        PROVE  docker'[r.p] = docker[r.p] \/ docker'[r.p] = NoContainer \/ docker'[r.p].id # NoRow
    <3>1. docker[r.p] \in [id : Row \cup {NoRow}, up : BOOLEAN]
      BY <2>2 DEF Typed
    <3>2. ASSUME NEW b \in BOOLEAN, docker' = [docker EXCEPT ![r.p].up = b], docker[r.p].id # NoRow
          PROVE  docker'[r.p].id # NoRow
      BY <2>2, <3>1, <3>2 DEF Typed
    <3>3. CASE docker' = [docker EXCEPT ![r.p] = [id |-> r.n, up |-> FALSE]]
      BY <2>2, <3>3 DEF Typed, NoContainer
    <3>4. CASE docker' = [docker EXCEPT ![r.p] = NoContainer]
      BY <2>2, <3>4 DEF Typed
    <3> QED BY <1>d, <3>2, <3>3, <3>4
  <2> QED BY <1>d, <2>1, <2>2 DEF OthersKept
<1>p. ASSUME UNCHANGED <<docker, phase, todo, fault>>, NEW w, persona' = [persona EXCEPT ![r.p] = w]
      PROVE  OthersKept(q)
  BY <1>p DEF OthersKept, Typed
<1>1. CASE SavePersona(q)
  <2>1. \E w : persona' = [persona EXCEPT ![r.p] = w]
    BY <1>1 DEF SavePersona
  <2>2. HandlerKept(q)
    BY <1>1, <1>h DEF SavePersona
  <2> QED BY <1>1, <1>s, <1>p, <2>1, <2>2 DEF SavePersona, Kept
<1>2. CASE UndoCreate(q)
  <2>1. \E w : persona' = [persona EXCEPT ![r.p] = w]
    BY <1>2 DEF UndoCreate
  <2> QED BY <1>2, <1>s, <1>h, <1>p, <2>1 DEF UndoCreate, Kept
<1>3. CASE RevertEnable(q)
  <2>1. \E w : persona' = [persona EXCEPT ![r.p] = w]
    BY <1>3 DEF RevertEnable
  <2> QED BY <1>3, <1>s, <1>h, <1>p, <2>1 DEF RevertEnable, Kept
<1>4. CASE InsertRow(q)
  <2>0. OthersKept(q)
    BY <1>4, <1>d DEF InsertRow
  <2>1. CASE Failed(q) /\ UNCHANGED row
    BY <1>4, <1>s, <1>h, <2>0, <2>1 DEF InsertRow, Kept
  <2>2. ASSUME NEW d \in Row, Fresh(d),
               row' = [row EXCEPT ![d] = [owner |-> req[q].p, port |-> NoPort,
                                          linked |-> FALSE, status |-> "created"]],
               req' = [req EXCEPT ![q] = [@ EXCEPT !.at = "allocate", !.n = d]]
        PROVE  Kept(q)
    <3>1. req'[q] = [r EXCEPT !.at = "allocate", !.n = d] /\ \A s \in Process \ {q} : req'[s] = req[s]
      BY <2>2 DEF Typed
    <3>2. req'[q].p = r.p /\ req'[q].n = d /\ req'[q].c = r.c
      <4> HIDE DEF r
      <4> QED BY <1>0, <3>1 DEF Handler
    <3>3. row'[d].owner = r.p /\ \A e \in Row \ {d} : row'[e] = row[e]
      BY <2>2 DEF Typed
    <3>4. RowsKept(q) /\ HandlerKept(q)
      BY <2>2, <3>1, <3>2, <3>3 DEF RowsKept, HandlerKept
    <3>5. AllocKept
      <4> SUFFICES ASSUME NEW k \in Port, alloc[k] # NoRow
                   PROVE  alloc[k] \in Row /\ row'[alloc[k]].owner # NoPersona
        BY <1>4 DEF InsertRow, AllocKept
      <4>1. alloc[k] \in Row /\ row[alloc[k]].owner # NoPersona /\ row[d].owner = NoPersona
        BY <2>2 DEF Typed, Names, Exists, Fresh
      <4> QED BY <3>3, <4>1
    <3> QED BY <2>0, <3>4, <3>5 DEF Kept
  <2> QED BY <1>4, <2>1, <2>2 DEF InsertRow
<1>5. CASE AllocatePort(q)
  <2>0. OthersKept(q)
    BY <1>5, <1>d DEF AllocatePort
  <2>1. ASSUME NEW k \in FreePorts, alloc' = [alloc EXCEPT ![k] = r.n], UNCHANGED row, Exists(r.n),
               req' = [req EXCEPT ![q] = [@ EXCEPT !.at = "set_port", !.got = k]]
        PROVE  Kept(q)
    <3>1. req'[q] = [r EXCEPT !.at = "set_port", !.got = k] /\ \A s \in Process \ {q} : req'[s] = req[s]
      BY <2>1 DEF Typed
    <3>2. req'[q].p = r.p /\ req'[q].n = r.n /\ req'[q].c = r.c
      <4> HIDE DEF r
      <4> QED BY <1>0, <3>1 DEF Handler
    <3>3. HandlerKept(q) /\ RowsKept(q)
      BY <2>1, <3>1, <3>2 DEF HandlerKept, RowsKept
    <3>4. AllocKept
      <4> SUFFICES ASSUME NEW j \in Port, alloc'[j] # NoRow
                   PROVE  alloc'[j] \in Row /\ row'[alloc'[j]].owner # NoPersona
        BY DEF AllocKept
      <4>1. CASE alloc'[j] = r.n
        BY <1>0, <2>1, <4>1 DEF Exists
      <4>2. CASE alloc'[j] # r.n
        <5>1. alloc'[j] = alloc[j]
          BY <2>1, <4>2 DEF Typed, FreePorts
        <5> QED BY <2>1, <5>1 DEF Names, Exists, Typed
      <4> QED BY <4>1, <4>2
    <3> QED BY <2>0, <3>3, <3>4 DEF Kept
  <2>2. CASE DeleteRow(r.n) /\ Failed(q)
    BY <1>h, <2>0, <2>2, DeleteRowKept DEF Kept
  <2> QED BY <1>5, <2>1, <2>2 DEF AllocatePort
<1>6. CASE SetPort(q)
  <2>1. \A d \in Row : row'[d] = row[d] \/ (d = r.n /\ row'[d] = [row[d] EXCEPT !.port = r.got])
    BY <1>6 DEF SetPort, Typed
  <2>2. ASSUME NEW d \in Row PROVE row'[d] = row[d] \/ (d = r.n /\ row'[d].owner = row[d].owner)
    <3>1. row[d] \in RowRecord
      BY DEF Typed
    <3>2. [row[d] EXCEPT !.port = r.got].owner = row[d].owner
      BY <3>1 DEF RowRecord
    <3> QED BY <2>1, <3>2
  <2>3. RowsKept(q) /\ AllocKept
    BY <1>6, <2>2, RowsSame DEF SetPort
  <2> QED BY <1>6, <1>h, <1>d, <2>3 DEF SetPort, Kept
<1>7. CASE CreateContainer(q)
  BY <1>7, <1>s, <1>h, <1>d DEF CreateContainer, Kept, tables
<1>8. CASE CreateFails(q)
  BY <1>8, <1>s, <1>h, <1>d DEF CreateFails, Kept, tables, Blame
<1>9. CASE LinkContainer(q)
  <2>1. \A d \in Row : row'[d] = row[d] \/ (d = r.n /\ row'[d] = [row[d] EXCEPT !.linked = TRUE])
    BY <1>9 DEF LinkContainer, Typed
  <2>2. ASSUME NEW d \in Row PROVE row'[d] = row[d] \/ (d = r.n /\ row'[d].owner = row[d].owner)
    <3>1. row[d] \in RowRecord
      BY DEF Typed
    <3>2. [row[d] EXCEPT !.linked = TRUE].owner = row[d].owner
      BY <3>1 DEF RowRecord
    <3> QED BY <2>1, <3>2
  <2>3. RowsKept(q) /\ AllocKept
    BY <1>9, <2>2, RowsSame DEF LinkContainer
  <2> QED BY <1>9, <1>h, <1>d, <2>3 DEF LinkContainer, Kept
<1>10. CASE StartContainer(q)
  <2>1. OthersKept(q)
    BY <1>10, <1>d DEF StartContainer, tables, Known
  <2> QED BY <1>10, <1>s, <1>h, <2>1 DEF StartContainer, Kept, tables
<1>11. CASE StartFails(q)
  <2>1. HandlerKept(q)
    BY <1>11, <1>h DEF StartFails, At
  <2> QED BY <1>11, <1>s, <1>d, <2>1 DEF StartFails, Kept, tables, Blame
<1>m. ASSUME NEW new \in Status, SetStatus(r.n, new), UNCHANGED alloc
      PROVE  RowsKept(q) /\ AllocKept
  <2>1. RowsKept(q) /\ \A d \in Row : row'[d].owner = row[d].owner
    BY <1>m, SetStatusKept
  <2>2. AllocKept
    BY <1>m, <2>1 DEF AllocKept, Names, Exists, Typed
  <2> QED BY <2>1, <2>2
<1>12. CASE MarkRunning(q)
  BY <1>0, <1>12, <1>h, <1>d, <1>m DEF MarkRunning, Kept
<1>13. CASE MarkFailed(q)
  BY <1>0, <1>13, <1>h, <1>d, <1>m DEF MarkFailed, Kept
<1>14. CASE MarkStopped(q)
  BY <1>0, <1>14, <1>h, <1>d, <1>m DEF MarkStopped, Kept
<1>15. CASE Inspect(q)
  BY <1>15, <1>s, <1>h, <1>d DEF Inspect, Kept, tables
<1>16. CASE InspectFails(q)
  BY <1>16, <1>s, <1>h, <1>d DEF InspectFails, Kept, tables, Blame
<1>17. CASE FindToRemove(q)
  <2>1. ASSUME NEW d \in RowsOf(r.p), NEW step, req' = [req EXCEPT ![q] = Copy("disable", step, d)],
               UNCHANGED row
        PROVE  HandlerKept(q)
    <3>1. req'[q] = Copy("disable", step, d) /\ \A s \in Process \ {q} : req'[s] = req[s]
      BY <2>1 DEF Typed
    <3>2. req'[q].p = r.p /\ req'[q].n = d /\ req'[q].c = d /\ d \in Row /\ row[d].owner = r.p
      BY <3>1 DEF Copy, Idle, RowsOf
    <3> QED BY <2>1, <3>1, <3>2 DEF HandlerKept
  <2>2. HandlerKept(q)
    BY <1>17, <1>h, <2>1 DEF FindToRemove, tables
  <2> QED BY <1>17, <1>s, <1>d, <2>2 DEF FindToRemove, Kept, tables
<1>18. CASE RemoveContainer(q)
  BY <1>18, <1>s, <1>h, <1>d DEF RemoveContainer, Kept, tables
<1>19. CASE RemoveFails(q)
  <2>1. OthersKept(q)
    BY <1>19, <1>d DEF RemoveFails, tables, Known, Blame
  <2>2. HandlerKept(q)
    BY <1>19, <1>h DEF RemoveFails
  <2> QED BY <1>19, <1>s, <2>1, <2>2 DEF RemoveFails, Kept, tables
<1>20. CASE ReleasePort(q)
  <2>1. RowsKept(q)
    BY <1>20 DEF ReleasePort, RowsKept
  <2>2. AllocKept
    BY <1>20 DEF ReleasePort, AllocKept, Names, Exists, Typed
  <2> QED BY <1>20, <1>h, <1>d, <2>1, <2>2 DEF ReleasePort, Kept
<1>21. CASE DropRow(q)
  <2>1. HandlerKept(q)
    BY <1>21, <1>h DEF DropRow
  <2> QED BY <1>21, <1>d, <2>1, DeleteRowKept DEF DropRow, Kept
<1>22. CASE StopContainer(q)
  <2>1. OthersKept(q)
    BY <1>22, <1>d DEF StopContainer, tables, Known
  <2> QED BY <1>22, <1>s, <1>h, <2>1 DEF StopContainer, Kept, tables
<1>23. CASE StopFails(q)
  <2>1. HandlerKept(q)
    BY <1>23, <1>h DEF StopFails
  <2> QED BY <1>23, <1>s, <1>d, <2>1 DEF StopFails, Kept, tables, Blame
<1> QED
  BY <1>1, <1>2, <1>3, <1>4, <1>5, <1>6, <1>7, <1>8, <1>9, <1>10, <1>11, <1>12, <1>13, <1>14, <1>15,
     <1>16, <1>17, <1>18, <1>19, <1>20, <1>21, <1>22, <1>23
     DEF Handle

\* A step of a handler on its persona keeps what every process knows by name.
LEMMA KeptNames ==
  ASSUME Typed, Typed', Names, NEW q \in Process, ~At(q, "idle"), Kept(q)
  PROVE  Names'
<1> DEFINE p == req[q].p
<1>0. p \in Persona /\ NoPersona \notin Persona
  BY RequestAndMain DEF Names
<1>1. fault' \subseteq Persona
  BY <1>0 DEF Kept, OthersKept, Names
<1>2. ASSUME NEW d, NEW o, Owned(d, o), ~(d \in Row /\ Fresh(d))
      PROVE  d \in Row /\ row'[d].owner # NoPersona => row'[d].owner = o
  <2> SUFFICES ASSUME d \in Row, row'[d].owner # NoPersona PROVE row'[d].owner = o
    BY DEF Owned, Exists
  <2>1. row'[d] = row[d] \/ row'[d].owner = row[d].owner
    BY <1>2 DEF Kept, RowsKept
  <2>2. row[d].owner # NoPersona
    BY <2>1
  <2> QED BY <1>2, <2>1, <2>2 DEF Owned, Exists
<1>3. ASSUME NEW s \in Process \ {q} PROVE Owned(req[s].n, req[s].p)' /\ Owned(req[s].c, req[s].p)'
                                     /\ (req'[s].at # "idle" => req'[s].p \in Persona)
  <2>1. req'[s] = req[s] /\ Owned(req[s].n, req[s].p) /\ Owned(req[s].c, req[s].p)
        /\ (req[s].at # "idle" => req[s].p \in Persona)
    BY DEF Kept, HandlerKept, Names, At
  <2>2. ~Fresh(req[s].n) /\ ~Fresh(req[s].c)
    BY DEF Fresh
  <2>3. Owned(req[s].n, req[s].p)' /\ Owned(req[s].c, req[s].p)'
    <3>1. /\ req[s].n \in Row /\ row'[req[s].n].owner # NoPersona => row'[req[s].n].owner = req[s].p
          /\ req[s].c \in Row /\ row'[req[s].c].owner # NoPersona => row'[req[s].c].owner = req[s].p
      BY <1>2, <2>1, <2>2
    <3> QED BY <2>1, <3>1 DEF Owned, Exists
  <2> QED BY <2>1, <2>3
<1>4. Owned(req[q].n, req[q].p)' /\ Owned(req[q].c, req[q].p)' /\ (req'[q].at # "idle" => req'[q].p \in Persona)
  <2>1. CASE req'[q] = Idle
    BY <2>1, RequestAndMain DEF Idle, Owned
  <2>2. CASE req'[q].p = p /\ \A d \in {req'[q].n, req'[q].c} :
             d \in {req[q].n, req[q].c, NoRow} \/ (d \in Row /\ row'[d].owner = p)
    <3>1. ASSUME NEW d \in {req'[q].n, req'[q].c} PROVE d \in Row /\ row'[d].owner # NoPersona => row'[d].owner = p
      <4>1. CASE d \in {req[q].n, req[q].c}
        <5>1. Owned(d, p) /\ ~Fresh(d)
          BY <4>1 DEF Names, Fresh
        <5> QED BY <1>2, <5>1
      <4>2. CASE d = NoRow
        BY <4>2, RequestAndMain
      <4> QED BY <2>2, <4>1, <4>2
    <3> QED BY <1>0, <2>2, <3>1 DEF Owned, Exists
  <2> QED BY <2>1, <2>2 DEF Kept, HandlerKept
<1>5. ASSUME NEW t \in todo' PROVE Owned(t[1], t[2])'
  <2>1. t \in todo /\ Owned(t[1], t[2]) /\ ~Fresh(t[1])
    BY DEF Kept, OthersKept, Names, Fresh
  <2> QED BY <1>2, <2>1 DEF Owned, Exists
<1>6. \A k \in Port : alloc'[k] # NoRow => Exists(alloc[k])'
  BY DEF Kept, AllocKept, Exists
<1>7. ASSUME NEW x \in Persona, docker'[x].id = NoRow PROVE docker'[x] = NoContainer
  <2>1. CASE x = p
    BY <1>7, <2>1 DEF Kept, OthersKept, Names
  <2>2. CASE x # p
    BY <1>7, <2>2 DEF Kept, OthersKept, Names
  <2> QED BY <2>1, <2>2
<1> QED BY <1>1, <1>3, <1>4, <1>5, <1>6, <1>7 DEF Names, At

\* A request that is admitted changes its persona and knows a row of it at most.
Admitted(q, p) ==
  /\ Admit(q)
  /\ UNCHANGED <<row, alloc, docker, phase, todo, fault>>
  /\ \A x \in Persona \ {p} : persona'[x] = persona[x]
  /\ \A s \in Process \ {q} : req'[s] = req[s]
  /\ req'[q] = req[q] \/ (req'[q].p = p /\ {req'[q].n, req'[q].c} \subseteq RowsOf(p) \cup {NoRow})

LEMMA RequestAdmitted ==
  ASSUME Typed, NEW q \in Request, NEW p \in Persona,
         CreatePersona(q, p) \/ PutPersona(q, p) \/ DeletePersona(q, p) \/ Ensure(q, p)
  PROVE  Admitted(q, p)
<1>0. q \in Process /\ req \in [Process -> Handler] /\ persona \in [Persona -> {"absent", "off", "on"}]
  BY DEF Process, Typed
<1>1. CASE CreatePersona(q, p)
  <2>1. PICK mem \in BOOLEAN :
          /\ persona' = [persona EXCEPT ![p] = IF mem THEN "on" ELSE "off"]
          /\ req' = IF mem
                    THEN [req EXCEPT ![q] = [Idle EXCEPT !.at = "insert", !.job = "create", !.p = p]]
                    ELSE req
    BY <1>1 DEF CreatePersona
  <2>2. \A x \in Persona \ {p} : persona'[x] = persona[x]
    BY <1>0, <2>1
  <2>3. \A s \in Process \ {q} : req'[s] = req[s]
    BY <1>0, <2>1
  <2>4. req'[q] = req[q] \/ req'[q] = [Idle EXCEPT !.at = "insert", !.job = "create", !.p = p]
    BY <1>0, <2>1
  <2>5. req'[q] = req[q] \/ (req'[q].p = p /\ {req'[q].n, req'[q].c} \subseteq RowsOf(p) \cup {NoRow})
    BY <2>4 DEF Idle
  <2> QED BY <1>1, <2>2, <2>3, <2>5 DEF CreatePersona, Admitted
<1>2. CASE PutPersona(q, p)
  <2>1. PICK mem \in BOOLEAN :
          req' = [req EXCEPT ![q] = [Idle EXCEPT
            !.at = "save", !.p = p, !.mem = mem,
            !.job = IF mem = (persona[p] = "on") THEN "edit"
                    ELSE IF mem THEN "enable" ELSE "disable"]]
    BY <1>2 DEF PutPersona
  <2> DEFINE job == IF mem = (persona[p] = "on") THEN "edit" ELSE IF mem THEN "enable" ELSE "disable"
  <2>2. req' = [req EXCEPT ![q] = [Idle EXCEPT !.at = "save", !.p = p, !.mem = mem, !.job = job]]
    BY <2>1
  <2> HIDE DEF job
  <2>3. \A s \in Process \ {q} : req'[s] = req[s]
    BY <1>0, <2>2
  <2>4. req'[q] = [Idle EXCEPT !.at = "save", !.p = p, !.mem = mem, !.job = job]
    BY <1>0, <2>2
  <2>5. req'[q].p = p /\ {req'[q].n, req'[q].c} \subseteq RowsOf(p) \cup {NoRow}
    BY <2>4 DEF Idle
  <2> QED BY <1>2, <2>3, <2>5 DEF PutPersona, Admitted, tables
<1>3. CASE DeletePersona(q, p)
  <2>1. \A x \in Persona \ {p} : persona'[x] = persona[x]
    BY <1>0, <1>3 DEF DeletePersona
  <2>2. req' = req \/ req' = [req EXCEPT ![q] = [Idle EXCEPT !.at = "find", !.job = "delete", !.p = p]]
    BY <1>3 DEF DeletePersona
  <2>3. \A s \in Process \ {q} : req'[s] = req[s]
    BY <1>0, <2>2
  <2>4. req'[q] = req[q] \/ req'[q] = [Idle EXCEPT !.at = "find", !.job = "delete", !.p = p]
    BY <1>0, <2>2
  <2>5. req'[q] = req[q] \/ (req'[q].p = p /\ {req'[q].n, req'[q].c} \subseteq RowsOf(p) \cup {NoRow})
    BY <2>4 DEF Idle
  <2> QED BY <1>3, <2>1, <2>3, <2>5 DEF DeletePersona, Admitted
<1>4. CASE Ensure(q, p)
  <2>1. CASE req' = [req EXCEPT ![q] = [Idle EXCEPT !.at = "insert", !.job = "ensure", !.p = p]]
    BY <1>0, <1>4, <2>1 DEF Ensure, Admitted, Idle, tables
  <2>2. ASSUME NEW d \in RowsOf(p), NEW step, NEW b,
               req' = [req EXCEPT ![q] = [Copy("ensure", step, d) EXCEPT !.again = b]]
        PROVE  Admitted(q, p)
    <3>1. req'[q] = [Copy("ensure", step, d) EXCEPT !.again = b] /\ \A s \in Process \ {q} : req'[s] = req[s]
      BY <1>0, <2>2
    <3>2. req'[q].p = p /\ req'[q].n = d /\ req'[q].c = d
      BY <3>1 DEF Copy, Idle, RowsOf
    <3> QED BY <1>4, <3>1, <3>2 DEF Ensure, Admitted, tables
  <2> QED BY <1>4, <2>1, <2>2 DEF Ensure
<1> QED BY <1>1, <1>2, <1>3, <1>4

LEMMA PageAdmitted ==
  ASSUME Typed, NEW q \in Request, NEW d \in Row, PageStart(q, d) \/ PageStop(q, d) \/ PageRemove(q, d)
  PROVE  row[d].owner \in Persona /\ Admitted(q, row[d].owner)
<1>0. /\ q \in Process /\ req \in [Process -> Handler] /\ row[d].owner \in Persona \cup {NoPersona}
      /\ Exists(d) /\ Admit(q) /\ UNCHANGED <<tables, docker, phase, todo, fault>>
  BY DEF Process, Typed, RowRecord, PageStart, PageStop, PageRemove
<1>1. PICK step : req' = [req EXCEPT ![q] = Copy("page", step, d)]
  BY DEF PageStart, PageStop, PageRemove
<1>2. req'[q] = Copy("page", step, d) /\ \A s \in Process \ {q} : req'[s] = req[s]
  BY <1>0, <1>1
<1>3. req'[q].p = row[d].owner /\ req'[q].n = d /\ req'[q].c = d
  BY <1>2 DEF Copy, Idle
<1> QED BY <1>0, <1>2, <1>3 DEF Admitted, Exists, RowsOf, tables

LEMMA AdmittedNames ==
  ASSUME Names, NEW q \in Process, NEW p \in Persona, Admitted(q, p)
  PROVE  Names'
<1>1. ASSUME NEW s \in Process \ {q}
      PROVE  /\ Owned(req[s].n, req[s].p)' /\ Owned(req[s].c, req[s].p)'
             /\ req'[s].at # "idle" => req'[s].p \in Persona
  BY DEF Admitted, Names, Owned, Exists, At
<1>2. /\ Owned(req[q].n, req[q].p)' /\ Owned(req[q].c, req[q].p)'
      /\ req'[q].at # "idle" => req'[q].p \in Persona
  <2>1. CASE req'[q] = req[q]
    BY <2>1 DEF Admitted, Names, Owned, Exists, At
  <2>2. CASE req'[q].p = p /\ {req'[q].n, req'[q].c} \subseteq RowsOf(p) \cup {NoRow}
    BY <2>2, RequestAndMain DEF Admitted, Owned, Exists, RowsOf
  <2> QED BY <2>1, <2>2 DEF Admitted
<1>3. \A t \in todo' : Owned(t[1], t[2])'
  BY DEF Admitted, Names, Owned, Exists
<1>4. \A k \in Port : alloc'[k] # NoRow => Exists(alloc[k])'
  BY DEF Admitted, Names, Exists
<1>5. fault' \subseteq Persona /\ \A x \in Persona : docker'[x].id = NoRow => docker'[x] = NoContainer
  BY DEF Admitted, Names
<1> QED BY <1>1, <1>2, <1>3, <1>4, <1>5 DEF Names, At

LEMMA HandleActive ==
  ASSUME NEW q, Handle(q)
  PROVE  ~At(q, "idle")
BY DEF Handle, At, SavePersona, UndoCreate, RevertEnable, InsertRow, AllocatePort, SetPort, CreateContainer,
       CreateFails, LinkContainer, StartContainer, StartFails, MarkRunning, MarkFailed, MarkStopped, Inspect,
       InspectFails, FindToRemove, RemoveContainer, RemoveFails, ReleasePort, DropRow, StopContainer, StopFails

\* Main begins with one row or persona of those it has left.
LEMMA MainNextKept ==
  ASSUME Typed, NEW from, NEW step, MainNext(from, from, step)
  PROVE  /\ phase = from /\ At(Main, "idle") /\ UNCHANGED <<tables, docker, phase, fault>>
         /\ \A s \in Process \ {Main} : req'[s] = req[s]
         /\ \E t \in todo :
              /\ todo' = todo \ {t} /\ t[1] \in Row \cup {NoRow} /\ t[2] \in Persona
              /\ req'[Main].at = step /\ req'[Main].job = from /\ req'[Main].p = t[2]
              /\ req'[Main].n = t[1] /\ req'[Main].c = NoRow /\ req'[Main].again = FALSE
<1>1. PICK t \in todo : todo' = todo \ {t} /\ req' = [req EXCEPT ![Main] = [Idle EXCEPT
            !.at = step, !.job = from, !.p = t[2], !.n = t[1]]]
  BY DEF MainNext
<1>2. req'[Main] = [Idle EXCEPT !.at = step, !.job = from, !.p = t[2], !.n = t[1]]
      /\ \A s \in Process \ {Main} : req'[s] = req[s]
  BY <1>1 DEF Typed, Process
<1>3. t[1] \in Row \cup {NoRow} /\ t[2] \in Persona
  BY DEF Typed
<1>4. /\ req'[Main].at = step /\ req'[Main].job = from /\ req'[Main].p = t[2]
      /\ req'[Main].n = t[1] /\ req'[Main].c = NoRow /\ req'[Main].again = FALSE
  BY <1>2 DEF Idle
<1> QED BY <1>1, <1>2, <1>3, <1>4 DEF MainNext

\* Rows of Main's list are rows of their persona.
LEMMA LinkedRowsOwned ==
  ASSUME NEW t \in LinkedRows
  PROVE  Owned(t[1], t[2])
BY DEF LinkedRows, Owned

LEMMA NamesStep ==
  ASSUME Typed, Names, [Next]_vars
  PROVE  Names'
<1>0. Main \in Process
  BY DEF Process
<1>1. ASSUME NEW q \in Request, NEW p \in Persona,
             CreatePersona(q, p) \/ PutPersona(q, p) \/ DeletePersona(q, p) \/ Ensure(q, p)
      PROVE  Names'
  BY <1>1, RequestAdmitted, AdmittedNames DEF Process
<1>2. ASSUME NEW q \in Request, NEW d \in Row, PageStart(q, d) \/ PageStop(q, d) \/ PageRemove(q, d)
      PROVE  Names'
  BY <1>2, PageAdmitted, AdmittedNames DEF Process
<1>3. ASSUME NEW q \in Process, Handle(q) PROVE Names'
  BY <1>3, HandleActive, HandleKept, KeptNames, HandleTyped
\* The tables and Docker stay: what is left is Main and its list.
<1>4. ASSUME UNCHANGED <<tables, docker>>, fault' \subseteq Persona,
             \A s \in Process : \/ req'[s] = req[s]
                                \/ req'[s] = Idle
                                \/ Owned(req'[s].n, req'[s].p) /\ req'[s].c = NoRow /\ req'[s].p \in Persona,
             \A t \in todo' : Owned(t[1], t[2])
      PROVE  Names'
  <2>1. \A s \in Process : /\ Owned(req[s].n, req[s].p)' /\ Owned(req[s].c, req[s].p)'
                           /\ req'[s].at # "idle" => req'[s].p \in Persona
    BY <1>4, RequestAndMain DEF Names, Owned, Exists, At, Idle, tables
  <2>2. \A t \in todo' : Owned(t[1], t[2])'
    BY <1>4 DEF Owned, Exists, tables
  <2> QED BY <1>4, <2>1, <2>2 DEF Names, At, Exists, tables
<1>5. CASE Boot
  <2>1. \A t \in todo' : Owned(t[1], t[2])
    BY <1>5, LinkedRowsOwned DEF Boot
  <2> QED BY <1>4, <1>5, <2>1 DEF Boot, Names
<1>6. CASE Reconcile
  <2>1. \A t \in todo' : Owned(t[1], t[2])
    BY <1>6, RequestAndMain DEF Reconcile, Owned
  <2> QED BY <1>4, <1>6, <2>1 DEF Reconcile, Names
<1>7. CASE BootDone
  BY <1>4, <1>7 DEF BootDone, Names
<1>8. CASE Exit
  <2>1. \A t \in todo' : Owned(t[1], t[2])
    BY <1>8, LinkedRowsOwned DEF Exit
  <2> QED BY <1>4, <1>8, <2>1 DEF Exit, Names
<1>9. CASE Restart
  BY <1>4, <1>9 DEF Restart, Names
<1>10. ASSUME NEW from, NEW step, MainNext(from, from, step) PROVE Names'
  <2>1. PICK t \in todo : /\ todo' = todo \ {t} /\ t[2] \in Persona /\ req'[Main].p = t[2]
                          /\ req'[Main].n = t[1] /\ req'[Main].c = NoRow
    BY <1>10, MainNextKept
  <2>2. \A s \in Process \ {Main} : req'[s] = req[s]
    BY <1>10, MainNextKept
  <2>3. UNCHANGED <<tables, docker, fault>>
    BY <1>10 DEF MainNext
  <2>4. \A x \in todo : Owned(x[1], x[2])
    BY DEF Names
  <2> QED BY <1>4, <2>1, <2>2, <2>3, <2>4 DEF Names
<1>11. ASSUME NEW p \in Persona, ContainerExits(p) \/ RemovedByHand(p) PROVE Names'
  <2>1. UNCHANGED <<tables, req, todo>> /\ fault' \subseteq Persona
    BY <1>11 DEF ContainerExits, RemovedByHand, Blame, Names
  <2>2. \A x \in Persona : docker'[x] \in {docker[x], NoContainer}
                           \/ (docker'[x] = [docker[x] EXCEPT !.up = FALSE] /\ docker[x].up)
    BY <1>11 DEF ContainerExits, RemovedByHand, Typed
  <2>3. ASSUME NEW x \in Persona, docker'[x].id = NoRow PROVE docker'[x] = NoContainer
    <3>1. docker[x] \in [id : Row \cup {NoRow}, up : BOOLEAN]
      BY DEF Typed
    <3> QED BY <2>2, <2>3, <3>1 DEF Names, NoContainer
  <2> QED BY <2>1, <2>3 DEF Names, Owned, Exists, At, tables
<1>12. CASE UNCHANGED vars
  BY <1>12 DEF vars, tables, Names, Owned, Exists, At
<1> QED
  BY <1>1, <1>2, <1>3, <1>5, <1>6, <1>7, <1>8, <1>9, <1>10, <1>11, <1>12 DEF Next

LEMMA InitNames ==
  ASSUME Init
  PROVE  Typed /\ Names
<1>1. Typed
  BY IdleTyped, AbsentTyped DEF Init, Typed, NoContainer
<1>2. Names
  BY RequestAndMain DEF Init, Names, Owned, Exists, Absent, At, Idle
<1> QED BY <1>1, <1>2

LEMMA TypeOKHolds ==
  ASSUME Typed, Names
  PROVE  TypeOK
BY DEF Typed, Names, TypeOK, Handler, RowRecord

\* The tables, the containers and the handlers have their types, and only
\* personas are blamed, whatever runs at once.
THEOREM TypeCorrect == Spec => []TypeOK
<1>1. Init => Typed /\ Names
  BY InitNames
<1>2. Typed /\ Names /\ [Next]_vars => (Typed /\ Names)'
  BY NextTyped, NamesStep
<1>3. Typed /\ Names => TypeOK
  BY TypeOKHolds
<1> QED BY <1>1, <1>2, <1>3, PTL DEF Spec

-----------------------------------------------------------------------------
(***************************************************************************)
(* One request at a time.                                                  *)
(***************************************************************************)
\* Main's steps follow from what it is doing.
LEMMA MainStays ==
  ASSUME Typed, Serial, Handle(Main)
  PROVE  /\ phase = "start_all" => req'[Main].at \in {"idle", "row_start", "mark_running", "mark_failed"}
         /\ phase = "reconcile" =>
              req'[Main].at \in {"idle", "insert", "link", "docker_start", "mark_running"} \cup Building
         /\ phase = "stop_all" => req'[Main].at \in {"idle", "row_stop", "mark_stopped"}
         /\ phase \in {"start_all", "reconcile", "stop_all"}
         /\ req'[Main].at # "idle" => req'[Main].job = phase /\ ~req'[Main].again
<1> DEFINE r == req[Main]
           After(steps) == req'[Main] = Idle
                           \/ (req'[Main].at \in steps /\ req'[Main].job = r.job /\ req'[Main].again = r.again)
<1>0. /\ Main \in Process /\ r \in Handler /\ r.at # "idle" /\ r.job = phase /\ ~r.again
      /\ phase \in {"start_all", "reconcile", "stop_all"}
  BY HandleActive DEF Process, Typed, Serial, At
<1>i. Idle.at = "idle"
  BY DEF Idle
<1>g. ASSUME NEW step, Goto(Main, step) PROVE After({step})
  <2>1. req'[Main] = [r EXCEPT !.at = step]
    BY <1>0, <1>g, GotoKept
  <2>2. req'[Main].at = step /\ req'[Main].job = r.job /\ req'[Main].again = r.again
    <3> HIDE DEF r
    <3> QED BY <1>0, <2>1 DEF Handler
  <2> QED BY <2>2
<1>f. Finish(Main) \/ Failed(Main) => req'[Main] = Idle
  BY <1>0, FinishKept, FailedKept
<1>1. /\ r.at = "row_start" => After({"mark_running", "mark_failed"})
      /\ r.at = "row_stop" => After({"mark_stopped"})
      /\ r.at = "link" => After({"docker_start"})
      /\ r.at = "docker_start" => After({"mark_running"})
      /\ r.at \in {"mark_running", "mark_failed", "mark_stopped"} => After({})
      /\ r.at = "insert" => After({"allocate"})
      /\ r.at = "allocate" => After({"set_port"})
      /\ r.at = "set_port" => After({"docker_create"})
      /\ r.at = "docker_create" => After({"link"})
  <2>1. ASSUME InsertRow(Main) PROVE After({"allocate"})
    <3>1. ASSUME NEW d, req' = [req EXCEPT ![Main] = [@ EXCEPT !.at = "allocate", !.n = d]]
          PROVE  After({"allocate"})
      <4>1. req'[Main] = [r EXCEPT !.at = "allocate", !.n = d]
        BY <1>0, <3>1 DEF Typed
      <4>2. req'[Main].at = "allocate" /\ req'[Main].job = r.job /\ req'[Main].again = r.again
        <5> HIDE DEF r
        <5> QED BY <1>0, <4>1 DEF Handler
      <4> QED BY <4>2
    <3> HIDE DEF After
    <3>2. Failed(Main) => After({"allocate"})
      BY <1>f DEF After
    <3> QED BY <2>1, <3>1, <3>2 DEF InsertRow
  <2>2. ASSUME AllocatePort(Main) PROVE After({"set_port"})
    <3>1. ASSUME NEW k, req' = [req EXCEPT ![Main] = [@ EXCEPT !.at = "set_port", !.got = k]]
          PROVE  After({"set_port"})
      <4>1. req'[Main] = [r EXCEPT !.at = "set_port", !.got = k]
        BY <1>0, <3>1 DEF Typed
      <4>2. req'[Main].at = "set_port" /\ req'[Main].job = r.job /\ req'[Main].again = r.again
        <5> HIDE DEF r
        <5> QED BY <1>0, <4>1 DEF Handler
      <4> QED BY <4>2
    <3> HIDE DEF After
    <3>2. Failed(Main) => After({"set_port"})
      BY <1>f DEF After
    <3> QED BY <2>2, <3>1, <3>2 DEF AllocatePort
  <2>3. /\ SetPort(Main) => After({"docker_create"})
        /\ CreateContainer(Main) => After({"link"})
        /\ CreateFails(Main) => After({"link"})
        /\ LinkContainer(Main) => After({"docker_start"})
        /\ StopContainer(Main) => After({"mark_stopped"})
    BY <1>g, <1>f DEF SetPort, CreateContainer, CreateFails, LinkContainer, StopContainer
  <2>4. /\ StartContainer(Main) => After({"mark_running"})
        /\ StartFails(Main) /\ At(Main, "docker_start") => After({"mark_running"})
        /\ StartFails(Main) /\ At(Main, "row_start") => After({"mark_failed"})
    <3> HIDE DEF After
    <3>1. StartContainer(Main) => After({"mark_running"})
      BY <1>g DEF StartContainer
    <3>2. ASSUME StartFails(Main), At(Main, "docker_start") PROVE After({"mark_running"})
      <4>1. Failed(Main)
        BY <3>2 DEF StartFails, At
      <4> QED BY <1>f, <4>1 DEF After
    <3>3. ASSUME StartFails(Main), At(Main, "row_start") PROVE After({"mark_failed"})
      <4>1. Goto(Main, "mark_failed")
        BY <3>3 DEF StartFails, At
      <4> QED BY <1>g, <4>1
    <3> QED BY <3>1, <3>2, <3>3
  <2>5. StopFails(Main) /\ r.job = "stop_all" => req'[Main] = Idle
    BY <1>f DEF StopFails
  <2>6. MarkRunning(Main) \/ MarkFailed(Main) \/ MarkStopped(Main) => req'[Main] = Idle
    BY <1>f DEF MarkRunning, MarkFailed, MarkStopped
  <2>7. r.at = "row_stop" => r.job = "stop_all"
    BY <1>0 DEF Serial, Building
  <2>8. /\ r.at = "row_start" => StartContainer(Main) \/ StartFails(Main)
        /\ r.at = "docker_start" => StartContainer(Main) \/ StartFails(Main)
        /\ r.at = "row_stop" => StopContainer(Main) \/ StopFails(Main)
        /\ r.at = "link" => LinkContainer(Main)
        /\ r.at = "mark_running" => MarkRunning(Main)
        /\ r.at = "mark_failed" => MarkFailed(Main)
        /\ r.at = "mark_stopped" => MarkStopped(Main)
        /\ r.at = "insert" => InsertRow(Main)
        /\ r.at = "allocate" => AllocatePort(Main)
        /\ r.at = "set_port" => SetPort(Main)
        /\ r.at = "docker_create" => CreateContainer(Main) \/ CreateFails(Main)
    BY DEF Handle, At, SavePersona, UndoCreate, RevertEnable, InsertRow, AllocatePort, SetPort, CreateContainer,
       CreateFails, LinkContainer, StartContainer, StartFails, MarkRunning, MarkFailed, MarkStopped, Inspect,
       InspectFails, FindToRemove, RemoveContainer, RemoveFails, ReleasePort, DropRow, StopContainer, StopFails
  <2> QED BY <2>1, <2>2, <2>3, <2>4, <2>5, <2>6, <2>7, <2>8 DEF At
<1>2. /\ phase = "start_all" => r.at \in {"row_start", "mark_running", "mark_failed"}
      /\ phase = "reconcile" => r.at \in {"insert", "allocate", "set_port", "docker_create", "link", "docker_start",
                                          "mark_running"}
      /\ phase = "stop_all" => r.at \in {"row_stop", "mark_stopped"}
  BY <1>0 DEF Serial, Building
<1> QED BY <1>0, <1>i, <1>1, <1>2 DEF Building

LEMMA SerialStep ==
  ASSUME OneAtATime, Typed, Names, Serial, [Next]_vars
  PROVE  Serial'
<1>0. Main \in Process /\ Main \notin Request
  BY RequestAndMain DEF Process
<1>1. ASSUME NEW q \in Request, NEW p \in Persona, Admitted(q, p) PROVE Serial'
  <2>1. phase = "up" /\ \A s \in Request : req[s].at = "idle"
    BY <1>1 DEF Admitted, Admit, Settled, At
  <2>2. req'[Main] = req[Main] /\ UNCHANGED <<phase, todo>> /\ \A s \in Request \ {q} : req'[s] = req[s]
    BY <1>0, <1>1 DEF Admitted, Process
  <2> QED BY <2>1, <2>2 DEF Serial, At
<1>2. ASSUME NEW q \in Request, Handle(q) PROVE Serial'
  <2>1. Kept(q) /\ req[q].at # "idle"
    BY <1>2, HandleKept, HandleActive DEF Process, At
  <2>2. req'[Main] = req[Main] /\ UNCHANGED <<phase, todo>> /\ \A s \in Request \ {q} : req'[s] = req[s]
    BY <1>0, <2>1 DEF Kept, HandlerKept, OthersKept, Process
  <2>3. \A s \in Request \ {q} : req'[s].at = "idle"
    BY <2>1, <2>2 DEF Serial, At
  <2>4. phase \notin {"boot", "start_all", "reconcile"}
    BY <2>1 DEF Serial, At
  <2> QED BY <2>2, <2>3, <2>4 DEF Serial, At
<1>3. CASE Handle(Main)
  <2>1. Kept(Main)
    BY <1>0, <1>3, HandleKept
  <2>2. UNCHANGED <<phase, todo>> /\ \A s \in Request : req'[s] = req[s]
    BY <1>0, <2>1 DEF Kept, HandlerKept, OthersKept, Process
  <2>3. /\ \A q, s \in Request : ~At(q, "idle")' /\ ~At(s, "idle")' => q = s
        /\ phase' \in {"boot", "start_all", "reconcile"} => \A q \in Request : At(q, "idle")'
    BY <2>2 DEF Serial, At
  <2>4. phase' \notin {"boot", "up"}
    BY <1>3, <2>2, MainStays
  <2> QED BY <1>3, <2>2, <2>3, <2>4, MainStays DEF Serial, At
<1>4. CASE Boot
  BY <1>0, <1>4 DEF Boot, Serial, At
<1>5. CASE Reconcile
  BY <1>0, <1>5 DEF Reconcile, MainDone, Serial, At
<1>6. CASE BootDone
  BY <1>0, <1>6 DEF BootDone, MainDone, Serial, At
<1>7. CASE Exit
  BY <1>0, <1>7 DEF Exit, Serial, At
<1>8. CASE Restart
  BY <1>0, <1>8 DEF Restart, Serial, At, Idle, Process
<1>9. ASSUME NEW from, NEW step, MainNext(from, from, step),
             <<from, step>> \in {<<"start_all", "row_start">>, <<"reconcile", "insert">>, <<"stop_all", "row_stop">>}
      PROVE  Serial'
  <2>1. /\ phase = from /\ UNCHANGED phase /\ \A s \in Request : req'[s] = req[s]
        /\ req'[Main].at = step /\ req'[Main].job = from /\ ~req'[Main].again
    BY <1>0, <1>9, MainNextKept DEF Process
  <2> QED BY <1>9, <2>1 DEF Serial, At
<1>10. ASSUME NEW p \in Persona, ContainerExits(p) \/ RemovedByHand(p) PROVE Serial'
  BY <1>10 DEF ContainerExits, RemovedByHand, Serial, At
<1>11. CASE UNCHANGED vars
  BY <1>11 DEF vars, Serial, At
<1> QED
  BY <1>1, <1>2, <1>3, <1>4, <1>5, <1>6, <1>7, <1>8, <1>9, <1>10, <1>11, RequestAdmitted, PageAdmitted
     DEF Next, Process

-----------------------------------------------------------------------------
(***************************************************************************)
(* Rows and containers of a persona that Docker did not fail.              *)
(***************************************************************************)
Alike(p) ==
  /\ persona'[p] = persona[p] /\ RowsOf(p)' = RowsOf(p)
  /\ \A d \in RowsOf(p) : row'[d].linked = row[d].linked
  /\ docker'[p].id = docker[p].id /\ (docker[p] = NoContainer => docker'[p] = NoContainer)

LEMMA AlikeKeeps ==
  ASSUME NEW p \in Persona, Alike(p)
  PROVE  /\ Matches(p) => Matches(p)'
         /\ Clean(p) => Clean(p)'
         /\ Bare(p) => Bare(p)'
<1>1. Matches(p) => Matches(p)'
  BY DEF Alike, Matches
<1> QED BY <1>1 DEF Alike, Clean, Bare

LEMMA AlikeWorking ==
  ASSUME NEW q \in Process, NEW p \in Persona, req[q].p = p, req'[q] = req[q], Alike(p), Working(q)
  PROVE  Working(q)'
<1> DEFINE r == req[q]
<1>1. /\ persona'[p] = persona[p] /\ RowsOf(p)' = RowsOf(p) /\ docker'[p].id = docker[p].id
      /\ docker[p] = NoContainer => docker'[p] = NoContainer
      /\ Matches(p) => Matches(p)'
      /\ Bare(p) => Bare(p)'
  BY AlikeKeeps DEF Alike
<1>2. /\ r.at = "save" =>
           /\ ~r.again
           /\ r.job = "edit" => r.mem = (persona'[p] = "on")
           /\ r.job = "enable" => persona'[p] = "off" /\ r.mem
      /\ r.at = "insert" => persona'[p] = "on" /\ Bare(p)' /\ ~r.again
      /\ r.at \in Building =>
           persona'[p] = "on" /\ RowsOf(p)' = {r.n} /\ docker'[p] = NoContainer /\ ~r.again
      /\ r.at = "link" => persona'[p] = "on" /\ RowsOf(p)' = {r.n} /\ docker'[p].id = r.n
      /\ r.at \in Removing => RowsOf(p)' = {r.c} /\ r.job # "ensure"
      /\ r.at = "docker_rm" => docker'[p].id = r.c
      /\ r.at \in {"release", "drop"} => docker'[p] = NoContainer
      /\ r.at = "find" => Matches(p)'
      /\ r.at \in {"undo", "revert"} => Bare(p)'
  BY <1>1 DEF Working
<1> QED BY <1>2 DEF Working, Building, Removing

\* A step of a handler leaves the other personas as they are.
LEMMA OthersAlike ==
  ASSUME Names, NEW q \in Process, Kept(q), NEW p \in Persona \ {req[q].p}
  PROVE  Alike(p)
<1>1. ASSUME NEW d \in Row
      PROVE  (row'[d].owner = p <=> row[d].owner = p) /\ (row[d].owner = p => row'[d] = row[d])
  <2>1. CASE row'[d] = row[d]
    BY <2>1
  <2>2. CASE d \in {req[q].n, req[q].c} /\ row'[d].owner \in {row[d].owner, NoPersona}
    BY <2>2, RequestAndMain DEF Names, Owned, Exists
  <2>3. CASE Fresh(d) /\ row'[d].owner = req[q].p
    BY <2>3, RequestAndMain DEF Fresh, Exists
  <2> QED BY <2>1, <2>2, <2>3 DEF Kept, RowsKept
<1>2. persona'[p] = persona[p] /\ docker'[p] = docker[p]
  BY DEF Kept, OthersKept
<1> QED BY <1>1, <1>2 DEF Alike, RowsOf

\* The row of a handler's persona, when it is the only one.
LEMMA OnlyRow ==
  ASSUME NEW p \in Persona, NEW n, RowsOf(p) = {n}
  PROVE  n \in Row /\ row[n].owner = p /\ Exists(n) /\ n # NoRow /\ \A d \in Row \ {n} : row[d].owner # p
<1>1. n \in RowsOf(p) /\ \A d \in Row : row[d].owner = p => d \in {n}
  BY DEF RowsOf
<1> QED BY <1>1, RequestAndMain DEF RowsOf, Exists

\* With the row deleted, the persona has none.
LEMMA DeletedRow ==
  ASSUME NEW p \in Persona, NEW n, RowsOf(p) = {n}, DeleteRow(n)
  PROVE  RowsOf(p)' = {}
BY OnlyRow, RequestAndMain DEF DeleteRow, RowsOf, Absent

LEMMA BareIsClean ==
  ASSUME NEW p \in Persona, Bare(p)
  PROVE  Clean(p)
BY RequestAndMain DEF Bare, Clean, Matches, NoContainer

LEMMA CleanIsBare ==
  ASSUME Names, NEW p \in Persona, Clean(p), RowsOf(p) = {}
  PROVE  Bare(p)
<1>1. docker[p].id = NoRow
  BY DEF Clean, Matches
<1> QED BY <1>1 DEF Names, Bare

\* A handler's step on its own persona, which Docker does not fail in it.
LEMMA HandleSettles ==
  ASSUME Typed, Names, NEW q \in Process, Handle(q),
         NEW p \in Persona, req[q].p = p, p \notin fault', Working(q),
         req[q].at \notin Unsettling => Clean(p)
  PROVE  /\ req'[q].at # "idle" => Working(q)'
         /\ req'[q].at \notin Unsettling => Clean(p)'
<1> DEFINE r == req[q]
           w == req'[q]
           Goal == (w.at # "idle" => Working(q)') /\ (w.at \notin Unsettling => Clean(p)')
           Moved(step) == /\ w.at = step /\ w.p = p /\ w.n = r.n /\ w.c = r.c /\ w.job = r.job
                          /\ w.mem = r.mem /\ w.again = r.again
           Calm == {"save", "docker_start", "restart", "row_start", "row_stop", "inspect",
                    "mark_running", "mark_failed", "mark_stopped"}
<1>0. r \in Handler /\ r.p = p /\ docker[p] \in [id : Row \cup {NoRow}, up : BOOLEAN]
  BY DEF Typed
<1>i. Idle.at = "idle" /\ "idle" \notin Unsettling /\ Calm \cap Unsettling = {}
  BY DEF Idle, Unsettling, Building, Removing
<1>g. ASSUME NEW step, Goto(q, step) PROVE Moved(step)
  <2>1. w = [r EXCEPT !.at = step]
    BY <1>g, GotoKept
  <2>2. /\ w.at = step /\ w.p = r.p /\ w.n = r.n /\ w.c = r.c /\ w.job = r.job
        /\ w.mem = r.mem /\ w.again = r.again
    <3> HIDE DEF r, w
    <3> QED BY <1>0, <2>1 DEF Handler
  <2> QED BY <1>0, <2>2
<1>f. Finish(q) => w = Idle
  BY FinishKept
\* Nothing is known of a step that settles.
<1>c. (w = Idle \/ w.at \in Calm \ {"save"}) /\ Clean(p)' => Goal
  <2>1. w = Idle \/ w.at \in Calm \ {"save"} => (w.at # "idle" => Working(q)')
    BY <1>i DEF Working, Building, Removing
  <2> QED BY <2>1
<1>b. p \notin fault
  BY HandleKept DEF Kept, OthersKept
<1>u. ASSUME UNCHANGED <<row, persona>>, docker' = docker \/ \E b \in BOOLEAN : docker' = [docker EXCEPT ![p].up = b],
             docker[p] = NoContainer => docker' = docker
      PROVE  Alike(p)
  <2>1. docker'[p].id = docker[p].id
    BY <1>0, <1>u DEF Typed
  <2> QED BY <1>u, <2>1 DEF Alike, RowsOf
<1>v. ASSUME docker[p].id # NoRow PROVE docker[p] # NoContainer
  BY <1>v DEF NoContainer
\* What each step knows.
<1>k. /\ r.at = "save" =>
           /\ ~r.again /\ (r.job = "edit" => r.mem = (persona[p] = "on"))
           /\ r.job = "enable" => persona[p] = "off" /\ r.mem
      /\ r.at = "insert" => persona[p] = "on" /\ Bare(p) /\ ~r.again
      /\ r.at \in {"allocate", "set_port", "docker_create"} =>
           persona[p] = "on" /\ RowsOf(p) = {r.n} /\ docker[p] = NoContainer /\ ~r.again
      /\ r.at = "link" => persona[p] = "on" /\ RowsOf(p) = {r.n} /\ docker[p].id = r.n
      /\ r.at \in {"docker_rm", "release", "drop"} => RowsOf(p) = {r.c} /\ r.job # "ensure"
      /\ r.at = "docker_rm" => docker[p].id = r.c
      /\ r.at \in {"release", "drop"} => docker[p] = NoContainer
      /\ r.at = "find" => Matches(p)
      /\ r.at \in {"undo", "revert"} => Bare(p)
  BY <1>0 DEF Working, Building, Removing
<1>l. r.at \in Calm => Clean(p)
  BY <1>i
<1> SUFFICES Goal
  OBVIOUS
<1> HIDE DEF Goal, Moved, Calm
<1>1. CASE SavePersona(q)
  <2>1. r.at = "save" /\ Clean(p) /\ UNCHANGED <<row, docker>>
    BY <1>1, <1>l DEF SavePersona, At, Calm
  <2>2. persona'[p] = IF persona[p] = "absent" THEN "absent" ELSE IF r.mem THEN "on" ELSE "off"
    BY <1>0, <1>1 DEF SavePersona, Typed
  <2>3. persona[p] \in {"absent", "off", "on"} /\ r.mem \in BOOLEAN
    BY <1>0 DEF Typed, Handler
  <2>4. CASE persona[p] = "absent" \/ r.job = "edit"
    <3>1. w = Idle
      BY <1>0, <1>1, <1>f, <2>4 DEF SavePersona
    <3>2. persona'[p] = persona[p]
      BY <1>k, <2>1, <2>2, <2>3, <2>4
    <3>3. Clean(p)'
      BY <2>1, <3>2 DEF Clean, Matches, RowsOf
    <3> QED BY <1>c, <3>1, <3>3
  <2>5. CASE persona[p] # "absent" /\ r.job = "enable"
    <3>1. Moved("insert")
      BY <1>0, <1>1, <1>g, <2>5 DEF SavePersona
    <3>2. persona[p] = "off" /\ persona'[p] = "on" /\ ~r.again
      BY <1>k, <2>1, <2>2, <2>5
    <3>3. Bare(p)
      BY <2>1, <3>2, CleanIsBare DEF Clean
    <3>4. Bare(p)'
      BY <2>1, <3>3 DEF Bare, RowsOf
    <3> QED BY <3>1, <3>2, <3>4 DEF Moved, Goal, Working, Unsettling, Building, Removing
  <2>6. CASE persona[p] # "absent" /\ r.job \notin {"edit", "enable"}
    <3>1. Moved("find")
      BY <1>0, <1>1, <1>g, <2>6 DEF SavePersona
    <3>2. Matches(p)'
      BY <2>1 DEF Clean, Matches, RowsOf
    <3> QED BY <3>1, <3>2 DEF Moved, Goal, Working, Unsettling, Building, Removing
  <2> QED BY <2>4, <2>5, <2>6
<1>2. CASE UndoCreate(q) \/ RevertEnable(q)
  <2>1. w = Idle /\ Bare(p) /\ UNCHANGED <<row, docker>>
    BY <1>2, <1>k, <1>f DEF UndoCreate, RevertEnable, At
  <2>2. Bare(p)'
    BY <2>1 DEF Bare, RowsOf
  <2>3. Clean(p)'
    BY <2>2, RequestAndMain DEF Bare, Clean, Matches, NoContainer
  <2> QED BY <1>c, <2>1, <2>3
<1>4. CASE InsertRow(q)
  <2>1. r.at = "insert" /\ persona[p] = "on" /\ Bare(p) /\ ~r.again /\ UNCHANGED <<persona, docker>>
    BY <1>4, <1>k DEF InsertRow, At
  <2>2. PICK d \in Row : /\ Fresh(d)
                         /\ row' = [row EXCEPT ![d] = [owner |-> p, port |-> NoPort,
                                                       linked |-> FALSE, status |-> "created"]]
                         /\ req' = [req EXCEPT ![q] = [@ EXCEPT !.at = "allocate", !.n = d]]
    BY <1>0, <1>4, <2>1 DEF InsertRow
  <2>3. w = [r EXCEPT !.at = "allocate", !.n = d]
    BY <2>2 DEF Typed
  <2>4. w.at = "allocate" /\ w.p = p /\ w.n = d /\ w.again = r.again
    <3>1. w.at = "allocate" /\ w.p = r.p /\ w.n = d /\ w.again = r.again
      <4> HIDE DEF r, w
      <4> QED BY <1>0, <2>3 DEF Handler
    <3> QED BY <1>0, <3>1
  <2>5. RowsOf(p)' = {d}
    <3>1. row'[d].owner = p /\ \A e \in Row \ {d} : row'[e] = row[e]
      BY <2>2 DEF Typed
    <3> QED BY <2>1, <3>1 DEF Bare, RowsOf
  <2>6. persona'[p] = "on" /\ docker'[p] = NoContainer
    BY <2>1 DEF Bare
  <2> QED BY <2>1, <2>4, <2>5, <2>6 DEF Goal, Working, Unsettling, Building, Removing
<1>5. CASE AllocatePort(q)
  <2>1. /\ r.at = "allocate" /\ persona[p] = "on" /\ RowsOf(p) = {r.n} /\ docker[p] = NoContainer /\ ~r.again
        /\ UNCHANGED <<persona, docker>>
    BY <1>5, <1>k DEF AllocatePort, At
  <2>2. ASSUME NEW k, UNCHANGED row, req' = [req EXCEPT ![q] = [@ EXCEPT !.at = "set_port", !.got = k]]
        PROVE  Goal
    <3>1. w = [r EXCEPT !.at = "set_port", !.got = k]
      BY <2>2 DEF Typed
    <3>2. w.at = "set_port" /\ w.p = p /\ w.n = r.n /\ w.again = r.again
      <4>1. w.at = "set_port" /\ w.p = r.p /\ w.n = r.n /\ w.again = r.again
        <5> HIDE DEF r, w
        <5> QED BY <1>0, <3>1 DEF Handler
      <4> QED BY <1>0, <4>1
    <3>3. RowsOf(p)' = {r.n} /\ persona'[p] = "on" /\ docker'[p] = NoContainer
      BY <2>1, <2>2 DEF RowsOf
    <3> QED BY <2>1, <3>2, <3>3 DEF Goal, Working, Unsettling, Building, Removing
  <2>3. CASE DeleteRow(r.n) /\ Failed(q)
    <3>1. RowsOf(p)' = {}
      BY <2>1, <2>3, DeletedRow
    <3>2. Bare(p)'
      BY <2>1, <3>1 DEF Bare
    <3>3. Clean(p)'
      BY <3>2, RequestAndMain DEF Bare, Clean, Matches, NoContainer
    <3>4. w = Idle \/ w = [r EXCEPT !.at = "undo"] \/ w = [r EXCEPT !.at = "revert"]
      BY <2>1, <2>3, FailedKept
    <3>5. w = Idle \/ (w.at \in {"undo", "revert"} /\ w.p = p)
      <4>1. w = Idle \/ (w.at \in {"undo", "revert"} /\ w.p = r.p)
        <5> HIDE DEF r, w
        <5> QED BY <1>0, <3>4 DEF Handler
      <4> QED BY <1>0, <4>1
    <3>6. CASE w = Idle
      BY <1>c, <3>3, <3>6
    <3>7. CASE w.at \in {"undo", "revert"} /\ w.p = p
      BY <3>2, <3>7 DEF Goal, Working, Unsettling, Building, Removing
    <3> QED BY <3>5, <3>6, <3>7
  <2> QED BY <1>5, <2>2, <2>3 DEF AllocatePort
<1>6. CASE SetPort(q)
  <2>1. /\ r.at = "set_port" /\ persona[p] = "on" /\ RowsOf(p) = {r.n} /\ docker[p] = NoContainer /\ ~r.again
        /\ UNCHANGED <<persona, docker>> /\ Moved("docker_create")
    BY <1>6, <1>k, <1>g DEF SetPort, At
  <2>2. \A d \in Row : row'[d].owner = row[d].owner
    <3>1. \A d \in Row : row'[d] = row[d] \/ row'[d] = [row[d] EXCEPT !.port = r.got]
      BY <1>6 DEF SetPort, Typed
    <3> QED BY <3>1 DEF Typed, RowRecord
  <2>3. RowsOf(p)' = {r.n} /\ persona'[p] = "on" /\ docker'[p] = NoContainer
    BY <2>1, <2>2 DEF RowsOf
  <2> QED BY <2>1, <2>3 DEF Moved, Goal, Working, Unsettling, Building, Removing
<1>7. CASE CreateContainer(q)
  <2>1. /\ r.at = "docker_create" /\ persona[p] = "on" /\ RowsOf(p) = {r.n} /\ Moved("link")
        /\ UNCHANGED <<persona, row>>
    BY <1>7, <1>k, <1>g DEF CreateContainer, At, tables
  <2>2. docker'[p].id = r.n
    BY <1>0, <1>7 DEF CreateContainer, Typed
  <2>3. RowsOf(p)' = {r.n} /\ persona'[p] = "on"
    BY <2>1 DEF RowsOf
  <2> QED BY <2>1, <2>2, <2>3 DEF Moved, Goal, Working, Unsettling, Building, Removing
<1>8. CASE CreateFails(q) \/ StartFails(q) \/ InspectFails(q) \/ RemoveFails(q) \/ StopFails(q)
  BY <1>0, <1>8 DEF CreateFails, StartFails, InspectFails, RemoveFails, StopFails, Blame
<1>9. CASE LinkContainer(q)
  <2>1. /\ r.at = "link" /\ persona[p] = "on" /\ RowsOf(p) = {r.n} /\ docker[p].id = r.n /\ Moved("docker_start")
        /\ UNCHANGED <<persona, docker>>
    BY <1>9, <1>k, <1>g DEF LinkContainer, At
  <2>2. r.n \in Row /\ Exists(r.n) /\ r.n # NoRow
    BY <2>1, OnlyRow
  <2>3. row' = [row EXCEPT ![r.n].linked = TRUE] /\ row[r.n] \in RowRecord
    BY <1>9, <2>2 DEF LinkContainer, Typed
  <2>4. row'[r.n].linked = TRUE /\ row'[r.n].owner = row[r.n].owner /\ \A d \in Row \ {r.n} : row'[d] = row[d]
    BY <2>2, <2>3 DEF Typed, RowRecord
  <2>5. RowsOf(p)' = {r.n}
    BY <2>1, <2>2, <2>4 DEF RowsOf
  <2>6. Clean(p)'
    BY <2>1, <2>2, <2>4, <2>5 DEF Clean, Matches
  <2> QED BY <1>c, <2>1, <2>6 DEF Moved, Calm
<1>10. CASE StartContainer(q)
  <2>1. Alike(p)
    BY <1>0, <1>10, <1>u, <1>v DEF StartContainer, tables, Known
  <2>2. Moved("mark_running") /\ r.at \in Calm
    BY <1>10, <1>g DEF StartContainer, Calm
  <2>3. Clean(p)'
    BY <1>l, <2>1, <2>2, AlikeKeeps
  <2> QED BY <1>c, <2>2, <2>3 DEF Moved, Calm
<1>12. CASE MarkRunning(q) \/ MarkFailed(q) \/ MarkStopped(q)
  <2>1. w = Idle /\ r.at \in Calm /\ UNCHANGED <<persona, docker>>
    BY <1>12, <1>f DEF MarkRunning, MarkFailed, MarkStopped, At, Calm
  <2>2. \A d \in Row : row'[d].owner = row[d].owner /\ row'[d].linked = row[d].linked
    <3>1. PICK new \in Status : SetStatus(r.n, new)
      BY <1>12 DEF MarkRunning, MarkFailed, MarkStopped, Status
    <3> QED BY <3>1, SetStatusKept
  <2>3. Alike(p)
    BY <2>1, <2>2 DEF Alike, RowsOf
  <2>4. Clean(p)'
    BY <1>l, <2>1, <2>3, AlikeKeeps
  <2> QED BY <1>c, <2>1, <2>4
<1>15. CASE Inspect(q)
  <2>1. Alike(p)
    BY <1>15, <1>u DEF Inspect, tables
  <2>2. (w = Idle \/ Moved("restart")) /\ r.at \in Calm
    BY <1>15, <1>f, <1>g DEF Inspect, At, Calm
  <2>3. Clean(p)'
    BY <1>l, <2>1, <2>2, AlikeKeeps
  <2> QED BY <1>c, <2>2, <2>3 DEF Moved, Calm
<1>17. CASE FindToRemove(q)
  <2>1. r.at = "find" /\ Matches(p) /\ UNCHANGED <<persona, row, docker>> /\ Alike(p)
    BY <1>17, <1>k, <1>u DEF FindToRemove, At, tables
  <2>2. CASE RowsOf(p) = {} /\ Finish(q)
    <3>1. Clean(p)
      BY <2>1, <2>2 DEF Clean
    <3> QED BY <1>c, <1>f, <2>1, <2>2, <3>1, AlikeKeeps
  <2>3. ASSUME NEW d \in RowsOf(p),
               req' = [req EXCEPT ![q] = Copy("disable", IF row[d].linked THEN "docker_rm" ELSE "release", d)]
        PROVE  Goal
    <3>1. row[d].linked /\ RowsOf(p) = {d} /\ docker[p].id = d
      BY <2>1, <2>3 DEF Matches
    <3>2. w = Copy("disable", "docker_rm", d)
      BY <2>3, <3>1 DEF Typed
    <3>3. w.at = "docker_rm" /\ w.p = p /\ w.c = d /\ w.job = "disable"
      BY <3>2 DEF Copy, Idle, RowsOf
    <3>4. RowsOf(p)' = {d} /\ docker'[p].id = d
      BY <2>1, <3>1 DEF RowsOf
    <3> QED BY <3>3, <3>4 DEF Goal, Working, Unsettling, Building, Removing
  <2> QED BY <1>0, <1>17, <2>2, <2>3 DEF FindToRemove
<1>18. CASE RemoveContainer(q)
  <2>1. r.at = "docker_rm" /\ RowsOf(p) = {r.c} /\ r.job # "ensure" /\ UNCHANGED row /\ Moved("release")
    BY <1>18, <1>k, <1>g DEF RemoveContainer, At, tables
  <2>2. docker'[p] = NoContainer
    BY <1>0, <1>18 DEF RemoveContainer, Typed
  <2>3. RowsOf(p)' = {r.c}
    BY <2>1 DEF RowsOf
  <2> QED BY <2>1, <2>2, <2>3 DEF Moved, Goal, Working, Unsettling, Building, Removing
<1>20. CASE ReleasePort(q)
  <2>1. /\ r.at = "release" /\ RowsOf(p) = {r.c} /\ r.job # "ensure" /\ docker[p] = NoContainer
        /\ UNCHANGED <<row, docker>> /\ Moved("drop")
    BY <1>20, <1>k, <1>g DEF ReleasePort, At
  <2>2. RowsOf(p)' = {r.c} /\ docker'[p] = NoContainer
    BY <2>1 DEF RowsOf
  <2> QED BY <2>1, <2>2 DEF Moved, Goal, Working, Unsettling, Building, Removing
<1>21. CASE DropRow(q)
  <2>1. /\ r.at = "drop" /\ RowsOf(p) = {r.c} /\ r.job # "ensure" /\ docker[p] = NoContainer /\ UNCHANGED docker
    BY <1>21, <1>k DEF DropRow, At
  <2>2. w = Idle
    BY <1>21, <1>f, <2>1 DEF DropRow
  <2>3. RowsOf(p)' = {}
    BY <1>21, <2>1, DeletedRow DEF DropRow
  <2>4. Clean(p)'
    BY <2>1, <2>3, RequestAndMain DEF Clean, Matches, NoContainer
  <2> QED BY <1>c, <2>2, <2>4
<1>22. CASE StopContainer(q)
  <2>1. Alike(p)
    BY <1>0, <1>22, <1>u, <1>v DEF StopContainer, tables, Known
  <2>2. Moved("mark_stopped") /\ r.at \in Calm
    BY <1>22, <1>g DEF StopContainer, At, Calm
  <2>3. Clean(p)'
    BY <1>l, <2>1, <2>2, AlikeKeeps
  <2> QED BY <1>c, <2>2, <2>3 DEF Moved, Calm
<1>23. Goal
  BY <1>1, <1>2, <1>4, <1>5, <1>6, <1>7, <1>8, <1>9, <1>10, <1>12, <1>15, <1>17, <1>18, <1>20, <1>21, <1>22
     DEF Handle
<1> QED BY <1>23


\* While containers are stopped at the exit, a persona keeps its row and its container.
LEMMA StoppingAlike ==
  ASSUME Typed, NEW q \in Process, Handle(q), NEW p \in Persona, req[q].p = p,
         req[q].at \in {"row_stop", "mark_stopped"}
  PROVE  Alike(p)
<1>0. docker[p] \in [id : Row \cup {NoRow}, up : BOOLEAN]
  BY DEF Typed
<1>1. StopContainer(q) \/ StopFails(q) \/ MarkStopped(q)
  BY DEF Handle, At, SavePersona, UndoCreate, RevertEnable, InsertRow, AllocatePort, SetPort, CreateContainer,
     CreateFails, LinkContainer, StartContainer, StartFails, MarkRunning, MarkFailed, Inspect,
     InspectFails, FindToRemove, RemoveContainer, RemoveFails, ReleasePort, DropRow
<1>2. CASE StopContainer(q)
  <2>1. docker' = [docker EXCEPT ![p].up = FALSE] /\ UNCHANGED <<row, persona>> /\ docker[p] # NoContainer
    BY <1>2 DEF StopContainer, tables, Known, NoContainer
  <2>2. docker'[p].id = docker[p].id
    BY <1>0, <2>1 DEF Typed
  <2> QED BY <2>1, <2>2 DEF Alike, RowsOf
<1>3. CASE StopFails(q)
  BY <1>3 DEF StopFails, tables, Alike, RowsOf
<1>4. CASE MarkStopped(q)
  <2>1. SetStatus(req[q].n, "stopped") /\ UNCHANGED <<persona, docker>>
    BY <1>4 DEF MarkStopped
  <2>2. \A d \in Row : row'[d].owner = row[d].owner /\ row'[d].linked = row[d].linked
    BY <2>1, SetStatusKept DEF Status
  <2> QED BY <2>1, <2>2 DEF Alike, RowsOf
<1> QED BY <1>1, <1>2, <1>3, <1>4

\* Two handlers of one persona are a request and the exit.
LEMMA TwoHandlers ==
  ASSUME Typed, Serial, NEW q \in Process, NEW s \in Process \ {q}, ~At(q, "idle"), ~At(s, "idle")
  PROVE  Main \in {q, s} /\ req[Main].at \in {"row_stop", "mark_stopped"} /\ phase = "stop_all"
<1>1. Main \in {q, s}
  BY DEF Serial, Process
<1>2. \E x \in Request : ~At(x, "idle")
  BY RequestAndMain DEF Process
<1>3. ~At(Main, "idle") /\ phase = "stop_all"
  BY <1>1, <1>2 DEF Typed, Serial
<1> QED BY <1>1, <1>3 DEF Serial, At

LEMMA HandleSettling ==
  ASSUME OneAtATime, Typed, Names, Serial, Settling, NEW q \in Process, Handle(q)
  PROVE  Settling'
<1> DEFINE p == req[q].p
           Quiet(x) == \A s \in Process : req[s].p = x => req[s].at \notin Unsettling
<1>0. ~At(q, "idle") /\ Kept(q)
  BY HandleActive, HandleKept
<1>1. PICK p0 \in Persona : p0 = p
  BY <1>0 DEF Names
<1>2. /\ \A s \in Process \ {q} : req'[s] = req[s]
      /\ req'[q].at = "idle" \/ req'[q].p = p0
      /\ fault \subseteq fault' /\ UNCHANGED <<phase, todo>>
      /\ req'[q].at # "idle" => req'[q].p = p0
  BY <1>0, <1>1 DEF Kept, HandlerKept, OthersKept, Idle
<1>i. "idle" \notin Unsettling /\ {"row_stop", "mark_stopped"} \cap Unsettling = {}
  BY DEF Unsettling, Building, Removing
<1>a. \A x \in Persona \ {p0} : Alike(x)
  BY <1>0, <1>1, OthersAlike
<1>3. ASSUME NEW x \in Persona \ fault', \A s \in Process \ {q} : req[s].p = x => req[s].at \notin Unsettling,
             x # p0 \/ req[q].at \notin Unsettling
      PROVE  Clean(x)
  <2>1. Quiet(x)
    BY <1>1, <1>3
  <2>2. x \in Persona \ fault
    BY <1>2
  <2> QED BY <2>1, <2>2 DEF Settling
\* The handler that moves, unless it is the exit.
<1>4. ASSUME p0 \notin fault', \A s \in Process \ {q} : req[s].p = p0 => req[s].at \notin Unsettling
      PROVE  /\ req'[q].at # "idle" => Working(q)'
             /\ req'[q].at \notin Unsettling => Clean(p0)'
  <2>1. req[q].at \notin Unsettling => Clean(p0)
    BY <1>3, <1>4
  <2>2. Working(q)
    BY <1>0, <1>1, <1>2, <1>4 DEF Settling
  <2> QED BY <1>1, <1>4, <2>1, <2>2, HandleSettles
<1>5. ASSUME NEW s \in Process, req'[s].at # "idle", req'[s].p \notin fault'
      PROVE  Working(s)'
  <2>1. CASE s = q
    <3>1. req'[q].p = p0 /\ p0 \notin fault'
      BY <1>2, <1>5, <2>1
    <3>2. CASE \A t \in Process \ {q} : req[t].p = p0 => req[t].at \notin Unsettling
      BY <1>4, <1>5, <2>1, <3>1, <3>2
    <3>3. ASSUME NEW t \in Process \ {q}, req[t].p = p0, req[t].at \in Unsettling
          PROVE  Working(s)'
      <4>1. Main = q /\ phase = "stop_all"
        BY <1>0, <1>i, <3>3, TwoHandlers DEF At
      <4>2. req'[Main].at \in {"idle", "row_stop", "mark_stopped"}
        BY <4>1, MainStays
      <4> QED BY <2>1, <4>1, <4>2, <1>5 DEF Working, Building, Removing
    <3> QED BY <3>2, <3>3
  <2>2. CASE s # q
    <3>1. req'[s] = req[s] /\ req[s].at # "idle" /\ req[s].p \notin fault
      BY <1>2, <1>5, <2>2
    <3>2. req[s].p \in Persona /\ Working(s)
      BY <3>1 DEF Names, Settling, At
    <3>3. CASE req[s].p # p0
      BY <1>a, <3>1, <3>2, <3>3, AlikeWorking
    <3>4. CASE req[s].p = p0
      <4>1. Main \in {q, s} /\ req[Main].at \in {"row_stop", "mark_stopped"}
        BY <1>0, <2>2, <3>1, TwoHandlers DEF At
      <4>2. CASE q = Main
        BY <1>1, <3>1, <3>2, <3>4, <4>1, <4>2, StoppingAlike, AlikeWorking
      <4>3. CASE s = Main
        BY <3>1, <4>1, <4>3 DEF Working, Building, Removing
      <4> QED BY <4>1, <4>2, <4>3
    <3> QED BY <3>3, <3>4
  <2> QED BY <2>1, <2>2
<1>6. ASSUME NEW x \in Persona \ fault', \A s \in Process : req'[s].p = x => req'[s].at \notin Unsettling
      PROVE  Clean(x)'
  <2>1. \A s \in Process \ {q} : req[s].p = x => req[s].at \notin Unsettling
    BY <1>2, <1>6
  <2>2. CASE x # p0
    BY <1>3, <1>a, <2>1, <2>2, AlikeKeeps
  <2>3. CASE x = p0
    <3>1. req'[q].at \notin Unsettling
      BY <1>2, <1>6, <1>i, <2>3
    <3> QED BY <1>4, <2>1, <2>3, <3>1
  <2> QED BY <2>2, <2>3
<1>7. ASSUME phase = "reconcile", NEW t \in todo
      PROVE  /\ t[1] = NoRow
             /\ t[2] \notin fault' => Bare(t[2])'
             /\ req'[Main].at # "idle" => t[2] # req'[Main].p
  <2>1. q = Main /\ t[1] = NoRow /\ t[2] \in Persona
    BY <1>0, <1>7 DEF Serial, Settling, Process, Typed
  <2>2. t[2] # p0
    BY <1>0, <1>1, <1>7, <2>1 DEF Settling
  <2>3. t[2] \notin fault' => Bare(t[2])'
    BY <1>2, <1>7, <1>a, <2>1, <2>2, AlikeKeeps DEF Settling
  <2> QED BY <1>2, <2>1, <2>2, <2>3
<1> QED
  <2>1. \A s \in Process : ~At(s, "idle")' /\ req'[s].p \notin fault' => Working(s)'
    BY <1>5 DEF At
  <2>2. \A x \in Persona \ fault' :
          (\A s \in Process : req'[s].p = x => req'[s].at \notin Unsettling) => Clean(x)'
    BY <1>6
  <2>3. phase' = "reconcile" => \A t \in todo' :
          /\ t[1] = NoRow
          /\ t[2] \notin fault' => Bare(t[2])'
          /\ ~At(Main, "idle")' => t[2] # req'[Main].p
    BY <1>2, <1>7 DEF At
  <2> QED BY <2>1, <2>2, <2>3 DEF Settling

\* A request on p's memory and containers begins: nothing else is under way.
LEMMA AdmittedSettling ==
  ASSUME OneAtATime, Typed, Names, Serial, Settling, NEW q \in Request, NEW p \in Persona, Admitted(q, p),
         p \notin fault =>
           /\ req'[q].at # "idle" => Working(q)'
           /\ req'[q].at \notin Unsettling => Clean(p)'
  PROVE  Settling'
<1>0. /\ phase = "up" /\ \A s \in Process : req[s].at = "idle"
      /\ q \in Process /\ UNCHANGED <<row, alloc, docker, phase, todo, fault>>
      /\ \A s \in Process \ {q} : req'[s] = req[s]
      /\ req'[q].at = "idle" \/ req'[q].p = p
  BY DEF Admitted, Admit, Settled, Serial, Process, At
<1>1. "idle" \notin Unsettling
  BY DEF Unsettling, Building, Removing
<1>2. \A x \in Persona \ fault : Clean(x)
  BY <1>0, <1>1 DEF Settling
<1>3. ASSUME NEW s \in Process, req'[s].at # "idle", req'[s].p \notin fault'
      PROVE  Working(s)'
  BY <1>0, <1>3
<1>4. ASSUME NEW x \in Persona \ fault', \A s \in Process : req'[s].p = x => req'[s].at \notin Unsettling
      PROVE  Clean(x)'
  <2>1. CASE x = p
    BY <1>0, <1>1, <1>4, <2>1
  <2>2. CASE x # p
    BY <1>0, <1>2, <1>4, <2>2 DEF Admitted, Clean, Matches, RowsOf
  <2> QED BY <2>1, <2>2
<1> QED BY <1>0, <1>3, <1>4 DEF Settling, At

\* Nothing changes but what a request is about to do.
LEMMA CleanStays ==
  ASSUME NEW p \in Persona, UNCHANGED <<row, docker>>, persona'[p] = persona[p]
  PROVE  (Clean(p)' <=> Clean(p)) /\ (Bare(p)' <=> Bare(p)) /\ (Matches(p)' <=> Matches(p))
BY DEF Clean, Matches, Bare, RowsOf

LEMMA RequestSettling ==
  ASSUME OneAtATime, Typed, Names, Serial, Settling, NEW q \in Request, NEW p \in Persona,
         CreatePersona(q, p) \/ PutPersona(q, p) \/ DeletePersona(q, p) \/ Ensure(q, p)
  PROVE  Settling'
<1> DEFINE w == req'[q]
           Goal == (w.at # "idle" => Working(q)') /\ (w.at \notin Unsettling => Clean(p)')
<1>0. Admitted(q, p)
  BY RequestAdmitted
<1>1. /\ q \in Process /\ \A s \in Process : req[s].at = "idle"
      /\ UNCHANGED <<row, docker>> /\ persona \in [Persona -> {"absent", "off", "on"}] /\ req \in [Process -> Handler]
  BY <1>0 DEF Admitted, Admit, Settled, Serial, Process, At, Typed
<1>i. "idle" \notin Unsettling
  BY DEF Unsettling, Building, Removing
<1> SUFFICES ASSUME p \notin fault PROVE Goal
  BY <1>0, AdmittedSettling
<1>2. Clean(p) /\ Matches(p) /\ (persona[p] # "on" => RowsOf(p) = {})
  BY <1>1, <1>i DEF Settling, Clean
<1>3. RowsOf(p) = {} => Bare(p)
  BY <1>2, CleanIsBare
<1>4. CASE CreatePersona(q, p)
  <2>1. PICK mem \in BOOLEAN :
          /\ persona' = [persona EXCEPT ![p] = IF mem THEN "on" ELSE "off"]
          /\ req' = IF mem
                    THEN [req EXCEPT ![q] = [Idle EXCEPT !.at = "insert", !.job = "create", !.p = p]]
                    ELSE req
    BY <1>4 DEF CreatePersona
  <2>2. RowsOf(p)' = {} /\ Bare(p)'
    BY <1>1, <1>2, <1>3, <1>4 DEF CreatePersona, RowsOf, Bare
  <2>3. CASE mem
    <3>1. w.at = "insert" /\ w.p = p /\ ~w.again
      BY <1>1, <2>1, <2>3 DEF Idle
    <3>2. persona'[p] = "on"
      BY <1>1, <2>1, <2>3
    <3> QED BY <2>2, <3>1, <3>2 DEF Working, Unsettling, Building, Removing
  <2>4. CASE ~mem
    <3>1. w.at = "idle"
      BY <1>1, <2>1, <2>4
    <3>2. Clean(p)'
      BY <2>2, RequestAndMain DEF Bare, Clean, Matches, NoContainer
    <3> QED BY <3>1, <3>2
  <2> QED BY <2>3, <2>4
<1>5. CASE PutPersona(q, p)
  <2>1. persona[p] # "absent" /\ UNCHANGED persona
    BY <1>5 DEF PutPersona, tables
  <2>2. PICK mem \in BOOLEAN : w = [Idle EXCEPT
          !.at = "save", !.p = p, !.mem = mem,
          !.job = IF mem = (persona[p] = "on") THEN "edit" ELSE IF mem THEN "enable" ELSE "disable"]
    BY <1>1, <1>5 DEF PutPersona
  <2>3. /\ w.at = "save" /\ w.p = p /\ ~w.again /\ w.mem = mem
        /\ w.job = IF mem = (persona[p] = "on") THEN "edit" ELSE IF mem THEN "enable" ELSE "disable"
    BY <2>2 DEF Idle
  <2>4. /\ w.job = "edit" => w.mem = (persona'[p] = "on")
        /\ w.job = "enable" => persona'[p] = "off" /\ w.mem
    BY <1>1, <2>1, <2>3
  <2>5. Clean(p)'
    BY <1>1, <1>2, <2>1, CleanStays
  <2> QED BY <2>3, <2>4, <2>5 DEF Working, Building, Removing
<1>6. CASE DeletePersona(q, p)
  <2>1. CASE RowsOf(p) = {}
    <3>1. persona'[p] # "on" /\ Bare(p)'
      BY <1>1, <1>3, <1>6, <2>1 DEF DeletePersona, Bare, RowsOf
    <3>2. Clean(p)' /\ Matches(p)'
      BY <3>1, RequestAndMain DEF Bare, Clean, Matches, NoContainer
    <3>3. w.at = "idle" \/ (w.at = "find" /\ w.p = p /\ w.job = "delete")
      <4>1. req' = req \/ req' = [req EXCEPT ![q] = [Idle EXCEPT !.at = "find", !.job = "delete", !.p = p]]
        BY <1>6, <2>1 DEF DeletePersona
      <4> QED BY <1>1, <4>1 DEF Idle
    <3> QED BY <3>2, <3>3 DEF Working, Building, Removing
  <2>2. CASE RowsOf(p) # {}
    <3>1. UNCHANGED <<persona, req>>
      BY <1>6, <2>2 DEF DeletePersona
    <3> QED BY <1>1, <1>2, <3>1, CleanStays
  <2> QED BY <2>1, <2>2
<1>7. CASE Ensure(q, p)
  <2>1. persona[p] = "on" /\ UNCHANGED persona /\ Clean(p)' /\ (Bare(p)' <=> Bare(p))
    BY <1>1, <1>2, <1>7, CleanStays DEF Ensure, tables
  <2>2. ASSUME RowsOf(p) = {}, req' = [req EXCEPT ![q] = [Idle EXCEPT !.at = "insert", !.job = "ensure", !.p = p]]
        PROVE  Goal
    <3>1. w.at = "insert" /\ w.p = p /\ ~w.again
      BY <1>1, <2>2 DEF Idle
    <3> QED BY <1>3, <2>1, <2>2, <3>1 DEF Working, Unsettling, Building, Removing
  <2>3. ASSUME NEW d \in RowsOf(p),
               req' = [req EXCEPT ![q] = [Copy("ensure",
                 IF ~row[d].linked THEN "release"
                 ELSE IF row[d].status = "running" THEN "inspect" ELSE "restart", d)
                 EXCEPT !.again = row[d].status = "failed"]]
        PROVE  Goal
    <3>1. row[d].linked
      BY <1>2, <2>3 DEF Matches
    <3>2. w.at \in {"inspect", "restart"}
      BY <1>1, <2>3, <3>1 DEF Copy, Idle
    <3> QED BY <2>1, <3>2 DEF Working, Unsettling, Building, Removing
  <2> HIDE DEF Goal
  <2> QED BY <1>7, <2>2, <2>3 DEF Ensure
<1> QED BY <1>4, <1>5, <1>6, <1>7

LEMMA PageSettling ==
  ASSUME OneAtATime, Typed, Names, Serial, Settling, NEW q \in Request, NEW c \in Row,
         PageStart(q, c) \/ PageStop(q, c) \/ PageRemove(q, c)
  PROVE  Settling'
<1> DEFINE p == row[c].owner
           w == req'[q]
<1>0. PICK p0 \in Persona : p0 = p
  BY PageAdmitted
<1>1. /\ Admitted(q, p0) /\ q \in Process /\ \A s \in Process : req[s].at = "idle"
      /\ UNCHANGED <<persona, row, docker>>
  BY <1>0, PageAdmitted DEF Admitted, Admit, Settled, Serial, Process, At, PageStart, PageStop, PageRemove, tables
<1> SUFFICES ASSUME p0 \notin fault
             PROVE  /\ w.at # "idle" => Working(q)'
                    /\ w.at \notin Unsettling => Clean(p0)'
  BY <1>1, AdmittedSettling
<1>2. Clean(p0) /\ Matches(p0) /\ c \in RowsOf(p0)
  BY <1>0, <1>1 DEF Settling, Clean, RowsOf, Unsettling, Building, Removing
<1>3. row[c].linked /\ RowsOf(p0) = {c} /\ docker[p0].id = c
  BY <1>2 DEF Matches
<1>4. PICK step \in {"row_start", "row_stop", "docker_rm"} : w = Copy("page", step, c)
  BY <1>1, <1>3 DEF PageStart, PageStop, PageRemove, Typed
<1>5. w.at = step /\ w.p = p0 /\ w.c = c /\ w.job = "page"
  BY <1>0, <1>4 DEF Copy, Idle
<1>6. Clean(p0)' /\ RowsOf(p0)' = {c} /\ docker'[p0].id = c
  BY <1>1, <1>2, <1>3, CleanStays DEF RowsOf
<1> QED BY <1>5, <1>6 DEF Working, Unsettling, Building, Removing

LEMMA SettlingStep ==
  ASSUME OneAtATime, Typed, Names, Serial, Settling, Reconciling, [Next]_vars
  PROVE  Settling'
<1>0. /\ Main \in Process /\ "idle" \notin Unsettling /\ Idle.at = "idle"
      /\ {"row_start", "row_stop"} \cap Unsettling = {} /\ "insert" \in Unsettling
  BY DEF Process, Idle, Unsettling, Building, Removing
<1>1. ASSUME UNCHANGED <<tables, docker, req, fault>>,
             phase' = "reconcile" => \A t \in todo' :
               /\ t[1] = NoRow
               /\ t[2] \notin fault => Bare(t[2])
               /\ req[Main].at # "idle" => t[2] # req[Main].p
      PROVE  Settling'
  <2>1. ASSUME NEW s \in Process, req'[s].at # "idle", req'[s].p \notin fault'
        PROVE  Working(s)'
    <3>1. Working(s) /\ req[s].p \in Persona
      BY <1>1, <2>1 DEF Settling, Names, At
    <3>2. Alike(req[s].p)
      BY <1>1, <3>1 DEF Alike, tables, RowsOf
    <3> QED BY <1>1, <3>1, <3>2, AlikeWorking
  <2>2. ASSUME NEW x \in Persona \ fault', \A s \in Process : req'[s].p = x => req'[s].at \notin Unsettling
        PROVE  Clean(x)'
    BY <1>1, <2>2, CleanStays DEF tables, Settling
  <2>3. phase' = "reconcile" => \A t \in todo' :
          /\ t[1] = NoRow
          /\ t[2] \notin fault' => Bare(t[2])'
          /\ ~At(Main, "idle")' => t[2] # req'[Main].p
    BY <1>1 DEF At, Bare, RowsOf, tables
  <2> QED BY <2>1, <2>2, <2>3 DEF Settling, At
<1>2. CASE Boot
  BY <1>1, <1>2 DEF Boot
<1>3. CASE Reconcile
  <2>1. /\ \A s \in Process : req[s].at = "idle"
        /\ phase' = "reconcile" /\ todo' = {NoRow} \X Missing
        /\ UNCHANGED <<tables, docker, req, fault>>
    BY <1>3 DEF Reconcile, MainDone, Serial, Process, At
  <2>2. ASSUME NEW t \in todo' PROVE t[1] = NoRow /\ (t[2] \notin fault => Bare(t[2]))
    <3>1. t[1] = NoRow /\ t[2] \in Persona /\ RowsOf(t[2]) = {}
      BY <2>1, <2>2 DEF Missing
    <3>2. t[2] \notin fault => Clean(t[2])
      BY <1>0, <2>1, <3>1 DEF Settling
    <3>3. \A x \in Persona : Clean(x) /\ RowsOf(x) = {} => Bare(x)
      BY CleanIsBare
    <3> QED BY <3>1, <3>2, <3>3
  <2> QED BY <1>0, <1>1, <2>1, <2>2
<1>4. CASE BootDone
  BY <1>1, <1>4 DEF BootDone
<1>5. CASE Exit
  BY <1>1, <1>5 DEF Exit
<1>6. CASE Restart
  <2>1. /\ \A s \in Process : req'[s] = Idle
        /\ UNCHANGED <<persona, row, docker>> /\ phase' = "boot"
        /\ \A x \in Persona \ fault' : x \notin fault /\ \A s \in Process : req[s].p # x
    BY <1>6 DEF Restart, tables
  <2>2. ASSUME NEW x \in Persona \ fault' PROVE Clean(x)'
    BY <2>1, <2>2, CleanStays DEF Settling
  <2> QED BY <1>0, <2>1, <2>2 DEF Settling, At
<1>7. ASSUME NEW from, NEW step, MainNext(from, from, step),
             <<from, step>> \in {<<"start_all", "row_start">>, <<"reconcile", "insert">>, <<"stop_all", "row_stop">>}
      PROVE  Settling'
  <2>1. PICK t \in todo :
          /\ todo' = todo \ {t} /\ t[1] \in Row \cup {NoRow} /\ t[2] \in Persona
          /\ req'[Main].at = step /\ req'[Main].job = from /\ req'[Main].p = t[2]
          /\ req'[Main].n = t[1] /\ req'[Main].c = NoRow /\ req'[Main].again = FALSE
    BY <1>7, MainNextKept
  <2>2. /\ phase = from /\ req[Main].at = "idle" /\ UNCHANGED <<tables, docker, phase, fault>>
        /\ \A s \in Process \ {Main} : req'[s] = req[s]
    BY <1>7, MainNextKept DEF At
  <2>3. \A x \in Persona : Alike(x)
    BY <2>2 DEF Alike, tables, RowsOf
  <2>4. ASSUME NEW s \in Process, req'[s].at # "idle", req'[s].p \notin fault'
        PROVE  Working(s)'
    <3>1. CASE s # Main
      <4>1. req'[s] = req[s] /\ Working(s) /\ req[s].p \in Persona
        BY <2>2, <2>4, <3>1 DEF Settling, Names, At
      <4> QED BY <2>3, <4>1, AlikeWorking
    <3>2. CASE s = Main /\ step # "insert"
      BY <1>7, <2>1, <3>2 DEF Working, Building, Removing
    <3>3. CASE s = Main /\ step = "insert"
      <4>1. phase = "reconcile" /\ t[2] \notin fault
        BY <1>7, <2>1, <2>2, <2>4, <3>3
      <4>2. persona'[t[2]] = "on" /\ Bare(t[2])
        BY <2>2, <4>1 DEF Reconciling, Settling, tables
      <4>3. persona'[t[2]] = "on" /\ Bare(t[2])'
        BY <2>1, <2>3, <4>2, AlikeKeeps
      <4> QED BY <2>1, <3>3, <4>3 DEF Working, Building, Removing
    <3> QED BY <3>1, <3>2, <3>3
  <2>5. ASSUME NEW x \in Persona \ fault', \A s \in Process : req'[s].p = x => req'[s].at \notin Unsettling
        PROVE  Clean(x)'
    <3>1. \A s \in Process : req[s].p = x => req[s].at \notin Unsettling
      BY <1>0, <2>2, <2>5
    <3>2. Clean(x)
      BY <2>2, <2>5, <3>1 DEF Settling
    <3> QED BY <2>3, <3>2, AlikeKeeps
  <2>6. ASSUME phase' = "reconcile", NEW v \in todo'
        PROVE  /\ v[1] = NoRow
               /\ v[2] \notin fault' => Bare(v[2])'
               /\ v[2] # req'[Main].p
    <3>1. phase = "reconcile" /\ v \in todo /\ v # t
      BY <2>1, <2>2, <2>6
    <3>2. v[1] = NoRow /\ t[1] = NoRow /\ (v[2] \notin fault => Bare(v[2]))
      BY <3>1 DEF Settling
    <3>3. v = <<v[1], v[2]>> /\ t = <<t[1], t[2]>> /\ v[2] \in Persona
      BY <3>1 DEF Typed
    <3>4. v[2] # t[2]
      BY <3>1, <3>2, <3>3
    <3> QED BY <2>1, <2>2, <2>3, <3>2, <3>3, <3>4, AlikeKeeps
  <2> QED BY <2>4, <2>5, <2>6 DEF Settling, At
<1>8. ASSUME NEW p \in Persona, ContainerExits(p) \/ RemovedByHand(p) PROVE Settling'
  <2>1. UNCHANGED <<persona, row, req, phase, todo>> /\ fault \subseteq fault'
    BY <1>8 DEF ContainerExits, RemovedByHand, Blame, tables
  <2>2. \A x \in Persona \ fault' : Alike(x)
    <3>1. CASE ContainerExits(p)
      <4>1. docker' = [docker EXCEPT ![p].up = FALSE] /\ docker[p].up
        BY <3>1 DEF ContainerExits
      <4>2. \A x \in Persona : docker[x] \in [id : Row \cup {NoRow}, up : BOOLEAN]
        BY DEF Typed
      <4>3. \A x \in Persona : docker'[x].id = docker[x].id /\ (docker[x] = NoContainer => docker'[x] = NoContainer)
        <5>1. docker'[p].id = docker[p].id /\ docker[p] # NoContainer /\ \A x \in Persona \ {p} : docker'[x] = docker[x]
          BY <4>1, <4>2 DEF Typed, NoContainer
        <5> QED BY <5>1
      <4> QED BY <2>1, <4>3 DEF Alike, RowsOf
    <3>2. CASE RemovedByHand(p)
      <4>1. fault' = fault \cup {p} /\ docker' = [docker EXCEPT ![p] = NoContainer]
        BY <3>2 DEF RemovedByHand, Blame
      <4>2. \A x \in Persona \ {p} : docker'[x] = docker[x]
        BY <4>1 DEF Typed
      <4> QED BY <2>1, <4>1, <4>2 DEF Alike, RowsOf
    <3> QED BY <1>8, <3>1, <3>2
  <2>3. ASSUME NEW s \in Process, req'[s].at # "idle", req'[s].p \notin fault'
        PROVE  Working(s)'
    <3>1. req'[s] = req[s] /\ Working(s) /\ req[s].p \in Persona \ fault'
      BY <2>1, <2>3 DEF Settling, Names, At
    <3> QED BY <2>2, <3>1, AlikeWorking
  <2>4. ASSUME NEW x \in Persona \ fault', \A s \in Process : req'[s].p = x => req'[s].at \notin Unsettling
        PROVE  Clean(x)'
    <3>1. Clean(x)
      BY <2>1, <2>4 DEF Settling
    <3> QED BY <2>2, <3>1, AlikeKeeps
  <2>5. ASSUME phase' = "reconcile", NEW t \in todo'
        PROVE  /\ t[1] = NoRow
               /\ t[2] \notin fault' => Bare(t[2])'
               /\ req'[Main].at # "idle" => t[2] # req'[Main].p
    <3>1. t[2] \in Persona
      BY <2>1, <2>5 DEF Typed
    <3> QED BY <2>1, <2>2, <2>5, <3>1, AlikeKeeps DEF Settling, At
  <2> QED BY <2>3, <2>4, <2>5 DEF Settling, At
<1>9. CASE UNCHANGED vars
  <2>1. UNCHANGED <<tables, docker, req, fault>> /\ UNCHANGED <<phase, todo>>
    BY <1>9 DEF vars
  <2>2. phase' = "reconcile" => \A t \in todo' :
               /\ t[1] = NoRow
               /\ t[2] \notin fault => Bare(t[2])
               /\ req[Main].at # "idle" => t[2] # req[Main].p
    BY <2>1 DEF Settling, At
  <2> QED BY <1>1, <2>1, <2>2
<1> QED
  BY <1>2, <1>3, <1>4, <1>5, <1>6, <1>7, <1>8, <1>9, RequestSettling, PageSettling, HandleSettling DEF Next

-----------------------------------------------------------------------------
(***************************************************************************)
(* The reconciliation at startup.                                          *)
(***************************************************************************)
\* What reconcile still has to see to stays, or gets its row, as long as rows keep
\* their owners and no port is freed.
LEMMA KeepsReconciling ==
  ASSUME Typed, Names, Reconciling, phase = "reconcile",
         UNCHANGED <<persona, alloc, phase, todo>>,
         \A d \in Row : row'[d].owner = row[d].owner,
         \/ req'[Main] = req[Main]
         \/ req[Main].at # "insert" /\ req'[Main].at \notin {"insert", "allocate"}
  PROVE  Reconciling'
<1>1. \A p \in Persona : RowsOf(p)' = RowsOf(p)
  BY DEF RowsOf
<1>2. FreePorts' = FreePorts
  BY DEF FreePorts
<1>3. ASSUME NEW p \in Persona, persona'[p] = "on" PROVE Covered(p)'
  BY <1>1, <1>2, <1>3 DEF Reconciling, Covered, At
<1> QED BY <1>3 DEF Reconciling, At, Exists

LEMMA ReconcileHandle ==
  ASSUME Typed, Names, Serial, Reconciling, phase = "reconcile", Handle(Main)
  PROVE  Reconciling'
<1> DEFINE r == req[Main]
           w == req'[Main]
<1>0. /\ Main \in Process /\ r \in Handler /\ r.p \in Persona /\ r.job = "reconcile" /\ ~r.again
      /\ Kept(Main) /\ UNCHANGED <<phase, todo>>
      /\ r.at \in {"insert", "allocate", "set_port", "docker_create", "link", "docker_start", "mark_running"}
  <2>1. Main \in Process /\ ~At(Main, "idle")
    BY HandleActive DEF Process
  <2>2. Kept(Main)
    BY <2>1, HandleKept
  <2> QED BY <2>1, <2>2 DEF Serial, Names, Typed, Kept, OthersKept, At, Building
<1>g. ASSUME NEW step, Goto(Main, step) PROVE w.at = step
  <2>1. w = [r EXCEPT !.at = step]
    BY <1>0, <1>g, GotoKept
  <2> HIDE DEF r, w
  <2> QED BY <1>0, <2>1 DEF Handler
<1>f. Finish(Main) \/ Failed(Main) => w.at = "idle"
  <2>1. Finish(Main) => w = Idle
    BY <1>0, FinishKept
  <2>2. Failed(Main) => w = Idle
    BY <1>0, FailedKept
  <2> QED BY <2>1, <2>2 DEF Idle
<1>1. CASE InsertRow(Main)
  <2>1. /\ persona[r.p] = "on" /\ UNCHANGED <<persona, alloc>>
    BY <1>1 DEF InsertRow, Reconciling
  <2>2. PICK d \in Row : /\ Fresh(d)
                         /\ row' = [row EXCEPT ![d] = [owner |-> r.p, port |-> NoPort,
                                                       linked |-> FALSE, status |-> "created"]]
                         /\ req' = [req EXCEPT ![Main] = [@ EXCEPT !.at = "allocate", !.n = d]]
    BY <1>1, <2>1 DEF InsertRow
  <2>3. w.at = "allocate" /\ w.n = d
    <3>1. w = [r EXCEPT !.at = "allocate", !.n = d]
      BY <1>0, <2>2 DEF Typed
    <3> HIDE DEF r, w
    <3> QED BY <1>0, <3>1 DEF Handler
  <2>4. row'[d].owner = r.p /\ row[d].owner = NoPersona /\ \A e \in Row \ {d} : row'[e] = row[e]
    BY <2>2 DEF Typed, Fresh, Exists
  <2>5. ASSUME NEW x \in Persona, persona'[x] = "on" PROVE Covered(x)'
    <3>1. RowsOf(x) \subseteq RowsOf(x)' /\ (x = r.p => d \in RowsOf(x)')
      BY <2>4, RequestAndMain DEF RowsOf
    <3>2. FreePorts' = FreePorts
      BY <2>1 DEF FreePorts
    <3>3. Covered(x)
      BY <2>1, <2>5 DEF Reconciling
    <3> QED BY <1>0, <3>1, <3>2, <3>3 DEF Covered
  <2>6. ASSUME NEW k \in Port PROVE alloc'[k] # d
    BY <2>1, <2>2, RequestAndMain DEF Names, Fresh
  <2>7. Exists(d)'
    BY <1>0, <2>4, RequestAndMain DEF Exists
  <2> QED BY <1>0, <2>1, <2>3, <2>5, <2>6, <2>7 DEF Reconciling, At
<1>2. CASE AllocatePort(Main)
  <2>1. /\ r.at = "allocate" /\ r.n \in Row /\ Exists(r.n) /\ \A k \in Port : alloc[k] # r.n
        /\ UNCHANGED <<persona, docker>>
    BY <1>2 DEF AllocatePort, Reconciling, At
  <2>2. CASE FreePorts # {}
    <3>1. PICK k \in FreePorts : /\ req' = [req EXCEPT ![Main] = [@ EXCEPT !.at = "set_port", !.got = k]]
                                 /\ UNCHANGED row
      BY <1>2, <2>1, <2>2 DEF AllocatePort
    <3>2. w.at = "set_port"
      <4>1. w = [r EXCEPT !.at = "set_port", !.got = k]
        BY <1>0, <3>1 DEF Typed
      <4> HIDE DEF r, w
      <4> QED BY <1>0, <4>1 DEF Handler
    <3>3. ASSUME NEW x \in Persona, persona'[x] = "on" PROVE Covered(x)'
      <4>1. RowsOf(x)' = RowsOf(x)
        BY <3>1 DEF RowsOf
      <4>2. Covered(x)
        BY <2>1, <3>3 DEF Reconciling
      <4> QED BY <1>0, <2>1, <2>2, <4>1, <4>2 DEF Covered, At
    <3> QED BY <1>0, <2>1, <3>2, <3>3 DEF Reconciling, At
  <2>3. CASE FreePorts = {}
    <3>1. DeleteRow(r.n) /\ Failed(Main)
      BY <1>2, <2>3 DEF AllocatePort
    <3>2. FreePorts' = {}
      BY <2>1, <2>3, <3>1 DEF FreePorts, DeleteRow
    <3> QED BY <1>0, <1>f, <2>1, <3>1, <3>2 DEF Reconciling, Covered, At
  <2> QED BY <2>2, <2>3
\* The other steps change neither the owners of rows nor the ports.
<1>3. ASSUME \A d \in Row : row'[d].owner = row[d].owner, UNCHANGED <<persona, alloc>>, r.at # "insert",
             w.at \notin {"insert", "allocate"}
      PROVE  Reconciling'
  BY <1>0, <1>3, KeepsReconciling
<1>4. CASE SetPort(Main)
  <2>1. UNCHANGED <<persona, alloc>> /\ w.at = "docker_create" /\ r.at # "insert"
    BY <1>4, <1>g DEF SetPort, At
  <2>2. \A d \in Row : row'[d] = row[d] \/ row'[d] = [row[d] EXCEPT !.port = r.got]
    BY <1>4 DEF SetPort, Typed
  <2>3. ASSUME NEW d \in Row PROVE row'[d].owner = row[d].owner
    <3>1. row[d] \in RowRecord
      BY DEF Typed
    <3>2. [row[d] EXCEPT !.port = r.got].owner = row[d].owner
      BY <3>1, RowUpdate
    <3> QED BY <2>2, <3>2
  <2> QED BY <1>3, <2>1, <2>3
<1>5. CASE CreateContainer(Main)
  BY <1>3, <1>5, <1>g DEF CreateContainer, tables, At
<1>6. CASE CreateFails(Main)
  BY <1>3, <1>6, <1>f DEF CreateFails, tables, At
<1>7. CASE LinkContainer(Main)
  <2>1. UNCHANGED <<persona, alloc>> /\ w.at = "docker_start" /\ r.at # "insert"
    BY <1>7, <1>g DEF LinkContainer, At
  <2>2. \A d \in Row : row'[d] = row[d] \/ row'[d] = [row[d] EXCEPT !.linked = TRUE]
    BY <1>7 DEF LinkContainer, Typed
  <2>3. \A d \in Row : row'[d].owner = row[d].owner
    BY <2>2, RowUpdate DEF Typed
  <2> QED BY <1>3, <2>1, <2>3
<1>8. CASE StartContainer(Main)
  <2>1. UNCHANGED tables /\ w.at = "mark_running" /\ r.at # "insert"
    BY <1>8, <1>g DEF StartContainer
  <2> QED BY <1>3, <2>1 DEF tables
<1>9. CASE StartFails(Main)
  <2>1. UNCHANGED tables /\ r.at = "docker_start"
    BY <1>0, <1>9 DEF StartFails
  <2>2. Failed(Main)
    BY <1>9, <2>1 DEF StartFails, At
  <2> QED BY <1>3, <1>f, <2>1, <2>2 DEF tables
<1>10. CASE MarkRunning(Main)
  <2>1. SetStatus(r.n, "running") /\ w.at = "idle" /\ UNCHANGED <<persona, alloc>> /\ r.at # "insert"
    BY <1>10, <1>f DEF MarkRunning, At
  <2>2. \A d \in Row : row'[d].owner = row[d].owner
    BY <1>0, <2>1, SetStatusKept DEF Status
  <2> QED BY <1>3, <2>1, <2>2
<1> QED
  <2>1. \/ InsertRow(Main) \/ AllocatePort(Main) \/ SetPort(Main) \/ CreateContainer(Main) \/ CreateFails(Main)
        \/ LinkContainer(Main) \/ StartContainer(Main) \/ StartFails(Main) \/ MarkRunning(Main)
    BY <1>0 DEF Handle, At, SavePersona, UndoCreate, RevertEnable, MarkFailed, MarkStopped, Inspect,
       InspectFails, FindToRemove, RemoveContainer, RemoveFails, ReleasePort, DropRow, StopContainer, StopFails
  <2> QED BY <1>1, <1>2, <1>4, <1>5, <1>6, <1>7, <1>8, <1>9, <1>10, <2>1

LEMMA ReconcilingStep ==
  ASSUME OneAtATime, Typed, Names, Serial, Reconciling, [Next]_vars
  PROVE  Reconciling'
<1>0. Main \in Process
  BY DEF Process
<1>1. ASSUME phase' # "reconcile" PROVE Reconciling'
  BY <1>1 DEF Reconciling
<1>2. ASSUME NEW q \in Request, NEW p \in Persona, Admitted(q, p) PROVE phase' # "reconcile"
  BY <1>2 DEF Admitted, Admit, Settled
<1>3. ASSUME NEW q \in Process, Handle(q) PROVE Reconciling'
  <2>1. Kept(q) /\ ~At(q, "idle")
    BY <1>3, HandleKept, HandleActive
  <2>2. CASE phase = "reconcile"
    BY <1>3, <2>1, <2>2, ReconcileHandle DEF Serial, Process
  <2> QED BY <1>1, <2>1, <2>2 DEF Kept, OthersKept
<1>4. CASE Reconcile
  <2>1. /\ todo' = {NoRow} \X Missing /\ UNCHANGED <<persona, row, req>> /\ req[Main].at = "idle"
    BY <1>4 DEF Reconcile, MainDone, At, tables
  <2>2. ASSUME NEW p \in Persona, persona'[p] = "on" PROVE Covered(p)'
    <3>1. CASE p \in Missing
      <4>1. <<NoRow, p>> \in todo'
        BY <2>1, <3>1
      <4> QED BY <4>1 DEF Covered
    <3>2. CASE p \notin Missing
      BY <2>1, <2>2, <3>2 DEF Missing, Covered, RowsOf
    <3> QED BY <3>1, <3>2
  <2>3. \A t \in todo' : persona'[t[2]] = "on"
    BY <2>1 DEF Missing
  <2> QED BY <2>1, <2>2, <2>3 DEF Reconciling, At
<1>5. CASE Boot \/ BootDone \/ Exit \/ Restart
  BY <1>1, <1>5 DEF Boot, BootDone, Exit, Restart
<1>6. ASSUME NEW from, NEW step, MainNext(from, from, step),
             <<from, step>> \in {<<"start_all", "row_start">>, <<"reconcile", "insert">>, <<"stop_all", "row_stop">>}
      PROVE  Reconciling'
  <2>1. PICK t \in todo :
          /\ todo' = todo \ {t} /\ t[1] \in Row \cup {NoRow} /\ t[2] \in Persona
          /\ req'[Main].at = step /\ req'[Main].job = from /\ req'[Main].p = t[2]
          /\ req'[Main].n = t[1] /\ req'[Main].c = NoRow /\ req'[Main].again = FALSE
    BY <1>6, MainNextKept
  <2>2. /\ phase = from /\ req[Main].at = "idle" /\ UNCHANGED <<tables, docker, phase, fault>>
    BY <1>6, MainNextKept DEF At
  <2>3. CASE from = "reconcile"
    <3>1. step = "insert"
      BY <1>6, <2>3
    <3>2. ASSUME NEW p \in Persona, persona'[p] = "on" PROVE Covered(p)'
      <4>1. Covered(p) /\ RowsOf(p)' = RowsOf(p) /\ FreePorts' = FreePorts
        BY <2>2, <2>3, <3>2 DEF Reconciling, RowsOf, FreePorts, tables
      <4> QED BY <2>1, <2>2, <3>1, <4>1 DEF Covered, At
    <3> QED BY <2>1, <2>2, <2>3, <3>1, <3>2 DEF Reconciling, At, tables
  <2> QED BY <1>1, <2>2, <2>3
<1>7. ASSUME UNCHANGED <<tables, req, phase, todo>> PROVE Reconciling'
  BY <1>1, <1>7, KeepsReconciling DEF tables
<1>8. ASSUME NEW p \in Persona, ContainerExits(p) \/ RemovedByHand(p) PROVE Reconciling'
  BY <1>7, <1>8 DEF ContainerExits, RemovedByHand
<1>9. CASE UNCHANGED vars
  BY <1>7, <1>9 DEF vars
<1> QED
  BY <1>1, <1>2, <1>3, <1>4, <1>5, <1>6, <1>8, <1>9, RequestAdmitted, PageAdmitted DEF Next

\* The end of reconcile finds nothing left to see to.
LEMMA ReconcileEnds ==
  ASSUME OneAtATime, Typed, Names, Serial, Reconciling, [Next]_vars
  PROVE  ReconcileStep
<1> SUFFICES ASSUME phase = "reconcile", phase' = "up" PROVE ReconcileStep
  BY DEF ReconcileStep
<1>1. ASSUME NEW q \in Request, NEW p \in Persona, Admitted(q, p) PROVE FALSE
  BY <1>1 DEF Admitted, Admit, Settled
<1>2. ASSUME NEW q \in Process, Handle(q) PROVE FALSE
  BY <1>2, HandleKept DEF Kept, OthersKept
<1>3. ASSUME NEW from, NEW step, MainNext(from, from, step) PROVE FALSE
  BY <1>3, MainNextKept
<1>4. ~Boot /\ ~Reconcile /\ ~Exit /\ ~Restart /\ ~UNCHANGED vars
      /\ \A p \in Persona : ~ContainerExits(p) /\ ~RemovedByHand(p)
  BY DEF Boot, Reconcile, MainDone, Exit, Restart, ContainerExits, RemovedByHand, vars
<1>5. BootDone
  BY <1>1, <1>2, <1>3, <1>4, RequestAdmitted, PageAdmitted DEF Next
<1> QED BY <1>5 DEF BootDone, MainDone, Reconciling, Covered, At, ReconcileStep

-----------------------------------------------------------------------------
(***************************************************************************)
(* Ports.                                                                  *)
(***************************************************************************)
\* Beside the exit, one handler is at work.
LEMMA OneWorks ==
  ASSUME Typed, Serial, NEW q \in Process, req[q].at \notin {"idle", "row_stop", "mark_stopped"},
         NEW s \in Process \ {q}
  PROVE  req[s].at \in {"idle", "row_stop", "mark_stopped"}
<1> SUFFICES ASSUME req[s].at # "idle" PROVE Main = s /\ req[Main].at \in {"row_stop", "mark_stopped"}
  OBVIOUS
<1>1. Main \in {q, s} /\ req[Main].at \in {"row_stop", "mark_stopped"}
  BY TwoHandlers DEF At
<1> QED BY <1>1

\* A step that leaves the ports alone.
LEMMA PortsKept ==
  ASSUME Ports, fault' = {} => fault = {}, NEW q \in Process, UNCHANGED alloc,
         \A d \in Row : row'[d].owner = row[d].owner /\ row'[d].port = row[d].port,
         \A s \in Process \ {q} : req'[s] = req[s],
         \/ req'[q] = req[q]
         \/ /\ req[q].at \notin {"allocate", "set_port", "drop"} /\ req'[q].at # "set_port"
            /\ req'[q].at \in {"docker_rm", "release"} => req'[q].port = row[req'[q].c].port,
         \A s \in Process : req'[s].at \in {"docker_rm", "release"} => req'[s].c \in Row
  PROVE  Ports'
<1> SUFFICES ASSUME fault' = {} PROVE Ports'
  BY DEF Ports
<1>1. ASSUME NEW c \in Row, Exists(c)'
      PROVE  \/ HasPort(c)'
             \/ \E s \in Process : \/ req'[s].n = c /\ req'[s].at \in {"allocate", "set_port"}
                                   \/ req'[s].c = c /\ req'[s].at = "drop"
  <2>1. Exists(c) /\ (HasPort(c) => HasPort(c)')
    BY <1>1 DEF Exists, HasPort
  <2>2. CASE HasPort(c)
    BY <2>1, <2>2
  <2>3. CASE ~HasPort(c)
    <3>1. PICK s \in Process : \/ req[s].n = c /\ req[s].at \in {"allocate", "set_port"}
                               \/ req[s].c = c /\ req[s].at = "drop"
      BY <2>1, <2>3 DEF Ports, At
    <3>2. req'[s] = req[s]
      BY <3>1
    <3> QED BY <3>1, <3>2
  <2> QED BY <2>2, <2>3
<1>2. ASSUME NEW s \in Process, req'[s].at = "set_port"
      PROVE  req'[s].got \in Port /\ alloc'[req'[s].got] = req'[s].n
  <2>1. req'[s] = req[s]
    BY <1>2
  <2> QED BY <1>2, <2>1 DEF Ports, At
<1>3. ASSUME NEW s \in Process, req'[s].at \in {"docker_rm", "release"}
      PROVE  req'[s].port = row'[req'[s].c].port
  <2>1. row'[req'[s].c].port = row[req'[s].c].port
    BY <1>3
  <2>2. CASE req'[s] = req[s]
    BY <1>3, <2>1, <2>2 DEF Ports
  <2>3. CASE req'[s] # req[s]
    BY <1>3, <2>1, <2>3
  <2> QED BY <2>2, <2>3
<1> QED BY <1>1, <1>2, <1>3 DEF Ports, At

LEMMA HandlePorts ==
  ASSUME OneAtATime, Typed, Names, Serial, Settling, Settling', Ports, NEW q \in Process, Handle(q)
  PROVE  Ports'
<1> DEFINE r == req[q]
           w == req'[q]
           Excused(c) == \E s \in Process : \/ req[s].n = c /\ req[s].at \in {"allocate", "set_port"}
                                            \/ req[s].c = c /\ req[s].at = "drop"
           Resting == {"idle", "row_stop", "mark_stopped"}
<1> SUFFICES ASSUME fault' = {} PROVE Ports'
  BY DEF Ports
<1>0. /\ r \in Handler /\ r.at # "idle" /\ Kept(q) /\ r.p \in Persona
      /\ \A s \in Process \ {q} : req'[s] = req[s]
      /\ fault = {}
  BY HandleActive, HandleKept DEF Typed, Names, At, Kept, HandlerKept, OthersKept
<1>w. Working(q)
  BY <1>0 DEF Settling, At
<1>p. /\ \A c \in Row : Exists(c) => HasPort(c) \/ Excused(c)
      /\ r.at = "set_port" => r.got \in Port /\ alloc[r.got] = r.n
      /\ r.at \in {"docker_rm", "release"} => r.port = row[r.c].port
  BY <1>0 DEF Ports, At
<1>s. r.at \notin Resting => \A s \in Process \ {q} : req[s].at \in Resting
  BY OneWorks
<1>g. ASSUME NEW step, Goto(q, step)
      PROVE  w.at = step /\ w.p = r.p /\ w.n = r.n /\ w.c = r.c /\ w.got = r.got /\ w.port = r.port
  <2>1. w = [r EXCEPT !.at = step]
    BY <1>g, GotoKept
  <2> HIDE DEF r, w
  <2> QED BY <1>0, <2>1 DEF Handler
<1>f. Finish(q) => w = Idle
  BY FinishKept
<1>i. Idle.at = "idle"
  BY DEF Idle
\* The ports stay.
<1>k. ASSUME UNCHANGED alloc, \A d \in Row : row'[d].owner = row[d].owner /\ row'[d].port = row[d].port,
             r.at \notin {"allocate", "set_port", "drop"}, w.at # "set_port",
             w.at \in {"docker_rm", "release"} => w.port = row[w.c].port
      PROVE  Ports'
  <2>1. \A s \in Process : req'[s].at \in {"docker_rm", "release"} => req'[s].c \in Row
    <3>1. \A s \in Process : req'[s].at \in {"docker_rm", "release"} => Working(s)'
      BY <1>0 DEF Settling, At
    <3>2. \A s \in Process : req'[s].at \in {"docker_rm", "release"} => RowsOf(req[s].p)' = {req'[s].c}
      BY <3>1 DEF Working, Removing
    <3> QED BY <3>2 DEF RowsOf
  <2> QED BY <1>0, <1>k, <2>1, PortsKept
\* One handler works on a port: it is left to say what becomes of its row.
<1>m. ASSUME r.at \notin Resting,
             \A c \in Row : Exists(c)' => HasPort(c)' \/ (w.n = c /\ w.at \in {"allocate", "set_port"})
                                          \/ (w.c = c /\ w.at = "drop"),
             w.at = "set_port" => w.got \in Port /\ alloc'[w.got] = w.n,
             w.at \notin {"docker_rm", "release"}
      PROVE  Ports'
  <2>1. \A s \in Process \ {q} : req'[s].at \in Resting
    BY <1>0, <1>m, <1>s
  <2> QED BY <1>m, <2>1 DEF Ports, At
<1>e. ASSUME r.at \notin Resting, NEW c \in Row, Excused(c)
      PROVE  (r.n = c /\ r.at \in {"allocate", "set_port"}) \/ (r.c = c /\ r.at = "drop")
  BY <1>e, <1>s
<1>b. ASSUME Blame(r.p) PROVE FALSE
  BY <1>b DEF Blame
<1> HIDE DEF Excused
<1>1. CASE SavePersona(q)
  <2>1. UNCHANGED <<row, alloc>> /\ r.at = "save" /\ w.at \in {"idle", "insert", "find"}
    BY <1>1, <1>g, <1>f, <1>i DEF SavePersona, At
  <2> QED BY <1>k, <2>1
<1>2. CASE UndoCreate(q) \/ RevertEnable(q)
  <2>1. UNCHANGED <<row, alloc>> /\ r.at \in {"undo", "revert"} /\ w.at = "idle"
    BY <1>2, <1>f, <1>i DEF UndoCreate, RevertEnable, At
  <2> QED BY <1>k, <2>1
<1>3. CASE InsertRow(q)
  <2>1. r.at = "insert" /\ persona[r.p] = "on" /\ UNCHANGED alloc
    BY <1>3, <1>w DEF InsertRow, At, Working
  <2>2. PICK d \in Row : /\ Fresh(d)
                         /\ row' = [row EXCEPT ![d] = [owner |-> r.p, port |-> NoPort,
                                                       linked |-> FALSE, status |-> "created"]]
                         /\ req' = [req EXCEPT ![q] = [@ EXCEPT !.at = "allocate", !.n = d]]
    BY <1>3, <2>1 DEF InsertRow
  <2>3. w.at = "allocate" /\ w.n = d
    <3>1. w = [r EXCEPT !.at = "allocate", !.n = d]
      BY <2>2 DEF Typed
    <3> HIDE DEF r, w
    <3> QED BY <1>0, <3>1 DEF Handler
  <2>4. \A c \in Row \ {d} : row'[c] = row[c]
    BY <2>2 DEF Typed
  <2>5. ASSUME NEW c \in Row \ {d}, Exists(c)' PROVE HasPort(c)'
    <3>1. HasPort(c) \/ Excused(c)
      BY <1>p, <2>4, <2>5 DEF Exists
    <3>2. ~Excused(c)
      BY <1>e, <2>1
    <3> QED BY <2>1, <2>4, <3>1, <3>2 DEF HasPort
  <2> QED BY <1>m, <2>1, <2>3, <2>5
<1>4. CASE AllocatePort(q)
  <2>1. r.at = "allocate" /\ RowsOf(r.p) = {r.n} /\ ~r.again
    BY <1>4, <1>w DEF AllocatePort, At, Working, Building
  <2>2. r.n \in Row /\ Exists(r.n)
    BY <1>0, <2>1, OnlyRow
  <2>3. ASSUME NEW c \in Row \ {r.n}, Exists(c) PROVE HasPort(c) /\ alloc[row[c].port] = c
    BY <1>p, <1>e, <2>1, <2>3 DEF HasPort
  <2>4. CASE FreePorts # {}
    <3>1. PICK k \in FreePorts : /\ alloc' = [alloc EXCEPT ![k] = r.n]
                                 /\ req' = [req EXCEPT ![q] = [@ EXCEPT !.at = "set_port", !.got = k]]
                                 /\ UNCHANGED row
      BY <1>4, <2>2, <2>4 DEF AllocatePort
    <3>2. w.at = "set_port" /\ w.got = k /\ w.n = r.n
      <4>1. w = [r EXCEPT !.at = "set_port", !.got = k]
        BY <3>1 DEF Typed
      <4> HIDE DEF r, w
      <4> QED BY <1>0, <4>1 DEF Handler
    <3>3. k \in Port /\ alloc[k] = NoRow /\ alloc'[k] = r.n /\ \A j \in Port \ {k} : alloc'[j] = alloc[j]
      BY <3>1 DEF FreePorts, Typed
    <3>4. ASSUME NEW c \in Row \ {r.n}, Exists(c)' PROVE HasPort(c)'
      BY <2>3, <3>1, <3>3, <3>4, RequestAndMain DEF HasPort, Exists
    <3> QED BY <1>m, <2>1, <3>2, <3>3, <3>4
  <2>5. CASE FreePorts = {}
    <3>1. DeleteRow(r.n) /\ Failed(q)
      BY <1>4, <2>5 DEF AllocatePort
    <3>2. w = Idle \/ w = [r EXCEPT !.at = "undo"] \/ w = [r EXCEPT !.at = "revert"]
      BY <2>1, <3>1, FailedKept
    <3>3. w.at \in {"idle", "undo", "revert"}
      <4> HIDE DEF r, w
      <4> QED BY <1>0, <1>i, <3>2 DEF Handler
    <3>4. ASSUME NEW c \in Row, Exists(c)' PROVE HasPort(c)'
      <4>1. c # r.n /\ row'[c] = row[c] /\ Exists(c)
        BY <3>1, <3>4 DEF DeleteRow, Absent, Exists
      <4> QED BY <2>3, <3>1, <4>1 DEF HasPort, DeleteRow
    <3> QED BY <1>m, <2>1, <3>3, <3>4
  <2> QED BY <2>4, <2>5
<1>5. CASE SetPort(q)
  <2>1. /\ r.at = "set_port" /\ RowsOf(r.p) = {r.n} /\ UNCHANGED alloc /\ w.at = "docker_create"
        /\ r.got \in Port /\ alloc[r.got] = r.n
    BY <1>5, <1>w, <1>g, <1>p DEF SetPort, At, Working, Building
  <2>2. r.n \in Row /\ Exists(r.n) /\ row[r.n] \in RowRecord
    BY <1>0, <2>1, OnlyRow DEF Typed
  <2>3. row' = [row EXCEPT ![r.n].port = r.got]
    BY <1>5, <2>2 DEF SetPort
  <2>4. row'[r.n].port = r.got /\ \A c \in Row \ {r.n} : row'[c] = row[c]
    BY <2>2, <2>3 DEF Typed, RowRecord
  <2>5. ASSUME NEW c \in Row, Exists(c)' PROVE HasPort(c)'
    <3>1. CASE c = r.n
      BY <2>1, <2>4, <3>1 DEF HasPort
    <3>2. CASE c # r.n
      <4>1. HasPort(c) \/ Excused(c)
        BY <1>p, <2>4, <2>5, <3>2 DEF Exists
      <4>2. ~Excused(c)
        BY <1>e, <2>1, <3>2
      <4> QED BY <2>1, <2>4, <3>2, <4>1, <4>2 DEF HasPort
    <3> QED BY <3>1, <3>2
  <2> QED BY <1>m, <2>1, <2>5
<1>6. CASE CreateContainer(q)
  <2>1. UNCHANGED tables /\ r.at = "docker_create" /\ w.at = "link"
    BY <1>6, <1>g DEF CreateContainer, At
  <2> QED BY <1>k, <2>1 DEF tables
<1>7. CASE CreateFails(q) \/ StartFails(q) \/ InspectFails(q) \/ RemoveFails(q) \/ StopFails(q)
  BY <1>7, <1>b DEF CreateFails, StartFails, InspectFails, RemoveFails, StopFails
<1>8. CASE LinkContainer(q)
  <2>1. UNCHANGED alloc /\ r.at = "link" /\ w.at = "docker_start"
    BY <1>8, <1>g DEF LinkContainer, At
  <2>2. \A d \in Row : row'[d] = row[d] \/ row'[d] = [row[d] EXCEPT !.linked = TRUE]
    BY <1>8 DEF LinkContainer, Typed
  <2>3. \A d \in Row : row'[d].owner = row[d].owner /\ row'[d].port = row[d].port
    BY <2>2, RowUpdate DEF Typed
  <2> QED BY <1>k, <2>1, <2>3
<1>9. CASE StartContainer(q)
  <2>1. UNCHANGED tables /\ r.at \in {"docker_start", "restart", "row_start"} /\ w.at = "mark_running"
    BY <1>9, <1>g DEF StartContainer
  <2> QED BY <1>k, <2>1 DEF tables
<1>10. CASE MarkRunning(q) \/ MarkFailed(q) \/ MarkStopped(q)
  <2>1. UNCHANGED alloc /\ r.at \in {"mark_running", "mark_failed", "mark_stopped"} /\ w.at = "idle"
    BY <1>10, <1>f, <1>i DEF MarkRunning, MarkFailed, MarkStopped, At
  <2>2. PICK new \in Status : SetStatus(r.n, new)
    BY <1>10 DEF MarkRunning, MarkFailed, MarkStopped, Status
  <2>3. \A d \in Row : row'[d].owner = row[d].owner /\ row'[d].port = row[d].port
    BY <2>2, SetStatusKept
  <2> QED BY <1>k, <2>1, <2>3
<1>11. CASE Inspect(q)
  <2>1. UNCHANGED tables /\ r.at = "inspect" /\ w.at \in {"idle", "restart"}
    BY <1>11, <1>g, <1>f, <1>i DEF Inspect, At
  <2> QED BY <1>k, <2>1 DEF tables
<1>12. CASE FindToRemove(q)
  <2>1. UNCHANGED tables /\ r.at = "find"
    BY <1>12 DEF FindToRemove, At
  <2>2. w.at = "idle" \/ (w.at \in {"docker_rm", "release"} /\ w.port = row[w.c].port)
    <3>1. CASE Finish(q)
      BY <1>f, <1>i, <3>1
    <3>2. ASSUME NEW d \in RowsOf(r.p),
                 req' = [req EXCEPT ![q] = Copy("disable", IF row[d].linked THEN "docker_rm" ELSE "release", d)]
          PROVE  w.at \in {"docker_rm", "release"} /\ w.port = row[w.c].port
      <4>1. w = Copy("disable", IF row[d].linked THEN "docker_rm" ELSE "release", d)
        BY <3>2 DEF Typed
      <4> QED BY <4>1 DEF Copy, Idle
    <3> QED BY <1>12, <3>1, <3>2 DEF FindToRemove
  <2> QED BY <1>k, <2>1, <2>2 DEF tables
<1>13. CASE RemoveContainer(q)
  <2>1. UNCHANGED tables /\ r.at = "docker_rm" /\ w.at = "release" /\ w.port = row[w.c].port
    BY <1>13, <1>g, <1>p DEF RemoveContainer, At
  <2> QED BY <1>k, <2>1 DEF tables
<1>14. CASE ReleasePort(q)
  <2>1. /\ r.at = "release" /\ RowsOf(r.p) = {r.c} /\ UNCHANGED row /\ w.at = "drop" /\ w.c = r.c
        /\ r.port = row[r.c].port /\ alloc' = [k \in Port |-> IF k = r.port THEN NoRow ELSE alloc[k]]
    BY <1>14, <1>w, <1>g, <1>p DEF ReleasePort, At, Working, Removing
  <2>2. r.c \in Row /\ Exists(r.c)
    BY <1>0, <2>1, OnlyRow
  <2>3. \A c \in Row : Exists(c) => HasPort(c)
    BY <1>p, <1>e, <2>1
  <2>4. ASSUME NEW c \in Row \ {r.c}, Exists(c)' PROVE HasPort(c)'
    <3>1. HasPort(c) /\ HasPort(r.c)
      BY <2>1, <2>2, <2>3, <2>4 DEF Exists
    <3>2. row[c].port # r.port
      BY <2>1, <3>1 DEF HasPort
    <3> QED BY <2>1, <3>1, <3>2 DEF HasPort
  <2> QED BY <1>m, <2>1, <2>4
<1>15. CASE DropRow(q)
  <2>1. r.at = "drop" /\ r.job # "ensure" /\ DeleteRow(r.c)
    BY <1>15, <1>w DEF DropRow, At, Working, Removing
  <2>2. w.at = "idle"
    BY <1>15, <1>f, <1>i, <2>1 DEF DropRow
  <2>3. ASSUME NEW c \in Row, Exists(c)' PROVE HasPort(c)'
    <3>1. c # r.c /\ row'[c] = row[c] /\ Exists(c)
      BY <2>1, <2>3 DEF DeleteRow, Absent, Exists
    <3>2. HasPort(c)
      BY <1>p, <1>e, <2>1, <3>1
    <3> QED BY <2>1, <3>1, <3>2 DEF HasPort, DeleteRow
  <2> QED BY <1>m, <2>1, <2>2, <2>3
<1>16. CASE StopContainer(q)
  <2>1. UNCHANGED tables /\ r.at = "row_stop" /\ w.at = "mark_stopped"
    BY <1>16, <1>g DEF StopContainer, At
  <2> QED BY <1>k, <2>1 DEF tables
<1> QED
  BY <1>1, <1>2, <1>3, <1>4, <1>5, <1>6, <1>7, <1>8, <1>9, <1>10, <1>11, <1>12, <1>13, <1>14, <1>15, <1>16
     DEF Handle

\* What a handler that removes a row has to do with it.
LEMMA RemovesRow ==
  ASSUME Settling, fault = {}, NEW s \in Process, req[s].at \in {"docker_rm", "release"}
  PROVE  req[s].c \in Row
<1>1. Working(s)
  BY DEF Settling, At
<1>2. RowsOf(req[s].p) = {req[s].c}
  BY <1>1 DEF Working, Removing
<1> QED BY <1>2 DEF RowsOf

LEMMA AdmittedPorts ==
  ASSUME OneAtATime, Serial, Ports, NEW q \in Request, NEW p \in Persona, Admitted(q, p),
         /\ req'[q].at # "set_port"
         /\ req'[q].at \in {"docker_rm", "release"} =>
              req'[q].c \in Row /\ req'[q].port = row[req'[q].c].port
  PROVE  Ports'
<1>1. /\ \A s \in Process : req[s].at = "idle"
      /\ q \in Process /\ UNCHANGED <<row, alloc, fault>>
      /\ \A s \in Process \ {q} : req'[s] = req[s]
  BY DEF Admitted, Admit, Settled, Serial, Process, At
<1> QED BY <1>1, PortsKept

LEMMA PortsStep ==
  ASSUME OneAtATime, Typed, Names, Serial, Settling, Settling', Ports, [Next]_vars
  PROVE  Ports'
<1>1. ASSUME NEW q \in Request, NEW p \in Persona,
             CreatePersona(q, p) \/ PutPersona(q, p) \/ DeletePersona(q, p) \/ Ensure(q, p)
      PROVE  Ports'
  <2>0. Admitted(q, p) /\ q \in Process /\ req \in [Process -> Handler] /\ req[q].at = "idle"
    BY <1>1, RequestAdmitted DEF Admitted, Admit, At, Process, Typed
  <2>1. CASE CreatePersona(q, p)
    <3>1. req'[q].at \in {"idle", "insert"}
      BY <2>0, <2>1 DEF CreatePersona, Idle
    <3> QED BY <2>0, <3>1, AdmittedPorts
  <2>2. CASE PutPersona(q, p)
    <3>1. req'[q].at = "save"
      BY <2>0, <2>2 DEF PutPersona, Idle
    <3> QED BY <2>0, <3>1, AdmittedPorts
  <2>3. CASE DeletePersona(q, p)
    <3>1. req'[q].at \in {"idle", "find"}
      BY <2>0, <2>3 DEF DeletePersona, Idle
    <3> QED BY <2>0, <3>1, AdmittedPorts
  <2>4. CASE Ensure(q, p)
    <3>1. ASSUME req' = [req EXCEPT ![q] = [Idle EXCEPT !.at = "insert", !.job = "ensure", !.p = p]]
          PROVE  req'[q].at = "insert"
      BY <2>0, <3>1 DEF Idle
    <3>2. ASSUME NEW d \in RowsOf(p),
                 req' = [req EXCEPT ![q] = [Copy("ensure",
                   IF ~row[d].linked THEN "release"
                   ELSE IF row[d].status = "running" THEN "inspect" ELSE "restart", d)
                   EXCEPT !.again = row[d].status = "failed"]]
          PROVE  /\ req'[q].at \in {"release", "inspect", "restart"}
                 /\ req'[q].c \in Row /\ req'[q].port = row[req'[q].c].port
      BY <2>0, <3>2 DEF Copy, Idle, RowsOf
    <3>3. \/ req'[q].at = "insert"
          \/ /\ req'[q].at \in {"release", "inspect", "restart"}
             /\ req'[q].c \in Row /\ req'[q].port = row[req'[q].c].port
      BY <2>4, <3>1, <3>2 DEF Ensure
    <3> QED BY <2>0, <3>3, AdmittedPorts
  <2> QED BY <1>1, <2>1, <2>2, <2>3, <2>4
<1>2. ASSUME NEW q \in Request, NEW c \in Row, PageStart(q, c) \/ PageStop(q, c) \/ PageRemove(q, c)
      PROVE  Ports'
  <2>0. row[c].owner \in Persona /\ Admitted(q, row[c].owner) /\ q \in Process
    BY <1>2, PageAdmitted DEF Process
  <2>1. PICK step \in {"row_start", "row_stop", "docker_rm", "release"} : req'[q] = Copy("page", step, c)
    BY <1>2, <2>0 DEF PageStart, PageStop, PageRemove, Typed
  <2>2. req'[q].at = step /\ req'[q].c = c /\ req'[q].port = row[c].port
    BY <2>1 DEF Copy, Idle
  <2> QED BY <2>0, <2>2, AdmittedPorts
<1>3. ASSUME NEW q \in Process, Handle(q) PROVE Ports'
  BY <1>3, HandlePorts
<1>4. ASSUME UNCHANGED <<tables, req>>, fault' = {} => fault = {} PROVE Ports'
  BY <1>4 DEF Ports, Exists, HasPort, At, tables
<1>5. CASE Boot \/ Reconcile \/ BootDone \/ Exit \/ UNCHANGED vars
  BY <1>4, <1>5 DEF Boot, Reconcile, BootDone, Exit, vars
<1>6. CASE Restart
  <2> SUFFICES ASSUME fault' = {} PROVE Ports'
    BY DEF Ports
  <2>1. /\ UNCHANGED <<row, alloc>> /\ \A s \in Process : req'[s] = Idle
        /\ fault = {} /\ \A p \in Persona, s \in Process : req[s].p # p
    BY <1>6 DEF Restart, tables
  <2>2. \A s \in Process : req[s].at = "idle"
    BY <2>1 DEF Names, At
  <2>3. \A c \in Row : Exists(c) => HasPort(c)
    BY <2>1, <2>2 DEF Ports, At
  <2> QED BY <2>1, <2>3 DEF Ports, Exists, HasPort, At, Idle
<1>7. ASSUME NEW from, NEW step, MainNext(from, from, step), step \in {"row_start", "insert", "row_stop"}
      PROVE  Ports'
  <2>1. /\ req'[Main].at = step /\ req[Main].at = "idle" /\ UNCHANGED <<tables, fault>> /\ Main \in Process
        /\ \A s \in Process \ {Main} : req'[s] = req[s]
    BY <1>7, MainNextKept DEF At, Process
  <2>2. ASSUME fault = {}, NEW s \in Process, req'[s].at \in {"docker_rm", "release"}
        PROVE  req'[s].c \in Row
    BY <1>7, <2>1, <2>2, RemovesRow
  <2> SUFFICES ASSUME fault = {} PROVE Ports'
    BY <2>1 DEF Ports
  <2> QED BY <1>7, <2>1, <2>2, PortsKept DEF tables
<1>8. ASSUME NEW p \in Persona, ContainerExits(p) \/ RemovedByHand(p) PROVE Ports'
  BY <1>4, <1>8 DEF ContainerExits, RemovedByHand, Blame
<1> QED
  BY <1>1, <1>2, <1>3, <1>5, <1>6, <1>7, <1>8 DEF Next

-----------------------------------------------------------------------------
(***************************************************************************)
(* One request at a time: the invariant, and what it says once nothing is  *)
(* under way.                                                              *)
(***************************************************************************)
Inv == Typed /\ Names /\ Serial /\ Settling /\ Reconciling /\ Ports

LEMMA InitInv ==
  ASSUME Init
  PROVE  Inv
<1>1. Typed /\ Names
  BY InitNames
<1>2. /\ \A q \in Process : req[q] = Idle
      /\ phase = "boot" /\ todo = {} /\ Main \in Process
      /\ \A c \in Row : row[c].owner = NoPersona
      /\ \A p \in Persona : docker[p] = NoContainer
  BY DEF Init, Process, Absent
<1>3. Serial
  BY <1>2 DEF Serial, At, Idle, Process
<1>4. \A p \in Persona : Bare(p)
  BY <1>2, RequestAndMain DEF Bare, RowsOf
<1>5. Settling
  BY <1>2, <1>4, BareIsClean DEF Settling, At, Idle
<1>6. Reconciling
  BY <1>2 DEF Reconciling
<1>7. Ports
  BY <1>2 DEF Ports, Exists, At, Idle
<1> QED BY <1>1, <1>3, <1>5, <1>6, <1>7 DEF Inv

LEMMA InvStep ==
  ASSUME OneAtATime, Inv, [Next]_vars
  PROVE  Inv'
<1>1. Typed'
  BY NextTyped DEF Inv
<1>2. Names'
  BY NamesStep DEF Inv
<1>3. Serial'
  BY SerialStep DEF Inv
<1>4. Settling'
  BY SettlingStep DEF Inv
<1>5. Reconciling'
  BY ReconcilingStep DEF Inv
<1>6. Ports'
  BY <1>4, PortsStep DEF Inv
<1> QED BY <1>1, <1>2, <1>3, <1>4, <1>5, <1>6 DEF Inv

LEMMA SettledIdle ==
  ASSUME Serial, Settled, NEW q \in Process
  PROVE  req[q].at = "idle"
BY DEF Serial, Settled, Process, At

LEMMA SettledClean ==
  ASSUME Serial, Settling, Settled, NEW p \in Persona \ fault
  PROVE  Clean(p)
BY SettledIdle DEF Settling, Unsettling, Building, Removing

LEMMA InvAlways ==
  ASSUME OneAtATime
  PROVE  Spec => []Inv
<1>1. Init => Inv
  BY InitInv
<1>2. OneAtATime /\ Inv /\ [Next]_vars => Inv'
  BY InvStep
<1> QED BY <1>1, <1>2, PTL DEF Spec

\* With one request at a time, whatever was created, refused, undone, stopped,
\* removed or restarted: once nothing is under way, a persona that Docker did not
\* fail has a row exactly for the container of its name.
THEOREM RowsMatchContainers ==
  ASSUME OneAtATime
  PROVE  Spec => []RowMatchesContainer
<1>1. Inv => RowMatchesContainer
  BY SettledClean DEF Inv, RowMatchesContainer, Clean, Matches
<1> QED BY <1>1, InvAlways, PTL

\* And only a persona with memory has a row: one that got no port, or whose memory
\* was disabled, has none.
THEOREM OnlyMemoryHasRows ==
  ASSUME OneAtATime
  PROVE  Spec => []OnlyMemoryHasRow
<1>1. Inv => OnlyMemoryHasRow
  BY SettledClean DEF Inv, OnlyMemoryHasRow, Clean
<1> QED BY <1>1, InvAlways, PTL

\* As long as Docker did not fail, a row holds the port it names, so that no two rows
\* name one port.
THEOREM PortsHeld ==
  ASSUME OneAtATime
  PROVE  Spec => []PortHeld
<1>1. ASSUME Inv PROVE PortHeld
  <2> SUFFICES ASSUME Settled, fault = {}, NEW c \in Row, Exists(c) PROVE HasPort(c)
    BY DEF PortHeld, HasPort
  <2>1. \A q \in Process : req[q].at = "idle"
    BY <1>1, SettledIdle DEF Inv
  <2> QED BY <1>1, <2>1 DEF Inv, Ports, At
<1> QED BY <1>1, InvAlways, PTL

\* Two rows then never share a port.
THEOREM PortsApart ==
  ASSUME OneAtATime
  PROVE  Spec => [](Settled /\ fault = {} => PortsDistinct)
<1>1. PortHeld => (Settled /\ fault = {} => PortsDistinct)
  BY DEF PortHeld, PortsDistinct
<1> QED BY <1>1, PortsHeld, PTL

\* However the application ended before: when startup is over, every persona with
\* memory has its row, unless the ports are used up.
THEOREM ReconcileDone ==
  ASSUME OneAtATime
  PROVE  Spec => ReconcileCompletes
<1>1. OneAtATime /\ Inv /\ [Next]_vars => ReconcileStep
  BY ReconcileEnds DEF Inv
<1>2. OneAtATime /\ Inv /\ [Next]_vars => [ReconcileStep]_vars
  BY <1>1
<1> QED BY <1>2, InvAlways, PTL DEF Spec, ReconcileCompletes
=============================================================================
