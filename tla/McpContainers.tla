---------------------------- MODULE McpContainers ----------------------------
(***************************************************************************)
(* The memory containers of personas: McpContainerManager                  *)
(* (mcp_container_manager.rs), PortAllocator (port_allocator.rs), the      *)
(* tables mcp_containers and port_allocations with their foreign keys      *)
(* (db.rs), the handlers of routes/personas.rs and                         *)
(* routes/mcp_containers.rs that drive them, and the containers as Docker  *)
(* has them.                                                               *)
(*                                                                         *)
(* A process is a request, or Main: the startup task and the exit handler. *)
(* Each database call and each call of Docker is a step of its own.        *)
(***************************************************************************)
EXTENDS Naturals, FiniteSets

CONSTANTS
  Persona, NoPersona,
  Row, NoRow,            \* ids of mcp_containers; Docker ids are named by their row
  FirstPort, LastPort,   \* the range of the allocator, both ends included
  Request, Main,
  MayFail,               \* the calls of Docker that may fail in this instance
  Ends,                  \* how the application may end: "exit", "crash"
  OneAtATime             \* TRUE: one request at a time, none before startup is over

Call == {"inspect", "create", "start", "stop", "remove"}

ASSUME ConstantsOK ==
  /\ NoPersona \notin Persona /\ NoRow \notin Row /\ Main \notin Request
  /\ FirstPort \in Nat \ {0} /\ LastPort \in Nat /\ FirstPort <= LastPort
  /\ MayFail \subseteq Call
  /\ Ends \subseteq {"exit", "crash"} /\ OneAtATime \in BOOLEAN

VARIABLES
  persona,   \* does the persona exist, and is its memory enabled?
  row,       \* mcp_containers
  alloc,     \* port_allocations: the row a port is allocated to
  docker,    \* per persona: the container of its name, and whether it runs
  req,       \* per process: its step and what it has read
  phase,     \* what Main is doing
  todo,      \* what Main still has to see to: rows with their persona
  fault      \* history: personas whose container Docker failed, someone removed
             \* by hand, or whose handler the end of the application cut short

tables == <<persona, row, alloc>>
vars   == <<tables, docker, req, phase, todo, fault>>

Process == Request \cup {Main}
Port    == FirstPort..LastPort
NoPort  == 0    \* the placeholder in a new row

Status == {"created", "running", "stopped", "failed"}

NoContainer == [id |-> NoRow, up |-> FALSE]
Absent      == [owner |-> NoPersona, port |-> NoPort, linked |-> FALSE, status |-> "failed"]

\* n: the row being worked on, got: its port; c, port, linked: the copy of an old
\* row to remove; again: recreate once more when that fails.
Idle == [at |-> "idle", job |-> "none", p |-> NoPersona, mem |-> FALSE,
         n |-> NoRow, got |-> NoPort,
         c |-> NoRow, port |-> NoPort, linked |-> FALSE, again |-> FALSE]

Steps == {"idle", "save", "undo", "revert", "insert", "allocate", "set_port", "docker_create",
          "link", "docker_start", "restart", "row_start", "row_stop", "inspect", "docker_rm",
          "release", "drop", "find", "mark_running", "mark_failed", "mark_stopped"}

Jobs == {"none", "create", "enable", "disable", "edit", "delete", "ensure", "reconcile",
         "page", "start_all", "stop_all"}

TypeOK ==
  /\ persona \in [Persona -> {"absent", "off", "on"}]
  /\ row \in [Row -> [owner : Persona \cup {NoPersona}, port : Port \cup {NoPort},
                      linked : BOOLEAN, status : Status]]
  /\ alloc \in [Port -> Row \cup {NoRow}]
  /\ docker \in [Persona -> [id : Row \cup {NoRow}, up : BOOLEAN]]
  /\ req \in [Process ->
       [at : Steps, job : Jobs, p : Persona \cup {NoPersona}, mem : BOOLEAN,
        n : Row \cup {NoRow}, got : Port \cup {NoPort},
        c : Row \cup {NoRow}, port : Port \cup {NoPort},
        linked : BOOLEAN, again : BOOLEAN]]
  /\ phase \in {"boot", "start_all", "reconcile", "up", "stop_all"}
  /\ todo \subseteq (Row \cup {NoRow}) \X Persona
  /\ fault \subseteq Persona

Init ==
  /\ persona = [p \in Persona |-> "absent"]
  /\ row = [c \in Row |-> Absent]
  /\ alloc = [k \in Port |-> NoRow]
  /\ docker = [p \in Persona |-> NoContainer]
  /\ req = [q \in Process |-> Idle]
  /\ phase = "boot"
  /\ todo = {}
  /\ fault = {}

-----------------------------------------------------------------------------
(***************************************************************************)
(* The tables.                                                             *)
(***************************************************************************)
Exists(c) == row[c].owner # NoPersona

RowsOf(p) == {c \in Row : row[c].owner = p}

\* Mutant: a missing row is given a status of its own.
TypeOfGoneRow(c, new) ==
  row' = [row EXCEPT ![c].status = IF Exists(c) THEN new ELSE "gone"]

SetStatus(c, new) ==
  row' = IF c \in Row /\ Exists(c) THEN [row EXCEPT ![c].status = new] ELSE row

\* ON DELETE CASCADE: the allocations of a row go with it.
DeleteRow(c) ==
  /\ row' = [d \in Row |-> IF d = c THEN Absent ELSE row[d]]
  /\ alloc' = [k \in Port |-> IF alloc[k] = c THEN NoRow ELSE alloc[k]]

FreePorts == {k \in Port : alloc[k] = NoRow}

\* An id nobody holds on to stands for a new one.
Fresh(c) ==
  /\ ~Exists(c)
  /\ \A q \in Process : c \notin {req[q].n, req[q].c}
  /\ \A p \in Persona : docker[p].id # c
  /\ \A t \in todo : t[1] # c

(***************************************************************************)
(* Processes.                                                              *)
(***************************************************************************)
At(q, step) == req[q].at = step

Goto(q, step) == req' = [req EXCEPT ![q].at = step]

Finish(q) == req' = [req EXCEPT ![q] = Idle]

Settled == phase = "up" /\ \A q \in Request : At(q, "idle")

Admit(q) ==
  /\ q \in Request
  /\ At(q, "idle")
  /\ OneAtATime => Settled

\* What find_by_persona_id and the routes return of row c.
Copy(job, step, c) ==
  [Idle EXCEPT !.at = step, !.job = job, !.p = row[c].owner, !.n = c, !.c = c,
               !.port = row[c].port, !.linked = row[c].linked]

Blame(p) == fault' = fault \cup {p}

\* Docker knows the container of row c.
Known(q, c) == c # NoRow /\ docker[req[q].p].id = c

\* A call of Docker fails: it may, or the container is not there.
CallFails(q, call, c) ==
  \/ call \in MayFail
  \/ ~Known(q, c)

-----------------------------------------------------------------------------
(***************************************************************************)
(* Mutants: more slips that the properties below are there to notice.      *)
(***************************************************************************)
\* The page deletes the row of a container and leaves it to Docker.
PageForgetsContainer(q, c) ==
  /\ Admit(q)
  /\ Exists(c)
  /\ req' = [req EXCEPT ![q] = Copy("page", "release", c)]
  /\ UNCHANGED <<tables, docker, phase, todo, fault>>

\* The port is never written to the row.
SetPortSkipped(q) ==
  /\ At(q, "set_port")
  /\ Goto(q, "docker_create")
  /\ UNCHANGED <<tables, docker, phase, todo, fault>>

\* NOT EXISTS turned into EXISTS.
MissingInverted == {p \in Persona : persona[p] = "on" /\ RowsOf(p) # {}}

-----------------------------------------------------------------------------
(***************************************************************************)
(* routes/personas.rs.                                                     *)
(***************************************************************************)
CreatePersona(q, p) ==
  /\ Admit(q)
  /\ persona[p] = "absent"
  /\ \E mem \in BOOLEAN :
       /\ persona' = [persona EXCEPT ![p] = IF mem THEN "on" ELSE "off"]
       /\ req' = IF mem
                 THEN [req EXCEPT ![q] = [Idle EXCEPT !.at = "insert", !.job = "create", !.p = p]]
                 ELSE req
  /\ UNCHANGED <<row, alloc, docker, phase, todo, fault>>

\* update_persona reads the persona, and decides by that what to do afterwards.
PutPersona(q, p) ==
  /\ Admit(q)
  /\ persona[p] # "absent"
  /\ \E mem \in BOOLEAN :
       req' = [req EXCEPT ![q] = [Idle EXCEPT
         !.at = "save", !.p = p, !.mem = mem,
         !.job = IF mem = (persona[p] = "on") THEN "edit"
                 ELSE IF mem THEN "enable" ELSE "disable"]]
  /\ UNCHANGED <<tables, docker, phase, todo, fault>>

SavePersona(q) ==
  /\ At(q, "save")
  /\ LET r == req[q] IN
       IF persona[r.p] = "absent" \/ r.job = "edit"
       THEN Finish(q)
       ELSE Goto(q, IF r.job = "enable" THEN "insert" ELSE "find")
  /\ persona' = [persona EXCEPT ![req[q].p] =
       IF @ = "absent" THEN @ ELSE IF req[q].mem THEN "on" ELSE "off"]
  /\ UNCHANGED <<row, alloc, docker, phase, todo, fault>>

\* The foreign key refuses to delete a persona with a row; remove_container, which
\* comes after, therefore never finds one.
DeletePersona(q, p) ==
  /\ Admit(q)
  /\ persona[p] # "absent"
  /\ IF RowsOf(p) = {}
     THEN /\ persona' = [persona EXCEPT ![p] = "absent"]
          /\ req' = IF persona[p] = "on"
                    THEN [req EXCEPT ![q] = [Idle EXCEPT !.at = "find", !.job = "delete", !.p = p]]
                    ELSE req
     ELSE UNCHANGED <<persona, req>>
  /\ UNCHANGED <<row, alloc, docker, phase, todo, fault>>

(***************************************************************************)
(* When create_container fails, its caller undoes what it did: the new     *)
(* persona is deleted, which a row left behind prevents; memory is         *)
(* disabled again; a session start gives up, or recreates once more; Main  *)
(* goes on.                                                                *)
(***************************************************************************)
Failed(q) ==
  LET r == req[q] IN
    req' = [req EXCEPT ![q] =
      CASE r.job = "create" -> [r EXCEPT !.at = "undo"]
        [] r.job = "enable" -> [r EXCEPT !.at = "revert"]
        [] r.again          -> [r EXCEPT !.at = IF r.linked THEN "docker_rm" ELSE "release",
                                         !.again = FALSE, !.n = NoRow]
        [] OTHER            -> Idle]

UndoCreate(q) ==
  /\ At(q, "undo")
  /\ persona' = [persona EXCEPT ![req[q].p] = IF RowsOf(req[q].p) = {} THEN "absent" ELSE @]
  /\ Finish(q)
  /\ UNCHANGED <<row, alloc, docker, phase, todo, fault>>

RevertEnable(q) ==
  /\ At(q, "revert")
  /\ persona' = [persona EXCEPT ![req[q].p] = IF @ = "absent" THEN @ ELSE "off"]
  /\ Finish(q)
  /\ UNCHANGED <<row, alloc, docker, phase, todo, fault>>

-----------------------------------------------------------------------------
(***************************************************************************)
(* create_container: the row with a placeholder, the port, the port in the *)
(* row, the Docker container under the persona's name, its id in the row,  *)
(* its start, the status.                                                  *)
(***************************************************************************)
InsertRow(q) ==
  /\ At(q, "insert")
  /\ IF persona[req[q].p] = "absent"
     THEN Failed(q) /\ UNCHANGED row
     ELSE \E c \in Row :
            /\ Fresh(c)
            /\ row' = [row EXCEPT ![c] = [owner |-> req[q].p, port |-> NoPort,
                                          linked |-> FALSE, status |-> "created"]]
            /\ req' = [req EXCEPT ![q] = [@ EXCEPT !.at = "allocate", !.n = c]]
  /\ UNCHANGED <<persona, alloc, docker, phase, todo, fault>>

\* Mutant: the row of a container that got no port is left behind.
AllocateKeepsRow(q) ==
  /\ At(q, "allocate")
  /\ LET n == req[q].n IN
       IF FreePorts # {}
       THEN /\ \E k \in FreePorts :
                 /\ \A j \in FreePorts : k <= j
                 /\ alloc' = [alloc EXCEPT ![k] = n]
                 /\ req' = [req EXCEPT ![q] = [@ EXCEPT !.at = "set_port", !.got = k]]
       ELSE Failed(q) /\ UNCHANGED alloc
  /\ UNCHANGED <<persona, row, docker, phase, todo, fault>>

\* The first free port of the range; none, or the row is gone: the row is deleted.
AllocatePort(q) ==
  /\ At(q, "allocate")
  /\ LET n == req[q].n IN
       IF FreePorts # {} /\ Exists(n)
       THEN /\ \E k \in FreePorts :
                 /\ \A j \in FreePorts : k <= j
                 /\ alloc' = [alloc EXCEPT ![k] = n]
                 /\ req' = [req EXCEPT ![q] = [@ EXCEPT !.at = "set_port", !.got = k]]
            /\ UNCHANGED row
       ELSE DeleteRow(n) /\ Failed(q)
  /\ UNCHANGED <<persona, docker, phase, todo, fault>>

SetPort(q) ==
  /\ At(q, "set_port")
  /\ LET n == req[q].n IN
       row' = IF Exists(n) THEN [row EXCEPT ![n].port = req[q].got] ELSE row
  /\ Goto(q, "docker_create")
  /\ UNCHANGED <<persona, alloc, docker, phase, todo, fault>>

\* Docker refuses a second container of the same name.
CreateContainer(q) ==
  /\ At(q, "docker_create")
  /\ docker[req[q].p] = NoContainer
  /\ docker' = [docker EXCEPT ![req[q].p] = [id |-> req[q].n, up |-> FALSE]]
  /\ Goto(q, "link")
  /\ UNCHANGED <<tables, phase, todo, fault>>

CreateFails(q) ==
  /\ At(q, "docker_create")
  /\ "create" \in MayFail \/ docker[req[q].p] # NoContainer
  /\ Failed(q)
  /\ Blame(req[q].p)
  /\ UNCHANGED <<tables, docker, phase, todo>>

LinkContainer(q) ==
  /\ At(q, "link")
  /\ LET n == req[q].n IN
       row' = IF Exists(n) THEN [row EXCEPT ![n].linked = TRUE] ELSE row
  /\ Goto(q, "docker_start")
  /\ UNCHANGED <<persona, alloc, docker, phase, todo, fault>>

(***************************************************************************)
(* A container is started: as the end of its creation, by the restart of a *)
(* session start, by its page, and for every row at startup.  The four     *)
(* differ in what follows a failure.                                       *)
(***************************************************************************)
StartContainer(q) ==
  /\ req[q].at \in {"docker_start", "restart", "row_start"}
  /\ Known(q, req[q].n)
  /\ docker' = [docker EXCEPT ![req[q].p].up = TRUE]
  /\ Goto(q, "mark_running")
  /\ UNCHANGED <<tables, phase, todo, fault>>

StartFails(q) ==
  /\ req[q].at \in {"docker_start", "restart", "row_start"}
  /\ CallFails(q, "start", req[q].n)
  /\ CASE At(q, "docker_start") -> Failed(q)
       [] At(q, "restart")      -> Goto(q, "docker_rm")
       [] At(q, "row_start")    -> Goto(q, "mark_failed")
  /\ Blame(req[q].p)
  /\ UNCHANGED <<tables, docker, phase, todo>>

MarkRunning(q) ==
  /\ At(q, "mark_running")
  /\ SetStatus(req[q].n, "running")
  /\ Finish(q)
  /\ UNCHANGED <<persona, alloc, docker, phase, todo, fault>>

MarkFailed(q) ==
  /\ At(q, "mark_failed")
  /\ SetStatus(req[q].n, "failed")
  /\ Finish(q)
  /\ UNCHANGED <<persona, alloc, docker, phase, todo, fault>>

MarkStopped(q) ==
  /\ At(q, "mark_stopped")
  /\ SetStatus(req[q].n, "stopped")
  /\ Finish(q)
  /\ UNCHANGED <<persona, alloc, docker, phase, todo, fault>>

-----------------------------------------------------------------------------
(***************************************************************************)
(* ensure_container_running, at the start of a session of a persona with   *)
(* memory: a container that runs is used, one that does not is restarted,  *)
(* and one that cannot be restarted is recreated; when its row said        *)
(* failed, a failed recreation is tried a second time from the same copy.  *)
(***************************************************************************)
Ensure(q, p) ==
  /\ Admit(q)
  /\ persona[p] = "on"
  /\ \/ /\ RowsOf(p) = {}
        /\ req' = [req EXCEPT ![q] = [Idle EXCEPT !.at = "insert", !.job = "ensure", !.p = p]]
     \/ \E c \in RowsOf(p) :
          req' = [req EXCEPT ![q] = [Copy("ensure",
            IF ~row[c].linked THEN "release"
            ELSE IF row[c].status = "running" THEN "inspect" ELSE "restart", c)
            EXCEPT !.again = row[c].status = "failed"]]
  /\ UNCHANGED <<tables, docker, phase, todo, fault>>

Inspect(q) ==
  /\ At(q, "inspect")
  /\ Known(q, req[q].c)
  /\ IF docker[req[q].p].up THEN Finish(q) ELSE Goto(q, "restart")
  /\ UNCHANGED <<tables, docker, phase, todo, fault>>

InspectFails(q) ==
  /\ At(q, "inspect")
  /\ CallFails(q, "inspect", req[q].c)
  /\ Goto(q, "docker_rm")
  /\ Blame(req[q].p)
  /\ UNCHANGED <<tables, docker, phase, todo>>

(***************************************************************************)
(* Removal: the Docker container is stopped and removed by force, the port *)
(* is released by its number, the row deleted.  Recreation and the page go *)
(* on after an error of Docker; remove_container, when memory is disabled, *)
(* gives up.                                                               *)
(***************************************************************************)
FindToRemove(q) ==
  /\ At(q, "find")
  /\ \/ RowsOf(req[q].p) = {} /\ Finish(q)
     \/ \E c \in RowsOf(req[q].p) :
          req' = [req EXCEPT ![q] =
            Copy("disable", IF row[c].linked THEN "docker_rm" ELSE "release", c)]
  /\ UNCHANGED <<tables, docker, phase, todo, fault>>

RemoveContainer(q) ==
  /\ At(q, "docker_rm")
  /\ Known(q, req[q].c)
  /\ docker' = [docker EXCEPT ![req[q].p] = NoContainer]
  /\ Goto(q, "release")
  /\ UNCHANGED <<tables, phase, todo, fault>>

RemoveFails(q) ==
  /\ At(q, "docker_rm")
  /\ CallFails(q, "remove", req[q].c)
  /\ \/ UNCHANGED docker
     \/ Known(q, req[q].c) /\ docker' = [docker EXCEPT ![req[q].p].up = FALSE]
  /\ IF req[q].job = "disable" THEN Finish(q) ELSE Goto(q, "release")
  /\ Blame(req[q].p)
  /\ UNCHANGED <<tables, phase, todo>>

ReleasePort(q) ==
  /\ At(q, "release")
  /\ alloc' = [k \in Port |-> IF k = req[q].port THEN NoRow ELSE alloc[k]]
  /\ Goto(q, "drop")
  /\ UNCHANGED <<persona, row, docker, phase, todo, fault>>

DropRow(q) ==
  /\ At(q, "drop")
  /\ DeleteRow(req[q].c)
  /\ IF req[q].job = "ensure" THEN Goto(q, "insert") ELSE Finish(q)
  /\ UNCHANGED <<persona, docker, phase, todo, fault>>

(***************************************************************************)
(* routes/mcp_containers.rs, for a row with a Docker id; without one start *)
(* and stop return an error.  A container that already runs is left alone, *)
(* and so is the status of its row.                                        *)
(***************************************************************************)
PageStart(q, c) ==
  /\ Admit(q)
  /\ Exists(c) /\ row[c].linked
  /\ LET p == row[c].owner IN
       docker[p] # [id |-> c, up |-> TRUE] \/ "inspect" \in MayFail
  /\ req' = [req EXCEPT ![q] = Copy("page", "row_start", c)]
  /\ UNCHANGED <<tables, docker, phase, todo, fault>>

PageStop(q, c) ==
  /\ Admit(q)
  /\ Exists(c) /\ row[c].linked
  /\ row[c].status # "stopped"
  /\ req' = [req EXCEPT ![q] = Copy("page", "row_stop", c)]
  /\ UNCHANGED <<tables, docker, phase, todo, fault>>

PageRemove(q, c) ==
  /\ Admit(q)
  /\ Exists(c)
  /\ req' = [req EXCEPT ![q] =
       Copy("page", IF row[c].linked THEN "docker_rm" ELSE "release", c)]
  /\ UNCHANGED <<tables, docker, phase, todo, fault>>

StopContainer(q) ==
  /\ At(q, "row_stop")
  /\ Known(q, req[q].n)
  /\ docker' = [docker EXCEPT ![req[q].p].up = FALSE]
  /\ Goto(q, "mark_stopped")
  /\ UNCHANGED <<tables, phase, todo, fault>>

StopFails(q) ==
  /\ At(q, "row_stop")
  /\ CallFails(q, "stop", req[q].n)
  /\ IF req[q].job = "stop_all" THEN Finish(q) ELSE Goto(q, "mark_failed")
  /\ Blame(req[q].p)
  /\ UNCHANGED <<tables, docker, phase, todo>>

-----------------------------------------------------------------------------
(***************************************************************************)
(* Main: start_all and reconcile after the start, stop_all at the exit.    *)
(***************************************************************************)
LinkedRows == {t \in Row \X Persona : row[t[1]].owner = t[2] /\ row[t[1]].linked}

Boot ==
  /\ phase = "boot"
  /\ phase' = "start_all"
  /\ todo' = LinkedRows
  /\ UNCHANGED <<tables, docker, req, fault>>

\* One container after the other; a failure does not end the loop.
MainNext(from, job, step) ==
  /\ phase = from
  /\ At(Main, "idle")
  /\ \E t \in todo :
       /\ todo' = todo \ {t}
       /\ req' = [req EXCEPT ![Main] = [Idle EXCEPT
            !.at = step, !.job = job, !.p = t[2], !.n = t[1]]]
  /\ UNCHANGED <<tables, docker, phase, fault>>

MainDone(from) == phase = from /\ At(Main, "idle") /\ todo = {}

\* The personas with memory and without a row.
Missing == {p \in Persona : persona[p] = "on" /\ RowsOf(p) = {}}

Reconcile ==
  /\ MainDone("start_all")
  /\ phase' = "reconcile"
  /\ todo' = {NoRow} \X Missing
  /\ UNCHANGED <<tables, docker, req, fault>>

BootDone ==
  /\ MainDone("reconcile")
  /\ phase' = "up"
  /\ UNCHANGED <<tables, docker, req, todo, fault>>

\* The window is closed, whatever requests are under way.
Exit ==
  /\ "exit" \in Ends
  /\ phase = "up"
  /\ phase' = "stop_all"
  /\ todo' = {t \in LinkedRows : row[t[1]].status = "running"}
  /\ UNCHANGED <<tables, docker, req, fault>>

\* The process ends, after stop_all or without it, and is started again.
Restart ==
  /\ MainDone("stop_all") \/ "crash" \in Ends
  /\ phase' = "boot"
  /\ todo' = {}
  /\ req' = [q \in Process |-> Idle]
  /\ fault' = fault \cup {p \in Persona : \E q \in Process : req[q].p = p}
  /\ UNCHANGED <<tables, docker>>

-----------------------------------------------------------------------------
\* A container exits by itself; someone removes one by hand, or as an unmanaged
\* container on the page.
ContainerExits(p) ==
  /\ docker[p].up
  /\ docker' = [docker EXCEPT ![p].up = FALSE]
  /\ UNCHANGED <<tables, req, phase, todo, fault>>

RemovedByHand(p) ==
  /\ "remove" \in MayFail
  /\ docker[p] # NoContainer
  /\ docker' = [docker EXCEPT ![p] = NoContainer]
  /\ Blame(p)
  /\ UNCHANGED <<tables, req, phase, todo>>

Handle(q) ==
  \/ SavePersona(q) \/ UndoCreate(q) \/ RevertEnable(q)
  \/ InsertRow(q) \/ AllocatePort(q) \/ SetPort(q)
  \/ CreateContainer(q) \/ CreateFails(q) \/ LinkContainer(q)
  \/ StartContainer(q) \/ StartFails(q)
  \/ MarkRunning(q) \/ MarkFailed(q) \/ MarkStopped(q)
  \/ Inspect(q) \/ InspectFails(q)
  \/ FindToRemove(q) \/ RemoveContainer(q) \/ RemoveFails(q)
  \/ ReleasePort(q) \/ DropRow(q)
  \/ StopContainer(q) \/ StopFails(q)

Next ==
  \/ \E q \in Request, p \in Persona :
       CreatePersona(q, p) \/ PutPersona(q, p) \/ DeletePersona(q, p) \/ Ensure(q, p)
  \/ \E q \in Request, c \in Row : PageStart(q, c) \/ PageStop(q, c) \/ PageRemove(q, c)
  \/ \E q \in Process : Handle(q)
  \/ Boot \/ Reconcile \/ BootDone \/ Exit \/ Restart
  \/ MainNext("start_all", "start_all", "row_start")
  \/ MainNext("reconcile", "reconcile", "insert")
  \/ MainNext("stop_all", "stop_all", "row_stop")
  \/ \E p \in Persona : ContainerExits(p) \/ RemovedByHand(p)

Spec == Init /\ [][Next]_vars

-----------------------------------------------------------------------------
(***************************************************************************)
(* Properties when requests come one at a time.                            *)
(***************************************************************************)
\* With nothing under way, a persona has a row exactly for the container Docker has
\* under its name: neither is left behind, whatever was created, refused, undone,
\* stopped, removed or restarted in between.
RowMatchesContainer ==
  Settled => \A p \in Persona \ fault :
    RowsOf(p) = {docker[p].id} \ {NoRow} /\ \A c \in RowsOf(p) : row[c].linked

\* With nothing under way, only personas with memory have a row: one whose container
\* could not be created for want of a port has none.
OnlyMemoryHasRow ==
  Settled => \A p \in Persona \ fault : persona[p] # "on" => RowsOf(p) = {}

\* With nothing under way and Docker at work, a row holds its port.
PortHeld ==
  Settled /\ fault = {} => \A c \in Row :
    Exists(c) => row[c].port \in Port /\ alloc[row[c].port] = c

\* When startup is over, every persona with memory has a row again, wherever the
\* application ended before, unless the ports are used up.
ReconcileStep ==
  phase = "reconcile" /\ phase' = "up" =>
    \A p \in Persona : persona[p] = "on" => RowsOf(p) # {} \/ FreePorts = {}

ReconcileCompletes == [][ReconcileStep]_vars

\* port_allocator.rs: allocations are persisted "to prevent conflicts".
PortsDistinct ==
  \A c, d \in Row : Exists(c) /\ Exists(d) /\ row[c].port = row[d].port /\ row[c].port # NoPort
    => c = d

=============================================================================
