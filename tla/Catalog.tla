------------------------------- MODULE Catalog -------------------------------
(***************************************************************************)
(* The database from its creation on: migrations and built-in agents at    *)
(* every start (db.rs, server.rs, agent_manager.rs), the personas, agent   *)
(* types and MCP servers that requests change (persona_manager.rs,         *)
(* agent_manager.rs), and the export and import of all of it               *)
(* (export_import_manager.rs).  A step is one closure run under the        *)
(* connection's lock; what a request read in an earlier closure may be     *)
(* stale.  The application may end between any two statements.             *)
(***************************************************************************)
EXTENDS Tables, FiniteSets

CONSTANTS
  Slot,         \* requests that may be under way together
  Place,        \* paths of directories, as they were typed
  Parsed,       \* what PathBuf compares of a path: no final or doubled slash counts
  Canonical,    \* the path of the directory a path leads to
  PersonaNames, \* a sequence: list_personas orders by name
  CustomNames,  \* names users give to their agent types
  Releases,     \* a sequence: each release's built-in agents and migrations
  Established,  \* databases a behaviour may start with, beside a new one
  ForeignFiles, \* export files of other installations
  CreateForms, UpdateForms, ImportForms,  \* what requests carry
  Keep,         \* a field the request leaves out
  NoFile, NoRequest,
  Menu,         \* the sets of operations, and of events around them, of a behaviour
  MaxRequests, MaxExits

PersonaName == {PersonaNames[i] : i \in DOMAIN PersonaNames}

\* What the columns of tables T hold; the ids are those given out before next.
Column == [agents |-> {"id", "name", "builtin"}, personas |-> {"id", "name", "agent", "ws"},
           servers |-> {"id", "persona", "name"}, mounts |-> {"persona", "path", "position"},
           sessions |-> {"id", "persona", "active"}, containers |-> {"persona"},
           repos |-> {"persona", "ws"}]
WellFormed(d, T, next) ==
  /\ DOMAIN d = T
  /\ \A t \in T : IsFiniteSet(d[t]) /\ \A row \in d[t] : DOMAIN row = Column[t]
  /\ \A t \in T \cap {"agents", "personas", "servers", "sessions"} :
       \A row \in d[t] : row.id \in Nat \ {0} /\ row.id < next
  /\ \A p \in d.personas : p.name \in PersonaName /\ p.ws \in Place
  /\ \A m \in d.mounts : m.position \in Nat

\* No persona mounts its own workspace a second time, under whichever path.
MountsApart(d) ==
  \A m \in d.mounts, p \in d.personas : m.persona = p.id => m.path # Canonical[p.ws]
PersonasApart(d) == \A p, q \in d.personas : p.ws = q.ws => p = q
HasBuiltins(d, names) ==
  \A i \in DOMAIN names : \E a \in d.agents : a.name = names[i] /\ a.builtin

\* ExportPayload: sessions and memory containers' tokens stay behind.
Exported == {"agents", "personas", "servers", "mounts", "repos"}
FirstId == 30   \* ids of the databases and files of the start are below

ASSUME ReleasesAssumption ==
  /\ Releases \in Seq([builtins : Seq(STRING), statements : Seq(Nat \ {0})])
  /\ Releases # <<>>
  /\ \A i \in DOMAIN Releases : \A j \in 1..i :
       Len(Releases[j].statements) <= Len(Releases[i].statements)
ASSUME PlaceAssumption ==
  /\ DOMAIN Parsed = Place /\ Canonical \in [Place -> Place]
  /\ \A p \in Place : Canonical[Canonical[p]] = Canonical[p]
  /\ \A p, q \in Place : Parsed[p] = Parsed[q] => Canonical[p] = Canonical[q]
ASSUME NoRequestAssumption == NoRequest \notin Slot
ASSUME EstablishedAssumption ==
  \A d \in Established :
    /\ WellFormed(d, Table, FirstId) /\ Consistent(d)
    /\ MountsApart(d) /\ PersonasApart(d)
    /\ HasBuiltins(d, Releases[Len(Releases)].builtins)
ASSUME ForeignAssumption ==
  NoFile \notin ForeignFiles
  /\ \A f \in ForeignFiles : WellFormed(f, Exported, FirstId)
ASSUME FormsAssumption ==
  /\ PersonaNames \in Seq(STRING) /\ Keep \notin Place \cup PersonaName
  /\ \A form \in CreateForms :
       /\ form.name \in PersonaName /\ form.ws \in Place
       /\ form.servers \in Seq(STRING) /\ form.mounts \in Seq(Place)
  /\ \A form \in UpdateForms :
       /\ form.name \in PersonaName \cup {Keep} /\ form.ws \in Place \cup {Keep}
       /\ form.agent = Keep \/ form.agent \in Nat
       /\ form.servers = Keep \/ form.servers \in Seq(STRING)
       /\ form.mounts = Keep \/ form.mounts \in Seq(Place)
  /\ \A form \in ImportForms : form.name \in PersonaName

VARIABLES
  menu,     \* the operations of this behaviour
  release,  \* the installed release
  phase,    \* what the application is doing
  schema,   \* [version, ahead, mine]: the migration recorded last, statements of
            \* the next one that took effect, and those this process executed
  db,       \* the tables
  lock,     \* the request in the middle of its closure
  req,      \* requests under way
  file,     \* the export file the user holds
  fresh,    \* the next UUID
  count, exits,
  marks     \* history: what the properties must know of the past

catalogVars == <<menu, release, phase, schema, db, lock, req, file, fresh, count, exits, marks>>
startup == <<menu, release, phase, schema>>

\* The rows of S by the numbers in column c.
InOrder(S, c) ==
  CHOOSE f \in [1..Cardinality(S) -> S] :
    /\ \A x \in S : \E i \in DOMAIN f : f[i] = x
    /\ \A i, j \in DOMAIN f : i < j => f[i][c] <= f[j][c]

\* They are inserted in that order.
InsertAll(t, S, c) ==
  LET rows == InOrder(S, c) IN [i \in 1..Cardinality(S) |-> Inserts(t, rows[i])]

Idle == [at |-> "idle"]
Rows(t, column, value) == {r \in db[t] : r[column] = value}
RowOf(t, id) == CHOOSE r \in db[t] : r.id = id
HasRow(t, id) == \E r \in db[t] : r.id = id

---------------------------------------------------------------------------
Payload == [t \in Exported |-> db[t]]

CatalogInit ==
  /\ menu \in Menu
  /\ IF "install" \in menu
     THEN /\ release = 1 /\ phase = "down" /\ db = EmptyDb
          /\ schema = [version |-> 0, ahead |-> 0, mine |-> 0]
     ELSE /\ release = Len(Releases) /\ phase = "up" /\ db \in Established
          /\ schema = [version |-> Len(Releases[release].statements), ahead |-> 0, mine |-> 0]
  /\ lock = NoRequest
  /\ req = [r \in Slot |-> Idle]
  /\ file \in (IF "foreign" \in menu THEN ForeignFiles
               ELSE IF "import" \in menu THEN {Payload} ELSE {NoFile})
  /\ fresh = FirstId /\ count = 0 /\ exits = 0
  /\ marks = {}

---------------------------------------------------------------------------
(* Starting, ending, upgrading *)

Open ==
  /\ phase = "down"
  /\ phase' = "migrating"
  /\ schema' = [schema EXCEPT !.mine = 0]
  /\ UNCHANGED <<menu, release, db, lock, req, file, fresh, count, exits, marks>>

Statements == Releases[release].statements
Pending == schema.version < Len(Statements)

\* execute_batch runs statement by statement.  CREATE TABLE of a table that an
\* earlier process created is an error, and the server does not start.
Migrate ==
  /\ phase = "migrating" /\ Pending
  /\ schema.mine < Statements[schema.version + 1]
  /\ IF schema.ahead > schema.mine
     THEN phase' = "failed" /\ UNCHANGED schema
     ELSE schema' = [schema EXCEPT !.ahead = @ + 1, !.mine = @ + 1] /\ UNCHANGED phase
  /\ UNCHANGED <<menu, release, db, lock, req, file, fresh, count, exits, marks>>

\* Mutant: the row carries the version before.
RecordVersion_Before ==
  /\ phase = "migrating" /\ Pending
  /\ schema.mine = Statements[schema.version + 1]
  /\ schema' = [schema EXCEPT !.mine = 0]
  /\ UNCHANGED <<menu, release, phase, db, lock, req, file, fresh, count, exits, marks>>

RecordVersion ==
  /\ phase = "migrating" /\ Pending
  /\ schema.mine = Statements[schema.version + 1]
  /\ schema' = [version |-> schema.version + 1, ahead |-> 0, mine |-> 0]
  /\ UNCHANGED <<menu, release, phase, db, lock, req, file, fresh, count, exits, marks>>

Migrated ==
  /\ phase = "migrating" /\ ~Pending
  /\ phase' = "seeding"
  /\ UNCHANGED <<menu, release, schema, db, lock, req, file, fresh, count, exits, marks>>

\* Built-in agents that are there get the release's metadata; the others are
\* inserted, with ids of this installation.
IsBuiltin(name) == \E a \in db.agents : a.name = name /\ a.builtin
Builtins == Releases[release].builtins
SeedBlock ==
  LET missing == {i \in DOMAIN Builtins : ~IsBuiltin(Builtins[i])}
  IN  InsertAll("agents", {[id |-> fresh + i, name |-> Builtins[i], builtin |-> TRUE] :
                             i \in missing}, "id")

\* start_server prints a failed seeding and goes on.
Seed ==
  /\ phase = "seeding"
  /\ LET after == Run(db, SeedBlock)
     IN  /\ db' = after.db
         /\ marks' = IF after.ok THEN marks \ {"name_taken"} ELSE marks \cup {"name_taken"}
  /\ fresh' = fresh + Len(Builtins) + 1
  /\ phase' = "up"
  /\ UNCHANGED <<menu, release, schema, lock, req, file, count, exits>>

Ended ==
  /\ exits < MaxExits /\ exits' = exits + 1
  /\ phase' = "down"
  /\ lock' = NoRequest
  /\ req' = [r \in Slot |-> Idle]
  /\ UNCHANGED <<menu, release, schema, file, count>>

Exit ==
  /\ "exit" \in menu /\ phase # "down"
  /\ Ended
  /\ marks' = IF phase = "migrating" /\ schema.ahead > 0
              THEN marks \cup {"torn_migration"} ELSE marks
  /\ UNCHANGED <<db, fresh>>

Upgrade ==
  /\ "upgrade" \in menu /\ phase = "down" /\ release < Len(Releases)
  /\ release' = release + 1
  /\ UNCHANGED <<menu, phase, schema, db, lock, req, file, fresh, count, exits, marks>>

---------------------------------------------------------------------------
(* Requests: a slot takes one, and gives it up with the last step *)

Start(r, op, request) ==
  /\ phase = "up" /\ op \in menu
  /\ req[r] = Idle /\ count < MaxRequests
  /\ count' = count + 1
  /\ req' = [req EXCEPT ![r] = request]
  /\ UNCHANGED <<startup, db, lock, file, fresh, exits, marks>>

At(r, step) == phase = "up" /\ req[r].at = step /\ lock \in {NoRequest, r}

\* The closure of request r: its statements take effect, as far as they do.
Closure(r, stmts) ==
  /\ db' = Run(db, stmts).db
  /\ fresh' = fresh + Len(stmts)
  /\ UNCHANGED <<startup, file, count, exits>>

GoTo(r, request) == req' = [req EXCEPT ![r] = request] /\ UNCHANGED lock
\* Mutant: a request that fails inside its loop keeps the connection.
Finish_Locked(r) == req' = [req EXCEPT ![r] = Idle] /\ UNCHANGED lock
Finish(r) == req' = [req EXCEPT ![r] = Idle] /\ lock' = NoRequest

InsertServers(p, names) ==
  [i \in 1..Len(names) |-> Inserts("servers", [id |-> fresh + i, persona |-> p, name |-> names[i]])]
InsertMounts(p, paths) ==
  [i \in 1..Len(paths) |->
     Inserts("mounts", [persona |-> p, path |-> Canonical[paths[i]], position |-> i - 1])]

\* validate_additional_workspaces: the directories are compared, and the
\* canonical paths are what is stored.
MountsAllowed(paths, primary) ==
  /\ \A i \in DOMAIN paths : Canonical[paths[i]] # Canonical[primary]
  /\ \A i, j \in DOMAIN paths : Canonical[paths[i]] = Canonical[paths[j]] => i = j

NameTaken(t, name, id) == \E r \in db[t] : r.name = name /\ r.id # id
\* workspace_path = ?1: the texts are compared.
WorkspaceTaken(ws, id) == \E p \in db.personas : p.ws = ws /\ p.id # id

(* persona_manager.rs *)

StartCreate(r) ==
  \E form \in CreateForms, a \in db.agents :
    /\ MountsAllowed(form.mounts, form.ws)
    /\ Start(r, "create", [at |-> "create", form |-> form, agent |-> a.id])

CreateBlock(r) ==
  LET form == req[r].form
  IN  IF NameTaken("personas", form.name, 0) \/ WorkspaceTaken(form.ws, 0)
         \/ ~HasRow("agents", req[r].agent)
      THEN <<>>
      ELSE <<Inserts("personas", [id |-> fresh, name |-> form.name,
                                  agent |-> req[r].agent, ws |-> form.ws])>>
           \o InsertServers(fresh, form.servers) \o InsertMounts(fresh, form.mounts)

Create(r) ==
  /\ At(r, "create")
  /\ Closure(r, CreateBlock(r))
  /\ Finish(r) /\ UNCHANGED marks

StartUpdate(r) ==
  \E form \in UpdateForms, p \in db.personas :
    Start(r, "update", [at |-> "read", form |-> form, persona |-> p.id])

\* get: what it returns fills in the fields the request leaves out.  The count
\* of active sessions, which follows, only words the answer.
ReadPersona(r) ==
  /\ At(r, "read")
  /\ IF ~HasRow("personas", req[r].persona) THEN Finish(r)
     ELSE LET saw == RowOf("personas", req[r].persona)
              form == req[r].form
              ws == IF form.ws = Keep THEN saw.ws ELSE form.ws
          IN  IF form.mounts # Keep /\ ~MountsAllowed(form.mounts, ws) THEN Finish(r)
              ELSE GoTo(r, [at |-> "update", form |-> form, saw |-> saw])
  /\ UNCHANGED <<startup, db, file, fresh, count, exits, marks>>

Updated(r) ==
  LET form == req[r].form  saw == req[r].saw
  IN  [id |-> saw.id,
       name |-> IF form.name = Keep THEN saw.name ELSE form.name,
       agent |-> IF form.agent = Keep THEN saw.agent ELSE form.agent,
       ws |-> IF form.ws = Keep THEN saw.ws ELSE form.ws]

\* Mutant: another persona's workspace is accepted.
UpdateRefused_NameOnly(r) == Updated(r).name # req[r].saw.name
                             /\ NameTaken("personas", Updated(r).name, Updated(r).id)

\* Only fields that differ from what was read are checked; the workspace is
\* compared as a path there, and as a text with those of the others.
UpdateRefused(r) ==
  LET row == Updated(r)  saw == req[r].saw
  IN  \/ row.name # saw.name /\ NameTaken("personas", row.name, row.id)
      \/ Parsed[row.ws] # Parsed[saw.ws] /\ WorkspaceTaken(row.ws, row.id)
      \/ row.agent # saw.agent /\ ~HasRow("agents", row.agent)

\* The servers are listed, and deleted one by one.
DeleteServers(p) ==
  LET old == InOrder(Rows("servers", "persona", p), "id")
  IN  [i \in DOMAIN old |-> Deletes("servers", "id", old[i].id, TRUE)]

UpdateBlock(r) ==
  LET form == req[r].form  row == Updated(r)
      mounts == IF form.mounts = Keep THEN <<>>
                ELSE <<Deletes("mounts", "persona", row.id, FALSE)>>
                     \o InsertMounts(row.id, form.mounts)
      servers == IF form.servers = Keep THEN <<>>
                 ELSE DeleteServers(row.id) \o InsertServers(row.id, form.servers)
  IN  IF UpdateRefused(r) THEN <<>>
      ELSE <<Updates("personas", row, FALSE)>> \o servers \o mounts

\* A workspace that is the one that was read, and is not written as the one there
\* is, takes its place (the row has another by now, or the request spells it
\* otherwise): it is not compared with the others.
WritesBack(r) ==
  /\ Parsed[Updated(r).ws] = Parsed[req[r].saw.ws]
  /\ \E p \in db.personas : p.id = Updated(r).id /\ p.ws # Updated(r).ws
\* A new workspace beside the additional ones there were: the request leaves
\* those alone, or is over before it comes to them.
LeavesMounts(r, complete) ==
  req[r].form.ws # Keep /\ (req[r].form.mounts = Keep \/ ~complete)
Unchecked(r, complete) ==
  IF UpdateRefused(r) THEN {}
  ELSE (IF WritesBack(r) THEN {"written_back"} ELSE {})
       \cup (IF LeavesMounts(r, complete) THEN {"workspace_alone"} ELSE {})

UpdatePersona(r) ==
  /\ At(r, "update")
  /\ Closure(r, UpdateBlock(r))
  /\ marks' = marks \cup Unchecked(r, Run(db, UpdateBlock(r)).ok)
  /\ Finish(r)

StartDelete(r) ==
  \E p \in db.personas : Start(r, "delete", [at |-> "delete", persona |-> p.id])

\* Mutant: active sessions do not stop the deletion.
DeleteBlock_Active(r) ==
  <<Deletes("sessions", "persona", req[r].persona, FALSE),
    Deletes("personas", "id", req[r].persona, FALSE)>>

DeleteBlock(r) ==
  IF \E s \in Rows("sessions", "persona", req[r].persona) : s.active THEN <<>>
  ELSE <<Deletes("sessions", "persona", req[r].persona, FALSE),
         Deletes("personas", "id", req[r].persona, FALSE)>>

DeletePersona(r) ==
  /\ At(r, "delete")
  /\ Closure(r, DeleteBlock(r))
  /\ Finish(r) /\ UNCHANGED marks

(* agent_manager.rs *)

\* create checks the name, then awaits the validation of the kit; update also
\* reads the agent type first, and checks only a name that differs.
StartAgent(r) ==
  \/ \E name \in CustomNames :
       /\ ~NameTaken("agents", name, 0)
       /\ Start(r, "agents", [at |-> "new_agent", name |-> name])
  \/ \E a \in db.agents, name \in CustomNames \cup {Keep} :
       /\ ~a.builtin
       /\ name # Keep => ~NameTaken("agents", name, a.id)
       /\ Start(r, "agents", [at |-> "agent", agent |-> a.id,
                              name |-> IF name = Keep THEN a.name ELSE name])

AgentBlock(r) ==
  IF req[r].at = "new_agent"
  THEN <<Inserts("agents", [id |-> fresh, name |-> req[r].name, builtin |-> FALSE])>>
  ELSE <<Updates("agents", [id |-> req[r].agent, name |-> req[r].name, builtin |-> FALSE], TRUE)>>

WriteAgent(r) ==
  /\ At(r, "new_agent") \/ At(r, "agent")
  /\ \/ Closure(r, AgentBlock(r))
     \/ Closure(r, <<>>)   \* the kit is not valid
  /\ Finish(r) /\ UNCHANGED marks

\* get, then the count of personas and the deletion under one lock.
\* Mutant: built-in agents may be deleted.
StartDeleteAgent_Any(r) ==
  \E a \in db.agents : Start(r, "agents", [at |-> "delete_agent", agent |-> a.id])

StartDeleteAgent(r) ==
  \E a \in db.agents :
    ~a.builtin /\ Start(r, "agents", [at |-> "delete_agent", agent |-> a.id])

DeleteAgentBlock(r) ==
  IF Rows("personas", "agent", req[r].agent) # {} THEN <<>>
  ELSE <<Deletes("agents", "id", req[r].agent, TRUE)>>

DeleteAgent(r) ==
  /\ At(r, "delete_agent")
  /\ Closure(r, DeleteAgentBlock(r))
  /\ Finish(r) /\ UNCHANGED marks

---------------------------------------------------------------------------
(* export_import_manager.rs *)

Export ==
  /\ "export" \in menu /\ phase = "up" /\ lock = NoRequest
  /\ file # Payload
  /\ file' = Payload
  /\ UNCHANGED <<startup, db, lock, req, fresh, count, exits, marks>>

\* The names of the file's personas that are taken at the time of the preview.
DetectConflicts(payload) == {p.name : p \in {q \in payload.personas : NameTaken("personas", q.name, 0)}}

\* The file is previewed; the dialog then sends it again with a resolution of the
\* conflicts the preview found.
StartImport(r) ==
  /\ file # NoFile /\ lock = NoRequest
  /\ \E form \in ImportForms :
       Start(r, "import", [at |-> "import_agents", payload |-> file, form |-> form,
                           resolved |-> DetectConflicts(file)])

\* Agents of the file that are built in, or whose name is taken, are passed over.
AgentsBlock(r) ==
  LET missing == {a \in req[r].payload.agents : ~a.builtin /\ ~NameTaken("agents", a.name, 0)}
  IN  InsertAll("agents", missing, "id")

ImportAgents(r) ==
  /\ At(r, "import_agents")
  /\ Closure(r, AgentsBlock(r))
  /\ IF Run(db, AgentsBlock(r)).ok
     THEN GoTo(r, [at |-> "import_personas", payload |-> req[r].payload, form |-> req[r].form,
                   resolved |-> req[r].resolved, todo |-> req[r].payload.personas, map |-> {}])
     ELSE Finish(r)
  /\ UNCHANGED marks

\* The personas of the file by name, as list_personas wrote them.
NextPersona(r) ==
  LET place(p) == CHOOSE i \in DOMAIN PersonaNames : PersonaNames[i] = p.name
  IN  CHOOSE p \in req[r].todo : \A q \in req[r].todo : place(p) <= place(q)

ServerCopies(r, p) ==
  InsertAll("servers", {s \in req[r].payload.servers : s.persona = p.id}, "id")
MountCopies(r, p, id) ==
  LET mounts == {m \in req[r].payload.mounts : m.persona = p.id}
  IN  InsertAll("mounts", {[m EXCEPT !.persona = id] : m \in mounts}, "position")

\* insert_persona inserts the persona's MCP servers, the import then inserts
\* them again, both times with the ids and the persona of the file.
CopyBlock(r, p, id, name) ==
  <<Inserts("personas", [id |-> id, name |-> name, agent |-> p.agent, ws |-> p.ws])>>
  \o ServerCopies(r, p) \o ServerCopies(r, p) \o MountCopies(r, p, id)

Existing(p) == CHOOSE q \in db.personas : q.name = p.name

\* Mutant: with no resolution, the existing persona is replaced.
PersonaBlock_Replace(r) ==
  LET p == NextPersona(r)
  IN  IF NameTaken("personas", p.name, 0)
      THEN <<Deletes("sessions", "persona", Existing(p).id, FALSE),
             Deletes("personas", "id", Existing(p).id, FALSE)>>
           \o CopyBlock(r, p, fresh, p.name)
      ELSE CopyBlock(r, p, p.id, p.name)

\* What becomes of a persona whose name is taken: without a resolution, nothing.
Resolution(r, p) == IF p.name \in req[r].resolved THEN req[r].form.action ELSE "skip"

PersonaBlock(r) ==
  LET p == NextPersona(r)
  IN  IF ~NameTaken("personas", p.name, 0) THEN CopyBlock(r, p, p.id, p.name)
      ELSE IF Resolution(r, p) = "rename" THEN CopyBlock(r, p, fresh, req[r].form.name)
      ELSE IF Resolution(r, p) = "overwrite"
      THEN <<Deletes("sessions", "persona", Existing(p).id, FALSE),
             Deletes("personas", "id", Existing(p).id, FALSE)>>
           \o CopyBlock(r, p, fresh, p.name)
      ELSE <<>>

\* The id the persona is imported under, if it is.
ImportedAs(r, p) ==
  IF ~NameTaken("personas", p.name, 0) THEN {<<p.id, p.id>>}
  ELSE IF Resolution(r, p) = "skip" THEN {} ELSE {<<p.id, fresh>>}

\* The id of the persona it is imported over, 0 when there is none.
Overwritten(r, p) ==
  IF NameTaken("personas", p.name, 0) /\ Resolution(r, p) = "overwrite" THEN Existing(p).id ELSE 0

\* The workspace of an imported persona is compared neither with those of the
\* others nor with its own additional ones.
Unlooked(r, p) ==
  IF /\ ImportedAs(r, p) # {}
     /\ \/ WorkspaceTaken(p.ws, Overwritten(r, p))
        \/ \E m \in req[r].payload.mounts : m.persona = p.id /\ m.path = Canonical[p.ws]
  THEN {"imported"} ELSE {}

\* One persona of the loop: the lock is kept to the end of the loop.
ImportPersona(r) ==
  /\ At(r, "import_personas") /\ req[r].todo # {}
  /\ Closure(r, PersonaBlock(r))
  /\ LET p == NextPersona(r)
     IN  /\ IF Run(db, PersonaBlock(r)).ok
            THEN /\ req' = [req EXCEPT ![r].todo = @ \ {p}, ![r].map = @ \cup ImportedAs(r, p)]
                 /\ lock' = r
            ELSE Finish(r)
         /\ marks' = marks \cup Unlooked(r, p)

PersonasImported(r) ==
  /\ At(r, "import_personas") /\ req[r].todo = {}
  /\ req' = [req EXCEPT ![r] = [at |-> "import_repos", payload |-> req[r].payload,
                                map |-> req[r].map]]
  /\ lock' = NoRequest
  /\ UNCHANGED <<startup, db, file, fresh, count, exits, marks>>

\* Repositories of the personas imported, with the mirrors of the file.
ReposBlock(r) ==
  LET owned == {mx \in req[r].map \X req[r].payload.repos : mx[2].persona = mx[1][1]}
  IN  InsertAll("repos", {[persona |-> mx[1][2], ws |-> mx[2].ws] : mx \in owned}, "persona")

ImportRepos(r) ==
  /\ At(r, "import_repos")
  /\ Closure(r, ReposBlock(r))
  /\ Finish(r) /\ UNCHANGED marks

---------------------------------------------------------------------------
(* Around the requests *)

SessionEvent ==
  /\ "session" \in menu /\ phase = "up" /\ lock = NoRequest
  /\ \/ /\ \E p \in db.personas :
             db' = Insert(db, "sessions", [id |-> fresh, persona |-> p.id, active |-> TRUE]).db
        /\ db.sessions = {}
     \/ \E s \in db.sessions :
          s.active /\ db' = Update(db, "sessions", [s EXCEPT !.active = FALSE]).db
  /\ fresh' = fresh + 1
  /\ UNCHANGED <<startup, lock, req, file, count, exits, marks>>

\* What request r has left to execute in its current closure.
CurrentBlock(r) ==
  CASE req[r].at = "create" -> CreateBlock(r)
    [] req[r].at = "update" -> UpdateBlock(r)
    [] req[r].at = "delete" -> DeleteBlock(r)
    [] req[r].at = "import_agents" -> AgentsBlock(r)
    [] req[r].at = "import_personas" /\ req[r].todo # {} -> PersonaBlock(r)
    [] req[r].at = "import_repos" -> ReposBlock(r)
    [] OTHER -> <<>>

\* The application ends between two statements of a closure.
ExitInside ==
  /\ "exit" \in menu
  /\ \/ /\ phase = "seeding"
        /\ \E k \in 1..(Len(SeedBlock) - 1) : db' = Run(db, SubSeq(SeedBlock, 1, k)).db
        /\ fresh' = fresh + Len(Builtins) + 1
        /\ UNCHANGED marks
     \/ /\ phase = "up"
        /\ \E r \in Slot :
             /\ lock \in {NoRequest, r}
             /\ \E k \in 1..(Len(CurrentBlock(r)) - 1) :
                  db' = Run(db, SubSeq(CurrentBlock(r), 1, k)).db
             /\ fresh' = fresh + Len(CurrentBlock(r))
             /\ marks' = marks \cup
                  (IF req[r].at = "update" THEN Unchecked(r, FALSE)
                   ELSE IF req[r].at = "import_personas" THEN Unlooked(r, NextPersona(r)) ELSE {})
  /\ Ended

RequestStep(r) ==
  \/ StartCreate(r) \/ Create(r)
  \/ StartUpdate(r) \/ ReadPersona(r) \/ UpdatePersona(r)
  \/ StartDelete(r) \/ DeletePersona(r)
  \/ StartAgent(r) \/ WriteAgent(r) \/ StartDeleteAgent(r) \/ DeleteAgent(r)
  \/ StartImport(r) \/ ImportAgents(r) \/ ImportPersona(r) \/ PersonasImported(r)
  \/ ImportRepos(r)

CatalogNext ==
  \/ Open \/ Migrate \/ RecordVersion \/ Migrated \/ Seed
  \/ Exit \/ ExitInside \/ Upgrade \/ Export \/ SessionEvent
  \/ \E r \in Slot : RequestStep(r)

CatalogSpec == CatalogInit /\ [][CatalogNext]_catalogVars

---------------------------------------------------------------------------
(* Properties *)

CatalogTypeOK ==
  /\ menu \in Menu /\ release \in DOMAIN Releases
  /\ phase \in {"down", "migrating", "seeding", "up", "failed"}
  /\ schema.version <= Len(Statements) /\ schema.mine <= schema.ahead
  /\ WellFormed(db, Table, fresh)
  /\ lock \in Slot \cup {NoRequest}
  /\ lock # NoRequest => req[lock].at = "import_personas"
  /\ marks \subseteq {"torn_migration", "name_taken", "written_back", "workspace_alone", "imported"}

\* Every key is unique and every reference leads to a row, however requests
\* interleave, fail half-way or are cut short.
TablesConsistent == Consistent(db)

\* No two personas have the same path for their workspace, and none mounts its
\* own workspace a second time, under whichever path (persona_manager.rs:85,
\* :644), although an update checks against what it read in an earlier closure.
\* Two personas do share a directory under two spellings of its path.  The
\* exceptions: an imported persona whose workspace another one, or an additional
\* workspace of its own, has; an update that replaces the workspace by a stale or
\* respelled one, which it checks against no other; and one that gives a workspace
\* without the list of additional ones, or fails before it stores that list.
WorkspacesApart ==
  marks \cap {"written_back", "imported"} # {}
  \/ /\ PersonasApart(db)
     /\ "workspace_alone" \in marks \/ MountsApart(db)

\* While requests are served, every built-in agent of the release is there,
\* through restarts, upgrades and ends in the middle of the seeding, unless the
\* last seeding met a user's agent of that name (server.rs:330 goes on then).
BuiltinsReady ==
  phase = "up" =>
    \/ "name_taken" \in marks
    \/ HasBuiltins(db, Builtins)

\* The server does not start only after an end between the first statement of a
\* migration and its row in schema_version (db.rs:91-105).
StartSucceeds == phase = "failed" => "torn_migration" \in marks

\* The import of request r is to replace the persona: the user saw that its name
\* was taken and said so.
Overwrites(r, id) ==
  /\ req[r].at = "import_personas" /\ req[r].form.action = "overwrite"
  /\ \E p \in db.personas :
       p.id = id /\ p.name \in req[r].resolved /\ \E q \in req[r].todo : q.name = p.name

\* The row of an active session is taken away only by an import that overwrites
\* its persona (export_import_manager.rs:303 deletes without the check of
\* persona_manager.rs:395): never by a deletion that races the session's start,
\* nor by a request cut short.
ActiveSessionsKept ==
  [][\A s \in db.sessions :
       s.active /\ (\A t \in db'.sessions : t.id # s.id) => \E r \in Slot : Overwrites(r, s.persona)
    ]_catalogVars

Of(d, id) ==
  [row |-> {p \in d.personas : p.id = id}, mounts |-> {m \in d.mounts : m.persona = id},
   sessions |-> {s \in d.sessions : s.persona = id}]

\* A step of an import leaves every persona that was there and that it was not
\* told to overwrite as it was, also when it fails half-way, and also a persona
\* that took the name of one in the file after the preview.  Its servers it may
\* add to: those of the file keep the id of the persona they were exported from.
ImportKeepsOthers ==
  [][\A r \in Slot :
       req[r].at \in {"import_agents", "import_personas"} /\ req'[r] # req[r] /\ exits' = exits =>
         \A p \in db.personas :
           ~Overwrites(r, p.id) =>
             /\ Of(db', p.id) = Of(db, p.id)
             /\ \A s \in db.servers : s.persona = p.id => s \in db'.servers
             /\ \A s \in db'.servers \ db.servers :
                  s.persona = p.id => s \in req[r].payload.servers
    ]_catalogVars
=============================================================================
