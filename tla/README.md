# beachead in TLA+

This directory specifies and verifies parts of beachead, the desktop application that
runs coding agents in sandboxes: the session manager and the sandboxes page beside it, the
containers that give a persona a memory, the vector store inside such a container, the
synchronisation of repositories, the catalog of personas and agent types with its database,
migrations and import, the terminal relay, and the functions that read what other tools
write and check what users enter. TLC checks the modules on small instances; TLAPS proves the
invariants that matter most for every instance.

## The system

beachead is a Tauri shell (`main.rs`) around an Axum server (`server.rs`) with a React
front end. The server keeps its tables in one SQLite database and acts on the world
through the `sbx` tool (sandboxes), Docker (memory containers), `git` (repository
mirrors), the operating system's keyring and pseudo terminals. HTTP handlers and
background tasks are tokio tasks. There is one database connection behind a mutex
(`Database::with_conn`), held for one call and never across an await, and hardly a
handler holds anything else across one: whatever a handler has read may be out of date
after its next await.

| Component | State | Operations | Talks to |
|---|---|---|---|
| Session manager (`session_manager.rs`, `routes/sessions.rs`) | rows of `sessions` | start, stop, resume, remove, recover at startup, clean up orphans | PTY bridge, kit generator, sbx, memory containers |
| PTY bridge (`pty_bridge.rs`) | map session -> child and broadcast channel | spawn, kill, attach_ws | child processes, WebSockets |
| Kit generator (`kit_generator.rs`) | one directory per session | generate, cleanup | file system |
| sbx adapter (`sbx.rs`) | none; a timed out command keeps running | create, stop, rm, ls, run, ... | the sbx tool |
| Memory containers (`mcp_container_manager.rs`, `routes/mcp_containers.rs`) | rows of `mcp_containers` | ensure running, create, recreate, remove, start_all, reconcile, stop_all, the page's start, stop, remove | Docker, port allocator |
| Port allocator (`port_allocator.rs`) | rows of `port_allocations` | allocate, release | database |
| Personas (`persona_manager.rs`, `routes/personas.rs`) | rows of `personas` and of the tables that refer to them | create, update, delete | memory containers, sessions |
| Memory server (`mcp-server/`) | table of texts, FAISS index and its file | store, search, list, delete | SQLite, FAISS |
| Repository sync (`repo_sync_manager.rs`, `routes/repo_sync.rs`, `git_cli.rs`) | mirrors on disk, `managed_repos`, cached status | enable, pull, push, branches, delete, background checker | git, secret scanner, credentials |
| Repository credentials (`repo_credential_manager.rs`) | two keyring entries per repository | store, delete, look | keyring |
| Secret scanner (`secret_scanner.rs`) | none | scan the commits to push | git |
| Export and import (`export_import_manager.rs`) | none of its own | export, preview, import | all tables |
| Agent types (`agent_manager.rs`) | rows of `agent_types` | seed, create, update, delete | sbx |
| Sandboxes page (`routes/sandboxes.rs`) | none | list, start, stop, remove, ports | sbx |
| Policies, templates, sbx secrets, system status | none | arguments passed to sbx, its tables read back | sbx |
| Workspace files, tokens | none | the check of a file name, one write; random strings | file system |
| Database (`db.rs`, `db_ops.rs`) | schema version, all tables | migrations, one function per statement | SQLite |

### What is hard, and what would make it right

*Sessions.* A session is four things that change at different moments: a row, a sandbox,
a terminal and a kit. start takes up to six steps with an await between most of them;
any request may come in between; any step may fail; a command that times out is not
killed and may act later; the application may exit at every step, after which a recovery
task works through rows it listed once while requests are served again. It is right when
rows, terminals and sandboxes agree whenever nothing is under way, when no step acts on
another session's sandbox, when nothing is orphaned, and when a session does not stay
*starting*.

*Memory containers.* A persona's flag, a row, a port and a container of a fixed name have
to agree though Docker fails, containers exit or are removed by hand, ports run out and
the application ends anywhere. Every handler cleans up after itself in a different way.

*Vector store.* Positions in a table point into an index in another file, which a delete
renumbers; the two are written one after the other, and the container can be stopped in
between.

*Repository sync.* The background checker shares the mirrors (and `FETCH_HEAD`) with
operations it does not exclude; merges, squashes and clones can stop half-way; cached
status outlives its repository.

A credential is two keyring entries. A git command whose time is up is not killed. It is right when no commit is ever lost,
on the mirror or on the remote, when what is listed for review is what the remote lacks, when
no order of enabling, deleting and ending the application forgets a remote or leaves a row
without its mirror, and when the badge lights for what the agent committed.

*Catalog.* No sequence of statements runs in a transaction: a request, a migration, a seeding and an
import may be cut short, or fail, at every statement, and a request reads in one closure
what it relies on in a later one. It is right when the server starts, with the built-in agents
there, when keys and references hold, when two personas never share a workspace, and when an
import changes only what it was told to.

*Terminals.* Output has to reach its viewers in order through a channel that may overflow, and input
the process, while viewers and processes come and go.

*Texts.* git and sbx are driven by arguments and read by splitting what they print; the output may be
cut at a size limit, and a pattern checked character by character has to add up to what git accepts.

`PROJECT.json` lists these hazards at their lines, with the properties that cover them
or the reason why none does.

## The modules

| Module | Contents |
|---|---|
| `SessionLifecycle` | what is promised of a session: the phases it goes through |
| `Sessions` | the session manager with the table, the terminals, the kits, the sandboxes and the recovery task |
| `SessionsProofs` | type correctness and four properties of `Sessions`, and that it implements `SessionLifecycle` |
| `McpContainers` | memory containers, ports, the personas' memory flag, startup and exit |
| `McpContainersProofs` | type correctness and four properties of `McpContainers` |
| `VectorStore` | table, index and file of one memory server |
| `VectorStoreProofs` | type correctness, recall and durability |
| `SandboxPage` | the sandboxes page, composed with `Sessions` |
| `SandboxPageProofs` | the sessions at rest, with the page beside them |
| `GitRepo` | a git repository as the git commands of the application change it (external) |
| `RepoSync` | mirrors, rows, logins, the requests about them and the background checker |
| `RepoSyncProofs` | type correctness and every safety property of `RepoSync` that holds |
| `Tables` | the SQLite schema: keys, references, statements |
| `Catalog` | migrations, seeding, agent types, personas, export and import over `Tables` |
| `CatalogProofs` | type correctness, keys and references, and every property of `Catalog` |
| `PtyRelay` | the terminal of a session and its viewers |
| `PtyRelayProofs` | type correctness of `PtyRelay`, and that every viewer is served |
| `SbxText` | arguments of sbx, kits, and the tables sbx prints |
| `Forms` | the functions that read output and check input, posed as questions; extends `SbxText` |
| `FormsProofs` | that outputs are read, inputs checked and texts taken as they are meant |
| `MCSessions`, `MCSandboxPage`, `MCMcpContainers`, `MCVectorStore`, `MCRepoSync`, `MCWorkbench` | instances for TLC; the last one runs `Catalog`, `PtyRelay` and `Forms`, one per behaviour |

The modules are separate because the parts they model share little state: a session start calls
`ensure_container_running` before it inserts its row and uses only the configuration it
returns, so `Ensure` is an operation of its own in `McpContainers` and a session start in
`Sessions` is what follows it. The vector store runs in its own process in the container. To the
catalog a session is a row with the statuses its foreign key and `PersonaManager::delete` look
at (`SessionEvent`); to `RepoSync` a persona is its workspace.

### Sessions

`status`, `sandbox` are the columns of `sessions`; `kit` the directories; `pty` the map of
the PTY bridge, with what has become of the child; `stray` children the map has lost; `box` the
sandboxes as `sbx ls` shows them; `late` the commands that go on though nobody waits.
`req[r]` is an HTTP handler: its step (`at`), its session (`s`) and the sandbox it read
(`b`); `rec` is the recovery task with the list it made. `doubt` is a history variable:
the sandboxes whose fate the application cannot know, because their command failed, timed out or was cut short, or the persona was deleted.
An action is what a handler does between two awaits or database calls, named for what it
does: `Start`, `InsertSession`, `CreateSandbox`, `RecordSandbox`, `SpawnPty`, `AttachPty`,
`MarkRunning` are `SessionManager::start`. A guard that a handler tests is tested on
the state when it read it, and what it read is kept in `req`.

The constant `OneAtATime` distinguishes two environments. FALSE: the server as it is, any
request at any time. TRUE: requests as the sessions page sends them when one user
waits for each answer: one at a time per session (any number of sessions at once), after recovery is over. `MayFail` says which outside calls can fail.

### McpContainers

`persona` is the existence and the memory flag; `row` and `alloc` are the two tables;
`docker` is the container of the persona's name (names are fixed, so there is at most
one); `req[q]` a handler or the task `Main` with the copy of the row it works on (`c`, `port`,
`linked`), which is what the code calls `container`; `phase` and `todo` the startup task
and the exit handler with the list they made. `Failed` is the error path of
`create_container`, which depends on who called it (`job`). `fault` is a history variable: the
personas for which Docker failed, somebody removed the container, or the end of the
application cut a handler short. Stop and removal of one container in
`remove_container` are one step with the partial outcomes in `RemoveFails`, because
nothing reads what is in between. The database itself does not fail.

### VectorStore

`vec` is the index in memory, `row` the table as the connection sees it, `saved` what is
committed, `file` and `torn` the index on disk. One lock covers an operation, so there is one
`at`; `Kill` may happen at every step. A vector is named by the entry it embeds. `told`
and `cut` are history variables: the ids that were returned, and whether a save of the index was ever
cut short. `RebuildFails` leaves renumbered rows in an open transaction (`row` and
`saved` differ), which the next operation commits, as in the code.

### SandboxPage

`page` is the one request of the page with what `sbx ls` told it (`seen`), `asked` counts them, `alone`
is a history variable: nothing but recovery has run since the last start. The page acts on sandboxes
by name and never on rows, so everything it touches is in `doubt` from then on; `RecoveryAgrees` alone speaks of it, after
the next start. Its command survives the
application (`RestartAll`). `NamedBy` counts every row, removed ones too, as `get_all_sessions`
does.

### GitRepo and RepoSync

A history is the set of its commits, numbered in the order in which they were made; a repository is
its branch, its head, its tracking refs, `fetched` (`FETCH_HEAD`), a merge in progress, and what a soft reset left
staged. One git command is one step, because `GitCli::exec` holds a lock for the path while it runs.
`GitRepo` is external: it is what the code in `repo_sync_manager.rs` relies on.

`ws` is the workspace, `mirror[d]` the mirror in directory `d`, `rows` the table `managed_repos`,
`keyring` the two entries of each login, `locks` the operation guards, `status` the cached status of the
background checker `check`, `late` the pushes that outlived their command. `req[r]` is a handler
with its step and what it read. `marks` is a history variable; the properties name in it what they
except, and every mark is reached by some run of the module:

| Mark | Meaning |
|---|---|
| refetched | somebody fetched the remote between the fetch and the merge of a pull, or moved a mirror there |
| overlap | two enabling requests met, or a mirror was moved to where one is cloning |
| own url | the workspace had a remote of its own |
| no origin | the URL of that remote could not be read or set |
| gave up | a clone with a login ended early, by an error or an exit, with its temporary login in the keyring |
| kept entry | the keyring refused to delete an entry: of a repository that is deleted, of a temporary login, or of a login whose secret it refused |
| moved, deleted | the mirrors directory was changed; a mirror was deleted by the user |
| two logins, torn login, late login | logins written by two requests, cut short between the entries, stored while the repository is deleted |

A login is two entries of the keyring, and every operation on it two steps that may be refused (`StartDelete`, `DeleteSecret`;
`StartSetLogin`, `SetSecret`; `DeleteLogin`, `ForgetSecret`; `Remains` of a temporary one). Only the temporary login of a clone is stored in
one step; `CreateRefused` is the attempt whose end the keyring refuses. A clone with a login has a second
attempt (`CreateRetry`). A selection of commits is any part of the mirror's branch, pushed or not (`Selectable`).

### Tables and Catalog

`Tables` states which columns are unique, which refer to which and with which `ON DELETE`, and what a
statement does (`Exec`); `Run` executes a list until one fails and keeps what the others did, which is
what the code does without a transaction. In `Catalog` an operation is the closures it runs, each
the list of its statements. `ExitInside` ends the application after some statements of a closure. `schema` has
the migration recorded last and the statements of the next that took effect, by this process or an
earlier one. A *place* is the text of a path: `Parsed` is what Rust compares
of it as a path (`/w` and `/w/` are equal there), `Canonical` the directory it leads to. The database compares the texts of
workspaces, an update looks first whether the parsed path is another one, and the additional workspaces are compared, and stored, as
directories. `marks` names the exceptions as above: a migration that was torn, a built-in's name
that a user took, a stale or respelled workspace written without a look at the others, a workspace given without the list of additional
ones or stored before an update failed or ended ahead of that list, an import. The servers an update deletes go in the order of their
ids here and of their names in the code, which no property tells apart.

### PtyRelay

Chunks of output and input are numbered; `entry` is the process in the map of terminals, `output[p]` what
it has written, of which the channel holds the last `Capacity`. A viewer is its place in
the channel, what it `got`, what it `skipped` when it lagged, and what it typed. A chunk typed may begin with Ctrl-A (`control`): it is
taken for a resize, and dropped. A write may fail, and its error is dropped (`refused`). Between the look at the map and the insertion a
second spawn may come (`opening`); one whose reader or writer cannot be had (`OpenFails`) leaves its child without an entry. `Detach` is a close after the input was written.

### SbxText and Forms

A text is a sequence of the pieces its reader tells apart. `Forms` poses one `question` per behaviour; the step
that answers it is the function of the code; the properties state what git, sbx, the agent or
the file system mean by the same text, independently of how the code finds it. A truncation cuts at a
token, since a cut inside one has the effect of a cut after it. The words of a table of sbx are sequences of pieces, so that a tag may begin with
`TAG` and a cell hold `---` or `configured` in its middle, which is what the readers look at (`Holds`, `Meet`, `TemplateRow`). The
answers git gives a scan are chosen with it (`Gits`): the diff from the parent, from the empty tree or none, what it shows as renamed, the
lines and the contents that the size limit or an error takes away.

## What the runs check

| Run | Instance | Shows |
|---|---|---|
| `sessions_any` | 1 session, 1 sandbox, 2 requests at any time; ls, stop, rm, spawn, attach and kit removal fail; 1 restart; 1.5 M states | types; a running row has a sandbox; handlers and recovery use the sandbox their row names; a removed row has no kit; sandbox ids stay and deleted rows do not come back |
| `sessions_ui` | 2 sessions, 2 sandboxes, 2 requests one at a time per session, 1 request of the sandboxes page at any moment; create, stop, rm, spawn and kit removal fail; 1 restart; 0.8 M states | at rest: running rows have their terminal and no other, sandboxes are kept, none is orphaned, no two rows name one; after a recovery that nobody disturbs rows and sandboxes agree whatever the page did before; the lifecycle is followed |
| `sessions_live` | 1 session, 1 sandbox, 1 request, also during recovery; ls fails, commands time out; 1 restart | no session stays *starting* (fairness below) |
| `sessions_pty` (violated) | 1 session, 1 request when recovery is over; only the spawn fails, no restart | the row of a session whose terminal cannot be spawned stays *starting* |
| `sessions_races` (violated) | 2 requests at any time about 1 session; nothing fails, no restart | a row marked running without a terminal |
| `mcp` | 2 personas, 3 rows, 1 port, 1 request at a time; create and remove fail; exits and crashes; 1.6 M states | at rest: row and container go together, only personas with memory have one, a row holds its port; startup makes up for missing rows |
| `mcp_ports` (violated) | 2 ports, create and start fail, no restart | two rows hold one port |
| `vector_store` | 3 entries, index up to 4 vectors; 0.1 M states | types; each text finds its own entry unless a save was cut short; acknowledged entries stay |
| `vector_store_kill` (violated) | the same | after a kill in the middle of a save, searches find the wrong entry or none |
| `repo_sync` | 1 workspace, 1 remote, 2 mirrors directories, 2 row ids, 2 logins; 2 requests at once, 3 in all, out of 10 menus; 3 commits; 1 restart; 0.2 M states | mirror and remote keep every commit; only the named race merges what others pushed; nothing the remote lacks is hidden; remotes and mirrors are not forgotten; logins are whole unless the keyring refuses a deletion; requests of one row exclude each other; what the agent committed is noticed |
| `repo_squash` (violated) | 2 requests of pushes only | a squash combines less than the selected commits |
| `workbench` | the catalog: 2 releases, 2 established databases, 1 foreign file, 2 requests at once out of 7 menus, 2 exits; the terminal: 2 viewers, 2 processes, channel of 1; the forms: some 40,000 questions; 0.8 M states | no two personas with one path for their workspace, built-in agents there, the server starts, imports change what they should; viewers are served; outputs and inputs are what their writers and readers mean |

*Bounds.* One session is enough for what concerns one row, because a handler touches only
its own; two sessions with two sandbox names are used where sandboxes of different sessions
can be confused, and let a name be used again. Two requests cover every race of
two steps. One restart covers a recovery that runs into the remains of a first life; what a second restart
adds is a second pass of the same task over a table in a state the first
can leave. In `mcp`, two personas compete for one port, so the pool is exhausted as soon as one has memory;
three row ids let a recreation have its old and its new row while the other persona has one.
`McpContainers` has no counter: restarts and repetitions are unbounded. In `vector_store` three
entries give a rebuild something to move on both sides of a deleted one; the fourth
vector is one that a failed insert left. `MaxVectors`, `MaxCrashes` are bounds for TLC
only: the theorems have none. In `repo_sync` and the catalog the
operations of a behaviour come from a *menu*: a group of operations that can disturb each other, with
the events (others' pushes, commits, the checker, exits) that can come between; every pair of
operations that touch the same state, and every operation with an exit, is in a menu. Two requests at
once and a third afterwards show every race of two and what it leaves behind. Three
commits let one be pushed, one selected and one not, with one that the scanner stops. Two
row ids let a repository be deleted and enabled again. Two releases are
enough for an upgrade with a new migration and a new built-in agent, two exits for one
in the middle of what the other left. A channel of one chunk overflows as soon as a viewer is one behind. Words of four
symbols hold every forbidden neighbourhood (`..`, `//`, `@{`, `/.`, `.lock`) in the middle and at both
ends; 26 lost tokens cut a log at every place of its first commits. Symmetry is used for sets of model values that no property
and no definition distinguishes, and never in the run with a liveness property. Deadlock
checking is off in `mcp_ports`, where the application never ends, so that when all row ids
are taken there is nothing left to do, and in `repo_sync`, `repo_squash` and `workbench`,
whose requests are counted and whose questions are answered once. It is on everywhere else.

*Fairness.* `Sessions!Fairness` is weak fairness of each handler and of the recovery task:
they are tokio tasks, and what they wait for is a database call or an sbx command with a
timeout. Nothing is assumed of users, of child processes, of abandoned commands or of the
number of requests. `RepoSync!Fairness` is the same of its handlers and of the background checker, a
loop in a task of its own in which every command has a timeout. `AheadNoticed` also relies on a fetch between
two repositories of the host that are both there to succeed, which `CheckWorkspace` states. The
other modules state no liveness.

The violated runs are disagreements between the code and what a document of the
repository says; PROJECT.json quotes both under "findings", with others met on the way
that need no run.

## What is proved

All theorems hold for arbitrary constants that satisfy the ASSUME of their module (names of
"nothing" are no members; sets are finite where something is counted), which TLC also evaluates.

*Sessions* (`SessionsProofs`). The properties of `sessions_any` for any number of sessions,
sandboxes, requests, failures and restarts. None is inductive. `Inv` adds: a handler
knows its session and, at the steps that need it, its sandbox (`StepsHaveSubject`); a
session is known to one handler until its row exists (`Fresh`), and is started by one
(`StartedOnce`); only a row has a sandbox (`SandboxInRow`); the copies the recovery task made
agree with the rows that still exist (`CopiesAgree`); the last step of a removal finds no
kit (`RemovalHasNoKit`). The crux is that a sandbox id is written once, so that a copy can
be stale only by its row being gone. Four lemmas show that a step preserves the four groups
`Types`, `Owners`, `Copies`, `Kits`.

*Refinement* (`SessionsProofs`). Assuming `OneAtATime`, `Spec => FollowsLifecycle`. The
additional invariant `Discipline` says that recovery has the table to itself, that each
session then belongs to one handler, and that therefore the status a handler read is still
there at each of its steps (`HandlerStatus`, `RecoveryStatus`). Without `OneAtATime` it is
false, which `sessions_races` shows.

*Sessions at rest* (`SandboxPageProofs`). Every property of `sessions_ui` is proved of `PageSpec`, the sessions with
the page, for any number of sessions, sandboxes, requests and restarts and any failures but those named
here. `Rest` is `Discipline` with two invariants that hold at every step. `Terminals` says why the map has an
entry or has none while a row changes: a handler between attaching and marking, one between killing and marking,
a row recovery has not come to. `Sandboxes` is about who has a sandbox outside `doubt`: a row (`Holds`) until
its removal is past `sbx rm`, a request between creating and recording (`Records`). Such a sandbox exists
and has one holder, and one that exists has a holder, so a name is given again only when its row is through
with it. All steps but three leave holders as they are (`HoldersKept`); the page only touches what it puts in
`doubt` (`Meddling`). All this assumes `OneAtATime`. `SandboxKept` also assumes that `sbx ls` does not fail: when it does, recovery
marks a running row stopped and leaves its sandbox running, and TLC then finds the property
violated. `RecoveryAgrees` needs that assumption too, since the cleanup is skipped when `sbx ls` fails, but not `OneAtATime`:
what recovery has seen stays so as long as nothing else runs (`Undisturbed`).

*VectorStore* (`VectorStoreProofs`). `Recall` and `Durable` for any finite set of entries and
any history. `Inv` says where, at each step of an operation, the table agrees with the
index in memory and with the file (`Agreement`), what the operation has done so far
(`Progress`), and that an open transaction changes positions only (`SameRows`). The lemma
`RebuildPoints` is the core: numbering the rows in an order of the old positions, and
copying the vectors in that order, leads every row to its own vector.

*McpContainers* (`McpContainersProofs`). `TypeCorrect` needs no assumption; it rests on `Names`: a row id that a
handler, a list or Docker holds is not given to another persona. The properties of `mcp`, and that no two
rows at rest name one port, are proved for `OneAtATime`. None is inductive, since a row and its container
agree only at rest. `Inv` therefore says what holds in between: which steps Main takes in which phase, and
that beside it one handler is at work (`Serial`); how the memory, row and container of a persona
stand at each step of its handler, and that nobody else is at a step that unsettles them (`Working`,
`Settling`); that reconcile still lists every persona without a row (`Reconciling`); and that only a row whose
handler is about to set or has just released its port has none (`Ports`). Each step of a handler keeps the
personas it does not work on as they are (`OthersAlike`) and does to its own what `HandleSettles` says.

*RepoSync* (`RepoSyncProofs`). For any number of requests, mirrors, directories, branches, commits, rows
and restarts, every safety property of `repo_sync`. Each git command is
shown once to keep what a repository holds (`Keeps`), and every action to do no more to a mirror than one
of them (`MirrorStep`). `SyncExclusive` is inductive once each action is shown to begin a
synchronising request, to end one, to let all go on, or to end the application (`SyncStep`).
`NothingHidden` needs what leads to its exception as well (`OwnMarked`): as long as no workspace had a
remote of its own, no request that enables one can be about to give a mirror that URL.
`OthersOnlyByRace` holds because nothing but `FETCH_HEAD` brings a commit of others into a mirror or
a workspace, and what a request at the second step of a pull fetched is its workspace's (`OwnContent`). The others rest on what
requests do to each other: they start, go on and end as `SlotStep` says, one at a time. `RowHasMirror` needs
`Placed`: a request that is making a mirror, or about to remove one, is alone and finds no row, and past its clone
the mirror is there. `RemoteNotForgotten` needs a witness (`Kept`): a mirror that knows the URL and that no request may
still remove, there as soon as the workspace can be stripped. `LoginsWhole` needs that the user name in the
keyring is the one of the only request that writes (`MixParts`), and, per row, who still answers for what is there
(`Left`); whether the keyring refuses to delete an entry is up to each step, and what it refused is marked. Two assumptions are about names: the temporary login has none of a row's, and the squash commit is
numbered above all others.

*PtyRelay* (`PtyRelayProofs`). For any number of viewers, chunks, processes and subscriptions and any
capacity of the channel, every viewer is served; what it typed after a Ctrl-A at the head of a message, and
what a write failed on, does not reach the process, as `InputInOrder` says. `Served` adds to the property where a viewer stands in the
channel (`Placed`) and that its queue holds the last of what it typed (`Queued`); without the latter the
order in which the process reads says nothing about the next message. Lemmas about intervals and about
queues carry the steps.

*Catalog* (`CatalogProofs`). The properties of the catalog in `workbench`, and that keys are unique and references
hold, for any number of requests, rows, releases, migrations and ends of the process. A step either leaves the tables
alone or executes statements of one closure (`NextRuns`), all of them or as many as it came to. So each property is
reduced to what one statement may do: a statement fits its table (`Statement`), spares the built-in agents (`Spares`),
keeps a session (`KeepsSession`), touches personas and mounts in a footprint (`Footprint`), or leaves a persona alone
(`LeavesPersona`); `RunKeeps` carries it to the closure. `Types` is the invariant underneath: it says in
particular what a request carries from an earlier closure, such as mounts that were checked against the workspace read then,
and an import well-formed rows of its file. `BuiltinsReady` needs that no request under way has chosen a
built-in agent to change (`AgentsChosen`), `StartSucceeds` that a statement of a migration without its row is
this process's own or torn (`StartFacts`), and `WorkspacesApart` the tables apart as long as no step
has left the mark of an exception (`AllApart`); nothing is needed of the export file and of the payloads, since an imported
persona whose workspace meets another, or an additional one of its own, leaves such a mark (`Unlooked`). Its proof needs that an update that succeeds has replaced the mounts
(`UpdateComplete`, from `RunAll`): for an update cut short this is false, hence the exception named above. Runs
are recursive and rows are inserted in the order of a column; what is needed of both is proved on sets of numbers with
the least-number principle of `WellFoundedInduction`. The assumptions say that the databases and files a behaviour starts with
are well-formed, the established databases also that they are consistent and have their built-in agents and
workspaces apart; nothing of the kind is assumed of a foreign file; that a later release has no fewer migrations
than an earlier one; and that paths which are equal when parsed lead to one directory.

*SbxText and Forms* (`FormsProofs`). What the functions compute, of texts, lists, tables, histories and diffs of any
length. `Inv` says that the answer is the one the code gives to the question; what remains is a theorem about each function.
`Filtered`, `FlattenSeq` and the other folds are defined by the library through recursive functions: each is first shown to have a
trace, the sequence of its intermediate results (`FilteredTrace`, `FlattenTrace`, `SegmentsTrace`, `TakesTrace`, `CollapsedTrace`),
and facts about it are then proved along the trace by the least-number principle of `WellFoundedInduction` on a set of indices
(`UpTo`), so that no induction theorem with an operator as parameter is needed. `InputsCheckedAlways`: the checks of a
pattern, which look at single characters, neighbours and ends, add up to git's rules of components (`GitRules`), also once a persona's name stands for
its place. `TextsTakenAlways`: sbx, reading token by token, has the arguments it was meant to have, whatever the
agent's own arguments look like (`ArgumentsHold`), and a collapsed and trimmed kit name is one that it
takes (`KitHolds`). `OutputsReadAlways`: five lemmas, of which the log is the long one. The separators of a log are enumerated
in their order (`Enumerated`), four to an entry; the parts between them are therefore the fields of one commit each (`LogParsed`), also after
what a cut has left, because that holds no separator unless the cut went through the fields of a commit (`TailSeps`, `LogKept`).
The exceptions are those of the properties: a cut through the fields of a commit, a separator in a message, a user's global
rule under deny-all, rows of a table in which a mark of its header or of a message stands, secrets that are not "configured", files that
are renamed, binary, cut off or unreadable in a scan and commits no diff is to be had of, the patterns git refuses and the code accepts, and a persona whose name is
no component of a branch. The assumptions say what the other side writes and what users can ask for: the subject of a commit is one line; `sbx create` names the sandbox
where it says that it created it, or in its hints, or in its last line; ports are positive, no cell of a table is empty, and a secret that is
configured is said to be; rules have ids of their own; agents, workspaces and mounts are not called like a flag of sbx; a persona's servers have names
of their own, and a container that runs has its configuration.

*Only model-checked*: liveness (`StartingResolves`, `AheadNoticed`) and ENABLED, which TLAPS does not treat. `TypeOK` of `MCWorkbench`
joins the type invariants of its three parts; those of the two that change state are proved where they belong (`CatalogTypeOK`,
`RelayTypeOK`).

## What is not modelled

* Cancellation: a handler whose client disconnects is dropped by Axum at an await.
* Errors of SQLite itself, a poisoned mutex, and a full disk other than for the index.
* The text of kits and answers, health checks (never called), listings, the wording of warnings.
* Sandbox ports, logins, policies and templates that pass one argument to sbx and report success.
* What `sbx` prints as JSON: where the program asks for it, it is read field by field, and only the tables of text are modelled.
* `Sessions` leaves out a child whose terminal failed after it was spawned (`pty_bridge.rs:97-105`) and the error of `child.kill`
  (`pty_bridge.rs:294-296`), which is ignored: in both cases the terminal is closed under the child, which normally ends it.
* `add_mcp_server`, `update_mcp_server` and `remove_mcp_server` of `persona_manager.rs`, which no route calls, only tests.
* The volume of a memory container and the metadata row of a repository's credentials, which nothing reads.
* Concurrent requests about memory containers. The model has them (`OneAtATime = FALSE`), but two recreations of
  one container, or a startup that reconciles while memory is being enabled, already break what holds
  otherwise (`mcp_ports` and the hazards at `mcp_container_manager.rs:484` and `routes/mcp_containers.rs:299`), so no
  property about them would hold but the types, which are proved for them too, and requests come one at a time in `mcp`.
* Symbolic links that change, since `Canonical` is constant, and Windows paths; `upload_file` through `sbx cp`, which no request asks for.
* A fetch inside the host that fails, a clone that leaves half a mirror, a directory that cannot be removed, and a clone that
  is given up after 120 s and goes on (`repo_sync_manager.rs:679`): the mirror it makes later is like one the user put there.
* A selection of commits that are not on the mirror's branch: the page offers none.
* The cached status of a deleted repository, which lights the badge for good, is a finding and not a property.
* The encryption and the unused sections of an export file; random ids are taken to be fresh.
* The text of agent types, personas and policies, help texts, the website and packaging.
* The user interface, except which session requests it offers and the order in which it selects commits.

## The plan

1. Done: `Sessions` with its abstract specification, proofs and refinement, composed with
   `SandboxPage`; `VectorStore` with proofs; `McpContainers`; `RepoSync` over `GitRepo`; `Catalog` over `Tables`;
   `PtyRelay`; `SbxText` and `Forms`.
2. Done: the proofs, of every safety property that a passing run checks. Beyond reach are the two liveness properties.
