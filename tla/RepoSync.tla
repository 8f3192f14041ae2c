------------------------------- MODULE RepoSync -------------------------------
(***************************************************************************)
(* Repository synchronisation (repo_sync_manager.rs, routes/repo_sync.rs,  *)
(* repo_credential_manager.rs, git_cli.rs) for the workspace of one        *)
(* persona.  The agent commits in a workspace without remotes; a mirror on *)
(* the host has the remote and the login; requests of the user move        *)
(* commits between the two and the remote; a background task counts what   *)
(* is waiting.  A request is a record of the step it is at and of what it  *)
(* has read; every await of the code is the end of a step.  Handlers that  *)
(* find nothing to do (409 of a busy repository, 404 of a missing row)     *)
(* change nothing and are not started.                                     *)
(***************************************************************************)
EXTENDS GitRepo

CONSTANTS
  Request,     \* requests that may be under way together
  Dir,         \* mirrors directories
  Url,         \* the remote's URL
  Login,       \* logins the user may enter
  Temp,        \* the keyring name of a clone that has no row yet
  Secret,      \* commits in whose changes the scanner finds a pattern
  Menu,        \* the sets of operations, and of events around them, of a behaviour
  NoRow, NoStatus, NoValue,
  DefaultDir,
  MaxRows, MaxRequests, MaxCommits, MaxExits

ASSUME DirAssumption == DefaultDir \in Dir
ASSUME UrlAssumption == Url # {} /\ Url \cap {NoUrl, WsUrl} = {}
ASSUME LoginAssumption == Login # {}
ASSUME MaxRowsAssumption == MaxRows \in Nat \ {0}
ASSUME MaxCommitsAssumption == MaxCommits \in Nat \ {0}
\* A squash commit is newer than the commits that are numbered as they are made.
ASSUME SquashedAssumption == Squashed \in Nat /\ MaxCommits < Squashed

\* ManagedRepoId: each is given to one row only.
RepoId == 1..MaxRows
ASSUME TempAssumption == Temp \notin RepoId

VARIABLES
  menu,      \* the operations of this behaviour
  ws,        \* the workspace's repository (NoRepo before it is cloned)
  wsUrl,     \* the workspace's own remote
  dirty,     \* the workspace has uncommitted changes
  mirror,    \* [Dir -> repository]: <mirrors_dir>/<persona>/<folder>
  mirrorsDir,\* RepoSyncManager.mirrors_dir
  remote,    \* [Branch -> commits] of the remote
  rows,      \* table managed_repos
  keyring,   \* the two entries of each keyring service
  locks,     \* OPERATION_LOCKS
  req,       \* requests under way
  check,     \* the background checker
  status,    \* cached_status
  late,      \* pushes that outlived the command that started them
  made,      \* commits made so far
  peers,     \* commits others pushed to the remote, less those a clone brought along
  used,      \* ids given to rows so far
  count,     \* requests started so far
  exits,     \* times the application ended
  marks      \* history: what the properties must know of the past

vars == <<menu, ws, wsUrl, dirty, mirror, mirrorsDir, remote, rows, keyring,
          locks, req, check, status, late, made, peers, used, count, exits, marks>>
env == <<menu, made, peers, used, count, exits>>
host == <<mirrorsDir, rows, keyring, status>>

\* A free request slot, and the checker between two sweeps.
Idle == [at |-> "idle"]

NoLogin == [user |-> NoValue, secret |-> NoValue]

\* ManagedRepo, without the columns nothing here tells apart.
Row == [dir : Dir, url : Url \cup {NoUrl, WsUrl}, mode : {"remote", "local_only"},
        strategy : {"direct", "feature_branch"}, scan : {"block", "warn_only"}]
ASSUME NoRowAssumption == NoRow \notin Row
NewRow(dir, url) ==
  [dir |-> dir, url |-> url, mode |-> IF url = NoUrl THEN "local_only" ELSE "remote",
   strategy |-> "direct", scan |-> "block"]

Managed == {i \in RepoId : rows[i] # NoRow}
Configured(k) == keyring[k].user # NoValue /\ keyring[k].secret # NoValue
LoginAccepted(k) == Configured(k) /\ keyring[k].user = keyring[k].secret

---------------------------------------------------------------------------
\* A repository that is managed, its agent's commits pulled and waiting to be
\* pushed in menus with pushes; or one that is not managed yet, or none at all.
InitPulled(pulled, strategy) ==
  LET url == CHOOSE u \in Url : TRUE
      login == CHOOSE l \in Login : TRUE
      g == Cloned(url, 1..pulled, [NoRefs EXCEPT ![Main] = {1}])
  IN  /\ made = pulled
      /\ ws = [g EXCEPT !.origin = NoUrl]
      /\ wsUrl = NoUrl
      /\ mirror = [d \in Dir |-> IF d = DefaultDir THEN g ELSE NoRepo]
      /\ rows = [i \in RepoId |-> IF i = 1 THEN [NewRow(DefaultDir, url) EXCEPT !.strategy = strategy]
                                 ELSE NoRow]
      /\ keyring = [k \in RepoId \cup {Temp} |-> IF k = 1 THEN [user |-> login, secret |-> login]
                                               ELSE NoLogin]
      /\ used = 1
InitEnabled ==
  IF "push" \in menu
  THEN \E pulled \in 1..MaxCommits, strategy \in {"direct", "feature_branch"} : InitPulled(pulled, strategy)
  ELSE InitPulled(1, "direct")
InitUnmanaged ==
  /\ ws \in {NoRepo, Cloned(NoUrl, {1}, NoRefs)}
  /\ wsUrl \in IF ws = NoRepo THEN {NoUrl} ELSE Url \cup {NoUrl}
  /\ mirror = [d \in Dir |-> NoRepo]
  /\ rows = [i \in RepoId |-> NoRow]
  /\ keyring = [k \in RepoId \cup {Temp} |-> NoLogin]
  /\ used = 0 /\ made = 1
Init ==
  /\ menu \in Menu
  /\ IF "enable" \in menu THEN InitUnmanaged ELSE InitEnabled
  /\ dirty = FALSE
  /\ mirrorsDir = DefaultDir
  /\ remote = [NoRefs EXCEPT ![Main] = {1}]
  /\ locks = {} /\ late = {}
  /\ req = [r \in Request |-> Idle]
  /\ check = Idle
  /\ status = [i \in RepoId |-> NoStatus]
  /\ peers = {} /\ count = 0 /\ exits = 0
  /\ marks = IF wsUrl = NoUrl THEN {} ELSE {"own url"}

---------------------------------------------------------------------------
\* Requests.  Start takes a free slot, Step moves a request on, Finish answers.
Start(r, op, rec) ==
  /\ op \in menu /\ count < MaxRequests
  /\ req[r] = Idle
  /\ req' = [req EXCEPT ![r] = rec]
  /\ count' = count + 1
Step(r, rec) == req' = [req EXCEPT ![r] = rec]
At(r, at) == req[r].at = at
GoTo(r, at) == req' = [req EXCEPT ![r].at = at]
Finish(r) == req' = [req EXCEPT ![r] = Idle]
SetMirror(d, g) == mirror' = [mirror EXCEPT ![d] = g]

\* OperationGuard: taken before anything is read, released when dropped.
\* Mutant: the lock is taken whether it is held or not.
AcquireAnyway(i) == locks' = locks \cup {i}
Acquire(i) == i \notin locks /\ locks' = locks \cup {i}
FinishSync(r) == Finish(r) /\ locks' = locks \ {req[r].id}

\* GitCli::exec refuses a path without a repository.
Present(d) == mirror[d] # NoRepo

---------------------------------------------------------------------------
\* pull_from_agent: fetch of the workspace, --ff-only merge, regular merge.
StartPull(r, i) ==
  /\ rows[i] # NoRow
  /\ Acquire(i)
  /\ Start(r, "pull", [at |-> "pull fetch", id |-> i, dir |-> rows[i].dir])
  /\ UNCHANGED <<menu, ws, wsUrl, dirty, mirror, remote, host, check, late, made, peers, used, exits, marks>>

\* Mutant: the pull fetches the remote as well as the workspace.
PullFetchBoth(r) ==
  LET d == req[r].dir IN
  /\ At(r, "pull fetch") /\ Present(d) /\ ws # NoRepo
  /\ SetMirror(d, [FetchOrigin(mirror[d], remote) EXCEPT !.fetched = @ \cup ws.head])
  /\ Step(r, [at |-> "pull ff", id |-> req[r].id, dir |-> d])
  /\ UNCHANGED <<env, ws, wsUrl, dirty, remote, host, locks, check, late, marks>>
PullFetch(r) ==
  LET d == req[r].dir IN
  /\ At(r, "pull fetch")
  /\ \/ /\ Present(d) /\ ws # NoRepo
        /\ SetMirror(d, FetchPath(mirror[d], ws.head))
        /\ Step(r, [at |-> "pull ff", id |-> req[r].id, dir |-> d])
        /\ UNCHANGED locks
     \/ /\ FinishSync(r)        \* the fetch failed
        /\ UNCHANGED mirror
  /\ UNCHANGED <<env, ws, wsUrl, dirty, remote, host, check, late, marks>>

PullFastForward(r) ==
  LET d == req[r].dir IN
  /\ At(r, "pull ff")
  /\ \/ /\ Present(d) /\ CanFastForward(mirror[d])
        /\ SetMirror(d, FastForward(mirror[d]))
        /\ FinishSync(r)
     \/ /\ Present(d) /\ MayRefuseFastForward(mirror[d])
        /\ GoTo(r, "pull merge")
        /\ UNCHANGED <<mirror, locks>>
     \/ /\ ~Present(d)
        /\ FinishSync(r)
        /\ UNCHANGED mirror
  /\ UNCHANGED <<env, ws, wsUrl, dirty, remote, host, check, late, marks>>

\* Mutant: what cannot be fast-forwarded is reset to FETCH_HEAD.
PullReset(r) ==
  LET d == req[r].dir IN
  /\ At(r, "pull merge") /\ Present(d)
  /\ FinishSync(r)
  /\ SetMirror(d, [mirror[d] EXCEPT !.head = mirror[d].fetched])
  /\ UNCHANGED <<env, ws, wsUrl, dirty, remote, host, check, late, marks>>
PullMerge(r) ==
  LET d == req[r].dir IN
  /\ At(r, "pull merge")
  /\ FinishSync(r)
  /\ IF Present(d) THEN \E g \in MergeOutcomes(mirror[d]) : SetMirror(d, g)
     ELSE UNCHANGED mirror
  /\ UNCHANGED <<env, ws, wsUrl, dirty, remote, host, check, late, marks>>

---------------------------------------------------------------------------
\* The page offers what list_commits found on the branch, newest first, and keeps
\* that order in the list it asks to push; when the list is old, some of it may
\* have been pushed by now.
Selectable(d) == IF Present(d) THEN mirror[d].head ELSE {}
FirstOf(S) == CHOOSE c \in S : \A o \in S : o <= c
LastOf(S) == CHOOSE c \in S : \A o \in S : c <= o

\* SecretScanner::scan_commits compares the parent of the first commit of the
\* list with the last one: an empty or reversed range when the first is newer.
Scanned(head, S) == {c \in head : FirstOf(S) <= c /\ c <= LastOf(S)}
Findings(head, S) == Scanned(head, S) \cap Secret

\* list_remote_branch_names (git branch -r), and resolve_branch_name: the first
\* name of the pattern that is not among the remote branches the mirror knows of.
KnownBranches(g) == {b \in Branch : g.tracking[b] # {}}
ResolveBranch(g) ==
  LET free == {i \in DOMAIN Feature : Feature[i] \notin KnownBranches(g)}
  IN  {Feature[i] : i \in {i \in free : \A j \in free : i <= j}}

\* push_to_remote, up to the first command that changes anything: the row, the
\* login, the scan and the branch.
StartPush(r, i, S, squash) ==
  LET row == rows[i]
      g == mirror[row.dir]
      branches == IF row.strategy = "feature_branch" THEN ResolveBranch(g) ELSE {g.branch}
  IN
  /\ row # NoRow /\ Configured(i)
  /\ Present(row.dir) /\ S # {} /\ S \subseteq Selectable(row.dir)
  /\ row.scan = "block" => Findings(g.head, S) = {}
  /\ Acquire(i)
  /\ \E b \in branches :
       Start(r, "push", [at |-> IF squash /\ Cardinality(S) > 1 THEN "push reset"
                                ELSE IF row.strategy = "feature_branch" THEN "push branch"
                                ELSE "push",
                         id |-> i, dir |-> row.dir, selected |-> S, branch |-> b,
                         feature |-> row.strategy = "feature_branch"])
  /\ UNCHANGED <<menu, ws, wsUrl, dirty, mirror, remote, host, check, late, made, peers, used, exits, marks>>

\* squash_commits: the soft reset, then the commit of what it left staged.
PushReset(r) ==
  LET d == req[r].dir IN
  /\ At(r, "push reset")
  /\ \/ /\ Present(d) /\ mirror[d].merging = {} /\ Squashed \notin mirror[d].head
        /\ SoftReset(mirror[d], FirstOf(req[r].selected)).head # {}
        /\ SetMirror(d, SoftReset(mirror[d], FirstOf(req[r].selected)))
        /\ GoTo(r, "push commit")
        /\ UNCHANGED locks
     \/ /\ FinishSync(r)
        /\ UNCHANGED mirror
  /\ UNCHANGED <<env, ws, wsUrl, dirty, remote, host, check, late, marks>>

PushCommit(r) ==
  LET d == req[r].dir IN
  /\ At(r, "push commit")
  /\ \/ /\ Present(d) /\ mirror[d].staged # {}
        /\ SetMirror(d, CommitStaged(mirror[d]))
        /\ GoTo(r, IF req[r].feature THEN "push branch" ELSE "push")
        /\ UNCHANGED locks
     \/ /\ FinishSync(r)        \* no identity, a hook, a timeout
        /\ UNCHANGED mirror
  /\ UNCHANGED <<env, ws, wsUrl, dirty, remote, host, check, late, marks>>

PushBranch(r) ==
  LET d == req[r].dir IN
  /\ At(r, "push branch")
  /\ \/ /\ Present(d) /\ mirror[d].merging = {}
        /\ SetMirror(d, Checkout(mirror[d], req[r].branch))
        /\ GoTo(r, "push")
        /\ UNCHANGED locks
     \/ /\ FinishSync(r)
        /\ UNCHANGED mirror
  /\ UNCHANGED <<env, ws, wsUrl, dirty, remote, host, check, late, marks>>

\* git push with the login that beachead-askpass reads from the keyring while
\* it runs; a command given up after 120 s is not killed and may still land.
Pushed(d, b) ==
  /\ remote' = [remote EXCEPT ![b] = mirror[d].head]
  /\ SetMirror(d, [mirror[d] EXCEPT !.tracking[b] = mirror[d].head])
\* Mutant: git push --force.
CanForce(d, i, b) == Present(d) /\ mirror[d].origin \in Url /\ LoginAccepted(i)
CanPush(d, i, b) ==
  Present(d) /\ mirror[d].origin \in Url /\ LoginAccepted(i) /\ PushAccepted(mirror[d].head, remote, b)

\* Mutant: the tracking ref is moved before the remote has accepted the push.
PushUnconfirmed(r) ==
  LET d == req[r].dir IN
  /\ At(r, "push") /\ Present(d)
  /\ FinishSync(r)
  /\ SetMirror(d, [mirror[d] EXCEPT !.tracking[req[r].branch] = mirror[d].head])
  /\ UNCHANGED <<env, ws, wsUrl, dirty, remote, host, check, late, marks>>
Push(r) ==
  LET d == req[r].dir
      b == req[r].branch IN
  /\ At(r, "push")
  /\ FinishSync(r)
  /\ \/ /\ CanPush(d, req[r].id, b)
        /\ Pushed(d, b)
        /\ UNCHANGED late
     \/ /\ CanPush(d, req[r].id, b)
        /\ late' = late \cup {[dir |-> d, branch |-> b, head |-> mirror[d].head]}
        /\ UNCHANGED <<mirror, remote>>
     \/ UNCHANGED <<mirror, remote, late>>  \* refused, or no answer from the remote
  /\ UNCHANGED <<env, ws, wsUrl, dirty, host, check, marks>>

\* The process that outlived its command ends; nobody reads its answer.
LatePush(p) ==
  /\ p \in late
  /\ late' = late \ {p}
  /\ \/ /\ PushAccepted(p.head, remote, p.branch)
        /\ remote' = [remote EXCEPT ![p.branch] = p.head]
        /\ mirror' = IF Present(p.dir) THEN [mirror EXCEPT ![p.dir].tracking[p.branch] = p.head]
                     ELSE mirror
     \/ UNCHANGED <<mirror, remote>>
  /\ UNCHANGED <<env, ws, wsUrl, dirty, host, locks, req, check, marks>>

---------------------------------------------------------------------------
\* A fetch of the remote replaces FETCH_HEAD, which a pull may be about to merge.
Pulling(d) == \E r \in Request : (At(r, "pull ff") \/ At(r, "pull merge")) /\ req[r].dir = d
Refetched(d) == marks' = IF Pulling(d) THEN marks \cup {"refetched"} ELSE marks

\* fetch_from_remote: only the tracking refs and FETCH_HEAD change.
FetchRemote(r, i) ==
  LET d == rows[i].dir IN
  /\ rows[i] # NoRow
  /\ i \notin locks
  /\ "fetch" \in menu /\ count < MaxRequests /\ req[r] = Idle /\ count' = count + 1
  /\ Present(d) /\ mirror[d].origin \in Url /\ LoginAccepted(i)
  /\ SetMirror(d, FetchOrigin(mirror[d], remote))
  /\ Refetched(d)
  /\ UNCHANGED <<menu, ws, wsUrl, dirty, remote, host, locks, req, check, late, made, peers, used, exits>>

\* push_to_agent: `git status` and, when the workspace is clean, `git pull` of
\* the mirror's branch; the agent may work in the workspace in between.
StartPushToAgent(r, i) ==
  /\ rows[i] # NoRow /\ Present(rows[i].dir) /\ ws # NoRepo /\ ~dirty
  /\ Acquire(i)
  /\ Start(r, "agent", [at |-> "agent pull", id |-> i, dir |-> rows[i].dir])
  /\ UNCHANGED <<menu, ws, wsUrl, dirty, mirror, remote, host, check, late, made, peers, used, exits, marks>>

PullIntoWorkspace(r) ==
  /\ At(r, "agent pull")
  /\ FinishSync(r)
  /\ \/ /\ Present(req[r].dir) /\ ws # NoRepo /\ ~dirty
        /\ \E g \in MergeOutcomes(FetchPath(ws, mirror[req[r].dir].head)) : ws' = g
     \/ UNCHANGED ws
  /\ UNCHANGED <<env, wsUrl, dirty, mirror, remote, host, check, late, marks>>

---------------------------------------------------------------------------
\* enable, enable_agent_created and create_from_source all refuse a mirror path
\* that exists, and then clone to it.  A clone finds it taken when another
\* request came first, fails, and removes what it finds there.
EnableSteps == {"enable clone", "enable origin", "enable strip", "enable row",
                "create clone", "create retry", "create workspace", "create row"}
Enabling(r) == req[r].at \in EnableSteps
\* Mutant: the mirror's path is not looked at before the clone.
StartAnyway(r, op, rec, mark) ==
  /\ Start(r, op, rec)
  /\ marks' = marks \cup mark \cup IF \E o \in Request : Enabling(o) THEN {"overlap"} ELSE {}
StartEnabling(r, op, rec, mark) ==
  /\ ~Present(mirrorsDir)
  /\ Start(r, op, rec)
  /\ marks' = marks \cup mark \cup IF \E o \in Request : Enabling(o) THEN {"overlap"} ELSE {}

\* enable_repo: a workspace with remotes is enabled with its own URL, one
\* without, or whose remotes could not be listed, with the URL the user gives,
\* or with none to keep it local.
StartEnable(r, url) ==
  /\ ws # NoRepo
  /\ \E own \in BOOLEAN :
       /\ IF own THEN url # NoUrl /\ url = wsUrl ELSE url \in Url \cup {NoUrl}
       /\ StartEnabling(r, "enable", [at |-> "enable clone", dir |-> mirrorsDir, url |-> url, own |-> own],
                        IF own \/ wsUrl = NoUrl THEN {} ELSE {"no origin"})
  /\ UNCHANGED <<menu, ws, wsUrl, dirty, mirror, remote, host, locks, check, late, made, peers,
                 used, exits>>

EnableClone(r) ==
  LET d == req[r].dir IN
  /\ At(r, "enable clone")
  /\ \/ /\ ~Present(d) /\ ws # NoRepo
        /\ SetMirror(d, Cloned(WsUrl, ws.head, [NoRefs EXCEPT ![Main] = ws.head]))
        /\ GoTo(r, "enable origin")
     \/ /\ SetMirror(d, NoRepo)
        /\ Finish(r)
  /\ UNCHANGED <<env, ws, wsUrl, dirty, remote, host, locks, check, late, marks>>

\* Mutant: the workspace is stripped although the mirror keeps the clone's origin.
EnableSetUrlLater(r) ==
  /\ At(r, "enable origin") /\ req[r].own
  /\ GoTo(r, "enable strip")
  /\ UNCHANGED <<env, ws, wsUrl, dirty, mirror, remote, host, locks, check, late, marks>>

\* enable, of a workspace with remotes: `remote set-url`, whose error is dropped.
EnableSetUrl(r) ==
  LET d == req[r].dir IN
  /\ At(r, "enable origin") /\ req[r].own
  /\ \/ /\ Present(d)
        /\ SetMirror(d, [mirror[d] EXCEPT !.origin = req[r].url])
        /\ UNCHANGED marks
     \/ /\ marks' = marks \cup {"no origin"}
        /\ UNCHANGED mirror
  /\ GoTo(r, "enable strip")
  /\ UNCHANGED <<env, ws, wsUrl, dirty, remote, host, locks, check, late>>

\* enable_agent_created: `remote remove`, whose error is dropped and which takes
\* the tracking refs along, and with a URL `remote add`.
EnableLink(r) ==
  LET d == req[r].dir IN
  /\ At(r, "enable origin") /\ ~req[r].own
  /\ \/ /\ Present(d)
        /\ SetMirror(d, [mirror[d] EXCEPT !.origin = req[r].url, !.linked = FALSE, !.tracking = NoRefs])
        /\ GoTo(r, "enable strip")
     \/ /\ ~Present(d) /\ req[r].url = NoUrl
        /\ GoTo(r, "enable strip")
        /\ UNCHANGED mirror
     \/ /\ req[r].url # NoUrl
        /\ SetMirror(d, NoRepo)
        /\ Finish(r)
  /\ UNCHANGED <<env, ws, wsUrl, dirty, remote, host, locks, check, late, marks>>

EnableStrip(r) ==
  /\ At(r, "enable strip")
  /\ wsUrl' = NoUrl
  /\ GoTo(r, "enable row")
  /\ UNCHANGED <<env, ws, dirty, mirror, remote, host, locks, check, late, marks>>

\* Mutant: the table accepts a second row for the workspace.
InsertAnyway(r, row) ==
  /\ Finish(r)
  /\ used < MaxRows
  /\ used' = used + 1
  /\ rows' = [rows EXCEPT ![used + 1] = row]

\* insert_managed_repo: UNIQUE(persona_id, workspace_path).
InsertRow(r, row) ==
  /\ Finish(r)
  /\ IF Managed = {}
     THEN /\ used < MaxRows
          /\ used' = used + 1
          /\ rows' = [rows EXCEPT ![used + 1] = row]
     ELSE UNCHANGED <<rows, used>>

EnableRow(r) ==
  /\ At(r, "enable row")
  /\ InsertRow(r, NewRow(req[r].dir, req[r].url))
  /\ UNCHANGED <<menu, ws, wsUrl, dirty, mirror, mirrorsDir, remote, keyring, status, locks,
                 check, late, made, peers, count, exits, marks>>

\* create_from_source: mirror from the URL, workspace from the mirror, row.  A
\* login is kept under a temporary name while the URL is cloned.
StartCreate(r, url, login) ==
  /\ StartEnabling(r, "create", [at |-> "create clone", dir |-> mirrorsDir, url |-> url,
                                 login |-> login], {})
  /\ keyring' = IF login = NoValue THEN keyring
                ELSE [keyring EXCEPT ![Temp] = [user |-> login, secret |-> login]]
  /\ UNCHANGED <<menu, ws, wsUrl, dirty, mirror, mirrorsDir, remote, rows, status, locks, check,
                 late, made, peers, used, exits>>

\* The keyring accepts the user name of the temporary login, refuses the secret,
\* and does not let the user name be removed again.
CreateRefused(r, login) ==
  /\ "create" \in menu /\ count < MaxRequests /\ req[r] = Idle /\ count' = count + 1
  /\ ~Present(mirrorsDir)
  /\ keyring' = [keyring EXCEPT ![Temp].user = login]
  /\ marks' = marks \cup {"kept entry"}
  /\ UNCHANGED <<menu, ws, wsUrl, dirty, mirror, mirrorsDir, remote, rows, status, locks, req,
                 check, late, made, peers, used, exits>>

\* delete_credentials of a temporary login, whose error is dropped: either of its
\* two deletions may be refused, the second is then not tried.
Remains(k) == {NoLogin, keyring[k], [keyring[k] EXCEPT !.user = NoValue]}
ForgetTemp(r) ==
  IF req[r].login = NoValue THEN UNCHANGED <<keyring, marks>>
  ELSE \E left \in Remains(Temp) :
         /\ keyring' = [keyring EXCEPT ![Temp] = left]
         /\ marks' = IF left = NoLogin THEN marks ELSE marks \cup {"kept entry"}

\* The errors of a missing askpass binary and of a second attempt that takes
\* longer than 120 s are returned before the temporary login is deleted.
GiveUp(r) ==
  /\ req[r].login # NoValue
  /\ Finish(r)
  /\ marks' = marks \cup {"gave up"}
  /\ UNCHANGED <<keyring, mirror, peers>>

\* A request whose temporary login is in the keyring.
HasTemp(r) == (At(r, "create clone") \/ At(r, "create retry")) /\ req[r].login # NoValue

Clone(r) ==
  /\ ~Present(req[r].dir)
  /\ SetMirror(req[r].dir, Cloned(req[r].url, remote[Main], remote))
  /\ ForgetTemp(r)
  /\ GoTo(r, "create workspace")
  /\ peers' = peers \ UNION {remote[b] : b \in Branch}

\* The first attempt is made without the login; its directory is removed when it
\* fails, and with a login there is a second.
CreateClone(r) ==
  /\ At(r, "create clone")
  /\ \/ Clone(r)
     \/ /\ SetMirror(req[r].dir, NoRepo)
        /\ IF req[r].login = NoValue THEN Finish(r) ELSE GoTo(r, "create retry")
        /\ UNCHANGED <<keyring, marks, peers>>
     \/ GiveUp(r)
  /\ UNCHANGED <<menu, made, used, count, exits, ws, wsUrl, dirty, mirrorsDir, rows, status, remote, locks, check, late>>

CreateRetry(r) ==
  /\ At(r, "create retry")
  /\ \/ Clone(r)
     \/ /\ SetMirror(req[r].dir, NoRepo)
        /\ ForgetTemp(r)
        /\ Finish(r)
        /\ UNCHANGED peers
     \/ GiveUp(r)
  /\ UNCHANGED <<menu, made, used, count, exits, ws, wsUrl, dirty, mirrorsDir, rows, status, remote, locks, check, late>>

CreateWorkspace(r) ==
  LET d == req[r].dir IN
  /\ At(r, "create workspace")
  /\ \/ /\ ws = NoRepo /\ Present(d)
        /\ ws' = Cloned(NoUrl, mirror[d].head, NoRefs)
        /\ GoTo(r, "create row")
        /\ UNCHANGED mirror
     \/ /\ SetMirror(d, NoRepo)
        /\ Finish(r)
        /\ UNCHANGED ws
  /\ UNCHANGED <<env, wsUrl, dirty, host, remote, locks, check, late, marks>>

\* The row, and then the login under the row's own name.  The error of storing it
\* is dropped: it may be there, not at all, or its user name alone.
CreateRow(r) ==
  LET d == req[r].dir
      login == req[r].login IN
  /\ At(r, "create row")
  /\ InsertRow(r, NewRow(d, IF Present(d) THEN mirror[d].origin ELSE NoUrl))
  /\ \E entry \in {[user |-> login, secret |-> login], [user |-> login, secret |-> NoValue], NoLogin} :
       keyring' = [k \in DOMAIN keyring |->
                     IF k = used' /\ used' # used /\ login # NoValue /\ rows'[k].url # NoUrl
                     THEN entry ELSE keyring[k]]
  /\ UNCHANGED <<menu, ws, wsUrl, dirty, mirror, mirrorsDir, remote, status, locks, check, late,
                 made, peers, count, exits, marks>>

---------------------------------------------------------------------------
\* delete_repo: it does not take the operation lock.  The two entries of the login
\* one after the other, where the first refusal of the keyring ends the attempt and
\* is dropped; the row; and then, when asked to, the directory the row named.
StartDelete(r, i, delMirror) ==
  /\ rows[i] # NoRow
  /\ \E refused \in BOOLEAN :
       /\ Start(r, "delete", [at |-> IF refused THEN "delete row" ELSE "delete secret",
                              id |-> i, dir |-> rows[i].dir, rm |-> delMirror])
       /\ keyring' = IF refused THEN keyring ELSE [keyring EXCEPT ![i].user = NoValue]
       /\ marks' = IF refused THEN marks \cup {"kept entry"} ELSE marks
  /\ UNCHANGED <<menu, ws, wsUrl, dirty, mirror, mirrorsDir, remote, rows, status, locks, check,
                 late, made, peers, used, exits>>

DeleteSecret(r) ==
  /\ At(r, "delete secret")
  /\ \/ /\ keyring' = [keyring EXCEPT ![req[r].id].secret = NoValue]
        /\ UNCHANGED marks
     \/ /\ marks' = marks \cup {"kept entry"}
        /\ UNCHANGED keyring
  /\ GoTo(r, "delete row")
  /\ UNCHANGED <<env, ws, wsUrl, dirty, mirror, mirrorsDir, remote, rows, status, locks, check, late>>

DeleteRow(r) ==
  /\ At(r, "delete row")
  /\ rows' = [rows EXCEPT ![req[r].id] = NoRow]
  /\ IF rows[req[r].id] # NoRow /\ req[r].rm THEN GoTo(r, "delete mirror") ELSE Finish(r)
  /\ UNCHANGED <<env, ws, wsUrl, dirty, mirror, mirrorsDir, remote, keyring, status, locks, check,
                 late, marks>>

DeleteMirror(r) ==
  /\ At(r, "delete mirror")
  /\ SetMirror(req[r].dir, NoRepo)
  /\ marks' = marks \cup {"deleted"}
  /\ Finish(r)
  /\ UNCHANGED <<env, ws, wsUrl, dirty, remote, host, locks, check, late>>

---------------------------------------------------------------------------
\* set_credentials: the repository must exist; then the two keyring entries, one
\* after the other.  When the second cannot be written the first is removed, unless
\* the keyring refuses that too.
StartSetLogin(r, i, login) ==
  /\ rows[i] # NoRow
  /\ Start(r, "login", [at |-> "login secret", id |-> i, login |-> login])
  /\ keyring' = [keyring EXCEPT ![i].user = login]
  /\ marks' = IF \E o \in Request : At(o, "login secret") THEN marks \cup {"two logins"} ELSE marks
  /\ UNCHANGED <<menu, ws, wsUrl, dirty, mirror, mirrorsDir, remote, rows, status, locks, check,
                 late, made, peers, used, exits>>

TooLate(i) ==
  IF rows[i] = NoRow \/ \E o \in Request : At(o, "delete secret") \/ At(o, "delete row")
  THEN {"late login"} ELSE {}
\* Mutant: the new user name stays when the secret cannot be written.
SetSecretOnly(r) ==
  LET i == req[r].id IN
  /\ At(r, "login secret")
  /\ \/ keyring' = [keyring EXCEPT ![i].secret = req[r].login]
     \/ UNCHANGED keyring
  /\ marks' = marks \cup TooLate(i)
  /\ Finish(r)
  /\ UNCHANGED <<env, ws, wsUrl, dirty, mirror, mirrorsDir, remote, rows, status, locks, check, late>>
SetSecret(r) ==
  LET i == req[r].id IN
  /\ At(r, "login secret")
  /\ \/ /\ \/ keyring' = [keyring EXCEPT ![i].secret = req[r].login]
           \/ keyring' = [keyring EXCEPT ![i].user = NoValue]
        /\ marks' = marks \cup TooLate(i)
     \/ /\ marks' = marks \cup {"kept entry"}
        /\ UNCHANGED keyring
  /\ Finish(r)
  /\ UNCHANGED <<env, ws, wsUrl, dirty, mirror, mirrorsDir, remote, rows, status, locks, check, late>>

\* delete_credentials, of the keyring: it does not ask whether the row exists, and
\* answers the error of a refused deletion.
DeleteLogin(r, i) ==
  /\ keyring[i] # NoLogin
  /\ Start(r, "login", [at |-> "forget secret", id |-> i])
  /\ keyring' = [keyring EXCEPT ![i].user = NoValue]
  /\ UNCHANGED <<menu, ws, wsUrl, dirty, mirror, mirrorsDir, remote, rows, status, locks,
                 check, late, made, peers, used, exits, marks>>
ForgetSecret(r) ==
  /\ At(r, "forget secret")
  /\ \/ keyring' = [keyring EXCEPT ![req[r].id].secret = NoValue]
     \/ UNCHANGED keyring
  /\ Finish(r)
  /\ UNCHANGED <<env, ws, wsUrl, dirty, mirror, mirrorsDir, remote, rows, status, locks, check,
                 late, marks>>

\* update_repo reads the row and writes all its settings back.  Only a request that
\* sets the mode has the URL and the login checked.
StartUpdate(r, i, change) ==
  /\ rows[i] # NoRow
  /\ (change.mode = "remote" /\ rows[i].mode # "remote") => change.url # NoUrl /\ Configured(i)
  /\ Start(r, "update", [at |-> "update write", id |-> i, row |-> change])
  /\ UNCHANGED <<menu, ws, wsUrl, dirty, mirror, remote, host, locks, check, late, made, peers, used, exits, marks>>

\* update_managed_repo does not write mirror_path.
UpdateWrite(r) ==
  LET i == req[r].id IN
  /\ At(r, "update write")
  /\ rows' = IF rows[i] = NoRow THEN rows
             ELSE [rows EXCEPT ![i] = [req[r].row EXCEPT !.dir = rows[i].dir]]
  /\ Finish(r)
  /\ UNCHANGED <<env, ws, wsUrl, dirty, mirror, mirrorsDir, remote, keyring, status, locks, check,
                 late, marks>>

\* update_mirrors_dir: rows below the old directory name the new one; nothing is
\* moved on disk.
UpdateMirrorsDir(r, d) ==
  /\ "mirrors dir" \in menu /\ count < MaxRequests /\ req[r] = Idle /\ count' = count + 1
  /\ d # mirrorsDir
  /\ mirrorsDir' = d
  /\ rows' = [i \in RepoId |-> IF rows[i] # NoRow /\ rows[i].dir = mirrorsDir
                              THEN [rows[i] EXCEPT !.dir = d] ELSE rows[i]]
  /\ marks' = marks \cup {"moved"}
  /\ UNCHANGED <<menu, ws, wsUrl, dirty, mirror, remote, keyring, status, locks, req, check, late,
                 made, peers, used, exits>>

---------------------------------------------------------------------------
\* start_background_checker: a sweep over a copy of the rows, without the
\* operation lock.  Its two fetches overwrite FETCH_HEAD like any other.  The
\* fetch between two repositories of the host is taken to succeed.
StartCheck(i) ==
  /\ "check" \in menu /\ check = Idle /\ rows[i] # NoRow
  /\ check' = [at |-> "workspace", id |-> i, dir |-> rows[i].dir, mode |-> rows[i].mode,
               workspace |-> FALSE, remote |-> FALSE]
  /\ UNCHANGED <<env, ws, wsUrl, dirty, mirror, remote, host, locks, req, late, marks>>

\* ahead_behind: one of two branches has commits the other lacks.
Ahead(head, other) == ~(head \subseteq other)
CheckAt(at) == check.at = at

CheckWorkspace ==
  /\ CheckAt("workspace")
  /\ IF Present(check.dir) /\ ws # NoRepo
     THEN /\ SetMirror(check.dir, FetchPath(mirror[check.dir], ws.head))
          /\ check' = [check EXCEPT !.at = "count"]
     ELSE /\ check' = [check EXCEPT !.at = "remote"]
          /\ UNCHANGED mirror
  /\ UNCHANGED <<env, ws, wsUrl, dirty, remote, host, locks, req, late, marks>>

\* Mutant: the two sides of the count are swapped.
CheckCountSwapped ==
  /\ CheckAt("count")
  /\ check' = [check EXCEPT !.at = "remote",
       !.workspace = Present(check.dir) /\ Ahead(mirror[check.dir].head, mirror[check.dir].fetched)]
  /\ UNCHANGED <<env, ws, wsUrl, dirty, mirror, remote, host, locks, req, late, marks>>
CheckCount ==
  /\ CheckAt("count")
  /\ check' = [check EXCEPT !.at = "remote",
       !.workspace = Present(check.dir) /\ Ahead(mirror[check.dir].fetched, mirror[check.dir].head)]
  /\ UNCHANGED <<env, ws, wsUrl, dirty, mirror, remote, host, locks, req, late, marks>>

CheckRemote ==
  /\ CheckAt("remote")
  /\ \/ /\ check.mode = "remote" /\ Present(check.dir)
        /\ mirror[check.dir].origin \in Url /\ LoginAccepted(check.id)
        /\ SetMirror(check.dir, FetchOrigin(mirror[check.dir], remote))
        /\ Refetched(check.dir)
        /\ check' = [check EXCEPT !.at = "behind"]
     \/ /\ check' = [check EXCEPT !.at = "store"]    \* skipped, or no answer
        /\ UNCHANGED <<mirror, marks>>
  /\ UNCHANGED <<env, ws, wsUrl, dirty, remote, host, locks, req, late>>

CheckBehind ==
  LET g == mirror[check.dir] IN
  /\ CheckAt("behind")
  /\ check' = [check EXCEPT !.at = "store",
                            !.remote = Present(check.dir) /\ Ahead(g.tracking[g.branch], g.head)]
  /\ UNCHANGED <<env, ws, wsUrl, dirty, mirror, remote, host, locks, req, late, marks>>

CheckStore ==
  /\ CheckAt("store")
  /\ status' = [status EXCEPT ![check.id] = [workspace |-> check.workspace, remote |-> check.remote]]
  /\ check' = Idle
  /\ UNCHANGED <<env, ws, wsUrl, dirty, mirror, mirrorsDir, remote, rows, keyring, locks, req, late, marks>>

\* list_repos, and has_pending: the badge of the sidebar.
ListRepos ==
  {[id |-> i, sync_status |-> status[i], configured |-> Configured(i),
    mirror_exists |-> Present(rows[i].dir)] : i \in Managed}
HasPending == \E i \in RepoId : status[i] # NoStatus /\ (status[i].workspace \/ status[i].remote)

---------------------------------------------------------------------------
\* The agent, other people, and the user at a terminal.
AgentEdits ==
  /\ "agent" \in menu /\ ws # NoRepo /\ ~dirty
  /\ dirty' = TRUE
  /\ UNCHANGED <<env, ws, wsUrl, mirror, remote, host, locks, req, check, late, marks>>
AgentCommits ==
  /\ "commit" \in menu /\ ws # NoRepo /\ made < MaxCommits
  /\ made' = made + 1
  /\ ws' = [ws EXCEPT !.head = @ \cup {made + 1} \cup ws.merging, !.merging = {}]
  /\ dirty' = FALSE
  /\ UNCHANGED <<menu, peers, used, count, exits, wsUrl, mirror, remote, host, locks, req, check, late, marks>>

\* Somebody pushes to the main branch, or makes a branch of it.
OthersPush(b) ==
  /\ "others" \in menu /\ made < MaxCommits
  /\ b # Main => remote[b] = {}
  /\ made' = made + 1
  /\ peers' = peers \cup {made + 1}
  /\ remote' = [remote EXCEPT ![b] = @ \cup remote[Main] \cup {made + 1}]
  /\ UNCHANGED <<menu, used, count, exits, ws, wsUrl, dirty, mirror, host, locks, req, check, late, marks>>

\* A conflict in the mirror is resolved, or its merge aborted, by hand.
ResolveMirror(d) ==
  /\ Present(d) /\ mirror[d].merging # {}
  /\ \E more \in {{}, mirror[d].merging} :
       SetMirror(d, [mirror[d] EXCEPT !.head = @ \cup more, !.merging = {}])
  /\ UNCHANGED <<env, ws, wsUrl, dirty, remote, host, locks, req, check, late, marks>>

\* The user moves the mirrors after changing the mirrors directory.  A mirror
\* brings its FETCH_HEAD along, and may arrive where a request is cloning to.
MoveMirror(d, e) ==
  /\ "mirrors dir" \in menu
  /\ Present(d) /\ ~Present(e) /\ mirrorsDir = e
  /\ mirror' = [mirror EXCEPT ![e] = mirror[d], ![d] = NoRepo]
  /\ marks' = marks \cup (IF Pulling(e) THEN {"refetched"} ELSE {})
                    \cup (IF \E r \in Request : Enabling(r) /\ req[r].dir = e THEN {"overlap"} ELSE {})
  /\ UNCHANGED <<env, ws, wsUrl, dirty, remote, host, locks, req, check, late>>

\* The application ends and is started again.  What it had started of git goes
\* on; the mirrors directory is not stored (server.rs).
Exit ==
  /\ "exit" \in menu /\ exits < MaxExits
  /\ exits' = exits + 1
  /\ late' = late \cup {[dir |-> req[r].dir, branch |-> req[r].branch, head |-> mirror[req[r].dir].head] :
                         r \in {r \in Request : At(r, "push") /\ CanPush(req[r].dir, req[r].id, req[r].branch)}}
  /\ marks' = marks \cup (IF \E r \in Request : At(r, "login secret") THEN {"torn login"} ELSE {})
                    \cup (IF \E r \in Request : HasTemp(r) THEN {"gave up"} ELSE {})
  /\ req' = [r \in Request |-> Idle]
  /\ locks' = {}
  /\ check' = Idle
  /\ status' = [i \in RepoId |-> NoStatus]
  /\ mirrorsDir' = DefaultDir
  /\ UNCHANGED <<menu, made, peers, used, count, ws, wsUrl, dirty, mirror, remote, rows, keyring>>

---------------------------------------------------------------------------
\* A request of the settings page: the URL of a repository that had none, or
\* another value of one setting.
Changes(row) ==
  {[row EXCEPT !.url = u] : u \in IF row.url = NoUrl THEN Url ELSE {}}
    \cup {[row EXCEPT !.mode = m] : m \in {"remote", "local_only"}}
    \cup {[row EXCEPT !.strategy = t] : t \in {"direct", "feature_branch"}}
    \cup {[row EXCEPT !.scan = c] : c \in {"block", "warn_only"}}

UserAsks(r) ==
  \/ \E i \in Managed :
       \/ StartPull(r, i) \/ FetchRemote(r, i) \/ StartPushToAgent(r, i)
       \/ \E S \in SUBSET Selectable(rows[i].dir), squash \in BOOLEAN :
            StartPush(r, i, S, squash)
       \/ \E rm \in BOOLEAN : StartDelete(r, i, rm)
       \/ \E l \in Login : StartSetLogin(r, i, l)
       \/ \E change \in Changes(rows[i]) : StartUpdate(r, i, change)
  \/ \E i \in 1..used : DeleteLogin(r, i)
  \/ \E url \in Url \cup {NoUrl} : StartEnable(r, url)
  \/ \E url \in Url, l \in Login \cup {NoValue} : StartCreate(r, url, l)
  \/ \E l \in Login : CreateRefused(r, l)
  \/ \E d \in Dir : UpdateMirrorsDir(r, d)

RequestSteps(r) ==
  \/ PullFetch(r) \/ PullFastForward(r) \/ PullMerge(r)
  \/ PushReset(r) \/ PushCommit(r) \/ PushBranch(r) \/ Push(r)
  \/ PullIntoWorkspace(r)
  \/ EnableClone(r) \/ EnableSetUrl(r) \/ EnableLink(r) \/ EnableStrip(r) \/ EnableRow(r)
  \/ CreateClone(r) \/ CreateRetry(r) \/ CreateWorkspace(r) \/ CreateRow(r)
  \/ DeleteSecret(r) \/ DeleteRow(r) \/ DeleteMirror(r)
  \/ SetSecret(r) \/ ForgetSecret(r) \/ UpdateWrite(r)

Checker ==
  \/ \E i \in RepoId : StartCheck(i)
  \/ CheckWorkspace \/ CheckCount \/ CheckRemote \/ CheckBehind \/ CheckStore

Next ==
  \/ \E r \in Request : UserAsks(r) \/ RequestSteps(r)
  \/ \E p \in late : LatePush(p)
  \/ Checker
  \/ AgentEdits \/ AgentCommits
  \/ \E b \in Branch : OthersPush(b)
  \/ \E d \in Dir : ResolveMirror(d)
  \/ \E d, e \in Dir : MoveMirror(d, e)
  \/ Exit

\* The checker is a loop of a task of its own with a timeout on every command,
\* and a handler runs to its end unless the application does not.
Fairness == WF_vars(Checker) /\ \A r \in Request : WF_vars(RequestSteps(r))

Spec == Init /\ [][Next]_vars /\ Fairness

---------------------------------------------------------------------------
Commits == 1..MaxCommits \cup {Squashed}
Repo == [origin : Url \cup {NoUrl, WsUrl}, linked : BOOLEAN, branch : Branch,
         head : SUBSET Commits, tracking : [Branch -> SUBSET Commits],
         fetched : SUBSET Commits, merging : SUBSET Commits, staged : SUBSET Commits,
         squash : SUBSET Commits]
ASSUME NoRepoAssumption == NoRepo \notin Repo

PullRequests == [at : {"pull fetch", "pull ff", "pull merge", "agent pull"}, id : RepoId, dir : Dir]
PushRequests ==
  [at : {"push reset", "push commit", "push branch", "push"}, id : RepoId, dir : Dir,
   selected : SUBSET Commits, branch : Branch, feature : BOOLEAN]
EnableRequests ==
  [at : {"enable clone", "enable origin", "enable strip", "enable row"}, dir : Dir,
   url : Url \cup {NoUrl}, own : BOOLEAN]
CreateRequests ==
  [at : {"create clone", "create retry", "create workspace", "create row"}, dir : Dir, url : Url,
   login : Login \cup {NoValue}]
DeleteRequests == [at : {"delete secret", "delete row", "delete mirror"}, id : RepoId, dir : Dir, rm : BOOLEAN]
LoginRequests == [at : {"login secret"}, id : RepoId, login : Login]
ForgetRequests == [at : {"forget secret"}, id : RepoId]
UpdateRequests == [at : {"update write"}, id : RepoId, row : Row]
Requests ==
  {Idle} \cup PullRequests \cup PushRequests \cup EnableRequests \cup CreateRequests
    \cup DeleteRequests \cup LoginRequests \cup ForgetRequests \cup UpdateRequests

Checks ==
  {Idle} \cup [at : {"workspace", "count", "remote", "behind", "store"}, id : RepoId, dir : Dir,
               mode : {"remote", "local_only"}, workspace : BOOLEAN, remote : BOOLEAN]
EnvTyped ==
  /\ menu \in Menu /\ dirty \in BOOLEAN
  /\ made \in 1..MaxCommits /\ peers \subseteq 2..made
ReposTyped ==
  /\ ws \in Repo \cup {NoRepo}
  /\ mirror \in [Dir -> Repo \cup {NoRepo}]
  /\ remote \in [Branch -> SUBSET Commits]
  /\ late \subseteq [dir : Dir, branch : Branch, head : SUBSET Commits]
HostTyped ==
  /\ wsUrl \in Url \cup {NoUrl} /\ mirrorsDir \in Dir
  /\ used \in 0..MaxRows
  /\ rows \in [RepoId -> Row \cup {NoRow}]
  /\ keyring \in [RepoId \cup {Temp} -> [user : Login \cup {NoValue}, secret : Login \cup {NoValue}]]
  /\ status \in [RepoId -> {NoStatus} \cup [workspace : BOOLEAN, remote : BOOLEAN]]
TasksTyped == req \in [Request -> Requests] /\ check \in Checks
\* A workspace has one row; ids are given out once, and only those are in use.
IdsGiven ==
  /\ \A i, j \in Managed : i = j
  /\ Managed \subseteq 1..used /\ locks \subseteq 1..used
  /\ check # Idle => check.id \in 1..used

\* Every variable has its type; a workspace has one row, an id that was given out.
TypeOK == EnvTyped /\ ReposTyped /\ HostTyped /\ TasksTyped /\ IdsGiven

\* While a mirror exists it never loses a commit it received: whatever pulls,
\* squashes, failed commits, the background checker and restarts do to it, the
\* commit stays on the branch, or staged, or inside the squash commit
\* (pull_from_agent, squash_commits).
MirrorKeepsCommits ==
  [][\A d \in Dir : Present(d) /\ Present(d)' => Holds(mirror[d]) \subseteq Holds(mirror[d])']_vars

\* No push of the application, one that was given up and lands later included,
\* takes a commit off a branch of the remote, even when another person made a
\* branch of the name that was resolved for a feature branch.
RemoteKeepsCommits ==
  [][\A b \in Branch : remote[b] \subseteq remote'[b]]_vars

\* A commit somebody else pushed gets on a mirror's branch in one way only: a
\* fetch of the remote came between the two steps of a pull, and the pull merged
\* its FETCH_HEAD (or that of a mirror which was moved there meanwhile).  No
\* operation merges what fetch_from_remote fetched.
OthersOnlyByRace ==
  "refetched" \notin marks => \A d \in Dir : Present(d) => mirror[d].head \cap peers = {}

\* What a mirror takes for pushed is on the remote, so that every commit the
\* remote lacks is listed for review, unless the mirror was cloned from a
\* workspace that had the remote: its tracking refs then are the workspace's.
NothingHidden ==
  "own url" \notin marks =>
    \A d \in Dir : Present(d) /\ mirror[d].origin \in Url =>
      \A b \in Branch : mirror[d].tracking[b] \subseteq remote[b]

\* The remote of a workspace is not forgotten when its remotes are removed: until
\* the user deletes the mirror, the workspace or a mirror knows it, also when the
\* application ends between any two steps or the row is refused.  (The exceptions:
\* the URL could not be read or set, or an enabling request met another one or a
\* mirror that the user moved to its path.)
RemoteNotForgotten ==
  "own url" \in marks /\ marks \cap {"no origin", "overlap", "deleted"} = {} =>
    \/ wsUrl # NoUrl
    \/ \E d \in Dir : Present(d) /\ mirror[d].origin \in Url

\* A row's mirror exists, in every order of enabling, deleting and ending the
\* application, unless two enabling requests met or the directory was changed.
RowHasMirror ==
  marks \cap {"overlap", "moved"} = {} => \A repo \in ListRepos : repo.mirror_exists

\* The user name and the secret of a complete login belong together, except while
\* a new one is being written.
LoginNotMixed ==
  marks \cap {"two logins", "torn login", "kept entry"} = {} =>
    \A i \in RepoId : Configured(i) =>
      \/ keyring[i].user = keyring[i].secret
      \/ \E r \in Request : At(r, "login secret") /\ req[r].id = i

\* A deleted repository leaves no entry behind, nor a clone one of its temporary login.
NoLoginLeft ==
  /\ marks \cap {"late login", "kept entry"} = {} =>
       \A i \in RepoId : rows[i] = NoRow /\ keyring[i] # NoLogin =>
         \/ "torn login" \in marks
         \/ \E r \in Request : At(r, "login secret") /\ req[r].id = i
  /\ marks \cap {"gave up", "kept entry"} = {} /\ keyring[Temp] # NoLogin =>
       \E r \in Request : HasTemp(r)

\* A complete login in the keyring is the user name and the secret of the same
\* login, and a deleted repository or a finished clone leaves neither entry behind,
\* though a login is two entries written and deleted one after the other.  Excepted
\* are two requests that write at the same time, an end of the application between
\* the entries, a login stored while its repository is deleted, a clone that was
\* given up, and an entry the keyring refused to delete.
LoginsWhole == LoginNotMixed /\ NoLoginLeft

\* Synchronising requests of one row exclude each other, each holds the row's
\* lock while it runs, and no lock outlives the request that took it.
SyncSteps == {"pull fetch", "pull ff", "pull merge", "push reset", "push commit",
              "push branch", "push", "agent pull"}
Syncing(r) == req[r].at \in SyncSteps
SyncExclusive ==
  /\ \A r1, r2 \in Request : Syncing(r1) /\ Syncing(r2) /\ req[r1].id = req[r2].id => r1 = r2
  /\ locks = {req[r].id : r \in {r \in Request : Syncing(r)}}

\* The code lists commits newest first and squashes as if they came oldest first:
\* doc comment of push_to_remote, "creates a squash commit combining selected
\* commits".  What is about to be committed should hold the whole selection.
SquashHasSelection ==
  \A r \in Request : At(r, "push commit") /\ Present(req[r].dir) =>
    req[r].selected \subseteq mirror[req[r].dir].staged

\* What the agent committed is noticed: the badge lights, or the commits reach the
\* mirror, or there is no row with a mirror any more.
Behind(i) ==
  rows[i] # NoRow /\ Present(rows[i].dir) /\ ws # NoRepo /\ Ahead(ws.head, mirror[rows[i].dir].head)
AheadNoticed == \A i \in RepoId : ("check" \in menu /\ Behind(i)) ~> (HasPending \/ ~Behind(i))
=============================================================================
