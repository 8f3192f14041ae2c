--------------------------- MODULE RepoSyncProofs ---------------------------
(***************************************************************************)
(* Type correctness of RepoSync, and what holds of its mirrors, its remote *)
(* and its locks for every number of requests, directories, commits, rows  *)
(* and restarts.                                                           *)
(***************************************************************************)
EXTENDS RepoSync, TLAPS

---------------------------------------------------------------------------
(* Repositories: what a git command makes of one is a repository that still    *)
(* holds its commits.                                                          *)

Keeps(g, h) == h \in Repo /\ Holds(g) \subseteq Holds(h)

LEMMA BranchFacts == Main \in Branch /\ \A i \in DOMAIN Feature : Feature[i] \in Branch
BY DEF Branch

LEMMA SquashedCommit == Squashed \in Commits
BY DEF Commits

LEMMA NoRefsTyped == NoRefs \in [Branch -> SUBSET Commits]
BY DEF NoRefs

LEMMA ClonedTyped ==
  ASSUME NEW url \in Url \cup {NoUrl, WsUrl}, NEW head \in SUBSET Commits,
         NEW refs \in [Branch -> SUBSET Commits]
  PROVE  Cloned(url, head, refs) \in Repo
BY BranchFacts DEF Cloned, Repo

LEMMA FetchPathKeeps ==
  ASSUME NEW g \in Repo, NEW head \in SUBSET Commits
  PROVE  Keeps(g, FetchPath(g, head))
BY DEF FetchPath, Repo, Keeps, Holds

LEMMA FetchOriginKeeps ==
  ASSUME NEW g \in Repo, NEW refs \in [Branch -> SUBSET Commits]
  PROVE  Keeps(g, FetchOrigin(g, refs))
<1>1. [b \in Branch |-> IF refs[b] = {} THEN g.tracking[b] ELSE refs[b]]
        \in [Branch -> SUBSET Commits]
  BY DEF Repo
<1>2. (IF g.linked /\ g.branch = Main THEN refs[Main] ELSE {}) \in SUBSET Commits
  BY BranchFacts
<1> QED BY <1>1, <1>2 DEF FetchOrigin, Repo, Keeps, Holds

LEMMA FastForwardKeeps ==
  ASSUME NEW g \in Repo
  PROVE  Keeps(g, FastForward(g))
BY DEF FastForward, Repo, Keeps, Holds

LEMMA MergeOutcomesKeep ==
  ASSUME NEW g \in Repo, NEW h \in MergeOutcomes(g)
  PROVE  Keeps(g, h)
<1>1. Keeps(g, g)
  BY DEF Keeps
<1>2. Keeps(g, [g EXCEPT !.merging = g.fetched])
  BY DEF Repo, Keeps, Holds
<1> QED BY <1>1, <1>2, FastForwardKeeps DEF MergeOutcomes

LEMMA SoftResetKeeps ==
  ASSUME NEW g \in Repo, NEW c, Squashed \notin g.head
  PROVE  Keeps(g, SoftReset(g, c))
BY DEF SoftReset, Repo, Keeps, Holds

LEMMA CommitStagedKeeps ==
  ASSUME NEW g \in Repo
  PROVE  Keeps(g, CommitStaged(g))
<1>1. CommitStaged(g) \in Repo
  BY SquashedCommit DEF CommitStaged, Repo
<1>2. Holds(g) \subseteq Holds(CommitStaged(g))
  BY DEF CommitStaged, Repo, Holds
<1> QED BY <1>1, <1>2 DEF Keeps

LEMMA CheckoutKeeps ==
  ASSUME NEW g \in Repo, NEW b \in Branch
  PROVE  Keeps(g, Checkout(g, b))
BY DEF Checkout, Repo, Keeps, Holds

LEMMA TrackingKeeps ==
  ASSUME NEW g \in Repo, NEW b \in Branch, NEW head \in SUBSET Commits
  PROVE  Keeps(g, [g EXCEPT !.tracking[b] = head])
<1>1. [g.tracking EXCEPT ![b] = head] \in [Branch -> SUBSET Commits]
  BY DEF Repo
<1> QED BY <1>1 DEF Repo, Keeps, Holds

LEMMA OriginKeeps ==
  ASSUME NEW g \in Repo, NEW url \in Url \cup {NoUrl}
  PROVE  /\ Keeps(g, [g EXCEPT !.origin = url])
         /\ Keeps(g, [g EXCEPT !.origin = url, !.linked = FALSE, !.tracking = NoRefs])
BY NoRefsTyped DEF Repo, Keeps, Holds

LEMMA ResolvedKeeps ==
  ASSUME NEW g \in Repo, NEW more \in {{}, g.merging}
  PROVE  Keeps(g, [g EXCEPT !.head = @ \cup more, !.merging = {}])
BY DEF Repo, Keeps, Holds

---------------------------------------------------------------------------
(* Records of requests *)

PullAt == {"pull fetch", "pull ff", "pull merge", "agent pull"}
PushAt == {"push reset", "push commit", "push branch", "push"}
EnableAt == {"enable clone", "enable origin", "enable strip", "enable row"}
CreateAt == {"create clone", "create retry", "create workspace", "create row"}
DeleteAt == {"delete secret", "delete row", "delete mirror"}

\* What the step of a request says about its other fields.
LEMMA RequestKinds ==
  ASSUME NEW q \in Requests
  PROVE  /\ q.at \in PullAt => q \in PullRequests
         /\ q.at \in PushAt => q \in PushRequests
         /\ q.at \in EnableAt => q \in EnableRequests
         /\ q.at \in CreateAt => q \in CreateRequests
         /\ q.at \in DeleteAt => q \in DeleteRequests
         /\ q.at = "login secret" => q \in LoginRequests
         /\ q.at = "forget secret" => q \in ForgetRequests
         /\ q.at = "update write" => q \in UpdateRequests
         /\ q.at = "idle" => q = Idle
<1>1. q \in PullRequests => q.at \in PullAt   BY DEF PullRequests, PullAt
<1>2. q \in PushRequests => q.at \in PushAt   BY DEF PushRequests, PushAt
<1>3. q \in EnableRequests => q.at \in EnableAt   BY DEF EnableRequests, EnableAt
<1>4. q \in CreateRequests => q.at \in CreateAt   BY DEF CreateRequests, CreateAt
<1>5. q \in DeleteRequests => q.at \in DeleteAt   BY DEF DeleteRequests, DeleteAt
<1>6. /\ q \in LoginRequests => q.at = "login secret"
      /\ q \in ForgetRequests => q.at = "forget secret"
  BY DEF LoginRequests, ForgetRequests
<1>7. q \in UpdateRequests => q.at = "update write"   BY DEF UpdateRequests
<1>8. q = Idle => q.at = "idle"   BY DEF Idle
<1>9. q \in {Idle} \cup PullRequests \cup PushRequests \cup EnableRequests \cup CreateRequests
             \cup DeleteRequests \cup LoginRequests \cup ForgetRequests \cup UpdateRequests
  BY DEF Requests
<1> QED
  BY <1>1, <1>2, <1>3, <1>4, <1>5, <1>6, <1>7, <1>8, <1>9
  DEF PullAt, PushAt, EnableAt, CreateAt, DeleteAt

\* A request stays a request when it goes on to a step of its kind.
LEMMA RequestGoesOn ==
  ASSUME NEW q \in Requests, NEW at
  PROVE  /\ q.at \in PullAt /\ at \in PullAt => [q EXCEPT !.at = at] \in Requests
         /\ q.at \in PushAt /\ at \in PushAt => [q EXCEPT !.at = at] \in Requests
         /\ q.at \in EnableAt /\ at \in EnableAt => [q EXCEPT !.at = at] \in Requests
         /\ q.at \in CreateAt /\ at \in CreateAt => [q EXCEPT !.at = at] \in Requests
         /\ q.at \in DeleteAt /\ at \in DeleteAt => [q EXCEPT !.at = at] \in Requests
<1>1. q \in PullRequests /\ at \in PullAt => [q EXCEPT !.at = at] \in PullRequests
  BY DEF PullRequests, PullAt
<1>2. q \in PushRequests /\ at \in PushAt => [q EXCEPT !.at = at] \in PushRequests
  BY DEF PushRequests, PushAt
<1>3. q \in EnableRequests /\ at \in EnableAt => [q EXCEPT !.at = at] \in EnableRequests
  BY DEF EnableRequests, EnableAt
<1>4. q \in CreateRequests /\ at \in CreateAt => [q EXCEPT !.at = at] \in CreateRequests
  BY DEF CreateRequests, CreateAt
<1>5. q \in DeleteRequests /\ at \in DeleteAt => [q EXCEPT !.at = at] \in DeleteRequests
  BY DEF DeleteRequests, DeleteAt
<1> QED BY <1>1, <1>2, <1>3, <1>4, <1>5, RequestKinds DEF Requests

---------------------------------------------------------------------------
(* Mirrors *)

\* What a step may do to the mirrors.
MirrorStep ==
  /\ mirror' \in [Dir -> Repo \cup {NoRepo}]
  /\ \A d \in Dir : mirror[d] # NoRepo /\ mirror'[d] # NoRepo => Keeps(mirror[d], mirror'[d])

LEMMA PresentTyped ==
  ASSUME ReposTyped, NEW d \in Dir, Present(d)
  PROVE  /\ mirror[d] \in Repo /\ mirror[d].head \in SUBSET Commits
         /\ mirror[d].fetched \in SUBSET Commits /\ mirror[d].merging \in SUBSET Commits
         /\ mirror[d].tracking \in [Branch -> SUBSET Commits] /\ mirror[d].branch \in Branch
         /\ mirror[d].origin \in Url \cup {NoUrl, WsUrl}
BY DEF ReposTyped, Present, Repo

LEMMA SameMirror ==
  ASSUME ReposTyped, UNCHANGED mirror
  PROVE  MirrorStep
BY DEF ReposTyped, MirrorStep, Keeps

LEMMA KeptMirror ==
  ASSUME ReposTyped, NEW d \in Dir, NEW g, Keeps(mirror[d], g), SetMirror(d, g)
  PROVE  MirrorStep
BY DEF ReposTyped, MirrorStep, Keeps, SetMirror

LEMMA NewMirror ==
  ASSUME ReposTyped, NEW d \in Dir, ~Present(d), NEW g \in Repo, SetMirror(d, g)
  PROVE  MirrorStep
BY DEF ReposTyped, MirrorStep, Keeps, SetMirror, Present

LEMMA NoMirror ==
  ASSUME ReposTyped, NEW d \in Dir, SetMirror(d, NoRepo)
  PROVE  MirrorStep
BY DEF ReposTyped, MirrorStep, Keeps, SetMirror

---------------------------------------------------------------------------
(* What the start of a request leaves alone *)

\* How a request may start.
LEMMA UserCases ==
  ASSUME NEW r \in Request, UserAsks(r)
  PROVE  \/ \E i \in Managed : StartPull(r, i) \/ FetchRemote(r, i) \/ StartPushToAgent(r, i)
         \/ \E i, S, squash : StartPush(r, i, S, squash)
         \/ \E i, rm, l, row : StartDelete(r, i, rm) \/ StartSetLogin(r, i, l) \/ StartUpdate(r, i, row)
         \/ \E i, d : DeleteLogin(r, i) \/ UpdateMirrorsDir(r, d) \/ CreateRefused(r, d)
         \/ \E url, l : StartEnable(r, url) \/ StartCreate(r, url, l)
BY DEF UserAsks

\* A deletion is at its second entry, or past the login when the first was refused.
LEMMA DeleteStarts ==
  ASSUME NEW r, NEW i, NEW rm, StartDelete(r, i, rm)
  PROVE  /\ \E at \in {"delete secret", "delete row"} :
              Start(r, "delete", [at |-> at, id |-> i, dir |-> rows[i].dir, rm |-> rm])
         /\ UNCHANGED <<rows, mirrorsDir, locks>>
         /\ rows[i] # NoRow
BY DEF StartDelete

LEMMA UserKeeps ==
  ASSUME NEW r \in Request, UserAsks(r)
  PROVE  UNCHANGED <<menu, dirty, made, peers, ws, remote, late, check>>
<1>1. ASSUME NEW i, StartPull(r, i) \/ FetchRemote(r, i) \/ StartPushToAgent(r, i)
      PROVE  UNCHANGED <<menu, dirty, made, peers, ws, remote, late, check>>
  BY <1>1 DEF StartPull, FetchRemote, StartPushToAgent
<1>2. ASSUME NEW i, NEW S, NEW squash, StartPush(r, i, S, squash)
      PROVE  UNCHANGED <<menu, dirty, made, peers, ws, remote, late, check>>
  BY <1>2 DEF StartPush
<1>3. ASSUME NEW i, NEW rm, NEW l, NEW row, StartDelete(r, i, rm) \/ StartSetLogin(r, i, l) \/ StartUpdate(r, i, row)
      PROVE  UNCHANGED <<menu, dirty, made, peers, ws, remote, late, check>>
  BY <1>3 DEF StartDelete, StartSetLogin, StartUpdate
<1>4. ASSUME NEW i, NEW d, DeleteLogin(r, i) \/ UpdateMirrorsDir(r, d) \/ CreateRefused(r, d)
      PROVE  UNCHANGED <<menu, dirty, made, peers, ws, remote, late, check>>
  BY <1>4 DEF DeleteLogin, CreateRefused, UpdateMirrorsDir
<1>5. ASSUME NEW url, NEW l, StartEnable(r, url) \/ StartCreate(r, url, l)
      PROVE  UNCHANGED <<menu, dirty, made, peers, ws, remote, late, check>>
  BY <1>5 DEF StartEnable, StartCreate
<1> QED BY <1>1, <1>2, <1>3, <1>4, <1>5, UserCases

LEMMA UserKeepsMirror ==
  ASSUME NEW r \in Request, UserAsks(r), \A i \in Managed : ~FetchRemote(r, i)
  PROVE  UNCHANGED mirror
<1>1. ASSUME NEW i, StartPull(r, i) \/ StartPushToAgent(r, i)
      PROVE  UNCHANGED mirror
  BY <1>1 DEF StartPull, StartPushToAgent
<1>2. ASSUME NEW i, NEW S, NEW squash, StartPush(r, i, S, squash)
      PROVE  UNCHANGED mirror
  BY <1>2 DEF StartPush
<1>3. ASSUME NEW i, NEW rm, NEW l, NEW row, StartDelete(r, i, rm) \/ StartSetLogin(r, i, l) \/ StartUpdate(r, i, row)
      PROVE  UNCHANGED mirror
  BY <1>3 DEF StartDelete, StartSetLogin, StartUpdate
<1>4. ASSUME NEW i, NEW d, DeleteLogin(r, i) \/ UpdateMirrorsDir(r, d) \/ CreateRefused(r, d)
      PROVE  UNCHANGED mirror
  BY <1>4 DEF DeleteLogin, CreateRefused, UpdateMirrorsDir
<1>5. ASSUME NEW url, NEW l, StartEnable(r, url) \/ StartCreate(r, url, l)
      PROVE  UNCHANGED mirror
  BY <1>5 DEF StartEnable, StartCreate
<1> QED BY <1>1, <1>2, <1>3, <1>4, <1>5, UserCases

LEMMA UserMarks ==
  ASSUME NEW r \in Request, UserAsks(r)
  PROVE  marks \subseteq marks' /\ UNCHANGED wsUrl
<1>0. ASSUME NEW d, Refetched(d) PROVE marks \subseteq marks'
  BY <1>0 DEF Refetched
<1>1. ASSUME NEW i, StartPull(r, i) \/ FetchRemote(r, i) \/ StartPushToAgent(r, i)
      PROVE  marks \subseteq marks' /\ UNCHANGED wsUrl
  BY <1>0, <1>1 DEF StartPull, FetchRemote, StartPushToAgent
<1>2. ASSUME NEW i, NEW S, NEW squash, StartPush(r, i, S, squash)
      PROVE  marks \subseteq marks' /\ UNCHANGED wsUrl
  BY <1>2 DEF StartPush
<1>3. ASSUME NEW i, NEW rm, NEW l, NEW row, StartDelete(r, i, rm) \/ StartSetLogin(r, i, l) \/ StartUpdate(r, i, row)
      PROVE  marks \subseteq marks' /\ UNCHANGED wsUrl
  BY <1>3 DEF StartDelete, StartSetLogin, StartUpdate
<1>4. ASSUME NEW i, NEW d, DeleteLogin(r, i) \/ UpdateMirrorsDir(r, d) \/ CreateRefused(r, d)
      PROVE  marks \subseteq marks' /\ UNCHANGED wsUrl
  BY <1>4 DEF DeleteLogin, CreateRefused, UpdateMirrorsDir
<1>5. ASSUME NEW url, NEW l, StartEnable(r, url) \/ StartCreate(r, url, l)
      PROVE  marks \subseteq marks' /\ UNCHANGED wsUrl
  BY <1>5 DEF StartEnable, StartCreate, StartEnabling
<1> QED BY <1>1, <1>2, <1>3, <1>4, <1>5, UserCases

LEMMA RequestMirrorStep ==
  ASSUME TypeOK, NEW r \in Request, RequestSteps(r)
  PROVE  MirrorStep
<1>0. /\ req[r] \in Requests /\ ws \in Repo \cup {NoRepo} /\ remote \in [Branch -> SUBSET Commits]
      /\ ReposTyped
      /\ ws # NoRepo => ws.head \in SUBSET Commits
  BY DEF TypeOK, TasksTyped, ReposTyped, Repo
<1>1. ASSUME req[r].at \in PullAt PROVE req[r].dir \in Dir
  BY <1>1, <1>0, RequestKinds DEF PullRequests
<1>2. ASSUME req[r].at \in PushAt
      PROVE  req[r].dir \in Dir /\ req[r].branch \in Branch /\ req[r].selected \in SUBSET Commits
  BY <1>2, <1>0, RequestKinds DEF PushRequests
<1>3. ASSUME req[r].at \in EnableAt PROVE req[r].dir \in Dir /\ req[r].url \in Url \cup {NoUrl}
  BY <1>3, <1>0, RequestKinds DEF EnableRequests
<1>4. ASSUME req[r].at \in CreateAt PROVE req[r].dir \in Dir /\ req[r].url \in Url
  BY <1>4, <1>0, RequestKinds DEF CreateRequests
<1>5. ASSUME req[r].at \in DeleteAt PROVE req[r].dir \in Dir
  BY <1>5, <1>0, RequestKinds DEF DeleteRequests
<1>6. CASE PullFetch(r)
  BY <1>0, <1>1, <1>6, PresentTyped, FetchPathKeeps, KeptMirror, SameMirror
  DEF PullFetch, At, PullAt
<1>7. CASE PullFastForward(r)
  BY <1>0, <1>1, <1>7, PresentTyped, FastForwardKeeps, KeptMirror, SameMirror
  DEF PullFastForward, At, PullAt
<1>8. CASE PullMerge(r)
  BY <1>0, <1>1, <1>8, PresentTyped, MergeOutcomesKeep, KeptMirror, SameMirror
  DEF PullMerge, At, PullAt
<1>9. CASE PushReset(r)
  BY <1>0, <1>2, <1>9, PresentTyped, SoftResetKeeps, KeptMirror, SameMirror
  DEF PushReset, At, PushAt
<1>10. CASE PushCommit(r)
  BY <1>0, <1>2, <1>10, PresentTyped, CommitStagedKeeps, KeptMirror, SameMirror
  DEF PushCommit, At, PushAt
<1>11. CASE PushBranch(r)
  BY <1>0, <1>2, <1>11, PresentTyped, CheckoutKeeps, KeptMirror, SameMirror
  DEF PushBranch, At, PushAt
<1>12. CASE Push(r)
  BY <1>0, <1>2, <1>12, PresentTyped, TrackingKeeps, KeptMirror, SameMirror
  DEF Push, Pushed, CanPush, At, PushAt
<1>13. CASE EnableClone(r)
  <2>1. [NoRefs EXCEPT ![Main] = ws.head] \in [Branch -> SUBSET Commits] \/ ws = NoRepo
    BY <1>0, NoRefsTyped
  <2> QED
    BY <1>0, <1>3, <1>13, <2>1, ClonedTyped, NewMirror, NoMirror DEF EnableClone, At, EnableAt
<1>14. CASE EnableSetUrl(r)
  BY <1>0, <1>3, <1>14, PresentTyped, OriginKeeps, KeptMirror, SameMirror
  DEF EnableSetUrl, At, EnableAt
<1>15. CASE EnableLink(r)
  BY <1>0, <1>3, <1>15, PresentTyped, OriginKeeps, KeptMirror, SameMirror, NoMirror
  DEF EnableLink, At, EnableAt
<1>16. CASE CreateClone(r) \/ CreateRetry(r)
  BY <1>0, <1>4, <1>16, ClonedTyped, BranchFacts, NewMirror, NoMirror, SameMirror
  DEF CreateClone, CreateRetry, Clone, ForgetTemp, GiveUp, At, CreateAt
<1>17. CASE CreateWorkspace(r)
  BY <1>0, <1>4, <1>17, NoMirror, SameMirror DEF CreateWorkspace, At, CreateAt
<1>18. CASE DeleteMirror(r)
  BY <1>0, <1>5, <1>18, NoMirror DEF DeleteMirror, At, DeleteAt
<1>19. CASE PullIntoWorkspace(r) \/ EnableStrip(r) \/ EnableRow(r) \/ CreateRow(r)
              \/ DeleteRow(r) \/ SetSecret(r) \/ ForgetSecret(r) \/ DeleteSecret(r) \/ UpdateWrite(r)
  BY <1>0, <1>19, SameMirror
  DEF PullIntoWorkspace, EnableStrip, EnableRow, CreateRow, DeleteRow, SetSecret, ForgetSecret,
  DeleteSecret, UpdateWrite
<1> QED
  BY <1>6, <1>7, <1>8, <1>9, <1>10, <1>11, <1>12, <1>13, <1>14, <1>15, <1>16, <1>17, <1>18, <1>19
  DEF RequestSteps

LEMMA NextMirrorStep ==
  ASSUME TypeOK, [Next]_vars
  PROVE  MirrorStep
<1>0. ReposTyped /\ TasksTyped /\ HostTyped /\ remote \in [Branch -> SUBSET Commits]
      /\ late \subseteq [dir : Dir, branch : Branch, head : SUBSET Commits]
      /\ (ws # NoRepo => ws.head \in SUBSET Commits)
  BY DEF TypeOK, ReposTyped, Repo
<1>1. ASSUME NEW r \in Request, UserAsks(r) PROVE MirrorStep
  <2>1. ASSUME NEW i \in Managed, FetchRemote(r, i) PROVE MirrorStep
    <3>1. rows[i].dir \in Dir
      BY <1>0 DEF HostTyped, Row, Managed
    <3> QED BY <1>0, <2>1, <3>1, PresentTyped, FetchOriginKeeps, KeptMirror DEF FetchRemote
  <2>2. ~(\E i \in Managed : FetchRemote(r, i)) => UNCHANGED mirror
    BY <1>1, UserKeepsMirror
  <2> QED BY <1>0, <2>1, <2>2, SameMirror
<1>2. ASSUME NEW p \in late, LatePush(p) PROVE MirrorStep
  <2>1. p.dir \in Dir /\ p.branch \in Branch /\ p.head \in SUBSET Commits
    BY <1>0, <1>2
  <2>2. ASSUME Present(p.dir), mirror' = [mirror EXCEPT ![p.dir].tracking[p.branch] = p.head]
        PROVE  SetMirror(p.dir, [mirror[p.dir] EXCEPT !.tracking[p.branch] = p.head])
    BY <2>2 DEF SetMirror
  <2> QED
    BY <1>0, <1>2, <2>1, <2>2, PresentTyped, TrackingKeeps, KeptMirror, SameMirror DEF LatePush
<1>3. CASE Checker
  <2>0. ASSUME check # Idle PROVE check.dir \in Dir
    BY <1>0, <2>0 DEF TasksTyped, Checks
  <2>1. CASE CheckWorkspace
    <3>1. check.dir \in Dir
      BY <2>0, <2>1 DEF CheckWorkspace, CheckAt, Idle
    <3> QED
      BY <1>0, <2>1, <3>1, PresentTyped, FetchPathKeeps, KeptMirror, SameMirror DEF CheckWorkspace
  <2>2. CASE CheckRemote
    <3>1. check.dir \in Dir
      BY <2>0, <2>2 DEF CheckRemote, CheckAt, Idle
    <3> QED
      BY <1>0, <2>2, <3>1, PresentTyped, FetchOriginKeeps, KeptMirror, SameMirror DEF CheckRemote
  <2> QED
    BY <1>0, <1>3, <2>1, <2>2, SameMirror
    DEF Checker, StartCheck, CheckCount, CheckBehind, CheckStore
<1>4. ASSUME NEW d \in Dir, ResolveMirror(d) PROVE MirrorStep
  BY <1>0, <1>4, PresentTyped, ResolvedKeeps, KeptMirror DEF ResolveMirror
<1>5. ASSUME NEW d \in Dir, NEW e \in Dir, MoveMirror(d, e) PROVE MirrorStep
  BY <1>0, <1>5, PresentTyped DEF MoveMirror, MirrorStep, Keeps, Present, ReposTyped
<1>6. CASE AgentEdits \/ AgentCommits \/ (\E b \in Branch : OthersPush(b)) \/ Exit \/ UNCHANGED vars
  BY <1>0, <1>6, SameMirror DEF AgentEdits, AgentCommits, OthersPush, Exit, vars
<1> QED BY <1>1, <1>2, <1>3, <1>4, <1>5, <1>6, RequestMirrorStep DEF Next

---------------------------------------------------------------------------
(* The other variables *)

LEMMA NextEnvTyped ==
  ASSUME TypeOK, [Next]_vars
  PROVE  EnvTyped'
<1>0. EnvTyped /\ MaxCommits \in Nat
  BY MaxCommitsAssumption DEF TypeOK
<1>1. CASE AgentCommits
  <2>1. made' \in 1..MaxCommits /\ 2..made \subseteq 2..made'
    BY <1>0, <1>1 DEF AgentCommits, EnvTyped
  <2> QED BY <1>0, <1>1, <2>1 DEF AgentCommits, EnvTyped
<1>2. ASSUME NEW b \in Branch, OthersPush(b) PROVE EnvTyped'
  BY <1>0, <1>2 DEF OthersPush, EnvTyped
<1>3. CASE AgentEdits
  BY <1>0, <1>3 DEF AgentEdits, EnvTyped, env
<1>4. ASSUME NEW r \in Request, CreateClone(r) \/ CreateRetry(r) PROVE EnvTyped'
  BY <1>0, <1>4 DEF CreateClone, CreateRetry, Clone, ForgetTemp, GiveUp, EnvTyped
<1>5. ASSUME NEW r \in Request, RequestSteps(r), ~CreateClone(r), ~CreateRetry(r)
      PROVE  UNCHANGED <<menu, dirty, made, peers>>
  BY <1>5
  DEF RequestSteps, PullFetch, PullFastForward, PullMerge, PushReset, PushCommit, PushBranch, Push,
      PullIntoWorkspace, EnableClone, EnableSetUrl, EnableLink, EnableStrip, EnableRow,
      CreateWorkspace, CreateRow, DeleteRow, DeleteMirror, SetSecret, ForgetSecret, DeleteSecret,
      UpdateWrite, env
<1>6. ASSUME NEW r \in Request, UserAsks(r) PROVE UNCHANGED <<menu, dirty, made, peers>>
  BY <1>6, UserKeeps
<1>7. ASSUME \/ Checker \/ \E p \in late : LatePush(p)
             \/ \E d \in Dir : ResolveMirror(d)
             \/ \E d, e \in Dir : MoveMirror(d, e)
             \/ Exit \/ UNCHANGED vars
      PROVE  UNCHANGED <<menu, dirty, made, peers>>
  BY <1>7
  DEF Checker, StartCheck, CheckWorkspace, CheckCount, CheckRemote, CheckBehind, CheckStore,
      LatePush, ResolveMirror, MoveMirror, Exit, vars, env
<1>8. ASSUME UNCHANGED <<menu, dirty, made, peers>> PROVE EnvTyped'
  BY <1>0, <1>8 DEF EnvTyped
<1> QED BY <1>1, <1>2, <1>3, <1>4, <1>5, <1>6, <1>7, <1>8 DEF Next

LEMMA NextReposTyped ==
  ASSUME TypeOK, [Next]_vars
  PROVE  ReposTyped'
<1>0. /\ ReposTyped /\ EnvTyped /\ MaxCommits \in Nat
      /\ ws \in Repo \cup {NoRepo} /\ remote \in [Branch -> SUBSET Commits]
      /\ late \subseteq [dir : Dir, branch : Branch, head : SUBSET Commits]
      /\ req \in [Request -> Requests]
  BY MaxCommitsAssumption DEF TypeOK, ReposTyped, TasksTyped
<1>1. mirror' \in [Dir -> Repo \cup {NoRepo}]
  BY NextMirrorStep DEF MirrorStep
<1>2. ASSUME NEW r \in Request, Push(r) PROVE ReposTyped'
  <2>1. req[r].dir \in Dir /\ req[r].branch \in Branch
    <3>1. req[r] \in Requests /\ req[r].at \in PushAt
      BY <1>0, <1>2 DEF Push, At, PushAt
    <3> QED BY <3>1, RequestKinds DEF PushRequests
  <2>2. CanPush(req[r].dir, req[r].id, req[r].branch) => mirror[req[r].dir].head \in SUBSET Commits
    BY <1>0, <2>1, PresentTyped DEF CanPush
  <2>3. remote' \in [Branch -> SUBSET Commits]
    BY <1>0, <1>2, <2>1, <2>2 DEF Push, Pushed
  <2>4. late' \subseteq [dir : Dir, branch : Branch, head : SUBSET Commits]
    BY <1>0, <1>2, <2>1, <2>2 DEF Push, Pushed
  <2> QED BY <1>0, <1>1, <1>2, <2>3, <2>4 DEF Push, ReposTyped
<1>3. ASSUME NEW p \in late, LatePush(p) PROVE ReposTyped'
  BY <1>0, <1>1, <1>3 DEF LatePush, ReposTyped
<1>4. ASSUME NEW r \in Request, PullIntoWorkspace(r) PROVE ReposTyped'
  <2>1. req[r].dir \in Dir
    <3>1. req[r] \in Requests /\ req[r].at \in PullAt
      BY <1>0, <1>4 DEF PullIntoWorkspace, At, PullAt
    <3> QED BY <3>1, RequestKinds DEF PullRequests
  <2>2. ASSUME NEW head \in SUBSET Commits, ws \in Repo PROVE FetchPath(ws, head) \in Repo
    BY <2>2, FetchPathKeeps DEF Keeps
  <2>3. ws' \in Repo \cup {NoRepo}
    <3>1. CASE UNCHANGED ws
      BY <1>0, <3>1
    <3>2. ASSUME Present(req[r].dir), ws # NoRepo,
                 NEW g \in MergeOutcomes(FetchPath(ws, mirror[req[r].dir].head)), ws' = g
          PROVE  ws' \in Repo \cup {NoRepo}
      BY <1>0, <2>1, <2>2, <3>2, PresentTyped, MergeOutcomesKeep DEF Keeps
    <3> QED BY <1>4, <3>1, <3>2 DEF PullIntoWorkspace
  <2> QED BY <1>0, <1>1, <1>4, <2>3 DEF PullIntoWorkspace, ReposTyped
<1>5. ASSUME NEW r \in Request, CreateWorkspace(r) PROVE ReposTyped'
  <2>1. req[r].dir \in Dir
    <3>1. req[r] \in Requests /\ req[r].at \in CreateAt
      BY <1>0, <1>5 DEF CreateWorkspace, At, CreateAt
    <3> QED BY <3>1, RequestKinds DEF CreateRequests
  <2>2. ws' \in Repo \cup {NoRepo}
    <3>1. CASE UNCHANGED ws
      BY <1>0, <3>1
    <3>2. CASE Present(req[r].dir) /\ ws' = Cloned(NoUrl, mirror[req[r].dir].head, NoRefs)
      BY <1>0, <2>1, <3>2, PresentTyped, ClonedTyped, NoRefsTyped
    <3> QED BY <1>5, <3>1, <3>2 DEF CreateWorkspace
  <2> QED BY <1>0, <1>1, <1>5, <2>2 DEF CreateWorkspace, ReposTyped
<1>6. CASE AgentCommits
  <2>1. made + 1 \in Commits
    BY <1>0, <1>6 DEF AgentCommits, EnvTyped, Commits
  <2>2. ws' \in Repo
    BY <1>0, <1>6, <2>1 DEF AgentCommits, Repo
  <2> QED BY <1>0, <1>1, <1>6, <2>2 DEF AgentCommits, ReposTyped
<1>7. ASSUME NEW b \in Branch, OthersPush(b) PROVE ReposTyped'
  <2>1. made + 1 \in Commits
    BY <1>0, <1>7 DEF OthersPush, EnvTyped, Commits
  <2>2. remote' \in [Branch -> SUBSET Commits]
    BY <1>0, <1>7, <2>1, BranchFacts DEF OthersPush
  <2> QED BY <1>0, <1>1, <1>7, <2>2 DEF OthersPush, ReposTyped
<1>8. CASE Exit
  <2>1. ASSUME NEW r \in Request, At(r, "push"), CanPush(req[r].dir, req[r].id, req[r].branch)
        PROVE  [dir |-> req[r].dir, branch |-> req[r].branch, head |-> mirror[req[r].dir].head]
                 \in [dir : Dir, branch : Branch, head : SUBSET Commits]
    <3>0. req[r] \in Requests /\ req[r].at \in PushAt
      BY <1>0, <2>1 DEF At, PushAt
    <3>1. req[r].dir \in Dir /\ req[r].branch \in Branch
      BY <3>0, RequestKinds DEF PushRequests
    <3> QED BY <1>0, <2>1, <3>1, PresentTyped DEF CanPush
  <2>2. late' \subseteq [dir : Dir, branch : Branch, head : SUBSET Commits]
    BY <1>0, <1>8, <2>1 DEF Exit
  <2> QED BY <1>0, <1>1, <1>8, <2>2 DEF Exit, ReposTyped
<1>9. ASSUME NEW r \in Request, RequestSteps(r), ~Push(r), ~PullIntoWorkspace(r), ~CreateWorkspace(r)
      PROVE  UNCHANGED <<ws, remote, late>>
  BY <1>9
  DEF RequestSteps, PullFetch, PullFastForward, PullMerge, PushReset, PushCommit, PushBranch,
      EnableClone, EnableSetUrl, EnableLink, EnableStrip, EnableRow,
      CreateClone, CreateRetry, Clone, ForgetTemp, GiveUp, CreateRow, DeleteRow, DeleteMirror,
      SetSecret, ForgetSecret, DeleteSecret, UpdateWrite
<1>10. ASSUME NEW r \in Request, UserAsks(r) PROVE UNCHANGED <<ws, remote, late>>
  BY <1>10, UserKeeps
<1>11. ASSUME \/ Checker \/ AgentEdits
              \/ \E d \in Dir : ResolveMirror(d)
              \/ \E d, e \in Dir : MoveMirror(d, e)
              \/ UNCHANGED vars
       PROVE  UNCHANGED <<ws, remote, late>>
  BY <1>11
  DEF Checker, StartCheck, CheckWorkspace, CheckCount, CheckRemote, CheckBehind, CheckStore,
      AgentEdits, ResolveMirror, MoveMirror, vars
<1>12. ASSUME UNCHANGED <<ws, remote, late>> PROVE ReposTyped'
  BY <1>0, <1>1, <1>12 DEF ReposTyped
<1> QED
  BY <1>2, <1>3, <1>4, <1>5, <1>6, <1>7, <1>8, <1>9, <1>10, <1>11, <1>12 DEF Next

\* The row and the login a step may write.
LoginEntry == [user : Login \cup {NoValue}, secret : Login \cup {NoValue}]

LEMMA EntryTyped ==
  ASSUME HostTyped, NEW k \in RepoId \cup {Temp}, NEW l \in Login \cup {NoValue}
  PROVE  /\ NoLogin \in LoginEntry /\ [user |-> l, secret |-> l] \in LoginEntry
         /\ [keyring[k] EXCEPT !.user = l] \in LoginEntry
         /\ [keyring[k] EXCEPT !.secret = l] \in LoginEntry
BY DEF HostTyped, LoginEntry, NoLogin

LEMMA KeyringTyped ==
  ASSUME HostTyped, NEW k \in RepoId \cup {Temp}, NEW entry \in LoginEntry
  PROVE  [keyring EXCEPT ![k] = entry] \in [RepoId \cup {Temp} -> LoginEntry]
BY DEF HostTyped, LoginEntry

LEMMA ForgottenTyped ==
  ASSUME HostTyped, NEW k \in RepoId \cup {Temp}
  PROVE  [keyring EXCEPT ![k] = NoLogin] \in [RepoId \cup {Temp} -> LoginEntry]
<1>1. NoLogin \in LoginEntry   BY DEF NoLogin, LoginEntry
<1> QED BY <1>1, KeyringTyped

LEMMA NewRowTyped ==
  ASSUME NEW d \in Dir, NEW url \in Url \cup {NoUrl, WsUrl}
  PROVE  NewRow(d, url) \in Row
BY DEF NewRow, Row

LEMMA ChangesTyped ==
  ASSUME NEW row \in Row, NEW change \in Changes(row)
  PROVE  change \in Row /\ change.dir = row.dir
BY DEF Changes, Row

LEMMA InsertTyped ==
  ASSUME HostTyped, NEW r \in Request, NEW row \in Row, InsertRow(r, row)
  PROVE  rows' \in [RepoId -> Row \cup {NoRow}] /\ used' \in 0..MaxRows
<1>1. CASE UNCHANGED <<rows, used>>
  BY <1>1 DEF HostTyped
<1>2. CASE used < MaxRows /\ used' = used + 1 /\ rows' = [rows EXCEPT ![used + 1] = row]
  BY <1>2, MaxRowsAssumption DEF HostTyped, RepoId
<1> QED BY <1>1, <1>2 DEF InsertRow

LEMMA UsedIds ==
  ASSUME HostTyped, NEW i \in 1..used
  PROVE  i \in RepoId
BY MaxRowsAssumption DEF HostTyped, RepoId

LEMMA NextHostTyped ==
  ASSUME TypeOK, [Next]_vars
  PROVE  HostTyped'
<1>0. HostTyped /\ ReposTyped /\ req \in [Request -> Requests] /\ check \in Checks
  BY DEF TypeOK, TasksTyped
<1> DEFINE R == rows' \in [RepoId -> Row \cup {NoRow}]
           K == keyring' \in [RepoId \cup {Temp} -> LoginEntry]
           S == status' \in [RepoId -> {NoStatus} \cup [workspace : BOOLEAN, remote : BOOLEAN]]
<1>a. ASSUME UNCHANGED rows PROVE R BY <1>0, <1>a DEF HostTyped
<1>b. ASSUME UNCHANGED keyring PROVE K BY <1>0, <1>b DEF HostTyped, LoginEntry
<1>c. ASSUME UNCHANGED status PROVE S BY <1>0, <1>c DEF HostTyped
<1>h. ASSUME R, K, S, wsUrl' \in Url \cup {NoUrl}, mirrorsDir' \in Dir, used' \in 0..MaxRows
      PROVE  HostTyped'
  BY <1>h DEF HostTyped, LoginEntry
<1>1. ASSUME NEW r \in Request, EnableStrip(r) PROVE HostTyped'
  BY <1>0, <1>1, <1>a, <1>b, <1>c, <1>h DEF EnableStrip, host, env, HostTyped
<1>2. ASSUME NEW r \in Request, EnableRow(r) PROVE HostTyped'
  <2>1. req[r] \in EnableRequests
    <3>1. req[r] \in Requests /\ req[r].at \in EnableAt
      BY <1>0, <1>2 DEF EnableRow, At, EnableAt
    <3> QED BY <3>1, RequestKinds
  <2>2. NewRow(req[r].dir, req[r].url) \in Row
    BY <2>1, NewRowTyped DEF EnableRequests
  <2> QED
    BY <1>0, <1>2, <2>2, InsertTyped, <1>b, <1>c, <1>h DEF EnableRow, HostTyped
<1>e. ASSUME NEW k \in RepoId \cup {Temp}, NEW entry \in LoginEntry, keyring' = [keyring EXCEPT ![k] = entry]
      PROVE  K
  BY <1>0, <1>e, KeyringTyped
<1>f. ASSUME NEW k \in RepoId \cup {Temp}, NEW l \in Login \cup {NoValue},
             \/ keyring' = [keyring EXCEPT ![k].user = l]
             \/ keyring' = [keyring EXCEPT ![k].secret = l]
      PROVE  K
  BY <1>0, <1>f, <1>e, EntryTyped
<1>3. ASSUME NEW r \in Request, CreateRow(r) PROVE HostTyped'
  <2> DEFINE url == IF Present(req[r].dir) THEN mirror[req[r].dir].origin ELSE NoUrl
  <2>1. req[r] \in CreateRequests
    <3>1. req[r] \in Requests /\ req[r].at \in CreateAt
      BY <1>0, <1>3 DEF CreateRow, At, CreateAt
    <3> QED BY <3>1, RequestKinds
  <2>2. req[r].dir \in Dir /\ req[r].login \in Login \cup {NoValue}
    BY <2>1 DEF CreateRequests
  <2>3. NewRow(req[r].dir, url) \in Row
    BY <1>0, <2>2, PresentTyped, NewRowTyped
  <2>4. R /\ used' \in 0..MaxRows
    BY <1>0, <1>3, <2>3, InsertTyped DEF CreateRow
  <2> DEFINE login == req[r].login
             Entries == {[user |-> login, secret |-> login], [user |-> login, secret |-> NoValue], NoLogin}
             Stored(entry) ==
               keyring' = [k \in DOMAIN keyring |->
                             IF k = used' /\ used' # used /\ login # NoValue /\ rows'[k].url # NoUrl
                             THEN entry ELSE keyring[k]]
  <2>5. Entries \subseteq LoginEntry
    BY <2>2 DEF LoginEntry, NoLogin
  <2>6. K
    <3>1. PICK entry \in Entries : Stored(entry)
      BY <1>3 DEF CreateRow
    <3> HIDE DEF Entries, login
    <3> QED BY <1>0, <2>5, <3>1 DEF HostTyped, LoginEntry
  <2> QED BY <1>0, <1>3, <2>4, <2>6, <1>c, <1>h DEF CreateRow, HostTyped
<1>4. ASSUME NEW r \in Request, NEW url, NEW l \in Login \cup {NoValue}, StartCreate(r, url, l)
      PROVE  HostTyped'
  <2>1. K
    BY <1>0, <1>4, <1>b, EntryTyped, KeyringTyped DEF StartCreate
  <2> QED BY <1>0, <1>4, <2>1, <1>a, <1>c, <1>h DEF StartCreate, HostTyped
<1>5. ASSUME NEW r \in Request, CreateClone(r) \/ CreateRetry(r) PROVE HostTyped'
  <2>1. K
    <3>1. \/ \E left \in Remains(Temp) : keyring' = [keyring EXCEPT ![Temp] = left]
          \/ UNCHANGED keyring
      BY <1>5 DEF CreateClone, CreateRetry, Clone, ForgetTemp, GiveUp
    <3>2. Remains(Temp) \subseteq LoginEntry
      BY <1>0 DEF Remains, NoLogin, HostTyped, LoginEntry
    <3> QED BY <3>1, <3>2, <1>b, <1>e
  <2>2. UNCHANGED <<wsUrl, used, mirrorsDir, rows, status>>
    BY <1>5 DEF CreateClone, CreateRetry
  <2> QED BY <1>0, <2>1, <2>2, <1>a, <1>c, <1>h DEF HostTyped
<1>6. ASSUME NEW r \in Request, NEW i \in RepoId, NEW rm, StartDelete(r, i, rm) PROVE HostTyped'
  <2>1. K
    BY <1>6, <1>b, <1>f DEF StartDelete
  <2> QED BY <1>0, <1>6, <2>1, <1>a, <1>c, <1>h DEF StartDelete, HostTyped
<1>7. ASSUME NEW r \in Request, DeleteRow(r) PROVE HostTyped'
  <2>1. R
    BY <1>0, <1>7 DEF DeleteRow, HostTyped
  <2> QED BY <1>0, <1>7, <2>1, <1>b, <1>c, <1>h DEF DeleteRow, HostTyped, env
<1>8. ASSUME NEW r \in Request, NEW i \in RepoId, NEW l \in Login, StartSetLogin(r, i, l)
      PROVE  HostTyped'
  <2>1. K
    BY <1>0, <1>8, EntryTyped, KeyringTyped DEF StartSetLogin
  <2> QED BY <1>0, <1>8, <2>1, <1>a, <1>c, <1>h DEF StartSetLogin, HostTyped
<1>9. ASSUME NEW r \in Request, SetSecret(r) \/ ForgetSecret(r) \/ DeleteSecret(r) PROVE HostTyped'
  <2>1. req[r].id \in RepoId /\ (SetSecret(r) => req[r].login \in Login)
    <3>1. /\ req[r] \in Requests
          /\ req[r].at = "login secret" \/ (~SetSecret(r) /\ req[r].at \in {"forget secret", "delete secret"})
      BY <1>0, <1>9 DEF SetSecret, ForgetSecret, DeleteSecret, At
    <3> QED BY <3>1, RequestKinds DEF LoginRequests, ForgetRequests, DeleteRequests, DeleteAt
  <2>2. K
    <3>1. \/ UNCHANGED keyring
          \/ \E l \in Login \cup {NoValue} : \/ keyring' = [keyring EXCEPT ![req[r].id].user = l]
                                           \/ keyring' = [keyring EXCEPT ![req[r].id].secret = l]
      BY <1>9, <2>1 DEF SetSecret, ForgetSecret, DeleteSecret
    <3> QED BY <2>1, <3>1, <1>b, <1>f
  <2> QED BY <1>0, <1>9, <2>2, <1>a, <1>c, <1>h DEF SetSecret, ForgetSecret, DeleteSecret, HostTyped, env
<1>10. ASSUME NEW r \in Request, NEW i \in RepoId, DeleteLogin(r, i) PROVE HostTyped'
  <2>1. K
    BY <1>10, <1>f DEF DeleteLogin
  <2> QED BY <1>0, <1>10, <2>1, <1>a, <1>c, <1>h DEF DeleteLogin, HostTyped
<1>r. ASSUME NEW r \in Request, NEW l \in Login, CreateRefused(r, l) PROVE HostTyped'
  <2>1. K
    BY <1>r, <1>f DEF CreateRefused
  <2> QED BY <1>0, <1>r, <2>1, <1>a, <1>c, <1>h DEF CreateRefused, HostTyped
<1>11. ASSUME NEW r \in Request, UpdateWrite(r) PROVE HostTyped'
  <2>1. req[r].id \in RepoId /\ req[r].row \in Row
    <3>1. req[r] \in Requests /\ req[r].at = "update write"
      BY <1>0, <1>11 DEF UpdateWrite, At
    <3> QED BY <3>1, RequestKinds DEF UpdateRequests
  <2>2. ASSUME rows[req[r].id] # NoRow
        PROVE  [req[r].row EXCEPT !.dir = rows[req[r].id].dir] \in Row
    BY <1>0, <2>1, <2>2 DEF HostTyped, Row
  <2>3. R
    BY <1>0, <1>11, <2>1, <2>2 DEF UpdateWrite, HostTyped
  <2> QED BY <1>0, <1>11, <2>3, <1>b, <1>c, <1>h DEF UpdateWrite, HostTyped, env
<1>12. ASSUME NEW r \in Request, NEW d \in Dir, UpdateMirrorsDir(r, d) PROVE HostTyped'
  <2>1. ASSUME NEW i \in RepoId, rows[i] # NoRow PROVE [rows[i] EXCEPT !.dir = d] \in Row
    BY <1>0, <2>1 DEF HostTyped, Row
  <2>2. R
    BY <1>0, <1>12, <2>1 DEF UpdateMirrorsDir, HostTyped
  <2> QED BY <1>0, <1>12, <2>2, <1>b, <1>c, <1>h DEF UpdateMirrorsDir, HostTyped
<1>13. CASE CheckStore
  <2>1. check.id \in RepoId /\ check.workspace \in BOOLEAN /\ check.remote \in BOOLEAN
    BY <1>0, <1>13 DEF CheckStore, CheckAt, Checks, Idle
  <2>2. S
    BY <1>0, <1>13, <2>1 DEF CheckStore, HostTyped
  <2> QED BY <1>0, <1>13, <2>2, <1>a, <1>b, <1>h DEF CheckStore, HostTyped, env
<1>14. CASE Exit
  <2>1. S
    BY <1>14 DEF Exit
  <2> QED BY <1>0, <1>14, <2>1, <1>a, <1>b, <1>h, DirAssumption DEF Exit, HostTyped
<1>15. ASSUME UNCHANGED <<wsUrl, used, mirrorsDir, rows, keyring, status>> PROVE HostTyped'
  BY <1>0, <1>15 DEF HostTyped
<1>16. ASSUME NEW r \in Request, RequestSteps(r), ~EnableStrip(r), ~EnableRow(r), ~CreateRow(r),
              ~CreateClone(r), ~CreateRetry(r), ~DeleteRow(r), ~SetSecret(r), ~ForgetSecret(r),
              ~DeleteSecret(r), ~UpdateWrite(r)
       PROVE  UNCHANGED <<wsUrl, used, mirrorsDir, rows, keyring, status>>
  BY <1>16
  DEF RequestSteps, PullFetch, PullFastForward, PullMerge, PushReset, PushCommit, PushBranch, Push,
      PullIntoWorkspace, EnableClone, EnableSetUrl, EnableLink, CreateWorkspace, DeleteMirror, env, host
<1>17. ASSUME NEW r \in Request, UserAsks(r) PROVE HostTyped'
  <2> DEFINE Same == UNCHANGED <<wsUrl, used, mirrorsDir, rows, keyring, status>>
  <2>1. /\ \A i : StartPull(r, i) \/ FetchRemote(r, i) \/ StartPushToAgent(r, i) => Same
        /\ \A i, T, squash : StartPush(r, i, T, squash) => Same
        /\ \A i, row : StartUpdate(r, i, row) => Same
        /\ \A url : StartEnable(r, url) => Same
    <3>1. \A i : StartPull(r, i) \/ FetchRemote(r, i) \/ StartPushToAgent(r, i) => Same
      BY DEF StartPull, FetchRemote, StartPushToAgent, host
    <3>2. \A i, T, squash : StartPush(r, i, T, squash) => Same
      BY DEF StartPush, host
    <3>3. \A i, row : StartUpdate(r, i, row) => Same
      BY DEF StartUpdate, host
    <3>4. \A url : StartEnable(r, url) => Same
      BY DEF StartEnable, host
    <3> QED BY <3>1, <3>2, <3>3, <3>4
  <2>2. ASSUME NEW i \in Managed,
               \/ \E rm \in BOOLEAN : StartDelete(r, i, rm)
               \/ \E l \in Login : StartSetLogin(r, i, l)
        PROVE  HostTyped'
    BY <2>2, <1>6, <1>8 DEF Managed
  <2>3. ASSUME NEW url \in Url, NEW l \in Login \cup {NoValue}, StartCreate(r, url, l)
        PROVE  HostTyped'
    BY <2>3, <1>4
  <2>4. ASSUME NEW i \in 1..used, DeleteLogin(r, i) PROVE HostTyped'
    BY <1>0, <2>4, <1>10, UsedIds
  <2>6. ASSUME NEW l \in Login, CreateRefused(r, l) PROVE HostTyped'
    BY <2>6, <1>r
  <2>5. ASSUME NEW d \in Dir, UpdateMirrorsDir(r, d) PROVE HostTyped'
    BY <2>5, <1>12
  <2> QED
    BY <1>15, <1>17, <2>1, <2>2, <2>3, <2>4, <2>5, <2>6 DEF UserAsks
<1>18. ASSUME \/ \E p \in late : LatePush(p)
              \/ Checker /\ ~CheckStore
              \/ AgentEdits \/ AgentCommits
              \/ \E b \in Branch : OthersPush(b)
              \/ \E d \in Dir : ResolveMirror(d)
              \/ \E d, e \in Dir : MoveMirror(d, e)
              \/ UNCHANGED vars
       PROVE  UNCHANGED <<wsUrl, used, mirrorsDir, rows, keyring, status>>
  BY <1>18
  DEF LatePush, Checker, StartCheck, CheckWorkspace, CheckCount, CheckRemote, CheckBehind, AgentEdits,
      AgentCommits, OthersPush, ResolveMirror, MoveMirror, vars, env, host
<1> QED
  BY <1>1, <1>2, <1>3, <1>5, <1>7, <1>9, <1>11, <1>13, <1>14, <1>15, <1>16, <1>17, <1>18 DEF Next

\* What a step may do to the requests.
ReqStep == req' \in [Request -> Requests]

LEMMA SlotTyped ==
  ASSUME TasksTyped, NEW r \in Request
  PROVE  /\ Finish(r) => ReqStep
         /\ FinishSync(r) => ReqStep
         /\ UNCHANGED req => ReqStep
         /\ \A q \in Requests : Step(r, q) => ReqStep
         /\ \A q \in Requests : \A op : Start(r, op, q) => ReqStep
<1>1. Idle \in Requests
  BY DEF Requests
<1> QED BY <1>1 DEF TasksTyped, Finish, FinishSync, Step, Start, ReqStep

LEMMA GoToTyped ==
  ASSUME TasksTyped, NEW r \in Request, NEW at, GoTo(r, at),
         \/ req[r].at \in PullAt /\ at \in PullAt
         \/ req[r].at \in PushAt /\ at \in PushAt
         \/ req[r].at \in EnableAt /\ at \in EnableAt
         \/ req[r].at \in CreateAt /\ at \in CreateAt
         \/ req[r].at \in DeleteAt /\ at \in DeleteAt
  PROVE  ReqStep
<1>1. req[r] \in Requests
  BY DEF TasksTyped
<1>2. [req[r] EXCEPT !.at = at] \in Requests
  BY <1>1, RequestGoesOn
<1> QED BY <1>2 DEF TasksTyped, GoTo, ReqStep

LEMMA RequestStepTyped ==
  ASSUME TypeOK, NEW r \in Request, RequestSteps(r)
  PROVE  ReqStep
<1>0. TasksTyped /\ req[r] \in Requests
  BY DEF TypeOK, TasksTyped
<1>1. CASE PullFetch(r)
  <2>1. req[r] \in PullRequests
    <3>1. req[r].at \in PullAt
      BY <1>1 DEF PullFetch, At, PullAt
    <3> QED BY <1>0, <3>1, RequestKinds
  <2>2. [at |-> "pull ff", id |-> req[r].id, dir |-> req[r].dir] \in Requests
    BY <2>1 DEF PullRequests, Requests
  <2> QED BY <1>0, <1>1, <2>2, SlotTyped DEF PullFetch
<1>2. CASE PullFastForward(r)
  BY <1>0, <1>2, SlotTyped, GoToTyped DEF PullFastForward, At, PullAt
<1>3. CASE PushReset(r)
  BY <1>0, <1>3, SlotTyped, GoToTyped DEF PushReset, At, PushAt
<1>4. CASE PushCommit(r)
  BY <1>0, <1>4, SlotTyped, GoToTyped DEF PushCommit, At, PushAt
<1>5. CASE PushBranch(r)
  BY <1>0, <1>5, SlotTyped, GoToTyped DEF PushBranch, At, PushAt
<1>6. CASE EnableClone(r)
  BY <1>0, <1>6, SlotTyped, GoToTyped DEF EnableClone, At, EnableAt
<1>7. CASE EnableSetUrl(r)
  BY <1>0, <1>7, SlotTyped, GoToTyped DEF EnableSetUrl, At, EnableAt
<1>8. CASE EnableLink(r)
  BY <1>0, <1>8, SlotTyped, GoToTyped DEF EnableLink, At, EnableAt
<1>9. CASE EnableStrip(r)
  BY <1>0, <1>9, SlotTyped, GoToTyped DEF EnableStrip, At, EnableAt
<1>10. CASE CreateClone(r) \/ CreateRetry(r)
  BY <1>0, <1>10, SlotTyped, GoToTyped DEF CreateClone, CreateRetry, Clone, ForgetTemp, GiveUp, At, CreateAt
<1>11. CASE CreateWorkspace(r)
  BY <1>0, <1>11, SlotTyped, GoToTyped DEF CreateWorkspace, At, CreateAt
<1>12. CASE DeleteSecret(r) \/ DeleteRow(r)
  BY <1>0, <1>12, SlotTyped, GoToTyped DEF DeleteSecret, DeleteRow, At, DeleteAt
<1>13. CASE \/ PullMerge(r) \/ Push(r) \/ PullIntoWorkspace(r) \/ EnableRow(r) \/ CreateRow(r)
            \/ DeleteMirror(r) \/ SetSecret(r) \/ ForgetSecret(r) \/ UpdateWrite(r)
  <2>1. Finish(r)
    BY <1>13
    DEF PullMerge, Push, PullIntoWorkspace, EnableRow, CreateRow, InsertRow, DeleteMirror, SetSecret,
        ForgetSecret, UpdateWrite, FinishSync
  <2> QED BY <1>0, <2>1, SlotTyped
<1> QED
  BY <1>1, <1>2, <1>3, <1>4, <1>5, <1>6, <1>7, <1>8, <1>9, <1>10, <1>11, <1>12, <1>13
  DEF RequestSteps

LEMMA UserAsksTyped ==
  ASSUME TypeOK, NEW r \in Request, UserAsks(r)
  PROVE  ReqStep
<1>0. TasksTyped /\ HostTyped /\ ReposTyped
  BY DEF TypeOK
<1>1. ASSUME NEW i \in Managed PROVE i \in RepoId /\ rows[i] \in Row /\ rows[i].dir \in Dir
  BY <1>0, <1>1 DEF HostTyped, Managed, Row
<1>2. ASSUME NEW i \in Managed,
             \/ StartPull(r, i) \/ StartPushToAgent(r, i)
             \/ \E rm \in BOOLEAN : StartDelete(r, i, rm)
             \/ \E l \in Login : StartSetLogin(r, i, l)
             \/ \E change \in Changes(rows[i]) : StartUpdate(r, i, change)
      PROVE  ReqStep
  <2>1. CASE StartPull(r, i)
    <3>1. [at |-> "pull fetch", id |-> i, dir |-> rows[i].dir] \in Requests
      BY <1>1 DEF Requests, PullRequests
    <3> QED BY <1>0, <2>1, <3>1, SlotTyped DEF StartPull
  <2>2. CASE StartPushToAgent(r, i)
    <3>1. [at |-> "agent pull", id |-> i, dir |-> rows[i].dir] \in Requests
      BY <1>1 DEF Requests, PullRequests
    <3> QED BY <1>0, <2>2, <3>1, SlotTyped DEF StartPushToAgent
  <2>3. ASSUME NEW rm \in BOOLEAN, StartDelete(r, i, rm) PROVE ReqStep
    <3>1. PICK at \in {"delete secret", "delete row"} :
            Start(r, "delete", [at |-> at, id |-> i, dir |-> rows[i].dir, rm |-> rm])
      BY <2>3, DeleteStarts
    <3>2. [at |-> at, id |-> i, dir |-> rows[i].dir, rm |-> rm] \in Requests
      BY <1>1 DEF Requests, DeleteRequests
    <3> QED BY <1>0, <3>1, <3>2, SlotTyped
  <2>4. ASSUME NEW l \in Login, StartSetLogin(r, i, l) PROVE ReqStep
    <3>1. [at |-> "login secret", id |-> i, login |-> l] \in Requests
      BY <1>1 DEF Requests, LoginRequests
    <3> QED BY <1>0, <2>4, <3>1, SlotTyped DEF StartSetLogin
  <2>5. ASSUME NEW change \in Changes(rows[i]), StartUpdate(r, i, change) PROVE ReqStep
    <3>1. [at |-> "update write", id |-> i, row |-> change] \in Requests
      BY <1>1, ChangesTyped DEF Requests, UpdateRequests
    <3> QED BY <1>0, <2>5, <3>1, SlotTyped DEF StartUpdate
  <2> QED BY <1>2, <2>1, <2>2, <2>3, <2>4, <2>5
<1>3. ASSUME NEW i \in Managed, NEW S \in SUBSET Selectable(rows[i].dir), NEW squash \in BOOLEAN,
             StartPush(r, i, S, squash)
      PROVE  ReqStep
  <2> DEFINE g == mirror[rows[i].dir]
             row == rows[i]
             branches == IF row.strategy = "feature_branch" THEN ResolveBranch(g) ELSE {g.branch}
             at == IF squash /\ Cardinality(S) > 1 THEN "push reset"
                   ELSE IF row.strategy = "feature_branch" THEN "push branch" ELSE "push"
             q(b) == [at |-> at, id |-> i, dir |-> row.dir, selected |-> S, branch |-> b,
                      feature |-> row.strategy = "feature_branch"]
  <2>1. Present(row.dir) /\ S \subseteq Selectable(row.dir)
    BY <1>3 DEF StartPush
  <2>2. g.branch \in Branch /\ S \in SUBSET Commits
    BY <1>0, <1>1, <2>1, PresentTyped DEF Selectable
  <2>3. branches \subseteq Branch
    BY <2>2, BranchFacts DEF ResolveBranch
  <2>4. at \in PushAt /\ at \in {"push reset", "push commit", "push branch", "push"}
    BY DEF PushAt
  <2>5. PICK b \in branches : Start(r, "push", q(b))
    BY <1>3 DEF StartPush
  <2>6. q(b) \in PushRequests
    <3> HIDE DEF at, branches
    <3> QED BY <1>1, <2>2, <2>3, <2>4, <2>5 DEF PushRequests
  <2>7. q(b) \in Requests
    <3> HIDE DEF q
    <3> QED BY <2>6 DEF Requests
  <2> HIDE DEF q
  <2> QED BY <1>0, <2>5, <2>7, SlotTyped
<1>4. ASSUME NEW url \in Url \cup {NoUrl}, StartEnable(r, url) PROVE ReqStep
  <2>1. PICK own \in BOOLEAN :
          Start(r, "enable", [at |-> "enable clone", dir |-> mirrorsDir, url |-> url, own |-> own])
    BY <1>4 DEF StartEnable, StartEnabling
  <2>2. [at |-> "enable clone", dir |-> mirrorsDir, url |-> url, own |-> own] \in Requests
    BY <1>0 DEF HostTyped, Requests, EnableRequests
  <2> QED BY <1>0, <2>1, <2>2, SlotTyped
<1>5. ASSUME NEW url \in Url, NEW l \in Login \cup {NoValue}, StartCreate(r, url, l) PROVE ReqStep
  <2>1. [at |-> "create clone", dir |-> mirrorsDir, url |-> url, login |-> l] \in Requests
    BY <1>0 DEF HostTyped, Requests, CreateRequests
  <2> QED BY <1>0, <1>5, <2>1, SlotTyped DEF StartCreate, StartEnabling
<1>6. ASSUME \/ \E i \in Managed : FetchRemote(r, i)
             \/ \E l \in Login : CreateRefused(r, l)
             \/ \E d \in Dir : UpdateMirrorsDir(r, d)
      PROVE  ReqStep
  BY <1>0, <1>6, SlotTyped DEF FetchRemote, CreateRefused, UpdateMirrorsDir
<1>7. ASSUME NEW i \in 1..used, DeleteLogin(r, i) PROVE ReqStep
  <2>1. [at |-> "forget secret", id |-> i] \in Requests
    BY <1>0, UsedIds DEF Requests, ForgetRequests
  <2> QED BY <1>0, <1>7, <2>1, SlotTyped DEF DeleteLogin
<1> QED BY <1>2, <1>3, <1>4, <1>5, <1>6, <1>7 DEF UserAsks

LEMMA NextCheckKept ==
  ASSUME [Next]_vars, ~Checker, ~Exit
  PROVE  UNCHANGED check
<1>1. ASSUME NEW r \in Request, RequestSteps(r) PROVE UNCHANGED check
  BY <1>1
  DEF RequestSteps, PullFetch, PullFastForward, PullMerge, PushReset, PushCommit, PushBranch, Push,
      PullIntoWorkspace, EnableClone, EnableSetUrl, EnableLink, EnableStrip, EnableRow,
      CreateClone, CreateRetry, Clone, ForgetTemp, GiveUp, CreateWorkspace, CreateRow, DeleteRow,
      DeleteMirror, SetSecret, ForgetSecret, DeleteSecret, UpdateWrite
<1>2. ASSUME NEW r \in Request, UserAsks(r) PROVE UNCHANGED check
  BY <1>2, UserKeeps
<1>3. CASE \/ \E p \in late : LatePush(p)
           \/ AgentEdits \/ AgentCommits
           \/ \E b \in Branch : OthersPush(b)
           \/ \E d \in Dir : ResolveMirror(d)
           \/ \E d, e \in Dir : MoveMirror(d, e)
           \/ UNCHANGED vars
  BY <1>3 DEF LatePush, AgentEdits, AgentCommits, OthersPush, ResolveMirror, MoveMirror, vars
<1> QED BY <1>1, <1>2, <1>3 DEF Next

LEMMA CheckTyped ==
  ASSUME TypeOK, [Next]_vars
  PROVE  check' \in Checks
<1>0. check \in Checks /\ HostTyped
  BY DEF TypeOK, TasksTyped
<1>1. ASSUME NEW i \in RepoId, StartCheck(i) PROVE check' \in Checks
  <2>1. rows[i] \in Row
    BY <1>0, <1>1 DEF StartCheck, HostTyped
  <2> QED BY <1>1, <2>1 DEF StartCheck, Checks, Row
<1>2. CASE CheckWorkspace \/ CheckCount \/ CheckRemote \/ CheckBehind
  <2>1. check # Idle
    BY <1>2 DEF CheckWorkspace, CheckCount, CheckRemote, CheckBehind, CheckAt, Idle
  <2>2. ASSUME NEW at \in {"workspace", "count", "remote", "behind", "store"}, NEW b \in BOOLEAN
        PROVE  /\ [check EXCEPT !.at = at] \in Checks
               /\ [check EXCEPT !.at = at, !.workspace = b] \in Checks
               /\ [check EXCEPT !.at = at, !.remote = b] \in Checks
    BY <1>0, <2>1 DEF Checks
  <2> QED
    BY <1>2, <2>2 DEF CheckWorkspace, CheckCount, CheckRemote, CheckBehind, Present, Ahead
<1>3. CASE CheckStore \/ Exit
  BY <1>3 DEF CheckStore, Exit, Checks
<1>4. CASE UNCHANGED check
  BY <1>0, <1>4
<1> QED BY <1>0, <1>1, <1>2, <1>3, <1>4, NextCheckKept DEF Checker

LEMMA NextTasksTyped ==
  ASSUME TypeOK, [Next]_vars
  PROVE  TasksTyped'
<1>0. TasksTyped
  BY DEF TypeOK
<1>1. ASSUME Checker PROVE ReqStep
  BY <1>0, <1>1
  DEF Checker, StartCheck, CheckWorkspace, CheckCount, CheckRemote, CheckBehind, CheckStore, ReqStep,
      TasksTyped
<1>2. ASSUME Exit PROVE ReqStep
  <2>1. Idle \in Requests   BY DEF Requests
  <2> QED BY <1>2, <2>1 DEF Exit, ReqStep
<1>3. ASSUME \/ \E p \in late : LatePush(p)
             \/ AgentEdits \/ AgentCommits
             \/ \E b \in Branch : OthersPush(b)
             \/ \E d \in Dir : ResolveMirror(d)
             \/ \E d, e \in Dir : MoveMirror(d, e)
             \/ UNCHANGED vars
      PROVE  ReqStep
  BY <1>0, <1>3
  DEF LatePush, AgentEdits, AgentCommits, OthersPush, ResolveMirror, MoveMirror, vars, ReqStep, TasksTyped
<1>4. ReqStep
  BY <1>1, <1>2, <1>3, RequestStepTyped, UserAsksTyped DEF Next
<1> QED BY <1>4, CheckTyped DEF ReqStep, TasksTyped

---------------------------------------------------------------------------
(* Ids and locks: a step adds one row at most, when there is none, under an id *)
(* that was never used; it locks and checks rows that exist.                   *)

RowStep ==
  \/ used' = used /\ Managed' \subseteq Managed
  \/ used' = used + 1 /\ Managed' \subseteq {used + 1}
LockStep == locks' \subseteq locks \cup Managed
CheckStep ==
  \/ check' = Idle
  \/ check # Idle /\ check'.id = check.id
  \/ check'.id \in Managed

LEMMA InsertOne ==
  ASSUME NEW r \in Request, NEW row, HostTyped, InsertRow(r, row)
  PROVE  RowStep
BY DEF InsertRow, RowStep, Managed, HostTyped, RepoId

LEMMA RequestRowStep ==
  ASSUME TypeOK, NEW r \in Request, RequestSteps(r)
  PROVE  RowStep /\ LockStep
<1>0. HostTyped
  BY DEF TypeOK
<1>1. CASE EnableRow(r) \/ CreateRow(r)
  BY <1>0, <1>1, InsertOne DEF EnableRow, CreateRow, LockStep
<1>2. CASE DeleteRow(r)
  BY <1>0, <1>2 DEF DeleteRow, RowStep, LockStep, Managed, HostTyped, env
<1>3. CASE UpdateWrite(r)
  BY <1>0, <1>3 DEF UpdateWrite, RowStep, LockStep, Managed, HostTyped, env
<1>4. CASE UNCHANGED <<rows, used>> /\ LockStep
  BY <1>4 DEF RowStep, Managed
<1>5. CASE ~EnableRow(r) /\ ~CreateRow(r) /\ ~DeleteRow(r) /\ ~UpdateWrite(r)
  <2>1. UNCHANGED <<rows, used>>
    BY <1>5
    DEF RequestSteps, PullFetch, PullFastForward, PullMerge, PushReset, PushCommit, PushBranch, Push,
        PullIntoWorkspace, EnableClone, EnableSetUrl, EnableLink, EnableStrip,
        CreateClone, CreateRetry, Clone, ForgetTemp, GiveUp, CreateWorkspace, DeleteMirror, SetSecret,
        ForgetSecret, DeleteSecret, host, env
  <2>2. LockStep
    BY <1>5
    DEF RequestSteps, PullFetch, PullFastForward, PullMerge, PushReset, PushCommit, PushBranch, Push,
        PullIntoWorkspace, EnableClone, EnableSetUrl, EnableLink, EnableStrip,
        CreateClone, CreateRetry, Clone, ForgetTemp, GiveUp, CreateWorkspace, DeleteMirror, SetSecret,
        ForgetSecret, DeleteSecret, FinishSync, LockStep
  <2> QED BY <2>1, <2>2, <1>4
<1> QED BY <1>1, <1>2, <1>3, <1>5

LEMMA UserRowStep ==
  ASSUME TypeOK, NEW r \in Request, UserAsks(r)
  PROVE  RowStep /\ LockStep
<1>0. HostTyped
  BY DEF TypeOK
<1>1. ASSUME NEW d \in Dir, UpdateMirrorsDir(r, d) PROVE RowStep /\ LockStep
  BY <1>0, <1>1 DEF UpdateMirrorsDir, RowStep, LockStep, Managed, HostTyped
<1>2. ASSUME NEW i \in Managed, \E S \in SUBSET Selectable(rows[i].dir), squash \in BOOLEAN :
                                  StartPush(r, i, S, squash)
      PROVE  RowStep /\ LockStep
  BY <1>2 DEF StartPush, Acquire, RowStep, LockStep, Managed, host
<1>3. ASSUME NEW i \in Managed,
             \/ StartPull(r, i) \/ FetchRemote(r, i) \/ StartPushToAgent(r, i)
             \/ \E rm \in BOOLEAN : StartDelete(r, i, rm)
             \/ \E l \in Login : StartSetLogin(r, i, l)
             \/ \E change \in Changes(rows[i]) : StartUpdate(r, i, change)
      PROVE  RowStep /\ LockStep
  BY <1>3
  DEF StartPull, FetchRemote, StartPushToAgent, StartDelete, StartSetLogin, StartUpdate, Acquire,
      RowStep, LockStep, Managed, host
<1>4. ASSUME \/ \E i \in 1..used : DeleteLogin(r, i)
             \/ \E l \in Login : CreateRefused(r, l)
             \/ \E url \in Url \cup {NoUrl} : StartEnable(r, url)
             \/ \E url \in Url, l \in Login \cup {NoValue} : StartCreate(r, url, l)
      PROVE  RowStep /\ LockStep
  BY <1>4 DEF DeleteLogin, CreateRefused, StartEnable, StartCreate, RowStep, LockStep, Managed, host
<1> QED BY <1>1, <1>2, <1>3, <1>4 DEF UserAsks

LEMMA NextRowStep ==
  ASSUME TypeOK, [Next]_vars
  PROVE  RowStep /\ LockStep
<1>1. CASE \/ Checker \/ \E p \in late : LatePush(p)
           \/ AgentEdits \/ AgentCommits
           \/ \E b \in Branch : OthersPush(b)
           \/ \E d \in Dir : ResolveMirror(d)
           \/ \E d, e \in Dir : MoveMirror(d, e)
           \/ Exit \/ UNCHANGED vars
  <2>1. UNCHANGED <<rows, used>>
    BY <1>1
    DEF Checker, StartCheck, CheckWorkspace, CheckCount, CheckRemote, CheckBehind, CheckStore, LatePush,
        AgentEdits, AgentCommits, OthersPush, ResolveMirror, MoveMirror, Exit, vars, host, env
  <2>2. LockStep
    BY <1>1
    DEF Checker, StartCheck, CheckWorkspace, CheckCount, CheckRemote, CheckBehind, CheckStore, LatePush,
        AgentEdits, AgentCommits, OthersPush, ResolveMirror, MoveMirror, Exit, vars, LockStep
  <2> QED BY <2>1, <2>2 DEF RowStep, Managed
<1> QED BY <1>1, RequestRowStep, UserRowStep DEF Next

LEMMA NextCheckStep ==
  ASSUME TypeOK, [Next]_vars
  PROVE  CheckStep
<1>0. check \in Checks
  BY DEF TypeOK, TasksTyped
<1>1. CASE CheckStore \/ Exit
  BY <1>1 DEF CheckStore, Exit, CheckStep
<1>4. ASSUME NEW i \in RepoId, StartCheck(i) PROVE CheckStep
  BY <1>4 DEF StartCheck, CheckStep, Managed
<1>5. CASE CheckWorkspace \/ CheckCount \/ CheckRemote \/ CheckBehind
  <2>1. check # Idle
    BY <1>5 DEF CheckWorkspace, CheckCount, CheckRemote, CheckBehind, CheckAt, Idle
  <2>2. CASE CheckWorkspace   BY <1>0, <2>1, <2>2 DEF CheckWorkspace, CheckStep, Checks
  <2>3. CASE CheckCount       BY <1>0, <2>1, <2>3 DEF CheckCount, CheckStep, Checks
  <2>4. CASE CheckRemote      BY <1>0, <2>1, <2>4 DEF CheckRemote, CheckStep, Checks
  <2>5. CASE CheckBehind      BY <1>0, <2>1, <2>5 DEF CheckBehind, CheckStep, Checks
  <2> QED BY <1>5, <2>2, <2>3, <2>4, <2>5
<1>2. CASE UNCHANGED check
  BY <1>2 DEF CheckStep
<1>3. ASSUME ~Checker, ~Exit PROVE UNCHANGED check
  BY <1>3, NextCheckKept
<1> QED BY <1>1, <1>2, <1>3, <1>4, <1>5 DEF Checker

LEMMA NextIdsGiven ==
  ASSUME TypeOK, [Next]_vars
  PROVE  IdsGiven'
<1>0. IdsGiven /\ used \in Nat
  BY MaxRowsAssumption DEF TypeOK, HostTyped
<1>1. RowStep /\ LockStep /\ CheckStep
  BY NextRowStep, NextCheckStep
<1>2. 1..used \subseteq 1..used'
  BY <1>0, <1>1 DEF RowStep
<1>3. Managed' \subseteq 1..used' /\ \A i, j \in Managed' : i = j
  <2>1. CASE used' = used /\ Managed' \subseteq Managed
    BY <1>0, <2>1 DEF IdsGiven
  <2>2. CASE used' = used + 1 /\ Managed' \subseteq {used + 1}
    <3>1. used + 1 \in 1..used'
      BY <1>0, <2>2
    <3> QED BY <2>2, <3>1
  <2> QED BY <1>1, <2>1, <2>2 DEF RowStep
<1>4. locks' \subseteq 1..used'
  BY <1>0, <1>1, <1>2 DEF LockStep, IdsGiven
<1>5. (check # Idle => check.id \in 1..used)'
  BY <1>0, <1>1, <1>2 DEF CheckStep, IdsGiven
<1> QED BY <1>3, <1>4, <1>5 DEF IdsGiven

LEMMA InitEnabledTyped ==
  ASSUME Init, InitEnabled
  PROVE  /\ ws \in Repo /\ made \in 1..MaxCommits /\ wsUrl = NoUrl /\ used = 1
         /\ mirror \in [Dir -> Repo \cup {NoRepo}]
         /\ rows \in [RepoId -> Row \cup {NoRow}]
         /\ Managed \subseteq {1}
         /\ keyring \in [RepoId \cup {Temp} -> LoginEntry]
<1>1. PICK pulled \in 1..MaxCommits, strategy \in {"direct", "feature_branch"} :
        InitPulled(pulled, strategy)
  BY MaxCommitsAssumption DEF InitEnabled
<1> DEFINE url == CHOOSE u \in Url : TRUE
           login == CHOOSE l \in Login : TRUE
           g == Cloned(url, 1..pulled, [NoRefs EXCEPT ![Main] = {1}])
<1>2. url \in Url /\ login \in Login
  BY UrlAssumption, LoginAssumption
<1>3. g \in Repo
  <2>1. 1..pulled \in SUBSET Commits /\ {1} \in SUBSET Commits
    BY MaxCommitsAssumption DEF Commits
  <2>2. [NoRefs EXCEPT ![Main] = {1}] \in [Branch -> SUBSET Commits]
    BY <2>1, NoRefsTyped
  <2> HIDE DEF url
  <2> QED BY <1>2, <2>1, <2>2, ClonedTyped
<1>4. NewRow(DefaultDir, url) \in Row
  <2> HIDE DEF url
  <2> QED BY <1>2, NewRowTyped, DirAssumption
<1>5. [NewRow(DefaultDir, url) EXCEPT !.strategy = strategy] \in Row
  BY <1>4 DEF Row
<1>6. [user |-> login, secret |-> login] \in LoginEntry /\ NoLogin \in LoginEntry
  <2> HIDE DEF login
  <2> QED BY <1>2 DEF LoginEntry, NoLogin
<1>7. ws = [g EXCEPT !.origin = NoUrl]
  BY <1>1 DEF InitPulled
<1>8. ws \in Repo
  <2> HIDE DEF g
  <2> QED BY <1>3, <1>7 DEF Repo
<1>9. mirror = [d \in Dir |-> IF d = DefaultDir THEN g ELSE NoRepo]
  BY <1>1 DEF InitPulled
<1>10. mirror \in [Dir -> Repo \cup {NoRepo}]
  <2> HIDE DEF g
  <2> QED BY <1>3, <1>9
<1>11. rows = [i \in RepoId |-> IF i = 1 THEN [NewRow(DefaultDir, url) EXCEPT !.strategy = strategy]
                                ELSE NoRow]
  BY <1>1 DEF InitPulled
<1>12. rows \in [RepoId -> Row \cup {NoRow}] /\ Managed \subseteq {1}
  <2> HIDE DEF url
  <2> QED BY <1>5, <1>11 DEF Managed
<1>13. keyring = [k \in RepoId \cup {Temp} |-> IF k = 1 THEN [user |-> login, secret |-> login]
                                                ELSE NoLogin]
  BY <1>1 DEF InitPulled
<1>14. keyring \in [RepoId \cup {Temp} -> LoginEntry]
  <2> HIDE DEF login
  <2> QED BY <1>6, <1>13
<1>15. made = pulled /\ wsUrl = NoUrl /\ used = 1
  BY <1>1 DEF InitPulled
<1> QED BY <1>8, <1>10, <1>12, <1>14, <1>15

LEMMA InitUnmanagedTyped ==
  ASSUME Init, InitUnmanaged
  PROVE  /\ ws \in Repo \cup {NoRepo} /\ made \in 1..MaxCommits
         /\ wsUrl \in Url \cup {NoUrl} /\ used = 0
         /\ mirror \in [Dir -> Repo \cup {NoRepo}]
         /\ rows \in [RepoId -> Row \cup {NoRow}]
         /\ Managed \subseteq {}
         /\ keyring \in [RepoId \cup {Temp} -> LoginEntry]
<1>1. {1} \in SUBSET Commits /\ 1 \in 1..MaxCommits
  BY MaxCommitsAssumption DEF Commits
<1>2. Cloned(NoUrl, {1}, NoRefs) \in Repo
  BY <1>1, ClonedTyped, NoRefsTyped
<1>3. NoLogin \in LoginEntry
  BY DEF NoLogin, LoginEntry
<1> QED BY <1>1, <1>2, <1>3 DEF InitUnmanaged, Managed

LEMMA InitTyped ==
  ASSUME Init
  PROVE  TypeOK
<1>1. Idle \in Requests /\ Idle \in Checks
  BY DEF Requests, Checks
<1>2. remote \in [Branch -> SUBSET Commits]
  <2>1. {1} \in SUBSET Commits
    BY MaxCommitsAssumption DEF Commits
  <2> QED BY <2>1, NoRefsTyped DEF Init
<1>3. InitEnabled \/ InitUnmanaged
  BY DEF Init
<1>4. /\ ws \in Repo \cup {NoRepo} /\ made \in 1..MaxCommits
      /\ wsUrl \in Url \cup {NoUrl} /\ used \in 0..1
      /\ mirror \in [Dir -> Repo \cup {NoRepo}]
      /\ rows \in [RepoId -> Row \cup {NoRow}]
      /\ Managed \subseteq 1..used /\ \A i, j \in Managed : i = j
      /\ keyring \in [RepoId \cup {Temp} -> LoginEntry]
  BY <1>3, InitEnabledTyped, InitUnmanagedTyped
<1>5. EnvTyped /\ ReposTyped
  BY <1>2, <1>4 DEF Init, EnvTyped, ReposTyped
<1>6. status \in [RepoId -> {NoStatus} \cup [workspace : BOOLEAN, remote : BOOLEAN]]
  BY DEF Init
<1>7. used \in 0..MaxRows
  BY <1>4, MaxRowsAssumption
<1>8. HostTyped
  BY <1>4, <1>6, <1>7, DirAssumption, MaxRowsAssumption DEF Init, HostTyped, LoginEntry
<1>9. TasksTyped /\ IdsGiven
  BY <1>1, <1>4 DEF Init, TasksTyped, IdsGiven
<1> QED BY <1>5, <1>8, <1>9 DEF TypeOK

\* Every variable has its type, a workspace has one row, and only ids that were
\* given out are in the table, locked or checked, for any number of requests,
\* directories, commits, rows and restarts.
THEOREM TypeCorrect == Spec => []TypeOK
<1>1. Init => TypeOK
  BY InitTyped
<1>2. TypeOK /\ [Next]_vars => TypeOK'
  BY NextEnvTyped, NextReposTyped, NextHostTyped, NextTasksTyped, NextIdsGiven DEF TypeOK
<1> QED BY <1>1, <1>2, PTL DEF Spec

\* While a mirror exists it keeps every commit it received: on its branch,
\* staged, or inside the squash commit (pull_from_agent, squash_commits).
THEOREM MirrorsKeepCommits == Spec => MirrorKeepsCommits
<1>1. TypeOK /\ [Next]_vars
        => [\A d \in Dir : Present(d) /\ Present(d)' => Holds(mirror[d]) \subseteq Holds(mirror[d])']_vars
  <2> SUFFICES ASSUME TypeOK, [Next]_vars
               PROVE  \A d \in Dir : Present(d) /\ Present(d)'
                                      => Holds(mirror[d]) \subseteq Holds(mirror[d])'
    OBVIOUS
  <2>1. MirrorStep
    BY NextMirrorStep
  <2>2. ASSUME NEW d \in Dir PROVE Keeps(mirror[d], mirror'[d]) => Holds(mirror[d]) \subseteq Holds(mirror[d])'
    BY DEF Keeps, Holds
  <2> QED BY <2>1, <2>2 DEF MirrorStep, Present
<1> QED BY <1>1, TypeCorrect, PTL DEF Spec, MirrorKeepsCommits

---------------------------------------------------------------------------
(* The remote *)

LEMMA NextRemoteKept ==
  ASSUME TypeOK, [Next]_vars,
         \A r \in Request : ~Push(r), \A p \in late : ~LatePush(p), \A b \in Branch : ~OthersPush(b)
  PROVE  UNCHANGED remote
<1>1. ASSUME NEW r \in Request, RequestSteps(r), ~Push(r) PROVE UNCHANGED remote
  BY <1>1
  DEF RequestSteps, PullFetch, PullFastForward, PullMerge, PushReset, PushCommit, PushBranch,
      PullIntoWorkspace, EnableClone, EnableSetUrl, EnableLink, EnableStrip, EnableRow,
      CreateClone, CreateRetry, Clone, ForgetTemp, GiveUp, CreateWorkspace, CreateRow, DeleteRow,
      DeleteMirror, SetSecret, ForgetSecret, DeleteSecret, UpdateWrite
<1>2. ASSUME NEW r \in Request, UserAsks(r) PROVE UNCHANGED remote
  BY <1>2, UserKeeps
<1>3. CASE \/ Checker \/ AgentEdits \/ AgentCommits \/ Exit
           \/ \E d \in Dir : ResolveMirror(d)
           \/ \E d, e \in Dir : MoveMirror(d, e)
           \/ UNCHANGED vars
  BY <1>3
  DEF Checker, StartCheck, CheckWorkspace, CheckCount, CheckRemote, CheckBehind, CheckStore,
      AgentEdits, AgentCommits, ResolveMirror, MoveMirror, Exit, vars
<1> QED BY <1>1, <1>2, <1>3 DEF Next

RemoteGrows == \A b \in Branch : remote[b] \subseteq remote'[b]

LEMMA NextRemoteGrows ==
  ASSUME TypeOK, [Next]_vars
  PROVE  RemoteGrows
<1>0. ReposTyped /\ TasksTyped
  BY DEF TypeOK
<1>1. ASSUME NEW r \in Request, Push(r) PROVE RemoteGrows
  <2>1. req[r].branch \in Branch
    <3>1. req[r] \in Requests /\ req[r].at \in PushAt
      BY <1>0, <1>1 DEF Push, At, PushAt, TasksTyped
    <3> QED BY <3>1, RequestKinds DEF PushRequests
  <2> QED
    BY <1>0, <1>1, <2>1 DEF Push, Pushed, CanPush, PushAccepted, ReposTyped, RemoteGrows
<1>2. ASSUME NEW p \in late, LatePush(p) PROVE RemoteGrows
  BY <1>0, <1>2 DEF LatePush, PushAccepted, ReposTyped, RemoteGrows
<1>3. ASSUME NEW b \in Branch, OthersPush(b) PROVE RemoteGrows
  BY <1>0, <1>3 DEF OthersPush, ReposTyped, RemoteGrows
<1> QED BY <1>1, <1>2, <1>3, NextRemoteKept DEF RemoteGrows

\* No push of the application takes a commit off a branch of the remote, not even
\* one that was given up and lands later (push_to_remote, git_cli exec).
THEOREM RemoteKeeps == Spec => RemoteKeepsCommits
<1>1. TypeOK /\ [Next]_vars => [\A b \in Branch : remote[b] \subseteq remote'[b]]_vars
  BY NextRemoteGrows DEF RemoteGrows
<1> QED BY <1>1, TypeCorrect, PTL DEF Spec, RemoteKeepsCommits

---------------------------------------------------------------------------
(* The operation lock: a step begins a synchronising request, ends one, lets    *)
(* all go on as they are, or ends the application.                              *)

Begins(r, i) ==
  /\ ~Syncing(r) /\ i \notin locks /\ locks' = locks \cup {i}
  /\ \E q \in PullRequests \cup PushRequests : q.id = i /\ req' = [req EXCEPT ![r] = q]
Ends(r) == Syncing(r) /\ locks' = locks \ {req[r].id} /\ req' = [req EXCEPT ![r] = Idle]
GoesOn ==
  /\ UNCHANGED locks
  /\ \A r \in Request : Syncing(r)' = Syncing(r) /\ (Syncing(r) => req'[r].id = req[r].id)
AllEnd == locks' = {} /\ \A r \in Request : ~Syncing(r)'
SyncStep ==
  \/ \E r \in Request : (\E i \in RepoId : Begins(r, i)) \/ Ends(r)
  \/ GoesOn \/ AllEnd

LEMMA SyncRequests ==
  ASSUME NEW q \in Requests
  PROVE  /\ q.at \in SyncSteps <=> q \in PullRequests \cup PushRequests
         /\ q = Idle => q.at \notin SyncSteps
<1>1. q.at \in SyncSteps => q \in PullRequests \cup PushRequests
  BY RequestKinds DEF SyncSteps, PullAt, PushAt
<1>2. q \in PullRequests \cup PushRequests => q.at \in SyncSteps
  BY DEF SyncSteps, PullRequests, PushRequests
<1>3. q = Idle => q.at \notin SyncSteps
  BY DEF SyncSteps, Idle
<1> QED BY <1>1, <1>2, <1>3

\* A request that goes from one step to another of its kind, or that is no
\* synchronising request before and after, lets the locks as they are.
LEMMA OneGoesOn ==
  ASSUME TasksTyped, UNCHANGED locks, NEW r \in Request, NEW q,
         req' = [req EXCEPT ![r] = q],
         \/ req[r].at \notin SyncSteps /\ q.at \notin SyncSteps
         \/ req[r].at \in SyncSteps /\ q.at \in SyncSteps /\ q.id = req[r].id
  PROVE  GoesOn
BY DEF TasksTyped, GoesOn, Syncing

LEMMA SyncPreserved ==
  ASSUME TypeOK, SyncExclusive, SyncStep
  PROVE  SyncExclusive'
<1>0. TasksTyped
  BY DEF TypeOK
<1> DEFINE Locked == \A i : i \in locks <=> \E r \in Request : Syncing(r) /\ req[r].id = i
<1>1. Locked
  BY DEF SyncExclusive
<1>2. ASSUME NEW r \in Request, NEW i \in RepoId, Begins(r, i) PROVE SyncExclusive'
  <2>1. PICK q \in PullRequests \cup PushRequests : q.id = i /\ req' = [req EXCEPT ![r] = q]
    BY <1>2 DEF Begins
  <2>2. q.at \in SyncSteps
    BY DEF PullRequests, PushRequests, SyncSteps
  <2>3. req'[r] = q /\ \A o \in Request : o # r => req'[o] = req[o]
    BY <1>0, <2>1 DEF TasksTyped
  <2>4. \A o \in Request : Syncing(o) => req[o].id # i
    BY <1>1, <1>2 DEF Begins
  <2> QED BY <1>1, <1>2, <2>1, <2>2, <2>3, <2>4 DEF Begins, SyncExclusive, Syncing
<1>3. ASSUME NEW r \in Request, Ends(r) PROVE SyncExclusive'
  <2>1. req'[r] = Idle /\ \A o \in Request : o # r => req'[o] = req[o]
    BY <1>0, <1>3 DEF Ends, TasksTyped
  <2>2. ~Syncing(r)'
    BY <2>1 DEF Syncing, Idle, SyncSteps
  <2>3. \A o \in Request : Syncing(o) /\ req[o].id = req[r].id => o = r
    BY <1>3 DEF Ends, SyncExclusive
  <2> QED BY <1>1, <1>3, <2>1, <2>2, <2>3 DEF Ends, SyncExclusive, Syncing
<1>4. CASE GoesOn
  BY <1>1, <1>4 DEF GoesOn, SyncExclusive
<1>5. CASE AllEnd
  BY <1>5 DEF AllEnd, SyncExclusive
<1> QED BY <1>2, <1>3, <1>4, <1>5 DEF SyncStep

LEMMA QuietGoesOn ==
  ASSUME UNCHANGED <<req, locks>>
  PROVE  GoesOn
BY DEF GoesOn, Syncing

LEMMA SlotGoesOn ==
  ASSUME TasksTyped, UNCHANGED locks, NEW r \in Request
  PROVE  /\ Finish(r) /\ req[r].at \notin SyncSteps => GoesOn
         /\ \A op, q : Start(r, op, q) /\ q.at \notin SyncSteps => GoesOn
<1>1. Idle.at \notin SyncSteps
  BY DEF Idle, SyncSteps
<1> QED BY <1>1, OneGoesOn DEF Finish, Start

LEMMA GoToGoesOn ==
  ASSUME TasksTyped, UNCHANGED locks, NEW r \in Request, NEW at, GoTo(r, at),
         \/ req[r].at \in PullAt /\ at \in PullAt
         \/ req[r].at \in PushAt /\ at \in PushAt
         \/ req[r].at \in EnableAt /\ at \in EnableAt
         \/ req[r].at \in CreateAt /\ at \in CreateAt
         \/ req[r].at \in DeleteAt /\ at \in DeleteAt
  PROVE  GoesOn
<1> DEFINE q == [req[r] EXCEPT !.at = at]
<1>1. req[r] \in Requests
  BY DEF TasksTyped
<1>2. CASE req[r].at \in PullAt /\ at \in PullAt
  <2>1. req[r] \in PullRequests
    BY <1>1, <1>2, RequestKinds
  <2>2. q.at = at /\ q.id = req[r].id
    BY <2>1 DEF PullRequests
  <2> HIDE DEF q
  <2>3. req' = [req EXCEPT ![r] = q]
    BY DEF GoTo, q
  <2> QED BY <1>2, <2>2, <2>3, OneGoesOn DEF PullAt, SyncSteps
<1>3. CASE req[r].at \in PushAt /\ at \in PushAt
  <2>1. req[r] \in PushRequests
    BY <1>1, <1>3, RequestKinds
  <2>2. q.at = at /\ q.id = req[r].id
    BY <2>1 DEF PushRequests
  <2> HIDE DEF q
  <2>3. req' = [req EXCEPT ![r] = q]
    BY DEF GoTo, q
  <2> QED BY <1>3, <2>2, <2>3, OneGoesOn DEF PushAt, SyncSteps
<1>4. CASE req[r].at \in EnableAt \cup CreateAt \cup DeleteAt /\ at \in EnableAt \cup CreateAt \cup DeleteAt
  <2>1. req[r] \in EnableRequests \cup CreateRequests \cup DeleteRequests
    BY <1>1, <1>4, RequestKinds
  <2>2. q.at = at
    BY <2>1 DEF EnableRequests, CreateRequests, DeleteRequests
  <2> HIDE DEF q
  <2>3. req' = [req EXCEPT ![r] = q]
    BY DEF GoTo, q
  <2> QED BY <1>4, <2>2, <2>3, OneGoesOn DEF EnableAt, CreateAt, DeleteAt, SyncSteps
<1> QED BY <1>2, <1>3, <1>4

LEMMA RequestSyncStep ==
  ASSUME TypeOK, NEW r \in Request, RequestSteps(r)
  PROVE  GoesOn \/ Ends(r)
<1>0. TasksTyped /\ req[r] \in Requests
  BY DEF TypeOK, TasksTyped
<1>1. ASSUME FinishSync(r), req[r].at \in SyncSteps PROVE Ends(r)
  BY <1>1 DEF FinishSync, Finish, Ends, Syncing
<1>2. CASE PullFetch(r)
  <2>1. req[r].at \in SyncSteps
    BY <1>2 DEF PullFetch, At, SyncSteps
  <2>2. ASSUME Step(r, [at |-> "pull ff", id |-> req[r].id, dir |-> req[r].dir]), UNCHANGED locks
        PROVE  GoesOn
    <3>1. "pull ff" \in SyncSteps
      BY DEF SyncSteps
    <3> QED BY <1>0, <2>1, <2>2, <3>1, OneGoesOn DEF Step
  <2> QED BY <1>1, <1>2, <2>1, <2>2 DEF PullFetch
<1>3. CASE PullFastForward(r)
  <2>1. req[r].at \in SyncSteps /\ req[r].at \in PullAt /\ "pull merge" \in PullAt
    BY <1>3 DEF PullFastForward, At, SyncSteps, PullAt
  <2> QED BY <1>0, <1>1, <1>3, <2>1, GoToGoesOn DEF PullFastForward
<1>4. CASE PushReset(r)
  <2>1. req[r].at \in SyncSteps /\ req[r].at \in PushAt /\ "push commit" \in PushAt
    BY <1>4 DEF PushReset, At, SyncSteps, PushAt
  <2> QED BY <1>0, <1>1, <1>4, <2>1, GoToGoesOn DEF PushReset
<1>5. CASE PushCommit(r)
  <2>1. req[r].at \in SyncSteps /\ req[r].at \in PushAt /\ "push branch" \in PushAt /\ "push" \in PushAt
    BY <1>5 DEF PushCommit, At, SyncSteps, PushAt
  <2> QED BY <1>0, <1>1, <1>5, <2>1, GoToGoesOn DEF PushCommit
<1>6. CASE PushBranch(r)
  <2>1. req[r].at \in SyncSteps /\ req[r].at \in PushAt /\ "push" \in PushAt
    BY <1>6 DEF PushBranch, At, SyncSteps, PushAt
  <2> QED BY <1>0, <1>1, <1>6, <2>1, GoToGoesOn DEF PushBranch
<1>7. CASE PullMerge(r) \/ Push(r) \/ PullIntoWorkspace(r)
  <2>1. req[r].at \in SyncSteps /\ FinishSync(r)
    BY <1>7 DEF PullMerge, Push, PullIntoWorkspace, At, SyncSteps
  <2> QED BY <1>1, <2>1
<1>8. CASE EnableClone(r) \/ EnableSetUrl(r) \/ EnableLink(r) \/ EnableStrip(r)
  <2>1. /\ req[r].at \in EnableAt /\ req[r].at \notin SyncSteps /\ UNCHANGED locks
        /\ Finish(r) \/ GoTo(r, "enable origin") \/ GoTo(r, "enable strip") \/ GoTo(r, "enable row")
    BY <1>8
    DEF EnableClone, EnableSetUrl, EnableLink, EnableStrip, At, EnableAt, SyncSteps, host
  <2>2. {"enable origin", "enable strip", "enable row"} \subseteq EnableAt
    BY DEF EnableAt
  <2> QED BY <1>0, <2>1, <2>2, SlotGoesOn, GoToGoesOn
<1>9. CASE CreateClone(r) \/ CreateRetry(r) \/ CreateWorkspace(r)
  <2>1. /\ req[r].at \in CreateAt /\ req[r].at \notin SyncSteps /\ UNCHANGED locks
        /\ \/ Finish(r) \/ GoTo(r, "create retry") \/ GoTo(r, "create workspace")
           \/ GoTo(r, "create row")
    BY <1>9 DEF CreateClone, CreateRetry, Clone, GiveUp, CreateWorkspace, At, CreateAt, SyncSteps
  <2>2. {"create retry", "create workspace", "create row"} \subseteq CreateAt
    BY DEF CreateAt
  <2> QED BY <1>0, <2>1, <2>2, SlotGoesOn, GoToGoesOn
<1>10. CASE DeleteSecret(r) \/ DeleteRow(r)
  <2>1. /\ req[r].at \in DeleteAt /\ req[r].at \notin SyncSteps /\ UNCHANGED locks
        /\ Finish(r) \/ GoTo(r, "delete row") \/ GoTo(r, "delete mirror")
    BY <1>10 DEF DeleteSecret, DeleteRow, At, DeleteAt, SyncSteps
  <2>2. "delete row" \in DeleteAt /\ "delete mirror" \in DeleteAt
    BY DEF DeleteAt
  <2> QED BY <1>0, <2>1, <2>2, SlotGoesOn, GoToGoesOn
<1>11. CASE \/ EnableRow(r) \/ CreateRow(r) \/ DeleteMirror(r) \/ SetSecret(r) \/ ForgetSecret(r)
            \/ UpdateWrite(r)
  <2>1. req[r].at \notin SyncSteps /\ UNCHANGED locks /\ Finish(r)
    BY <1>11
    DEF EnableRow, CreateRow, InsertRow, DeleteMirror, SetSecret, ForgetSecret, UpdateWrite, At,
        SyncSteps
  <2> QED BY <1>0, <2>1, SlotGoesOn
<1> QED
  BY <1>2, <1>3, <1>4, <1>5, <1>6, <1>7, <1>8, <1>9, <1>10, <1>11 DEF RequestSteps

LEMMA UserSyncStep ==
  ASSUME TypeOK, NEW r \in Request, UserAsks(r)
  PROVE  SyncStep
<1>0. TasksTyped /\ HostTyped /\ ReposTyped
  BY DEF TypeOK
<1>1. ASSUME NEW i \in Managed,
             \/ StartPull(r, i) \/ StartPushToAgent(r, i)
             \/ \E S \in SUBSET Selectable(rows[i].dir), squash \in BOOLEAN : StartPush(r, i, S, squash)
      PROVE  Begins(r, i)
  <2>1. Acquire(i) /\ ReqStep /\ req[r] = Idle
    BY <1>1, UserAsksTyped DEF StartPull, StartPushToAgent, StartPush, Start
  <2>2. PICK q : req' = [req EXCEPT ![r] = q] /\ q.id = i /\ q.at \in SyncSteps
    <3>1. CASE StartPull(r, i)
      <4> DEFINE q == [at |-> "pull fetch", id |-> i, dir |-> rows[i].dir]
      <4>1. req' = [req EXCEPT ![r] = q]   BY <3>1 DEF StartPull, Start
      <4>2. q.id = i /\ q.at \in SyncSteps   BY DEF SyncSteps
      <4> QED BY <4>1, <4>2
    <3>2. CASE StartPushToAgent(r, i)
      <4> DEFINE q == [at |-> "agent pull", id |-> i, dir |-> rows[i].dir]
      <4>1. req' = [req EXCEPT ![r] = q]   BY <3>2 DEF StartPushToAgent, Start
      <4>2. q.id = i /\ q.at \in SyncSteps   BY DEF SyncSteps
      <4> QED BY <4>1, <4>2
    <3>3. ASSUME NEW S \in SUBSET Selectable(rows[i].dir), NEW squash \in BOOLEAN,
                 StartPush(r, i, S, squash)
          PROVE  \E q : req' = [req EXCEPT ![r] = q] /\ q.id = i /\ q.at \in SyncSteps
      <4> DEFINE at == IF squash /\ Cardinality(S) > 1 THEN "push reset"
                       ELSE IF rows[i].strategy = "feature_branch" THEN "push branch" ELSE "push"
                 q(b) == [at |-> at, id |-> i, dir |-> rows[i].dir, selected |-> S, branch |-> b,
                          feature |-> rows[i].strategy = "feature_branch"]
      <4>1. PICK b : req' = [req EXCEPT ![r] = q(b)]
        BY <3>3 DEF StartPush, Start
      <4>2. q(b).id = i /\ q(b).at \in SyncSteps   BY DEF SyncSteps
      <4> HIDE DEF q
      <4> QED BY <4>1, <4>2
    <3> QED BY <1>1, <3>1, <3>2, <3>3
  <2>3. q \in Requests
    BY <1>0, <2>1, <2>2 DEF ReqStep, TasksTyped
  <2>4. q \in PullRequests \cup PushRequests
    BY <2>2, <2>3, SyncRequests
  <2>5. ~Syncing(r)
    BY <2>1 DEF Syncing, Idle, SyncSteps
  <2> QED BY <2>1, <2>2, <2>4, <2>5 DEF Begins, Acquire
<1>2. ASSUME NEW i \in Managed,
             \/ \E rm \in BOOLEAN : StartDelete(r, i, rm)
             \/ \E l \in Login : StartSetLogin(r, i, l)
             \/ \E change \in Changes(rows[i]) : StartUpdate(r, i, change)
      PROVE  GoesOn
  <2>1. ASSUME NEW rm \in BOOLEAN, StartDelete(r, i, rm) PROVE GoesOn
    <3> DEFINE q(at) == [at |-> at, id |-> i, dir |-> rows[i].dir, rm |-> rm]
    <3>1. PICK at \in {"delete secret", "delete row"} : Start(r, "delete", q(at)) /\ UNCHANGED locks
      BY <2>1, DeleteStarts
    <3>2. q(at).at \notin SyncSteps   BY DEF SyncSteps
    <3> HIDE DEF q
    <3> QED BY <1>0, <3>1, <3>2, SlotGoesOn
  <2>2. ASSUME NEW l \in Login, StartSetLogin(r, i, l) PROVE GoesOn
    <3> DEFINE q == [at |-> "login secret", id |-> i, login |-> l]
    <3>1. Start(r, "login", q) /\ UNCHANGED locks   BY <2>2 DEF StartSetLogin
    <3>2. q.at \notin SyncSteps   BY DEF SyncSteps
    <3> HIDE DEF q
    <3> QED BY <1>0, <3>1, <3>2, SlotGoesOn
  <2>3. ASSUME NEW change \in Changes(rows[i]), StartUpdate(r, i, change) PROVE GoesOn
    <3> DEFINE q == [at |-> "update write", id |-> i, row |-> change]
    <3>1. Start(r, "update", q) /\ UNCHANGED locks   BY <2>3 DEF StartUpdate
    <3>2. q.at \notin SyncSteps   BY DEF SyncSteps
    <3> HIDE DEF q
    <3> QED BY <1>0, <3>1, <3>2, SlotGoesOn
  <2> QED BY <1>2, <2>1, <2>2, <2>3
<1>3. ASSUME NEW url, NEW l, StartEnable(r, url) \/ StartCreate(r, url, l)
      PROVE  GoesOn
  <2>1. CASE StartCreate(r, url, l)
    <3> DEFINE q == [at |-> "create clone", dir |-> mirrorsDir, url |-> url, login |-> l]
    <3>1. Start(r, "create", q) /\ UNCHANGED locks   BY <2>1 DEF StartCreate, StartEnabling
    <3>2. q.at \notin SyncSteps   BY DEF SyncSteps
    <3> HIDE DEF q
    <3> QED BY <1>0, <3>1, <3>2, SlotGoesOn
  <2>2. CASE StartEnable(r, url)
    <3> DEFINE q(own) == [at |-> "enable clone", dir |-> mirrorsDir, url |-> url, own |-> own]
    <3>1. PICK own \in BOOLEAN : Start(r, "enable", q(own))   BY <2>2 DEF StartEnable, StartEnabling
    <3>2. UNCHANGED locks   BY <2>2 DEF StartEnable
    <3>3. q(own).at \notin SyncSteps   BY DEF SyncSteps
    <3> HIDE DEF q
    <3> QED BY <1>0, <3>1, <3>2, <3>3, SlotGoesOn
  <2> QED BY <1>3, <2>1, <2>2
<1>4. ASSUME \/ \E i \in Managed : FetchRemote(r, i)
             \/ \E l \in Login : CreateRefused(r, l)
             \/ \E d \in Dir : UpdateMirrorsDir(r, d)
      PROVE  GoesOn
  BY <1>4, QuietGoesOn DEF FetchRemote, CreateRefused, UpdateMirrorsDir
<1>6. ASSUME NEW i, DeleteLogin(r, i) PROVE GoesOn
  <2> DEFINE q == [at |-> "forget secret", id |-> i]
  <2>1. Start(r, "login", q) /\ UNCHANGED locks   BY <1>6 DEF DeleteLogin
  <2>2. q.at \notin SyncSteps   BY DEF SyncSteps
  <2> HIDE DEF q
  <2> QED BY <1>0, <2>1, <2>2, SlotGoesOn
<1>5. Managed \subseteq RepoId
  BY DEF Managed
<1> QED BY <1>1, <1>2, <1>3, <1>4, <1>5, <1>6 DEF UserAsks, SyncStep

LEMMA NextSyncStep ==
  ASSUME TypeOK, [Next]_vars
  PROVE  SyncStep
<1>1. CASE \/ Checker \/ AgentEdits \/ AgentCommits
           \/ \E p \in late : LatePush(p)
           \/ \E b \in Branch : OthersPush(b)
           \/ \E d \in Dir : ResolveMirror(d)
           \/ \E d, e \in Dir : MoveMirror(d, e)
           \/ UNCHANGED vars
  <2>1. UNCHANGED <<req, locks>>
    BY <1>1
    DEF Checker, StartCheck, CheckWorkspace, CheckCount, CheckRemote, CheckBehind, CheckStore, LatePush,
        AgentEdits, AgentCommits, OthersPush, ResolveMirror, MoveMirror, vars
  <2> QED BY <2>1, QuietGoesOn DEF SyncStep
<1>2. ASSUME Exit PROVE AllEnd
  <2>1. \A r \in Request : req'[r] = Idle
    BY <1>2 DEF Exit
  <2> QED BY <1>2, <2>1 DEF Exit, AllEnd, Syncing, Idle, SyncSteps
<1> QED BY <1>1, <1>2, RequestSyncStep, UserSyncStep DEF Next, SyncStep

LEMMA InitSyncExclusive ==
  ASSUME Init
  PROVE  SyncExclusive
<1>1. \A r \in Request : ~Syncing(r)
  BY DEF Init, Syncing, Idle, SyncSteps
<1> QED BY <1>1 DEF Init, SyncExclusive

\* Two synchronising requests of one repository never run together, and the lock
\* of a repository is held exactly as long as one runs (OperationGuard), for any
\* number of requests and repositories and whichever steps fail.
THEOREM SyncsExclude == Spec => []SyncExclusive
<1>1. Init => SyncExclusive
  BY InitSyncExclusive
<1>2. TypeOK /\ SyncExclusive /\ [Next]_vars => SyncExclusive'
  BY NextSyncStep, SyncPreserved
<1> QED BY <1>1, <1>2, TypeCorrect, PTL DEF Spec

---------------------------------------------------------------------------
(* What a mirror takes for pushed *)

\* The URL of a workspace, and the requests that enable one with it, are marked.
OwnRequest(r) == req[r].at \in {"enable clone", "enable origin"} /\ req[r].own
OwnMarked ==
  "own url" \notin marks => wsUrl = NoUrl /\ \A r \in Request : ~OwnRequest(r)
HiddenInv == OwnMarked /\ NothingHidden

Clean(g, refs) == g.origin \in Url => \A b \in Branch : g.tracking[b] \subseteq refs[b]
AllClean == \A d \in Dir : Present(d) => Clean(mirror[d], remote)
CleanAfter == \A d \in Dir : mirror'[d] # NoRepo => Clean(mirror'[d], remote')
SameRefs(g, h) == h.origin = g.origin /\ h.tracking = g.tracking

LEMMA SameRefsFacts ==
  ASSUME NEW g \in Repo, NEW head, NEW b \in Branch, NEW c
  PROVE  /\ SameRefs(g, FetchPath(g, head)) /\ SameRefs(g, FastForward(g))
         /\ \A h \in MergeOutcomes(g) : SameRefs(g, h)
         /\ SameRefs(g, SoftReset(g, c)) /\ SameRefs(g, CommitStaged(g)) /\ SameRefs(g, Checkout(g, b))
         /\ SameRefs(g, [g EXCEPT !.head = head, !.merging = {}])
<1>1. SameRefs(g, FetchPath(g, head))   BY DEF SameRefs, FetchPath, Repo
<1>2. SameRefs(g, FastForward(g))   BY DEF SameRefs, FastForward, Repo
<1>3. SameRefs(g, g) /\ SameRefs(g, [g EXCEPT !.merging = g.fetched])   BY DEF SameRefs, Repo
<1>4. \A h \in MergeOutcomes(g) : SameRefs(g, h)   BY <1>2, <1>3 DEF MergeOutcomes
<1>5. SameRefs(g, SoftReset(g, c))   BY DEF SameRefs, SoftReset, Repo
<1>6. SameRefs(g, CommitStaged(g))   BY DEF SameRefs, CommitStaged, Repo
<1>7. SameRefs(g, Checkout(g, b))   BY DEF SameRefs, Checkout, Repo
<1>8. SameRefs(g, [g EXCEPT !.head = head, !.merging = {}])   BY DEF SameRefs, Repo
<1> QED BY <1>1, <1>2, <1>4, <1>5, <1>6, <1>7, <1>8

LEMMA CleanSet ==
  ASSUME ReposTyped, AllClean, RemoteGrows
  PROVE  /\ UNCHANGED mirror => CleanAfter
         /\ \A d \in Dir : \A g : SetMirror(d, g) /\ (g = NoRepo \/ Clean(g, remote')) => CleanAfter
         /\ \A d \in Dir : \A g : SetMirror(d, g) /\ Present(d) /\ SameRefs(mirror[d], g) => CleanAfter
<1>1. ASSUME NEW d \in Dir, Present(d) PROVE Clean(mirror[d], remote')
  BY <1>1 DEF AllClean, Clean, RemoteGrows
<1>2. UNCHANGED mirror => CleanAfter
  BY <1>1 DEF CleanAfter, Present
<1>3. ASSUME NEW d \in Dir, NEW g, SetMirror(d, g), g = NoRepo \/ Clean(g, remote') PROVE CleanAfter
  BY <1>1, <1>3 DEF CleanAfter, Present, SetMirror, ReposTyped
<1>4. ASSUME NEW d \in Dir, NEW g, SetMirror(d, g), Present(d), SameRefs(mirror[d], g) PROVE CleanAfter
  <2>1. Clean(g, remote')
    BY <1>1, <1>4 DEF Clean, SameRefs
  <2> QED BY <1>3, <1>4, <2>1
<1> QED BY <1>2, <1>3, <1>4

LEMMA TrackingClean ==
  ASSUME NEW g \in Repo, NEW b \in Branch, NEW head, Clean(g, remote), RemoteGrows,
         remote \in [Branch -> SUBSET Commits], remote' = [remote EXCEPT ![b] = head]
  PROVE  Clean([g EXCEPT !.tracking[b] = head], remote')
<1> DEFINE h == [g EXCEPT !.tracking[b] = head]
<1>1. h.origin = g.origin /\ h.tracking = [g.tracking EXCEPT ![b] = head]
  BY DEF Repo
<1>2. g.tracking \in [Branch -> SUBSET Commits]
  BY DEF Repo
<1> HIDE DEF h
<1> QED BY <1>1, <1>2 DEF Clean, RemoteGrows, h

LEMMA FetchClean ==
  ASSUME NEW g \in Repo, Clean(g, remote), remote \in [Branch -> SUBSET Commits]
  PROVE  Clean(FetchOrigin(g, remote), remote)
<1>1. FetchOrigin(g, remote).origin = g.origin
  BY DEF FetchOrigin, Repo
<1>2. FetchOrigin(g, remote).tracking
        = [b \in Branch |-> IF remote[b] = {} THEN g.tracking[b] ELSE remote[b]]
  BY DEF FetchOrigin, Repo
<1> QED BY <1>1, <1>2 DEF Clean

LEMMA RequestClean ==
  ASSUME TypeOK, AllClean, RemoteGrows, NEW r \in Request, RequestSteps(r), ~OwnRequest(r)
  PROVE  CleanAfter
<1>0. /\ req[r] \in Requests /\ ReposTyped /\ remote \in [Branch -> SUBSET Commits]
      /\ NoUrl \notin Url /\ WsUrl \notin Url
  BY UrlAssumption DEF TypeOK, TasksTyped, ReposTyped
<1>1. ASSUME req[r].at \in PullAt \cup PushAt \cup EnableAt \cup CreateAt \cup DeleteAt
      PROVE  req[r].dir \in Dir
  BY <1>1, <1>0, RequestKinds
  DEF PullRequests, PushRequests, EnableRequests, CreateRequests, DeleteRequests
<1>2. ASSUME NEW d \in Dir, NEW g, SetMirror(d, g), g = NoRepo \/ Clean(g, remote') PROVE CleanAfter
  BY <1>0, <1>2, CleanSet
<1>3. ASSUME NEW d \in Dir, NEW g, SetMirror(d, g), Present(d), SameRefs(mirror[d], g) PROVE CleanAfter
  BY <1>0, <1>3, CleanSet
<1>4. ASSUME UNCHANGED mirror PROVE CleanAfter
  BY <1>0, <1>4, CleanSet
<1>6. CASE PullFetch(r)
  BY <1>0, <1>1, <1>6, PresentTyped, SameRefsFacts, BranchFacts, <1>3, <1>4 DEF PullFetch, At, PullAt
<1>7. CASE PullFastForward(r)
  BY <1>0, <1>1, <1>7, PresentTyped, SameRefsFacts, BranchFacts, <1>3, <1>4
  DEF PullFastForward, At, PullAt
<1>8. CASE PullMerge(r)
  BY <1>0, <1>1, <1>8, PresentTyped, SameRefsFacts, BranchFacts, <1>3, <1>4 DEF PullMerge, At, PullAt
<1>9. CASE PushReset(r)
  BY <1>0, <1>1, <1>9, PresentTyped, SameRefsFacts, BranchFacts, <1>3, <1>4 DEF PushReset, At, PushAt
<1>10. CASE PushCommit(r)
  BY <1>0, <1>1, <1>10, PresentTyped, SameRefsFacts, BranchFacts, <1>3, <1>4 DEF PushCommit, At, PushAt
<1>11. CASE PushBranch(r)
  <2>1. req[r].branch \in Branch
    <3>1. req[r].at \in PushAt   BY <1>11 DEF PushBranch, At, PushAt
    <3> QED BY <1>0, <3>1, RequestKinds DEF PushRequests
  <2> QED
    BY <1>0, <1>1, <1>11, <2>1, PresentTyped, SameRefsFacts, <1>3, <1>4 DEF PushBranch, At, PushAt
<1>12. CASE Push(r)
  <2> DEFINE d == req[r].dir
             b == req[r].branch
  <2>1. d \in Dir /\ b \in Branch
    <3>1. req[r].at \in PushAt   BY <1>12 DEF Push, At, PushAt
    <3> QED BY <1>0, <3>1, RequestKinds DEF PushRequests
  <2>2. CASE UNCHANGED mirror
    BY <2>2, <1>4
  <2>3. CASE Present(d) /\ Pushed(d, b)
    <3>1. mirror[d] \in Repo /\ Clean(mirror[d], remote)
      BY <1>0, <2>1, <2>3, PresentTyped DEF AllClean
    <3> HIDE DEF d, b
    <3>2. remote' = [remote EXCEPT ![b] = mirror[d].head]
      BY <2>3 DEF Pushed
    <3>3. Clean([mirror[d] EXCEPT !.tracking[b] = mirror[d].head], remote')
      BY <1>0, <2>1, <3>1, <3>2, TrackingClean
    <3> QED BY <2>1, <2>3, <3>3, <1>2 DEF Pushed
  <2> QED BY <1>12, <2>2, <2>3 DEF Push, CanPush
<1>13. CASE EnableClone(r)
  <2>1. Clean(Cloned(WsUrl, ws.head, [NoRefs EXCEPT ![Main] = ws.head]), remote')
    BY <1>0 DEF Clean, Cloned
  <2> QED BY <1>1, <1>13, <2>1, <1>2 DEF EnableClone, At, EnableAt
<1>14. CASE EnableSetUrl(r)
  BY <1>14 DEF EnableSetUrl, At, OwnRequest
<1>15. CASE EnableLink(r)
  <2>1. req[r].dir \in Dir
    BY <1>1, <1>15 DEF EnableLink, At, EnableAt
  <2>2. ASSUME NEW g \in Repo, NEW url
        PROVE  Clean([g EXCEPT !.origin = url, !.linked = FALSE, !.tracking = NoRefs], remote')
    BY DEF Clean, NoRefs, Repo
  <2> QED BY <1>0, <1>15, <2>1, <2>2, PresentTyped, <1>2, <1>4 DEF EnableLink
<1>16. CASE CreateClone(r) \/ CreateRetry(r)
  <2>1. req[r].dir \in Dir
    BY <1>1, <1>16 DEF CreateClone, CreateRetry, Clone, ForgetTemp, GiveUp, At, CreateAt
  <2>2. UNCHANGED remote
    BY <1>16 DEF CreateClone, CreateRetry, Clone, ForgetTemp, GiveUp
  <2>3. Clean(Cloned(req[r].url, remote[Main], remote), remote')
    BY <2>2 DEF Clean, Cloned
  <2> QED BY <1>16, <2>1, <2>3, <1>2, <1>4 DEF CreateClone, CreateRetry, Clone, ForgetTemp, GiveUp
<1>17. CASE CreateWorkspace(r)
  BY <1>1, <1>17, <1>2, <1>4 DEF CreateWorkspace, At, CreateAt
<1>18. CASE DeleteMirror(r)
  BY <1>1, <1>18, <1>2 DEF DeleteMirror, At, DeleteAt
<1>19. CASE PullIntoWorkspace(r) \/ EnableStrip(r) \/ EnableRow(r) \/ CreateRow(r)
              \/ DeleteRow(r) \/ SetSecret(r) \/ ForgetSecret(r) \/ DeleteSecret(r) \/ UpdateWrite(r)
  BY <1>19, <1>4
  DEF PullIntoWorkspace, EnableStrip, EnableRow, CreateRow, DeleteRow, SetSecret, ForgetSecret,
  DeleteSecret, UpdateWrite
<1> QED
  BY <1>6, <1>7, <1>8, <1>9, <1>10, <1>11, <1>12, <1>13, <1>14, <1>15, <1>16, <1>17, <1>18, <1>19
  DEF RequestSteps

LEMMA NextClean ==
  ASSUME TypeOK, AllClean, RemoteGrows, [Next]_vars, \A r \in Request : ~OwnRequest(r)
  PROVE  CleanAfter
<1>0. /\ ReposTyped /\ TasksTyped /\ HostTyped /\ remote \in [Branch -> SUBSET Commits]
      /\ late \subseteq [dir : Dir, branch : Branch, head : SUBSET Commits]
  BY DEF TypeOK, ReposTyped
<1>2. ASSUME NEW d \in Dir, NEW g, SetMirror(d, g), g = NoRepo \/ Clean(g, remote') PROVE CleanAfter
  BY <1>0, <1>2, CleanSet
<1>3. ASSUME NEW d \in Dir, NEW g, SetMirror(d, g), Present(d), SameRefs(mirror[d], g) PROVE CleanAfter
  BY <1>0, <1>3, CleanSet
<1>4. ASSUME UNCHANGED mirror PROVE CleanAfter
  BY <1>0, <1>4, CleanSet
<1>5. ASSUME NEW d \in Dir, Present(d), SetMirror(d, FetchOrigin(mirror[d], remote)), UNCHANGED remote
      PROVE  CleanAfter
  <2>1. Clean(FetchOrigin(mirror[d], remote), remote)
    BY <1>0, <1>5, PresentTyped, FetchClean DEF AllClean
  <2> QED BY <1>2, <1>5, <2>1
<1>6. ASSUME NEW r \in Request, UserAsks(r) PROVE CleanAfter
  <2>1. ASSUME NEW i \in Managed, FetchRemote(r, i) PROVE CleanAfter
    <3>1. rows[i].dir \in Dir
      BY <1>0 DEF HostTyped, Row, Managed
    <3> QED BY <2>1, <3>1, <1>5 DEF FetchRemote
  <2>2. ~(\E i \in Managed : FetchRemote(r, i)) => UNCHANGED mirror
    BY <1>6, UserKeepsMirror
  <2> QED BY <1>4, <2>1, <2>2
<1>7. ASSUME NEW p \in late, LatePush(p) PROVE CleanAfter
  <2>1. p.dir \in Dir /\ p.branch \in Branch
    BY <1>0, <1>7
  <2>2. CASE UNCHANGED mirror
    BY <2>2, <1>4
  <2>3. CASE /\ Present(p.dir) /\ remote' = [remote EXCEPT ![p.branch] = p.head]
             /\ mirror' = [mirror EXCEPT ![p.dir].tracking[p.branch] = p.head]
    <3>1. mirror[p.dir] \in Repo /\ Clean(mirror[p.dir], remote)
      BY <1>0, <2>1, <2>3, PresentTyped DEF AllClean
    <3>2. Clean([mirror[p.dir] EXCEPT !.tracking[p.branch] = p.head], remote')
      BY <1>0, <2>1, <2>3, <3>1, TrackingClean
    <3>3. SetMirror(p.dir, [mirror[p.dir] EXCEPT !.tracking[p.branch] = p.head])
      BY <2>3 DEF SetMirror
    <3> QED BY <2>1, <3>2, <3>3, <1>2
  <2> QED BY <1>7, <2>2, <2>3 DEF LatePush
<1>8. CASE Checker
  <2>0. ASSUME check # Idle PROVE check.dir \in Dir
    BY <1>0, <2>0 DEF TasksTyped, Checks
  <2>1. CASE CheckWorkspace
    <3>1. check.dir \in Dir
      BY <2>0, <2>1 DEF CheckWorkspace, CheckAt, Idle
    <3> QED
      BY <1>0, <2>1, <3>1, PresentTyped, SameRefsFacts, BranchFacts, <1>3, <1>4 DEF CheckWorkspace
  <2>2. CASE CheckRemote
    <3>1. check.dir \in Dir
      BY <2>0, <2>2 DEF CheckRemote, CheckAt, Idle
    <3> QED BY <2>2, <3>1, <1>4, <1>5 DEF CheckRemote
  <2> QED
    BY <1>8, <2>1, <2>2, <1>4 DEF Checker, StartCheck, CheckCount, CheckBehind, CheckStore
<1>9. ASSUME NEW d \in Dir, ResolveMirror(d) PROVE CleanAfter
  <2>1. PICK more : SetMirror(d, [mirror[d] EXCEPT !.head = mirror[d].head \cup more, !.merging = {}])
    BY <1>9 DEF ResolveMirror
  <2>2. Present(d)
    BY <1>9 DEF ResolveMirror
  <2> QED BY <1>0, <2>1, <2>2, PresentTyped, SameRefsFacts, BranchFacts, <1>3
<1>10. ASSUME NEW d \in Dir, NEW e \in Dir, MoveMirror(d, e) PROVE CleanAfter
  BY <1>0, <1>10 DEF MoveMirror, CleanAfter, AllClean, Present, ReposTyped
<1>11. CASE AgentEdits \/ AgentCommits \/ (\E b \in Branch : OthersPush(b)) \/ Exit \/ UNCHANGED vars
  BY <1>11, <1>4 DEF AgentEdits, AgentCommits, OthersPush, Exit, vars
<1> QED BY <1>6, <1>7, <1>8, <1>9, <1>10, <1>11, RequestClean DEF Next

LEMMA NextMarks ==
  ASSUME TypeOK, [Next]_vars
  PROVE  marks \subseteq marks' /\ wsUrl' \in {wsUrl, NoUrl}
<1>1. ASSUME NEW r \in Request, RequestSteps(r)
      PROVE  marks \subseteq marks' /\ wsUrl' \in {wsUrl, NoUrl}
  BY <1>1
  DEF RequestSteps, PullFetch, PullFastForward, PullMerge, PushReset, PushCommit, PushBranch, Push,
      PullIntoWorkspace, EnableClone, EnableSetUrl, EnableLink, EnableStrip, EnableRow,
      CreateClone, CreateRetry, Clone, ForgetTemp, GiveUp, CreateWorkspace, CreateRow, DeleteRow,
      DeleteMirror, SetSecret, ForgetSecret, DeleteSecret, UpdateWrite
<1>2. ASSUME NEW r \in Request, UserAsks(r)
      PROVE  marks \subseteq marks' /\ wsUrl' \in {wsUrl, NoUrl}
  BY <1>2, UserMarks
<1>3. CASE \/ Checker \/ AgentEdits \/ AgentCommits \/ Exit
           \/ \E p \in late : LatePush(p)
           \/ \E b \in Branch : OthersPush(b)
           \/ \E d \in Dir : ResolveMirror(d)
           \/ \E d, e \in Dir : MoveMirror(d, e)
           \/ UNCHANGED vars
  BY <1>3
  DEF Checker, StartCheck, CheckWorkspace, CheckCount, CheckRemote, Refetched, CheckBehind, CheckStore,
      LatePush, AgentEdits, AgentCommits, OthersPush, ResolveMirror, MoveMirror, Exit, vars
<1> QED BY <1>1, <1>2, <1>3 DEF Next

NoOwn == \A r \in Request : ~OwnRequest(r)
OwnAt == {"enable clone", "enable origin"}

LEMMA OneOwn ==
  ASSUME TasksTyped, NoOwn, NEW r \in Request
  PROVE  /\ UNCHANGED req => NoOwn'
         /\ \A q : req' = [req EXCEPT ![r] = q] /\ (q.at \in OwnAt => ~q.own) => NoOwn'
         /\ Finish(r) => NoOwn'
<1>1. \A q : req' = [req EXCEPT ![r] = q] /\ (q.at \in OwnAt => ~q.own) => NoOwn'
  BY DEF TasksTyped, NoOwn, OwnRequest, OwnAt
<1>2. Idle.at \notin OwnAt
  BY DEF Idle, OwnAt
<1> QED BY <1>1, <1>2 DEF Finish, NoOwn, OwnRequest

LEMMA GoToOwn ==
  ASSUME TasksTyped, NoOwn, NEW r \in Request, NEW at, GoTo(r, at), at \notin OwnAt
  PROVE  NoOwn'
<1> DEFINE q == [req[r] EXCEPT !.at = at]
<1>1. req[r] \in {Idle} \cup PullRequests \cup PushRequests \cup EnableRequests \cup CreateRequests
                  \cup DeleteRequests \cup LoginRequests \cup ForgetRequests \cup UpdateRequests
  BY DEF TasksTyped, Requests
<1>2. q.at = at
  BY <1>1
  DEF Idle, PullRequests, PushRequests, EnableRequests, CreateRequests, DeleteRequests, LoginRequests,
      ForgetRequests, UpdateRequests
<1>3. req' = [req EXCEPT ![r] = q]
  BY DEF GoTo
<1> HIDE DEF q
<1> QED BY <1>2, <1>3, OneOwn

LEMMA RequestOwn ==
  ASSUME TypeOK, NoOwn, NEW r \in Request, RequestSteps(r)
  PROVE  NoOwn'
<1>0. TasksTyped /\ req[r] \in Requests
  BY DEF TypeOK, TasksTyped
<1>1. ASSUME NEW at, GoTo(r, at), at \notin OwnAt PROVE NoOwn'
  BY <1>0, <1>1, GoToOwn
<1>2. ASSUME Finish(r) PROVE NoOwn'
  BY <1>0, <1>2, OneOwn
<1>3. /\ {"pull merge", "push commit", "push branch", "push", "enable strip", "enable row",
          "create retry", "create workspace", "create row", "delete row", "delete mirror"} \cap OwnAt = {}
  BY DEF OwnAt
<1>4. CASE PullFetch(r)
  <2> DEFINE q == [at |-> "pull ff", id |-> req[r].id, dir |-> req[r].dir]
  <2>1. Finish(r) \/ req' = [req EXCEPT ![r] = q]
    BY <1>4 DEF PullFetch, Step, FinishSync
  <2>2. q.at \notin OwnAt
    BY DEF OwnAt
  <2> HIDE DEF q
  <2> QED BY <1>0, <1>2, <2>1, <2>2, OneOwn
<1>5. CASE EnableClone(r)
  <2> DEFINE q == [req[r] EXCEPT !.at = "enable origin"]
  <2>1. Finish(r) \/ req' = [req EXCEPT ![r] = q]
    BY <1>5 DEF EnableClone, GoTo
  <2>2. req[r].at = "enable clone" /\ req[r] \in EnableRequests
    <3>1. req[r].at = "enable clone" /\ req[r].at \in EnableAt   BY <1>5 DEF EnableClone, At, EnableAt
    <3> QED BY <1>0, <3>1, RequestKinds
  <2>3. q.own = req[r].own /\ ~req[r].own
    BY <2>2 DEF EnableRequests, NoOwn, OwnRequest
  <2> HIDE DEF q
  <2> QED BY <1>0, <1>2, <2>1, <2>3, OneOwn
<1>6. CASE ~PullFetch(r) /\ ~EnableClone(r)
  <2>1. \/ Finish(r)
        \/ \E at \in {"pull merge", "push commit", "push branch", "push", "enable strip", "enable row",
                      "create retry", "create workspace", "create row", "delete row",
                      "delete mirror"} : GoTo(r, at)
    BY <1>6
    DEF RequestSteps, PullFastForward, PullMerge, PushReset, PushCommit, PushBranch, Push,
        PullIntoWorkspace, EnableSetUrl, EnableLink, EnableStrip, EnableRow, InsertRow,
        CreateClone, CreateRetry, Clone, ForgetTemp, GiveUp, CreateWorkspace, CreateRow, DeleteRow,
        DeleteMirror, SetSecret, ForgetSecret, DeleteSecret, UpdateWrite, FinishSync
  <2> QED BY <1>1, <1>2, <1>3, <2>1
<1> QED BY <1>4, <1>5, <1>6

LEMMA UserOwn ==
  ASSUME TypeOK, NoOwn, wsUrl = NoUrl, NEW r \in Request, UserAsks(r)
  PROVE  NoOwn'
<1>0. TasksTyped
  BY DEF TypeOK
<1>1. ASSUME NEW op, NEW q, Start(r, op, q), q.at \notin OwnAt PROVE NoOwn'
  BY <1>0, <1>1, OneOwn DEF Start
<1>2. ASSUME NEW url \in Url \cup {NoUrl}, StartEnable(r, url) PROVE NoOwn'
  <2> DEFINE q(own) == [at |-> "enable clone", dir |-> mirrorsDir, url |-> url, own |-> own]
  <2>1. PICK own \in BOOLEAN : Start(r, "enable", q(own)) /\ (own => url # NoUrl /\ url = wsUrl)
    BY <1>2 DEF StartEnable, StartEnabling
  <2>2. ~q(own).own
    BY <2>1
  <2>3. req' = [req EXCEPT ![r] = q(own)]
    BY <2>1 DEF Start
  <2> HIDE DEF q
  <2> QED BY <1>0, <2>2, <2>3, OneOwn
<1>3. ASSUME NEW url, NEW l, StartCreate(r, url, l) PROVE NoOwn'
  <2> DEFINE q == [at |-> "create clone", dir |-> mirrorsDir, url |-> url, login |-> l]
  <2>1. Start(r, "create", q)   BY <1>3 DEF StartCreate, StartEnabling
  <2>2. q.at \notin OwnAt   BY DEF OwnAt
  <2> HIDE DEF q
  <2> QED BY <1>1, <2>1, <2>2
<1>4. ASSUME \/ \E i \in Managed : FetchRemote(r, i)
             \/ \E l \in Login : CreateRefused(r, l)
             \/ \E d \in Dir : UpdateMirrorsDir(r, d)
      PROVE  NoOwn'
  <2>1. UNCHANGED req
    BY <1>4 DEF FetchRemote, CreateRefused, UpdateMirrorsDir
  <2> QED BY <1>0, <2>1, OneOwn
<1>5. ASSUME NEW i, NEW S, NEW squash, StartPush(r, i, S, squash) PROVE NoOwn'
  <2> DEFINE at == IF squash /\ Cardinality(S) > 1 THEN "push reset"
                   ELSE IF rows[i].strategy = "feature_branch" THEN "push branch" ELSE "push"
             q(b) == [at |-> at, id |-> i, dir |-> rows[i].dir, selected |-> S, branch |-> b,
                      feature |-> rows[i].strategy = "feature_branch"]
  <2>1. PICK b : Start(r, "push", q(b))
    BY <1>5 DEF StartPush
  <2>2. q(b).at \notin OwnAt   BY DEF OwnAt
  <2> HIDE DEF q
  <2> QED BY <1>1, <2>1, <2>2
<1>6. ASSUME NEW i, StartPull(r, i) PROVE NoOwn'
  <2> DEFINE q == [at |-> "pull fetch", id |-> i, dir |-> rows[i].dir]
  <2>1. Start(r, "pull", q)   BY <1>6 DEF StartPull
  <2>2. q.at \notin OwnAt   BY DEF OwnAt
  <2> HIDE DEF q
  <2> QED BY <1>1, <2>1, <2>2
<1>7. ASSUME NEW i, StartPushToAgent(r, i) PROVE NoOwn'
  <2> DEFINE q == [at |-> "agent pull", id |-> i, dir |-> rows[i].dir]
  <2>1. Start(r, "agent", q)   BY <1>7 DEF StartPushToAgent
  <2>2. q.at \notin OwnAt   BY DEF OwnAt
  <2> HIDE DEF q
  <2> QED BY <1>1, <2>1, <2>2
<1>8. ASSUME NEW i, NEW rm, StartDelete(r, i, rm) PROVE NoOwn'
  <2> DEFINE q(at) == [at |-> at, id |-> i, dir |-> rows[i].dir, rm |-> rm]
  <2>1. PICK at \in {"delete secret", "delete row"} : Start(r, "delete", q(at))
    BY <1>8, DeleteStarts
  <2>2. q(at).at \notin OwnAt   BY DEF OwnAt
  <2> HIDE DEF q
  <2> QED BY <1>1, <2>1, <2>2
<1>9. ASSUME NEW i, NEW l, StartSetLogin(r, i, l) PROVE NoOwn'
  <2> DEFINE q == [at |-> "login secret", id |-> i, login |-> l]
  <2>1. Start(r, "login", q)   BY <1>9 DEF StartSetLogin
  <2>2. q.at \notin OwnAt   BY DEF OwnAt
  <2> HIDE DEF q
  <2> QED BY <1>1, <2>1, <2>2
<1>10. ASSUME NEW i, NEW change, StartUpdate(r, i, change) PROVE NoOwn'
  <2> DEFINE q == [at |-> "update write", id |-> i, row |-> change]
  <2>1. Start(r, "update", q)   BY <1>10 DEF StartUpdate
  <2>2. q.at \notin OwnAt   BY DEF OwnAt
  <2> HIDE DEF q
  <2> QED BY <1>1, <2>1, <2>2
<1>11. ASSUME NEW i, DeleteLogin(r, i) PROVE NoOwn'
  <2> DEFINE q == [at |-> "forget secret", id |-> i]
  <2>1. Start(r, "login", q)   BY <1>11 DEF DeleteLogin
  <2>2. q.at \notin OwnAt   BY DEF OwnAt
  <2> HIDE DEF q
  <2> QED BY <1>1, <2>1, <2>2
<1> QED
  BY <1>2, <1>3, <1>4, <1>5, <1>6, <1>7, <1>8, <1>9, <1>10, <1>11 DEF UserAsks

LEMMA NextOwn ==
  ASSUME TypeOK, NoOwn, wsUrl = NoUrl, [Next]_vars
  PROVE  NoOwn'
<1>1. CASE \/ Checker \/ AgentEdits \/ AgentCommits
           \/ \E p \in late : LatePush(p)
           \/ \E b \in Branch : OthersPush(b)
           \/ \E d \in Dir : ResolveMirror(d)
           \/ \E d, e \in Dir : MoveMirror(d, e)
           \/ UNCHANGED vars
  <2>1. UNCHANGED req
    BY <1>1
    DEF Checker, StartCheck, CheckWorkspace, CheckCount, CheckRemote, CheckBehind, CheckStore, LatePush,
        AgentEdits, AgentCommits, OthersPush, ResolveMirror, MoveMirror, vars
  <2> QED BY <2>1 DEF NoOwn, OwnRequest
<1>2. CASE Exit
  <2>1. \A r \in Request : req'[r] = Idle
    BY <1>2 DEF Exit
  <2>2. Idle.at \notin OwnAt
    BY DEF Idle, OwnAt
  <2> QED BY <2>1, <2>2 DEF NoOwn, OwnRequest, OwnAt
<1> QED BY <1>1, <1>2, RequestOwn, UserOwn DEF Next

LEMMA NextHidden ==
  ASSUME TypeOK, HiddenInv, [Next]_vars
  PROVE  HiddenInv'
<1>1. CASE "own url" \in marks'
  BY <1>1 DEF HiddenInv, OwnMarked, NothingHidden
<1>2. CASE "own url" \notin marks'
  <2>1. "own url" \notin marks /\ wsUrl' \in {wsUrl, NoUrl}
    BY <1>2, NextMarks
  <2>2. wsUrl = NoUrl /\ NoOwn
    BY <2>1 DEF HiddenInv, OwnMarked, NoOwn
  <2>3. AllClean
    BY <2>1 DEF HiddenInv, NothingHidden, AllClean, Clean
  <2>4. wsUrl' = NoUrl /\ NoOwn' /\ CleanAfter
    BY <2>1, <2>2, <2>3, NextOwn, NextClean, NextRemoteGrows DEF NoOwn
  <2>5. OwnMarked'
    BY <2>4 DEF OwnMarked, NoOwn
  <2>6. NothingHidden'
    BY <2>4 DEF NothingHidden, CleanAfter, Clean, Present
  <2> QED BY <2>5, <2>6 DEF HiddenInv
<1> QED BY <1>1, <1>2

LEMMA InitHidden ==
  ASSUME Init
  PROVE  HiddenInv
<1>1. OwnMarked
  BY DEF Init, OwnMarked, OwnRequest, Idle
<1>2. NothingHidden
  <2>1. CASE InitUnmanaged
    BY <2>1 DEF InitUnmanaged, NothingHidden, Present
  <2>2. CASE InitEnabled
    <3>1. PICK pulled \in 1..MaxCommits, strategy \in {"direct", "feature_branch"} :
            InitPulled(pulled, strategy)
      BY <2>2, MaxCommitsAssumption DEF InitEnabled
    <3> DEFINE url == CHOOSE u \in Url : TRUE
               g == Cloned(url, 1..pulled, [NoRefs EXCEPT ![Main] = {1}])
    <3>2. mirror = [d \in Dir |-> IF d = DefaultDir THEN g ELSE NoRepo]
      BY <3>1 DEF InitPulled
    <3>3. g.tracking = remote
      BY DEF Cloned, Init
    <3> HIDE DEF g
    <3> QED BY <3>2, <3>3 DEF NothingHidden, Present
  <2> QED BY <2>1, <2>2 DEF Init
<1> QED BY <1>1, <1>2 DEF HiddenInv

\* Every commit the remote lacks is listed for review: what a mirror takes for
\* pushed is on the remote, after any number of pushes that were refused, given
\* up or overtaken, unless the mirror was cloned from a workspace that had the
\* remote (push_to_remote, list_commits).
THEOREM NothingIsHidden == Spec => []NothingHidden
<1>1. Init => HiddenInv
  BY InitHidden
<1>2. TypeOK /\ HiddenInv /\ [Next]_vars => HiddenInv'
  BY NextHidden
<1>3. HiddenInv => NothingHidden
  BY DEF HiddenInv
<1> QED BY <1>1, <1>2, <1>3, TypeCorrect, PTL DEF Spec

---------------------------------------------------------------------------
(* Commits of other people *)

\* What an operation of the application may put on a repository's branch.
Content(g) == g.head \cup g.staged \cup g.squash \cup g.merging

\* The commits that exist, and those that no other person pushed.
Known == 1..made \cup {Squashed}
Own == Known \ peers

\* Until a pull meets a FETCH_HEAD it did not fetch, the workspace and the
\* mirrors can only come by commits of their own, and so can what a pull merges.
OwnContent ==
  /\ \A b \in Branch : remote[b] \subseteq Known
  /\ \A p \in late : p.head \subseteq Known
  /\ ws # NoRepo => Content(ws) \subseteq Own
  /\ \A d \in Dir : Present(d) =>
       Content(mirror[d]) \subseteq Own /\ (Pulling(d) => mirror[d].fetched \subseteq Own)
RaceInv == "refetched" \notin marks => OwnContent

\* What a step leaves in the mirrors: commits of the workspace's own, and a
\* FETCH_HEAD that is of them as well or was there before.
GoodMirror(d, g) ==
  /\ Content(g) \subseteq Own'
  /\ g.fetched \subseteq Own' \/ (Present(d) /\ g.fetched = mirror[d].fetched)
MirrorsOwn == \A d \in Dir : mirror'[d] # NoRepo => GoodMirror(d, mirror'[d])

LEMMA CloneContent ==
  ASSUME NEW url, NEW head, NEW refs
  PROVE  Content(Cloned(url, head, refs)) = head /\ Cloned(url, head, refs).fetched = {}
BY DEF Content, Cloned

LEMMA FetchPathContent ==
  ASSUME NEW g \in Repo, NEW head
  PROVE  Content(FetchPath(g, head)) = Content(g) /\ FetchPath(g, head).fetched = head
BY DEF Content, FetchPath, Repo

LEMMA FetchOriginContent ==
  ASSUME NEW g \in Repo, NEW refs
  PROVE  Content(FetchOrigin(g, refs)) = Content(g)
BY DEF Content, FetchOrigin, Repo

LEMMA FastForwardContent ==
  ASSUME NEW g \in Repo
  PROVE  /\ Content(FastForward(g)) \subseteq Content(g) \cup g.fetched
         /\ FastForward(g).fetched = g.fetched
BY DEF Content, FastForward, Repo

LEMMA SoftResetContent ==
  ASSUME NEW g \in Repo, NEW c
  PROVE  Content(SoftReset(g, c)) = Content(g) /\ SoftReset(g, c).fetched = g.fetched
BY DEF Content, SoftReset, Repo

LEMMA CommitStagedContent ==
  ASSUME NEW g \in Repo
  PROVE  /\ Content(CommitStaged(g)) \subseteq Content(g) \cup {Squashed}
         /\ CommitStaged(g).fetched = g.fetched
BY DEF Content, CommitStaged, Repo

LEMMA CheckoutContent ==
  ASSUME NEW g \in Repo, NEW b
  PROVE  Content(Checkout(g, b)) = Content(g) /\ Checkout(g, b).fetched = g.fetched
BY DEF Content, Checkout, Repo

LEMMA MergeContent ==
  ASSUME NEW g \in Repo, NEW h \in MergeOutcomes(g)
  PROVE  Content(h) \subseteq Content(g) \cup g.fetched /\ h.fetched = g.fetched
<1>1. LET k == [g EXCEPT !.merging = g.fetched]
      IN  Content(k) \subseteq Content(g) \cup g.fetched /\ k.fetched = g.fetched
  BY DEF Content, Repo
<1> QED BY <1>1, FastForwardContent DEF MergeOutcomes

LEMMA TrackingContent ==
  ASSUME NEW g \in Repo, NEW b \in Branch, NEW head
  PROVE  LET h == [g EXCEPT !.tracking[b] = head] IN Content(h) = Content(g) /\ h.fetched = g.fetched
BY DEF Content, Repo

LEMMA OriginContent ==
  ASSUME NEW g \in Repo, NEW url
  PROVE  /\ LET h == [g EXCEPT !.origin = url] IN Content(h) = Content(g) /\ h.fetched = g.fetched
         /\ LET h == [g EXCEPT !.origin = url, !.linked = FALSE, !.tracking = NoRefs]
            IN  Content(h) = Content(g) /\ h.fetched = g.fetched
BY DEF Content, Repo

LEMMA ResolvedContent ==
  ASSUME NEW g \in Repo, NEW more \in {{}, g.merging}
  PROVE  LET h == [g EXCEPT !.head = @ \cup more, !.merging = {}]
         IN  Content(h) \subseteq Content(g) /\ h.fetched = g.fetched
BY DEF Content, Repo

LEMMA SetOwn ==
  ASSUME ReposTyped, OwnContent, Own \subseteq Own'
  PROVE  /\ UNCHANGED mirror => MirrorsOwn
         /\ \A d \in Dir : \A g :
              SetMirror(d, g) /\ (g = NoRepo \/ GoodMirror(d, g)) => MirrorsOwn
<1>1. ASSUME NEW d \in Dir, Present(d) PROVE GoodMirror(d, mirror[d])
  BY <1>1 DEF OwnContent, GoodMirror
<1>2. UNCHANGED mirror => MirrorsOwn
  BY <1>1 DEF MirrorsOwn, Present
<1>3. ASSUME NEW d \in Dir, NEW g, SetMirror(d, g), g = NoRepo \/ GoodMirror(d, g) PROVE MirrorsOwn
  BY <1>1, <1>3 DEF MirrorsOwn, Present, SetMirror, ReposTyped
<1> QED BY <1>2, <1>3

\* A step adds commits and takes none from the workspace's own.
LEMMA OwnGrows ==
  ASSUME TypeOK, [Next]_vars
  PROVE  Known \subseteq Known' /\ Own \subseteq Own' /\ Squashed \in Own
<1>0. EnvTyped /\ MaxCommits \in Nat /\ Squashed \in Nat /\ MaxCommits < Squashed
  BY MaxCommitsAssumption, SquashedAssumption DEF TypeOK
<1>1. Squashed \in Own
  BY <1>0 DEF EnvTyped, Own, Known
<1>2. CASE AgentCommits
  BY <1>0, <1>1, <1>2 DEF AgentCommits, EnvTyped, Own, Known
<1>3. ASSUME NEW b \in Branch, OthersPush(b) PROVE Known \subseteq Known' /\ Own \subseteq Own'
  <2>1. made + 1 \notin Own
    BY <1>0, <1>3 DEF OthersPush, EnvTyped, Own, Known
  <2> QED BY <1>0, <1>3, <2>1 DEF OthersPush, EnvTyped, Own, Known
<1>4. ASSUME NEW r \in Request, CreateClone(r) \/ CreateRetry(r) PROVE Known \subseteq Known' /\ Own \subseteq Own'
  BY <1>4 DEF CreateClone, CreateRetry, Clone, ForgetTemp, GiveUp, Own, Known
<1>5. ASSUME NEW r \in Request, RequestSteps(r), ~CreateClone(r),
      ~CreateRetry(r) PROVE UNCHANGED <<made, peers>>
  BY <1>5
  DEF RequestSteps, PullFetch, PullFastForward, PullMerge, PushReset, PushCommit, PushBranch, Push,
      PullIntoWorkspace, EnableClone, EnableSetUrl, EnableLink, EnableStrip, EnableRow,
      CreateWorkspace, CreateRow, DeleteRow, DeleteMirror, SetSecret, ForgetSecret, DeleteSecret,
      UpdateWrite, env
<1>6. ASSUME NEW r \in Request, UserAsks(r) PROVE UNCHANGED <<made, peers>>
  BY <1>6, UserKeeps
<1>7. ASSUME \/ Checker \/ \E p \in late : LatePush(p)
             \/ AgentEdits
             \/ \E d \in Dir : ResolveMirror(d)
             \/ \E d, e \in Dir : MoveMirror(d, e)
             \/ Exit \/ UNCHANGED vars
      PROVE  UNCHANGED <<made, peers>>
  BY <1>7
  DEF Checker, StartCheck, CheckWorkspace, CheckCount, CheckRemote, CheckBehind, CheckStore,
      LatePush, AgentEdits, ResolveMirror, MoveMirror, Exit, vars, env
<1>8. UNCHANGED <<made, peers>> => Known \subseteq Known' /\ Own \subseteq Own'
  BY DEF Known, Own
<1> QED BY <1>1, <1>2, <1>3, <1>4, <1>5, <1>6, <1>7, <1>8 DEF Next

LEMMA RequestMirrorsOwn ==
  ASSUME TypeOK, OwnContent, NEW r \in Request, RequestSteps(r)
  PROVE  MirrorsOwn
<1>0. /\ req[r] \in Requests /\ ReposTyped /\ remote \in [Branch -> SUBSET Commits]
      /\ Own \subseteq Own' /\ Squashed \in Own /\ Known \subseteq Known'
  <2>1. [Next]_vars   BY DEF Next
  <2> QED BY <2>1, OwnGrows DEF TypeOK, TasksTyped, ReposTyped
<1>1. ASSUME req[r].at \in PullAt \cup PushAt \cup EnableAt \cup CreateAt \cup DeleteAt
      PROVE  req[r].dir \in Dir
  BY <1>1, <1>0, RequestKinds
  DEF PullRequests, PushRequests, EnableRequests, CreateRequests, DeleteRequests
<1>2. ASSUME NEW d \in Dir, NEW g, SetMirror(d, g), g = NoRepo \/ GoodMirror(d, g) PROVE MirrorsOwn
  BY <1>0, <1>2, SetOwn
<1>3. ASSUME NEW d \in Dir, NEW g, Present(d), SetMirror(d, g),
             Content(g) \subseteq Content(mirror[d]) \cup Own, g.fetched = mirror[d].fetched
      PROVE  MirrorsOwn
  <2>1. GoodMirror(d, g)
    BY <1>0, <1>3 DEF GoodMirror, OwnContent
  <2> QED BY <1>2, <1>3, <2>1
<1>4. ASSUME UNCHANGED mirror PROVE MirrorsOwn
  BY <1>0, <1>4, SetOwn
<1>5. ASSUME NEW d \in Dir, Present(d) PROVE mirror[d] \in Repo /\ Content(mirror[d]) \subseteq Own
  BY <1>0, <1>5, PresentTyped DEF OwnContent
<1>6. CASE PullFetch(r)
  <2> DEFINE d == req[r].dir
  <2>1. d \in Dir
    BY <1>1, <1>6 DEF PullFetch, At, PullAt
  <2>2. CASE Present(d) /\ ws # NoRepo /\ SetMirror(d, FetchPath(mirror[d], ws.head))
    <3>1. ws.head \subseteq Own
      BY <2>2 DEF OwnContent, Content
    <3>2. GoodMirror(d, FetchPath(mirror[d], ws.head))
      BY <1>0, <1>5, <2>1, <2>2, <3>1, FetchPathContent DEF GoodMirror
    <3> QED BY <1>2, <2>1, <2>2, <3>2
  <2> QED BY <1>4, <1>6, <2>2 DEF PullFetch
<1>7. CASE PullFastForward(r)
  <2> DEFINE d == req[r].dir
  <2>1. d \in Dir
    BY <1>1, <1>7 DEF PullFastForward, At, PullAt
  <2>2. CASE Present(d) /\ SetMirror(d, FastForward(mirror[d]))
    <3>1. mirror[d].fetched \subseteq Own
      BY <1>7, <2>1, <2>2 DEF OwnContent, Pulling, PullFastForward
    <3> QED BY <1>3, <1>5, <2>1, <2>2, <3>1, FastForwardContent
  <2> QED BY <1>4, <1>7, <2>2 DEF PullFastForward
<1>8. CASE PullMerge(r)
  <2> DEFINE d == req[r].dir
  <2>1. d \in Dir
    BY <1>1, <1>8 DEF PullMerge, At, PullAt
  <2>2. ASSUME NEW h \in MergeOutcomes(mirror[d]), Present(d), SetMirror(d, h) PROVE MirrorsOwn
    <3>1. mirror[d].fetched \subseteq Own
      BY <1>8, <2>1, <2>2 DEF OwnContent, Pulling, PullMerge
    <3> QED BY <1>3, <1>5, <2>1, <2>2, <3>1, MergeContent
  <2> QED BY <1>4, <1>8, <2>2 DEF PullMerge
<1>9. CASE PushReset(r)
  <2>1. req[r].dir \in Dir
    BY <1>1, <1>9 DEF PushReset, At, PushAt
  <2> QED BY <1>3, <1>4, <1>5, <1>9, <2>1, SoftResetContent DEF PushReset
<1>10. CASE PushCommit(r)
  <2>1. req[r].dir \in Dir
    BY <1>1, <1>10 DEF PushCommit, At, PushAt
  <2>2. {Squashed} \subseteq Own
    BY <1>0
  <2> QED BY <1>3, <1>4, <1>5, <1>10, <2>1, <2>2, CommitStagedContent DEF PushCommit
<1>11. CASE PushBranch(r)
  <2>1. req[r].dir \in Dir
    BY <1>1, <1>11 DEF PushBranch, At, PushAt
  <2> QED BY <1>3, <1>4, <1>5, <1>11, <2>1, CheckoutContent DEF PushBranch
<1>12. CASE Push(r)
  <2> DEFINE d == req[r].dir
             b == req[r].branch
  <2>1. d \in Dir /\ b \in Branch
    <3>1. req[r].at \in PushAt   BY <1>12 DEF Push, At, PushAt
    <3> QED BY <1>0, <3>1, RequestKinds DEF PushRequests
  <2>2. CASE UNCHANGED mirror
    BY <2>2, <1>4
  <2>3. CASE Present(d) /\ Pushed(d, b)
    <3>1. mirror[d] \in Repo
      BY <1>5, <2>1, <2>3
    <3> HIDE DEF d, b
    <3> QED BY <1>3, <2>1, <2>3, <3>1, TrackingContent DEF Pushed
  <2> QED BY <1>12, <2>2, <2>3 DEF Push, CanPush
<1>13. CASE EnableClone(r)
  <2> DEFINE g == Cloned(WsUrl, ws.head, [NoRefs EXCEPT ![Main] = ws.head])
  <2>1. req[r].dir \in Dir
    BY <1>1, <1>13 DEF EnableClone, At, EnableAt
  <2>2. ws # NoRepo => ws.head \subseteq Own
    BY DEF OwnContent, Content
  <2>3. ws # NoRepo => GoodMirror(req[r].dir, g)
    BY <1>0, <2>2, CloneContent DEF GoodMirror
  <2> HIDE DEF g
  <2>4. ~(ws # NoRepo /\ SetMirror(req[r].dir, g)) => SetMirror(req[r].dir, NoRepo)
    BY <1>13 DEF EnableClone, g
  <2> QED BY <1>2, <2>1, <2>3, <2>4
<1>14. CASE EnableSetUrl(r)
  <2>1. req[r].dir \in Dir
    BY <1>1, <1>14 DEF EnableSetUrl, At, EnableAt
  <2> QED BY <1>3, <1>4, <1>5, <1>14, <2>1, OriginContent DEF EnableSetUrl
<1>15. CASE EnableLink(r)
  <2>1. req[r].dir \in Dir
    BY <1>1, <1>15 DEF EnableLink, At, EnableAt
  <2> QED BY <1>2, <1>3, <1>4, <1>5, <1>15, <2>1, OriginContent DEF EnableLink
<1>16. CASE CreateClone(r) \/ CreateRetry(r)
  <2> DEFINE g == Cloned(req[r].url, remote[Main], remote)
  <2>1. req[r].dir \in Dir
    BY <1>1, <1>16 DEF CreateClone, CreateRetry, Clone, ForgetTemp, GiveUp, At, CreateAt
  <2>2. CASE SetMirror(req[r].dir, g) /\ peers' = peers \ UNION {remote[b] : b \in Branch}
    <3>1. remote[Main] \subseteq Known /\ remote[Main] \cap peers' = {}
      BY <2>2, BranchFacts DEF OwnContent
    <3>2. Known \subseteq Known'
      BY <1>0
    <3>3. remote[Main] \subseteq Own'
      BY <3>1, <3>2 DEF Own
    <3>4. GoodMirror(req[r].dir, g)
      BY <3>3, CloneContent DEF GoodMirror
    <3> HIDE DEF g
    <3> QED BY <1>2, <2>1, <2>2, <3>4
  <2> QED BY <1>2, <1>4, <1>16, <2>1, <2>2 DEF CreateClone, CreateRetry, Clone, ForgetTemp, GiveUp
<1>17. CASE CreateWorkspace(r)
  BY <1>1, <1>17, <1>2, <1>4 DEF CreateWorkspace, At, CreateAt
<1>18. CASE DeleteMirror(r)
  BY <1>1, <1>18, <1>2 DEF DeleteMirror, At, DeleteAt
<1>19. CASE PullIntoWorkspace(r) \/ EnableStrip(r) \/ EnableRow(r) \/ CreateRow(r)
              \/ DeleteRow(r) \/ SetSecret(r) \/ ForgetSecret(r) \/ DeleteSecret(r) \/ UpdateWrite(r)
  BY <1>19, <1>4
  DEF PullIntoWorkspace, EnableStrip, EnableRow, CreateRow, DeleteRow, SetSecret, ForgetSecret,
  DeleteSecret, UpdateWrite
<1> QED
  BY <1>6, <1>7, <1>8, <1>9, <1>10, <1>11, <1>12, <1>13, <1>14, <1>15, <1>16, <1>17, <1>18, <1>19
  DEF RequestSteps

---------------------------------------------------------------------------
(* Requests: how they start, go on and end *)

\* The steps that follow each other.
Moves ==
  { <<"pull fetch", "pull ff">>, <<"pull ff", "pull merge">>,
    <<"push reset", "push commit">>, <<"push commit", "push branch">>, <<"push commit", "push">>,
    <<"push branch", "push">>,
    <<"enable clone", "enable origin">>, <<"enable origin", "enable strip">>,
    <<"enable strip", "enable row">>,
    <<"create clone", "create retry">>, <<"create clone", "create workspace">>,
    <<"create retry", "create workspace">>, <<"create workspace", "create row">>,
    <<"delete secret", "delete row">>, <<"delete row", "delete mirror">> }
SameButAt(p, q) ==
  /\ q.dir = p.dir
  /\ p.at \in EnableAt => q.own = p.own /\ q.url = p.url
  /\ p.at \in CreateAt => q.login = p.login
  /\ p.at \in DeleteAt => q.id = p.id

\* A request's next step, or its end.
MovesOn(r) ==
  \E q : /\ req' = [req EXCEPT ![r] = q]
         /\ q = Idle \/ (<<req[r].at, q.at>> \in Moves /\ SameButAt(req[r], q))

LEMMA EndMovesOn ==
  ASSUME NEW r \in Request, Finish(r) \/ FinishSync(r)
  PROVE  MovesOn(r)
BY DEF Finish, FinishSync, MovesOn

LEMMA GoToMovesOn ==
  ASSUME TasksTyped, NEW r \in Request, NEW at, GoTo(r, at), <<req[r].at, at>> \in Moves
  PROVE  MovesOn(r)
<1> DEFINE p == req[r]
           q == [p EXCEPT !.at = at]
<1>1. p \in Requests
  BY DEF TasksTyped
<1>2. p.at \in PullAt \cup PushAt \cup EnableAt \cup CreateAt \cup DeleteAt
  BY DEF Moves, PullAt, PushAt, EnableAt, CreateAt, DeleteAt
<1>3. \/ p \in PullRequests \/ p \in PushRequests \/ p \in CreateRequests
      \/ p \in EnableRequests \/ p \in DeleteRequests
  BY <1>1, <1>2, RequestKinds
<1> HIDE DEF p
<1>4. ASSUME p \in PullRequests \/ p \in PushRequests
      PROVE  q.at = at /\ q.dir = p.dir /\ p.at \notin EnableAt /\ p.at \notin CreateAt /\ p.at \notin DeleteAt
  BY <1>4 DEF PullRequests, PushRequests, EnableAt, CreateAt, DeleteAt
<1>9. ASSUME p \in CreateRequests
      PROVE  q.at = at /\ q.dir = p.dir /\ q.login = p.login /\ p.at \notin EnableAt /\ p.at \notin DeleteAt
  BY <1>9 DEF CreateRequests, EnableAt, DeleteAt
<1>5. ASSUME p \in EnableRequests
      PROVE  /\ q.at = at /\ q.dir = p.dir /\ q.own = p.own /\ q.url = p.url
             /\ p.at \notin CreateAt /\ p.at \notin DeleteAt
  BY <1>5 DEF EnableRequests, CreateAt, DeleteAt
<1>6. ASSUME p \in DeleteRequests
      PROVE  q.at = at /\ q.dir = p.dir /\ q.id = p.id /\ p.at \notin EnableAt /\ p.at \notin CreateAt
  BY <1>6 DEF DeleteRequests, EnableAt, CreateAt
<1>7. q.at = at /\ SameButAt(p, q)
  BY <1>3, <1>4, <1>5, <1>6, <1>9 DEF SameButAt
<1>8. req' = [req EXCEPT ![r] = q]
  BY DEF GoTo, p
<1> HIDE DEF q
<1> QED BY <1>7, <1>8 DEF MovesOn, p

LEMMA RequestMovesOn ==
  ASSUME TypeOK, NEW r \in Request, RequestSteps(r)
  PROVE  MovesOn(r)
<1>0. TasksTyped
  BY DEF TypeOK
<1>1. CASE PullFetch(r)
  <2> DEFINE q == [at |-> "pull ff", id |-> req[r].id, dir |-> req[r].dir]
  <2>1. FinishSync(r) \/ req' = [req EXCEPT ![r] = q]
    BY <1>1 DEF PullFetch, Step
  <2>2. <<req[r].at, q.at>> \in Moves /\ SameButAt(req[r], q)
    BY <1>1 DEF PullFetch, At, Moves, SameButAt, EnableAt, CreateAt, DeleteAt
  <2> HIDE DEF q
  <2> QED BY <2>1, <2>2, EndMovesOn DEF MovesOn
<1>2. CASE ~PullFetch(r)
  <2>1. \/ Finish(r)
        \/ \E at : GoTo(r, at) /\ <<req[r].at, at>> \in Moves
    <3>1. ASSUME \/ PullFastForward(r) \/ PushReset(r) \/ PushCommit(r) \/ PushBranch(r)
          PROVE  Finish(r) \/ \E at : GoTo(r, at) /\ <<req[r].at, at>> \in Moves
      BY <3>1 DEF PullFastForward, PushReset, PushCommit, PushBranch, FinishSync, At, Moves
    <3>2. ASSUME \/ EnableClone(r) \/ EnableSetUrl(r) \/ EnableLink(r) \/ EnableStrip(r)
                 \/ CreateClone(r) \/ CreateRetry(r) \/ CreateWorkspace(r)
                 \/ DeleteSecret(r) \/ DeleteRow(r)
          PROVE  Finish(r) \/ \E at : GoTo(r, at) /\ <<req[r].at, at>> \in Moves
      BY <3>2
      DEF EnableClone, EnableSetUrl, EnableLink, EnableStrip, CreateClone, CreateRetry, Clone,
          GiveUp, CreateWorkspace, DeleteSecret, DeleteRow, At, Moves
    <3>3. ASSUME \/ PullMerge(r) \/ Push(r) \/ PullIntoWorkspace(r) \/ EnableRow(r) \/ CreateRow(r)
                 \/ DeleteMirror(r) \/ SetSecret(r) \/ ForgetSecret(r) \/ UpdateWrite(r)
          PROVE  Finish(r)
      BY <3>3
      DEF PullMerge, Push, PullIntoWorkspace, EnableRow, CreateRow, InsertRow, DeleteMirror, SetSecret,
          ForgetSecret, UpdateWrite, FinishSync
    <3> QED BY <1>2, <3>1, <3>2, <3>3 DEF RequestSteps
  <2> QED BY <1>0, <2>1, EndMovesOn, GoToMovesOn
<1> QED BY <1>1, <1>2

\* The requests that may start, with what they find.
SyncStart == {"pull fetch", "agent pull", "push reset", "push branch", "push"}
Cloning == {"enable clone", "create clone"}
Begun(q) ==
  \/ q.at \in SyncStart
  \/ q.at = "update write"
  \/ q.at \in {"delete secret", "delete row", "login secret"} /\ q.id \in Managed
  \/ q.at = "forget secret" /\ q.id \in 1..used
  \/ /\ q.at \in Cloning /\ q.dir = mirrorsDir /\ ~Present(mirrorsDir)
     /\ \A o \in Request : Enabling(o) => "overlap" \in marks'
     /\ q.at = "enable clone" =>
          /\ q.own => q.url # NoUrl /\ q.url = wsUrl
          /\ ~q.own /\ wsUrl # NoUrl => "no origin" \in marks'
Starts(r) == \E q : req[r] = Idle /\ req' = [req EXCEPT ![r] = q] /\ Begun(q)

LEMMA UserStarts ==
  ASSUME NEW r \in Request, UserAsks(r)
  PROVE  UNCHANGED req \/ Starts(r)
<1>1. ASSUME NEW op, NEW q, Start(r, op, q), q.at \in SyncStart PROVE Starts(r)
  BY <1>1 DEF Start, Starts, Begun
<1>2. ASSUME NEW op, NEW q, Start(r, op, q), q.at = "update write" PROVE Starts(r)
  BY <1>2 DEF Start, Starts, Begun
<1>3. ASSUME NEW op, NEW q, Start(r, op, q), q.at \in {"delete secret", "delete row", "login secret"},
             q.id \in Managed
      PROVE  Starts(r)
  BY <1>3 DEF Start, Starts, Begun
<1>4. ASSUME \/ \E i \in Managed : FetchRemote(r, i)
             \/ \E l \in Login : CreateRefused(r, l)
             \/ \E d \in Dir : UpdateMirrorsDir(r, d)
      PROVE  UNCHANGED req
  BY <1>4 DEF FetchRemote, CreateRefused, UpdateMirrorsDir
<1>5. ASSUME NEW i, NEW S, NEW squash, StartPush(r, i, S, squash) PROVE Starts(r)
  <2> DEFINE at == IF squash /\ Cardinality(S) > 1 THEN "push reset"
                   ELSE IF rows[i].strategy = "feature_branch" THEN "push branch" ELSE "push"
             q(b) == [at |-> at, id |-> i, dir |-> rows[i].dir, selected |-> S, branch |-> b,
                      feature |-> rows[i].strategy = "feature_branch"]
  <2>1. PICK b : Start(r, "push", q(b))
    BY <1>5 DEF StartPush
  <2>2. q(b).at \in SyncStart   BY DEF SyncStart
  <2> HIDE DEF q
  <2> QED BY <1>1, <2>1, <2>2
<1>6. ASSUME NEW i, StartPull(r, i) PROVE Starts(r)
  <2> DEFINE q == [at |-> "pull fetch", id |-> i, dir |-> rows[i].dir]
  <2>1. Start(r, "pull", q)   BY <1>6 DEF StartPull
  <2>2. q.at \in SyncStart   BY DEF SyncStart
  <2> HIDE DEF q
  <2> QED BY <1>1, <2>1, <2>2
<1>7. ASSUME NEW i, StartPushToAgent(r, i) PROVE Starts(r)
  <2> DEFINE q == [at |-> "agent pull", id |-> i, dir |-> rows[i].dir]
  <2>1. Start(r, "agent", q)   BY <1>7 DEF StartPushToAgent
  <2>2. q.at \in SyncStart   BY DEF SyncStart
  <2> HIDE DEF q
  <2> QED BY <1>1, <2>1, <2>2
<1>8. ASSUME NEW i \in Managed, NEW rm, StartDelete(r, i, rm) PROVE Starts(r)
  <2> DEFINE q(at) == [at |-> at, id |-> i, dir |-> rows[i].dir, rm |-> rm]
  <2>1. PICK at \in {"delete secret", "delete row"} : Start(r, "delete", q(at))
    BY <1>8, DeleteStarts
  <2>2. q(at).at = at /\ q(at).id = i   OBVIOUS
  <2> HIDE DEF q
  <2> QED BY <1>3, <2>1, <2>2
<1>9. ASSUME NEW i \in Managed, NEW l, StartSetLogin(r, i, l) PROVE Starts(r)
  <2> DEFINE q == [at |-> "login secret", id |-> i, login |-> l]
  <2>1. Start(r, "login", q)   BY <1>9 DEF StartSetLogin
  <2>2. q.at = "login secret" /\ q.id = i   OBVIOUS
  <2> HIDE DEF q
  <2> QED BY <1>3, <2>1, <2>2
<1>10. ASSUME NEW i, NEW change, StartUpdate(r, i, change) PROVE Starts(r)
  <2> DEFINE q == [at |-> "update write", id |-> i, row |-> change]
  <2>1. Start(r, "update", q)   BY <1>10 DEF StartUpdate
  <2>2. q.at = "update write"   OBVIOUS
  <2> HIDE DEF q
  <2> QED BY <1>2, <2>1, <2>2
<1>11. ASSUME NEW url, StartEnable(r, url) PROVE Starts(r)
  <2> DEFINE q(own) == [at |-> "enable clone", dir |-> mirrorsDir, url |-> url, own |-> own]
             mark(own) == IF own \/ wsUrl = NoUrl THEN {} ELSE {"no origin"}
  <2>1. PICK own \in BOOLEAN : /\ own => url # NoUrl /\ url = wsUrl
                               /\ StartEnabling(r, "enable", q(own), mark(own))
    BY <1>11 DEF StartEnable
  <2>2. /\ q(own).at = "enable clone" /\ q(own).dir = mirrorsDir /\ q(own).own = own
        /\ q(own).url = url
    OBVIOUS
  <2>3. ~own /\ wsUrl # NoUrl => "no origin" \in mark(own)
    OBVIOUS
  <2> HIDE DEF q, mark
  <2>4. /\ req[r] = Idle /\ req' = [req EXCEPT ![r] = q(own)] /\ ~Present(mirrorsDir)
        /\ mark(own) \subseteq marks'
        /\ \A o \in Request : Enabling(o) => "overlap" \in marks'
    BY <2>1 DEF StartEnabling, Start
  <2> QED BY <2>1, <2>2, <2>3, <2>4 DEF Starts, Begun, Cloning
<1>12. ASSUME NEW url, NEW l, StartCreate(r, url, l) PROVE Starts(r)
  <2> DEFINE q == [at |-> "create clone", dir |-> mirrorsDir, url |-> url, login |-> l]
  <2>1. /\ req[r] = Idle /\ req' = [req EXCEPT ![r] = q] /\ ~Present(mirrorsDir)
        /\ \A o \in Request : Enabling(o) => "overlap" \in marks'
    BY <1>12 DEF StartCreate, StartEnabling, Start
  <2>2. q.at = "create clone" /\ q.dir = mirrorsDir
    OBVIOUS
  <2> HIDE DEF q
  <2> QED BY <2>1, <2>2 DEF Starts, Begun, Cloning
<1>13. ASSUME NEW i \in 1..used, DeleteLogin(r, i) PROVE Starts(r)
  <2> DEFINE q == [at |-> "forget secret", id |-> i]
  <2>1. Start(r, "login", q)   BY <1>13 DEF DeleteLogin
  <2>2. q.at = "forget secret" /\ q.id = i   OBVIOUS
  <2> HIDE DEF q
  <2> QED BY <2>1, <2>2 DEF Start, Starts, Begun
<1> QED
  BY <1>4, <1>5, <1>6, <1>7, <1>8, <1>9, <1>10, <1>11, <1>12, <1>13 DEF UserAsks

\* Every step is one of a request, or leaves the requests alone, or ends them all.
LEMMA NextRequests ==
  ASSUME [Next]_vars
  PROVE  \/ UNCHANGED req
         \/ Exit /\ \A r \in Request : req'[r] = Idle
         \/ \E r \in Request : RequestSteps(r) \/ UserAsks(r)
<1>1. CASE \/ Checker \/ AgentEdits \/ AgentCommits
           \/ \E p \in late : LatePush(p)
           \/ \E b \in Branch : OthersPush(b)
           \/ \E d \in Dir : ResolveMirror(d)
           \/ \E d, e \in Dir : MoveMirror(d, e)
           \/ UNCHANGED vars
  BY <1>1
  DEF Checker, StartCheck, CheckWorkspace, CheckCount, CheckRemote, CheckBehind, CheckStore, LatePush,
      AgentEdits, AgentCommits, OthersPush, ResolveMirror, MoveMirror, vars
<1>2. CASE Exit
  BY <1>2 DEF Exit
<1> QED BY <1>1, <1>2 DEF Next

\* One request changes at most, unless they all end.
SlotStep(r, q) ==
  /\ req' = [req EXCEPT ![r] = q]
  /\ \/ q = Idle
     \/ RequestSteps(r) /\ <<req[r].at, q.at>> \in Moves /\ SameButAt(req[r], q)
     \/ UserAsks(r) /\ req[r] = Idle /\ Begun(q)

LEMMA NextSlot ==
  ASSUME TypeOK, [Next]_vars
  PROVE  \/ UNCHANGED req
         \/ Exit /\ \A r \in Request : req'[r] = Idle
         \/ \E r \in Request : \E q : SlotStep(r, q)
<1>1. ASSUME NEW r \in Request, RequestSteps(r) PROVE \E q : SlotStep(r, q)
  BY <1>1, RequestMovesOn DEF MovesOn, SlotStep
<1>2. ASSUME NEW r \in Request, UserAsks(r) PROVE UNCHANGED req \/ \E q : SlotStep(r, q)
  BY <1>2, UserStarts DEF Starts, SlotStep
<1> QED BY <1>1, <1>2, NextRequests

\* The request is where the change leaves it, the others are where they were.
LEMMA SlotAfter ==
  ASSUME TypeOK, NEW r \in Request, NEW q, SlotStep(r, q)
  PROVE  req'[r] = q /\ \A o \in Request : o # r => req'[o] = req[o]
BY DEF TypeOK, TasksTyped, SlotStep

---------------------------------------------------------------------------
(* One enabling request at a time, and requests about rows that were given an id *)

OneEnabling == "overlap" \notin marks => \A r, o \in Request : Enabling(r) /\ Enabling(o) => r = o
IdAt == DeleteAt \cup {"login secret", "forget secret"}
IdsUsed == \A r \in Request : req[r].at \in IdAt => req[r].id \in 1..used
OwnUrl == \A r \in Request : req[r].at \in {"enable clone", "enable origin"} /\ req[r].own => req[r].url # NoUrl
RequestInv == OneEnabling /\ IdsUsed /\ OwnUrl

LEMMA NextOneEnabling ==
  ASSUME TypeOK, OneEnabling, [Next]_vars
  PROVE  OneEnabling'
<1>0. Idle.at = "idle"
  BY DEF Idle
<1>1. SUFFICES ASSUME "overlap" \notin marks', NEW x \in Request, NEW y \in Request,
                      req'[x].at \in EnableSteps, req'[y].at \in EnableSteps
               PROVE  x = y
  BY DEF OneEnabling, Enabling
<1>2. \A r, o \in Request : req[r].at \in EnableSteps /\ req[o].at \in EnableSteps => r = o
  BY <1>1, NextMarks DEF OneEnabling, Enabling
<1>3. CASE UNCHANGED req
  BY <1>1, <1>2, <1>3
<1>4. CASE \A r \in Request : req'[r] = Idle
  BY <1>0, <1>1, <1>4 DEF EnableSteps
<1>5. ASSUME NEW r \in Request, NEW q, SlotStep(r, q) PROVE x = y
  <2>1. req'[r] = q /\ \A o \in Request : o # r => req'[o] = req[o]
    BY <1>5, SlotAfter
  <2>2. CASE q = Idle
    BY <1>0, <1>1, <1>2, <2>1, <2>2 DEF EnableSteps
  <2>3. CASE <<req[r].at, q.at>> \in Moves
    <3>1. q.at \in EnableSteps => req[r].at \in EnableSteps
      BY <2>3 DEF Moves, EnableSteps
    <3> QED BY <1>1, <1>2, <2>1, <3>1
  <2>4. CASE Begun(q)
    <3>1. q.at \in EnableSteps => \A o \in Request : req[o].at \notin EnableSteps
      BY <1>1, <2>4 DEF Begun, SyncStart, Cloning, EnableSteps, Enabling
    <3> QED BY <1>1, <1>2, <2>1, <3>1
  <2> QED BY <1>5, <2>2, <2>3, <2>4 DEF SlotStep
<1> QED BY <1>3, <1>4, <1>5, NextSlot

LEMMA NextIdsUsed ==
  ASSUME TypeOK, IdsUsed, [Next]_vars
  PROVE  IdsUsed'
<1>0. Idle.at = "idle"
  BY DEF Idle
<1>1. SUFFICES ASSUME NEW x \in Request, req'[x].at \in IdAt
               PROVE  req'[x].id \in 1..used'
  BY DEF IdsUsed
<1>2. 1..used \subseteq 1..used' /\ Managed \subseteq 1..used
  BY NextRowStep, MaxRowsAssumption DEF RowStep, TypeOK, HostTyped, IdsGiven
<1>3. \A r \in Request : req[r].at \in IdAt => req[r].id \in 1..used'
  BY <1>2 DEF IdsUsed
<1>4. CASE UNCHANGED req
  BY <1>1, <1>3, <1>4
<1>5. CASE \A r \in Request : req'[r] = Idle
  BY <1>0, <1>1, <1>5 DEF IdAt, DeleteAt
<1>6. ASSUME NEW r \in Request, NEW q, SlotStep(r, q) PROVE req'[x].id \in 1..used'
  <2>1. req'[r] = q /\ \A o \in Request : o # r => req'[o] = req[o]
    BY <1>6, SlotAfter
  <2>2. CASE q = Idle
    BY <1>0, <1>1, <1>3, <2>1, <2>2 DEF IdAt, DeleteAt
  <2>3. CASE <<req[r].at, q.at>> \in Moves /\ SameButAt(req[r], q)
    <3>1. q.at \in IdAt => req[r].at \in IdAt /\ q.id = req[r].id
      BY <2>3 DEF Moves, SameButAt, DeleteAt, IdAt
    <3> QED BY <1>1, <1>3, <2>1, <3>1
  <2>4. CASE Begun(q)
    <3>1. q.at \in IdAt => q.id \in 1..used'
      BY <1>2, <2>4 DEF Begun, SyncStart, Cloning, IdAt, DeleteAt
    <3> QED BY <1>1, <1>3, <2>1, <3>1
  <2> QED BY <1>6, <2>2, <2>3, <2>4 DEF SlotStep
<1> QED BY <1>4, <1>5, <1>6, NextSlot

LEMMA NextOwnUrl ==
  ASSUME TypeOK, OwnUrl, [Next]_vars
  PROVE  OwnUrl'
<1>0. Idle.at = "idle"
  BY DEF Idle
<1>1. SUFFICES ASSUME NEW x \in Request, req'[x].at \in {"enable clone", "enable origin"}, req'[x].own
               PROVE  req'[x].url # NoUrl
  BY DEF OwnUrl
<1>4. CASE UNCHANGED req
  BY <1>1, <1>4 DEF OwnUrl
<1>5. CASE \A r \in Request : req'[r] = Idle
  BY <1>0, <1>1, <1>5
<1>6. ASSUME NEW r \in Request, NEW q, SlotStep(r, q) PROVE req'[x].url # NoUrl
  <2>1. req'[r] = q /\ \A o \in Request : o # r => req'[o] = req[o]
    BY <1>6, SlotAfter
  <2>2. CASE q = Idle
    BY <1>0, <1>1, <2>1, <2>2 DEF OwnUrl
  <2>3. CASE <<req[r].at, q.at>> \in Moves /\ SameButAt(req[r], q)
    <3>1. q.at \in {"enable clone", "enable origin"} =>
            req[r].at = "enable clone" /\ q.own = req[r].own /\ q.url = req[r].url
      BY <2>3 DEF Moves, SameButAt, EnableAt
    <3> QED BY <1>1, <2>1, <3>1 DEF OwnUrl
  <2>4. CASE Begun(q)
    <3>1. q.at \in {"enable clone", "enable origin"} => (q.own => q.url # NoUrl)
      BY <2>4 DEF Begun, SyncStart, Cloning
    <3> QED BY <1>1, <2>1, <3>1 DEF OwnUrl
  <2> QED BY <1>6, <2>2, <2>3, <2>4 DEF SlotStep
<1> QED BY <1>4, <1>5, <1>6, NextSlot

LEMMA InitRequestInv ==
  ASSUME Init
  PROVE  RequestInv
BY DEF Init, RequestInv, OneEnabling, IdsUsed, IdAt, DeleteAt, OwnUrl, Enabling, EnableSteps, Idle

LEMMA NextRequestInv ==
  ASSUME TypeOK, RequestInv, [Next]_vars
  PROVE  RequestInv'
BY NextOneEnabling, NextIdsUsed, NextOwnUrl DEF RequestInv

\* Only a pull's fetch lets a pull go on to its merge, so that a mirror is in the
\* middle of a pull after a step only if it was before or its FETCH_HEAD is the
\* workspace's.
PullsFrom ==
  \A d \in Dir : Pulling(d)' =>
    Pulling(d) \/ (mirror'[d] # NoRepo => mirror'[d].fetched \subseteq Own')

LEMMA PullFetchFrom ==
  ASSUME TypeOK, OwnContent, NEW r \in Request, PullFetch(r)
  PROVE  /\ req[r].dir \in Dir
         /\ \/ Finish(r)
            \/ mirror'[req[r].dir].fetched \subseteq Own'
<1> DEFINE d == req[r].dir
<1>1. d \in Dir
  <2>1. req[r] \in Requests /\ req[r].at \in PullAt
    BY DEF TypeOK, TasksTyped, PullFetch, At, PullAt
  <2> QED BY <2>1, RequestKinds DEF PullRequests
<1>2. CASE Present(d) /\ ws # NoRepo /\ SetMirror(d, FetchPath(mirror[d], ws.head))
  <2>1. mirror[d] \in Repo /\ mirror \in [Dir -> Repo \cup {NoRepo}]
    BY <1>1, <1>2, PresentTyped DEF TypeOK, ReposTyped
  <2>2. ws.head \subseteq Own
    BY <1>2 DEF OwnContent, Content
  <2>3. Own \subseteq Own'
    <3>1. [Next]_vars   BY DEF Next, RequestSteps
    <3> QED BY <3>1, OwnGrows
  <2>4. mirror'[d].fetched = ws.head
    BY <1>1, <1>2, <2>1, FetchPathContent DEF SetMirror
  <2> QED BY <1>1, <2>2, <2>3, <2>4
<1> QED BY <1>1, <1>2 DEF PullFetch, FinishSync

LEMMA NextPullsFrom ==
  ASSUME TypeOK, OwnContent, [Next]_vars
  PROVE  PullsFrom
<1>0. TasksTyped /\ Idle.at = "idle"
  BY DEF TypeOK, Idle
<1>1. ASSUME NEW r \in Request, NEW q, req' = [req EXCEPT ![r] = q],
             q.at \notin {"pull ff", "pull merge"}
      PROVE  PullsFrom
  BY <1>0, <1>1 DEF PullsFrom, Pulling, At, TasksTyped
<1>2. ASSUME NEW r \in Request, RequestSteps(r), ~PullFetch(r) PROVE PullsFrom
  <2>1. PICK q : /\ req' = [req EXCEPT ![r] = q]
                 /\ q = Idle \/ (<<req[r].at, q.at>> \in Moves /\ SameButAt(req[r], q))
    BY <1>2, RequestMovesOn DEF MovesOn
  <2>2. CASE q.at \notin {"pull ff", "pull merge"}
    BY <1>1, <2>1, <2>2
  <2>3. CASE q.at = "pull merge"
    <3>1. req[r].at = "pull ff" /\ q.dir = req[r].dir
      BY <1>0, <2>1, <2>3 DEF Moves, SameButAt
    <3> QED BY <1>0, <2>1, <3>1 DEF PullsFrom, Pulling, At, TasksTyped
  <2>4. CASE q.at = "pull ff"
    <3>1. req[r].at = "pull fetch"
      BY <1>0, <2>1, <2>4 DEF Moves
    <3>2. ~At(r, "pull fetch")
      BY <1>2, <3>1
      DEF At, RequestSteps, PullFastForward, PullMerge, PushReset, PushCommit, PushBranch, Push,
          PullIntoWorkspace, EnableClone, EnableSetUrl, EnableLink, EnableStrip, EnableRow,
          CreateClone, CreateRetry, Clone, ForgetTemp, GiveUp, CreateWorkspace, CreateRow, DeleteRow,
          DeleteMirror, SetSecret, ForgetSecret, DeleteSecret, UpdateWrite
    <3> QED BY <3>1, <3>2 DEF At
  <2> QED BY <2>2, <2>3, <2>4
<1>3. ASSUME NEW r \in Request, PullFetch(r) PROVE PullsFrom
  <2>1. RequestSteps(r)
    BY <1>3 DEF RequestSteps
  <2>2. PICK q : /\ req' = [req EXCEPT ![r] = q]
                 /\ q = Idle \/ (<<req[r].at, q.at>> \in Moves /\ SameButAt(req[r], q))
    BY <2>1, RequestMovesOn DEF MovesOn
  <2>3. CASE Finish(r)
    BY <1>0, <1>1, <2>3 DEF Finish
  <2>4. CASE mirror'[req[r].dir].fetched \subseteq Own'
    <3>1. q = Idle \/ q.dir = req[r].dir
      BY <2>2 DEF SameButAt
    <3> QED BY <1>0, <2>2, <2>4, <3>1 DEF PullsFrom, Pulling, At, TasksTyped
  <2> QED BY <1>3, <2>3, <2>4, PullFetchFrom
<1>4. ASSUME NEW r \in Request, UserAsks(r), Starts(r) PROVE PullsFrom
  <2>1. PICK q : req' = [req EXCEPT ![r] = q] /\ Begun(q)
    BY <1>4 DEF Starts
  <2>2. q.at \notin {"pull ff", "pull merge"}
    BY <2>1 DEF Begun, SyncStart, Cloning
  <2> QED BY <1>1, <2>1, <2>2
<1>5. CASE UNCHANGED req
  BY <1>5 DEF PullsFrom, Pulling, At
<1>6. CASE \A r \in Request : req'[r] = Idle
  BY <1>0, <1>6 DEF PullsFrom, Pulling, At
<1> QED BY <1>2, <1>3, <1>4, <1>5, <1>6, NextRequests, UserStarts

MirrorsStayOwn ==
  \A d \in Dir : mirror'[d] # NoRepo =>
    Content(mirror'[d]) \subseteq Own' /\ (Pulling(d)' => mirror'[d].fetched \subseteq Own')

LEMMA OwnStays ==
  ASSUME OwnContent, Own \subseteq Own', MirrorsOwn, PullsFrom
  PROVE  MirrorsStayOwn
BY DEF OwnContent, MirrorsOwn, GoodMirror, PullsFrom, MirrorsStayOwn

LEMMA FetchStaysOwn ==
  ASSUME TypeOK, OwnContent, Own \subseteq Own', "refetched" \notin marks',
         NEW d \in Dir, Present(d), SetMirror(d, FetchOrigin(mirror[d], remote)), Refetched(d),
         UNCHANGED req
  PROVE  MirrorsStayOwn
<1>1. mirror[d] \in Repo /\ mirror \in [Dir -> Repo \cup {NoRepo}]
  BY PresentTyped DEF TypeOK, ReposTyped
<1>2. ~Pulling(d)
  BY DEF Refetched
<1>3. \A e : Pulling(e)' = Pulling(e)
  BY DEF Pulling, At
<1>4. Content(mirror'[d]) = Content(mirror[d])
  BY <1>1, FetchOriginContent DEF SetMirror
<1>5. \A e \in Dir : e # d => mirror'[e] = mirror[e]
  BY <1>1 DEF SetMirror
<1> QED BY <1>2, <1>3, <1>4, <1>5 DEF OwnContent, MirrorsStayOwn, Present

LEMMA NextMirrorsStayOwn ==
  ASSUME TypeOK, OwnContent, [Next]_vars, "refetched" \notin marks'
  PROVE  MirrorsStayOwn
<1>0. /\ ReposTyped /\ TasksTyped /\ HostTyped
      /\ late \subseteq [dir : Dir, branch : Branch, head : SUBSET Commits]
      /\ Own \subseteq Own' /\ PullsFrom
  BY OwnGrows, NextPullsFrom DEF TypeOK, ReposTyped
<1>1. ASSUME MirrorsOwn PROVE MirrorsStayOwn
  BY <1>0, <1>1, OwnStays
<1>2. ASSUME NEW d \in Dir, NEW g, SetMirror(d, g), GoodMirror(d, g) PROVE MirrorsStayOwn
  BY <1>0, <1>1, <1>2, SetOwn
<1>3. ASSUME NEW d \in Dir, NEW g, Present(d), SetMirror(d, g),
             Content(g) \subseteq Content(mirror[d]), g.fetched = mirror[d].fetched
      PROVE  MirrorsStayOwn
  <2>1. GoodMirror(d, g)
    BY <1>0, <1>3 DEF GoodMirror, OwnContent
  <2> QED BY <1>2, <1>3, <2>1
<1>4. ASSUME UNCHANGED mirror PROVE MirrorsStayOwn
  BY <1>0, <1>1, <1>4, SetOwn
<1>5. ASSUME NEW r \in Request, UserAsks(r) PROVE MirrorsStayOwn
  <2>1. ASSUME NEW i \in Managed, FetchRemote(r, i) PROVE MirrorsStayOwn
    <3>1. rows[i].dir \in Dir
      BY <1>0 DEF HostTyped, Row, Managed
    <3> QED BY <1>0, <2>1, <3>1, FetchStaysOwn DEF FetchRemote
  <2>2. ~(\E i \in Managed : FetchRemote(r, i)) => UNCHANGED mirror
    BY <1>5, UserKeepsMirror
  <2> QED BY <1>4, <2>1, <2>2
<1>6. ASSUME NEW r \in Request, RequestSteps(r) PROVE MirrorsStayOwn
  BY <1>1, <1>6, RequestMirrorsOwn
<1>7. ASSUME NEW p \in late, LatePush(p) PROVE MirrorsStayOwn
  <2>1. p.dir \in Dir /\ p.branch \in Branch
    BY <1>0, <1>7
  <2>2. CASE UNCHANGED mirror
    BY <2>2, <1>4
  <2>3. CASE Present(p.dir) /\ mirror' = [mirror EXCEPT ![p.dir].tracking[p.branch] = p.head]
    <3>1. mirror[p.dir] \in Repo
      BY <1>0, <2>1, <2>3, PresentTyped
    <3>2. SetMirror(p.dir, [mirror[p.dir] EXCEPT !.tracking[p.branch] = p.head])
      BY <2>3 DEF SetMirror
    <3> QED BY <1>3, <2>1, <2>3, <3>1, <3>2, TrackingContent
  <2> QED BY <1>7, <2>2, <2>3 DEF LatePush
<1>8. CASE Checker
  <2>0. ASSUME check # Idle PROVE check.dir \in Dir
    BY <1>0, <2>0 DEF TasksTyped, Checks
  <2>1. CASE CheckWorkspace
    <3>1. check.dir \in Dir
      BY <2>0, <2>1 DEF CheckWorkspace, CheckAt, Idle
    <3>2. CASE Present(check.dir) /\ ws # NoRepo
      <4>1. mirror[check.dir] \in Repo
        BY <1>0, <3>1, <3>2, PresentTyped
      <4>2. ws.head \subseteq Own /\ Content(mirror[check.dir]) \subseteq Own
        BY <3>1, <3>2 DEF OwnContent, Content
      <4>3. GoodMirror(check.dir, FetchPath(mirror[check.dir], ws.head))
        BY <1>0, <4>1, <4>2, FetchPathContent DEF GoodMirror
      <4> QED BY <1>2, <2>1, <3>1, <3>2, <4>3 DEF CheckWorkspace
    <3> QED BY <1>4, <2>1, <3>2 DEF CheckWorkspace
  <2>2. CASE CheckRemote
    <3>1. check.dir \in Dir
      BY <2>0, <2>2 DEF CheckRemote, CheckAt, Idle
    <3> QED BY <1>0, <1>4, <2>2, <3>1, FetchStaysOwn DEF CheckRemote
  <2> QED
    BY <1>8, <2>1, <2>2, <1>4 DEF Checker, StartCheck, CheckCount, CheckBehind, CheckStore
<1>9. ASSUME NEW d \in Dir, ResolveMirror(d) PROVE MirrorsStayOwn
  <2>1. Present(d) /\ mirror[d] \in Repo
    BY <1>0, <1>9, PresentTyped DEF ResolveMirror
  <2>2. PICK more \in {{}, mirror[d].merging} :
          SetMirror(d, [mirror[d] EXCEPT !.head = mirror[d].head \cup more, !.merging = {}])
    BY <1>9 DEF ResolveMirror
  <2> QED BY <1>3, <2>1, <2>2, ResolvedContent
<1>10. ASSUME NEW d \in Dir, NEW e \in Dir, MoveMirror(d, e) PROVE MirrorsStayOwn
  <2>1. ~Pulling(e) /\ UNCHANGED req /\ d # e /\ Present(d)
    BY <1>10 DEF MoveMirror, Present
  <2>2. ~Pulling(e)'
    BY <2>1 DEF Pulling, At
  <2>3. mirror'[e] = mirror[d] /\ mirror'[d] = NoRepo
        /\ \A f \in Dir : f # d /\ f # e => mirror'[f] = mirror[f]
    BY <1>0, <1>10, <2>1 DEF MoveMirror, ReposTyped
  <2>4. \A f \in Dir : Pulling(f)' => Pulling(f)
    BY <2>1 DEF Pulling, At
  <2> QED BY <1>0, <2>1, <2>2, <2>3, <2>4 DEF OwnContent, MirrorsStayOwn, Present
<1>11. CASE AgentEdits \/ AgentCommits \/ (\E b \in Branch : OthersPush(b)) \/ Exit \/ UNCHANGED vars
  BY <1>11, <1>4 DEF AgentEdits, AgentCommits, OthersPush, Exit, vars
<1> QED BY <1>5, <1>6, <1>7, <1>8, <1>9, <1>10, <1>11 DEF Next

LEMMA NextWorkspaceOwn ==
  ASSUME TypeOK, OwnContent, [Next]_vars
  PROVE  ws' # NoRepo => Content(ws') \subseteq Own'
<1>0. /\ ws \in Repo \cup {NoRepo} /\ Own \subseteq Own'
      /\ ws # NoRepo => Content(ws) \subseteq Own
      /\ req \in [Request -> Requests]
  BY OwnGrows DEF TypeOK, ReposTyped, TasksTyped, OwnContent
<1>1. UNCHANGED ws => (ws' # NoRepo => Content(ws') \subseteq Own')
  BY <1>0
<1>2. ASSUME NEW d \in Dir, Present(d)
      PROVE  mirror[d].head \subseteq Own
  BY <1>2 DEF OwnContent, Content
<1>3. CASE AgentCommits
  <2>1. ws # NoRepo /\ ws \in Repo
    BY <1>0, <1>3 DEF AgentCommits
  <2>2. made + 1 \in Own'
    <3>1. made' = made + 1 /\ peers' = peers /\ made \in 1..MaxCommits /\ peers \subseteq 2..made
      BY <1>3 DEF AgentCommits, TypeOK, EnvTyped
    <3>2. made \in Nat /\ made + 1 \notin peers
      BY <3>1, MaxCommitsAssumption
    <3> QED BY <3>1, <3>2 DEF Own, Known
  <2>3. ws' = [ws EXCEPT !.head = @ \cup {made + 1} \cup ws.merging, !.merging = {}]
    BY <1>3 DEF AgentCommits
  <2>4. Content(ws') \subseteq Content(ws) \cup {made + 1}
    BY <2>1, <2>3 DEF Content, Repo
  <2> QED BY <1>0, <2>1, <2>2, <2>4
<1>4. ASSUME NEW r \in Request, PullIntoWorkspace(r)
      PROVE  ws' # NoRepo => Content(ws') \subseteq Own'
  <2>1. CASE UNCHANGED ws
    BY <1>1, <2>1
  <2>2. CASE /\ Present(req[r].dir) /\ ws # NoRepo
             /\ ws' \in MergeOutcomes(FetchPath(ws, mirror[req[r].dir].head))
    <3> DEFINE g == FetchPath(ws, mirror[req[r].dir].head)
    <3>1. req[r].dir \in Dir
      <4>1. req[r].at \in PullAt   BY <1>4 DEF PullIntoWorkspace, At, PullAt
      <4>2. req[r] \in Requests   BY <1>0
      <4> QED BY <4>1, <4>2, RequestKinds DEF PullRequests
    <3>2. mirror[req[r].dir].head \subseteq Own /\ mirror[req[r].dir].head \in SUBSET Commits
      BY <1>2, <2>2, <3>1, PresentTyped DEF TypeOK
    <3>3. g \in Repo /\ ws \in Repo
      BY <1>0, <2>2, <3>2, FetchPathKeeps DEF Keeps
    <3>4. Content(g) = Content(ws) /\ g.fetched = mirror[req[r].dir].head
      BY <3>3, FetchPathContent
    <3> HIDE DEF g
    <3>5. ws' \in MergeOutcomes(g)
      BY <2>2 DEF g
    <3>6. Content(ws') \subseteq Content(g) \cup g.fetched
      BY <3>3, <3>5, MergeContent
    <3> QED BY <1>0, <2>2, <3>2, <3>4, <3>6
  <2> QED BY <1>4, <2>1, <2>2 DEF PullIntoWorkspace
<1>5. ASSUME NEW r \in Request, CreateWorkspace(r)
      PROVE  ws' # NoRepo => Content(ws') \subseteq Own'
  <2>1. CASE UNCHANGED ws
    BY <1>1, <2>1
  <2>2. CASE Present(req[r].dir) /\ ws' = Cloned(NoUrl, mirror[req[r].dir].head, NoRefs)
    <3>1. req[r].dir \in Dir
      <4>1. req[r].at \in CreateAt   BY <1>5 DEF CreateWorkspace, At, CreateAt
      <4>2. req[r] \in Requests   BY <1>0
      <4> QED BY <4>1, <4>2, RequestKinds DEF CreateRequests
    <3> QED BY <1>0, <1>2, <2>2, <3>1, CloneContent
  <2> QED BY <1>5, <2>1, <2>2 DEF CreateWorkspace
<1>6. ASSUME NEW r \in Request, RequestSteps(r), ~PullIntoWorkspace(r), ~CreateWorkspace(r)
      PROVE  UNCHANGED ws
  BY <1>6
  DEF RequestSteps, PullFetch, PullFastForward, PullMerge, PushReset, PushCommit, PushBranch, Push,
      EnableClone, EnableSetUrl, EnableLink, EnableStrip, EnableRow,
      CreateClone, CreateRetry, Clone, ForgetTemp, GiveUp, CreateRow, DeleteRow, DeleteMirror,
      SetSecret, ForgetSecret, DeleteSecret, UpdateWrite
<1>7. ASSUME NEW r \in Request, UserAsks(r) PROVE UNCHANGED ws
  BY <1>7, UserKeeps
<1>8. CASE \/ Checker \/ \E p \in late : LatePush(p)
           \/ AgentEdits
           \/ \E b \in Branch : OthersPush(b)
           \/ \E d \in Dir : ResolveMirror(d)
           \/ \E d, e \in Dir : MoveMirror(d, e)
           \/ Exit \/ UNCHANGED vars
  <2>1. UNCHANGED ws
    BY <1>8
    DEF Checker, StartCheck, CheckWorkspace, CheckCount, CheckRemote, CheckBehind, CheckStore,
        LatePush, AgentEdits, OthersPush, ResolveMirror, MoveMirror, Exit, vars
  <2> QED BY <1>1, <2>1
<1> QED BY <1>1, <1>3, <1>4, <1>5, <1>6, <1>7, <1>8 DEF Next

RemoteKnown ==
  /\ \A b \in Branch : remote'[b] \subseteq Known'
  /\ \A p \in late' : p.head \subseteq Known'

LEMMA NextRemoteKnown ==
  ASSUME TypeOK, OwnContent, [Next]_vars
  PROVE  RemoteKnown
<1>0. /\ Known \subseteq Known' /\ remote \in [Branch -> SUBSET Commits]
      /\ late \subseteq [dir : Dir, branch : Branch, head : SUBSET Commits]
      /\ \A b \in Branch : remote[b] \subseteq Known
      /\ \A p \in late : p.head \subseteq Known
      /\ req \in [Request -> Requests]
  BY OwnGrows DEF TypeOK, ReposTyped, TasksTyped, OwnContent
<1>1. ASSUME NEW d \in Dir, Present(d) PROVE mirror[d].head \subseteq Known
  BY <1>1 DEF OwnContent, Content, Own
<1>2. UNCHANGED remote => \A b \in Branch : remote'[b] \subseteq Known'
  BY <1>0
<1>3. UNCHANGED late => \A p \in late' : p.head \subseteq Known'
  BY <1>0
<1>4. ASSUME NEW b \in Branch, NEW head, head \subseteq Known, remote' = [remote EXCEPT ![b] = head]
      PROVE  \A c \in Branch : remote'[c] \subseteq Known'
  BY <1>0, <1>4
<1>5. ASSUME NEW r \in Request, At(r, "push")
      PROVE  req[r].dir \in Dir /\ req[r].branch \in Branch
  <2>1. req[r].at \in PushAt   BY <1>5 DEF At, PushAt
  <2>2. req[r] \in Requests   BY <1>0
  <2> QED BY <2>1, <2>2, RequestKinds DEF PushRequests
<1>6. ASSUME NEW r \in Request, Push(r) PROVE RemoteKnown
  <2>1. req[r].dir \in Dir /\ req[r].branch \in Branch
    BY <1>5, <1>6 DEF Push
  <2>2. \/ UNCHANGED <<remote, late>>
        \/ /\ Present(req[r].dir) /\ UNCHANGED late
           /\ remote' = [remote EXCEPT ![req[r].branch] = mirror[req[r].dir].head]
        \/ /\ Present(req[r].dir) /\ UNCHANGED remote
           /\ late' = late \cup {[dir |-> req[r].dir, branch |-> req[r].branch,
                                  head |-> mirror[req[r].dir].head]}
    BY <1>6 DEF Push, CanPush, Pushed
  <2> QED BY <1>0, <1>1, <1>2, <1>3, <1>4, <2>1, <2>2 DEF RemoteKnown
<1>7. ASSUME NEW p \in late, LatePush(p) PROVE RemoteKnown
  <2>1. p.branch \in Branch /\ p.head \subseteq Known
    BY <1>0, <1>7
  <2>2. late' \subseteq late /\ (UNCHANGED remote \/ remote' = [remote EXCEPT ![p.branch] = p.head])
    BY <1>7 DEF LatePush
  <2> QED BY <1>0, <1>2, <1>4, <2>1, <2>2 DEF RemoteKnown
<1>8. ASSUME NEW b \in Branch, OthersPush(b) PROVE RemoteKnown
  <2>1. made + 1 \in Known'
    <3>1. made' = made + 1 /\ made \in 1..MaxCommits
      BY <1>8 DEF OthersPush, TypeOK, EnvTyped
    <3> QED BY <3>1, MaxCommitsAssumption DEF Known
  <2>2. remote' = [remote EXCEPT ![b] = @ \cup remote[Main] \cup {made + 1}] /\ UNCHANGED late
    BY <1>8 DEF OthersPush
  <2>3. \A c \in Branch : remote'[c] \subseteq Known'
    BY <1>0, <2>1, <2>2, BranchFacts
  <2> QED BY <1>3, <2>2, <2>3 DEF RemoteKnown
<1>9. CASE Exit
  <2>1. UNCHANGED remote
    BY <1>9 DEF Exit
  <2>2. ASSUME NEW p \in late' PROVE p.head \subseteq Known'
    <3> DEFINE push(r) == [dir |-> req[r].dir, branch |-> req[r].branch, head |-> mirror[req[r].dir].head]
               sent == {r \in Request : At(r, "push") /\ CanPush(req[r].dir, req[r].id, req[r].branch)}
    <3>0. late' = late \cup {push(r) : r \in sent}
      BY <1>9 DEF Exit
    <3>2. \A r : push(r).head = mirror[req[r].dir].head
      OBVIOUS
    <3>3. \A r \in sent : r \in Request /\ At(r, "push") /\ Present(req[r].dir)
      BY DEF CanPush
    <3> HIDE DEF push, sent
    <3>1. \/ p \in late
          \/ \E r \in Request : /\ At(r, "push") /\ Present(req[r].dir)
                                /\ p.head = mirror[req[r].dir].head
      BY <2>2, <3>0, <3>2, <3>3
    <3> QED BY <1>0, <1>1, <1>5, <3>1
  <2> QED BY <1>2, <2>1, <2>2 DEF RemoteKnown
<1>10. ASSUME UNCHANGED <<remote, late>> PROVE RemoteKnown
  BY <1>2, <1>3, <1>10 DEF RemoteKnown
<1>11. ASSUME NEW r \in Request, RequestSteps(r), ~Push(r) PROVE UNCHANGED <<remote, late>>
  BY <1>11
  DEF RequestSteps, PullFetch, PullFastForward, PullMerge, PushReset, PushCommit, PushBranch,
      PullIntoWorkspace, EnableClone, EnableSetUrl, EnableLink, EnableStrip, EnableRow,
      CreateClone, CreateRetry, Clone, ForgetTemp, GiveUp, CreateWorkspace, CreateRow, DeleteRow,
      DeleteMirror, SetSecret, ForgetSecret, DeleteSecret, UpdateWrite
<1>12. ASSUME NEW r \in Request, UserAsks(r) PROVE UNCHANGED <<remote, late>>
  BY <1>12, UserKeeps
<1>13. CASE \/ Checker
            \/ AgentEdits \/ AgentCommits
            \/ \E d \in Dir : ResolveMirror(d)
            \/ \E d, e \in Dir : MoveMirror(d, e)
            \/ UNCHANGED vars
  <2>1. UNCHANGED <<remote, late>>
    BY <1>13
    DEF Checker, StartCheck, CheckWorkspace, CheckCount, CheckRemote, CheckBehind, CheckStore,
        AgentEdits, AgentCommits, ResolveMirror, MoveMirror, vars
  <2> QED BY <1>10, <2>1
<1> QED BY <1>6, <1>7, <1>8, <1>9, <1>10, <1>11, <1>12, <1>13 DEF Next

LEMMA NextRace ==
  ASSUME TypeOK, RaceInv, [Next]_vars
  PROVE  RaceInv'
<1>1. SUFFICES ASSUME "refetched" \notin marks' PROVE OwnContent'
  BY DEF RaceInv
<1>2. OwnContent
  BY <1>1, NextMarks DEF RaceInv
<1>3. MirrorsStayOwn /\ RemoteKnown /\ (ws' # NoRepo => Content(ws') \subseteq Own')
  BY <1>1, <1>2, NextMirrorsStayOwn, NextRemoteKnown, NextWorkspaceOwn
<1>4. (\A b \in Branch : remote[b] \subseteq Known)' /\ (\A p \in late : p.head \subseteq Known)'
  BY <1>3 DEF RemoteKnown
<1>5. (ws # NoRepo => Content(ws) \subseteq Own)'
  BY <1>3
<1>6. (\A d \in Dir : Present(d) =>
         Content(mirror[d]) \subseteq Own /\ (Pulling(d) => mirror[d].fetched \subseteq Own))'
  BY <1>3 DEF MirrorsStayOwn, Present
<1> QED BY <1>4, <1>5, <1>6 DEF OwnContent

LEMMA InitRace ==
  ASSUME Init
  PROVE  OwnContent
<1>0. MaxCommits \in Nat /\ Idle.at = "idle"
  BY MaxCommitsAssumption DEF Idle
<1>1. peers = {} /\ late = {} /\ \A d : ~Pulling(d)
  BY <1>0 DEF Init, Pulling, At
<1>2. \A b \in Branch : remote[b] \subseteq {1}
  BY DEF Init, NoRefs
<1>3. CASE InitUnmanaged
  <2>1. made = 1 /\ ws \in {NoRepo, Cloned(NoUrl, {1}, NoRefs)} /\ \A d \in Dir : ~Present(d)
    BY <1>3 DEF InitUnmanaged, Present
  <2>2. {1} \subseteq Own /\ {1} \subseteq Known
    BY <1>1, <2>1 DEF Own, Known
  <2> QED BY <1>1, <1>2, <2>1, <2>2, CloneContent DEF OwnContent
<1>4. CASE InitEnabled
  <2>1. PICK pulled \in 1..MaxCommits, strategy \in {"direct", "feature_branch"} :
          InitPulled(pulled, strategy)
    BY <1>4, MaxCommitsAssumption DEF InitEnabled
  <2> DEFINE url == CHOOSE u \in Url : TRUE
             g == Cloned(url, 1..pulled, [NoRefs EXCEPT ![Main] = {1}])
  <2>2. made = pulled /\ ws = [g EXCEPT !.origin = NoUrl]
        /\ mirror = [d \in Dir |-> IF d = DefaultDir THEN g ELSE NoRepo]
    BY <2>1 DEF InitPulled
  <2>3. 1..pulled \subseteq Own /\ {1} \subseteq Known
    BY <1>0, <1>1, <2>2 DEF Own, Known
  <2>4. Content(g) = 1..pulled /\ Content([g EXCEPT !.origin = NoUrl]) = 1..pulled
    BY DEF Content, Cloned
  <2> HIDE DEF g
  <2>5. ws # NoRepo => Content(ws) \subseteq Own
    BY <2>2, <2>3, <2>4
  <2>6. \A d \in Dir : Present(d) => Content(mirror[d]) \subseteq Own
    BY <2>2, <2>3, <2>4 DEF Present
  <2> QED BY <1>1, <1>2, <2>3, <2>5, <2>6 DEF OwnContent
<1> QED BY <1>3, <1>4 DEF Init

\* A commit that somebody else pushed gets on a mirror's branch only through a
\* pull whose FETCH_HEAD was replaced between its fetch and its merge: no other
\* order of pulls, pushes, fetches, background sweeps, clones and conflicts
\* merges what a fetch of the remote left behind (fetch_from_remote,
\* pull_from_agent, start_background_checker).
THEOREM OthersNeedARace == Spec => []OthersOnlyByRace
<1>1. Init => RaceInv
  BY InitRace DEF RaceInv
<1>2. TypeOK /\ RaceInv /\ [Next]_vars => RaceInv'
  BY NextRace
<1>3. RaceInv => OthersOnlyByRace
  BY DEF RaceInv, OwnContent, Content, Own, OthersOnlyByRace
<1> QED BY <1>1, <1>2, <1>3, TypeCorrect, PTL DEF Spec

---------------------------------------------------------------------------
(* Mirrors and rows *)

\* A step that leaves every mirror in its place, with its remote.
MirrorsStay ==
  \A d \in Dir :
    /\ mirror[d] = NoRepo => mirror'[d] = NoRepo
    /\ mirror[d] # NoRepo => mirror'[d] # NoRepo /\ mirror'[d].origin = mirror[d].origin

\* The requests that make, link and remove mirrors.
PlacesMirror(r) ==
  \/ EnableClone(r) \/ EnableSetUrl(r) \/ EnableLink(r) \/ CreateClone(r) \/ CreateRetry(r) \/ CreateWorkspace(r)
  \/ DeleteMirror(r)

LEMMA SetStays ==
  ASSUME ReposTyped
  PROVE  /\ UNCHANGED mirror => MirrorsStay
         /\ \A d \in Dir : \A g \in Repo :
              SetMirror(d, g) /\ Present(d) /\ g.origin = mirror[d].origin => MirrorsStay
BY NoRepoAssumption DEF MirrorsStay, SetMirror, Present, ReposTyped

LEMMA RequestStays ==
  ASSUME TypeOK, NEW r \in Request, RequestSteps(r), ~PlacesMirror(r)
  PROVE  MirrorsStay
<1>0. /\ req[r] \in Requests /\ ReposTyped
      /\ ws # NoRepo => ws.head \in SUBSET Commits
  BY DEF TypeOK, TasksTyped, ReposTyped, Repo
<1>1. ASSUME req[r].at \in PullAt \cup PushAt PROVE req[r].dir \in Dir
  BY <1>1, <1>0, RequestKinds DEF PullRequests, PushRequests
<1>2. ASSUME req[r].at \in PushAt PROVE req[r].branch \in Branch
  BY <1>2, <1>0, RequestKinds DEF PushRequests
<1>3. ASSUME NEW d \in Dir, Present(d), NEW g, Keeps(mirror[d], g), SameRefs(mirror[d], g), SetMirror(d, g)
      PROVE  MirrorsStay
  BY <1>0, <1>3, SetStays DEF Keeps, SameRefs
<1>4. ASSUME UNCHANGED mirror PROVE MirrorsStay
  BY <1>0, <1>4, SetStays
<1>6. CASE PullFetch(r)
  BY <1>0, <1>1, <1>6, PresentTyped, SameRefsFacts, BranchFacts, FetchPathKeeps, <1>3, <1>4
  DEF PullFetch, At, PullAt
<1>7. CASE PullFastForward(r)
  BY <1>0, <1>1, <1>7, PresentTyped, SameRefsFacts, BranchFacts, FastForwardKeeps, <1>3, <1>4
  DEF PullFastForward, At, PullAt
<1>8. CASE PullMerge(r)
  BY <1>0, <1>1, <1>8, PresentTyped, SameRefsFacts, BranchFacts, MergeOutcomesKeep, <1>3, <1>4
  DEF PullMerge, At, PullAt
<1>9. CASE PushReset(r)
  BY <1>0, <1>1, <1>9, PresentTyped, SameRefsFacts, BranchFacts, SoftResetKeeps, <1>3, <1>4
  DEF PushReset, At, PushAt
<1>10. CASE PushCommit(r)
  BY <1>0, <1>1, <1>10, PresentTyped, SameRefsFacts, BranchFacts, CommitStagedKeeps, <1>3, <1>4
  DEF PushCommit, At, PushAt
<1>11. CASE PushBranch(r)
  BY <1>0, <1>1, <1>2, <1>11, PresentTyped, SameRefsFacts, CheckoutKeeps, <1>3, <1>4
  DEF PushBranch, At, PushAt
<1>12. CASE Push(r)
  <2> DEFINE d == req[r].dir
             b == req[r].branch
  <2>1. d \in Dir /\ b \in Branch
    BY <1>1, <1>2, <1>12 DEF Push, At, PushAt
  <2>2. CASE UNCHANGED mirror
    BY <2>2, <1>4
  <2>3. CASE Present(d) /\ Pushed(d, b)
    <3> HIDE DEF d, b
    <3>1. mirror[d] \in Repo /\ mirror[d].head \in SUBSET Commits
      BY <1>0, <2>1, <2>3, PresentTyped
    <3>2. LET g == [mirror[d] EXCEPT !.tracking[b] = mirror[d].head]
          IN  g \in Repo /\ g.origin = mirror[d].origin
      <4>1. [mirror[d] EXCEPT !.tracking[b] = mirror[d].head].origin = mirror[d].origin
        BY <3>1 DEF Repo
      <4> QED BY <2>1, <3>1, <4>1, TrackingKeeps DEF Keeps
    <3> QED BY <1>0, <2>1, <2>3, <3>2, SetStays DEF Pushed
  <2> QED BY <1>12, <2>2, <2>3 DEF Push, CanPush
<1>13. CASE PullIntoWorkspace(r) \/ EnableStrip(r) \/ EnableRow(r) \/ CreateRow(r)
              \/ DeleteRow(r) \/ SetSecret(r) \/ ForgetSecret(r) \/ DeleteSecret(r) \/ UpdateWrite(r)
  BY <1>13, <1>4
  DEF PullIntoWorkspace, EnableStrip, EnableRow, CreateRow, DeleteRow, SetSecret, ForgetSecret,
  DeleteSecret, UpdateWrite
<1> QED
  BY <1>6, <1>7, <1>8, <1>9, <1>10, <1>11, <1>12, <1>13 DEF RequestSteps, PlacesMirror

LEMMA FetchStays ==
  ASSUME ReposTyped, NEW d \in Dir, Present(d), SetMirror(d, FetchOrigin(mirror[d], remote))
  PROVE  MirrorsStay
<1>1. mirror[d] \in Repo /\ remote \in [Branch -> SUBSET Commits]
  BY PresentTyped DEF ReposTyped
<1>2. FetchOrigin(mirror[d], remote).origin = mirror[d].origin
  BY <1>1 DEF FetchOrigin, Repo
<1>3. FetchOrigin(mirror[d], remote) \in Repo
  BY <1>1, FetchOriginKeeps DEF Keeps
<1> QED BY <1>2, <1>3, SetStays

LEMMA UserStays ==
  ASSUME TypeOK, NEW r \in Request, UserAsks(r)
  PROVE  MirrorsStay
<1>0. ReposTyped /\ HostTyped
  BY DEF TypeOK
<1>1. ASSUME NEW i \in Managed, FetchRemote(r, i) PROVE MirrorsStay
  <2>1. rows[i].dir \in Dir
    BY <1>0 DEF HostTyped, Row, Managed
  <2> QED BY <1>0, <1>1, <2>1, FetchStays DEF FetchRemote
<1>2. ~(\E i \in Managed : FetchRemote(r, i)) => UNCHANGED mirror
  BY UserKeepsMirror
<1> QED BY <1>0, <1>1, <1>2, SetStays

LEMMA NextStays ==
  ASSUME TypeOK, [Next]_vars
  PROVE  \/ MirrorsStay
         \/ \E r \in Request : RequestSteps(r) /\ PlacesMirror(r)
         \/ \E d, e \in Dir : MoveMirror(d, e)
<1>0. /\ ReposTyped /\ TasksTyped /\ HostTyped /\ remote \in [Branch -> SUBSET Commits]
      /\ late \subseteq [dir : Dir, branch : Branch, head : SUBSET Commits]
      /\ ws # NoRepo => ws.head \in SUBSET Commits
  BY DEF TypeOK, ReposTyped, Repo
<1>3. ASSUME NEW d \in Dir, Present(d), NEW g, Keeps(mirror[d], g), g.origin = mirror[d].origin, SetMirror(d, g)
      PROVE  MirrorsStay
  BY <1>0, <1>3, SetStays DEF Keeps
<1>4. ASSUME UNCHANGED mirror PROVE MirrorsStay
  BY <1>0, <1>4, SetStays
<1>5. ASSUME NEW d \in Dir, Present(d), SetMirror(d, FetchOrigin(mirror[d], remote)) PROVE MirrorsStay
  BY <1>0, <1>5, FetchStays
<1>6. ASSUME NEW r \in Request, UserAsks(r) PROVE MirrorsStay
  BY <1>6, UserStays
<1>7. ASSUME NEW p \in late, LatePush(p) PROVE MirrorsStay
  <2>1. p.dir \in Dir /\ p.branch \in Branch /\ p.head \in SUBSET Commits
    BY <1>0, <1>7
  <2>2. CASE UNCHANGED mirror
    BY <2>2, <1>4
  <2>3. CASE Present(p.dir) /\ mirror' = [mirror EXCEPT ![p.dir].tracking[p.branch] = p.head]
    <3>1. mirror[p.dir] \in Repo
      BY <1>0, <2>1, <2>3, PresentTyped
    <3>2. SetMirror(p.dir, [mirror[p.dir] EXCEPT !.tracking[p.branch] = p.head])
      BY <2>3 DEF SetMirror
    <3>3. [mirror[p.dir] EXCEPT !.tracking[p.branch] = p.head].origin = mirror[p.dir].origin
      BY <3>1 DEF Repo
    <3> QED BY <1>3, <2>1, <2>3, <3>1, <3>2, <3>3, TrackingKeeps
  <2> QED BY <1>7, <2>2, <2>3 DEF LatePush
<1>8. CASE Checker
  <2>0. ASSUME check # Idle PROVE check.dir \in Dir
    BY <1>0, <2>0 DEF TasksTyped, Checks
  <2>1. CASE CheckWorkspace
    <3>1. check.dir \in Dir
      BY <2>0, <2>1 DEF CheckWorkspace, CheckAt, Idle
    <3>2. CASE Present(check.dir) /\ ws # NoRepo
      <4>1. mirror[check.dir] \in Repo
        BY <1>0, <3>1, <3>2, PresentTyped
      <4>2. FetchPath(mirror[check.dir], ws.head).origin = mirror[check.dir].origin
        BY <4>1 DEF FetchPath, Repo
      <4>3. Keeps(mirror[check.dir], FetchPath(mirror[check.dir], ws.head))
        BY <1>0, <3>2, <4>1, FetchPathKeeps
      <4> QED BY <1>3, <2>1, <3>1, <3>2, <4>2, <4>3 DEF CheckWorkspace
    <3> QED BY <1>4, <2>1, <3>2 DEF CheckWorkspace
  <2>2. CASE CheckRemote
    <3>1. check.dir \in Dir
      BY <2>0, <2>2 DEF CheckRemote, CheckAt, Idle
    <3> QED BY <2>2, <3>1, <1>4, <1>5 DEF CheckRemote
  <2> QED
    BY <1>8, <2>1, <2>2, <1>4 DEF Checker, StartCheck, CheckCount, CheckBehind, CheckStore
<1>9. ASSUME NEW d \in Dir, ResolveMirror(d) PROVE MirrorsStay
  <2>1. PICK more \in {{}, mirror[d].merging} :
          SetMirror(d, [mirror[d] EXCEPT !.head = @ \cup more, !.merging = {}])
    BY <1>9 DEF ResolveMirror
  <2>2. Present(d) /\ mirror[d] \in Repo
    BY <1>0, <1>9, PresentTyped DEF ResolveMirror
  <2> DEFINE g == [mirror[d] EXCEPT !.head = @ \cup more, !.merging = {}]
  <2>3. g.origin = mirror[d].origin
    BY <2>2 DEF Repo
  <2>4. Keeps(mirror[d], g)
    BY <2>2, ResolvedKeeps
  <2> HIDE DEF g
  <2> QED BY <2>1, <2>2, <2>3, <2>4, <1>3 DEF g
<1>11. CASE AgentEdits \/ AgentCommits \/ (\E b \in Branch : OthersPush(b)) \/ Exit \/ UNCHANGED vars
  BY <1>11, <1>4 DEF AgentEdits, AgentCommits, OthersPush, Exit, vars
<1>12. ASSUME NEW r \in Request, RequestSteps(r) PROVE MirrorsStay \/ PlacesMirror(r)
  BY <1>12, RequestStays
<1> QED BY <1>6, <1>7, <1>8, <1>9, <1>11, <1>12 DEF Next

\* A request that has the mirrors directory for itself: it is making the mirror,
\* or about to remove it.
Claims(r) == Enabling(r) \/ At(r, "delete mirror")

\* The steps at which an enabling request has no mirror yet.
Unplaced == Cloning \cup {"create retry"}
\* While the directory is not changed and no enabling request meets another one,
\* every mirror, row and enabling request names the same path; a request that
\* claims it is alone and finds no row, and past its clone it finds the mirror.
Placed ==
  /\ mirrorsDir = DefaultDir
  /\ \A d \in Dir : Present(d) => d = DefaultDir
  /\ \A i \in Managed : rows[i].dir = DefaultDir
  /\ Managed # {} => Present(DefaultDir)
  /\ \A r \in Request : Claims(r) =>
       /\ Managed = {}
       /\ Enabling(r) => req[r].dir = DefaultDir
       /\ req[r].at \notin Unplaced => Present(DefaultDir)
       /\ \A o \in Request : Claims(o) => o = r
PlacedInv == marks \cap {"overlap", "moved"} = {} => Placed

\* Rows appear through two steps only, and name another directory only when it
\* is changed.
LEMMA NextRowDirs ==
  ASSUME TypeOK, [Next]_vars
  PROVE  \/ "moved" \in marks'
         \/ \E r \in Request : EnableRow(r) \/ CreateRow(r)
         \/ /\ \A i \in Managed' : i \in Managed /\ rows'[i].dir = rows[i].dir
            /\ mirrorsDir' = mirrorsDir \/ (Exit /\ mirrorsDir' = DefaultDir)
<1> DEFINE Goal == \A i \in Managed' : i \in Managed /\ rows'[i].dir = rows[i].dir
<1>0. HostTyped /\ TasksTyped
  BY DEF TypeOK
<1>1. ASSUME UNCHANGED rows PROVE Goal
  BY <1>1 DEF Managed
<1>2. ASSUME NEW r \in Request, DeleteRow(r) PROVE Goal /\ mirrorsDir' = mirrorsDir
  BY <1>0, <1>2 DEF DeleteRow, Managed, HostTyped
<1>3. ASSUME NEW r \in Request, UpdateWrite(r) PROVE Goal /\ mirrorsDir' = mirrorsDir
  <2>1. req[r].row \in Row
    <3>1. req[r] \in Requests /\ req[r].at = "update write"
      BY <1>0, <1>3 DEF UpdateWrite, At, TasksTyped
    <3> QED BY <3>1, RequestKinds DEF UpdateRequests
  <2>2. \A d : [req[r].row EXCEPT !.dir = d].dir = d
    BY <2>1 DEF Row
  <2> QED BY <1>0, <1>3, <2>2 DEF UpdateWrite, Managed, HostTyped
<1>4. ASSUME NEW r \in Request, RequestSteps(r), ~DeleteRow(r), ~UpdateWrite(r), ~EnableRow(r), ~CreateRow(r)
      PROVE  UNCHANGED <<rows, mirrorsDir>>
  BY <1>4
  DEF RequestSteps, PullFetch, PullFastForward, PullMerge, PushReset, PushCommit, PushBranch, Push,
      PullIntoWorkspace, EnableClone, EnableSetUrl, EnableLink, EnableStrip,
      CreateClone, CreateRetry, Clone, ForgetTemp, GiveUp, CreateWorkspace, DeleteMirror, SetSecret,
      ForgetSecret, DeleteSecret, host
<1>5. ASSUME NEW r \in Request, UserAsks(r) PROVE UNCHANGED <<rows, mirrorsDir>> \/ "moved" \in marks'
  <2>1. ASSUME NEW i, StartPull(r, i) \/ FetchRemote(r, i) \/ StartPushToAgent(r, i)
        PROVE  UNCHANGED <<rows, mirrorsDir>>
    BY <2>1 DEF StartPull, FetchRemote, StartPushToAgent, host
  <2>2. ASSUME NEW i, NEW S, NEW squash, StartPush(r, i, S, squash) PROVE UNCHANGED <<rows, mirrorsDir>>
    BY <2>2 DEF StartPush, host
  <2>3. ASSUME NEW i, NEW rm, NEW l, NEW row, StartDelete(r, i, rm) \/ StartSetLogin(r, i, l) \/ StartUpdate(r, i, row)
        PROVE  UNCHANGED <<rows, mirrorsDir>>
    BY <2>3 DEF StartDelete, StartSetLogin, StartUpdate, host
  <2>4. ASSUME NEW i, DeleteLogin(r, i) PROVE UNCHANGED <<rows, mirrorsDir>>
    BY <2>4 DEF DeleteLogin
  <2>5. ASSUME NEW d, UpdateMirrorsDir(r, d) PROVE "moved" \in marks'
    BY <2>5 DEF UpdateMirrorsDir
  <2>6. ASSUME NEW url, NEW l, StartEnable(r, url) \/ StartCreate(r, url, l)
        PROVE  UNCHANGED <<rows, mirrorsDir>>
    BY <2>6 DEF StartEnable, StartCreate, host
  <2>7. ASSUME NEW l, CreateRefused(r, l) PROVE UNCHANGED <<rows, mirrorsDir>>
    BY <2>7 DEF CreateRefused
  <2> QED BY <1>5, <2>1, <2>2, <2>3, <2>4, <2>5, <2>6, <2>7, UserCases
<1>6. ASSUME \/ Checker \/ \E p \in late : LatePush(p)
             \/ AgentEdits \/ AgentCommits
             \/ \E b \in Branch : OthersPush(b)
             \/ \E d \in Dir : ResolveMirror(d)
             \/ \E d, e \in Dir : MoveMirror(d, e)
             \/ UNCHANGED vars
      PROVE  UNCHANGED <<rows, mirrorsDir>>
  BY <1>6
  DEF Checker, StartCheck, CheckWorkspace, CheckCount, CheckRemote, CheckBehind, CheckStore,
      LatePush, AgentEdits, AgentCommits, OthersPush, ResolveMirror, MoveMirror, vars, host
<1>7. ASSUME Exit PROVE UNCHANGED rows /\ mirrorsDir' = DefaultDir
  BY <1>7 DEF Exit
<1> HIDE DEF Goal
<1>8. \/ "moved" \in marks'
      \/ \E r \in Request : EnableRow(r) \/ CreateRow(r)
      \/ Goal /\ (mirrorsDir' = mirrorsDir \/ (Exit /\ mirrorsDir' = DefaultDir))
  BY <1>1, <1>2, <1>3, <1>4, <1>5, <1>6, <1>7 DEF Next
<1> QED BY <1>8 DEF Goal

LEMMA InsertedRow ==
  ASSUME TypeOK, NEW r \in Request, EnableRow(r) \/ CreateRow(r)
  PROVE  /\ req[r].at \in {"enable row", "create row"} /\ req' = [req EXCEPT ![r] = Idle]
         /\ UNCHANGED <<mirror, mirrorsDir, marks>>
         /\ \A i \in Managed' : \/ i \in Managed /\ rows'[i].dir = rows[i].dir
                                \/ rows'[i].dir = req[r].dir
<1>0. HostTyped
  BY DEF TypeOK
<1>1. ASSUME NEW url, InsertRow(r, NewRow(req[r].dir, url))
      PROVE  \A i \in Managed' : \/ i \in Managed /\ rows'[i].dir = rows[i].dir
                                 \/ rows'[i].dir = req[r].dir
  <2> DEFINE row == NewRow(req[r].dir, url)
  <2>1. row.dir = req[r].dir
    BY DEF NewRow
  <2> HIDE DEF row
  <2>2. InsertRow(r, row)
    BY <1>1 DEF row
  <2> QED BY <1>0, <2>1, <2>2 DEF InsertRow, HostTyped, Managed
<1>2. CASE EnableRow(r)
  BY <1>1, <1>2 DEF EnableRow, At, InsertRow, Finish
<1>3. CASE CreateRow(r)
  <2>1. InsertRow(r, NewRow(req[r].dir, IF Present(req[r].dir) THEN mirror[req[r].dir].origin ELSE NoUrl))
    BY <1>3 DEF CreateRow
  <2> QED BY <1>1, <1>3, <2>1 DEF CreateRow, At, InsertRow, Finish
<1> QED BY <1>2, <1>3

\* What a claiming request does to the mirrors stays at the path, and a request
\* that goes on to link, strip or insert leaves the mirror there.
LEMMA PlacesThere ==
  ASSUME TypeOK, Placed, NEW r \in Request, PlacesMirror(r)
  PROVE  /\ \A d \in Dir : mirror'[d] # NoRepo => d = DefaultDir
         /\ Claims(r)
         /\ Finish(r) \/ mirror'[DefaultDir] # NoRepo \/ GoTo(r, "create retry")
         /\ UNCHANGED <<rows, mirrorsDir>>
<1>0. /\ req[r] \in Requests /\ mirror \in [Dir -> Repo \cup {NoRepo}] /\ NoRepo \notin Repo
      /\ ReposTyped /\ remote \in [Branch -> SUBSET Commits] /\ DefaultDir \in Dir
      /\ ws # NoRepo => ws.head \in SUBSET Commits
  BY NoRepoAssumption, DirAssumption DEF TypeOK, TasksTyped, ReposTyped, Repo
<1>1. ASSUME req[r].at \in EnableAt PROVE req[r].url \in Url \cup {NoUrl}
  BY <1>1, <1>0, RequestKinds DEF EnableRequests
<1>2. ASSUME req[r].at \in CreateAt PROVE req[r].url \in Url
  BY <1>2, <1>0, RequestKinds DEF CreateRequests
<1>3. \A d \in Dir : mirror[d] # NoRepo => d = DefaultDir
  BY DEF Placed, Present
<1>4. ASSUME NEW d \in Dir, NEW g, SetMirror(d, g), d = DefaultDir \/ g = NoRepo
      PROVE  \A f \in Dir : mirror'[f] # NoRepo => f = DefaultDir
  BY <1>0, <1>3, <1>4 DEF SetMirror
<1>5. ASSUME NEW g \in Repo, SetMirror(DefaultDir, g) PROVE mirror'[DefaultDir] # NoRepo
  BY <1>0, <1>5 DEF SetMirror
<1>6. CASE EnableClone(r)
  <2> DEFINE g == Cloned(WsUrl, ws.head, [NoRefs EXCEPT ![Main] = ws.head])
  <2>1. Claims(r) /\ req[r].dir = DefaultDir /\ UNCHANGED <<rows, mirrorsDir>>
    BY <1>6 DEF EnableClone, At, Claims, Enabling, EnableSteps, Placed, host
  <2>2. ws # NoRepo => g \in Repo
    <3>1. ws # NoRepo => [NoRefs EXCEPT ![Main] = ws.head] \in [Branch -> SUBSET Commits]
      BY <1>0, NoRefsTyped
    <3> QED BY <1>0, <3>1, ClonedTyped
  <2>3. (ws # NoRepo /\ SetMirror(DefaultDir, g)) \/ (SetMirror(DefaultDir, NoRepo) /\ Finish(r))
    BY <1>6, <2>1 DEF EnableClone
  <2> HIDE DEF g
  <2> QED BY <1>0, <1>4, <1>5, <2>1, <2>2, <2>3
<1>7. CASE EnableSetUrl(r)
  <2>1. Claims(r) /\ req[r].dir = DefaultDir /\ Present(DefaultDir) /\ UNCHANGED <<rows, mirrorsDir>>
        /\ req[r].at \in EnableAt
    BY <1>7 DEF EnableSetUrl, At, Claims, Enabling, EnableSteps, Placed, host, Cloning, Unplaced, EnableAt
  <2>2. mirror[DefaultDir] \in Repo
    BY <1>0, <2>1, PresentTyped
  <2>3. [mirror[DefaultDir] EXCEPT !.origin = req[r].url] \in Repo
    BY <1>1, <2>1, <2>2, OriginKeeps DEF Keeps
  <2> QED BY <1>0, <1>3, <1>4, <1>5, <1>7, <2>1, <2>3 DEF EnableSetUrl, Present
<1>8. CASE EnableLink(r)
  <2>1. Claims(r) /\ req[r].dir = DefaultDir /\ Present(DefaultDir) /\ UNCHANGED <<rows, mirrorsDir>>
        /\ req[r].at \in EnableAt
    BY <1>8 DEF EnableLink, At, Claims, Enabling, EnableSteps, Placed, host, Cloning, Unplaced, EnableAt
  <2>2. mirror[DefaultDir] \in Repo
    BY <1>0, <2>1, PresentTyped
  <2>3. [mirror[DefaultDir] EXCEPT !.origin = req[r].url, !.linked = FALSE, !.tracking = NoRefs] \in Repo
    BY <1>1, <2>1, <2>2, OriginKeeps DEF Keeps
  <2> QED BY <1>0, <1>3, <1>4, <1>5, <1>8, <2>1, <2>3 DEF EnableLink, Present
<1>9. CASE CreateClone(r) \/ CreateRetry(r)
  <2> DEFINE g == Cloned(req[r].url, remote[Main], remote)
  <2>1. Claims(r) /\ req[r].dir = DefaultDir /\ UNCHANGED <<rows, mirrorsDir>> /\ req[r].at \in CreateAt
    BY <1>9 DEF CreateClone, CreateRetry, Clone, ForgetTemp, GiveUp, At, Claims, Enabling, EnableSteps,
    Placed, CreateAt
  <2>2. g \in Repo
    BY <1>0, <1>2, <2>1, ClonedTyped, BranchFacts
  <2>3. \/ SetMirror(DefaultDir, g)
        \/ (SetMirror(DefaultDir, NoRepo) \/ UNCHANGED mirror) /\ (Finish(r) \/ GoTo(r, "create retry"))
    BY <1>9, <2>1 DEF CreateClone, CreateRetry, Clone, ForgetTemp, GiveUp
  <2> HIDE DEF g
  <2> QED BY <1>0, <1>3, <1>4, <1>5, <2>1, <2>2, <2>3
<1>10. CASE CreateWorkspace(r)
  <2>1. Claims(r) /\ req[r].dir = DefaultDir /\ UNCHANGED <<rows, mirrorsDir>>
    BY <1>10 DEF CreateWorkspace, At, Claims, Enabling, EnableSteps, Placed, host
  <2>2. \/ UNCHANGED mirror /\ Present(DefaultDir)
        \/ SetMirror(DefaultDir, NoRepo) /\ Finish(r)
    BY <1>10, <2>1 DEF CreateWorkspace
  <2> QED BY <1>0, <1>3, <1>4, <2>1, <2>2 DEF Present
<1>11. CASE DeleteMirror(r)
  <2>1. Claims(r) /\ UNCHANGED <<rows, mirrorsDir>> /\ SetMirror(req[r].dir, NoRepo) /\ Finish(r)
    BY <1>11 DEF DeleteMirror, At, Claims, host
  <2>2. req[r].dir \in Dir
    <3>1. req[r].at \in DeleteAt   BY <1>11 DEF DeleteMirror, At, DeleteAt
    <3> QED BY <1>0, <3>1, RequestKinds DEF DeleteRequests
  <2> QED BY <1>4, <2>1, <2>2
<1> QED BY <1>6, <1>7, <1>8, <1>9, <1>10, <1>11 DEF PlacesMirror

\* Placed, of the state after a step.
PlacedAfter ==
  /\ mirrorsDir' = DefaultDir
  /\ \A d \in Dir : mirror'[d] # NoRepo => d = DefaultDir
  /\ \A i \in Managed' : rows'[i].dir = DefaultDir
  /\ Managed' # {} => mirror'[DefaultDir] # NoRepo
  /\ \A r \in Request : Claims(r)' =>
       /\ Managed' = {}
       /\ Enabling(r)' => req'[r].dir = DefaultDir
       /\ req'[r].at \notin Unplaced => mirror'[DefaultDir] # NoRepo
       /\ \A o \in Request : Claims(o)' => o = r

LEMMA QuietPlaced ==
  ASSUME Placed, MirrorsStay, mirrorsDir' = DefaultDir,
         \A i \in Managed' : i \in Managed /\ rows'[i].dir = rows[i].dir,
         \A r \in Request : req'[r] = req[r] \/ req'[r].at \notin EnableSteps \cup {"delete mirror"}
  PROVE  PlacedAfter
<1>0. DefaultDir \in Dir
  BY DirAssumption
<1>1. \A r \in Request : Claims(r)' => req'[r] = req[r] /\ Claims(r)
  BY DEF Claims, Enabling, At
<1>2. \A d \in Dir : mirror'[d] # NoRepo <=> mirror[d] # NoRepo
  BY DEF MirrorsStay
<1>3. /\ \A d \in Dir : mirror'[d] # NoRepo => d = DefaultDir
      /\ \A i \in Managed' : rows'[i].dir = DefaultDir
      /\ Managed' # {} => mirror'[DefaultDir] # NoRepo
  BY <1>0, <1>2 DEF Placed, Present
<1>4. ASSUME NEW r \in Request, Claims(r)'
      PROVE  /\ Managed' = {}
             /\ Enabling(r)' => req'[r].dir = DefaultDir
             /\ req'[r].at \notin Unplaced => mirror'[DefaultDir] # NoRepo
             /\ \A o \in Request : Claims(o)' => o = r
  <2>1. Claims(r) /\ req'[r] = req[r]
    BY <1>1, <1>4
  <2>2. Enabling(r)' => Enabling(r)
    BY <2>1 DEF Enabling
  <2> QED BY <1>0, <1>1, <1>2, <2>1, <2>2 DEF Placed, Present
<1> QED BY <1>3, <1>4 DEF PlacedAfter

\* A request that claimed the path goes on or ends; nobody else claims it.
LEMMA ClaimantPlaced ==
  ASSUME TypeOK, Placed, NEW r \in Request, Claims(r), NEW q,
         req'[r] = q /\ \A o \in Request : o # r => req'[o] = req[o],
         q = Idle \/ (<<req[r].at, q.at>> \in Moves /\ q.dir = req[r].dir /\ Managed' = {}
                        /\ (mirror'[DefaultDir] # NoRepo \/ q.at = "create retry")),
         \A d \in Dir : mirror'[d] # NoRepo => d = DefaultDir,
         mirrorsDir' = DefaultDir,
         \A i \in Managed' : rows'[i].dir = DefaultDir,
         Managed' # {} => mirror'[DefaultDir] # NoRepo
  PROVE  PlacedAfter
<1>0. Idle.at = "idle"
  BY DEF Idle
<1>1. \A o \in Request : o # r => ~Claims(o)'
  BY DEF Placed, Claims, Enabling, At
<1>2. Claims(r)' => q # Idle /\ Enabling(r)
  BY <1>0 DEF Claims, Enabling, EnableSteps, At, Moves
<1>3. Claims(r)' => req'[r].dir = DefaultDir
  BY <1>2 DEF Placed
<1> QED BY <1>1, <1>2, <1>3 DEF PlacedAfter, Unplaced

LEMMA StepsAt ==
  ASSUME NEW r \in Request, RequestSteps(r)
  PROVE  /\ Claims(r) => PlacesMirror(r) \/ EnableStrip(r) \/ EnableRow(r) \/ CreateRow(r)
         /\ PlacesMirror(r) \/ EnableStrip(r) \/ EnableRow(r) \/ CreateRow(r) => Claims(r)
         /\ At(r, "delete row") => DeleteRow(r)
<1>1. ASSUME PullFetch(r) \/ PullFastForward(r) \/ PullMerge(r) \/ PullIntoWorkspace(r)
      PROVE  req[r].at \in PullAt
  BY <1>1 DEF PullFetch, PullFastForward, PullMerge, PullIntoWorkspace, At, PullAt
<1>2. ASSUME PushReset(r) \/ PushCommit(r) \/ PushBranch(r) \/ Push(r)
      PROVE  req[r].at \in PushAt
  BY <1>2 DEF PushReset, PushCommit, PushBranch, Push, At, PushAt
<1>3. ASSUME DeleteRow(r) \/ SetSecret(r) \/ ForgetSecret(r) \/ DeleteSecret(r) \/ UpdateWrite(r)
      PROVE  ~Claims(r) /\ (At(r, "delete row") => DeleteRow(r))
  BY <1>3 DEF DeleteRow, SetSecret, ForgetSecret, DeleteSecret, UpdateWrite, At, Claims, Enabling, EnableSteps
<1>4. ASSUME PlacesMirror(r) \/ EnableStrip(r) \/ EnableRow(r) \/ CreateRow(r)
      PROVE  Claims(r) /\ ~At(r, "delete row")
  BY <1>4
  DEF PlacesMirror, EnableClone, EnableSetUrl, EnableLink, EnableStrip, EnableRow, CreateClone,
  CreateRetry, Clone, ForgetTemp, GiveUp,
      CreateWorkspace, CreateRow, DeleteMirror, At, Claims, Enabling, EnableSteps
<1>5. ASSUME req[r].at \in PullAt \cup PushAt PROVE ~Claims(r) /\ ~At(r, "delete row")
  BY <1>5 DEF PullAt, PushAt, Claims, Enabling, EnableSteps, At
<1> QED BY <1>1, <1>2, <1>3, <1>4, <1>5 DEF RequestSteps, PlacesMirror

LEMMA ClaimantSteps ==
  ASSUME TypeOK, Placed, NEW r \in Request, RequestSteps(r), Claims(r)
  PROVE  PlacedAfter
<1>0. DefaultDir \in Dir /\ req \in [Request -> Requests]
  BY DirAssumption DEF TypeOK, TasksTyped
<1>1. PICK q : /\ req' = [req EXCEPT ![r] = q]
               /\ q = Idle \/ (<<req[r].at, q.at>> \in Moves /\ SameButAt(req[r], q))
  BY RequestMovesOn DEF MovesOn
<1>2. req'[r] = q /\ \A o \in Request : o # r => req'[o] = req[o]
  BY <1>0, <1>1
<1>3. q = Idle \/ (<<req[r].at, q.at>> \in Moves /\ q.dir = req[r].dir)
  BY <1>1 DEF SameButAt
<1>4. Managed = {} /\ mirrorsDir = DefaultDir
  BY DEF Placed
<1>5. CASE PlacesMirror(r)
  <2>1. /\ \A d \in Dir : mirror'[d] # NoRepo => d = DefaultDir
        /\ Finish(r) \/ mirror'[DefaultDir] # NoRepo \/ GoTo(r, "create retry")
        /\ UNCHANGED <<rows, mirrorsDir>>
    BY <1>5, PlacesThere
  <2>2. Managed' = {} /\ mirrorsDir' = DefaultDir
    BY <1>4, <2>1 DEF Managed
  <2>3. Finish(r) => q = Idle
    BY <1>0, <1>2 DEF Finish
  <2>4. GoTo(r, "create retry") => q = Idle \/ q.at = "create retry"
    <3>1. req[r] \in CreateRequests \/ ~GoTo(r, "create retry") \/ q = Idle
      <4>1. CASE req[r].at \in CreateAt
        BY <1>0, <4>1, RequestKinds
      <4>2. CASE q # Idle /\ GoTo(r, "create retry") /\ req[r].at \notin CreateAt
        <5>1. \/ req[r].at \in EnableAt /\ req[r] \in EnableRequests
              \/ req[r].at \in DeleteAt /\ req[r] \in DeleteRequests
          BY <1>0, <4>2, RequestKinds DEF Claims, Enabling, EnableSteps, At, CreateAt, EnableAt, DeleteAt
        <5>2. q.at = "create retry"
          BY <1>0, <1>2, <4>2, <5>1 DEF GoTo, EnableRequests, DeleteRequests
        <5> QED BY <1>3, <4>2, <5>1, <5>2 DEF Moves, EnableAt, DeleteAt
      <4> QED BY <4>1, <4>2
    <3> QED BY <1>0, <1>2, <3>1 DEF GoTo, CreateRequests
  <2> QED BY <1>2, <1>3, <2>1, <2>2, <2>3, <2>4, ClaimantPlaced
<1>6. CASE EnableStrip(r)
  <2>1. req[r].at = "enable strip" /\ UNCHANGED <<rows, mirrorsDir, mirror>>
    BY <1>6 DEF EnableStrip, At, host
  <2>2. Managed' = {} /\ mirrorsDir' = DefaultDir
    BY <1>4, <2>1 DEF Managed
  <2>3. mirror'[DefaultDir] # NoRepo /\ \A d \in Dir : mirror'[d] # NoRepo => d = DefaultDir
    BY <2>1 DEF Placed, Cloning, Unplaced, Present
  <2> QED BY <1>2, <1>3, <2>2, <2>3, ClaimantPlaced
<1>7. CASE EnableRow(r) \/ CreateRow(r)
  <2>1. /\ req[r].at \in {"enable row", "create row"} /\ req' = [req EXCEPT ![r] = Idle]
        /\ UNCHANGED <<mirror, mirrorsDir>>
        /\ \A i \in Managed' : \/ i \in Managed /\ rows'[i].dir = rows[i].dir
                               \/ rows'[i].dir = req[r].dir
    BY <1>7, InsertedRow
  <2>2. req[r].dir = DefaultDir /\ Present(DefaultDir)
    BY <2>1 DEF Placed, Enabling, EnableSteps, Cloning, Unplaced
  <2>3. /\ mirror'[DefaultDir] # NoRepo
        /\ \A d \in Dir : mirror'[d] # NoRepo => d = DefaultDir
        /\ mirrorsDir' = DefaultDir
    BY <1>4, <2>1, <2>2 DEF Placed, Present
  <2>4. \A i \in Managed' : rows'[i].dir = DefaultDir
    BY <1>4, <2>1, <2>2
  <2>5. q = Idle
    BY <1>0, <1>2, <2>1
  <2> QED BY <1>2, <2>3, <2>4, <2>5, ClaimantPlaced
<1> QED BY <1>5, <1>6, <1>7, StepsAt

\* The row is gone, and its mirror is about to go.
LEMMA DeletedPlaced ==
  ASSUME TypeOK, Placed, NEW r \in Request, DeleteRow(r), NEW q, q.at = "delete mirror",
         req'[r] = q /\ \A o \in Request : o # r => req'[o] = req[o]
  PROVE  PlacedAfter
<1>0. /\ DefaultDir \in Dir /\ req \in [Request -> Requests] /\ Idle.at = "idle"
      /\ \A i, j \in Managed : i = j
      /\ rows \in [RepoId -> Row \cup {NoRow}]
  BY DirAssumption DEF TypeOK, TasksTyped, Idle, IdsGiven, HostTyped
<1>1. req[r].id \in RepoId
  <2>1. req[r] \in Requests /\ req[r].at \in DeleteAt
    BY <1>0 DEF DeleteRow, At, DeleteAt
  <2> QED BY <2>1, RequestKinds DEF DeleteRequests
<1>2. rows[req[r].id] # NoRow
  BY <1>0 DEF DeleteRow, Finish
<1>3. req[r].id \in Managed
  BY <1>1, <1>2 DEF Managed
<1>4. Managed' = {}
  BY <1>0, <1>1, <1>3 DEF DeleteRow, Managed
<1>5. \A o \in Request : ~Claims(o)
  BY <1>3 DEF Placed
<1>6. \A o \in Request : Claims(o)' => o = r
  BY <1>5 DEF Claims, Enabling, At
<1>7. ~Enabling(r)'
  BY DEF Enabling, EnableSteps
<1>8. UNCHANGED <<mirror, mirrorsDir>>
  BY DEF DeleteRow
<1>9. mirror'[DefaultDir] # NoRepo /\ mirrorsDir' = DefaultDir
      /\ \A d \in Dir : mirror'[d] # NoRepo => d = DefaultDir
  BY <1>3, <1>8 DEF Placed, Present
<1> QED BY <1>4, <1>6, <1>7, <1>9 DEF PlacedAfter

\* Every other step leaves the mirrors and the rows in their places.
LEMMA OtherSteps ==
  ASSUME TypeOK, Placed, NEW r \in Request, RequestSteps(r), ~Claims(r), MirrorsStay,
         mirrorsDir' = DefaultDir,
         \A i \in Managed' : i \in Managed /\ rows'[i].dir = rows[i].dir
  PROVE  PlacedAfter
<1>0. req \in [Request -> Requests] /\ Idle.at = "idle"
  BY DEF TypeOK, TasksTyped, Idle
<1>1. PICK q : /\ req' = [req EXCEPT ![r] = q]
               /\ q = Idle \/ (<<req[r].at, q.at>> \in Moves /\ SameButAt(req[r], q))
  BY RequestMovesOn DEF MovesOn
<1>2. req'[r] = q /\ \A o \in Request : o # r => req'[o] = req[o]
  BY <1>0, <1>1
<1>3. q.at \in EnableSteps \cup {"delete mirror"} => req[r].at = "delete row" /\ q.at = "delete mirror"
  BY <1>0, <1>1 DEF Moves, EnableSteps, Claims, Enabling, At
<1>4. CASE q.at \notin EnableSteps \cup {"delete mirror"}
  BY <1>2, <1>4, QuietPlaced
<1>5. CASE req[r].at = "delete row" /\ q.at = "delete mirror"
  <2>1. DeleteRow(r)
    BY <1>5, StepsAt DEF At
  <2> QED BY <1>2, <1>5, <2>1, DeletedPlaced
<1> QED BY <1>3, <1>4, <1>5

LEMMA BegunPlaced ==
  ASSUME TypeOK, Placed, "overlap" \notin marks', NEW r \in Request, UserAsks(r), MirrorsStay,
         mirrorsDir' = DefaultDir,
         \A i \in Managed' : i \in Managed /\ rows'[i].dir = rows[i].dir
  PROVE  PlacedAfter
<1>0. req \in [Request -> Requests] /\ DefaultDir \in Dir
  BY DirAssumption DEF TypeOK, TasksTyped
<1>1. CASE UNCHANGED req
  BY <1>1, QuietPlaced
<1>2. ASSUME NEW q, req' = [req EXCEPT ![r] = q], Begun(q) PROVE PlacedAfter
  <2>1. req'[r] = q /\ \A o \in Request : o # r => req'[o] = req[o]
    BY <1>0, <1>2
  <2>2. CASE q.at \notin EnableSteps \cup {"delete mirror"}
    BY <2>1, <2>2, QuietPlaced
  <2>3. CASE q.at \in EnableSteps \cup {"delete mirror"}
    <3>1. /\ q.at \in Cloning /\ q.dir = mirrorsDir /\ ~Present(mirrorsDir)
          /\ \A o \in Request : ~Enabling(o)
      BY <1>2, <2>3 DEF Begun, SyncStart, Cloning, Unplaced, EnableSteps
    <3>2. ~Present(DefaultDir) /\ q.dir = DefaultDir
      BY <3>1 DEF Placed
    <3>3. Managed = {} /\ \A o \in Request : ~Claims(o)
      BY <3>1, <3>2 DEF Placed, Claims, At, Cloning, Unplaced
    <3>4. Managed' = {} /\ \A o \in Request : o # r => ~Claims(o)'
      BY <2>1, <3>3 DEF Claims, Enabling, At
    <3>5. \A d \in Dir : mirror'[d] # NoRepo => d = DefaultDir
      BY DEF MirrorsStay, Placed, Present
    <3> QED BY <2>1, <3>1, <3>2, <3>4, <3>5 DEF PlacedAfter, Unplaced
  <2> QED BY <2>2, <2>3
<1> QED BY <1>1, <1>2, UserStarts DEF Starts

LEMMA NextPlaced ==
  ASSUME TypeOK, PlacedInv, [Next]_vars
  PROVE  PlacedInv'
<1>1. SUFFICES ASSUME marks' \cap {"overlap", "moved"} = {}
               PROVE  PlacedAfter
  <2>1. PlacedAfter => Placed'
    BY DEF PlacedAfter, Placed, Present
  <2> QED BY <2>1 DEF PlacedInv
<1>2. "overlap" \notin marks' /\ "moved" \notin marks' /\ Placed
  BY <1>1, NextMarks DEF PlacedInv
<1>3. ASSUME NEW r \in Request, RequestSteps(r), Claims(r) PROVE PlacedAfter
  BY <1>2, <1>3, ClaimantSteps
<1>4. ASSUME \A r \in Request : ~(RequestSteps(r) /\ Claims(r)) PROVE PlacedAfter
  <2>1. \A r \in Request : RequestSteps(r) => ~PlacesMirror(r)
    BY <1>4, StepsAt
  <2>2. \A r \in Request : ~EnableRow(r) /\ ~CreateRow(r)
    BY <1>4, StepsAt DEF RequestSteps
  <2>3. /\ \A i \in Managed' : i \in Managed /\ rows'[i].dir = rows[i].dir
        /\ mirrorsDir' = DefaultDir
    BY <1>2, <2>2, NextRowDirs DEF Placed
  <2>4. MirrorsStay
    <3>1. ~(\E d, e \in Dir : MoveMirror(d, e))
      BY <1>2 DEF MoveMirror, Placed
    <3> QED BY <2>1, <3>1, NextStays
  <2>5. CASE UNCHANGED req
    BY <1>2, <2>3, <2>4, <2>5, QuietPlaced
  <2>6. CASE \A r \in Request : req'[r] = Idle
    <3>1. \A r \in Request : req'[r].at \notin EnableSteps \cup {"delete mirror"}
      <4>1. Idle.at \notin EnableSteps \cup {"delete mirror"}
        BY DEF Idle, EnableSteps
      <4> QED BY <2>6, <4>1
    <3> QED BY <1>2, <2>3, <2>4, <3>1, QuietPlaced
  <2>7. ASSUME NEW r \in Request, RequestSteps(r) PROVE PlacedAfter
    BY <1>2, <1>4, <2>3, <2>4, <2>7, OtherSteps
  <2>8. ASSUME NEW r \in Request, UserAsks(r) PROVE PlacedAfter
    BY <1>2, <2>3, <2>4, <2>8, BegunPlaced
  <2> QED BY <2>5, <2>6, <2>7, <2>8, NextRequests
<1> QED BY <1>3, <1>4

LEMMA InitPlaced ==
  ASSUME Init
  PROVE  PlacedInv
<1>0. DefaultDir \in Dir
  BY DirAssumption
<1>1. mirrorsDir = DefaultDir /\ \A r \in Request : req[r].at = "idle"
  BY DEF Init, Idle
<1>2. \A r \in Request : ~Claims(r)
  BY <1>1 DEF Claims, Enabling, EnableSteps, At
<1>3. CASE InitUnmanaged
  BY <1>1, <1>2, <1>3 DEF InitUnmanaged, Placed, PlacedInv, Managed, Present
<1>4. CASE InitEnabled
  <2>1. PICK pulled \in 1..MaxCommits, strategy \in {"direct", "feature_branch"} :
          InitPulled(pulled, strategy)
    BY <1>4, MaxCommitsAssumption DEF InitEnabled
  <2> DEFINE url == CHOOSE u \in Url : TRUE
             row == [NewRow(DefaultDir, url) EXCEPT !.strategy = strategy]
             refs == [NoRefs EXCEPT ![Main] = {1}]
             g == Cloned(url, 1..pulled, refs)
  <2>2. row.dir = DefaultDir
    BY DEF NewRow
  <2>3. g \in Repo
    <3>1. url \in Url
      BY UrlAssumption
    <3>2. 1..pulled \in SUBSET Commits /\ {1} \in SUBSET Commits
      BY MaxCommitsAssumption DEF Commits
    <3>3. refs \in [Branch -> SUBSET Commits]
      BY <3>2, NoRefsTyped
    <3> HIDE DEF url, refs
    <3> QED BY <3>1, <3>2, <3>3, ClonedTyped
  <2>4. /\ mirror = [d \in Dir |-> IF d = DefaultDir THEN g ELSE NoRepo]
        /\ rows = [i \in RepoId |-> IF i = 1 THEN row ELSE NoRow]
    BY <2>1 DEF InitPulled
  <2> HIDE DEF g, row
  <2> QED BY <1>0, <1>1, <1>2, <2>2, <2>3, <2>4, NoRepoAssumption DEF Placed, PlacedInv, Managed, Present
<1> QED BY <1>3, <1>4 DEF Init

\* A row's mirror exists, in every order of enabling, deleting and ending the
\* application, unless two enabling requests met or the directory was changed
\* (enable_repo, create_from_source, delete_repo, list_repos).
THEOREM RowsHaveMirrors == Spec => []RowHasMirror
<1>1. Init => PlacedInv
  BY InitPlaced
<1>2. TypeOK /\ PlacedInv /\ [Next]_vars => PlacedInv'
  BY NextPlaced
<1>3. TypeOK /\ PlacedInv => RowHasMirror
  BY DEF PlacedInv, Placed, RowHasMirror, ListRepos
<1> QED BY <1>1, <1>2, <1>3, TypeCorrect, PTL DEF Spec

---------------------------------------------------------------------------
(* The remote of a workspace *)

\* What a step may add to the history; only the initial state has an own URL.
Marks == {"refetched", "overlap", "moved", "no origin", "two logins", "kept entry"}

LEMMA UserOwnMark ==
  ASSUME NEW r \in Request, UserAsks(r)
  PROVE  marks' \subseteq marks \cup Marks
<1>0. ASSUME NEW d, Refetched(d) PROVE marks' \subseteq marks \cup Marks
  BY <1>0 DEF Refetched, Marks
<1>1. ASSUME NEW i, StartPull(r, i) \/ FetchRemote(r, i) \/ StartPushToAgent(r, i)
      PROVE  marks' \subseteq marks \cup Marks
  BY <1>0, <1>1 DEF StartPull, FetchRemote, StartPushToAgent
<1>2. ASSUME NEW i, NEW S, NEW squash, StartPush(r, i, S, squash)
      PROVE  marks' \subseteq marks \cup Marks
  BY <1>2 DEF StartPush
<1>3. ASSUME NEW i, NEW rm, NEW l, NEW row, StartDelete(r, i, rm) \/ StartSetLogin(r, i, l) \/ StartUpdate(r, i, row)
      PROVE  marks' \subseteq marks \cup Marks
  BY <1>3 DEF StartDelete, StartSetLogin, StartUpdate, Marks
<1>4. ASSUME NEW i, NEW d, DeleteLogin(r, i) \/ UpdateMirrorsDir(r, d) \/ CreateRefused(r, d)
      PROVE  marks' \subseteq marks \cup Marks
  <2>1. CASE DeleteLogin(r, i)
    BY <2>1 DEF DeleteLogin
  <2>2. CASE UpdateMirrorsDir(r, d) \/ CreateRefused(r, d)
    <3>1. marks' = marks \cup {"moved"} \/ marks' = marks \cup {"kept entry"}
      BY <2>2 DEF UpdateMirrorsDir, CreateRefused
    <3> QED BY <3>1 DEF Marks
  <2> QED BY <1>4, <2>1, <2>2
<1>5. ASSUME NEW url, NEW l, StartEnable(r, url) \/ StartCreate(r, url, l)
      PROVE  marks' \subseteq marks \cup Marks
  BY <1>5 DEF StartEnable, StartCreate, StartEnabling, Marks
<1> QED BY <1>1, <1>2, <1>3, <1>4, <1>5, UserCases

LEMMA NextOwnMark ==
  ASSUME [Next]_vars
  PROVE  /\ "own url" \in marks' => "own url" \in marks
         /\ wsUrl' = wsUrl \/ \E r \in Request : EnableStrip(r)
<1> DEFINE Goal == ("own url" \in marks' => "own url" \in marks)
                   /\ (wsUrl' = wsUrl \/ \E r \in Request : EnableStrip(r))
<1>0. ASSUME NEW d, Refetched(d) PROVE "own url" \in marks' => "own url" \in marks
  BY <1>0 DEF Refetched
<1>1. ASSUME NEW r \in Request, RequestSteps(r) PROVE Goal
  <2>1. CASE EnableStrip(r)
    BY <2>1 DEF EnableStrip
  <2>2. CASE CreateClone(r) \/ CreateRetry(r)
    <3>1. ASSUME ForgetTemp(r) PROVE marks' \subseteq marks \cup {"kept entry"}
      BY <3>1 DEF ForgetTemp
    <3>2. marks' \subseteq marks \cup {"kept entry", "gave up"} /\ UNCHANGED wsUrl
      BY <2>2, <3>1 DEF CreateClone, CreateRetry, Clone, GiveUp
    <3> QED BY <3>2
  <2>3. CASE SetSecret(r) \/ ForgetSecret(r) \/ DeleteSecret(r)
    BY <2>3 DEF SetSecret, ForgetSecret, DeleteSecret, TooLate
  <2>4. CASE ~EnableStrip(r)
    BY <1>1, <2>2, <2>3, <2>4
    DEF RequestSteps, PullFetch, PullFastForward, PullMerge, PushReset, PushCommit, PushBranch, Push,
        PullIntoWorkspace, EnableClone, EnableSetUrl, EnableLink, EnableRow,
        CreateWorkspace, CreateRow, DeleteRow, DeleteMirror, UpdateWrite
  <2> QED BY <2>1, <2>4
<1>2. ASSUME NEW r \in Request, UserAsks(r) PROVE Goal
  <2>1. UNCHANGED wsUrl /\ marks' \subseteq marks \cup Marks
    BY <1>2, UserOwnMark, UserMarks
  <2> QED BY <2>1 DEF Marks
<1>3. ASSUME Checker PROVE Goal
  BY <1>0, <1>3
  DEF Checker, StartCheck, CheckWorkspace, CheckCount, CheckRemote, CheckBehind, CheckStore
<1>4. ASSUME \/ \E p \in late : LatePush(p)
             \/ AgentEdits \/ AgentCommits \/ Exit
             \/ \E b \in Branch : OthersPush(b)
             \/ \E d \in Dir : ResolveMirror(d)
             \/ \E d, e \in Dir : MoveMirror(d, e)
             \/ UNCHANGED vars
      PROVE  Goal
  BY <1>4 DEF LatePush, AgentEdits, AgentCommits, Exit, OthersPush, ResolveMirror, MoveMirror, vars
<1> HIDE DEF Goal
<1>5. Goal
  BY <1>1, <1>2, <1>3, <1>4 DEF Next
<1> QED BY <1>5 DEF Goal

\* A request is still cloning to the path, or may yet remove what is there.
ClaimSteps == {"enable clone", "enable origin", "create clone", "create retry", "create workspace"}
Claimed(d) == \E r \in Request : req[r].at \in ClaimSteps /\ req[r].dir = d
\* A mirror that knows the remote and that no request may remove unasked.
Kept == \E d \in Dir : Present(d) /\ mirror[d].origin \in Url /\ ~Claimed(d)

\* Before the workspace's remotes are removed a mirror keeps the URL; a workspace
\* that had a remote is enabled with another URL, or none, only when it has lost
\* its own.
KeptParts ==
  /\ wsUrl = NoUrl => Kept
  /\ \A r \in Request : At(r, "enable strip") => Kept
  /\ \A r \in Request : req[r].at \in {"enable clone", "enable origin"} /\ ~req[r].own => wsUrl = NoUrl
KeptInv == "own url" \in marks /\ marks \cap {"no origin", "overlap", "deleted"} = {} => KeptParts

\* Nothing claims a path where a mirror is.
LEMMA NextUnclaimed ==
  ASSUME TypeOK, [Next]_vars, NEW d, Claimed(d)'
  PROVE  Claimed(d) \/ ~Present(d)
<1>0. Idle.at = "idle"
  BY DEF Idle
<1>1. PICK x \in Request : req'[x].at \in ClaimSteps /\ req'[x].dir = d
  BY DEF Claimed
<1>2. ASSUME req'[x] = req[x] PROVE Claimed(d)
  BY <1>1, <1>2 DEF Claimed
<1>3. ASSUME NEW r \in Request, NEW q, SlotStep(r, q) PROVE Claimed(d) \/ ~Present(d)
  <2>1. req'[r] = q /\ \A o \in Request : o # r => req'[o] = req[o]
    BY <1>3, SlotAfter
  <2>2. CASE x # r
    BY <1>2, <2>1, <2>2
  <2>3. CASE x = r /\ <<req[r].at, q.at>> \in Moves /\ SameButAt(req[r], q)
    BY <1>1, <2>1, <2>3 DEF Claimed, ClaimSteps, Moves, SameButAt
  <2>4. CASE x = r /\ Begun(q)
    BY <1>1, <2>1, <2>4 DEF Begun, ClaimSteps, SyncStart
  <2>5. q # Idle \/ x # r
    BY <1>0, <1>1, <2>1 DEF ClaimSteps
  <2> QED BY <1>3, <2>2, <2>3, <2>4, <2>5 DEF SlotStep
<1>4. CASE \A r \in Request : req'[r] = Idle
  BY <1>0, <1>1, <1>4 DEF ClaimSteps
<1> QED BY <1>2, <1>3, <1>4, NextSlot

\* Kept, of the state after a step.
KeptAfter == \E d \in Dir : mirror'[d] # NoRepo /\ mirror'[d].origin \in Url /\ ~Claimed(d)'

\* What a placing request changes is at the path it has claimed.
LEMMA PlacesClaimed ==
  ASSUME TypeOK, NEW r \in Request, PlacesMirror(r)
  PROVE  \/ "deleted" \in marks'
         \/ EnableSetUrl(r)
         \/ Claimed(req[r].dir) /\ \A d \in Dir : d # req[r].dir => mirror'[d] = mirror[d]
<1>0. mirror \in [Dir -> Repo \cup {NoRepo}]
  BY DEF TypeOK, ReposTyped
<1>1. ASSUME NEW g, SetMirror(req[r].dir, g) \/ UNCHANGED mirror
      PROVE  \A d \in Dir : d # req[r].dir => mirror'[d] = mirror[d]
  BY <1>0, <1>1 DEF SetMirror
<1>2. ASSUME EnableClone(r) \/ EnableLink(r) \/ CreateClone(r) \/ CreateRetry(r) \/ CreateWorkspace(r)
      PROVE  Claimed(req[r].dir)
  BY <1>2 DEF EnableClone, EnableLink, CreateClone, CreateRetry, Clone, ForgetTemp, GiveUp,
  CreateWorkspace, At, Claimed, ClaimSteps
<1>3. CASE EnableClone(r)
  BY <1>1, <1>2, <1>3 DEF EnableClone
<1>4. CASE EnableLink(r)
  BY <1>1, <1>2, <1>4 DEF EnableLink
<1>5. CASE CreateClone(r) \/ CreateRetry(r)
  BY <1>1, <1>2, <1>5 DEF CreateClone, CreateRetry, Clone, ForgetTemp, GiveUp
<1>6. CASE CreateWorkspace(r)
  BY <1>1, <1>2, <1>6 DEF CreateWorkspace
<1>7. CASE DeleteMirror(r)
  BY <1>7 DEF DeleteMirror
<1> QED BY <1>3, <1>4, <1>5, <1>6, <1>7 DEF PlacesMirror

LEMMA SetUrlKept ==
  ASSUME TypeOK, RequestInv, NEW r \in Request, EnableSetUrl(r), marks' \cap {"no origin", "overlap"} = {}
  PROVE  KeptAfter
<1>0. /\ req \in [Request -> Requests] /\ ReposTyped
      /\ mirror \in [Dir -> Repo \cup {NoRepo}]
  BY DEF TypeOK, TasksTyped, ReposTyped
<1>1. /\ req[r].at = "enable origin" /\ req[r].own /\ Present(req[r].dir)
      /\ SetMirror(req[r].dir, [mirror[req[r].dir] EXCEPT !.origin = req[r].url])
      /\ GoTo(r, "enable strip") /\ marks' = marks
  BY DEF EnableSetUrl, At
<1>2. req[r] \in EnableRequests
  <2>1. req[r] \in Requests /\ req[r].at \in EnableAt
    BY <1>0, <1>1 DEF EnableAt
  <2> QED BY <2>1, RequestKinds
<1>3. PICK d \in Dir, u \in Url : d = req[r].dir /\ u = req[r].url
  BY <1>1, <1>2 DEF EnableRequests, RequestInv, OwnUrl
<1>4. mirror'[d] = [mirror[d] EXCEPT !.origin = u]
  BY <1>0, <1>1, <1>3 DEF SetMirror
<1>5. mirror[d] \in Repo
  BY <1>0, <1>1, <1>3, PresentTyped
<1>6. mirror'[d].origin = u
  BY <1>4, <1>5 DEF Repo
<1>7. mirror'[d] \in Repo
  <2>1. [mirror[d] EXCEPT !.origin = u] \in Repo
    BY <1>3, <1>5, OriginKeeps DEF Keeps
  <2> QED BY <1>4, <2>1
<1>8. \A o \in Request : Enabling(o) => o = r
  BY <1>1 DEF RequestInv, OneEnabling, Enabling, EnableSteps
<1>9. req'[r].at = "enable strip" /\ \A o \in Request : o # r => req'[o] = req[o]
  BY <1>0, <1>1, <1>2 DEF GoTo, EnableRequests
<1>10. ~Claimed(d)'
  BY <1>8, <1>9 DEF Claimed, ClaimSteps, Enabling, EnableSteps
<1> QED BY <1>3, <1>6, <1>7, <1>10, NoRepoAssumption DEF KeptAfter

LEMMA NextKept ==
  ASSUME TypeOK, RequestInv, [Next]_vars, Kept, marks' \cap {"no origin", "overlap", "deleted"} = {}
  PROVE  KeptAfter
<1>1. PICK k \in Dir : Present(k) /\ mirror[k].origin \in Url /\ ~Claimed(k)
  BY DEF Kept
<1>2. ~Claimed(k)'
  BY <1>1, NextUnclaimed
<1>3. CASE MirrorsStay
  BY <1>1, <1>2, <1>3 DEF MirrorsStay, KeptAfter, Present
<1>4. ASSUME NEW r \in Request, PlacesMirror(r) PROVE KeptAfter
  <2>1. CASE EnableSetUrl(r)
    BY <2>1, SetUrlKept
  <2>2. CASE ~EnableSetUrl(r)
    <3>1. k # req[r].dir /\ mirror'[k] = mirror[k]
      BY <1>1, <1>4, <2>2, PlacesClaimed
    <3> QED BY <1>1, <1>2, <3>1 DEF KeptAfter, Present
  <2> QED BY <2>1, <2>2
<1>5. ASSUME NEW d \in Dir, NEW e \in Dir, MoveMirror(d, e) PROVE KeptAfter
  <2>1. /\ Present(d) /\ ~Present(e) /\ mirror' = [mirror EXCEPT ![e] = mirror[d], ![d] = NoRepo]
        /\ UNCHANGED req
        /\ \A r \in Request : Enabling(r) => req[r].dir # e
    BY <1>5 DEF MoveMirror
  <2>2. mirror \in [Dir -> Repo \cup {NoRepo}] /\ d # e
    BY <2>1 DEF TypeOK, ReposTyped
  <2>3. CASE k = d
    <3>1. mirror'[e] = mirror[d]
      BY <2>1, <2>2
    <3>2. ~Claimed(e)'
      BY <2>1 DEF Claimed, ClaimSteps, Enabling, EnableSteps
    <3> QED BY <1>1, <2>3, <3>1, <3>2 DEF KeptAfter, Present
  <2>4. CASE k # d
    <3>1. mirror'[k] = mirror[k]
      BY <1>1, <2>1, <2>2, <2>4
    <3> QED BY <1>1, <1>2, <3>1 DEF KeptAfter, Present
  <2> QED BY <2>3, <2>4
<1> QED BY <1>3, <1>4, <1>5, NextStays

LEMMA NextStrips ==
  ASSUME TypeOK, [Next]_vars, NEW x \in Request, req'[x].at = "enable strip"
  PROVE  At(x, "enable strip") \/ EnableSetUrl(x) \/ EnableLink(x)
<1>0. Idle.at = "idle"
  BY DEF Idle
<1>1. ASSUME NEW r \in Request, NEW q, SlotStep(r, q)
      PROVE  At(x, "enable strip") \/ EnableSetUrl(x) \/ EnableLink(x)
  <2>1. req'[r] = q /\ \A o \in Request : o # r => req'[o] = req[o]
    BY <1>1, SlotAfter
  <2>2. CASE x # r
    BY <2>1, <2>2 DEF At
  <2>3. CASE x = r /\ RequestSteps(r) /\ <<req[r].at, q.at>> \in Moves
    <3>1. req[r].at = "enable origin"
      BY <2>1, <2>3 DEF Moves
    <3>2. PlacesMirror(r) \/ EnableStrip(r) \/ EnableRow(r) \/ CreateRow(r)
      BY <2>3, <3>1, StepsAt DEF Claims, Enabling, EnableSteps
    <3> QED
      BY <2>3, <3>1, <3>2
      DEF PlacesMirror, EnableClone, EnableStrip, EnableRow, CreateRow, CreateClone, CreateRetry,
      Clone, ForgetTemp, GiveUp, CreateWorkspace,
          DeleteMirror, At
  <2>4. ~(x = r /\ Begun(q))
    BY <2>1 DEF Begun, SyncStart, Cloning
  <2>5. q # Idle \/ x # r
    BY <1>0, <2>1
  <2> QED BY <1>1, <2>2, <2>3, <2>4, <2>5 DEF SlotStep
<1>2. ~(\A r \in Request : req'[r] = Idle)
  BY <1>0
<1> QED BY <1>1, <1>2, NextSlot DEF At

LEMMA NextOthersUrl ==
  ASSUME TypeOK, KeptParts, [Next]_vars, "no origin" \notin marks',
         NEW x \in Request, req'[x].at \in {"enable clone", "enable origin"}, ~req'[x].own
  PROVE  wsUrl = NoUrl
<1>0. Idle.at = "idle"
  BY DEF Idle
<1>1. ASSUME NEW r \in Request, NEW q, SlotStep(r, q) PROVE wsUrl = NoUrl
  <2>1. req'[r] = q /\ \A o \in Request : o # r => req'[o] = req[o]
    BY <1>1, SlotAfter
  <2>2. CASE x # r
    BY <2>1, <2>2 DEF KeptParts
  <2>3. CASE x = r /\ <<req[r].at, q.at>> \in Moves /\ SameButAt(req[r], q)
    <3>1. req[r].at = "enable clone" /\ q.own = req[r].own
      BY <2>1, <2>3 DEF Moves, SameButAt, EnableAt
    <3> QED BY <2>1, <2>3, <3>1 DEF KeptParts
  <2>4. CASE x = r /\ Begun(q)
    BY <2>1, <2>4 DEF Begun, SyncStart, Cloning
  <2>5. q # Idle \/ x # r
    BY <1>0, <2>1
  <2> QED BY <1>1, <2>2, <2>3, <2>4, <2>5 DEF SlotStep
<1>2. ~(\A r \in Request : req'[r] = Idle)
  BY <1>0
<1> QED BY <1>1, <1>2, NextSlot DEF KeptParts

LEMMA NextKeptInv ==
  ASSUME TypeOK, RequestInv, KeptInv, [Next]_vars
  PROVE  KeptInv'
<1>1. SUFFICES ASSUME "own url" \in marks', marks' \cap {"no origin", "overlap", "deleted"} = {}
               PROVE  KeptParts'
  BY DEF KeptInv
<1>2. KeptParts /\ wsUrl' \in {wsUrl, NoUrl}
  BY <1>1, NextMarks, NextOwnMark DEF KeptInv
<1>3. Kept => Kept'
  <2>1. KeptAfter => Kept'
    BY DEF KeptAfter, Kept, Present
  <2> QED BY <1>1, <2>1, NextKept
<1>4. ASSUME wsUrl' = NoUrl PROVE Kept'
  <2>1. wsUrl = NoUrl \/ \E r \in Request : At(r, "enable strip")
    BY <1>4, NextOwnMark DEF EnableStrip
  <2> QED BY <1>2, <1>3, <2>1 DEF KeptParts
<1>5. ASSUME NEW r \in Request, req'[r].at = "enable strip" PROVE Kept'
  <2>1. CASE At(r, "enable strip")
    BY <1>2, <1>3, <2>1 DEF KeptParts
  <2>2. CASE EnableSetUrl(r)
    <3>1. KeptAfter
      BY <1>1, <2>2, SetUrlKept
    <3> QED BY <3>1 DEF KeptAfter, Kept, Present
  <2>3. CASE EnableLink(r)
    <3>1. req[r].at = "enable origin" /\ ~req[r].own
      BY <2>3 DEF EnableLink, At
    <3> QED BY <1>2, <1>3, <3>1 DEF KeptParts
  <2> QED BY <1>5, <2>1, <2>2, <2>3, NextStrips
<1>6. ASSUME NEW r \in Request, req'[r].at \in {"enable clone", "enable origin"}, ~req'[r].own
      PROVE  wsUrl' = NoUrl
  BY <1>1, <1>2, <1>6, NextOthersUrl
<1> QED BY <1>4, <1>5, <1>6 DEF KeptParts, At

LEMMA InitKept ==
  ASSUME Init
  PROVE  KeptInv
<1>1. marks = IF wsUrl = NoUrl THEN {} ELSE {"own url"}
  BY DEF Init
<1>2. \A r \in Request : req[r].at = "idle"
  <2>1. Idle.at = "idle" /\ req = [r \in Request |-> Idle]
    BY DEF Init, Idle
  <2> QED BY <2>1
<1>3. "own url" \in marks => wsUrl # NoUrl
  BY <1>1
<1> QED BY <1>2, <1>3 DEF KeptInv, KeptParts, At

\* The remote of a workspace is not forgotten when its remotes are removed: until
\* the user deletes the mirror, the workspace or a mirror knows it, whatever the
\* directories are changed to and whenever the application ends (enable_repo,
\* enable_agent_created, create_from_source, delete_repo).
THEOREM RemotesNotForgotten == Spec => []RemoteNotForgotten
<1>1. Init => RequestInv /\ KeptInv
  BY InitRequestInv, InitKept
<1>2. TypeOK /\ RequestInv /\ KeptInv /\ [Next]_vars => RequestInv' /\ KeptInv'
  BY NextRequestInv, NextKeptInv
<1>3. KeptInv => RemoteNotForgotten
  BY DEF KeptInv, KeptParts, Kept, RemoteNotForgotten
<1> QED BY <1>1, <1>2, <1>3, TypeCorrect, PTL DEF Spec

---------------------------------------------------------------------------
(* Logins *)

LoginAt == {"login secret", "delete secret", "delete row", "create clone", "create retry"}
LoginReq(i) == \E r \in Request : At(r, "login secret") /\ req[r].id = i
Deleting(i) == \E r \in Request : At(r, "delete row") /\ req[r].id = i
Halving(i) == \E r \in Request : At(r, "delete secret") /\ req[r].id = i
TempReq == \E r \in Request : HasTemp(r)

\* One login is written at a time, its user name first.
MixParts ==
  /\ \A r, o \in Request : At(r, "login secret") /\ At(o, "login secret") => r = o
  /\ \A r \in Request : At(r, "login secret") => keyring[req[r].id].user \in {req[r].login, NoValue}
  /\ \A i \in RepoId : Configured(i) => keyring[i].user = keyring[i].secret \/ LoginReq(i)
MixInv == marks \cap {"two logins", "torn login", "kept entry"} = {} => MixParts

\* The keyring holds nothing of a row that is gone or about to go, and no user
\* name while a deletion is at the secret, but what a request is writing; nor
\* anything of a clone that is not running.
Left(i) ==
  (rows[i] = NoRow \/ Deleting(i)) /\ keyring[i] # NoLogin => "torn login" \in marks \/ LoginReq(i)
Half(i) == Halving(i) /\ keyring[i].user # NoValue => "torn login" \in marks \/ LoginReq(i)
LeftInv == marks \cap {"late login", "kept entry"} = {} => \A i \in RepoId : Left(i) /\ Half(i)
TempInv == marks \cap {"gave up", "kept entry"} = {} /\ keyring[Temp] # NoLogin => TempReq

\* Where logins are written, deleted, or depended upon.
LEMMA UserLogins ==
  ASSUME NEW r \in Request, UserAsks(r)
  PROVE  \/ \E i \in Managed, l \in Login : StartSetLogin(r, i, l)
         \/ \E i \in Managed, rm \in BOOLEAN : StartDelete(r, i, rm)
         \/ \E i \in 1..used : DeleteLogin(r, i)
         \/ \E url \in Url, l \in Login \cup {NoValue} : StartCreate(r, url, l)
         \/ \E l \in Login : CreateRefused(r, l)
         \/ /\ UNCHANGED keyring
            /\ UNCHANGED req \/ \E q : req[r] = Idle /\ req' = [req EXCEPT ![r] = q] /\ q.at \notin LoginAt
<1> DEFINE Quiet == /\ UNCHANGED keyring
                    /\ UNCHANGED req \/ \E q : req[r] = Idle /\ req' = [req EXCEPT ![r] = q] /\ q.at \notin LoginAt
<1>1. ASSUME NEW op, NEW q, Start(r, op, q), UNCHANGED keyring, q.at \notin LoginAt PROVE Quiet
  BY <1>1 DEF Start
<1>2. ASSUME NEW i, FetchRemote(r, i) PROVE Quiet
  BY <1>2 DEF FetchRemote, host
<1>3. ASSUME NEW d, UpdateMirrorsDir(r, d) PROVE Quiet
  BY <1>3 DEF UpdateMirrorsDir
<1> HIDE DEF Quiet
<1>4. ASSUME NEW i, NEW S, NEW squash, StartPush(r, i, S, squash) PROVE Quiet
  <2> DEFINE at == IF squash /\ Cardinality(S) > 1 THEN "push reset"
                   ELSE IF rows[i].strategy = "feature_branch" THEN "push branch" ELSE "push"
             q(b) == [at |-> at, id |-> i, dir |-> rows[i].dir, selected |-> S, branch |-> b,
                      feature |-> rows[i].strategy = "feature_branch"]
  <2>1. UNCHANGED keyring /\ \E b : Start(r, "push", q(b))
    BY <1>4 DEF StartPush, host
  <2>2. \A b : q(b).at \notin LoginAt   BY DEF LoginAt
  <2> HIDE DEF q
  <2> QED BY <1>1, <2>1, <2>2
<1>5. ASSUME NEW i, StartPull(r, i) PROVE Quiet
  <2> DEFINE q == [at |-> "pull fetch", id |-> i, dir |-> rows[i].dir]
  <2>1. UNCHANGED keyring /\ Start(r, "pull", q)   BY <1>5 DEF StartPull, host
  <2>2. q.at \notin LoginAt   BY DEF LoginAt
  <2> HIDE DEF q
  <2> QED BY <1>1, <2>1, <2>2
<1>6. ASSUME NEW i, StartPushToAgent(r, i) PROVE Quiet
  <2> DEFINE q == [at |-> "agent pull", id |-> i, dir |-> rows[i].dir]
  <2>1. UNCHANGED keyring /\ Start(r, "agent", q)   BY <1>6 DEF StartPushToAgent, host
  <2>2. q.at \notin LoginAt   BY DEF LoginAt
  <2> HIDE DEF q
  <2> QED BY <1>1, <2>1, <2>2
<1>7. ASSUME NEW i, NEW change, StartUpdate(r, i, change) PROVE Quiet
  <2> DEFINE q == [at |-> "update write", id |-> i, row |-> change]
  <2>1. UNCHANGED keyring /\ Start(r, "update", q)   BY <1>7 DEF StartUpdate, host
  <2>2. q.at \notin LoginAt   BY DEF LoginAt
  <2> HIDE DEF q
  <2> QED BY <1>1, <2>1, <2>2
<1>8. ASSUME NEW url, StartEnable(r, url) PROVE Quiet
  <2> DEFINE q(own) == [at |-> "enable clone", dir |-> mirrorsDir, url |-> url, own |-> own]
  <2>1. UNCHANGED keyring /\ \E own \in BOOLEAN : Start(r, "enable", q(own))
    BY <1>8 DEF StartEnable, StartEnabling, host
  <2>2. \A own : q(own).at \notin LoginAt   BY DEF LoginAt
  <2> HIDE DEF q
  <2> QED BY <1>1, <2>1, <2>2
<1>9. \/ \E i \in Managed, l \in Login : StartSetLogin(r, i, l)
      \/ \E i \in Managed, rm \in BOOLEAN : StartDelete(r, i, rm)
      \/ \E i \in 1..used : DeleteLogin(r, i)
      \/ \E url \in Url, l \in Login \cup {NoValue} : StartCreate(r, url, l)
      \/ \E l \in Login : CreateRefused(r, l)
      \/ Quiet
  BY <1>2, <1>3, <1>4, <1>5, <1>6, <1>7, <1>8 DEF UserAsks
<1> QED BY <1>9 DEF Quiet

\* The steps of a request that write or delete a login.
LoginStep(r) ==
  \/ SetSecret(r) \/ ForgetSecret(r) \/ DeleteSecret(r) \/ DeleteRow(r)
  \/ CreateClone(r) \/ CreateRetry(r) \/ CreateRow(r)

LEMMA RequestLogins ==
  ASSUME NEW r \in Request, RequestSteps(r)
  PROVE  LoginStep(r) \/ (UNCHANGED keyring /\ req[r].at \notin LoginAt)
<1>1. ASSUME \/ PullFetch(r) \/ PullFastForward(r) \/ PullMerge(r) \/ PullIntoWorkspace(r)
             \/ PushReset(r) \/ PushCommit(r) \/ PushBranch(r) \/ Push(r)
      PROVE  UNCHANGED keyring /\ req[r].at \notin LoginAt
  BY <1>1
  DEF PullFetch, PullFastForward, PullMerge, PullIntoWorkspace, PushReset, PushCommit, PushBranch, Push,
      At, LoginAt, host
<1>2. ASSUME \/ EnableClone(r) \/ EnableSetUrl(r) \/ EnableLink(r) \/ EnableStrip(r) \/ EnableRow(r)
             \/ CreateWorkspace(r) \/ DeleteMirror(r) \/ UpdateWrite(r)
      PROVE  UNCHANGED keyring /\ req[r].at \notin LoginAt
  BY <1>2
  DEF EnableClone, EnableSetUrl, EnableLink, EnableStrip, EnableRow, CreateWorkspace, DeleteMirror,
      UpdateWrite, At, LoginAt, host
<1> QED BY <1>1, <1>2 DEF RequestSteps, LoginStep

LEMMA NextLogins ==
  ASSUME TypeOK, [Next]_vars
  PROVE  \/ \E r \in Request : LoginStep(r)
         \/ \E r \in Request : \E i \in Managed, l \in Login : StartSetLogin(r, i, l)
         \/ \E r \in Request : \E i \in Managed, rm \in BOOLEAN : StartDelete(r, i, rm)
         \/ \E r \in Request : \E i \in 1..used : DeleteLogin(r, i)
         \/ \E r \in Request : \E url \in Url, l \in Login \cup {NoValue} : StartCreate(r, url, l)
         \/ \E r \in Request : \E l \in Login : CreateRefused(r, l)
         \/ Exit
         \/ /\ UNCHANGED keyring
            /\ \A x \in Request : req'[x] = req[x] \/ (req[x].at \notin LoginAt /\ req'[x].at \notin LoginAt)
<1> DEFINE Quiet == /\ UNCHANGED keyring
                    /\ \A x \in Request : req'[x] = req[x] \/ (req[x].at \notin LoginAt /\ req'[x].at \notin LoginAt)
<1>0. req \in [Request -> Requests] /\ Idle.at = "idle"
  BY DEF TypeOK, TasksTyped, Idle
<1>1. ASSUME NEW r \in Request, NEW q, req' = [req EXCEPT ![r] = q], UNCHANGED keyring,
             req[r].at \notin LoginAt, q.at \notin LoginAt
      PROVE  Quiet
  BY <1>0, <1>1
<1>2. ASSUME UNCHANGED <<keyring, req>> PROVE Quiet
  BY <1>2
<1>3. Idle.at \notin LoginAt
  BY <1>0 DEF LoginAt
<1> HIDE DEF Quiet
<1>4. ASSUME NEW r \in Request, RequestSteps(r)
      PROVE  LoginStep(r) \/ Quiet
  <2>1. PICK q : /\ req' = [req EXCEPT ![r] = q]
                 /\ q = Idle \/ <<req[r].at, q.at>> \in Moves
    BY <1>4, RequestMovesOn DEF MovesOn
  <2>2. req[r].at \notin LoginAt => q.at \notin LoginAt
    BY <1>3, <2>1 DEF Moves, LoginAt
  <2> QED BY <1>1, <1>4, <2>1, <2>2, RequestLogins
<1>5. ASSUME NEW r \in Request, UserAsks(r)
      PROVE  \/ \E i \in Managed, l \in Login : StartSetLogin(r, i, l)
             \/ \E i \in Managed, rm \in BOOLEAN : StartDelete(r, i, rm)
             \/ \E i \in 1..used : DeleteLogin(r, i)
             \/ \E url \in Url, l \in Login \cup {NoValue} : StartCreate(r, url, l)
             \/ \E l \in Login : CreateRefused(r, l)
             \/ Quiet
  BY <1>1, <1>2, <1>3, <1>5, UserLogins
<1>6. ASSUME \/ Checker \/ AgentEdits \/ AgentCommits
             \/ \E p \in late : LatePush(p)
             \/ \E b \in Branch : OthersPush(b)
             \/ \E d \in Dir : ResolveMirror(d)
             \/ \E d, e \in Dir : MoveMirror(d, e)
             \/ UNCHANGED vars
      PROVE  Quiet
  BY <1>2, <1>6
  DEF Checker, StartCheck, CheckWorkspace, CheckCount, CheckRemote, CheckBehind, CheckStore, LatePush,
      AgentEdits, AgentCommits, OthersPush, ResolveMirror, MoveMirror, vars, host
<1>7. \/ \E r \in Request : LoginStep(r)
      \/ \E r \in Request : \E i \in Managed, l \in Login : StartSetLogin(r, i, l)
      \/ \E r \in Request : \E i \in Managed, rm \in BOOLEAN : StartDelete(r, i, rm)
      \/ \E r \in Request : \E i \in 1..used : DeleteLogin(r, i)
      \/ \E r \in Request : \E url \in Url, l \in Login \cup {NoValue} : StartCreate(r, url, l)
      \/ \E r \in Request : \E l \in Login : CreateRefused(r, l)
      \/ Exit \/ Quiet
  BY <1>4, <1>5, <1>6 DEF Next
<1> QED BY <1>7 DEF Quiet

\* A row disappears in one step only.
LEMMA NextRowsKept ==
  ASSUME TypeOK, [Next]_vars, NEW i \in RepoId, rows'[i] = NoRow
  PROVE  rows[i] = NoRow \/ \E r \in Request : DeleteRow(r) /\ req[r].id = i
<1>0. HostTyped /\ TasksTyped
  BY DEF TypeOK
<1>1. ASSUME UNCHANGED rows PROVE rows[i] = NoRow
  BY <1>1
<1>2. ASSUME NEW r \in Request, DeleteRow(r), req[r].id # i PROVE rows[i] = NoRow
  BY <1>0, <1>2 DEF DeleteRow, HostTyped
<1>3. ASSUME NEW r \in Request, UpdateWrite(r) PROVE rows[i] = NoRow
  <2>1. req[r].row \in Row /\ req[r].id \in RepoId
    <3>1. req[r] \in Requests /\ req[r].at = "update write"
      BY <1>0, <1>3 DEF UpdateWrite, At, TasksTyped
    <3> QED BY <3>1, RequestKinds DEF UpdateRequests
  <2>2. rows[req[r].id] # NoRow => [req[r].row EXCEPT !.dir = rows[req[r].id].dir] \in Row
    BY <1>0, <2>1 DEF HostTyped, Row
  <2> QED BY <1>0, <1>3, <2>1, <2>2, NoRowAssumption DEF UpdateWrite, HostTyped
<1>4. ASSUME NEW r \in Request, EnableRow(r) \/ CreateRow(r) PROVE rows[i] = NoRow
  <2>1. \/ UNCHANGED rows
        \/ Managed = {}
    BY <1>4 DEF EnableRow, CreateRow, InsertRow
  <2> QED BY <1>1, <2>1 DEF Managed
<1>5. ASSUME NEW r \in Request, RequestSteps(r), ~DeleteRow(r), ~UpdateWrite(r), ~EnableRow(r), ~CreateRow(r)
      PROVE  UNCHANGED rows
  BY <1>5
  DEF RequestSteps, PullFetch, PullFastForward, PullMerge, PushReset, PushCommit, PushBranch, Push,
      PullIntoWorkspace, EnableClone, EnableSetUrl, EnableLink, EnableStrip,
      CreateClone, CreateRetry, Clone, ForgetTemp, GiveUp, CreateWorkspace, DeleteMirror,
      SetSecret, ForgetSecret, DeleteSecret, host
<1>6. ASSUME NEW r \in Request, NEW d \in Dir, UpdateMirrorsDir(r, d) PROVE rows[i] = NoRow
  <2>1. rows[i] # NoRow => [rows[i] EXCEPT !.dir = d] \in Row
    BY <1>0 DEF HostTyped, Row
  <2> QED BY <1>6, <2>1, NoRowAssumption DEF UpdateMirrorsDir
<1>7. ASSUME NEW r \in Request, UserAsks(r), ~(\E d \in Dir : UpdateMirrorsDir(r, d)) PROVE UNCHANGED rows
  <2>1. ASSUME NEW j, StartPull(r, j) \/ FetchRemote(r, j) \/ StartPushToAgent(r, j)
        PROVE  UNCHANGED rows
    BY <2>1 DEF StartPull, FetchRemote, StartPushToAgent, host
  <2>2. ASSUME NEW j, NEW S, NEW squash, StartPush(r, j, S, squash) PROVE UNCHANGED rows
    BY <2>2 DEF StartPush, host
  <2>3. ASSUME NEW j, NEW rm, StartDelete(r, j, rm) PROVE UNCHANGED rows
    BY <2>3 DEF StartDelete
  <2>4. ASSUME NEW j, NEW l, StartSetLogin(r, j, l) \/ StartUpdate(r, j, l) \/ DeleteLogin(r, j)
        PROVE  UNCHANGED rows
    BY <2>4 DEF StartSetLogin, StartUpdate, DeleteLogin, host
  <2>5. ASSUME NEW url, NEW l, StartEnable(r, url) \/ StartCreate(r, url, l) PROVE UNCHANGED rows
    BY <2>5 DEF StartEnable, StartCreate, host
  <2>6. ASSUME NEW l, CreateRefused(r, l) PROVE UNCHANGED rows
    BY <2>6 DEF CreateRefused
  <2> QED BY <1>7, <2>1, <2>2, <2>3, <2>4, <2>5, <2>6 DEF UserAsks
<1>8. CASE \/ Checker \/ AgentEdits \/ AgentCommits \/ Exit
           \/ \E p \in late : LatePush(p)
           \/ \E b \in Branch : OthersPush(b)
           \/ \E d \in Dir : ResolveMirror(d)
           \/ \E d, e \in Dir : MoveMirror(d, e)
           \/ UNCHANGED vars
  BY <1>1, <1>8
  DEF Checker, StartCheck, CheckWorkspace, CheckCount, CheckRemote, CheckBehind, CheckStore, LatePush,
      AgentEdits, AgentCommits, OthersPush, ResolveMirror, MoveMirror, Exit, vars, host
<1> QED BY <1>1, <1>2, <1>3, <1>4, <1>5, <1>6, <1>7, <1>8 DEF Next

\* All that is known of the keyring.
LoginInv == MixInv /\ LeftInv /\ TempInv

\* One of the requests changes, and is not writing a login before or after it.
LEMMA SameLoginReqs ==
  ASSUME NEW r \in Request, req[r].at # "login secret", req'[r].at # "login secret",
         \A o \in Request : o # r => req'[o] = req[o]
  PROVE  /\ \A o \in Request : At(o, "login secret")' <=> At(o, "login secret")
         /\ \A o \in Request : At(o, "login secret") => req'[o] = req[o]
         /\ \A i \in RepoId : LoginReq(i)' <=> LoginReq(i)
<1>1. /\ \A o \in Request : At(o, "login secret")' <=> At(o, "login secret")
      /\ \A o \in Request : At(o, "login secret") => req'[o] = req[o]
  BY DEF At
<1> QED BY <1>1 DEF LoginReq

\* A step leaves of the login at i what there was, or less.
Fewer(i) == /\ keyring'[i].user \in {keyring[i].user, NoValue}
            /\ keyring'[i].secret \in {keyring[i].secret, NoValue}

\* A refused deletion is remembered, and excuses whatever it leaves.
LEMMA KeptEntry ==
  ASSUME "kept entry" \in marks'
  PROVE  LoginInv'
BY DEF LoginInv, MixInv, LeftInv, TempInv

\* The login requests stay, and no entry grows but one whose login is whole.
LEMMA MixStays ==
  ASSUME TypeOK, MixInv, marks \subseteq marks', NEW k,
         \A o \in Request : At(o, "login secret")' <=> At(o, "login secret"),
         \A o \in Request : At(o, "login secret") => req'[o] = req[o],
         \A i \in RepoId : LoginReq(i)' <=> LoginReq(i),
         \A i \in RepoId : i # k => Fewer(i),
         k \in RepoId => Fewer(k) \/ ((Configured(k)' => keyring'[k].user = keyring'[k].secret)
                                       /\ ~LoginReq(k))
  PROVE  MixInv'
<1>1. SUFFICES ASSUME marks \cap {"two logins", "torn login", "kept entry"} = {}
               PROVE  MixParts'
  BY DEF MixInv
<1>2. MixParts
  BY <1>1 DEF MixInv
<1>3. \A r, o \in Request : At(r, "login secret")' /\ At(o, "login secret")' => r = o
  BY <1>2 DEF MixParts
<1>4. \A i \in RepoId : Fewer(i) \/ (i = k /\ ~LoginReq(k)
                                  /\ (Configured(k)' => keyring'[k].user = keyring'[k].secret))
  OBVIOUS
<1>5. ASSUME NEW r \in Request, At(r, "login secret")'
      PROVE  keyring'[req'[r].id].user \in {req'[r].login, NoValue}
  <2>1. At(r, "login secret") /\ req'[r] = req[r]
    BY <1>5
  <2>2. req[r].id \in RepoId
    <3>1. req[r] \in Requests
      BY DEF TypeOK, TasksTyped
    <3> QED BY <2>1, <3>1, RequestKinds DEF At, LoginRequests
  <2>3. LoginReq(req[r].id)
    BY <2>1 DEF LoginReq
  <2>4. Fewer(req[r].id)
    BY <1>4, <2>2, <2>3
  <2> QED BY <1>2, <2>1, <2>4 DEF MixParts, Fewer
<1>6. ASSUME NEW i \in RepoId, Configured(i)'
      PROVE  keyring'[i].user = keyring'[i].secret \/ LoginReq(i)'
  <2>1. CASE Fewer(i)
    BY <1>2, <1>6, <2>1 DEF MixParts, Configured, Fewer
  <2> QED BY <1>4, <1>6, <2>1
<1> QED BY <1>3, <1>5, <1>6 DEF MixParts

\* Of the entries: only the one at k changes, to none, or for a row that stays.
LEMMA LeftStays ==
  ASSUME LeftInv, marks \subseteq marks', NEW k,
         \A i \in RepoId : i # k => keyring'[i] = keyring[i],
         \A i \in RepoId : i # k /\ LoginReq(i) => LoginReq(i)' \/ "torn login" \in marks',
         \A i \in RepoId : i # k /\ (rows'[i] = NoRow \/ Deleting(i)') => rows[i] = NoRow \/ Deleting(i),
         \A i \in RepoId : i # k /\ Halving(i)' => Halving(i),
         k \in RepoId /\ marks' \cap {"late login", "kept entry"} = {} => Left(k)' /\ Half(k)'
  PROVE  LeftInv'
<1>1. SUFFICES ASSUME marks' \cap {"late login", "kept entry"} = {}, NEW i \in RepoId
               PROVE  Left(i)' /\ Half(i)'
  BY DEF LeftInv
<1>2. Left(i) /\ Half(i)
  BY <1>1 DEF LeftInv
<1>3. CASE i = k
  BY <1>1, <1>3
<1>4. CASE i # k
  BY <1>1, <1>2, <1>4 DEF Left, Half
<1> QED BY <1>3, <1>4

LEMMA TempStays ==
  ASSUME TempInv, marks \subseteq marks', keyring'[Temp] = keyring[Temp], TempReq => TempReq' \/ "gave up" \in marks'
  PROVE  TempInv'
BY DEF TempInv

LEMMA LoginIds ==
  ASSUME TypeOK, NEW r \in Request
  PROVE  /\ At(r, "login secret") => req[r] \in LoginRequests /\ req[r].id \in RepoId
         /\ At(r, "delete row") \/ At(r, "delete secret") => req[r] \in DeleteRequests /\ req[r].id \in RepoId
         /\ At(r, "forget secret") => req[r].id \in RepoId
<1>1. req[r] \in Requests
  BY DEF TypeOK, TasksTyped
<1> QED BY <1>1, RequestKinds DEF At, LoginRequests, DeleteRequests, ForgetRequests, DeleteAt

LEMMA SetLoginKept ==
  ASSUME TypeOK, LoginInv, [Next]_vars, NEW r \in Request, NEW i \in Managed, NEW l \in Login,
         StartSetLogin(r, i, l)
  PROVE  LoginInv'
<1> DEFINE q == [at |-> "login secret", id |-> i, login |-> l]
<1>0. /\ keyring \in [RepoId \cup {Temp} -> LoginEntry] /\ req \in [Request -> Requests]
      /\ Idle.at = "idle" /\ marks \subseteq marks' /\ i \in RepoId
  BY NextMarks DEF TypeOK, HostTyped, TasksTyped, LoginEntry, Idle, Managed
<1>1. /\ req[r] = Idle /\ req' = [req EXCEPT ![r] = q]
      /\ keyring' = [keyring EXCEPT ![i].user = l] /\ UNCHANGED rows
      /\ "two logins" \notin marks' => \A o \in Request : ~At(o, "login secret")
  BY DEF StartSetLogin, Start
<1>2. q.at = "login secret" /\ q.id = i /\ q.login = l
  OBVIOUS
<1> HIDE DEF q
<1>3. req'[r] = q /\ \A o \in Request : o # r => req'[o] = req[o]
  BY <1>0, <1>1
<1>4. keyring'[i].user = l /\ \A k \in RepoId \cup {Temp} : k # i => keyring'[k] = keyring[k]
  BY <1>0, <1>1 DEF LoginEntry
<1>5. LoginReq(i)'
  BY <1>2, <1>3 DEF LoginReq, At
<1>6. /\ \A k : LoginReq(k) => LoginReq(k)'
      /\ \A k : Deleting(k)' => Deleting(k)
      /\ \A k : Halving(k)' => Halving(k)
      /\ TempReq => TempReq'
  BY <1>0, <1>1, <1>2, <1>3 DEF LoginReq, Deleting, Halving, TempReq, HasTemp, At
<1>7. MixInv'
  <2>1. SUFFICES ASSUME marks' \cap {"two logins", "torn login", "kept entry"} = {}
                 PROVE  MixParts'
    BY DEF MixInv
  <2>2. MixParts /\ \A o \in Request : ~At(o, "login secret")
    BY <1>0, <1>1, <2>1 DEF LoginInv, MixInv
  <2>3. \A o \in Request : At(o, "login secret")' => o = r
    BY <1>3, <2>2 DEF At
  <2>4. keyring'[req'[r].id].user \in {req'[r].login, NoValue}
    BY <1>2, <1>3, <1>4
  <2>5. ASSUME NEW k \in RepoId, Configured(k)'
        PROVE  keyring'[k].user = keyring'[k].secret \/ LoginReq(k)'
    BY <1>4, <1>5, <1>6, <2>2, <2>5 DEF MixParts, Configured
  <2> QED BY <2>3, <2>4, <2>5 DEF MixParts
<1>8. LeftInv'
  <2>1. Left(i)' /\ Half(i)'
    BY <1>5 DEF Left, Half
  <2> QED BY <1>0, <1>1, <1>4, <1>6, <2>1, LeftStays DEF LoginInv
<1>9. TempInv'
  BY <1>0, <1>4, <1>6, TempAssumption, TempStays DEF LoginInv
<1> QED BY <1>7, <1>8, <1>9 DEF LoginInv

LEMMA SetSecretKept ==
  ASSUME TypeOK, LoginInv, [Next]_vars, NEW r \in Request, SetSecret(r)
  PROVE  LoginInv'
<1>0. /\ keyring \in [RepoId \cup {Temp} -> LoginEntry] /\ req \in [Request -> Requests]
      /\ Idle.at = "idle" /\ marks \subseteq marks'
  BY NextMarks DEF TypeOK, HostTyped, TasksTyped, LoginEntry, Idle
<1>1. PICK i \in RepoId, l \in Login : i = req[r].id /\ l = req[r].login /\ At(r, "login secret")
  <2>1. At(r, "login secret")
    BY DEF SetSecret
  <2> QED BY <2>1, LoginIds DEF LoginRequests
<1>a. SUFFICES ASSUME "kept entry" \notin marks' PROVE LoginInv'
  BY KeptEntry
<1>2. /\ \/ keyring' = [keyring EXCEPT ![i].secret = l]
         \/ keyring' = [keyring EXCEPT ![i].user = NoValue]
      /\ req' = [req EXCEPT ![r] = Idle] /\ UNCHANGED rows
      /\ "late login" \notin marks' =>
           rows[i] # NoRow /\ \A o \in Request : ~At(o, "delete row") /\ ~At(o, "delete secret")
  BY <1>1, <1>a DEF SetSecret, Finish, TooLate
<1>3. req'[r] = Idle /\ \A o \in Request : o # r => req'[o] = req[o]
  BY <1>0, <1>2
<1>4. /\ \A k \in RepoId \cup {Temp} : k # i => keyring'[k] = keyring[k]
      /\ (keyring'[i].secret = l /\ keyring'[i].user = keyring[i].user) \/ keyring'[i].user = NoValue
  BY <1>0, <1>2 DEF LoginEntry
<1>5. /\ \A k : k # i /\ LoginReq(k) => LoginReq(k)'
      /\ \A k : (Deleting(k)' => Deleting(k)) /\ (Halving(k)' => Halving(k))
      /\ TempReq => TempReq'
  BY <1>0, <1>1, <1>3 DEF LoginReq, Deleting, Halving, TempReq, HasTemp, At
<1>6. MixInv'
  <2>1. SUFFICES ASSUME marks' \cap {"two logins", "torn login", "kept entry"} = {}
                 PROVE  MixParts'
    BY DEF MixInv
  <2>2. MixParts
    BY <1>0, <2>1 DEF LoginInv, MixInv
  <2>3. \A o \in Request : ~At(o, "login secret")'
    BY <1>0, <1>1, <1>3, <2>2 DEF MixParts, At
  <2>4. keyring[i].user \in {l, NoValue}
    BY <1>1, <2>2 DEF MixParts
  <2>5. ASSUME NEW k \in RepoId, Configured(k)'
        PROVE  keyring'[k].user = keyring'[k].secret
    <3>1. CASE k = i
      BY <1>4, <2>4, <2>5, <3>1 DEF Configured
    <3>2. CASE k # i
      <4>1. ~LoginReq(k)
        BY <1>1, <2>2, <3>2 DEF MixParts, LoginReq
      <4> QED BY <1>4, <2>2, <2>5, <3>2, <4>1 DEF MixParts, Configured
    <3> QED BY <3>1, <3>2
  <2> QED BY <2>3, <2>5 DEF MixParts
<1>7. LeftInv'
  <2>1. "late login" \notin marks' => Left(i)' /\ Half(i)'
    <3>1. \A k : (Deleting(k)' => Deleting(k)) /\ (Halving(k)' => Halving(k))
      BY <1>5
    <3>2. "late login" \notin marks' => ~Deleting(i) /\ ~Halving(i)
      BY <1>2 DEF Deleting, Halving
    <3> QED BY <1>2, <3>1, <3>2 DEF Left, Half
  <2> QED BY <1>0, <1>2, <1>4, <1>5, <2>1, LeftStays DEF LoginInv
<1>8. TempInv'
  BY <1>0, <1>4, <1>5, TempAssumption, TempStays DEF LoginInv
<1> QED BY <1>6, <1>7, <1>8 DEF LoginInv

\* One of the entries of i is deleted, or neither, by a request that writes none.
LEMMA ForgetKept ==
  ASSUME TypeOK, LoginInv, marks \subseteq marks', NEW r \in Request, NEW i \in RepoId,
         \/ keyring' = [keyring EXCEPT ![i].user = NoValue]
         \/ keyring' = [keyring EXCEPT ![i].secret = NoValue]
         \/ UNCHANGED keyring,
         UNCHANGED rows, \A o \in Request : o # r => req'[o] = req[o],
         ~HasTemp(r), req[r].at # "login secret", req'[r].at # "login secret",
         req'[r].at = "delete secret" => req'[r].id = i /\ keyring'[i].user = NoValue,
         req'[r].at = "delete row" => /\ At(r, "delete secret") /\ req[r].id = i
                                      /\ req'[r].id = i /\ keyring'[i].secret = NoValue
  PROVE  LoginInv'
<1>0. keyring \in [RepoId \cup {Temp} -> LoginEntry] /\ NoLogin.user = NoValue /\ NoLogin.secret = NoValue
  BY DEF TypeOK, HostTyped, LoginEntry, NoLogin
<1>1. /\ \A k \in RepoId \cup {Temp} : k # i => keyring'[k] = keyring[k]
      /\ Fewer(i)
      /\ keyring'[i] # NoLogin => keyring[i] # NoLogin
      /\ keyring'[i] # NoLogin => keyring'[i].user # NoValue \/ keyring'[i].secret # NoValue
  <2>1. i \in RepoId \cup {Temp} /\ keyring[i] \in LoginEntry
    BY <1>0
  <2>2. \/ keyring'[i] = [keyring[i] EXCEPT !.user = NoValue]
        \/ keyring'[i] = [keyring[i] EXCEPT !.secret = NoValue]
        \/ keyring'[i] = keyring[i]
    BY <1>0, <2>1
  <2> QED BY <1>0, <2>1, <2>2 DEF Fewer, LoginEntry, NoLogin
<1>2. /\ \A o \in Request : At(o, "login secret")' <=> At(o, "login secret")
      /\ \A o \in Request : At(o, "login secret") => req'[o] = req[o]
      /\ \A k \in RepoId : LoginReq(k)' <=> LoginReq(k)
  BY SameLoginReqs
<1>3. MixInv'
  <2>1. \A k \in RepoId : k # i => Fewer(k)
    BY <1>1 DEF Fewer
  <2> QED BY <1>1, <1>2, <2>1, MixStays DEF LoginInv
<1>4. \A k \in RepoId : /\ k # i /\ Deleting(k)' => Deleting(k)
                        /\ k # i /\ Halving(k)' => Halving(k)
  BY DEF Deleting, Halving, At
<1>5. ASSUME marks' \cap {"late login", "kept entry"} = {} PROVE Left(i)' /\ Half(i)'
  <2>1. Left(i) /\ Half(i)
    BY <1>5 DEF LoginInv, LeftInv
  <2>2. Half(i)'
    <3>1. CASE keyring'[i].user = NoValue
      BY <3>1 DEF Half
    <3>2. CASE keyring'[i].user # NoValue
      <4>1. Halving(i)' => Halving(i)
        BY <3>2 DEF Halving, At
      <4>2. keyring[i].user # NoValue
        BY <1>1, <3>2 DEF Fewer
      <4> QED BY <1>2, <2>1, <4>1, <4>2 DEF Half
    <3> QED BY <3>1, <3>2
  <2>3. ASSUME rows'[i] = NoRow \/ Deleting(i)', keyring'[i] # NoLogin
        PROVE  "torn login" \in marks' \/ LoginReq(i)'
    <3>1. CASE rows[i] = NoRow \/ Deleting(i)
      BY <1>1, <1>2, <2>1, <2>3, <3>1 DEF Left
    <3>2. CASE ~(rows[i] = NoRow \/ Deleting(i))
      <4>1. req'[r].at = "delete row"
        BY <2>3, <3>2 DEF Deleting, At
      <4>2. Halving(i) /\ keyring'[i].user # NoValue
        BY <1>1, <2>3, <4>1 DEF Halving
      <4>3. keyring[i].user # NoValue
        BY <1>1, <4>2 DEF Fewer
      <4> QED BY <1>2, <2>1, <4>2, <4>3 DEF Half
    <3> QED BY <3>1, <3>2
  <2> QED BY <2>2, <2>3 DEF Left
<1>6. LeftInv'
  BY <1>1, <1>2, <1>4, <1>5, LeftStays DEF LoginInv
<1>7. TempInv'
  <2>1. TempReq => TempReq'
    BY DEF TempReq, HasTemp, At
  <2> QED BY <1>1, <2>1, TempAssumption, TempStays DEF LoginInv
<1> QED BY <1>3, <1>6, <1>7 DEF LoginInv

LEMMA StartDeleteKept ==
  ASSUME TypeOK, LoginInv, [Next]_vars, NEW r \in Request, NEW i \in Managed, NEW rm, StartDelete(r, i, rm)
  PROVE  LoginInv'
<1> DEFINE q(at) == [at |-> at, id |-> i, dir |-> rows[i].dir, rm |-> rm]
<1>0. /\ req \in [Request -> Requests] /\ Idle.at = "idle" /\ marks \subseteq marks' /\ i \in RepoId
      /\ keyring \in [RepoId \cup {Temp} -> LoginEntry]
  BY NextMarks DEF TypeOK, HostTyped, TasksTyped, LoginEntry, Idle, Managed
<1>1. PICK refused \in BOOLEAN :
        /\ Start(r, "delete", q(IF refused THEN "delete row" ELSE "delete secret"))
        /\ keyring' = IF refused THEN keyring ELSE [keyring EXCEPT ![i].user = NoValue]
        /\ marks' = IF refused THEN marks \cup {"kept entry"} ELSE marks
  BY DEF StartDelete
<1>2. CASE refused
  <2>1. "kept entry" \in marks'
    BY <1>1, <1>2
  <2> QED BY <2>1, KeptEntry
<1>3. CASE ~refused
  <2>1. /\ req[r] = Idle /\ req' = [req EXCEPT ![r] = q("delete secret")]
        /\ keyring' = [keyring EXCEPT ![i].user = NoValue]
    BY <1>1, <1>3 DEF Start
  <2>2. q("delete secret").at = "delete secret" /\ q("delete secret").id = i
    OBVIOUS
  <2> HIDE DEF q
  <2>3. req'[r] = q("delete secret") /\ \A o \in Request : o # r => req'[o] = req[o]
    BY <1>0, <2>1
  <2>4. keyring'[i].user = NoValue
    BY <1>0, <2>1 DEF LoginEntry
  <2>5. UNCHANGED rows
    BY DEF StartDelete
  <2>6. ~HasTemp(r)
    BY <1>0, <2>1 DEF HasTemp, At
  <2> QED BY <1>0, <2>1, <2>2, <2>3, <2>4, <2>5, <2>6, ForgetKept
<1> QED BY <1>2, <1>3

LEMMA DeleteLoginKept ==
  ASSUME TypeOK, LoginInv, [Next]_vars, NEW r \in Request, NEW i \in RepoId, DeleteLogin(r, i)
  PROVE  LoginInv'
<1> DEFINE q == [at |-> "forget secret", id |-> i]
<1>0. req \in [Request -> Requests] /\ Idle.at = "idle" /\ marks \subseteq marks'
  BY NextMarks DEF TypeOK, TasksTyped, Idle
<1>1. /\ req[r] = Idle /\ req' = [req EXCEPT ![r] = q] /\ UNCHANGED rows
      /\ keyring' = [keyring EXCEPT ![i].user = NoValue]
  BY DEF DeleteLogin, Start
<1>2. q.at = "forget secret"
  OBVIOUS
<1> HIDE DEF q
<1>3. req'[r] = q /\ \A o \in Request : o # r => req'[o] = req[o]
  BY <1>0, <1>1
<1>4. ~HasTemp(r)
  BY <1>0, <1>1 DEF HasTemp, At
<1> QED BY <1>0, <1>1, <1>2, <1>3, <1>4, ForgetKept

LEMMA ForgetSecretKept ==
  ASSUME TypeOK, LoginInv, [Next]_vars, NEW r \in Request, ForgetSecret(r)
  PROVE  LoginInv'
<1>0. req \in [Request -> Requests] /\ Idle.at = "idle" /\ marks \subseteq marks'
  BY NextMarks DEF TypeOK, TasksTyped, Idle
<1>1. PICK i \in RepoId : i = req[r].id
  BY LoginIds DEF ForgetSecret
<1>2. /\ req[r].at = "forget secret" /\ req' = [req EXCEPT ![r] = Idle] /\ UNCHANGED rows
      /\ keyring' = [keyring EXCEPT ![i].secret = NoValue] \/ UNCHANGED keyring
  BY <1>1 DEF ForgetSecret, At, Finish
<1>3. req'[r] = Idle /\ \A o \in Request : o # r => req'[o] = req[o]
  BY <1>0, <1>2
<1>4. ~HasTemp(r)
  BY <1>2 DEF HasTemp, At
<1> QED BY <1>0, <1>2, <1>3, <1>4, ForgetKept

LEMMA DeleteSecretKept ==
  ASSUME TypeOK, LoginInv, [Next]_vars, NEW r \in Request, DeleteSecret(r)
  PROVE  LoginInv'
<1>0. /\ req \in [Request -> Requests] /\ marks \subseteq marks'
      /\ keyring \in [RepoId \cup {Temp} -> LoginEntry]
  BY NextMarks DEF TypeOK, HostTyped, TasksTyped, LoginEntry
<1>1. SUFFICES ASSUME "kept entry" \notin marks' PROVE LoginInv'
  BY KeptEntry
<1>2. PICK i \in RepoId : i = req[r].id /\ req[r] \in DeleteRequests
  BY LoginIds DEF DeleteSecret
<1>3. /\ At(r, "delete secret") /\ req' = [req EXCEPT ![r].at = "delete row"] /\ UNCHANGED rows
      /\ keyring' = [keyring EXCEPT ![i].secret = NoValue]
  BY <1>1, <1>2 DEF DeleteSecret, GoTo
<1>4. /\ req'[r].at = "delete row" /\ req'[r].id = i
      /\ \A o \in Request : o # r => req'[o] = req[o]
  BY <1>0, <1>2, <1>3 DEF DeleteRequests
<1>5. keyring'[i].secret = NoValue
  BY <1>0, <1>3 DEF LoginEntry
<1>6. ~HasTemp(r) /\ req[r].at # "login secret"
  BY <1>3 DEF HasTemp, At
<1> QED BY <1>0, <1>2, <1>3, <1>4, <1>5, <1>6, ForgetKept

LEMMA CreateKept ==
  ASSUME TypeOK, LoginInv, [Next]_vars, NEW r \in Request, NEW url \in Url, NEW l \in Login \cup {NoValue},
         StartCreate(r, url, l)
  PROVE  LoginInv'
<1> DEFINE q == [at |-> "create clone", dir |-> mirrorsDir, url |-> url, login |-> l]
<1>0. /\ keyring \in [RepoId \cup {Temp} -> LoginEntry] /\ req \in [Request -> Requests]
      /\ Idle.at = "idle" /\ marks \subseteq marks'
  BY NextMarks DEF TypeOK, HostTyped, TasksTyped, LoginEntry, Idle
<1>1. /\ req[r] = Idle /\ req' = [req EXCEPT ![r] = q] /\ UNCHANGED rows
      /\ keyring' = IF l = NoValue THEN keyring ELSE [keyring EXCEPT ![Temp] = [user |-> l, secret |-> l]]
  BY DEF StartCreate, StartEnabling, Start
<1>2. q.at = "create clone" /\ q.login = l
  OBVIOUS
<1> HIDE DEF q
<1>3. req'[r] = q /\ \A o \in Request : o # r => req'[o] = req[o]
  BY <1>0, <1>1
<1>4. /\ \A k \in RepoId : keyring'[k] = keyring[k]
      /\ l = NoValue => keyring'[Temp] = keyring[Temp]
  BY <1>0, <1>1, TempAssumption
<1>5. req[r].at # "login secret" /\ req'[r].at # "login secret"
  BY <1>0, <1>1, <1>2, <1>3
<1>6. MixInv'
  <2>1. \A k \in RepoId : Fewer(k)
    BY <1>4 DEF Fewer
  <2> QED BY <1>0, <1>3, <1>5, <2>1, TempAssumption, SameLoginReqs, MixStays DEF LoginInv
<1>7. \A k \in RepoId : /\ LoginReq(k) => LoginReq(k)'
                        /\ Deleting(k)' => Deleting(k)
                        /\ Halving(k)' => Halving(k)
  BY <1>0, <1>1, <1>2, <1>3, <1>5, SameLoginReqs DEF Deleting, Halving, At
<1>8. LeftInv'
  BY <1>0, <1>1, <1>4, <1>7, TempAssumption, LeftStays DEF LoginInv
<1>9. TempInv'
  <2>1. TempReq => TempReq'
    BY <1>0, <1>1, <1>3 DEF TempReq, HasTemp, At
  <2>2. l # NoValue => TempReq'
    BY <1>2, <1>3 DEF TempReq, HasTemp, At
  <2> QED BY <1>0, <1>4, <2>1, <2>2, TempStays DEF LoginInv, TempInv
<1> QED BY <1>6, <1>8, <1>9 DEF LoginInv

LEMMA CloneKept ==
  ASSUME TypeOK, LoginInv, [Next]_vars, NEW r \in Request, CreateClone(r) \/ CreateRetry(r)
  PROVE  LoginInv'
<1>0. /\ keyring \in [RepoId \cup {Temp} -> LoginEntry] /\ req \in [Request -> Requests]
      /\ Idle.at = "idle" /\ marks \subseteq marks'
  BY NextMarks DEF TypeOK, HostTyped, TasksTyped, LoginEntry, Idle
<1>1. PICK q : /\ req' = [req EXCEPT ![r] = q]
               /\ q = Idle \/ (<<req[r].at, q.at>> \in Moves /\ SameButAt(req[r], q))
  BY RequestMovesOn DEF MovesOn, RequestSteps
<1>2. req[r].at \in {"create clone", "create retry"} /\ UNCHANGED rows
  BY DEF CreateClone, CreateRetry, At
<1>3. req'[r] = q /\ \A o \in Request : o # r => req'[o] = req[o]
  BY <1>0, <1>1
<1>4. q.at \notin {"login secret", "delete secret", "delete row"}
  BY <1>0, <1>1, <1>2 DEF Moves
<1>5. ASSUME NEW left, keyring' = [keyring EXCEPT ![Temp] = left]
      PROVE  keyring'[Temp] = left /\ \A k \in RepoId : keyring'[k] = keyring[k]
  BY <1>0, <1>5, TempAssumption
<1>6. ASSUME ForgetTemp(r)
      PROVE  /\ \A k \in RepoId : keyring'[k] = keyring[k]
             /\ \/ keyring'[Temp] = NoLogin \/ "kept entry" \in marks'
                \/ req[r].login = NoValue /\ UNCHANGED keyring
  <2>1. CASE req[r].login = NoValue
    BY <1>6, <2>1 DEF ForgetTemp
  <2>2. CASE req[r].login # NoValue
    <3>1. PICK left \in Remains(Temp) : /\ keyring' = [keyring EXCEPT ![Temp] = left]
                                        /\ left = NoLogin \/ "kept entry" \in marks'
      BY <1>6, <2>2 DEF ForgetTemp
    <3> QED BY <1>5, <3>1
  <2> QED BY <2>1, <2>2
<1>7. /\ \A k \in RepoId : keyring'[k] = keyring[k]
      /\ \/ keyring'[Temp] = NoLogin \/ "kept entry" \in marks' \/ "gave up" \in marks'
         \/ req[r].login = NoValue /\ UNCHANGED keyring
         \/ GoTo(r, "create retry") /\ UNCHANGED keyring
  BY <1>6 DEF CreateClone, CreateRetry, Clone, GiveUp
<1>8. MixInv'
  <2>1. \A k \in RepoId : Fewer(k)
    BY <1>7 DEF Fewer
  <2> QED BY <1>0, <1>2, <1>3, <1>4, <2>1, TempAssumption, SameLoginReqs, MixStays DEF LoginInv
<1>9. \A k \in RepoId : /\ LoginReq(k) => LoginReq(k)'
                        /\ Deleting(k)' => Deleting(k)
                        /\ Halving(k)' => Halving(k)
  BY <1>2, <1>3, <1>4, SameLoginReqs DEF Deleting, Halving, At
<1>10. LeftInv'
  BY <1>0, <1>2, <1>7, <1>9, TempAssumption, LeftStays DEF LoginInv
<1>11. TempInv'
  <2>1. CASE \/ keyring'[Temp] = NoLogin \/ "kept entry" \in marks' \/ "gave up" \in marks'
    BY <2>1 DEF TempInv
  <2>2. CASE req[r].login = NoValue /\ UNCHANGED keyring
    <3>1. TempReq => TempReq'
      BY <1>3, <2>2 DEF TempReq, HasTemp, At
    <3> QED BY <1>0, <2>2, <3>1, TempStays DEF LoginInv
  <2>3. CASE GoTo(r, "create retry") /\ UNCHANGED keyring
    <3>1. req[r] \in CreateRequests
      BY <1>0, <1>2, RequestKinds DEF CreateAt
    <3>2. HasTemp(r) => HasTemp(r)'
      BY <1>0, <2>3, <3>1 DEF HasTemp, At, GoTo, CreateRequests
    <3>3. \A o \in Request : o # r /\ HasTemp(o) => HasTemp(o)'
      BY <1>3 DEF HasTemp, At
    <3>4. TempReq => TempReq'
      BY <3>2, <3>3 DEF TempReq
    <3> QED BY <1>0, <2>3, <3>4, TempStays DEF LoginInv
  <2> QED BY <1>7, <2>1, <2>2, <2>3
<1> QED BY <1>8, <1>10, <1>11 DEF LoginInv

\* A new row gets an id that no request knows, with a whole login, none, or half of one.
LEMMA CreatedKept ==
  ASSUME TypeOK, IdsUsed, LoginInv, [Next]_vars, NEW r \in Request, CreateRow(r)
  PROVE  LoginInv'
<1>0. /\ keyring \in [RepoId \cup {Temp} -> LoginEntry] /\ req \in [Request -> Requests]
      /\ Idle.at = "idle" /\ marks \subseteq marks' /\ HostTyped /\ used \in Nat
  BY NextMarks, MaxRowsAssumption DEF TypeOK, HostTyped, TasksTyped, LoginEntry, Idle
<1>a. PICK k \in Nat : k = used + 1
  BY <1>0
<1>b. PICK l \in Login \cup {NoValue} : l = req[r].login
  <2>1. req[r] \in Requests /\ req[r].at \in CreateAt
    BY <1>0 DEF CreateRow, At, CreateAt
  <2> QED BY <2>1, RequestKinds DEF CreateRequests
<1>c. PICK entry \in {[user |-> l, secret |-> l], [user |-> l, secret |-> NoValue], NoLogin} :
        keyring' = [j \in DOMAIN keyring |->
                       IF j = used' /\ used' # used /\ l # NoValue /\ rows'[j].url # NoUrl
                       THEN entry ELSE keyring[j]]
  BY <1>b DEF CreateRow
<1>d. entry.user = entry.secret \/ entry.secret = NoValue
  BY DEF NoLogin
<1>1. /\ req[r].at = "create row" /\ req' = [req EXCEPT ![r] = Idle] /\ UNCHANGED marks
      /\ \/ UNCHANGED <<rows, used>>
         \/ used < MaxRows /\ used' = k /\ Managed = {}
  BY <1>a DEF CreateRow, InsertRow, Finish, At
<1>2. req'[r] = Idle /\ \A o \in Request : o # r => req'[o] = req[o]
  BY <1>0, <1>1
<1>3. req[r].at # "login secret" /\ req'[r].at # "login secret"
  BY <1>0, <1>1, <1>2
<1>4. \A i \in RepoId \cup {Temp} : keyring'[i] = keyring[i] \/ (i = k /\ used' = k /\ k \in RepoId
                                          /\ keyring'[i] = entry)
  <2>1. DOMAIN keyring = RepoId \cup {Temp}
    BY <1>0
  <2>2. used' # used => used' = k /\ k \in RepoId
    <3>1. used' = used \/ (used < MaxRows /\ used' = k)
      BY <1>1
    <3>2. used \in Nat /\ MaxRows \in Nat
      BY <1>0, MaxRowsAssumption
    <3> QED BY <1>a, <3>1, <3>2 DEF RepoId
  <2> QED BY <1>c, <2>1, <2>2
<1>5. /\ \A i \in RepoId : LoginReq(i) => LoginReq(i)'
      /\ \A i \in RepoId : (Deleting(i)' => Deleting(i)) /\ (Halving(i)' => Halving(i))
      /\ TempReq => TempReq'
  BY <1>0, <1>1, <1>2, <1>3, SameLoginReqs DEF Deleting, Halving, TempReq, HasTemp, At
<1>6. ~LoginReq(k) /\ ~Deleting(k) /\ ~Halving(k)
  <2>1. k \notin 1..used
    BY <1>0, <1>a
  <2> QED BY <2>1 DEF IdsUsed, IdAt, DeleteAt, LoginReq, Deleting, Halving, At
<1>7. \A i \in RepoId : rows'[i] = NoRow => rows[i] = NoRow
  BY <1>1 DEF Managed
<1>8. keyring'[Temp] = keyring[Temp]
  BY <1>4, TempAssumption
<1>9. TempInv'
  BY <1>0, <1>5, <1>8, TempStays DEF LoginInv
<1>10. CASE UNCHANGED keyring
  <2>1. MixInv'
    BY <1>0, <1>2, <1>3, <1>10, TempAssumption, SameLoginReqs, MixStays DEF LoginInv, Fewer
  <2>2. LeftInv'
    BY <1>0, <1>5, <1>7, <1>10, TempAssumption, LeftStays DEF LoginInv
  <2> QED BY <1>9, <2>1, <2>2 DEF LoginInv
<1>11. CASE keyring' # keyring
  <2>1. used' = k /\ k \in RepoId /\ keyring'[k] = entry
        /\ \A i \in RepoId : i # k => keyring'[i] = keyring[i]
    BY <1>0, <1>1, <1>4, <1>8, <1>11, <1>c
  <2>2. Configured(k)' => keyring'[k].user = keyring'[k].secret
    BY <1>d, <2>1 DEF Configured
  <2>3. MixInv'
    <3>1. \A i \in RepoId : i # k => Fewer(i)
      BY <2>1 DEF Fewer
    <3> QED BY <1>0, <1>2, <1>3, <1>6, <2>2, <3>1, SameLoginReqs, MixStays DEF LoginInv
  <2>4. rows'[k] # NoRow
    <3>1. PICK d \in Dir : d = req[r].dir
      <4>1. req[r] \in Requests /\ req[r].at \in CreateAt
        BY <1>0, <1>1 DEF CreateAt
      <4> QED BY <4>1, RequestKinds DEF CreateRequests
    <3>2. PICK url \in Url \cup {NoUrl, WsUrl} :
            url = IF Present(d) THEN mirror[d].origin ELSE NoUrl
      <4>1. ReposTyped
        BY DEF TypeOK
      <4> QED BY <4>1, PresentTyped
    <3>3. InsertRow(r, NewRow(d, url))
      BY <3>1, <3>2 DEF CreateRow
    <3>4. NewRow(d, url) \in Row
      BY NewRowTyped
    <3>5. used' # used /\ rows \in [RepoId -> Row \cup {NoRow}]
      BY <1>0, <1>a, <2>1 DEF HostTyped
    <3>6. rows'[k] = NewRow(d, url)
      BY <1>a, <2>1, <3>3, <3>5 DEF InsertRow
    <3> QED BY <3>4, <3>6, NoRowAssumption
  <2>5. Left(k)' /\ Half(k)'
    BY <1>5, <1>6, <2>1, <2>4 DEF Left, Half
  <2>6. LeftInv'
    BY <1>0, <1>5, <1>7, <2>1, <2>5, LeftStays DEF LoginInv
  <2> QED BY <1>9, <2>3, <2>6 DEF LoginInv
<1> QED BY <1>10, <1>11

LEMMA DeleteRowKept ==
  ASSUME TypeOK, LoginInv, [Next]_vars, NEW r \in Request, DeleteRow(r)
  PROVE  LoginInv'
<1>0. /\ req \in [Request -> Requests] /\ Idle.at = "idle" /\ marks \subseteq marks'
      /\ rows \in [RepoId -> Row \cup {NoRow}]
  BY NextMarks DEF TypeOK, HostTyped, TasksTyped, Idle
<1>1. PICK q : /\ req' = [req EXCEPT ![r] = q]
               /\ q = Idle \/ (<<req[r].at, q.at>> \in Moves /\ SameButAt(req[r], q))
  BY RequestMovesOn DEF MovesOn, RequestSteps
<1>2. /\ req[r].at = "delete row" /\ UNCHANGED keyring
      /\ rows' = [rows EXCEPT ![req[r].id] = NoRow]
  BY DEF DeleteRow, At
<1>3. req'[r] = q /\ \A o \in Request : o # r => req'[o] = req[o]
  BY <1>0, <1>1
<1>4. q.at \notin LoginAt
  BY <1>0, <1>1, <1>2 DEF Moves, LoginAt
<1>5. req[r].at # "login secret" /\ req'[r].at # "login secret"
  BY <1>2, <1>3, <1>4 DEF LoginAt
<1>6. MixInv'
  BY <1>0, <1>2, <1>3, <1>5, TempAssumption, SameLoginReqs, MixStays DEF LoginInv, Fewer
<1>7. \A i \in RepoId : LoginReq(i) => LoginReq(i)'
  BY <1>3, <1>5, SameLoginReqs
<1>8. \A i \in RepoId : rows'[i] = NoRow \/ Deleting(i)' => rows[i] = NoRow \/ Deleting(i)
  <2>1. Deleting(req[r].id)
    BY <1>2 DEF Deleting, At
  <2>2. \A i \in RepoId : Deleting(i)' => Deleting(i)
    BY <1>3, <1>4 DEF Deleting, At, LoginAt
  <2> QED BY <1>0, <1>2, <2>1, <2>2
<1>9. LeftInv'
  <2>1. \A i \in RepoId : Halving(i)' => Halving(i)
    BY <1>3, <1>4 DEF Halving, At, LoginAt
  <2> QED BY <1>0, <1>2, <1>7, <1>8, <2>1, TempAssumption, LeftStays DEF LoginInv
<1>10. TempInv'
  <2>1. TempReq => TempReq'
    BY <1>2, <1>3 DEF TempReq, HasTemp, At
  <2> QED BY <1>0, <1>2, <2>1, TempStays DEF LoginInv
<1> QED BY <1>6, <1>9, <1>10 DEF LoginInv

\* An end of the application while a login is written, or a URL is cloned with
\* one, is remembered.
LEMMA ExitKept ==
  ASSUME TypeOK, LoginInv, [Next]_vars, Exit
  PROVE  LoginInv'
<1>0. Idle.at = "idle" /\ marks \subseteq marks'
  BY NextMarks DEF Idle
<1>1. /\ UNCHANGED <<keyring, rows>>
      /\ \A r \in Request : req'[r] = Idle
      /\ "torn login" \notin marks' => \A r \in Request : ~At(r, "login secret")
      /\ "gave up" \notin marks' => ~TempReq
  BY DEF Exit, TempReq
<1>2. \A i : ~Deleting(i)' /\ ~Halving(i)'
  BY <1>0, <1>1 DEF Deleting, Halving, At
<1>3. \A r \in Request : ~At(r, "login secret")'
  BY <1>0, <1>1 DEF At
<1>4. MixInv'
  <2>1. SUFFICES ASSUME marks' \cap {"two logins", "torn login", "kept entry"} = {}
                 PROVE  MixParts'
    BY DEF MixInv
  <2>2. MixParts
    BY <1>0, <2>1 DEF LoginInv, MixInv
  <2>3. \A i \in RepoId : Configured(i)' => keyring'[i].user = keyring'[i].secret
    BY <1>1, <2>1, <2>2 DEF MixParts, LoginReq, Configured
  <2> QED BY <1>3, <2>3 DEF MixParts
<1>5. LeftInv'
  <2>1. \A i \in RepoId : LoginReq(i) => "torn login" \in marks'
    BY <1>1 DEF LoginReq
  <2> QED BY <1>0, <1>1, <1>2, <2>1, TempAssumption, LeftStays DEF LoginInv
<1>6. TempInv'
  BY <1>0, <1>1, TempStays DEF LoginInv
<1> QED BY <1>4, <1>5, <1>6 DEF LoginInv

LEMMA QuietLogins ==
  ASSUME TypeOK, LoginInv, [Next]_vars, UNCHANGED keyring, \A r \in Request : ~DeleteRow(r),
         \A x \in Request : req'[x] = req[x] \/ (req[x].at \notin LoginAt /\ req'[x].at \notin LoginAt)
  PROVE  LoginInv'
<1>0. marks \subseteq marks'
  BY NextMarks
<1>1. /\ \A o \in Request : At(o, "login secret")' <=> At(o, "login secret")
      /\ \A o \in Request : At(o, "login secret") => req'[o] = req[o]
  BY DEF At, LoginAt
<1>2. \A i : LoginReq(i)' <=> LoginReq(i)
  BY <1>1 DEF LoginReq
<1>3. \A i : (Deleting(i)' => Deleting(i)) /\ (Halving(i)' => Halving(i))
  BY DEF Deleting, Halving, At, LoginAt
<1>4. TempReq => TempReq'
  BY DEF TempReq, HasTemp, At, LoginAt
<1>5. \A i \in RepoId : rows'[i] = NoRow => rows[i] = NoRow
  BY NextRowsKept
<1>6. MixInv'
  BY <1>0, <1>1, <1>2, TempAssumption, MixStays DEF LoginInv, Fewer
<1>7. LeftInv'
  BY <1>0, <1>2, <1>3, <1>5, TempAssumption, LeftStays DEF LoginInv
<1>8. TempInv'
  BY <1>0, <1>4, TempStays DEF LoginInv
<1> QED BY <1>6, <1>7, <1>8 DEF LoginInv

LEMMA NextLoginInv ==
  ASSUME TypeOK, RequestInv, LoginInv, [Next]_vars
  PROVE  LoginInv'
<1>0. HostTyped /\ TasksTyped /\ marks \subseteq marks' /\ IdsUsed
  BY NextMarks DEF TypeOK, RequestInv
<1>1. \A i \in 1..used : i \in RepoId
  BY <1>0, UsedIds
<1>2. ASSUME NEW r \in Request, NEW l, CreateRefused(r, l) PROVE LoginInv'
  <2>1. "kept entry" \in marks'
    BY <1>2 DEF CreateRefused
  <2> QED BY <2>1, KeptEntry
<1>3. ASSUME NEW r \in Request, LoginStep(r) PROVE LoginInv'
  BY <1>0, <1>3, SetSecretKept, ForgetSecretKept, DeleteSecretKept, DeleteRowKept, CloneKept,
     CreatedKept DEF LoginStep
<1> QED
  BY <1>0, <1>1, <1>2, <1>3, SetLoginKept, StartDeleteKept, DeleteLoginKept, CreateKept, ExitKept,
     QuietLogins, NextLogins DEF LoginStep

LEMMA InitLoginInv ==
  ASSUME Init
  PROVE  LoginInv
<1>0. NoLogin.user = NoValue /\ NoLogin.secret = NoValue
  BY DEF NoLogin
<1>1. \A r \in Request : req[r].at = "idle"
  <2>1. Idle.at = "idle" /\ req = [r \in Request |-> Idle]
    BY DEF Init, Idle
  <2> QED BY <2>1
<1>2. \A i : ~LoginReq(i) /\ ~Deleting(i) /\ ~Halving(i)
  BY <1>1 DEF LoginReq, Deleting, Halving, At
<1>3. \A r \in Request : ~At(r, "login secret")
  BY <1>1 DEF At
<1>4. CASE InitUnmanaged
  <2>1. \A k \in RepoId \cup {Temp} : keyring[k] = NoLogin
    BY <1>4 DEF InitUnmanaged
  <2> QED BY <1>0, <1>2, <1>3, <2>1 DEF LoginInv, MixInv, MixParts, LeftInv, Left, Half, TempInv, Configured
<1>5. CASE InitEnabled
  <2>1. PICK pulled \in 1..MaxCommits, strategy \in {"direct", "feature_branch"} :
          InitPulled(pulled, strategy)
    BY <1>5, MaxCommitsAssumption DEF InitEnabled
  <2> DEFINE login == CHOOSE l \in Login : TRUE
             url == CHOOSE u \in Url : TRUE
             entry == [user |-> login, secret |-> login]
             row == [NewRow(DefaultDir, url) EXCEPT !.strategy = strategy]
  <2>2. /\ keyring = [k \in RepoId \cup {Temp} |-> IF k = 1 THEN entry ELSE NoLogin]
        /\ rows = [i \in RepoId |-> IF i = 1 THEN row ELSE NoRow]
    BY <2>1 DEF InitPulled
  <2>3. entry.user = entry.secret
    OBVIOUS
  <2>4. row \in Row
    <3>1. url \in Url
      BY UrlAssumption
    <3> HIDE DEF url
    <3>2. NewRow(DefaultDir, url) \in Row
      BY <3>1, NewRowTyped, DirAssumption
    <3> QED BY <3>2 DEF Row
  <2> HIDE DEF entry, row
  <2>5. 1 \in RepoId
    BY MaxRowsAssumption DEF RepoId
  <2>6. MixInv
    BY <1>0, <1>3, <2>2, <2>3 DEF MixInv, MixParts, Configured
  <2>7. LeftInv
    BY <1>2, <2>2, <2>4, NoRowAssumption DEF LeftInv, Left, Half
  <2>8. TempInv
    BY <2>2, <2>5, TempAssumption DEF TempInv
  <2> QED BY <2>6, <2>7, <2>8 DEF LoginInv
<1> QED BY <1>4, <1>5 DEF Init

\* A complete login in the keyring is the user name and the secret of one login,
\* and a deleted repository or a finished clone leaves neither entry behind, though
\* a login is two entries written and deleted one after the other, requests overlap
\* and the application ends in between; but for the exceptions the property names,
\* the entry that the keyring refuses to delete among them (set_credentials,
\* delete_credentials, delete_repo, create_from_source).
THEOREM LoginsAreWhole == Spec => []LoginsWhole
<1>1. Init => RequestInv /\ LoginInv
  BY InitRequestInv, InitLoginInv
<1>2. TypeOK /\ RequestInv /\ LoginInv /\ [Next]_vars => RequestInv' /\ LoginInv'
  BY NextRequestInv, NextLoginInv
<1>3. LoginInv => LoginsWhole
  BY DEF LoginInv, MixInv, MixParts, LeftInv, Left, TempInv, TempReq, LoginReq, LoginsWhole,
     LoginNotMixed, NoLoginLeft
<1> QED BY <1>1, <1>2, <1>3, TypeCorrect, PTL DEF Spec
=============================================================================
