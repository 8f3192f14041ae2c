------------------------------- MODULE GitRepo -------------------------------
(***************************************************************************)
(* A git repository on the host, as far as the git commands the            *)
(* application runs read or change it.  git itself is not part of the      *)
(* repository: these definitions are taken from how                        *)
(* repo_sync_manager.rs uses it.  A history is the set of its commits;     *)
(* commits are numbered in the order in which they were made, and a merge  *)
(* commit is the union of what it joins.  One command is one step:         *)
(* GitCli::exec holds a lock for the repository's path while it runs.      *)
(***************************************************************************)
EXTENDS Naturals, FiniteSets

CONSTANTS
  Main,      \* the branch a repository starts on
  Feature,   \* the names a branch pattern may resolve to, first to last
  NoUrl,     \* a repository without the remote "origin"
  WsUrl,     \* "origin" is the path of the workspace the mirror was cloned from
  NoRepo,    \* a path with no repository
  Squashed   \* the commit `git commit` makes of the staged changes in a squash

ASSUME BranchAssumption == Main \notin {Feature[i] : i \in DOMAIN Feature}
ASSUME RepoAssumption == NoUrl # WsUrl

Branch == {Main} \cup {Feature[i] : i \in DOMAIN Feature}

\* A branch that a remote, or the tracking refs, do not have has no commits.
NoRefs == [b \in Branch |-> {}]

\* git clone of a repository whose branches are refs and whose HEAD is head.
Cloned(url, head, refs) ==
  [origin |-> url, linked |-> TRUE, branch |-> Main, head |-> head,
   tracking |-> refs, fetched |-> {}, merging |-> {}, staged |-> {},
   squash |-> {}]

\* git fetch <path>: FETCH_HEAD is the HEAD of the repository at that path.
FetchPath(g, head) == [g EXCEPT !.fetched = head]

\* git fetch origin: the tracking refs follow the remote (none is pruned), and
\* FETCH_HEAD names for merging the upstream of the current branch, if it has
\* one: only the branch a clone starts on does, while its remote is not removed.
FetchOrigin(g, refs) ==
  [g EXCEPT !.tracking = [b \in Branch |-> IF refs[b] = {} THEN @[b] ELSE refs[b]],
            !.fetched  = IF g.linked /\ g.branch = Main THEN refs[Main] ELSE {}]

\* git merge --ff-only FETCH_HEAD may succeed: with changes staged, only when the
\* commits it would check out have them as well, and even then it may refuse.
CanFastForward(g) ==
  /\ g.merging = {}
  /\ \/ g.fetched \subseteq g.head
     \/ g.head \subseteq g.fetched /\ g.staged \subseteq g.fetched
MayRefuseFastForward(g) ==
  ~CanFastForward(g) \/ (g.staged # {} /\ ~(g.fetched \subseteq g.head))

FastForward(g) == [g EXCEPT !.head = @ \cup g.fetched, !.staged = @ \ g.fetched]

\* git merge FETCH_HEAD: refused in the middle of a merge or over staged
\* changes, and otherwise either a merge commit or a conflict.
MergeOutcomes(g) ==
  IF g.merging # {} \/ g.staged # {} THEN {g}
  ELSE {FastForward(g)}
       \cup (IF g.head \subseteq g.fetched THEN {}
             ELSE {[g EXCEPT !.merging = g.fetched]})

\* git reset --soft <commit>^, and git commit of what that left staged.  Squash
\* commits are not told apart.
SoftReset(g, commit) ==
  LET kept == {c \in g.head : c < commit}
  IN  [g EXCEPT !.head = kept, !.staged = @ \cup (g.head \ kept)]
CommitStaged(g) ==
  [g EXCEPT !.head = @ \cup {Squashed}, !.staged = {},
            !.squash = g.staged \cup (IF Squashed \in g.head THEN @ ELSE {})]

\* git checkout -B: the branch is made, or moved, to HEAD.
Checkout(g, b) == [g EXCEPT !.branch = b]

\* git push origin <branch>: accepted when it is a fast-forward of the remote.
PushAccepted(head, refs, b) == refs[b] \subseteq head

\* What the repository holds of the commits it once received, whether they are
\* on the branch, staged, or inside the squash commit.
Holds(g) ==
  g.head \cup g.staged \cup (IF Squashed \in g.head THEN g.squash ELSE {})
=============================================================================
