-------------------------------- MODULE Forms --------------------------------
(***************************************************************************)
(* The pure functions that stand between the application and what others   *)
(* write and read: the output of git log and of sbx read back              *)
(* (repo_sync_manager.rs, git_cli.rs, sbx.rs, secret_scanner.rs), the      *)
(* arguments and kits of SbxText, and the values users enter checked       *)
(* before they are kept (repo_sync_manager.rs, persona_manager.rs,         *)
(* workspace_manager.rs).  A behaviour poses one question, a step answers  *)
(* it as the code does, and the properties compare with what git, sbx and  *)
(* the file system mean.                                                   *)
(***************************************************************************)
EXTENDS SbxText

CONSTANTS
  SbxRequests,   \* what sbx create and run are asked for
  KitRequests,   \* [name, servers, memory, container, configPath]
  SbxTables,     \* what sbx lists: [ports, secrets, templates]
  Histories,     \* sequences of commits that git log may be asked for
  MaxLost,       \* tokens of its output the size limit may cut away
  CreateOutputs, \* what sbx create prints, [lines, name] with the name it gave
  UserRules,     \* policy rules users and kits may add
  Diffs,         \* [before, after]: functions from files to what they hold
  Symbol,        \* what branch patterns and URLs are composed of
  MaxPattern, MaxUrl,
  PersonaNamed,  \* what <persona-name> may stand for
  Directory,     \* directories, and what the paths of mounts lead to
  LeadsTo,       \* a function from paths to directories, or to Nowhere
  Nowhere, MaxMounts

ASSUME BoundsAssumption == {MaxLost, MaxPattern, MaxUrl, MaxMounts} \subseteq Nat

\* A space is one of the characters that ":" stands for in a pattern.
ASSUME WordsAssumption == " " \notin Symbol /\ \A p \in PersonaNamed : p \in Seq(Range(p))

ASSUME MountsAssumption ==
  LeadsTo \in [DOMAIN LeadsTo -> Directory \cup {Nowhere}] /\ Nowhere \notin Directory

\* sbx gives every rule an id of its own, "default-..." only to those a mode comes with.
ASSUME RulesAssumption ==
  \A r, s \in UserRules : r.id # <<"any">> /\ r.id[1] # "default-" /\ (r.id = s.id => r = s)

VARIABLES
  question,  \* [about, ...]: the input
  answer     \* what the code makes of it

formsVars == <<question, answer>>
Unanswered == [given |-> FALSE]
Given(x) == [given |-> TRUE, is |-> x]

---------------------------------------------------------------------------
(* git log --format=<sep>%H<sep>%s<sep>%an<sep>%aI --numstat *)

Sep == <<"separator">>
Newline == <<"newline">>
Text(x) == <<"text", x>>
Stat(added, deleted) == <<"stat", added, deleted>>
Binary == 0 - 1   \* numstat prints "-"

Stats(files) == FlattenSeq([i \in DOMAIN files |-> <<Stat(files[i][1], files[i][2]), Newline>>])
Entry(c) ==
  <<Sep, Text(c.sha), Sep>> \o c.message \o <<Sep, Text(c.author), Sep, Text(c.date), Newline>>
  \o (IF c.files = <<>> THEN <<>> ELSE <<Newline>> \o Stats(c.files))
LogOutput(history) == FlattenSeq([i \in DOMAIN history |-> Entry(history[i])])

\* Beyond 1 MB the tail is kept, after a line that says so.  A cut inside a
\* token has the effect of one after it.
TruncateOutput(out, lost) ==
  IF lost = 0 THEN out
  ELSE <<Text("truncated"), Newline>> \o SubSeq(out, lost + 1, Len(out))

Separators(out) == Filtered([i \in DOMAIN out |-> i], {i \in DOMAIN out : out[i] = Sep})
\* What follows the k-th separator, up to the next.
Part(out, k) ==
  LET at == Separators(out)
  IN  SubSeq(out, at[k] + 1, IF k < Len(at) THEN at[k + 1] - 1 ELSE Len(out))
FirstLine(part) ==
  LET ends == {i \in DOMAIN part : part[i] = Newline}
  IN  IF ends = {} THEN part
      ELSE SubSeq(part, 1, (CHOOSE i \in ends : \A j \in ends : i <= j) - 1)
Trimmed(part) == Filtered(part, Range(part) \ {Newline})
Statistics(part) == Filtered(part, {token \in Range(part) : token[1] = "stat"})

Lines(stats, column) ==
  FoldLeft(LAMBDA sum, s : sum + (IF s[column] = Binary THEN 0 ELSE s[column]), 0, stats)

CommitInfo(sha, message, author, date, stats) ==
  [sha |-> sha, message |-> message, author |-> author, date |-> date,
   files |-> Len(stats), insertions |-> Lines(stats, 2), deletions |-> Lines(stats, 3)]

\* A group of four parts with an empty hash is no commit.
Identified(commits) == Filtered(commits, {c \in Range(commits) : c.sha # <<>>})

\* Mutant: files git gives no line counts for are left out.
ParseLogOutput_NoBinary(out) ==
  LET counted(part) ==
        Filtered(part, {token \in Range(part) : token[1] = "stat" /\ token[2] # Binary})
  IN  Identified([j \in 1..(Len(Separators(out)) \div 4) |->
        CommitInfo(Trimmed(Part(out, 4 * j - 3)), Trimmed(Part(out, 4 * j - 2)),
                   Trimmed(Part(out, 4 * j - 1)), FirstLine(Part(out, 4 * j)),
                   counted(Part(out, 4 * j)))])

\* The statistics follow the first line of the last part.
ParseLogOutput(out) ==
  Identified([j \in 1..(Len(Separators(out)) \div 4) |->
    CommitInfo(Trimmed(Part(out, 4 * j - 3)), Trimmed(Part(out, 4 * j - 2)),
               Trimmed(Part(out, 4 * j - 1)), FirstLine(Part(out, 4 * j)),
               Statistics(Part(out, 4 * j)))])

\* A commit's subject is one line, of any text.
ASSUME HistoriesAssumption ==
  \A h \in Histories :
    /\ h \in Seq(Range(h))
    /\ \A c \in Range(h) : /\ c.message \in Seq(Range(c.message)) /\ Newline \notin Range(c.message)
                           /\ c.files \in Seq(Range(c.files))

ListCommits ==
  /\ question.about = "log" /\ answer = Unanswered
  /\ answer' = Given(ParseLogOutput(TruncateOutput(LogOutput(question.history), question.lost)))
  /\ UNCHANGED question

---------------------------------------------------------------------------
(* sbx create *)

\* A line is [says, name]: a word of its own, "Created sandbox 'name'", the
\* hints "sbx run --name name" and "sbx run name", a blank one, or anything else.
Says(out, what) == {i \in DOMAIN out : out[i].says = what}
Topmost(S) == CHOOSE i \in S : \A j \in S : i <= j
Lowest(S) == CHOOSE i \in S : \A j \in S : i >= j
Written(out) == DOMAIN out \ Says(out, "blank")

ExtractSandboxName(out) ==
  IF Cardinality(Written(out)) = 1 /\ out[Lowest(Written(out))].says = "word"
  THEN out[Lowest(Written(out))].name
  ELSE IF Says(out, "created") # {} THEN out[Topmost(Says(out, "created"))].name
  ELSE IF Says(out, "hint") \cup Says(out, "old hint") # {}
  THEN out[Lowest(Says(out, "hint") \cup Says(out, "old hint"))].name
  ELSE IF Written(out) # {} THEN out[Lowest(Written(out))].name ELSE ""

\* What sbx create prints names the sandbox where it says that it created it, or
\* else in its hints how to run it, or else in its last line.
ASSUME CreateAssumption ==
  \A out \in CreateOutputs :
    LET lines == out.lines
        hints == Says(lines, "hint") \cup Says(lines, "old hint")
        named(S) == S # {} /\ \A i \in S : lines[i].name = out.name
    IN  /\ lines \in Seq(Range(lines))
        /\ \/ named(Says(lines, "created"))
           \/ Says(lines, "created") = {} /\ named(hints)
           \/ Says(lines, "created") = {} /\ hints = {} /\ Written(lines) # {}
              /\ lines[Lowest(Written(lines))].name = out.name

NameSandbox ==
  /\ question.about = "create" /\ answer = Unanswered
  /\ answer' = Given(ExtractSandboxName(question.lines))
  /\ UNCHANGED question

---------------------------------------------------------------------------
(* sbx policy ls, sbx policy rm *)

Rule(id, decision, appliesTo, type, resources) ==
  [id |-> id, decision |-> decision, appliesTo |-> appliesTo, type |-> type,
   resources |-> resources]

\* The rules a mode comes with, as the comments of policy_ls describe them.
Preset(mode) ==
  CASE mode = "balanced" -> {Rule(<<"default-", "1">>, "allow", "all", "network", {"registry", "forge"})}
    [] mode = "allow-all" -> {Rule(<<"any">>, "allow", "all", "network", {"*"})}
    [] mode = "deny-all" -> {}

FlattenPolicyRules(rules) == UNION {{r} \X r.resources : r \in rules}

\* An id is the sequence of its parts that matter.
IsDefault(r) == r.id[1] = "default-"
GlobalAllow(r) == r.appliesTo = "all" /\ r.decision = "allow" /\ r.type = "network"
DeriveDefaultPolicy(rules) ==
  IF \E r \in rules : IsDefault(r) THEN "balanced"
  ELSE IF \E r \in rules : GlobalAllow(r) /\ r.resources \cap {"*", "0.0.0.0/0"} # {}
  THEN "allow-all"
  ELSE IF \A r \in rules : ~GlobalAllow(r) THEN "deny-all"
  ELSE "balanced"

\* The sandbox of a rule's origin, "" for a rule of all.
DeriveRemovalScope(row) == IF row[1].appliesTo = "all" THEN "" ELSE row[1].appliesTo

\* sbx policy rm removes the rule of that id in the scope it is given.
SbxPolicyRm(rules, scope, id) ==
  {r \in rules : ~(r.id = id /\ (IF r.appliesTo = "all" THEN "" ELSE r.appliesTo) = scope)}

PolicyRemoveRule(rules, id) ==
  LET rows == {row \in FlattenPolicyRules(rules) : row[1].id = id}
  IN  IF rows = {} THEN rules
      ELSE SbxPolicyRm(rules, DeriveRemovalScope(CHOOSE row \in rows : TRUE), id)

ShowPolicies ==
  /\ question.about = "policies" /\ answer = Unanswered
  /\ LET rules == Preset(question.mode) \cup question.added
     IN  answer' = Given([label |-> DeriveDefaultPolicy(rules),
                          rows |-> FlattenPolicyRules(rules),
                          left |-> [r \in rules |-> PolicyRemoveRule(rules, r.id)]])
  /\ UNCHANGED question

---------------------------------------------------------------------------
(* The scan of the commits to push (secret_scanner.rs): git diff --numstat from
   the parent of the first to the last, git show of what the last one holds *)

Absent == "absent"
FileOnly(name) == name \in {".env", "id.key"}
\* Of more than 1 MB the end is kept, and what is "buried" lies before it.
Shown(text) == IF text = "buried" THEN "text" ELSE text
InContent(text) == text = "secret"

\* What went and what came with like content, git may show as renamed.
Renames(before, after) ==
  LET like == {p \in (DOMAIN before) \X (DOMAIN after) :
                 /\ before[p[1]] # Absent /\ after[p[1]] = Absent
                 /\ before[p[2]] = Absent /\ after[p[2]] # Absent
                 /\ (before[p[1]] = "binary") = (after[p[2]] = "binary")}
  IN  {pairs \in SUBSET like : \A p, q \in pairs : p[1] = q[1] \/ p[2] = q[2] => p = q}

\* A line per changed file; the path of a renamed one is "old => new".
NumstatLine(path, binary) == [path |-> path, binary |-> binary]
Numstat(before, after, renames) ==
  {NumstatLine(<<f>>, "binary" \in {before[f], after[f]}) :
     f \in {g \in DOMAIN before : /\ before[g] # after[g]
                                 /\ \A p \in renames : g \notin Range(p)}}
  \cup {NumstatLine(p, after[p[2]] = "binary") : p \in renames}

\* How git answers: the diff from the parent or, when that fails, from the empty
\* tree, or neither; the files whose lines a numstat of more than 1 MB has lost, and
\* those git show fails for.
Bases == {"parent", "empty tree", "none"}
Base(diff, base) ==
  IF base = "parent" THEN diff.before ELSE [f \in DOMAIN diff.before |-> Absent]
Gits(diff) ==
  UNION {{[base |-> base, renames |-> renames, lost |-> lost, unread |-> unread] :
            renames \in Renames(Base(diff, base), diff.after),
            lost \in SUBSET DOMAIN diff.after, unread \in SUBSET DOMAIN diff.after} :
         base \in Bases}

\* The patterns of names look at the end of a path; that of .env files at its
\* beginning, too.
NameFindings(lines) ==
  {[file |-> l.path, pattern |-> "name"] :
     l \in {l \in lines : IF Len(l.path) = 1 THEN FileOnly(l.path[1]) ELSE l.path[2] = "id.key"}}
\* Of a path git show does not know, or fails for, nothing is read.
ContentFindings(lines, tree, unread) ==
  {[file |-> l.path, pattern |-> "content"] :
     l \in {l \in lines : /\ ~l.binary /\ Len(l.path) = 1 /\ l.path[1] \notin unread
                          /\ InContent(Shown(tree[l.path[1]]))}}

\* Without a diff the scan is skipped, and the commits pass.
ScanCommitsInner(diff, git) ==
  LET lines == {l \in Numstat(Base(diff, git.base), diff.after, git.renames) :
                  Range(l.path) \cap git.lost = {}}
  IN  IF git.base = "none" THEN {}
      ELSE NameFindings(lines) \cup ContentFindings(lines, diff.after, git.unread)

\* A scan that takes too long counts as a finding.
ScanCommits ==
  /\ question.about = "scan" /\ answer = Unanswered
  /\ \E git \in Gits(question.diff) :
       \/ answer' = Given([git |-> git, timeout |-> FALSE,
                           findings |-> ScanCommitsInner(question.diff, git)])
       \/ answer' = Given([git |-> git, timeout |-> TRUE,
                           findings |-> {[file |-> <<>>, pattern |-> "timeout"]}])
  /\ UNCHANGED question

---------------------------------------------------------------------------
(* SbxText *)

\* An agent, a workspace and a mount are no flags.
ASSUME RequestsAssumption ==
  \A a \in SbxRequests :
    /\ a.kits \in Seq(Range(a.kits)) /\ a.mounts \in Seq(Range(a.mounts))
    /\ a.args \in Seq(Range(a.args))
    /\ a.agent \notin {<<"--kit">>, <<"--name">>, <<"-t">>, <<"--">>} /\ a.workspace # <<"--">>
    /\ \A m \in Range(a.mounts) :
         /\ m = [path |-> m.path, readOnly |-> m.readOnly] /\ m.readOnly \in BOOLEAN
         /\ m.path \in Seq(Range(m.path)) \ {<<>>, <<"--">>}

TakeArguments ==
  /\ question.about = "arguments" /\ answer = Unanswered
  /\ answer' = Given([create |-> SbxTakes(BuildCreateArgs(question.request)),
                      run |-> SbxTakes(RunArgs(question.request))])
  /\ UNCHANGED question

\* A persona's servers are rows with a name each of its own; the configuration of a
\* container that runs is one.
ASSUME KitsAssumption ==
  \A k \in KitRequests :
    /\ k.name \in Seq(Range(k.name)) /\ k.servers \in Seq(Range(k.servers))
    /\ \A i, j \in DOMAIN k.servers : k.servers[i].name = k.servers[j].name => i = j
    /\ k.container.status = "running" => LookupMcpConfig(k.container) # None

GenerateKit ==
  /\ question.about = "kit" /\ answer = Unanswered
  /\ LET kit == question.request
     IN  answer' = Given(BuildSpecYaml([name |-> kit.name, servers |-> kit.servers,
                                        memory |-> kit.memory], kit.container, kit.configPath))
  /\ UNCHANGED question

\* What sbx prints; a port's protocol may be left out.
PrintedPorts(ports) ==
  [i \in DOMAIN ports |-> PortLine(Append(ports[i].ip, ports[i].host), ports[i].box,
                                   IF ports[i].protocol = "tcp" THEN None ELSE ports[i].protocol)]
SecretLine(s) == <<<<"(global)">>, <<"service">>, s.service>> \o s.shown
PrintedSecrets(secrets) ==
  <<<<<<"SCOPE">>, <<"TYPE">>, <<"NAME">>, <<"SECRET">>>>, <<<<Ruled>>>>>>
  \o [i \in DOMAIN secrets |-> SecretLine(secrets[i])]
TemplateLine(t) == <<t.tag, t.size>> \o t.created
PrintedTemplates(templates) ==
  IF templates = <<>> THEN <<<<<<"No">>, <<"template", "s">>, <<"found.">>>>>>
  ELSE <<<<<<"TAG">>, <<"SIZE">>, <<"CREATED">>>>>>
       \o [i \in DOMAIN templates |-> TemplateLine(templates[i])]

\* Addresses and protocols, services and templates are what sbx may show: no cell
\* is empty, and of a secret that is configured it is said.
ASSUME TablesAssumption ==
  \A told \in SbxTables :
    LET ports == told.ports  secrets == told.secrets  templates == told.templates
    IN  /\ told = [ports |-> ports, secrets |-> secrets, templates |-> templates]
        /\ ports \in Seq(Range(ports)) /\ secrets \in Seq(Range(secrets))
        /\ templates \in Seq(Range(templates))
        /\ \A p \in Range(ports) :
             /\ p = [ip |-> p.ip, host |-> p.host, box |-> p.box, protocol |-> p.protocol]
             /\ p.ip \in Seq(Range(p.ip)) \ {<<>>} /\ {p.host, p.box} \subseteq Nat \ {0}
             /\ p.protocol # None
        /\ \A s \in Range(secrets) :
             /\ s.configured \in BOOLEAN /\ s.shown \in Seq(Range(s.shown))
             /\ s.configured => Holds(s.shown, "configured")
        /\ \A t \in Range(templates) :
             /\ t = [tag |-> t.tag, size |-> t.size, created |-> t.created]
             /\ t.created \in Seq(Range(t.created))
             /\ \A w \in Range(TemplateLine(t)) : w \in Seq(Range(w)) /\ w # <<>>

ReadTables ==
  /\ question.about = "tables" /\ answer = Unanswered
  /\ LET told == question.told
     IN  answer' = Given([ports |-> ParsePortOutput(<<PortLine(<<"header">>, 0, None)>>
                                                   \o PrintedPorts(told.ports)),
                         secrets |-> ParseSecretLsText(PrintedSecrets(told.secrets)),
                         templates |-> ParseTemplateLsText(PrintedTemplates(told.templates))])
  /\ UNCHANGED question

---------------------------------------------------------------------------
(* Values that users enter *)

Words(n) == UNION {[1..k -> Symbol] : k \in 0..n}
Adjacent(w, a, b) == \E i \in 1..(Len(w) - 1) : w[i] = a /\ w[i + 1] = b

\* Mutant: a pattern may end with a slash.
ValidateBranchPattern_End(w) ==
  /\ w # <<>>
  /\ \A i \in DOMAIN w : w[i] # ":"
  /\ w[1] \notin {".", "/"} /\ w[Len(w)] # "."
  /\ ~Adjacent(w, ".", ".") /\ ~Adjacent(w, "/", "/")

\* ":" stands for every character refused wherever it is.
ValidateBranchPattern(w) ==
  /\ w # <<>>
  /\ \A i \in DOMAIN w : w[i] # ":"
  /\ w[1] \notin {".", "/"} /\ w[Len(w)] \notin {".", "/"}
  /\ ~Adjacent(w, ".", ".") /\ ~Adjacent(w, "/", "/")

CheckBranchPattern ==
  /\ question.about = "branch" /\ answer = Unanswered
  /\ answer' = Given(ValidateBranchPattern(question.word))
  /\ UNCHANGED question

\* After https:// anything will do; after git@ a host, a colon and a path.
ValidateRemoteUrl(scheme, w) ==
  \/ scheme = "https://" /\ w # <<>>
  \/ scheme = "git@" /\ \E i \in 2..(Len(w) - 1) : w[i] = ":" /\ \A j \in 1..(i - 1) : w[j] # ":"

\* The host ends at the first slash or colon.
ValidateMcpUrl(scheme, w) ==
  scheme \in {"http://", "https://"} /\ w # <<>> /\ w[1] \notin {"/", ":"}

CheckUrl ==
  /\ question.about = "url" /\ answer = Unanswered
  /\ answer' = Given([remote |-> ValidateRemoteUrl(question.scheme, question.word),
                      mcp |-> ValidateMcpUrl(question.scheme, question.word)])
  /\ UNCHANGED question

\* Paths are compared once they are canonical.
ValidateAdditionalWorkspaces(paths, primary) ==
  LET canonical == [i \in DOMAIN paths |-> LeadsTo[paths[i]]]
  IN  [ok |-> /\ \A i \in DOMAIN paths : canonical[i] # Nowhere
              /\ \A i, j \in DOMAIN paths : canonical[i] = canonical[j] => i = j
              /\ \A i \in DOMAIN paths : canonical[i] # LeadsTo[primary],
       mounts |-> canonical]

CheckMounts ==
  /\ question.about = "mounts" /\ answer = Unanswered
  /\ answer' = Given(ValidateAdditionalWorkspaces(question.paths, question.primary))
  /\ UNCHANGED question

OnDrive(w) == Len(w) > 1 /\ w[1] = "a" /\ w[2] = ":"

ValidateFilename(w) ==
  /\ w # <<>> /\ w \notin {<<".">>, <<".", ".">>} /\ w[1] # "/"
  /\ ~\E i \in 1..(Len(w) - 2) : SubSeq(w, i, i + 2) = <<".", ".", "/">>
  /\ ~OnDrive(w)

\* Where uploads/<w> leads; directories are not made, and are not files.
Segments(w) ==
  FoldLeft(LAMBDA segs, c : IF c = "/" THEN Append(segs, <<>>)
                            ELSE [segs EXCEPT ![Len(segs)] = Append(@, c)], <<<<>>>>, w)
Unnamed == {<<>>, <<".">>}
Named(segs) == Filtered(segs, Range(segs) \ Unnamed)
WriteFile(w, dirs) ==
  LET segs == Segments(w)
  IN  [ok |-> /\ segs[Len(segs)] \notin Unnamed \cup {<<".", ".">>}
              /\ Front(Named(segs)) \in {<<>>} \cup dirs /\ Named(segs) \notin dirs,
       at |-> Named(segs)]

\* A running session; the browser never names a source path.
UploadFile ==
  /\ question.about = "upload" /\ answer = Unanswered
  /\ answer' = Given(IF question.running /\ ValidateFilename(question.word)
                     THEN WriteFile(question.word, question.dirs)
                     ELSE [ok |-> FALSE, at |-> <<>>])
  /\ UNCHANGED question

---------------------------------------------------------------------------
Path == DOMAIN LeadsTo
Questions ==
  {[about |-> "log", history |-> h, lost |-> n] : h \in Histories, n \in 0..MaxLost}
  \cup {[about |-> "create", lines |-> out.lines, name |-> out.name] : out \in CreateOutputs}
  \cup {[about |-> "policies", mode |-> m, added |-> a] :
          m \in {"balanced", "allow-all", "deny-all"}, a \in SUBSET UserRules}
  \cup {[about |-> "scan", diff |-> d] : d \in Diffs}
  \cup {[about |-> "upload", word |-> w, running |-> b, dirs |-> d] :
          w \in Words(MaxPattern), b \in BOOLEAN, d \in {{}, {<<<<"a">>>>}}}
  \cup {[about |-> "arguments", request |-> a] : a \in SbxRequests}
  \cup {[about |-> "kit", request |-> k] : k \in KitRequests}
  \cup {[about |-> "tables", told |-> t] : t \in SbxTables}
  \cup {[about |-> "branch", word |-> w, persona |-> p] :
          w \in Words(MaxPattern), p \in PersonaNamed}
  \cup {[about |-> "url", scheme |-> s, word |-> w] :
          s \in {"https://", "http://", "git@", "ssh://"}, w \in Words(MaxUrl)}
  \cup {[about |-> "mounts", paths |-> p, primary |-> w] :
          p \in UNION {[1..k -> Path] : k \in 0..MaxMounts}, w \in {w \in Path : LeadsTo[w] # Nowhere}}

FormsInit == question \in Questions /\ answer = Unanswered

FormsNext ==
  \/ ListCommits \/ NameSandbox \/ ShowPolicies \/ ScanCommits
  \/ TakeArguments \/ GenerateKit \/ ReadTables
  \/ CheckBranchPattern \/ CheckUrl \/ CheckMounts \/ UploadFile

FormsSpec == FormsInit /\ [][FormsNext]_formsVars

---------------------------------------------------------------------------
(* Properties *)

Asked(about) == question.about = about /\ answer.given

\* What git means by a commit of the log.
Meant(c) == CommitInfo(<<Text(c.sha)>>, c.message, <<Text(c.author)>>, <<Text(c.date)>>,
                       Statistics(Stats(c.files)))
StartsAt(history, i) == Len(LogOutput(SubSeq(history, 1, i - 1))) + 1
\* The commits the size limit left whole, and whether it cut through the fields
\* of one: from its first separator to its last.
Whole(history, lost) == {i \in DOMAIN history : StartsAt(history, i) > lost}
CutThrough(history, lost) ==
  \E i \in DOMAIN history :
    LET first == StartsAt(history, i)
    IN  lost \in first .. (first + 4 + Len(history[i].message))

LogRead ==
  Asked("log") =>
    LET h == question.history
    IN  \/ CutThrough(h, question.lost)
        \/ \E i \in DOMAIN h : Contains(h[i].message, Sep)
        \/ answer.is = [j \in 1..Cardinality(Whole(h, question.lost)) |->
                          Meant(h[Len(h) - Cardinality(Whole(h, question.lost)) + j])]

NameRead == Asked("create") => answer.is = question.name

PoliciesRead ==
  Asked("policies") =>
    LET rules == Preset(question.mode) \cup question.added
    IN  /\ \/ answer.is.label = question.mode
           \/ question.mode = "deny-all" /\ \E r \in question.added : GlobalAllow(r)
        /\ \A r \in rules : r.resources # {} =>
             /\ \E row \in answer.is.rows : row[1] = r
             /\ answer.is.left[r] = rules \ {r}

\* Rows in which none of the words stands that headers and messages are told by, be
\* it in another word.
Plain(line, pieces) == \A piece \in pieces : ~Holds(line, piece)
TemplateMarks == {"TAG", Ruled, "No", "no", "found", "found."}
TablesRead ==
  Asked("tables") =>
    LET told == question.told  is == answer.is
        plain == {t \in Range(told.templates) : Plain(TemplateLine(t), TemplateMarks)}
        listed == Filtered(told.secrets,
                           {s \in Range(told.secrets) : Plain(SecretLine(s), {Ruled})})
    IN  /\ is.ports = told.ports
        /\ \E rows \in SUBSET Range(told.templates) :
             plain \subseteq rows /\ is.templates = Filtered(told.templates, rows)
        /\ DOMAIN is.secrets = DOMAIN listed
        /\ \A i \in DOMAIN listed :
             /\ is.secrets[i].service = listed[i].service
             /\ \/ is.secrets[i].configured = listed[i].configured
                \/ ~listed[i].configured /\ Holds(listed[i].shown, "configured")

\* Files that the diff names, each by itself.
Listed(git) == DOMAIN question.diff.before \ (git.lost \cup UNION {Range(p) : p \in git.renames})
ScanRead ==
  Asked("scan") =>
    LET git == answer.is.git
        before == Base(question.diff, git.base)  after == question.diff.after
        found(pattern) == {f.file[1] : f \in {f \in answer.is.findings :
                                             f.pattern = pattern /\ Len(f.file) = 1}}
        changed == {f \in Listed(git) : before[f] # after[f]}
    IN  IF answer.is.timeout THEN answer.is.findings # {}
        ELSE \/ git.base = "none" /\ answer.is.findings = {}
             \/ /\ found("name") = {f \in changed : f \in {".env", "id.key"}}
                /\ found("content") = {f \in changed \ git.unread :
                                         after[f] = "secret" /\ before[f] # "binary"}

\* What the application reads is what git and sbx wrote: every commit of the log
\* with its own fields and counts, the name sbx gave a sandbox wherever the
\* output mentions it, the policy mode in force, a rule removed without any
\* other, the rows of the tables of ports, secrets and templates in their order, and
\* the changed files whose names or last contents are secrets.  Excepted are a log cut
\* inside the fields of a commit or whose messages hold the separator, a user's global
\* rule under deny-all, rows that hold what headers and messages are told by and
\* secrets that are not "configured", and of the scan files that were renamed or
\* binary, that the size limit cut or git could not show, and commits no diff was
\* to be had of.
OutputsRead == LogRead /\ NameRead /\ PoliciesRead /\ TablesRead /\ ScanRead

\* sbx takes the arguments as they were meant, whatever the agent's own look like,
\* unless the path of a mount already ends as that of a read-only one.
ArgumentsTaken ==
  Asked("arguments") =>
    LET a == question.request  create == answer.is.create  run == answer.is.run
    IN  \/ \E m \in Range(a.mounts) : m.path[Len(m.path)] = ReadOnly
        \/ /\ \A taken \in {create, run} :
                /\ <<taken.kits, taken.name, taken.template>> = <<a.kits, a.name, a.template>>
                /\ SubSeq(taken.places, 1, 2) = <<a.agent, a.workspace>>
           /\ [i \in DOMAIN a.mounts |-> SbxMounts(create.places[i + 2])] = a.mounts
           /\ Len(create.places) = Len(a.mounts) + 2 /\ create.args = <<>>
           /\ Len(run.places) = 2 /\ run.args = a.args

\* The kit has a name sbx takes, of 1 to KitNameMax characters, and configures
\* the persona's servers as it has them, with the memory server while its
\* container runs unless a server of the persona took its name.
KitTaken ==
  Asked("kit") =>
    LET k == question.request  kit == answer.is
        memory == k.container.status = "running"
    IN  /\ Len(kit.name) \in 1..KitNameMax /\ Range(kit.name) \subseteq {"x", "-"}
        /\ \A s \in Range(k.servers) : kit.mcp[s.name] = [url |-> s.url, headers |-> s.headers]
        /\ "memory" \in {s.name : s \in Range(k.servers)}
           \/ IF memory THEN kit.mcp["memory"].headers = k.container.token
              ELSE "memory" \notin DOMAIN kit.mcp
        /\ DOMAIN kit.mcp \subseteq {s.name : s \in Range(k.servers)} \cup {"memory"}

\* What the application writes is taken as it is meant: arguments by sbx, kits by
\* sbx and the agents.
TextsTaken == ArgumentsTaken /\ KitTaken

\* The name of a branch that a pattern resolves to, and git's rules for it.
Resolved == FlattenSeq([i \in DOMAIN question.word |->
              IF question.word[i] = "<persona-name>" THEN question.persona
              ELSE <<question.word[i]>>])
Ends(w) == {i \in DOMAIN w : i = Len(w) \/ w[i + 1] = "/"}
GitAllows(w) ==
  /\ w # <<>> /\ w # <<"@">>
  /\ \A i \in DOMAIN w : w[i] \notin {":", " "}
  /\ w[1] # "/" /\ w[Len(w)] \notin {"/", "."}
  /\ ~Adjacent(w, "/", "/") /\ ~Adjacent(w, ".", ".") /\ ~Adjacent(w, "@", "{")
  /\ w[1] # "." /\ ~Adjacent(w, "/", ".")
  /\ \A i \in Ends(w) : ~(i > 1 /\ w[i] = "lock" /\ w[i - 1] = ".")
\* Rules of git that the check of the pattern does not know.
Overlooked(w) ==
  \/ w = <<"@">> \/ Adjacent(w, "@", "{") \/ Adjacent(w, "/", ".")
  \/ \E i \in Ends(w) : i > 1 /\ w[i] = "lock" /\ w[i - 1] = "."

BranchChecked ==
  Asked("branch") =>
    \/ answer.is <=> GitAllows(Resolved)
    \/ Overlooked(Resolved)
    \/ "<persona-name>" \in Range(question.word) /\ ~GitAllows(question.persona)

\* A host and a path, as the error message words it.
HostAt(w, i) == i \in DOMAIN w /\ w[i] \notin {"/", ":"}
RemoteForm(scheme, w) ==
  /\ HostAt(w, 1)
  /\ \/ scheme = "https://" /\ \E i \in 2..(Len(w) - 1) : w[i] = "/"
     \/ scheme = "git@" /\ \E i \in 2..(Len(w) - 1) : w[i] = ":"
UrlChecked ==
  Asked("url") =>
    LET w == question.word  s == question.scheme
    IN  /\ answer.is.mcp = (s \in {"http://", "https://"} /\ HostAt(w, 1))
        /\ RemoteForm(s, w) => answer.is.remote
        /\ answer.is.remote => RemoteForm(s, w) \/ s = "https://" \/ w[1] = "/"

\* No directory is mounted twice under whatever paths, nor what is not there.
MountsChecked ==
  Asked("mounts") =>
    LET led == [i \in DOMAIN question.paths |-> LeadsTo[question.paths[i]]]
    IN  /\ answer.is.ok = (/\ Cardinality(Range(led)) = Len(led)
                           /\ Range(led) \subseteq Directory \ {LeadsTo[question.primary]})
        /\ answer.is.ok => answer.is.mounts = led

\* A file lands under the name it was given, in the directory of the uploads,
\* and every name of a file that is not taken by a directory will do.
UploadChecked ==
  Asked("upload") =>
    LET w == question.word  dirs == question.dirs
    IN  /\ answer.is.ok => /\ question.running
                           /\ Last(answer.is.at) = Last(Segments(w))
                           /\ Front(answer.is.at) \in {<<>>} \cup dirs
                           /\ <<".", ".">> \notin Range(answer.is.at)
        /\ /\ question.running /\ w \notin Unnamed \cup {<<".", ".">>}
           /\ "/" \notin Range(w) /\ ~OnDrive(w) /\ <<w>> \notin dirs
           => answer.is.ok /\ answer.is.at = <<w>>

\* What is accepted means to git and to the file system what it is taken for,
\* and nothing that does is refused: branch patterns resolve to names git
\* allows, remote and MCP URLs have their host, additional workspaces are
\* directories of their own, uploads are kept as they are named.  Excepted are
\* the rules of git that validate_branch_pattern does not know, persona names git
\* does not allow, and https remotes without a host or a path.
InputsChecked == BranchChecked /\ UrlChecked /\ MountsChecked /\ UploadChecked

FormsTypeOK ==
  /\ question.about \in {"nothing", "log", "create", "policies", "scan", "upload", "arguments",
                         "kit", "tables", "branch", "url", "mounts"}
  /\ question.about \in {"branch"} => answer \in {Unanswered, Given(TRUE), Given(FALSE)}
=============================================================================
