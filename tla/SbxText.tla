------------------------------- MODULE SbxText -------------------------------
(***************************************************************************)
(* What the application writes for sbx and for the agents, the arguments   *)
(* of sbx create and run (sbx.rs) and the kit of a session                 *)
(* (kit_generator.rs), and the tables of sbx it reads back.  Beside each   *)
(* stands how the other side takes it.                                     *)
(***************************************************************************)
EXTENDS SequencesExt

CONSTANTS
  KitNameMax,   \* characters of a kit's name, 64 in the code
  None          \* an option that is not given

\* A name may have at least one character.
ASSUME SbxTextAssumption == KitNameMax \in Nat \ {0}

\* The elements of a sequence that are in S, in their order.
Filtered(seq, S) == FoldLeft(LAMBDA kept, x : IF x \in S THEN Append(kept, x) ELSE kept, <<>>, seq)

\* Texts are sequences of the pieces that matter; a path may end as a read-only
\* mount is written.
ReadOnly == ":ro"

---------------------------------------------------------------------------
(* sbx create [flags] AGENT PATH [PATH...], sbx run [flags] AGENT PATH [-- ARGS...] *)

Optional(flag, value) == IF value = None THEN <<>> ELSE <<flag, value>>
Flags(a) ==
  FlattenSeq([i \in DOMAIN a.kits |-> <<<<"--kit">>, a.kits[i]>>])
  \o Optional(<<"--name">>, a.name) \o Optional(<<"-t">>, a.template)
MountArg(m) == IF m.readOnly THEN Append(m.path, ReadOnly) ELSE m.path

\* Mutant: the mounts come without their suffix.
BuildCreateArgs_Plain(a) ==
  Flags(a) \o <<a.agent, a.workspace>> \o [i \in DOMAIN a.mounts |-> a.mounts[i].path]

BuildCreateArgs(a) ==
  Flags(a) \o <<a.agent, a.workspace>> \o [i \in DOMAIN a.mounts |-> MountArg(a.mounts[i])]

RunArgs(a) ==
  Flags(a) \o <<a.agent, a.workspace>>
  \o (IF a.args = <<>> THEN <<>> ELSE <<<<"--">>>> \o a.args)

\* sbx takes flags up to the first argument that is none, and what follows "--"
\* for the agent's.
SbxTakes(args) ==
  LET take(read, token) ==
        CASE read.want = "--kit" -> [read EXCEPT !.want = "", !.kits = Append(@, token)]
          [] read.want = "--name" -> [read EXCEPT !.want = "", !.name = token]
          [] read.want = "-t" -> [read EXCEPT !.want = "", !.template = token]
          [] read.ended -> [read EXCEPT !.args = Append(@, token)]
          [] OTHER ->
               IF token = <<"--">> THEN [read EXCEPT !.ended = TRUE]
               ELSE IF read.places = <<>> /\ token \in {<<"--kit">>, <<"--name">>, <<"-t">>}
               THEN [read EXCEPT !.want = token[1]]
               ELSE [read EXCEPT !.places = Append(@, token)]
  IN  FoldLeft(take, [want |-> "", kits |-> <<>>, name |-> None, template |-> None,
                      places |-> <<>>, args |-> <<>>, ended |-> FALSE], args)

\* A mount of sbx create: read-only when its text ends so.
SbxMounts(text) ==
  IF Len(text) > 1 /\ text[Len(text)] = ReadOnly
  THEN [path |-> Front(text), readOnly |-> TRUE] ELSE [path |-> text, readOnly |-> FALSE]

---------------------------------------------------------------------------
(* The kit *)

\* "x" stands for the characters a name may have, "?" for those it may not.
Hyphened(name) == [i \in DOMAIN name |-> IF name[i] = "x" THEN "x" ELSE "-"]
\* replace("--", "-") does not look at what it has replaced: of three hyphens two
\* are left.
Collapsed(name) ==
  LET add(done, c) ==
        IF c = "-" /\ done.open THEN [text |-> done.text, open |-> FALSE]
        ELSE [text |-> Append(done.text, c), open |-> c = "-"]
  IN  FoldLeft(add, [text |-> <<>>, open |-> FALSE], name).text
Trimmings(name) ==
  LET kept == {i \in DOMAIN name : name[i] # "-"}
      first == CHOOSE i \in kept : \A j \in kept : i <= j
      last  == CHOOSE i \in kept : \A j \in kept : i >= j
  IN  SubSeq(name, first, last)
\* "persona-" stands before the persona's name.
KitName(persona) ==
  LET name == Trimmings(Collapsed(Hyphened(<<"x", "-">> \o persona)))
  IN  SubSeq(name, 1, IF Len(name) < KitNameMax THEN Len(name) ELSE KitNameMax)

\* The memory server of a persona whose container runs.
LookupMcpConfig(container) ==
  IF container.status = "running" THEN [port |-> container.port, token |-> container.token] ELSE None

\* Later entries replace earlier ones of their name; an empty file replaces what
\* an earlier session left.
BuildMcpJson(servers, config) ==
  [name \in {s.name : s \in Range(servers)} \cup (IF config = None THEN {} ELSE {"memory"}) |->
     IF \E s \in Range(servers) : s.name = name
     THEN LET last == CHOOSE i \in DOMAIN servers :
                        servers[i].name = name /\ \A j \in DOMAIN servers :
                                                    servers[j].name = name => j <= i
          IN  [url |-> servers[last].url, headers |-> servers[last].headers]
     ELSE [url |-> config, headers |-> config.token]]

BuildSpecYaml(persona, container, configPath) ==
  [name |-> KitName(persona.name),
   path |-> IF configPath = None THEN ".mcp.json" ELSE configPath,
   mcp |-> BuildMcpJson(persona.servers, LookupMcpConfig(container)),
   memory |-> persona.memory]

---------------------------------------------------------------------------
(* The tables of sbx ports, secret ls and template ls *)

\* <host ip>:<host port> -> <sandbox port>/<protocol>; a port that is no number
\* is 0.  The line's left part is split at its last colon.
PortLine(left, right, protocol) == [left |-> left, right |-> right, protocol |-> protocol]
ParsePortOutput(lines) ==
  LET mapping(line) ==
        [ip |-> Front(line.left), host |-> Last(line.left), box |-> line.right,
         protocol |-> IF line.protocol = None THEN "tcp" ELSE line.protocol]
      good == Filtered(lines, {line \in Range(lines) : /\ Len(line.left) > 1
                                                      /\ Last(line.left) > 0 /\ line.right > 0})
  IN  [i \in DOMAIN good |-> mapping(good[i])]

\* A line is the sequence of its words, a word of the pieces that matter.
Ruled == "---"
Holds(line, piece) == \E k \in DOMAIN line : piece \in Range(line[k])
\* The text "a b": the one ends a word, the other begins the next.
Meet(line, a, b) == \E k \in 2..Len(line) : Last(line[k - 1]) = a /\ line[k][1] = b
ParseSecretLsText(lines) ==
  LET rows == Filtered(lines, {line \in Range(lines) : /\ line # <<>> /\ ~Holds(line, Ruled)
                                                      /\ line[1] # <<"SCOPE">> /\ Len(line) >= 3})
  IN  [i \in DOMAIN rows |->
         [service |-> rows[i][3],
          configured |-> \E k \in 4..Len(rows[i]) : "configured" \in Range(rows[i][k])]]

\* What a line of templates must not hold, begin or end with.
TemplateRow(line) ==
  /\ line # <<>> /\ line[1][1] # "TAG" /\ ~Holds(line, Ruled) /\ ~Holds(line, "found.")
  /\ ~Meet(line, "No", "template") /\ ~Meet(line, "no", "template")
  /\ ~Meet(line, "not", "found") /\ Last(Last(line)) # "found"
ParseTemplateLsText(lines) ==
  LET rows == Filtered(lines, {line \in Range(lines) : TemplateRow(line)})
  IN  [i \in DOMAIN rows |->
         [tag |-> rows[i][1], size |-> IF Len(rows[i]) < 2 THEN None ELSE rows[i][2],
          created |-> SubSeq(rows[i], 3, Len(rows[i]))]]
=============================================================================
