----------------------------- MODULE MCWorkbench -----------------------------
(***************************************************************************)
(* Three parts that share nothing their properties could tell: the         *)
(* catalog, the terminal of a session, and the pure functions.  A          *)
(* behaviour exercises one of them; the others stay as they start.         *)
(***************************************************************************)
EXTENDS Catalog, PtyRelay, Forms, TLC

CONSTANT MaxTraffic   \* chunks and messages of a terminal

VARIABLE part

\* Two releases; the second brings a migration and a built-in agent.
MCReleases == <<[builtins |-> <<"b1", "b2">>, statements |-> <<2, 1>>],
                [builtins |-> <<"b1", "b2", "b3">>, statements |-> <<2, 1, 2>>]>>
MCNames == <<"p", "q", "r">>
\* Three directories; the first has a second spelling.
MCPlace == {"w1", "w1/", "w2", "w3"}
MCCanonical == [p \in MCPlace |-> IF p = "w1/" THEN "w1" ELSE p]

\* A persona in a session that uses two directories and a repository; two
\* personas, one with an MCP server, an ended session and a memory container.
Agent(id, name, builtin) == [id |-> id, name |-> name, builtin |-> builtin]
Persona(id, name, agent, ws) == [id |-> id, name |-> name, agent |-> agent, ws |-> ws]
Mount(persona, path) == [persona |-> persona, path |-> path, position |-> 0]
MCEstablished ==
  LET base == [EmptyDb EXCEPT
        !.agents = {Agent(1, "b1", TRUE), Agent(2, "b2", TRUE), Agent(3, "b3", TRUE),
                    Agent(4, "m", FALSE)},
        !.personas = {Persona(5, "p", 4, "w1")}]
  IN  {[base EXCEPT !.sessions = {[id |-> 6, persona |-> 5, active |-> TRUE]},
                    !.mounts = {Mount(5, "w2")},
                    !.repos = {[persona |-> 5, ws |-> "w1"]}],
       [base EXCEPT !.personas = @ \cup {Persona(7, "q", 1, "w2")},
                    !.servers = {[id |-> 8, persona |-> 5, name |-> "s"]},
                    !.sessions = {[id |-> 6, persona |-> 5, active |-> FALSE]},
                    !.containers = {[persona |-> 5]}]}

\* The export of another installation: its built-in agents have ids of their own,
\* and one persona has its workspace among the additional ones, too.
MCForeign ==
  {[agents |-> {Agent(20, "b1", TRUE), Agent(21, "x", FALSE)},
    personas |-> {Persona(22, "q", 21, "w1"), Persona(23, "r", 20, "w3")},
    servers |-> {}, mounts |-> {Mount(22, "w2"), Mount(23, "w3")}, repos |-> {}]}

PersonaForm(n, w, s, m) == [name |-> n, agent |-> Keep, ws |-> w, servers |-> s, mounts |-> m]
MCCreate ==
  {PersonaForm("q", "w2", <<>>, <<>>), PersonaForm("q", "w1/", <<"s", "s">>, <<>>),
   PersonaForm("r", "w1", <<"s">>, <<"w2", "w3">>)}
MCUpdate ==
  {PersonaForm("q", Keep, Keep, Keep), PersonaForm(Keep, "w2", Keep, Keep),
   PersonaForm(Keep, "w3", Keep, Keep), PersonaForm("r", Keep, <<>>, Keep),
   PersonaForm(Keep, "w2", <<"s", "s">>, <<"w3">>), PersonaForm(Keep, "w1/", Keep, <<"w3">>),
   PersonaForm(Keep, Keep, <<"s", "s">>, <<"w2">>), PersonaForm(Keep, "w3", Keep, <<"w1/">>),
   [PersonaForm(Keep, Keep, Keep, <<>>) EXCEPT !.agent = 3]}
MCImport == [action : {"skip", "overwrite", "rename"}, name : {"r"}]
MCMenu == {{"install", "agents", "exit", "upgrade"}, {"create", "update", "exit"},
           {"update", "delete", "session", "exit"}, {"export", "import", "update"},
           {"import", "create", "delete", "exit"}, {"import", "session", "exit"},
           {"import", "foreign", "agents"}}

\* Commits with and without files, binary files and separators.
Commit(sha, message, files) ==
  [sha |-> sha, message |-> message, author |-> "author", date |-> "date", files |-> files]
MCHistories ==
  LET c1 == Commit("c1", <<Text("m")>>, <<<<1, 0>>, <<2, 3>>>>)
      c2 == Commit("c2", <<Text("merge")>>, <<>>)
      c3 == Commit("c3", <<Text("n")>>, <<<<Binary, Binary>>, <<4, 1>>>>)
      c4 == Commit("c4", <<Text("m"), Sep, Text("n")>>, <<<<1, 1>>>>)
  IN  {<<>>, <<c1>>, <<c4>>}
      \cup {<<a, b, c>> : a \in {c1, c2}, b \in {c2, c3, c4}, c \in {c1, c3}}

Line(says, name) == [says |-> says, name |-> name]
MCCreateOutputs ==
  {[lines |-> before \o told \o after, name |-> "box"] :
     before \in {<<>>, <<Line("other", "pulling")>>, <<Line("other", "pulling"), Line("blank", "")>>},
     told \in {<<Line("word", "box")>>, <<Line("created", "box")>>,
               <<Line("created", "box"), Line("hint", "box")>>,
               <<Line("created", "box"), Line("other", "connect"), Line("old hint", "agent box")>>,
               <<Line("hint", "box")>>, <<Line("old hint", "box"), Line("other", "done")>>},
     after \in {<<>>, <<Line("blank", "")>>}}

\* Requests of sbx create and run; an agent's arguments may look like flags, and
\* a path may end like a read-only mount.
SbxRequest(kits, name, mounts, args) ==
  [kits |-> kits, name |-> name, template |-> name, agent |-> <<"agent">>,
   workspace |-> <<"/w">>, mounts |-> mounts, args |-> args]
MCSbxRequests ==
  {SbxRequest(kits, name, mounts, args) :
     kits \in {<<>>, <<<<"/kit">>>>, <<<<"/kit">>, <<"/mixin">>>>},
     name \in {None, <<"box">>},
     mounts \in UNION {[1..n -> [path : {<<"/a">>, <<"/b">>, <<"/b", ReadOnly>>},
                                readOnly : BOOLEAN]] : n \in 0..2},
     args \in {<<>>, <<<<"--name">>, <<"x">>>>, <<<<"--">>>>}}

Server(name, url, headers) == [name |-> name, url |-> url, headers |-> headers]
MCKitRequests ==
  [name : UNION {[1..n -> {"x", "-", "?"}] : n \in 1..5},
   servers : {<<>>, <<Server("s", "u1", None)>>,
              <<Server("memory", "u2", "h"), Server("s", "u1", "g")>>},
   memory : BOOLEAN,
   container : {[status |-> "running", port |-> 1, token |-> "t"],
                [status |-> "stopped", port |-> 1, token |-> "t"]},
   configPath : {None}]

Port(ip, host, box, protocol) == [ip |-> ip, host |-> host, box |-> box, protocol |-> protocol]
Secret(service, shown, configured) ==
  [service |-> <<service>>, shown |-> shown, configured |-> configured]
Oauth == <<<<"(oauth">>, <<"configured", ")">>>>
Template(tag, ended) ==
  [tag |-> tag, size |-> <<"1GB">>, created |-> <<<<"2">>, <<"days">>, <<ended>>>>]
MCSbxTables ==
  [ports : {<<>>, <<Port(<<"0.0.0.0">>, 8080, 80, "tcp"), Port(<<"", "", "1">>, 53, 53, "udp")>>},
   secrets : {<<>>, <<Secret("github", Oauth, TRUE), Secret("openai", <<>>, FALSE)>>,
              <<Secret("a", <<<<"(not">>, <<"configured", ")">>>>, FALSE),
                Secret(Ruled, <<<<"configured">>>>, TRUE), Secret("b", Oauth, TRUE)>>},
   templates : {<<>>, <<Template(<<"v1">>, "ago"), Template(<<"v", "TAG">>, "ago")>>,
                <<Template(<<"TAG", "2">>, "ago"), Template(<<"v1">>, "found"),
                  Template(<<"a", Ruled, "b">>, "ago"), Template(<<"v2">>, "ago")>>}]

MCUserRules ==
  {Rule(<<"u1">>, "allow", "all", "network", {"host"}),
   Rule(<<"u2">>, "allow", "all", "network", {"0.0.0.0/0"}),
   Rule(<<"u3">>, "deny", "all", "network", {"host", "other"}),
   Rule(<<"u4">>, "allow", "box", "network", {"host", "*"})}
\* A file with a telling name and one without, through two commits.
MCDiffs ==
  LET tree(name) == [{name, "a"} -> {Absent, "text", "secret", "buried", "binary"}]
  IN  UNION {[before : tree(name), after : tree(name)] : name \in {".env", "id.key"}}
MCPersonaNamed == {<<"a">>, <<"a", " ", "a">>, <<"a", "/">>}
MCLeadsTo ==
  [p \in {"/a", "/b", "/link to a", "/a/../b", "/gone"} |->
     IF p \in {"/a", "/link to a"} THEN "A" ELSE IF p = "/gone" THEN Nowhere ELSE "B"]

\* Chunks written and messages typed in a behaviour.
Traffic ==
  MapThenSumSet(LAMBDA p : output[p], Process)
  + MapThenSumSet(LAMBDA v : IF Attached(v) THEN viewer[v].typed ELSE 0, Viewer)

MCSymmetry == Permutations(Slot) \cup Permutations(Viewer)

WorkbenchInit ==
  /\ part \in {"catalog", "terminal", "forms"}
  /\ CatalogInit /\ RelayInit
  /\ part # "catalog" => "install" \in menu
  /\ IF part = "forms" THEN FormsInit ELSE question = [about |-> "nothing"] /\ answer = Unanswered

WorkbenchNext ==
  /\ UNCHANGED part
  /\ \/ part = "catalog" /\ CatalogNext /\ UNCHANGED <<relayVars, formsVars>>
     \/ part = "terminal" /\ RelayNext /\ Traffic' <= MaxTraffic /\ UNCHANGED <<catalogVars, formsVars>>
     \/ part = "forms" /\ FormsNext /\ UNCHANGED <<catalogVars, relayVars>>

WorkbenchSpec == WorkbenchInit /\ [][WorkbenchNext]_<<part, catalogVars, relayVars, formsVars>>

\* Types of the catalog, the terminal and the forms.
TypeOK == CatalogTypeOK /\ RelayTypeOK /\ FormsTypeOK
=============================================================================
