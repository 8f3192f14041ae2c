----------------------------- MODULE SandboxPage -----------------------------
(***************************************************************************)
(* The sandboxes page (routes/sandboxes.rs) beside the sessions.  It       *)
(* stops, starts and removes sandboxes by name and leaves the table of     *)
(* sessions as it is: what it does to a session shows at the next start of *)
(* the application, when recovery looks at the sandboxes again.            *)
(***************************************************************************)
EXTENDS Sessions

CONSTANT MaxPageRequests   \* bound

ASSUME PageConstantsOK == MaxPageRequests \in Nat

VARIABLES
  page,    \* the page's request: the step it is at, its sandbox, what `sbx ls` said
  asked,   \* how many it has made
  alone    \* history: since the last start, nothing but recovery has run

pageVars == <<page, asked, alone, vars>>
NoPage == [at |-> "idle", b |-> NoSandbox, seen |-> "unknown"]

PageInit == Init /\ page = NoPage /\ asked = 0 /\ alone = TRUE

\* The rows that name the sandbox, whatever their status: those of removed
\* sessions keep its name.
NamedBy(b) == {s \in Session : Exists(s) /\ sandbox[s] = b}
Managed(b) == NamedBy(b) # {}

-----------------------------------------------------------------------------
\* A handler first asks `sbx ls` for the name and the state of the sandbox.  The
\* list the user chose from may be old.
AskPage(at, b, states) ==
  /\ page = NoPage
  /\ asked < MaxPageRequests /\ asked' = asked + 1
  /\ box[b] \in states
  /\ page' = [at |-> at, b |-> b, seen |-> box[b]]
  /\ UNCHANGED vars

\* Nothing is done about a sandbox that is stopped or not listed.
AskStop(b)  == AskPage("stop", b, {"running"})
AskStart(b) == AskPage("start", b, {"absent", "stopped", "running"})
AskRemove(b) == AskPage("remove", b, {"absent", "stopped", "running"})

Answer == page' = NoPage /\ UNCHANGED asked

\* The effects on a sandbox: what the session of its name expects is in doubt
\* until the next start.
Meddle(state) ==
  /\ box' = [box EXCEPT ![page.b] = state]
  /\ doubt' = doubt \cup {page.b}
  /\ UNCHANGED <<rows, terminals, late, req, rec, crashes>>

\* The `sbx ls` that follows a stop only words the answer.
PageStop ==
  /\ page.at = "stop"
  /\ Meddle(IF box[page.b] = "running" THEN "stopped" ELSE box[page.b])
  /\ Answer

PageRemove ==
  /\ page.at = "remove"
  /\ Meddle("absent")
  /\ Answer

\* The command fails.  One that is given up goes on by itself: that it takes
\* effect later is a later step of the request.
Commands == [stop |-> "stop", remove |-> "rm", run |-> "create"]
PageFails ==
  /\ page.at \in DOMAIN Commands /\ Commands[page.at] \in MayFail
  /\ Answer
  /\ UNCHANGED vars

\* start looks for a session of the sandbox, for the agent and the workspace of
\* its persona.
PageFindsSession ==
  /\ page.at = "start"
  /\ IF Managed(page.b) THEN page' = [page EXCEPT !.at = "run"] /\ UNCHANGED asked ELSE Answer
  /\ UNCHANGED vars

\* A listed sandbox is attached to again, with `sbx run --name`.
PageReattach ==
  /\ page.at = "run" /\ page.seen # "absent"
  /\ Meddle(IF box[page.b] = "stopped" THEN "running" ELSE box[page.b])
  /\ Answer

\* One that is not listed is replaced by another, which no row names.
PageRunsAnother ==
  /\ page.at = "run" /\ page.seen = "absent"
  /\ \E b \in Sandbox :
       /\ box[b] = "absent"
       /\ box' = [box EXCEPT ![b] = "running"]
       /\ doubt' = doubt \cup {b}
  /\ Answer
  /\ UNCHANGED <<rows, terminals, late, req, rec, crashes>>

PageActs ==
  \/ \E b \in Sandbox : AskStop(b) \/ AskStart(b) \/ AskRemove(b)
  \/ PageStop \/ PageRemove \/ PageFails
  \/ PageFindsSession \/ PageReattach \/ PageRunsAnother

-----------------------------------------------------------------------------
OthersStep ==
  \/ \E r \in Request, s \in Session :
       Start(r, s) \/ Resume(r, s) \/ Stop(r, s) \/ Remove(r, s)
  \/ \E r \in Request : Handle(r)
  \/ DeletePersona \/ CreatePersona
  \/ \E s \in Session : ChildExits(s)
  \/ \E c \in late : LateCommand(c)

\* An exit ends the page's request with the others, but not the command of sbx it
\* waits for.
RestartAll ==
  /\ Restart
  /\ page' \in {NoPage} \cup (IF page.at \in DOMAIN Commands THEN {page} ELSE {})
  /\ alone' = TRUE
  /\ UNCHANGED asked

PageNext ==
  \/ PageActs /\ alone' = FALSE
  \/ OthersStep /\ alone' = FALSE /\ UNCHANGED <<page, asked>>
  \/ Recovery /\ UNCHANGED <<page, asked, alone>>
  \/ RestartAll

PageSpec == PageInit /\ [][PageNext]_pageVars

-----------------------------------------------------------------------------
\* However the application ended and whatever the page did to the sandboxes
\* before, once recovery has run undisturbed the rows are right about them: a
\* running session has a terminal on a running sandbox, a stopped one still has
\* its sandbox, and none is starting.
RecoveryAgrees ==
  alone /\ rec.at = "done" =>
    \A s \in Session :
      /\ status[s] = "running" => pty[s] = "live" /\ box[sandbox[s]] = "running"
      /\ status[s] = "stopped" => sandbox[s] # NoSandbox /\ box[sandbox[s]] # "absent"
      /\ status[s] # "starting"

\* With nothing under way, no two sessions that are not removed name the same
\* sandbox, though its name is free again once it is gone, unless one of its
\* commands went wrong or the page had its hand in it.
SandboxesApart ==
  Settled => \A b \in Sandbox \ doubt :
    \A s, t \in {x \in NamedBy(b) : status[x] # "removed"} : s = t
=============================================================================
