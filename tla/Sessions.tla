------------------------------ MODULE Sessions ------------------------------
(***************************************************************************)
(* SessionManager (session_manager.rs) with the parts it drives: the       *)
(* sessions table (db_ops.rs), the map of terminals (pty_bridge.rs), the   *)
(* kit directories (kit_generator.rs) and the sandboxes behind the sbx     *)
(* command line tool (sbx.rs).                                             *)
(*                                                                         *)
(* An HTTP request is a process r \in Request.  Its handler runs from one  *)
(* await, database call or blocking task to the next as one step, keeping  *)
(* what it read in req[r]; any other handler, the recovery task, a child   *)
(* process or a late sbx command may run in between.  Every database call  *)
(* is one step: with_conn holds the only connection for its duration.      *)
(***************************************************************************)
EXTENDS Naturals

CONSTANTS
  Session,      \* session ids (UUIDs: an id is given to one start only)
  Sandbox,      \* sandbox names; sbx may reuse the name of a removed sandbox
  Request,      \* HTTP requests handled at the same time
  NoSession,    \* the session of an idle request
  NoSandbox,    \* sandbox_id = NULL
  MayFail,      \* the outside calls that may fail in this instance
  MaxCrashes,   \* bound: how often the application exits and starts again
  OneAtATime    \* TRUE: requests come as SessionsPage sends them, see Admit

Failure == {"create", "stop", "rm", "ls", "pty", "kit", "timeout"}

ASSUME ConstantsOK ==
  /\ NoSession \notin Session
  /\ NoSandbox \notin Sandbox
  /\ MayFail \subseteq Failure
  /\ MaxCrashes \in Nat
  /\ OneAtATime \in BOOLEAN

VARIABLES
  persona,   \* does the persona the sessions belong to exist?
  status,    \* sessions.status; "unused": not inserted yet, "deleted": row gone
  sandbox,   \* sessions.sandbox_id
  kit,       \* is the session's kit directory on disk?
  pty,       \* PtyBridge.sessions: no entry, an entry with a live or dead child
  stray,     \* is a child of the session alive that the map no longer holds?
  box,       \* the sandboxes, as `sbx ls` reports them
  late,      \* sbx commands still running though nobody waits for them
  doubt,     \* history: sandboxes of a command that failed, was cut short by an
             \* exit or outlived its timeout, or whose persona was deleted
  req,       \* per request: the step it is at, its session, the sandbox it read
  rec,       \* the recovery task
  crashes    \* how often the application has been restarted

rows      == <<persona, status, sandbox, kit>>
terminals == <<pty, stray>>
outside   == <<box, late, doubt>>
vars      == <<rows, terminals, outside, req, rec, crashes>>

Status == {"unused", "starting", "running", "stopped", "failed", "removed", "deleted"}
Active == {"starting", "running"}

SandboxOrNone == Sandbox \cup {NoSandbox}

Step == {"idle", "insert", "create", "record", "spawn", "attach", "mark_running",
         "stop_kill", "stop_sandbox", "mark_stopped",
         "remove_kill", "remove_sandbox", "clean_kit", "mark_removed"}

Idle == [at |-> "idle", s |-> NoSession, b |-> NoSandbox]

Booting == [at |-> "list", todo |-> {}, s |-> NoSession, b |-> NoSandbox,
            seen |-> "unknown", listing |-> {}]

RequestState == [at : Step, s : Session \cup {NoSession}, b : SandboxOrNone]

RecoveryState ==
  [at : {"list", "each", "act", "rm", "spawn", "attach", "mark", "select", "sweep", "done"},
   todo : SUBSET (Session \X SandboxOrNone),
   s : Session \cup {NoSession},
   b : SandboxOrNone,
   seen : {"unknown", "error", "absent", "stopped", "running"},
   listing : SUBSET Sandbox]

Command == {"create", "stop", "rm"} \X SandboxOrNone

(***************************************************************************)
(* Type invariant.                                                         *)
(***************************************************************************)
TypeOK ==
  /\ persona \in BOOLEAN
  /\ status \in [Session -> Status]
  /\ sandbox \in [Session -> SandboxOrNone]
  /\ kit \in [Session -> BOOLEAN]
  /\ pty \in [Session -> {"none", "live", "dead"}]
  /\ stray \in [Session -> BOOLEAN]
  /\ box \in [Sandbox -> {"absent", "stopped", "running"}]
  /\ late \subseteq Command
  /\ doubt \subseteq Sandbox
  /\ req \in [Request -> RequestState]
  /\ rec \in RecoveryState
  /\ crashes \in 0..MaxCrashes

Init ==
  /\ persona = TRUE
  /\ status = [s \in Session |-> "unused"]
  /\ sandbox = [s \in Session |-> NoSandbox]
  /\ kit = [s \in Session |-> FALSE]
  /\ pty = [s \in Session |-> "none"]
  /\ stray = [s \in Session |-> FALSE]
  /\ box = [b \in Sandbox |-> "absent"]
  /\ late = {}
  /\ doubt = {}
  /\ req = [r \in Request |-> Idle]
  /\ rec = Booting
  /\ crashes = 0

-----------------------------------------------------------------------------
(***************************************************************************)
(* The sessions table.  An UPDATE or a DELETE of a row that is gone        *)
(* changes nothing (update_session_status then returns NotFound).          *)
(***************************************************************************)
Exists(s) == status[s] \notin {"unused", "deleted"}

\* Mutants: a status the other parts do not know; an update that inserts.
SetStatusError(s, new) ==
  status' = IF Exists(s) THEN [status EXCEPT ![s] = IF new = "failed" THEN "error" ELSE new]
            ELSE status

SetStatusUpsert(s, new) == status' = [status EXCEPT ![s] = new]

SetStatus(s, new) ==
  status' = IF Exists(s) THEN [status EXCEPT ![s] = new] ELSE status

DeleteRows(S) ==
  /\ status'  = [s \in Session |-> IF s \in S /\ Exists(s) THEN "deleted" ELSE status[s]]
  /\ sandbox' = [s \in Session |-> IF s \in S THEN NoSandbox ELSE sandbox[s]]

\* A new entry of the map of terminals; the child of an entry it overwrites runs on.
InsertPty(s, alive) ==
  /\ pty' = [pty EXCEPT ![s] = IF alive THEN "live" ELSE "dead"]
  /\ stray' = [stray EXCEPT ![s] = stray[s] \/ pty[s] = "live"]

(***************************************************************************)
(* Requests, and the recovery task.                                        *)
(***************************************************************************)
RecStep(step) == rec' = [rec EXCEPT !.at = step]

RecNext == rec' = [rec EXCEPT !.at = "each", !.s = NoSession, !.b = NoSandbox,
                              !.seen = "unknown"]

At(r, step) == req[r].at = step

Goto(r, step) == req' = [req EXCEPT ![r] = [@ EXCEPT !.at = step]]

Finish(r) == req' = [req EXCEPT ![r] = Idle]

Settled == rec.at = "done" /\ \A r \in Request : At(r, "idle")

\* A handler starts.  The server takes any request at any time.  SessionsPage,
\* used by one patient user, sends one when recovery is over and no other
\* request about that session is under way.
Admit(r, s) ==
  /\ At(r, "idle")
  /\ OneAtATime => rec.at = "done" /\ \A q \in Request : req[q].s # s

\* What SessionsPage offers for a row, when requests come from it.
Offered(s, from) == OneAtATime => status[s] \in from

-----------------------------------------------------------------------------
(***************************************************************************)
(* Mutants: the slips that the properties below are there to notice.       *)
(***************************************************************************)
\* start attaches before it records the sandbox id.
CreateUnrecorded(r) ==
  /\ At(r, "create")
  /\ \E b \in Sandbox :
       /\ box[b] = "absent"
       /\ box' = [box EXCEPT ![b] = "stopped"]
       /\ req' = [req EXCEPT ![r] = [@ EXCEPT !.at = "spawn", !.b = b]]
  /\ UNCHANGED <<rows, terminals, late, doubt, rec, crashes>>

\* The name read from the output of `sbx create` is that of another sandbox.
CreateNamesAnother(r) ==
  /\ At(r, "create")
  /\ \E b, other \in Sandbox :
       /\ box[b] = "absent"
       /\ box' = [box EXCEPT ![b] = "stopped"]
       /\ req' = [req EXCEPT ![r] = [at |-> "record", s |-> req[r].s, b |-> other]]
  /\ UNCHANGED <<rows, terminals, late, doubt, rec, crashes>>

\* A failed creation returns its error and leaves the row starting.
CreateFailsSilently(r) ==
  /\ At(r, "create")
  /\ \/ "create" \in MayFail /\ UNCHANGED late
     \/ "timeout" \in MayFail /\ late' = late \cup {<<"create", NoSandbox>>}
  /\ Finish(r)
  /\ UNCHANGED <<rows, terminals, box, doubt, rec, crashes>>

\* resume does not check the status it read.
ResumeAnyStatus(r, s) ==
  /\ Admit(r, s)
  /\ Exists(s)
  /\ sandbox[s] # NoSandbox
  /\ req' = [req EXCEPT ![r] = [at |-> "spawn", s |-> s, b |-> sandbox[s]]]
  /\ UNCHANGED <<rows, terminals, outside, rec, crashes>>

\* kill ends the child and keeps the entry.
KillKeepsEntry(r) ==
  /\ At(r, "stop_kill") \/ At(r, "remove_kill")
  /\ pty' = [pty EXCEPT ![req[r].s] = IF @ = "live" THEN "dead" ELSE @]
  /\ Goto(r, IF At(r, "stop_kill") THEN "stop_sandbox"
             ELSE IF req[r].b = NoSandbox THEN "clean_kit" ELSE "remove_sandbox")
  /\ UNCHANGED <<rows, stray, outside, rec, crashes>>

\* stop ends the terminal and leaves the sandbox running.
KillIsEnough(r) ==
  /\ At(r, "stop_kill") \/ At(r, "remove_kill")
  /\ pty' = [pty EXCEPT ![req[r].s] = "none"]
  /\ Goto(r, IF At(r, "stop_kill") THEN "mark_stopped"
             ELSE IF req[r].b = NoSandbox THEN "clean_kit" ELSE "remove_sandbox")
  /\ UNCHANGED <<rows, stray, outside, rec, crashes>>

\* stop removes the sandbox too, as the help page has it.
StopAndRemove(r) ==
  /\ At(r, "stop_sandbox")
  /\ box' = [box EXCEPT ![req[r].b] = "absent"]
  /\ Goto(r, "mark_stopped")
  /\ UNCHANGED <<rows, terminals, late, doubt, rec, crashes>>

\* stop clears the sandbox id of the row.
MarkStoppedForgets(r) ==
  /\ At(r, "mark_stopped")
  /\ SetStatus(req[r].s, "stopped")
  /\ sandbox' = [sandbox EXCEPT ![req[r].s] = NoSandbox]
  /\ Finish(r)
  /\ UNCHANGED <<persona, kit, terminals, outside, rec, crashes>>

\* The kit is left behind, its error ignored like that of `sbx rm`.
CleanKitIgnored(r) ==
  /\ At(r, "clean_kit")
  /\ Goto(r, "mark_removed")
  /\ UNCHANGED <<rows, terminals, outside, rec, crashes>>

\* Recovery lists the rows that say running and forgets those that say starting.
RecoverListRunning ==
  /\ rec.at = "list"
  /\ rec' = [rec EXCEPT !.at = "each",
       !.todo = {<<s, sandbox[s]>> : s \in {x \in Session : status[x] = "running"}}]
  /\ UNCHANGED <<rows, terminals, outside, req, crashes>>

\* Recovery takes a stopped sandbox for a missing one.
RecoverStoppedAsMissing ==
  /\ rec.at = "act"
  /\ rec.seen \in {"stopped", "error"}
  /\ DeleteRows({rec.s})
  /\ RecNext
  /\ UNCHANGED <<persona, kit, terminals, outside, req, crashes>>

\* A failed reattachment leaves the row as it is.
RecoverFailsSilently ==
  /\ \/ rec.at = "spawn" /\ pty[rec.s] # "none"
     \/ rec.at = "attach" /\ "pty" \in MayFail
  /\ RecNext
  /\ UNCHANGED <<rows, terminals, outside, req, crashes>>

-----------------------------------------------------------------------------
(***************************************************************************)
(* SessionManager::start.  The persona is read; after its memory container *)
(* has been seen to, the kit is generated and the row inserted; then come  *)
(* `sbx create`, the sandbox id, the terminal and the final status, each a *)
(* step of its own.                                                        *)
(***************************************************************************)
Start(r, s) ==
  /\ Admit(r, s)
  /\ persona
  /\ status[s] = "unused" /\ ~kit[s]
  /\ \A q \in Request : req[q].s # s
  /\ req' = [req EXCEPT ![r] = [at |-> "insert", s |-> s, b |-> NoSandbox]]
  /\ UNCHANGED <<rows, terminals, outside, rec, crashes>>

\* The foreign key refuses the row of a persona deleted meanwhile; its kit stays.
InsertSession(r) ==
  /\ At(r, "insert")
  /\ kit' = [kit EXCEPT ![req[r].s] = TRUE]
  /\ IF persona
     THEN status' = [status EXCEPT ![req[r].s] = "starting"] /\ Goto(r, "create")
     ELSE Finish(r) /\ UNCHANGED status
  /\ UNCHANGED <<persona, sandbox, terminals, outside, rec, crashes>>

CreateSandbox(r) ==
  /\ At(r, "create")
  /\ \E b \in Sandbox :
       /\ box[b] = "absent"
       /\ box' = [box EXCEPT ![b] = "stopped"]
       /\ req' = [req EXCEPT ![r] = [at |-> "record", s |-> req[r].s, b |-> b]]
  /\ UNCHANGED <<rows, terminals, late, doubt, rec, crashes>>

\* An error or a timeout of `sbx create`: the row is marked failed.  The timeout
\* abandons the command, which is not killed and may still create a sandbox.
CreateFails(r) ==
  /\ At(r, "create")
  /\ \/ "create" \in MayFail /\ UNCHANGED late
     \/ "timeout" \in MayFail /\ late' = late \cup {<<"create", NoSandbox>>}
  /\ SetStatus(req[r].s, "failed")
  /\ Finish(r)
  /\ UNCHANGED <<persona, sandbox, kit, terminals, box, doubt, rec, crashes>>

RecordSandbox(r) ==
  /\ At(r, "record")
  /\ Exists(req[r].s)
  /\ sandbox' = [sandbox EXCEPT ![req[r].s] = req[r].b]
  /\ Goto(r, "spawn")
  /\ UNCHANGED <<persona, status, kit, terminals, outside, rec, crashes>>

\* The row is gone: the request ends, the sandbox it created stays.
RecordRefused(r) ==
  /\ At(r, "record")
  /\ ~Exists(req[r].s)
  /\ Finish(r)
  /\ UNCHANGED <<rows, terminals, outside, rec, crashes>>

(***************************************************************************)
(* PtyBridge::spawn: the map is looked up first and the new entry inserted *)
(* after the child has been spawned, with no lock held in between.  The    *)
(* child of `sbx run` starts its sandbox; a child whose sandbox is gone    *)
(* exits at once.                                                          *)
(***************************************************************************)
SpawnPty(r) ==
  /\ At(r, "spawn")
  /\ pty[req[r].s] = "none"
  /\ Goto(r, "attach")
  /\ UNCHANGED <<rows, terminals, outside, rec, crashes>>

SpawnRefused(r) ==
  /\ At(r, "spawn")
  /\ pty[req[r].s] # "none"
  /\ Finish(r)
  /\ UNCHANGED <<rows, terminals, outside, rec, crashes>>

AttachPty(r) ==
  /\ At(r, "attach")
  /\ LET b == req[r].b IN
       /\ InsertPty(req[r].s, box[b] # "absent")
       /\ box' = [box EXCEPT ![b] = IF @ = "stopped" THEN "running" ELSE @]
  /\ Goto(r, "mark_running")
  /\ UNCHANGED <<rows, late, doubt, rec, crashes>>

\* The `??` of start and resume: the error is returned, the row left as it is.
AttachFails(r) ==
  /\ At(r, "attach")
  /\ "pty" \in MayFail
  /\ Finish(r)
  /\ UNCHANGED <<rows, terminals, outside, rec, crashes>>

MarkRunning(r) ==
  /\ At(r, "mark_running")
  /\ SetStatus(req[r].s, "running")
  /\ Finish(r)
  /\ UNCHANGED <<persona, sandbox, kit, terminals, outside, rec, crashes>>

-----------------------------------------------------------------------------
(***************************************************************************)
(* SessionManager::resume and ::stop.  resume checks the status it read;   *)
(* stop does not look at it.                                               *)
(***************************************************************************)
Resume(r, s) ==
  /\ Admit(r, s)
  /\ status[s] = "stopped"
  /\ sandbox[s] # NoSandbox
  /\ req' = [req EXCEPT ![r] = [at |-> "spawn", s |-> s, b |-> sandbox[s]]]
  /\ UNCHANGED <<rows, terminals, outside, rec, crashes>>

Stop(r, s) ==
  /\ Admit(r, s)
  /\ Exists(s)
  /\ Offered(s, Active)
  /\ req' = [req EXCEPT ![r] =
       [at |-> IF sandbox[s] = NoSandbox THEN "mark_stopped" ELSE "stop_kill",
        s |-> s, b |-> sandbox[s]]]
  /\ UNCHANGED <<rows, terminals, outside, rec, crashes>>

\* PtyBridge::kill, from stop and from remove: the entry leaves the map and its
\* child is killed; a missing entry is an error both callers ignore.
KillPty(r) ==
  /\ At(r, "stop_kill") \/ At(r, "remove_kill")
  /\ pty' = [pty EXCEPT ![req[r].s] = "none"]
  /\ Goto(r, IF At(r, "stop_kill") THEN "stop_sandbox"
             ELSE IF req[r].b = NoSandbox THEN "clean_kit" ELSE "remove_sandbox")
  /\ UNCHANGED <<rows, stray, outside, rec, crashes>>

StopSandbox(r) ==
  /\ At(r, "stop_sandbox")
  /\ box' = [box EXCEPT ![req[r].b] = IF @ = "running" THEN "stopped" ELSE @]
  /\ Goto(r, "mark_stopped")
  /\ UNCHANGED <<rows, terminals, late, doubt, rec, crashes>>

\* A failed or timed out `sbx stop` is a warning: the row is marked all the same.
StopFails(r) ==
  /\ At(r, "stop_sandbox")
  /\ \/ "stop" \in MayFail /\ UNCHANGED late
     \/ "timeout" \in MayFail /\ late' = late \cup {<<"stop", req[r].b>>}
  /\ doubt' = doubt \cup {req[r].b}
  /\ Goto(r, "mark_stopped")
  /\ UNCHANGED <<rows, terminals, box, rec, crashes>>

MarkStopped(r) ==
  /\ At(r, "mark_stopped")
  /\ SetStatus(req[r].s, "stopped")
  /\ Finish(r)
  /\ UNCHANGED <<persona, sandbox, kit, terminals, outside, rec, crashes>>

-----------------------------------------------------------------------------
(***************************************************************************)
(* SessionManager::remove.                                                 *)
(***************************************************************************)
Remove(r, s) ==
  /\ Admit(r, s)
  /\ Exists(s)
  /\ Offered(s, {"stopped"})
  /\ req' = [req EXCEPT ![r] = [at |-> "remove_kill", s |-> s, b |-> sandbox[s]]]
  /\ UNCHANGED <<rows, terminals, outside, rec, crashes>>

RemoveSandbox(r) ==
  /\ At(r, "remove_sandbox")
  /\ box' = [box EXCEPT ![req[r].b] = "absent"]
  /\ Goto(r, "clean_kit")
  /\ UNCHANGED <<rows, terminals, late, doubt, rec, crashes>>

RemoveFails(r) ==
  /\ At(r, "remove_sandbox")
  /\ \/ "rm" \in MayFail /\ UNCHANGED late
     \/ "timeout" \in MayFail /\ late' = late \cup {<<"rm", req[r].b>>}
  /\ doubt' = doubt \cup {req[r].b}
  /\ Goto(r, "clean_kit")
  /\ UNCHANGED <<rows, terminals, box, rec, crashes>>

\* KitGenerator::cleanup; its error ends the request before the row is marked,
\* with the sandbox gone.
CleanKit(r) ==
  /\ At(r, "clean_kit")
  /\ kit' = [kit EXCEPT ![req[r].s] = FALSE]
  /\ Goto(r, "mark_removed")
  /\ UNCHANGED <<persona, status, sandbox, terminals, outside, rec, crashes>>

CleanKitFails(r) ==
  /\ At(r, "clean_kit")
  /\ "kit" \in MayFail
  /\ doubt' = doubt \cup ({req[r].b} \cap Sandbox)
  /\ Finish(r)
  /\ UNCHANGED <<rows, terminals, box, late, rec, crashes>>

MarkRemoved(r) ==
  /\ At(r, "mark_removed")
  /\ SetStatus(req[r].s, "removed")
  /\ Finish(r)
  /\ UNCHANGED <<persona, sandbox, kit, terminals, outside, rec, crashes>>

-----------------------------------------------------------------------------
(***************************************************************************)
(* PersonaManager::delete and ::create, as far as the sessions table goes: *)
(* a persona is deleted with all the rows of its sessions, in one critical *)
(* section, when none of them is active.  Nothing removes the sandboxes    *)
(* and kits of those sessions.                                             *)
(***************************************************************************)
DeletePersona ==
  /\ OneAtATime => Settled
  /\ persona
  /\ \A s \in Session : status[s] \notin Active
  /\ persona' = FALSE
  /\ DeleteRows(Session)
  /\ doubt' = doubt \cup {b \in Sandbox : \E s \in Session : sandbox[s] = b}
  /\ UNCHANGED <<kit, terminals, box, late, req, rec, crashes>>

\* A new persona is another persona: it appears when no handler holds the old one.
CreatePersona ==
  /\ ~persona
  /\ \A r \in Request : ~At(r, "insert")
  /\ persona' = TRUE
  /\ UNCHANGED <<status, sandbox, kit, terminals, outside, req, rec, crashes>>

-----------------------------------------------------------------------------
(***************************************************************************)
(* SessionManager::recover_sessions, a background task started with the    *)
(* server.  It works through the rows that were active when it listed      *)
(* them, with the sandbox id they had then; the code goes newest first,    *)
(* the model takes any order.                                              *)
(***************************************************************************)
RecoverList ==
  /\ rec.at = "list"
  /\ rec' = [rec EXCEPT !.at = "each",
       !.todo = {<<s, sandbox[s]>> : s \in {x \in Session : status[x] \in Active}}]
  /\ UNCHANGED <<rows, terminals, outside, req, crashes>>

\* No sandbox id in the listed row: the row is deleted.
RecoverUnrecorded ==
  /\ rec.at = "each"
  /\ \E e \in rec.todo :
       /\ e[2] = NoSandbox
       /\ DeleteRows({e[1]})
       /\ rec' = [rec EXCEPT !.todo = @ \ {e}]
  /\ UNCHANGED <<persona, kit, terminals, outside, req, crashes>>

\* check_sandbox_status: what `sbx ls` reports, or that it failed.
RecoverLook ==
  /\ rec.at = "each"
  /\ \E e \in rec.todo, answer \in {"absent", "stopped", "running", "error"} :
       /\ e[2] # NoSandbox
       /\ answer = box[e[2]] \/ (answer = "error" /\ "ls" \in MayFail)
       /\ rec' = [rec EXCEPT !.at = "act", !.todo = @ \ {e}, !.s = e[1], !.b = e[2],
                             !.seen = answer]
  /\ UNCHANGED <<rows, terminals, outside, req, crashes>>

\* The answer is acted upon.  After an error the row is marked stopped too,
\* although the recorded reason says it is left as it is.
RecoverStopped ==
  /\ rec.at = "act"
  /\ rec.seen \in {"stopped", "error"}
  /\ SetStatus(rec.s, "stopped")
  /\ RecNext
  /\ UNCHANGED <<persona, sandbox, kit, terminals, outside, req, crashes>>

RecoverMissing ==
  /\ rec.at = "act"
  /\ rec.seen = "absent"
  /\ DeleteRows({rec.s})
  /\ RecStep("rm")
  /\ UNCHANGED <<persona, kit, terminals, outside, req, crashes>>

RecoverRunning ==
  /\ rec.at = "act"
  /\ rec.seen = "running"
  /\ RecStep("spawn")
  /\ UNCHANGED <<rows, terminals, outside, req, crashes>>

\* The best-effort `sbx rm` of a sandbox that `sbx ls` did not list.
RecoverRm ==
  /\ rec.at = "rm"
  /\ \/ box' = [box EXCEPT ![rec.b] = "absent"] /\ UNCHANGED <<late, doubt>>
     \/ "rm" \in MayFail /\ doubt' = doubt \cup {rec.b} /\ UNCHANGED <<box, late>>
     \/ /\ "timeout" \in MayFail
        /\ late' = late \cup {<<"rm", rec.b>>}
        /\ doubt' = doubt \cup {rec.b}
        /\ UNCHANGED box
  /\ RecNext
  /\ UNCHANGED <<rows, terminals, req, crashes>>

\* Reattachment with `sbx exec -it`, which needs a running sandbox.
RecoverSpawn ==
  /\ rec.at = "spawn"
  /\ pty[rec.s] = "none"
  /\ RecStep("attach")
  /\ UNCHANGED <<rows, terminals, outside, req, crashes>>

RecoverAttach ==
  /\ rec.at = "attach"
  /\ InsertPty(rec.s, box[rec.b] = "running")
  /\ RecStep("mark")
  /\ UNCHANGED <<rows, outside, req, crashes>>

RecoverMark ==
  /\ rec.at = "mark"
  /\ SetStatus(rec.s, "running")
  /\ RecNext
  /\ UNCHANGED <<persona, sandbox, kit, terminals, outside, req, crashes>>

\* The terminal could not be spawned: an entry is in the map, or the PTY failed.
RecoverFails ==
  /\ \/ rec.at = "spawn" /\ pty[rec.s] # "none"
     \/ rec.at = "attach" /\ "pty" \in MayFail
  /\ SetStatus(rec.s, "failed")
  /\ RecNext
  /\ UNCHANGED <<persona, sandbox, kit, terminals, outside, req, crashes>>

(***************************************************************************)
(* cleanup_orphaned_stopped_sessions: the sandboxes are listed, then the   *)
(* stopped rows read, then those whose sandbox is not in the listing are   *)
(* deleted one by one, whatever has become of them.                        *)
(***************************************************************************)
CleanupList ==
  /\ rec.at = "each"
  /\ rec.todo = {}
  /\ rec' = [rec EXCEPT !.at = "select", !.listing = {b \in Sandbox : box[b] # "absent"}]
  /\ UNCHANGED <<rows, terminals, outside, req, crashes>>

CleanupSkipped ==
  /\ rec.at = "each"
  /\ rec.todo = {}
  /\ "ls" \in MayFail
  /\ RecStep("done")
  /\ UNCHANGED <<rows, terminals, outside, req, crashes>>

CleanupSelect ==
  /\ rec.at = "select"
  /\ rec' = [rec EXCEPT !.at = "sweep",
       !.todo = {<<s, sandbox[s]>> : s \in {x \in Session : status[x] = "stopped"}}]
  /\ UNCHANGED <<rows, terminals, outside, req, crashes>>

CleanupSweep ==
  /\ rec.at = "sweep"
  /\ \E e \in rec.todo :
       /\ rec' = [rec EXCEPT !.todo = @ \ {e}]
       /\ IF e[2] \in rec.listing
          THEN UNCHANGED <<status, sandbox>>
          ELSE DeleteRows({e[1]})
  /\ UNCHANGED <<persona, kit, terminals, outside, req, crashes>>

RecoverDone ==
  /\ rec.at = "sweep"
  /\ rec.todo = {}
  /\ rec' = [rec EXCEPT !.at = "done", !.listing = {}]
  /\ UNCHANGED <<rows, terminals, outside, req, crashes>>

-----------------------------------------------------------------------------
(***************************************************************************)
(* What happens outside the server.                                        *)
(***************************************************************************)
\* The child of a terminal exits (the agent quits).  The reader thread ends; the
\* entry stays in the map and the row as it is.
ChildExits(s) ==
  /\ \/ pty[s] = "live" /\ pty' = [pty EXCEPT ![s] = "dead"] /\ UNCHANGED stray
     \/ stray[s] /\ stray' = [stray EXCEPT ![s] = FALSE] /\ UNCHANGED pty
  /\ UNCHANGED <<rows, outside, req, rec, crashes>>

\* A command that nobody waits for any more takes effect, or never does.
LateCommand(c) ==
  /\ c \in late
  /\ late' = late \ {c}
  /\ \/ UNCHANGED <<box, doubt>>
     \/ /\ c[1] = "create"
        /\ \E b \in Sandbox :
             /\ box[b] = "absent"
             /\ box' = [box EXCEPT ![b] = "stopped"]
             /\ doubt' = doubt \cup {b}
     \/ /\ c[1] = "stop"
        /\ box[c[2]] = "running"
        /\ box' = [box EXCEPT ![c[2]] = "stopped"]
        /\ UNCHANGED doubt
     \/ /\ c[1] = "rm"
        /\ box' = [box EXCEPT ![c[2]] = "absent"]
        /\ UNCHANGED doubt
  /\ UNCHANGED <<rows, terminals, req, rec, crashes>>

\* The application exits, at any point, and is started again.  The handlers, the
\* recovery task and the terminals are gone; an sbx command that was running may
\* finish by itself; the table is what the last completed call left.
InFlight ==
  {<<"create", NoSandbox>> : r \in {q \in Request : At(q, "create")}}
    \cup {<<"stop", req[r].b>> : r \in {q \in Request : At(q, "stop_sandbox")}}
    \cup {<<"rm", req[r].b>> : r \in {q \in Request : At(q, "remove_sandbox")}}
    \cup {<<"rm", b>> : b \in IF rec.at = "rm" THEN {rec.b} ELSE {}}

Restart ==
  /\ crashes < MaxCrashes
  /\ crashes' = crashes + 1
  /\ late' = late \cup InFlight
  /\ doubt' = doubt \cup {b \in Sandbox : \E r \in Request : req[r].b = b}
  /\ pty' = [s \in Session |-> "none"]
  /\ stray' = [s \in Session |-> FALSE]
  /\ req' = [r \in Request |-> Idle]
  /\ rec' = Booting
  /\ UNCHANGED <<rows, box>>

-----------------------------------------------------------------------------
Handle(r) ==
  \/ InsertSession(r) \/ CreateSandbox(r) \/ CreateFails(r)
  \/ RecordSandbox(r) \/ RecordRefused(r) \/ SpawnPty(r) \/ SpawnRefused(r)
  \/ AttachPty(r) \/ AttachFails(r) \/ MarkRunning(r)
  \/ KillPty(r) \/ StopSandbox(r) \/ StopFails(r) \/ MarkStopped(r)
  \/ RemoveSandbox(r) \/ RemoveFails(r) \/ CleanKit(r) \/ CleanKitFails(r)
  \/ MarkRemoved(r)

Recovery ==
  \/ RecoverList \/ RecoverUnrecorded \/ RecoverLook
  \/ RecoverStopped \/ RecoverMissing \/ RecoverRunning \/ RecoverRm
  \/ RecoverSpawn \/ RecoverAttach \/ RecoverMark \/ RecoverFails
  \/ CleanupList \/ CleanupSkipped \/ CleanupSelect \/ CleanupSweep \/ RecoverDone

Next ==
  \/ \E r \in Request, s \in Session :
       Start(r, s) \/ Resume(r, s) \/ Stop(r, s) \/ Remove(r, s)
  \/ \E r \in Request : Handle(r)
  \/ DeletePersona \/ CreatePersona
  \/ Recovery
  \/ \E s \in Session : ChildExits(s)
  \/ \E c \in late : LateCommand(c)
  \/ Restart

\* Handlers and the recovery task are tasks of the tokio runtime and every sbx
\* command they wait for is bounded by a timeout: each keeps going.  Nothing is
\* assumed of users, of child processes or of abandoned commands.
Fairness ==
  /\ \A r \in Request : WF_vars(Handle(r))
  /\ WF_vars(Recovery)

Spec == Init /\ [][Next]_vars /\ Fairness

-----------------------------------------------------------------------------
(***************************************************************************)
(* Properties, whatever the requests and their interleaving.               *)
(***************************************************************************)
\* A row that says running names its sandbox: start records the sandbox before it
\* marks the row, nothing unrecords it, and no late update revives a deleted row.
RunningHasSandbox ==
  \A s \in Session : status[s] = "running" => sandbox[s] # NoSandbox

\* A terminal is spawned on the sandbox its row names, as long as the row exists,
\* though the handler or the recovery task read the row long before.
TerminalOnOwnSandbox ==
  /\ \A r \in Request :
       req[r].at \in {"spawn", "attach", "mark_running"} /\ Exists(req[r].s)
         => sandbox[req[r].s] = req[r].b /\ req[r].b # NoSandbox
  /\ rec.at \in {"spawn", "attach", "mark"} /\ Exists(rec.s)
       => sandbox[rec.s] = rec.b /\ rec.b # NoSandbox

\* A kit directory is removed only on the way to a removed row, after the last
\* attempt at the sandbox: a row marked removed leaves no kit behind.
RemovedHasNoKit ==
  \A s \in Session : status[s] = "removed" => ~kit[s]

\* A sandbox id, once recorded, stays until the row is deleted, and a deleted row
\* never comes back, though handlers that read it earlier still write to it.
RowStep ==
  \A s \in Session :
    /\ sandbox[s] # NoSandbox => sandbox'[s] = sandbox[s] \/ status'[s] = "deleted"
    /\ status[s] = "deleted" => status'[s] = "deleted"

RowHistory == [][RowStep]_vars

\* A session does not stay starting, whatever is asked of it while it starts and
\* whenever the application exits, as long as its terminal can be spawned.
StartingResolves ==
  \A s \in Session : status[s] = "starting" ~> status[s] # "starting"

-----------------------------------------------------------------------------
(***************************************************************************)
(* Properties when requests come one at a time per session.                *)
(***************************************************************************)
\* With nothing under way, a running row has a terminal in the map and no child
\* runs beside it.
RunningIsAttached ==
  Settled => \A s \in Session : status[s] = "running" => pty[s] # "none" /\ ~stray[s]

\* With nothing under way, a row has a terminal just when it says running, and
\* none of its children runs beside the map, whatever kill, spawn and recovery
\* did to it in between.
TerminalsMatch ==
  /\ RunningIsAttached
  /\ Settled => \A s \in Session :
       status[s] \notin {"running", "deleted"} => pty[s] = "none" /\ ~stray[s]

\* With nothing under way, a running session still has its sandbox and that of a
\* stopped one is stopped, though names are used again and stop does not wait for
\* a failed command, unless the command that should have stopped or created it
\* failed or was cut short.
SandboxKept ==
  Settled => \A s \in Session :
    sandbox[s] \in Sandbox \ doubt =>
      /\ status[s] = "running" => box[sandbox[s]] # "absent"
      /\ status[s] = "stopped" => box[sandbox[s]] = "stopped"

\* With nothing under way, a sandbox that exists is named by a row that is not
\* removed, unless one of its commands went wrong or its persona was deleted.
NoOrphanSandbox ==
  Settled => \A b \in Sandbox \ doubt :
    box[b] # "absent" => \E s \in Session : sandbox[s] = b /\ status[s] # "removed"

\* Sessions go through the phases of SessionLifecycle and no others.
Lifecycle == INSTANCE SessionLifecycle WITH phase <- status

FollowsLifecycle == Lifecycle!Spec

=============================================================================
