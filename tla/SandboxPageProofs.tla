-------------------------- MODULE SandboxPageProofs --------------------------
(***************************************************************************)
(* Proofs about the sessions at rest, with the sandboxes page at work      *)
(* beside them: what holds once no handler is under way and recovery is    *)
(* over, when requests come as SessionsPage sends them.                    *)
(***************************************************************************)
EXTENDS SandboxPage, SessionsProofs

Looking == {"act", "spawn", "attach", "mark"}

\* A handler of session s is at one of these steps.
Busy(s, steps) == \E r \in Request : req[r].s = s /\ req[r].at \in steps

-----------------------------------------------------------------------------
(***************************************************************************)
(* The terminals.                                                          *)
(***************************************************************************)
NoStray == \A s \in Session : ~stray[s]

\* A session with an entry in the map says running or is about to.
EntryExplained ==
  \A s \in Session : pty[s] # "none" =>
    \/ status[s] = "running"
    \/ Busy(s, {"mark_running"})
    \/ rec.at = "mark" /\ rec.s = s

\* What a handler found in the map, or did to it, is still so at its later steps.
HandlerEntry ==
  \A r \in Request :
    /\ req[r].at \in {"attach", "stop_sandbox", "mark_stopped"} => pty[req[r].s] = "none"
    /\ At(r, "mark_running") => pty[req[r].s] # "none"

\* Recovery finds no entry for the rows it has yet to work on.
RecoveryEntry ==
  /\ rec.at = "list" => \A s \in Session : pty[s] = "none"
  /\ rec.at \in {"each", "rm"} \cup Looking => \A e \in rec.todo : pty[e[1]] = "none"
  /\ rec.at \in {"act", "spawn", "attach"} => pty[rec.s] = "none"
  /\ rec.at = "mark" => pty[rec.s] # "none"

\* A row says running without a terminal only before recovery has come to it, and
\* while it is being stopped.
RunningExplained ==
  \A s \in Session : status[s] = "running" /\ pty[s] = "none" =>
    \/ rec.at = "list"
    \/ rec.at \in {"each", "rm"} \cup Looking /\ \E e \in rec.todo : e[1] = s
    \/ rec.at \in {"act", "spawn", "attach"} /\ rec.s = s
    \/ Busy(s, {"stop_sandbox", "mark_stopped"})

Terminals ==
  NoStray /\ EntryExplained /\ HandlerEntry /\ RecoveryEntry /\ RunningExplained

-----------------------------------------------------------------------------
(***************************************************************************)
(* The sandboxes.                                                          *)
(***************************************************************************)
\* The sandbox is that of the row, which is not removed nor past the removal of
\* its sandbox.
Holds(s, b) ==
  /\ sandbox[s] = b
  /\ status[s] # "removed"
  /\ ~Busy(s, {"clean_kit", "mark_removed"})

\* The request has created the sandbox and not recorded it.
Records(r, b) == At(r, "record") /\ req[r].b = b

\* The copies of the sandbox id that handlers and recovery work with are right.
IdsAgree ==
  /\ \A r \in Request :
       req[r].at \in {"stop_kill", "stop_sandbox", "mark_stopped", "remove_kill",
                      "remove_sandbox", "clean_kit", "mark_removed"}
         => sandbox[req[r].s] = req[r].b
  /\ rec.at # "done" => \A e \in rec.todo : sandbox[e[1]] = e[2]

\* A command that nobody waits for is about a sandbox in doubt.
LateDoubted == \A c \in late : c[2] \in doubt \cup {NoSandbox}

\* A sandbox that a row holds exists; it is held once, or about to be recorded.
HeldExists == \A b \in Sandbox \ doubt : \A s \in Session : Holds(s, b) => box[b] # "absent"

HeldOnce ==
  \A b \in Sandbox \ doubt : \A s, t \in Session : Holds(s, b) /\ Holds(t, b) => s = t

RecordedOnce ==
  \A b \in Sandbox \ doubt : \A r \in Request : Records(r, b) =>
    /\ box[b] = "stopped"
    /\ \A s \in Session : ~Holds(s, b)
    /\ \A q \in Request : Records(q, b) => q = r

HeldOrRecorded ==
  \A b \in Sandbox \ doubt : box[b] # "absent" =>
    (\E s \in Session : Holds(s, b)) \/ (\E r \in Request : Records(r, b))

\* What recovery has seen of a sandbox is still so when it acts.
SeenStill ==
  /\ rec.at = "act" /\ rec.b \notin doubt /\ rec.seen # "error" => box[rec.b] = rec.seen
  /\ rec.at = "rm" => rec.b \in doubt

\* The listing that the cleanup goes by has every sandbox that a row holds.
ListingComplete ==
  rec.at \in {"select", "sweep"} =>
    \A s \in Session : status[s] # "removed" /\ sandbox[s] \in Sandbox \ doubt
      => sandbox[s] \in rec.listing

Sandboxes ==
  /\ IdsAgree /\ LateDoubted
  /\ HeldExists /\ HeldOnce /\ RecordedOnce /\ HeldOrRecorded
  /\ SeenStill /\ ListingComplete

\* While `sbx ls` answers, the sandbox of a stopped row is stopped until a resume
\* attaches to it or a removal is through with it, and that of a row about to be
\* marked stopped is stopped already.
StoppedIsStopped ==
  /\ rec.at = "act" => rec.seen # "error"
  /\ \A s \in Session : sandbox[s] \in Sandbox \ doubt =>
       /\ status[s] = "stopped" /\ ~Busy(s, {"mark_running", "clean_kit", "mark_removed"})
            => box[sandbox[s]] = "stopped"
       /\ Busy(s, {"mark_stopped"}) => box[sandbox[s]] = "stopped"

-----------------------------------------------------------------------------
(***************************************************************************)
(* Recovery by itself.                                                     *)
(***************************************************************************)
\* The row is right about its sandbox and its terminal.
RunningRight(s) == pty[s] = "live" /\ box[sandbox[s]] = "running"
StoppedRight(s) == sandbox[s] # NoSandbox /\ box[sandbox[s]] # "absent"

\* The state that a step of recovery has seen or made is still so.
RecoverySees ==
  /\ rec.at = "act" => rec.seen = box[rec.b]
  /\ rec.at \in {"spawn", "attach", "mark"} => box[rec.b] = "running"
  /\ rec.at = "mark" => pty[rec.s] = "live"
  /\ rec.at = "rm" => box[rec.b] = "absent"
  /\ rec.at \in {"select", "sweep"} => rec.listing = {b \in Sandbox : box[b] # "absent"}

\* An active row is one that recovery has yet to work on, or it is right.
ActiveRecovered ==
  rec.at # "list" => \A s \in Session : status[s] \in Active =>
    \/ rec.at \in {"each", "rm"} \cup Looking /\ \E e \in rec.todo : e[1] = s
    \/ rec.at \in Looking /\ rec.s = s
    \/ status[s] = "running" /\ RunningRight(s)

StoppedSwept ==
  rec.at \in {"sweep", "done"} => \A s \in Session : status[s] = "stopped" =>
    \/ rec.at = "sweep" /\ <<s, sandbox[s]>> \in rec.todo
    \/ StoppedRight(s)

Undisturbed ==
  /\ \A r \in Request : At(r, "idle")
  /\ RecoverySees /\ ActiveRecovered /\ StoppedSwept

\* With requests one at a time, each handler and each step of recovery leaves the map of
\* terminals as the row that it then writes has it.
LEMMA TerminalsStep ==
  ASSUME OneAtATime, Inv, Discipline, Terminals, [Next]_vars
  PROVE  Terminals'
<1> USE OneAtATime, ConstantsOK
  DEF Inv, Types, Owners, TypeOK, StepsHaveSubject, RequestState, RecoveryState,
      SandboxOrNone, At, Exists, SetStatus, DeleteRows, Goto, Finish, Idle, RecStep,
      RecNext, Booting, Admit, Offered, rows, terminals, outside, Discipline, Exclusive,
      HandlerStatus, RecoveryStatus, Fresh, Active, Busy, Looking, Terminals, NoStray,
      EntryExplained, HandlerEntry, RecoveryEntry, RunningExplained
<1>1. ASSUME NEW r \in Request, NEW s \in Session, Start(r, s) PROVE Terminals'
  BY <1>1 DEF Start
<1>2. ASSUME NEW r \in Request, NEW s \in Session, Resume(r, s) PROVE Terminals'
  BY <1>2 DEF Resume
<1>3. ASSUME NEW r \in Request, NEW s \in Session, Stop(r, s) PROVE Terminals'
  <2>1. UNCHANGED <<pty, stray, status, rec>> /\ At(r, "idle") /\ rec.at = "done"
    BY <1>3 DEF Stop
  <2> DEFINE q == [at |-> IF sandbox[s] = NoSandbox THEN "mark_stopped" ELSE "stop_kill",
                   s |-> s, b |-> sandbox[s]]
  <2>2. /\ req' = [req EXCEPT ![r] = q] /\ q.s = s
        /\ q.at = "stop_kill" \/ (q.at = "mark_stopped" /\ sandbox[s] = NoSandbox)
    <3>1. req' = [req EXCEPT ![r] = q]
      BY <1>3 DEF Stop
    <3>2. q.s = s /\ (sandbox[s] # NoSandbox => q.at = "stop_kill")
          /\ (sandbox[s] = NoSandbox => q.at = "mark_stopped")
      OBVIOUS
    <3> QED BY <3>1, <3>2
  <2> HIDE DEF q
  <2>3. ASSUME q.at = "mark_stopped" PROVE pty[s] = "none"
    <3>1. status[s] = "starting"
      BY <1>3, <2>2, <2>3 DEF Stop, Copies, RunningHasSandbox
    <3> QED BY <1>3, <2>1, <3>1 DEF Stop
  <2> QED BY <2>1, <2>2, <2>3
<1>4. ASSUME NEW r \in Request, NEW s \in Session, Remove(r, s) PROVE Terminals'
  BY <1>4 DEF Remove
<1>5. ASSUME NEW r \in Request, InsertSession(r) PROVE Terminals'
  <2>1. UNCHANGED <<pty, stray, rec>> /\ At(r, "insert")
    BY <1>5 DEF InsertSession
  <2>2. \/ status' = status
        \/ status[req[r].s] = "unused" /\ status' = [status EXCEPT ![req[r].s] = "starting"]
    BY <1>5 DEF InsertSession
  <2>3. PICK q : req' = [req EXCEPT ![r] = q] /\ q.at \in {"idle", "create"}
    BY <1>5 DEF InsertSession
  <2> QED BY <2>1, <2>2, <2>3
<1>6. ASSUME NEW r \in Request, CreateSandbox(r) PROVE Terminals'
  BY <1>6 DEF CreateSandbox
<1>7. ASSUME NEW r \in Request, CreateFails(r) PROVE Terminals'
  BY <1>7 DEF CreateFails
<1>8. ASSUME NEW r \in Request, RecordSandbox(r) PROVE Terminals'
  BY <1>8 DEF RecordSandbox
<1>9. ASSUME NEW r \in Request, RecordRefused(r) PROVE Terminals'
  BY <1>9 DEF RecordRefused
<1>10. ASSUME NEW r \in Request, SpawnPty(r) PROVE Terminals'
  BY <1>10 DEF SpawnPty
<1>11. ASSUME NEW r \in Request, SpawnRefused(r) PROVE Terminals'
  BY <1>11 DEF SpawnRefused
<1>12. ASSUME NEW r \in Request, AttachPty(r) PROVE Terminals'
  BY <1>12 DEF InsertPty, AttachPty
<1>13. ASSUME NEW r \in Request, AttachFails(r) PROVE Terminals'
  BY <1>13 DEF AttachFails
<1>14. ASSUME NEW r \in Request, MarkRunning(r) PROVE Terminals'
  BY <1>14 DEF MarkRunning
<1>15. ASSUME NEW r \in Request, KillPty(r) PROVE Terminals'
  BY <1>15 DEF KillPty
<1>16. ASSUME NEW r \in Request, StopSandbox(r) PROVE Terminals'
  BY <1>16 DEF StopSandbox
<1>17. ASSUME NEW r \in Request, StopFails(r) PROVE Terminals'
  BY <1>17 DEF StopFails
<1>18. ASSUME NEW r \in Request, MarkStopped(r) PROVE Terminals'
  BY <1>18 DEF MarkStopped
<1>19. ASSUME NEW r \in Request, RemoveSandbox(r) PROVE Terminals'
  BY <1>19 DEF RemoveSandbox
<1>20. ASSUME NEW r \in Request, RemoveFails(r) PROVE Terminals'
  BY <1>20 DEF RemoveFails
<1>21. ASSUME NEW r \in Request, CleanKit(r) PROVE Terminals'
  BY <1>21 DEF CleanKit
<1>22. ASSUME NEW r \in Request, CleanKitFails(r) PROVE Terminals'
  BY <1>22 DEF CleanKitFails
<1>23. ASSUME NEW r \in Request, MarkRemoved(r) PROVE Terminals'
  BY <1>23 DEF MarkRemoved
<1>24. ASSUME RecoverList PROVE Terminals'
  <2>1. rec'.at = "each" /\ UNCHANGED <<pty, stray, status, req>> /\ rec.at = "list"
    BY <1>24 DEF RecoverList
  <2>2. rec'.todo = {<<s, sandbox[s]>> : s \in {x \in Session : status[x] \in Active}}
    BY <1>24 DEF RecoverList
  <2>3. \A s \in Session : status[s] = "running" => \E e \in rec'.todo : e[1] = s
    <3>1. SUFFICES ASSUME NEW s \in Session, status[s] = "running"
                   PROVE  \E e \in rec'.todo : e[1] = s
      OBVIOUS
    <3>2. <<s, sandbox[s]>> \in rec'.todo
      BY <2>2, <3>1
    <3> QED BY <3>2
  <2>4. \A e \in rec'.todo : e[1] \in Session
    BY <2>2
  <2> QED BY <2>1, <2>3, <2>4
<1>25. ASSUME RecoverUnrecorded PROVE Terminals'
  BY <1>25 DEF RecoverUnrecorded
<1>26. ASSUME RecoverLook PROVE Terminals'
  BY <1>26 DEF RecoverLook
<1>27. ASSUME RecoverStopped PROVE Terminals'
  BY <1>27 DEF RecoverStopped
<1>28. ASSUME RecoverMissing PROVE Terminals'
  BY <1>28 DEF RecoverMissing
<1>29. ASSUME RecoverRunning PROVE Terminals'
  BY <1>29 DEF RecoverRunning
<1>30. ASSUME RecoverRm PROVE Terminals'
  BY <1>30 DEF RecoverRm
<1>31. ASSUME RecoverSpawn PROVE Terminals'
  BY <1>31 DEF RecoverSpawn
<1>32. ASSUME RecoverAttach PROVE Terminals'
  BY <1>32 DEF InsertPty, RecoverAttach
<1>33. ASSUME RecoverMark PROVE Terminals'
  BY <1>33 DEF RecoverMark
<1>34. ASSUME RecoverFails PROVE Terminals'
  BY <1>34 DEF RecoverFails
<1>35. ASSUME CleanupList PROVE Terminals'
  BY <1>35 DEF CleanupList
<1>36. ASSUME CleanupSkipped PROVE Terminals'
  BY <1>36 DEF CleanupSkipped
<1>37. ASSUME CleanupSelect PROVE Terminals'
  BY <1>37 DEF CleanupSelect
<1>38. ASSUME CleanupSweep PROVE Terminals'
  BY <1>38 DEF CleanupSweep
<1>39. ASSUME RecoverDone PROVE Terminals'
  BY <1>39 DEF RecoverDone
<1>40. ASSUME DeletePersona PROVE Terminals'
  BY <1>40 DEF Settled, DeletePersona
<1>41. ASSUME CreatePersona PROVE Terminals'
  BY <1>41 DEF CreatePersona
<1>42. ASSUME Restart PROVE Terminals'
  BY <1>42 DEF InFlight, Restart
<1>43. ASSUME NEW s \in Session, ChildExits(s) PROVE Terminals'
  BY <1>43 DEF ChildExits
<1>44. ASSUME NEW c \in late, LateCommand(c) PROVE Terminals'
  BY <1>44 DEF LateCommand
<1>45. CASE UNCHANGED vars
  BY <1>45 DEF vars
<1> QED
    BY <1>1, <1>2, <1>3, <1>4, <1>5, <1>6, <1>7, <1>8, <1>9, <1>10, <1>11, <1>12, <1>13,
     <1>14, <1>15, <1>16, <1>17, <1>18, <1>19, <1>20, <1>21, <1>22, <1>23, <1>24, <1>25,
     <1>26, <1>27, <1>28, <1>29, <1>30, <1>31, <1>32, <1>33, <1>34, <1>35, <1>36, <1>37,
     <1>38, <1>39, <1>40, <1>41, <1>42, <1>43, <1>44, <1>45
  DEF Next, Handle, Recovery

\* What handlers and recovery read of a row is still right, and an abandoned command
\* is about a sandbox in doubt.
LEMMA IdsStep ==
  ASSUME OneAtATime, Inv, Discipline, Sandboxes, [Next]_vars
  PROVE  (IdsAgree /\ LateDoubted)'
<1> USE OneAtATime, ConstantsOK
  DEF Inv, Types, Owners, Copies, TypeOK, StepsHaveSubject, RequestState, RecoveryState,
      SandboxOrNone, At, Exists, SetStatus, DeleteRows, Goto, Finish, Idle, RecStep,
      RecNext, Booting, Admit, Offered, rows, terminals, outside, Discipline, Exclusive,
      HandlerStatus, RecoveryStatus, Fresh, StartedOnce, SandboxInRow, Unrecorded,
      CopiesAgree, TerminalOnOwnSandbox, Active, Busy, Looking, Sandboxes, IdsAgree,
      LateDoubted, SeenStill, Command, Step
<1>1. ASSUME NEW r \in Request, NEW s \in Session, Start(r, s)
      PROVE  (IdsAgree /\ LateDoubted)'
  BY <1>1 DEF Start
<1>2. ASSUME NEW r \in Request, NEW s \in Session, Resume(r, s)
      PROVE  (IdsAgree /\ LateDoubted)'
  BY <1>2 DEF Resume
<1>3. ASSUME NEW r \in Request, NEW s \in Session, Stop(r, s)
      PROVE  (IdsAgree /\ LateDoubted)'
  BY <1>3 DEF Stop
<1>4. ASSUME NEW r \in Request, NEW s \in Session, Remove(r, s)
      PROVE  (IdsAgree /\ LateDoubted)'
  BY <1>4 DEF Remove
<1>5. ASSUME NEW r \in Request, InsertSession(r) PROVE (IdsAgree /\ LateDoubted)'
  BY <1>5 DEF InsertSession
<1>6. ASSUME NEW r \in Request, CreateSandbox(r) PROVE (IdsAgree /\ LateDoubted)'
  BY <1>6 DEF CreateSandbox
<1>7. ASSUME NEW r \in Request, CreateFails(r) PROVE (IdsAgree /\ LateDoubted)'
  BY <1>7 DEF CreateFails
<1>8. ASSUME NEW r \in Request, RecordSandbox(r) PROVE (IdsAgree /\ LateDoubted)'
  BY <1>8 DEF RecordSandbox
<1>9. ASSUME NEW r \in Request, RecordRefused(r) PROVE (IdsAgree /\ LateDoubted)'
  BY <1>9 DEF RecordRefused
<1>10. ASSUME NEW r \in Request, SpawnPty(r) PROVE (IdsAgree /\ LateDoubted)'
  BY <1>10 DEF SpawnPty
<1>11. ASSUME NEW r \in Request, SpawnRefused(r) PROVE (IdsAgree /\ LateDoubted)'
  BY <1>11 DEF SpawnRefused
<1>12. ASSUME NEW r \in Request, AttachPty(r) PROVE (IdsAgree /\ LateDoubted)'
  BY <1>12 DEF InsertPty, AttachPty
<1>13. ASSUME NEW r \in Request, AttachFails(r) PROVE (IdsAgree /\ LateDoubted)'
  BY <1>13 DEF AttachFails
<1>14. ASSUME NEW r \in Request, MarkRunning(r) PROVE (IdsAgree /\ LateDoubted)'
  BY <1>14 DEF MarkRunning
<1>15. ASSUME NEW r \in Request, KillPty(r) PROVE (IdsAgree /\ LateDoubted)'
  BY <1>15 DEF KillPty
<1>16. ASSUME NEW r \in Request, StopSandbox(r) PROVE (IdsAgree /\ LateDoubted)'
  BY <1>16 DEF StopSandbox
<1>17. ASSUME NEW r \in Request, StopFails(r) PROVE (IdsAgree /\ LateDoubted)'
  BY <1>17 DEF StopFails
<1>18. ASSUME NEW r \in Request, MarkStopped(r) PROVE (IdsAgree /\ LateDoubted)'
  BY <1>18 DEF MarkStopped
<1>19. ASSUME NEW r \in Request, RemoveSandbox(r) PROVE (IdsAgree /\ LateDoubted)'
  BY <1>19 DEF RemoveSandbox
<1>20. ASSUME NEW r \in Request, RemoveFails(r) PROVE (IdsAgree /\ LateDoubted)'
  BY <1>20 DEF RemoveFails
<1>21. ASSUME NEW r \in Request, CleanKit(r) PROVE (IdsAgree /\ LateDoubted)'
  BY <1>21 DEF CleanKit
<1>22. ASSUME NEW r \in Request, CleanKitFails(r) PROVE (IdsAgree /\ LateDoubted)'
  BY <1>22 DEF CleanKitFails
<1>23. ASSUME NEW r \in Request, MarkRemoved(r) PROVE (IdsAgree /\ LateDoubted)'
  BY <1>23 DEF MarkRemoved
<1>24. ASSUME RecoverList PROVE (IdsAgree /\ LateDoubted)'
  BY <1>24 DEF RecoverList
<1>25. ASSUME RecoverUnrecorded PROVE (IdsAgree /\ LateDoubted)'
  BY <1>25 DEF RecoverUnrecorded
<1>26. ASSUME RecoverLook PROVE (IdsAgree /\ LateDoubted)'
  BY <1>26 DEF RecoverLook
<1>27. ASSUME RecoverStopped PROVE (IdsAgree /\ LateDoubted)'
  BY <1>27 DEF RecoverStopped
<1>28. ASSUME RecoverMissing PROVE (IdsAgree /\ LateDoubted)'
  BY <1>28 DEF RecoverMissing
<1>29. ASSUME RecoverRunning PROVE (IdsAgree /\ LateDoubted)'
  BY <1>29 DEF RecoverRunning
<1>30. ASSUME RecoverRm PROVE (IdsAgree /\ LateDoubted)'
  BY <1>30 DEF RecoverRm
<1>31. ASSUME RecoverSpawn PROVE (IdsAgree /\ LateDoubted)'
  BY <1>31 DEF RecoverSpawn
<1>32. ASSUME RecoverAttach PROVE (IdsAgree /\ LateDoubted)'
  BY <1>32 DEF InsertPty, RecoverAttach
<1>33. ASSUME RecoverMark PROVE (IdsAgree /\ LateDoubted)'
  BY <1>33 DEF RecoverMark
<1>34. ASSUME RecoverFails PROVE (IdsAgree /\ LateDoubted)'
  BY <1>34 DEF RecoverFails
<1>35. ASSUME CleanupList PROVE (IdsAgree /\ LateDoubted)'
  BY <1>35 DEF CleanupList
<1>36. ASSUME CleanupSkipped PROVE (IdsAgree /\ LateDoubted)'
  BY <1>36 DEF CleanupSkipped
<1>37. ASSUME CleanupSelect PROVE (IdsAgree /\ LateDoubted)'
  BY <1>37 DEF CleanupSelect
<1>38. ASSUME CleanupSweep PROVE (IdsAgree /\ LateDoubted)'
  BY <1>38 DEF CleanupSweep
<1>39. ASSUME RecoverDone PROVE (IdsAgree /\ LateDoubted)'
  BY <1>39 DEF RecoverDone
<1>40. ASSUME DeletePersona PROVE (IdsAgree /\ LateDoubted)'
  BY <1>40 DEF Settled, DeletePersona
<1>41. ASSUME CreatePersona PROVE (IdsAgree /\ LateDoubted)'
  BY <1>41 DEF CreatePersona
<1>42. ASSUME Restart PROVE (IdsAgree /\ LateDoubted)'
  BY <1>42 DEF InFlight, Restart
<1>43. ASSUME NEW s \in Session, ChildExits(s) PROVE (IdsAgree /\ LateDoubted)'
  BY <1>43 DEF ChildExits
<1>44. ASSUME NEW c \in late, LateCommand(c) PROVE (IdsAgree /\ LateDoubted)'
  BY <1>44 DEF LateCommand
<1>45. CASE UNCHANGED vars
  BY <1>45 DEF vars
<1> QED
    BY <1>1, <1>2, <1>3, <1>4, <1>5, <1>6, <1>7, <1>8, <1>9, <1>10, <1>11, <1>12, <1>13,
     <1>14, <1>15, <1>16, <1>17, <1>18, <1>19, <1>20, <1>21, <1>22, <1>23, <1>24, <1>25,
     <1>26, <1>27, <1>28, <1>29, <1>30, <1>31, <1>32, <1>33, <1>34, <1>35, <1>36, <1>37,
     <1>38, <1>39, <1>40, <1>41, <1>42, <1>43, <1>44, <1>45
  DEF Next, Handle, Recovery

\* Outside doubt, the step leaves who holds and who records each sandbox as it was, and
\* whether it exists.
HoldersKept ==
  /\ doubt \subseteq doubt'
  /\ \A b \in Sandbox \ doubt' :
       /\ \A s \in Session : Holds(s, b)' <=> Holds(s, b)
       /\ \A r \in Request : Records(r, b)' <=> Records(r, b)
       /\ box'[b] = "absent" <=> box[b] = "absent"
       /\ \A r \in Request : Records(r, b) => box'[b] = box[b]

Held == HeldExists /\ HeldOnce /\ RecordedOnce /\ HeldOrRecorded

LEMMA HeldKept ==
  ASSUME Held, HoldersKept
  PROVE  Held'
<1>1. HeldExists'
  BY DEF Held, HoldersKept, HeldExists
<1>2. HeldOnce'
  BY DEF Held, HoldersKept, HeldOnce
<1>3. RecordedOnce'
  BY DEF Held, HoldersKept, RecordedOnce
<1>4. HeldOrRecorded'
  BY DEF Held, HoldersKept, HeldOrRecorded
<1> QED BY <1>1, <1>2, <1>3, <1>4 DEF Held

\* The steps that change it.
HolderStep == \E r \in Request : CreateSandbox(r) \/ RecordSandbox(r) \/ RemoveSandbox(r)

\* Only three steps of the handlers change what rows hold and requests record.
LEMMA HoldersStep ==
  ASSUME OneAtATime, Inv, Discipline, Sandboxes, [Next]_vars
  PROVE  HoldersKept \/ HolderStep
<1> USE OneAtATime, ConstantsOK
  DEF Inv, Types, Owners, Copies, TypeOK, StepsHaveSubject, RequestState, RecoveryState,
      SandboxOrNone, At, Exists, SetStatus, DeleteRows, Goto, Finish, Idle, RecStep,
      RecNext, Booting, Admit, Offered, rows, terminals, outside, Discipline, Exclusive,
      HandlerStatus, RecoveryStatus, Fresh, StartedOnce, SandboxInRow, Unrecorded,
      CopiesAgree, TerminalOnOwnSandbox, Active, Busy, Looking, Sandboxes, IdsAgree,
      LateDoubted, SeenStill, HeldExists, RecordedOnce, Holds, Records, ListingComplete,
      HoldersKept, Held
<1>1. ASSUME NEW r \in Request, NEW s \in Session, Start(r, s) PROVE HoldersKept
  BY <1>1 DEF Start
<1>2. ASSUME NEW r \in Request, NEW s \in Session, Resume(r, s) PROVE HoldersKept
  BY <1>2 DEF Resume
<1>3. ASSUME NEW r \in Request, NEW s \in Session, Stop(r, s) PROVE HoldersKept
  BY <1>3 DEF Stop
<1>4. ASSUME NEW r \in Request, NEW s \in Session, Remove(r, s) PROVE HoldersKept
  BY <1>4 DEF Remove
<1>5. ASSUME NEW r \in Request, InsertSession(r) PROVE HoldersKept
  <2>1. UNCHANGED <<sandbox, box, doubt>> /\ At(r, "insert")
    BY <1>5 DEF InsertSession
  <2>2. \/ status' = status
        \/ status[req[r].s] = "unused" /\ status' = [status EXCEPT ![req[r].s] = "starting"]
    BY <1>5 DEF InsertSession
  <2>3. PICK q : req' = [req EXCEPT ![r] = q] /\ q.at \in {"idle", "create"}
    BY <1>5 DEF InsertSession
  <2> QED BY <2>1, <2>2, <2>3 DEF HoldersKept, Holds, Records
<1>6. ASSUME NEW r \in Request, CreateSandbox(r) PROVE HolderStep
  BY <1>6 DEF HolderStep
<1>7. ASSUME NEW r \in Request, CreateFails(r) PROVE HoldersKept
  BY <1>7 DEF CreateFails
<1>8. ASSUME NEW r \in Request, RecordSandbox(r) PROVE HolderStep
  BY <1>8 DEF HolderStep
<1>9. ASSUME NEW r \in Request, RecordRefused(r) PROVE HoldersKept
  BY <1>9 DEF RecordRefused
<1>10. ASSUME NEW r \in Request, SpawnPty(r) PROVE HoldersKept
  BY <1>10 DEF SpawnPty
<1>11. ASSUME NEW r \in Request, SpawnRefused(r) PROVE HoldersKept
  BY <1>11 DEF SpawnRefused
<1>12. ASSUME NEW r \in Request, AttachPty(r) PROVE HoldersKept
  BY <1>12 DEF InsertPty, AttachPty
<1>13. ASSUME NEW r \in Request, AttachFails(r) PROVE HoldersKept
  BY <1>13 DEF AttachFails
<1>14. ASSUME NEW r \in Request, MarkRunning(r) PROVE HoldersKept
  BY <1>14 DEF MarkRunning
<1>15. ASSUME NEW r \in Request, KillPty(r) PROVE HoldersKept
  BY <1>15 DEF KillPty
<1>16. ASSUME NEW r \in Request, StopSandbox(r) PROVE HoldersKept
  BY <1>16 DEF StopSandbox
<1>17. ASSUME NEW r \in Request, StopFails(r) PROVE HoldersKept
  BY <1>17 DEF StopFails
<1>18. ASSUME NEW r \in Request, MarkStopped(r) PROVE HoldersKept
  BY <1>18 DEF MarkStopped
<1>19. ASSUME NEW r \in Request, RemoveSandbox(r) PROVE HolderStep
  BY <1>19 DEF HolderStep
<1>20. ASSUME NEW r \in Request, RemoveFails(r) PROVE HoldersKept
  BY <1>20 DEF RemoveFails
<1>21. ASSUME NEW r \in Request, CleanKit(r) PROVE HoldersKept
  BY <1>21 DEF CleanKit
<1>22. ASSUME NEW r \in Request, CleanKitFails(r) PROVE HoldersKept
  BY <1>22 DEF CleanKitFails
<1>23. ASSUME NEW r \in Request, MarkRemoved(r) PROVE HoldersKept
  BY <1>23 DEF MarkRemoved
<1>24. ASSUME RecoverList PROVE HoldersKept
  BY <1>24 DEF RecoverList
<1>25. ASSUME RecoverUnrecorded PROVE HoldersKept
  BY <1>25 DEF RecoverUnrecorded
<1>26. ASSUME RecoverLook PROVE HoldersKept
  BY <1>26 DEF RecoverLook
<1>27. ASSUME RecoverStopped PROVE HoldersKept
  BY <1>27 DEF RecoverStopped
<1>28. ASSUME RecoverMissing PROVE HoldersKept
  BY <1>28 DEF RecoverMissing
<1>29. ASSUME RecoverRunning PROVE HoldersKept
  BY <1>29 DEF RecoverRunning
<1>30. ASSUME RecoverRm PROVE HoldersKept
  BY <1>30 DEF RecoverRm
<1>31. ASSUME RecoverSpawn PROVE HoldersKept
  BY <1>31 DEF RecoverSpawn
<1>32. ASSUME RecoverAttach PROVE HoldersKept
  BY <1>32 DEF InsertPty, RecoverAttach
<1>33. ASSUME RecoverMark PROVE HoldersKept
  BY <1>33 DEF RecoverMark
<1>34. ASSUME RecoverFails PROVE HoldersKept
  BY <1>34 DEF RecoverFails
<1>35. ASSUME CleanupList PROVE HoldersKept
  BY <1>35 DEF CleanupList
<1>36. ASSUME CleanupSkipped PROVE HoldersKept
  BY <1>36 DEF CleanupSkipped
<1>37. ASSUME CleanupSelect PROVE HoldersKept
  BY <1>37 DEF CleanupSelect
<1>38. ASSUME CleanupSweep PROVE HoldersKept
  BY <1>38 DEF CleanupSweep
<1>39. ASSUME RecoverDone PROVE HoldersKept
  BY <1>39 DEF RecoverDone
<1>40. ASSUME DeletePersona PROVE HoldersKept
  BY <1>40 DEF Settled, DeletePersona
<1>41. ASSUME CreatePersona PROVE HoldersKept
  BY <1>41 DEF CreatePersona
<1>42. ASSUME Restart PROVE HoldersKept
  BY <1>42 DEF InFlight, Restart
<1>43. ASSUME NEW s \in Session, ChildExits(s) PROVE HoldersKept
  BY <1>43 DEF ChildExits
<1>44. ASSUME NEW c \in late, LateCommand(c) PROVE HoldersKept
  BY <1>44 DEF LateCommand
<1>45. CASE UNCHANGED vars
  BY <1>45 DEF vars
<1> QED
    BY <1>1, <1>2, <1>3, <1>4, <1>5, <1>6, <1>7, <1>8, <1>9, <1>10, <1>11, <1>12, <1>13,
     <1>14, <1>15, <1>16, <1>17, <1>18, <1>19, <1>20, <1>21, <1>22, <1>23, <1>24, <1>25,
     <1>26, <1>27, <1>28, <1>29, <1>30, <1>31, <1>32, <1>33, <1>34, <1>35, <1>36, <1>37,
     <1>38, <1>39, <1>40, <1>41, <1>42, <1>43, <1>44, <1>45
  DEF Next, Handle, Recovery

\* A new sandbox has no holder: its name was free.
LEMMA CreateHeld ==
  ASSUME OneAtATime, Inv, Sandboxes, NEW r \in Request, CreateSandbox(r)
  PROVE  Held'
<1>1. PICK b \in Sandbox :
        /\ box[b] = "absent"
        /\ box' = [box EXCEPT ![b] = "stopped"]
        /\ req' = [req EXCEPT ![r] = [at |-> "record", s |-> req[r].s, b |-> b]]
  BY DEF CreateSandbox
<1>2. UNCHANGED <<status, sandbox, doubt>> /\ At(r, "create")
  BY DEF CreateSandbox, rows
<1>3. \A q \in Request : req'[q].s = req[q].s /\ (q # r => req'[q] = req[q])
  BY <1>1 DEF Inv, Types, TypeOK
<1>4. req'[r].at = "record" /\ req'[r].b = b
  BY <1>1 DEF Inv, Types, TypeOK
<1>5. \A s \in Session, c \in Sandbox : Holds(s, c)' <=> Holds(s, c)
  BY <1>2, <1>3, <1>4 DEF Holds, Busy, At
<1>6. \A c \in Sandbox : box'[c] = IF c = b THEN "stopped" ELSE box[c]
  BY <1>1 DEF Inv, Types, TypeOK
<1>7. \A q \in Request, c \in Sandbox : Records(q, c)' <=> (q = r /\ c = b) \/ Records(q, c)
  BY <1>2, <1>3, <1>4 DEF Records, At
<1>8. b \notin doubt =>
        (\A s \in Session : ~Holds(s, b)) /\ (\A q \in Request : ~Records(q, b))
  BY <1>1 DEF Sandboxes, HeldExists, RecordedOnce
<1>9. HeldExists'
  BY <1>2, <1>5, <1>6 DEF Sandboxes, HeldExists
<1>10. HeldOnce'
  BY <1>2, <1>5 DEF Sandboxes, HeldOnce
<1>11. RecordedOnce'
  BY <1>2, <1>5, <1>6, <1>7, <1>8 DEF Sandboxes, RecordedOnce
<1>12. HeldOrRecorded'
  BY <1>2, <1>5, <1>6, <1>7 DEF Sandboxes, HeldOrRecorded
<1> QED BY <1>9, <1>10, <1>11, <1>12 DEF Held

\* The row of the request takes over the sandbox that the request has recorded.
LEMMA RecordHeld ==
  ASSUME OneAtATime, Inv, Discipline, Sandboxes, NEW r \in Request, RecordSandbox(r)
  PROVE  Held'
<1>1. PICK s0 \in Session, b0 \in Sandbox :
        /\ s0 = req[r].s /\ b0 = req[r].b
        /\ status[s0] = "starting" /\ sandbox[s0] = NoSandbox
  BY ConstantsOK DEF RecordSandbox, Inv, Types, TypeOK, StepsHaveSubject, RequestState,
     SandboxOrNone, At, Owners, StartedOnce, Unrecorded, Discipline, HandlerStatus
<1>2. UNCHANGED <<status, doubt, box>> /\ sandbox' = [sandbox EXCEPT ![s0] = b0]
  BY <1>1 DEF RecordSandbox, outside
<1>3. \A q \in Request : req'[q].s = req[q].s /\ (q # r => req'[q] = req[q])
  BY DEF RecordSandbox, Goto, Inv, Types, TypeOK, RequestState
<1>4. req'[r].at = "spawn" /\ req[r].at = "record"
  BY DEF RecordSandbox, Goto, At, Inv, Types, TypeOK, RequestState
<1>5. ~Busy(s0, {"clean_kit", "mark_removed"})
  BY <1>1, <1>4 DEF Busy, Discipline, Exclusive, At
<1>6. \A s \in Session, c \in Sandbox :
        Holds(s, c)' <=> (s = s0 /\ c = b0) \/ Holds(s, c)
  <2>1. \A s \in Session : Busy(s, {"clean_kit", "mark_removed"})'
                             <=> Busy(s, {"clean_kit", "mark_removed"})
    BY <1>3, <1>4 DEF Busy
  <2>2. \A s \in Session : sandbox'[s] = IF s = s0 THEN b0 ELSE sandbox[s]
    BY <1>1, <1>2 DEF Inv, Types, TypeOK
  <2>3. ASSUME NEW c \in Sandbox PROVE Holds(s0, c)' <=> c = b0 \/ Holds(s0, c)
    BY <1>1, <1>2, <1>5, <2>1, <2>2, ConstantsOK DEF Holds
  <2>4. ASSUME NEW s \in Session, NEW c \in Sandbox, s # s0
        PROVE  Holds(s, c)' <=> Holds(s, c)
    BY <1>2, <2>1, <2>2, <2>4 DEF Holds
  <2> QED BY <2>3, <2>4
<1>7. \A q \in Request, c \in Sandbox : Records(q, c) <=> Records(q, c)' \/ (q = r /\ c = b0)
  BY <1>1, <1>3, <1>4 DEF Records, At
<1>8. \A q \in Request, c \in Sandbox : q = r => ~Records(q, c)'
  BY <1>4 DEF Records, At
<1>9. b0 \notin doubt => /\ box[b0] = "stopped" /\ \A s \in Session : ~Holds(s, b0)
                         /\ \A q \in Request : Records(q, b0) => q = r
  BY <1>1, <1>7 DEF Sandboxes, RecordedOnce
<1>10. HeldExists'
  BY <1>2, <1>6, <1>9 DEF Sandboxes, HeldExists
<1>11. HeldOnce'
  BY <1>2, <1>6, <1>9 DEF Sandboxes, HeldOnce
<1>12. RecordedOnce'
  <2>1. ASSUME NEW c \in Sandbox \ doubt, NEW q \in Request, Records(q, c)'
        PROVE  Records(q, c) /\ q # r /\ c # b0
    BY <1>7, <1>8, <1>9, <2>1
  <2>2. ASSUME NEW c \in Sandbox \ doubt, NEW q \in Request, Records(q, c)'
        PROVE  /\ box'[c] = "stopped"
               /\ \A s \in Session : ~Holds(s, c)'
               /\ \A p \in Request : Records(p, c)' => p = q
    BY <1>2, <1>6, <1>7, <2>1, <2>2 DEF Sandboxes, RecordedOnce
  <2> QED BY <1>2, <2>2 DEF RecordedOnce
<1>13. HeldOrRecorded'
  BY <1>1, <1>2, <1>6, <1>7 DEF Sandboxes, HeldOrRecorded
<1> QED BY <1>10, <1>11, <1>12, <1>13 DEF Held

\* The row lets go of the sandbox that is removed, and nothing else had it.
LEMMA RemoveHeld ==
  ASSUME OneAtATime, Inv, Discipline, Sandboxes, NEW r \in Request, RemoveSandbox(r)
  PROVE  Held'
<1>1. PICK s0 \in Session, b0 \in Sandbox :
        s0 = req[r].s /\ b0 = req[r].b /\ status[s0] = "stopped" /\ sandbox[s0] = b0
  BY DEF RemoveSandbox, Inv, Types, TypeOK, StepsHaveSubject, RequestState,
     SandboxOrNone, At, Sandboxes, IdsAgree, Discipline, HandlerStatus
<1>2. UNCHANGED <<status, sandbox, doubt>> /\ box' = [box EXCEPT ![b0] = "absent"]
  BY <1>1 DEF RemoveSandbox, rows
<1>3. \A q \in Request : req'[q].s = req[q].s /\ (q # r => req'[q] = req[q])
  BY DEF RemoveSandbox, Goto, Inv, Types, TypeOK, RequestState
<1>4. req'[r].at = "clean_kit" /\ req[r].at = "remove_sandbox"
  BY DEF RemoveSandbox, Goto, At, Inv, Types, TypeOK, RequestState
<1>5. \A s \in Session, c \in Sandbox : Holds(s, c)' <=> s # s0 /\ Holds(s, c)
  BY <1>1, <1>2, <1>3, <1>4 DEF Holds, Busy, Discipline, Exclusive, At
<1>6. Holds(s0, b0)
  BY <1>1, <1>4 DEF Holds, Busy, Discipline, Exclusive, At
<1>7. \A q \in Request, c \in Sandbox : Records(q, c)' <=> Records(q, c)
  BY <1>3, <1>4 DEF Records, At
<1>8. \A c \in Sandbox : box'[c] = IF c = b0 THEN "absent" ELSE box[c]
  BY <1>1, <1>2 DEF Inv, Types, TypeOK
<1>9. b0 \notin doubt => /\ \A s \in Session : Holds(s, b0) => s = s0
                         /\ \A q \in Request : ~Records(q, b0)
  BY <1>1, <1>6 DEF Sandboxes, HeldOnce, RecordedOnce
<1>10. \A c \in Sandbox : c # b0 => ~Holds(s0, c)
  BY <1>1 DEF Holds
<1>11. HeldExists'
  BY <1>2, <1>5, <1>8, <1>9 DEF Sandboxes, HeldExists
<1>12. HeldOnce'
  BY <1>2, <1>5 DEF Sandboxes, HeldOnce
<1>13. RecordedOnce'
  BY <1>2, <1>5, <1>7, <1>8, <1>9 DEF Sandboxes, RecordedOnce
<1>14. HeldOrRecorded'
  BY <1>2, <1>5, <1>7, <1>8, <1>10 DEF Sandboxes, HeldOrRecorded
<1> QED BY <1>11, <1>12, <1>13, <1>14 DEF Held

LEMMA HeldStep ==
  ASSUME OneAtATime, Inv, Discipline, Sandboxes, [Next]_vars
  PROVE  Held'
BY HoldersStep, HeldKept, CreateHeld, RecordHeld, RemoveHeld
DEF HolderStep, Held, Sandboxes

LEMMA SeenStep ==
  ASSUME OneAtATime, Inv, Discipline, Sandboxes, [Next]_vars
  PROVE  (SeenStill /\ ListingComplete)'
<1> USE OneAtATime, ConstantsOK
  DEF Inv, Types, Owners, Copies, TypeOK, StepsHaveSubject, RequestState, RecoveryState,
      SandboxOrNone, At, Exists, SetStatus, DeleteRows, Goto, Finish, Idle, RecStep,
      RecNext, Booting, Admit, Offered, rows, terminals, outside, Discipline, Exclusive,
      HandlerStatus, RecoveryStatus, Fresh, StartedOnce, SandboxInRow, Unrecorded,
      CopiesAgree, TerminalOnOwnSandbox, Active, Busy, Looking, Sandboxes, IdsAgree,
      LateDoubted, SeenStill, HeldExists, HeldOnce, Holds, ListingComplete
<1>1. ASSUME NEW r \in Request, NEW s \in Session, Start(r, s)
      PROVE  (SeenStill /\ ListingComplete)'
  BY <1>1 DEF Start
<1>2. ASSUME NEW r \in Request, NEW s \in Session, Resume(r, s)
      PROVE  (SeenStill /\ ListingComplete)'
  BY <1>2 DEF Resume
<1>3. ASSUME NEW r \in Request, NEW s \in Session, Stop(r, s)
      PROVE  (SeenStill /\ ListingComplete)'
  BY <1>3 DEF Stop
<1>4. ASSUME NEW r \in Request, NEW s \in Session, Remove(r, s)
      PROVE  (SeenStill /\ ListingComplete)'
  BY <1>4 DEF Remove
<1>5. ASSUME NEW r \in Request, InsertSession(r) PROVE (SeenStill /\ ListingComplete)'
  BY <1>5 DEF InsertSession
<1>6. ASSUME NEW r \in Request, CreateSandbox(r) PROVE (SeenStill /\ ListingComplete)'
  BY <1>6 DEF CreateSandbox
<1>7. ASSUME NEW r \in Request, CreateFails(r) PROVE (SeenStill /\ ListingComplete)'
  BY <1>7 DEF CreateFails
<1>8. ASSUME NEW r \in Request, RecordSandbox(r) PROVE (SeenStill /\ ListingComplete)'
  BY <1>8 DEF RecordSandbox
<1>9. ASSUME NEW r \in Request, RecordRefused(r) PROVE (SeenStill /\ ListingComplete)'
  BY <1>9 DEF RecordRefused
<1>10. ASSUME NEW r \in Request, SpawnPty(r) PROVE (SeenStill /\ ListingComplete)'
  BY <1>10 DEF SpawnPty
<1>11. ASSUME NEW r \in Request, SpawnRefused(r) PROVE (SeenStill /\ ListingComplete)'
  BY <1>11 DEF SpawnRefused
<1>12. ASSUME NEW r \in Request, AttachPty(r) PROVE (SeenStill /\ ListingComplete)'
  BY <1>12 DEF InsertPty, AttachPty
<1>13. ASSUME NEW r \in Request, AttachFails(r) PROVE (SeenStill /\ ListingComplete)'
  BY <1>13 DEF AttachFails
<1>14. ASSUME NEW r \in Request, MarkRunning(r) PROVE (SeenStill /\ ListingComplete)'
  BY <1>14 DEF MarkRunning
<1>15. ASSUME NEW r \in Request, KillPty(r) PROVE (SeenStill /\ ListingComplete)'
  BY <1>15 DEF KillPty
<1>16. ASSUME NEW r \in Request, StopSandbox(r) PROVE (SeenStill /\ ListingComplete)'
  BY <1>16 DEF StopSandbox
<1>17. ASSUME NEW r \in Request, StopFails(r) PROVE (SeenStill /\ ListingComplete)'
  BY <1>17 DEF StopFails
<1>18. ASSUME NEW r \in Request, MarkStopped(r) PROVE (SeenStill /\ ListingComplete)'
  BY <1>18 DEF MarkStopped
<1>19. ASSUME NEW r \in Request, RemoveSandbox(r) PROVE (SeenStill /\ ListingComplete)'
  BY <1>19 DEF RemoveSandbox
<1>20. ASSUME NEW r \in Request, RemoveFails(r) PROVE (SeenStill /\ ListingComplete)'
  BY <1>20 DEF RemoveFails
<1>21. ASSUME NEW r \in Request, CleanKit(r) PROVE (SeenStill /\ ListingComplete)'
  BY <1>21 DEF CleanKit
<1>22. ASSUME NEW r \in Request, CleanKitFails(r) PROVE (SeenStill /\ ListingComplete)'
  BY <1>22 DEF CleanKitFails
<1>23. ASSUME NEW r \in Request, MarkRemoved(r) PROVE (SeenStill /\ ListingComplete)'
  BY <1>23 DEF MarkRemoved
<1>24. ASSUME RecoverList PROVE (SeenStill /\ ListingComplete)'
  BY <1>24 DEF RecoverList
<1>25. ASSUME RecoverUnrecorded PROVE (SeenStill /\ ListingComplete)'
  BY <1>25 DEF RecoverUnrecorded
<1>26. ASSUME RecoverLook PROVE (SeenStill /\ ListingComplete)'
  BY <1>26 DEF RecoverLook
<1>27. ASSUME RecoverStopped PROVE (SeenStill /\ ListingComplete)'
  BY <1>27 DEF RecoverStopped
<1>28. ASSUME RecoverMissing PROVE (SeenStill /\ ListingComplete)'
  BY <1>28 DEF RecoverMissing
<1>29. ASSUME RecoverRunning PROVE (SeenStill /\ ListingComplete)'
  BY <1>29 DEF RecoverRunning
<1>30. ASSUME RecoverRm PROVE (SeenStill /\ ListingComplete)'
  BY <1>30 DEF RecoverRm
<1>31. ASSUME RecoverSpawn PROVE (SeenStill /\ ListingComplete)'
  BY <1>31 DEF RecoverSpawn
<1>32. ASSUME RecoverAttach PROVE (SeenStill /\ ListingComplete)'
  BY <1>32 DEF InsertPty, RecoverAttach
<1>33. ASSUME RecoverMark PROVE (SeenStill /\ ListingComplete)'
  BY <1>33 DEF RecoverMark
<1>34. ASSUME RecoverFails PROVE (SeenStill /\ ListingComplete)'
  BY <1>34 DEF RecoverFails
<1>35. ASSUME CleanupList PROVE (SeenStill /\ ListingComplete)'
  BY <1>35 DEF CleanupList
<1>36. ASSUME CleanupSkipped PROVE (SeenStill /\ ListingComplete)'
  BY <1>36 DEF CleanupSkipped
<1>37. ASSUME CleanupSelect PROVE (SeenStill /\ ListingComplete)'
  BY <1>37 DEF CleanupSelect
<1>38. ASSUME CleanupSweep PROVE (SeenStill /\ ListingComplete)'
  BY <1>38 DEF CleanupSweep
<1>39. ASSUME RecoverDone PROVE (SeenStill /\ ListingComplete)'
  BY <1>39 DEF RecoverDone
<1>40. ASSUME DeletePersona PROVE (SeenStill /\ ListingComplete)'
  BY <1>40 DEF Settled, DeletePersona
<1>41. ASSUME CreatePersona PROVE (SeenStill /\ ListingComplete)'
  BY <1>41 DEF CreatePersona
<1>42. ASSUME Restart PROVE (SeenStill /\ ListingComplete)'
  BY <1>42 DEF InFlight, Restart
<1>43. ASSUME NEW s \in Session, ChildExits(s) PROVE (SeenStill /\ ListingComplete)'
  BY <1>43 DEF ChildExits
<1>44. ASSUME NEW c \in late, LateCommand(c) PROVE (SeenStill /\ ListingComplete)'
  BY <1>44 DEF LateCommand
<1>45. CASE UNCHANGED vars
  BY <1>45 DEF vars
<1> QED
    BY <1>1, <1>2, <1>3, <1>4, <1>5, <1>6, <1>7, <1>8, <1>9, <1>10, <1>11, <1>12, <1>13,
     <1>14, <1>15, <1>16, <1>17, <1>18, <1>19, <1>20, <1>21, <1>22, <1>23, <1>24, <1>25,
     <1>26, <1>27, <1>28, <1>29, <1>30, <1>31, <1>32, <1>33, <1>34, <1>35, <1>36, <1>37,
     <1>38, <1>39, <1>40, <1>41, <1>42, <1>43, <1>44, <1>45
  DEF Next, Handle, Recovery

\* Only the sandbox of one holder changes, and what that holder does is right.
LEMMA HolderActs ==
  ASSUME Inv, Discipline, Sandboxes, StoppedIsStopped,
         NEW s \in Session, NEW b \in Sandbox, Holds(s, b),
         UNCHANGED <<status, sandbox, doubt, rec>>,
         \A c \in Sandbox : c # b => box'[c] = box[c],
         \A t \in Session : t # s =>
           (\A steps : Busy(t, steps)' <=> Busy(t, steps)),
         ~Busy(s, {"mark_stopped"})',
         Busy(s, {"mark_running", "clean_kit", "mark_removed"})'
  PROVE  StoppedIsStopped'
<1>1. ASSUME NEW t \in Session, t # s, sandbox[t] = b, b \notin doubt,
             ~Busy(t, {"clean_kit", "mark_removed"})
      PROVE  status[t] = "removed"
  BY <1>1 DEF Sandboxes, HeldOnce, Holds
<1>2. ASSUME NEW t \in Session, Busy(t, {"mark_stopped"})
      PROVE  ~Busy(t, {"clean_kit", "mark_removed"}) /\ status[t] \in Active
  BY <1>2 DEF Busy, Discipline, Exclusive, HandlerStatus, At
<1>3. ASSUME NEW t \in Session, ~Busy(t, {"mark_running", "clean_kit", "mark_removed"})
      PROVE  ~Busy(t, {"clean_kit", "mark_removed"})
  BY <1>3 DEF Busy
<1>4. ASSUME NEW t \in Session, t # s, sandbox[t] \in Sandbox \ doubt
      PROVE  /\ status[t] = "stopped"
                /\ ~Busy(t, {"mark_running", "clean_kit", "mark_removed"})
                  => box'[sandbox[t]] = "stopped"
             /\ Busy(t, {"mark_stopped"}) => box'[sandbox[t]] = "stopped"
  BY <1>1, <1>2, <1>3, <1>4 DEF StoppedIsStopped, Active
<1> QED BY <1>4 DEF StoppedIsStopped

\* A resume starts the sandbox of its own row only.
LEMMA AttachStopped ==
  ASSUME OneAtATime, Inv, Discipline, Sandboxes, StoppedIsStopped,
         NEW r \in Request, AttachPty(r)
  PROVE  StoppedIsStopped'
<1> USE DEF At, Discipline, Inv, Types, TypeOK
<1>1. UNCHANGED <<status, sandbox, doubt, rec>>
  BY DEF AttachPty, rows
<1>2. PICK s0 \in Session, b0 \in Sandbox :
        s0 = req[r].s /\ b0 = req[r].b /\ sandbox[s0] = b0
  BY DEF AttachPty, Copies, TerminalOnOwnSandbox, StepsHaveSubject, RequestState,
         SandboxOrNone, HandlerStatus, Exists, Sandboxes, IdsAgree
<1>3. Holds(s0, b0)
  BY <1>2 DEF AttachPty, Exclusive, HandlerStatus, Holds, Busy
<1>4. \A c \in Sandbox : c # b0 => box'[c] = box[c]
  BY <1>2 DEF AttachPty
<1>5. \A q \in Request : req'[q].s = req[q].s /\ (q # r => req'[q] = req[q])
  BY DEF AttachPty, Goto, RequestState
<1>6. req'[r].at = "mark_running"
  BY DEF AttachPty, Goto, RequestState
<1>7. \A q \in Request : q # r => req[q].s # s0
  BY <1>2 DEF AttachPty, Exclusive
<1>8. \A t \in Session : t # s0 => \A steps : Busy(t, steps)' <=> Busy(t, steps)
  BY <1>2, <1>5 DEF Busy
<1>9. /\ ~Busy(s0, {"mark_stopped"})'
      /\ Busy(s0, {"mark_running", "clean_kit", "mark_removed"})'
  BY <1>2, <1>5, <1>6, <1>7 DEF Busy
<1> HIDE DEF At, Discipline, Inv, Types, TypeOK
<1> QED BY <1>1, <1>2, <1>3, <1>4, <1>8, <1>9, HolderActs

\* So does a removal with the sandbox that it removes.
LEMMA RemoveStopped ==
  ASSUME OneAtATime, Inv, Discipline, Sandboxes, StoppedIsStopped,
         NEW r \in Request, RemoveSandbox(r)
  PROVE  StoppedIsStopped'
<1> USE DEF At, Discipline, Inv, Types, TypeOK
<1>1. UNCHANGED <<status, sandbox, doubt, rec>>
  BY DEF RemoveSandbox, rows
<1>2. PICK s0 \in Session, b0 \in Sandbox :
        s0 = req[r].s /\ b0 = req[r].b /\ sandbox[s0] = b0
  BY DEF RemoveSandbox, Copies, TerminalOnOwnSandbox, StepsHaveSubject, RequestState,
         SandboxOrNone, HandlerStatus, Exists, Sandboxes, IdsAgree
<1>3. Holds(s0, b0)
  BY <1>2 DEF RemoveSandbox, Exclusive, HandlerStatus, Holds, Busy
<1>4. \A c \in Sandbox : c # b0 => box'[c] = box[c]
  BY <1>2 DEF RemoveSandbox
<1>5. \A q \in Request : req'[q].s = req[q].s /\ (q # r => req'[q] = req[q])
  BY DEF RemoveSandbox, Goto, RequestState
<1>6. req'[r].at = "clean_kit"
  BY DEF RemoveSandbox, Goto, RequestState
<1>7. \A q \in Request : q # r => req[q].s # s0
  BY <1>2 DEF RemoveSandbox, Exclusive
<1>8. \A t \in Session : t # s0 => \A steps : Busy(t, steps)' <=> Busy(t, steps)
  BY <1>2, <1>5 DEF Busy
<1>9. /\ ~Busy(s0, {"mark_stopped"})'
      /\ Busy(s0, {"mark_running", "clean_kit", "mark_removed"})'
  BY <1>2, <1>5, <1>6, <1>7 DEF Busy
<1> HIDE DEF At, Discipline, Inv, Types, TypeOK
<1> QED BY <1>1, <1>2, <1>3, <1>4, <1>8, <1>9, HolderActs

OwnSandboxStep == \E r \in Request : AttachPty(r) \/ RemoveSandbox(r)

LEMMA OthersStopped ==
  ASSUME OneAtATime, "ls" \notin MayFail, Inv, Discipline, Sandboxes, StoppedIsStopped,
         [Next]_vars
  PROVE  StoppedIsStopped' \/ OwnSandboxStep
<1> USE OneAtATime, ConstantsOK
  DEF Inv, Types, Owners, Copies, TypeOK, StepsHaveSubject, RequestState, RecoveryState,
      SandboxOrNone, At, Exists, SetStatus, DeleteRows, Goto, Finish, Idle, RecStep,
      RecNext, Booting, Admit, Offered, rows, terminals, outside, Discipline, Exclusive,
      HandlerStatus, RecoveryStatus, Fresh, StartedOnce, SandboxInRow, Unrecorded,
      CopiesAgree, TerminalOnOwnSandbox, Active, Busy, Looking, Sandboxes, IdsAgree,
      LateDoubted, SeenStill, HeldExists, HeldOnce, RecordedOnce, Holds, Records,
      StoppedIsStopped
<1>1. ASSUME NEW r \in Request, NEW s \in Session, Start(r, s) PROVE StoppedIsStopped'
  BY <1>1 DEF Start
<1>2. ASSUME NEW r \in Request, NEW s \in Session, Resume(r, s) PROVE StoppedIsStopped'
  BY <1>2 DEF Resume
<1>3. ASSUME NEW r \in Request, NEW s \in Session, Stop(r, s) PROVE StoppedIsStopped'
  BY <1>3 DEF Stop
<1>4. ASSUME NEW r \in Request, NEW s \in Session, Remove(r, s) PROVE StoppedIsStopped'
  BY <1>4 DEF Remove
<1>5. ASSUME NEW r \in Request, InsertSession(r) PROVE StoppedIsStopped'
  <2>1. UNCHANGED <<sandbox, box, doubt, rec>> /\ At(r, "insert")
    BY <1>5 DEF InsertSession
  <2>2. \/ status' = status
        \/ status[req[r].s] = "unused" /\ status' = [status EXCEPT ![req[r].s] = "starting"]
    BY <1>5 DEF InsertSession
  <2>3. PICK q : req' = [req EXCEPT ![r] = q] /\ q.at \in {"idle", "create"}
    BY <1>5 DEF InsertSession
  <2> QED BY <2>1, <2>2, <2>3
<1>6. ASSUME NEW r \in Request, CreateSandbox(r) PROVE StoppedIsStopped'
  BY <1>6 DEF CreateSandbox
<1>7. ASSUME NEW r \in Request, CreateFails(r) PROVE StoppedIsStopped'
  BY <1>7 DEF CreateFails
<1>8. ASSUME NEW r \in Request, RecordSandbox(r) PROVE StoppedIsStopped'
  BY <1>8 DEF RecordSandbox
<1>9. ASSUME NEW r \in Request, RecordRefused(r) PROVE StoppedIsStopped'
  BY <1>9 DEF RecordRefused
<1>10. ASSUME NEW r \in Request, SpawnPty(r) PROVE StoppedIsStopped'
  BY <1>10 DEF SpawnPty
<1>11. ASSUME NEW r \in Request, SpawnRefused(r) PROVE StoppedIsStopped'
  BY <1>11 DEF SpawnRefused
<1>12. ASSUME NEW r \in Request, AttachPty(r) PROVE OwnSandboxStep
  BY <1>12 DEF OwnSandboxStep
<1>13. ASSUME NEW r \in Request, AttachFails(r) PROVE StoppedIsStopped'
  BY <1>13 DEF AttachFails
<1>14. ASSUME NEW r \in Request, MarkRunning(r) PROVE StoppedIsStopped'
  BY <1>14 DEF MarkRunning
<1>15. ASSUME NEW r \in Request, KillPty(r) PROVE StoppedIsStopped'
  <2>1. UNCHANGED <<status, sandbox, box, doubt, rec>>
    BY <1>15 DEF KillPty
  <2>2. PICK at \in {"stop_sandbox", "clean_kit", "remove_sandbox"} :
          /\ req' = [req EXCEPT ![r] = [@ EXCEPT !.at = at]]
          /\ at = "clean_kit" => sandbox[req[r].s] = NoSandbox
    <3>1. CASE At(r, "stop_kill")
      BY <1>15, <3>1 DEF KillPty
    <3>2. CASE At(r, "remove_kill") /\ req[r].b = NoSandbox
      BY <1>15, <3>2 DEF KillPty
    <3>3. CASE At(r, "remove_kill") /\ req[r].b # NoSandbox
      BY <1>15, <3>3 DEF KillPty
    <3> QED BY <1>15, <3>1, <3>2, <3>3 DEF KillPty
  <2>3. /\ \A q \in Request : req'[q].s = req[q].s /\ (q # r => req'[q] = req[q])
        /\ req'[r].at = at /\ req[r].at \in {"stop_kill", "remove_kill"}
    BY <1>15, <2>2 DEF KillPty
  <2> QED BY <2>1, <2>2, <2>3
<1>16. ASSUME NEW r \in Request, StopSandbox(r) PROVE StoppedIsStopped'
  BY <1>16 DEF StopSandbox
<1>17. ASSUME NEW r \in Request, StopFails(r) PROVE StoppedIsStopped'
  BY <1>17 DEF StopFails
<1>18. ASSUME NEW r \in Request, MarkStopped(r) PROVE StoppedIsStopped'
  BY <1>18 DEF MarkStopped
<1>19. ASSUME NEW r \in Request, RemoveSandbox(r) PROVE OwnSandboxStep
  BY <1>19 DEF OwnSandboxStep
<1>20. ASSUME NEW r \in Request, RemoveFails(r) PROVE StoppedIsStopped'
  BY <1>20 DEF RemoveFails
<1>21. ASSUME NEW r \in Request, CleanKit(r) PROVE StoppedIsStopped'
  BY <1>21 DEF CleanKit
<1>22. ASSUME NEW r \in Request, CleanKitFails(r) PROVE StoppedIsStopped'
  BY <1>22 DEF CleanKitFails
<1>23. ASSUME NEW r \in Request, MarkRemoved(r) PROVE StoppedIsStopped'
  BY <1>23 DEF MarkRemoved
<1>24. ASSUME RecoverList PROVE StoppedIsStopped'
  BY <1>24 DEF RecoverList
<1>25. ASSUME RecoverUnrecorded PROVE StoppedIsStopped'
  BY <1>25 DEF RecoverUnrecorded
<1>26. ASSUME RecoverLook PROVE StoppedIsStopped'
  BY <1>26 DEF RecoverLook
<1>27. ASSUME RecoverStopped PROVE StoppedIsStopped'
  <2>1. rec.s \in Session /\ sandbox[rec.s] = rec.b /\ rec.seen = "stopped"
    BY <1>27 DEF RecoverStopped
  <2>2. rec.b \notin doubt => box[rec.b] = "stopped"
    BY <1>27, <2>1 DEF RecoverStopped
  <2>3. \A r \in Request : At(r, "idle")
    BY <1>27 DEF RecoverStopped
  <2> QED BY <1>27, <2>1, <2>2, <2>3 DEF RecoverStopped
<1>28. ASSUME RecoverMissing PROVE StoppedIsStopped'
  BY <1>28 DEF RecoverMissing
<1>29. ASSUME RecoverRunning PROVE StoppedIsStopped'
  BY <1>29 DEF RecoverRunning
<1>30. ASSUME RecoverRm PROVE StoppedIsStopped'
  BY <1>30 DEF RecoverRm
<1>31. ASSUME RecoverSpawn PROVE StoppedIsStopped'
  BY <1>31 DEF RecoverSpawn
<1>32. ASSUME RecoverAttach PROVE StoppedIsStopped'
  BY <1>32 DEF InsertPty, RecoverAttach
<1>33. ASSUME RecoverMark PROVE StoppedIsStopped'
  BY <1>33 DEF RecoverMark
<1>34. ASSUME RecoverFails PROVE StoppedIsStopped'
  BY <1>34 DEF RecoverFails
<1>35. ASSUME CleanupList PROVE StoppedIsStopped'
  BY <1>35 DEF CleanupList
<1>36. ASSUME CleanupSkipped PROVE StoppedIsStopped'
  BY <1>36 DEF CleanupSkipped
<1>37. ASSUME CleanupSelect PROVE StoppedIsStopped'
  BY <1>37 DEF CleanupSelect
<1>38. ASSUME CleanupSweep PROVE StoppedIsStopped'
  BY <1>38 DEF CleanupSweep
<1>39. ASSUME RecoverDone PROVE StoppedIsStopped'
  BY <1>39 DEF RecoverDone
<1>40. ASSUME DeletePersona PROVE StoppedIsStopped'
  BY <1>40 DEF Settled, DeletePersona
<1>41. ASSUME CreatePersona PROVE StoppedIsStopped'
  BY <1>41 DEF CreatePersona
<1>42. ASSUME Restart PROVE StoppedIsStopped'
  <2>1. /\ UNCHANGED <<status, sandbox, box>>
        /\ doubt \subseteq doubt' /\ rec'.at = "list"
        /\ \A r \in Request :
             req'[r] = Idle /\ (req[r].b \in Sandbox => req[r].b \in doubt')
    BY <1>42 DEF Restart
  <2>2. \A s \in Session : Exists(s) /\ sandbox[s] \in Sandbox
            /\ Busy(s, {"mark_running", "clean_kit", "mark_removed"})
          => sandbox[s] \in doubt'
    BY <2>1
  <2> QED BY <2>1, <2>2
<1>43. ASSUME NEW s \in Session, ChildExits(s) PROVE StoppedIsStopped'
  BY <1>43 DEF ChildExits
<1>44. ASSUME NEW c \in late, LateCommand(c) PROVE StoppedIsStopped'
  BY <1>44 DEF LateCommand
<1>45. CASE UNCHANGED vars
  BY <1>45 DEF vars
<1> QED
    BY <1>1, <1>2, <1>3, <1>4, <1>5, <1>6, <1>7, <1>8, <1>9, <1>10, <1>11, <1>12, <1>13,
     <1>14, <1>15, <1>16, <1>17, <1>18, <1>19, <1>20, <1>21, <1>22, <1>23, <1>24, <1>25,
     <1>26, <1>27, <1>28, <1>29, <1>30, <1>31, <1>32, <1>33, <1>34, <1>35, <1>36, <1>37,
     <1>38, <1>39, <1>40, <1>41, <1>42, <1>43, <1>44, <1>45
  DEF Next, Handle, Recovery

\* While `sbx ls` answers, a row is marked stopped only with its sandbox stopped.
LEMMA StoppedStep ==
  ASSUME OneAtATime, "ls" \notin MayFail, Inv, Discipline, Sandboxes, StoppedIsStopped,
         [Next]_vars
  PROVE  StoppedIsStopped'
BY OthersStopped, AttachStopped, RemoveStopped DEF OwnSandboxStep

-----------------------------------------------------------------------------
(***************************************************************************)
(* The page.  Its requests change sandboxes, which they put in doubt.      *)
(***************************************************************************)
PageTyped ==
  /\ page.at \in {"idle", "stop", "start", "remove", "run"}
  /\ page.at # "idle" => page.b \in Sandbox

Meddling ==
  /\ UNCHANGED <<rows, terminals, late, req, rec, crashes>>
  /\ box' \in [Sandbox -> {"absent", "stopped", "running"}]
  /\ doubt \subseteq doubt' /\ doubt' \subseteq Sandbox
  /\ \A b \in Sandbox \ doubt' : box'[b] = box[b]

LEMMA MeddleEffect ==
  ASSUME TypeOK, page.b \in Sandbox,
         NEW state \in {"absent", "stopped", "running"}, Meddle(state)
  PROVE  Meddling
BY DEF TypeOK, Meddle, Meddling

LEMMA PageMoves ==
  ASSUME Inv, PageTyped, PageActs
  PROVE  PageTyped' /\ (UNCHANGED vars \/ Meddling)
<1> USE DEF PageTyped, Inv, Types, TypeOK, NoPage, Answer
<1>1. ASSUME NEW b \in Sandbox, AskStop(b) \/ AskStart(b) \/ AskRemove(b)
      PROVE  PageTyped' /\ UNCHANGED vars
  BY <1>1 DEF AskStop, AskStart, AskRemove, AskPage
<1>2. ASSUME PageStop PROVE PageTyped' /\ Meddling
  <2>1. box[page.b] \in {"absent", "stopped", "running"} /\ page.b \in Sandbox
    BY <1>2 DEF PageStop
  <2>2. CASE box[page.b] = "running"
    BY <1>2, <2>1, <2>2, MeddleEffect DEF PageStop
  <2>3. CASE box[page.b] # "running"
    BY <1>2, <2>1, <2>3, MeddleEffect DEF PageStop
  <2> QED BY <2>2, <2>3
<1>3. ASSUME PageRemove PROVE PageTyped' /\ Meddling
  BY <1>3, MeddleEffect DEF PageRemove
<1>4. ASSUME PageFails PROVE PageTyped' /\ UNCHANGED vars
  BY <1>4 DEF PageFails
<1>5. ASSUME PageFindsSession PROVE PageTyped' /\ UNCHANGED vars
  <2>1. CASE Managed(page.b)
    <3>1. page' = [page EXCEPT !.at = "run"] /\ page.b \in Sandbox /\ UNCHANGED vars
      BY <1>5, <2>1 DEF PageFindsSession
    <3>2. page'.at \in {"run", page.at} /\ page'.b = page.b
      BY <3>1
    <3> QED BY <3>1, <3>2
  <2>2. CASE ~Managed(page.b)
    BY <1>5, <2>2 DEF PageFindsSession
  <2> QED BY <2>1, <2>2
<1>6. ASSUME PageReattach PROVE PageTyped' /\ Meddling
  <2>1. box[page.b] \in {"absent", "stopped", "running"} /\ page.b \in Sandbox
    BY <1>6 DEF PageReattach
  <2>2. CASE box[page.b] = "stopped"
    BY <1>6, <2>1, <2>2, MeddleEffect DEF PageReattach
  <2>3. CASE box[page.b] # "stopped"
    BY <1>6, <2>1, <2>3, MeddleEffect DEF PageReattach
  <2> QED BY <2>2, <2>3
<1>7. ASSUME PageRunsAnother PROVE PageTyped' /\ Meddling
  BY <1>7 DEF PageRunsAnother, Meddling
<1> QED BY <1>1, <1>2, <1>3, <1>4, <1>5, <1>6, <1>7 DEF PageActs

\* A step with the page is a step of the sessions or a step of the page.
LEMMA PageCases ==
  ASSUME Inv, PageTyped, [PageNext]_pageVars
  PROVE  PageTyped' /\ ([Next]_vars \/ Meddling)
<1>1. CASE PageActs
  BY <1>1, PageMoves
<1>2. CASE UNCHANGED page /\ (OthersStep \/ Recovery)
  BY <1>2 DEF PageTyped, OthersStep, Next
<1>3. CASE RestartAll
  BY <1>3 DEF PageTyped, RestartAll, NoPage, Next
<1>4. CASE UNCHANGED pageVars
  BY <1>4 DEF PageTyped, pageVars
<1> QED BY <1>1, <1>2, <1>3, <1>4 DEF PageNext

\* What is said of the sessions outside doubt, the page leaves true.
LEMMA MeddlingKeeps ==
  ASSUME Inv, Meddling
  PROVE  /\ Inv'
         /\ Discipline => Discipline'
         /\ Discipline /\ Terminals => Terminals'
         /\ Sandboxes => Sandboxes'
         /\ StoppedIsStopped => StoppedIsStopped'
<1> USE DEF Meddling, rows, terminals
<1>1. Inv'
  <2>1. Types'
    BY DEF Inv, Types, TypeOK, StepsHaveSubject, At
  <2>2. Owners' /\ Copies' /\ Kits'
    BY DEF Inv, Owners, Copies, Kits, Fresh, StartedOnce, SandboxInRow, CopiesAgree,
           TerminalOnOwnSandbox, RunningHasSandbox, RemovalHasNoKit, RemovedHasNoKit,
           At, Exists
  <2> QED BY <2>1, <2>2 DEF Inv
<1>2. Discipline => Discipline'
  BY DEF Discipline, Exclusive, HandlerStatus, RecoveryStatus, At
<1>3. Terminals => Terminals'
  BY DEF Terminals, NoStray, EntryExplained, HandlerEntry, RecoveryEntry,
         RunningExplained, Busy, At
<1>4. ASSUME Sandboxes PROVE Sandboxes'
  <2>1. HoldersKept
    BY DEF HoldersKept, Holds, Records, Busy, At
  <2>2. Held'
    BY <1>4, <2>1, HeldKept DEF Sandboxes, Held
  <2>3. IdsAgree' /\ LateDoubted'
    BY <1>4 DEF Sandboxes, IdsAgree, LateDoubted
  <2>4. SeenStill'
    BY <1>4, ConstantsOK DEF Sandboxes, SeenStill, Inv, Types, TypeOK, RecoveryState,
         StepsHaveSubject, SandboxOrNone
  <2>5. ListingComplete'
    BY <1>4 DEF Sandboxes, ListingComplete
  <2> QED BY <2>2, <2>3, <2>4, <2>5 DEF Held, Sandboxes
<1>5. StoppedIsStopped => StoppedIsStopped'
  BY DEF StoppedIsStopped, Busy
<1> QED BY <1>1, <1>2, <1>3, <1>4, <1>5

-----------------------------------------------------------------------------
(***************************************************************************)
(* Recovery undisturbed.                                                   *)
(***************************************************************************)
\* By itself recovery finds the sandboxes as it has seen them, so that each row it is
\* through with is right.
LEMMA UndisturbedStep ==
  ASSUME "ls" \notin MayFail, Inv, Undisturbed, Recovery
  PROVE  Undisturbed'
<1> USE ConstantsOK
  DEF Inv, Types, Copies, Owners, TypeOK, StepsHaveSubject, RequestState, RecoveryState,
      SandboxOrNone, At, Exists, SetStatus, DeleteRows, RecStep, RecNext, rows, terminals,
      outside, CopiesAgree, TerminalOnOwnSandbox, SandboxInRow, Active, Looking,
      Undisturbed, RecoverySees, ActiveRecovered, StoppedSwept, RunningRight, StoppedRight
<1>1. ASSUME RecoverList PROVE Undisturbed'
  <2>1. rec'.at = "each" /\ UNCHANGED <<status, req>>
    BY <1>1 DEF RecoverList
  <2>2. rec'.todo = {<<s, sandbox[s]>> : s \in {x \in Session : status[x] \in Active}}
    BY <1>1 DEF RecoverList
  <2>3. ASSUME NEW s \in Session, status[s] \in Active PROVE \E e \in rec'.todo : e[1] = s
    <3>1. <<s, sandbox[s]>> \in rec'.todo
      BY <2>2, <2>3
    <3> QED BY <3>1
  <2> QED BY <2>1, <2>3
<1>2. ASSUME RecoverUnrecorded PROVE Undisturbed'
  BY <1>2 DEF RecoverUnrecorded
<1>3. ASSUME RecoverLook PROVE Undisturbed'
  BY <1>3 DEF RecoverLook
<1>4. ASSUME RecoverStopped PROVE Undisturbed'
  BY <1>4 DEF RecoverStopped
<1>5. ASSUME RecoverMissing PROVE Undisturbed'
  BY <1>5 DEF RecoverMissing
<1>6. ASSUME RecoverRunning PROVE Undisturbed'
  BY <1>6 DEF RecoverRunning
<1>7. ASSUME RecoverRm PROVE Undisturbed'
  BY <1>7 DEF RecoverRm
<1>8. ASSUME RecoverSpawn PROVE Undisturbed'
  BY <1>8 DEF RecoverSpawn
<1>9. ASSUME RecoverAttach PROVE Undisturbed'
  BY <1>9 DEF InsertPty, RecoverAttach
<1>10. ASSUME RecoverMark PROVE Undisturbed'
  BY <1>10 DEF RecoverMark
<1>11. ASSUME RecoverFails PROVE Undisturbed'
  BY <1>11 DEF RecoverFails
<1>12. ASSUME CleanupList PROVE Undisturbed'
  BY <1>12 DEF CleanupList
<1>13. ASSUME CleanupSkipped PROVE Undisturbed'
  BY <1>13 DEF CleanupSkipped
<1>14. ASSUME CleanupSelect PROVE Undisturbed'
  BY <1>14 DEF CleanupSelect
<1>15. ASSUME CleanupSweep PROVE Undisturbed'
  BY <1>15 DEF CleanupSweep
<1>16. ASSUME RecoverDone PROVE Undisturbed'
  BY <1>16 DEF RecoverDone
<1> QED
  BY <1>1, <1>2, <1>3, <1>4, <1>5, <1>6, <1>7, <1>8, <1>9, <1>10, <1>11, <1>12, <1>13,
     <1>14, <1>15, <1>16
  DEF Recovery

-----------------------------------------------------------------------------
(***************************************************************************)
(* The theorems.                                                           *)
(***************************************************************************)
LEMMA RestInit ==
  Init => Discipline /\ Terminals /\ Sandboxes /\ StoppedIsStopped
<1> SUFFICES ASSUME Init PROVE Discipline /\ Terminals /\ Sandboxes /\ StoppedIsStopped
  OBVIOUS
<1>1. Discipline
  BY DisciplineInit
<1>2. Terminals
  BY DEF Init, Booting, Idle, Terminals, NoStray, EntryExplained, HandlerEntry,
         RecoveryEntry, RunningExplained, At, Looking
<1>3. Sandboxes /\ StoppedIsStopped
  BY ConstantsOK
  DEF Init, Booting, Idle, Sandboxes, IdsAgree, LateDoubted, HeldExists, HeldOnce,
      RecordedOnce, HeldOrRecorded, SeenStill, ListingComplete, StoppedIsStopped, Holds,
      Records, At
<1> QED BY <1>1, <1>2, <1>3

LEMMA PageInvAlways == PageSpec => [](Inv /\ PageTyped)
<1>1. PageInit => Inv /\ PageTyped
  BY InitInv DEF PageInit, NoPage, PageTyped
<1>2. Inv /\ PageTyped /\ [PageNext]_pageVars => Inv' /\ PageTyped'
  BY PageCases, NextInv, MeddlingKeeps
<1> QED BY <1>1, <1>2, PTL DEF PageSpec

\* The invariant behind the theorems about the sessions at rest.
Rest == Discipline /\ Terminals /\ Sandboxes

LEMMA RestStep ==
  ASSUME OneAtATime, Inv, Rest, [Next]_vars
  PROVE  Rest'
<1>1. Discipline'
  BY ExclusiveStep, HandlerStatusStep, RecoveryStatusStep DEF Rest, Discipline
<1>2. Terminals'
  BY TerminalsStep DEF Rest
<1>3. Sandboxes'
  BY IdsStep, HeldStep, SeenStep DEF Rest, Sandboxes, Held
<1> QED BY <1>1, <1>2, <1>3 DEF Rest

\* With requests one at a time per session, whatever the page does to the sandboxes and
\* wherever the application exits, the invariant of the sessions at rest holds.
THEOREM RestAlways == ASSUME OneAtATime PROVE PageSpec => []Rest
<1>1. PageInit => Rest
  BY RestInit DEF PageInit, Rest
<1>2. Inv /\ PageTyped /\ Rest /\ [PageNext]_pageVars => Rest'
  <2> SUFFICES ASSUME Inv, PageTyped, Rest, [PageNext]_pageVars PROVE Rest'
    OBVIOUS
  <2>1. [Next]_vars \/ Meddling
    BY PageCases
  <2>2. CASE [Next]_vars
    BY OneAtATime, <2>2, RestStep
  <2>3. CASE Meddling
    BY <2>3, MeddlingKeeps DEF Rest
  <2> QED BY <2>1, <2>2, <2>3
<1> QED BY PageInvAlways, <1>1, <1>2, PTL DEF PageSpec

LEMMA SettledIdle ==
  ASSUME Settled
  PROVE  /\ rec.at = "done"
         /\ \A s \in Session : \A steps : "idle" \notin steps => ~Busy(s, steps)
         /\ \A r \in Request : \A b : ~Records(r, b)
BY DEF Settled, Busy, Records, At

\* With nothing under way, the map of terminals has an entry for just the sessions whose
\* row says running, and no child runs that the map has lost.
THEOREM TerminalsMatchAlways == ASSUME OneAtATime PROVE PageSpec => []TerminalsMatch
<1>1. Rest => TerminalsMatch
  <2> SUFFICES ASSUME Rest, Settled, NEW s \in Session
               PROVE  /\ ~stray[s]
                      /\ status[s] = "running" <=> pty[s] # "none"
    BY DEF TerminalsMatch, RunningIsAttached
  <2>1. ~Busy(s, {"mark_running"}) /\ ~Busy(s, {"stop_sandbox", "mark_stopped"})
    BY SettledIdle
  <2> QED
    BY <2>1, SettledIdle
    DEF Rest, Terminals, NoStray, EntryExplained, RunningExplained, Looking
<1> QED BY OneAtATime, RestAlways, <1>1, PTL

\* With nothing under way, a sandbox outside doubt is named by a row that is not removed.
THEOREM NoOrphanSandboxAlways == ASSUME OneAtATime PROVE PageSpec => []NoOrphanSandbox
<1>1. Rest => NoOrphanSandbox
  BY SettledIdle DEF Rest, Sandboxes, HeldOrRecorded, Holds, NoOrphanSandbox
<1> QED BY OneAtATime, RestAlways, <1>1, PTL

\* With nothing under way, no two rows that are not removed name one sandbox outside
\* doubt, though sbx gives the name of a removed one again.
THEOREM SandboxesApartAlways == ASSUME OneAtATime PROVE PageSpec => []SandboxesApart
<1>1. Rest => SandboxesApart
  <2> SUFFICES ASSUME Rest, Settled, NEW b \in Sandbox \ doubt, NEW s \in Session,
                      NEW t \in Session, sandbox[s] = b, status[s] # "removed",
                      sandbox[t] = b, status[t] # "removed"
               PROVE  s = t
    BY DEF SandboxesApart, NamedBy
  <2>1. Holds(s, b) /\ Holds(t, b)
    BY SettledIdle DEF Holds
  <2> QED BY <2>1 DEF Rest, Sandboxes, HeldOnce
<1> QED BY OneAtATime, RestAlways, <1>1, PTL

\* With nothing under way and as long as `sbx ls` answers, a running session has its
\* sandbox, and that of a stopped one is stopped.
THEOREM SandboxKeptAlways ==
  ASSUME OneAtATime, "ls" \notin MayFail PROVE PageSpec => []SandboxKept
<1>1. PageInit => StoppedIsStopped
  BY RestInit DEF PageInit
<1>2. Inv /\ PageTyped /\ Rest /\ StoppedIsStopped /\ [PageNext]_pageVars => StoppedIsStopped'
  <2> SUFFICES ASSUME Inv, PageTyped, Rest, StoppedIsStopped, [PageNext]_pageVars
               PROVE  StoppedIsStopped'
    OBVIOUS
  <2>1. CASE [Next]_vars
    BY OneAtATime, "ls" \notin MayFail, <2>1, StoppedStep DEF Rest
  <2>2. CASE Meddling
    BY <2>2, MeddlingKeeps
  <2> QED BY <2>1, <2>2, PageCases
<1>3. Rest /\ StoppedIsStopped => SandboxKept
  <2> SUFFICES ASSUME Rest, StoppedIsStopped, Settled,
                      NEW s \in Session, sandbox[s] \in Sandbox \ doubt
               PROVE  /\ status[s] = "running" => box[sandbox[s]] # "absent"
                      /\ status[s] = "stopped" => box[sandbox[s]] = "stopped"
    BY DEF SandboxKept
  <2>1. ~Busy(s, {"clean_kit", "mark_removed"})
        /\ ~Busy(s, {"mark_running", "clean_kit", "mark_removed"})
    BY SettledIdle
  <2>2. status[s] = "running" => Holds(s, sandbox[s])
    BY <2>1 DEF Holds
  <2> QED BY <2>1, <2>2 DEF Rest, Sandboxes, HeldExists, StoppedIsStopped
<1> QED
  BY OneAtATime, PageInvAlways, RestAlways, <1>1, <1>2, <1>3, PTL DEF PageSpec

\* Once recovery has run undisturbed and `sbx ls` has answered, a running session has a
\* live terminal on a running sandbox, a stopped one has its sandbox, and none is
\* starting, whatever the requests and the page did before the exit.
THEOREM RecoveryAgreesAlways ==
  ASSUME "ls" \notin MayFail PROVE PageSpec => []RecoveryAgrees
<1>1. PageInit => (alone => Undisturbed)
  BY DEF PageInit, Init, Booting, Idle, Undisturbed, RecoverySees, ActiveRecovered,
         StoppedSwept, At
<1>2. Inv /\ (alone => Undisturbed) /\ [PageNext]_pageVars => (alone => Undisturbed)'
  <2> SUFFICES ASSUME Inv, alone => Undisturbed, [PageNext]_pageVars, alone'
               PROVE  Undisturbed'
    OBVIOUS
  <2>1. CASE Recovery /\ UNCHANGED alone
    BY "ls" \notin MayFail, <2>1, UndisturbedStep
  <2>2. CASE RestartAll
    BY <2>2 DEF RestartAll, Restart, Booting, Idle, Undisturbed, RecoverySees,
                ActiveRecovered, StoppedSwept, At
  <2>3. CASE UNCHANGED pageVars
    BY <2>3 DEF pageVars, vars, rows, terminals, outside, Undisturbed, RecoverySees,
                ActiveRecovered, StoppedSwept, RunningRight, StoppedRight, At
  <2> QED BY <2>1, <2>2, <2>3 DEF PageNext
<1>3. (alone => Undisturbed) => RecoveryAgrees
  BY DEF Undisturbed, ActiveRecovered, StoppedSwept, RunningRight, StoppedRight,
         RecoveryAgrees, Active, Looking
<1> QED BY PageInvAlways, <1>1, <1>2, <1>3, PTL DEF PageSpec

\* With the page beside them too, sessions go through the phases of SessionLifecycle only.
THEOREM PageRefinement == ASSUME OneAtATime PROVE PageSpec => FollowsLifecycle
<1>1. PageInit => Lifecycle!Init
  BY DEF PageInit, Init, Lifecycle!Init
<1>2. Inv /\ PageTyped /\ Rest /\ [PageNext]_pageVars => [Lifecycle!Next]_status
  BY OneAtATime, PageCases, NextLifecycle DEF Rest, Meddling, rows
<1> QED
  BY OneAtATime, PageInvAlways, RestAlways, <1>1, <1>2, PTL
  DEF PageSpec, FollowsLifecycle, Lifecycle!Spec

=============================================================================
