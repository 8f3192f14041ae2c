--------------------------- MODULE SessionsProofs ---------------------------
(***************************************************************************)
(* Proofs about Sessions, for any number of sessions, sandboxes and        *)
(* requests, any failures and any number of restarts.                      *)
(***************************************************************************)
EXTENDS Sessions, TLAPS

Unrecorded == {"insert", "create", "record"}

\* A handler knows its session, and a recovery step its session and sandbox.
StepsHaveSubject ==
  /\ \A r \in Request :
       /\ ~At(r, "idle") => req[r].s \in Session
       /\ req[r].at \in {"record", "stop_kill", "stop_sandbox", "remove_sandbox"}
            => req[r].b # NoSandbox
  /\ rec.at \in {"act", "rm", "spawn", "attach", "mark"}
       => rec.s \in Session /\ rec.b # NoSandbox

\* Until its row is inserted a session is known to one handler only, the one that
\* starts it.
Fresh ==
  /\ \A s \in Session : status[s] = "unused" =>
       /\ rec.s # s
       /\ \A b \in SandboxOrNone : <<s, b>> \notin rec.todo
       /\ \A r \in Request : req[r].s = s => At(r, "insert")
  /\ \A r \in Request : At(r, "insert") => status[req[r].s] = "unused"

\* A session is started once, and has no sandbox before that start records it.
StartedOnce ==
  \A r \in Request : req[r].at \in Unrecorded =>
    /\ sandbox[req[r].s] = NoSandbox
    /\ \A q \in Request :
         q # r /\ req[q].at \in Unrecorded => req[q].s # req[r].s

\* Only a row has a sandbox.
SandboxInRow ==
  \A s \in Session : ~Exists(s) => sandbox[s] = NoSandbox

\* The recovery task's copy of a row agrees with the row, if that is still there.
CopiesAgree ==
  /\ \A s \in Session, b \in Sandbox :
       <<s, b>> \in rec.todo /\ Exists(s) => sandbox[s] = b
  /\ rec.at = "act" /\ Exists(rec.s) => sandbox[rec.s] = rec.b

\* The last step of a removal finds the kit gone, and nobody generates it again.
RemovalHasNoKit ==
  \A r \in Request :
    At(r, "mark_removed") => ~kit[req[r].s] /\ status[req[r].s] # "unused"

Types  == TypeOK /\ StepsHaveSubject
Owners == Fresh /\ StartedOnce /\ SandboxInRow
Copies == CopiesAgree /\ TerminalOnOwnSandbox /\ RunningHasSandbox
Kits   == RemovalHasNoKit /\ RemovedHasNoKit

Inv == Types /\ Owners /\ Copies /\ Kits

-----------------------------------------------------------------------------

\* What three actions do, without their guards on everything else.
LEMMA CreateEffect ==
  ASSUME NEW r \in Request, CreateSandbox(r)
  PROVE  \E b \in Sandbox :
           /\ box' = [box EXCEPT ![b] = "stopped"]
           /\ req' = [req EXCEPT ![r] = [at |-> "record", s |-> req[r].s, b |-> b]]
  BY DEF CreateSandbox

LEMMA LookEffect ==
  ASSUME RecoverLook
  PROVE  \E e \in rec.todo, answer \in {"absent", "stopped", "running", "error"} :
           /\ e[2] # NoSandbox
           /\ rec' = [rec EXCEPT !.at = "act", !.todo = @ \ {e}, !.s = e[1], !.b = e[2],
                                 !.seen = answer]
  BY DEF RecoverLook

LEMMA ExitEffect ==
  ASSUME NEW s \in Session, ChildExits(s), pty \in [Session -> {"none", "live", "dead"}],
         stray \in [Session -> BOOLEAN]
  PROVE  pty' \in [Session -> {"none", "live", "dead"}] /\ stray' \in [Session -> BOOLEAN]
<1>1. CASE pty' = [pty EXCEPT ![s] = "dead"] /\ stray' = stray
  BY <1>1
<1>2. CASE stray' = [stray EXCEPT ![s] = FALSE] /\ pty' = pty
  BY <1>2
<1> QED BY <1>1, <1>2 DEF ChildExits

\* One step per action; under it, where one fact does not do, one per part.
LEMMA TypesStep == ASSUME Inv, [Next]_vars PROVE Types'
<1> USE ConstantsOK
  DEF Inv, TypeOK, StepsHaveSubject, CopiesAgree, RequestState, RecoveryState,
      SandboxOrNone, Step, Status, At, Command, Types, Owners, Copies, Kits, Exists,
      SetStatus, DeleteRows, Goto, Finish, Idle, InsertPty, RecStep, RecNext, Booting,
      Admit, Offered, rows, terminals, outside
<1>1. ASSUME NEW r \in Request, NEW s \in Session, Start(r, s) PROVE Types'
  BY <1>1 DEF Start
<1>2. ASSUME NEW r \in Request, NEW s \in Session, Resume(r, s) PROVE Types'
  BY <1>2 DEF Resume
<1>3. ASSUME NEW r \in Request, NEW s \in Session, Stop(r, s) PROVE Types'
  BY <1>3 DEF Active, Stop
<1>4. ASSUME NEW r \in Request, NEW s \in Session, Remove(r, s) PROVE Types'
  BY <1>4 DEF Remove
<1>5. ASSUME NEW r \in Request, InsertSession(r) PROVE Types'
  BY <1>5 DEF InsertSession
<1>6. ASSUME NEW r \in Request, CreateSandbox(r) PROVE Types'
  <2>1. PICK b \in Sandbox :
          /\ box' = [box EXCEPT ![b] = "stopped"]
          /\ req' = [req EXCEPT ![r] = [at |-> "record", s |-> req[r].s, b |-> b]]
    BY <1>6, CreateEffect
  <2>2. req'[r] = [at |-> "record", s |-> req[r].s, b |-> b]
    BY <2>1
  <2>3. req' \in [Request -> RequestState]
    <3>1. req'[r] \in RequestState  BY <2>2
    <3>2. \A q \in Request : q # r => req'[q] = req[q]  BY <2>1
    <3>3. req' = [q \in Request |-> req'[q]]  BY <2>1
    <3> QED BY <3>1, <3>2, <3>3
  <2>4. StepsHaveSubject'
    BY <1>6, <2>1, <2>2 DEF CreateSandbox
  <2> QED BY <1>6, <2>1, <2>3, <2>4 DEF CreateSandbox
<1>7. ASSUME NEW r \in Request, CreateFails(r) PROVE Types'
  BY <1>7 DEF CreateFails
<1>8. ASSUME NEW r \in Request, RecordSandbox(r) PROVE Types'
  BY <1>8 DEF RecordSandbox
<1>9. ASSUME NEW r \in Request, RecordRefused(r) PROVE Types'
  BY <1>9 DEF RecordRefused
<1>10. ASSUME NEW r \in Request, SpawnPty(r) PROVE Types'
  BY <1>10 DEF SpawnPty
<1>11. ASSUME NEW r \in Request, SpawnRefused(r) PROVE Types'
  BY <1>11 DEF SpawnRefused
<1>12. ASSUME NEW r \in Request, AttachPty(r) PROVE Types'
  <2>1. box' \in [Sandbox -> {"absent", "stopped", "running"}]
    BY <1>12 DEF AttachPty
  <2>2. pty' \in [Session -> {"none", "live", "dead"}] /\ stray' \in [Session -> BOOLEAN]
    BY <1>12 DEF AttachPty
  <2> QED BY <1>12, <2>1, <2>2 DEF AttachPty
<1>13. ASSUME NEW r \in Request, AttachFails(r) PROVE Types'
  BY <1>13 DEF AttachFails
<1>14. ASSUME NEW r \in Request, MarkRunning(r) PROVE Types'
  BY <1>14 DEF MarkRunning
<1>15. ASSUME NEW r \in Request, KillPty(r) PROVE Types'
  BY <1>15 DEF KillPty
<1>16. ASSUME NEW r \in Request, StopSandbox(r) PROVE Types'
  BY <1>16 DEF StopSandbox
<1>17. ASSUME NEW r \in Request, StopFails(r) PROVE Types'
  BY <1>17 DEF StopFails
<1>18. ASSUME NEW r \in Request, MarkStopped(r) PROVE Types'
  BY <1>18 DEF MarkStopped
<1>19. ASSUME NEW r \in Request, RemoveSandbox(r) PROVE Types'
  BY <1>19 DEF RemoveSandbox
<1>20. ASSUME NEW r \in Request, RemoveFails(r) PROVE Types'
  BY <1>20 DEF RemoveFails
<1>21. ASSUME NEW r \in Request, CleanKit(r) PROVE Types'
  BY <1>21 DEF CleanKit
<1>22. ASSUME NEW r \in Request, CleanKitFails(r) PROVE Types'
  BY <1>22 DEF CleanKitFails
<1>23. ASSUME NEW r \in Request, MarkRemoved(r) PROVE Types'
  BY <1>23 DEF MarkRemoved
<1>24. ASSUME RecoverList PROVE Types'
  <2> DEFINE active == {x \in Session : status[x] \in Active}
  <2>1. {<<s, sandbox[s]>> : s \in active} \subseteq Session \X SandboxOrNone
    OBVIOUS
  <2>2. rec' \in RecoveryState /\ rec'.at = "each"
    BY <1>24, <2>1 DEF RecoverList
  <2> QED BY <1>24, <2>2 DEF RecoverList
<1>25. ASSUME RecoverUnrecorded PROVE Types'
  BY <1>25 DEF RecoverUnrecorded
<1>26. ASSUME RecoverLook PROVE Types'
  <2>1. PICK e \in rec.todo, answer \in {"absent", "stopped", "running", "error"} :
          /\ e[2] # NoSandbox
          /\ rec' = [rec EXCEPT !.at = "act", !.todo = @ \ {e}, !.s = e[1], !.b = e[2],
                                !.seen = answer]
    BY <1>26, LookEffect
  <2>2. e[1] \in Session /\ e[2] \in SandboxOrNone
    OBVIOUS
  <2>3. rec' \in RecoveryState /\ rec'.s \in Session /\ rec'.b # NoSandbox
    BY <2>1, <2>2
  <2> QED BY <1>26, <2>3 DEF RecoverLook
<1>27. ASSUME RecoverStopped PROVE Types'
  BY <1>27 DEF RecoverStopped
<1>28. ASSUME RecoverMissing PROVE Types'
  BY <1>28 DEF RecoverMissing
<1>29. ASSUME RecoverRunning PROVE Types'
  BY <1>29 DEF RecoverRunning
<1>30. ASSUME RecoverRm PROVE Types'
  <2>1. rec.b \in Sandbox
    BY <1>30 DEF RecoverRm
  <2>2. box' \in [Sandbox -> {"absent", "stopped", "running"}]
    BY <1>30 DEF RecoverRm
  <2>3. late' \subseteq Command /\ doubt' \subseteq Sandbox
    BY <1>30, <2>1 DEF RecoverRm
  <2>4. rec' \in RecoveryState /\ rec'.at = "each"
    BY <1>30 DEF RecoverRm
  <2> QED BY <1>30, <2>2, <2>3, <2>4 DEF RecoverRm
<1>31. ASSUME RecoverSpawn PROVE Types'
  BY <1>31 DEF RecoverSpawn
<1>32. ASSUME RecoverAttach PROVE Types'
  BY <1>32 DEF RecoverAttach
<1>33. ASSUME RecoverMark PROVE Types'
  BY <1>33 DEF RecoverMark
<1>34. ASSUME RecoverFails PROVE Types'
  BY <1>34 DEF RecoverFails
<1>35. ASSUME CleanupList PROVE Types'
  BY <1>35 DEF CleanupList
<1>36. ASSUME CleanupSkipped PROVE Types'
  BY <1>36 DEF CleanupSkipped
<1>37. ASSUME CleanupSelect PROVE Types'
  <2> DEFINE stopped == {x \in Session : status[x] = "stopped"}
  <2>1. {<<s, sandbox[s]>> : s \in stopped} \subseteq Session \X SandboxOrNone
    OBVIOUS
  <2>2. rec' \in RecoveryState /\ rec'.at = "sweep"
    BY <1>37, <2>1 DEF CleanupSelect
  <2> QED BY <1>37, <2>2 DEF CleanupSelect
<1>38. ASSUME CleanupSweep PROVE Types'
  BY <1>38 DEF CleanupSweep
<1>39. ASSUME RecoverDone PROVE Types'
  BY <1>39 DEF RecoverDone
<1>40. ASSUME DeletePersona PROVE Types'
  BY <1>40 DEF Active, DeletePersona
<1>41. ASSUME CreatePersona PROVE Types'
  BY <1>41 DEF CreatePersona
<1>42. ASSUME Restart PROVE Types'
  BY <1>42 DEF InFlight, Restart
<1>43. ASSUME NEW s \in Session, ChildExits(s) PROVE Types'
  <2>1. pty' \in [Session -> {"none", "live", "dead"}] /\ stray' \in [Session -> BOOLEAN]
    BY <1>43, ExitEffect
  <2> QED BY <1>43, <2>1 DEF ChildExits
<1>44. ASSUME NEW c \in late, LateCommand(c) PROVE Types'
  BY <1>44 DEF LateCommand
<1>45. CASE UNCHANGED vars
  BY <1>45 DEF vars
<1> QED BY <1>1, <1>2, <1>3, <1>4, <1>5, <1>6, <1>7, <1>8, <1>9, <1>10, <1>11, <1>12,
           <1>13, <1>14, <1>15, <1>16, <1>17, <1>18, <1>19, <1>20, <1>21, <1>22,
           <1>23, <1>24, <1>25, <1>26, <1>27, <1>28, <1>29, <1>30, <1>31, <1>32,
           <1>33, <1>34, <1>35, <1>36, <1>37, <1>38, <1>39, <1>40, <1>41, <1>42,
           <1>43, <1>44, <1>45
           DEF Next, Handle, Recovery

\* Which handler and which copies know a session, before and after its row exists.
LEMMA OwnersStep == ASSUME Inv, [Next]_vars PROVE Owners'
<1> USE ConstantsOK
  DEF Inv, Fresh, StartedOnce, SandboxInRow, Unrecorded, TypeOK, StepsHaveSubject,
      RequestState, RecoveryState, SandboxOrNone, At, Exists, Types, Owners, Copies,
      Kits, SetStatus, DeleteRows, Goto, Finish, Idle, InsertPty, RecStep, RecNext,
      Booting, Admit, Offered, rows, terminals, outside
<1>1. ASSUME NEW r \in Request, NEW s \in Session, Start(r, s) PROVE Owners'
  BY <1>1 DEF Start
<1>2. ASSUME NEW r \in Request, NEW s \in Session, Resume(r, s) PROVE Owners'
  BY <1>2 DEF Resume
<1>3. ASSUME NEW r \in Request, NEW s \in Session, Stop(r, s) PROVE Owners'
  BY <1>3 DEF Active, Stop
<1>4. ASSUME NEW r \in Request, NEW s \in Session, Remove(r, s) PROVE Owners'
  BY <1>4 DEF Remove
<1>5. ASSUME NEW r \in Request, InsertSession(r) PROVE Owners'
  <2>1. CASE persona
    <3>1. Fresh'
      BY <1>5, <2>1 DEF InsertSession
    <3>2. StartedOnce'
      BY <1>5, <2>1 DEF InsertSession
    <3>3. SandboxInRow'
      BY <1>5, <2>1 DEF InsertSession
    <3> QED BY <3>1, <3>2, <3>3
  <2>2. CASE ~persona
    <3>1. Fresh'
      BY <1>5, <2>2 DEF InsertSession
    <3>2. StartedOnce'
      BY <1>5, <2>2 DEF InsertSession
    <3>3. SandboxInRow'
      BY <1>5, <2>2 DEF InsertSession
    <3> QED BY <3>1, <3>2, <3>3
  <2> QED BY <2>1, <2>2
<1>6. ASSUME NEW r \in Request, CreateSandbox(r) PROVE Owners'
  BY <1>6 DEF CreateSandbox
<1>7. ASSUME NEW r \in Request, CreateFails(r) PROVE Owners'
  BY <1>7 DEF CreateFails
<1>8. ASSUME NEW r \in Request, RecordSandbox(r) PROVE Owners'
  BY <1>8 DEF RecordSandbox
<1>9. ASSUME NEW r \in Request, RecordRefused(r) PROVE Owners'
  BY <1>9 DEF RecordRefused
<1>10. ASSUME NEW r \in Request, SpawnPty(r) PROVE Owners'
  BY <1>10 DEF SpawnPty
<1>11. ASSUME NEW r \in Request, SpawnRefused(r) PROVE Owners'
  BY <1>11 DEF SpawnRefused
<1>12. ASSUME NEW r \in Request, AttachPty(r) PROVE Owners'
  BY <1>12 DEF AttachPty
<1>13. ASSUME NEW r \in Request, AttachFails(r) PROVE Owners'
  BY <1>13 DEF AttachFails
<1>14. ASSUME NEW r \in Request, MarkRunning(r) PROVE Owners'
  BY <1>14 DEF MarkRunning
<1>15. ASSUME NEW r \in Request, KillPty(r) PROVE Owners'
  BY <1>15 DEF KillPty
<1>16. ASSUME NEW r \in Request, StopSandbox(r) PROVE Owners'
  BY <1>16 DEF StopSandbox
<1>17. ASSUME NEW r \in Request, StopFails(r) PROVE Owners'
  BY <1>17 DEF StopFails
<1>18. ASSUME NEW r \in Request, MarkStopped(r) PROVE Owners'
  BY <1>18 DEF MarkStopped
<1>19. ASSUME NEW r \in Request, RemoveSandbox(r) PROVE Owners'
  BY <1>19 DEF RemoveSandbox
<1>20. ASSUME NEW r \in Request, RemoveFails(r) PROVE Owners'
  BY <1>20 DEF RemoveFails
<1>21. ASSUME NEW r \in Request, CleanKit(r) PROVE Owners'
  BY <1>21 DEF CleanKit
<1>22. ASSUME NEW r \in Request, CleanKitFails(r) PROVE Owners'
  BY <1>22 DEF CleanKitFails
<1>23. ASSUME NEW r \in Request, MarkRemoved(r) PROVE Owners'
  BY <1>23 DEF MarkRemoved
<1>24. ASSUME RecoverList PROVE Owners'
  BY <1>24 DEF Active, RecoverList
<1>25. ASSUME RecoverUnrecorded PROVE Owners'
  BY <1>25 DEF RecoverUnrecorded
<1>26. ASSUME RecoverLook PROVE Owners'
  BY <1>26 DEF RecoverLook
<1>27. ASSUME RecoverStopped PROVE Owners'
  BY <1>27 DEF RecoverStopped
<1>28. ASSUME RecoverMissing PROVE Owners'
  BY <1>28 DEF RecoverMissing
<1>29. ASSUME RecoverRunning PROVE Owners'
  BY <1>29 DEF RecoverRunning
<1>30. ASSUME RecoverRm PROVE Owners'
  BY <1>30 DEF RecoverRm
<1>31. ASSUME RecoverSpawn PROVE Owners'
  BY <1>31 DEF RecoverSpawn
<1>32. ASSUME RecoverAttach PROVE Owners'
  BY <1>32 DEF RecoverAttach
<1>33. ASSUME RecoverMark PROVE Owners'
  BY <1>33 DEF RecoverMark
<1>34. ASSUME RecoverFails PROVE Owners'
  BY <1>34 DEF RecoverFails
<1>35. ASSUME CleanupList PROVE Owners'
  BY <1>35 DEF CleanupList
<1>36. ASSUME CleanupSkipped PROVE Owners'
  BY <1>36 DEF CleanupSkipped
<1>37. ASSUME CleanupSelect PROVE Owners'
  BY <1>37 DEF CleanupSelect
<1>38. ASSUME CleanupSweep PROVE Owners'
  BY <1>38 DEF CleanupSweep
<1>39. ASSUME RecoverDone PROVE Owners'
  BY <1>39 DEF RecoverDone
<1>40. ASSUME DeletePersona PROVE Owners'
  BY <1>40 DEF Active, DeletePersona
<1>41. ASSUME CreatePersona PROVE Owners'
  BY <1>41 DEF CreatePersona
<1>42. ASSUME Restart PROVE Owners'
  BY <1>42 DEF InFlight, Restart
<1>43. ASSUME NEW s \in Session, ChildExits(s) PROVE Owners'
  BY <1>43 DEF ChildExits
<1>44. ASSUME NEW c \in late, LateCommand(c) PROVE Owners'
  BY <1>44 DEF LateCommand
<1>45. CASE UNCHANGED vars
  BY <1>45 DEF vars
<1> QED BY <1>1, <1>2, <1>3, <1>4, <1>5, <1>6, <1>7, <1>8, <1>9, <1>10, <1>11, <1>12,
           <1>13, <1>14, <1>15, <1>16, <1>17, <1>18, <1>19, <1>20, <1>21, <1>22,
           <1>23, <1>24, <1>25, <1>26, <1>27, <1>28, <1>29, <1>30, <1>31, <1>32,
           <1>33, <1>34, <1>35, <1>36, <1>37, <1>38, <1>39, <1>40, <1>41, <1>42,
           <1>43, <1>44, <1>45
           DEF Next, Handle, Recovery

\* What handlers and the recovery task remember of a row.
LEMMA CopiesStep == ASSUME Inv, [Next]_vars PROVE Copies'
<1> USE ConstantsOK
  DEF Inv, CopiesAgree, TerminalOnOwnSandbox, RunningHasSandbox, Fresh, StartedOnce,
      Unrecorded, TypeOK, StepsHaveSubject, RequestState, RecoveryState,
      SandboxOrNone, At, Exists, Types, Owners, Copies, Kits, SetStatus, DeleteRows,
      Goto, Finish, Idle, InsertPty, RecStep, RecNext, Booting, Admit, Offered, rows,
      terminals, outside
<1>1. ASSUME NEW r \in Request, NEW s \in Session, Start(r, s) PROVE Copies'
  BY <1>1 DEF Start
<1>2. ASSUME NEW r \in Request, NEW s \in Session, Resume(r, s) PROVE Copies'
  BY <1>2 DEF Resume
<1>3. ASSUME NEW r \in Request, NEW s \in Session, Stop(r, s) PROVE Copies'
  BY <1>3 DEF Active, Stop
<1>4. ASSUME NEW r \in Request, NEW s \in Session, Remove(r, s) PROVE Copies'
  BY <1>4 DEF Remove
<1>5. ASSUME NEW r \in Request, InsertSession(r) PROVE Copies'
  BY <1>5 DEF InsertSession
<1>6. ASSUME NEW r \in Request, CreateSandbox(r) PROVE Copies'
  BY <1>6 DEF CreateSandbox
<1>7. ASSUME NEW r \in Request, CreateFails(r) PROVE Copies'
  BY <1>7 DEF CreateFails
<1>8. ASSUME NEW r \in Request, RecordSandbox(r) PROVE Copies'
  BY <1>8 DEF RecordSandbox
<1>9. ASSUME NEW r \in Request, RecordRefused(r) PROVE Copies'
  BY <1>9 DEF RecordRefused
<1>10. ASSUME NEW r \in Request, SpawnPty(r) PROVE Copies'
  BY <1>10 DEF SpawnPty
<1>11. ASSUME NEW r \in Request, SpawnRefused(r) PROVE Copies'
  BY <1>11 DEF SpawnRefused
<1>12. ASSUME NEW r \in Request, AttachPty(r) PROVE Copies'
  BY <1>12 DEF AttachPty
<1>13. ASSUME NEW r \in Request, AttachFails(r) PROVE Copies'
  BY <1>13 DEF AttachFails
<1>14. ASSUME NEW r \in Request, MarkRunning(r) PROVE Copies'
  BY <1>14 DEF MarkRunning
<1>15. ASSUME NEW r \in Request, KillPty(r) PROVE Copies'
  BY <1>15 DEF KillPty
<1>16. ASSUME NEW r \in Request, StopSandbox(r) PROVE Copies'
  BY <1>16 DEF StopSandbox
<1>17. ASSUME NEW r \in Request, StopFails(r) PROVE Copies'
  BY <1>17 DEF StopFails
<1>18. ASSUME NEW r \in Request, MarkStopped(r) PROVE Copies'
  BY <1>18 DEF MarkStopped
<1>19. ASSUME NEW r \in Request, RemoveSandbox(r) PROVE Copies'
  BY <1>19 DEF RemoveSandbox
<1>20. ASSUME NEW r \in Request, RemoveFails(r) PROVE Copies'
  BY <1>20 DEF RemoveFails
<1>21. ASSUME NEW r \in Request, CleanKit(r) PROVE Copies'
  BY <1>21 DEF CleanKit
<1>22. ASSUME NEW r \in Request, CleanKitFails(r) PROVE Copies'
  BY <1>22 DEF CleanKitFails
<1>23. ASSUME NEW r \in Request, MarkRemoved(r) PROVE Copies'
  BY <1>23 DEF MarkRemoved
<1>24. ASSUME RecoverList PROVE Copies'
  BY <1>24 DEF Active, RecoverList
<1>25. ASSUME RecoverUnrecorded PROVE Copies'
  BY <1>25 DEF RecoverUnrecorded
<1>26. ASSUME RecoverLook PROVE Copies'
  BY <1>26 DEF RecoverLook
<1>27. ASSUME RecoverStopped PROVE Copies'
  BY <1>27 DEF RecoverStopped
<1>28. ASSUME RecoverMissing PROVE Copies'
  BY <1>28 DEF RecoverMissing
<1>29. ASSUME RecoverRunning PROVE Copies'
  BY <1>29 DEF RecoverRunning
<1>30. ASSUME RecoverRm PROVE Copies'
  BY <1>30 DEF RecoverRm
<1>31. ASSUME RecoverSpawn PROVE Copies'
  BY <1>31 DEF RecoverSpawn
<1>32. ASSUME RecoverAttach PROVE Copies'
  BY <1>32 DEF RecoverAttach
<1>33. ASSUME RecoverMark PROVE Copies'
  BY <1>33 DEF RecoverMark
<1>34. ASSUME RecoverFails PROVE Copies'
  BY <1>34 DEF RecoverFails
<1>35. ASSUME CleanupList PROVE Copies'
  BY <1>35 DEF CleanupList
<1>36. ASSUME CleanupSkipped PROVE Copies'
  BY <1>36 DEF CleanupSkipped
<1>37. ASSUME CleanupSelect PROVE Copies'
  BY <1>37 DEF CleanupSelect
<1>38. ASSUME CleanupSweep PROVE Copies'
  BY <1>38 DEF CleanupSweep
<1>39. ASSUME RecoverDone PROVE Copies'
  BY <1>39 DEF RecoverDone
<1>40. ASSUME DeletePersona PROVE Copies'
  BY <1>40 DEF Active, DeletePersona
<1>41. ASSUME CreatePersona PROVE Copies'
  BY <1>41 DEF CreatePersona
<1>42. ASSUME Restart PROVE Copies'
  BY <1>42 DEF InFlight, Restart
<1>43. ASSUME NEW s \in Session, ChildExits(s) PROVE Copies'
  BY <1>43 DEF ChildExits
<1>44. ASSUME NEW c \in late, LateCommand(c) PROVE Copies'
  BY <1>44 DEF LateCommand
<1>45. CASE UNCHANGED vars
  BY <1>45 DEF vars
<1> QED BY <1>1, <1>2, <1>3, <1>4, <1>5, <1>6, <1>7, <1>8, <1>9, <1>10, <1>11, <1>12,
           <1>13, <1>14, <1>15, <1>16, <1>17, <1>18, <1>19, <1>20, <1>21, <1>22,
           <1>23, <1>24, <1>25, <1>26, <1>27, <1>28, <1>29, <1>30, <1>31, <1>32,
           <1>33, <1>34, <1>35, <1>36, <1>37, <1>38, <1>39, <1>40, <1>41, <1>42,
           <1>43, <1>44, <1>45
           DEF Next, Handle, Recovery

\* Kit directories.
LEMMA KitsStep == ASSUME Inv, [Next]_vars PROVE Kits'
<1> USE ConstantsOK
  DEF Inv, RemovalHasNoKit, RemovedHasNoKit, Fresh, TypeOK, StepsHaveSubject,
      RequestState, At, Exists, Types, Owners, Copies, Kits, SetStatus, DeleteRows,
      Goto, Finish, Idle, InsertPty, RecStep, RecNext, Booting, Admit, Offered, rows,
      terminals, outside
<1>1. ASSUME NEW r \in Request, NEW s \in Session, Start(r, s) PROVE Kits'
  BY <1>1 DEF Start
<1>2. ASSUME NEW r \in Request, NEW s \in Session, Resume(r, s) PROVE Kits'
  BY <1>2 DEF Resume
<1>3. ASSUME NEW r \in Request, NEW s \in Session, Stop(r, s) PROVE Kits'
  BY <1>3 DEF Active, Stop
<1>4. ASSUME NEW r \in Request, NEW s \in Session, Remove(r, s) PROVE Kits'
  BY <1>4 DEF Remove
<1>5. ASSUME NEW r \in Request, InsertSession(r) PROVE Kits'
  BY <1>5 DEF InsertSession
<1>6. ASSUME NEW r \in Request, CreateSandbox(r) PROVE Kits'
  BY <1>6 DEF CreateSandbox
<1>7. ASSUME NEW r \in Request, CreateFails(r) PROVE Kits'
  BY <1>7 DEF CreateFails
<1>8. ASSUME NEW r \in Request, RecordSandbox(r) PROVE Kits'
  BY <1>8 DEF RecordSandbox
<1>9. ASSUME NEW r \in Request, RecordRefused(r) PROVE Kits'
  BY <1>9 DEF RecordRefused
<1>10. ASSUME NEW r \in Request, SpawnPty(r) PROVE Kits'
  BY <1>10 DEF SpawnPty
<1>11. ASSUME NEW r \in Request, SpawnRefused(r) PROVE Kits'
  BY <1>11 DEF SpawnRefused
<1>12. ASSUME NEW r \in Request, AttachPty(r) PROVE Kits'
  BY <1>12 DEF AttachPty
<1>13. ASSUME NEW r \in Request, AttachFails(r) PROVE Kits'
  BY <1>13 DEF AttachFails
<1>14. ASSUME NEW r \in Request, MarkRunning(r) PROVE Kits'
  BY <1>14 DEF MarkRunning
<1>15. ASSUME NEW r \in Request, KillPty(r) PROVE Kits'
  BY <1>15 DEF KillPty
<1>16. ASSUME NEW r \in Request, StopSandbox(r) PROVE Kits'
  BY <1>16 DEF StopSandbox
<1>17. ASSUME NEW r \in Request, StopFails(r) PROVE Kits'
  BY <1>17 DEF StopFails
<1>18. ASSUME NEW r \in Request, MarkStopped(r) PROVE Kits'
  BY <1>18 DEF MarkStopped
<1>19. ASSUME NEW r \in Request, RemoveSandbox(r) PROVE Kits'
  BY <1>19 DEF RemoveSandbox
<1>20. ASSUME NEW r \in Request, RemoveFails(r) PROVE Kits'
  BY <1>20 DEF RemoveFails
<1>21. ASSUME NEW r \in Request, CleanKit(r) PROVE Kits'
  BY <1>21 DEF CleanKit
<1>22. ASSUME NEW r \in Request, CleanKitFails(r) PROVE Kits'
  BY <1>22 DEF CleanKitFails
<1>23. ASSUME NEW r \in Request, MarkRemoved(r) PROVE Kits'
  BY <1>23 DEF MarkRemoved
<1>24. ASSUME RecoverList PROVE Kits'
  BY <1>24 DEF Active, RecoverList
<1>25. ASSUME RecoverUnrecorded PROVE Kits'
  BY <1>25 DEF RecoverUnrecorded
<1>26. ASSUME RecoverLook PROVE Kits'
  BY <1>26 DEF RecoverLook
<1>27. ASSUME RecoverStopped PROVE Kits'
  BY <1>27 DEF RecoverStopped
<1>28. ASSUME RecoverMissing PROVE Kits'
  BY <1>28 DEF RecoverMissing
<1>29. ASSUME RecoverRunning PROVE Kits'
  BY <1>29 DEF RecoverRunning
<1>30. ASSUME RecoverRm PROVE Kits'
  BY <1>30 DEF RecoverRm
<1>31. ASSUME RecoverSpawn PROVE Kits'
  BY <1>31 DEF RecoverSpawn
<1>32. ASSUME RecoverAttach PROVE Kits'
  BY <1>32 DEF RecoverAttach
<1>33. ASSUME RecoverMark PROVE Kits'
  BY <1>33 DEF RecoverMark
<1>34. ASSUME RecoverFails PROVE Kits'
  BY <1>34 DEF RecoverFails
<1>35. ASSUME CleanupList PROVE Kits'
  BY <1>35 DEF CleanupList
<1>36. ASSUME CleanupSkipped PROVE Kits'
  BY <1>36 DEF CleanupSkipped
<1>37. ASSUME CleanupSelect PROVE Kits'
  BY <1>37 DEF CleanupSelect
<1>38. ASSUME CleanupSweep PROVE Kits'
  BY <1>38 DEF CleanupSweep
<1>39. ASSUME RecoverDone PROVE Kits'
  BY <1>39 DEF RecoverDone
<1>40. ASSUME DeletePersona PROVE Kits'
  BY <1>40 DEF Active, DeletePersona
<1>41. ASSUME CreatePersona PROVE Kits'
  BY <1>41 DEF CreatePersona
<1>42. ASSUME Restart PROVE Kits'
  BY <1>42 DEF InFlight, Restart
<1>43. ASSUME NEW s \in Session, ChildExits(s) PROVE Kits'
  BY <1>43 DEF ChildExits
<1>44. ASSUME NEW c \in late, LateCommand(c) PROVE Kits'
  BY <1>44 DEF LateCommand
<1>45. CASE UNCHANGED vars
  BY <1>45 DEF vars
<1> QED BY <1>1, <1>2, <1>3, <1>4, <1>5, <1>6, <1>7, <1>8, <1>9, <1>10, <1>11, <1>12,
           <1>13, <1>14, <1>15, <1>16, <1>17, <1>18, <1>19, <1>20, <1>21, <1>22,
           <1>23, <1>24, <1>25, <1>26, <1>27, <1>28, <1>29, <1>30, <1>31, <1>32,
           <1>33, <1>34, <1>35, <1>36, <1>37, <1>38, <1>39, <1>40, <1>41, <1>42,
           <1>43, <1>44, <1>45
           DEF Next, Handle, Recovery

-----------------------------------------------------------------------------
(***************************************************************************)
(* The theorems.                                                           *)
(***************************************************************************)
LEMMA InitInv == Init => Inv
  BY ConstantsOK DEF Init, Inv, Types, Owners, Copies, Kits, TypeOK, StepsHaveSubject, Fresh, StartedOnce, SandboxInRow,
     CopiesAgree, TerminalOnOwnSandbox, RunningHasSandbox, RemovalHasNoKit, RemovedHasNoKit,
     RequestState, RecoveryState, SandboxOrNone, Step, Status, Idle, Booting, At, Exists,
     Unrecorded

LEMMA NextInv == Inv /\ [Next]_vars => Inv'
  BY TypesStep, OwnersStep, CopiesStep, KitsStep DEF Inv

\* Whatever the requests, their interleaving with one another and with recovery, the
\* failures and the restarts, the strengthened invariant of session_manager.rs holds.
THEOREM InvAlways == Spec => []Inv
  BY InitInv, NextInv, PTL DEF Spec

\* Every variable keeps its type: no step of session_manager.rs looks up the sandbox of
\* a request that has none.
THEOREM TypeCorrect == Spec => []TypeOK
<1>1. Inv => TypeOK BY DEF Inv, Types, Copies, Kits
<1> QED BY InvAlways, <1>1, PTL

\* No row of the sessions table says running without naming a sandbox.
THEOREM RunningHasSandboxAlways == Spec => []RunningHasSandbox
<1>1. Inv => RunningHasSandbox BY DEF Inv, Types, Copies, Kits
<1> QED BY InvAlways, <1>1, PTL

\* start, resume and recovery spawn a terminal on the sandbox that the row names when
\* the terminal is spawned, not only when the row was read.
THEOREM TerminalOnOwnSandboxAlways == Spec => []TerminalOnOwnSandbox
<1>1. Inv => TerminalOnOwnSandbox BY DEF Inv, Types, Copies, Kits
<1> QED BY InvAlways, <1>1, PTL

\* A row marked removed has no kit directory left.
THEOREM RemovedHasNoKitAlways == Spec => []RemovedHasNoKit
<1>1. Inv => RemovedHasNoKit BY DEF Inv, Types, Copies, Kits
<1> QED BY InvAlways, <1>1, PTL

-----------------------------------------------------------------------------
LEMMA NextRow == Inv /\ [Next]_vars => RowStep
<1> SUFFICES ASSUME Inv, [Next]_vars PROVE RowStep
  OBVIOUS
<1>1. CASE UNCHANGED <<status, sandbox>>
  BY <1>1 DEF RowStep
<1>2. ASSUME UNCHANGED sandbox, NEW s, NEW new, SetStatus(s, new) PROVE RowStep
  BY <1>2 DEF RowStep, SetStatus, Exists, Inv, Types, Owners, TypeOK
<1>3. ASSUME NEW S, DeleteRows(S) PROVE RowStep
  BY <1>3 DEF RowStep, DeleteRows, Exists, Inv, Types, Owners, TypeOK, SandboxInRow
<1>4. ASSUME NEW r \in Request, InsertSession(r) PROVE RowStep
  BY <1>4 DEF RowStep, InsertSession, Inv, Types, Owners, TypeOK, Fresh, At
<1>5. ASSUME NEW r \in Request, RecordSandbox(r) PROVE RowStep
  BY <1>5 DEF RowStep, RecordSandbox, Inv, Types, Owners, TypeOK, StartedOnce, Unrecorded, At
<1>6. ASSUME NEW r \in Request, Handle(r) PROVE RowStep
  BY <1>1, <1>2, <1>4, <1>5, <1>6
  DEF Handle, CreateSandbox, CreateFails, RecordRefused, SpawnPty, SpawnRefused, AttachPty,
      AttachFails, MarkRunning, KillPty, StopSandbox, StopFails, MarkStopped, RemoveSandbox,
      RemoveFails, CleanKit, CleanKitFails, MarkRemoved, rows
<1>7. CASE Recovery
  BY <1>1, <1>2, <1>3, <1>7
  DEF Recovery, RecoverList, RecoverUnrecorded, RecoverLook, RecoverStopped, RecoverMissing,
      RecoverRunning, RecoverRm, RecoverSpawn, RecoverAttach, RecoverMark, RecoverFails,
      CleanupList, CleanupSkipped, CleanupSelect, CleanupSweep, RecoverDone, rows
<1> QED
  BY <1>1, <1>3, <1>6, <1>7
  DEF Next, Start, Resume, Stop, Remove, DeletePersona, CreatePersona, ChildExits,
      LateCommand, Restart, vars, rows

\* A recorded sandbox id stays until its row is deleted, and no handler that read a row
\* before it was deleted brings it back.
THEOREM RowHistoryAlways == Spec => RowHistory
<1>1. Inv /\ [Next]_vars => [RowStep]_vars
  BY NextRow
<1>2. [][RowStep]_vars => RowHistory
  BY PTL DEF RowStep, RowHistory
<1> QED BY InvAlways, <1>1, <1>2, PTL DEF Spec

-----------------------------------------------------------------------------
(***************************************************************************)
(* Sessions implements SessionLifecycle when requests come as SessionsPage *)
(* sends them: one at a time per session, and none before recovery ends.   *)
(***************************************************************************)

\* Recovery has the table to itself, then each session belongs to one request.
Exclusive ==
  /\ rec.at # "done" => \A r \in Request : At(r, "idle")
  /\ \A r \in Request : At(r, "idle") => req[r].s = NoSession
  /\ \A q \in Request, r \in Request : q # r /\ ~At(r, "idle") => req[q].s # req[r].s

\* So what a handler read when it started is still true at each of its steps.
HandlerStatus ==
  \A r \in Request :
    /\ req[r].at \in {"create", "record"} => status[req[r].s] = "starting"
    /\ req[r].at \in {"spawn", "attach", "mark_running"}
         => status[req[r].s] \in {"starting", "stopped"}
    /\ req[r].at \in {"stop_kill", "stop_sandbox", "mark_stopped"}
         => status[req[r].s] \in Active
    /\ req[r].at \in {"remove_kill", "remove_sandbox", "clean_kit", "mark_removed"}
         => status[req[r].s] = "stopped"

\* And so is what the recovery task listed, for the rows it has yet to work on.
RecoveryStatus ==
  /\ rec.at = "list" => rec.s = NoSession
  /\ rec.at \in {"act", "spawn", "attach", "mark"} => status[rec.s] \in Active
  /\ rec.at \in {"each", "act", "rm", "spawn", "attach", "mark"} =>
       \A e \in rec.todo : status[e[1]] \in Active /\ e[1] # rec.s
  /\ rec.at = "sweep" => \A e \in rec.todo : status[e[1]] = "stopped"
  /\ \A e \in rec.todo, f \in rec.todo : e[1] = f[1] => e = f

Discipline == Exclusive /\ HandlerStatus /\ RecoveryStatus

-----------------------------------------------------------------------------

LEMMA ExclusiveStep ==
  ASSUME OneAtATime, Inv, Discipline, [Next]_vars PROVE Exclusive'
<1> USE OneAtATime, ConstantsOK
  DEF Inv, Types, Owners, TypeOK, StepsHaveSubject, Discipline, RequestState,
      RecoveryState, SandboxOrNone, At, Exists, SetStatus, DeleteRows, Goto, Finish,
      Idle, RecStep, RecNext, Booting, Admit, Offered, rows, terminals, outside,
      Exclusive
<1>1. ASSUME NEW r \in Request, NEW s \in Session, Start(r, s) PROVE Exclusive'
  BY <1>1 DEF Start
<1>2. ASSUME NEW r \in Request, NEW s \in Session, Resume(r, s) PROVE Exclusive'
  BY <1>2 DEF Resume
<1>3. ASSUME NEW r \in Request, NEW s \in Session, Stop(r, s) PROVE Exclusive'
  BY <1>3 DEF Active, Stop
<1>4. ASSUME NEW r \in Request, NEW s \in Session, Remove(r, s) PROVE Exclusive'
  BY <1>4 DEF Remove
<1>5. ASSUME NEW r \in Request, InsertSession(r) PROVE Exclusive'
  <2>1. CASE persona
    <3>1. req' = [req EXCEPT ![r] = [@ EXCEPT !.at = "create"]] /\ rec' = rec
      BY <1>5, <2>1 DEF InsertSession
    <3> QED BY <1>5, <3>1 DEF InsertSession
  <2>2. CASE ~persona
    <3>1. req' = [req EXCEPT ![r] = Idle] /\ rec' = rec
      BY <1>5, <2>2 DEF InsertSession
    <3> QED BY <1>5, <3>1 DEF InsertSession
  <2> QED BY <2>1, <2>2
<1>6. ASSUME NEW r \in Request, CreateSandbox(r) PROVE Exclusive'
  BY <1>6 DEF CreateSandbox
<1>7. ASSUME NEW r \in Request, CreateFails(r) PROVE Exclusive'
  BY <1>7 DEF CreateFails
<1>8. ASSUME NEW r \in Request, RecordSandbox(r) PROVE Exclusive'
  BY <1>8 DEF RecordSandbox
<1>9. ASSUME NEW r \in Request, RecordRefused(r) PROVE Exclusive'
  BY <1>9 DEF RecordRefused
<1>10. ASSUME NEW r \in Request, SpawnPty(r) PROVE Exclusive'
  BY <1>10 DEF SpawnPty
<1>11. ASSUME NEW r \in Request, SpawnRefused(r) PROVE Exclusive'
  BY <1>11 DEF SpawnRefused
<1>12. ASSUME NEW r \in Request, AttachPty(r) PROVE Exclusive'
  BY <1>12 DEF InsertPty, AttachPty
<1>13. ASSUME NEW r \in Request, AttachFails(r) PROVE Exclusive'
  BY <1>13 DEF AttachFails
<1>14. ASSUME NEW r \in Request, MarkRunning(r) PROVE Exclusive'
  BY <1>14 DEF MarkRunning
<1>15. ASSUME NEW r \in Request, KillPty(r) PROVE Exclusive'
  BY <1>15 DEF KillPty
<1>16. ASSUME NEW r \in Request, StopSandbox(r) PROVE Exclusive'
  BY <1>16 DEF StopSandbox
<1>17. ASSUME NEW r \in Request, StopFails(r) PROVE Exclusive'
  BY <1>17 DEF StopFails
<1>18. ASSUME NEW r \in Request, MarkStopped(r) PROVE Exclusive'
  BY <1>18 DEF MarkStopped
<1>19. ASSUME NEW r \in Request, RemoveSandbox(r) PROVE Exclusive'
  BY <1>19 DEF RemoveSandbox
<1>20. ASSUME NEW r \in Request, RemoveFails(r) PROVE Exclusive'
  BY <1>20 DEF RemoveFails
<1>21. ASSUME NEW r \in Request, CleanKit(r) PROVE Exclusive'
  BY <1>21 DEF CleanKit
<1>22. ASSUME NEW r \in Request, CleanKitFails(r) PROVE Exclusive'
  BY <1>22 DEF CleanKitFails
<1>23. ASSUME NEW r \in Request, MarkRemoved(r) PROVE Exclusive'
  BY <1>23 DEF MarkRemoved
<1>24. ASSUME RecoverList PROVE Exclusive'
  BY <1>24 DEF Active, RecoverList
<1>25. ASSUME RecoverUnrecorded PROVE Exclusive'
  BY <1>25 DEF RecoverUnrecorded
<1>26. ASSUME RecoverLook PROVE Exclusive'
  BY <1>26 DEF RecoverLook
<1>27. ASSUME RecoverStopped PROVE Exclusive'
  BY <1>27 DEF RecoverStopped
<1>28. ASSUME RecoverMissing PROVE Exclusive'
  BY <1>28 DEF RecoverMissing
<1>29. ASSUME RecoverRunning PROVE Exclusive'
  BY <1>29 DEF RecoverRunning
<1>30. ASSUME RecoverRm PROVE Exclusive'
  BY <1>30 DEF RecoverRm
<1>31. ASSUME RecoverSpawn PROVE Exclusive'
  BY <1>31 DEF RecoverSpawn
<1>32. ASSUME RecoverAttach PROVE Exclusive'
  BY <1>32 DEF InsertPty, RecoverAttach
<1>33. ASSUME RecoverMark PROVE Exclusive'
  BY <1>33 DEF RecoverMark
<1>34. ASSUME RecoverFails PROVE Exclusive'
  BY <1>34 DEF RecoverFails
<1>35. ASSUME CleanupList PROVE Exclusive'
  BY <1>35 DEF CleanupList
<1>36. ASSUME CleanupSkipped PROVE Exclusive'
  BY <1>36 DEF CleanupSkipped
<1>37. ASSUME CleanupSelect PROVE Exclusive'
  BY <1>37 DEF CleanupSelect
<1>38. ASSUME CleanupSweep PROVE Exclusive'
  BY <1>38 DEF CleanupSweep
<1>39. ASSUME RecoverDone PROVE Exclusive'
  BY <1>39 DEF RecoverDone
<1>40. ASSUME DeletePersona PROVE Exclusive'
  BY <1>40 DEF Active, Settled, DeletePersona
<1>41. ASSUME CreatePersona PROVE Exclusive'
  BY <1>41 DEF CreatePersona
<1>42. ASSUME Restart PROVE Exclusive'
  BY <1>42 DEF InFlight, Restart
<1>43. ASSUME NEW s \in Session, ChildExits(s) PROVE Exclusive'
  BY <1>43 DEF ChildExits
<1>44. ASSUME NEW c \in late, LateCommand(c) PROVE Exclusive'
  BY <1>44 DEF LateCommand
<1>45. CASE UNCHANGED vars
  BY <1>45 DEF vars
<1> QED BY <1>1, <1>2, <1>3, <1>4, <1>5, <1>6, <1>7, <1>8, <1>9, <1>10, <1>11, <1>12,
           <1>13, <1>14, <1>15, <1>16, <1>17, <1>18, <1>19, <1>20, <1>21, <1>22,
           <1>23, <1>24, <1>25, <1>26, <1>27, <1>28, <1>29, <1>30, <1>31, <1>32,
           <1>33, <1>34, <1>35, <1>36, <1>37, <1>38, <1>39, <1>40, <1>41, <1>42,
           <1>43, <1>44, <1>45
           DEF Next, Handle, Recovery

LEMMA HandlerStatusStep ==
  ASSUME OneAtATime, Inv, Discipline, [Next]_vars PROVE HandlerStatus'
<1> USE OneAtATime, ConstantsOK
  DEF Inv, Types, Owners, TypeOK, StepsHaveSubject, Discipline, RequestState,
      RecoveryState, SandboxOrNone, At, Exists, SetStatus, DeleteRows, Goto, Finish,
      Idle, RecStep, RecNext, Booting, Admit, Offered, rows, terminals, outside,
      Exclusive, HandlerStatus, Fresh, Active
<1>1. ASSUME NEW r \in Request, NEW s \in Session, Start(r, s) PROVE HandlerStatus'
  BY <1>1 DEF Start
<1>2. ASSUME NEW r \in Request, NEW s \in Session, Resume(r, s) PROVE HandlerStatus'
  BY <1>2 DEF Resume
<1>3. ASSUME NEW r \in Request, NEW s \in Session, Stop(r, s) PROVE HandlerStatus'
  BY <1>3 DEF Stop
<1>4. ASSUME NEW r \in Request, NEW s \in Session, Remove(r, s) PROVE HandlerStatus'
  BY <1>4 DEF Remove
<1>5. ASSUME NEW r \in Request, InsertSession(r) PROVE HandlerStatus'
  <2>1. \A q \in Request : q # r => req'[q] = req[q]
    BY <1>5 DEF InsertSession
  <2>2. \A q \in Request : q # r /\ ~At(q, "idle") => status'[req[q].s] = status[req[q].s]
    BY <1>5 DEF InsertSession
  <2>3. \/ req'[r].at = "create" /\ status'[req'[r].s] = "starting"
        \/ req'[r].at = "idle"
    BY <1>5 DEF InsertSession
  <2> QED BY <2>1, <2>2, <2>3
<1>6. ASSUME NEW r \in Request, CreateSandbox(r) PROVE HandlerStatus'
  BY <1>6 DEF CreateSandbox
<1>7. ASSUME NEW r \in Request, CreateFails(r) PROVE HandlerStatus'
  BY <1>7 DEF CreateFails
<1>8. ASSUME NEW r \in Request, RecordSandbox(r) PROVE HandlerStatus'
  BY <1>8 DEF RecordSandbox
<1>9. ASSUME NEW r \in Request, RecordRefused(r) PROVE HandlerStatus'
  BY <1>9 DEF RecordRefused
<1>10. ASSUME NEW r \in Request, SpawnPty(r) PROVE HandlerStatus'
  BY <1>10 DEF SpawnPty
<1>11. ASSUME NEW r \in Request, SpawnRefused(r) PROVE HandlerStatus'
  BY <1>11 DEF SpawnRefused
<1>12. ASSUME NEW r \in Request, AttachPty(r) PROVE HandlerStatus'
  BY <1>12 DEF InsertPty, AttachPty
<1>13. ASSUME NEW r \in Request, AttachFails(r) PROVE HandlerStatus'
  BY <1>13 DEF AttachFails
<1>14. ASSUME NEW r \in Request, MarkRunning(r) PROVE HandlerStatus'
  BY <1>14 DEF MarkRunning
<1>15. ASSUME NEW r \in Request, KillPty(r) PROVE HandlerStatus'
  BY <1>15 DEF KillPty
<1>16. ASSUME NEW r \in Request, StopSandbox(r) PROVE HandlerStatus'
  BY <1>16 DEF StopSandbox
<1>17. ASSUME NEW r \in Request, StopFails(r) PROVE HandlerStatus'
  BY <1>17 DEF StopFails
<1>18. ASSUME NEW r \in Request, MarkStopped(r) PROVE HandlerStatus'
  BY <1>18 DEF MarkStopped
<1>19. ASSUME NEW r \in Request, RemoveSandbox(r) PROVE HandlerStatus'
  BY <1>19 DEF RemoveSandbox
<1>20. ASSUME NEW r \in Request, RemoveFails(r) PROVE HandlerStatus'
  BY <1>20 DEF RemoveFails
<1>21. ASSUME NEW r \in Request, CleanKit(r) PROVE HandlerStatus'
  BY <1>21 DEF CleanKit
<1>22. ASSUME NEW r \in Request, CleanKitFails(r) PROVE HandlerStatus'
  BY <1>22 DEF CleanKitFails
<1>23. ASSUME NEW r \in Request, MarkRemoved(r) PROVE HandlerStatus'
  BY <1>23 DEF MarkRemoved
<1>24. ASSUME RecoverList PROVE HandlerStatus'
  BY <1>24 DEF RecoverList
<1>25. ASSUME RecoverUnrecorded PROVE HandlerStatus'
  BY <1>25 DEF RecoverUnrecorded
<1>26. ASSUME RecoverLook PROVE HandlerStatus'
  BY <1>26 DEF RecoverLook
<1>27. ASSUME RecoverStopped PROVE HandlerStatus'
  BY <1>27 DEF RecoverStopped
<1>28. ASSUME RecoverMissing PROVE HandlerStatus'
  BY <1>28 DEF RecoverMissing
<1>29. ASSUME RecoverRunning PROVE HandlerStatus'
  BY <1>29 DEF RecoverRunning
<1>30. ASSUME RecoverRm PROVE HandlerStatus'
  BY <1>30 DEF RecoverRm
<1>31. ASSUME RecoverSpawn PROVE HandlerStatus'
  BY <1>31 DEF RecoverSpawn
<1>32. ASSUME RecoverAttach PROVE HandlerStatus'
  BY <1>32 DEF InsertPty, RecoverAttach
<1>33. ASSUME RecoverMark PROVE HandlerStatus'
  BY <1>33 DEF RecoverMark
<1>34. ASSUME RecoverFails PROVE HandlerStatus'
  BY <1>34 DEF RecoverFails
<1>35. ASSUME CleanupList PROVE HandlerStatus'
  BY <1>35 DEF CleanupList
<1>36. ASSUME CleanupSkipped PROVE HandlerStatus'
  BY <1>36 DEF CleanupSkipped
<1>37. ASSUME CleanupSelect PROVE HandlerStatus'
  BY <1>37 DEF CleanupSelect
<1>38. ASSUME CleanupSweep PROVE HandlerStatus'
  BY <1>38 DEF CleanupSweep
<1>39. ASSUME RecoverDone PROVE HandlerStatus'
  BY <1>39 DEF RecoverDone
<1>40. ASSUME DeletePersona PROVE HandlerStatus'
  BY <1>40 DEF Settled, DeletePersona
<1>41. ASSUME CreatePersona PROVE HandlerStatus'
  BY <1>41 DEF CreatePersona
<1>42. ASSUME Restart PROVE HandlerStatus'
  BY <1>42 DEF InFlight, Restart
<1>43. ASSUME NEW s \in Session, ChildExits(s) PROVE HandlerStatus'
  BY <1>43 DEF ChildExits
<1>44. ASSUME NEW c \in late, LateCommand(c) PROVE HandlerStatus'
  BY <1>44 DEF LateCommand
<1>45. CASE UNCHANGED vars
  BY <1>45 DEF vars
<1> QED BY <1>1, <1>2, <1>3, <1>4, <1>5, <1>6, <1>7, <1>8, <1>9, <1>10, <1>11, <1>12,
           <1>13, <1>14, <1>15, <1>16, <1>17, <1>18, <1>19, <1>20, <1>21, <1>22,
           <1>23, <1>24, <1>25, <1>26, <1>27, <1>28, <1>29, <1>30, <1>31, <1>32,
           <1>33, <1>34, <1>35, <1>36, <1>37, <1>38, <1>39, <1>40, <1>41, <1>42,
           <1>43, <1>44, <1>45
           DEF Next, Handle, Recovery

LEMMA RecoveryStatusStep ==
  ASSUME OneAtATime, Inv, Discipline, [Next]_vars PROVE RecoveryStatus'
<1> USE OneAtATime, ConstantsOK
  DEF Inv, Types, Owners, TypeOK, StepsHaveSubject, Discipline, RequestState,
      RecoveryState, SandboxOrNone, At, Exists, SetStatus, DeleteRows, Goto, Finish,
      Idle, RecStep, RecNext, Booting, Admit, Offered, rows, terminals, outside,
      Exclusive, RecoveryStatus, Fresh, Active
<1>1. ASSUME NEW r \in Request, NEW s \in Session, Start(r, s) PROVE RecoveryStatus'
  BY <1>1 DEF Start
<1>2. ASSUME NEW r \in Request, NEW s \in Session, Resume(r, s) PROVE RecoveryStatus'
  BY <1>2 DEF Resume
<1>3. ASSUME NEW r \in Request, NEW s \in Session, Stop(r, s) PROVE RecoveryStatus'
  BY <1>3 DEF Stop
<1>4. ASSUME NEW r \in Request, NEW s \in Session, Remove(r, s) PROVE RecoveryStatus'
  BY <1>4 DEF Remove
<1>5. ASSUME NEW r \in Request, InsertSession(r) PROVE RecoveryStatus'
  BY <1>5 DEF InsertSession
<1>6. ASSUME NEW r \in Request, CreateSandbox(r) PROVE RecoveryStatus'
  BY <1>6 DEF CreateSandbox
<1>7. ASSUME NEW r \in Request, CreateFails(r) PROVE RecoveryStatus'
  BY <1>7 DEF CreateFails
<1>8. ASSUME NEW r \in Request, RecordSandbox(r) PROVE RecoveryStatus'
  BY <1>8 DEF RecordSandbox
<1>9. ASSUME NEW r \in Request, RecordRefused(r) PROVE RecoveryStatus'
  BY <1>9 DEF RecordRefused
<1>10. ASSUME NEW r \in Request, SpawnPty(r) PROVE RecoveryStatus'
  BY <1>10 DEF SpawnPty
<1>11. ASSUME NEW r \in Request, SpawnRefused(r) PROVE RecoveryStatus'
  BY <1>11 DEF SpawnRefused
<1>12. ASSUME NEW r \in Request, AttachPty(r) PROVE RecoveryStatus'
  BY <1>12 DEF InsertPty, AttachPty
<1>13. ASSUME NEW r \in Request, AttachFails(r) PROVE RecoveryStatus'
  BY <1>13 DEF AttachFails
<1>14. ASSUME NEW r \in Request, MarkRunning(r) PROVE RecoveryStatus'
  BY <1>14 DEF MarkRunning
<1>15. ASSUME NEW r \in Request, KillPty(r) PROVE RecoveryStatus'
  BY <1>15 DEF KillPty
<1>16. ASSUME NEW r \in Request, StopSandbox(r) PROVE RecoveryStatus'
  BY <1>16 DEF StopSandbox
<1>17. ASSUME NEW r \in Request, StopFails(r) PROVE RecoveryStatus'
  BY <1>17 DEF StopFails
<1>18. ASSUME NEW r \in Request, MarkStopped(r) PROVE RecoveryStatus'
  BY <1>18 DEF MarkStopped
<1>19. ASSUME NEW r \in Request, RemoveSandbox(r) PROVE RecoveryStatus'
  BY <1>19 DEF RemoveSandbox
<1>20. ASSUME NEW r \in Request, RemoveFails(r) PROVE RecoveryStatus'
  BY <1>20 DEF RemoveFails
<1>21. ASSUME NEW r \in Request, CleanKit(r) PROVE RecoveryStatus'
  BY <1>21 DEF CleanKit
<1>22. ASSUME NEW r \in Request, CleanKitFails(r) PROVE RecoveryStatus'
  BY <1>22 DEF CleanKitFails
<1>23. ASSUME NEW r \in Request, MarkRemoved(r) PROVE RecoveryStatus'
  BY <1>23 DEF MarkRemoved
<1>24. ASSUME RecoverList PROVE RecoveryStatus'
  BY <1>24 DEF RecoverList
<1>25. ASSUME RecoverUnrecorded PROVE RecoveryStatus'
  BY <1>25 DEF RecoverUnrecorded
<1>26. ASSUME RecoverLook PROVE RecoveryStatus'
  BY <1>26 DEF RecoverLook
<1>27. ASSUME RecoverStopped PROVE RecoveryStatus'
  BY <1>27 DEF RecoverStopped
<1>28. ASSUME RecoverMissing PROVE RecoveryStatus'
  BY <1>28 DEF RecoverMissing
<1>29. ASSUME RecoverRunning PROVE RecoveryStatus'
  BY <1>29 DEF RecoverRunning
<1>30. ASSUME RecoverRm PROVE RecoveryStatus'
  BY <1>30 DEF RecoverRm
<1>31. ASSUME RecoverSpawn PROVE RecoveryStatus'
  BY <1>31 DEF RecoverSpawn
<1>32. ASSUME RecoverAttach PROVE RecoveryStatus'
  BY <1>32 DEF InsertPty, RecoverAttach
<1>33. ASSUME RecoverMark PROVE RecoveryStatus'
  BY <1>33 DEF RecoverMark
<1>34. ASSUME RecoverFails PROVE RecoveryStatus'
  BY <1>34 DEF RecoverFails
<1>35. ASSUME CleanupList PROVE RecoveryStatus'
  BY <1>35 DEF CleanupList
<1>36. ASSUME CleanupSkipped PROVE RecoveryStatus'
  BY <1>36 DEF CleanupSkipped
<1>37. ASSUME CleanupSelect PROVE RecoveryStatus'
  BY <1>37 DEF CleanupSelect
<1>38. ASSUME CleanupSweep PROVE RecoveryStatus'
  BY <1>38 DEF CleanupSweep
<1>39. ASSUME RecoverDone PROVE RecoveryStatus'
  BY <1>39 DEF RecoverDone
<1>40. ASSUME DeletePersona PROVE RecoveryStatus'
  BY <1>40 DEF Settled, DeletePersona
<1>41. ASSUME CreatePersona PROVE RecoveryStatus'
  BY <1>41 DEF CreatePersona
<1>42. ASSUME Restart PROVE RecoveryStatus'
  BY <1>42 DEF InFlight, Restart
<1>43. ASSUME NEW s \in Session, ChildExits(s) PROVE RecoveryStatus'
  BY <1>43 DEF ChildExits
<1>44. ASSUME NEW c \in late, LateCommand(c) PROVE RecoveryStatus'
  BY <1>44 DEF LateCommand
<1>45. CASE UNCHANGED vars
  BY <1>45 DEF vars
<1> QED BY <1>1, <1>2, <1>3, <1>4, <1>5, <1>6, <1>7, <1>8, <1>9, <1>10, <1>11, <1>12,
           <1>13, <1>14, <1>15, <1>16, <1>17, <1>18, <1>19, <1>20, <1>21, <1>22,
           <1>23, <1>24, <1>25, <1>26, <1>27, <1>28, <1>29, <1>30, <1>31, <1>32,
           <1>33, <1>34, <1>35, <1>36, <1>37, <1>38, <1>39, <1>40, <1>41, <1>42,
           <1>43, <1>44, <1>45
           DEF Next, Handle, Recovery

LEMMA DisciplineInit == Init => Discipline
  BY ConstantsOK
  DEF Init, Discipline, Exclusive, HandlerStatus, RecoveryStatus, Idle, Booting, At

LEMMA DisciplineAlways == ASSUME OneAtATime PROVE Spec => []Discipline
<1>1. Inv /\ Discipline /\ [Next]_vars => Discipline'
  BY OneAtATime, ExclusiveStep, HandlerStatusStep, RecoveryStatusStep DEF Discipline
<1> QED BY DisciplineInit, InvAlways, <1>1, PTL DEF Spec

-----------------------------------------------------------------------------
(***************************************************************************)
(* The refinement: an update of the status column is a step of the         *)
(* lifecycle, and every other step leaves the phases alone.                *)
(***************************************************************************)
LEMMA Moves ==
  ASSUME NEW s \in Session, Inv, NEW new, SetStatus(s, new),
         \/ status[s] = "starting" /\ new \in {"starting", "running", "failed", "stopped"}
         \/ status[s] = "running" /\ new \in {"running", "stopped", "failed"}
         \/ status[s] = "stopped" /\ new \in {"running", "removed"}
  PROVE [Lifecycle!Next]_status
<1>1. status' = [status EXCEPT ![s] = new]
  BY DEF SetStatus, Exists
<1>2. CASE new = status[s]
  BY <1>1, <1>2 DEF Inv, Types, TypeOK
<1>3. CASE status[s] = "starting" /\ new # status[s]
  BY <1>1, <1>3 DEF Lifecycle!Next, Lifecycle!Settle, Lifecycle!Move
<1>4. CASE status[s] = "running" /\ new # status[s]
  BY <1>1, <1>4 DEF Lifecycle!Next, Lifecycle!Leave, Lifecycle!Move
<1>5. CASE status[s] = "stopped" /\ new # status[s]
  BY <1>1, <1>5 DEF Lifecycle!Next, Lifecycle!Resume, Lifecycle!Close, Lifecycle!Move
<1> QED BY <1>2, <1>3, <1>4, <1>5

LEMMA Drops ==
  ASSUME NEW s \in Session, Inv, DeleteRows({s}),
         status[s] \in {"starting", "running", "stopped"}
  PROVE [Lifecycle!Next]_status
<1>1. status' = [status EXCEPT ![s] = "deleted"]
  BY DEF DeleteRows, Exists, Inv, Types, TypeOK
<1> QED
  BY <1>1 DEF Lifecycle!Next, Lifecycle!Settle, Lifecycle!Leave, Lifecycle!Close,
              Lifecycle!Move

LEMMA NextLifecycle ==
  ASSUME OneAtATime, Inv, Discipline, [Next]_vars
  PROVE [Lifecycle!Next]_status
<1> USE OneAtATime DEF Inv, Types, TypeOK, RequestState, RecoveryState, StepsHaveSubject,
                       Discipline, At, Active
<1>1. CASE UNCHANGED status
  BY <1>1
<1>2. ASSUME NEW r \in Request, InsertSession(r) PROVE [Lifecycle!Next]_status
  BY <1>2 DEF InsertSession, Owners, Fresh, Lifecycle!Next, Lifecycle!Begin, Lifecycle!Move
<1>3. ASSUME NEW r \in Request, CreateFails(r) PROVE [Lifecycle!Next]_status
  BY <1>3, Moves DEF CreateFails, HandlerStatus
<1>4. ASSUME NEW r \in Request, MarkRunning(r) PROVE [Lifecycle!Next]_status
  BY <1>4, Moves DEF MarkRunning, HandlerStatus
<1>5. ASSUME NEW r \in Request, MarkStopped(r) PROVE [Lifecycle!Next]_status
  BY <1>5, Moves DEF MarkStopped, HandlerStatus
<1>6. ASSUME NEW r \in Request, MarkRemoved(r) PROVE [Lifecycle!Next]_status
  BY <1>6, Moves DEF MarkRemoved, HandlerStatus
<1>7. ASSUME RecoverUnrecorded PROVE [Lifecycle!Next]_status
  BY <1>7, Drops DEF RecoverUnrecorded, RecoveryStatus
<1>8. ASSUME RecoverStopped PROVE [Lifecycle!Next]_status
  BY <1>8, Moves DEF RecoverStopped, RecoveryStatus
<1>9. ASSUME RecoverMissing PROVE [Lifecycle!Next]_status
  BY <1>9, Drops DEF RecoverMissing, RecoveryStatus
<1>10. ASSUME RecoverMark PROVE [Lifecycle!Next]_status
  BY <1>10, Moves DEF RecoverMark, RecoveryStatus
<1>11. ASSUME RecoverFails PROVE [Lifecycle!Next]_status
  BY <1>11, Moves DEF RecoverFails, RecoveryStatus
<1>12. ASSUME CleanupSweep PROVE [Lifecycle!Next]_status
  BY <1>12, Drops DEF CleanupSweep, RecoveryStatus
<1>13. ASSUME DeletePersona PROVE [Lifecycle!Next]_status
  <2>1. status' = [s \in Session |-> IF status[s] = "unused" THEN "unused" ELSE "deleted"]
    BY <1>13 DEF DeletePersona, DeleteRows, Exists
  <2> QED BY <1>13, <2>1 DEF DeletePersona, Lifecycle!Next, Lifecycle!Forget
<1>14. ASSUME NEW r \in Request, Handle(r) PROVE [Lifecycle!Next]_status
  BY <1>1, <1>2, <1>3, <1>4, <1>5, <1>6, <1>14
  DEF Handle, CreateSandbox, RecordSandbox, RecordRefused, SpawnPty, SpawnRefused,
      AttachPty, AttachFails, KillPty, StopSandbox, StopFails, RemoveSandbox, RemoveFails,
      CleanKit, CleanKitFails, rows
<1>15. CASE Recovery
  BY <1>1, <1>7, <1>8, <1>9, <1>10, <1>11, <1>12, <1>15
  DEF Recovery, RecoverList, RecoverLook, RecoverRunning, RecoverRm, RecoverSpawn,
      RecoverAttach, CleanupList, CleanupSkipped, CleanupSelect, RecoverDone, rows
<1> QED
  BY <1>1, <1>13, <1>14, <1>15
  DEF Next, Start, Resume, Stop, Remove, CreatePersona, ChildExits, LateCommand, Restart,
      vars, rows

\* With requests one at a time per session, session_manager.rs takes each session through
\* the phases of SessionLifecycle only, across failures and restarts.
THEOREM Refinement == ASSUME OneAtATime PROVE Spec => FollowsLifecycle
<1>1. Init => Lifecycle!Init
  BY DEF Init, Lifecycle!Init
<1>2. Inv /\ Discipline /\ [Next]_vars => [Lifecycle!Next]_status
  BY OneAtATime, NextLifecycle
<1> QED
  BY InvAlways, DisciplineAlways, <1>1, <1>2, PTL DEF Spec, FollowsLifecycle, Lifecycle!Spec

=============================================================================
