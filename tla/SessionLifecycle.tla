-------------------------- MODULE SessionLifecycle --------------------------
(***************************************************************************)
(* What SessionManager promises of a session, without requests, terminals, *)
(* sandboxes or failures: the phases it goes through.  Sessions implements *)
(* it, with its status column as phase, for requests that come one at a    *)
(* time per session.                                                       *)
(***************************************************************************)
CONSTANT Session

VARIABLE phase

Init == phase = [s \in Session |-> "unused"]

Move(s, from, to) ==
  /\ phase[s] \in from
  /\ \E p \in to : phase' = [phase EXCEPT ![s] = p]

Begin(s) == Move(s, {"unused"}, {"starting"})

\* The start is over; or recovery finds the sandbox missing and drops the session.
Settle(s) == Move(s, {"starting"}, {"running", "failed", "stopped", "deleted"})

\* The user stops it, or the application has been away.
Leave(s) == Move(s, {"running"}, {"stopped", "failed", "deleted"})

Resume(s) == Move(s, {"stopped"}, {"running"})

\* Only a stopped session is removed; a removed one is never used again.
Close(s) == Move(s, {"stopped"}, {"removed", "deleted"})

\* The persona goes, with all its sessions: none is in use.
Forget ==
  /\ \A s \in Session : phase[s] \notin {"starting", "running"}
  /\ phase' = [s \in Session |-> IF phase[s] = "unused" THEN "unused" ELSE "deleted"]

Next ==
  \/ \E s \in Session : Begin(s) \/ Settle(s) \/ Leave(s) \/ Resume(s) \/ Close(s)
  \/ Forget

Spec == Init /\ [][Next]_phase

=============================================================================
