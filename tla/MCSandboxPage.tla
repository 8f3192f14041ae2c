---------------------------- MODULE MCSandboxPage ----------------------------
(***************************************************************************)
(* A small instance of the sessions with the sandboxes page.               *)
(***************************************************************************)
EXTENDS SandboxPage, TLC

MCSymmetry == Permutations(Session) \cup Permutations(Sandbox) \cup Permutations(Request)
=============================================================================
