SPECIFICATION PageSpec
CONSTANTS
  Session = {s1, s2}
  Sandbox = {b1, b2}
  Request = {r1, r2}
  NoSession = NoSession
  NoSandbox = NoSandbox
  MayFail = {"create", "stop", "rm", "pty", "kit"}
  MaxCrashes = 1
  OneAtATime = TRUE
  MaxPageRequests = 1
SYMMETRY MCSymmetry
INVARIANTS
  TerminalsMatch
  SandboxKept
  NoOrphanSandbox
  RecoveryAgrees
  SandboxesApart
PROPERTIES
  FollowsLifecycle
