\* Nothing fails; two requests at once about one session.
SPECIFICATION Spec
CONSTANTS
  Session = {s1}
  Sandbox = {b1}
  Request = {r1, r2}
  NoSession = NoSession
  NoSandbox = NoSandbox
  MayFail = {}
  MaxCrashes = 0
  OneAtATime = FALSE
INVARIANTS
  RunningIsAttached
