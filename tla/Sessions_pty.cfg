\* A terminal that cannot be spawned.
SPECIFICATION Spec
CONSTANTS
  Session = {s1}
  Sandbox = {b1}
  Request = {r1}
  NoSession = NoSession
  NoSandbox = NoSandbox
  MayFail = {"pty"}
  MaxCrashes = 0
  OneAtATime = TRUE
PROPERTIES
  StartingResolves
