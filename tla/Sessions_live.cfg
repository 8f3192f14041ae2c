SPECIFICATION Spec
CONSTANTS
  Session = {s1}
  Sandbox = {b1}
  Request = {r1}
  NoSession = NoSession
  NoSandbox = NoSandbox
  MayFail = {"ls", "timeout"}
  MaxCrashes = 1
  OneAtATime = FALSE
PROPERTIES
  StartingResolves
