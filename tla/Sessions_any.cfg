\* Any requests at any time, two at once, about one session.
SPECIFICATION Spec
CONSTANTS
  Session = {s1}
  Sandbox = {b1}
  Request = {r1, r2}
  NoSession = NoSession
  NoSandbox = NoSandbox
  MayFail = {"ls", "stop", "rm", "pty", "kit"}
  MaxCrashes = 1
  OneAtATime = FALSE
INVARIANTS
  TypeOK
  RunningHasSandbox
  TerminalOnOwnSandbox
  RemovedHasNoKit
PROPERTIES
  RowHistory
