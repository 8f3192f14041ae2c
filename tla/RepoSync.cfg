\* One repository; the menus are in MCRepoSync.
SPECIFICATION Spec
CONSTANTS
  Main = main
  Feature <- MCFeature
  NoUrl = no_url
  WsUrl = ws_url
  NoRepo = no_repo
  Squashed = 99
  Request = {r1, r2}
  Dir = {d1, d2}
  DefaultDir = d1
  Url = {u1}
  Login = {l1, l2}
  Temp = temp
  Secret = {3}
  Menu <- MCMenu
  NoRow = no_row
  NoStatus = no_status
  NoValue = no_value
  MaxRows = 2
  MaxRequests = 3
  MaxCommits = 3
  MaxExits = 1
  main = main
  f1 = f1
  f2 = f2
  r1 = r1
  r2 = r2
  d1 = d1
  d2 = d2
  u1 = u1
  l1 = l1
  l2 = l2
  no_url = no_url
  ws_url = ws_url
  no_repo = no_repo
INVARIANTS
  TypeOK
  OthersOnlyByRace
  NothingHidden
  RemoteNotForgotten
  RowHasMirror
  LoginsWhole
  SyncExclusive
PROPERTIES
  MirrorKeepsCommits
  RemoteKeepsCommits
  AheadNoticed
CHECK_DEADLOCK FALSE
