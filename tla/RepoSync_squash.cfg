\* Pushes of a repository whose agent commits are waiting in the mirror.
SPECIFICATION Spec
CONSTANTS
  Main = main
  Feature <- MCFeature
  NoUrl = no_url
  WsUrl = ws_url
  NoRepo = no_repo
  Squashed = 99
  Request = {r1, r2}
  Dir = {d1, d2}
  DefaultDir = d1
  Url = {u1}
  Login = {l1, l2}
  Temp = temp
  Secret = {3}
  Menu <- MCSquash
  NoRow = no_row
  NoStatus = no_status
  NoValue = no_value
  MaxRows = 2
  MaxRequests = 2
  MaxCommits = 3
  MaxExits = 1
  main = main
  f1 = f1
  f2 = f2
  r1 = r1
  r2 = r2
  d1 = d1
  d2 = d2
  u1 = u1
  l1 = l1
  l2 = l2
  no_url = no_url
  ws_url = ws_url
  no_repo = no_repo
INVARIANT
  SquashHasSelection
CHECK_DEADLOCK FALSE
