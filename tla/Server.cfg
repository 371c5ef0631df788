\* A required call, two tabs (one with a slow clock), two result requests at a time;
\* two runs of a user, one at a time, a body at most a tick behind its headers;
\* two verifications of one challenge that lives one or two seconds, whose awaits take as long as they like.
CONSTANTS
  user = user
  Calls = {c1}
  Pages = {p1, p2}
  Posts = {h1, h2}
  SlowClock = {p2}
  Requests = {r1, r2}
  MaxPageRuns = 1
  Timeout = 2
  ReadTime = 2
  MaxPause = 2
  OddReads = 2
  MaxStall = 1
  Subjects = {"ann", "bob"}
  Policies = {"first-use", "off", "hook"}
  Keys = {"f", "g"}
  Devices = {"d1", "d2"}
  Challenges = {"c"}
  Lives = {1, 2}
  Verifications = {"v1", "v2"}
  MaxTime = 6
  Contracts <- MCContracts
  Settings <- Options
  ServerMembers = {"user"}
  PageMembers = {"venue"}
SPECIFICATION MCSpec
INVARIANTS NothingLeftBehind CloudInv ReceiptsInv ConfigInv
PROPERTY GenuineResultIsAccepted
CHECK_DEADLOCK FALSE
