SPECIFICATION ConfineSpec
CONSTANTS
  DirNames = {"a", ".ssh"}
  NeverNames = {".ssh"}
  FileNames = {"f"}
  Inos = {"i1", "i2"}
  Texts = {"t1", "t2"}
  Odd = {"bin"}
  Huge = {}
  MaxClock = 2
  QueueLimit = 3
  MaxOps = 4
  MaxFaults = 0
  Faults = {}
  MoveDirs = TRUE
  p1 = p1
  p2 = p2
  s1 = s1
  s2 = s2
  Procs = {p1}
  Ids = {"job", "run"}
  Slots = {s1, s2}
  Nobody = Nobody
  Requests <- SomeRequests
  Failures = {}
  MaxFailures = 0
  MaxAsks = 1
INVARIANTS RenameFollowed
CHECK_DEADLOCK FALSE
