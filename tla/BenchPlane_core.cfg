SPECIFICATION MCSpec
CONSTANTS
  b1 = b1
  b3 = b3
  d3 = d3
  p3 = p3
  b2 = b2
  d1 = d1
  d2 = d2
  bin = bin
  broker = broker
  root = root
  p1 = p1
  p2 = p2
  k1 = k1
  None = None
  Broker = broker
  Leaves = {bin}
  LeafOf <- SameLeaf
  Benches = {b1, b2}
  Dirs = {d1, d2}
  Profiles = {p1}
  Keys = {k1}
  Caps = {1, 2}
  Projects = {1, 2}
  Actors = {broker}
  Verbs <- BrokerAlone
  Failures = {"reboot"}
SYMMETRY Symmetry
INVARIANTS TypeOK NoSharedQuota RecordHeld MountsRecorded DestroySparesFiles NoStrayContainer EgressInRun PairClean
PROPERTIES EditsKept
