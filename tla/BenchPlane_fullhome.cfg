SPECIFICATION Spec
CONSTANTS
  b1 = b1
  b2 = b2
  d1 = d1
  d2 = d2
  bin = bin
  broker = broker
  root = root
  p1 = p1
  p2 = p2
  k1 = k1
  None = None
  Broker = broker
  Leaves = {bin}
  LeafOf <- SameLeaf
  Benches = {b1}
  Dirs = {d1}
  Profiles = {}
  Keys = {}
  Caps = {1}
  Projects = {1}
  Actors = {broker}
  Verbs <- BrokerAlone
  Failures = {"write"}
INVARIANT DestroySparesFiles
