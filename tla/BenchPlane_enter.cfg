SPECIFICATION Spec
CONSTANTS
  b1 = b1
  b2 = b2
  d1 = d1
  d2 = d2
  bin = bin
  broker = broker
  root = root
  p1 = p1
  p2 = p2
  k1 = k1
  None = None
  Broker = broker
  Leaves = {bin}
  LeafOf <- SameLeaf
  Benches = {b1}
  Dirs = {}
  Profiles = {p1}
  Keys = {}
  Caps = {1}
  Projects = {1}
  Actors = {broker, root}
  Verbs <- EnterBeside
  Failures = {}
PROPERTY NetworkSticks
