SPECIFICATION Spec
CONSTANTS
  c1 = c1
  c2 = c2
  h1 = h1
  h2 = h2
  h3 = h3
  h4 = h4
  NoSlice = NoSlice
  Slices = {c1, c2}
  Handles = {h1, h2}
  Failures = {}
  CliVerbs = {}
INVARIANTS LaunchLive
