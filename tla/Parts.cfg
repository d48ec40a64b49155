SPECIFICATION PartsSpec
CONSTANTS
  c1 = c1
  c2 = c2
  h1 = h1
  h2 = h2
  h3 = h3
  h4 = h4
  NoSlice = NoSlice
  Slices = {c1, c2}
  Handles = {h1, h2, h3, h4}
  Failures = {"nft", "store", "crash", "reboot"}
  CliVerbs = {"reconcile"}
  Artifacts <- SomeArtifacts
  DigestOf <- SomeDigests
  InterpOf <- SomeInterps
  NeededOf <- SomeNeeded
  NoFile <- NoneFile
  NoName <- NoneName
  NoDigest <- NoneName
  Manifests <- SomeManifests
  Asked <- SomeCalls
  Worlds <- SomeWorlds
  SealedProfiles = {"model"}
  Placed <- SomePlaced
  MaxSwaps = 2
  Providers = {"claude", "codex"}
  NRuns = 3
  MaxSteps = 2
  Boxes <- SomeBoxes
  Layers <- SomeLayers
  KindOf <- SomeKinds
  SealedSets = {{"a", "bad", "c"}, {"a", "c"}}
  Stores = {{"a", "b", "bad", "c"}, {"b"}}
  Signed = {"a", "b", "c"}
  Wanted = {{"a", "b"}, {"a", "bad", "c"}, {"a", "c"}}
  RunFaults = {TRUE, FALSE}
  MaxKills = 1
  MaxRequests = 3
  Tokens = {"local"}
  Addrs = {"x"}
  NoAddr = "none"
  Legacies <- SomeLegacies
  Texts <- SomeTexts
  NoText <- NoManifest
  Images <- SomeImages
  FaultSets = {{"bind", "project", "install", "nft"}, {"migrate"}}
  RateMax = 1
  WantsKeep = 1
  MaxSent = 2
  MaxCuts = 1
  Objects <- SomeObjects
  Ceiling <- SealedTable
  Records <- SomeRecords
  Bodies <- SomeBodies
  NoScope <- NoRoot
  Unset = 98
  Junk = 99
  DefaultLimit = 2
  MaxLimit = 3
  MaxRewrites = 1
INVARIANTS RevokedClosed UnblessAnswered PanelCurrent LaunchExact
INVARIANTS PartsTypeOK IslandHolds TurnTold OnionAudit HostsCurrent OwnerContained AnswerInReach
CHECK_DEADLOCK FALSE
