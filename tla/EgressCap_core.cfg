SPECIFICATION MCSpec
CONSTANTS
  weather = weather
  tides = tides
  printer = printer
  t1 = t1
  t2 = t2
  t3 = t3
  Profiles = {weather, tides}
  RawDests = {printer}
  Literals = {}
  Tuples = {t1, t2}
  Answers <- SharedAnswers
  Failures = {"nft", "dot", "store", "crash", "reboot"}
  CliVerbs = {"reconcile"}
  Shops = {"v", "w"}
  Packages = {"a", "b"}
  Processes = {1, 2}
  Recipes <- SomeRecipes
  Seeds = {"s1", "s2"}
  Halls <- SomeHalls
  MaxMade = 2
  MaxVersion = 2
  MaxStops = 1
INVARIANTS TypeOK GrantedOnly OkMeansDone RecoveryEnds WorkshopSound
PROPERTIES KeepsShared PromiseKept
