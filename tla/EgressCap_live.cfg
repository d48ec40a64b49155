SPECIFICATION FairSpec
CONSTANTS
  weather = weather
  tides = tides
  printer = printer
  t1 = t1
  t2 = t2
  t3 = t3
  Profiles = {weather}
  RawDests = {printer}
  Literals = {}
  Tuples = {t1}
  Answers <- SameAnswer
  Failures = {"nft","dot","crash","reboot"}
  CliVerbs = {"reconcile", "withdraw", "resolve"}
PROPERTIES RequestsEnd
