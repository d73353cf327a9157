SPECIFICATION FairSpec
CONSTANTS
  h1 = h1
  h2 = h2
  p2 = p2
  Job = {j1}
  NoJob = NoJob
  Problem = {p1}
  NoProblem = NoProblem
  restart = restart
  reload = reload
  Verb = {restart}
  NoVerb = NoVerb
  Host = {h1}
  NoHost = NoHost
  CheckmkName = {h1, h2}
  NameOf <- Named
  AlertingName <- Alerting
  WriteVerbs <- VerbsOf
  Flagged = {}
  ProtectedNames = {}
  UnitProtected = {}
  Tap = {t1}
  MaxTime = 1
  Ttl = 1
  Window = 1
  Day = 2
  Hour = 1
  PerTuple = 1
  GlobalPerHour = 1
  JobsPerHour = 1
  MaxCrashes = 0
  MaxFaults = 0
PROPERTIES
  ExpiredIsClosed
