SPECIFICATION Spec
CONSTANTS
  h1 = h1
  h2 = h2
  p2 = p2
  Job = {j1, j2}
  NoJob = NoJob
  Problem = {p1, p2, p3}
  NoProblem = NoProblem
  restart = restart
  reload = reload
  Verb = {restart, reload}
  NoVerb = NoVerb
  Host = {h1, h2}
  NoHost = NoHost
  CheckmkName = {h1, h2}
  NameOf <- Named
  AlertingName <- Alerting
  WriteVerbs <- VerbsOf
  Flagged = {}
  ProtectedNames = {h2}
  UnitProtected = {}
  Tap = {t1}
  MaxTime = 1
  Ttl = 1
  Window = 1
  Day = 2
  Hour = 1
  PerTuple = 1
  GlobalPerHour = 1
  JobsPerHour = 2
  MaxCrashes = 0
  MaxFaults = 0
SYMMETRY Symmetry
INVARIANTS
  GrantsAreEarned
  AutoRunsAreCounted
  ActionsStayOnTheirHost
