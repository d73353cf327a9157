SPECIFICATION LimitsSpec
CONSTANTS
  h1 = h1
  h2 = h2
  Job = {j1, j2, j3, j4, j5}
  NoJob = NoJob
  Problem = {p1}
  NoProblem = NoProblem
  Verb = {restart}
  NoVerb = NoVerb
  Host = {h1, h2}
  NoHost = NoHost
  CheckmkName = {h1, h2}
  NameOf <- Named
  AlertingName <- Alerting
  WriteVerbs <- AllVerbs
  Flagged = {}
  ProtectedNames = {}
  UnitProtected = {}
  MaxTime = 2
  Day = 2
  Hour = 1
  PerTuple = 2
  GlobalPerHour = 1
  Concurrent = 2
SYMMETRY Symmetry
CHECK_DEADLOCK FALSE
INVARIANTS
  EndedStopsRuns
  TupleOvershoot
  HourOvershoot
