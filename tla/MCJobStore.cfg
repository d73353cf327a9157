SPECIFICATION StoreSpec
CONSTANTS
  Job = {j1, j2, j3}
  Problem = {p1}
  NoProblem = NoProblem
  Verb = {restart}
  NoVerb = NoVerb
  MaxTime = 2
  Ttl = 1
  Window = 1
SYMMETRY Symmetry
INVARIANTS
  StoreTypeOK
  RunsAuthorised
  SessionsSpaced
PROPERTIES
  ClosedIsFinal
  ImplementsContract
