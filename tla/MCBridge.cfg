SPECIFICATION FairSpec
CONSTANTS
  Proc = {p1, p2}
  NoProc = NoProc
  MaxFifos = 3
  MaxRotations = 2
INVARIANT OneReader
PROPERTIES BlockIsRead ReadsAgain
