SPECIFICATION JournalSpec
CONSTANTS
  s1 = s1
  s2 = s2
  s3 = s3
  f1 = f1
  f2 = f2
  f3 = f3
  Section = {s1, s2, s3}
  NoSection = NoSection
  FileOf <- TwoFiles
  Foreign = {"adds"}
  MaxForeign = 1
  MaxFaults = 0
  MaxCrashes = 0
CHECK_DEADLOCK FALSE
INVARIANT
  AnsweredPublishPushes
