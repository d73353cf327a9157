SPECIFICATION AttestFair
CONSTANTS
  block = block
  port = port
  ads = ads
  youtube = youtube
  old = old
  new = new
  Field = {block, port}
  Policy <- Policies
  Values <- FieldValues
  Exempt <- Exemptions
  Initial <- Starts
  Absent = Absent
  Mode = {"loud", "quiet"}
  MaxFaults = 1
INVARIANTS
  AttestTypeOK
  StandingWasAnnounced
  AnnouncedOnce
PROPERTY
  LastingChangeIsAnnounced
