SPECIFICATION UpdateFair
CONSTANTS
  dns = dns
  wazuh = wazuh
  samba = samba
  Ct = {dns, wazuh}
  Vm = {samba}
  Host = host
  Targets <- InOrder
  NoSnapshot = {dns}
  DropSnapshot = {wazuh}
  KeepSnapshot = FALSE
  MaxPolls = 1
  MaxRuns = 2
  MaxChanges = 1
INVARIANTS
  UpdateTypeOK
  RollbackPoint
  ReportIsTrue
PROPERTIES
  PoolGuardRetires
  DryRunTouchesNothing
  RunEnds
