CONSTANTS
  Keys = {k}
  Values = {v1, v2}
  Unset = Unset
  Kinds = {"select", "update", "procedure", "prepare", "run", "drop", "commit", "rollback", "ping"}
  Scenarios <- MCScenarios
  MaxCalls = 3
  MaxSettings = 2
  MaxResults = 2
  MaxPackets = 1
  Addresses <- MCAddresses
  Lower <- MCLower
  Ports = {1}
  VolumeIds = {1, 2, 4, 5}
  INVALID_VOLUME_ID = 3
  MaxPort = 3
  Roles = {"r"}
  connectPort = 1
  NoHost = NoHost
  NoPort = NoPort
  NoVolume = NoVolume
  MaxRecords = 2
SPECIFICATION Spec
INVARIANTS MirrorsServer CommitsAsAsked LocationsFollowServer
PROPERTIES ExecSettles
CHECK_DEADLOCK FALSE
