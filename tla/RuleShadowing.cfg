SPECIFICATION Spec
CONSTANTS
  Addresses <- MCAddresses
  Services <- MCServices
  Interfaces = {"e1", "e2"}
  AnyItf = "any"
  FwAddresses <- MCFwAddresses
  Units = {"/second"}
  Policies <- MCPolicies
  Packets <- MCPackets
  MaxPort = 9
  None = None
INVARIANTS
  TypeOK
  CacheRight
  NoneMissed
  ShadowSound
CHECK_DEADLOCK FALSE
