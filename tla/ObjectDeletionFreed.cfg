SPECIFICATION Spec
CONSTANTS
  x = x
  g = g
  n = n
  r = r
  AnyObject = AnyObject
  DummyObject = DummyObject
  NoObject = NoObject
  Hosts <- MCHosts
  Groups <- MCGroups
  FreshGroups <- MCFreshGroups
  Rules <- MCRules
  MaxStack = 3
  MaxCount = 6
INVARIANTS MovedObjectLives
CHECK_DEADLOCK FALSE
