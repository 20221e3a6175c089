SPECIFICATION Spec
CONSTANTS
  Obj <- MCObj
  Denote <- MCDenote
  Net = {"N"}
  FwObj = "fw"
  FwAddrObj = {"f1", "f2"}
  Srv = {"http", "ssh"}
  AnyTCP = "tcp"
  Iface = {"e1", "e2"}
  AllIfaces = "*"
  NoIface = "none"
  Decision = "end"
  Policies <- MCLostChain
INVARIANT NoEmptyChain
CHECK_DEADLOCK FALSE
