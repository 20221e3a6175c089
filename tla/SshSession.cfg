SPECIFICATION Spec
CONSTANTS
  Kinds = {"unx", "pix", "ios", "nxos", "procurve", "junos"}
  Comment = "!"
  Lines <- MCLines
  Pre <- MCPre
  Activation <- MCActivation
  Post <- MCPost
INVARIANTS
  TypeOK
  CommandsInOrder
  SuccessMeansPushed
  NullWriteNeedsSuspension
PROPERTY KeepsPromise
