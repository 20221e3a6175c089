SPECIFICATION FairSpec
CONSTANTS
  f1 = f1
  f2 = f2
  c1 = c1
  f3 = f3
  Firewalls = {f1, f2}
  Clusters = {c1}
  Member <- MCMember
  NoObject = NoObject
  NoCompiler = {}
  NotStartable = {}
  Scripted = {f2}
  Moves = {"hide"}
  MaxNesting = 2
INVARIANTS
  TypeOK
  ResultGoesToItsUnit
  CompleteMeansCompiled
  FailedNotInstalled
PROPERTIES
  StoppedStartsNothing
  BatchEnds
