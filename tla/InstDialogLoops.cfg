SPECIFICATION Spec
CONSTANTS
  f1 = f1
  f2 = f2
  c1 = c1
  f3 = f3
  Firewalls = {f1, f2, f3}
  Clusters = {c1}
  Member <- MCMember
  NoObject = NoObject
  NoCompiler = {f3}
  NotStartable = {f1}
  Scripted = {f2}
  Moves = {"click in loop", "select all", "early stop", "hide"}
  MaxNesting = 3
INVARIANTS
  OneJobAtATime
