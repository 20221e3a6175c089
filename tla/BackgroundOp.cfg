SPECIFICATION FairSpec
CONSTANTS
  Ops = {o1, o2}
  NoOp = NoOp
  MaxLines = 1
INVARIANTS
  TypeOK
  FlagAndLoggerLive
  ResultsReadAfterRun
PROPERTIES
  ImplementsLifetime
  PollEnds
  OrphanThreadEnds
