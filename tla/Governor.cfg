CONSTANTS
  Tools <- TwoTools
  Kinds <- TwoKinds
  Frames <- ManyFrames
  Replies <- ShortReplies
  WideOutputs = TRUE
SPECIFICATION FairSpec
INVARIANTS
  AskedForAReason
  MitigationFitsFailure
PROPERTIES
  StuckIsNotRetried
  AskingIsFinal
  WorkingRunGoesOn
  EveryRunEnds
