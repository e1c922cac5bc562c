CONSTANTS
  text1 = text1
  text2 = text2
  text3 = text3
  text4 = text4
  MaxTurns = 4
  AutoApprove = FALSE
  Contents <- FourTexts
  Plans <- AllPlans
  Reported <- ReportedWords
SPECIFICATION FairSpec
INVARIANTS
  WaitingIsAnswerable
  CancelledOnlyOnRequest
  OneApprovalPerGatedRun
  AuditTrailAgrees
PROPERTIES
  NoTurnAfterCancel
  LifecycleSpec
  CancelEndsRun
  SettlesOrWaits
