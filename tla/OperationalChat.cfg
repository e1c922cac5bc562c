CONSTANTS
  r1 = r1
  r2 = r2
  n1 = n1
  a1 = a1
  old1 = old1
  NoTurn = NoTurn
  Turns <- TwoTurns
  Notices <- OneNotice
  Archivings <- OneArchiving
  Droppable <- OneDroppable
  Earlier <- OneEarlier
  Messages <- HonestMessages
  Seconds <- OneSecond
  MinArchived = 2
  MaxRestarts = 1
SPECIFICATION FairSpec
CHECK_DEADLOCK FALSE
INVARIANTS
  LostOnlyIfAtRisk
  CarriedOutOnce
PROPERTY EveryTurnEnds
