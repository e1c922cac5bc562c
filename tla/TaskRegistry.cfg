CONSTANTS
  a1 = a1
  t1 = t1
  t2 = t2
  t3 = t3
  c1 = c1
  c2 = c2
  NoAgent = NoAgent
  NoTask = NoTask
  NoCaller = NoCaller
  Agents <- OneAgent
  Tasks <- ThreeTasks
  Callers <- TwoCallers
  Droppable <- OneDroppable
SPECIFICATION FairSpec
INVARIANTS
  ActiveIsFindable
  RivalsRaced
PROPERTY EndedIsForgotten
