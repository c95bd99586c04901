SPECIFICATION FairSpec
CONSTANTS
  w1 = w1
  w2 = w2
  w3 = w3
  t1 = t1
  t2 = t2
  t3 = t3
  None = None
  Workers <- ThreeWorkers
  Tasks <- TwoTasks
INVARIANTS NoLostTask NoLostWorker
PROPERTIES Refines TasksTaken ShutdownReturns
CHECK_DEADLOCK FALSE
