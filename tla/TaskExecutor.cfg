SPECIFICATION FairSpec
CONSTANTS
  w1 = w1
  w2 = w2
  c1 = c1
  t1 = t1
  t2 = t2
  Workers = {w1, w2}
  Callers = {c1}
  Tasks = {t1, t2}
  WithCompletion = {t1}
  UiWaits = {t2}
  NoOne = NoOne
  UI = UI
  KillsThreads = TRUE
INVARIANTS
  TypeOK
  CompletionAtMostOnce
  ShutdownDrainsQueue
  ShutdownAnswersAll
  WaitMeansAnswered
  HonestAnswer
PROPERTIES
  ImplementsService
  EveryTaskFinishes
  UiWaitReturns
  SleeplessShutdownReturns
CHECK_DEADLOCK FALSE
