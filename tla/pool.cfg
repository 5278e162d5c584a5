\* resize() in both directions, resize(0) included, with stops in between; the
\* properties about progress under the scheduling of the operating system.
SPECIFICATION FairSpec
CONSTANTS
  NoTask = NoTask
  Tasks = {t1, t2}
  Producers = {p1, p2}
  MaxThreads = 2
  InitThreads = 1
  ResizeTo = {0, 1, 2}
  WaitModes = {TRUE, FALSE}
INVARIANTS
  TypeOK
  NoLostWakeup
  DrainedBeforeSweep
  NIdleExact
  OnlyDetachedOutlive
PROPERTIES
  ImplementsTaskPool
  EveryTaskLeavesTheQueue
  OwnerReturns
