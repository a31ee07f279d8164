CONSTANT Task = {t1, t2, t3, t4}
SPECIFICATION FairSpec
INVARIANTS CounterIsOutstanding ReturnedMeansIdle LastOneNotifies
PROPERTIES ImplementsLatch WaitReturnsUnlessMissed
\* after Destroy nothing more happens
CHECK_DEADLOCK FALSE
