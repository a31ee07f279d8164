CONSTANTS
  Worker = {w1, w2}
  Path <- Files
  Entry = "a"
  External <- Packages
  Missing <- Absent
  Program <- Programs
SPECIFICATION FairSpec
INVARIANTS
  TypeOK
  CountsOutstandingTasks
  ReturnSeesEverything
  OkMeansAllParsed
  EachModuleParsedOnce
  OutcomeIsDeterministic
  RefModsInSourceOrder
  CallNamesAgree
PROPERTIES
  FlagsFixedOnceQueued
  ImplementsLatch
  ModulesSettle
\* the stage ends: the pool is idle and pBeginFromEntry has returned or thrown
CHECK_DEADLOCK FALSE
