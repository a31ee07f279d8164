\* The walk stops when both stacks are empty.
SPECIFICATION FairSpec
CONSTANTS
  Module <- Modules
  Entry = "a"
  Graph <- AllGraphs
INVARIANTS
  EmittedOnce
  BundleIsWhole
  TreeInPostorder
PROPERTY Terminates
CHECK_DEADLOCK FALSE
