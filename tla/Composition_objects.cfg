\* DumpAllResult returns: its threads have nothing left to do.
CONSTANTS
  w1 = w1
  w2 = w2
  Worker = {w1, w2}
  Module <- Modules
  NodeName <- Names
  Plain = "x"
  NL = "nl"
  Inner = "inner"
  Origin <- Origins
  Program <- ObjectPrograms
SPECIFICATION Spec
INVARIANT MapIsExact
CHECK_DEADLOCK FALSE
