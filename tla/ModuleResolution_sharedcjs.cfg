CONSTANTS
  Worker = {w1, w2}
  Path <- Files
  Entry = "a"
  External <- Packages
  Missing <- Absent
  Program <- SharedRequire
SPECIFICATION Spec
INVARIANT RequiresAreBound
\* the stage ends: the pool is idle and pBeginFromEntry has returned or thrown
CHECK_DEADLOCK FALSE
