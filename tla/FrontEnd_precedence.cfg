SPECIFICATION Spec
CONSTANTS
  IntMax = 15
  Candidates <- NewNames
  Files <- Operators3
INVARIANT PrecedenceKept
\* a file that was refused, or printed and read again, is done
CHECK_DEADLOCK FALSE
