SPECIFICATION Spec
CONSTANTS
  IntMax = 15
  Candidates <- NewNames
  Files <- Programs
INVARIANTS
  TypeOK
  
  
  ContextRestored
  
  
  FoldingKeepsValue
\* a file that was refused, or printed and read again, is done
CHECK_DEADLOCK FALSE
