CONSTANTS
  Programs <- MCPrograms
  Args <- MCArgs
  WordSize = 2
  NumberBytes = 4
  Pool = "variable"
SPECIFICATION Spec
INVARIANTS ArgsRestored
CHECK_DEADLOCK FALSE
