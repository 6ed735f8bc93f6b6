CONSTANTS
  Programs <- MCPrograms
  Args <- MCArgs
  WordSize = 2
  NumberBytes = 4
  Pool = "bytes"
SPECIFICATION Spec
INVARIANTS LayoutRight
CHECK_DEADLOCK FALSE
