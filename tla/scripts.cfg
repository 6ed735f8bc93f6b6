CONSTANTS
  Programs <- MCPrograms
  Args <- MCArgs
  WordSize = 2
  NumberBytes = 4
  Pool = "all"
SPECIFICATION Spec
INVARIANTS StateRestored ArgsRestoredPlain RecognizedPlain FailsClosed TrimmedWhereExecuted IndicesPushed LayoutRightFramed
CHECK_DEADLOCK FALSE
