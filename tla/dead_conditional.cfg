CONSTANTS
  Contracts <- MCMiscompiledContracts
  Options <- AllOn
  Args = {0, 1, 2}
  Props = {0, 1}
  Pool = "dead_conditional"
SPECIFICATION Spec
INVARIANTS Agreement
CHECK_DEADLOCK FALSE
