CONSTANTS
  Contracts <- MCMiscompiledContracts
  Options <- AllOn
  Args = {0, 1, 2}
  Props = {0, 1}
  Pool = "shadowed_property"
SPECIFICATION Spec
INVARIANTS DerivedState
CHECK_DEADLOCK FALSE
