CONSTANTS
  Contracts <- MCContracts
  Options <- AllOn
  Args = {0, 1, 2}
  Props = {0, 1}
  Pool = "stateful"
SPECIFICATION Spec
INVARIANTS Agreement FailsOnlyOnAssertion DerivedState
CHECK_DEADLOCK FALSE
