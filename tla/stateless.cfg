CONSTANTS
  Contracts <- MCContracts
  Options <- Both
  Args = {0, 1, 2}
  Props = {0, 1}
  Pool = "stateless"
SPECIFICATION Spec
INVARIANTS TypeOK Agreement CleanStack FailsOnlyOnAssertion DepthBound Compiles
           StrictAgrees
CHECK_DEADLOCK FALSE
