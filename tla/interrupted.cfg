SPECIFICATION Spec
CONSTANTS
  Tasks = {t1}
  States = {0, 1, 2}
  InitState = 0
  Updates = {inc}
  Splits = {split}
  Closes = {close}
  Effect <- MCEffect
  Home = home
  Conns = {home, other}
  Explicit = {None, other}
  Reconnects = {}
  Edits = {2}
  NewStates = {None, 2}
  DryRuns = {TRUE, FALSE}
  Apis = {"call"}
  Faults = {"throw", "reject", "lost", "anf"}
  Outs = {o1, o2, o3}
  Preps = {p1, p2}
  None = None
  inc = inc
  set = set
  split = split
  close = close
  home = home
  other = other
INVARIANTS ConnRestored OwnConnection
SYMMETRY Identities
CHECK_DEADLOCK FALSE
