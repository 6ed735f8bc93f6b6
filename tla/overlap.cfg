SPECIFICATION Spec
CONSTANTS
  Tasks = {t1, t2}
  States = {0, 1, 2}
  InitState = 0
  Updates = {inc}
  Splits = {split}
  Closes = {close}
  Effect <- MCEffect
  Home = home
  Conns = {home, other}
  Explicit = {None}
  Reconnects = {other}
  Edits = {}
  NewStates = {None}
  DryRuns = {FALSE, TRUE}
  Apis = {"call", "prepareCall"}
  Faults = {"throw", "reject", "lost"}
  Outs = {o1, o2, o3}
  Preps = {p1, p2}
  None = None
  inc = inc
  set = set
  split = split
  close = close
  home = home
  other = other
INVARIANTS TypeOK OneShot TrackedOnChain TrackedLive
PROPERTIES TrackedForward
SYMMETRY AllSymmetric
CHECK_DEADLOCK FALSE
