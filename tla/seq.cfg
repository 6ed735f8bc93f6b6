SPECIFICATION FairSpec
CONSTANTS
  Tasks = {t1}
  States = {0, 1, 2, 3}
  InitState = 0
  Updates = {inc, set}
  Splits = {}
  Closes = {close}
  Effect <- MCEffect
  Home = home
  Conns = {home, other}
  Explicit = {None, other}
  Reconnects = {}
  Edits = {}
  NewStates = {None}
  DryRuns = {TRUE, FALSE}
  Apis = {"call"}
  Faults = {}
  Outs = {o1, o2, o3}
  Preps = {p1, p2, p3}
  None = None
  inc = inc
  set = set
  split = split
  close = close
  home = home
  other = other
INVARIANTS InStep AutoStateMatchesScript
PROPERTIES RefinesAtomic Commits
CHECK_DEADLOCK FALSE
