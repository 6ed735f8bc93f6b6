SPECIFICATION FairSpec
CONSTANTS
  Clients = {a, b}
  Funds <- MCFunds
  Cost = 2
  WalletMade = {b}
  HasOverlay = TRUE
  Indexed = FALSE
  MaxFaults = 1
  None = None
  a = a
  b = b
INVARIANTS TypeOK NoStray ParentsKept FundingBounded
PROPERTIES FundedOnReturn ServedOrStuck
CHECK_DEADLOCK FALSE
