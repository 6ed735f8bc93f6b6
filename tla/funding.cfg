SPECIFICATION Spec
CONSTANTS
  Wallets <- MCWallets
  Deploys <- MCDeploys
  Calls <- MCCalls
  Values = {120, 700, 1500}
  MaxCoins = 3
  Locks = {60, 252}
  ScriptCodes = {60, 700}
  Caps = {None, 1}
  None = None
INVARIANTS FundingTypeOK Balanced FeeCovered MinimumSet DeployFailsOnlyPoor
CHECK_DEADLOCK FALSE
