------------------------- MODULE MCWalletProvider -------------------------
(***************************************************************************)
(* The wallet provider with two clients: one pays for its own deployment,  *)
(* the other has the wallet deploy.                                        *)
(***************************************************************************)
EXTENDS WalletProvider, TLC

CONSTANTS a, b

\* One asks for a deployment and a call at once, the other for what it needs next.
MCFunds == (a :> 4) @@ (b :> 2)

============================================================================
