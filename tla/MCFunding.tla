----------------------------- MODULE MCFunding -----------------------------
(* Wallets of up to three coins, some worth less than the input that       *)
(* spends them, and operations around the boundaries of the fee: amounts   *)
(* that push in one to four bytes, scripts on both sides of a length       *)
(* prefix, inputs that cover the outputs and inputs that do not, and a     *)
(* deployment that costs nothing.                                          *)

EXTENDS Funding

CONSTANTS Values, Locks, ScriptCodes, Caps, MaxCoins

MCWallets == UNION { [1..n -> Values] : n \in 0..MaxCoins }

MCDeploys ==
  { [ kind |-> "deploy", lock |-> lock, sats |-> sats, conts |-> 1, data |-> 0, dataSats |-> 0,
      ins |-> 0, inSats |-> 0, unlock |-> 0, code |-> 0, scriptCode |-> 0, cap |-> None,
      rate |-> rate ] : lock \in Locks, sats \in {0, 1, 500}, rate \in {0, 100, 1000} }

MCCalls ==
  { [ kind |-> "call", lock |-> lock, sats |-> sats, conts |-> conts, data |-> data,
      dataSats |-> 3 * data, ins |-> ins, inSats |-> 1000 * ins, unlock |-> SIG_PUSH + 7,
      code |-> code, scriptCode |-> scriptCode, cap |-> cap, rate |-> 1000 ] :
    lock \in Locks, sats \in {1, 700, 1000}, conts \in {1, 2}, data \in {0, 60}, ins \in {1, 2},
    code \in {0, 50}, scriptCode \in ScriptCodes, cap \in Caps }
=============================================================================
