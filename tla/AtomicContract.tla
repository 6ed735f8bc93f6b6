--------------------------- MODULE AtomicContract ---------------------------
(***************************************************************************)
(* What RunarContract promises a caller who makes one call at a time: an   *)
(* operation happens in one step or not at all, and `state` and the tip of *)
(* the contract's UTXO chain change together.                              *)
(***************************************************************************)
CONSTANTS States, InitState, Updates, Closes, Effect, None

VARIABLES
  tip,   \* the state carried by the tracked UTXO; None: there is none
  view   \* the state the caller reads from the object

vars == <<tip, view>>

Init == tip = None /\ view = InitState

(* A deployment locks the state the object shows.                          *)
Deploy == tip' = view /\ UNCHANGED view

(* A method call advances the chain by the method's effect on the tip.     *)
Call(m) ==
  /\ tip # None
  /\ tip' = Effect[m][tip]
  /\ view' = tip'

(* A terminal call ends the chain; the object still shows the last state.  *)
Close == tip # None /\ tip' = None /\ UNCHANGED view

Next == Deploy \/ (\E m \in Updates : Call(m)) \/ (Closes # {} /\ Close)

Spec == Init /\ [][Next]_vars
=============================================================================
