-------------------------- MODULE MCRunarContract --------------------------
(* Small instances of RunarContract: the state is a counter modulo its     *)
(* range, with a method that counts, one that sets the top value, a        *)
(* token-style split that halves it, and a terminal method.                *)
EXTENDS RunarContract, TLC

CONSTANTS inc, set, split, close, home, other

Modulus == Cardinality(States)
MCEffect == [ m \in Updates \cup Splits |-> [ s \in States |->
                CASE m = inc -> (s + 1) % Modulus [] m = set -> Modulus - 1
                  [] OTHER -> s \div 2 ] ]

Identities   == Permutations(Outs) \cup Permutations(Preps)
AllSymmetric == Identities \cup Permutations(Tasks)
=============================================================================
