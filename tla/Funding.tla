------------------------------ MODULE Funding ------------------------------
(***************************************************************************)
(* How one deployment or one call of a stateful contract is paid for:      *)
(* coin selection (deployment.ts), the deployment (deployment.ts) and the  *)
(* three sizings of a call (contract.ts, calling.ts).  A call's funding is *)
(* chosen from an estimate of the unlocking script, the transaction is     *)
(* built once with a placeholder, rebuilt with a real unlocking script,    *)
(* and its unlocking script computed once more with the final change.      *)
(*                                                                         *)
(* A script is its length in bytes and a coin its value in satoshis: the   *)
(* fee is a function of the lengths.  An operation is a record             *)
(*   kind        "deploy" or "call"                                        *)
(*   lock        bytes of each continuation's (or the deployed) script     *)
(*   sats        satoshis of each of them                                  *)
(*   conts       how many there are                                        *)
(*   data        bytes the data outputs take in the transaction            *)
(*   dataSats    their satoshis                                            *)
(*   ins         contract inputs: none, or the primary and the merged ones *)
(*   inSats      their satoshis together                                   *)
(*   unlock      bytes of the placeholder unlocking script of each         *)
(*   code        bytes of the code part the method needs pushed, or 0      *)
(*   scriptCode  bytes of the script the preimage carries                  *)
(*   cap         options.maxFundingInputs, or None                         *)
(*   rate        the provider's fee rate, satoshis per 1000 bytes          *)
(***************************************************************************)
EXTENDS Integers, Sequences, FiniteSets, SetSums

CONSTANTS
  Wallets,  \* BOUND: sequences of coins, in the order the provider lists them
  Deploys,  \* BOUND: deployments
  Calls,    \* BOUND: calls
  None

Operation ==
  [ kind : {"deploy", "call"}, lock : Nat, sats : Nat, conts : Nat, data : Nat,
    dataSats : Nat, ins : Nat, inSats : Nat, unlock : Nat, code : Nat,
    scriptCode : Nat, cap : Nat \cup {None}, rate : Nat ]

ASSUME WalletsAssumption == Wallets \subseteq Seq(Nat)
ASSUME DeploysAssumption ==
  \A o \in Deploys : /\ o \in Operation /\ o.kind = "deploy"
                     /\ o.conts = 1 /\ o.data = 0 /\ o.dataSats = 0
                     /\ o.ins = 0 /\ o.inSats = 0 /\ o.cap = None
(* encodePushData of the 72-byte signature stands in every placeholder.    *)
SIG_PUSH == 73
ASSUME CallsAssumption ==
  \A o \in Calls : /\ o \in Operation /\ o.kind = "call"
                   /\ o.conts >= 1 /\ o.ins >= 1 /\ o.unlock >= SIG_PUSH
ASSUME NoneAssumption == None \notin Nat

VARIABLES
  op,       \* the operation
  phase,    \* where it stands
  coins,    \* the wallet's coins, largest first
  picked,   \* how many of them are selected
  total,    \* their value
  covered,  \* selectUtxos returned because the target was met
  input,    \* bytes of one contract input's unlocking script
  pushed,   \* the _changeAmount that script pushes
  change    \* the change output of the transaction built last; 0: none

vars == <<op, phase, coins, picked, total, covered, input, pushed, change>>

-----------------------------------------------------------------------------
(* Sizes.                                                                  *)

P2PKH_INPUT_SIZE  == 148
P2PKH_OUTPUT_SIZE == 34
TX_OVERHEAD       == 10

varIntByteSize(n) == IF n < 253 THEN 1 ELSE IF n <= 65535 THEN 3 ELSE 5
outputFraming(n)  == 8 + varIntByteSize(n) + n
perInputBytes(n)  == 32 + 4 + varIntByteSize(n) + n + 4

(* encodePushData and encodeScriptNumber; a change or an amount is a       *)
(* number of at most five bytes.                                           *)
PushSize(n) == n + (IF n <= 75 THEN 1 ELSE IF n <= 255 THEN 2 ELSE IF n <= 65535 THEN 3 ELSE 5)
NumSize(n)  == IF n <= 16 THEN 1 ELSE IF n <= 127 THEN 2 ELSE IF n <= 32767 THEN 3
               ELSE IF n <= 8388607 THEN 4 ELSE IF n <= 2147483647 THEN 5 ELSE 6

FeeFor(bytes, rate) == (bytes * rate + 999) \div 1000

estimateDeployFee(numInputs, lock, rate, extraInput, extraOutput) ==
  FeeFor(TX_OVERHEAD + numInputs * P2PKH_INPUT_SIZE + extraInput
           + outputFraming(lock) + extraOutput + P2PKH_OUTPUT_SIZE, rate)

(* What the outputs of the contract take and hold, and what they lack.     *)
OutputBytes(o) == o.conts * outputFraming(o.lock) + o.data
OutputSats(o)  == o.conts * o.sats + o.dataSats
fundingTarget(o) == IF OutputSats(o) > o.inSats THEN OutputSats(o) - o.inSats ELSE 0

(* MUTANT of perContractInputOverhead: the placeholder alone is sized.     *)
NoOverhead(o) == 0

(* The contract inputs as coin selection sizes them: the placeholder and   *)
(* an allowance that knows the new script only.                            *)
perContractInputOverhead(o) == 2 * o.lock + 512
contractInputBytes(o) == o.ins * (perInputBytes(o.unlock) + perContractInputOverhead(o))
extraOutputBytes(o)   == OutputBytes(o) - outputFraming(o.lock)

(* MUTANT of SelectionFee: the coins are free to spend.                    *)
FreeInputsFee(o, n) ==
  estimateDeployFee(0, o.lock, o.rate, contractInputBytes(o), extraOutputBytes(o))

SelectionFee(o, n) ==
  estimateDeployFee(n, o.lock, o.rate, contractInputBytes(o), extraOutputBytes(o))

(* The preimage is 156 bytes, the script code and its length prefix.  The  *)
(* real unlocking script drops the signature push of the placeholder and   *)
(* gains the code part, the change key hash and amount, the new amount and *)
(* the preimage.                                                           *)
PreimageSize(o) == 156 + varIntByteSize(o.scriptCode) + o.scriptCode
StatefulUnlock(o, amount) ==
  o.unlock - SIG_PUSH + (IF o.code = 0 THEN 0 ELSE PushSize(o.code))
    + 21 + NumSize(amount) + NumSize(o.sats) + PushSize(PreimageSize(o))

(* buildCallTransaction: the fee of a transaction with these contract      *)
(* inputs and n funding inputs, a change output counted.                   *)
CallFee(o, n, unlock) ==
  FeeFor(TX_OVERHEAD + o.ins * perInputBytes(unlock) + n * P2PKH_INPUT_SIZE
           + OutputBytes(o) + P2PKH_OUTPUT_SIZE, o.rate)

(* MUTANT of Positive: the amount is not clamped.                          *)
Unclamped(n) == n
Positive(n) == IF n > 0 THEN n ELSE 0

-----------------------------------------------------------------------------
Init ==
  /\ op = None /\ phase = "idle" /\ coins = <<>> /\ picked = 0 /\ total = 0
  /\ covered = FALSE /\ input = 0 /\ pushed = 0 /\ change = 0

(* [...utxos].sort((a, b) => b.satoshis - a.satoshis).                     *)
Orders(s) == { p \in [DOMAIN s -> DOMAIN s] : \A i, j \in DOMAIN s : p[i] = p[j] => i = j }
(* MUTANT of Descending: the provider's order.                             *)
AnyOrder(s) == TRUE
Descending(s) == \A i, j \in DOMAIN s : i < j => s[i] >= s[j]
LargestFirst(s) ==
  { t \in { [i \in 1..Len(s) |-> s[p[i]]] : p \in Orders(s) } : Descending(t) }

(* The operation has read the fee rate and the wallet.  deploy() throws    *)
(* without coins; a call goes on with its contract inputs only.            *)
Begin(o, w) ==
  /\ phase = "idle"
  /\ op' = o
  /\ coins' \in LargestFirst(w)
  /\ phase' = IF w # <<>> THEN "select" ELSE IF o.kind = "deploy" THEN "no coins" ELSE "build"
  /\ UNCHANGED <<picked, total, covered, input, pushed, change>>

(* One turn of selectUtxos' loop.                                          *)
SelectNext ==
  /\ phase = "select"
  /\ picked' = picked + 1
  /\ total' = total + coins[picked + 1]
  /\ covered' = (total' >= fundingTarget(op) + SelectionFee(op, picked'))
  /\ phase' = IF covered' \/ picked' = Len(coins) THEN "build" ELSE "select"
  /\ UNCHANGED <<op, coins, input, pushed, change>>

InputSats == op.inSats + total

(* buildDeployTransaction.                                                 *)
DeployChange(o, n, sats) == sats - o.sats - estimateDeployFee(n, o.lock, o.rate, 0, 0)
buildDeployTransaction ==
  /\ phase = "build" /\ op.kind = "deploy"
  /\ LET left == DeployChange(op, picked, total) IN
       /\ phase' = IF left < 0 THEN "underfunded" ELSE "done"
       /\ change' = Positive(left)
  /\ UNCHANGED <<op, coins, picked, total, covered, input, pushed>>

(* maxFundingInputs.                                                       *)
OverCap(o, n) == o.cap # None /\ n > o.cap
Capped ==
  /\ phase = "build" /\ op.kind = "call" /\ OverCap(op, picked)
  /\ phase' = "capped"
  /\ UNCHANGED <<op, coins, picked, total, covered, input, pushed, change>>

(* MUTANT of Short: nothing fails closed.                                  *)
NeverShort(o, sats) == FALSE

(* buildCallTransaction fails closed when the inputs do not even cover the *)
(* outputs, and drops a change output that would not be positive.          *)
Short(o, sats) == sats < OutputSats(o)
CallChange(o, n, sats, unlock) == Positive(sats - OutputSats(o) - CallFee(o, n, unlock))

(* The first transaction, around the placeholder.                          *)
Build ==
  /\ phase = "build" /\ op.kind = "call" /\ ~OverCap(op, picked)
  /\ phase' = IF Short(op, InputSats) THEN "underfunded" ELSE "rebuild"
  /\ input' = op.unlock
  /\ change' = CallChange(op, picked, InputSats, op.unlock)
  /\ UNCHANGED <<op, coins, picked, total, covered, pushed>>

(* First pass: the real unlocking script for that transaction, and the     *)
(* transaction rebuilt around it.                                          *)
Rebuild ==
  /\ phase = "rebuild"
  /\ input' = StatefulUnlock(op, change)
  /\ pushed' = change
  /\ phase' = IF Short(op, InputSats) THEN "underfunded" ELSE "finish"
  /\ change' = CallChange(op, picked, InputSats, input')
  /\ UNCHANGED <<op, coins, picked, total, covered>>

(* Second pass: the unlocking script for the rebuilt transaction.          *)
Finish ==
  /\ phase = "finish"
  /\ pushed' = change
  /\ input' = StatefulUnlock(op, change)
  /\ phase' = "done"
  /\ UNCHANGED <<op, coins, picked, total, covered, change>>

Next ==
  \/ \E o \in Deploys \cup Calls, w \in Wallets : Begin(o, w)
  \/ SelectNext
  \/ buildDeployTransaction
  \/ Capped
  \/ Build
  \/ Rebuild
  \/ Finish

Spec == Init /\ [][Next]_vars

-----------------------------------------------------------------------------
(* Properties.                                                             *)

Phases == { "idle", "select", "no coins", "build", "capped", "rebuild", "finish",
            "underfunded", "done" }

FundingTypeOK ==
  /\ op \in Deploys \cup Calls \cup {None}
  /\ phase \in Phases
  /\ coins \in Seq(Nat)
  /\ picked \in 0..Len(coins)
  /\ total \in Nat /\ input \in Nat /\ pushed \in Nat /\ change \in Nat
  /\ covered \in BOOLEAN

Paid == InputSats - OutputSats(op) - change

(* The bytes of the transaction the phase "done" hands on.                 *)
FinalSize ==
  TX_OVERHEAD + op.ins * perInputBytes(input) + picked * P2PKH_INPUT_SIZE
    + OutputBytes(op) + (IF change > 0 THEN P2PKH_OUTPUT_SIZE ELSE 0)

(* A transaction handed on never pays out more than it takes in, and the   *)
(* unlocking script of a call pushes exactly the change the transaction    *)
(* has, which the covenant hashes (no output when it pushes 0), although   *)
(* that amount was computed from the unlocking script of the pass before.  *)
Balanced ==
  phase = "done" => /\ Paid >= 0
                    /\ op.kind = "call" => pushed = change

(* When the spent script, as far as code part and preimage carry it, is no *)
(* longer than the new one, a selection that met its target pays for the   *)
(* transaction finally built: the estimate was made before the unlocking   *)
(* script, its change amount and its preimage were known.  A deployment    *)
(* always pays.                                                            *)
FeeCovered ==
  /\ phase = "done" /\ (op.kind = "call" => covered /\ op.code + op.scriptCode <= 2 * op.lock)
  => Paid >= FeeFor(FinalSize, op.rate)

Value(S) == Sum(coins, S)
Enough(S) == Value(S) >= fundingTarget(op) + SelectionFee(op, Cardinality(S))

(* selectUtxos returns the smallest set of coins that meets the target and *)
(* the fee it costs to spend them, out of all sets of coins, and meets it  *)
(* whenever some set does, also when a coin is worth less than its input.  *)
(* It takes one coin before it first asks whether that is enough, also     *)
(* where nothing has to be paid.                                           *)
MinimumSet ==
  phase \in {"build", "capped", "rebuild", "finish"} =>
    \A S \in SUBSET DOMAIN coins : S # {} /\ Enough(S) => covered /\ picked <= Cardinality(S)


(* deploy() fails for want of funds only if no set of coins pays for it.   *)
DeployFailsOnlyPoor ==
  phase = "underfunded" /\ op.kind = "deploy" =>
    \A S \in SUBSET DOMAIN coins : DeployChange(op, Cardinality(S), Value(S)) < 0
=============================================================================
