--------------------------- MODULE FundingProofs ---------------------------
(* That every operation, wallet and fee rate satisfies the properties of   *)
(* Funding.  The invariant says which pass each amount comes from: at      *)
(* "done" the change was computed around the unlocking script of the pass  *)
(* before, whose change amount was at least as large.                      *)
EXTENDS Funding, RecursionProofs

FirstChange == CallChange(op, picked, InputSats, op.unlock)
FirstUnlock == StatefulUnlock(op, FirstChange)

FInv ==
  /\ FundingTypeOK
  /\ phase # "idle" => op \in Deploys \cup Calls
  /\ phase = "idle" => picked = 0 /\ covered = FALSE
  /\ phase = "select" => picked < Len(coins)
  /\ phase \in {"rebuild", "finish"} => op.kind = "call"
  /\ phase \in {"rebuild", "finish", "done"} => ~Short(op, InputSats)
  /\ covered => total >= fundingTarget(op) + SelectionFee(op, picked)
  /\ phase = "rebuild" => change = FirstChange
  /\ phase = "finish" => change = CallChange(op, picked, InputSats, FirstUnlock)
  /\ phase = "done" /\ op.kind = "call" =>
       /\ change = CallChange(op, picked, InputSats, FirstUnlock)
       /\ pushed = change
       /\ input = StatefulUnlock(op, change)
  /\ phase = "done" /\ op.kind = "deploy" =>
       /\ change = DeployChange(op, picked, total)

-----------------------------------------------------------------------------
(* Arithmetic.                                                             *)

LEMMA TimesMonotone ==
  ASSUME NEW k \in Nat, NEW a \in Nat, NEW b \in Nat, a <= b
  PROVE  k * a <= k * b /\ a * k <= b * k /\ k * a \in Nat /\ a * k \in Nat
  <1>1. k * (b - a) >= 0  OBVIOUS
  <1>2. k * (b - a) = k * b - k * a  OBVIOUS
  <1> QED BY <1>1, <1>2

LEMMA TimesNat == ASSUME NEW k \in Nat, NEW a \in Nat PROVE k * a \in Nat
  OBVIOUS

(* A larger transaction does not cost less.                                *)
LEMMA FeeMonotone ==
  ASSUME NEW a \in Nat, NEW b \in Nat, a <= b, NEW rate \in Nat
  PROVE  FeeFor(a, rate) <= FeeFor(b, rate) /\ FeeFor(a, rate) \in Nat
  <1>1. a * rate <= b * rate /\ a * rate \in Nat /\ b * rate \in Nat
    BY TimesMonotone
  <1> DEFINE x == a * rate
             y == b * rate
  <1>2. x \in Nat /\ y \in Nat /\ x <= y  BY <1>1
  <1> HIDE DEF x, y
  <1>3. (x + 999) \div 1000 <= (y + 999) \div 1000 /\ (x + 999) \div 1000 \in Nat
    BY <1>2
  <1> QED BY <1>3 DEF FeeFor, x, y

LEMMA SizeBounds ==
  ASSUME NEW n \in Nat
  PROVE  /\ varIntByteSize(n) \in 1..5 /\ NumSize(n) \in 1..6
         /\ outputFraming(n) \in Nat /\ perInputBytes(n) \in Nat
  BY DEF varIntByteSize, NumSize, outputFraming, perInputBytes

LEMMA NumSizeMonotone ==
  ASSUME NEW a \in Nat, NEW b \in Nat, a <= b
  PROVE  NumSize(a) <= NumSize(b) /\ perInputBytes(a) <= perInputBytes(b)
  BY DEF NumSize, perInputBytes, varIntByteSize

(* What is known of an operation's fields and of the sums over them.       *)
LEMMA OperationFacts ==
  ASSUME NEW o \in Deploys \cup Calls
  PROVE  /\ o \in Operation
         /\ OutputBytes(o) \in Nat /\ OutputSats(o) \in Nat
         /\ o.kind \in {"deploy", "call"}
         /\ o.lock \in Nat /\ o.sats \in Nat /\ o.conts \in Nat /\ o.data \in Nat
         /\ o.dataSats \in Nat /\ o.ins \in Nat /\ o.inSats \in Nat /\ o.unlock \in Nat
         /\ o.code \in Nat /\ o.scriptCode \in Nat /\ o.rate \in Nat
         /\ o.kind = "call" => o.unlock >= SIG_PUSH /\ o.conts >= 1
         /\ o.kind = "deploy" => /\ o.conts = 1 /\ o.data = 0 /\ o.dataSats = 0
                                 /\ o.ins = 0 /\ o.inSats = 0
  <1>1. o \in Operation
    BY DeploysAssumption, CallsAssumption
  <1>2. /\ o.lock \in Nat /\ o.sats \in Nat /\ o.conts \in Nat /\ o.data \in Nat
        /\ o.dataSats \in Nat /\ o.ins \in Nat /\ o.inSats \in Nat /\ o.unlock \in Nat
        /\ o.code \in Nat /\ o.scriptCode \in Nat /\ o.rate \in Nat
        /\ o.kind \in {"deploy", "call"}
    BY <1>1 DEF Operation
  <1>3. o.conts * outputFraming(o.lock) \in Nat /\ o.conts * o.sats \in Nat
    <2>1. outputFraming(o.lock) \in Nat
      BY <1>2 DEF outputFraming, varIntByteSize
    <2> QED BY <1>2, <2>1, TimesNat
  <1>4. /\ o.kind = "call" => o.unlock >= SIG_PUSH /\ o.conts >= 1
        /\ o.kind = "deploy" => /\ o.conts = 1 /\ o.data = 0 /\ o.dataSats = 0
                                /\ o.ins = 0 /\ o.inSats = 0
    BY DeploysAssumption, CallsAssumption
  <1> QED BY <1>1, <1>2, <1>3, <1>4 DEF OutputBytes, OutputSats

(* The real unlocking script is longer than the placeholder, longer for a  *)
(* larger change, and within the allowance if the spent script is no       *)
(* longer than the new one.                                                *)
LEMMA UnlockBounds ==
  ASSUME NEW o \in Calls, NEW a \in Nat, NEW b \in Nat, a <= b
  PROVE  /\ StatefulUnlock(o, a) \in Nat
         /\ o.unlock <= StatefulUnlock(o, a)
         /\ StatefulUnlock(o, a) <= StatefulUnlock(o, b)
         /\ o.code + o.scriptCode <= 2 * o.lock =>
              perInputBytes(StatefulUnlock(o, a))
                <= perInputBytes(o.unlock) + perContractInputOverhead(o)
  <1>1. /\ o.kind = "call" /\ o.lock \in Nat /\ o.sats \in Nat /\ o.unlock \in Nat
        /\ o.code \in Nat /\ o.scriptCode \in Nat /\ o.unlock >= SIG_PUSH
    BY OperationFacts, CallsAssumption
  <1> DEFINE pre  == PreimageSize(o)
             code == IF o.code = 0 THEN 0 ELSE PushSize(o.code)
  <1>2. pre \in Nat /\ 157 + o.scriptCode <= pre /\ pre <= 161 + o.scriptCode
    BY <1>1 DEF PreimageSize, varIntByteSize
  <1>3. PushSize(pre) \in Nat /\ pre + 1 <= PushSize(pre) /\ PushSize(pre) <= pre + 5
    <2> HIDE DEF pre
    <2> QED BY <1>2 DEF PushSize
  <1>4. code \in Nat /\ code <= o.code + 5
    BY <1>1 DEF PushSize
  <1>5. NumSize(a) \in 1..6 /\ NumSize(b) \in 1..6 /\ NumSize(a) <= NumSize(b)
        /\ NumSize(o.sats) \in 1..6
    BY <1>1, SizeBounds, NumSizeMonotone
  <1>6. \A c : StatefulUnlock(o, c)
                 = o.unlock - SIG_PUSH + code + 21 + NumSize(c) + NumSize(o.sats) + PushSize(pre)
    BY DEF StatefulUnlock
  <1> HIDE DEF pre, code
  <1>7. /\ StatefulUnlock(o, a) \in Nat /\ o.unlock <= StatefulUnlock(o, a)
        /\ StatefulUnlock(o, a) <= StatefulUnlock(o, b)
        /\ StatefulUnlock(o, a) <= o.unlock + o.code + o.scriptCode + 131
    BY <1>1, <1>2, <1>3, <1>4, <1>5, <1>6 DEF SIG_PUSH
  <1>8. ASSUME o.code + o.scriptCode <= 2 * o.lock
        PROVE  perInputBytes(StatefulUnlock(o, a))
                 <= perInputBytes(o.unlock) + perContractInputOverhead(o)
    <2> DEFINE u == StatefulUnlock(o, a)
    <2>1. u \in Nat /\ u <= o.unlock + 2 * o.lock + 131
      BY <1>1, <1>7, <1>8
    <2>2. varIntByteSize(u) \in 1..5 /\ varIntByteSize(o.unlock) \in 1..5
      BY <1>1, <2>1, SizeBounds
    <2> HIDE DEF u
    <2>3. perInputBytes(u) <= perInputBytes(o.unlock) + perContractInputOverhead(o)
      BY <1>1, <2>1, <2>2 DEF perInputBytes, perContractInputOverhead
    <2> QED BY <2>3 DEF u
  <1> QED BY <1>7, <1>8

(* What a built transaction's fee is at most and at least.                 *)
LEMMA CallFeeBounds ==
  ASSUME NEW o \in Calls, NEW n \in Nat, NEW u \in Nat, NEW v \in Nat, u <= v
  PROVE  /\ CallFee(o, n, u) \in Nat /\ CallFee(o, n, v) \in Nat /\ SelectionFee(o, n) \in Nat
         /\ CallFee(o, n, u) <= CallFee(o, n, v)
         /\ perInputBytes(v) <= perInputBytes(o.unlock) + perContractInputOverhead(o)
              => CallFee(o, n, v) <= SelectionFee(o, n)
  <1>1. o \in Deploys \cup Calls  OBVIOUS
  <1>2. /\ o.ins \in Nat /\ o.lock \in Nat /\ o.rate \in Nat /\ o.unlock \in Nat
        /\ OutputBytes(o) \in Nat
    BY <1>1, OperationFacts
  <1>3. perInputBytes(u) \in Nat /\ perInputBytes(v) \in Nat /\ perInputBytes(u) <= perInputBytes(v)
        /\ perInputBytes(o.unlock) \in Nat /\ outputFraming(o.lock) \in Nat
    BY <1>2, SizeBounds, NumSizeMonotone
  <1> DEFINE iu == o.ins * perInputBytes(u)
             iv == o.ins * perInputBytes(v)
             ie == o.ins * (perInputBytes(o.unlock) + perContractInputOverhead(o))
  <1>4. iu \in Nat /\ iv \in Nat /\ iu <= iv
    BY <1>2, <1>3, TimesMonotone
  <1>5. perInputBytes(o.unlock) + perContractInputOverhead(o) \in Nat
    BY <1>2, <1>3 DEF perContractInputOverhead
  <1>6. ie \in Nat
    BY <1>2, <1>5, TimesMonotone
  <1>7. perInputBytes(v) <= perInputBytes(o.unlock) + perContractInputOverhead(o) => iv <= ie
    BY <1>2, <1>3, <1>5, TimesMonotone
  <1>8. n * P2PKH_INPUT_SIZE \in Nat  BY DEF P2PKH_INPUT_SIZE
  <1> DEFINE size(i) == TX_OVERHEAD + i + n * P2PKH_INPUT_SIZE + OutputBytes(o) + P2PKH_OUTPUT_SIZE
  <1>9. CallFee(o, n, u) = FeeFor(size(iu), o.rate) /\ CallFee(o, n, v) = FeeFor(size(iv), o.rate)
    BY DEF CallFee
  <1>10. SelectionFee(o, n) = FeeFor(size(ie), o.rate)
    <2>1. TX_OVERHEAD + n * P2PKH_INPUT_SIZE + ie + outputFraming(o.lock)
            + (OutputBytes(o) - outputFraming(o.lock)) + P2PKH_OUTPUT_SIZE = size(ie)
      BY <1>2, <1>3, <1>6, <1>8 DEF TX_OVERHEAD, P2PKH_OUTPUT_SIZE
    <2> QED BY <2>1 DEF SelectionFee, estimateDeployFee, contractInputBytes, extraOutputBytes
  <1> HIDE DEF iu, iv, ie
  <1>11. size(iu) \in Nat /\ size(iv) \in Nat /\ size(ie) \in Nat /\ size(iu) <= size(iv)
         /\ (iv <= ie => size(iv) <= size(ie))
    BY <1>2, <1>4, <1>6, <1>8 DEF TX_OVERHEAD, P2PKH_OUTPUT_SIZE
  <1> HIDE DEF size
  <1>12. FeeFor(size(iu), o.rate) \in Nat /\ FeeFor(size(iu), o.rate) <= FeeFor(size(iv), o.rate)
    BY <1>2, <1>11, FeeMonotone
  <1>13. FeeFor(size(iv), o.rate) \in Nat
    <2>1. size(iv) <= size(iv)  BY <1>11
    <2> QED BY <1>2, <1>11, <2>1, FeeMonotone
  <1>14. iv <= ie => FeeFor(size(iv), o.rate) <= FeeFor(size(ie), o.rate)
    BY <1>2, <1>11, FeeMonotone
  <1>15. FeeFor(size(ie), o.rate) \in Nat
    <2>1. size(ie) <= size(ie)  BY <1>11
    <2> QED BY <1>2, <1>11, <2>1, FeeMonotone
  <1> QED BY <1>7, <1>9, <1>10, <1>12, <1>13, <1>14, <1>15

-----------------------------------------------------------------------------
(* The invariant.                                                          *)

LEMMA InitInv == Init => FInv
  <1> SUFFICES ASSUME Init PROVE FInv  OBVIOUS
  <1>1. coins \in Seq(Nat) /\ Len(coins) = 0 /\ picked = 0  BY DEF Init
  <1>2. picked \in 0..Len(coins)  BY <1>1
  <1>3. FundingTypeOK
    BY <1>1, <1>2 DEF Init, FundingTypeOK, Phases
  <1>4. phase = "idle" /\ covered = FALSE  BY DEF Init
  <1> QED BY <1>1, <1>3, <1>4 DEF FInv

(* The steps of a call carry its change from one pass to the next.         *)
LEMMA ChangeTyped ==
  ASSUME NEW o \in Calls, NEW n \in Nat, NEW sats \in Nat, NEW u \in Nat
  PROVE  CallChange(o, n, sats, u) \in Nat
  <1>1. o \in Deploys \cup Calls  OBVIOUS
  <1>2. OutputSats(o) \in Nat  BY <1>1, OperationFacts
  <1>3. u <= u  OBVIOUS
  <1>4. CallFee(o, n, u) \in Nat  BY <1>3, CallFeeBounds
  <1> QED BY <1>2, <1>4 DEF CallChange, Positive

LEMMA BeginStep ==
  ASSUME FInv, NEW o \in Deploys \cup Calls, NEW w \in Wallets, Begin(o, w)
  PROVE  FInv'
  <1>1. w \in Seq(Nat)  BY WalletsAssumption
  <1>2. PICK p \in Orders(w) : coins' = [i \in 1..Len(w) |-> w[p[i]]]
    BY DEF Begin, LargestFirst
  <1>3. \A i \in 1..Len(w) : w[p[i]] \in Nat
    BY <1>1 DEF Orders
  <1>4. coins' \in Seq(Nat) /\ Len(coins') = Len(w) /\ Len(w) \in Nat
    BY <1>1, <1>2, <1>3
  <1>5. o.kind \in {"deploy", "call"}  BY OperationFacts
  <1>6. w # <<>> => Len(w) > 0  BY <1>1
  <1>7. picked = 0 /\ covered = FALSE  BY DEF Begin, FInv
  <1>8. phase' \in {"select", "no coins", "build"} /\ (phase' = "select" => w # <<>>)
    BY DEF Begin
  <1>9. FundingTypeOK' /\ picked' = 0
    <2>1. picked' = 0  BY <1>7 DEF Begin
    <2>2. picked' \in 0..Len(coins')  BY <1>4, <2>1
    <2>3. phase' \in Phases  BY <1>8 DEF Phases
    <2>4. covered' \in BOOLEAN  BY DEF Begin, FInv, FundingTypeOK
    <2> QED BY <1>4, <2>1, <2>2, <2>3, <2>4 DEF Begin, FInv, FundingTypeOK
  <1> QED BY <1>4, <1>5, <1>6, <1>7, <1>8, <1>9 DEF Begin, FInv, FundingTypeOK

LEMMA SelectStep == ASSUME FInv, SelectNext PROVE FInv'
  <1>1. /\ op \in Deploys \cup Calls /\ picked < Len(coins) /\ coins \in Seq(Nat)
        /\ picked \in 0..Len(coins) /\ total \in Nat /\ Len(coins) \in Nat
    BY DEF SelectNext, FInv, FundingTypeOK
  <1>2. picked' = picked + 1 /\ picked' \in 0..Len(coins) /\ total' \in Nat
    BY <1>1 DEF SelectNext
  <1> DEFINE met == total' >= fundingTarget(op) + SelectionFee(op, picked')
  <1>3. covered' = met /\ phase' = IF covered' \/ picked' = Len(coins) THEN "build" ELSE "select"
    BY DEF SelectNext
  <1>4. met \in BOOLEAN  OBVIOUS
  <1>5. covered' \in BOOLEAN /\ (covered' => met)
    <2> HIDE DEF met
    <2> QED BY <1>3, <1>4, Zenon
  <1>6. phase' \in {"build", "select"} /\ (phase' = "select" => picked' < Len(coins))
    <2>1. CASE phase' = "build"  BY <2>1
    <2>2. CASE phase' = "select" /\ picked' # Len(coins)
      BY <1>1, <1>2, <2>2
    <2> QED BY <1>3, <2>1, <2>2
  <1>7. op' = op /\ coins' = coins /\ UNCHANGED <<input, pushed, change>>
    BY DEF SelectNext
  <1>8. covered' => total' >= fundingTarget(op') + SelectionFee(op', picked')
    BY <1>5, <1>7
  <1>9. FundingTypeOK'
    BY <1>2, <1>5, <1>6, <1>7 DEF FInv, FundingTypeOK, Phases
  <1> QED BY <1>1, <1>6, <1>7, <1>8, <1>9 DEF FInv

(* The steps that leave the selection as it is.                            *)
LEMMA SelectionKept ==
  ASSUME FInv, UNCHANGED <<op, coins, picked, total, covered>>
  PROVE  /\ FirstChange' = FirstChange /\ FirstUnlock' = FirstUnlock
         /\ InputSats' = InputSats /\ FirstChange = CallChange(op, picked, InputSats, op.unlock)
         /\ covered' => total' >= fundingTarget(op') + SelectionFee(op', picked')
  <1>1. InputSats' = InputSats  BY DEF InputSats
  <1>2. FirstChange' = FirstChange  BY <1>1 DEF FirstChange
  <1>3. FirstUnlock' = FirstUnlock  BY <1>2 DEF FirstUnlock
  <1> QED BY <1>1, <1>2, <1>3 DEF FInv, FirstChange

LEMMA DeployStep == ASSUME FInv, buildDeployTransaction PROVE FInv'
  <1>1. /\ op \in Deploys \cup Calls /\ op.kind = "deploy" /\ picked \in Nat /\ total \in Nat
    BY DEF buildDeployTransaction, FInv, FundingTypeOK
  <1>2. /\ op.sats \in Nat /\ op.lock \in Nat /\ op.rate \in Nat /\ op.inSats = 0
        /\ OutputSats(op) = op.sats
    BY <1>1, OperationFacts DEF OutputSats
  <1> DEFINE left == DeployChange(op, picked, total)
             bytes == TX_OVERHEAD + picked * P2PKH_INPUT_SIZE + 0 + outputFraming(op.lock) + 0
                        + P2PKH_OUTPUT_SIZE
  <1>3. bytes \in Nat
    BY <1>1, <1>2 DEF TX_OVERHEAD, P2PKH_INPUT_SIZE, P2PKH_OUTPUT_SIZE, outputFraming,
                      varIntByteSize
  <1> HIDE DEF bytes
  <1>4. estimateDeployFee(picked, op.lock, op.rate, 0, 0) = FeeFor(bytes, op.rate)
    BY DEF estimateDeployFee, bytes
  <1>5. bytes <= bytes  BY <1>3
  <1>6. FeeFor(bytes, op.rate) \in Nat
    BY <1>2, <1>3, <1>5, FeeMonotone
  <1>7. left \in Int /\ (left >= 0 => total >= op.sats)
    BY <1>1, <1>2, <1>4, <1>6 DEF DeployChange
  <1>8. /\ phase' = IF left < 0 THEN "underfunded" ELSE "done"
        /\ change' = Positive(left)
        /\ UNCHANGED <<op, coins, picked, total, covered, input, pushed>>
    BY DEF buildDeployTransaction
  <1> HIDE DEF left
  <1>9. change' \in Nat /\ (phase' = "done" => change' = left /\ left >= 0)
    BY <1>7, <1>8 DEF Positive
  <1>10. phase' = "done" => ~Short(op, InputSats)'
    BY <1>1, <1>2, <1>7, <1>8, <1>9 DEF Short, InputSats
  <1>11. FundingTypeOK'  BY <1>8, <1>9 DEF FInv, FundingTypeOK, Phases
  <1>12. phase' = "done" => change' = DeployChange(op', picked', total')
    BY <1>8, <1>9 DEF left
  <1>13. covered' => total' >= fundingTarget(op') + SelectionFee(op', picked')
    BY <1>8, SelectionKept
  <1> QED BY <1>1, <1>8, <1>10, <1>11, <1>12, <1>13 DEF FInv

LEMMA CappedStep == ASSUME FInv, Capped PROVE FInv'
  <1>1. phase' = "capped" /\ UNCHANGED <<op, coins, picked, total, covered, input, pushed, change>>
    BY DEF Capped
  <1>2. covered' => total' >= fundingTarget(op') + SelectionFee(op', picked')
    BY <1>1, SelectionKept
  <1>3. op \in Deploys \cup Calls  BY DEF Capped, FInv
  <1> QED BY <1>1, <1>2, <1>3 DEF FInv, FundingTypeOK, Phases

(* What every pass of a call starts from.                                  *)
LEMMA CallFacts ==
  ASSUME FInv, op.kind = "call", phase # "idle"
  PROVE  /\ op \in Calls /\ picked \in Nat /\ total \in Nat /\ InputSats \in Nat
         /\ FirstChange \in Nat /\ FirstUnlock \in Nat
         /\ CallChange(op, picked, InputSats, FirstUnlock) \in Nat
  <1>1. op \in Deploys \cup Calls /\ picked \in Nat /\ total \in Nat
    BY DEF FInv, FundingTypeOK
  <1>2. op \in Calls  BY <1>1, DeploysAssumption
  <1>3. op.inSats \in Nat /\ op.unlock \in Nat  BY <1>1, OperationFacts
  <1>4. InputSats \in Nat  BY <1>1, <1>3 DEF InputSats
  <1>5. FirstChange \in Nat  BY <1>1, <1>2, <1>3, <1>4, ChangeTyped DEF FirstChange
  <1>6. FirstChange <= FirstChange  BY <1>5
  <1>7. FirstUnlock \in Nat  BY <1>2, <1>5, <1>6, UnlockBounds DEF FirstUnlock
  <1> QED BY <1>1, <1>2, <1>4, <1>5, <1>7, ChangeTyped

LEMMA BuildStep == ASSUME FInv, Build PROVE FInv'
  <1>1. /\ op.kind = "call" /\ phase = "build"
        /\ phase' = IF Short(op, InputSats) THEN "underfunded" ELSE "rebuild"
        /\ input' = op.unlock /\ change' = FirstChange
        /\ UNCHANGED <<op, coins, picked, total, covered, pushed>>
    BY DEF Build, FirstChange
  <1>2. op \in Calls /\ FirstChange \in Nat  BY <1>1, CallFacts
  <1>3. input' \in Nat  BY <1>1, <1>2, OperationFacts
  <1>4. /\ covered' => total' >= fundingTarget(op') + SelectionFee(op', picked')
        /\ FirstChange' = FirstChange /\ InputSats' = InputSats
    BY <1>1, SelectionKept
  <1>5. FundingTypeOK'  BY <1>1, <1>2, <1>3 DEF FInv, FundingTypeOK, Phases
  <1>6. phase' = "rebuild" => ~Short(op', InputSats') /\ change' = FirstChange'
    BY <1>1, <1>4
  <1>7. phase' \in {"underfunded", "rebuild"}  BY <1>1
  <1> QED BY <1>1, <1>2, <1>4, <1>5, <1>6, <1>7 DEF FInv

LEMMA RebuildStep == ASSUME FInv, Rebuild PROVE FInv'
  <1>1. /\ op.kind = "call" /\ phase = "rebuild" /\ change = FirstChange /\ ~Short(op, InputSats)
        /\ input' = FirstUnlock /\ pushed' = change
        /\ phase' = "finish"
        /\ change' = CallChange(op, picked, InputSats, FirstUnlock)
        /\ UNCHANGED <<op, coins, picked, total, covered>>
    BY DEF Rebuild, FInv, FirstUnlock
  <1>2. /\ op \in Calls /\ FirstChange \in Nat /\ FirstUnlock \in Nat
        /\ CallChange(op, picked, InputSats, FirstUnlock) \in Nat
    BY <1>1, CallFacts
  <1>3. /\ covered' => total' >= fundingTarget(op') + SelectionFee(op', picked')
        /\ FirstUnlock' = FirstUnlock /\ InputSats' = InputSats
    BY <1>1, SelectionKept
  <1>4. FundingTypeOK'  BY <1>1, <1>2 DEF FInv, FundingTypeOK, Phases
  <1>5. ~Short(op', InputSats') /\ change' = CallChange(op', picked', InputSats', FirstUnlock')
    BY <1>1, <1>3
  <1> QED BY <1>1, <1>2, <1>3, <1>4, <1>5 DEF FInv

LEMMA FinishStep == ASSUME FInv, Finish PROVE FInv'
  <1>1. /\ op.kind = "call" /\ phase = "finish" /\ ~Short(op, InputSats)
        /\ change = CallChange(op, picked, InputSats, FirstUnlock)
        /\ input' = StatefulUnlock(op, change) /\ pushed' = change /\ phase' = "done"
        /\ UNCHANGED <<op, coins, picked, total, covered, change>>
    BY DEF Finish, FInv
  <1>2. op \in Calls /\ change \in Nat
    BY <1>1, CallFacts
  <1>3. change <= change  BY <1>2
  <1>4. input' \in Nat  BY <1>1, <1>2, <1>3, UnlockBounds
  <1>5. /\ covered' => total' >= fundingTarget(op') + SelectionFee(op', picked')
        /\ FirstUnlock' = FirstUnlock /\ InputSats' = InputSats
    BY <1>1, SelectionKept
  <1>6. FundingTypeOK'  BY <1>1, <1>2, <1>4 DEF FInv, FundingTypeOK, Phases
  <1>7. /\ ~Short(op', InputSats') /\ change' = CallChange(op', picked', InputSats', FirstUnlock')
        /\ input' = StatefulUnlock(op', change')
    BY <1>1, <1>5
  <1> QED BY <1>1, <1>2, <1>5, <1>6, <1>7 DEF FInv

LEMMA StutterStep == ASSUME FInv, UNCHANGED vars PROVE FInv'
  BY DEF FInv, FundingTypeOK, vars, InputSats, FirstChange, FirstUnlock, Phases

LEMMA NextInv == FInv /\ [Next]_vars => FInv'
  <1> SUFFICES ASSUME FInv, [Next]_vars PROVE FInv'  OBVIOUS
  <1>1. CASE \E o \in Deploys \cup Calls, w \in Wallets : Begin(o, w)
    BY <1>1, BeginStep
  <1>2. CASE SelectNext  BY <1>2, SelectStep
  <1>3. CASE buildDeployTransaction  BY <1>3, DeployStep
  <1>4. CASE Capped  BY <1>4, CappedStep
  <1>5. CASE Build  BY <1>5, BuildStep
  <1>6. CASE Rebuild  BY <1>6, RebuildStep
  <1>7. CASE Finish  BY <1>7, FinishStep
  <1>8. CASE UNCHANGED vars  BY <1>8, StutterStep
  <1> QED BY <1>1, <1>2, <1>3, <1>4, <1>5, <1>6, <1>7, <1>8 DEF Next

LEMMA Inductive == Spec => []FInv
  BY InitInv, NextInv, PTL DEF Spec


(* Values stay amounts, in every deployment and call (deployment.ts,       *)
(* calling.ts).                                                            *)
THEOREM FundingTypeCorrect == Spec => []FundingTypeOK
  <1>1. FInv => FundingTypeOK  BY DEF FInv
  <1> QED BY <1>1, Inductive, PTL

-----------------------------------------------------------------------------
(* What the invariant says of a finished operation.                        *)

LEMMA DeployDone ==
  ASSUME FInv, phase = "done", op.kind = "deploy"
  PROVE  Paid >= FeeFor(FinalSize, op.rate) /\ FeeFor(FinalSize, op.rate) \in Nat
  <1>1. /\ op \in Deploys \cup Calls /\ picked \in Nat /\ total \in Nat /\ change \in Nat
        /\ change = DeployChange(op, picked, total)
    BY DEF FInv, FundingTypeOK
  <1>2. /\ op.sats \in Nat /\ op.lock \in Nat /\ op.rate \in Nat /\ op.inSats = 0 /\ op.ins = 0
        /\ OutputSats(op) = op.sats /\ OutputBytes(op) = outputFraming(op.lock)
        /\ outputFraming(op.lock) \in Nat
    BY <1>1, OperationFacts, SizeBounds DEF OutputSats, OutputBytes
  <1>3. input \in Nat  BY DEF FInv, FundingTypeOK
  <1>4. op.ins * perInputBytes(input) = 0
    <2>1. perInputBytes(input) \in Nat  BY <1>3, SizeBounds
    <2> QED BY <1>2, <2>1
  <1> DEFINE bytes == TX_OVERHEAD + picked * P2PKH_INPUT_SIZE + 0 + outputFraming(op.lock) + 0
                        + P2PKH_OUTPUT_SIZE
  <1>5. bytes \in Nat /\ FinalSize \in Nat /\ FinalSize <= bytes
    BY <1>1, <1>2, <1>4 DEF FinalSize, TX_OVERHEAD, P2PKH_INPUT_SIZE, P2PKH_OUTPUT_SIZE
  <1> HIDE DEF bytes
  <1>6. DeployChange(op, picked, total) = total - op.sats - FeeFor(bytes, op.rate)
    BY DEF DeployChange, estimateDeployFee, bytes
  <1>7. /\ FeeFor(FinalSize, op.rate) <= FeeFor(bytes, op.rate)
        /\ FeeFor(FinalSize, op.rate) \in Nat
    BY <1>2, <1>5, FeeMonotone
  <1>8. bytes <= bytes  BY <1>5
  <1>9. FeeFor(bytes, op.rate) \in Nat
    BY <1>2, <1>5, <1>8, FeeMonotone
  <1>10. InputSats = total  BY <1>1, <1>2 DEF InputSats
  <1>11. Paid = FeeFor(bytes, op.rate)
    BY <1>1, <1>2, <1>6, <1>9, <1>10 DEF Paid
  <1> QED BY <1>7, <1>9, <1>11

LEMMA CallDone ==
  ASSUME FInv, phase = "done", op.kind = "call"
  PROVE  /\ op \in Calls /\ picked \in Nat /\ total \in Nat /\ InputSats \in Nat
         /\ OutputSats(op) \in Nat /\ OutputSats(op) <= InputSats
         /\ FirstUnlock \in Nat /\ CallFee(op, picked, FirstUnlock) \in Nat
         /\ change = Positive(InputSats - OutputSats(op) - CallFee(op, picked, FirstUnlock))
         /\ change \in Nat /\ pushed = change /\ input = StatefulUnlock(op, change)
         /\ change <= FirstChange /\ FirstChange \in Nat
  <1>1. /\ op \in Calls /\ picked \in Nat /\ total \in Nat /\ InputSats \in Nat
        /\ FirstUnlock \in Nat /\ FirstChange \in Nat
    BY CallFacts
  <1>2. OutputSats(op) \in Nat /\ op.unlock \in Nat  BY <1>1, OperationFacts
  <1>3. /\ ~Short(op, InputSats) /\ change = CallChange(op, picked, InputSats, FirstUnlock)
        /\ pushed = change /\ input = StatefulUnlock(op, change) /\ change \in Nat
    BY DEF FInv, FundingTypeOK
  <1>4. OutputSats(op) <= InputSats  BY <1>1, <1>2, <1>3 DEF Short
  <1>5. FirstChange <= FirstChange  BY <1>1
  <1>6. op.unlock <= FirstUnlock  BY <1>1, <1>5, UnlockBounds DEF FirstUnlock
  <1>7. /\ CallFee(op, picked, op.unlock) \in Nat /\ CallFee(op, picked, FirstUnlock) \in Nat
        /\ CallFee(op, picked, op.unlock) <= CallFee(op, picked, FirstUnlock)
    BY <1>1, <1>2, <1>6, CallFeeBounds
  <1>8. change <= FirstChange
    BY <1>1, <1>2, <1>3, <1>7 DEF FirstChange, CallChange, Positive
  <1> QED BY <1>1, <1>2, <1>3, <1>4, <1>7, <1>8 DEF CallChange

(* No transaction pays out more than it takes in, and a call's unlocking   *)
(* script pushes the change its transaction has (calling.ts:102,           *)
(* contract.ts:1514).                                                      *)
THEOREM BalancedCorrect == Spec => []Balanced
  <1>1. FInv => Balanced
    <2> SUFFICES ASSUME FInv, phase = "done" PROVE Paid >= 0 /\ (op.kind = "call" => pushed = change)
      BY DEF Balanced
    <2>1. CASE op.kind = "call"
      <3>1. Paid >= 0
        BY <2>1, CallDone DEF Paid, Positive
      <3> QED BY <2>1, <3>1, CallDone
    <2>2. CASE op.kind = "deploy"
      <3>1. Paid \in Int
        BY <2>2, OperationFacts DEF Paid, InputSats, FInv, FundingTypeOK
      <3> QED BY <2>2, <3>1, DeployDone
    <2> QED BY <2>1, <2>2, OperationFacts DEF FInv
  <1> QED BY <1>1, Inductive, PTL

(* When the spent script is no longer than the new one, the coins selected *)
(* before the unlocking script existed pay for the transaction built with  *)
(* it (contract.ts:1355-1383, deployment.ts:129).                          *)
THEOREM FeeCoveredCorrect == Spec => []FeeCovered
  <1>1. ASSUME FInv, phase = "done", op.kind = "call", covered,
               op.code + op.scriptCode <= 2 * op.lock
        PROVE  Paid >= FeeFor(FinalSize, op.rate)
    <2>1. /\ op \in Calls /\ picked \in Nat /\ total \in Nat /\ InputSats \in Nat
          /\ OutputSats(op) \in Nat /\ OutputSats(op) <= InputSats
          /\ FirstUnlock \in Nat /\ CallFee(op, picked, FirstUnlock) \in Nat
          /\ change = Positive(InputSats - OutputSats(op) - CallFee(op, picked, FirstUnlock))
          /\ change \in Nat /\ input = StatefulUnlock(op, change)
          /\ change <= FirstChange /\ FirstChange \in Nat
      BY <1>1, CallDone
    <2>2. /\ op.ins \in Nat /\ op.inSats \in Nat /\ op.rate \in Nat /\ op.unlock \in Nat
          /\ OutputBytes(op) \in Nat
      BY <2>1, OperationFacts
    <2>3. input \in Nat /\ input <= FirstUnlock
      BY <2>1, UnlockBounds DEF FirstUnlock
    <2>4. CallFee(op, picked, FirstUnlock) <= SelectionFee(op, picked)
      <3>1. FirstChange <= FirstChange  BY <2>1
      <3>2. perInputBytes(FirstUnlock) <= perInputBytes(op.unlock) + perContractInputOverhead(op)
        BY <1>1, <2>1, <3>1, UnlockBounds DEF FirstUnlock
      <3>3. FirstUnlock <= FirstUnlock  BY <2>1
      <3> QED BY <2>1, <3>2, <3>3, CallFeeBounds
    <2>5. total >= fundingTarget(op) + SelectionFee(op, picked)
      BY <1>1 DEF FInv
    <2>6. CallFee(op, picked, FirstUnlock) <= Paid
      <3>1. SelectionFee(op, picked) \in Nat
        <4>1. FirstUnlock <= FirstUnlock  BY <2>1
        <4> QED BY <2>1, <4>1, CallFeeBounds
      <3>2. fundingTarget(op) >= OutputSats(op) - op.inSats /\ fundingTarget(op) \in Nat
        BY <2>1, <2>2 DEF fundingTarget
      <3>3. InputSats - OutputSats(op) >= CallFee(op, picked, FirstUnlock)
        BY <2>1, <2>2, <2>4, <2>5, <3>1, <3>2 DEF InputSats
      <3> QED BY <2>1, <3>3 DEF Paid, Positive
    <2>7. /\ FeeFor(FinalSize, op.rate) <= CallFee(op, picked, FirstUnlock)
          /\ FeeFor(FinalSize, op.rate) \in Nat
      <3> DEFINE u == op.ins * perInputBytes(input)
                 v == op.ins * perInputBytes(FirstUnlock)
                 size == TX_OVERHEAD + v + picked * P2PKH_INPUT_SIZE + OutputBytes(op)
                           + P2PKH_OUTPUT_SIZE
      <3>1. /\ perInputBytes(input) \in Nat /\ perInputBytes(FirstUnlock) \in Nat
            /\ perInputBytes(input) <= perInputBytes(FirstUnlock)
        BY <2>1, <2>3, SizeBounds, NumSizeMonotone
      <3>2. u \in Nat /\ v \in Nat /\ u <= v
        BY <2>2, <3>1, TimesMonotone, TimesNat
      <3>3. CallFee(op, picked, FirstUnlock) = FeeFor(size, op.rate)
        BY DEF CallFee
      <3>4. FinalSize = TX_OVERHEAD + u + picked * P2PKH_INPUT_SIZE + OutputBytes(op)
                          + (IF change > 0 THEN P2PKH_OUTPUT_SIZE ELSE 0)
        BY DEF FinalSize
      <3> HIDE DEF u, v
      <3>5. FinalSize \in Nat /\ size \in Nat /\ FinalSize <= size
        BY <2>1, <2>2, <3>2, <3>4 DEF TX_OVERHEAD, P2PKH_INPUT_SIZE, P2PKH_OUTPUT_SIZE
      <3> HIDE DEF size
      <3>6. /\ FeeFor(FinalSize, op.rate) <= FeeFor(size, op.rate)
            /\ FeeFor(FinalSize, op.rate) \in Nat
        BY <2>2, <3>5, FeeMonotone
      <3> QED BY <3>3, <3>6
    <2>8. Paid \in Int
      BY <2>1 DEF Paid
    <2> QED BY <2>1, <2>6, <2>7, <2>8
  <1>2. FInv => FeeCovered
    <2> SUFFICES ASSUME FInv, phase = "done",
                        op.kind = "call" => covered /\ op.code + op.scriptCode <= 2 * op.lock
                 PROVE  Paid >= FeeFor(FinalSize, op.rate)
      BY DEF FeeCovered
    <2>1. op.kind \in {"deploy", "call"}  BY OperationFacts DEF FInv
    <2> QED BY <1>1, <2>1, DeployDone
  <1> QED BY <1>2, Inductive, PTL

-----------------------------------------------------------------------------
(***************************************************************************)
(* That coin selection is the best there is, for every operation, wallet   *)
(* and fee rate: no set of coins does with fewer coins than selectUtxos    *)
(* takes, and a deployment fails only if no set of coins pays for it.  The *)
(* n largest coins are worth as much as any n, and selectUtxos has tried   *)
(* the 1, 2, 3, ... largest in turn.                                       *)
(***************************************************************************)

Met(o, n) == Sum(coins, 1..n) >= fundingTarget(o) + SelectionFee(o, n)

MInv ==
  /\ FInv
  /\ phase # "idle" => Descending(coins)
  /\ total = Sum(coins, 1..picked)
  /\ phase = "select" => ~covered
  /\ \A n \in 1..picked : n < picked \/ ~covered => ~Met(op, n)
  /\ phase \notin {"idle", "select"} => covered \/ picked = Len(coins)
  /\ phase \notin {"idle", "no coins"} /\ op.kind = "deploy" => Len(coins) > 0
  /\ phase = "underfunded" /\ op.kind = "deploy" => DeployChange(op, picked, total) < 0

-----------------------------------------------------------------------------
(* The largest coins.                                                      *)

(* Any n + 1 of them include one that is not among the n largest.          *)
LEMMA BeyondTheFirst ==
  ASSUME NEW n \in Nat, NEW S \in SUBSET (Nat \ {0}), IsFiniteSet(S), Cardinality(S) = n + 1
  PROVE  \E x \in S : x >= n + 1
  <1>1. SUFFICES ASSUME \A x \in S : ~(x >= n + 1) PROVE FALSE
    OBVIOUS
  <1>2. S \subseteq 1..n  BY <1>1
  <1>3. IsFiniteSet(1..n) /\ Cardinality(1..n) = n  BY FS_Interval
  <1>4. Cardinality(S) <= Cardinality(1..n)  BY <1>2, <1>3, FS_Subset
  <1> QED BY <1>3, <1>4

LEMMA FirstOnes ==
  ASSUME NEW n \in Nat
  PROVE  /\ IsFiniteSet(1..n) /\ Cardinality(1..n) = n
         /\ n + 1 \notin 1..n /\ 1..(n + 1) = (1..n) \cup {n + 1}
  <1>1. IsFiniteSet(1..n) /\ Cardinality(1..n) = n  BY FS_Interval
  <1> QED BY <1>1

LEMMA LargestAreBest ==
  ASSUME NEW s \in Seq(Nat), Descending(s)
  PROVE  \A S \in SUBSET DOMAIN s :
           /\ IsFiniteSet(S) /\ Cardinality(S) \in 0..Len(s)
           /\ Sum(s, S) \in Nat /\ Sum(s, 1..Cardinality(S)) \in Nat
           /\ Sum(s, S) <= Sum(s, 1..Cardinality(S))
  <1>1. DOMAIN s = 1..Len(s) /\ Len(s) \in Nat /\ \A i \in 1..Len(s) : s[i] \in Nat
    OBVIOUS
  <1>2. \A S \in SUBSET DOMAIN s : IsFiniteSet(S) /\ Cardinality(S) \in 0..Len(s)
    <2>1. IsFiniteSet(1..Len(s)) /\ Cardinality(1..Len(s)) = Len(s)  BY <1>1, FirstOnes
    <2> QED BY <1>1, <2>1, FS_Subset, FS_CardinalityType
  <1>3. \A S \in SUBSET DOMAIN s : Sum(s, S) \in Nat
    BY <1>1, <1>2, SumNat
  <1>4. \A n \in 0..Len(s) : 1..n \in SUBSET DOMAIN s
    BY <1>1
  <1> DEFINE N == { n \in Nat : \A S \in SUBSET DOMAIN s :
                                  Cardinality(S) = n => Sum(s, S) <= Sum(s, 1..n) }
  <1>5. 0 \in N
    <2>1. SUFFICES ASSUME NEW S \in SUBSET DOMAIN s, Cardinality(S) = 0
                   PROVE  Sum(s, S) <= Sum(s, 1..0)
      OBVIOUS
    <2>2. S = {} /\ 1..0 = {}  BY <1>2, <2>1, FS_EmptySet
    <2>3. Sum(s, {}) = 0  BY SumEmpty
    <2> QED BY <2>2, <2>3
  <1>6. ASSUME NEW n \in N PROVE n + 1 \in N
    <2>1. n \in Nat /\ n + 1 \in Nat  OBVIOUS
    <2>2. SUFFICES ASSUME NEW S \in SUBSET DOMAIN s, Cardinality(S) = n + 1
                   PROVE  Sum(s, S) <= Sum(s, 1..(n + 1))
      BY <2>1
    <2>3. IsFiniteSet(S) /\ n + 1 \in 1..Len(s)
      BY <1>1, <1>2, <2>1, <2>2
    <2>4. PICK x \in S : x >= n + 1
      <3>1. S \in SUBSET (Nat \ {0})  BY <1>1
      <3> QED BY <2>1, <2>2, <2>3, <3>1, BeyondTheFirst
    <2>5. s[x] \in Nat /\ s[n + 1] \in Nat /\ s[x] <= s[n + 1]
      <3>1. x \in 1..Len(s) /\ (x = n + 1 \/ n + 1 < x)  BY <1>1, <2>1, <2>4
      <3> QED BY <1>1, <2>3, <3>1 DEF Descending
    <2>6. Sum(s, S) = s[x] + Sum(s, S \ {x})
      <3>1. \A y \in S : s[y] \in Int  BY <1>1
      <3> QED BY <2>3, <3>1, SumTake
    <2>7. Sum(s, S \ {x}) <= Sum(s, 1..n)
      <3>1. Cardinality(S \ {x}) = n
        <4>1. Cardinality(S \ {x}) = Cardinality(S) - 1  BY <2>3, FS_RemoveElement
        <4> QED BY <2>1, <2>2, <4>1
      <3> QED BY <3>1
    <2>8. Sum(s, 1..(n + 1)) = Sum(s, 1..n) + s[n + 1]
      <3> DEFINE T == 1..n
                 k == n + 1
      <3>1. IsFiniteSet(T) /\ k \notin T /\ 1..(n + 1) = T \cup {k}
        BY <2>1, FirstOnes
      <3>2. \A y \in T \cup {k} : s[y] \in Int  BY <1>1, <2>1, <2>3
      <3> HIDE DEF T, k
      <3>3. Sum(s, T \cup {k}) = Sum(s, T) + s[k]
        BY <3>1, <3>2, SumAdd
      <3> QED BY <3>1, <3>3, Zenon DEF T, k


    <2>9. Sum(s, S \ {x}) \in Nat /\ Sum(s, 1..n) \in Nat
      <3>1. n \in 0..Len(s)  BY <2>1, <2>3, <1>1
      <3> QED BY <1>3, <1>4, <3>1
    <2>10. \A a, b, c, d \in Nat : a <= b /\ c <= d => a + c <= d + b  OBVIOUS
    <2>11. s[x] + Sum(s, S \ {x}) <= Sum(s, 1..n) + s[n + 1]
      BY <2>5, <2>7, <2>9, <2>10
    <2> QED BY <2>6, <2>8, <2>11, Zenon
  <1>7. N = Nat
    <2> HIDE DEF N
    <2>1. N \in SUBSET Nat  BY DEF N
    <2> QED BY <1>5, <1>6, <2>1, NatSetInduction
  <1>8. ASSUME NEW S \in SUBSET DOMAIN s PROVE Sum(s, S) <= Sum(s, 1..Cardinality(S))
    <2>1. Cardinality(S) \in N  BY <1>1, <1>2, <1>7
    <2> QED BY <2>1
  <1> QED BY <1>2, <1>3, <1>4, <1>8

-----------------------------------------------------------------------------
(* The invariant.                                                          *)

LEMMA MInit == Init => MInv
  <1> SUFFICES ASSUME Init PROVE MInv  OBVIOUS
  <1>1. phase = "idle" /\ picked = 0 /\ total = 0 /\ covered = FALSE  BY DEF Init
  <1>2. 1..picked = {}  BY <1>1
  <1>3. Sum(coins, 1..picked) = 0  BY <1>2, SumEmpty
  <1> QED BY <1>1, <1>2, <1>3, InitInv DEF MInv

LEMMA MBegin ==
  ASSUME MInv, NEW o \in Deploys \cup Calls, NEW w \in Wallets, Begin(o, w)
  PROVE  MInv'
  <1>1. FInv'  BY BeginStep DEF MInv
  <1>2. picked' = 0 /\ covered' = FALSE /\ picked = 0 /\ total' = total /\ op' = o
    BY DEF MInv, FInv, Begin
  <1>3. total' = Sum(coins', 1..picked')
    <2>1. 1..picked = {} /\ 1..picked' = {}  BY <1>2
    <2>2. Sum(coins, {}) = 0 /\ Sum(coins', {}) = 0  BY SumEmpty
    <2> QED BY <1>2, <2>1, <2>2 DEF MInv
  <1>4. Descending(coins')  BY DEF Begin, LargestFirst
  <1>5. w \in Seq(Nat)  BY WalletsAssumption
  <1>6. Len(coins') = Len(w)
    <2>1. PICK p \in Orders(w) : coins' = [i \in 1..Len(w) |-> w[p[i]]]
      BY DEF Begin, LargestFirst
    <2> QED BY <1>5, <2>1
  <1>7. \/ phase' = "select" /\ w # <<>>
        \/ phase' = "no coins" /\ w = <<>>
        \/ phase' = "build" /\ w = <<>> /\ o.kind # "deploy"
    BY DEF Begin
  <1>8. (w = <<>> => Len(coins') = 0) /\ (w # <<>> => Len(coins') > 0)
    BY <1>5, <1>6
  <1>9. phase' \notin {"idle", "select"} => covered' \/ picked' = Len(coins')
    BY <1>2, <1>7, <1>8
  <1>10. phase' \notin {"idle", "no coins"} /\ op'.kind = "deploy" => Len(coins') > 0
    BY <1>2, <1>7, <1>8
  <1>11. \A n \in 1..picked' : n < picked' \/ ~covered' => ~Met(op, n)'
    BY <1>2
  <1>12. phase' # "underfunded"  BY <1>7
  <1> QED BY <1>1, <1>2, <1>3, <1>4, <1>9, <1>10, <1>11, <1>12 DEF MInv

LEMMA MSelect == ASSUME MInv, SelectNext PROVE MInv'
  <1>1. FInv'  BY SelectStep DEF MInv
  <1>2. /\ coins \in Seq(Nat) /\ picked \in 0..Len(coins) /\ Len(coins) \in Nat /\ picked < Len(coins)
    BY DEF MInv, FInv, FundingTypeOK, SelectNext
  <1>3. /\ picked' = picked + 1 /\ total' = total + coins[picked + 1]
        /\ op' = op /\ coins' = coins /\ phase = "select"
    BY DEF SelectNext
  <1>4. total' = Sum(coins', 1..picked')
    <2> DEFINE T == 1..picked
               k == picked + 1
    <2>1. IsFiniteSet(T) /\ k \notin T /\ 1..(picked + 1) = T \cup {k}
      BY <1>2, FirstOnes
    <2>2. \A y \in T \cup {k} : coins[y] \in Int  BY <1>2
    <2>3. total = Sum(coins, T)  BY DEF MInv
    <2> HIDE DEF T
    <2>4. total' = total + coins[k] /\ 1..picked' = T \cup {k}
      BY <1>3, <2>1, Zenon
    <2> HIDE DEF k
    <2>5. Sum(coins, T \cup {k}) = Sum(coins, T) + coins[k]
      BY <2>1, <2>2, SumAdd
    <2> QED BY <1>3, <2>3, <2>4, <2>5, Zenon
  <1>5. covered' = Met(op, picked + 1)
    BY <1>3, <1>4, Zenon DEF SelectNext, Met
  <1>6. \A n : Met(op, n)' = Met(op, n)
    BY <1>3, Zenon DEF Met
  <1>7. \A n \in 1..picked' : n < picked' \/ ~covered' => ~Met(op, n)'
    <2>1. \A n \in 1..picked : ~Met(op, n)
      BY <1>3 DEF MInv
    <2>2. \A n \in 1..picked' : n \in 1..picked \/ (n = picked + 1 /\ ~(n < picked'))
      BY <1>2, <1>3
    <2> QED BY <1>5, <1>6, <2>1, <2>2, Zenon
  <1>8. \/ phase' = "build" /\ (covered' \/ picked' = Len(coins'))
        \/ phase' = "select" /\ ~covered'
    BY <1>3, Zenon DEF SelectNext
  <1>9. Len(coins') > 0  BY <1>2, <1>3
  <1>10. Descending(coins')  BY <1>3 DEF MInv
  <1>11. phase' # "idle" /\ phase' # "underfunded"  BY <1>8
  <1> QED BY <1>1, <1>4, <1>7, <1>8, <1>9, <1>10, <1>11 DEF MInv

(* What comes after the selection leaves it as it is.                      *)
LEMMA MAfter ==
  ASSUME MInv, FInv', UNCHANGED <<op, coins, picked, total, covered>>,
         \/ phase' = phase
         \/ /\ phase \notin {"idle", "select", "no coins"}
            /\ phase' \notin {"idle", "select", "no coins"},

         phase' = "underfunded" /\ op.kind = "deploy" => DeployChange(op, picked, total) < 0
  PROVE  MInv'
  <1>1. \A n : Met(op, n)' = Met(op, n)
    BY Zenon DEF Met
  <1>2. \A n \in 1..picked' : n < picked' \/ ~covered' => ~Met(op, n)'
    BY <1>1, Zenon DEF MInv
  <1>3. total' = Sum(coins', 1..picked')
    BY Zenon DEF MInv
  <1>4. Descending(coins') = Descending(coins)
    OBVIOUS
  <1> QED BY <1>2, <1>3, <1>4 DEF MInv

LEMMA MNext == MInv /\ [Next]_vars => MInv'
  <1> SUFFICES ASSUME MInv, [Next]_vars PROVE MInv'  OBVIOUS
  <1>1. FInv'  BY NextInv DEF MInv
  <1>2. CASE \E o \in Deploys \cup Calls, w \in Wallets : Begin(o, w)
    BY <1>2, MBegin
  <1>3. CASE SelectNext  BY <1>3, MSelect
  <1>4. CASE buildDeployTransaction
    <2>1. /\ UNCHANGED <<op, coins, picked, total, covered>> /\ phase = "build"
          /\ phase' = IF DeployChange(op, picked, total) < 0 THEN "underfunded" ELSE "done"
      BY <1>4 DEF buildDeployTransaction
    <2> QED BY <1>1, <2>1, MAfter
  <1>5. CASE Capped \/ Build \/ Rebuild \/ Finish
    <2>1. UNCHANGED <<op, coins, picked, total, covered>>
      BY <1>5 DEF Capped, Build, Rebuild, Finish
    <2>2. /\ phase \in {"build", "rebuild", "finish"}
          /\ phase' \in {"capped", "rebuild", "underfunded", "finish", "done"}
      BY <1>5 DEF Capped, Build, Rebuild, Finish
    <2>3. op.kind = "call"
      BY <1>5 DEF Capped, Build, Rebuild, Finish, MInv, FInv
    <2> QED BY <1>1, <2>1, <2>2, <2>3, MAfter
  <1>6. CASE UNCHANGED vars
    <2>1. UNCHANGED <<op, coins, picked, total, covered, phase>>  BY <1>6 DEF vars
    <2>2. phase = "underfunded" /\ op.kind = "deploy" => DeployChange(op, picked, total) < 0
      BY DEF MInv
    <2> QED BY <1>1, <2>1, <2>2, MAfter
  <1> QED BY <1>2, <1>3, <1>4, <1>5, <1>6 DEF Next

LEMMA MInductive == Spec => []MInv
  BY MInit, MNext, PTL DEF Spec

-----------------------------------------------------------------------------
(* What it says of other sets of coins.                                    *)

LEMMA Best ==
  ASSUME MInv, phase # "idle", NEW S \in SUBSET DOMAIN coins
  PROVE  /\ Cardinality(S) \in 0..Len(coins) /\ Value(S) \in Nat
         /\ Sum(coins, 1..Cardinality(S)) \in Nat
         /\ Value(S) <= Sum(coins, 1..Cardinality(S))
         /\ Cardinality(S) = 0 <=> S = {}
  <1>1. coins \in Seq(Nat) /\ Descending(coins)
    BY DEF MInv, FInv, FundingTypeOK
  <1>2. IsFiniteSet(S)  BY <1>1, LargestAreBest
  <1> QED BY <1>1, <1>2, LargestAreBest, FS_EmptySet DEF Value

LEMMA NeedTyped ==
  ASSUME NEW o \in Deploys \cup Calls, NEW n \in Nat
  PROVE  fundingTarget(o) \in Nat /\ SelectionFee(o, n) \in Nat
  <1>1. OutputSats(o) \in Nat /\ o.inSats \in Nat /\ o.ins \in Nat /\ o.lock \in Nat
        /\ o.rate \in Nat /\ o.unlock \in Nat /\ o.conts \in Nat /\ o.data \in Nat
        /\ OutputBytes(o) \in Nat
    BY OperationFacts
  <1>2. fundingTarget(o) \in Nat  BY <1>1 DEF fundingTarget
  <1>3. contractInputBytes(o) \in Nat
    <2>1. perInputBytes(o.unlock) + perContractInputOverhead(o) \in Nat
      BY <1>1, SizeBounds DEF perContractInputOverhead
    <2> QED BY <1>1, <2>1, TimesNat DEF contractInputBytes
  <1> DEFINE bytes == TX_OVERHEAD + n * P2PKH_INPUT_SIZE + contractInputBytes(o)
                        + outputFraming(o.lock) + extraOutputBytes(o) + P2PKH_OUTPUT_SIZE
  <1>4. bytes \in Nat
    <2>1. n * P2PKH_INPUT_SIZE \in Nat  BY DEF P2PKH_INPUT_SIZE
    <2>2. outputFraming(o.lock) \in Nat  BY <1>1, SizeBounds
    <2>3. extraOutputBytes(o) = OutputBytes(o) - outputFraming(o.lock)  BY DEF extraOutputBytes
    <2> QED BY <1>1, <1>3, <2>1, <2>2, <2>3 DEF TX_OVERHEAD, P2PKH_OUTPUT_SIZE
  <1>5. SelectionFee(o, n) = FeeFor(bytes, o.rate)
    BY DEF SelectionFee, estimateDeployFee
  <1> HIDE DEF bytes
  <1>6. bytes <= bytes  BY <1>4
  <1>7. FeeFor(bytes, o.rate) \in Nat  BY <1>1, <1>4, <1>6, FeeMonotone
  <1> QED BY <1>2, <1>5, <1>7

(* selectUtxos takes no more coins than any set that is enough, and enough *)
(* coins when some set is (deployment.ts:127-160).                         *)
THEOREM MinimumSetCorrect == Spec => []MinimumSet
  <1>1. ASSUME MInv, phase \in {"build", "capped", "rebuild", "finish"},
               NEW S \in SUBSET DOMAIN coins, S # {}, Enough(S)
        PROVE  covered /\ picked <= Cardinality(S)
    <2> DEFINE n == Cardinality(S)
    <2>1. /\ op \in Deploys \cup Calls /\ picked \in 0..Len(coins) /\ Len(coins) \in Nat
          /\ covered \in BOOLEAN /\ phase # "idle"
      <3>1. phase # "idle"  BY <1>1
      <3>2. FInv  BY <1>1 DEF MInv
      <3>3. /\ coins \in Seq(Nat) /\ picked \in 0..Len(coins) /\ covered \in BOOLEAN
            /\ op \in Deploys \cup Calls
        BY <3>1, <3>2 DEF FInv, FundingTypeOK
      <3> QED BY <3>1, <3>3


    <2>2. /\ n \in 1..Len(coins) /\ Value(S) \in Nat
          /\ Sum(coins, 1..n) \in Nat /\ Value(S) <= Sum(coins, 1..n)
      <3>1. /\ n \in 0..Len(coins) /\ Value(S) \in Nat /\ Sum(coins, 1..n) \in Nat
            /\ Value(S) <= Sum(coins, 1..n) /\ n # 0
        BY <1>1, <2>1, Best
      <3> QED BY <2>1, <3>1
    <2>3. Value(S) >= fundingTarget(op) + SelectionFee(op, n)
      BY <1>1 DEF Enough
    <2> HIDE DEF n
    <2>4. Met(op, n)
      <3>1. fundingTarget(op) \in Nat /\ SelectionFee(op, n) \in Nat
        BY <2>1, <2>2, NeedTyped
      <3> QED BY <2>2, <2>3, <3>1 DEF Met
    <2>5. covered \/ picked = Len(coins)  BY <1>1 DEF MInv
    <2>6. CASE n <= picked
      <3>1. n \in 1..picked  BY <2>1, <2>2, <2>6
      <3>2. ~(n < picked \/ ~covered)  BY <1>1, <2>4, <3>1 DEF MInv
      <3>3. covered /\ ~(n < picked)  BY <3>2
      <3> QED BY <2>1, <2>2, <3>3 DEF n
    <2>7. CASE picked < n
      <3>1. picked # Len(coins)  BY <2>1, <2>2, <2>7
      <3> QED BY <2>1, <2>2, <2>5, <2>7, <3>1 DEF n
    <2> QED BY <2>1, <2>2, <2>6, <2>7
  <1>2. MInv => MinimumSet
    BY <1>1 DEF MinimumSet
  <1> QED BY <1>2, MInductive, PTL

(* A deployment costs what its selection was sized for.                    *)
LEMMA DeployNeed ==
  ASSUME NEW o \in Deploys \cup Calls, o.kind = "deploy", NEW n \in Nat, NEW sats \in Nat
  PROVE  DeployChange(o, n, sats) = sats - (fundingTarget(o) + SelectionFee(o, n))
  <1>1. /\ o.sats \in Nat /\ o.lock \in Nat /\ o.inSats = 0 /\ o.ins = 0
        /\ OutputSats(o) = o.sats /\ OutputBytes(o) = outputFraming(o.lock)
        /\ outputFraming(o.lock) \in Nat /\ o.unlock \in Nat
    BY OperationFacts, SizeBounds DEF OutputSats, OutputBytes
  <1>2. fundingTarget(o) = o.sats  BY <1>1 DEF fundingTarget
  <1>3. contractInputBytes(o) = 0
    <2>1. perInputBytes(o.unlock) + perContractInputOverhead(o) \in Nat
      BY <1>1, SizeBounds DEF perContractInputOverhead
    <2> QED BY <1>1, <2>1 DEF contractInputBytes
  <1>4. extraOutputBytes(o) = 0  BY <1>1 DEF extraOutputBytes
  <1>5. SelectionFee(o, n) = estimateDeployFee(n, o.lock, o.rate, 0, 0)
    BY <1>3, <1>4 DEF SelectionFee
  <1>6. SelectionFee(o, n) \in Nat  BY NeedTyped
  <1>7. sats - o.sats - SelectionFee(o, n) = sats - (o.sats + SelectionFee(o, n))
    BY <1>1, <1>6
  <1> QED BY <1>2, <1>5, <1>7 DEF DeployChange

(* Something that one coin cannot pay for is not free without coins.       *)
LEMMA NothingIsNotEnough ==
  ASSUME NEW o \in Deploys \cup Calls, o.kind = "deploy", fundingTarget(o) + SelectionFee(o, 1) > 0
  PROVE  fundingTarget(o) + SelectionFee(o, 0) > 0
  <1>1. fundingTarget(o) \in Nat /\ SelectionFee(o, 0) \in Nat /\ SelectionFee(o, 1) \in Nat
    BY NeedTyped
  <1>2. o.rate \in Nat /\ o.lock \in Nat /\ contractInputBytes(o) \in Nat
        /\ extraOutputBytes(o) \in Nat
    <2>1. /\ o.rate \in Nat /\ o.lock \in Nat /\ o.ins = 0 /\ o.unlock \in Nat
          /\ OutputBytes(o) = outputFraming(o.lock) /\ outputFraming(o.lock) \in Nat
      BY OperationFacts, SizeBounds DEF OutputBytes
    <2>2. perInputBytes(o.unlock) + perContractInputOverhead(o) \in Nat
      BY <2>1, SizeBounds DEF perContractInputOverhead
    <2> QED BY <2>1, <2>2 DEF contractInputBytes, extraOutputBytes
  <1> DEFINE bytes(n) == TX_OVERHEAD + n * P2PKH_INPUT_SIZE + contractInputBytes(o)
                           + outputFraming(o.lock) + extraOutputBytes(o) + P2PKH_OUTPUT_SIZE
             none == bytes(0)
             one == bytes(1)
  <1>3. none \in Nat /\ none >= 1 /\ one \in Nat
    BY <1>2, SizeBounds DEF TX_OVERHEAD, P2PKH_INPUT_SIZE, P2PKH_OUTPUT_SIZE
  <1>4. SelectionFee(o, 0) = FeeFor(none, o.rate) /\ SelectionFee(o, 1) = FeeFor(one, o.rate)
    BY DEF SelectionFee, estimateDeployFee
  <1> HIDE DEF none, one
  <1>5. CASE o.rate = 0
    <2>1. none * o.rate = 0 /\ one * o.rate = 0  BY <1>3, <1>5
    <2>2. SelectionFee(o, 0) = 0 /\ SelectionFee(o, 1) = 0
      BY <1>4, <2>1 DEF FeeFor
    <2> QED BY <2>2
  <1>6. CASE o.rate # 0
    <2>1. 1 * o.rate <= none * o.rate /\ none * o.rate \in Nat
      BY <1>2, <1>3, TimesMonotone
    <2> DEFINE cost == none * o.rate
    <2>2. cost \in Nat /\ cost >= 1  BY <1>2, <1>6, <2>1
    <2> HIDE DEF cost
    <2>3. (cost + 999) \div 1000 >= 1  BY <2>2
    <2>4. SelectionFee(o, 0) >= 1  BY <1>4, <2>3 DEF FeeFor, cost
    <2> QED BY <1>1, <2>4
  <1> QED BY <1>5, <1>6

(* deploy() throws "insufficient funds" only if no choice of coins would   *)
(* have paid for the deployment (deployment.ts buildDeployTransaction).    *)
THEOREM DeployFailsOnlyPoorCorrect == Spec => []DeployFailsOnlyPoor
  <1>1. ASSUME MInv, phase = "underfunded", op.kind = "deploy", NEW S \in SUBSET DOMAIN coins
        PROVE  DeployChange(op, Cardinality(S), Value(S)) < 0
    <2> DEFINE n == Cardinality(S)
    <2>1. /\ op \in Deploys \cup Calls /\ picked \in 0..Len(coins) /\ Len(coins) \in Nat
          /\ total \in Nat /\ covered \in BOOLEAN /\ phase # "idle" /\ Len(coins) > 0
      BY <1>1 DEF MInv, FInv, FundingTypeOK
    <2>2. total < fundingTarget(op) + SelectionFee(op, picked)
      <3>1. DeployChange(op, picked, total) < 0  BY <1>1 DEF MInv
      <3>2. picked \in Nat  BY <2>1
      <3>3. fundingTarget(op) \in Nat /\ SelectionFee(op, picked) \in Nat  BY <2>1, <3>2, NeedTyped
      <3>4. total - (fundingTarget(op) + SelectionFee(op, picked)) < 0
        BY <1>1, <2>1, <3>1, <3>2, DeployNeed
      <3> QED BY <2>1, <3>3, <3>4
    <2>3. ~covered
      <3>1. picked \in Nat  BY <2>1
      <3>2. fundingTarget(op) \in Nat /\ SelectionFee(op, picked) \in Nat  BY <2>1, <3>1, NeedTyped
      <3>3. covered => total >= fundingTarget(op) + SelectionFee(op, picked)
        BY <1>1 DEF MInv, FInv
      <3> QED BY <2>1, <2>2, <3>2, <3>3
    <2>4. picked = Len(coins)  BY <1>1, <2>3 DEF MInv
    <2>5. \A k \in 1..Len(coins) : ~Met(op, k)
      BY <1>1, <2>3, <2>4 DEF MInv
    <2>6. /\ n \in 0..Len(coins) /\ Value(S) \in Nat
          /\ Sum(coins, 1..n) \in Nat /\ Value(S) <= Sum(coins, 1..n)
          /\ n = 0 <=> S = {}
      BY <1>1, <2>1, Best
    <2>7. n \in Nat /\ fundingTarget(op) \in Nat /\ SelectionFee(op, n) \in Nat
      BY <2>1, <2>6, NeedTyped
    <2>8. DeployChange(op, n, Value(S)) = Value(S) - (fundingTarget(op) + SelectionFee(op, n))
      BY <1>1, <2>1, <2>6, <2>7, DeployNeed
    <2>9. CASE n # 0
      <3>1. ~Met(op, n)  BY <2>1, <2>5, <2>6, <2>9
      <3> HIDE DEF n
      <3>2. Sum(coins, 1..n) < fundingTarget(op) + SelectionFee(op, n)
        BY <2>6, <2>7, <3>1 DEF Met
      <3>3. Value(S) - (fundingTarget(op) + SelectionFee(op, n)) < 0
        BY <2>6, <2>7, <3>2
      <3> QED BY <2>8, <3>3 DEF n
    <2>10. CASE n = 0
      <3>1. Value(S) = 0  BY <2>6, <2>10, SumEmpty DEF Value
      <3>2. fundingTarget(op) + SelectionFee(op, 1) > 0
        <4>1. 1 \in 1..Len(coins)  BY <2>1
        <4>2. ~Met(op, 1)  BY <2>5, <4>1
        <4>3. Sum(coins, 1..1) \in Nat
          <5>1. /\ coins \in Seq(Nat)  BY <1>1 DEF MInv, FInv, FundingTypeOK
          <5>2. IsFiniteSet(1..1)  BY FirstOnes
          <5>3. \A i \in 1..1 : coins[i] \in Nat  BY <4>1, <5>1
          <5> QED BY <5>2, <5>3, SumNat
        <4>4. fundingTarget(op) \in Nat /\ SelectionFee(op, 1) \in Nat  BY <2>1, NeedTyped
        <4> QED BY <4>2, <4>3, <4>4 DEF Met
      <3>3. fundingTarget(op) + SelectionFee(op, 0) > 0
        BY <1>1, <2>1, <3>2, NothingIsNotEnough
      <3>4. Value(S) - (fundingTarget(op) + SelectionFee(op, n)) < 0
        BY <2>7, <2>10, <3>1, <3>3
      <3> QED BY <2>8, <3>4
    <2> QED BY <2>9, <2>10
  <1>2. MInv => DeployFailsOnlyPoor
    BY <1>1 DEF DeployFailsOnlyPoor
  <1> QED BY <1>2, MInductive, PTL

=============================================================================
