------------------------ MODULE WalletFundingProofs ------------------------
(***************************************************************************)
(* For any clients and amounts: what ensureFunding asks for, and what it   *)
(* leaves in the basket.  A client remembers the coins it counted while    *)
(* the wallet is asked, and they stay countable until somebody spends      *)
(* them; no client has ever asked for more than its own need.              *)
(***************************************************************************)
EXTENDS WalletProvider, RecursionProofs

\* What the clients that wait for the wallet have asked it for.
Asked == [c \in Clients |-> IF pc[c] = "asking" THEN job[c].amount ELSE 0]

\* The basket is finite, and every output listed has a transaction made before.
Listed ==
  /\ IsFiniteSet(basket)
  /\ \A o \in basket \cup outputs : o.tx <= made

Modest == \A c \in Clients : pc[c] = "asking" => job[c].amount <= Funds[c]

BInv == TypeOK /\ Listed /\ Modest /\ FundingBounded

\* A coin of the past that getUtxos would list, unless it was spent.
Countable(o) ==
  /\ o \in Output /\ o.tagged /\ o.kind = "p2pkh" /\ o.tx <= made
  /\ o \in basket \/ o \notin outputs

\* The coins a client counted before it asked.
SeenOK(c) == IsFiniteSet(job[c].seen) /\ \A o \in job[c].seen : Countable(o)

\* What it asks for makes up the difference.
Asking(c) ==
  pc[c] = "asking" => SeenOK(c) /\ job[c].amount + Total(job[c].seen) >= Funds[c]

\* The output made for it does.
Created(c) ==
  pc[c] = "created" =>
    /\ SeenOK(c)
    /\ \E f \in Output :
         /\ Countable(f) /\ f.tx = job[c].tx /\ f \notin job[c].seen
         /\ f.satoshis + Total(job[c].seen) >= Funds[c]
         /\ \A o \in outputs : o.tx = job[c].tx => o = f
    /\ job[c].tx # 0

RInv == TypeOK /\ Listed /\ \A c \in Clients : Asking(c) /\ Created(c)
----------------------------------------------------------------------------
(* What coins come to. *)

LEMMA TotalFacts ==
  ASSUME NEW coins, IsFiniteSet(coins), coins \subseteq Output
  PROVE  /\ Total(coins) \in Nat
         /\ \A some \in SUBSET coins : Total(some) \in Nat /\ Total(some) <= Total(coins)
  <1> DEFINE v == [o \in coins |-> o.satoshis]
  <1>1. \A o \in coins : v[o] \in Nat  BY DEF Output
  <1>2. Total(coins) = Sum(v, coins)  BY Zenon DEF Total
  <1>3. Total(coins) \in Nat  BY <1>1, <1>2, SumNat
  <1>4. ASSUME NEW some \in SUBSET coins
        PROVE  Total(some) \in Nat /\ Total(some) <= Total(coins)
    <2> DEFINE w == [o \in some |-> o.satoshis]
    <2>1. IsFiniteSet(some)  BY FS_Subset
    <2>2. \A o \in some : w[o] = v[o]  OBVIOUS
    <2>3. Total(some) = Sum(w, some)  BY Zenon DEF Total
    <2> HIDE DEF v, w
    <2>4. Sum(w, some) = Sum(v, some)  BY <2>1, <2>2, SumSame
    <2>5. Sum(v, some) \in Nat /\ Sum(v, some) <= Sum(v, coins)  BY <1>1, SumSubset
    <2> QED BY <1>2, <2>3, <2>4, <2>5, Zenon
  <1> QED BY <1>3, <1>4

LEMMA TotalOneMore ==
  ASSUME NEW coins, IsFiniteSet(coins), coins \subseteq Output, NEW o \in Output, o \notin coins
  PROVE  Total(coins \cup {o}) = Total(coins) + o.satoshis
  <1> DEFINE v == [p \in coins \cup {o} |-> p.satoshis]
             w == [p \in coins |-> p.satoshis]
  <1>1. \A p \in coins \cup {o} : v[p] \in Int  BY DEF Output
  <1>2. Total(coins \cup {o}) = Sum(v, coins \cup {o}) /\ Total(coins) = Sum(w, coins)
    BY Zenon DEF Total
  <1>3. v[o] = o.satoshis /\ \A p \in coins : v[p] = w[p]  OBVIOUS
  <1> HIDE DEF v, w
  <1>4. Sum(v, coins) = Sum(w, coins)  BY <1>3, SumSame
  <1>5. Sum(v, coins \cup {o}) = Sum(v, coins) + v[o]  BY <1>1, SumAdd
  <1> QED BY <1>2, <1>3, <1>4, <1>5, Zenon

----------------------------------------------------------------------------
(* Types. *)

Indexes == {0, 1}
Answers == {"whole", "no tx", "no txid", "error"}

Locals ==
  [amount : Nat, seen : SUBSET Output, coins : SUBSET Output, tx : Nat, answer : Answers]

LEMMA FreshTyped ==
  /\ Fresh.amount = 0 /\ Fresh.seen = {} /\ Fresh.tx = 0 /\ Fresh \in Locals
  /\ \A coins \in SUBSET Output : [Fresh EXCEPT !.coins = coins] \in Locals
  /\ \A tx \in Nat : [Fresh EXCEPT !.tx = tx] \in Locals
  BY DEF Fresh, Locals, Answers

LEMMA Counts ==
  ASSUME TypeOK
  PROVE  made \in Nat /\ made + 1 \in Nat /\ faults \in Nat /\ faults + 1 \in Nat
  <1>1. made \in Nat /\ faults \in Nat  BY DEF TypeOK
  <1> QED BY <1>1

\* One client moves.
LEMMA Moved ==
  ASSUME TypeOK, NEW c \in Clients, NEW p \in Places, NEW locals \in Locals, Goto(c, p, locals)
  PROVE  /\ pc' \in [Clients -> Places] /\ job' \in [Clients -> Locals]
         /\ pc'[c] = p /\ job'[c] = locals
         /\ \A d \in Clients : d # c => pc'[d] = pc[d] /\ job'[d] = job[d]
  <1>1. pc \in [Clients -> Places] /\ job \in [Clients -> Locals]
    BY DEF TypeOK, Locals, Answers
  <1> QED BY <1>1 DEF Goto

LEMMA Settled ==

  ASSUME TypeOK, NEW c \in Clients, Settle(c)
  PROVE  /\ pc' \in [Clients -> Places] /\ job' \in [Clients -> Locals] /\ pc'[c] = "idle"
         /\ \A d \in Clients : d # c => pc'[d] = pc[d] /\ job'[d] = job[d]
  <1>1. "idle" \in Places  BY DEF Places
  <1> QED BY <1>1, FreshTyped, Moved DEF Settle

LEMMA UtxosTyped ==
  ASSUME TypeOK, Listed
  PROVE  /\ getUtxos \subseteq Output /\ IsFiniteSet(getUtxos)
         /\ Total(getUtxos) \in Nat
         /\ \A some \in SUBSET getUtxos : Total(some) \in Nat /\ Total(some) <= Total(getUtxos)
  <1>1. getUtxos \subseteq Output /\ getUtxos \subseteq basket
    BY DEF getUtxos, TypeOK
  <1>2. IsFiniteSet(getUtxos)  BY <1>1, FS_Subset DEF Listed
  <1> QED BY <1>1, <1>2, TotalFacts

\* A type of the parts of the state that only one or two actions change.
LEMMA LearnTyped ==
  ASSUME TypeOK, NEW c \in Clients, NEW parents, Learn(c, parents)
  PROVE  txCache' \subseteq Nat /\ overlay' \subseteq Nat /\ faults' \in Nat
  <1>1. job[c].tx \in Nat  BY DEF TypeOK
  <1>2. txCache \subseteq Nat /\ overlay \subseteq Nat /\ faults \in Nat  BY DEF TypeOK
  <1> DEFINE cached == txCache \cup (IF job[c].answer = "whole" THEN {job[c].tx} ELSE {})
  <1>3. \/ Announced(job[c].tx) /\ faults' = faults
        \/ txCache' = cached /\ overlay' = overlay /\ (faults' = faults \/ Fault)
    BY Zenon DEF Learn
  <1>4. cached \subseteq Nat  BY <1>1, <1>2
  <1>5. CASE Announced(job[c].tx) /\ faults' = faults
    <2>1. txCache' \subseteq Nat  BY <1>1, <1>2, <1>5 DEF Announced
    <2>2. overlay' = overlay \cup {job[c].tx} \/ overlay' = overlay
      BY <1>5, Zenon DEF Announced
    <2> QED BY <1>1, <1>2, <1>5, <2>1, <2>2
  <1>6. CASE txCache' = cached /\ overlay' = overlay /\ (faults' = faults \/ Fault)
    <2> HIDE DEF cached
    <2> QED BY <1>2, <1>4, <1>6 DEF Fault
  <1> QED BY <1>3, <1>5, <1>6


LEMMA FoundTyped ==
  ASSUME TypeOK, NEW c \in Clients PROVE FoundIndex(job[c].tx, c) \in {0, 1}
  <1> DEFINE at == {o.index : o \in {p \in outputs : /\ p.tx = job[c].tx /\ p.kind = "contract"
                                                    /\ p.of = c}}
  <1>1. at \subseteq {0, 1}  BY DEF TypeOK, Output
  <1>2. FoundIndex(job[c].tx, c) = IF at = {} THEN 0 ELSE CHOOSE i \in at : \A j \in at : i <= j
    BY DEF FoundIndex
  <1> HIDE DEF at
  <1>3. at # {} => \E i \in at : \A j \in at : i <= j
    <2>1. \A j \in at : j = 0 \/ j = 1  BY <1>1
    <2>2. CASE 0 \in at
      <3>1. \A j \in at : 0 <= j  BY <2>1
      <3> QED BY <2>2, <3>1
    <2>3. CASE 0 \notin at
      <3>1. \A j \in at : j = 1  BY <2>1, <2>3
      <3>2. \A i, j \in at : i <= j  BY <3>1
      <3> QED BY <3>2
    <2> QED BY <2>2, <2>3
  <1>4. at # {} => (CHOOSE i \in at : \A j \in at : i <= j) \in at
    BY <1>3
  <1> QED BY <1>1, <1>2, <1>4

LEMMA TrackTyped ==
  ASSUME TypeOK, NEW c \in Clients, NEW index \in {0, 1}, Track(c, index)
  PROVE  currentUtxo' \in [Clients -> [tx : Nat \cup {NoTxid}, index : {0, 1}] \cup {None}]
  <1>1. job[c].tx \in Nat  BY DEF TypeOK
  <1>2. [tx |-> IF job[c].answer = "no txid" THEN NoTxid ELSE job[c].tx, index |-> index]
          \in [tx : Nat \cup {NoTxid}, index : {0, 1}]
    BY <1>1
  <1> QED BY <1>2 DEF TypeOK, Track

----------------------------------------------------------------------------
(* Steps. *)

\* The network goes forward: what is new is the latest transaction's, and the wallet stops
\* listing only what was spent.
Forward ==
  /\ made' \in Nat /\ made <= made'
  /\ \A o \in outputs' \ outputs : o.tx > made
  /\ \A o \in basket \ basket' : o \notin outputs'

\* A step that asks the wallet for nothing and gets nothing from it.
Calm ==
  /\ TypeOK' /\ Listed' /\ Forward
  /\ getUtxos' \subseteq getUtxos
  /\ \A c \in Clients : \/ pc'[c] = pc[c] /\ job'[c] = job[c]
                        \/ pc'[c] \notin {"asking", "created"}

LEMMA StillCountable ==
  ASSUME TypeOK, Forward PROVE \A o : Countable(o) => Countable(o)'
  <1> SUFFICES ASSUME NEW o, Countable(o) PROVE Countable(o)'
    OBVIOUS
  <1>1. o \in Output /\ o.tagged /\ o.kind = "p2pkh" /\ o.tx <= made
    BY DEF Countable
  <1>2. o.tx \in Nat /\ made \in Nat  BY <1>1 DEF Output, TypeOK
  <1>3. o.tx <= made'  BY <1>1, <1>2 DEF Forward
  <1>4. CASE o \in basket
    BY <1>1, <1>3, <1>4 DEF Countable, Forward
  <1>5. CASE o \notin outputs
    <2>1. ~(o.tx > made)  BY <1>1, <1>2
    <2> QED BY <1>1, <1>3, <1>5, <2>1 DEF Countable, Forward
  <1> QED BY <1>4, <1>5 DEF Countable

LEMMA ClientKept ==
  ASSUME TypeOK, Forward, NEW c \in Clients, pc'[c] = pc[c], job'[c] = job[c],
         Asking(c), Created(c)
  PROVE  Asking(c)' /\ Created(c)'
  <1>1. SeenOK(c) => SeenOK(c)'
    BY StillCountable DEF SeenOK
  <1>2. Asking(c)'
    BY <1>1 DEF Asking
  <1>3. ASSUME pc[c] = "created" PROVE Created(c)'
    <2>1. PICK f \in Output :
            /\ Countable(f) /\ f.tx = job[c].tx /\ f \notin job[c].seen
            /\ f.satoshis + Total(job[c].seen) >= Funds[c]
            /\ \A o \in outputs : o.tx = job[c].tx => o = f
      BY <1>3 DEF Created
    <2>2. f.tx \in Nat /\ made \in Nat /\ f.tx <= made
      BY <2>1 DEF TypeOK, Output, Countable
    <2>3. \A o \in outputs' : o.tx = job[c].tx => o = f
      BY <2>1, <2>2 DEF Forward
    <2>4. Countable(f)'  BY <2>1, StillCountable
    <2> QED BY <1>1, <1>3, <2>1, <2>3, <2>4 DEF Created
  <1> QED BY <1>2, <1>3 DEF Created

LEMMA AskedTyped ==
  ASSUME TypeOK PROVE \A c \in Clients : Asked[c] \in Nat
  BY DEF TypeOK, Asked

LEMMA CalmKeepsB == ASSUME BInv, Calm PROVE BInv'
  <1>1. TypeOK /\ Listed /\ TypeOK' /\ Listed'  BY DEF BInv, Calm
  <1>2. Modest'
    BY DEF BInv, Modest, Calm
  <1>3. Total(getUtxos') \in Nat /\ Total(getUtxos) \in Nat /\ Total(getUtxos') <= Total(getUtxos)
    BY <1>1, UtxosTyped DEF Calm
  <1>4. \A c \in Clients : Asked[c] \in Nat /\ Asked'[c] \in Nat /\ Asked'[c] <= Asked[c]
    <2>1. \A c \in Clients : Asked[c] \in Nat  BY <1>1, AskedTyped
    <2>2. \A c \in Clients : Asked'[c] = Asked[c] \/ Asked'[c] = 0
      BY DEF Calm, Asked
    <2> QED BY <2>1, <2>2
  <1>5. /\ Sum(Asked', Clients) <= Sum(Asked, Clients)
        /\ Sum(Asked', Clients) \in Nat /\ Sum(Asked, Clients) \in Nat
    BY <1>4, ClientsAssumption, SumLeq, SumNat
  <1>6. \A c \in Clients : Funds[c] \in Nat  BY FundsAssumption
  <1>7. Sum(Funds, Clients) \in Nat
    BY <1>6, ClientsAssumption, SumNat
  <1>8. Total(getUtxos) + Sum(Asked, Clients) <= Sum(Funds, Clients)
    BY Zenon DEF BInv, FundingBounded, Asked
  <1>9. Total(getUtxos') + Sum(Asked', Clients) <= Sum(Funds, Clients)
    BY <1>3, <1>5, <1>7, <1>8
  <1>10. FundingBounded'
    BY <1>9, Zenon DEF FundingBounded, Asked
  <1> QED BY <1>1, <1>2, <1>10 DEF BInv

LEMMA CalmKeepsR == ASSUME RInv, Calm PROVE RInv'
  <1>1. TypeOK /\ TypeOK' /\ Listed' /\ Forward  BY DEF RInv, Calm
  <1>2. ASSUME NEW c \in Clients PROVE Asking(c)' /\ Created(c)'
    <2>1. CASE pc'[c] = pc[c] /\ job'[c] = job[c]
      BY <1>1, <2>1, ClientKept DEF RInv
    <2>2. CASE pc'[c] \notin {"asking", "created"}
      BY <2>2 DEF Asking, Created
    <2> QED BY <2>1, <2>2 DEF Calm
  <1> QED BY <1>1, <1>2 DEF RInv

----------------------------------------------------------------------------
(* Which steps are calm. *)

\* Nothing happens to the outputs.
LEMMA SameOutputs ==
  ASSUME TypeOK, Listed, UNCHANGED <<basket, outputs, made>>
  PROVE  Forward /\ Listed' /\ getUtxos' \subseteq getUtxos
  <1>1. basket' = basket /\ outputs' = outputs /\ made' = made /\ made \in Nat
    BY DEF TypeOK
  <1>2. Forward  BY <1>1 DEF Forward
  <1>3. Listed'  BY <1>1 DEF Listed
  <1> QED BY <1>1, <1>2, <1>3 DEF getUtxos


LEMMA FundingAnswerCalm ==
  ASSUME TypeOK, Listed, NEW c \in Clients, FundingAnswer(c) PROVE Calm
  <1>1. UNCHANGED <<basket, outputs, made>> /\ UNCHANGED <<currentUtxo, called, restarted, muddled, lost>>
    BY DEF FundingAnswer, network, history
  <1>2. txCache' \subseteq Nat /\ overlay' \subseteq Nat /\ faults' \in Nat
    BY LearnTyped DEF FundingAnswer
  <1>3. /\ pc' \in [Clients -> Places] /\ job' \in [Clients -> Locals]
        /\ pc'[c] \in {"idle", "funded"}
        /\ \A d \in Clients : d # c => pc'[d] = pc[d] /\ job'[d] = job[d]
    <2>1. CASE Settle(c)  BY <2>1, Settled
    <2>2. CASE Goto(c, "funded", job[c])
      <3>1. "funded" \in Places /\ job[c] \in Locals  BY DEF Places, TypeOK, Locals, Answers
      <3> QED BY <2>2, <3>1, Moved
    <2> QED BY <2>1, <2>2 DEF FundingAnswer
  <1>4. TypeOK'  BY <1>1, <1>2, <1>3 DEF TypeOK, Locals, Answers
  <1> QED BY <1>1, <1>3, <1>4, SameOutputs DEF Calm

LEMMA DeployAnswerCalm ==
  ASSUME TypeOK, Listed, NEW c \in Clients, DeployAnswer(c) PROVE Calm
  <1>1. UNCHANGED <<basket, outputs, made>> /\ UNCHANGED <<called, restarted, muddled>>
    BY DEF DeployAnswer, network
  <1>2. txCache' \subseteq Nat /\ overlay' \subseteq Nat /\ faults' \in Nat
    BY LearnTyped DEF DeployAnswer
  <1>3. /\ pc' \in [Clients -> Places] /\ job' \in [Clients -> Locals] /\ pc'[c] = "idle"
        /\ \A d \in Clients : d # c => pc'[d] = pc[d] /\ job'[d] = job[d]
    BY Settled DEF DeployAnswer
  <1>4. currentUtxo' \in [Clients -> [tx : Nat \cup {NoTxid}, index : {0, 1}] \cup {None}]
    <2>1. \/ currentUtxo' = currentUtxo
          \/ Track(c, 0)
          \/ Track(c, FoundIndex(job[c].tx, c))
      BY Zenon DEF DeployAnswer
    <2>2. FoundIndex(job[c].tx, c) \in {0, 1}  BY FoundTyped
    <2>3. CASE currentUtxo' = currentUtxo  BY <2>3 DEF TypeOK
    <2> QED BY <2>1, <2>2, <2>3, TrackTyped
  <1>5. lost' \subseteq Output
    BY DEF DeployAnswer, InHand, TypeOK
  <1>6. TypeOK'  BY <1>1, <1>2, <1>3, <1>4, <1>5 DEF TypeOK, Locals, Answers
  <1> QED BY <1>1, <1>3, <1>6, SameOutputs DEF Calm

LEMMA BuildCalm ==
  ASSUME TypeOK, Listed, NEW c \in Clients, Build(c) PROVE Calm
  <1>1. /\ UNCHANGED <<basket, outputs, made>>
        /\ UNCHANGED <<overlay, currentUtxo, called, faults, restarted, muddled, lost>>
    BY DEF Build, network, history
  <1> DEFINE coins == {o \in getUtxos : ~At(o, currentUtxo[c])}
  <1>2. txCache \subseteq Nat /\ overlay \subseteq Nat  BY DEF TypeOK
  <1>3. coins \subseteq Output  BY DEF getUtxos, TypeOK
  <1>4. \A S \in selectUtxos(coins) : S \in SUBSET Output
    <2> HIDE DEF coins
    <2> QED BY <1>3 DEF selectUtxos
  <1>5. \A S : {tx \in Parents(c, S) : Fetchable(tx)} \subseteq Nat
    BY <1>2 DEF Fetchable
  <1>6. \/ Settle(c) /\ txCache' = txCache
        \/ \E S \in selectUtxos(coins) :
             /\ txCache' = txCache \cup {tx \in Parents(c, S) : Fetchable(tx)}
             /\ Settle(c) \/ Goto(c, "sent", [Fresh EXCEPT !.coins = S])
    BY Zenon DEF Build
  <1> HIDE DEF coins
  <1>7. txCache' \subseteq Nat
    BY <1>2, <1>5, <1>6
  <1>8. /\ pc' \in [Clients -> Places] /\ job' \in [Clients -> Locals]
        /\ pc'[c] \in {"idle", "sent"}
        /\ \A d \in Clients : d # c => pc'[d] = pc[d] /\ job'[d] = job[d]
    <2>1. CASE Settle(c)  BY <2>1, Settled
    <2>2. ASSUME NEW S \in selectUtxos(coins), Goto(c, "sent", [Fresh EXCEPT !.coins = S])
          PROVE  <1>8!:
      <3>1. "sent" \in Places  BY DEF Places
      <3>2. [Fresh EXCEPT !.coins = S] \in Locals  BY <1>4, FreshTyped
      <3> QED BY <2>2, <3>1, <3>2, Moved
    <2> QED BY <1>6, <2>1, <2>2
  <1>9. TypeOK'  BY <1>1, <1>7, <1>8 DEF TypeOK, Locals, Answers
  <1> QED BY <1>1, <1>8, <1>9, SameOutputs DEF Calm

LEMMA BroadcastReturnsCalm ==
  ASSUME TypeOK, Listed, NEW c \in Clients, BroadcastReturns(c) PROVE Calm
  <1>1. /\ UNCHANGED <<basket, outputs, made>>
        /\ UNCHANGED <<faults, restarted, muddled, lost>>
    BY DEF BroadcastReturns, network, history
  <1>2. job[c].tx \in Nat  BY DEF TypeOK
  <1>3. txCache' \subseteq Nat /\ overlay' \subseteq Nat
    <2>1. txCache' \subseteq Nat
      BY <1>2 DEF BroadcastReturns, Announced, TypeOK
    <2>2. overlay' = overlay \cup {job[c].tx} \/ overlay' = overlay
      BY Zenon DEF BroadcastReturns, Announced
    <2> QED BY <1>2, <2>1, <2>2 DEF TypeOK
  <1>4. currentUtxo' \in [Clients -> [tx : Nat \cup {NoTxid}, index : {0, 1}] \cup {None}]
    <2>1. [tx |-> job[c].tx, index |-> 0] \in [tx : Nat \cup {NoTxid}, index : {0, 1}]
      BY <1>2
    <2> QED BY <2>1 DEF TypeOK, BroadcastReturns
  <1>5. called' \in [Clients -> BOOLEAN]
    BY DEF TypeOK, BroadcastReturns
  <1>6. /\ pc' \in [Clients -> Places] /\ job' \in [Clients -> Locals] /\ pc'[c] = "idle"
        /\ \A d \in Clients : d # c => pc'[d] = pc[d] /\ job'[d] = job[d]
    BY Settled DEF BroadcastReturns
  <1>7. TypeOK'  BY <1>1, <1>3, <1>4, <1>5, <1>6 DEF TypeOK, Locals, Answers
  <1> QED BY <1>1, <1>6, <1>7, SameOutputs DEF Calm

LEMMA IdleCalm ==
  ASSUME TypeOK, Listed, NEW c \in Clients, DeployWithWallet(c) \/ Decline(c) \/ Refuse(c)
  PROVE  Calm
  <1>1. /\ UNCHANGED <<basket, outputs, made>>
        /\ UNCHANGED <<overlay, txCache, currentUtxo, called, restarted, muddled, lost>>
        /\ faults' = faults \/ faults' = faults + 1
    BY DEF DeployWithWallet, Decline, Refuse, network, history, Fault
  <1>a. faults' \in Nat  BY <1>1, Counts
  <1>2. /\ pc' \in [Clients -> Places] /\ job' \in [Clients -> Locals]
        /\ pc'[c] \in {"idle", "deploying"}
        /\ \A d \in Clients : d # c => pc'[d] = pc[d] /\ job'[d] = job[d]
    <2>1. CASE Settle(c)  BY <2>1, Settled
    <2>2. CASE Goto(c, "deploying", Fresh)
      <3>1. "deploying" \in Places  BY DEF Places
      <3> QED BY <2>2, <3>1, FreshTyped, Moved
    <2> QED BY <2>1, <2>2 DEF DeployWithWallet, Decline, Refuse
  <1>3. TypeOK'  BY <1>1, <1>a, <1>2 DEF TypeOK, Locals, Answers
  <1> QED BY <1>1, <1>2, <1>3, SameOutputs DEF Calm

LEMMA AcceptCalm ==
  ASSUME TypeOK, Listed, NEW c \in Clients, Accept(c) PROVE Calm
  <1> DEFINE output == [tx |-> made + 1, index |-> 0, kind |-> "contract", of |-> c,
                        tagged |-> FALSE, satoshis |-> 1]
  <1>1. /\ UNCHANGED <<basket, overlay, txCache, currentUtxo, called, restarted, muddled>>
        /\ outputs' = (outputs \ (job[c].coins \cup Tracked(c))) \cup {output}
        /\ made' = made + 1
        /\ \/ Goto(c, "answered", [Fresh EXCEPT !.tx = made + 1]) /\ UNCHANGED <<faults, lost>>
           \/ Fault /\ Settle(c) /\ lost' = lost \cup {output}
    BY Zenon DEF Accept
  <1>2. made \in Nat /\ made + 1 \in Nat  BY Counts
  <1>3. output \in Output /\ output.tx = made + 1  BY <1>2 DEF Output
  <1> HIDE DEF output
  <1>4. outputs' \subseteq Output /\ lost' \subseteq Output /\ faults' \in Nat
    <2>1. outputs' \subseteq Output /\ lost' \subseteq Output  BY <1>1, <1>3 DEF TypeOK
    <2>2. faults' = faults \/ faults' = faults + 1  BY <1>1 DEF Fault
    <2> QED BY <2>1, <2>2, Counts
  <1>5. /\ pc' \in [Clients -> Places] /\ job' \in [Clients -> Locals]
        /\ pc'[c] \in {"idle", "answered"}
        /\ \A d \in Clients : d # c => pc'[d] = pc[d] /\ job'[d] = job[d]
    <2>1. CASE Settle(c)  BY <2>1, Settled
    <2>2. CASE Goto(c, "answered", [Fresh EXCEPT !.tx = made + 1])
      <3>1. "answered" \in Places  BY DEF Places
      <3> QED BY <1>2, <2>2, <3>1, FreshTyped, Moved
    <2> QED BY <1>1, <2>1, <2>2
  <1>6. TypeOK'  BY <1>1, <1>2, <1>4, <1>5 DEF TypeOK, Locals, Answers
  <1>7. \A o \in basket \cup outputs : o.tx \in Nat /\ o.tx <= made
    BY DEF TypeOK, Listed, Output
  <1>8. Listed'
    <2>1. \A o \in basket' \cup outputs' : o.tx <= made'
      BY <1>1, <1>2, <1>3, <1>7
    <2>2. IsFiniteSet(basket')  BY <1>1 DEF Listed
    <2> QED BY <2>1, <2>2 DEF Listed
  <1>9. Forward  BY <1>1, <1>2, <1>3 DEF Forward
  <1>10. getUtxos' \subseteq getUtxos  BY <1>1 DEF getUtxos
  <1> QED BY <1>5, <1>6, <1>8, <1>9, <1>10 DEF Calm

LEMMA NoticeCalm == ASSUME TypeOK, Listed, Notice PROVE Calm
  <1>1. /\ basket' = basket \cap outputs
        /\ UNCHANGED <<outputs, made, overlay, txCache, currentUtxo, called, pc, job, faults,
                       restarted, muddled, lost>>
    BY DEF Notice, network, history
  <1>2. TypeOK'  BY <1>1 DEF TypeOK
  <1>3. IsFiniteSet(basket')  BY <1>1, FS_Subset DEF Listed
  <1>4. Listed'  BY <1>1, <1>3 DEF Listed
  <1>5. Forward  BY <1>1, Counts DEF Forward


  <1>6. getUtxos' \subseteq getUtxos  BY <1>1 DEF getUtxos
  <1> QED BY <1>1, <1>2, <1>4, <1>5, <1>6 DEF Calm

LEMMA RestartCalm == ASSUME TypeOK, Listed, Restart PROVE Calm
  <1>1. /\ UNCHANGED <<basket, outputs, made>> /\ UNCHANGED <<overlay, currentUtxo, called, muddled>>
        /\ restarted' = TRUE /\ txCache' = {}
        /\ pc' = [c \in Clients |-> "idle"] /\ job' = [c \in Clients |-> Fresh]
        /\ lost' = lost \cup UNION {InHand(c) : c \in Clients}
        /\ faults' = faults + 1
    BY DEF Restart, network, Fault
  <1>b. faults' \in Nat  BY <1>1, Counts
  <1>2. pc' \in [Clients -> Places] /\ job' \in [Clients -> Locals]
    BY <1>1, FreshTyped DEF Places
  <1>3. lost' \subseteq Output  BY <1>1 DEF TypeOK, InHand
  <1>4. TypeOK'  BY <1>1, <1>b, <1>2, <1>3 DEF TypeOK, Locals, Answers
  <1> QED BY <1>1, <1>4, SameOutputs DEF Calm

LEMMA StutterCalm == ASSUME TypeOK, Listed, UNCHANGED vars PROVE Calm
  <1>1. TypeOK'  BY DEF vars, network, history, TypeOK
  <1> QED BY <1>1, SameOutputs DEF Calm, vars, network

\* What createAction makes, and for which place.
Makes(c, asked, place, reply) ==
  /\ outputs' = outputs \cup {asked} /\ basket' = basket \cup {asked}
  /\ (faults' = faults /\ muddled' = muddled) \/ (Fault /\ muddled' = muddled \cup {made + 1})
  /\ Goto(c, place, [Fresh EXCEPT !.seen = job[c].seen, !.tx = made + 1, !.answer = reply])

LEMMA MakesTyped ==
  ASSUME TypeOK, Listed, NEW c \in Clients, NEW asked \in Output, NEW place \in Places,
         NEW reply \in Answers, asked.tx = made + 1,
         Makes(c, asked, place, reply),
         UNCHANGED <<overlay, txCache, currentUtxo, called, restarted, lost>>, made' = made + 1
  PROVE  /\ TypeOK' /\ Listed' /\ Forward
         /\ pc'[c] = place /\ job'[c].tx = made + 1 /\ job'[c].seen = job[c].seen
         /\ \A d \in Clients : d # c => pc'[d] = pc[d] /\ job'[d] = job[d]
  <1> DEFINE locals == [Fresh EXCEPT !.seen = job[c].seen, !.tx = made + 1, !.answer = reply]
  <1>0. made \in Nat /\ faults \in Nat /\ muddled \subseteq Nat  BY Counts DEF TypeOK
  <1>1. made + 1 \in Nat /\ made' = made + 1 /\ made < made + 1  BY <1>0
  <1>2. outputs' = outputs \cup {asked} /\ basket' = basket \cup {asked}
    BY Zenon DEF Makes
  <1>a. Goto(c, place, locals)
    BY Zenon DEF Makes
  <1>b. (faults' = faults /\ muddled' = muddled) \/ (Fault /\ muddled' = muddled \cup {made + 1})
    BY Zenon DEF Makes
  <1>3. locals \in Locals /\ locals.tx = made + 1 /\ locals.seen = job[c].seen
    <2>1. job[c].seen \in SUBSET Output  BY DEF TypeOK
    <2> QED BY <1>1, <2>1 DEF Fresh, Locals, Answers
  <1> HIDE DEF locals
  <1>4. /\ pc' \in [Clients -> Places] /\ job' \in [Clients -> Locals]
        /\ pc'[c] = place /\ job'[c] = locals
        /\ \A d \in Clients : d # c => pc'[d] = pc[d] /\ job'[d] = job[d]
    BY <1>a, <1>3, Moved
  <1>5. faults' \in Nat /\ muddled' \subseteq Nat
    <2>1. CASE faults' = faults /\ muddled' = muddled  BY <1>0, <2>1
    <2>2. CASE Fault /\ muddled' = muddled \cup {made + 1}  BY <1>0, <1>1, <2>2 DEF Fault
    <2> QED BY <1>b, <2>1, <2>2
  <1>6. TypeOK'
    <2>1. outputs' \subseteq Output /\ basket' \subseteq Output  BY <1>2 DEF TypeOK
    <2>2. /\ overlay' \subseteq Nat /\ txCache' \subseteq Nat /\ lost' \subseteq Output
          /\ currentUtxo' \in [Clients -> [tx : Nat \cup {NoTxid}, index : {0, 1}] \cup {None}]
          /\ called' \in [Clients -> BOOLEAN] /\ restarted' \in BOOLEAN
      BY DEF TypeOK
    <2> QED BY <1>1, <1>4, <1>5, <2>1, <2>2 DEF TypeOK, Locals, Answers
  <1>7. \A o \in basket \cup outputs : o.tx \in Nat /\ o.tx <= made
    BY DEF TypeOK, Listed, Output
  <1>8. Listed'
    <2>1. \A o \in basket' \cup outputs' : o.tx <= made'
      BY <1>0, <1>1, <1>2, <1>7
    <2>2. IsFiniteSet(basket')  BY <1>2, FS_AddElement DEF Listed
    <2> QED BY <2>1, <2>2 DEF Listed
  <1>9. Forward  BY <1>0, <1>1, <1>2 DEF Forward
  <1> QED BY <1>3, <1>4, <1>6, <1>8, <1>9

\* The wallet makes a deployment.
LEMMA WalletDeployCalm ==
  ASSUME TypeOK, Listed, NEW c \in Clients, CreateAction(c), pc[c] = "deploying" PROVE Calm
  <1> DEFINE made1(index) == [tx |-> made + 1, index |-> index, kind |-> "contract", of |-> c,
                              tagged |-> FALSE, satoshis |-> 1]
  <1>1. PICK i \in Indexes, reply \in Answers :
          Makes(c, made1(i), "deployed", reply)
    <2>1. "deploying" # "asking"  OBVIOUS
    <2> QED BY <2>1, Zenon DEF CreateAction, Makes, Answers, Indexes
  <1>2. made1(i) \in Output /\ made1(i).tx = made + 1 /\ made1(i).kind = "contract"
    <2>1. made + 1 \in Nat  BY Counts

    <2>2. c \in Clients \cup {None}  OBVIOUS
    <2> QED BY <2>1, <2>2 DEF Output, Indexes
  <1> DEFINE asked == made1(i)

  <1>3. Makes(c, asked, "deployed", reply)  BY <1>1
  <1>4. asked \in Output /\ asked.tx = made + 1 /\ asked.kind = "contract"  BY <1>2
  <1> HIDE DEF asked
  <1>5. UNCHANGED <<overlay, txCache, currentUtxo, called, restarted, lost>> /\ made' = made + 1
    BY DEF CreateAction
  <1>6. /\ TypeOK' /\ Listed' /\ Forward /\ pc'[c] = "deployed"
        /\ \A d \in Clients : d # c => pc'[d] = pc[d] /\ job'[d] = job[d]
    <2>1. "deployed" \in Places  BY DEF Places
    <2> QED BY <1>3, <1>4, <1>5, <2>1, MakesTyped
  <1>7. basket' = basket \cup {asked}  BY <1>3, Zenon DEF Makes
  <1>8. getUtxos' \subseteq getUtxos  BY <1>4, <1>7 DEF getUtxos
  <1> QED BY <1>6, <1>8 DEF Calm

LEMMA FundedCalm ==
  ASSUME TypeOK, Listed, NEW c \in Clients, EnsureFunding(c), Total(getUtxos) >= Funds[c] PROVE Calm
  <1>1. /\ UNCHANGED <<basket, outputs, made>>
        /\ UNCHANGED <<overlay, txCache, currentUtxo, called, faults, restarted, muddled, lost>>
        /\ Goto(c, "funded", Fresh)
    BY DEF EnsureFunding, network, history
  <1>2. "funded" \in Places  BY DEF Places
  <1>3. /\ pc' \in [Clients -> Places] /\ job' \in [Clients -> Locals] /\ pc'[c] = "funded"
        /\ \A d \in Clients : d # c => pc'[d] = pc[d] /\ job'[d] = job[d]
    BY <1>1, <1>2, FreshTyped, Moved
  <1>4. TypeOK'  BY <1>1, <1>3 DEF TypeOK, Locals, Answers
  <1> QED BY <1>1, <1>3, <1>4, SameOutputs DEF Calm

----------------------------------------------------------------------------
(* A client asks. *)

Asks(c) == EnsureFunding(c) /\ ~(Total(getUtxos) >= Funds[c])

LEMMA AsksFacts ==
  ASSUME TypeOK, Listed, NEW c \in Clients, Asks(c)
  PROVE  /\ TypeOK' /\ Listed' /\ Forward /\ getUtxos' = getUtxos
         /\ pc'[c] = "asking" /\ job'[c].seen = getUtxos
         /\ job'[c].amount = Funds[c] - Total(getUtxos) /\ job'[c].amount \in 0 .. Funds[c]
         /\ \A d \in Clients : d # c => pc'[d] = pc[d] /\ job'[d] = job[d]
  <1> DEFINE locals == [Fresh EXCEPT !.amount = Missing(c), !.seen = getUtxos]
  <1>1. /\ UNCHANGED <<basket, outputs, made>>
        /\ UNCHANGED <<overlay, txCache, currentUtxo, called, faults, restarted, muddled, lost>>
    BY DEF Asks, EnsureFunding, network, history
  <1>a. Goto(c, "asking", locals)
    BY Zenon DEF Asks, EnsureFunding
  <1>2. Total(getUtxos) \in Nat /\ getUtxos \subseteq Output /\ Funds[c] \in Nat
    BY UtxosTyped, FundsAssumption
  <1>3. Missing(c) = Funds[c] - Total(getUtxos) /\ Missing(c) \in 0 .. Funds[c]
    BY <1>2 DEF Missing, Asks
  <1>4. locals \in Locals /\ locals.amount = Missing(c) /\ locals.seen = getUtxos
    <2>1. Missing(c) \in Nat  BY <1>2, <1>3
    <2> QED BY <1>2, <2>1 DEF Fresh, Locals, Answers
  <1> HIDE DEF locals
  <1>5. "asking" \in Places  BY DEF Places
  <1>6. /\ pc' \in [Clients -> Places] /\ job' \in [Clients -> Locals]
        /\ pc'[c] = "asking" /\ job'[c] = locals
        /\ \A d \in Clients : d # c => pc'[d] = pc[d] /\ job'[d] = job[d]
    BY <1>a, <1>4, <1>5, Moved
  <1>7. TypeOK'  BY <1>1, <1>6 DEF TypeOK, Locals, Answers
  <1>8. getUtxos' = getUtxos  BY <1>1 DEF getUtxos
  <1> QED BY <1>1, <1>3, <1>4, <1>6, <1>7, <1>8, SameOutputs

LEMMA AsksKeepsB == ASSUME BInv, NEW c \in Clients, Asks(c) PROVE BInv'
  <1>1. TypeOK /\ Listed  BY DEF BInv
  <1>2. /\ TypeOK' /\ Listed' /\ getUtxos' = getUtxos
        /\ pc'[c] = "asking" /\ job'[c].amount = Funds[c] - Total(getUtxos)
        /\ job'[c].amount \in 0 .. Funds[c]
        /\ \A d \in Clients : d # c => pc'[d] = pc[d] /\ job'[d] = job[d]
    BY <1>1, AsksFacts
  <1>3. \A d \in Clients : Funds[d] \in Nat  BY FundsAssumption
  <1>4. Modest'
    <2>1. job'[c].amount <= Funds[c]  BY <1>2, <1>3
    <2> QED BY <1>2, <2>1 DEF BInv, Modest
  <1> DEFINE others == Clients \ {c}
             ask == Funds[c] - Total(getUtxos)
  <1>5. IsFiniteSet(others)  BY ClientsAssumption, FS_Subset
  <1>6. \A d \in Clients : Asked'[d] \in Nat /\ Asked'[d] <= Funds[d]
    <2>1. \A d \in Clients : Asked'[d] \in Nat  BY <1>2, AskedTyped DEF TypeOK, Asked
    <2>2. \A d \in Clients : pc'[d] = "asking" => job'[d].amount <= Funds[d]
      BY <1>4 DEF Modest
    <2>3. \A d \in Clients : Asked'[d] = IF pc'[d] = "asking" THEN job'[d].amount ELSE 0
      BY DEF Asked
    <2> QED BY <1>3, <2>1, <2>2, <2>3
  <1>7. Asked'[c] = ask  BY <1>2 DEF Asked
  <1>8. Total(getUtxos) \in Nat /\ ask \in Int  BY <1>1, <1>3, UtxosTyped
  <1> HIDE DEF ask
  <1>9. Sum(Asked', Clients) = Asked'[c] + Sum(Asked', others)
    BY <1>6, ClientsAssumption, SumTake
  <1>10. Sum(Funds, Clients) = Funds[c] + Sum(Funds, others)
    BY <1>3, ClientsAssumption, SumTake
  <1>11. /\ Sum(Asked', others) <= Sum(Funds, others)
         /\ Sum(Asked', others) \in Nat /\ Sum(Funds, others) \in Nat
    BY <1>3, <1>5, <1>6, SumLeq, SumNat
  <1>12. Total(getUtxos') + Sum(Asked', Clients) <= Sum(Funds, Clients)
    <2>1. Total(getUtxos') = Total(getUtxos)  BY <1>2
    <2>2. \A t, a, b, f \in Int : a <= b => t + ((f - t) + a) <= f + b  OBVIOUS
    <2>3. Funds[c] \in Int /\ Total(getUtxos) \in Int  BY <1>3, <1>8
    <2>4. Total(getUtxos) + (ask + Sum(Asked', others)) <= Funds[c] + Sum(Funds, others)
      BY <1>11, <2>2, <2>3 DEF ask
    <2> QED BY <1>7, <1>9, <1>10, <2>1, <2>4, Zenon
  <1>13. FundingBounded'
    BY <1>12, Zenon DEF FundingBounded, Asked
  <1> QED BY <1>2, <1>4, <1>13 DEF BInv

LEMMA AsksKeepsR == ASSUME RInv, NEW c \in Clients, Asks(c) PROVE RInv'
  <1>1. TypeOK /\ Listed  BY DEF RInv
  <1>2. /\ TypeOK' /\ Listed' /\ Forward /\ getUtxos' = getUtxos
        /\ pc'[c] = "asking" /\ job'[c].seen = getUtxos
        /\ job'[c].amount = Funds[c] - Total(getUtxos)
        /\ \A d \in Clients : d # c => pc'[d] = pc[d] /\ job'[d] = job[d]
    BY <1>1, AsksFacts
  <1>3. ASSUME NEW d \in Clients, d # c PROVE Asking(d)' /\ Created(d)'
    BY <1>1, <1>2, <1>3, ClientKept DEF RInv
  <1>4. SeenOK(c)'
    <2>1. IsFiniteSet(getUtxos)  BY <1>1, UtxosTyped
    <2>2. \A o \in getUtxos' : o \in basket' /\ o \in Output /\ o.tagged /\ o.kind = "p2pkh" /\ o.tx <= made'
      BY <1>2 DEF getUtxos, Listed, TypeOK
    <2> QED BY <1>2, <2>1, <2>2 DEF SeenOK, Countable
  <1>5. Total(getUtxos) \in Nat /\ Funds[c] \in Nat  BY <1>1, UtxosTyped, FundsAssumption
  <1>6. job'[c].amount + Total(job'[c].seen) >= Funds[c]
    <2>1. (Funds[c] - Total(getUtxos)) + Total(getUtxos) >= Funds[c]  BY <1>5
    <2> QED BY <1>2, <2>1
  <1>7. Asking(c)' /\ Created(c)'  BY <1>2, <1>4, <1>6 DEF Asking, Created
  <1> QED BY <1>2, <1>3, <1>7 DEF RInv

----------------------------------------------------------------------------
(* The wallet makes the output a client asked for. *)

Gives(c) == CreateAction(c) /\ pc[c] = "asking"

LEMMA GivesFacts ==
  ASSUME TypeOK, Listed, NEW c \in Clients, Gives(c)
  PROVE  \E f \in Output :
           /\ f.tx = made + 1 /\ f.kind = "p2pkh" /\ f.tagged /\ f.satoshis = job[c].amount
           /\ f \notin basket
           /\ TypeOK' /\ Listed' /\ Forward
           /\ outputs' = outputs \cup {f} /\ basket' = basket \cup {f}
           /\ getUtxos' = getUtxos \cup {f}
           /\ pc'[c] = "created" /\ job'[c].tx = made + 1 /\ job'[c].seen = job[c].seen
           /\ \A d \in Clients : d # c => pc'[d] = pc[d] /\ job'[d] = job[d]
  <1> DEFINE f == FundingOutput(c, job[c].amount)
  <1>1. PICK reply \in Answers : Makes(c, f, "created", reply)
    BY Zenon DEF Gives, CreateAction, Makes, Answers
  <1>2. f \in Output /\ f.tx = made + 1 /\ f.kind = "p2pkh" /\ f.tagged /\ f.satoshis = job[c].amount
    <2>1. job[c].amount \in Nat  BY DEF TypeOK
    <2> QED BY <2>1, Counts DEF FundingOutput, Output
  <1> HIDE DEF f
  <1>3. UNCHANGED <<overlay, txCache, currentUtxo, called, restarted, lost>> /\ made' = made + 1
    BY DEF Gives, CreateAction
  <1>4. /\ TypeOK' /\ Listed' /\ Forward
        /\ pc'[c] = "created" /\ job'[c].tx = made + 1 /\ job'[c].seen = job[c].seen
        /\ \A d \in Clients : d # c => pc'[d] = pc[d] /\ job'[d] = job[d]
    <2>1. "created" \in Places  BY DEF Places
    <2> QED BY <1>1, <1>2, <1>3, <2>1, MakesTyped
  <1>5. outputs' = outputs \cup {f} /\ basket' = basket \cup {f}  BY <1>1, Zenon DEF Makes
  <1>6. getUtxos' = getUtxos \cup {f}  BY <1>2, <1>5 DEF getUtxos
  <1>7. f \notin basket
    <2>1. ~(made + 1 <= made)  BY Counts
    <2> QED BY <1>2, <2>1 DEF Listed
  <1> QED BY <1>2, <1>4, <1>5, <1>6, <1>7

LEMMA GivesKeepsB == ASSUME BInv, NEW c \in Clients, Gives(c) PROVE BInv'
  <1>1. TypeOK /\ Listed  BY DEF BInv
  <1>2. PICK f \in Output :
          /\ f.satoshis = job[c].amount /\ f \notin basket
          /\ TypeOK' /\ Listed' /\ getUtxos' = getUtxos \cup {f} /\ pc'[c] = "created"
          /\ \A d \in Clients : d # c => pc'[d] = pc[d] /\ job'[d] = job[d]
    BY <1>1, GivesFacts
  <1>3. Modest'  BY <1>2 DEF BInv, Modest
  <1>4. Total(getUtxos') = Total(getUtxos) + job[c].amount
    <2>1. f \notin getUtxos  BY <1>2 DEF getUtxos
    <2> QED BY <1>1, <1>2, <2>1, UtxosTyped, TotalOneMore
  <1> DEFINE others == Clients \ {c}
  <1>5. IsFiniteSet(others)  BY ClientsAssumption, FS_Subset
  <1>6. Asked[c] = job[c].amount /\ Asked'[c] = 0 /\ \A d \in others : Asked'[d] = Asked[d]
    BY <1>2 DEF Gives, Asked
  <1>7. \A d \in Clients : Asked[d] \in Nat /\ Asked'[d] \in Nat
    BY <1>1, <1>6, AskedTyped
  <1>8. /\ Sum(Asked, Clients) = Asked[c] + Sum(Asked, others)
        /\ Sum(Asked', Clients) = Asked'[c] + Sum(Asked', others)
    BY <1>7, ClientsAssumption, SumTake
  <1>9. Sum(Asked', others) = Sum(Asked, others)  BY <1>5, <1>6, SumSame
  <1>10. Sum(Asked, others) \in Nat  BY <1>5, <1>7, SumNat
  <1>11. Total(getUtxos) \in Nat /\ job[c].amount \in Nat  BY <1>1, <1>6, <1>7, UtxosTyped
  <1>12. Total(getUtxos') + Sum(Asked', Clients) = Total(getUtxos) + Sum(Asked, Clients)
    <2>1. \A t, a, s \in Int : (t + a) + (0 + s) = t + (a + s)  OBVIOUS
    <2>2. Total(getUtxos) \in Int /\ job[c].amount \in Int /\ Sum(Asked, others) \in Int
      BY <1>10, <1>11
    <2>3. (Total(getUtxos) + job[c].amount) + (0 + Sum(Asked, others))
            = Total(getUtxos) + (job[c].amount + Sum(Asked, others))
      BY <2>1, <2>2, Zenon
    <2> QED BY <1>4, <1>6, <1>8, <1>9, <2>3, Zenon
  <1>13. Total(getUtxos) + Sum(Asked, Clients) <= Sum(Funds, Clients)
    BY Zenon DEF BInv, FundingBounded, Asked
  <1>14. Total(getUtxos') + Sum(Asked', Clients) <= Sum(Funds, Clients)
    BY <1>12, <1>13, Zenon
  <1>15. FundingBounded'
    BY <1>14, Zenon DEF FundingBounded, Asked
  <1> QED BY <1>2, <1>3, <1>15 DEF BInv

LEMMA GivesKeepsR == ASSUME RInv, NEW c \in Clients, Gives(c) PROVE RInv'
  <1>1. TypeOK /\ Listed /\ SeenOK(c) /\ job[c].amount + Total(job[c].seen) >= Funds[c]
    BY DEF RInv, Gives, Asking
  <1>2. PICK f \in Output :
          /\ f.tx = made + 1 /\ f.kind = "p2pkh" /\ f.tagged /\ f.satoshis = job[c].amount
          /\ TypeOK' /\ Listed' /\ Forward
          /\ outputs' = outputs \cup {f} /\ basket' = basket \cup {f}
          /\ pc'[c] = "created" /\ job'[c].tx = made + 1 /\ job'[c].seen = job[c].seen
          /\ \A d \in Clients : d # c => pc'[d] = pc[d] /\ job'[d] = job[d]
    BY <1>1, GivesFacts
  <1>3. ASSUME NEW d \in Clients, d # c PROVE Asking(d)' /\ Created(d)'
    BY <1>1, <1>2, <1>3, ClientKept DEF RInv
  <1>4. SeenOK(c)'  BY <1>1, <1>2, StillCountable DEF SeenOK
  <1>5. ~(made + 1 <= made) /\ made + 1 # 0  BY <1>1, Counts
  <1>6. f \notin job'[c].seen  BY <1>1, <1>2, <1>5 DEF SeenOK, Countable
  <1>7. \A o \in outputs' : o.tx = job'[c].tx => o = f
    BY <1>1, <1>2, <1>5 DEF Listed
  <1>8. Countable(f)'  BY <1>2 DEF Countable, Listed
  <1>9. Asking(c)' /\ Created(c)'
    <2>1. f.satoshis + Total(job'[c].seen) >= Funds[c]  BY <1>1, <1>2
    <2> QED BY <1>2, <1>4, <1>5, <1>6, <1>7, <1>8, <2>1 DEF Asking, Created
  <1> QED BY <1>2, <1>3, <1>9 DEF RInv

----------------------------------------------------------------------------
(* The invariants. *)

LEMMA EveryStep ==
  ASSUME TypeOK, Listed, [Next]_vars
  PROVE  Calm \/ \E c \in Clients : Asks(c) \/ Gives(c)
  <1>1. CASE Notice  BY <1>1, NoticeCalm
  <1>2. CASE Restart  BY <1>2, RestartCalm
  <1>3. CASE UNCHANGED vars  BY <1>3, StutterCalm
  <1>4. ASSUME NEW c \in Clients, Continue(c) \/ Answer(c)
        PROVE  Calm \/ Asks(c) \/ Gives(c)
    <2>1. CASE EnsureFunding(c)  BY <2>1, FundedCalm DEF Asks
    <2>2. CASE FundingAnswer(c)  BY <2>2, FundingAnswerCalm
    <2>3. CASE Build(c)  BY <2>3, BuildCalm
    <2>4. CASE BroadcastReturns(c)  BY <2>4, BroadcastReturnsCalm
    <2>5. CASE DeployWithWallet(c) \/ Decline(c) \/ Refuse(c)  BY <2>5, IdleCalm
    <2>6. CASE DeployAnswer(c)  BY <2>6, DeployAnswerCalm
    <2>7. CASE CreateAction(c)
      <3>1. pc[c] = "asking" \/ pc[c] = "deploying"  BY <2>7 DEF CreateAction
      <3> QED BY <2>7, <3>1, WalletDeployCalm DEF Gives
    <2>8. CASE Accept(c)  BY <2>8, AcceptCalm
    <2> QED BY <1>4, <2>1, <2>2, <2>3, <2>4, <2>5, <2>6, <2>7, <2>8 DEF Continue, Answer
  <1> QED BY <1>1, <1>2, <1>3, <1>4 DEF Next

LEMMA InitTyped == Init => TypeOK /\ Listed
  <1> SUFFICES ASSUME Init PROVE TypeOK /\ Listed
    OBVIOUS
  <1>1. overlay \subseteq Nat  BY DEF Init, WalletCoins
  <1>2. "idle" \in Places  BY DEF Places
  <1>3. job \in [Clients -> Locals] /\ pc \in [Clients -> Places]
    BY <1>2, FreshTyped DEF Init
  <1>4. TypeOK  BY <1>1, <1>3 DEF Init, TypeOK, Locals, Answers
  <1>5. IsFiniteSet(basket)  BY FS_EmptySet DEF Init
  <1>6. Listed  BY <1>5 DEF Init, Listed
  <1> QED BY <1>4, <1>6

LEMMA InitB == Init => BInv
  <1> SUFFICES ASSUME Init PROVE BInv
    OBVIOUS
  <1>1. TypeOK /\ Listed  BY InitTyped
  <1>2. Modest  BY DEF Init, Modest
  <1>3. \A c \in Clients : Asked[c] = 0  BY DEF Init, Asked
  <1>4. \A c \in Clients : Asked[c] \in Int /\ Funds[c] \in Int /\ Asked[c] <= Funds[c]
    BY <1>3, FundsAssumption
  <1>5. Sum(Asked, Clients) <= Sum(Funds, Clients)  BY <1>4, ClientsAssumption, SumLeq
  <1>6. Sum(Asked, Clients) \in Int  BY <1>4, ClientsAssumption, SumType
  <1>7. Total(getUtxos) = 0
    <2>1. getUtxos = {}  BY DEF Init, getUtxos
    <2> QED BY <2>1, SumEmpty DEF Total
  <1>8. Total(getUtxos) + Sum(Asked, Clients) <= Sum(Funds, Clients)
    BY <1>5, <1>6, <1>7
  <1>9. FundingBounded  BY <1>8, Zenon DEF FundingBounded, Asked
  <1> QED BY <1>1, <1>2, <1>9 DEF BInv

LEMMA BInductive == Spec => []BInv
  <1>1. BInv /\ [Next]_vars => BInv'
    <2> SUFFICES ASSUME BInv, [Next]_vars PROVE BInv'
      OBVIOUS
    <2>1. Calm \/ \E c \in Clients : Asks(c) \/ Gives(c)  BY EveryStep DEF BInv
    <2> QED BY <2>1, CalmKeepsB, AsksKeepsB, GivesKeepsB
  <1> QED BY <1>1, InitB, PTL DEF Spec

LEMMA RInductive == Spec => []RInv
  <1>1. Init => RInv
    BY InitTyped DEF Init, RInv, Asking, Created
  <1>2. RInv /\ [Next]_vars => RInv'
    <2> SUFFICES ASSUME RInv, [Next]_vars PROVE RInv'
      OBVIOUS
    <2>1. Calm \/ \E c \in Clients : Asks(c) \/ Gives(c)  BY EveryStep DEF RInv
    <2> QED BY <2>1, CalmKeepsR, AsksKeepsR, GivesKeepsR
  <1> QED BY <1>1, <1>2, PTL DEF Spec

\* The fields of the provider and of the contracts keep their shapes, whatever the wallet
\* answers (wallet-provider.ts, contract.ts deployWithWallet).
THEOREM TypeCorrect == Spec => []TypeOK
  <1>1. BInv => TypeOK  BY DEF BInv
  <1> QED BY <1>1, BInductive, PTL

\* However many clients find the same balance and ask for the difference, the basket never
\* holds more than every client's need together (wallet-provider.ts ensureFunding).
THEOREM FundingBoundedCorrect == Spec => []FundingBounded
  <1>1. BInv => FundingBounded  BY DEF BInv
  <1> QED BY <1>1, BInductive, PTL

----------------------------------------------------------------------------
(* ensureFunding keeps its word. *)

\* Only two steps bring a client there.
LEMMA OnlyTheseFund ==
  ASSUME TypeOK, [Next]_vars, NEW c \in Clients, pc[c] # "funded", pc'[c] = "funded"
  PROVE  \/ EnsureFunding(c) /\ Goto(c, "funded", Fresh)
         \/ FundingAnswer(c) /\ Goto(c, "funded", job[c])
  <1>1. pc \in [Clients -> Places]  BY DEF TypeOK
  <1>2. ASSUME NEW d \in Clients, NEW place, pc' = [pc EXCEPT ![d] = place], place # "funded"
        PROVE  FALSE
    BY <1>1, <1>2
  <1>3. \A d \in Clients : ~Settle(d)
    BY <1>2 DEF Settle, Goto
  <1>4. \A d \in Clients : \A place, locals : Goto(d, place, locals) /\ place # "funded" => FALSE
    BY <1>2 DEF Goto
  <1>5. \A d \in Clients : d # c => \A locals : ~Goto(d, "funded", locals)
    BY <1>1 DEF Goto
  <1>6. ASSUME NEW d \in Clients, Continue(d) \/ Answer(d)
        PROVE  d = c /\ \/ EnsureFunding(c) /\ Goto(c, "funded", Fresh)
                        \/ FundingAnswer(c) /\ Goto(c, "funded", job[c])
    <2>1. CASE EnsureFunding(d)
      <3>1. Goto(d, "funded", Fresh)
            \/ \E locals : Goto(d, "asking", locals)
        BY <2>1 DEF EnsureFunding
      <3> QED BY <1>4, <1>5, <2>1, <3>1
    <2>2. CASE FundingAnswer(d)
      <3>1. Settle(d) \/ Goto(d, "funded", job[d])  BY <2>2 DEF FundingAnswer
      <3> QED BY <1>3, <1>5, <2>2, <3>1
    <2>3. CASE Build(d)
      <3>1. Settle(d) \/ \E locals : Goto(d, "sent", locals)
        BY <2>3, Zenon DEF Build
      <3> QED BY <1>3, <1>4, <3>1
    <2>4. ~BroadcastReturns(d) /\ ~DeployAnswer(d) /\ ~Decline(d) /\ ~Refuse(d)
      BY <1>3, Zenon DEF BroadcastReturns, DeployAnswer, Decline, Refuse
    <2>5. CASE DeployWithWallet(d)
      BY <1>4, <2>5 DEF DeployWithWallet
    <2>6. CASE CreateAction(d)
      <3>1. \E locals : Goto(d, "created", locals) \/ Goto(d, "deployed", locals)
        <4>1. \E locals, place : Goto(d, place, locals) /\ place \in {"created", "deployed"}
          BY <2>6 DEF CreateAction
        <4> QED BY <4>1
      <3> QED BY <1>4, <3>1
    <2>7. CASE Accept(d)
      <3>1. Settle(d) \/ \E locals : Goto(d, "answered", locals)
        BY <2>7, Zenon DEF Accept
      <3> QED BY <1>3, <1>4, <3>1
    <2> QED BY <1>6, <2>1, <2>2, <2>3, <2>4, <2>5, <2>6, <2>7 DEF Continue, Answer
  <1>7. ~Notice /\ ~(UNCHANGED vars)  BY DEF Notice, vars
  <1>8. ~Restart  BY DEF Restart
  <1> QED BY <1>6, <1>7, <1>8 DEF Next

LEMMA ReturnStep ==
  ASSUME RInv, [Next]_vars, NEW c \in Clients, pc[c] # "funded", pc'[c] = "funded",
         job'[c].seen \subseteq outputs',
         job'[c].tx # 0 => \E o \in outputs' : o.tx = job'[c].tx
  PROVE  Total(getUtxos') >= Funds[c]
  <1>1. TypeOK /\ Listed /\ Created(c)  BY DEF RInv
  <1>2. "funded" \in Places /\ job[c] \in Locals  BY <1>1 DEF Places, TypeOK, Locals, Answers
  <1>3. CASE EnsureFunding(c) /\ Goto(c, "funded", Fresh)
    <2>1. ~(Goto(c, "asking", [Fresh EXCEPT !.amount = Missing(c), !.seen = getUtxos]))
      BY <1>1 DEF TypeOK, Goto
    <2>2. Total(getUtxos) >= Funds[c]
      BY <1>3, <2>1, Zenon DEF EnsureFunding
    <2>3. getUtxos' = getUtxos  BY <1>3 DEF EnsureFunding, getUtxos
    <2> QED BY <2>2, <2>3
  <1>4. CASE FundingAnswer(c) /\ Goto(c, "funded", job[c])
    <2>1. job'[c] = job[c]  BY <1>1, <1>2, <1>4, Moved
    <2>2. /\ pc[c] = "created" /\ outputs' = outputs /\ getUtxos' = getUtxos
      BY <1>4 DEF FundingAnswer, network, getUtxos
    <2>3. PICK f \in Output :
            /\ Countable(f) /\ f.tx = job[c].tx /\ f \notin job[c].seen
            /\ f.satoshis + Total(job[c].seen) >= Funds[c]
            /\ \A o \in outputs : o.tx = job[c].tx => o = f
      BY <1>1, <2>2 DEF Created
    <2>4. SeenOK(c) /\ job[c].tx # 0  BY <1>1, <2>2 DEF Created
    <2>5. f \in outputs  BY <2>1, <2>2, <2>3, <2>4
    <2>6. \A o \in outputs : Countable(o) => o \in getUtxos
      BY DEF Countable, getUtxos
    <2>7. job[c].seen \cup {f} \in SUBSET getUtxos
      BY <2>1, <2>2, <2>3, <2>4, <2>5, <2>6 DEF SeenOK
    <2>8. Total(job[c].seen \cup {f}) \in Nat /\ Total(job[c].seen \cup {f}) <= Total(getUtxos)
      BY <1>1, <2>7, UtxosTyped
    <2>9. Total(job[c].seen \cup {f}) = Total(job[c].seen) + f.satoshis
      BY <2>3, <2>4, TotalOneMore DEF SeenOK, Countable
    <2>10. Total(job[c].seen) \in Nat /\ Total(getUtxos) \in Nat /\ f.satoshis \in Nat
           /\ Funds[c] \in Nat
      BY <1>1, <2>4, TotalFacts, UtxosTyped, FundsAssumption DEF SeenOK, Countable, Output
    <2>11. \A a, b, t, u, g \in Int : b + a >= g /\ u = a + b /\ u <= t => t >= g  OBVIOUS
    <2>12. Total(getUtxos) >= Funds[c]
      BY <2>3, <2>8, <2>9, <2>10, <2>11
    <2> QED BY <2>2, <2>12
  <1> QED BY <1>1, <1>3, <1>4, OnlyTheseFund

\* When ensureFunding returns, what getUtxos offers comes to what was asked for, unless
\* somebody spent a coin it had counted or the one it had made (wallet-provider.ts
\* ensureFunding, getUtxos).
THEOREM FundedOnReturnCorrect == Spec => FundedOnReturn
  <1>1. RInv /\ [Next]_vars =>
          [\A c \in Clients :
             /\ pc[c] # "funded" /\ pc'[c] = "funded"
             /\ job'[c].seen \subseteq outputs'
             /\ job'[c].tx # 0 => \E o \in outputs' : o.tx = job'[c].tx
             => Total(getUtxos') >= Funds[c]]_vars
    BY ReturnStep
  <1> QED BY <1>1, RInductive, PTL DEF Spec, FundedOnReturn
=============================================================================
