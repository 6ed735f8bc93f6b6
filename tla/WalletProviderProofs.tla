----------------------- MODULE WalletProviderProofs -----------------------
(***************************************************************************)
(* For any clients, amounts and number of failures: no contract goes       *)
(* astray and no parent is forgotten.  Neither is inductive by itself: an  *)
(* output is found by the object that made it only because transactions    *)
(* have numbers of their own, because the answer in an object's hands is   *)
(* about its own output, and because what a call spent was what it tracked.*)
(***************************************************************************)
EXTENDS WalletProvider, TLAPS

\* The places at which a client holds an answer it has not read.
Holding == {"created", "deployed", "answered"}

\* The control state is total, and what is tracked is an outpoint of the past.
Shapes ==
  /\ made \in Nat
  /\ pc \in [Clients -> Places]
  /\ job = [c \in Clients |-> job[c]]
  /\ currentUtxo = [c \in Clients |-> currentUtxo[c]]
  /\ \A c \in Clients : currentUtxo[c] # None =>
       currentUtxo[c] \in [tx : Int, index : {0, 1}] /\ currentUtxo[c].tx <= made

\* Every output has a transaction made before, and no other output listed has it.
Numbered ==
  /\ \A o \in outputs : o.tx \in 1 .. made
  /\ \A o \in outputs, p \in outputs : o.tx = p.tx => o = p
  /\ \A o \in outputs : o.kind = "contract" => o.of \in Clients /\ o.index \in {0, 1}

\* The wallet's answer a client holds is about one transaction, and an incomplete answer
\* is on record.
AnswerOK(c) ==
  pc[c] \in {"created", "deployed"} =>
    job[c].tx \in 1 .. made /\ (job[c].answer # "whole" => job[c].tx \in muddled)

\* A client that lets the wallet deploy tracks nothing yet.
Undeployed(c) == pc[c] \in {"deploying", "deployed"} => currentUtxo[c] = None

\* When ARC has answered, what the client tracked is spent and what it made is output 0.
Accepted(c) ==
  pc[c] = "answered" =>
    /\ job[c].tx \in 1 .. made
    /\ Tracked(c) = {}
    /\ \A o \in InHand(c) : o.index = 0

ClientOK(c) == AnswerOK(c) /\ Undeployed(c) /\ Accepted(c)

\* What ParentsKept says of one transaction.
Held(tx) ==
  \/ Servable(tx) \/ tx \in muddled
  \/ \E c \in Clients : pc[c] = "created" /\ job[c].tx = tx

Kept ==
  restarted \/ ( /\ \A o \in getUtxos : Held(o.tx)
                 /\ \A c \in Clients : \A o \in Tracked(c) : Held(o.tx) )

IInv == Shapes /\ Numbered /\ (\A c \in Clients : ClientOK(c)) /\ NoStray /\ Kept


----------------------------------------------------------------------------
(* Steps that touch no output and no answer. *)

LEMMA InitIInv == Init => IInv
  BY FaultsAssumption
  DEF Init, IInv, Shapes, Numbered, ClientOK, AnswerOK, Undeployed, Accepted, NoStray, Kept,
      Places, getUtxos, Tracked

\* A client moves between places where it holds no answer; only the cache may grow.
LEMMA Quiet ==
  ASSUME IInv, NEW c \in Clients, NEW p \in Places \ Holding, NEW locals, pc[c] \notin Holding,
         Goto(c, p, locals), p = "deploying" => currentUtxo[c] = None,
         UNCHANGED <<basket, network, overlay, currentUtxo, history>>, txCache \subseteq txCache'
  PROVE  IInv'
  <1>1. /\ pc' = [pc EXCEPT ![c] = p] /\ job' = [job EXCEPT ![c] = locals]
        /\ pc \in [Clients -> Places] /\ job = [d \in Clients |-> job[d]]
    BY DEF Goto, IInv, Shapes
  <1>2. /\ pc'[c] = p /\ pc'[c] \notin Holding
        /\ \A d \in Clients \ {c} : pc'[d] = pc[d] /\ job'[d] = job[d]
    BY <1>1
  <1>3. /\ basket' = basket /\ outputs' = outputs /\ made' = made /\ overlay' = overlay
        /\ currentUtxo' = currentUtxo /\ restarted' = restarted /\ muddled' = muddled /\ lost' = lost
    BY DEF network, history
  <1>4. \A d \in Clients : InHand(d)' = InHand(d) /\ Tracked(d)' = Tracked(d)
    BY <1>2, <1>3 DEF InHand, Tracked, At, Holding
  <1>5. Shapes'  BY <1>1, <1>3 DEF IInv, Shapes
  <1>6. Numbered'  BY <1>3 DEF IInv, Numbered
  <1>7. ASSUME NEW d \in Clients PROVE ClientOK(d)'
    <2>1. CASE d = c
      BY <2>1, <1>2, <1>3 DEF ClientOK, AnswerOK, Undeployed, Accepted, Holding
    <2>2. CASE d # c
      BY <2>2, <1>2, <1>3, <1>4 DEF IInv, ClientOK, AnswerOK, Undeployed, Accepted
    <2> QED  BY <2>1, <2>2
  <1>8. NoStray'
    BY <1>3, <1>4 DEF IInv, NoStray, Numbered, At
  <1>9. \A tx : Held(tx) => Held(tx)'
    BY <1>2, <1>3 DEF Held, Servable, Holding
  <1>10. Kept'
    BY <1>3, <1>4, <1>9 DEF IInv, Kept, getUtxos
  <1> QED  BY <1>5, <1>6, <1>7, <1>8, <1>10 DEF IInv

LEMMA EnsureFundingStep == \A c \in Clients : IInv /\ EnsureFunding(c) => IInv'
  <1> SUFFICES ASSUME NEW c \in Clients, IInv, EnsureFunding(c) PROVE IInv'
    OBVIOUS
  <1>a. PICK p \in {"funded", "asking"} : \E locals : Goto(c, p, locals)
    BY DEF EnsureFunding
  <1>1. PICK locals : Goto(c, p, locals)
    BY <1>a
  <1>2. pc[c] \notin Holding  BY DEF EnsureFunding, Holding
  <1>3. p \in Places \ Holding /\ p # "deploying"  BY DEF Places, Holding
  <1> QED  BY <1>1, <1>2, <1>3, Quiet DEF EnsureFunding

LEMMA BuildStep == \A c \in Clients : IInv /\ Build(c) => IInv'
  <1> SUFFICES ASSUME NEW c \in Clients, IInv, Build(c) PROVE IInv'
    OBVIOUS
  <1>1. txCache \subseteq txCache' /\ \E p \in {"idle", "sent"} : \E locals : Goto(c, p, locals)
    <2>1. CASE Settle(c) /\ UNCHANGED txCache
      BY <2>1 DEF Settle
    <2>2. ASSUME NEW S,
                 txCache' = txCache \cup {tx \in Parents(c, S) : Fetchable(tx)},
                 Goto(c, "sent", [Fresh EXCEPT !.coins = S]) \/ Settle(c)
          PROVE  txCache \subseteq txCache' /\ \E p \in {"idle", "sent"} : \E locals : Goto(c, p, locals)
      BY <2>2 DEF Settle
    <2> QED  BY <2>1, <2>2 DEF Build
  <1>a. PICK p \in {"idle", "sent"} : \E locals : Goto(c, p, locals)
    BY <1>1
  <1>2. PICK locals : Goto(c, p, locals)
    BY <1>a
  <1>3. pc[c] \notin Holding  BY DEF Build, Holding
  <1>4. p \in Places \ Holding /\ p # "deploying"  BY DEF Places, Holding
  <1> QED  BY <1>1, <1>2, <1>3, <1>4, Quiet DEF Build

LEMMA QuietSteps ==
  \A c \in Clients : IInv /\ (DeployWithWallet(c) \/ Decline(c) \/ Refuse(c)) => IInv'
  <1> SUFFICES ASSUME NEW c \in Clients, IInv, DeployWithWallet(c) \/ Decline(c) \/ Refuse(c)
               PROVE  IInv'
    OBVIOUS
  <1> USE DEF Holding, Places
  <1>1. CASE DeployWithWallet(c)  BY <1>1, Quiet DEF DeployWithWallet
  <1>2. CASE Decline(c)           BY <1>2, Quiet DEF Decline, Settle
  <1>3. CASE Refuse(c)            BY <1>3, Quiet DEF Refuse, Settle
  <1> QED  BY <1>1, <1>2, <1>3

----------------------------------------------------------------------------
(* Steps of the outside world. *)

LEMMA NoticeStep == IInv /\ Notice => IInv'
  <1> SUFFICES ASSUME IInv, Notice PROVE IInv'
    OBVIOUS
  <1>1. /\ basket' \subseteq basket /\ UNCHANGED <<network, overlay, txCache, currentUtxo, pc, job, history>>
    BY DEF Notice
  <1>2. \A d \in Clients : InHand(d)' = InHand(d) /\ Tracked(d)' = Tracked(d)
    BY <1>1 DEF InHand, Tracked, At, network
  <1>3. Shapes' /\ Numbered'  BY <1>1 DEF IInv, Shapes, Numbered, network
  <1>4. \A d \in Clients : ClientOK(d)'
    BY <1>1, <1>2 DEF IInv, ClientOK, AnswerOK, Undeployed, Accepted, network, history
  <1>5. NoStray'  BY <1>1, <1>2 DEF IInv, NoStray, Numbered, At, network, history
  <1>6. Kept'
    BY <1>1, <1>2 DEF IInv, Kept, Held, Servable, getUtxos, network, history
  <1> QED  BY <1>3, <1>4, <1>5, <1>6 DEF IInv

LEMMA RestartStep == IInv /\ Restart => IInv'
  <1> SUFFICES ASSUME IInv, Restart PROVE IInv'
    OBVIOUS
  <1>1. /\ UNCHANGED <<basket, network, overlay, currentUtxo, muddled>> /\ restarted' = TRUE
        /\ pc' = [c \in Clients |-> "idle"] /\ job' = [c \in Clients |-> Fresh]
        /\ lost' = lost \cup UNION {InHand(c) : c \in Clients}
    BY DEF Restart
  <1>2. Shapes' /\ Numbered'  BY <1>1 DEF IInv, Shapes, Numbered, network, Places
  <1>3. \A d \in Clients : ClientOK(d)'
    BY <1>1 DEF ClientOK, AnswerOK, Undeployed, Accepted
  <1>4. NoStray'
    <2> SUFFICES ASSUME NEW o \in outputs, o.kind = "contract"
                 PROVE  At(o, currentUtxo[o.of]) \/ o \in lost' \/ o.tx \in muddled
      BY <1>1 DEF NoStray, network, At
    <2>1. o.of \in Clients  BY DEF IInv, Numbered
    <2>2. o \in InHand(o.of) => o \in lost'  BY <1>1, <2>1
    <2> QED  BY <2>1, <2>2, <1>1 DEF IInv, NoStray
  <1>5. Kept'  BY <1>1 DEF Kept
  <1> QED  BY <1>2, <1>3, <1>4, <1>5 DEF IInv

----------------------------------------------------------------------------
(* The wallet makes a transaction. *)

\* The wallet makes the transaction of output o and answers client c.
LEMMA Made ==
  ASSUME IInv, NEW c \in Clients, NEW o, NEW answer, NEW locals, NEW place \in {"created", "deployed"},
         o.tx = made + 1, outputs' = outputs \cup {o}, basket' = basket \cup {o},
         locals.tx = made + 1, locals.answer = answer, Goto(c, place, locals),
         muddled' = muddled \/ muddled' = muddled \cup {made + 1},
         answer # "whole" => muddled' = muddled \cup {made + 1},
         place = "created" => pc[c] = "asking" /\ o.kind = "p2pkh",
         place = "deployed" => /\ pc[c] = "deploying"
                               /\ o.kind = "contract" /\ o.of = c /\ o.index \in {0, 1},
         made' = made + 1, UNCHANGED <<overlay, txCache, currentUtxo, restarted, lost>>
  PROVE  IInv'
  <1>2. /\ made' = made + 1 /\ made \in Nat
        /\ UNCHANGED <<overlay, txCache, currentUtxo, restarted, lost>>
    BY DEF IInv, Shapes
  <1>3. /\ pc' = [pc EXCEPT ![c] = place] /\ job' = [job EXCEPT ![c] = locals]
        /\ pc \in [Clients -> Places] /\ job = [d \in Clients |-> job[d]]
    BY DEF Goto, IInv, Shapes
  <1>4. /\ pc'[c] = place /\ job'[c] = locals
        /\ \A d \in Clients \ {c} : pc'[d] = pc[d] /\ job'[d] = job[d]
    BY <1>3
  <1>5. \A p \in outputs : p.tx \in 1 .. made /\ p \in outputs'
    BY DEF IInv, Numbered
  <1>6. \A d \in Clients : ~At(o, currentUtxo[d])
    BY <1>2 DEF IInv, Shapes, At
  <1>7. \A d \in Clients : Tracked(d)' = Tracked(d)
    BY <1>2, <1>6 DEF Tracked, At
  <1>8. \A d \in Clients \ {c} : InHand(d)' = InHand(d)
    BY <1>2, <1>4 DEF InHand, IInv, ClientOK, AnswerOK, Accepted
  <1>9. Shapes'
    <2>1. made' \in Nat /\ made <= made'  BY <1>2
    <2>2. pc' \in [Clients -> Places]  BY <1>3 DEF Places
    <2>3. job' = [d \in Clients |-> job'[d]]  BY <1>3
    <2>4. \A d \in Clients : currentUtxo[d] # None =>
            currentUtxo[d] \in [tx : Int, index : {0, 1}] /\ currentUtxo[d].tx <= made + 1
      BY <1>2 DEF IInv, Shapes
    <2> QED  BY <1>2, <2>1, <2>2, <2>3, <2>4 DEF IInv, Shapes
  <1>10. Numbered'
    BY <1>2, <1>5 DEF IInv, Numbered
  <1>11. ASSUME NEW d \in Clients PROVE ClientOK(d)'
    <2>1. CASE d = c
      BY <2>1, <1>2, <1>4 DEF IInv, ClientOK, AnswerOK, Undeployed, Accepted
    <2>2. CASE d # c
      BY <2>2, <1>2, <1>4, <1>7, <1>8 DEF IInv, ClientOK, AnswerOK, Undeployed, Accepted
    <2> QED  BY <2>1, <2>2
  <1>12. NoStray'
    <2> SUFFICES ASSUME NEW p \in outputs', p.kind = "contract"
                 PROVE  At(p, currentUtxo[p.of]) \/ p \in InHand(p.of)' \/ p \in lost \/ p.tx \in muddled'
      BY <1>2 DEF NoStray, At
    <2>1. CASE p = o
      <3>1. p \in InHand(c)'  BY <2>1, <1>4 DEF InHand
      <3> QED  BY <3>1, <2>1
    <2>2. CASE p \in outputs
      <3>1. p.of \in Clients  BY <2>2 DEF IInv, Numbered
      <3>2. InHand(c) = {}  BY DEF InHand
      <3> QED  BY <2>2, <3>1, <3>2, <1>8 DEF IInv, NoStray
    <2> QED  BY <2>1, <2>2
  <1>13. \A tx : Held(tx) => Held(tx)'
    BY <1>2, <1>4 DEF Held, Servable
  <1>14. Kept'
    <2>1. o \in getUtxos' => Held(o.tx)'
      BY <1>4 DEF getUtxos, Held
    <2> QED  BY <2>1, <1>2, <1>7, <1>13 DEF IInv, Kept, getUtxos
  <1> QED  BY <1>9, <1>10, <1>11, <1>12, <1>14 DEF IInv

LEMMA CreateActionStep == \A c \in Clients : IInv /\ CreateAction(c) => IInv'
  <1> SUFFICES ASSUME NEW c \in Clients, IInv, CreateAction(c) PROVE IInv'
    OBVIOUS
  <1> DEFINE locals(answer) ==
        [Fresh EXCEPT !.seen = job[c].seen, !.tx = made + 1, !.answer = answer]
             Answers(place, answer) ==
        /\ IF answer = "whole" THEN UNCHANGED <<faults, muddled>>
           ELSE Fault /\ muddled' = muddled \cup {made + 1}
        /\ Goto(c, place, locals(answer))
  <1>1. \A answer : locals(answer).tx = made + 1 /\ locals(answer).answer = answer
    BY DEF Fresh
  <1>2. made' = made + 1 /\ UNCHANGED <<overlay, txCache, currentUtxo, restarted, lost>>
    BY DEF CreateAction
  <1>3. CASE pc[c] = "asking"
    <2> DEFINE o == FundingOutput(c, job[c].amount)
    <2>1. PICK answer : outputs' = outputs \cup {o} /\ basket' = basket \cup {o}
                        /\ Answers("created", answer)
      BY <1>3 DEF CreateAction
    <2>2. o.tx = made + 1 /\ o.kind = "p2pkh"  BY DEF FundingOutput
    <2> HIDE DEF o, locals
    <2> QED  BY <1>1, <1>2, <1>3, <2>1, <2>2, Made
  <1>4. CASE pc[c] = "deploying"
    <2> DEFINE o(index) ==
          [tx |-> made + 1, index |-> index, kind |-> "contract", of |-> c,
           tagged |-> FALSE, satoshis |-> 1]
    <2>a. PICK index \in {0, 1} : \E answer :
            outputs' = outputs \cup {o(index)} /\ basket' = basket \cup {o(index)}
            /\ Answers("deployed", answer)
      BY <1>4 DEF CreateAction
    <2>1. PICK answer :
            outputs' = outputs \cup {o(index)} /\ basket' = basket \cup {o(index)}
            /\ Answers("deployed", answer)
      BY <2>a
    <2>2. /\ o(index).tx = made + 1 /\ o(index).kind = "contract"
          /\ o(index).of = c /\ o(index).index = index
      OBVIOUS
    <2> HIDE DEF o, locals
    <2> QED  BY <1>1, <1>2, <1>4, <2>1, <2>2, Made
  <1> QED  BY <1>3, <1>4 DEF CreateAction

----------------------------------------------------------------------------
(* Answers arrive. *)

\* What Learn does to the cache: what it learned of is there, or the answer was incomplete.
LEMMA Learned ==
  ASSUME NEW c \in Clients, NEW parents, Learn(c, parents)
  PROVE  /\ txCache \subseteq txCache' /\ overlay \subseteq overlay'
         /\ job[c].answer = "whole" => job[c].tx \in txCache'
  <1>1. CASE Announced(job[c].tx)
    BY <1>1 DEF Announced
  <1>2. CASE txCache' = txCache \cup (IF job[c].answer = "whole" THEN {job[c].tx} ELSE {})
             /\ UNCHANGED overlay
    BY <1>2
  <1> QED  BY <1>1, <1>2 DEF Learn

LEMMA FundingAnswerStep == \A c \in Clients : IInv /\ FundingAnswer(c) => IInv'
  <1> SUFFICES ASSUME NEW c \in Clients, IInv, FundingAnswer(c) PROVE IInv'
    OBVIOUS
  <1>a. PICK p \in {"idle", "funded"} : \E locals : Goto(c, p, locals)
    BY DEF FundingAnswer, Settle
  <1>1. PICK locals : Goto(c, p, locals)
    BY <1>a
  <1>2. /\ pc' = [pc EXCEPT ![c] = p] /\ job' = [job EXCEPT ![c] = locals]
        /\ pc \in [Clients -> Places] /\ job = [d \in Clients |-> job[d]]
    BY <1>1 DEF Goto, IInv, Shapes
  <1>3. /\ pc[c] = "created" /\ pc'[c] = p
        /\ \A d \in Clients \ {c} : pc'[d] = pc[d] /\ job'[d] = job[d]
    BY <1>2 DEF FundingAnswer
  <1>4. UNCHANGED <<basket, network, currentUtxo, history>>
    BY DEF FundingAnswer
  <1>5. /\ txCache \subseteq txCache' /\ overlay \subseteq overlay'
        /\ job[c].answer = "whole" => job[c].tx \in txCache'
    BY Learned DEF FundingAnswer
  <1>6. \A d \in Clients : InHand(d)' = InHand(d) /\ Tracked(d)' = Tracked(d)
    BY <1>3, <1>4 DEF InHand, Tracked, At, network
  <1>7. Shapes' /\ Numbered'
    BY <1>2, <1>4 DEF IInv, Shapes, Numbered, network, Places
  <1>8. ASSUME NEW d \in Clients PROVE ClientOK(d)'
    <2>1. CASE d = c
      BY <2>1, <1>3 DEF ClientOK, AnswerOK, Undeployed, Accepted
    <2>2. CASE d # c
      BY <2>2, <1>3, <1>4, <1>6 DEF IInv, ClientOK, AnswerOK, Undeployed, Accepted, network, history
    <2> QED  BY <2>1, <2>2
  <1>9. NoStray'
    BY <1>4, <1>6 DEF IInv, NoStray, Numbered, At, network, history
  <1>10. ASSUME NEW tx, Held(tx) PROVE Held(tx)'
    <2>1. CASE Servable(tx) \/ tx \in muddled
      BY <2>1, <1>4, <1>5 DEF Held, Servable, history
    <2>2. CASE job[c].tx = tx
      <3>1. job[c].answer # "whole" => tx \in muddled
        BY <2>2, <1>3 DEF IInv, ClientOK, AnswerOK
      <3> QED  BY <2>2, <3>1, <1>4, <1>5 DEF Held, Servable, history
    <2>3. ASSUME NEW d \in Clients \ {c}, pc[d] = "created", job[d].tx = tx PROVE Held(tx)'
      BY <2>3, <1>3 DEF Held
    <2> QED  BY <1>10, <2>1, <2>2, <2>3 DEF Held
  <1>11. Kept'
    BY <1>4, <1>6, <1>10 DEF IInv, Kept, getUtxos, network, history
  <1> QED  BY <1>7, <1>8, <1>9, <1>11 DEF IInv

\* A client that held an answer about its deployment or call goes to rest, tracking what
\* it was told of.
LEMMA Arrives ==
  ASSUME IInv, NEW c \in Clients, pc[c] \in {"deployed", "answered"}, Settle(c),
         UNCHANGED <<basket, network, restarted, muddled>>, lost \subseteq lost',
         txCache \subseteq txCache', overlay \subseteq overlay',
         NEW utxo, currentUtxo' = [currentUtxo EXCEPT ![c] = utxo],
         utxo # None => utxo \in [tx : Int, index : {0, 1}] /\ utxo.tx <= made,
         \A o \in InHand(c) : At(o, utxo) \/ o \in lost' \/ o.tx \in muddled,
         \A o \in outputs : o.of = c /\ o.kind = "contract" /\ At(o, utxo) =>
           o.tx \in txCache' \/ o.tx \in muddled
  PROVE  IInv'
  <1>1. /\ pc' = [pc EXCEPT ![c] = "idle"] /\ job' = [job EXCEPT ![c] = Fresh]
        /\ pc \in [Clients -> Places] /\ job = [d \in Clients |-> job[d]]
        /\ currentUtxo = [d \in Clients |-> currentUtxo[d]]
    BY DEF Settle, Goto, IInv, Shapes
  <1>2. /\ pc'[c] = "idle" /\ currentUtxo'[c] = utxo
        /\ \A d \in Clients \ {c} :
             pc'[d] = pc[d] /\ job'[d] = job[d] /\ currentUtxo'[d] = currentUtxo[d]
    BY <1>1
  <1>3. outputs' = outputs /\ made' = made /\ basket' = basket
    BY DEF network
  <1>4. \A d \in Clients \ {c} : InHand(d)' = InHand(d) /\ Tracked(d)' = Tracked(d)
    BY <1>2, <1>3 DEF InHand, Tracked, At
  <1>5. Shapes'
    <2>1. pc' \in [Clients -> Places] /\ job' = [d \in Clients |-> job'[d]]
      BY <1>1 DEF Places
    <2>2. currentUtxo' = [d \in Clients |-> currentUtxo'[d]]
      BY <1>1
    <2>3. ASSUME NEW d \in Clients, currentUtxo'[d] # None
          PROVE  currentUtxo'[d] \in [tx : Int, index : {0, 1}] /\ currentUtxo'[d].tx <= made'
      BY <2>3, <1>2, <1>3 DEF IInv, Shapes
    <2> QED  BY <1>3, <2>1, <2>2, <2>3 DEF IInv, Shapes
  <1>6. Numbered'  BY <1>3 DEF IInv, Numbered
  <1>7. ASSUME NEW d \in Clients PROVE ClientOK(d)'
    <2>1. CASE d = c
      BY <2>1, <1>2 DEF ClientOK, AnswerOK, Undeployed, Accepted
    <2>2. CASE d # c
      BY <2>2, <1>2, <1>3, <1>4 DEF IInv, ClientOK, AnswerOK, Undeployed, Accepted
    <2> QED  BY <2>1, <2>2
  <1>8. NoStray'
    <2> SUFFICES ASSUME NEW o \in outputs, o.kind = "contract"
                 PROVE  At(o, currentUtxo'[o.of]) \/ o \in InHand(o.of)' \/ o \in lost' \/ o.tx \in muddled
      BY <1>3 DEF NoStray, At
    <2>1. o.of \in Clients /\ (At(o, currentUtxo[o.of]) \/ o \in InHand(o.of) \/ o \in lost \/ o.tx \in muddled)
      BY DEF IInv, NoStray, Numbered
    <2>2. CASE o.of = c
      <3>1. ~At(o, currentUtxo[c])
        <4>1. CASE pc[c] = "deployed"
          BY <4>1 DEF IInv, ClientOK, Undeployed, At
        <4>2. CASE pc[c] = "answered"
          BY <4>2, <2>2 DEF IInv, ClientOK, Accepted, Tracked
        <4> QED  BY <4>1, <4>2
      <3> QED  BY <2>1, <2>2, <3>1, <1>2
    <2>3. CASE o.of # c
      BY <2>1, <2>3, <1>2, <1>4
    <2> QED  BY <2>2, <2>3
  <1>9. \A tx : Held(tx) => Held(tx)'
    BY <1>2 DEF Held, Servable
  <1>10. Kept'
    <2>1. ASSUME NEW o \in Tracked(c)' PROVE Held(o.tx)'
      BY <2>1, <1>2, <1>3 DEF Tracked, At, Held, Servable
    <2>2. \A o \in getUtxos' : o \in getUtxos  BY <1>3 DEF getUtxos
    <2> QED  BY <2>1, <2>2, <1>4, <1>9 DEF IInv, Kept
  <1> QED  BY <1>5, <1>6, <1>7, <1>8, <1>10 DEF IInv

LEMMA BroadcastReturnsStep == \A c \in Clients : IInv /\ BroadcastReturns(c) => IInv'
  <1> SUFFICES ASSUME NEW c \in Clients, IInv, BroadcastReturns(c) PROVE IInv'
    OBVIOUS
  <1> DEFINE utxo == [tx |-> job[c].tx, index |-> 0]
  <1>1. /\ pc[c] = "answered" /\ Settle(c) /\ UNCHANGED <<basket, network, restarted, muddled, lost>>
        /\ currentUtxo' = [currentUtxo EXCEPT ![c] = utxo]
    BY DEF BroadcastReturns, history
  <1>2. job[c].tx \in 1 .. made /\ (\A o \in InHand(c) : o.index = 0) /\ made \in Nat
    BY <1>1 DEF IInv, ClientOK, Accepted, Shapes
  <1>3. txCache \subseteq txCache' /\ overlay \subseteq overlay' /\ job[c].tx \in txCache'
    BY DEF BroadcastReturns, Announced
  <1>4. utxo \in [tx : Int, index : {0, 1}] /\ utxo.tx <= made
    BY <1>2
  <1>5. utxo # None  BY <1>4, NoneAssumption
  <1>6. \A o \in InHand(c) : At(o, utxo)
    BY <1>2, <1>5 DEF InHand, At
  <1>7. \A o : At(o, utxo) => o.tx \in txCache'
    BY <1>3 DEF At
  <1> HIDE DEF utxo
  <1> QED  BY <1>1, <1>3, <1>4, <1>6, <1>7, Arrives

\* The search finds the only output of its transaction.
LEMMA Found ==
  ASSUME IInv, NEW c \in Clients, NEW o \in outputs, o.kind = "contract", o.of = c
  PROVE  FoundIndex(o.tx, c) = o.index
  <1> DEFINE at == {p.index : p \in {q \in outputs : q.tx = o.tx /\ q.kind = "contract" /\ q.of = c}}
  <1>1. \A q \in outputs : q.tx = o.tx => q = o  BY DEF IInv, Numbered
  <1>2. at = {o.index}  BY <1>1
  <1>3. o.index \in {0, 1}  BY DEF IInv, Numbered
  <1>4. (CHOOSE k \in at : \A j \in at : k <= j) = o.index  BY <1>2, <1>3
  <1> QED  BY <1>2, <1>4 DEF FoundIndex

LEMMA DeployAnswerStep == \A c \in Clients : IInv /\ DeployAnswer(c) => IInv'
  <1> SUFFICES ASSUME NEW c \in Clients, IInv, DeployAnswer(c) PROVE IInv'
    OBVIOUS
  <1>1. /\ pc[c] = "deployed" /\ Settle(c) /\ UNCHANGED <<basket, network, restarted, muddled>>
        /\ lost' = IF job[c].answer = "error" THEN lost \cup InHand(c) ELSE lost
    BY DEF DeployAnswer
  <1>2. /\ txCache \subseteq txCache' /\ overlay \subseteq overlay'
        /\ job[c].answer = "whole" => job[c].tx \in txCache'
    BY Learned DEF DeployAnswer
  <1>3. /\ job[c].tx \in 1 .. made /\ made \in Nat /\ currentUtxo[c] = None
        /\ job[c].answer # "whole" => job[c].tx \in muddled
    BY <1>1 DEF IInv, ClientOK, AnswerOK, Undeployed, Shapes
  <1>4. \A o \in InHand(c) : o \in outputs /\ o.kind = "contract" /\ o.of = c /\ o.tx = job[c].tx
    BY DEF InHand
  <1>5. CASE job[c].answer = "error"
    <2>1. currentUtxo' = [currentUtxo EXCEPT ![c] = None]
      BY <1>3, <1>5 DEF DeployAnswer, IInv, Shapes
    <2>2. \A o \in InHand(c) : o \in lost'  BY <1>1, <1>5
    <2> QED  BY <1>1, <1>2, <2>1, <2>2, Arrives DEF At
  <1>6. ASSUME NEW index, Track(c, index), job[c].answer # "error",
               job[c].answer = "whole" => index = FoundIndex(job[c].tx, c),
               index \in {0, 1}
        PROVE  IInv'
    <2> DEFINE txid == IF job[c].answer = "no txid" THEN NoTxid ELSE job[c].tx
               utxo == [tx |-> txid, index |-> index]
    <2>1. currentUtxo' = [currentUtxo EXCEPT ![c] = utxo]  BY <1>6 DEF Track
    <2>2. txid = -1 \/ txid = job[c].tx  BY DEF NoTxid
    <2>3. job[c].answer = "whole" => txid = job[c].tx  OBVIOUS
    <2> HIDE DEF txid
    <2>4. txid \in Int /\ txid <= made  BY <1>3, <2>2
    <2>5. utxo \in [tx : Int, index : {0, 1}] /\ utxo.tx <= made  BY <1>6, <2>4
    <2>6. utxo # None  BY <2>5, NoneAssumption
    <2>7. ASSUME NEW o \in InHand(c) PROVE At(o, utxo) \/ o.tx \in muddled
      <3>1. CASE job[c].answer = "whole"
        <4>1. FoundIndex(job[c].tx, c) = o.index  BY <1>4, Found
        <4>2. o.tx = utxo.tx /\ o.index = utxo.index  BY <1>4, <1>6, <2>3, <3>1, <4>1
        <4> QED  BY <2>6, <4>2 DEF At
      <3>2. CASE job[c].answer # "whole"
        BY <1>3, <1>4, <3>2
      <3> QED  BY <3>1, <3>2
    <2>8. ASSUME NEW o \in outputs, At(o, utxo) PROVE o.tx \in txCache' \/ o.tx \in muddled
      <3>1. o.tx = txid /\ o.tx \in 1 .. made  BY <2>8 DEF At, IInv, Numbered
      <3>2. o.tx = job[c].tx  BY <3>1, <2>2, <1>3
      <3> QED  BY <3>2, <1>2, <1>3
    <2> HIDE DEF utxo
    <2>9. lost' = lost  BY <1>1, <1>6
    <2> QED  BY <1>1, <1>2, <2>1, <2>5, <2>7, <2>8, <2>9, Arrives
  <1>7. CASE job[c].answer = "no tx"
    <2>1. Track(c, 0)  BY <1>7 DEF DeployAnswer
    <2> QED  BY <1>6, <1>7, <2>1
  <1>8. CASE job[c].answer \notin {"error", "no tx"}
    <2>1. Track(c, FoundIndex(job[c].tx, c))  BY <1>8 DEF DeployAnswer
    <2>2. FoundIndex(job[c].tx, c) \in {0, 1}
      <3>1. CASE \E o \in outputs : o.tx = job[c].tx /\ o.kind = "contract" /\ o.of = c
        BY <3>1, Found DEF IInv, Numbered
      <3>2. CASE ~\E o \in outputs : o.tx = job[c].tx /\ o.kind = "contract" /\ o.of = c
        BY <3>2 DEF FoundIndex
      <3> QED  BY <3>1, <3>2
    <2> QED  BY <1>6, <1>8, <2>1, <2>2
  <1> QED  BY <1>5, <1>7, <1>8

LEMMA AcceptStep == \A c \in Clients : IInv /\ Accept(c) => IInv'
  <1> SUFFICES ASSUME NEW c \in Clients, IInv, Accept(c) PROVE IInv'
    OBVIOUS
  <1> DEFINE new == [tx |-> made + 1, index |-> 0, kind |-> "contract", of |-> c,
                     tagged |-> FALSE, satoshis |-> 1]
  <1>1. new.tx = made + 1 /\ new.index = 0 /\ new.kind = "contract" /\ new.of = c
    OBVIOUS
  <1>2. /\ pc[c] = "sent" /\ made' = made + 1 /\ made \in Nat
        /\ outputs' = (outputs \ (job[c].coins \cup Tracked(c))) \cup {new}
        /\ UNCHANGED <<basket, overlay, txCache, currentUtxo, restarted, muddled>>
    BY DEF Accept, IInv, Shapes
  <1>a. \E p \in {"answered", "idle"} : \E locals :
          /\ Goto(c, p, locals) /\ lost \subseteq lost'
          /\ p = "answered" => locals.tx = made + 1
          /\ p = "idle" => new \in lost'
    <2>1. [Fresh EXCEPT !.tx = made + 1].tx = made + 1  BY DEF Fresh
    <2> HIDE DEF new
    <2>2. CASE Goto(c, "answered", [Fresh EXCEPT !.tx = made + 1]) /\ UNCHANGED lost
      <3> DEFINE j == [Fresh EXCEPT !.tx = made + 1]
      <3> HIDE DEF j
      <3> QED  BY <2>1, <2>2 DEF j
    <2>3. CASE Settle(c) /\ lost' = lost \cup {new}
      BY <2>3 DEF Settle
    <2> QED  BY <2>2, <2>3 DEF Accept, new
  <1> HIDE DEF new
  <1>b. PICK p \in {"answered", "idle"} : \E locals :
          /\ Goto(c, p, locals) /\ lost \subseteq lost'
          /\ p = "answered" => locals.tx = made + 1
          /\ p = "idle" => new \in lost'
    BY <1>a
  <1>3. PICK locals :
          /\ Goto(c, p, locals) /\ lost \subseteq lost'
          /\ p = "answered" => locals.tx = made + 1
          /\ p = "idle" => new \in lost'
    BY <1>b
  <1>4. /\ pc' = [pc EXCEPT ![c] = p] /\ job' = [job EXCEPT ![c] = locals]
        /\ pc \in [Clients -> Places] /\ job = [d \in Clients |-> job[d]]
    BY <1>3 DEF Goto, IInv, Shapes
  <1>5. /\ pc'[c] = p /\ job'[c] = locals
        /\ \A d \in Clients \ {c} : pc'[d] = pc[d] /\ job'[d] = job[d]
    BY <1>4
  <1>6. \A d \in Clients : ~At(new, currentUtxo[d])
    BY <1>1, <1>2 DEF IInv, Shapes, At
  <1>7. \A d \in Clients : Tracked(d)' \subseteq Tracked(d)
    BY <1>2, <1>6 DEF Tracked, At
  <1>8. Tracked(c)' = {}
    BY <1>2, <1>6 DEF Tracked, At
  <1>9. \A d \in Clients \ {c} : InHand(d)' \subseteq InHand(d)
    BY <1>1, <1>2, <1>5 DEF InHand
  <1>10. Shapes'
    <2>1. made' \in Nat /\ made <= made'  BY <1>2
    <2>2. pc' \in [Clients -> Places]  BY <1>4 DEF Places
    <2>3. job' = [d \in Clients |-> job'[d]]  BY <1>4
    <2>4. \A d \in Clients : currentUtxo[d] # None =>
            currentUtxo[d] \in [tx : Int, index : {0, 1}] /\ currentUtxo[d].tx <= made + 1
      BY <1>2 DEF IInv, Shapes
    <2> QED  BY <1>2, <2>1, <2>2, <2>3, <2>4 DEF IInv, Shapes
  <1>11. Numbered'
    BY <1>1, <1>2 DEF IInv, Numbered
  <1>12. ASSUME NEW d \in Clients PROVE ClientOK(d)'
    <2>1. CASE d = c
      <3>1. p = "answered" => \A o \in InHand(c)' : o = new
        BY <1>1, <1>2, <1>3, <1>5 DEF InHand, IInv, Numbered
      <3> QED  BY <2>1, <3>1, <1>1, <1>2, <1>3, <1>5, <1>8 DEF ClientOK, AnswerOK, Undeployed, Accepted
    <2>2. CASE d # c
      BY <2>2, <1>2, <1>5, <1>7, <1>9 DEF IInv, ClientOK, AnswerOK, Undeployed, Accepted
    <2> QED  BY <2>1, <2>2
  <1>13. NoStray'
    <2> SUFFICES ASSUME NEW o \in outputs', o.kind = "contract"
                 PROVE  At(o, currentUtxo[o.of]) \/ o \in InHand(o.of)' \/ o \in lost' \/ o.tx \in muddled
      BY <1>2 DEF NoStray, At
    <2>1. CASE o = new
      BY <2>1, <1>1, <1>2, <1>3, <1>5 DEF InHand
    <2>2. CASE o \in outputs
      <3>1. o.of \in Clients /\ (At(o, currentUtxo[o.of]) \/ o \in InHand(o.of) \/ o \in lost \/ o.tx \in muddled)
        BY <2>2 DEF IInv, NoStray, Numbered
      <3>2. InHand(c) = {}  BY <1>2 DEF InHand
      <3>3. o.of # c /\ o \in InHand(o.of) => o \in InHand(o.of)'
        BY <3>1, <1>5 DEF InHand
      <3> QED  BY <3>1, <3>2, <3>3, <1>3
    <2> QED  BY <2>1, <2>2, <1>2
  <1>14. \A tx : Held(tx) => Held(tx)'
    BY <1>2, <1>5 DEF Held, Servable
  <1>15. Kept'
    BY <1>2, <1>7, <1>14 DEF IInv, Kept, getUtxos
  <1> QED  BY <1>10, <1>11, <1>12, <1>13, <1>15 DEF IInv

----------------------------------------------------------------------------

LEMMA NextIInv == IInv /\ [Next]_vars => IInv'
  <1> SUFFICES ASSUME IInv, [Next]_vars PROVE IInv'
    OBVIOUS
  <1>1. CASE UNCHANGED vars
    BY <1>1
    DEF vars, network, history, IInv, Shapes, Numbered, ClientOK, AnswerOK, Undeployed, Accepted,
        NoStray, Kept, Held, Servable, getUtxos, Tracked, InHand, At
  <1>2. ASSUME NEW c \in Clients, Continue(c) PROVE IInv'
    BY <1>2, EnsureFundingStep, FundingAnswerStep, BuildStep, BroadcastReturnsStep, QuietSteps,
       DeployAnswerStep
    DEF Continue
  <1>3. ASSUME NEW c \in Clients, Answer(c) PROVE IInv'
    BY <1>3, CreateActionStep, QuietSteps, AcceptStep DEF Answer
  <1> QED  BY <1>1, <1>2, <1>3, NoticeStep, RestartStep DEF Next

\* In every behaviour of any number of clients an unspent contract output is tracked by
\* its object, or on its way to it, unless an answer was lost or incomplete: the search
\* through deployWithWallet's outputs and the assignments after broadcast.
THEOREM NoStrayCorrect == Spec => []NoStray
  <1>1. IInv => NoStray  BY DEF IInv
  <1> QED  BY <1>1, InitIInv, NextIInv, PTL DEF Spec

\* In every behaviour a listed coin and a tracked output have a parent the provider can
\* fetch, unless the process was restarted or an answer was incomplete: cacheTx and the
\* cache of broadcastTx cover every way a transaction is made.
THEOREM ParentsKeptCorrect == Spec => []ParentsKept
  <1>1. IInv => ParentsKept
    BY DEF IInv, Kept, Held, ParentsKept
  <1> QED  BY <1>1, InitIInv, NextIInv, PTL DEF Spec

============================================================================
