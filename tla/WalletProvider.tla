-------------------------- MODULE WalletProvider --------------------------
(***************************************************************************)
(* One WalletProvider (packages/runar-sdk/src/providers/wallet-provider.ts)*)
(* shared by the contract objects ("clients") of an application: a BRC-100 *)
(* wallet makes funding coins and, for deployWithWallet, the deployment;   *)
(* the SDK spends the coins of the wallet's basket itself, through ARC,    *)
(* and needs every parent transaction to do so (extended format).          *)
(*                                                                         *)
(* Each client deploys its contract and calls it once, asking for funding  *)
(* first, and begins again when a step throws.  An action is the code      *)
(* between two awaits.  The wallet, ARC and the overlay are external.      *)
(***************************************************************************)
EXTENDS Integers, FiniteSets, SetSums

CONSTANTS
  Clients,     \* contract objects connected to the provider
  Funds,       \* Funds[c]: the minSatoshis client c passes to ensureFunding
  Cost,        \* satoshis a deployment or call takes from its coins
  WalletMade,  \* the clients that deploy with deployWithWallet
  HasOverlay,  \* whether an overlay service is configured
  Indexed,     \* whether the overlay knows the wallet's own transactions as well
  MaxFaults,   \* BOUND: failures of the wallet, ARC and the process
  None

ASSUME ClientsAssumption == IsFiniteSet(Clients)
ASSUME FundsAssumption  == Funds \in [Clients -> Nat]
ASSUME CostAssumption   == Cost \in Nat \ {0}
ASSUME FaultsAssumption == MaxFaults \in Nat
ASSUME NoneAssumption   == None \notin [tx : Int, index : {0, 1}] /\ None \notin Clients

VARIABLES
  basket,       \* wallet: the outputs listOutputs reports as spendable
  outputs,      \* network: the unspent outputs, but for change nobody lists
  made,         \* how many transactions were made; they are numbered from 1
  overlay,      \* the transactions the overlay service can serve
  txCache,      \* txCache: the transactions this process has the bytes of
  currentUtxo,  \* currentUtxo of each client's contract
  called,       \* whether a client's call is done
  pc, job,      \* the await each client is at, and its locals
  faults,       \* how many failures there were
  restarted,    \* history: the process was restarted
  muddled,      \* history: transactions the wallet's answer did not show
  lost          \* history: contract outputs whose maker never learned of them

network == <<outputs, made>>
history == <<restarted, muddled, lost>>
vars == <<basket, network, overlay, txCache, currentUtxo, called, pc, job, faults, history>>

Output ==
  [ tx : Nat, index : {0, 1}, kind : {"p2pkh", "contract"}, of : Clients \cup {None},
    tagged : BOOLEAN, satoshis : Nat ]

WalletCoins == 0    \* the wallet's own transactions, which fund what it makes
NoTxid == -1        \* the '' of a result without a txid

Fresh == [amount |-> 0, seen |-> {}, coins |-> {}, tx |-> 0, answer |-> "whole"]

Total(coins) == Sum([o \in coins |-> o.satoshis], coins)

Goto(c, place, locals) ==
  /\ pc' = [pc EXCEPT ![c] = place]
  /\ job' = [job EXCEPT ![c] = locals]

\* The operation is over or has thrown; the application goes on to its next one.
Settle(c) == Goto(c, "idle", Fresh)

\* One more failure.
Fault == faults < MaxFaults /\ faults' = faults + 1

Init ==
  /\ basket = {} /\ outputs = {} /\ made = 0
  /\ overlay = IF HasOverlay /\ Indexed THEN {WalletCoins} ELSE {}
  /\ txCache = {}
  /\ currentUtxo = [c \in Clients |-> None]
  /\ called = [c \in Clients |-> FALSE]
  /\ pc = [c \in Clients |-> "idle"] /\ job = [c \in Clients |-> Fresh]
  /\ faults = 0 /\ restarted = FALSE /\ muddled = {} /\ lost = {}

----------------------------------------------------------------------------
(* getUtxos and ensureFunding *)

\* The spendable outputs of the basket under the funding tag and the signer's script.
getUtxos == {o \in basket : o.tagged /\ o.kind = "p2pkh"}

\* Mutant: the difference taken the wrong way round.
Surplus(c) == Total(getUtxos) - Funds[c]

\* What ensureFunding asks the wallet for: what is missing, under the tag.
Missing(c) == Funds[c] - Total(getUtxos)

\* Mutant: the output is not under the tag getUtxos asks for.
UntaggedOutput(c, amount) ==
  [tx |-> made + 1, index |-> 0, kind |-> "p2pkh", of |-> None, tagged |-> FALSE, satoshis |-> amount]

\* (Which of the transaction's outputs it becomes is the wallet's to say: the listing tells.)
FundingOutput(c, amount) ==
  [tx |-> made + 1, index |-> 0, kind |-> "p2pkh", of |-> None, tagged |-> TRUE, satoshis |-> amount]

\* Mutant: the balance is not looked at.
EnsureFundingBlindly(c) ==
  /\ pc[c] = "idle" /\ ~called[c]
  /\ c \in WalletMade => currentUtxo[c] # None
  /\ Goto(c, "asking", [Fresh EXCEPT !.amount = Funds[c]])
  /\ UNCHANGED <<basket, network, overlay, txCache, currentUtxo, called, faults, history>>

\* ensureFunding to createAction: nothing to do, or a request for what is missing.
EnsureFunding(c) ==
  /\ pc[c] = "idle" /\ ~called[c]
  /\ c \in WalletMade => currentUtxo[c] # None
  /\ IF Total(getUtxos) >= Funds[c]
     THEN Goto(c, "funded", Fresh)
     ELSE Goto(c, "asking", [Fresh EXCEPT !.amount = Missing(c), !.seen = getUtxos])
  /\ UNCHANGED <<basket, network, overlay, txCache, currentUtxo, called, faults, history>>

\* Mutant: the overlay is not asked.
CacheOnly(tx) == tx \in txCache

\* fetchRawTx: from the cache, or from the overlay.
Fetchable(tx) == tx \in txCache \cup overlay

\* The end of broadcastTx once ARC has answered: cached, and submitted to the overlay.
Announced(tx) ==
  /\ txCache' = txCache \cup {tx}
  /\ overlay' = IF HasOverlay THEN overlay \cup {tx} ELSE overlay

\* Mutant: cached once it is broadcast, and not before.
LearnWhenBroadcast(c, parents) ==
  IF job[c].answer \in {"whole", "no txid"} /\ parents
  THEN \/ Announced(job[c].tx) /\ UNCHANGED faults
       \/ UNCHANGED <<txCache, overlay>> /\ Fault
  ELSE UNCHANGED <<txCache, overlay, faults>>

\* What the wallet's answer gives away of the transaction it made: a transaction the
\* answer shows is cached if the answer names it too, then broadcast if its parents are at
\* hand.  A failure of that broadcast is swallowed.
Learn(c, parents) ==
  LET answer == job[c].answer
      cached == txCache \cup (IF answer = "whole" THEN {job[c].tx} ELSE {})
  IN IF answer \in {"whole", "no txid"} /\ parents
     THEN \/ Announced(job[c].tx) /\ UNCHANGED faults
          \/ txCache' = cached /\ UNCHANGED overlay /\ Fault
     ELSE txCache' = cached /\ UNCHANGED <<overlay, faults>>

\* What comes after createAction.  The transaction is parsed again from its bytes before
\* it is broadcast, so its parents have to be fetched.
FundingAnswer(c) ==
  /\ pc[c] = "created"
  /\ Learn(c, Fetchable(WalletCoins))
  /\ IF job[c].answer = "error" THEN Settle(c) ELSE Goto(c, "funded", job[c])
  /\ UNCHANGED <<basket, network, currentUtxo, called, history>>

----------------------------------------------------------------------------
(* deploy and call *)

At(o, utxo) == utxo # None /\ o.tx = utxo.tx /\ o.index = utxo.index

\* selectUtxos: largest first, no more than it takes; all of them when that is too
\* little.
selectUtxos(coins) ==
  IF Total(coins) < Cost THEN {coins}
  ELSE {S \in SUBSET coins :
         /\ Total(S) >= Cost
         /\ \A o \in S, p \in coins \ S : o.satoshis >= p.satoshis
         /\ \E last \in S : /\ \A o \in S : o.satoshis >= last.satoshis
                            /\ Total(S \ {last}) < Cost}

\* The transactions whose outputs a transaction of client c over these coins spends.
Parents(c, coins) ==
  {o.tx : o \in coins} \cup (IF currentUtxo[c] = None THEN {} ELSE {currentUtxo[c].tx})

\* deploy or call from getUtxos to the request to ARC.  A deployment throws without the
\* coins it needs, a call goes on with what there is.  broadcastTx fetches and keeps every
\* parent, and throws at the first it cannot have (which of the others it fetched before
\* does not matter: the overlay still has them).
Build(c) ==
  /\ pc[c] = "funded"
  /\ LET coins == {o \in getUtxos : ~At(o, currentUtxo[c])} IN
     IF currentUtxo[c] = None /\ Total(coins) < Cost
     THEN Settle(c) /\ UNCHANGED txCache
     ELSE \E S \in selectUtxos(coins) :
            /\ txCache' = txCache \cup {tx \in Parents(c, S) : Fetchable(tx)}
            /\ IF \A tx \in Parents(c, S) : Fetchable(tx)
               THEN Goto(c, "sent", [Fresh EXCEPT !.coins = S]) ELSE Settle(c)
  /\ UNCHANGED <<basket, network, overlay, currentUtxo, called, faults, history>>

\* broadcastTx and deploy or call after ARC's answer.
BroadcastReturns(c) ==
  /\ pc[c] = "answered"
  /\ Announced(job[c].tx)
  /\ currentUtxo' = [currentUtxo EXCEPT ![c] = [tx |-> job[c].tx, index |-> 0]]
  /\ called' = [called EXCEPT ![c] = currentUtxo[c] # None]
  /\ Settle(c)
  /\ UNCHANGED <<basket, network, faults, history>>

----------------------------------------------------------------------------
(* deployWithWallet *)

DeployWithWallet(c) ==
  /\ pc[c] = "idle" /\ ~called[c] /\ c \in WalletMade /\ currentUtxo[c] = None
  /\ Goto(c, "deploying", Fresh)
  /\ UNCHANGED <<basket, network, overlay, txCache, currentUtxo, called, faults, history>>

\* Contract outputs whose deployment or call is on its way back to client c.
InHand(c) ==
  {o \in outputs : /\ o.kind = "contract" /\ o.of = c /\ o.tx = job[c].tx
                   /\ pc[c] \in {"deployed", "answered"}}

\* Mutant: the script is not looked for.
FirstIndex(tx, c) == 0

\* The index of the first output with the contract's script, or 0.
FoundIndex(tx, c) ==
  LET at == {o.index : o \in {p \in outputs : p.tx = tx /\ p.kind = "contract" /\ p.of = c}}
  IN IF at = {} THEN 0 ELSE CHOOSE i \in at : \A j \in at : i <= j

\* deployWithWallet's assignment to currentUtxo.
Track(c, index) ==
  currentUtxo' = [currentUtxo EXCEPT
    ![c] = [tx |-> IF job[c].answer = "no txid" THEN NoTxid ELSE job[c].tx, index |-> index]]

\* What comes after createAction: a transaction the answer shows is searched for the
\* contract, and comes with its parents.
DeployAnswer(c) ==
  /\ pc[c] = "deployed"
  /\ Learn(c, TRUE)
  /\ CASE job[c].answer = "error" -> UNCHANGED currentUtxo
       [] job[c].answer = "no tx" -> Track(c, 0)
       [] OTHER                   -> Track(c, FoundIndex(job[c].tx, c))
  /\ lost' = IF job[c].answer = "error" THEN lost \cup InHand(c) ELSE lost
  /\ Settle(c)
  /\ UNCHANGED <<basket, network, called, restarted, muddled>>

----------------------------------------------------------------------------
(* External: the wallet *)

\* createAction: a transaction with the output asked for and the wallet's change, in
\* either order, and its answer: with both parts, without one, or an error.
CreateAction(c) ==
  /\ pc[c] \in {"asking", "deploying"}
  /\ \E index \in {0, 1}, answer \in {"whole", "no tx", "no txid", "error"} :
       LET asked == IF pc[c] = "asking" THEN FundingOutput(c, job[c].amount)
                    ELSE [tx |-> made + 1, index |-> index, kind |-> "contract", of |-> c,
                          tagged |-> FALSE, satoshis |-> 1]
       IN /\ pc[c] = "asking" => index = 0
          /\ outputs' = outputs \cup {asked}
          /\ basket' = basket \cup {asked}
          /\ IF answer = "whole" THEN UNCHANGED <<faults, muddled>>
             ELSE Fault /\ muddled' = muddled \cup {made + 1}
          /\ Goto(c, IF pc[c] = "asking" THEN "created" ELSE "deployed",
                  [Fresh EXCEPT !.seen = job[c].seen, !.tx = made + 1, !.answer = answer])
  /\ made' = made + 1
  /\ UNCHANGED <<overlay, txCache, currentUtxo, called, restarted, lost>>

\* The user declines, or the wallet cannot be reached.
Decline(c) ==
  /\ pc[c] \in {"asking", "deploying"}
  /\ Fault
  /\ Settle(c)
  /\ UNCHANGED <<basket, network, overlay, txCache, currentUtxo, called, history>>

\* The wallet learns which outputs of its basket were spent without it.
Notice ==
  /\ ~(basket \subseteq outputs)
  /\ basket' = basket \cap outputs
  /\ UNCHANGED <<network, overlay, txCache, currentUtxo, called, pc, job, faults, history>>

----------------------------------------------------------------------------
(* External: ARC and the process *)

\* The unspent contract output the client's call names, if it names one.
Tracked(c) ==
  {o \in outputs : o.kind = "contract" /\ o.of = c /\ At(o, currentUtxo[c])}

\* Inputs that exist and that nobody spent, and a fee.
Acceptable(c) ==
  /\ job[c].coins \subseteq outputs
  /\ Total(job[c].coins) >= Cost
  /\ currentUtxo[c] # None => Tracked(c) # {}

\* The client's transaction is accepted; the answer arrives or is lost.
Accept(c) ==
  /\ pc[c] = "sent" /\ Acceptable(c)
  /\ LET output == [tx |-> made + 1, index |-> 0, kind |-> "contract", of |-> c,
                    tagged |-> FALSE, satoshis |-> 1]
     IN /\ outputs' = (outputs \ (job[c].coins \cup Tracked(c))) \cup {output}
        /\ \/ /\ Goto(c, "answered", [Fresh EXCEPT !.tx = made + 1])
              /\ UNCHANGED <<faults, lost>>
           \/ Fault /\ Settle(c) /\ lost' = lost \cup {output}
  /\ made' = made + 1
  /\ UNCHANGED <<basket, overlay, txCache, currentUtxo, called, restarted, muddled>>

\* The transaction is refused, or ARC cannot be reached.
Refuse(c) ==
  /\ pc[c] = "sent"
  /\ IF Acceptable(c) THEN Fault ELSE UNCHANGED faults
  /\ Settle(c)
  /\ UNCHANGED <<basket, network, overlay, txCache, currentUtxo, called, history>>

\* The process ends and starts again: the application stored its contracts' UTXOs,
\* the cache is in memory.
Restart ==
  /\ Fault
  /\ restarted' = TRUE
  /\ txCache' = {}
  /\ pc' = [c \in Clients |-> "idle"] /\ job' = [c \in Clients |-> Fresh]
  /\ lost' = lost \cup UNION {InHand(c) : c \in Clients}
  /\ UNCHANGED <<basket, network, overlay, currentUtxo, called, muddled>>

----------------------------------------------------------------------------

\* The code that goes on when a promise settles or the application begins again.
Continue(c) ==
  \/ EnsureFunding(c) \/ FundingAnswer(c)
  \/ Build(c) \/ BroadcastReturns(c)
  \/ DeployWithWallet(c) \/ DeployAnswer(c)

\* Somebody answers.
Answer(c) == CreateAction(c) \/ Decline(c) \/ Accept(c) \/ Refuse(c)

Next ==
  \/ \E c \in Clients : Continue(c) \/ Answer(c)
  \/ Notice
  \/ Restart

Spec == Init /\ [][Next]_vars

\* Promises settle, and the application goes on until it has called its contract.
\* (Whether the wallet ever learns what the SDK spent is open: the SDK does not tell it.)
FairSpec == Spec /\ \A c \in Clients : WF_vars(Continue(c)) /\ WF_vars(Answer(c))

----------------------------------------------------------------------------
(* Properties *)

Places ==
  {"idle", "asking", "created", "funded", "sent", "answered", "deploying", "deployed"}

\* The shapes of the state (the fields of WalletProvider and of the contracts).
TypeOK ==
  /\ basket \subseteq Output /\ outputs \subseteq Output /\ made \in Nat
  /\ overlay \subseteq Nat /\ txCache \subseteq Nat
  /\ currentUtxo \in [Clients -> [tx : Nat \cup {NoTxid}, index : {0, 1}] \cup {None}]
  /\ called \in [Clients -> BOOLEAN] /\ pc \in [Clients -> Places]
  /\ job \in [Clients -> [ amount : Nat, seen : SUBSET Output, coins : SUBSET Output, tx : Nat,
                            answer : {"whole", "no tx", "no txid", "error"} ]]
  /\ faults \in Nat /\ restarted \in BOOLEAN /\ muddled \subseteq Nat /\ lost \subseteq Output

\* No contract goes astray: an unspent contract output is the one its object tracks, or
\* its object is about to, unless the answer that told of it was incomplete or never came
\* (deployWithWallet's search for the script, the assignments after broadcast).
NoStray ==
  \A o \in outputs :
    o.kind = "contract" =>
      At(o, currentUtxo[o.of]) \/ o \in InHand(o.of) \/ o \in lost \/ o.tx \in muddled

\* Whether anything this process can reach has a transaction.
Servable(tx) == tx \in txCache \cup overlay

\* What the provider offers for spending it can spend: the parent of every listed coin and
\* of every tracked output can be fetched, unless an answer left it out, the process was
\* restarted, or its transaction is still being answered for (cacheTx, broadcastTx).
ParentsKept ==
  restarted \/ \A tx \in {o.tx : o \in getUtxos \cup UNION {Tracked(c) : c \in Clients}} :
    Servable(tx) \/ tx \in muddled \/ \E c \in Clients : pc[c] = "created" /\ job[c].tx = tx

\* Clients that ask for funding at the same time may each be given all they asked for,
\* but the basket never holds more than every client's own need together (the amount
\* ensureFunding computes from a balance read before an await).
FundingBounded ==
  Total(getUtxos) + Sum([c \in Clients |-> IF pc[c] = "asking" THEN job[c].amount ELSE 0], Clients)
    <= Sum(Funds, Clients)

\* ensureFunding keeps its word: when it returns, and nobody spent a coin it had counted or
\* the one it made, the coins getUtxos offers come to what was asked for (the output it asks
\* for, the query, and the balance it read before the wallet was asked).
FundedOnReturn ==
  [][\A c \in Clients :
       /\ pc[c] # "funded" /\ pc'[c] = "funded"
       /\ job'[c].seen \subseteq outputs'
       /\ job'[c].tx # 0 => \E o \in outputs' : o.tx = job'[c].tx
       => Total(getUtxos') >= Funds[c]]_vars

\* What no retry can repair: the object tracks an output that is not there, or the coins it
\* would take next hold one that was spent without the wallet noticing, or the parent of
\* what it would spend is nowhere to be had.
Stuck(c) ==
  \/ /\ currentUtxo[c] # None /\ pc[c] # "answered"
     /\ Tracked(c) = {}
  \/ \E S \in selectUtxos({o \in getUtxos : ~At(o, currentUtxo[c])}) :
       ~(S \subseteq outputs) \/ \E tx \in Parents(c, S) : ~Servable(tx)

\* Retrying is enough for all the rest: every client in time deploys its contract and calls
\* it, whoever takes the coins it had counted and whatever fails on the way, unless it stays
\* stuck for good (ensureFunding and retry).  It has to ask for what an operation costs at
\* least.  Nobody owes the client a wallet that notices what was spent.
ServedOrStuck == \A c \in Clients : <>called[c] \/ <>[]Stuck(c)

============================================================================
