-------------------------- MODULE SequentialProofs --------------------------
(***************************************************************************)
(* What RunarContract promises a caller who makes one call at a time.      *)
(* Both arguments follow the one pending invocation from await to await;   *)
(* what they need of the network comes from the invariant of               *)
(* RunarContractProofs.                                                    *)
(***************************************************************************)
EXTENDS RunarContractProofs

USE DEF object, network

OneTask == \E t : Tasks = {t}

-----------------------------------------------------------------------------
(* Connections: the pair put aside is the one connect() was given, and the *)
(* pair in use is the invocation's own from its first await to its last.   *)
TaskConn(t) ==
  /\ pc[t] = "idle" => job[t] = NoJob
  /\ Restored(t) = connected
  /\ job[t].own # None => conn = job[t].own /\ job[t].used \subseteq {job[t].own}

ConnOK == \A t \in Tasks : TaskConn(t)

(* Steps that keep the connection and what the locals say of it.           *)
LEMMA SameConn ==
  ASSUME IInv, ConnOK, OneTask, NEW t \in Tasks, UNCHANGED <<conn, connected>>,
         pc'[t] # "idle", job'[t].saved = job[t].saved, job'[t].own = job[t].own,
         job'[t].used \subseteq job[t].used \cup {conn}
  PROVE  ConnOK'
  <1>1. TaskConn(t)'
    BY DEF ConnOK, TaskConn, Restored
  <1>2. QED BY <1>1 DEF ConnOK, OneTask

(* The invocation settles and puts the pair back.                          *)
LEMMA SettleConn ==
  ASSUME IInv, ConnOK, OneTask, NEW t \in Tasks, Settle(t), UNCHANGED connected
  PROVE  ConnOK'
  <1>1. pc'[t] = "idle" /\ job'[t] = NoJob /\ conn' = connected
    BY DEF Settle, Goto, Let, IInv, TypeOK, ConnOK, TaskConn
  <1>2. TaskConn(t)'
    BY <1>1 DEF TaskConn, Restored, NoJob
  <1>3. QED BY <1>1, <1>2 DEF ConnOK, OneTask

LEMMA BeginConn ==
  ASSUME IInv, ConnOK, OneTask, NEW t \in Tasks, CallBegin(t) PROVE ConnOK'
  <1>1. PICK m \in Methods, new \in NewStates, dry \in DryRuns, with \in Explicit, api \in Apis :
          conn' = Given(with) /\ Let(t, CallLocals(m, new, dry, with, api))
    BY DEF CallBegin
  <1>2. /\ pc[t] = "idle" /\ pc'[t] = "prepare.state" /\ UNCHANGED connected
        /\ job'[t] = CallLocals(m, new, dry, with, api)
    BY <1>1 DEF CallBegin, Goto, Let, IInv, TypeOK
  <1>3. conn = connected
    BY <1>2 DEF ConnOK, TaskConn, Restored, NoJob
  <1>4. /\ job'[t].own = Given(with) /\ job'[t].used = {Given(with)}
        /\ job'[t].saved = IF with = None THEN None ELSE conn
    BY <1>2 DEF CallLocals, NoJob
  <1>5. conn # None
    BY NoneAssumption DEF IInv, TypeOK
  <1>6. TaskConn(t)'
    BY <1>1, <1>2, <1>3, <1>4, <1>5 DEF TaskConn, Restored, Given
  <1>7. QED BY <1>2, <1>6 DEF ConnOK, OneTask

LEMMA HandOverConn ==
  ASSUME IInv, ConnOK, OneTask, NEW t \in Tasks, NEW input, NEW new,
         HandOver(t, input, new), UNCHANGED connected
  PROVE  ConnOK'
  <1>1. CASE Settle(t)
    BY <1>1, SettleConn
  <1>2. CASE \E p \in Preps : /\ Let(t, [job[t] EXCEPT !.prepared = p])
                              /\ Goto(t, "call.sign")
                              /\ conn' = Connection(t)
    <2>1. PICK p \in Preps : job' = [job EXCEPT ![t] = [job[t] EXCEPT !.prepared = p]]
      BY <1>2 DEF Let
    <2>2. /\ job'[t].saved = job[t].saved /\ job'[t].own = job[t].own
          /\ job'[t].used = job[t].used
      BY <2>1 DEF IInv, TypeOK, Job
    <2>3. pc'[t] = "call.sign" /\ conn' = conn
      BY <1>2 DEF Goto, Connection, IInv, TypeOK
    <2>4. QED BY <2>2, <2>3, SameConn
  <1>3. QED BY <1>1, <1>2 DEF HandOver, FreshPreps

LEMMA FinalizeConn ==
  ASSUME IInv, ConnOK, OneTask, NEW t \in Tasks, NEW p \in Preps, FinalizeCall(t, p)
  PROVE  ConnOK'
  <1>1. UNCHANGED connected  BY DEF FinalizeCall
  <1>2. CASE Settle(t)
    BY <1>1, <1>2, SettleConn
  <1>3. CASE /\ Let(t, [job[t] EXCEPT !.prepared = p, !.used = @ \cup {conn}])
             /\ Goto(t, "sent") /\ UNCHANGED conn
    <2>1. job[t] \in Job /\ pc'[t] = "sent"
          /\ job'[t] = [job[t] EXCEPT !.prepared = p, !.used = @ \cup {conn}]
      BY <1>3 DEF IInv, TypeOK, Let, Goto
    <2>2. /\ job'[t].saved = job[t].saved /\ job'[t].own = job[t].own
          /\ job'[t].used = job[t].used \cup {conn}
      BY <2>1 DEF Job
    <2>3. QED BY <1>1, <1>3, <2>1, <2>2, SameConn
  <1>4. QED BY <1>2, <1>3 DEF FinalizeCall

(* The steps that assign locals other than these, or none.                 *)
LEMMA PlainConn ==
  ASSUME IInv, ConnOK, OneTask, NEW t \in Tasks,
         \/ Deploy(t) \/ DeployBuild(t) \/ DeployReturn(t)
         \/ PrepareState(t) \/ PrepareFund(t) \/ Sign(t) \/ CallReturn(t)
  PROVE  ConnOK'
  <1>1. UNCHANGED <<conn, connected>> /\ pc'[t] # "idle"
    BY DEF Deploy, DeployBuild, DeployReturn, PrepareState, PrepareFund, Sign, CallReturn,
           Goto, IInv, TypeOK
  <1>2. job[t] \in Job  BY DEF IInv, TypeOK
  <1>3. /\ job'[t].saved = job[t].saved /\ job'[t].own = job[t].own
        /\ job'[t].used \subseteq job[t].used \cup {conn}
    <2>1. \/ job'[t] = job[t]
          \/ \E s : job'[t] = [job[t] EXCEPT !.new = s]
          \/ job'[t] = [job[t] EXCEPT !.used = @ \cup {conn}]
      BY DEF Deploy, DeployBuild, DeployReturn, PrepareState, PrepareFund, Sign, CallReturn,
             Let, IInv, TypeOK
    <2>2. QED BY <1>2, <2>1 DEF Job
  <1>4. QED BY <1>1, <1>3, SameConn

LEMMA AcceptConn ==
  ASSUME IInv, ConnOK, OneTask, NEW t \in Tasks, Accept(t) \/ DeployAccept(t) PROVE ConnOK'
  <1>1. UNCHANGED connected  BY DEF Accept, DeployAccept
  <1>2. CASE Settle(t)
    BY <1>1, <1>2, SettleConn
  <1>3. CASE /\ \E o : Let(t, [job[t] EXCEPT !.out = o])
             /\ Goto(t, "acked") \/ Goto(t, "deploy.acked")
             /\ UNCHANGED conn
    <2>1. PICK o : job' = [job EXCEPT ![t] = [job[t] EXCEPT !.out = o]]
      BY <1>3 DEF Let
    <2>2. /\ job'[t].saved = job[t].saved /\ job'[t].own = job[t].own
          /\ job'[t].used = job[t].used
      BY <2>1 DEF IInv, TypeOK, Job
    <2>3. pc'[t] # "idle"  BY <1>3 DEF Goto, IInv, TypeOK
    <2>4. QED BY <1>1, <1>3, <2>2, <2>3, SameConn
  <1>4. QED BY <1>2, <1>3 DEF Accept, DeployAccept

LEMMA NextConnOK ==
  ASSUME OneTask, Reconnects = {} PROVE IInv /\ ConnOK /\ [Next]_vars => ConnOK'
  <1> SUFFICES ASSUME IInv, ConnOK, [Next]_vars PROVE ConnOK'
    OBVIOUS
  <1>1. ASSUME NEW t \in Tasks, Begin(t) PROVE ConnOK'
    BY <1>1, PlainConn, BeginConn, FinalizeConn DEF Begin
  <1>2. ASSUME NEW t \in Tasks, Resume(t) PROVE ConnOK'
    <2>1. CASE PrepareRebuild(t) \/ PrepareTerminal(t)
      BY <2>1, HandOverConn DEF PrepareRebuild, PrepareTerminal
    <2>2. CASE PrepareOnNull(t) \/ Refuse(t) \/ Fetched(t) \/ Throw(t)
      BY <2>2, SettleConn DEF PrepareOnNull, Refuse, Fetched, Throw
    <2>3. QED BY <1>2, <2>1, <2>2, PlainConn, AcceptConn, FinalizeConn DEF Resume
  <1>3. CASE UNCHANGED <<conn, connected, pc, job>>
    BY <1>3 DEF ConnOK, TaskConn, Restored
  <1>4. QED BY <1>1, <1>2, <1>3 DEF Next, SetState, vars

LEMMA ConnInvariance == ASSUME OneTask, Reconnects = {} PROVE Spec => []ConnOK
  <1>1. Init => ConnOK
    BY DEF Init, ConnOK, TaskConn, Restored, NoJob
  <1>2. IInv /\ ConnOK /\ [Next]_vars => ConnOK'
    BY NextConnOK
  <1>3. QED BY <1>1, <1>2, Invariance, PTL DEF Spec

(* call()'s `finally`: once a call made on its own has settled, however it *)
(* ended, the object is connected as connect() left it.                    *)
THEOREM ConnRestoredCorrect ==
  ASSUME OneTask, Reconnects = {} PROVE Spec => []ConnRestored
  <1>1. ConnOK => ConnRestored
    BY DEF ConnOK, TaskConn, Restored, NoJob, ConnRestored, Quiet, OneTask
  <1>2. QED BY <1>1, ConnInvariance, PTL

(* A call made on its own signs and broadcasts through the pair it was     *)
(* given and through no other.                                             *)
THEOREM OwnConnectionCorrect ==
  ASSUME OneTask, Reconnects = {} PROVE Spec => []OwnConnection
  <1>1. ConnOK => OwnConnection
    BY DEF ConnOK, TaskConn, OwnConnection
  <1>2. QED BY <1>1, ConnInvariance, PTL

-----------------------------------------------------------------------------
(* State: calls made one at a time with call(), which derive the next      *)
(* state and end with the network's acceptance.                            *)
PlainUse ==
  /\ OneTask
  /\ Splits = {} /\ Apis \subseteq {"call"} /\ NewStates \subseteq {None} /\ Edits = {}
  /\ Faults = {}

(* Where a deployment or no call at all is under way.                      *)
Outside == { "idle", "deploy.build", "deploy.sent", "deploy.acked", "fetch" }

(* The call prepared from the tracked output, with the state it leaves.    *)
Faithful(call) ==
  /\ call.method \in Updates \cup Closes
  /\ currentUtxo # None
  /\ call.input = currentUtxo.id /\ call.base = currentUtxo.script
  /\ call.method \notin Closes => call.new = Effect[call.method][call.base]
  /\ state = IF call.method \in Closes THEN call.base ELSE call.new

TaskState(t) ==
  /\ job[t].api = "call" /\ job[t].newState = None
  /\ pc[t] \in Outside \cup {"prepare.state"} =>
       (currentUtxo # None => state = currentUtxo.script)
  /\ pc[t] \in {"deploy.sent", "deploy.acked"} => job[t].new = state
  /\ pc[t] \notin Outside => currentUtxo # None /\ job[t].utxo = currentUtxo
  /\ pc[t] \in {"prepare.fund", "prepare.rebuild"} =>
       /\ job[t].method \in Updates
       /\ job[t].new = Effect[job[t].method][currentUtxo.script] /\ state = job[t].new
  /\ pc[t] \in Holding => Faithful(calls[job[t].prepared])

StateOK ==
  /\ lost = {}
  /\ \A p \in Preps : calls[p] # None => ~calls[p].shared
  /\ \A t \in Tasks : TaskState(t)

(* With one task pending the tracked output is unspent until its spend is  *)
(* accepted, and carries the state the call was prepared from.             *)
LEMMA Spendable ==
  ASSUME PlainUse, IInv, StateOK, NEW t \in Tasks, pc[t] \in Holding, pc[t] # "acked"
  PROVE  LET call == calls[job[t].prepared] IN
         Valid(call) /\ Satisfies(call, call.base)
  <1>1. Faithful(calls[job[t].prepared])
    BY DEF StateOK, TaskState
  <1>2. outs[currentUtxo.id] = currentUtxo.script
    BY <1>1 DEF Faithful, IInv, TrackedOnChain
  <1>3. currentUtxo.id \notin spent
    BY <1>1 DEF Faithful, IInv, TrackedLive, SpendInFlight, StateOK, PlainUse, OneTask
  <1>4. QED BY <1>1, <1>2, <1>3 DEF Faithful, Valid, Satisfies

(* A step outside of calls that moves nothing the caller sees.             *)
LEMMA OutsideStep ==
  ASSUME PlainUse, IInv, StateOK, NEW t \in Tasks,
         UNCHANGED <<state, currentUtxo, calls, lost>>,
         pc[t] \in Outside, pc'[t] \in Outside \cup {"prepare.state"},
         job'[t].api = "call" /\ job'[t].newState = None,
         pc'[t] \in {"deploy.sent", "deploy.acked"} => job'[t].new = state,
         pc'[t] = "prepare.state" => currentUtxo # None /\ job'[t].utxo = currentUtxo
  PROVE  StateOK'
  <1>1. TaskState(t)'
    BY DEF TaskState, StateOK, Outside, Holding
  <1>2. QED BY <1>1 DEF StateOK, PlainUse, OneTask

LEMMA DeployState ==
  ASSUME PlainUse, IInv, StateOK, NEW t \in Tasks,
         Deploy(t) \/ DeployBuild(t) \/ DeployAccept(t) \/ Fetched(t)
  PROVE  StateOK'
  <1>1. job[t] \in Job /\ TaskState(t)  BY DEF IInv, TypeOK, StateOK
  <1>2. CASE Deploy(t)
    <2>1. pc[t] = "idle" /\ pc'[t] = "deploy.build" /\ job' = job
      BY <1>2 DEF Deploy, Goto, IInv, TypeOK
    <2>2. QED BY <1>1, <1>2, <2>1, OutsideStep DEF Deploy, Outside, TaskState
  <1>3. CASE DeployBuild(t)
    <2>1. /\ pc[t] = "deploy.build" /\ pc'[t] = "deploy.sent"
          /\ job'[t] = [job[t] EXCEPT !.new = state]
      BY <1>3 DEF DeployBuild, Goto, Let, IInv, TypeOK
    <2>2. job'[t].new = state /\ job'[t].api = "call" /\ job'[t].newState = None
      BY <1>1, <2>1 DEF Job, TaskState
    <2>3. QED BY <1>3, <2>1, <2>2, OutsideStep DEF DeployBuild, Outside
  <1>4. CASE DeployAccept(t)
    <2>1. PICK o : /\ pc[t] = "deploy.sent" /\ pc'[t] = "deploy.acked"
                   /\ job'[t] = [job[t] EXCEPT !.out = o]
      BY <1>4 DEF DeployAccept, Goto, Let, IInv, TypeOK, PlainUse
    <2>2. job'[t].new = state /\ job'[t].api = "call" /\ job'[t].newState = None
      BY <1>1, <2>1 DEF Job, TaskState
    <2>3. QED BY <1>4, <2>1, <2>2, OutsideStep DEF DeployAccept, Outside
  <1>5. CASE Fetched(t)
    <2>1. pc[t] = "fetch" /\ pc'[t] = "idle" /\ job'[t] = NoJob
      BY <1>5 DEF Fetched, Settle, Goto, Let, IInv, TypeOK
    <2>2. QED BY <1>5, <2>1, OutsideStep DEF Fetched, Outside, NoJob
  <1>6. QED BY <1>2, <1>3, <1>4, <1>5

LEMMA DeployReturnState ==
  ASSUME PlainUse, IInv, StateOK, NEW t \in Tasks, DeployReturn(t) PROVE StateOK'
  <1>1. /\ pc[t] = "deploy.acked" /\ pc'[t] = "fetch"
        /\ currentUtxo' = [id |-> job[t].out, script |-> job[t].new]
        /\ UNCHANGED <<state, lost, calls, job>>
    BY DEF DeployReturn, Goto, IInv, TypeOK
  <1>2. TaskState(t)'
    BY <1>1 DEF StateOK, TaskState, Outside, Holding
  <1>3. QED BY <1>1, <1>2 DEF StateOK, PlainUse, OneTask

LEMMA CallBeginState ==
  ASSUME PlainUse, IInv, StateOK, NEW t \in Tasks, CallBegin(t) PROVE StateOK'
  <1>1. PICK m \in Methods, new \in NewStates, dry \in DryRuns, with \in Explicit, api \in Apis :
          Let(t, CallLocals(m, new, dry, with, api))
    BY DEF CallBegin
  <1>2. /\ pc[t] = "idle" /\ pc'[t] = "prepare.state" /\ currentUtxo # None
        /\ job'[t] = CallLocals(m, new, dry, with, api)
        /\ UNCHANGED <<state, currentUtxo, calls, lost>>
    BY <1>1 DEF CallBegin, Goto, Let, IInv, TypeOK
  <1>3. new = None /\ api = "call"
    BY <1>1 DEF PlainUse
  <1>4. job'[t].api = "call" /\ job'[t].newState = None /\ job'[t].utxo = currentUtxo
    BY <1>2, <1>3 DEF CallLocals, NoJob
  <1>5. QED BY <1>2, <1>4, OutsideStep DEF Outside

LEMMA PrepareStateState ==
  ASSUME PlainUse, IInv, StateOK, NEW t \in Tasks, PrepareState(t) PROVE StateOK'
  <1>1. /\ pc[t] = "prepare.state" /\ pc'[t] = "prepare.fund"
        /\ UNCHANGED <<currentUtxo, calls, lost>>
        /\ job[t].method \in Updates /\ state' \in NextState(t)
        /\ job'[t] = [job[t] EXCEPT !.new = state']
    BY DEF PrepareState, Goto, Let, IInv, TypeOK, PlainUse
  <1>2. /\ job[t].api = "call" /\ job[t].newState = None
        /\ currentUtxo # None /\ job[t].utxo = currentUtxo /\ state = currentUtxo.script
    BY <1>1 DEF StateOK, TaskState, Outside
  <1>3. state' = Effect[job[t].method][currentUtxo.script]
    BY <1>1, <1>2 DEF NextState, PlainUse
  <1>4. /\ job'[t].new = state' /\ job'[t].method = job[t].method
        /\ job'[t].api = "call" /\ job'[t].newState = None /\ job'[t].utxo = currentUtxo
    BY <1>1, <1>2 DEF IInv, TypeOK, Job
  <1>5. TaskState(t)'
    BY <1>1, <1>2, <1>3, <1>4 DEF TaskState, Outside, Holding
  <1>6. QED BY <1>1, <1>5 DEF StateOK, PlainUse, OneTask

LEMMA PrepareFundState ==
  ASSUME PlainUse, IInv, StateOK, NEW t \in Tasks, PrepareFund(t) PROVE StateOK'
  <1>1. /\ pc[t] = "prepare.fund" /\ pc'[t] = "prepare.rebuild"
        /\ UNCHANGED <<state, currentUtxo, calls, lost, job>>
    BY DEF PrepareFund, Goto, IInv, TypeOK
  <1>2. TaskState(t)'
    BY <1>1 DEF StateOK, TaskState, Outside, Holding
  <1>3. QED BY <1>1, <1>2 DEF StateOK, PlainUse, OneTask

(* What prepareCall hands over is faithful, and call() goes on with it.    *)
LEMMA HandOverState ==
  ASSUME PlainUse, IInv, StateOK, NEW t \in Tasks,
         PrepareRebuild(t) \/ PrepareTerminal(t)
  PROVE  StateOK' /\ pc'[t] = "call.sign" /\ job'[t].utxo = job[t].utxo
  <1> DEFINE input == IF PrepareRebuild(t) THEN currentUtxo.id ELSE job[t].utxo.id
             new   == IF PrepareRebuild(t) THEN job[t].new ELSE None
  <1>1. /\ pc[t] \in Preparing /\ HandOver(t, input, new)
        /\ UNCHANGED <<state, currentUtxo, lost>>
    BY DEF PrepareRebuild, PrepareTerminal, Preparing
  <1>2. /\ job[t].api = "call" /\ job[t].newState = None
        /\ currentUtxo # None /\ job[t].utxo = currentUtxo
    BY <1>1 DEF StateOK, TaskState, Preparing, Outside
  <1>3. /\ input = currentUtxo.id
        /\ job[t].method \in Updates \cup Closes
        /\ job[t].method \notin Closes => new = Effect[job[t].method][currentUtxo.script]
        /\ state = IF job[t].method \in Closes THEN currentUtxo.script ELSE new
    <2>1. CASE PrepareRebuild(t)
      <3>1. pc[t] = "prepare.rebuild"  BY <2>1 DEF PrepareRebuild
      <3>2. QED BY <2>1, <3>1, MethodsAssumption DEF StateOK, TaskState
    <2>2. CASE ~PrepareRebuild(t)
      <3>1. pc[t] = "prepare.state" /\ job[t].method \in Closes
        BY <2>2 DEF PrepareTerminal
      <3>2. QED BY <1>2, <2>2, <3>1 DEF StateOK, TaskState
    <2>3. QED BY <2>1, <2>2
  <1> HIDE DEF input, new
  <1>4. PICK p \in Preps :
          /\ calls' = [calls EXCEPT ![p] =
               [ method |-> job[t].method, base |-> job[t].utxo.script, new |-> new,
                 input |-> input, dryRun |-> job[t].dryRun,
                 auto |-> job[t].method \in Updates /\ job[t].newState = None,
                 shared |-> job[t].api = "prepareCall" ]]
          /\ Let(t, [job[t] EXCEPT !.prepared = p]) /\ Goto(t, "call.sign")
    BY <1>1, <1>2 DEF HandOver, FreshPreps
  <1>5. /\ pc'[t] = "call.sign" /\ job'[t] = [job[t] EXCEPT !.prepared = p]
        /\ \A q \in Preps \ {p} : calls'[q] = calls[q]
        /\ calls'[p].method = job[t].method /\ calls'[p].base = currentUtxo.script
        /\ calls'[p].new = new /\ calls'[p].input = input /\ ~calls'[p].shared
    BY <1>2, <1>4 DEF Let, Goto, IInv, TypeOK
  <1>6. /\ job'[t].prepared = p /\ job'[t].api = "call" /\ job'[t].newState = None
        /\ job'[t].utxo = currentUtxo
    BY <1>2, <1>5 DEF IInv, TypeOK, Job
  <1>7. TaskState(t)'
    BY <1>1, <1>2, <1>3, <1>5, <1>6 DEF TaskState, Faithful, Outside, Holding
  <1>8. \A q \in Preps : calls'[q] # None => ~calls'[q].shared
    BY <1>5 DEF StateOK
  <1>9. QED BY <1>1, <1>2, <1>5, <1>6, <1>7, <1>8 DEF StateOK, PlainUse, OneTask

(* From signing to acceptance the call in hand stays what it is.           *)
LEMMA HoldingStep ==
  ASSUME PlainUse, IInv, StateOK, NEW t \in Tasks,
         UNCHANGED <<state, currentUtxo, calls, lost>>,
         pc[t] \in Holding, pc'[t] \in Holding,
         \/ job'[t] = [job[t] EXCEPT !.used = @ \cup {conn}]
         \/ \E p : /\ p = job[t].prepared
                   /\ job'[t] = [job[t] EXCEPT !.prepared = p, !.used = @ \cup {conn}]
         \/ \E o : job'[t] = [job[t] EXCEPT !.out = o]
  PROVE  StateOK' /\ job'[t].utxo = job[t].utxo
  <1>1. job[t] \in Job  BY DEF IInv, TypeOK
  <1>2. /\ job'[t].utxo = job[t].utxo /\ job'[t].api = job[t].api
        /\ job'[t].newState = job[t].newState /\ job'[t].prepared = job[t].prepared
    BY <1>1 DEF Job
  <1>3. TaskState(t)'
    <2>1. TaskState(t)  BY DEF StateOK
    <2>2. pc'[t] \notin Outside /\ pc[t] \notin Outside  BY DEF Outside, Holding
    <2>3. pc'[t] \notin {"prepare.state", "deploy.sent", "deploy.acked", "prepare.fund", "prepare.rebuild"}
      BY DEF Holding
    <2>4. currentUtxo' # None /\ job'[t].utxo = currentUtxo'
      BY <1>2, <2>1, <2>2 DEF TaskState
    <2>5. Faithful(calls[job[t].prepared])  BY <2>1 DEF TaskState
    <2>6. Faithful(calls[job[t].prepared])'  BY <1>2, <2>5 DEF Faithful
    <2>7. job'[t].api = "call" /\ job'[t].newState = None  BY <1>2, <2>1 DEF TaskState
    <2>8. pc'[t] \notin Outside \cup {"prepare.state"}  BY <2>2, <2>3
    <2>9. pc'[t] \notin {"deploy.sent", "deploy.acked"} /\ pc'[t] \notin {"prepare.fund", "prepare.rebuild"}
      BY <2>3
    <2> HIDE DEF Outside, Holding, Faithful
    <2>10. QED BY <2>4, <2>6, <2>7, <2>8, <2>9 DEF TaskState
  <1>4. QED BY <1>2, <1>3 DEF StateOK, PlainUse, OneTask

LEMMA SignState ==
  ASSUME PlainUse, IInv, StateOK, NEW t \in Tasks, Sign(t)
  PROVE  StateOK' /\ pc'[t] = "call.finalize" /\ job'[t].utxo = job[t].utxo
  <1>1. /\ pc[t] = "call.sign" /\ pc'[t] = "call.finalize"
        /\ job'[t] = [job[t] EXCEPT !.used = @ \cup {conn}]
        /\ UNCHANGED <<state, currentUtxo, calls, lost>>
    BY DEF Sign, Goto, Let, IInv, TypeOK
  <1>2. QED BY <1>1, HoldingStep DEF Holding

(* No call is finalized by itself, and no dry run fails.                   *)
LEMMA FinalizeState ==
  ASSUME PlainUse, IInv, StateOK, NEW t \in Tasks, NEW p \in Preps, FinalizeCall(t, p)
  PROVE  StateOK' /\ pc[t] = "call.finalize" /\ pc'[t] = "sent" /\ job'[t].utxo = job[t].utxo
  <1>1. pc[t] = "call.finalize" /\ job[t].prepared = p
    BY DEF FinalizeCall, StateOK
  <1>2. Satisfies(calls[p], calls[p].base)
    BY <1>1, Spendable DEF Holding
  <1>3. /\ pc'[t] = "sent"
        /\ job'[t] = [job[t] EXCEPT !.prepared = p, !.used = @ \cup {conn}]
        /\ UNCHANGED <<state, currentUtxo, calls, lost>>
    BY <1>2 DEF FinalizeCall, Let, Goto, IInv, TypeOK
  <1>4. QED BY <1>1, <1>3, HoldingStep DEF Holding

LEMMA AcceptState ==
  ASSUME PlainUse, IInv, StateOK, NEW t \in Tasks, Accept(t)
  PROVE  StateOK' /\ pc'[t] = "acked" /\ job'[t].utxo = job[t].utxo
  <1>1. PICK o : /\ pc[t] = "sent" /\ pc'[t] = "acked"
                 /\ job'[t] = [job[t] EXCEPT !.out = o]
                 /\ UNCHANGED <<state, currentUtxo, calls, lost>>
    BY DEF Accept, Let, Goto, IInv, TypeOK, PlainUse
  <1>2. QED BY <1>1, HoldingStep DEF Holding

LEMMA CallReturnState ==
  ASSUME PlainUse, IInv, StateOK, NEW t \in Tasks, CallReturn(t) PROVE StateOK'
  <1>1. /\ pc[t] = "acked" /\ pc'[t] = "fetch" /\ currentUtxo' = Tracked(t)
        /\ UNCHANGED <<state, lost, calls, job>>
    BY DEF CallReturn, Goto, IInv, TypeOK
  <1>2. currentUtxo' # None => state = currentUtxo'.script
    BY <1>1 DEF Tracked, StateOK, TaskState, Faithful, Holding
  <1>3. TaskState(t)'
    BY <1>1, <1>2 DEF StateOK, TaskState, Outside, Holding
  <1>4. QED BY <1>1, <1>3 DEF StateOK, PlainUse, OneTask

(* Nothing fails: the tracked output is there, and the network accepts.    *)
LEMMA NothingFails ==
  ASSUME PlainUse, IInv, StateOK, NEW t \in Tasks
  PROVE  ~PrepareOnNull(t) /\ ~Refuse(t) /\ ~Throw(t)
  <1>1. ~PrepareOnNull(t)
    BY DEF PrepareOnNull, StateOK, TaskState, Outside
  <1>2. ~Refuse(t)
    BY Spendable DEF Refuse, PlainUse, Holding
  <1>3. ~Throw(t)
    BY DEF Throw, PlainUse
  <1>4. QED BY <1>1, <1>2, <1>3

LEMMA NextStateOK ==
  ASSUME PlainUse PROVE IInv /\ StateOK /\ [Next]_vars => StateOK'
  <1> SUFFICES ASSUME IInv, StateOK, [Next]_vars PROVE StateOK'
    OBVIOUS
  <1>1. ASSUME NEW t \in Tasks, Begin(t) PROVE StateOK'
    BY <1>1, DeployState, CallBeginState, FinalizeState DEF Begin
  <1>2. ASSUME NEW t \in Tasks, Resume(t) PROVE StateOK'
    BY <1>2, DeployState, DeployReturnState, PrepareStateState, PrepareFundState, HandOverState,
       SignState, FinalizeState, AcceptState, CallReturnState, NothingFails DEF Resume
  <1>3. CASE UNCHANGED <<state, currentUtxo, lost, calls, pc, job>>
    BY <1>3 DEF StateOK, TaskState, Faithful
  <1>4. QED BY <1>1, <1>2, <1>3 DEF Next, SetState, Connect, PlainUse, vars

LEMMA StateInvariance == ASSUME PlainUse PROVE Spec => []StateOK
  <1>1. Init => StateOK
    BY DEF Init, StateOK, TaskState, NoJob, Outside, Holding
  <1>2. IInv /\ StateOK /\ [Next]_vars => StateOK'
    BY NextStateOK
  <1>3. QED BY <1>1, <1>2, Invariance, PTL DEF Spec

(* The wrapper "tracks current state and UTXO": between calls, `state` is  *)
(* the state of the tracked output.                                        *)
THEOREM InStepCorrect == ASSUME PlainUse PROVE Spec => []InStep
  <1>1. StateOK => InStep
    BY DEF StateOK, TaskState, InStep, Quiet, Outside, PlainUse, OneTask
  <1>2. QED BY <1>1, StateInvariance, PTL

(* The SDK "matches what the on-chain script will compute": a call whose   *)
(* state it derived itself satisfies the script it spends.                 *)
THEOREM AutoStateMatchesScriptCorrect ==
  ASSUME PlainUse PROVE Spec => []AutoStateMatchesScript
  <1>1. IInv /\ StateOK => AutoStateMatchesScript
    BY Spendable DEF AutoStateMatchesScript, Valid, Holding
  <1>2. QED BY <1>1, StateInvariance, Invariance, PTL

-----------------------------------------------------------------------------
(* The protocol implements AtomicContract: the caller sees the tip of the  *)
(* chain, and the state from before the call until its answer has arrived. *)
Tip  == IF currentUtxo = None THEN None ELSE currentUtxo.script
View == IF MidCall = {} THEN state ELSE job[CHOOSE t \in MidCall : TRUE].utxo.script

LEMMA PendingOne ==
  ASSUME NEW t, Tasks = {t}, NEW at \in [Tasks -> Labels], NEW locals, NEW s
  PROVE  LET mid == { u \in Tasks : at[u] \in Labels \ Outside } IN
         (IF mid = {} THEN s ELSE locals[CHOOSE u \in mid : TRUE].utxo.script)
           = IF at[t] \in Outside THEN s ELSE locals[t].utxo.script
  <1> DEFINE mid == { u \in Tasks : at[u] \in Labels \ Outside }
  <1>1. CASE at[t] \in Outside
    <2>1. mid = {}  BY <1>1
    <2>2. QED BY <1>1, <2>1
  <1>2. CASE at[t] \notin Outside
    <2>1. mid = {t}  BY <1>2
    <2>2. (CHOOSE u \in mid : TRUE) = t  BY <2>1
    <2>3. QED BY <1>2, <2>1, <2>2
  <1>3. QED BY <1>1, <1>2

LEMMA MidCallIs == MidCall = { t \in Tasks : pc[t] \in Labels \ Outside }
  BY DEF MidCall, Labels, Outside

(* While there is a tracked output the view is its state.                  *)
ViewOK == View = IF currentUtxo = None THEN state ELSE Tip

LEMMA ViewIs == ASSUME PlainUse PROVE IInv /\ StateOK => ViewOK
  <1> SUFFICES ASSUME IInv, StateOK PROVE ViewOK
    OBVIOUS
  <1>1. PICK t : Tasks = {t}  BY DEF PlainUse, OneTask
  <1>2. View = IF pc[t] \in Outside THEN state ELSE job[t].utxo.script
    BY <1>1, PendingOne, MidCallIs DEF View, IInv, TypeOK
  <1>3. QED BY <1>1, <1>2 DEF StateOK, TaskState, Tip, ViewOK

(* Steps that leave the tracked output alone are steps of a caller who     *)
(* sees nothing: _state moves only while there is a tracked output.        *)
LEMMA Unseen ==
  ASSUME PlainUse, IInv, StateOK, ViewOK, ViewOK', [Next]_vars, currentUtxo' = currentUtxo
  PROVE  UNCHANGED <<Tip, View>>
  <1>1. state' = state \/ currentUtxo # None
    BY DEF Next, Begin, Resume, Deploy, CallBegin, FinalizeCall, DeployBuild, DeployAccept,
           DeployReturn, PrepareState, PrepareFund, PrepareRebuild, PrepareTerminal,
           PrepareOnNull, Sign, Accept, Refuse, CallReturn, Fetched, Throw, SetState, Connect,
           PlainUse, vars
  <1>2. Tip' = Tip  BY DEF Tip
  <1>3. QED BY <1>1, <1>2 DEF ViewOK

(* An answer arrives: the operation happens, at once.                      *)
LEMMA DeployHappens ==
  ASSUME PlainUse, IInv, IInv', StateOK, ViewOK, ViewOK', NEW t \in Tasks, DeployReturn(t)
  PROVE  Tip' = View /\ View' = View
  <1>1. /\ pc[t] = "deploy.acked" /\ state' = state
        /\ currentUtxo' = [id |-> job[t].out, script |-> job[t].new]
    BY DEF DeployReturn
  <1>2. currentUtxo' # None
    BY <1>1, CreatedState, NoneIsNoUtxo DEF IInv, InFlight, Created, Utxo
  <1>3. job[t].new = state /\ (currentUtxo # None => state = currentUtxo.script)
    BY <1>1 DEF StateOK, TaskState, Outside
  <1>4. QED BY <1>1, <1>2, <1>3 DEF ViewOK, Tip

LEMMA CallHappens ==
  ASSUME PlainUse, IInv, IInv', StateOK, ViewOK, ViewOK', NEW t \in Tasks, CallReturn(t)
  PROVE  /\ currentUtxo # None
         /\ \/ \E m \in Updates : Tip' = Effect[m][Tip] /\ View' = Tip'
            \/ Closes # {} /\ Tip' = None /\ View' = View
  <1> DEFINE call == calls[job[t].prepared]
  <1>1. pc[t] = "acked" /\ currentUtxo' = Tracked(t) /\ state' = state
    BY DEF CallReturn
  <1>2. Faithful(call)  BY <1>1 DEF StateOK, TaskState, Holding
  <1>a. View = Tip /\ Tip = currentUtxo.script
    BY <1>2 DEF Faithful, ViewOK, Tip
  <1>3. CASE call.method \in Closes
    <2>1. currentUtxo' = None  BY <1>1, <1>3 DEF Tracked
    <2>2. Tip' = None /\ View' = state'  BY <2>1 DEF ViewOK, Tip
    <2>3. state = currentUtxo.script  BY <1>2, <1>3 DEF Faithful
    <2>4. state = Tip  BY <1>a, <2>3
    <2>5. View' = View  BY <1>1, <1>a, <2>2, <2>4
    <2>6. Closes # {}  BY <1>3
    <2>7. currentUtxo # None  BY <1>2 DEF Faithful
    <2>8. QED BY <2>2, <2>5, <2>6, <2>7
  <1>4. CASE call.method \notin Closes
    <2>1. currentUtxo' = [id |-> job[t].out, script |-> call.new]
      BY <1>1, <1>4 DEF Tracked
    <2>2. currentUtxo' # None
      BY <1>1, <1>4, <2>1, CreatedState, NoneIsNoUtxo DEF IInv, InFlight, Created, Utxo
    <2>3. Tip' = call.new /\ View' = Tip'  BY <2>1, <2>2 DEF ViewOK, Tip
    <2>4. /\ call.method \in Updates /\ currentUtxo # None
          /\ call.new = Effect[call.method][Tip]
      BY <1>2, <1>4, <1>a DEF Faithful
    <2>5. QED BY <2>3, <2>4
  <1>5. QED BY <1>2, <1>3, <1>4 DEF Faithful

(* What the caller of a RunarContract sees changes in the steps of         *)
(* AtomicContract and in no others.                                        *)
THEOREM RefinesAtomicCorrect == ASSUME PlainUse PROVE Spec => RefinesAtomic
  <1>1. Init => Atomic!Init
    BY MidCallIs DEF Init, Atomic!Init, Outside
  <1>2. IInv /\ IInv' /\ StateOK /\ ViewOK /\ ViewOK' /\ [Next]_vars
          => [Atomic!Next]_(Atomic!vars)
    <2> SUFFICES ASSUME IInv, IInv', StateOK, ViewOK, ViewOK', [Next]_vars
                 PROVE  [Atomic!Next]_(Atomic!vars)
      OBVIOUS
    <2>1. CASE currentUtxo' = currentUtxo
      <3>1. UNCHANGED <<Tip, View>>  BY <2>1, Unseen
      <3>2. QED BY <3>1 DEF Tip, View, Atomic!vars
    <2>2. ASSUME NEW t \in Tasks, DeployReturn(t) PROVE Atomic!Next
      <3>1. Tip' = View /\ View' = View  BY <2>2, DeployHappens
      <3>2. QED BY <3>1 DEF Tip, View, Atomic!Next, Atomic!Deploy
    <2>3. ASSUME NEW t \in Tasks, CallReturn(t) PROVE Atomic!Next
      <3>1. Tip # None /\ \/ \E m \in Updates : Tip' = Effect[m][Tip] /\ View' = Tip'
                          \/ Closes # {} /\ Tip' = None /\ View' = View
        BY <2>3, CallHappens, NoneAssumption DEF Tip, IInv, TypeOK, Optional, Utxo
      <3>2. QED BY <3>1 DEF Tip, View, Atomic!Next, Atomic!Call, Atomic!Close
    <2>4. \/ currentUtxo' = currentUtxo
          \/ \E t \in Tasks : DeployReturn(t) \/ CallReturn(t)
      BY DEF Next, Begin, Resume, Deploy, CallBegin, FinalizeCall, DeployBuild, DeployAccept,
             PrepareState, PrepareFund, PrepareRebuild, PrepareTerminal, PrepareOnNull, Sign,
             Accept, Refuse, Fetched, Throw, SetState, Connect, vars
    <2>5. QED BY <2>1, <2>2, <2>3, <2>4
  <1>3. IInv /\ StateOK => ViewOK  BY ViewIs
  <1>4. QED BY <1>1, <1>2, <1>3, Invariance, StateInvariance, PTL
        DEF Spec, RefinesAtomic, Atomic!Spec
=============================================================================
