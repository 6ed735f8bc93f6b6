------------------------ MODULE RunarContractProofs ------------------------
(***************************************************************************)
(* Safety of RunarContract for any number of overlapping invocations, any  *)
(* states, methods, options and faults, from one inductive invariant.      *)
(*                                                                         *)
(* The idea: an output of a transaction whose broadcast has not returned   *)
(* is named nowhere in the object, so no invocation can spend it; when the *)
(* answer arrives, currentUtxo moves to an output that is still unspent.   *)
(***************************************************************************)
EXTENDS RunarContract, TLAPS

Preparing == { "prepare.state", "prepare.fund", "prepare.rebuild" }
Holding   == { "call.sign", "call.finalize", "sent", "acked" }

(* Task t has created an output and awaits the answer of its broadcast.    *)
InFlight(t) ==
  \/ pc[t] = "deploy.acked"
  \/ pc[t] = "acked" /\ calls[job[t].prepared].method \notin Closes

(* The script that output carries.                                         *)
Created(t) ==
  IF pc[t] = "deploy.acked" THEN job[t].new ELSE calls[job[t].prepared].new

(* Outpoint o is spent or can be named by a transaction yet to be built.   *)
Known(o) ==
  \/ o \in spent
  \/ currentUtxo # None /\ currentUtxo.id = o
  \/ \E p \in Preps : calls[p] # None /\ calls[p].input = o
  \/ \E t \in Tasks : pc[t] \in Preparing /\ job[t].utxo.id = o

(* What the locals of a task hold at each of its awaits.                   *)
TaskOK(t) ==
  /\ pc[t] \in {"deploy.sent", "deploy.acked", "prepare.fund", "prepare.rebuild"} =>
       job[t].new \in States
  /\ pc[t] \in Preparing => job[t].method \in Methods /\ job[t].utxo \in Utxo
  /\ pc[t] \in {"prepare.fund", "prepare.rebuild"} => job[t].method \notin Closes
  /\ pc[t] = "prepare.state" /\ job[t].method \in Splits => job[t].outputs \in States
  /\ pc[t] \in Holding => job[t].prepared \in Preps /\ calls[job[t].prepared] # None
  /\ InFlight(t) => job[t].out \in Outs /\ outs[job[t].out] = Created(t)

(* Unless it is terminal, a PreparedCall has a continuation.               *)
CallOK(p) == calls[p] # None /\ calls[p].method \notin Closes => calls[p].new \in States

(* A PreparedCall not yet consumed was never sent.                         *)
SendOK(p) == sends[p] <= 1 /\ (p \notin consumed => sends[p] = 0)

(* Nothing can name an output before the network has it.                   *)
KnownExist == \A o \in Outs : Known(o) => outs[o] # None

(* What is in flight is not known, and belongs to one task.                *)
Unheard(t) ==
  InFlight(t) =>
    /\ ~Known(job[t].out)
    /\ \A u \in Tasks : InFlight(u) /\ u # t => job[u].out # job[t].out

IInv ==
  /\ TypeOK
  /\ \A t \in Tasks : TaskOK(t)
  /\ \A p \in Preps : CallOK(p)
  /\ \A p \in Preps : SendOK(p)
  /\ KnownExist
  /\ \A t \in Tasks : Unheard(t)
  /\ TrackedOnChain
  /\ TrackedLive

-----------------------------------------------------------------------------
(* Frame lemmas: what a step of task t leaves of the invariant untouched.  *)

Others(t) == \A u \in Tasks : u # t => pc'[u] = pc[u] /\ job'[u] = job[u]

(* Outputs and PreparedCalls are added, never changed.                     *)
Grows ==
  /\ \A o \in Outs : outs[o] # None => outs'[o] = outs[o]
  /\ \A p \in Preps : calls[p] # None => calls'[p] = calls[p]

(* What a task has in flight exists on the network.                        *)
LEMMA CreatedState ==
  ASSUME \A p \in Preps : CallOK(p), NEW u \in Tasks, TaskOK(u), InFlight(u)
  PROVE  job[u].out \in Outs /\ outs[job[u].out] = Created(u) /\ Created(u) \in States
  <1>1. CASE pc[u] = "deploy.acked"
    BY <1>1 DEF TaskOK, Created
  <1>2. CASE pc[u] # "deploy.acked"
    BY <1>2 DEF TaskOK, Created, InFlight, Holding, CallOK
  <1>3. QED BY <1>1, <1>2

LEMMA TaskKept ==
  ASSUME Grows, \A p \in Preps : CallOK(p), NEW u \in Tasks, TaskOK(u),
         pc'[u] = pc[u], job'[u] = job[u]
  PROVE  TaskOK(u)' /\ (InFlight(u)' <=> InFlight(u))
  <1>1. pc[u] \in Holding => calls'[job[u].prepared] = calls[job[u].prepared]
    BY DEF Grows, TaskOK
  <1>2. InFlight(u)' <=> InFlight(u)
    BY <1>1 DEF InFlight, Holding
  <1>3. InFlight(u) => Created(u)' = Created(u)
    BY <1>1 DEF Created, InFlight, Holding
  <1>4. InFlight(u) => outs[job[u].out] # None
    BY CreatedState, NoneAssumption
  <1>5. QED BY <1>1, <1>2, <1>3, <1>4 DEF Grows, TaskOK

(* Every step but the arrival of an answer: nothing unheard becomes known, *)
(* and a new output is one that did not exist.                             *)
LEMMA Frame ==
  ASSUME IInv, TypeOK', NEW t \in Tasks, Others(t), Grows, ~InFlight(t),
         \A o \in Outs : Known(o)' => Known(o),
         InFlight(t)' => job'[t].out \in Outs /\ outs[job'[t].out] = None,
         TaskOK(t)', \A p \in Preps : CallOK(p)', \A p \in Preps : SendOK(p)',
         TrackedOnChain', TrackedLive'
  PROVE  IInv'
  <1>1. \A u \in Tasks : TaskOK(u)'
    BY TaskKept DEF IInv, Others
  <1>2. KnownExist'
    BY NoneAssumption DEF IInv, KnownExist, Grows
  <1>3. ASSUME NEW u \in Tasks PROVE Unheard(u)'
    <2>1. CASE u = t
      <3>1. InFlight(t)' => ~Known(job[t].out)'
        BY DEF IInv, KnownExist, Known
      <3>2. ASSUME NEW v \in Tasks, InFlight(v)', v # t, InFlight(t)'
            PROVE  job'[v].out # job'[t].out
        <4>1. InFlight(v)  BY <3>2, TaskKept DEF IInv, Others
        <4>2. outs[job[v].out] # None  BY <4>1, CreatedState, NoneAssumption DEF IInv
        <4>3. QED BY <3>2, <4>2 DEF Others
      <3>3. QED BY <2>1, <3>1, <3>2 DEF Unheard
    <2>2. CASE u # t /\ InFlight(u)'
      <3>1. InFlight(u) /\ job'[u] = job[u]  BY <2>2, TaskKept DEF IInv, Others
      <3>2. job[u].out \in Outs /\ outs[job[u].out] # None
        BY <3>1, CreatedState, NoneAssumption DEF IInv
      <3>3. ~Known(job[u].out)'
        BY <3>1, <3>2 DEF IInv, Unheard, Known
      <3>4. ASSUME NEW v \in Tasks, InFlight(v)', v # u PROVE job'[v].out # job'[u].out
        <4>1. CASE v = t  BY <4>1, <3>1, <3>2, <3>4
        <4>2. CASE v # t
          <5>1. InFlight(v) /\ job'[v] = job[v]  BY <3>4, <4>2, TaskKept DEF IInv, Others
          <5>2. QED BY <3>1, <3>4, <5>1 DEF IInv, Unheard
        <4>3. QED BY <4>1, <4>2
      <3>5. QED BY <3>3, <3>4 DEF Unheard
    <2>3. QED BY <2>1, <2>2 DEF Unheard
  <1>4. QED BY <1>1, <1>2, <1>3 DEF IInv

(* A step that leaves currentUtxo and what is spent alone.                 *)
LEMMA QuietStep ==
  ASSUME IInv, TypeOK', NEW t \in Tasks, Others(t), Grows,
         UNCHANGED <<currentUtxo, spent, lost>>,
         pc[t] \notin {"deploy.acked", "acked"}, pc'[t] # "acked",
         InFlight(t)' => job'[t].out \in Outs /\ outs[job'[t].out] = None,
         pc'[t] \in Preparing => Known(job'[t].utxo.id),
         \A p \in Preps : calls[p] = None /\ calls'[p] # None => Known(calls'[p].input),
         TaskOK(t)', \A p \in Preps : CallOK(p)', \A p \in Preps : SendOK(p)'
  PROVE  IInv'
  <1>1. ~InFlight(t)  BY DEF InFlight
  <1>2. ASSUME NEW o \in Outs, Known(o)' PROVE Known(o)
    <2>1. CASE \E p \in Preps : calls'[p] # None /\ calls'[p].input = o
      <3>1. PICK p \in Preps : calls'[p] # None /\ calls'[p].input = o  BY <2>1
      <3>2. CASE calls[p] = None  BY <3>1, <3>2
      <3>3. CASE calls[p] # None  BY <3>1, <3>3 DEF Known, Grows
      <3>4. QED BY <3>2, <3>3
    <2>2. CASE \E u \in Tasks : pc'[u] \in Preparing /\ job'[u].utxo.id = o
      <3>1. PICK u \in Tasks : pc'[u] \in Preparing /\ job'[u].utxo.id = o  BY <2>2
      <3>2. CASE u = t  BY <3>1, <3>2
      <3>3. CASE u # t  BY <3>1, <3>3 DEF Known, Others
      <3>4. QED BY <3>2, <3>3
    <2>3. CASE o \in spent \/ (currentUtxo # None /\ currentUtxo.id = o)
      BY <2>3 DEF Known
    <2>4. QED BY <1>2, <2>1, <2>2, <2>3 DEF Known
  <1>3. TrackedOnChain'
    BY NoneAssumption DEF IInv, TypeOK, TrackedOnChain, Grows, Optional, Utxo
  <1>4. TrackedLive'
    <2>1. ASSUME NEW u \in Tasks, NEW o, pc[u] = "acked" /\ calls[job[u].prepared].input = o
          PROVE  pc'[u] = "acked" /\ calls'[job'[u].prepared].input = o
      BY <2>1 DEF IInv, TaskOK, Holding, Grows, Others
    <2>2. QED BY <2>1 DEF IInv, TrackedLive, SpendInFlight
  <1>5. QED BY <1>1, <1>2, <1>3, <1>4, Frame

(* An answer arrives: currentUtxo moves to what the task had in flight.    *)
LEMMA Arrival ==
  ASSUME IInv, TypeOK', NEW t \in Tasks, Others(t), InFlight(t), pc'[t] \in {"idle", "fetch"},
         currentUtxo' = [id |-> job[t].out, script |-> Created(t)],
         UNCHANGED <<outs, spent, lost, calls, consumed, sends>>
  PROVE  IInv'
  <1>1. /\ job[t].out \in Outs
        /\ outs[job[t].out] = Created(t) /\ Created(t) \in States
        /\ ~Known(job[t].out)
    BY CreatedState DEF IInv, Unheard
  <1>2. Grows  BY DEF Grows
  <1>3. \A u \in Tasks : TaskOK(u)'
    <2>1. TaskOK(t)'  BY DEF TaskOK, InFlight, Preparing, Holding
    <2>2. QED BY <1>2, <2>1, TaskKept DEF IInv, Others
  <1>4. ASSUME NEW o \in Outs, Known(o)' PROVE Known(o) \/ o = job[t].out
    BY <1>4 DEF Known, Others, Preparing
  <1>5. KnownExist'
    BY <1>1, <1>4, NoneAssumption DEF IInv, KnownExist
  <1>6. ASSUME NEW u \in Tasks, InFlight(u)' PROVE Unheard(u)'
    <2>1. u # t  BY <1>6 DEF InFlight
    <2>2. InFlight(u) /\ job'[u] = job[u]
      BY <1>2, <1>6, <2>1, TaskKept DEF IInv, Others
    <2>3. job[u].out \in Outs /\ ~Known(job[u].out) /\ job[u].out # job[t].out
      BY <2>1, <2>2, CreatedState DEF IInv, Unheard
    <2>4. ~Known(job[u].out)'
      BY <1>4, <2>2, <2>3 DEF Known
    <2>5. ASSUME NEW v \in Tasks, InFlight(v)', v # u PROVE job'[v].out # job'[u].out
      <3>1. v # t  BY <2>5 DEF InFlight
      <3>2. InFlight(v) /\ job'[v] = job[v]
        BY <1>2, <2>5, <3>1, TaskKept DEF IInv, Others
      <3>3. QED BY <2>2, <2>5, <3>2 DEF IInv, Unheard
    <2>6. QED BY <2>4, <2>5 DEF Unheard
  <1>7. \A p \in Preps : CallOK(p)' /\ SendOK(p)'
    BY DEF IInv, CallOK, SendOK
  <1>8. TrackedOnChain' /\ TrackedLive'
    BY <1>1 DEF TrackedOnChain, TrackedLive, Known
  <1>9. QED BY <1>3, <1>5, <1>6, <1>7, <1>8 DEF IInv, Unheard
-----------------------------------------------------------------------------
(* Type correctness of every step.                                         *)

LEMMA JobNew ==
  ASSUME NEW j \in Job, NEW s \in Optional(States) PROVE [j EXCEPT !.new = s] \in Job
  BY DEF Job

LEMMA JobOut ==
  ASSUME NEW j \in Job, NEW o \in Optional(Outs) PROVE [j EXCEPT !.out = o] \in Job
  BY DEF Job

LEMMA JobPrepared ==
  ASSUME NEW j \in Job, NEW p \in Preps PROVE [j EXCEPT !.prepared = p] \in Job
  BY DEF Job, Optional

LEMMA JobUsed ==
  ASSUME NEW j \in Job, NEW c \in Conns PROVE [j EXCEPT !.used = @ \cup {c}] \in Job
  <1> DEFINE used == j.used \cup {c}
  <1>1. used \in SUBSET Conns  BY DEF Job
  <1>2. [j EXCEPT !.used = used] \in Job  BY <1>1 DEF Job
  <1>3. QED BY <1>2

LEMMA JobPreparedUsed ==
  ASSUME NEW j \in Job, NEW p \in Preps, NEW c \in Conns
  PROVE  [j EXCEPT !.prepared = p, !.used = @ \cup {c}] \in Job
  <1> DEFINE used == j.used \cup {c}
  <1>1. used \in SUBSET Conns  BY DEF Job
  <1>2. [j EXCEPT !.prepared = p, !.used = used] \in Job  BY <1>1 DEF Job, Optional
  <1>3. QED BY <1>2

LEMMA NoJobOK == NoJob \in Job
  BY DEF NoJob, Job, Optional

(* The locals a call starts with.                                          *)
BegunJob(m, new, dry, api, own, saved, utxo, outputs) ==
  [NoJob EXCEPT !.method = m, !.newState = new, !.dryRun = dry, !.api = api, !.own = own,
                !.used = {own}, !.saved = saved, !.utxo = utxo, !.outputs = outputs]

LEMMA JobBegin ==
  ASSUME NEW m \in Methods, NEW new \in Optional(States), NEW dry \in BOOLEAN,
         NEW api \in {"call", "prepareCall"}, NEW own \in Conns, NEW saved \in Optional(Conns),
         NEW utxo \in Optional(Utxo), NEW outputs \in Optional(States)
  PROVE  BegunJob(m, new, dry, api, own, saved, utxo, outputs) \in Job
  BY DEF BegunJob, NoJob, Job, Optional

(* Settling a promise keeps the types of what it assigns.                  *)
LEMMA SettleTypes ==
  ASSUME TypeOK, NEW t \in Tasks, Settle(t)
  PROVE  job' \in [Tasks -> Job] /\ pc' \in [Tasks -> Labels] /\ conn' \in Conns
  <1>1. conn' \in Conns  BY DEF TypeOK, Settle, Restored, Job, Optional
  <1>2. QED BY <1>1, NoJobOK DEF TypeOK, Settle, Goto, Let, Labels
-----------------------------------------------------------------------------
(* The steps.  Each lemma: the action preserves the invariant.             *)

USE DEF object, network

(* A promise settles, having changed nothing but, maybe, `consumed`.       *)
LEMMA SettleStep ==
  ASSUME IInv, NEW t \in Tasks, Settle(t), pc[t] \notin {"deploy.acked", "acked"},
         UNCHANGED <<state, currentUtxo, connected, network, calls, sends>>,
         consumed \subseteq consumed', consumed' \subseteq Preps
  PROVE  IInv'
  <1>1. TypeOK'  BY SettleTypes DEF IInv, TypeOK
  <1>2. pc'[t] = "idle" /\ Others(t) /\ Grows
    BY DEF IInv, TypeOK, Settle, Goto, Let, Others, Grows
  <1>3. ~InFlight(t)' /\ TaskOK(t)'
    BY <1>2 DEF InFlight, TaskOK, Preparing, Holding
  <1>4. \A p \in Preps : CallOK(p)' /\ SendOK(p)'
    BY DEF IInv, CallOK, SendOK
  <1>5. QED BY <1>1, <1>2, <1>3, <1>4, QuietStep DEF Preparing

LEMMA DeployStep ==
  ASSUME IInv, NEW t \in Tasks, Deploy(t) PROVE IInv'
  <1>1. TypeOK'  BY DEF IInv, Deploy, Goto, TypeOK, Labels
  <1>2. pc[t] = "idle" /\ pc'[t] = "deploy.build" /\ Others(t) /\ Grows
    BY DEF IInv, TypeOK, Deploy, Goto, Others, Grows
  <1>3. ~InFlight(t)' /\ TaskOK(t)'
    BY <1>2 DEF InFlight, TaskOK, Preparing, Holding
  <1>4. UNCHANGED <<currentUtxo, spent, lost, calls, consumed, sends>>  BY DEF Deploy
  <1>5. \A p \in Preps : CallOK(p)' /\ SendOK(p)'
    BY <1>4 DEF IInv, CallOK, SendOK
  <1>6. QED BY <1>1, <1>2, <1>3, <1>4, <1>5, QuietStep DEF Preparing

LEMMA DeployBuildStep ==
  ASSUME IInv, NEW t \in Tasks, DeployBuild(t) PROVE IInv'
  <1>1. state \in Optional(States)  BY DEF IInv, TypeOK, Optional
  <1>2. TypeOK'  BY <1>1, JobNew DEF IInv, DeployBuild, Goto, Let, TypeOK, Labels
  <1>3. /\ pc[t] = "deploy.build" /\ pc'[t] = "deploy.sent" /\ Others(t) /\ Grows
        /\ job'[t] = [job[t] EXCEPT !.new = state]
    BY DEF IInv, TypeOK, DeployBuild, Goto, Let, Others, Grows
  <1>4. job'[t].new = state  BY <1>3 DEF IInv, TypeOK, Job
  <1>5. ~InFlight(t)' /\ TaskOK(t)'
    BY <1>3, <1>4 DEF InFlight, TaskOK, Preparing, Holding, IInv, TypeOK
  <1>6. UNCHANGED <<currentUtxo, spent, lost, calls, consumed, sends>>  BY DEF DeployBuild
  <1>7. \A p \in Preps : CallOK(p)' /\ SendOK(p)'
    BY <1>6 DEF IInv, CallOK, SendOK
  <1>8. QED BY <1>2, <1>3, <1>5, <1>6, <1>7, QuietStep DEF Preparing

LEMMA DeployAcceptStep ==
  ASSUME IInv, NEW t \in Tasks, DeployAccept(t) PROVE IInv'
  <1>1. PICK o \in FreshOuts :
          /\ outs' = [outs EXCEPT ![o] = job[t].new]
          /\ \/ /\ Let(t, [job[t] EXCEPT !.out = o])
                /\ Goto(t, "deploy.acked")
                /\ UNCHANGED conn
             \/ "lost" \in Faults /\ Settle(t)
    BY DEF DeployAccept
  <1>2. /\ pc[t] = "deploy.sent" /\ job[t].new \in States
        /\ UNCHANGED <<state, currentUtxo, connected, consumed, calls, spent, lost, sends>>
    BY DEF DeployAccept, IInv, TaskOK
  <1>3. o \in Outs /\ outs[o] = None  BY DEF FreshOuts
  <1>4. Grows /\ outs' \in [Outs -> Optional(States)] /\ outs'[o] = job[t].new
    BY <1>1, <1>2, <1>3 DEF Grows, IInv, TypeOK, Optional
  <1>5. \A p \in Preps : CallOK(p)' /\ SendOK(p)'
    BY <1>2 DEF IInv, CallOK, SendOK
  <1>6. CASE Let(t, [job[t] EXCEPT !.out = o]) /\ Goto(t, "deploy.acked") /\ UNCHANGED conn
    <2>1. /\ pc'[t] = "deploy.acked" /\ job'[t] = [job[t] EXCEPT !.out = o] /\ Others(t)
          /\ pc' \in [Tasks -> Labels]
      BY <1>6 DEF Goto, Let, IInv, TypeOK, Others, Labels
    <2>2. job'[t].out = o /\ job'[t].new = job[t].new  BY <2>1 DEF IInv, TypeOK, Job
    <2>3. [job[t] EXCEPT !.out = o] \in Job  BY <1>3, JobOut DEF IInv, TypeOK, Optional
    <2>4. TypeOK'  BY <1>2, <1>4, <1>6, <2>1, <2>3 DEF Let, IInv, TypeOK
    <2>5. TaskOK(t)'
      BY <1>2, <1>3, <1>4, <2>1, <2>2 DEF TaskOK, InFlight, Created, Preparing, Holding
    <2>6. QED BY <1>2, <1>3, <1>4, <1>5, <2>1, <2>2, <2>4, <2>5, QuietStep DEF Preparing
  <1>7. CASE Settle(t)
    <2>1. pc'[t] = "idle" /\ Others(t)  BY <1>7 DEF Settle, Goto, Let, IInv, TypeOK, Others
    <2>2. TypeOK'  BY <1>2, <1>4, <1>7, SettleTypes DEF IInv, TypeOK
    <2>3. ~InFlight(t)' /\ TaskOK(t)'  BY <2>1 DEF TaskOK, InFlight, Preparing, Holding
    <2>4. QED BY <1>2, <1>4, <1>5, <2>1, <2>2, <2>3, QuietStep DEF Preparing
  <1>8. QED BY <1>1, <1>6, <1>7

LEMMA DeployReturnStep ==
  ASSUME IInv, NEW t \in Tasks, DeployReturn(t) PROVE IInv'
  <1>1. /\ pc[t] = "deploy.acked" /\ pc' = [pc EXCEPT ![t] = "fetch"]
        /\ currentUtxo' = [id |-> job[t].out, script |-> job[t].new]
        /\ UNCHANGED <<state, conn, connected, consumed, network, calls, job, sends>>
    BY DEF DeployReturn, Goto
  <1>2. /\ InFlight(t) /\ currentUtxo' = [id |-> job[t].out, script |-> Created(t)]
        /\ pc'[t] = "fetch" /\ pc' \in [Tasks -> Labels] /\ Others(t)
    BY <1>1 DEF InFlight, Created, IInv, TypeOK, Labels, Others
  <1>3. currentUtxo' \in Optional(Utxo)
    BY <1>2, CreatedState DEF IInv, Utxo, Optional
  <1>4. TypeOK'  BY <1>1, <1>2, <1>3 DEF IInv, TypeOK
  <1>5. QED BY <1>1, <1>2, <1>4, Arrival

LEMMA CallBeginStep ==
  ASSUME IInv, NEW t \in Tasks, CallBegin(t) PROVE IInv'
  <1>1. /\ pc[t] = "idle" /\ currentUtxo # None
        /\ pc' = [pc EXCEPT ![t] = "prepare.state"]
        /\ UNCHANGED <<state, currentUtxo, connected, consumed, outs, spent, lost, calls, sends>>
    BY DEF CallBegin, Goto
  <1>2. PICK m \in Methods, new \in NewStates, dry \in DryRuns, with \in Explicit, api \in Apis :
          conn' = Given(with) /\ Let(t, CallLocals(m, new, dry, with, api))
    BY DEF CallBegin
  <1>3. currentUtxo \in Utxo /\ Given(with) \in Conns
    BY <1>1, ConnsAssumption, OptionsAssumption DEF IInv, TypeOK, Optional, Given
  <1> DEFINE locals == CallLocals(m, new, dry, with, api)
  <1>4. locals \in Job /\ locals.method = m /\ locals.utxo = currentUtxo
        /\ (m \in Splits => locals.outputs \in States)
    <2>1. /\ new \in Optional(States) /\ dry \in BOOLEAN /\ api \in {"call", "prepareCall"}
          /\ (IF with = None THEN None ELSE conn) \in Optional(Conns)
          /\ currentUtxo \in Optional(Utxo)
      BY <1>3, OptionsAssumption DEF IInv, TypeOK, Optional
    <2>2. m \in Splits => Effect[m][currentUtxo.script] \in States
      BY <1>3, EffectAssumption DEF Utxo
    <2>3. (IF m \in Splits THEN Effect[m][currentUtxo.script] ELSE None) \in Optional(States)
      BY <2>2 DEF Optional
    <2>4. locals \in Job
      <3> DEFINE own == Given(with)
                 saved == IF with = None THEN None ELSE conn
                 outputs == IF m \in Splits THEN Effect[m][currentUtxo.script] ELSE None
      <3>1. own \in Conns /\ saved \in Optional(Conns) /\ outputs \in Optional(States)
        BY <1>3, <2>1, <2>3
      <3>2. locals = BegunJob(m, new, dry, api, own, saved, currentUtxo, outputs)
        BY DEF CallLocals, BegunJob
      <3>3. new \in Optional(States) /\ currentUtxo \in Optional(Utxo)  BY <2>1
      <3>4. dry \in BOOLEAN /\ api \in {"call", "prepareCall"}  BY <2>1
      <3> HIDE DEF own, saved, outputs, locals
      <3>5. BegunJob(m, new, dry, api, own, saved, currentUtxo, outputs) \in Job
        BY <3>1, <3>3, <3>4, JobBegin
      <3>6. QED BY <3>2, <3>5
    <2>5. locals.method = m /\ locals.utxo = currentUtxo
      BY DEF CallLocals, NoJob
    <2>6. m \in Splits => locals.outputs = Effect[m][currentUtxo.script]
      BY DEF CallLocals, NoJob
    <2>7. QED BY <2>2, <2>4, <2>5, <2>6
  <1> HIDE DEF locals
  <1>5. job' = [job EXCEPT ![t] = locals]  BY <1>2 DEF Let, locals
  <1>6. TypeOK'  BY <1>1, <1>2, <1>3, <1>4, <1>5 DEF IInv, TypeOK, Labels
  <1>7. pc'[t] = "prepare.state" /\ job'[t] = locals /\ Others(t) /\ Grows
    BY <1>1, <1>5 DEF IInv, TypeOK, Others, Grows
  <1>8. ~InFlight(t)' /\ TaskOK(t)'
    BY <1>3, <1>4, <1>7 DEF InFlight, TaskOK, Preparing, Holding
  <1>9. Known(job'[t].utxo.id)  BY <1>1, <1>4, <1>7 DEF Known
  <1>10. \A p \in Preps : CallOK(p)' /\ SendOK(p)'
    BY <1>1 DEF IInv, CallOK, SendOK
  <1>11. QED BY <1>1, <1>6, <1>7, <1>8, <1>9, <1>10, QuietStep

LEMMA PrepareStateStep ==
  ASSUME IInv, NEW t \in Tasks, PrepareState(t) PROVE IInv'
  <1>1. /\ pc[t] = "prepare.state" /\ pc' = [pc EXCEPT ![t] = "prepare.fund"]
        /\ UNCHANGED <<currentUtxo, conn, connected, consumed, outs, spent, lost, calls, sends>>
        /\ job[t].method \in Methods /\ job[t].utxo \in Utxo
    BY DEF PrepareState, Goto, IInv, TaskOK, Preparing
  <1>2. /\ \E s \in States : job' = [job EXCEPT ![t] = [job[t] EXCEPT !.new = s]]
        /\ state' \in States /\ job[t].method \in Updates \cup Splits
    <2>1. CASE /\ job[t].method \in Updates \ Splits /\ state' \in NextState(t)
               /\ Let(t, [job[t] EXCEPT !.new = state'])
      <3>1. Effect[job[t].method][state] \in States
        BY <2>1, EffectAssumption DEF IInv, TypeOK
      <3>2. job[t].newState \in Optional(States) /\ state \in States
        BY DEF IInv, TypeOK, Job
      <3>3. state' \in States  BY <2>1, <3>1, <3>2 DEF NextState, Optional
      <3>4. QED BY <2>1, <3>3 DEF Let
    <2>2. CASE /\ job[t].method \in Splits /\ Let(t, [job[t] EXCEPT !.new = job[t].outputs])
               /\ UNCHANGED state
      BY <1>1, <2>2 DEF IInv, TaskOK, TypeOK, Let
    <2>3. QED BY <2>1, <2>2 DEF PrepareState
  <1>3. PICK s \in States : job' = [job EXCEPT ![t] = [job[t] EXCEPT !.new = s]]  BY <1>2
  <1>4. [job[t] EXCEPT !.new = s] \in Job  BY JobNew DEF IInv, TypeOK, Optional
  <1>5. TypeOK'  BY <1>1, <1>2, <1>3, <1>4 DEF IInv, TypeOK, Labels
  <1>6. /\ pc'[t] = "prepare.fund" /\ Others(t) /\ Grows
        /\ job'[t] = [job[t] EXCEPT !.new = s]
    BY <1>1, <1>3 DEF IInv, TypeOK, Others, Grows
  <1>7. /\ job'[t].new = s /\ job'[t].method = job[t].method /\ job'[t].utxo = job[t].utxo
    BY <1>6 DEF IInv, TypeOK, Job
  <1>8. ~InFlight(t)' /\ TaskOK(t)'
    BY <1>1, <1>2, <1>6, <1>7, MethodsAssumption DEF InFlight, TaskOK, Preparing, Holding
  <1>9. Known(job'[t].utxo.id)  BY <1>1, <1>7 DEF Known, Preparing
  <1>10. \A p \in Preps : CallOK(p)' /\ SendOK(p)'
    BY <1>1 DEF IInv, CallOK, SendOK
  <1>11. QED BY <1>1, <1>5, <1>6, <1>8, <1>9, <1>10, QuietStep

LEMMA PrepareFundStep ==
  ASSUME IInv, NEW t \in Tasks, PrepareFund(t) PROVE IInv'
  <1>1. TypeOK'  BY DEF IInv, PrepareFund, Goto, TypeOK, Labels
  <1>2. pc[t] = "prepare.fund" /\ pc'[t] = "prepare.rebuild" /\ Others(t) /\ Grows /\ job' = job
    BY DEF IInv, TypeOK, PrepareFund, Goto, Others, Grows
  <1>3. ~InFlight(t)' /\ TaskOK(t)'
    BY <1>2 DEF InFlight, TaskOK, Preparing, Holding, IInv
  <1>4. Known(job'[t].utxo.id)  BY <1>2 DEF Known, Preparing
  <1>5. UNCHANGED <<currentUtxo, spent, lost, calls, consumed, sends>>  BY DEF PrepareFund
  <1>6. \A p \in Preps : CallOK(p)' /\ SendOK(p)'
    BY <1>5 DEF IInv, CallOK, SendOK
  <1>7. QED BY <1>1, <1>2, <1>3, <1>4, <1>5, <1>6, QuietStep

(* A new PreparedCall spends an output that is known already.              *)
LEMMA HandOverStep ==
  ASSUME IInv, NEW t \in Tasks, NEW input \in Outs, NEW new \in Optional(States),
         HandOver(t, input, new), pc[t] \in Preparing, Known(input),
         job[t].method \notin Closes => new \in States,
         UNCHANGED <<state, currentUtxo, connected, consumed, network, sends>>
  PROVE  IInv'
  <1> DEFINE call == [ method |-> job[t].method, base |-> job[t].utxo.script, new |-> new,
                       input |-> input, dryRun |-> job[t].dryRun,
                       auto |-> job[t].method \in Updates /\ job[t].newState = None,
                       shared |-> job[t].api = "prepareCall" ]
  <1>1. PICK p \in FreshPreps :
          /\ calls' = [calls EXCEPT ![p] = call]
          /\ IF job[t].api = "call"
             THEN /\ Let(t, [job[t] EXCEPT !.prepared = p])
                  /\ Goto(t, "call.sign")
                  /\ conn' = Connection(t)
             ELSE Settle(t)
    BY DEF HandOver
  <1>2. call \in PreparedCall
    BY DEF PreparedCall, IInv, TypeOK, TaskOK, Job, Utxo
  <1>3. call # None  BY <1>2, NoneIsNoCall
  <1>4. call.input = input /\ call.new = new /\ call.method = job[t].method
    OBVIOUS
  <1> HIDE DEF call
  <1>5. p \in Preps /\ calls[p] = None  BY DEF FreshPreps
  <1>6. /\ calls' \in [Preps -> Optional(PreparedCall)] /\ Grows /\ calls'[p] = call
        /\ \A q \in Preps \ {p} : calls'[q] = calls[q]
    BY <1>1, <1>2, <1>5 DEF Grows, IInv, TypeOK, Optional
  <1>7. \A q \in Preps : CallOK(q)' /\ SendOK(q)'
    BY <1>4, <1>6 DEF IInv, CallOK, SendOK
  <1>8. \A q \in Preps : calls[q] = None /\ calls'[q] # None => Known(calls'[q].input)
    BY <1>4, <1>6
  <1>9. CASE job[t].api = "call"
    <2>1. /\ pc'[t] = "call.sign" /\ pc' \in [Tasks -> Labels] /\ conn' = conn
          /\ job'[t] = [job[t] EXCEPT !.prepared = p] /\ Others(t)
      BY <1>1, <1>9 DEF Let, Goto, Connection, IInv, TypeOK, Labels, Others
    <2>2. job'[t].prepared = p /\ [job[t] EXCEPT !.prepared = p] \in Job
      BY <1>5, <2>1, JobPrepared DEF IInv, TypeOK, Job
    <2>3. job' \in [Tasks -> Job]  BY <1>1, <1>9, <2>2 DEF Let, IInv, TypeOK
    <2>4. TypeOK'  BY <1>6, <2>1, <2>3 DEF IInv, TypeOK
    <2>5. ~InFlight(t)' /\ TaskOK(t)'
      BY <1>3, <1>5, <1>6, <2>1, <2>2 DEF InFlight, TaskOK, Preparing, Holding
    <2>6. QED BY <1>6, <1>7, <1>8, <2>1, <2>4, <2>5, QuietStep DEF Preparing
  <1>10. CASE job[t].api # "call"
    <2>1. Settle(t)  BY <1>1, <1>10
    <2>2. pc'[t] = "idle" /\ Others(t)  BY <2>1 DEF Settle, Goto, Let, IInv, TypeOK, Others
    <2>3. TypeOK'  BY <1>6, <2>1, SettleTypes DEF IInv, TypeOK
    <2>4. ~InFlight(t)' /\ TaskOK(t)'  BY <2>2 DEF InFlight, TaskOK, Preparing, Holding
    <2>5. QED BY <1>6, <1>7, <1>8, <2>2, <2>3, <2>4, QuietStep DEF Preparing
  <1>11. QED BY <1>9, <1>10

LEMMA PrepareRebuildStep ==
  ASSUME IInv, NEW t \in Tasks, PrepareRebuild(t) PROVE IInv'
  <1>1. /\ pc[t] = "prepare.rebuild" /\ currentUtxo # None
        /\ HandOver(t, currentUtxo.id, job[t].new)
        /\ UNCHANGED <<state, currentUtxo, connected, consumed, network, sends>>
    BY DEF PrepareRebuild
  <1>2. currentUtxo.id \in Outs /\ Known(currentUtxo.id)
    BY <1>1 DEF Known, IInv, TypeOK, Optional, Utxo
  <1>3. job[t].new \in States  BY <1>1 DEF IInv, TaskOK
  <1>4. QED BY <1>1, <1>2, <1>3, HandOverStep DEF Preparing, Optional

LEMMA PrepareTerminalStep ==
  ASSUME IInv, NEW t \in Tasks, PrepareTerminal(t) PROVE IInv'
  <1>1. /\ pc[t] = "prepare.state" /\ job[t].method \in Closes
        /\ HandOver(t, job[t].utxo.id, None)
        /\ UNCHANGED <<state, currentUtxo, connected, consumed, network, sends>>
    BY DEF PrepareTerminal
  <1>2. job[t].utxo.id \in Outs /\ Known(job[t].utxo.id)
    BY <1>1 DEF Known, IInv, TaskOK, Preparing, Utxo
  <1>3. QED BY <1>1, <1>2, HandOverStep DEF Preparing, Optional

LEMMA SignStep ==
  ASSUME IInv, NEW t \in Tasks, Sign(t) PROVE IInv'
  <1> DEFINE locals == [job[t] EXCEPT !.used = @ \cup {conn}]
  <1>1. /\ pc[t] = "call.sign" /\ pc' = [pc EXCEPT ![t] = "call.finalize"]
        /\ job' = [job EXCEPT ![t] = locals]
        /\ UNCHANGED <<object, network, calls, sends>>
    BY DEF Sign, Goto, Let
  <1>2. locals \in Job /\ locals.prepared = job[t].prepared
    BY JobUsed DEF IInv, TypeOK, Job
  <1> HIDE DEF locals
  <1>3. TypeOK'  BY <1>1, <1>2 DEF IInv, TypeOK, Labels
  <1>4. pc'[t] = "call.finalize" /\ job'[t] = locals /\ Others(t) /\ Grows
    BY <1>1 DEF IInv, TypeOK, Others, Grows
  <1>5. ~InFlight(t)' /\ TaskOK(t)'
    BY <1>1, <1>2, <1>4 DEF InFlight, TaskOK, Preparing, Holding, IInv
  <1>6. \A p \in Preps : CallOK(p)' /\ SendOK(p)'
    BY <1>1 DEF IInv, CallOK, SendOK
  <1>7. QED BY <1>1, <1>3, <1>4, <1>5, <1>6, QuietStep DEF Preparing

LEMMA FinalizeCallStep ==
  ASSUME IInv, NEW t \in Tasks, NEW p \in Preps, FinalizeCall(t, p) PROVE IInv'
  <1>1. /\ pc[t] \in {"idle", "call.finalize"}
        /\ p \notin consumed /\ consumed' = consumed \cup {p}
        /\ UNCHANGED <<state, currentUtxo, connected, network, calls>>
    BY DEF FinalizeCall, Consumed
  <1>2. calls[p] # None
    BY DEF FinalizeCall, IInv, TaskOK, Holding
  <1>3. CASE Settle(t) /\ UNCHANGED sends
    BY <1>1, <1>3, SettleStep DEF IInv, TypeOK
  <1>4. CASE /\ Let(t, [job[t] EXCEPT !.prepared = p, !.used = @ \cup {conn}])
             /\ Goto(t, "sent")
             /\ sends' = [sends EXCEPT ![p] = @ + 1]
             /\ UNCHANGED conn
    <2> DEFINE locals == [job[t] EXCEPT !.prepared = p, !.used = @ \cup {conn}]
    <2>1. locals \in Job /\ locals.prepared = p
      <3>1. job[t] \in Job /\ conn \in Conns  BY DEF IInv, TypeOK
      <3>2. locals \in Job  BY <3>1, JobPreparedUsed
      <3>3. locals.prepared = p  BY <3>1 DEF Job
      <3>4. QED BY <3>2, <3>3
    <2> HIDE DEF locals
    <2>2. job' = [job EXCEPT ![t] = locals]  BY <1>4 DEF Let, locals
    <2>3. /\ pc' \in [Tasks -> Labels] /\ pc'[t] = "sent" /\ job'[t] = locals
          /\ Others(t) /\ Grows
      BY <1>1, <1>4, <2>2 DEF Goto, IInv, TypeOK, Others, Grows, Labels
    <2>4. sends' \in [Preps -> Nat]  BY <1>4 DEF IInv, TypeOK
    <2>5. TypeOK'  BY <1>1, <1>4, <2>1, <2>2, <2>3, <2>4 DEF IInv, TypeOK
    <2>6. ~InFlight(t)' /\ TaskOK(t)'
      BY <1>1, <1>2, <2>1, <2>3 DEF InFlight, TaskOK, Preparing, Holding
    <2>7. \A q \in Preps : SendOK(q)'
      BY <1>1, <1>4 DEF IInv, TypeOK, SendOK
    <2>8. \A q \in Preps : CallOK(q)'  BY <1>1 DEF IInv, CallOK
    <2>9. QED BY <1>1, <2>3, <2>5, <2>6, <2>7, <2>8, QuietStep DEF Preparing
  <1>5. QED BY <1>3, <1>4 DEF FinalizeCall

LEMMA AcceptStep ==
  ASSUME IInv, NEW t \in Tasks, Accept(t) PROVE IInv'
  <1> DEFINE p == job[t].prepared
             call == calls[p]
  <1>1. /\ pc[t] = "sent" /\ spent' = spent \cup {call.input} /\ call.input \notin spent
        /\ UNCHANGED <<state, currentUtxo, connected, consumed, calls, sends>>
    BY DEF Accept, Valid
  <1>2. PICK o \in IF call.method \in Closes THEN {None} ELSE FreshOuts :
          /\ outs' = IF o = None THEN outs ELSE [outs EXCEPT ![o] = call.new]
          /\ \/ /\ Let(t, [job[t] EXCEPT !.out = o])
                /\ Goto(t, "acked")
                /\ UNCHANGED <<conn, lost>>
             \/ /\ "lost" \in Faults
                /\ lost' = lost \cup {call.input}
                /\ Settle(t)
    BY DEF Accept
  <1>3. p \in Preps /\ call # None /\ call \in PreparedCall
    BY <1>1 DEF IInv, TaskOK, TypeOK, Holding, Optional
  <1>4. call.input \in Outs /\ Known(call.input) /\ outs[call.input] # None
    BY <1>3 DEF PreparedCall, Known, IInv, KnownExist
  <1>5. call.method \notin Closes => call.new \in States /\ o \in Outs /\ outs[o] = None
    BY <1>2, <1>3 DEF IInv, CallOK, FreshOuts
  <1>6. call.method \in Closes => o = None  BY <1>2
  <1> HIDE DEF call, p
  <1>7. /\ Grows /\ outs' \in [Outs -> Optional(States)]
        /\ call.method \notin Closes => outs'[o] = call.new
    BY <1>1, <1>2, <1>5, <1>6, NoneAssumption DEF Grows, IInv, TypeOK, Optional
  <1>8. \A q \in Preps : CallOK(q)' /\ SendOK(q)'
    BY <1>1 DEF IInv, CallOK, SendOK
  <1>9. ~InFlight(t)  BY <1>1 DEF InFlight
  <1>10. TrackedOnChain'
    BY <1>1, <1>7, NoneAssumption DEF IInv, TypeOK, TrackedOnChain, Grows, Optional, Utxo
  <1>11. ASSUME NEW u \in Tasks, u # t, pc[u] = "acked", Others(t)
         PROVE  pc'[u] = "acked" /\ calls'[job'[u].prepared] = calls[job[u].prepared]
    BY <1>1, <1>11 DEF Others
  <1>12. CASE Let(t, [job[t] EXCEPT !.out = o]) /\ Goto(t, "acked") /\ UNCHANGED <<conn, lost>>
    <2>1. /\ pc'[t] = "acked" /\ job'[t] = [job[t] EXCEPT !.out = o] /\ Others(t)
          /\ pc' \in [Tasks -> Labels]
      BY <1>12 DEF Goto, Let, IInv, TypeOK, Others, Labels
    <2>2. job'[t].out = o /\ job'[t].prepared = p
      BY <2>1 DEF IInv, TypeOK, Job, p
    <2>3. [job[t] EXCEPT !.out = o] \in Job
      BY <1>5, <1>6, JobOut DEF IInv, TypeOK, Optional
    <2>4. TypeOK'
      BY <1>1, <1>4, <1>7, <1>12, <2>1, <2>3 DEF Let, IInv, TypeOK
    <2>5. TaskOK(t)' /\ (InFlight(t)' => o \in Outs /\ outs[o] = None)
      BY <1>1, <1>3, <1>5, <1>7, <2>1, <2>2
      DEF TaskOK, InFlight, Created, Preparing, Holding, call
    <2>6. ASSUME NEW x \in Outs, Known(x)' PROVE Known(x)
      BY <1>1, <1>4, <2>1, <2>6 DEF Known, Others, Preparing
    <2>7. pc'[t] = "acked" /\ calls'[job'[t].prepared].input = call.input
      BY <1>1, <2>1, <2>2 DEF call
    <2>8. TrackedLive'
      BY <1>1, <1>11, <1>12, <2>1, <2>7 DEF IInv, TrackedLive, SpendInFlight
    <2>9. QED BY <1>7, <1>8, <1>9, <1>10, <2>1, <2>2, <2>4, <2>5, <2>6, <2>8, Frame
  <1>13. CASE lost' = lost \cup {call.input} /\ Settle(t)
    <2>1. pc'[t] = "idle" /\ Others(t)  BY <1>13 DEF Settle, Goto, Let, IInv, TypeOK, Others
    <2>2. TypeOK'  BY <1>1, <1>4, <1>7, <1>13, SettleTypes DEF IInv, TypeOK
    <2>3. ~InFlight(t)' /\ TaskOK(t)'  BY <2>1 DEF TaskOK, InFlight, Preparing, Holding
    <2>4. ASSUME NEW x \in Outs, Known(x)' PROVE Known(x)
      BY <1>1, <1>4, <2>1, <2>4 DEF Known, Others, Preparing
    <2>5. TrackedLive'
      BY <1>1, <1>11, <1>13, <2>1 DEF IInv, TrackedLive, SpendInFlight
    <2>6. QED BY <1>7, <1>8, <1>9, <1>10, <2>1, <2>2, <2>3, <2>4, <2>5, Frame
  <1>14. QED BY <1>2, <1>12, <1>13

LEMMA CallReturnStep ==
  ASSUME IInv, NEW t \in Tasks, CallReturn(t) PROVE IInv'
  <1>1. /\ pc[t] = "acked" /\ pc' = [pc EXCEPT ![t] = "fetch"] /\ currentUtxo' = Tracked(t)
        /\ UNCHANGED <<state, conn, connected, consumed, network, calls, job, sends>>
    BY DEF CallReturn, Goto
  <1>2. pc'[t] = "fetch" /\ pc' \in [Tasks -> Labels] /\ Others(t) /\ Grows
    BY <1>1 DEF IInv, TypeOK, Labels, Others, Grows
  <1>3. CASE calls[job[t].prepared].method \notin Closes
    <2>1. InFlight(t) /\ currentUtxo' = [id |-> job[t].out, script |-> Created(t)]
      BY <1>1, <1>3 DEF InFlight, Tracked, Created
    <2>2. currentUtxo' \in Optional(Utxo)
      BY <2>1, CreatedState DEF IInv, Utxo, Optional
    <2>3. TypeOK'  BY <1>1, <1>2, <2>2 DEF IInv, TypeOK
    <2>4. QED BY <1>1, <1>2, <2>1, <2>3, Arrival
  <1>4. CASE calls[job[t].prepared].method \in Closes
    <2>1. currentUtxo' = None /\ ~InFlight(t)
      BY <1>1, <1>4 DEF Tracked, InFlight
    <2>2. TypeOK'  BY <1>1, <1>2, <2>1 DEF IInv, TypeOK, Optional
    <2>3. ~InFlight(t)' /\ TaskOK(t)'
      BY <1>2 DEF InFlight, TaskOK, Preparing, Holding
    <2>4. ASSUME NEW x \in Outs, Known(x)' PROVE Known(x)
      BY <1>1, <1>2, <2>1, <2>4 DEF Known, Others, Preparing
    <2>5. \A p \in Preps : CallOK(p)' /\ SendOK(p)'
      BY <1>1 DEF IInv, CallOK, SendOK
    <2>6. TrackedOnChain' /\ TrackedLive'
      BY <2>1 DEF TrackedOnChain, TrackedLive
    <2>7. QED BY <1>2, <2>1, <2>2, <2>3, <2>4, <2>5, <2>6, Frame
  <1>5. QED BY <1>3, <1>4

LEMMA PrepareOnNullStep ==
  ASSUME IInv, NEW t \in Tasks, PrepareOnNull(t) PROVE IInv'
  BY SettleStep DEF PrepareOnNull, IInv, TypeOK

LEMMA RefuseStep ==
  ASSUME IInv, NEW t \in Tasks, Refuse(t) PROVE IInv'
  BY SettleStep DEF Refuse, IInv, TypeOK

LEMMA FetchedStep ==
  ASSUME IInv, NEW t \in Tasks, Fetched(t) PROVE IInv'
  BY SettleStep DEF Fetched, IInv, TypeOK

LEMMA ThrowStep ==
  ASSUME IInv, NEW t \in Tasks, Throw(t) PROVE IInv'
  BY SettleStep DEF Throw, IInv, TypeOK

(* setState(), connect() and stuttering touch nothing the parts speak of.  *)
LEMMA ApplicationStep ==
  ASSUME IInv, state' \in States, conn' \in Conns, connected' \in Conns,
         UNCHANGED <<currentUtxo, consumed, network, calls, pc, job, sends>>
  PROVE  IInv'
  <1>1. TypeOK'  BY DEF IInv, TypeOK
  <1>2. \A t \in Tasks : TaskOK(t)'
    BY DEF IInv, TaskOK, InFlight, Created
  <1>3. \A p \in Preps : CallOK(p)' /\ SendOK(p)'
    BY DEF IInv, CallOK, SendOK
  <1>4. \A t \in Tasks : Unheard(t)'
    BY DEF IInv, Unheard, InFlight, Known
  <1>5. KnownExist' /\ TrackedOnChain' /\ TrackedLive'
    BY DEF IInv, KnownExist, Known, TrackedOnChain, TrackedLive, SpendInFlight
  <1>6. QED BY <1>1, <1>2, <1>3, <1>4, <1>5 DEF IInv
-----------------------------------------------------------------------------
LEMMA InitIInv == Init => IInv
  <1> SUFFICES ASSUME Init PROVE IInv
    OBVIOUS
  <1>1. TypeOK
    BY NoJobOK, StatesAssumption, ConnsAssumption DEF Init, TypeOK, Optional, Labels
  <1>2. \A t \in Tasks : TaskOK(t) /\ Unheard(t)
    BY DEF Init, TaskOK, Unheard, InFlight, Preparing, Holding
  <1>3. \A p \in Preps : CallOK(p) /\ SendOK(p)
    BY DEF Init, CallOK, SendOK
  <1>4. KnownExist /\ TrackedOnChain /\ TrackedLive
    BY DEF Init, KnownExist, Known, TrackedOnChain, TrackedLive, Preparing
  <1>5. QED BY <1>1, <1>2, <1>3, <1>4 DEF IInv

LEMMA NextIInv == IInv /\ [Next]_vars => IInv'
  <1> SUFFICES ASSUME IInv, [Next]_vars PROVE IInv'
    OBVIOUS
  <1>1. ASSUME NEW t \in Tasks, Begin(t) PROVE IInv'
    BY <1>1, DeployStep, CallBeginStep, FinalizeCallStep DEF Begin
  <1>2. ASSUME NEW t \in Tasks, Resume(t) PROVE IInv'
    BY <1>2, DeployBuildStep, DeployAcceptStep, DeployReturnStep, PrepareStateStep,
       PrepareFundStep, PrepareRebuildStep, PrepareTerminalStep, PrepareOnNullStep, SignStep,
       FinalizeCallStep, AcceptStep, RefuseStep, CallReturnStep, FetchedStep, ThrowStep
    DEF Resume
  <1>3. ASSUME NEW s \in Edits, SetState(s) PROVE IInv'
    BY <1>3, StatesAssumption, ApplicationStep DEF SetState, IInv, TypeOK
  <1>4. ASSUME NEW c \in Reconnects, Connect(c) PROVE IInv'
    BY <1>4, ConnsAssumption, ApplicationStep DEF Connect, IInv, TypeOK
  <1>5. CASE UNCHANGED vars
    BY <1>5, ApplicationStep DEF vars, IInv, TypeOK
  <1>6. QED BY <1>1, <1>2, <1>3, <1>4, <1>5 DEF Next

LEMMA Invariance == Spec => []IInv
  BY InitIInv, NextIInv, PTL DEF Spec

-----------------------------------------------------------------------------
(* The fields, the locals of every pending invocation and what the network *)
(* holds keep their types, whatever interleaves and whatever fails.        *)
THEOREM TypeCorrect == Spec => []TypeOK
  <1>1. IInv => TypeOK  BY DEF IInv
  <1>2. QED BY <1>1, Invariance, PTL

(* finalizeCall's guard: a PreparedCall reaches a provider at most once.   *)
THEOREM OneShotCorrect == Spec => []OneShot
  <1>1. IInv => OneShot  BY DEF IInv, OneShot, SendOK
  <1>2. QED BY <1>1, Invariance, PTL

(* currentUtxo.script, over which call() computes the next preimage, is    *)
(* the script the network holds.                                           *)
THEOREM TrackedOnChainCorrect == Spec => []TrackedOnChain
  <1>1. IInv => TrackedOnChain  BY DEF IInv
  <1>2. QED BY <1>1, Invariance, PTL

(* currentUtxo is spent only while the answer of the spending broadcast is *)
(* on its way, or after that answer was lost.                              *)
THEOREM TrackedLiveCorrect == Spec => []TrackedLive
  <1>1. IInv => TrackedLive  BY DEF IInv
  <1>2. QED BY <1>1, Invariance, PTL

(* Answers arriving in any order never move currentUtxo to a spent output. *)
THEOREM TrackedForwardCorrect == Spec => TrackedForward
  <1> DEFINE Forward == currentUtxo' # currentUtxo /\ currentUtxo' # None
                          => currentUtxo'.id \notin spent'
  <1>1. IInv /\ [Next]_vars => [Forward]_vars
    <2> SUFFICES ASSUME IInv, Next, currentUtxo' # currentUtxo, currentUtxo' # None
                 PROVE  currentUtxo'.id \notin spent'
      BY DEF vars
    <2>1. PICK t \in Tasks : DeployReturn(t) \/ CallReturn(t)
      BY DEF Next, Begin, Resume, Deploy, CallBegin, FinalizeCall, DeployBuild, DeployAccept,
             PrepareState, PrepareFund, PrepareRebuild, PrepareTerminal, PrepareOnNull, Sign,
             Accept, Refuse, Fetched, Throw, SetState, Connect
    <2>2. /\ InFlight(t) /\ currentUtxo' = [id |-> job[t].out, script |-> Created(t)]
          /\ spent' = spent
      BY <2>1 DEF DeployReturn, CallReturn, InFlight, Created, Tracked
    <2>3. ~Known(job[t].out)  BY <2>2 DEF IInv, Unheard
    <2>4. QED BY <2>2, <2>3 DEF Known
  <1>2. QED BY <1>1, Invariance, PTL DEF Spec, TrackedForward
=============================================================================
