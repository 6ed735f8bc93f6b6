--------------------------- MODULE RunarContract ---------------------------
(***************************************************************************)
(* One RunarContract object of the TypeScript SDK                          *)
(* (packages/runar-sdk/src/contract.ts) and the network it spends on.      *)
(*                                                                         *)
(* deploy, call, prepareCall and finalizeCall are async functions over the *)
(* mutable fields _state, currentUtxo, _provider and _signer.  An action   *)
(* is the code between two awaits, so invocations ("tasks") interleave     *)
(* exactly where the event loop lets them.  Money, sizes and fees are left *)
(* out: running out of funds is one of the reasons a step may throw.       *)
(***************************************************************************)
EXTENDS Naturals, FiniteSets

CONSTANTS
  Tasks,        \* invocations of the object's methods that may be pending at once
  States,       \* values of the contract's mutable state fields, as one record
  InitState,    \* the state the constructor derives from its arguments
  Updates,      \* methods whose script demands one continuation output
  Splits,       \* methods called with options.outputs
  Closes,       \* methods called with options.terminalOutputs
  Effect,       \* Effect[m][s]: the state the script demands in continuation output 0
  Conns,        \* provider/signer pairs
  Home,         \* the pair given to connect() before the first operation
  Explicit,     \* pairs a caller passes positionally to call(); None: it passes none
  Reconnects,   \* pairs the application may pass to connect() later
  Edits,        \* states the application may pass to setState()
  NewStates,    \* values of options.newState; None: omitted
  DryRuns,      \* values of options.dryRun
  Apis,         \* the entry points in use, among "call" and "prepareCall"
  Faults,       \* what goes wrong, among "throw", "reject", "lost" and "anf"
  Outs,         \* BOUND: outpoints, hence accepted deployments and continuations
  Preps,        \* BOUND: identities of PreparedCall objects
  None

Methods == Updates \cup Splits \cup Closes

ASSUME StatesAssumption  == InitState \in States /\ Edits \subseteq States
ASSUME EffectAssumption  == Effect \in [Updates \cup Splits -> [States -> States]]
ASSUME ConnsAssumption   == Home \in Conns /\ Reconnects \subseteq Conns
ASSUME OptionsAssumption == /\ Explicit \subseteq Conns \cup {None}
                            /\ NewStates \subseteq States \cup {None}
                            /\ DryRuns \subseteq BOOLEAN
                            /\ Apis \subseteq {"call", "prepareCall"}
ASSUME MethodsAssumption == Closes \cap (Updates \cup Splits) = {}
ASSUME NoneAssumption    == None \notin States \cup Conns \cup Outs \cup Preps \cup Methods

VARIABLES
  state,        \* _state
  currentUtxo,  \* currentUtxo: None, or the outpoint and the script it carries
  conn,         \* _provider and _signer
  connected,    \* history: the pair of the last connect()
  consumed,     \* consumedPreparedCalls
  calls,        \* the PreparedCall objects built so far
  pc, job,      \* for each task the await it is suspended at, and its local variables
  outs,         \* network: the state each created contract output carries
  spent,        \* network: the outputs spent
  sends,        \* history: how often each PreparedCall was handed to a provider
  lost          \* history: outputs spent by a broadcast whose answer never came

object  == <<state, currentUtxo, conn, connected, consumed>>
network == <<outs, spent, lost>>
vars    == <<object, network, calls, pc, job, sends>>

Utxo   == [id : Outs, script : States]
ASSUME NoneIsNoUtxo == None \notin Utxo
Optional(S) == S \cup {None}

(* A PreparedCall: the transaction's contract input and continuation, and  *)
(* the locking script its preimage was computed for (_contractUtxo).       *)
PreparedCall ==
  [ method : Methods, base : States, new : Optional(States), input : Outs,
    dryRun : BOOLEAN, auto : BOOLEAN, shared : BOOLEAN ]

ASSUME NoneIsNoCall == None \notin PreparedCall

(* The locals of an invocation that outlive an await.                      *)
Job ==
  [ method : Optional(Methods), newState : Optional(States), dryRun : BOOLEAN,
    api : {"call", "prepareCall"}, saved : Optional(Conns), own : Optional(Conns),
    used : SUBSET Conns, utxo : Optional(Utxo), outputs : Optional(States),
    new : Optional(States), prepared : Optional(Preps), out : Optional(Outs) ]

NoJob ==
  [ method |-> None, newState |-> None, dryRun |-> FALSE, api |-> "call",
    saved |-> None, own |-> None, used |-> {}, utxo |-> None, outputs |-> None,
    new |-> None, prepared |-> None, out |-> None ]

Labels ==
  { "idle", "deploy.build", "deploy.sent", "deploy.acked",
    "prepare.state", "prepare.fund", "prepare.rebuild",
    "call.sign", "call.finalize", "sent", "acked", "fetch" }

TypeOK ==
  /\ state \in States
  /\ currentUtxo \in Optional(Utxo)
  /\ conn \in Conns /\ connected \in Conns
  /\ consumed \subseteq Preps
  /\ calls \in [Preps -> Optional(PreparedCall)]
  /\ pc \in [Tasks -> Labels]
  /\ job \in [Tasks -> Job]
  /\ outs \in [Outs -> Optional(States)]
  /\ spent \subseteq Outs /\ lost \subseteq Outs
  /\ sends \in [Preps -> Nat]

Init ==
  /\ state = InitState
  /\ currentUtxo = None
  /\ conn = Home /\ connected = Home
  /\ consumed = {}
  /\ calls = [p \in Preps |-> None]
  /\ pc = [t \in Tasks |-> "idle"]
  /\ job = [t \in Tasks |-> NoJob]
  /\ outs = [o \in Outs |-> None]
  /\ spent = {} /\ lost = {}
  /\ sends = [p \in Preps |-> 0]

-----------------------------------------------------------------------------
Goto(t, label) == pc' = [pc EXCEPT ![t] = label]
Let(t, locals) == job' = [job EXCEPT ![t] = locals]

FreshOuts  == { o \in Outs : outs[o] = None }
FreshPreps == { p \in Preps : calls[p] = None }

(* The bounded identities left in S suffice for every pending task.        *)
Room(S) == Cardinality(S) > Cardinality({ t \in Tasks : pc[t] # "idle" })

(* MUTANT of Restored: no `finally`, the explicit pair stays connected.    *)
RestoredNever(t) == conn

(* call()'s `finally`: put back the pair that was connected before.        *)
Restored(t) == IF job[t].saved = None THEN conn ELSE job[t].saved

(* The invocation's promise settles, with a value or with an error.        *)
Settle(t) ==
  /\ Goto(t, "idle")
  /\ Let(t, NoJob)
  /\ conn' = Restored(t)

-----------------------------------------------------------------------------
(* deploy(): the locking script is built from _state after getAddress().   *)
Deploy(t) ==
  /\ pc[t] = "idle" /\ Room(FreshOuts)
  /\ Goto(t, "deploy.build")
  /\ UNCHANGED <<object, network, calls, job, sends>>

DeployBuild(t) ==
  /\ pc[t] = "deploy.build"
  /\ Let(t, [job[t] EXCEPT !.new = state])
  /\ Goto(t, "deploy.sent")
  /\ UNCHANGED <<object, network, calls, sends>>

DeployAccept(t) ==
  /\ pc[t] = "deploy.sent"
  /\ \E o \in FreshOuts :
       /\ outs' = [outs EXCEPT ![o] = job[t].new]
       /\ \/ /\ Let(t, [job[t] EXCEPT !.out = o])
             /\ Goto(t, "deploy.acked")
             /\ UNCHANGED conn
          \/ "lost" \in Faults /\ Settle(t)
  /\ UNCHANGED <<state, currentUtxo, connected, consumed, calls, spent, lost, sends>>

DeployReturn(t) ==
  /\ pc[t] = "deploy.acked"
  /\ currentUtxo' = [id |-> job[t].out, script |-> job[t].new]
  /\ Goto(t, "fetch")
  /\ UNCHANGED <<state, conn, connected, consumed, network, calls, job, sends>>

-----------------------------------------------------------------------------
(* call(..., provider, signer) connects the pair it was given until it     *)
(* returns; prepareCall snapshots currentUtxo and awaits the signer.  The  *)
(* caller of a split method passes the outputs its tracked UTXO calls for. *)
Given(with) == IF with = None THEN conn ELSE with

CallLocals(m, new, dry, with, api) ==
  [ NoJob EXCEPT
    !.method = m, !.newState = new, !.dryRun = dry, !.api = api, !.own = Given(with),
    !.used = {Given(with)}, !.saved = IF with = None THEN None ELSE conn,
    !.utxo = currentUtxo,
    !.outputs = IF m \in Splits THEN Effect[m][currentUtxo.script] ELSE None ]

CallBegin(t) ==
  /\ pc[t] = "idle" /\ Room(FreshOuts) /\ Room(FreshPreps)
  /\ currentUtxo # None
  /\ \E m \in Methods, new \in NewStates, dry \in DryRuns, with \in Explicit, api \in Apis :
       /\ new # None => m \in Updates
       /\ with # None => api = "call"
       /\ conn' = Given(with)
       /\ Let(t, CallLocals(m, new, dry, with, api))
  /\ Goto(t, "prepare.state")
  /\ UNCHANGED <<state, currentUtxo, connected, consumed, network, calls, sends>>

(* MUTANT of NextState: the interpreter starts from the constructor state. *)
NextStateFromInit(t) == {Effect[job[t].method][InitState]}

(* The continuation state: options.newState, else the ANF interpreter's    *)
(* result for the object's _state, else (it failed) _state as it stands.   *)
NextState(t) ==
  IF job[t].newState # None THEN {job[t].newState}
  ELSE {Effect[job[t].method][state]} \cup (IF "anf" \in Faults THEN {state} ELSE {})

(* _state moves to the continuation's state here, long before broadcast.   *)
PrepareState(t) ==
  /\ pc[t] = "prepare.state"
  /\ \/ /\ job[t].method \in Updates \ Splits /\ currentUtxo # None
        /\ state' \in NextState(t)
        /\ Let(t, [job[t] EXCEPT !.new = state'])
     \/ /\ job[t].method \in Splits
        /\ Let(t, [job[t] EXCEPT !.new = job[t].outputs])
        /\ UNCHANGED state
  /\ Goto(t, "prepare.fund")
  /\ UNCHANGED <<currentUtxo, conn, connected, consumed, network, calls, sends>>

(* Funding coins fetched: the first-pass transaction, superseded below.    *)
PrepareFund(t) ==
  /\ pc[t] = "prepare.fund" /\ currentUtxo # None
  /\ Goto(t, "prepare.rebuild")
  /\ UNCHANGED <<object, network, calls, job, sends>>

(* MUTANT of Connection: the explicit pair is put back after prepareCall.  *)
ConnectionUntilPrepared(t) == Restored(t)

(* The pair connected while call() goes on from prepareCall to             *)
(* finalizeCall: still the one it was given.                               *)
Connection(t) == conn

(* The PreparedCall is complete: call() goes on to sign it, prepareCall()  *)
(* returns it to the application.                                          *)
HandOver(t, input, new) ==
  \E p \in FreshPreps :
    /\ calls' = [calls EXCEPT ![p] =
         [ method |-> job[t].method, base |-> job[t].utxo.script, new |-> new,
           input |-> input, dryRun |-> job[t].dryRun,
           auto |-> job[t].method \in Updates /\ job[t].newState = None,
           shared |-> job[t].api = "prepareCall" ]]
    /\ IF job[t].api = "call"
       THEN /\ Let(t, [job[t] EXCEPT !.prepared = p])
            /\ Goto(t, "call.sign")
            /\ conn' = Connection(t)
       ELSE Settle(t)

(* The rebuilt transaction spends whatever currentUtxo now holds; its      *)
(* preimage is computed over the snapshot taken by CallBegin.              *)
PrepareRebuild(t) ==
  /\ pc[t] = "prepare.rebuild" /\ currentUtxo # None
  /\ HandOver(t, currentUtxo.id, job[t].new)
  /\ UNCHANGED <<state, currentUtxo, connected, consumed, network, sends>>

(* A terminal transaction is built from the snapshot alone.                *)
PrepareTerminal(t) ==
  /\ pc[t] = "prepare.state" /\ job[t].method \in Closes
  /\ HandOver(t, job[t].utxo.id, None)
  /\ UNCHANGED <<state, currentUtxo, connected, consumed, network, sends>>

(* this.currentUtxo was set to null during an await: a TypeError.          *)
PrepareOnNull(t) ==
  /\ currentUtxo = None
  /\ \/ pc[t] = "prepare.state" /\ job[t].method \in Updates \ Splits
     \/ pc[t] \in {"prepare.fund", "prepare.rebuild"}
  /\ Settle(t)
  /\ UNCHANGED <<state, currentUtxo, connected, consumed, network, calls, sends>>

-----------------------------------------------------------------------------
(* call(): the signer connected now signs the primary input.               *)
Sign(t) ==
  /\ pc[t] = "call.sign"
  /\ Let(t, [job[t] EXCEPT !.used = @ \cup {conn}])
  /\ Goto(t, "call.finalize")
  /\ UNCHANGED <<object, network, calls, sends>>

(* What the contract input's script demands of the transaction, were the   *)
(* spent script to carry state s.                                          *)
Satisfies(call, s) ==
  /\ call.base = s
  /\ call.method \notin Closes => call.new = Effect[call.method][s]

(* MUTANT of Consumed: the PreparedCall is looked up but never recorded.   *)
ConsumedNever(p) == consumed

(* The one-shot guard records the PreparedCall before any other work.      *)
Consumed(p) == consumed \cup {p}

(* finalizeCall() up to provider.broadcast().  The dry run replays the     *)
(* input against the snapshot's script: it cannot see what the network     *)
(* holds.  A second attempt on a consumed PreparedCall throws: no change.  *)
FinalizeCall(t, p) ==
  /\ \/ pc[t] = "call.finalize" /\ job[t].prepared = p
     \/ pc[t] = "idle" /\ Room(FreshOuts) /\ calls[p] # None /\ calls[p].shared
  /\ p \notin consumed
  /\ consumed' = Consumed(p)
  /\ IF calls[p].dryRun /\ ~Satisfies(calls[p], calls[p].base)
     THEN Settle(t) /\ UNCHANGED sends
     ELSE /\ Let(t, [job[t] EXCEPT !.prepared = p, !.used = @ \cup {conn}])
          /\ Goto(t, "sent")
          /\ sends' = [sends EXCEPT ![p] = @ + 1]
          /\ UNCHANGED conn
  /\ UNCHANGED <<state, currentUtxo, connected, network, calls>>

(* The network accepts a transaction that spends an unspent output and     *)
(* satisfies its script.                                                   *)
Valid(call) == call.input \notin spent /\ Satisfies(call, outs[call.input])

Accept(t) ==
  LET call == calls[job[t].prepared] IN
  /\ pc[t] = "sent"
  /\ Valid(call)
  /\ spent' = spent \cup {call.input}
  /\ \E o \in IF call.method \in Closes THEN {None} ELSE FreshOuts :
       /\ outs' = IF o = None THEN outs ELSE [outs EXCEPT ![o] = call.new]
       /\ \/ /\ Let(t, [job[t] EXCEPT !.out = o])
             /\ Goto(t, "acked")
             /\ UNCHANGED <<conn, lost>>
          \/ /\ "lost" \in Faults
             /\ lost' = lost \cup {call.input}
             /\ Settle(t)
  /\ UNCHANGED <<state, currentUtxo, connected, consumed, calls, sends>>

Refuse(t) ==
  /\ pc[t] = "sent"
  /\ "reject" \in Faults \/ ~Valid(calls[job[t].prepared])
  /\ Settle(t)
  /\ UNCHANGED <<state, currentUtxo, connected, consumed, network, calls, sends>>

(* MUTANT of Tracked: no terminal case, output 0 is tracked regardless.    *)
TrackedAlways(t) ==
  LET call == calls[job[t].prepared] IN [id |-> job[t].out, script |-> call.new]

(* MUTANT of Tracked: the script recorded is the one just spent.           *)
TrackedOldScript(t) ==
  LET call == calls[job[t].prepared] IN
  IF call.method \in Closes THEN None ELSE [id |-> job[t].out, script |-> call.base]

(* MUTANT of Tracked: a terminal call leaves the tracked output in place.  *)
TrackedKept(t) ==
  LET call == calls[job[t].prepared] IN
  IF call.method \in Closes THEN currentUtxo ELSE [id |-> job[t].out, script |-> call.new]

(* MUTANT of Tracked: a terminal call goes back to the snapshot it spent.  *)
TrackedSnapshot(t) ==
  LET call == calls[job[t].prepared] IN
  IF call.method \in Closes THEN [id |-> call.input, script |-> call.base]
  ELSE [id |-> job[t].out, script |-> call.new]

(* broadcast() returned: finalizeCall moves currentUtxo to output 0, or    *)
(* clears it after a terminal call.                                        *)
Tracked(t) ==
  LET call == calls[job[t].prepared] IN
  IF call.method \in Closes THEN None ELSE [id |-> job[t].out, script |-> call.new]

CallReturn(t) ==
  /\ pc[t] = "acked"
  /\ currentUtxo' = Tracked(t)
  /\ Goto(t, "fetch")
  /\ UNCHANGED <<state, conn, connected, consumed, network, calls, job, sends>>

(* getTransaction() answered or failed, which both callers tolerate.       *)
Fetched(t) ==
  /\ pc[t] = "fetch"
  /\ Settle(t)
  /\ UNCHANGED <<state, currentUtxo, connected, consumed, network, calls, sends>>

(* A provider or a signer fails, funds do not suffice, maxFundingInputs is *)
(* exceeded: the invocation rejects without having reached the network.    *)
Throw(t) ==
  /\ \/ "throw" \in Faults /\ pc[t] \in { "deploy.build", "prepare.state", "prepare.fund",
                                          "prepare.rebuild", "call.finalize" }
     \/ "reject" \in Faults /\ pc[t] = "deploy.sent"
  /\ Settle(t)
  /\ UNCHANGED <<state, currentUtxo, connected, consumed, network, calls, sends>>

-----------------------------------------------------------------------------
SetState(s) ==
  /\ state' = s
  /\ UNCHANGED <<currentUtxo, conn, connected, consumed, network, calls, pc, job, sends>>

Connect(c) ==
  /\ conn' = c /\ connected' = c
  /\ UNCHANGED <<state, currentUtxo, consumed, network, calls, pc, job, sends>>

(* What a pending invocation does next once its promise settles.           *)
Resume(t) ==
  \/ DeployBuild(t) \/ DeployAccept(t) \/ DeployReturn(t)
  \/ PrepareState(t) \/ PrepareFund(t) \/ PrepareRebuild(t)
  \/ PrepareTerminal(t) \/ PrepareOnNull(t)
  \/ Sign(t) \/ (pc[t] # "idle" /\ \E p \in Preps : FinalizeCall(t, p))
  \/ Accept(t) \/ Refuse(t) \/ CallReturn(t) \/ Fetched(t) \/ Throw(t)

Begin(t) ==
  \/ Deploy(t) \/ CallBegin(t)
  \/ pc[t] = "idle" /\ \E p \in Preps : FinalizeCall(t, p)

Next ==
  \/ \E t \in Tasks : Begin(t) \/ Resume(t)
  \/ \E s \in Edits : SetState(s)
  \/ \E c \in Reconnects : Connect(c)

Spec == Init /\ [][Next]_vars

(* Providers, signers and the network answer: every pending await settles. *)
FairSpec == Spec /\ \A t \in Tasks : WF_vars(Resume(t))
-----------------------------------------------------------------------------
(* Properties of any number of overlapping invocations, whatever fails.    *)

(* A PreparedCall reaches a provider at most once, however many tasks try  *)
(* to finalize it and however the attempts end (finalizeCall, C29).        *)
OneShot == \A p \in Preps : sends[p] <= 1

(* currentUtxo.script is the script the network holds for that outpoint:   *)
(* the next preimage is computed over it.                                  *)
TrackedOnChain == currentUtxo # None => outs[currentUtxo.id] = currentUtxo.script

(* The tracked output is stale only in the window between the network      *)
(* accepting its spend and finalizeCall's assignment, or for good when the *)
(* answer of that broadcast was lost.                                      *)
SpendInFlight(o) == \E t \in Tasks : pc[t] = "acked" /\ calls[job[t].prepared].input = o
TrackedLive ==
  currentUtxo # None /\ currentUtxo.id \in spent =>
    currentUtxo.id \in lost \/ SpendInFlight(currentUtxo.id)

(* Answers of overlapping broadcasts arrive in any order, yet currentUtxo  *)
(* never moves to an output that is already spent.                         *)
TrackedForward ==
  [][ currentUtxo' # currentUtxo /\ currentUtxo' # None => currentUtxo'.id \notin spent' ]_vars

-----------------------------------------------------------------------------
(* Properties of calls made one at a time (a single task).                 *)

Quiet == \A t \in Tasks : pc[t] = "idle"

(* With no call pending, `state` is the state of the tracked UTXO: the     *)
(* wrapper "tracks current state and UTXO".                                *)
InStep == Quiet /\ currentUtxo # None => state = currentUtxo.script

(* A call made without newState carries the state that the script of the   *)
(* output it spends computes, so the hashOutputs check succeeds.           *)
AutoStateMatchesScript ==
  \A t \in Tasks :
    LET call == calls[job[t].prepared] IN
    pc[t] = "sent" /\ call.auto /\ call.input \notin spent => Satisfies(call, outs[call.input])

(* With no call pending, the pair in use is the one connect() was given.   *)
ConnRestored == Quiet => conn = connected

(* A call signs and broadcasts only through the pair it started with.      *)
OwnConnection == \A t \in Tasks : job[t].own # None => job[t].used \subseteq {job[t].own}

(* A call on the tracked UTXO gets as far as the network's acceptance.     *)
Commits == \A t \in Tasks : pc[t] = "prepare.state" ~> pc[t] = "acked"

(* The await-split protocol implements calls that happen in one step: what *)
(* the caller sees in `state` and in the tracked UTXO changes together.    *)
MidCall == { t \in Tasks : pc[t] \in { "prepare.state", "prepare.fund", "prepare.rebuild",
                                        "call.sign", "call.finalize", "sent", "acked" } }
Atomic == INSTANCE AtomicContract WITH
  tip  <- IF currentUtxo = None THEN None ELSE currentUtxo.script,
  view <- IF MidCall = {} THEN state ELSE job[CHOOSE t \in MidCall : TRUE].utxo.script
RefinesAtomic == Atomic!Spec
=============================================================================
