------------------------------- MODULE Compiler -------------------------------
(***************************************************************************)
(* The compiler from end to end and one spend of what it produced.         *)
(* A contract goes through the passes in the order of                      *)
(* packages/runar-compiler/src/index.ts; its script is deployed with the   *)
(* values of its properties; a spender calls one of its public methods;    *)
(* and the script machine runs both scripts to their end.  The source's    *)
(* evaluator says what the spend should have come to.                      *)
(***************************************************************************)
EXTENDS ScriptVM, AnfInterpreter

CONSTANTS Contracts,    \* the contracts compiled, as syntax trees
          Options,      \* records [fold, peephole] of BOOLEAN: which passes run
          Args,         \* the values a spender gives for a parameter
          Props         \* the values of the properties at deployment

VARIABLES contract,     \* the source
          options,
          phase,        \* the last pass done, then "running" and "done"
          code,         \* what that pass left
          artifactAnf,  \* the intermediate program the artifact carries
          call,         \* the spend: method, args, props, claimed new state, fault
          vm            \* the script machine

vars == <<contract, options, phase, code, artifactAnf, call, vm>>

Phases == {"source", "anf", "folded", "simplified", "stack", "optimized", "script",
           "running", "done", "rejected"}

PublicMethods(c) == SelectSeq(c.methods, LAMBDA m : m.public)
NoCall == [method |-> 0]
NoVM == [complete |-> FALSE]

Init == /\ contract \in Contracts /\ options \in Options
        /\ phase = "source" /\ code = <<>> /\ artifactAnf = <<>> /\ call = NoCall /\ vm = NoVM

\* ---- the passes -----------------------------------------------------------------
Errors(methods) == {methods[i].error : i \in DOMAIN methods} \ {""}
Pass(from, to, result) ==
    /\ phase = from
    /\ code' = result
    /\ phase' = to
    /\ artifactAnf' = IF to = "simplified" THEN result ELSE artifactAnf
    /\ UNCHANGED <<contract, options, call, vm>>
\* A pass that throws ends the compilation.
ThrowingPass(from, to, result) ==
    Pass(from, IF Errors(result) = {} THEN to ELSE "rejected", result)

LowerAnf == ThrowingPass("source", "anf", LowerToANF(contract))
Fold == Pass("anf", "folded", IF options.fold THEN FoldConstants(code) ELSE code)
SimplifyCurve == Pass("folded", "simplified", OptimizeEC(code))
LowerStack == ThrowingPass("simplified", "stack", LowerToStack(code, contract))
PeepholePass ==
    Pass("stack", "optimized",
         IF ~options.peephole THEN code
         ELSE [i \in DOMAIN code |-> [code[i] EXCEPT !.ops = OptimizeStackIR(@)]])
EmitPass ==
    Pass("optimized", "script",
         [script |-> EmitScript([i \in DOMAIN code |-> code[i].ops]),
          methods |-> [i \in DOMAIN code |-> [params |-> code[i].params,
                                              maxStackDepth |-> code[i].maxStackDepth]]])

\* ---- the spend --------------------------------------------------------------------
\* At deployment the placeholders become pushes of the properties' values.
Deploy(script, props) ==
    [i \in DOMAIN script |-> IF script[i].op = "placeholder"
                             THEN PushInt(props[script[i].name]) ELSE script[i]]
DataPush(item) == [op |-> "data", item |-> item]

\* The outputs of a call: the change and the contract's next output.
ChangeOutput == Item(0) \o Token(<<"pkh">>) \o Token(<<"word", 3>>)
Outputs(state) ==
    LET words == [k \in DOMAIN state |-> <<"word", state[k]>>]
    IN  words \o Token(<<"code">>) \o Token(<<"word", 2>>) \o ChangeOutput
StateOf(c, props) ==
    [k \in DOMAIN MutableProps(c) |-> props[MutableProps(c)[k].name]]

\* What the spender pushes.  It may be at fault: an index no method has, a
\* preimage under another sighash type, or one of another transaction.
Faults(c) == (IF Len(PublicMethods(c)) > 1 THEN {"index"} ELSE {})
             \cup (IF c.stateful THEN {"sighash", "preimage"} ELSE {})
Witness(c, method, args, props, claim, fault) ==
    LET Value(x) ==
            CASE x = "txPreimage" ->
                    Preimage(StateOf(c, props), Hash(Outputs(StateOf(c, claim))),
                             IF fault = "sighash" THEN 2 ELSE 1, fault # "preimage")
              [] x = "_codePart" -> Token(<<"code">>)
              [] x = "_changePKH" -> Token(<<"pkh">>)
              [] x = "_changeAmount" -> Item(3)
              [] x = "_newAmount" -> Item(2)
              [] OTHER -> Item(args[x])
        params == code.methods[method].params
        index == IF fault = "index" THEN Len(code.methods) ELSE method - 1
    IN  [i \in DOMAIN params |-> DataPush(Value(params[i]))]
        \o (IF Len(code.methods) > 1 THEN <<DataPush(Item(index))>> ELSE <<>>)

Spend ==
    /\ phase = "script"
    /\ \E method \in DOMAIN PublicMethods(contract) :
       LET params == ToSet(PublicMethods(contract)[method].params)
           names == ToSet(PropertyNames(contract))
       IN  \E args \in [params -> Args], props \in [names -> Props],
              claim \in [names -> Props], fault \in {"none"} \cup Faults(contract) :
            /\ ~contract.stateful => claim = props
            /\ call' = [method |-> method, args |-> args, props |-> props, claim |-> claim,
                        fault |-> fault]
            /\ vm' = LoadVM(Witness(contract, method, args, props, claim, fault),
                            Deploy(code.script, props))
    /\ phase' = "running"
    /\ UNCHANGED <<contract, options, code, artifactAnf>>

Run ==
    /\ phase = "running"
    /\ vm' = RunToEnd(vm)
    /\ phase' = "done"
    /\ UNCHANGED <<contract, options, code, artifactAnf, call>>

Next == \/ LowerAnf \/ Fold \/ SimplifyCurve \/ LowerStack \/ PeepholePass \/ EmitPass
        \/ Spend \/ Run

Spec == Init /\ [][Next]_vars /\ WF_vars(Next)

-----------------------------------------------------------------------------
\* What the source says of the spend in hand.
Source == ExecuteMethod(PublicMethods(contract)[call.method], call.args, call.props,
                        contract.methods)

TypeOK == /\ phase \in Phases
          /\ contract \in Contracts /\ options \in Options
          /\ phase \in {"running", "done"} => call.method \in DOMAIN code.methods
          /\ phase = "done" => /\ vm.complete
                              /\ \A i \in DOMAIN vm.stack : Len(vm.stack[i]) \in Nat

\* The deployed script accepts a spend exactly when the source accepts the call
\* (packages/runar-testing/src: the evaluator and the script machine are run
\* against each other), by a spender that is not at fault.  A method that changes
\* the state accepts only outputs that carry the state the source leaves.
Agreement ==
    LET method == PublicMethods(contract)[call.method]
        commits == contract.stateful /\ StmtsMutate(method.body, contract)
    IN  phase = "done" =>
            (vm.success <=> /\ call.fault = "none"
                            /\ Source.success
                            /\ commits => call.claim = Source.props)

\* A spend that succeeds leaves the verdict and nothing else (05-stack-lower.ts
\* lowerMethod: "Bitcoin Script's CLEANSTACK rule requires exactly one item on
\* the stack at end-of-script").
CleanStack == phase = "done" /\ vm.success => Len(vm.stack) = 1 /\ vm.alt = <<>>

\* A script stops early only where the source has an assertion or a division:
\* no operand is missing or of the wrong kind, whatever path is taken.
FailsOnlyOnAssertion ==
    phase = "done" => vm.error \in {"", "verify", "division by zero"}

\* The depth the compiler counted bounds the depth the script reaches.
DepthBound ==
    phase = "done" /\ Len(code.methods) = 1 =>
        vm.maxStackDepth <= code.methods[1].maxStackDepth

\* What the SDK's evaluator makes of the call from the artifact.
Artifact == [methods |-> artifactAnf, props |-> ToSet(PropertyNames(contract))]
Called == PublicMethods(contract)[call.method].name

\* The state prepareCall derives for a call that the source accepts is the state
\* the source leaves (anf-interpreter.ts: "walks the ANF bindings and computes the
\* new state"): with Agreement, the script accepts the outputs the SDK builds.
DerivedState ==
    phase = "done" /\ contract.stateful /\ Source.success =>
        ComputeNewState(Artifact, Called, call.props, call.args) = Source.props

\* The SDK's evaluator knows no operation of the curve.
HasHelper == \E i \in DOMAIN contract.methods : ~contract.methods[i].public
UsesCurve ==
    \E i \in DOMAIN artifactAnf : \E j \in DOMAIN artifactAnf[i].body :
        LET v == artifactAnf[i].body[j].value
        IN  v.kind = "call" /\ v.func \in {"ecAdd", "ecMul", "ecMulGen", "ecNegate"}

\* Enforcing the assertions off-chain (anf-interpreter.ts: "would the asserts
\* hold") refuses no call that a contract without state accepts, and where no
\* private method holds assertions it refuses every call that fails one.
StrictAgrees ==
    LET strict == ExecuteStrict(Artifact, Called, call.props, call.args)
    IN  phase = "done" /\ ~contract.stateful /\ ~UsesCurve =>
            /\ Source.success => ~strict.thrown
            /\ Source.thrown = "assert" => strict.thrown \/ HasHelper

\* Every contract of the pool compiles.
Compiles == phase # "rejected"
=============================================================================
