---------------------------- MODULE AnfInterpreter ----------------------------
(***************************************************************************)
(* The SDK's evaluator of the intermediate program an artifact carries,    *)
(* packages/runar-sdk/src/anf-interpreter.ts: prepareCall derives the next *)
(* state with it, executeStrict also enforces the assertions.              *)
(*                                                                         *)
(* A run r holds the environment env, one name space for properties,       *)
(* parameters and bindings; delta, the properties written; val, the value  *)
(* of the last binding; strict; and thrown.  JavaScript's undefined, which *)
(* the evaluator gives to what only a node can know, is 0: as a number and *)
(* as a truth value it is taken for one.  What the continuation computes   *)
(* is not text here but 0 as well: it reaches nothing but the assertion    *)
(* that is marked as injected, which no mode enforces.                     *)
(***************************************************************************)
EXTENDS AnfOptimize

Undefined == 0
ValueOf(r, x) == IF x \in DOMAIN r.env THEN r.env[x] ELSE Undefined
WithEnv(r, x, v) == [r EXCEPT !.env = Bind(@, x, v)]

\* ---- operations -------------------------------------------------------------
InterpretBinOp(op, l, r) ==
    CASE op \in {"/", "%"} /\ r = 0 -> 0
      [] op = "&&" -> Truth(l # 0 /\ r # 0)
      [] op = "||" -> Truth(l # 0 \/ r # 0)
      [] op = "===bytes" -> Undefined
      [] OTHER -> BinaryValue(op, l, r)
InterpretUnaryOp(op, v) == IF op = "!" THEN Truth(v = 0) ELSE -v
InterpretCall(f, vals) ==
    CASE f = "abs" -> Abs(vals[1])
      [] f = "min" -> IF vals[1] < vals[2] THEN vals[1] ELSE vals[2]
      [] f = "max" -> IF vals[1] > vals[2] THEN vals[1] ELSE vals[2]
      [] f = "within" -> Truth(vals[1] >= vals[2] /\ vals[1] < vals[3])
      [] OTHER -> Undefined

\* ---- bindings -----------------------------------------------------------------
\* program has the methods of the artifact and the names of the properties.
RECURSIVE InterpretBindings(_, _, _), InterpretLoop(_, _, _, _)

\* The value of a list is that of its last binding.
LastValue(bindings, r) ==
    Give(r, IF bindings = <<>> THEN Undefined ELSE ValueOf(r, LastOf(bindings).name))

\* An arm runs in a copy of the environment that is copied back whole.
\* Mutant: what an arm binds is lost with its copy.
ArmNotCopiedBack(v, r, program) ==
    LET arm == IF ValueOf(r, v.cond) # 0 THEN v.then ELSE v.else
    IN  [LastValue(arm, InterpretBindings(arm, r, program)) EXCEPT !.env = r.env]
InterpretIf(v, r, program) ==
    LET arm == IF ValueOf(r, v.cond) # 0 THEN v.then ELSE v.else
    IN  LastValue(arm, InterpretBindings(arm, r, program))

InterpretLoop(v, i, r, program) ==
    IF i = v.count THEN r
    ELSE LET start == WithEnv(r, v.iterVar, v.start + i * v.step)
         IN  InterpretLoop(v, i + 1,
                 LastValue(v.body, InterpretBindings(v.body, start, program)), program)

\* A private method has an environment of the properties and its parameters,
\* and what that holds under the properties' names goes back to the caller.
\* Its assertions are enforced in no mode: strict is not passed on.
EvalMethodCall(m, vals, r, program) ==
    LET params == [x \in ToSet(m.params) |->
                     vals[CHOOSE i \in DOMAIN m.params : m.params[i] = x]]
        props == program.props \cap DOMAIN r.env
        inner == InterpretBindings(m.body,
                    [r EXCEPT !.env = params @@ [p \in props |-> r.env[p]],
                              !.strict = FALSE], program)
        back == [p \in program.props \cap DOMAIN inner.env |-> inner.env[p]]
    IN  [LastValue(m.body, inner) EXCEPT !.env = back @@ r.env, !.strict = r.strict]

\* Mutant: a private method's writes do not reach the caller's environment.
CallKeepsEnv(v, r, program) ==
    [EvalMethodCall(MethodNamed(program.methods, v.method),
                    [k \in DOMAIN v.args |-> ValueOf(r, v.args[k])], r, program)
     EXCEPT !.env = r.env]
InterpretMethodCall(v, r, program) ==
    EvalMethodCall(MethodNamed(program.methods, v.method),
                   [k \in DOMAIN v.args |-> ValueOf(r, v.args[k])], r, program)

Enforced(v, r) == r.strict /\ "injected" \notin DOMAIN v
InterpretValue(v, r, program) ==
    CASE v.kind \in {"load_param", "load_prop"} -> Give(r, ValueOf(r, v.name))
      [] v.kind = "load_const" -> Give(r, v.value)
      [] v.kind = "alias" -> Give(r, ValueOf(r, v.target))
      [] v.kind = "bin_op" ->
            Give(r, InterpretBinOp(v.op, ValueOf(r, v.left), ValueOf(r, v.right)))
      [] v.kind = "unary_op" -> Give(r, InterpretUnaryOp(v.op, ValueOf(r, v.operand)))
      [] v.kind = "call" ->
            Give(r, InterpretCall(v.func, [k \in DOMAIN v.args |-> ValueOf(r, v.args[k])]))
      [] v.kind = "method_call" -> InterpretMethodCall(v, r, program)
      [] v.kind = "if" -> InterpretIf(v, r, program)
      [] v.kind = "loop" -> InterpretLoop(v, 0, Give(r, Undefined), program)
      [] v.kind = "assert" ->
            [Give(r, Undefined) EXCEPT !.thrown = Enforced(v, r) /\ ValueOf(r, v.value) = 0]
      [] v.kind = "update_prop" ->
            LET new == ValueOf(r, v.value)
            IN  [Give(WithEnv(r, v.name, new), Undefined) EXCEPT
                    !.delta = Bind(@, v.name, new)]
      [] v.kind \in {"this", "check_preimage", "deserialize_state", "get_state_script"} ->
            Give(r, Undefined)

InterpretBindings(bindings, r, program) ==
    IF bindings = <<>> \/ r.thrown THEN r
    ELSE LET v == InterpretValue(Head(bindings).value, r, program)
         IN  InterpretBindings(Tail(bindings), WithEnv(v, Head(bindings).name, v.val), program)

\* ---- a method ------------------------------------------------------------------
\* The properties first, then the arguments under the names of the parameters.
InitialEnv(props, args) == args @@ props
RunMethod(program, name, props, args, strict) ==
    LET m == MethodNamed(program.methods, name)
        given == [x \in ToSet(m.params) \cap DOMAIN args |-> args[x]]
        r == InterpretBindings(m.body,
                [env |-> InitialEnv(props, given), delta |-> Empty, val |-> Undefined,
                 strict |-> strict, thrown |-> FALSE], program)
    IN  [state |-> r.delta @@ props, thrown |-> r.thrown]
ComputeNewState(program, name, props, args) ==
    RunMethod(program, name, props, args, FALSE).state
ExecuteStrict(program, name, props, args) == RunMethod(program, name, props, args, TRUE)
=============================================================================
