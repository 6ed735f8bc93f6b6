------------------------------- MODULE AnfLower -------------------------------
(***************************************************************************)
(* Pass 4 of the compiler, packages/runar-compiler/src/passes/             *)
(* 04-anf-lower.ts: the body of a method becomes a flat list of bindings,  *)
(* one operation each, whose arms and loop bodies are lists of their own.  *)
(*                                                                         *)
(* A binding is a record of a name and a value, and a value a record whose *)
(* "kind" is the source's.  The source writes an alias as a load_const of  *)
(* the text "@ref:x" and the receiver of a private call as "@this"; here   *)
(* they are the kinds "alias" and "this".  A context c is the source's     *)
(* LoweringContext with two fields more: ref, the name the last lowered    *)
(* expression left its result under, and error, the message of a throw.    *)
(***************************************************************************)
EXTENDS Interpreter, FiniteSets, TLC

Temp(n) == "t" \o ToString(n)
MergeTemp(i) == "__merge$" \o ToString(i)

\* ---- binding values -----------------------------------------------------
Const(n) == [kind |-> "load_const", value |-> n]
ConstFalse == [kind |-> "load_const", value |-> 0, boolean |-> TRUE]
ConstBool(b) == [kind |-> "load_const", value |-> Truth(b), boolean |-> TRUE]
ConstEmpty == [kind |-> "load_const", value |-> <<>>, bytes |-> TRUE]
Alias(x) == [kind |-> "alias", target |-> x]
LoadParam(x) == [kind |-> "load_param", name |-> x]
LoadProp(p) == [kind |-> "load_prop", name |-> p]
BinOp(op, l, r) == [kind |-> "bin_op", op |-> op, left |-> l, right |-> r]
UnaryOp(op, o) == [kind |-> "unary_op", op |-> op, operand |-> o]
CallOp(f, args) == [kind |-> "call", func |-> f, args |-> args]
MethodCall(obj, m, args) ==
    [kind |-> "method_call", object |-> obj, method |-> m, args |-> args]
IfValue(c, t, e, results) ==
    [kind |-> "if", cond |-> c, then |-> t, else |-> e, results |-> results]
LoopValue(count, body, iterVar, start, step) ==
    [kind |-> "loop", count |-> count, body |-> body, iterVar |-> iterVar,
     start |-> start, step |-> step]
AssertValue(x) == [kind |-> "assert", value |-> x]
InjectedAssert(x) == [kind |-> "assert", value |-> x, injected |-> TRUE]
UpdateProp(p, x) == [kind |-> "update_prop", name |-> p, value |-> x]
Binding(x, v) == [name |-> x, value |-> v]

ToSet(q) == {q[i] : i \in DOMAIN q}
LastOf(q) == q[Len(q)]

\* ---- the lowering context -------------------------------------------------
NewContext(contract, params) ==
    [bindings |-> <<>>, counter |-> 0, params |-> params, locals |-> {},
     aliases |-> Empty, nested |-> FALSE, contract |-> contract, ref |-> "",
     error |-> ""]
PropertyNames(contract) == [i \in DOMAIN contract.properties |->
                              contract.properties[i].name]
MutableProps(contract) == SelectSeq(contract.properties, LAMBDA p : ~p.readonly)
IsProperty(c, x) == x \in ToSet(PropertyNames(c.contract))

Emit(c, v) ==
    [c EXCEPT !.bindings = Append(@, Binding(Temp(c.counter), v)),
              !.counter = @ + 1, !.ref = Temp(c.counter)]
EmitNamed(c, x, v) == [c EXCEPT !.bindings = Append(@, Binding(x, v))]
\* An arm or a loop body starts from the names of its parent and numbers its
\* temporaries on; the parent goes on after the larger of the two.
SubContext(c) == [c EXCEPT !.bindings = <<>>, !.nested = TRUE]
SyncCounter(c, sub) ==
    [c EXCEPT !.counter = IF sub.counter > @ THEN sub.counter ELSE @,
              !.error = IF @ = "" THEN sub.error ELSE @]

\* ---- properties an arm writes, locals it rebinds --------------------------
RECURSIVE UpdatedProps(_)
UpdatedProps(bindings) ==
    UNION {LET v == bindings[i].value
           IN  CASE v.kind = "update_prop" -> {v.name}
                 [] v.kind = "if" -> UpdatedProps(v.then) \cup UpdatedProps(v.else)
                 [] v.kind = "loop" -> UpdatedProps(v.body)
                 [] OTHER -> {} : i \in DOMAIN bindings}

\* The outer locals an arm rebinds, in the order of their last rebinding.
LastRebindOrder(arm, c) ==
    LET IsLast(i) == /\ arm[i].name \in c.locals
                     /\ \A j \in (i + 1)..Len(arm) : arm[j].name # arm[i].name
        at == SelectSeq([i \in DOMAIN arm |-> i], IsLast)
    IN  [k \in DOMAIN at |-> arm[at[k]].name]
BranchMergedLocals(then, else, c) ==
    LET first == LastRebindOrder(then, c)
    IN  first \o SelectSeq(LastRebindOrder(else, c),
                           LAMBDA x : x \notin ToSet(first))

\* ---- conditional-assignment chains ----------------------------------------
SideEffectFree(bindings) ==
    \A i \in DOMAIN bindings : bindings[i].value.kind \in
        {"load_prop", "load_param", "load_const", "alias", "this", "bin_op", "unary_op"}

\* Arms of a chain; <<>> stands for the source's null.
BranchUpdate(cond, arm) ==
    IF arm = <<>> THEN <<>>
    ELSE LET last == LastOf(arm)
             values == SubSeq(arm, 1, Len(arm) - 1)
         IN  IF last.value.kind = "update_prop" /\ SideEffectFree(values)
             THEN <<[setup |-> <<>>, cond |-> cond, prop |-> last.value.name,
                     values |-> values, valueRef |-> last.value.value]>>
             ELSE <<>>
IsAssertFalseElse(arm) ==
    /\ arm # <<>>
    /\ LastOf(arm).value.kind = "assert"
    /\ \E i \in DOMAIN arm : /\ arm[i].name = LastOf(arm).value.value
                             /\ arm[i].value = ConstFalse
                             /\ \A j \in 1..(i - 1) : arm[j].name # arm[i].name

\* The block that materialises declared results is the tail of an arm.
StripDeclaredResults(arm, results) ==
    SubSeq(arm, 1, Len(arm) - 2 * Len(results))

RECURSIVE CollectUpdateBranches(_, _, _)
CollectUpdateBranches(cond, then, else) ==
    LET first == BranchUpdate(cond, then)
        last == LastOf(else)
        setup == SubSeq(else, 1, Len(else) - 1)
        inner == CollectUpdateBranches(last.value.cond,
                    StripDeclaredResults(last.value.then, last.value.results),
                    StripDeclaredResults(last.value.else, last.value.results))
    IN  IF first = <<>> \/ else = <<>> THEN <<>>
        ELSE IF last.value.kind = "if"
        THEN IF ~SideEffectFree(setup) \/ inner = <<>> THEN <<>>
             ELSE first \o [inner EXCEPT ![1].setup = setup \o @]
        ELSE IF BranchUpdate("", else) # <<>> THEN first \o BranchUpdate("", else)
        ELSE IF IsAssertFalseElse(else) THEN first ELSE <<>>

\* ---- expressions ----------------------------------------------------------
RECURSIVE LowerExpr(_, _), LowerArgs(_, _, _), LowerStatements(_, _)

LowerIdentifier(x, c) ==
    CASE x \in c.params -> Emit(c, LoadParam(x))
      [] x \in c.locals -> [c EXCEPT !.ref = IF x \in DOMAIN c.aliases
                                             THEN c.aliases[x] ELSE x]
      [] IsProperty(c, x) -> Emit(c, LoadProp(x))
      [] OTHER -> Emit(c, LoadParam(x))

LowerPropertyAccess(p, c) ==
    IF ~IsProperty(c, p) /\ p \in c.params THEN Emit(c, LoadParam(p))
    ELSE Emit(c, LoadProp(p))

LowerTernary(e, c) ==
    LET k == LowerExpr(e.condition, c)
        t == LowerExpr(e.consequent, SubContext(k))
        k1 == SyncCounter(k, t)
        f == LowerExpr(e.alternate, SubContext(k1))
        k2 == SyncCounter(k1, f)
    IN  Emit(k2, IfValue(k.ref, t.bindings, f.bindings, <<>>))

LowerIncrement(e, c) ==
    LET o == LowerExpr(e.operand, c)
        one == Emit(o, Const(1))
        r == Emit(one, BinOp(IF e.kind = "increment_expr" THEN "+" ELSE "-",
                             o.ref, one.ref))
        w == IF e.operand.kind = "identifier"
             THEN EmitNamed(r, e.operand.name, Alias(r.ref))
             ELSE Emit(r, UpdateProp(e.operand.property, r.ref))
    IN  [w EXCEPT !.ref = IF e.prefix THEN r.ref ELSE o.ref]

LowerArgs(args, refs, c) ==
    IF args = <<>> THEN [c |-> c, refs |-> refs]
    ELSE LET a == LowerExpr(Head(args), c)
         IN  LowerArgs(Tail(args), Append(refs, a.ref), a)

LowerCall(e, c) ==
    LET a == LowerArgs(e.args, <<>>, c)
    IN  IF e.callee = "assert" THEN Emit(a.c, AssertValue(a.refs[1]))
        ELSE Emit(a.c, CallOp(e.callee, a.refs))
LowerThisCall(e, c) ==
    LET a == LowerArgs(e.args, <<>>, c)
        this == Emit(a.c, [kind |-> "this"])
    IN  Emit(this, MethodCall(this.ref, e.callee, a.refs))

LowerExpr(e, c) ==
    CASE e.kind = "bigint_literal" -> Emit(c, Const(e.value))
      [] e.kind = "bool_literal" -> Emit(c, ConstBool(e.value))
      [] e.kind = "identifier" -> LowerIdentifier(e.name, c)
      [] e.kind = "property_access" -> LowerPropertyAccess(e.property, c)
      [] e.kind = "binary_expr" ->
            LET l == LowerExpr(e.left, c)
                r == LowerExpr(e.right, l)
            IN  Emit(r, BinOp(e.op, l.ref, r.ref))
      [] e.kind = "unary_expr" ->
            LET o == LowerExpr(e.operand, c) IN Emit(o, UnaryOp(e.op, o.ref))
      [] e.kind = "ternary_expr" -> LowerTernary(e, c)
      [] e.kind \in {"increment_expr", "decrement_expr"} -> LowerIncrement(e, c)
      [] e.kind = "call_expr" -> LowerCall(e, c)
      [] e.kind = "call_this" -> LowerThisCall(e, c)

\* ---- statements -----------------------------------------------------------
LowerVariableDecl(st, c) ==
    LET v == LowerExpr(st.init, c)
    IN  EmitNamed([v EXCEPT !.locals = @ \cup {st.name}], st.name, Alias(v.ref))

LowerAssignment(st, c) ==
    LET v == LowerExpr(st.value, c)
    IN  IF st.target.kind = "property_access"
        THEN Emit(v, UpdateProp(st.target.property, v.ref))
        ELSE EmitNamed(v, st.target.name, Alias(v.ref))

\* An arm that must leave declared results: every result is first copied, then
\* rebound from its copy, so that both arms leave them in the declared order.
RECURSIVE CopyResults(_, _, _, _), RebindResults(_, _, _, _)
CopyResults(c, names, props, i) ==
    IF i > Len(names) THEN c
    ELSE CopyResults(EmitNamed(c, MergeTemp(i), IF names[i] \in props
                        THEN LoadProp(names[i]) ELSE Alias(names[i])),
                     names, props, i + 1)
RebindResults(c, names, props, i) ==
    IF i > Len(names) THEN c
    ELSE RebindResults(IF names[i] \in props
                       THEN Emit(c, UpdateProp(names[i], MergeTemp(i)))
                       ELSE EmitNamed(c, names[i], Alias(MergeTemp(i))),
                       names, props, i + 1)
AppendBranchResults(c, names, props) ==
    RebindResults(CopyResults(c, names, props, 1), names, props, 1)

\* Whether an if declares its results; a chain the last step rewrites does not.
WillBeLifted(c, cond, then, else) ==
    ~c.nested /\ Len(CollectUpdateBranches(cond, then, else)) >= 2
DeclaresResults(c, cond, then, else, merged, results) ==
    /\ ~WillBeLifted(c, cond, then, else)
    /\ Len(merged) >= 2 \/ (results # <<>> /\ else # <<>>)

\* An if whose arms both end by rebinding the same local is that local's value.
AliasResult(done, c, t, e) ==
    IF /\ t # <<>> /\ e # <<>>
       /\ LastOf(t).name = LastOf(e).name /\ LastOf(t).name \in c.locals
    THEN [done EXCEPT !.aliases = Bind(@, LastOf(t).name, done.ref)]
    ELSE done
EmitDeclared(k, cond, t, f, results) ==
    Emit(SyncCounter(SyncCounter(k, t), f), IfValue(cond, t.bindings, f.bindings, results))
EmitIf(k, c, cond, t, f, merged, props) ==
    LET results == merged \o SelectSeq(PropertyNames(c.contract), LAMBDA p : p \in props)
    IN  IF ToSet(merged) \cap props # {}
        THEN [k EXCEPT !.error = "a local shadows a property the conditional assigns"]
        ELSE IF DeclaresResults(c, cond, t.bindings, f.bindings, merged, results)
        THEN EmitDeclared(k, cond, AppendBranchResults(t, results, props),
                          AppendBranchResults(f, results, props), results)
        ELSE AliasResult(Emit(k, IfValue(cond, t.bindings, f.bindings, <<>>)), c,
                         t.bindings, f.bindings)
LowerElse(k, c, cond, t, st) ==
    LET f == LowerStatements(st.else, SubContext(k))
    IN  EmitIf(SyncCounter(k, f), c, cond, t, f,
               BranchMergedLocals(t.bindings, f.bindings, c),
               UpdatedProps(t.bindings) \cup UpdatedProps(f.bindings))
LowerThen(k, c, st) ==
    LET t == LowerStatements(st.then, SubContext(k))
    IN  LowerElse(SyncCounter(k, t), c, k.ref, t, st)
LowerIfStatement(st, c) == LowerThen(LowerExpr(st.condition, c), c, st)

LoopCount(st) ==
    LET from == st.init.init.value
        to == st.condition.right.value
        n == CASE st.condition.op = "<" -> to - from
               [] st.condition.op = "<=" -> to - from + 1
               [] st.condition.op = ">" -> from - to
               [] st.condition.op = ">=" -> from - to + 1
    IN  IF n < 0 THEN 0 ELSE n
LoopStep(st) == IF st.update.expression.kind = "increment_expr" THEN 1 ELSE -1

LowerForStatement(st, c) ==
    LET b == LowerStatements(st.body, SubContext(c))
    IN  Emit(SyncCounter(c, b),
             LoopValue(LoopCount(st), b.bindings, st.init.name,
                       st.init.init.value, LoopStep(st)))

LowerReturn(st, c) ==
    IF st.value = <<>> THEN c
    ELSE LET v == LowerExpr(Head(st.value), c)
         IN  IF v.bindings # <<>> /\ LastOf(v.bindings).name # v.ref
             THEN Emit(v, Alias(v.ref)) ELSE v

LowerStatement(st, c) ==
    CASE st.kind = "variable_decl" -> LowerVariableDecl(st, c)
      [] st.kind = "assignment" -> LowerAssignment(st, c)
      [] st.kind = "if_statement" -> LowerIfStatement(st, c)
      [] st.kind = "for_statement" -> LowerForStatement(st, c)
      [] st.kind = "expression_statement" -> LowerExpr(st.expression, c)
      [] st.kind = "return_statement" -> LowerReturn(st, c)

RECURSIVE BranchEndsWithReturn(_)
BranchEndsWithReturn(stmts) ==
    /\ stmts # <<>>
    /\ LET last == LastOf(stmts)
       IN  \/ last.kind = "return_statement"
           \/ /\ last.kind = "if_statement" /\ last.else # <<>>
              /\ BranchEndsWithReturn(last.then) /\ BranchEndsWithReturn(last.else)

\* An if without an else that returns takes the rest of the block as its else.
LowerStatements(stmts, c) ==
    IF stmts = <<>> \/ c.error # "" THEN c
    ELSE LET st == Head(stmts)
         IN  IF /\ st.kind = "if_statement" /\ st.else = <<>> /\ Len(stmts) > 1
                /\ BranchEndsWithReturn(st.then)
             THEN LowerStatement([st EXCEPT !.else = Tail(stmts)], c)
             ELSE LowerStatements(Tail(stmts), LowerStatement(st, c))

\* ---- the rewriting of conditional-assignment chains --------------------------
\* Only a top-level if is rewritten: every branch becomes "the new value under
\* the branch's own condition, the old one otherwise", then an unconditional
\* write.  The condition of a later branch is evaluated in front of them all.
Rename(x, map) == IF x \in DOMAIN map THEN map[x] ELSE x
RemapRefs(v, map) ==
    CASE v.kind = "alias" -> [v EXCEPT !.target = Rename(@, map)]
      [] v.kind = "bin_op" -> [v EXCEPT !.left = Rename(@, map), !.right = Rename(@, map)]
      [] v.kind = "unary_op" -> [v EXCEPT !.operand = Rename(@, map)]
      [] OTHER -> v

\* Copies bindings under fresh names; w is [out, next, map].
RECURSIVE Freshen(_, _)
Freshen(bindings, w) ==
    IF bindings = <<>> THEN w
    ELSE LET b == Head(bindings)
             map == Bind(w.map, b.name, Temp(w.next))
         IN  Freshen(Tail(bindings),
                     [out |-> Append(w.out, Binding(Temp(w.next), RemapRefs(b.value, map))),
                      next |-> w.next + 1, map |-> map])

\* Folds names with an operator, a fresh binding for every application.
RECURSIVE FoldOp(_, _, _, _)
FoldOp(op, acc, names, w) ==
    IF names = <<>> THEN [w EXCEPT !.ref = acc]
    ELSE FoldOp(op, Temp(w.next), Tail(names),
                [w EXCEPT !.out = Append(@, Binding(Temp(w.next),
                                                    BinOp(op, acc, Head(names)))),
                          !.next = @ + 1])

RECURSIVE HoistConditions(_, _), EffectiveConditions(_, _, _), ConditionalWrites(_, _, _)

\* 1. The condition of every branch, its set-up copied; w.conds collects them.
HoistConditions(branches, w) ==
    IF branches = <<>> THEN w
    ELSE LET b == Head(branches)
             f == Freshen(b.setup, [out |-> w.out, next |-> w.next, map |-> w.map])
         IN  HoistConditions(Tail(branches),
                [w EXCEPT !.out = f.out, !.next = f.next, !.map = f.map,
                          !.conds = Append(@, IF b.cond = "" THEN ""
                                              ELSE Rename(b.cond, f.map))])

\* 2. Branch i runs when no earlier condition held and its own does.
EffectiveConditions(i, n, w) ==
    IF i > n THEN w
    ELSE IF i = 1
    THEN EffectiveConditions(2, n, [w EXCEPT !.eff = <<w.conds[1]>>])
    ELSE LET neg == Temp(w.next)
             w1 == [w EXCEPT !.out = Append(@, Binding(neg, UnaryOp("!", w.conds[i - 1]))),
                             !.next = @ + 1, !.negs = Append(@, neg)]
             w2 == FoldOp("&&", w1.negs[1], Tail(w1.negs), w1)
             w3 == IF w.conds[i] = "" THEN w2
                   ELSE FoldOp("&&", w2.ref, <<w.conds[i]>>, w2)
         IN  EffectiveConditions(i + 1, n, [w3 EXCEPT !.eff = Append(@, w3.ref)])

\* Mutant: the final assert(false) is lost (the defect the step was added for).
NoRestoredAssert(w) == w
\* 2b. A chain that ended in assert(false) still rejects what no branch takes.
RestoreAssert(w) ==
    IF LastOf(w.conds) = "" THEN w
    ELSE LET o == FoldOp("||", w.conds[1], Tail(w.conds), w)
         IN  [o EXCEPT !.out = Append(@, Binding(Temp(o.next), AssertValue(o.ref))),
                       !.next = @ + 1]

\* 3. The old value, the conditional value, the write.
ConditionalWrites(branches, i, w) ==
    IF i > Len(branches) THEN w
    ELSE LET b == branches[i]
             old == Temp(w.next)
             f == Freshen(b.values, [out |-> <<>>, next |-> w.next + 1, map |-> w.map])
             keep == Temp(f.next)
             if == Temp(f.next + 1)
             new == << Binding(old, LoadProp(b.prop)),
                       Binding(if, IfValue(w.eff[i], f.out,
                                           <<Binding(keep, Alias(old))>>, <<>>)),
                       Binding(Temp(f.next + 2), UpdateProp(b.prop, if)) >>
         IN  ConditionalWrites(branches, i + 1,
                [w EXCEPT !.out = @ \o new, !.next = f.next + 3])

LiftBranches(branches, next) ==
    LET w == HoistConditions(branches, [out |-> <<>>, next |-> next, map |-> Empty,
                                        conds |-> <<>>, negs |-> <<>>, eff |-> <<>>,
                                        ref |-> ""])
    IN  ConditionalWrites(branches, 1,
            RestoreAssert(EffectiveConditions(1, Len(branches), w)))

RECURSIVE LiftBranchUpdateProps(_, _)
LiftBranchUpdateProps(bindings, next) ==
    IF bindings = <<>> THEN <<>>
    ELSE LET b == Head(bindings)
             branches == IF b.value.kind # "if" THEN <<>>
                         ELSE CollectUpdateBranches(b.value.cond,
                                StripDeclaredResults(b.value.then, b.value.results),
                                StripDeclaredResults(b.value.else, b.value.results))
             w == LiftBranches(branches, next)
         IN  IF Len(branches) < 2
             THEN <<b>> \o LiftBranchUpdateProps(Tail(bindings), next)
             ELSE w.out \o LiftBranchUpdateProps(Tail(bindings), w.next)

\* ---- what a method does to the contract ---------------------------------------
RECURSIVE ExprMutates(_, _), StmtsMutate(_, _)
IsMutable(contract, e) ==
    /\ e.kind = "property_access"
    /\ e.property \in {p.name : p \in ToSet(MutableProps(contract))}
ExprMutates(e, contract) ==
    CASE e.kind \in {"increment_expr", "decrement_expr"} -> IsMutable(contract, e.operand)
      [] e.kind = "binary_expr" ->
            ExprMutates(e.left, contract) \/ ExprMutates(e.right, contract)
      [] e.kind = "unary_expr" -> ExprMutates(e.operand, contract)
      [] e.kind = "ternary_expr" ->
            \E x \in {e.condition, e.consequent, e.alternate} : ExprMutates(x, contract)
      [] e.kind = "call_expr" -> \E i \in DOMAIN e.args : ExprMutates(e.args[i], contract)
      [] e.kind = "call_this" ->
            \/ \E i \in DOMAIN e.args : ExprMutates(e.args[i], contract)
            \/ StmtsMutate(MethodNamed(contract.methods, e.callee).body, contract)
      [] OTHER -> FALSE
StmtMutates(st, contract) ==
    CASE st.kind = "assignment" ->
            IsMutable(contract, st.target) \/ ExprMutates(st.value, contract)
      [] st.kind = "expression_statement" -> ExprMutates(st.expression, contract)
      [] st.kind = "if_statement" ->
            \/ ExprMutates(st.condition, contract)
            \/ StmtsMutate(st.then, contract) \/ StmtsMutate(st.else, contract)
      [] st.kind = "for_statement" ->
            ExprMutates(st.condition, contract) \/ StmtsMutate(st.body, contract)
      [] st.kind = "return_statement" ->
            st.value # <<>> /\ ExprMutates(Head(st.value), contract)
      [] st.kind = "variable_decl" -> ExprMutates(st.init, contract)
StmtsMutate(stmts, contract) ==
    \E i \in DOMAIN stmts : StmtMutates(stmts[i], contract)

\* ---- methods --------------------------------------------------------------------
\* A public method of a stateful contract checks the preimage it is given and
\* reads the state the preimage commits to before its body; if it may change
\* the state it ends by comparing the outputs it computes (the state script and
\* the change) with those the preimage commits to.
RECURSIVE EmitAll(_, _)
EmitAll(c, values) == IF values = <<>> THEN c ELSE EmitAll(Emit(c, Head(values)), Tail(values))

\* The k-th binding of a list emitted from counter n.
At(n, k) == Temp(n + k - 1)

PreambleValues(n) ==
    << LoadParam("txPreimage"), [kind |-> "check_preimage", preimage |-> At(n, 1)],
       AssertValue(At(n, 2)),
       LoadParam("txPreimage"), CallOp("extractSigHashType", <<At(n, 4)>>), Const(1),
       BinOp("===", At(n, 5), At(n, 6)), AssertValue(At(n, 7)) >>
ReadState(n) == << LoadParam("txPreimage"),
                   [kind |-> "deserialize_state", preimage |-> At(n, 1)] >>
Preamble(c) ==
    EmitAll(c, PreambleValues(c.counter)
               \o (IF MutableProps(c.contract) = <<>> THEN <<>> ELSE ReadState(c.counter + 8)))

\* The change output, empty when there is no change: its arms take the fifth and
\* the sixth number.
ChangeValues(n) ==
    << LoadParam("_changePKH"), LoadParam("_changeAmount"), Const(0),
       BinOp("!==", At(n, 2), At(n, 3)) >>
ChangeIf(n) ==
    IfValue(At(n, 4),
            <<Binding(At(n, 5), CallOp("buildChangeOutput", <<At(n, 1), At(n, 2)>>))>>,
            <<Binding(At(n, 6), ConstEmpty)>>, <<>>)
EmitChange(c) ==
    Emit([EmitAll(c, ChangeValues(c.counter)) EXCEPT !.counter = @ + 2], ChangeIf(c.counter))

OutputValues(n, change) ==
    << [kind |-> "get_state_script"], LoadParam("txPreimage"), LoadParam("_newAmount"),
       CallOp("computeStateOutput", <<At(n, 2), At(n, 1), At(n, 3)>>),
       CallOp("cat", <<At(n, 4), change>>), CallOp("hash256", <<At(n, 5)>>),
       LoadParam("txPreimage"), CallOp("extractOutputHash", <<At(n, 7)>>),
       BinOp("===bytes", At(n, 6), At(n, 8)), InjectedAssert(At(n, 9)) >>
EmitOutputs(c) == EmitAll(c, OutputValues(c.counter, c.ref))
Continuation(c) == EmitOutputs(EmitChange(c))

\* A method of the intermediate program: its parameters, its bindings.
LowerMethod(m, contract) ==
    LET declared == ToSet(m.params)
        mutates == StmtsMutate(m.body, contract)
        extra == (IF mutates THEN <<"_changePKH", "_changeAmount", "_newAmount">>
                  ELSE <<>>) \o <<"txPreimage">>
        stateful == contract.stateful /\ m.public
        c == IF stateful
             THEN LET c0 == NewContext(contract, declared \cup ToSet(extra))
                      c1 == LowerStatements(m.body, Preamble(c0))
                  IN  IF mutates THEN Continuation(c1) ELSE c1
             ELSE LowerStatements(m.body, NewContext(contract, declared))
    IN  [name |-> m.name, public |-> m.public, error |-> c.error,
         params |-> IF stateful THEN m.params \o extra ELSE m.params,
         body |-> LiftBranchUpdateProps(c.bindings, c.counter)]

LowerToANF(contract) ==
    [i \in DOMAIN contract.methods |-> LowerMethod(contract.methods[i], contract)]
=============================================================================
