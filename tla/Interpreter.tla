----------------------------- MODULE Interpreter -----------------------------
(***************************************************************************)
(* The source-level meaning of a contract method: the evaluator of         *)
(* packages/runar-testing/src/interpreter/interpreter.ts, which walks the  *)
(* same syntax tree the compiler lowers.  It is the reference the compiled *)
(* script is compared with.                                                *)
(*                                                                         *)
(* A tree node is a record whose "kind" is the source's; the constructors  *)
(* below build them.  A value is an integer and a boolean is 0 or 1, as on *)
(* the script's stack: the type checker has ruled out the mixtures the     *)
(* evaluator's kind tests refuse.  A state s of the evaluator holds the    *)
(* scopes env, innermost last; the properties; the value val of the last   *)
(* expression; and what was thrown, "none" while it is running.            *)
(***************************************************************************)
EXTENDS Integers, Sequences

\* ---- the syntax tree ----------------------------------------------------
Lit(n) == [kind |-> "bigint_literal", value |-> n]
BoolLit(b) == [kind |-> "bool_literal", value |-> b]
Id(x) == [kind |-> "identifier", name |-> x]
This(p) == [kind |-> "property_access", property |-> p]
Bin(l, op, r) == [kind |-> "binary_expr", op |-> op, left |-> l, right |-> r]
Un(op, e) == [kind |-> "unary_expr", op |-> op, operand |-> e]
Tern(c, t, e) == [kind |-> "ternary_expr", condition |-> c,
                  consequent |-> t, alternate |-> e]
Inc(e, prefix) == [kind |-> "increment_expr", operand |-> e, prefix |-> prefix]
Dec(e, prefix) == [kind |-> "decrement_expr", operand |-> e, prefix |-> prefix]
Call(f, args) == [kind |-> "call_expr", callee |-> f, args |-> args]
ThisCall(m, args) == [kind |-> "call_this", callee |-> m, args |-> args]

Let(x, e) == [kind |-> "variable_decl", name |-> x, init |-> e]
Assign(t, e) == [kind |-> "assignment", target |-> t, value |-> e]
If(c, t, e) == [kind |-> "if_statement", condition |-> c, then |-> t, else |-> e]
For(i, from, op, to, up, body) ==
    [kind |-> "for_statement", init |-> Let(i, Lit(from)),
     condition |-> Bin(Id(i), op, Lit(to)),
     update |-> [kind |-> "expression_statement",
                 expression |-> IF up THEN Inc(Id(i), FALSE) ELSE Dec(Id(i), FALSE)],
     body |-> body]
Return(e) == [kind |-> "return_statement", value |-> <<e>>]
ReturnVoid == [kind |-> "return_statement", value |-> <<>>]
Do(e) == [kind |-> "expression_statement", expression |-> e]
AssertThat(e) == Do(Call("assert", <<e>>))

\* ---- arithmetic, shared with the script's opcodes -------------------------
\* Division of big integers truncates towards zero; the remainder has the
\* sign of the dividend.
Abs(n) == IF n < 0 THEN -n ELSE n
TruncDiv(a, b) == LET q == Abs(a) \div Abs(b) IN IF a * b < 0 THEN -q ELSE q
TruncMod(a, b) == a - b * TruncDiv(a, b)
Truth(b) == IF b THEN 1 ELSE 0

BinaryValue(op, a, b) ==
    CASE op = "+" -> a + b
      [] op = "-" -> a - b
      [] op = "*" -> a * b
      [] op = "/" -> TruncDiv(a, b)
      [] op = "%" -> TruncMod(a, b)
      [] op = "===" -> Truth(a = b)
      [] op = "!==" -> Truth(a # b)
      [] op = "<" -> Truth(a < b)
      [] op = "<=" -> Truth(a <= b)
      [] op = ">" -> Truth(a > b)
      [] op = ">=" -> Truth(a >= b)

\* A curve point is its discrete logarithm to the base G: points are the integers
\* modulo the order of the curve, 0 the point at infinity.
CURVE_N == 7
CurveValue(f, vals) ==
    (CASE f = "ecAdd" -> vals[1] + vals[2]
       [] f = "ecMul" -> vals[1] * vals[2]
       [] f = "ecMulGen" -> vals[1]
       [] f = "ecNegate" -> -vals[1]) % CURVE_N

\* ---- scopes -------------------------------------------------------------
Empty == [x \in {} |-> 0]
\* The innermost scope that has the name, 0 when none does.
ScopeOf(env, x) ==
    LET at == {i \in 1..Len(env) : x \in DOMAIN env[i]}
    IN  IF at = {} THEN 0 ELSE CHOOSE i \in at : \A j \in at : j <= i
Bind(scope, x, v) == [y \in DOMAIN scope \cup {x} |-> IF y = x THEN v ELSE scope[y]]

Define(s, x, v) == [s EXCEPT !.env[Len(s.env)] = Bind(@, x, v)]
\* Assignment updates the nearest scope that has the name.
SetVar(s, x, v) ==
    LET i == ScopeOf(s.env, x)
    IN  IF i = 0 THEN Define(s, x, v) ELSE [s EXCEPT !.env[i] = Bind(@, x, v)]
PushScope(s) == [s EXCEPT !.env = Append(@, Empty)]
\* Popped whether or not the block threw.
PopScope(s) == [s EXCEPT !.env = SubSeq(@, 1, Len(@) - 1)]

Throw(s, what) == [s EXCEPT !.thrown = what]
Running(s) == s.thrown = "none"
Give(s, v) == [s EXCEPT !.val = v]
AssignTarget(s, target, v) ==
    IF target.kind = "identifier" THEN SetVar(s, target.name, v)
    ELSE [s EXCEPT !.props[target.property] = v]

MethodNamed(M, m) == M[CHOOSE i \in DOMAIN M : M[i].name = m]

RECURSIVE EvalExpr(_, _, _), EvalArgs(_, _, _, _), ExecStatements(_, _, _),
          ExecStatement(_, _, _), ExecLoop(_, _, _)

EvalBinary(e, s, M) ==
    LET l == EvalExpr(e.left, s, M)
        r == EvalExpr(e.right, l, M)
    IN  CASE ~Running(l) -> l
          [] e.op = "&&" /\ l.val = 0 -> Give(l, 0)
          [] e.op = "||" /\ l.val # 0 -> Give(l, 1)
          [] ~Running(r) -> r
          [] e.op \in {"&&", "||"} -> Give(r, Truth(r.val # 0))
          [] e.op \in {"/", "%"} /\ r.val = 0 -> Throw(r, "error")
          [] OTHER -> Give(r, BinaryValue(e.op, l.val, r.val))

\* The arguments from the left; their values in s.args.
EvalArgs(args, vals, s, M) ==
    IF args = <<>> \/ ~Running(s) THEN [s |-> s, vals |-> vals]
    ELSE LET s1 == EvalExpr(Head(args), s, M)
         IN  EvalArgs(Tail(args), Append(vals, s1.val), s1, M)

CallBuiltin(f, vals, s) ==
    CASE f = "assert" -> IF vals[1] # 0 THEN Give(s, 0) ELSE Throw(s, "assert")
      [] f = "abs" -> Give(s, Abs(vals[1]))
      [] f = "min" -> Give(s, IF vals[1] < vals[2] THEN vals[1] ELSE vals[2])
      [] f = "max" -> Give(s, IF vals[1] > vals[2] THEN vals[1] ELSE vals[2])
      [] f = "within" -> Give(s, Truth(vals[1] >= vals[2] /\ vals[1] < vals[3]))
      [] f \in {"ecAdd", "ecMul", "ecMulGen", "ecNegate"} -> Give(s, CurveValue(f, vals))

\* A private method runs in an environment of its own that has its
\* parameters only; the properties are the contract's.
ExecutePrivateMethod(m, vals, s, M) ==
    LET scope == [x \in {m.params[i] : i \in DOMAIN m.params} |->
                    vals[CHOOSE i \in DOMAIN m.params : m.params[i] = x]]
        r == ExecStatements(m.body, [s EXCEPT !.env = <<scope>>], M)
        back == [r EXCEPT !.env = s.env]
    IN  IF r.thrown = "return" THEN Throw(back, "none")
        ELSE Give(back, 0)

EvalExpr(e, s, M) ==
    IF ~Running(s) THEN s
    ELSE CASE e.kind = "bigint_literal" -> Give(s, e.value)
           [] e.kind = "bool_literal" -> Give(s, Truth(e.value))
           [] e.kind = "identifier" ->
                LET i == ScopeOf(s.env, e.name)
                IN  IF i = 0 THEN Throw(s, "error") ELSE Give(s, s.env[i][e.name])
           [] e.kind = "property_access" -> Give(s, s.props[e.property])
           [] e.kind = "binary_expr" -> EvalBinary(e, s, M)
           [] e.kind = "unary_expr" ->
                LET o == EvalExpr(e.operand, s, M)
                IN  Give(o, IF e.op = "!" THEN Truth(o.val = 0) ELSE -o.val)
           [] e.kind = "ternary_expr" ->
                LET c == EvalExpr(e.condition, s, M)
                IN  EvalExpr(IF c.val # 0 THEN e.consequent ELSE e.alternate, c, M)
           [] e.kind \in {"increment_expr", "decrement_expr"} ->
                LET o == EvalExpr(e.operand, s, M)
                    new == o.val + (IF e.kind = "increment_expr" THEN 1 ELSE -1)
                IN  IF ~Running(o) THEN o
                    ELSE Give(AssignTarget(o, e.operand, new),
                              IF e.prefix THEN new ELSE o.val)
           [] e.kind = "call_expr" ->
                LET a == EvalArgs(e.args, <<>>, s, M)
                IN  IF Running(a.s) THEN CallBuiltin(e.callee, a.vals, a.s) ELSE a.s
           [] e.kind = "call_this" ->
                LET a == EvalArgs(e.args, <<>>, s, M)
                IN  IF Running(a.s)
                    THEN ExecutePrivateMethod(MethodNamed(M, e.callee), a.vals, a.s, M)
                    ELSE a.s

\* A thrown return or failure skips what is left of the block.
ExecStatements(stmts, s, M) ==
    IF stmts = <<>> \/ ~Running(s) THEN s
    ELSE ExecStatements(Tail(stmts), ExecStatement(Head(stmts), s, M), M)

ExecLoop(st, s, M) ==
    LET c == EvalExpr(st.condition, s, M)
        body == PopScope(ExecStatements(st.body, PushScope(c), M))
    IN  IF ~Running(c) \/ c.val = 0 THEN c
        ELSE IF ~Running(body) THEN body
        ELSE ExecLoop(st, ExecStatement(st.update, body, M), M)

ExecStatement(st, s, M) ==
    CASE st.kind = "variable_decl" ->
            LET v == EvalExpr(st.init, s, M)
            IN  IF Running(v) THEN Define(v, st.name, v.val) ELSE v
      [] st.kind = "assignment" ->
            LET v == EvalExpr(st.value, s, M)
            IN  IF Running(v) THEN AssignTarget(v, st.target, v.val) ELSE v
      [] st.kind = "if_statement" ->
            LET c == EvalExpr(st.condition, s, M)
                arm == IF c.val # 0 THEN st.then ELSE st.else
            IN  IF Running(c) THEN PopScope(ExecStatements(arm, PushScope(c), M)) ELSE c
      [] st.kind = "for_statement" ->
            PopScope(ExecLoop(st, ExecStatement(st.init, PushScope(s), M), M))
      [] st.kind = "return_statement" ->
            IF st.value = <<>> THEN Throw(Give(s, 0), "return")
            ELSE LET v == EvalExpr(Head(st.value), s, M)
                 IN  IF Running(v) THEN Throw(v, "return") ELSE v
      [] st.kind = "expression_statement" -> EvalExpr(st.expression, s, M)

\* A method on argument values (a function of the parameters' names) and the
\* contract's properties: it accepts unless an assertion failed or the
\* evaluator raised an error, and leaves the new properties.
ExecuteMethod(m, args, props, M) ==
    LET r == ExecStatements(m.body, [env |-> <<args>>, props |-> props, val |-> 0,
                                     thrown |-> "none"], M)
    IN  [success |-> r.thrown \in {"none", "return"}, thrown |-> r.thrown, props |-> r.props]
=============================================================================
