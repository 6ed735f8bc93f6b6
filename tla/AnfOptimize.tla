----------------------------- MODULE AnfOptimize -----------------------------
(***************************************************************************)
(* The passes between the two lowerings, packages/runar-compiler/src/      *)
(* optimizer: constant folding (constant-fold.ts), the algebraic           *)
(* simplification of curve operations (anf-ec.ts) and the elimination of   *)
(* dead bindings that runs only when that one has rewritten something      *)
(* (dce.ts).                                                               *)
(*                                                                         *)
(* Constants are typed as in the source: a big integer, a boolean or a     *)
(* string of bytes, of which the only ones here are curve points and the   *)
(* empty string.                                                           *)
(***************************************************************************)
EXTENDS StackLower

ConstPoint(k) == [kind |-> "load_const", value |-> k, point |-> TRUE]

\* ---- constant folding -------------------------------------------------------
ConstType(v) == CASE "boolean" \in DOMAIN v -> "boolean"
                  [] {"bytes", "point"} \cap DOMAIN v # {} -> "string"
                  [] OTHER -> "bigint"
Comparisons == {"===", "!==", "<", "<=", ">", ">="}
NotFolded == <<>>

\* <<v>> for a folded value, <<>> for the source's null.
EvalBinOp(op, l, r) ==
    CASE ConstType(l) = "bigint" /\ ConstType(r) = "bigint" ->
            IF op \in {"&&", "||"} \/ (op \in {"/", "%"} /\ r.value = 0) THEN NotFolded
            ELSE IF op \in Comparisons
            THEN <<ConstBool(BinaryValue(op, l.value, r.value) = 1)>>
            ELSE <<Const(BinaryValue(op, l.value, r.value))>>
      [] ConstType(l) = "boolean" /\ ConstType(r) = "boolean" ->
            CASE op = "&&" -> <<ConstBool(l.value = 1 /\ r.value = 1)>>
              [] op = "||" -> <<ConstBool(l.value = 1 \/ r.value = 1)>>
              [] op \in {"===", "!=="} -> <<ConstBool(BinaryValue(op, l.value, r.value) = 1)>>
              [] OTHER -> NotFolded
      [] OTHER -> NotFolded
EvalUnaryOp(op, v) ==
    CASE ConstType(v) = "boolean" /\ op = "!" -> <<ConstBool(v.value = 0)>>
      [] ConstType(v) = "bigint" /\ op = "-" -> <<Const(-v.value)>>
      [] ConstType(v) = "bigint" /\ op = "!" -> <<ConstBool(v.value = 0)>>
      [] OTHER -> NotFolded
EvalBuiltinCall(f, args) ==
    LET n == [k \in DOMAIN args |-> args[k].value]
    IN  CASE \E k \in DOMAIN args : ConstType(args[k]) # "bigint" -> NotFolded
          [] f = "abs" -> <<Const(Abs(n[1]))>>
          [] f = "min" -> <<Const(IF n[1] < n[2] THEN n[1] ELSE n[2])>>
          [] f = "max" -> <<Const(IF n[1] > n[2] THEN n[1] ELSE n[2])>>
          [] OTHER -> NotFolded

RECURSIVE FoldBindings(_, _)
FoldValue(v, env) ==
    LET Known(x) == x \in DOMAIN env
        folded == CASE v.kind = "bin_op" /\ Known(v.left) /\ Known(v.right) ->
                            EvalBinOp(v.op, env[v.left], env[v.right])
                    [] v.kind = "unary_op" /\ Known(v.operand) ->
                            EvalUnaryOp(v.op, env[v.operand])
                    [] v.kind = "call" /\ \A k \in DOMAIN v.args : Known(v.args[k]) ->
                            EvalBuiltinCall(v.func, [k \in DOMAIN v.args |-> env[v.args[k]]])
                    [] OTHER -> NotFolded
    IN  CASE folded # NotFolded -> folded[1]
          [] v.kind = "if" -> [v EXCEPT !.then = FoldBindings(@, env),
                                        !.else = FoldBindings(@, env)]
          [] v.kind = "loop" -> [v EXCEPT !.body = FoldBindings(@, env)]
          [] OTHER -> v
\* env maps the names of the constants met so far to their values; an alias is
\* not a constant.
FoldBindings(bindings, env) ==
    IF bindings = <<>> THEN <<>>
    ELSE LET b == Head(bindings)
             v == FoldValue(b.value, env)
         IN  <<Binding(b.name, v)>>
             \o FoldBindings(Tail(bindings),
                             IF v.kind = "load_const" THEN Bind(env, b.name, v) ELSE env)
FoldConstants(anf) ==
    [i \in DOMAIN anf |-> [anf[i] EXCEPT !.body = FoldBindings(@, Empty)]]

\* ---- dead bindings ------------------------------------------------------------
RECURSIVE CollectRefsFromValue(_), FilterLiveBindings(_)
RefsFrom(bindings) == UNION {CollectRefsFromValue(bindings[i].value) : i \in DOMAIN bindings}
CollectRefsFromValue(v) ==
    CASE v.kind = "load_param" -> {}
      [] v.kind = "if" -> {v.cond} \cup RefsFrom(v.then) \cup RefsFrom(v.else)
      [] v.kind = "loop" -> RefsFrom(v.body)
      [] OTHER -> CollectRefs(v)
HasSideEffect(v) ==
    v.kind \in {"assert", "update_prop", "check_preimage", "deserialize_state", "call",
                "method_call"}
\* Repeated until nothing more is dead.
FilterLiveBindings(bindings) ==
    LET refs == RefsFrom(bindings)
        live == SelectSeq(bindings, LAMBDA b : b.name \in refs \/ HasSideEffect(b.value))
    IN  IF Len(live) = Len(bindings) THEN bindings ELSE FilterLiveBindings(live)
EliminateDeadBindings(anf) ==
    [i \in DOMAIN anf |-> [anf[i] EXCEPT !.body = FilterLiveBindings(@)]]

\* ---- curve operations -----------------------------------------------------------
\* values maps the names of the bindings met so far to their values.
IsCallTo(values, x, f) ==
    x \in DOMAIN values /\ values[x].kind = "call" /\ values[x].func = f
IsInt(values, x) ==
    /\ x \in DOMAIN values
    /\ values[x].kind = "load_const" /\ ConstType(values[x]) = "bigint"
IsConstInt(values, x, n) == IsInt(values, x) /\ values[x].value = n
\* x is the constant point k, or k G computed.
IsPoint(values, x, k) ==
    \/ x \in DOMAIN values /\ values[x] = ConstPoint(k)
    \/ IsCallTo(values, x, "ecMulGen") /\ IsConstInt(values, values[x].args[1], k)

\* A product of scalars is reduced by the source's % and keeps its sign; a sum is brought
\* into 0..CURVE_N - 1.
ReducedProduct(k1, k2) == TruncMod(k1 * k2, CURVE_N)
ReducedSum(k1, k2) == (k1 + k2) % CURVE_N

\* What a call is rewritten to; "extra" is the constant a rule needs under a new
\* name, "none" when no rule applies.
Plain(v) == [value |-> v, extra |-> <<>>]
NoRewrite == [value |-> [kind |-> "none"], extra |-> <<>>]
WithScalar(name, n, f, args) ==
    LET k == name \o "_k"
    IN  [value |-> CallOp(f, Append(args, k)), extra |-> <<Binding(k, Const(n))>>]

RewriteMul(name, p, k, values) ==
    CASE IsConstInt(values, k, 0) -> Plain(ConstPoint(0))
      [] IsConstInt(values, k, 1) -> Plain(Alias(p))
      [] IsPoint(values, p, 1) -> Plain(CallOp("ecMulGen", <<k>>))
      [] IsCallTo(values, p, "ecMul") /\ IsInt(values, values[p].args[2])
            /\ IsInt(values, k) ->
                WithScalar(name, ReducedProduct(values[values[p].args[2]].value, values[k].value),
                           "ecMul", <<values[p].args[1]>>)
      [] OTHER -> NoRewrite
\* Mutant: the sum with the point at infinity is the point at infinity.
RewriteAddToInfinity(name, l, r, values) ==
    IF IsPoint(values, r, 0) THEN Plain(Alias(r))
    ELSE IF IsPoint(values, l, 0) THEN Plain(Alias(l)) ELSE NoRewrite
RewriteAdd(name, l, r, values) ==
    CASE IsPoint(values, r, 0) -> Plain(Alias(l))
      [] IsPoint(values, l, 0) -> Plain(Alias(r))
      [] IsCallTo(values, r, "ecNegate") /\ values[r].args[1] = l -> Plain(ConstPoint(0))
      [] /\ IsCallTo(values, l, "ecMulGen") /\ IsCallTo(values, r, "ecMulGen")
         /\ IsInt(values, values[l].args[1]) /\ IsInt(values, values[r].args[1]) ->
                WithScalar(name, ReducedSum(values[values[l].args[1]].value,
                                            values[values[r].args[1]].value), "ecMulGen", <<>>)
      [] /\ IsCallTo(values, l, "ecMul") /\ IsCallTo(values, r, "ecMul")
         /\ values[l].args[1] = values[r].args[1]
         /\ IsInt(values, values[l].args[2]) /\ IsInt(values, values[r].args[2]) ->
                WithScalar(name, ReducedSum(values[values[l].args[2]].value,
                                            values[values[r].args[2]].value),
                           "ecMul", <<values[l].args[1]>>)
      [] OTHER -> NoRewrite
TryRewrite(b, values) ==
    LET v == b.value
    IN  CASE v.kind # "call" -> NoRewrite
          [] v.func = "ecMulGen" ->
                CASE IsConstInt(values, v.args[1], 0) -> Plain(ConstPoint(0))
                  [] IsConstInt(values, v.args[1], 1) -> Plain(ConstPoint(1))
                  [] OTHER -> NoRewrite
          [] v.func = "ecMul" -> RewriteMul(b.name, v.args[1], v.args[2], values)
          [] v.func = "ecAdd" -> RewriteAdd(b.name, v.args[1], v.args[2], values)
          [] v.func = "ecNegate" ->
                IF IsCallTo(values, v.args[1], "ecNegate")
                THEN Plain(Alias(values[v.args[1]].args[1])) ELSE NoRewrite
          [] OTHER -> NoRewrite

RECURSIVE RewriteEach(_, _)
RewriteEach(bindings, values) ==
    IF bindings = <<>> THEN <<>>
    ELSE LET b == Head(bindings)
             r == TryRewrite(b, values)
             v == IF r = NoRewrite THEN b.value ELSE r.value
             known == IF r.extra = <<>> THEN values
                      ELSE Bind(values, r.extra[1].name, r.extra[1].value)
         IN  r.extra \o <<Binding(b.name, v)>>
             \o RewriteEach(Tail(bindings), Bind(known, b.name, v))
\* Only the top level of a body is looked at.
OptimizeEC(anf) ==
    LET new == [i \in DOMAIN anf |-> [anf[i] EXCEPT !.body = RewriteEach(@, Empty)]]
    IN  IF new = anf THEN anf ELSE EliminateDeadBindings(new)
=============================================================================
