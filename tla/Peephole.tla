------------------------------- MODULE Peephole -------------------------------
(***************************************************************************)
(* The peephole optimizer, packages/runar-compiler/src/optimizer/          *)
(* peephole.ts, and the flattening of operations into a script,            *)
(* packages/runar-compiler/src/passes/06-emit.ts.                          *)
(***************************************************************************)
EXTENDS AnfOptimize

IsPush(o) == o.op = "push"
IsBigint(o) == IsPush(o) /\ o.type = "bigint"
IsPushBigInt(o, n) == IsBigint(o) /\ o.value = n
IsOpcode(o, code) == o = Opcode(code)

CANONICAL_BOOL_OPCODES ==
    {"OP_EQUAL", "OP_NUMEQUAL", "OP_NUMNOTEQUAL", "OP_LESSTHAN", "OP_GREATERTHAN",
     "OP_LESSTHANOREQUAL", "OP_GREATERTHANOREQUAL", "OP_BOOLAND", "OP_BOOLOR",
     "OP_WITHIN", "OP_NOT", "OP_0NOTEQUAL", "OP_CHECKSIG", "OP_CHECKMULTISIG"}
ProducesCanonicalBool(o) ==
    \/ o.op = "opcode" /\ o.code \in CANONICAL_BOOL_OPCODES
    \/ IsPush(o) /\ o.type = "boolean"
    \/ IsPushBigInt(o, 0) \/ IsPushBigInt(o, 1)

\* ---- the rules: <<ops>> for a replacement, <<>> when none matches -------------
\* Mutant: x - a - b becomes x - (a - b).
Match4Associated(a, b, c, d) ==
    IF IsBigint(a) /\ IsBigint(c) /\ IsOpcode(b, "OP_SUB") /\ IsOpcode(d, "OP_SUB")
    THEN <<<<PushInt(a.value - c.value), Opcode("OP_SUB")>>>> ELSE <<>>
Match4(a, b, c, d) ==
    LET chain(code) == /\ IsBigint(a) /\ IsOpcode(b, code)
                       /\ IsBigint(c) /\ IsOpcode(d, code)
    IN  CASE chain("OP_ADD") -> <<<<PushInt(a.value + c.value), Opcode("OP_ADD")>>>>
          [] chain("OP_SUB") -> <<<<PushInt(a.value + c.value), Opcode("OP_SUB")>>>>
          [] OTHER -> <<>>
Match3(a, b, c) ==
    CASE ProducesCanonicalBool(a) /\ IsOpcode(b, "OP_NOT") /\ IsOpcode(c, "OP_NOT") ->
            << <<a>> >>
      [] IsBigint(a) /\ IsBigint(b) /\ IsOpcode(c, "OP_ADD") ->
            << <<PushInt(a.value + b.value)>> >>
      [] IsBigint(a) /\ IsBigint(b) /\ IsOpcode(c, "OP_SUB") ->
            << <<PushInt(a.value - b.value)>> >>
      [] IsBigint(a) /\ IsBigint(b) /\ IsOpcode(c, "OP_MUL") ->
            << <<PushInt(a.value * b.value)>> >>
      [] OTHER -> <<>>
Verified(code) == CASE code = "OP_EQUAL" -> "OP_EQUALVERIFY"
                    [] code = "OP_CHECKSIG" -> "OP_CHECKSIGVERIFY"
                    [] code = "OP_NUMEQUAL" -> "OP_NUMEQUALVERIFY"
                    [] code = "OP_CHECKMULTISIG" -> "OP_CHECKMULTISIGVERIFY"
                    [] OTHER -> ""
Match2(a, b) ==
    CASE b.op = "drop" /\ (IsPush(a) \/ a.op = "dup") -> << <<>> >>
      [] a.op = "swap" /\ b.op = "swap" -> << <<>> >>
      [] IsPushBigInt(a, 1) /\ IsOpcode(b, "OP_ADD") -> << <<Opcode("OP_1ADD")>> >>
      [] IsPushBigInt(a, 1) /\ IsOpcode(b, "OP_SUB") -> << <<Opcode("OP_1SUB")>> >>
      [] IsPushBigInt(a, 0) /\ b \in {Opcode("OP_ADD"), Opcode("OP_SUB")} -> << <<>> >>
      [] IsOpcode(a, "OP_NEGATE") /\ IsOpcode(b, "OP_NEGATE") -> << <<>> >>
      [] a.op = "opcode" /\ Verified(a.code) # "" /\ IsOpcode(b, "OP_VERIFY") ->
            << <<Opcode(Verified(a.code))>> >>
      [] a.op = "over" /\ b.op = "over" -> << <<Opcode("OP_2DUP")>> >>
      [] a.op = "drop" /\ b.op = "drop" -> << <<Opcode("OP_2DROP")>> >>
      [] IsPushBigInt(a, 0) /\ b = RollOp(0) -> << <<>> >>
      [] IsPushBigInt(a, 1) /\ b = RollOp(1) -> << <<Op("swap")>> >>
      [] IsPushBigInt(a, 2) /\ b = RollOp(2) -> << <<Op("rot")>> >>
      [] IsPushBigInt(a, 0) /\ b = PickOp(0) -> << <<Op("dup")>> >>
      [] IsPushBigInt(a, 1) /\ b = PickOp(1) -> << <<Op("over")>> >>
      [] IsOpcode(a, "OP_SHA256") /\ IsOpcode(b, "OP_SHA256") -> << <<Opcode("OP_HASH256")>> >>
      [] IsPushBigInt(a, 0) /\ IsOpcode(b, "OP_NUMEQUAL") -> << <<Opcode("OP_NOT")>> >>
      [] OTHER -> <<>>

\* The widest window that matches at the head of the operations.
MatchHead(ops) ==
    LET m4 == IF Len(ops) >= 4 THEN Match4(ops[1], ops[2], ops[3], ops[4]) ELSE <<>>
        m3 == IF Len(ops) >= 3 THEN Match3(ops[1], ops[2], ops[3]) ELSE <<>>
        m2 == IF Len(ops) >= 2 THEN Match2(ops[1], ops[2]) ELSE <<>>
    IN  CASE m4 # <<>> -> [ops |-> m4[1], size |-> 4]
          [] m3 # <<>> -> [ops |-> m3[1], size |-> 3]
          [] m2 # <<>> -> [ops |-> m2[1], size |-> 2]
          [] OTHER -> [ops |-> <<ops[1]>>, size |-> 1]

RECURSIVE ApplyOnePass(_), OptimizeStackIR(_), ToFixpoint(_, _)
ApplyOnePass(ops) ==
    IF ops = <<>> THEN <<>>
    ELSE LET m == MatchHead(ops)
         IN  m.ops \o ApplyOnePass(SubSeq(ops, m.size + 1, Len(ops)))
ToFixpoint(ops, iterations) ==
    LET next == ApplyOnePass(ops)
    IN  IF iterations = 0 \/ next = ops THEN ops ELSE ToFixpoint(next, iterations - 1)
OptimizeNestedIf(o) ==
    IF o.op = "if" THEN IfOp(OptimizeStackIR(o.then), OptimizeStackIR(o.else)) ELSE o
OptimizeStackIR(ops) ==
    ToFixpoint([i \in DOMAIN ops |-> OptimizeNestedIf(ops[i])], 100)

\* ---- emission -------------------------------------------------------------------
RECURSIVE EmitOps(_), EmitMethodDispatch(_, _)
\* Mutant: the arms of a conditional run one after the other.
EmitBothArms(o) ==
    IF o.op = "if"
    THEN <<Opcode("OP_IF")>> \o EmitOps(o.then) \o EmitOps(o.else) \o <<Opcode("OP_ENDIF")>>
    ELSE <<o>>
EmitStackOp(o) ==
    IF o.op = "if"
    THEN <<Opcode("OP_IF")>> \o EmitOps(o.then)
         \o (IF o.else # <<>> THEN <<Opcode("OP_ELSE")>> \o EmitOps(o.else) ELSE <<>>)
         \o <<Opcode("OP_ENDIF")>>
    ELSE <<o>>
EmitOps(ops) == IF ops = <<>> THEN <<>>
                ELSE EmitStackOp(Head(ops)) \o EmitOps(Tail(ops))

\* Mutant: the last method is selected by any other index.
EmitLastUnchecked(bodies, i) ==
    IF i = Len(bodies) THEN <<Op("drop")>> \o EmitOps(bodies[i])
    ELSE << Op("dup"), PushInt(i - 1), Opcode("OP_NUMEQUAL"), Opcode("OP_IF"), Op("drop") >>
         \o EmitOps(bodies[i]) \o <<Opcode("OP_ELSE")>>
         \o EmitMethodDispatch(bodies, i + 1) \o <<Opcode("OP_ENDIF")>>
\* Several public methods: the spender's last push selects one by its index.
EmitMethodDispatch(bodies, i) ==
    IF i = Len(bodies)
    THEN <<PushInt(i - 1), Opcode("OP_NUMEQUALVERIFY")>> \o EmitOps(bodies[i])
    ELSE << Op("dup"), PushInt(i - 1), Opcode("OP_NUMEQUAL"), Opcode("OP_IF"), Op("drop") >>
         \o EmitOps(bodies[i]) \o <<Opcode("OP_ELSE")>>
         \o EmitMethodDispatch(bodies, i + 1) \o <<Opcode("OP_ENDIF")>>
EmitScript(bodies) ==
    IF Len(bodies) = 1 THEN EmitOps(bodies[1]) ELSE EmitMethodDispatch(bodies, 1)
=============================================================================
