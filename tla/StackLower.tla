------------------------------ MODULE StackLower ------------------------------
(***************************************************************************)
(* Pass 5 of the compiler, packages/runar-compiler/src/passes/             *)
(* 05-stack-lower.ts: the bindings of a method become stack operations.    *)
(* The compiler's only picture of the stack at run time is its stack map,  *)
(* the list of the names of the slots, bottom first; every operand is      *)
(* found by looking its name up there.                                     *)
(*                                                                         *)
(* A context x is the source's LoweringContext: the map, the operations    *)
(* emitted, the largest depth seen, the names bound by the list being      *)
(* lowered, the names an enclosing scope still needs, whether an arm is    *)
(* being lowered, the slots of renamed parameters and the contract; error  *)
(* is the message of the first throw, after which nothing is lowered.      *)
(* "" is the source's null slot name.                                      *)
(***************************************************************************)
EXTENDS AnfLower

MAX_STACK_DEPTH == 800
Anonymous == ""

\* ---- operations -----------------------------------------------------------
PushInt(n) == [op |-> "push", type |-> "bigint", value |-> n]
PushBool(n) == [op |-> "push", type |-> "boolean", value |-> n]
PushBytes == [op |-> "push", type |-> "bytes", value |-> 0]
PushPoint(n) == [op |-> "push", type |-> "point", value |-> n]
Op(o) == [op |-> o]
Opcode(code) == [op |-> "opcode", code |-> code]
RollOp(d) == [op |-> "roll", depth |-> d]
PickOp(d) == [op |-> "pick", depth |-> d]
Placeholder(p) == [op |-> "placeholder", name |-> p]
IfOp(t, e) == [op |-> "if", then |-> t, else |-> e]

BinopOpcodes(op) ==
    CASE op = "+" -> <<"OP_ADD">> [] op = "-" -> <<"OP_SUB">>
      [] op = "*" -> <<"OP_MUL">> [] op = "/" -> <<"OP_DIV">>
      [] op = "%" -> <<"OP_MOD">> [] op = "===" -> <<"OP_NUMEQUAL">>
      [] op = "!==" -> <<"OP_NUMEQUAL", "OP_NOT">>
      [] op = "===bytes" -> <<"OP_EQUAL">>
      [] op = "<" -> <<"OP_LESSTHAN">> [] op = "<=" -> <<"OP_LESSTHANOREQUAL">>
      [] op = ">" -> <<"OP_GREATERTHAN">> [] op = ">=" -> <<"OP_GREATERTHANOREQUAL">>
      [] op = "&&" -> <<"OP_BOOLAND">> [] op = "||" -> <<"OP_BOOLOR">>
UnaryopOpcodes(op) == IF op = "!" THEN <<"OP_NOT">> ELSE <<"OP_NEGATE">>
BuiltinOpcodes(f) ==
    CASE f = "abs" -> <<"OP_ABS">> [] f = "min" -> <<"OP_MIN">>
      [] f = "max" -> <<"OP_MAX">> [] f = "within" -> <<"OP_WITHIN">>
      \* A curve operation is a long sequence of its own, taken as one opcode.
      [] f = "ecAdd" -> <<"EC_ADD">> [] f = "ecMul" -> <<"EC_MUL">>
      [] f = "ecMulGen" -> <<"EC_MUL_GEN">> [] f = "ecNegate" -> <<"EC_NEGATE">>
      [] f = "cat" -> <<"OP_CAT">> [] f = "hash256" -> <<"OP_HASH256">>
      \* The splits that cut a field out of the preimage, taken together.
      [] f = "extractSigHashType" -> <<"EXTRACT_SIGHASH_TYPE">>
      [] f = "extractOutputHash" -> <<"EXTRACT_OUTPUT_HASH">>

\* ---- the stack map --------------------------------------------------------
SlotAt(map, d) == map[Len(map) - d]
Has(map, x) == x \in ToSet(map)
NamedSlots(map) == ToSet(map) \ {Anonymous}
\* Depth from the top of the topmost slot of that name.
FindDepth(map, x) ==
    CHOOSE d \in 0..(Len(map) - 1) :
        SlotAt(map, d) = x /\ \A e \in 0..(d - 1) : SlotAt(map, e) # x
RemoveSlot(map, d) ==
    SubSeq(map, 1, Len(map) - d - 1) \o SubSeq(map, Len(map) - d + 1, Len(map))
RenameSlot(map, d, x) == [map EXCEPT ![Len(map) - d] = x]

Fail(x, what) == [x EXCEPT !.error = IF @ = "" THEN what ELSE @]
\* Mutant: the largest depth is that of the last operation.
TrackLastDepth(x) == [x EXCEPT !.maxDepth = Len(x.map)]
TrackDepth(x) == IF Len(x.map) > x.maxDepth
                 THEN [x EXCEPT !.maxDepth = Len(x.map)] ELSE x
EmitOp(x, op) == TrackDepth([x EXCEPT !.ops = Append(@, op)])
PushSlot(x, name) == [x EXCEPT !.map = Append(@, name)]
PopSlots(x, n) == IF Len(x.map) < n THEN Fail(x, "Stack underflow")
                  ELSE [x EXCEPT !.map = SubSeq(@, 1, Len(@) - n)]
RenameTop(x, name) == PushSlot(PopSlots(x, 1), name)

RECURSIVE EmitOpcodes(_, _)
EmitOpcodes(x, codes) ==
    IF codes = <<>> \/ x.error # "" THEN x
    ELSE EmitOpcodes(EmitOp(x, Opcode(Head(codes))), Tail(codes))

\* The depth is pushed while its literal has a slot of its own.
RollUp(x, d, field) ==
    LET lit == PushSlot(EmitOp(x, PushInt(d)), Anonymous)
        r == PopSlots(EmitOp(lit, RollOp(field)), 1)
    IN  IF d >= Len(x.map) THEN Fail(x, "Invalid stack depth")
        ELSE [r EXCEPT !.map = Append(RemoveSlot(@, d), SlotAt(@, d))]
PickUp(x, d, name) ==
    LET lit == PushSlot(EmitOp(x, PushInt(d)), Anonymous)
    IN  PushSlot(PopSlots(EmitOp(lit, PickOp(d)), 1), name)
RollDrop(x, d, field) == PopSlots(EmitOp(RollUp(x, d, field), Op("drop")), 1)
Nip(x) == LET e == EmitOp(x, Op("nip")) IN [e EXCEPT !.map = RemoveSlot(@, 1)]
DropSlotAtDepth(x, d) ==
    CASE d = 0 -> PopSlots(EmitOp(x, Op("drop")), 1)
      [] d = 1 -> Nip(x)
      [] OTHER -> RollDrop(x, d, d)
\* Mutant: the map forgets the slot and the script does not.
DropStaleInMapOnly(x, d) == [x EXCEPT !.map = RemoveSlot(@, d)]
\* The same after an OP_ENDIF, where the source gives the roll one more.
DropStale(x, d) == IF d = 1 THEN Nip(x) ELSE RollDrop(x, d, d + 1)

RECURSIVE NipTo(_, _)
NipTo(x, depth) == IF Len(x.map) <= depth THEN x ELSE NipTo(Nip(x), depth)
\* Mutant: the values the method leaves under its verdict stay.
NoCleanup(x) == x
CleanupExcessStack(x) == NipTo(x, 1)

BringToTop(x, name, consume) ==
    IF ~Has(x.map, name) THEN PushSlot(Fail(x, "not found on stack"), name)
    ELSE LET d == FindDepth(x.map, name)
         IN  CASE d = 0 -> IF consume THEN x
                           ELSE PushSlot(EmitOp(x, Op("dup")), name)
               [] d = 1 /\ consume ->
                    LET e == EmitOp(x, Op("swap"))
                    IN  [e EXCEPT !.map = Append(RemoveSlot(@, 1), name)]
               [] d = 2 /\ consume ->
                    LET e == EmitOp(x, Op("rot"))
                    IN  [e EXCEPT !.map = Append(RemoveSlot(@, 2), name)]
               [] d > 2 /\ consume -> TrackDepth(RollUp(x, d, d))
               [] d = 1 /\ ~consume -> TrackDepth(PushSlot(EmitOp(x, Op("over")), name))
               [] OTHER -> TrackDepth(PickUp(x, d, name))

\* ---- use analysis -----------------------------------------------------------
RECURSIVE CollectRefs(_), DeepBindingNames(_), FlattenNested(_)
RefsOf(bindings) == UNION {CollectRefs(bindings[i].value) : i \in DOMAIN bindings}
CollectRefs(v) ==
    CASE v.kind = "load_param" -> {v.name}
      [] v.kind = "alias" -> {v.target}
      [] v.kind = "bin_op" -> {v.left, v.right}
      [] v.kind = "unary_op" -> {v.operand}
      [] v.kind = "call" -> ToSet(v.args)
      [] v.kind = "method_call" -> {v.object} \cup ToSet(v.args)
      [] v.kind = "if" -> {v.cond} \cup RefsOf(v.then) \cup RefsOf(v.else)
      [] v.kind = "loop" -> RefsOf(v.body)
      [] v.kind \in {"assert", "update_prop"} -> {v.value}
      [] v.kind \in {"check_preimage", "deserialize_state"} -> {v.preimage}
      [] OTHER -> {}

\* The index of the last binding that refers to a name.
ComputeLastUses(bindings) ==
    [x \in RefsOf(bindings) |->
        LET at == {i \in DOMAIN bindings : x \in CollectRefs(bindings[i].value)}
        IN  CHOOSE i \in at : \A j \in at : j <= i]
\* Names an enclosing scope needs count as used after the list.
Protect(lastUses, names, n) ==
    [x \in DOMAIN lastUses \cup names |-> IF x \in names THEN n + 1 ELSE lastUses[x]]
IsLastUse(x, i, lastUses) == x \notin DOMAIN lastUses \/ lastUses[x] <= i
OperandConsume(x, operands, i, lastUses) ==
    /\ IsLastUse(x, i, lastUses)
    /\ Cardinality({k \in DOMAIN operands : operands[k] = x}) <= 1

DeepBindingNames(bindings) ==
    UNION {{bindings[i].name} \cup
           (CASE bindings[i].value.kind = "if" ->
                    DeepBindingNames(bindings[i].value.then)
                        \cup DeepBindingNames(bindings[i].value.else)
              [] bindings[i].value.kind = "loop" ->
                    DeepBindingNames(bindings[i].value.body)
              [] OTHER -> {}) : i \in DOMAIN bindings}

\* Mutant: the arms of conditionals are not looked into.
FlattenLoopsOnly(bindings) ==
    IF bindings = <<>> THEN <<>>
    ELSE (IF Head(bindings).value.kind = "loop" THEN FlattenNested(Head(bindings).value.body)
          ELSE <<Head(bindings)>>) \o FlattenNested(Tail(bindings))
FlattenNested(bindings) ==
    IF bindings = <<>> THEN <<>>
    ELSE LET v == Head(bindings).value
         IN  (CASE v.kind = "loop" -> FlattenNested(v.body)
                [] v.kind = "if" -> FlattenNested(v.then) \o FlattenNested(v.else)
                [] OTHER -> <<Head(bindings)>>) \o FlattenNested(Tail(bindings))

\* Mutant: nothing is carried between iterations.
NothingCarried(body) == {}
\* Names a loop body reads before it rebinds them and again afterwards: their
\* value is carried from one iteration to the next.
LoopCarriedRebinds(body) ==
    LET flat == FlattenNested(body)
        Binds(x) == {i \in DOMAIN flat : flat[i].name = x}
        Reads(x) == {i \in DOMAIN flat : x \in CollectRefs(flat[i].value)}
    IN  {x \in {flat[i].name : i \in DOMAIN flat} :
            /\ \E i \in Reads(x) : \A j \in Binds(x) : i < j
            /\ \E i \in Reads(x) : \A j \in Binds(x) : i > j}

\* ---- one binding ------------------------------------------------------------
StackContext(map, contract, privates) ==
    LET mutable == {p.name : p \in ToSet(MutableProps(contract))}
        renamed == ToSet(map) \cap mutable
        Slot(x) == IF x \in renamed THEN "__param_" \o x ELSE x
    IN  TrackDepth([map |-> [i \in DOMAIN map |-> Slot(map[i])], ops |-> <<>>,
                    maxDepth |-> 0, locals |-> {}, protected |-> {},
                    branch |-> FALSE,
                    renamed |-> [x \in renamed |-> "__param_" \o x],
                    contract |-> contract, privates |-> privates, error |-> ""])

LowerLoadParam(x, name, param, i, lastUses) ==
    LET slot == Rename(param, x.renamed)
    IN  RenameTop(BringToTop(x, slot, IsLastUse(param, i, lastUses)), name)

LowerLoadProp(x, name, p) ==
    LET prop == MethodNamed(x.contract.properties, p)
    IN  IF Has(x.map, p) THEN RenameTop(BringToTop(x, p, FALSE), name)
        ELSE IF prop.initial # <<>>
        THEN PushSlot(EmitOp(x, PushInt(prop.initial[1])), name)
        ELSE PushSlot(EmitOp(x, Placeholder(p)), name)

PushValue(v) ==
    CASE "bytes" \in DOMAIN v -> PushBytes
      [] "point" \in DOMAIN v -> PushPoint(v.value)
      [] "boolean" \in DOMAIN v -> PushBool(v.value)
      [] OTHER -> PushInt(v.value)
\* Only a name bound by the list being lowered may be consumed by an alias.
LowerAlias(x, name, target, i, lastUses) ==
    RenameTop(BringToTop(x, target,
                         target \in x.locals /\ IsLastUse(target, i, lastUses)), name)

RECURSIVE BringOperands(_, _, _, _, _)
BringOperands(x, rest, operands, i, lastUses) ==
    IF rest = <<>> \/ x.error # "" THEN x
    ELSE BringOperands(BringToTop(x, Head(rest),
                                  OperandConsume(Head(rest), operands, i, lastUses)),
                       Tail(rest), operands, i, lastUses)
\* The operands are popped from the map before the opcodes are emitted.
LowerOperation(x, name, operands, codes, i, lastUses) ==
    LET b == PopSlots(BringOperands(x, operands, operands, i, lastUses), Len(operands))
    IN  TrackDepth(PushSlot(EmitOpcodes(b, codes), name))

LowerUnaryOp(x, name, v, i, lastUses) ==
    LowerOperation(x, name, <<v.operand>>, UnaryopOpcodes(v.op), i, lastUses)

LowerAssert(x, value, i, lastUses, terminal) ==
    LET b == BringToTop(x, value, IsLastUse(value, i, lastUses))
    IN  TrackDepth(IF terminal THEN b
                   ELSE EmitOp(PopSlots(b, 1), Opcode("OP_VERIFY")))

\* The depth, at least 1, of the topmost slot of that name under the first
\* from - 1; 0 when there is none.
StaleDepth(map, name, from) ==
    LET at == {d \in from..(Len(map) - 1) : SlotAt(map, d) = name}
    IN  IF at = {} THEN 0 ELSE CHOOSE d \in at : \A e \in at : d <= e

\* Outside an arm the old value of the property is dropped at once.
LowerUpdateProp(x, p, value, i, lastUses) ==
    LET b == RenameTop(BringToTop(x, value, IsLastUse(value, i, lastUses)), p)
        d == StaleDepth(b.map, p, 1)
    IN  TrackDepth(IF x.branch \/ d = 0 THEN b ELSE DropStale(b, d))

\* ---- the state of a stateful contract ---------------------------------------
\* The preimage is split into the mutable properties, first one deepest.
LowerDeserializeState(x, preimage, i, lastUses) ==
    LET b == BringToTop(x, preimage, IsLastUse(preimage, i, lastUses))
        names == [k \in DOMAIN MutableProps(x.contract) |->
                    MutableProps(x.contract)[k].name]
        s == PopSlots(EmitOp(b, [op |-> "deserialize", count |-> Len(names)]), 1)
    IN  [s EXCEPT !.map = @ \o names]

LowerCheckPreimage(x, name, preimage, i, lastUses) ==
    LET b == BringToTop(EmitOp(x, Opcode("OP_CODESEPARATOR")), preimage,
                        IsLastUse(preimage, i, lastUses))
    IN  TrackDepth(RenameTop(EmitOp(b, Opcode("CHECK_PREIMAGE")), name))

\* A number on top becomes an eight-byte word.
Num2Bin(x) ==
    PopSlots(EmitOp(PushSlot(EmitOp(x, PushInt(8)), Anonymous), Opcode("OP_NUM2BIN")), 1)
Cat(x) == PushSlot(EmitOp(PopSlots(x, 2), Opcode("OP_CAT")), Anonymous)

\* Every mutable property is consumed, widened and appended.
RECURSIVE SerializeProps(_, _, _)
SerializeProps(x, props, first) ==
    IF props = <<>> \/ x.error # "" THEN x
    ELSE LET p == Head(props)
             v == IF Has(x.map, p.name) THEN BringToTop(x, p.name, TRUE)
                  ELSE PushSlot(EmitOp(x, PushInt(IF p.initial # <<>> THEN p.initial[1]
                                                  ELSE 0)), Anonymous)
         IN  SerializeProps(IF first THEN Num2Bin(v) ELSE Cat(Num2Bin(v)),
                            Tail(props), FALSE)
LowerGetStateScript(x, name) ==
    IF MutableProps(x.contract) = <<>>
    THEN PushSlot(EmitOp(x, PushBytes), name)
    ELSE TrackDepth(RenameTop(SerializeProps(x, MutableProps(x.contract), TRUE), name))

\* The output that carries the new state; the code part is never consumed.
LowerComputeStateOutput(x, name, args, i, lastUses) ==
    LET Bring(y, k) == BringToTop(y, args[k], OperandConsume(args[k], args, i, lastUses))
        p == PopSlots(EmitOp(Bring(x, 1), Op("drop")), 1)
        a == PopSlots(EmitOp(Num2Bin(Bring(p, 3)), Opcode("OP_TOALTSTACK")), 1)
        c == Cat(BringToTop(Bring(a, 2), "_codePart", FALSE))
        o == Cat(PushSlot(EmitOp(c, Opcode("OP_FROMALTSTACK")), Anonymous))
    IN  TrackDepth(RenameTop(o, name))
LowerBuildChangeOutput(x, name, args, i, lastUses) ==
    LET Bring(y, k) == BringToTop(y, args[k], OperandConsume(args[k], args, i, lastUses))
        prefix == PushSlot(EmitOp(x, PushBytes), Anonymous)
        o == Cat(Num2Bin(Bring(Cat(Bring(prefix, 1)), 2)))
    IN  TrackDepth(RenameTop(o, name))

LowerBuiltin(x, name, f, args, i, lastUses) ==
    CASE f = "computeStateOutput" -> LowerComputeStateOutput(x, name, args, i, lastUses)
      [] f = "buildChangeOutput" -> LowerBuildChangeOutput(x, name, args, i, lastUses)
      [] OTHER -> LowerOperation(x, name, args, BuiltinOpcodes(f), i, lastUses)

\* ---- bindings ---------------------------------------------------------------
RECURSIVE LowerEach(_, _, _, _, _), LowerBinding(_, _, _, _, _), LowerBindings(_, _, _),
          LowerIterations(_, _, _, _, _), BindArguments(_, _, _, _, _, _)

\* Binding i; the terminal one leaves its verdict on the stack.
TerminalIndex(bindings) ==
    LET asserts == {i \in DOMAIN bindings : bindings[i].value.kind = "assert"}
    IN  IF bindings = <<>> THEN 0
        ELSE IF LastOf(bindings).value.kind = "if" THEN Len(bindings)
        ELSE IF asserts = {} THEN 0
        ELSE CHOOSE i \in asserts : \A j \in asserts : j <= i

LowerEach(x, bindings, i, lastUses, terminal) ==
    IF i > Len(bindings) \/ x.error # "" THEN x
    ELSE LowerEach(LowerBinding(x, bindings[i], i, lastUses, i = terminal),
                   bindings, i + 1, lastUses, terminal)

LowerBindings(x, bindings, terminalAssert) ==
    LowerEach([x EXCEPT !.locals = {bindings[i].name : i \in DOMAIN bindings}],
              bindings, 1,
              Protect(ComputeLastUses(bindings), x.protected, Len(bindings)),
              IF terminalAssert THEN TerminalIndex(bindings) ELSE 0)

\* ---- private methods, inlined -------------------------------------------------
\* Argument k becomes the slot of parameter k; a slot of that name already there
\* is renamed while the body runs.  w.shadowed lists the parameters it happened to.
ShadowedName(i, p) == "__shadowed_" \o ToString(i) \o "_" \o p
BindArguments(w, args, params, k, i, lastUses) ==
    IF k > Len(args) \/ k > Len(params) \/ w.x.error # "" THEN w
    ELSE LET p == params[k]
             b == PopSlots(BringToTop(w.x, args[k],
                              OperandConsume(args[k], args, i, lastUses)), 1)
             hidden == [b EXCEPT !.map = RenameSlot(@, FindDepth(@, p), ShadowedName(i, p))]
         IN  BindArguments(IF Has(b.map, p)
                           THEN [x |-> PushSlot(hidden, p), shadowed |-> Append(w.shadowed, p)]
                           ELSE [x |-> PushSlot(b, p), shadowed |-> w.shadowed],
                           args, params, k + 1, i, lastUses)

RECURSIVE RestoreShadowed(_, _, _)
RestoreShadowed(map, params, i) ==
    IF params = <<>> THEN map
    ELSE LET s == ShadowedName(i, Head(params))
         IN  RestoreShadowed(IF Has(map, s)
                             THEN RenameSlot(map, FindDepth(map, s), Head(params))
                             ELSE map, Tail(params), i)

Restored(w, body, i) ==
    LET b == LowerBindings(w.x, body, FALSE)
    IN  [b EXCEPT !.map = RestoreShadowed(@, w.shadowed, i)]
\* The value of the call is the body's last one, when that is on top.
NameResult(x, name, body) ==
    IF body # <<>> /\ x.map # <<>> /\ LastOf(x.map) = LastOf(body).name
    THEN RenameTop(x, name) ELSE x
InlineMethodCall(x, name, m, args, i, lastUses) ==
    NameResult(Restored(BindArguments([x |-> x, shadowed |-> <<>>], args, m.params, 1,
                                      i, lastUses), m.body, i),
               name, m.body)

LowerMethodCall(x, name, v, i, lastUses) ==
    LET c == IF Has(x.map, v.object)
             THEN PopSlots(EmitOp(BringToTop(x, v.object, TRUE), Op("drop")), 1) ELSE x
    IN  InlineMethodCall(c, name, MethodNamed(x.privates, v.method), v.args, i, lastUses)

\* ---- conditionals ---------------------------------------------------------------
RECURSIVE DropAtDepths(_, _), TrimTo(_, _, _), BalanceElse(_, _, _), BalanceThen(_, _),
          AdoptResults(_, _, _, _), SinkResults(_, _, _), DropStaleNames(_, _, _),
          ForgetConsumed(_, _)

\* Deepest first, so that the other depths stay true.
DropAtDepths(x, depths) ==
    IF depths = {} \/ x.error # "" THEN x
    ELSE LET d == CHOOSE d \in depths : \A e \in depths : e <= d
         IN  DropAtDepths(DropSlotAtDepth(x, d), depths \ {d})
DrainBranchPrivateResidue(x, preIfNames) ==
    DropAtDepths(x, {d \in 1..(Len(x.map) - 1) : SlotAt(x.map, d) \notin preIfNames})

CleanUpArm(x, terminal) == IF terminal THEN NipTo(x, 1) ELSE x
LowerArm(x, arm, protected, terminal) ==
    CleanUpArm(DrainBranchPrivateResidue(
        LowerBindings([x EXCEPT !.ops = <<>>, !.maxDepth = 0, !.protected = protected,
                                !.branch = TRUE, !.renamed = Empty], arm, terminal),
        NamedSlots(x.map)), terminal)

\* Both arms must give up the same slots of the parent.
DropConsumedByOther(x, other, preIfNames) ==
    DropAtDepths(x, {FindDepth(x.map, n) :
                       n \in (preIfNames \ NamedSlots(other.map)) \cap NamedSlots(x.map)})

TrimTo(x, depth, n) ==
    IF Len(x.map) <= depth \/ x.error # "" THEN x ELSE TrimTo(DropSlotAtDepth(x, n), depth, n)
TopNames(map, n) == SubSeq(map, Len(map) - n + 1, Len(map))
\* An arm of an if with declared results is its share of the parent's slots
\* under the results, the first of them deepest.
TrimToResults(x, depth, results) ==
    LET t == TrimTo(x, depth, Len(results))
    IN  CASE Len(t.map) # depth -> Fail(t, "branch result layout mismatch")
          [] TopNames(t.map, Len(results)) # results ->
                Fail(t, "branch result layout mismatch")
          [] OTHER -> t

\* Mutant: the arm that is not there is padded with nothing but empty pushes.
BalanceEmpty(t, e, absent) ==
    IF Len(t.map) <= Len(e.map) THEN e
    ELSE BalanceElse(t, PushSlot(EmitOp(e, PushBytes), Anonymous), FALSE)
\* The shallower arm is padded: with the old value where the other arm rebound
\* a name and this one is absent, with an empty push otherwise.
BalanceElse(t, e, absent) ==
    IF Len(t.map) <= Len(e.map) THEN e
    ELSE LET name == SlotAt(t.map, Len(t.map) - Len(e.map) - 1)
             keep == absent /\ name # Anonymous /\ Has(e.map, name)
             d == FindDepth(e.map, name)
         IN  BalanceElse(t,
                CASE keep /\ d = 0 -> PushSlot(EmitOp(e, Op("dup")), name)
                  [] keep /\ d > 0 -> PickUp(e, d, name)
                  [] OTHER -> PushSlot(EmitOp(e, PushBytes), Anonymous), absent)
BalanceThen(t, e) ==
    IF Len(t.map) >= Len(e.map) THEN t
    ELSE BalanceThen(PushSlot(EmitOp(t, PushBytes), Anonymous), e)

ForgetConsumed(map, names) ==
    IF names = {} THEN map
    ELSE LET n == CHOOSE n \in names : TRUE
         IN  ForgetConsumed(RemoveSlot(map, FindDepth(map, n)), names \ {n})

\* The reconciliation of the parent with the arms, after OP_ENDIF.  w.drops
\* counts the slots dropped there and w.sink how far the results rose.
AdoptResults(w, results, i, n) ==
    IF i = 0 THEN w
    ELSE LET d == StaleDepth(w.x.map, results[i], n)
         IN  AdoptResults(IF d = 0 THEN w
                          ELSE [x |-> RollDrop(w.x, d, d + 1), drops |-> w.drops + 1,
                                sink |-> IF d - n > w.sink THEN d - n ELSE w.sink],
                          results, i - 1, n)
\* Mutant: the results stay above the slots they crossed.
NoSink(x, window, times) == x
\* The results go back under the slots they crossed, which keeps the layout
\* that the other path of an enclosing conditional leaves.
SinkResults(x, window, times) ==
    IF times = 0 \/ x.error # "" THEN x
    ELSE SinkResults(RollUp(x, window - 1, window), window, times - 1)

\* Two or more results that were not declared: names from the top.
DropStaleNames(w, names, n) ==
    IF names = <<>> THEN w
    ELSE LET d == IF Head(names) = Anonymous THEN 0
                  ELSE StaleDepth(w.x.map, Head(names), n)
         IN  DropStaleNames(IF d = 0 THEN w
                            ELSE [w EXCEPT !.x = RollDrop(@, d, d + 1), !.drops = @ + 1],
                            Tail(names), n)

ReplaceStale(x, name) ==
    LET p == PushSlot(x, name)
        d == StaleDepth(p.map, name, 1)
    IN  IF d = 0 THEN [x |-> p, drops |-> 0] ELSE [x |-> DropStale(p, d), drops |-> 1]

Reconcile(x, name, t, e, absent, results) ==
    LET n == Len(t.map) - Len(x.map)
        thenTop == LastOf(t.map)
        elseTop == IF e.map = <<>> THEN Anonymous ELSE LastOf(e.map)
        property == thenTop \in ToSet(PropertyNames(x.contract))
        sameLayout == /\ ~absent /\ Len(e.map) - Len(x.map) = n
                      /\ TopNames(t.map, n) = TopNames(e.map, n)
                      /\ Anonymous \notin ToSet(TopNames(t.map, n))
        pushed == [i \in 1..n |-> IF TopNames(t.map, n)[i] = Anonymous THEN name
                                  ELSE TopNames(t.map, n)[i]]
        declared == AdoptResults([x |-> [x EXCEPT !.map = @ \o results], drops |-> 0,
                                  sink |-> 0], results, Len(results), Len(results))
    IN  CASE results # <<>> ->
                [x |-> SinkResults(declared.x, Len(results) + declared.sink, declared.sink),
                 drops |-> declared.drops]
          [] results = <<>> /\ n >= 2 /\ (absent \/ sameLayout) ->
                DropStaleNames([x |-> [x EXCEPT !.map = @ \o pushed], drops |-> 0],
                               [i \in 1..n |-> pushed[n + 1 - i]], n)
          [] results = <<>> /\ n >= 1 /\ ~(n >= 2 /\ (absent \/ sameLayout)) ->
                IF /\ thenTop \notin {Anonymous, name} /\ Has(x.map, thenTop)
                   /\ IF property THEN thenTop = elseTop ELSE absent
                THEN ReplaceStale(x, thenTop)
                ELSE [x |-> PushSlot(x, name), drops |-> 0]
          [] results = <<>> /\ n < 1 -> [x |-> x, drops |-> 0]

\* The parent after OP_ENDIF, from the arms as they were balanced.
MaxDepth(depths) == CHOOSE m \in depths : \A d \in depths : d <= m
CheckDepth(w, t, e) ==
    LET done == TrackDepth([w.x EXCEPT !.maxDepth = MaxDepth({@, t.maxDepth, e.maxDepth})])
    IN  IF Len(done.map) + w.drops # Len(t.map)
        THEN Fail(done, "branch result depth mismatch") ELSE done
JoinArms(x, name, v, t, e) ==
    LET if == EmitOp(x, IfOp(t.ops, e.ops))
        parent == [if EXCEPT !.map = ForgetConsumed(@, NamedSlots(x.map) \ NamedSlots(t.map)),
                             !.error = IF @ # "" THEN @ ELSE IF t.error # "" THEN t.error
                                       ELSE e.error]
    IN  CheckDepth(IF parent.error # "" THEN [x |-> parent, drops |-> 0]
                   ELSE Reconcile(parent, name, t, e, v.else = <<>>, v.results), t, e)
BalanceArms(x, name, v, t, e) ==
    JoinArms(x, name, v, BalanceThen(t, e), e)
\* Arms that declare results end with these and nothing else of their own.
TrimArms(x, name, v, t, e) ==
    LET depth == Len(x.map) - Cardinality(NamedSlots(x.map) \ NamedSlots(t.map))
                 + Len(v.results)
        Trimmed(arm) == IF v.results = <<>> THEN arm ELSE TrimToResults(arm, depth, v.results)
    IN  BalanceArms(x, name, v, Trimmed(t),
                    BalanceElse(Trimmed(t), Trimmed(e), v.else = <<>>))
DropConsumed(x, name, v, t, e) ==
    TrimArms(x, name, v, DropConsumedByOther(t, e, NamedSlots(x.map)),
             DropConsumedByOther(e, t, NamedSlots(x.map)))
LowerArms(x, name, v, i, lastUses, terminal) ==
    LET live == {r \in DOMAIN lastUses : lastUses[r] > i} \cup ToSet(v.results)
        protected == live \cap ToSet(x.map)
    IN  DropConsumed(x, name, v, LowerArm(x, v.then, protected, terminal),
                     LowerArm(x, v.else, protected, terminal))
LowerIf(x, name, v, i, lastUses, terminal) ==
    LowerArms(PopSlots(BringToTop(x, v.cond, IsLastUse(v.cond, i, lastUses)), 1),
              name, v, i, lastUses, terminal)

\* ---- loops, unrolled --------------------------------------------------------------
DropUnusedIndex(x, v) ==
    IF x.map # <<>> /\ LastOf(x.map) = v.iterVar THEN DropSlotAtDepth(x, 0) ELSE x
LowerIterations(x, v, k, outer, used) ==
    IF k = v.count \/ x.error # "" THEN x
    ELSE LET kept == IF k < v.count - 1 THEN outer ELSE used
         IN  LowerIterations(DropUnusedIndex(
                LowerEach(PushSlot(EmitOp(x, PushInt(v.start + k * v.step)), v.iterVar),
                          v.body, 1,
                          Protect(ComputeLastUses(v.body), kept, Len(v.body)), 0), v),
                v, k + 1, outer, used)

\* What the body reads from outside must outlive every iteration but the last,
\* and the last one too when the code after the loop reads it.
LowerLoop(x, v, i, lastUses) ==
    LET outer == ((RefsOf(v.body) \ DeepBindingNames(v.body))
                    \cup LoopCarriedRebinds(v.body)) \ {v.iterVar}
        used == {r \in outer \cap DOMAIN lastUses : lastUses[r] > i}
        body == LowerIterations([x EXCEPT !.locals = @ \cup
                                   {v.body[k].name : k \in DOMAIN v.body}],
                                v, 0, outer, used)
    IN  [body EXCEPT !.locals = x.locals]

LowerBinding(x, b, i, lastUses, terminal) ==
    LET v == b.value
    IN  CASE v.kind = "load_param" -> LowerLoadParam(x, b.name, v.name, i, lastUses)
          [] v.kind = "load_prop" -> LowerLoadProp(x, b.name, v.name)
          [] v.kind = "load_const" -> PushSlot(EmitOp(x, PushValue(v)), b.name)
          [] v.kind = "alias" -> LowerAlias(x, b.name, v.target, i, lastUses)
          [] v.kind = "this" -> PushSlot(EmitOp(x, PushInt(0)), b.name)
          [] v.kind = "bin_op" ->
                LowerOperation(x, b.name, <<v.left, v.right>>, BinopOpcodes(v.op), i, lastUses)
          [] v.kind = "unary_op" -> LowerUnaryOp(x, b.name, v, i, lastUses)
          [] v.kind = "call" -> LowerBuiltin(x, b.name, v.func, v.args, i, lastUses)
          [] v.kind = "method_call" -> LowerMethodCall(x, b.name, v, i, lastUses)
          [] v.kind = "if" -> LowerIf(x, b.name, v, i, lastUses, terminal)
          [] v.kind = "loop" -> LowerLoop(x, v, i, lastUses)
          [] v.kind = "assert" -> LowerAssert(x, v.value, i, lastUses, terminal)
          [] v.kind = "update_prop" -> LowerUpdateProp(x, v.name, v.value, i, lastUses)
          [] v.kind = "get_state_script" -> LowerGetStateScript(x, b.name)
          [] v.kind = "check_preimage" ->
                LowerCheckPreimage(x, b.name, v.preimage, i, lastUses)
          [] v.kind = "deserialize_state" -> LowerDeserializeState(x, v.preimage, i, lastUses)

\* ---- methods ------------------------------------------------------------------------
\* Whether the continuation needs the code part, which the spender pushes first.
MethodUsesCodePart(bindings) ==
    \E i \in DOMAIN bindings : /\ bindings[i].value.kind = "call"
                              /\ bindings[i].value.func = "computeStateOutput"

LowerStackMethod(m, contract, privates) ==
    LET params == (IF MethodUsesCodePart(m.body) THEN <<"_codePart">> ELSE <<>>)
                    \o m.params
        x == CleanupExcessStack(
                LowerBindings(StackContext(params, contract, privates), m.body, TRUE))
    IN  [name |-> m.name, ops |-> x.ops, maxStackDepth |-> x.maxDepth,
         params |-> params,
         error |-> IF x.error # "" THEN x.error
                   ELSE IF x.maxDepth > MAX_STACK_DEPTH THEN "exceeds maximum stack depth"
                   ELSE m.error]

\* Only the public methods become scripts; the private ones are inlined.
LowerToStack(anf, contract) ==
    LET public == SelectSeq(anf, LAMBDA m : m.public)
        privates == SelectSeq(anf, LAMBDA m : ~m.public)
    IN  [i \in DOMAIN public |-> LowerStackMethod(public[i], contract, privates)]
=============================================================================
