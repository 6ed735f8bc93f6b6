------------------------------- MODULE ScriptVM -------------------------------
(***************************************************************************)
(* The script machine of packages/runar-testing/src/vm/script-vm.ts: it    *)
(* runs the spender's script, then the contract's on the stack the first   *)
(* one left, one chunk per step, under a bound on operations and depth.    *)
(* What an opcode does is the business of the engine it drives, modelled   *)
(* here from the public meaning of the opcodes.                            *)
(*                                                                         *)
(* A stack item is a sequence of tokens: the number 0 and the empty string *)
(* are <<>>, another number n is <<<<"num", n>>>>, and the other tokens    *)
(* are opaque pieces of byte strings, so that OP_CAT is concatenation and  *)
(* a number read from any of those is refused.                             *)
(***************************************************************************)
EXTENDS Peephole

MaxStackSize == 1000
MaxOps == 500000

Item(n) == IF n = 0 THEN <<>> ELSE << <<"num", n>> >>
IsNum(item) == item = <<>> \/ (Len(item) = 1 /\ item[1][1] = "num")
NumOf(item) == IF item = <<>> THEN 0 ELSE item[1][2]
IsTruthy(item) == item # <<>>
Token(t) == << t >>
Preimage(state, outputs, flag, genuine) ==
    Token(<<"preimage", state, outputs, flag, genuine>>)
IsPreimage(item) == Len(item) = 1 /\ item[1][1] = "preimage"
Hash(item) == Token(<<"hash", item>>)

LoadVM(unlocking, locking) ==
    [context |-> "unlocking", unlocking |-> unlocking, locking |-> locking, pc |-> 1,
     stack |-> <<>>, alt |-> <<>>, ifStack |-> <<>>, opsExecuted |-> 0,
     maxStackDepth |-> 0, error |-> "", complete |-> FALSE, success |-> FALSE]

\* ---- the engine ---------------------------------------------------------------
Depth(vm) == Len(vm.stack)
\* Item n from the top, 0 the top.
Peek(vm, n) == vm.stack[Depth(vm) - n]
VMFail(vm, what) == [vm EXCEPT !.error = what]
Replace(vm, n, items) ==
    [vm EXCEPT !.stack = SubSeq(@, 1, Len(@) - n) \o items]

\* Numbers under the opcode, the deepest first; k of them.
Operands(vm, k) == [i \in 1..k |-> NumOf(Peek(vm, k - i))]
AreNums(vm, k) == \A i \in 0..(k - 1) : IsNum(Peek(vm, i))
Arity == [ OP_ADD |-> 2, OP_SUB |-> 2, OP_MUL |-> 2, OP_DIV |-> 2, OP_MOD |-> 2,
           OP_NUMEQUAL |-> 2, OP_LESSTHAN |-> 2, OP_LESSTHANOREQUAL |-> 2,
           OP_GREATERTHAN |-> 2, OP_GREATERTHANOREQUAL |-> 2, OP_BOOLAND |-> 2,
           OP_BOOLOR |-> 2, OP_MIN |-> 2, OP_MAX |-> 2, OP_WITHIN |-> 3, OP_NOT |-> 1,
           OP_NEGATE |-> 1, OP_ABS |-> 1, OP_1ADD |-> 1, OP_1SUB |-> 1,
           EC_ADD |-> 2, EC_MUL |-> 2, EC_MUL_GEN |-> 1, EC_NEGATE |-> 1 ]
NumericResult(code, n) ==
    CASE code = "OP_ADD" -> n[1] + n[2] [] code = "OP_SUB" -> n[1] - n[2]
      [] code = "OP_MUL" -> n[1] * n[2] [] code = "OP_DIV" -> TruncDiv(n[1], n[2])
      [] code = "OP_MOD" -> TruncMod(n[1], n[2])
      [] code = "OP_NUMEQUAL" -> Truth(n[1] = n[2])
      [] code = "OP_LESSTHAN" -> Truth(n[1] < n[2])
      [] code = "OP_LESSTHANOREQUAL" -> Truth(n[1] <= n[2])
      [] code = "OP_GREATERTHAN" -> Truth(n[1] > n[2])
      [] code = "OP_GREATERTHANOREQUAL" -> Truth(n[1] >= n[2])
      [] code = "OP_BOOLAND" -> Truth(n[1] # 0 /\ n[2] # 0)
      [] code = "OP_BOOLOR" -> Truth(n[1] # 0 \/ n[2] # 0)
      [] code = "OP_MIN" -> IF n[1] < n[2] THEN n[1] ELSE n[2]
      [] code = "OP_MAX" -> IF n[1] > n[2] THEN n[1] ELSE n[2]
      [] code = "OP_WITHIN" -> Truth(n[1] >= n[2] /\ n[1] < n[3])
      [] code = "OP_NOT" -> Truth(n[1] = 0) [] code = "OP_NEGATE" -> -n[1]
      [] code = "OP_ABS" -> Abs(n[1])
      [] code = "OP_1ADD" -> n[1] + 1 [] code = "OP_1SUB" -> n[1] - 1
      [] code = "EC_ADD" -> CurveValue("ecAdd", n)
      [] code = "EC_MUL" -> CurveValue("ecMul", n)
      [] code = "EC_MUL_GEN" -> CurveValue("ecMulGen", n)
      [] code = "EC_NEGATE" -> CurveValue("ecNegate", n)

NumericOp(vm, code) ==
    LET k == Arity[code]
    IN  CASE Depth(vm) < k -> VMFail(vm, "stack underflow")
          [] ~AreNums(vm, k) -> VMFail(vm, "not a number")
          [] code \in {"OP_DIV", "OP_MOD"} /\ NumOf(Peek(vm, 0)) = 0 ->
                VMFail(vm, "division by zero")
          [] OTHER -> Replace(vm, k, <<Item(NumericResult(code, Operands(vm, k)))>>)

\* pops items, pushes others; the guard is that they are there.
Shuffle(vm, n, items(_)) ==
    IF Depth(vm) < n THEN VMFail(vm, "stack underflow") ELSE Replace(vm, n, items(vm))
VerifyOp(vm, n, holds(_)) ==
    CASE Depth(vm) < n -> VMFail(vm, "stack underflow")
      [] holds(vm) -> Replace(vm, n, <<>>)
      [] OTHER -> VMFail(vm, "verify")
RollOrPick(vm, roll) ==
    LET n == NumOf(Peek(vm, 0))
        v == Replace(vm, 1, <<>>)
    IN  IF Depth(vm) < 1 \/ ~IsNum(Peek(vm, 0)) \/ n \notin 0..(Depth(vm) - 2)
        THEN VMFail(vm, "stack underflow")
        ELSE [v EXCEPT !.stack = Append(IF roll THEN RemoveSlot(@, n) ELSE @, Peek(v, n))]

ByteOp(vm, code) ==
    CASE code = "OP_CAT" -> Shuffle(vm, 2, LAMBDA v : <<Peek(v, 1) \o Peek(v, 0)>>)
      [] code = "OP_EQUAL" ->
            Shuffle(vm, 2, LAMBDA v : <<Item(Truth(Peek(v, 0) = Peek(v, 1)))>>)
      [] code = "OP_HASH256" -> Shuffle(vm, 1, LAMBDA v : <<Hash(Peek(v, 0))>>)
      [] code = "OP_NUM2BIN" ->
            IF Depth(vm) < 2 \/ ~IsNum(Peek(vm, 1)) THEN VMFail(vm, "not a number")
            ELSE Replace(vm, 2, <<Token(<<"word", NumOf(Peek(vm, 1))>>)>>)
      [] code = "OP_TOALTSTACK" ->
            IF Depth(vm) < 1 THEN VMFail(vm, "stack underflow")
            ELSE [Replace(vm, 1, <<>>) EXCEPT !.alt = Append(@, Peek(vm, 0))]
      [] code = "OP_FROMALTSTACK" ->
            IF vm.alt = <<>> THEN VMFail(vm, "stack underflow")
            ELSE [vm EXCEPT !.stack = Append(@, LastOf(vm.alt)),
                            !.alt = SubSeq(@, 1, Len(@) - 1)]
      [] code = "OP_CODESEPARATOR" -> vm
      \* The compiler's splits of the preimage.
      [] Depth(vm) < 1 \/ ~IsPreimage(Peek(vm, 0)) -> VMFail(vm, "not a preimage")
      \* The binding leaves the preimage where it is: its signature check aborts
      \* unless the preimage is this transaction's, under the flag ALL|FORKID.
      [] code = "CHECK_PREIMAGE" ->
            IF Peek(vm, 0)[1][5] /\ Peek(vm, 0)[1][4] = 1 THEN vm ELSE VMFail(vm, "verify")
      [] code = "EXTRACT_SIGHASH_TYPE" -> Replace(vm, 1, <<Item(Peek(vm, 0)[1][4])>>)
      [] code = "EXTRACT_OUTPUT_HASH" -> Replace(vm, 1, <<Peek(vm, 0)[1][3]>>)

Execute(vm, o) ==
    CASE o.op = "push" -> Replace(vm, 0, <<Item(o.value)>>)
      [] o.op = "data" -> Replace(vm, 0, <<o.item>>)
      [] o.op = "dup" -> Shuffle(vm, 1, LAMBDA v : <<Peek(v, 0), Peek(v, 0)>>)
      [] o.op = "drop" -> Shuffle(vm, 1, LAMBDA v : <<>>)
      [] o.op = "nip" -> Shuffle(vm, 2, LAMBDA v : <<Peek(v, 0)>>)
      [] o.op = "over" -> Shuffle(vm, 2, LAMBDA v : <<Peek(v, 1), Peek(v, 0), Peek(v, 1)>>)
      [] o.op = "swap" -> Shuffle(vm, 2, LAMBDA v : <<Peek(v, 0), Peek(v, 1)>>)
      [] o.op = "rot" -> Shuffle(vm, 3, LAMBDA v : <<Peek(v, 1), Peek(v, 0), Peek(v, 2)>>)
      [] o.op = "roll" -> RollOrPick(vm, TRUE)
      [] o.op = "pick" -> RollOrPick(vm, FALSE)
      [] o.op = "deserialize" ->
            IF Depth(vm) < 1 \/ ~IsPreimage(Peek(vm, 0)) THEN VMFail(vm, "not a preimage")
            ELSE Replace(vm, 1, [i \in 1..o.count |-> Item(Peek(vm, 0)[1][2][i])])
      [] o.op = "opcode" ->
            CASE o.code = "OP_2DUP" -> Shuffle(vm, 2, LAMBDA v : <<Peek(v, 1), Peek(v, 0),
                                                                  Peek(v, 1), Peek(v, 0)>>)
              [] o.code = "OP_2DROP" -> Shuffle(vm, 2, LAMBDA v : <<>>)
              [] o.code = "OP_VERIFY" -> VerifyOp(vm, 1, LAMBDA v : IsTruthy(Peek(v, 0)))
              [] o.code \in {"OP_EQUALVERIFY", "OP_NUMEQUALVERIFY"} ->
                    VerifyOp(vm, 2, LAMBDA v : Peek(v, 0) = Peek(v, 1))
              [] o.code \in DOMAIN Arity -> NumericOp(vm, o.code)
              [] OTHER -> ByteOp(vm, o.code)

\* Conditionals: every open OP_IF has an entry, the arm being run or not.
IsFlow(o) == o.op = "opcode" /\ o.code \in {"OP_IF", "OP_ELSE", "OP_ENDIF"}
Executing(vm) == \A i \in DOMAIN vm.ifStack : vm.ifStack[i]
FlowOp(vm, code) ==
    CASE code = "OP_IF" /\ ~Executing(vm) -> [vm EXCEPT !.ifStack = Append(@, FALSE)]
      [] code = "OP_IF" /\ Executing(vm) ->
            IF Depth(vm) < 1 THEN VMFail(vm, "stack underflow")
            ELSE [Replace(vm, 1, <<>>) EXCEPT !.ifStack = Append(@, IsTruthy(Peek(vm, 0)))]
      [] vm.ifStack = <<>> -> VMFail(vm, "unbalanced conditional")
      [] code = "OP_ELSE" -> [vm EXCEPT !.ifStack[Len(vm.ifStack)] = ~@]
      [] code = "OP_ENDIF" -> [vm EXCEPT !.ifStack = SubSeq(@, 1, Len(@) - 1)]

\* ---- the machine ----------------------------------------------------------------
Chunks(vm) == IF vm.context = "unlocking" THEN vm.unlocking ELSE vm.locking
\* The chunk to execute next, the switch to the contract's script made.
PeekPosition(vm) ==
    IF vm.context = "unlocking" /\ vm.pc > Len(vm.unlocking)
    THEN [vm EXCEPT !.context = "locking", !.pc = 1] ELSE vm
Counts(o) == o.op \notin {"push", "data"}

CountOp(vm, o) ==
    LET n == vm.opsExecuted + Truth(Counts(o))
    IN  IF n > MaxOps THEN VMFail(vm, "operation limit") ELSE [vm EXCEPT !.opsExecuted = n]
AfterStep(vm) ==
    LET d == Len(vm.stack) + Len(vm.alt)
        v == [vm EXCEPT !.maxStackDepth = IF d > @ THEN d ELSE @]
    IN  IF vm.error # "" THEN vm
        ELSE IF d > MaxStackSize THEN VMFail(v, "stack size limit") ELSE v

StepVM(vm0) ==
    LET vm == PeekPosition(vm0)
        o == Chunks(vm)[vm.pc]
        counted == CountOp(vm, o)
        next == [counted EXCEPT !.pc = @ + 1]
        done == AfterStep(CASE counted.error # "" -> counted
                            [] IsFlow(o) -> FlowOp(next, o.code)
                            [] ~Executing(vm) -> next
                            [] OTHER -> Execute(next, o))
    IN  IF vm.pc > Len(Chunks(vm))
        THEN [vm EXCEPT !.complete = TRUE,
                        !.error = IF vm.ifStack # <<>> THEN "unbalanced conditional" ELSE "",
                        !.success = /\ vm.ifStack = <<>> /\ vm.stack # <<>>
                                    /\ IsTruthy(LastOf(vm.stack))]
        ELSE IF done.error # "" THEN [done EXCEPT !.complete = TRUE] ELSE done

RECURSIVE RunUnlocking(_), RunToEnd(_)
\* Mutant: the machine stops where the spender's script ends.
RunUnlocking(vm) == IF vm.complete \/ vm.pc > Len(vm.unlocking) THEN vm
                    ELSE RunUnlocking(StepVM(vm))
RunToEnd(vm) == IF vm.complete THEN vm ELSE RunToEnd(StepVM(vm))
=============================================================================
