---------------------------- MODULE ContractScript ----------------------------
(***************************************************************************)
(* The bytes of a contract's locking script, from the emitter that makes   *)
(* the template (packages/runar-compiler/src/passes/06-emit.ts) to the SDK *)
(* that splices values into it, reads them back from the chain and trims   *)
(* it for signing (packages/runar-sdk/src: contract.ts, state.ts,          *)
(* script-utils.ts, slot-layout.ts).                                       *)
(*                                                                         *)
(* A script is a sequence of bytes and an offset counts bytes from 0.      *)
(***************************************************************************)
EXTENDS Integers, Sequences, SequencesExt, FiniteSets, SetSums

CONSTANTS Programs,   \* contracts as the emitter gets them: methods, parameters, fields
          Args(_),    \* the values an application gives for a type
          WordSize,   \* the bytes of an integer in the state section: 8 in the code
          NumberBytes \* the bytes of the numbers the model reads back; none are too many for the code

VARIABLES program,    \* the contract
          deployed,   \* the object that built the script
          script,     \* the locking script on chain
          loaded,     \* the object made from the script
          trimmed,    \* the call made last: its method and the offset its script is cut at
          phase

vars == <<program, deployed, script, loaded, trimmed, phase>>

\* ---- values and bytes -------------------------------------------------------------
Int_(n) == [type |-> "bigint", n |-> n]
Data(bytes) == [type |-> "data", bytes |-> bytes]
Bool(b) == [type |-> "boolean", value |-> b]

Abs_(n) == IF n < 0 THEN -n ELSE n
\* What is left of a number when its lowest bytes are taken away one by one.
LittleEndian(n, size) ==
    LET left[k \in 0..size] == IF k = 0 THEN n ELSE left[k - 1] \div 256
    IN  [i \in 1..size |-> left[i - 1] % 256]
FromLittleEndian(bytes) ==
    LET from[k \in 0..Len(bytes)] ==
            IF k = Len(bytes) THEN 0 ELSE bytes[k + 1] + 256 * from[k + 1]
    IN  from[0]
\* As many bytes as a number needs.
Magnitude[n \in Nat] == IF n = 0 THEN <<>> ELSE <<n % 256>> \o Magnitude[n \div 256]
\* Numbers of so many bytes are below it.
PowerOf256[k \in Nat] == IF k = 0 THEN 1 ELSE 256 * PowerOf256[k - 1]
WithLast(bytes, byte) == Append(Front(bytes), byte)
Concat(seqs) == FlattenSeq(seqs)
\* The part of a sequence between two offsets, cut where it ends, as slice does.
Slice(s, from, to) == SubSeq(s, from + 1, IF to < Len(s) THEN to ELSE Len(s))
Tail_(s, from) == Slice(s, from, Len(s))
\* -1, which is no byte, past the end.
ByteAt(code, offset) == IF offset < Len(code) THEN code[offset + 1] ELSE -1

\* ---- pushes -----------------------------------------------------------------------
PushHeader(size) ==
    CASE size <= 75 -> <<size>>
      [] 75 < size /\ size <= 255 -> <<76, size>>
      [] 255 < size /\ size <= 65535 -> <<77>> \o LittleEndian(size, 2)
      [] OTHER -> <<78>> \o LittleEndian(size, 4)

\* One byte that an opcode pushes is pushed by that opcode.
encodePushData(bytes) ==
    CASE bytes = <<>> -> <<0>>
      [] Len(bytes) = 1 /\ bytes[1] \in 1..16 -> <<80 + bytes[1]>>
      [] bytes = <<129>> -> <<79>>
      [] OTHER -> PushHeader(Len(bytes)) \o bytes

\* The sign is the top bit of the last byte, in a byte of its own where the
\* magnitude needs that bit.
SignMagnitude(n) ==
    LET bytes == Magnitude[Abs_(n)]
        sign == IF n < 0 THEN 128 ELSE 0
    IN  IF Last(bytes) >= 128 THEN Append(bytes, sign)
        ELSE WithLast(bytes, Last(bytes) + sign)

encodeScriptNumber(n) ==
    CASE n = 0 -> <<0>>
      [] n \in 1..16 -> <<80 + n>>
      [] n = -1 -> <<79>>
      [] OTHER -> encodePushData(SignMagnitude(n))

encodeArg(value) ==
    CASE value.type = "bigint" -> encodeScriptNumber(value.n)
      [] value.type = "boolean" -> IF value.value THEN <<81>> ELSE <<0>>
      [] value.type = "data" -> encodePushData(value.bytes)

decodeScriptNumber(bytes) ==
    IF bytes = <<>> THEN 0
    ELSE LET negative == Last(bytes) >= 128
             magnitude == FromLittleEndian(WithLast(bytes, Last(bytes) % 128))
         IN  IF negative THEN -magnitude ELSE magnitude

\* The element at an offset: its opcode, the bytes in front of its data, and its
\* length.  Lengths are below 2^31, where the code's shifts would turn negative.
LengthBytes(opcode) == CASE opcode = 76 -> 1 [] opcode = 77 -> 2 [] opcode = 78 -> 4 [] OTHER -> 0
ElementOf(code, offset, opcode, lengthBytes) ==
    [opcode |-> opcode, header |-> 1 + lengthBytes,
     length |-> 1 + lengthBytes
                + (IF lengthBytes > 0
                   THEN FromLittleEndian(Slice(code, offset + 1, offset + 1 + lengthBytes))
                   ELSE IF opcode \in 1..75 THEN opcode ELSE 0)]
Element(code, offset) ==
    ElementOf(code, offset, ByteAt(code, offset), LengthBytes(ByteAt(code, offset)))
ElementData(code, offset, e) == Slice(code, offset + e.header, offset + e.length)

\* The offset of every element, in order; an element may run past the end.
Offsets(code) ==
    LET from[o \in 0..Len(code)] ==
            IF o = Len(code) THEN <<>>
            ELSE LET next == o + Element(code, o).length
                 IN  <<o>> \o (IF next > Len(code) THEN <<>> ELSE from[next])
    IN  from[0]

\* ---- the emitter ------------------------------------------------------------------
OP_CODESEPARATOR == 171
OP_RETURN == 106
Op(byte) == [op |-> "opcode", byte |-> byte]
PushOp(value) == [op |-> "push", value |-> value]
PlaceholderOp(param) == [op |-> "placeholder", param |-> param]
PushCodesepIndexOp == [op |-> "push_codesep_index"]

NothingEmitted == [bytes |-> <<>>, slots |-> <<>>, sepSlots |-> <<>>, separators |-> <<>>]
LastSeparator(ctx) == IF ctx.separators = <<>> THEN 0 ELSE Last(ctx.separators)
emitStackOp(ctx, op) ==
    LET here == Len(ctx.bytes) IN
    CASE op.op = "opcode" ->
            [ctx EXCEPT !.bytes = Append(@, op.byte),
                        !.separators = IF op.byte = OP_CODESEPARATOR THEN Append(@, here) ELSE @]
      [] op.op = "push" -> [ctx EXCEPT !.bytes = @ \o encodeArg(op.value)]
      [] op.op = "placeholder" ->
            [ctx EXCEPT !.bytes = Append(@, 0),
                        !.slots = Append(@, [param |-> op.param, offset |-> here])]
      [] op.op = "push_codesep_index" ->
            [ctx EXCEPT !.bytes = Append(@, 0),
                        !.sepSlots = Append(@, [offset |-> here,
                                                index |-> LastSeparator(ctx)])]

\* The selector is compared with each index in turn; the last method insists on its own.
emitMethodDispatch(methods) ==
    LET Branch(i) ==
            IF i < Len(methods)
            THEN <<Op(118), PushOp(Int_(i - 1)), Op(156), Op(99), Op(117)>>
                 \o methods[i] \o <<Op(103)>>
            ELSE <<PushOp(Int_(i - 1)), Op(157)>> \o methods[i]
    IN  Concat([i \in DOMAIN methods |-> Branch(i)])
        \o [i \in 1..(Len(methods) - 1) |-> Op(104)]
emit(methods) ==
    LET ops == IF Len(methods) = 1 THEN methods[1] ELSE emitMethodDispatch(methods)
        upTo[k \in 0..Len(ops)] ==
            IF k = 0 THEN NothingEmitted ELSE emitStackOp(upTo[k - 1], ops[k])
    IN  upTo[Len(ops)]

\* What the compiler lets through: its opcodes push no data and end no script.
Byte == 0..255
Value == [type : {"bigint"}, n : Int] \cup [type : {"boolean"}, value : BOOLEAN]
         \cup [type : {"data"}, bytes : Seq(Byte)]
Ops(params) ==
    [op : {"opcode"}, byte : Byte \ ((1..78) \cup {OP_RETURN})] \cup [op : {"push"}, value : Value]
    \cup [op : {"placeholder"}, param : DOMAIN params] \cup {PushCodesepIndexOp}
\* No string of the language the SDK is written in has room for more.
MaxLength == 2147483647
Short(value) == Len(encodeArg(value)) <= MaxLength
HasType(value, type) ==
    /\ value \in Value /\ Short(value)
    /\ value.type = IF type \in {"bigint", "boolean"} THEN type ELSE "data"
    /\ type = "Addr" => Len(value.bytes) = 20
ValidProgram(p) ==
    /\ p.stateful \in BOOLEAN
    /\ p.params \in Seq([name : STRING, type : STRING])
    /\ \A k \in DOMAIN p.params : \A value \in Args(p.params[k].type) :
          HasType(value, p.params[k].type)
    /\ p.methods \in Seq(Seq(Ops(p.params))) /\ Len(p.methods) \in 1..MaxLength
    /\ \A i \in DOMAIN p.methods : \A j \in DOMAIN p.methods[i] :
          p.methods[i][j].op = "push" => Short(p.methods[i][j].value)
    /\ p.fields \in Seq([name : STRING, type : STRING, initial : Seq(Value)])
    /\ \A i \in DOMAIN p.fields :
          IF p.fields[i].initial # <<>> THEN HasType(p.fields[i].initial[1], p.fields[i].type)
          ELSE /\ \E k \in DOMAIN p.params : p.params[k].name = p.fields[i].name
               /\ \A k \in DOMAIN p.params :
                     p.params[k].name = p.fields[i].name => p.params[k].type = p.fields[i].type

\* What the SDK gets: the template and its slots with the parameters and the fields.
Artifact(p) == [stateful |-> p.stateful, params |-> p.params, fields |-> p.fields,
                methods |-> p.methods, artifact |-> emit(p.methods)]

\* ---- the state section --------------------------------------------------------------
\* Values of these types have a width; others are framed by their length.
Width(type) == CASE type = "bigint" -> WordSize [] type = "boolean" -> 1 [] type = "Addr" -> 20
                 [] OTHER -> 0

Fits(n) == Abs_(n) < 128 * PowerOf256[WordSize - 1]
encodeNum2Bin(n) ==
    LET bytes == LittleEndian(Abs_(n), WordSize)
    IN  IF n < 0 /\ Last(bytes) < 128 THEN WithLast(bytes, Last(bytes) + 128) ELSE bytes
encodeStateValue(value, type) ==
    CASE type = "bigint" -> encodeNum2Bin(value.n)
      [] type = "boolean" -> IF value.value THEN <<1>> ELSE <<0>>
      [] type = "Addr" -> value.bytes
      [] OTHER -> PushHeader(Len(value.bytes)) \o value.bytes
\* A number outside the word throws.
Serializable(fields, state) ==
    \A i \in DOMAIN fields : fields[i].type = "bigint" => Fits(state[i].n)
serializeState(fields, state) ==
    Concat([i \in DOMAIN fields |-> encodeStateValue(state[i], fields[i].type)])

\* One field at an offset: where the next one starts, or -1 for what is truncated or
\* no push.
FieldEnd(blob, offset, type, e) ==
    LET end == IF Width(type) > 0 THEN offset + Width(type) ELSE offset + e.length
    IN  IF end <= Len(blob) /\ (Width(type) > 0 \/ e.opcode \in 0..78) THEN end ELSE -1
decodeStateValue(bytes, type) ==
    CASE type = "bigint" -> Int_(decodeScriptNumber(bytes))
      [] type = "boolean" -> Bool(bytes # <<0>>)
      [] type = "Addr" -> Data(bytes)
      [] OTHER -> Data(ElementData(bytes, 0, Element(bytes, 0)))

\* Mutant: what is left over is ignored.
PrefixConsumed(read, blob) == read.ok
\* Nothing may follow the last field.
Consumed(read, blob) == read.ok /\ read.offset = Len(blob)

\* The fields' values, if the section holds exactly the fields.
ReadField(read, blob, type, end) ==
    IF end = -1 THEN [read EXCEPT !.ok = FALSE]
    ELSE [ok |-> TRUE, offset |-> end,
          state |-> Append(read.state, decodeStateValue(Slice(blob, read.offset, end), type))]
deserializeState(fields, blob) ==
    LET after[i \in 0..Len(fields)] ==
            IF i = 0 THEN [ok |-> TRUE, offset |-> 0, state |-> <<>>]
            ELSE LET read == after[i - 1]
                     type == fields[i].type
                 IN  IF read.ok
                     THEN ReadField(read, blob, type,
                              FieldEnd(blob, read.offset, type, Element(blob, read.offset)))
                     ELSE read
        Outcome(read) == [ok |-> Consumed(read, blob), state |-> read.state]
    IN  Outcome(after[Len(fields)])

\* Mutant: the last byte with the opcode's value, in a push or not.
LastReturnByte(code) ==
    LET found == {o \in 0..(Len(code) - 1) : code[o + 1] = OP_RETURN}
    IN  CHOOSE o \in found \cup {-1} : \A other \in found : other <= o
\* The offset of the first element from one on that is an OP_RETURN, or -1.
ReturnFrom(code) ==
    LET from[o \in 0..Len(code)] ==
            IF ByteAt(code, o) = OP_RETURN THEN o
            ELSE LET next == o + Element(code, o).length
                 IN  IF next > Len(code) THEN -1 ELSE from[next]
    IN  from
\* Of the OP_RETURN in front of the state: what is behind it is no code.
findLastOpReturn(code) == ReturnFrom(code)[0]
\* Of every separator that is no data.
findCodesepOffsets(code) ==
    SelectSeq(Offsets(code), LAMBDA o : code[o + 1] = OP_CODESEPARATOR)

\* ---- splicing values into the template ----------------------------------------------
Expansion(bytes) == Len(bytes) - 1   \* what replaces a placeholder, less its byte

ShiftBefore(subs, offset) ==
    Sum([i \in DOMAIN subs |-> Expansion(subs[i].bytes)],
        {i \in DOMAIN subs : subs[i].offset < offset})
ConstructorSubs(artifact, args) ==
    [i \in DOMAIN artifact.slots |-> [offset |-> artifact.slots[i].offset,
                                     bytes |-> encodeArg(args[artifact.slots[i].param])]]
\* Mutant: the slots before the separator move nothing.
ShiftedByArgumentsOnly(artifact, args) ==
    [i \in DOMAIN artifact.sepSlots |->
        [offset |-> artifact.sepSlots[i].offset,
         bytes |-> encodeScriptNumber(artifact.sepSlots[i].index
                     + ShiftBefore(ConstructorSubs(artifact, args), artifact.sepSlots[i].index))]]
\* The slots for a separator's index, left to right: each holds the offset that the
\* arguments and the slots before the separator leave it.
resolvedCodeSepSlotValues(artifact, args) ==
    LET Resolve(slot, before) ==
            [offset |-> slot.offset,
             bytes |-> encodeScriptNumber(
                           slot.index + ShiftBefore(ConstructorSubs(artifact, args), slot.index)
                                      + ShiftBefore(before, slot.index))]
        upTo[k \in 0..Len(artifact.sepSlots)] ==
            IF k = 0 THEN <<>>
            ELSE Append(upTo[k - 1], Resolve(artifact.sepSlots[k], upTo[k - 1]))
    IN  upTo[Len(artifact.sepSlots)]
collectSubstitutions(artifact, args) ==
    ConstructorSubs(artifact, args) \o resolvedCodeSepSlotValues(artifact, args)
\* Mutant: only the arguments move a separator.
AdjustByArgumentsOnly(artifact, args, offset) ==
    offset + ShiftBefore(ConstructorSubs(artifact, args), offset)
adjustCodeSepOffset(artifact, args, offset) ==
    offset + ShiftBefore(collectSubstitutions(artifact, args), offset)

\* From the last placeholder to the first, so that no splice moves one still to come.
Splice(code, subs) ==
    LET Replace(sub, rest) ==
            Slice(rest, 0, sub.offset) \o sub.bytes \o Tail_(rest, sub.offset + 1)
        FirstOf(S) == CHOOSE i \in S : \A j \in S : subs[i].offset <= subs[j].offset
        spliced[S \in SUBSET DOMAIN subs] ==
            IF S = {} THEN code ELSE Replace(subs[FirstOf(S)], spliced[S \ {FirstOf(S)}])
    IN  spliced[DOMAIN subs]
\* A contract without slots and state has its arguments behind its code.
buildCodeScript(p, args) ==
    LET subs == collectSubstitutions(p.artifact, args) IN
    CASE subs # <<>> -> Splice(p.artifact.bytes, subs)
      [] subs = <<>> /\ p.fields = <<>> ->
            p.artifact.bytes \o Concat([i \in DOMAIN args |-> encodeArg(args[i])])
      [] OTHER -> p.artifact.bytes

\* ---- the contract object --------------------------------------------------------------
\* Its constructor: a field starts as its initial value or as the argument of its name.
NewContract(p, args) ==
    LET Param(name) == CHOOSE k \in DOMAIN p.params : p.params[k].name = name
        Start(field) == IF field.initial # <<>> THEN field.initial[1] ELSE args[Param(field.name)]
    IN  [args |-> args, state |-> [i \in DOMAIN p.fields |-> Start(p.fields[i])],
         fromChain |-> FALSE, codeScript |-> <<>>]

getCodePartHex(p, object) ==
    IF object.fromChain THEN object.codeScript ELSE buildCodeScript(p, object.args)
getLockingScript(p, object) ==
    getCodePartHex(p, object)
    \o (IF p.fields = <<>> THEN <<>> ELSE <<OP_RETURN>> \o serializeState(p.fields, object.state))

\* Mutant: the state stays with the code.
WholeScript(p, code) == code
CutAt(code, offset) == IF offset = -1 THEN code ELSE Slice(code, 0, offset)
CodePart(p, code) ==
    IF p.fields # <<>> THEN CutAt(code, findLastOpReturn(code)) ELSE code

\* A number of more than NumberBytes bytes stands for its bytes.
interpretScriptElement(opcode, data, type) ==
    CASE type = "bigint" /\ Len(data) <= NumberBytes ->
            Int_(CASE opcode \in 81..96 -> opcode - 80
                   [] opcode = 79 -> -1
                   [] OTHER -> decodeScriptNumber(data))
      [] type = "bigint" /\ Len(data) > NumberBytes -> [type |-> "bigint", bytes |-> data]
      [] OTHER -> Data(CASE opcode \in 81..96 -> <<opcode - 80>>
                         [] opcode = 79 -> <<129>>
                         [] OTHER -> data)
ReadArgument(code, offset, e, type) ==
    interpretScriptElement(e.opcode, ElementData(code, offset, e), type)
WithArgument(args, param, value) ==
    [k \in DOMAIN args \cup {param} |-> IF k = param THEN value ELSE args[k]]
\* Mutant: only a parameter's first slot moves the ones behind it.
ReadFirstSlots(read, code, param, type, offset, e) ==
    IF param \in DOMAIN read.args THEN read
    ELSE [shift |-> read.shift + e.length - 1,
          args |-> WithArgument(read.args, param, ReadArgument(code, offset, e, type))]
\* The arguments read back from their slots; every slot moves the ones behind it, and
\* a parameter has the value of its first.
ReadSlot(read, code, param, type, offset, e) ==
    [shift |-> read.shift + e.length - 1,
     args |-> IF param \in DOMAIN read.args THEN read.args
              ELSE WithArgument(read.args, param, ReadArgument(code, offset, e, type))]
extractConstructorArgs(p, code) ==
    LET slots == p.artifact.slots
        Read(read, slot) ==
            ReadSlot(read, code, slot.param, p.params[slot.param].type, slot.offset + read.shift,
                     Element(code, slot.offset + read.shift))
        after[k \in 0..Len(slots)] ==
            IF k = 0 THEN [shift |-> 0, args |-> [x \in {} |-> 0]]
            ELSE Read(after[k - 1], slots[k])
    IN  after[Len(slots)].args
Restored(params, extracted) ==
    [k \in DOMAIN params |-> IF k \in DOMAIN extracted THEN extracted[k] ELSE Int_(0)]
restoreConstructorArgs(p, code) == Restored(p.params, extractConstructorArgs(p, code))

\* What fromUtxo makes of a script; "ok" is FALSE where it throws.
extractStateFromScript(p, code, opReturn) ==
    IF p.fields = <<>> THEN [ok |-> TRUE, state |-> <<>>]
    ELSE IF opReturn = -1 THEN [ok |-> FALSE, state |-> <<>>]
    ELSE deserializeState(p.fields, Tail_(code, opReturn + 1))
FromScript(p, code, part, read) ==
    [ok |-> read.ok, args |-> restoreConstructorArgs(p, part), state |-> read.state,
     fromChain |-> TRUE, codeScript |-> part]
fromUtxo(p, code) ==
    FromScript(p, code, CodePart(p, code),
               extractStateFromScript(p, code, findLastOpReturn(code)))

\* The code between the slots is the template's, and so is the rest behind them.
MatchSegment(read, code, segment, offset) ==
    LET end == read.code + Len(segment)
    IN  [ok |-> read.ok /\ Slice(code, read.code, end) = segment,
         template |-> offset + 1, code |-> end + Element(code, end).length]
MatchesTemplate(artifact, code) ==
    LET slots == artifact.slots
        Match(read, offset) ==
            MatchSegment(read, code, Slice(artifact.bytes, read.template, offset), offset)
        after[k \in 0..Len(slots)] ==
            IF k = 0 THEN [ok |-> TRUE, template |-> 0, code |-> 0]
            ELSE Match(after[k - 1], slots[k].offset)
        Rest(read) == read.ok /\ Tail_(artifact.bytes, read.template) = Tail_(code, read.code)
    IN  Rest(after[Len(slots)])
matchesArtifact(p, code) == MatchesTemplate(p.artifact, CodePart(p, code))

\* ---- the slot layout ------------------------------------------------------------------
\* Mutant: a push has one byte in front of its data.
OneHeaderByte(bytes, type) == IF bytes[1] \in 1..78 THEN 1 ELSE 0
\* How long the push header in front of an argument's value is.  A number may be pushed
\* by an opcode that is the value; data is taken to have a header unless it is empty.
PushHeaderBytes(bytes, type) ==
    CASE type = "boolean" \/ bytes[1] = 0 -> 0
      [] type = "bigint" /\ bytes[1] \in {79} \cup (81..96) -> 0
      [] type # "boolean" /\ bytes[1] \in 1..75 -> 1
      [] type # "boolean" /\ bytes[1] = 76 -> 2
      [] type # "boolean" /\ bytes[1] = 77 -> 3
      [] OTHER -> 5
RangeOf(param, sub, subs, header) ==
    [param |-> param, valueOffset |-> sub.offset + ShiftBefore(subs, sub.offset) + header,
     valueLength |-> Len(sub.bytes) - header]
Ranges(slots, args, subs) ==
    [i \in DOMAIN slots |->
        RangeOf(slots[i].param, subs[i], subs,
                PushHeaderBytes(subs[i].bytes, args[slots[i].param].type))]
resolveSlotLayout(artifact, args) ==
    Ranges(artifact.slots, args, collectSubstitutions(artifact, args))
buildResolvedCodeHex(artifact, args) ==
    Splice(artifact.bytes, collectSubstitutions(artifact, args))
\* The code without the values, which are taken out from the last to the first.
Excise(range, code) ==
    Slice(code, 0, range.valueOffset) \o Tail_(code, range.valueOffset + range.valueLength)
ExcisedTemplate(artifact, args) ==
    LET layout == resolveSlotLayout(artifact, args)
        code == buildResolvedCodeHex(artifact, args)
        upFrom[k \in 0..Len(layout)] ==
            IF k = Len(layout) THEN code ELSE Excise(layout[k + 1], upFrom[k + 1])
    IN  upFrom[0]

\* ---- separators -----------------------------------------------------------------------
\* The offset of the separator the SDK takes for the method of an index, or -1.  An
\* object from the chain looks in the script, any other computes it from its arguments.
SeparatorFor(artifact, object, index, found) ==
    LET InRange(seps) == index <= Len(seps) IN
        CASE artifact.separators = <<>> -> -1
          [] found # <<>> -> IF InRange(artifact.separators) /\ InRange(found)
                             THEN found[index] ELSE found[1]
          [] OTHER -> adjustCodeSepOffset(artifact, object.args,
                          IF InRange(artifact.separators) THEN artifact.separators[index]
                          ELSE Last(artifact.separators))
SeparatorOffset(p, object, index) ==
    SeparatorFor(p.artifact, object, index,
                 IF object.fromChain THEN findCodesepOffsets(object.codeScript) ELSE <<>>)

\* prepareCall counts the methods of a contract with state only; call trims the script
\* for a signature in every stateful contract.
Trim(p, object, method) ==
    [method |-> method,
     preimage |-> SeparatorOffset(p, object, IF p.fields # <<>> THEN method ELSE 1),
     signature |-> IF p.stateful THEN SeparatorOffset(p, object, method) ELSE -1]

-----------------------------------------------------------------------------
NoTrim == [method |-> 0]
NoObject == [ok |-> FALSE]

ArgLists(params) ==
    LET upTo[k \in 0..Len(params)] ==
            IF k = 0 THEN {<<>>}
            ELSE {Append(list, v) : list \in upTo[k - 1], v \in Args(params[k].type)}
    IN  upTo[Len(params)]

\* The offset of a separator is that of a byte of the script.
ShortIndices(artifact) ==
    \A args \in ArgLists(artifact.params) :
        \A i \in DOMAIN artifact.artifact.sepSlots :
            Len(resolvedCodeSepSlotValues(artifact.artifact, args)[i].bytes) <= MaxLength
ASSUME ProgramsAssumption == \A p \in Programs : ValidProgram(p) /\ ShortIndices(Artifact(p))
ASSUME WordAssumption == WordSize \in Nat \ {0}
ASSUME NumberAssumption == NumberBytes \in Nat

Init == /\ program \in {Artifact(p) : p \in Programs}
        /\ \E args \in ArgLists(program.params) : deployed = NewContract(program, args)
        /\ script = <<>> /\ loaded = NoObject /\ trimmed = NoTrim /\ phase = "new"

\* An integer too large for its word throws.
Deploy ==
    /\ phase = "new"
    /\ IF Serializable(program.fields, deployed.state)
       THEN phase' = "deployed" /\ script' = getLockingScript(program, deployed)
       ELSE phase' = "refused" /\ UNCHANGED script
    /\ UNCHANGED <<program, deployed, loaded, trimmed>>

\* The state section arrives with bytes missing or with one more.
Corrupt ==
    /\ phase = "deployed" /\ program.fields # <<>>
    /\ \E kept \in findLastOpReturn(script)..(Len(script) - 1), more \in {<<>>, <<0>>, <<1>>} :
        /\ more # <<>> => kept = Len(script) - 1
        /\ script' = IF more = <<>> THEN Slice(script, 0, kept) ELSE script \o more
    /\ phase' = "corrupt"
    /\ UNCHANGED <<program, deployed, loaded, trimmed>>

Load ==
    /\ phase \in {"deployed", "corrupt"}
    /\ loaded' = fromUtxo(program, script)
    /\ phase' = IF phase = "corrupt" THEN "loaded corrupt" ELSE "loaded"
    /\ UNCHANGED <<program, deployed, script, trimmed>>

\* A call through the object that deployed the script, or through one that loaded it.
Call ==
    /\ phase \in {"deployed", "loaded"}
    /\ \E method \in DOMAIN program.methods :
        trimmed' = Trim(program, IF phase = "loaded" THEN loaded ELSE deployed, method)
    /\ phase' = "called"
    /\ UNCHANGED <<program, deployed, script, loaded>>

Next == Deploy \/ Corrupt \/ Load \/ Call
Spec == Init /\ [][Next]_vars

-----------------------------------------------------------------------------
\* The state survives the script: an object made from it (fromUtxo) holds the state,
\* the code part and the locking script of the object that deployed it, whatever the
\* lengths of the values and whatever bytes they contain.
StateRestored ==
    phase = "loaded" =>
        /\ loaded.ok /\ loaded.state = deployed.state
        /\ loaded.codeScript = getCodePartHex(program, deployed)
        /\ getLockingScript(program, loaded) = script

\* So do the arguments that were spliced into the code (extractConstructorArgs: "reads
\* the push data, and deserializes according to the ABI param type").
Slotted(p) == {p.artifact.slots[i].param : i \in DOMAIN p.artifact.slots}
ArgsRestored ==
    phase = "loaded" => \A k \in Slotted(program) : loaded.args[k] = deployed.args[k]

\* ... where the script tells them from each other: no separator's index is spliced
\* into the code, no boolean (read back as data, see README) and no number larger than
\* the model reads.
ReadsBack(value) ==
    /\ value.type # "boolean"
    /\ value.type = "bigint" => Len(encodeArg(value)) <= NumberBytes
ArgsRestoredPlain ==
    program.artifact.sepSlots = <<>> /\ (\A k \in Slotted(program) : ReadsBack(deployed.args[k]))
        => ArgsRestored

\* The artifact recognizes its own scripts (matchesArtifact: "regardless of what
\* constructor args were used") where no separator's index is spliced into the code and
\* no argument stands behind it (see README).
Recognized == phase = "loaded" => matchesArtifact(program, script)
Appended(p) == p.artifact.slots = <<>> /\ p.fields = <<>> /\ p.params # <<>>
RecognizedPlain == program.artifact.sepSlots = <<>> /\ ~Appended(program) => Recognized

\* A state section with bytes missing or left over is refused (deserializeState:
\* "FAILS CLOSED").
FailsClosed == phase = "loaded corrupt" => ~loaded.ok

\* What the script machine does: a method's separator is the first in its code, the
\* one after those of the methods before it.
Separators(ops) == Len(SelectSeq(ops, LAMBDA op : op = Op(OP_CODESEPARATOR)))
ExecutedSeparator(method) ==
    LET before == Sum([i \in 1..(method - 1) |-> Separators(program.methods[i])], 1..(method - 1))
    IN  IF Separators(program.methods[method]) = 0 THEN -1
        ELSE findCodesepOffsets(CodePart(program, script))[before + 1]
\* Preimage and signature are made over the script behind the separator that the
\* called method executes (computeOpPushTxWithCodeSep: "For multi-method contracts,
\* each method has its own separator at a different byte offset").
TrimmedWhereExecuted ==
    phase = "called" =>
        LET separator == ExecutedSeparator(trimmed.method)
        IN  /\ separator # -1 => trimmed.preimage = separator
            /\ program.stateful => trimmed.signature = separator

\* A method that rebuilds its own script pushes the offset of its own separator, in
\* the script as it was deployed (06-emit.ts push_codesep_index).
IndicesPushed ==
    phase = "deployed" =>
        LET artifact == program.artifact
            subs == collectSubstitutions(artifact, deployed.args)
            Pushed(slot) ==
                LET at == slot.offset + ShiftBefore(subs, slot.offset)
                IN  ReadArgument(script, at, Element(script, at), "bigint").n
            real == findCodesepOffsets(CodePart(program, script))
        IN  \A i \in DOMAIN artifact.sepSlots :
              \E k \in DOMAIN real : /\ artifact.separators[k] = artifact.sepSlots[i].index
                                    /\ Pushed(artifact.sepSlots[i]) = real[k]

\* The layout a verifier is given points at the values (slot-layout.ts): each range
\* holds its argument's own bytes, and the code without them is the same for all
\* arguments that have values of these lengths at these offsets (computeTemplateHash:
\* "the template identity a companion-input verifier checks").
PushedByOpcode(value) == Len(encodeArg(value)) = 1
ValueBytes(value) ==
    CASE PushedByOpcode(value) -> encodeArg(value)
      [] ~PushedByOpcode(value) /\ value.type = "data" -> value.bytes
      [] ~PushedByOpcode(value) /\ value.type = "bigint" -> SignMagnitude(value.n)
HoldsValue(range) ==
    Slice(script, range.valueOffset, range.valueOffset + range.valueLength)
        = ValueBytes(deployed.args[range.param])
TemplateIdentity(layout, excised) ==
    \A args \in ArgLists(program.params) :
        resolveSlotLayout(program.artifact, args) = layout
            => ExcisedTemplate(program.artifact, args) = excised
LayoutRight ==
    phase = "deployed" =>
        /\ \A i \in DOMAIN program.artifact.slots :
              HoldsValue(resolveSlotLayout(program.artifact, deployed.args)[i])
        /\ TemplateIdentity(resolveSlotLayout(program.artifact, deployed.args),
                            ExcisedTemplate(program.artifact, deployed.args))
\* ... unless an argument is a byte that an opcode pushes (classifyEncoded takes the
\* opcode for that of a push with a header of five bytes).
ByteByOpcode(value) == value.type = "data" /\ value.bytes # <<>> /\ PushedByOpcode(value)
LayoutRightFramed == (\A k \in Slotted(program) : ~ByteByOpcode(deployed.args[k])) => LayoutRight
=============================================================================
