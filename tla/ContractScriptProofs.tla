------------------------ MODULE ContractScriptProofs ------------------------
(***************************************************************************)
(* The locking script of a contract: the state an application deployed is  *)
(* what it reads back, a damaged state section is refused, the layout of   *)
(* the slots points at the values, and an artifact recognizes its own      *)
(* scripts and reads the arguments back from them.                         *)
(*                                                                         *)
(* The argument: the emitter's output is clean between the holes it leaves *)
(* for values (Template), values are pushed cleanly, and a splice of clean *)
(* bytes into the holes is clean (SpliceClean).  So the search for the     *)
(* OP_RETURN passes all of the code, whatever bytes the values contain,    *)
(* and finds the one in front of the state (SectionFound).                 *)
(*                                                                         *)
(* Two splices that differ in one hole differ there only (SplicePair).     *)
(* Taken out from the last to the first, the values leave their headers    *)
(* (ExciseAll), and arguments of one layout have the same headers, by      *)
(* induction over the offsets (LayoutAgrees).                              *)
(*                                                                         *)
(* Spliced code is woven from the template and the pushes (SpliceWoven);   *)
(* each push is one element, which is read wherever it stands              *)
(* (PassElement), so that code is matched and read slot by slot            *)
(* (WovenMatches, WovenReads).                                             *)
(***************************************************************************)
EXTENDS ContractScriptCodec

-----------------------------------------------------------------------------
(* The emitter.                                                            *)
CleanOps(params) == {op \in Ops(params) : op.op = "push" => Clean(encodeArg(op.value))}

(* The four kinds of operation.                                            *)
LEMMA OpForms ==
  ASSUME NEW params, NEW op \in CleanOps(params)
  PROVE  \/ op.op = "opcode" /\ op.byte \in Byte \ ((1..78) \cup {OP_RETURN})
         \/ op.op = "push" /\ Clean(encodeArg(op.value))
         \/ op.op = "placeholder" /\ op.param \in DOMAIN params
         \/ op.op = "push_codesep_index"
  BY DEF CleanOps, Ops, PushCodesepIndexOp

(* An opcode that pushes no data is a clean operation.                     *)
LEMMA OpcodeClean ==
  ASSUME NEW params, NEW byte \in Byte \ ((1..78) \cup {OP_RETURN})
  PROVE  Op(byte) \in CleanOps(params)
  BY DEF CleanOps, Ops, Op

(* So is the push of a method index.                                       *)
LEMMA IndexPushClean ==
  ASSUME NEW params, NEW n \in Nat, n <= MaxLength PROVE PushOp(Int_(n)) \in CleanOps(params)
  <1> DEFINE v == Int_(n)
             op == PushOp(v)
  <1>1. v = [type |-> "bigint", n |-> n]  BY DEF Int_
  <1>2. v \in Value /\ v.type = "bigint" /\ v.n = n  BY <1>1 DEF Value
  <1>3. Clean(encodeArg(v))
    <2>1. encodeArg(v) = encodeScriptNumber(n)  BY <1>2 DEF encodeArg
    <2>2. Abs_(n) <= MaxLength  BY DEF Abs_
    <2> HIDE DEF v
    <2> QED BY <2>1, <2>2, IndexShort
  <1> HIDE DEF v
  <1>4. op \in Ops(params) /\ op.op = "push" /\ op.value = v
    BY <1>2 DEF Ops, PushOp
  <1> QED BY <1>3, <1>4 DEF CleanOps, v

(* Concat makes a sequence over the same set.                              *)
LEMMA ConcatType ==
  ASSUME NEW S, NEW seqs \in Seq(Seq(S)) PROVE Concat(seqs) \in Seq(S)
  <1>1. PICK f : Joins(S, seqs, f) /\ Concat(seqs) = f[Len(seqs)]  BY ConcatParts
  <1>2. Len(seqs) \in 0..Len(seqs)
    <2>1. Len(seqs) \in Nat  OBVIOUS
    <2> QED BY <2>1
  <1> QED BY <1>1, <1>2 DEF Joins

(* The opcodes of the dispatch are clean operations.                       *)
LEMMA DispatchOpcodes ==
  ASSUME NEW params, NEW b \in {118, 156, 99, 117, 103, 157, 104}
  PROVE  Op(b) \in CleanOps(params)
  <1>1. b \in Byte \ ((1..78) \cup {OP_RETURN})  BY DEF Byte, OP_RETURN
  <1> QED BY <1>1, OpcodeClean

(* The dispatch is made of clean operations.                               *)
LEMMA DispatchType ==
  ASSUME NEW params, NEW methods \in Seq(Seq(CleanOps(params))), Len(methods) \in 1..MaxLength
  PROVE  emitMethodDispatch(methods) \in Seq(CleanOps(params))
  <1> DEFINE S == CleanOps(params)
             n == Len(methods)
             Branch(i) ==
               IF i < n
               THEN <<Op(118), PushOp(Int_(i - 1)), Op(156), Op(99), Op(117)>>
                    \o methods[i] \o <<Op(103)>>
               ELSE <<PushOp(Int_(i - 1)), Op(157)>> \o methods[i]
             branches == [i \in DOMAIN methods |-> Branch(i)]
             ends == [i \in 1..(n - 1) |-> Op(104)]
  <1>0. n \in Nat /\ n >= 1 /\ n <= MaxLength /\ DOMAIN methods = 1..n
        /\ \A i \in 1..n : methods[i] \in Seq(S)
    BY MaxLengthNat
  <1>1. Op(118) \in S /\ Op(156) \in S /\ Op(99) \in S /\ Op(117) \in S /\ Op(103) \in S
        /\ Op(157) \in S /\ Op(104) \in S
    <2> HIDE DEF S, n, branches, ends
    <2>1. \A b \in {118, 156, 99, 117, 103, 157, 104} : Op(b) \in CleanOps(params)
      BY DispatchOpcodes
    <2> QED BY <2>1 DEF S
  <1>2. \A i \in 1..n : PushOp(Int_(i - 1)) \in S
    <2> TAKE i \in 1..n
    <2>1. i - 1 \in Nat /\ i - 1 <= MaxLength  BY <1>0, MaxLengthNat
    <2> QED BY <2>1, IndexPushClean
  <1>a. emitMethodDispatch(methods) = Concat(branches) \o ends
    BY DEF emitMethodDispatch
  <1> HIDE DEF S, n
  <1>3. \A i \in 1..n : Branch(i) \in Seq(S)
    <2> TAKE i \in 1..n
    <2> DEFINE push == PushOp(Int_(i - 1))
               body == methods[i]
    <2>1. push \in S /\ body \in Seq(S)  BY <1>0, <1>2
    <2> HIDE DEF push, body
    <2>2. /\ <<Op(118), push, Op(156), Op(99), Op(117)>> \in Seq(S) /\ <<Op(103)>> \in Seq(S)
          /\ <<push, Op(157)>> \in Seq(S)
      BY <1>1, <2>1
    <2>3. /\ <<Op(118), push, Op(156), Op(99), Op(117)>> \o body \o <<Op(103)>> \in Seq(S)
          /\ <<push, Op(157)>> \o body \in Seq(S)
      BY <2>1, <2>2, ConcatProperties
    <2> QED BY <2>3 DEF push, body
  <1> HIDE DEF Branch
  <1>4. branches \in Seq(Seq(S))
    <2>1. branches \in [1..n -> Seq(S)]  BY <1>0, <1>3
    <2> QED BY <1>0, <2>1
  <1>5. ends \in Seq(S)
    <2>1. ends \in [1..(n - 1) -> S] /\ n - 1 \in Nat  BY <1>0, <1>1
    <2> QED BY <2>1
  <1> HIDE DEF branches, ends
  <1>6. Concat(branches) \in Seq(S)  BY <1>4, ConcatType
  <1>7. Concat(branches) \o ends \in Seq(S)  BY <1>5, <1>6, ConcatProperties
  <1> QED BY <1>a, <1>7 DEF S

(* A middle part of a concatenation.                                       *)
LEMMA SubSeqLeft ==
  ASSUME NEW S, NEW a \in Seq(S), NEW b \in Seq(S), NEW c \in 0..Len(a), NEW e \in 0..Len(a)
  PROVE  SubSeq(a \o b, c + 1, e) = SubSeq(a, c + 1, e)
  <1> DEFINE s == a \o b
             x == SubSeq(s, c + 1, e)
             y == SubSeq(a, c + 1, e)
             n == IF c <= e THEN e - c ELSE 0
  <1>0. /\ Len(a) \in Nat /\ Len(b) \in Nat /\ s \in Seq(S) /\ Len(s) = Len(a) + Len(b)
        /\ \A i \in 1..Len(a) : s[i] = a[i]
    OBVIOUS
  <1> HIDE DEF s
  <1>1. y \in Seq(S) /\ Len(y) = n /\ \A i \in 1..n : y[i] = a[c + i]
    OBVIOUS
  <1>2. x \in Seq(S) /\ Len(x) = n /\ \A i \in 1..n : x[i] = s[c + i]
    BY <1>0
  <1>3. \A i \in 1..n : s[c + i] = a[c + i]  BY <1>0
  <1> HIDE DEF x, y, n
  <1>4. x = y  BY <1>1, <1>2, <1>3, SeqEqual
  <1> QED BY <1>4 DEF x, y, s

(* A part of a concatenation that goes up to its end.                      *)
LEMMA SubSeqOver ==
  ASSUME NEW S, NEW a \in Seq(S), NEW b \in Seq(S), NEW c \in 0..Len(a)
  PROVE  SubSeq(a \o b, c + 1, Len(a \o b)) = SubSeq(a, c + 1, Len(a)) \o b
         /\ SubSeq(a, c + 1, Len(a)) \in Seq(S)
  <1> DEFINE s == a \o b
             x == SubSeq(s, c + 1, Len(s))
             z == SubSeq(a, c + 1, Len(a))
             y == z \o b
  <1>0. /\ Len(a) \in Nat /\ Len(b) \in Nat /\ s \in Seq(S) /\ Len(s) = Len(a) + Len(b)
        /\ \A i \in 1..Len(a) : s[i] = a[i]
        /\ \A i \in 1..Len(b) : s[Len(a) + i] = b[i]
    OBVIOUS
  <1> HIDE DEF s
  <1>1. z \in Seq(S) /\ Len(z) = Len(a) - c /\ \A i \in 1..(Len(a) - c) : z[i] = a[c + i]
    OBVIOUS
  <1>2. x \in Seq(S) /\ Len(x) = Len(s) - c /\ \A i \in 1..(Len(s) - c) : x[i] = s[c + i]
    BY <1>0
  <1> HIDE DEF x, z
  <1>3. /\ y \in Seq(S) /\ Len(y) = Len(z) + Len(b)
        /\ \A i \in 1..(Len(z) + Len(b)) : y[i] = IF i <= Len(z) THEN z[i] ELSE b[i - Len(z)]
    BY <1>1, ConcatProperties
  <1> HIDE DEF y
  <1>4. \A i \in 1..(Len(s) - c) : x[i] = y[i]
    <2> TAKE i \in 1..(Len(s) - c)
    <2>1. CASE i <= Len(z)
      <3>1. i \in 1..(Len(a) - c) /\ c + i \in 1..Len(a) /\ i \in 1..(Len(z) + Len(b))
        BY <1>0, <1>1, <2>1
      <3> QED BY <1>0, <1>1, <1>2, <1>3, <2>1, <3>1
    <2>2. CASE i > Len(z)
      <3>1. /\ i - Len(z) \in 1..Len(b) /\ c + i = Len(a) + (i - Len(z))
            /\ i \in 1..(Len(z) + Len(b)) /\ ~(i <= Len(z))
        BY <1>0, <1>1, <2>2
      <3> QED BY <1>0, <1>2, <1>3, <3>1
    <2>3. i <= Len(z) \/ i > Len(z)  BY <1>0, <1>1
    <2> QED BY <2>1, <2>2, <2>3
  <1>5. Len(x) = Len(y)  BY <1>0, <1>1, <1>2, <1>3
  <1>6. x = y  BY <1>2, <1>3, <1>4, <1>5, SeqEqual
  <1> QED BY <1>1, <1>6 DEF x, y, z, s

-----------------------------------------------------------------------------
(* Code with holes of a byte: what is between two of them is clean.        *)
Cuts(H) == {0} \cup {h + 1 : h \in H}
Holed(bytes, H) ==
  /\ bytes \in Bytes /\ H \subseteq 0..(Len(bytes) - 1)
  /\ \A c \in Cuts(H), e \in H \cup {Len(bytes)} : c <= e => Clean(SubSeq(bytes, c + 1, e))

(* Where a hole ends is an offset of the code.                             *)
LEMMA CutsFacts ==
  ASSUME NEW bytes \in Bytes, NEW H, H \subseteq 0..(Len(bytes) - 1), NEW c \in Cuts(H)
  PROVE  c \in 0..Len(bytes)
  <1>1. Len(bytes) \in Nat  BY BytesFacts
  <1>2. c = 0 \/ \E h \in H : c = h + 1  BY DEF Cuts
  <1> QED BY <1>1, <1>2

(* No code has no holes.                                                   *)
LEMMA HoledEmpty == Holed(<<>>, {})
  <1>1. <<>> \in Bytes /\ Len(<<>>) = 0  BY CleanEmpty DEF Clean
  <1>2. SubSeq(<<>>, 0 + 1, 0) = <<>>  OBVIOUS
  <1> QED BY <1>1, <1>2, CleanEmpty DEF Holed, Cuts

(* Clean bytes behind code with holes.                                     *)
LEMMA HoledAppend ==
  ASSUME NEW bytes, NEW H, Holed(bytes, H), NEW s, Clean(s)
  PROVE  Holed(bytes \o s, H)
  <1>1. /\ bytes \in Bytes /\ s \in Bytes /\ bytes \o s \in Bytes
        /\ Len(bytes \o s) = Len(bytes) + Len(s) /\ Len(bytes) \in Nat /\ Len(s) \in Nat
        /\ H \subseteq 0..(Len(bytes) - 1)
    BY BytesConcat, BytesFacts DEF Clean, Holed
  <1>2. ASSUME NEW c \in Cuts(H), NEW e \in H \cup {Len(bytes \o s)}, c <= e
        PROVE  Clean(SubSeq(bytes \o s, c + 1, e))
    <2>1. c \in 0..Len(bytes)  BY <1>1, CutsFacts
    <2>2. CASE e \in H
      <3>1. e \in 0..Len(bytes)  BY <1>1, <2>2
      <3>2. SubSeq(bytes \o s, c + 1, e) = SubSeq(bytes, c + 1, e)
        BY <1>1, <2>1, <3>1, SubSeqLeft DEF Bytes
      <3> QED BY <1>2, <2>2, <3>2 DEF Holed
    <2>3. CASE e = Len(bytes \o s)
      <3>1. SubSeq(bytes \o s, c + 1, Len(bytes \o s)) = SubSeq(bytes, c + 1, Len(bytes)) \o s
        BY <1>1, <2>1, SubSeqOver DEF Bytes
      <3>2. c <= Len(bytes)  BY <1>1, <2>1
      <3>3. Clean(SubSeq(bytes, c + 1, Len(bytes)))  BY <1>2, <3>2 DEF Holed
      <3> QED BY <2>3, <3>1, <3>3, CleanConcat
    <2> QED BY <1>2, <2>2, <2>3
  <1>3. H \subseteq 0..(Len(bytes \o s) - 1)  BY <1>1
  <1> QED BY <1>1, <1>2, <1>3 DEF Holed

(* One more hole behind it.                                                *)
LEMMA HoledHole ==
  ASSUME NEW bytes, NEW H, Holed(bytes, H)
  PROVE  Holed(bytes \o <<0>>, H \cup {Len(bytes)})
  <1> DEFINE s == bytes \o <<0>>
             n == Len(bytes)
  <1>a. Clean(<<0>>)
    <2>1. 0 \in Byte \ ((1..78) \cup {OP_RETURN})  BY DEF Byte, OP_RETURN
    <2> QED BY <2>1, CleanOpcode
  <1>b. Holed(s, H)  BY <1>a, HoledAppend
  <1>0. bytes \in Bytes /\ <<0>> \in Bytes /\ Len(<<0>>) = 1 /\ H \subseteq 0..(n - 1)
    BY <1>a DEF Clean, Holed
  <1>1. n \in Nat /\ s \in Bytes /\ Len(s) = n + 1
    BY <1>0, BytesConcat, BytesFacts
  <1>2. ASSUME NEW c \in Cuts(H \cup {n}), NEW e \in (H \cup {n}) \cup {Len(s)}, c <= e
        PROVE  Clean(SubSeq(s, c + 1, e))
    <2>1. c \in Cuts(H) \/ c = n + 1  BY DEF Cuts
    <2>2. CASE c \in Cuts(H) /\ e # n
      <3>1. e \in H \cup {Len(s)}  BY <1>2, <2>2
      <3> QED BY <1>2, <1>b, <2>2, <3>1 DEF Holed
    <2>3. CASE c \in Cuts(H) /\ e = n
      <3>1. c \in 0..n  BY <1>0, <2>3, CutsFacts
      <3>2. n \in 0..n  BY <1>1
      <3>3. SubSeq(s, c + 1, n) = SubSeq(bytes, c + 1, n)
        BY <1>0, <3>1, <3>2, SubSeqLeft DEF Bytes
      <3>4. Clean(SubSeq(bytes, c + 1, n))  BY <1>2, <2>3 DEF Holed
      <3> QED BY <2>3, <3>3, <3>4
    <2>4. CASE c = n + 1
      <3>1. e = n + 1  BY <1>0, <1>1, <1>2, <2>4
      <3>2. SubSeq(s, n + 1 + 1, n + 1) = <<>>  BY <1>1
      <3> QED BY <2>4, <3>1, <3>2, CleanEmpty
    <2> QED BY <2>1, <2>2, <2>3, <2>4
  <1>3. H \cup {n} \subseteq 0..(Len(s) - 1)
    <2>1. Len(s) - 1 = n /\ n \in 0..n /\ \A h \in 0..(n - 1) : h \in 0..n  BY <1>1
    <2> QED BY <1>0, <2>1
  <1> HIDE DEF s
  <1>4. Holed(s, H \cup {n})  BY <1>1, <1>2, <1>3 DEF Holed
  <1> QED BY <1>4 DEF s

-----------------------------------------------------------------------------
(* What the emitter makes.                                                 *)
Emitted(params) ==
  [bytes : Bytes, slots : Seq([param : DOMAIN params, offset : Nat]),
   sepSlots : Seq([offset : Nat, index : Nat]), separators : Seq(Nat)]
(* The offsets of slots or substitutions.                                  *)
Offset(seq) == {seq[i].offset : i \in DOMAIN seq}
(* No two at one offset.                                                   *)
Apart(seq) == \A i, j \in DOMAIN seq : seq[i].offset = seq[j].offset => i = j
(* Code with a hole for each slot.                                         *)
Template(params, ctx) ==
  /\ ctx \in Emitted(params)
  /\ Holed(ctx.bytes, Offset(ctx.slots) \cup Offset(ctx.sepSlots))
  /\ Apart(ctx.slots) /\ Apart(ctx.sepSlots) /\ Offset(ctx.slots) \cap Offset(ctx.sepSlots) = {}

(* One more slot, at an offset of its own.                                 *)
LEMMA OffsetAppend ==
  ASSUME NEW S, NEW seq \in Seq(S), NEW e \in S, NEW H, Apart(seq), Offset(seq) \subseteq H, e.offset \notin H
  PROVE  /\ Append(seq, e) \in Seq(S)
         /\ Offset(Append(seq, e)) = Offset(seq) \cup {e.offset}
         /\ Apart(Append(seq, e))
  <1> DEFINE t == Append(seq, e)
             n == Len(seq)
  <1>1. n \in Nat /\ DOMAIN seq = 1..n
    OBVIOUS
  <1>2. /\ t \in Seq(S) /\ DOMAIN t = 1..(n + 1) /\ t[n + 1] = e
        /\ \A i \in 1..n : t[i] = seq[i]
    OBVIOUS
  <1>3. \A i \in 1..(n + 1) : i \in 1..n \/ i = n + 1  BY <1>1
  <1>4. \A i \in 1..n : i \in 1..(n + 1) /\ i # n + 1  BY <1>1
  <1>5. n + 1 \in 1..(n + 1)  BY <1>1
  <1> HIDE DEF t, n
  <1>6. Offset(t) = Offset(seq) \cup {e.offset}
    <2>1. ASSUME NEW o \in Offset(t) PROVE o \in Offset(seq) \cup {e.offset}
      <3>1. PICK i \in 1..(n + 1) : o = t[i].offset  BY <1>2, <2>1 DEF Offset
      <3>2. CASE i \in 1..n  BY <1>1, <1>2, <3>1, <3>2 DEF Offset
      <3>3. CASE i = n + 1  BY <1>2, <3>1, <3>3
      <3> QED BY <1>3, <3>2, <3>3
    <2>2. ASSUME NEW o \in Offset(seq) PROVE o \in Offset(t)
      <3>1. PICK i \in 1..n : o = seq[i].offset  BY <1>1, <2>2 DEF Offset
      <3>2. i \in 1..(n + 1) /\ o = t[i].offset  BY <1>2, <1>4, <3>1
      <3> QED BY <1>2, <3>2 DEF Offset
    <2>3. e.offset \in Offset(t)  BY <1>2, <1>5 DEF Offset
    <2> QED BY <2>1, <2>2, <2>3
  <1>7. Apart(t)
    <2>1. SUFFICES ASSUME NEW i \in 1..(n + 1), NEW j \in 1..(n + 1), t[i].offset = t[j].offset
                   PROVE  i = j
      BY <1>2 DEF Apart
    <2>2. \A k \in 1..n : t[k].offset # e.offset  BY <1>1, <1>2 DEF Offset
    <2>3. CASE i \in 1..n /\ j \in 1..n  BY <1>1, <1>2, <2>1, <2>3 DEF Apart
    <2> QED BY <1>2, <1>3, <2>1, <2>2, <2>3
  <1> QED BY <1>2, <1>6, <1>7 DEF t

(* Each operation the emitter goes through keeps the template one.         *)
LEMMA EmitStep ==
  ASSUME NEW params, NEW ctx, Template(params, ctx), NEW op \in CleanOps(params)
  PROVE  Template(params, emitStackOp(ctx, op))
  <1> DEFINE here == Len(ctx.bytes)
             H == Offset(ctx.slots) \cup Offset(ctx.sepSlots)
             S == [param : DOMAIN params, offset : Nat]
             Q == [offset : Nat, index : Nat]
  <1>1. /\ ctx \in Emitted(params) /\ Holed(ctx.bytes, H) /\ Apart(ctx.slots) /\ Apart(ctx.sepSlots)
        /\ Offset(ctx.slots) \cap Offset(ctx.sepSlots) = {}
    BY DEF Template
  <1>2. /\ ctx = [bytes |-> ctx.bytes, slots |-> ctx.slots, sepSlots |-> ctx.sepSlots,
                  separators |-> ctx.separators]
        /\ ctx.bytes \in Bytes /\ ctx.slots \in Seq(S) /\ ctx.sepSlots \in Seq(Q)
        /\ ctx.separators \in Seq(Nat)
    BY <1>1 DEF Emitted
  <1>3. here \in Nat  BY <1>2, BytesFacts
  <1>4. here \notin H
    <2>1. H \subseteq 0..(here - 1)  BY <1>1 DEF Holed
    <2> QED BY <1>3, <2>1
  <1>5. Holed(ctx.bytes \o <<0>>, H \cup {here})  BY <1>1, HoledHole
  <1>6. Append(ctx.bytes, 0) = ctx.bytes \o <<0>>  BY <1>2 DEF Bytes
  <1> HIDE DEF H, here, S, Q
  <1>7. CASE op.op = "opcode" /\ op.byte \in Byte \ ((1..78) \cup {OP_RETURN})
    <2> DEFINE seps == IF op.byte = OP_CODESEPARATOR THEN Append(ctx.separators, here) ELSE ctx.separators
               bytes == Append(ctx.bytes, op.byte)
    <2>0. op.byte \in Byte  BY <1>7, Zenon
    <2>1. bytes = ctx.bytes \o <<op.byte>>  BY <1>2, <2>0 DEF Bytes
    <2>2. Holed(bytes, H)  BY <1>1, <1>7, <2>1, CleanOpcode, HoledAppend
    <2>3. seps \in Seq(Nat)  BY <1>2, <1>3
    <2>4. emitStackOp(ctx, op) = [ctx EXCEPT !.bytes = bytes, !.separators = seps]
      BY <1>7 DEF emitStackOp, here
    <2> HIDE DEF seps, bytes
    <2>5. emitStackOp(ctx, op) = [bytes |-> bytes, slots |-> ctx.slots, sepSlots |-> ctx.sepSlots,
                                  separators |-> seps]
      BY <1>2, <2>4
    <2>6. bytes \in Bytes  BY <2>2 DEF Holed
    <2> QED BY <1>1, <1>2, <2>2, <2>3, <2>5, <2>6 DEF Template, Emitted, H, S, Q
  <1>8. CASE op.op = "push" /\ Clean(encodeArg(op.value))
    <2> DEFINE bytes == ctx.bytes \o encodeArg(op.value)
    <2>2. Holed(bytes, H)  BY <1>1, <1>8, HoledAppend
    <2>4. emitStackOp(ctx, op) = [ctx EXCEPT !.bytes = bytes]
      BY <1>8 DEF emitStackOp
    <2> HIDE DEF bytes
    <2>5. emitStackOp(ctx, op) = [bytes |-> bytes, slots |-> ctx.slots, sepSlots |-> ctx.sepSlots,
                                  separators |-> ctx.separators]
      BY <1>2, <2>4
    <2>6. bytes \in Bytes  BY <2>2 DEF Holed
    <2> QED BY <1>1, <1>2, <2>2, <2>5, <2>6 DEF Template, Emitted, H, S, Q
  <1>9. CASE op.op = "placeholder" /\ op.param \in DOMAIN params
    <2> DEFINE bytes == ctx.bytes \o <<0>>
               slot == [param |-> op.param, offset |-> here]
               slots == Append(ctx.slots, slot)
    <2>1. slot \in S /\ slot.offset = here  BY <1>3, <1>9 DEF S
    <2>4. emitStackOp(ctx, op) = [ctx EXCEPT !.bytes = bytes, !.slots = slots]
      BY <1>6, <1>9 DEF emitStackOp, here
    <2> HIDE DEF bytes, slot
    <2>2. /\ slots \in Seq(S) /\ Offset(slots) = Offset(ctx.slots) \cup {here} /\ Apart(slots)
      BY <1>1, <1>2, <1>4, <2>1, OffsetAppend DEF H
    <2> HIDE DEF slots
    <2>5. emitStackOp(ctx, op) = [bytes |-> bytes, slots |-> slots, sepSlots |-> ctx.sepSlots,
                                  separators |-> ctx.separators]
      BY <1>2, <2>4
    <2>6. bytes \in Bytes  BY <1>5 DEF bytes, Holed
    <2>7. H \cup {here} = Offset(slots) \cup Offset(ctx.sepSlots)
          /\ Offset(slots) \cap Offset(ctx.sepSlots) = {}
      BY <1>1, <1>4, <2>2 DEF H
    <2>8. Holed(bytes, Offset(slots) \cup Offset(ctx.sepSlots))  BY <1>5, <2>7 DEF bytes
    <2> DEFINE made == emitStackOp(ctx, op)
    <2>9. made \in Emitted(params)
      BY <1>2, <2>2, <2>5, <2>6 DEF Emitted, S, Q
    <2>10. /\ made.bytes = bytes /\ made.slots = slots /\ made.sepSlots = ctx.sepSlots
      BY <2>5
    <2> HIDE DEF made
    <2>11. Template(params, made)
      BY <1>1, <2>2, <2>7, <2>8, <2>9, <2>10, Zenon DEF Template
    <2> QED BY <2>11 DEF made
  <1>10. CASE op.op = "push_codesep_index"
    <2> DEFINE bytes == ctx.bytes \o <<0>>
               slot == [offset |-> here, index |-> LastSeparator(ctx)]
               slots == Append(ctx.sepSlots, slot)
    <2>0. LastSeparator(ctx) \in Nat  BY <1>2 DEF LastSeparator, Last
    <2>1. slot \in Q /\ slot.offset = here  BY <1>3, <2>0 DEF Q
    <2>4. emitStackOp(ctx, op) = [ctx EXCEPT !.bytes = bytes, !.sepSlots = slots]
      BY <1>6, <1>10 DEF emitStackOp, here
    <2> HIDE DEF bytes, slot
    <2>2. /\ slots \in Seq(Q) /\ Offset(slots) = Offset(ctx.sepSlots) \cup {here} /\ Apart(slots)
      BY <1>1, <1>2, <1>4, <2>1, OffsetAppend DEF H
    <2> HIDE DEF slots
    <2>5. emitStackOp(ctx, op) = [bytes |-> bytes, slots |-> ctx.slots, sepSlots |-> slots,
                                  separators |-> ctx.separators]
      BY <1>2, <2>4
    <2>6. bytes \in Bytes  BY <1>5 DEF bytes, Holed
    <2>7. H \cup {here} = Offset(ctx.slots) \cup Offset(slots)
          /\ Offset(ctx.slots) \cap Offset(slots) = {}
      BY <1>1, <1>4, <2>2 DEF H
    <2>8. Holed(bytes, Offset(ctx.slots) \cup Offset(slots))  BY <1>5, <2>7 DEF bytes
    <2> DEFINE made == emitStackOp(ctx, op)
    <2>9. made \in Emitted(params)
      BY <1>2, <2>2, <2>5, <2>6 DEF Emitted, S, Q
    <2>10. /\ made.bytes = bytes /\ made.slots = ctx.slots /\ made.sepSlots = slots
      BY <2>5
    <2> HIDE DEF made
    <2>11. Template(params, made)
      BY <1>1, <2>2, <2>7, <2>8, <2>9, <2>10, Zenon DEF Template
    <2> QED BY <2>11 DEF made
  <1> QED BY <1>7, <1>8, <1>9, <1>10, OpForms

(* How the emitter lays out a code: holes in increasing order, and each    *)
(* index that names a separator no larger than its own offset.             *)
Laid(ctx) ==
  /\ \A i, j \in DOMAIN ctx.slots : i < j => ctx.slots[i].offset < ctx.slots[j].offset
  /\ \A i \in DOMAIN ctx.sepSlots : ctx.sepSlots[i].index <= ctx.sepSlots[i].offset
  /\ \A i \in DOMAIN ctx.separators : ctx.separators[i] <= Len(ctx.bytes)

(* The elements of a sequence with one more.                               *)
LEMMA AppendFacts ==
  ASSUME NEW S, NEW seq \in Seq(S), NEW e
  PROVE  /\ Len(seq) \in Nat /\ DOMAIN seq = 1..Len(seq) /\ \A i \in DOMAIN seq : seq[i] \in S
         /\ \A i \in DOMAIN Append(seq, e) :
               \/ i \in DOMAIN seq /\ Append(seq, e)[i] = seq[i] /\ i <= Len(seq)
               \/ i = Len(seq) + 1 /\ Append(seq, e)[i] = e
  OBVIOUS

(* One operation keeps a code laid out so.                                 *)
LEMMA LaidStep ==
  ASSUME NEW params, NEW ctx, Template(params, ctx), Laid(ctx), NEW op \in CleanOps(params)
  PROVE  Laid(emitStackOp(ctx, op))
  <1> DEFINE here == Len(ctx.bytes)
             S == [param : DOMAIN params, offset : Nat]
             Q == [offset : Nat, index : Nat]
             made == emitStackOp(ctx, op)
             more == here + 1
  <1>1. /\ ctx \in Emitted(params) /\ Holed(ctx.bytes, Offset(ctx.slots) \cup Offset(ctx.sepSlots))
    BY DEF Template
  <1>2. /\ ctx = [bytes |-> ctx.bytes, slots |-> ctx.slots, sepSlots |-> ctx.sepSlots,
                  separators |-> ctx.separators]
        /\ ctx.bytes \in Bytes /\ ctx.slots \in Seq(S) /\ ctx.sepSlots \in Seq(Q)
        /\ ctx.separators \in Seq(Nat)
    BY <1>1 DEF Emitted
  <1>3. here \in Nat  BY <1>2, BytesFacts
  <1>a. \A r \in S : r.offset \in Nat  OBVIOUS
  <1>b. \A r \in Q : r.offset \in Nat /\ r.index \in Nat  OBVIOUS
  <1>4. \A i \in DOMAIN ctx.slots : ctx.slots[i].offset \in Nat /\ ctx.slots[i].offset < here
    <2>1. Offset(ctx.slots) \subseteq 0..(here - 1)  BY <1>1 DEF Holed
    <2>2. \A i \in DOMAIN ctx.slots : ctx.slots[i].offset \in 0..(here - 1)  BY <2>1 DEF Offset
    <2> QED BY <1>3, <2>2
  <1>5. \A b : Len(Append(ctx.bytes, b)) = more  BY <1>2, <1>3 DEF Bytes
  <1>6. \A i \in DOMAIN ctx.separators : ctx.separators[i] \in Nat /\ ctx.separators[i] <= here
    <2>1. \A i \in DOMAIN ctx.separators : ctx.separators[i] \in Nat  BY <1>2
    <2> QED BY <2>1 DEF Laid
  <1>c. /\ made.bytes = CASE op.op = "opcode" -> Append(ctx.bytes, op.byte)
                         [] op.op = "push" -> ctx.bytes \o encodeArg(op.value)
                         [] op.op = "placeholder" -> Append(ctx.bytes, 0)
                         [] op.op = "push_codesep_index" -> Append(ctx.bytes, 0)
        /\ made.slots = IF op.op = "placeholder"
                        THEN Append(ctx.slots, [param |-> op.param, offset |-> here])
                        ELSE ctx.slots
        /\ made.sepSlots = IF op.op = "push_codesep_index"
                           THEN Append(ctx.sepSlots, [offset |-> here, index |-> LastSeparator(ctx)])
                           ELSE ctx.sepSlots
        /\ made.separators = IF op.op = "opcode" /\ op.byte = OP_CODESEPARATOR
                             THEN Append(ctx.separators, here) ELSE ctx.separators
    <2> HIDE DEF here, S, Q
    <2>1. op.op \in {"opcode", "push", "placeholder", "push_codesep_index"}  BY OpForms
    <2> QED BY <1>2, <2>1 DEF emitStackOp, here
  <1>7. here <= Len(made.bytes)
    <2>1. op.op \in {"opcode", "push", "placeholder", "push_codesep_index"}  BY OpForms
    <2>2. CASE op.op = "push"
      <3>1. Clean(encodeArg(op.value))  BY <2>2, OpForms
      <3>2. Len(ctx.bytes \o encodeArg(op.value)) = here + Len(encodeArg(op.value))
            /\ Len(encodeArg(op.value)) \in Nat
        BY <1>2, <3>1, BytesConcat, BytesFacts DEF Clean
      <3>3. made.bytes = ctx.bytes \o encodeArg(op.value)  BY <1>c, <2>2
      <3> HIDE DEF made, here
      <3>4. Len(made.bytes) = here + Len(encodeArg(op.value))  BY <3>2, <3>3
      <3> QED BY <1>3, <3>2, <3>4
    <2>3. CASE op.op # "push"
      <3>1. \E b : made.bytes = Append(ctx.bytes, b)  BY <1>c, <2>1, <2>3
      <3>2. Len(made.bytes) = more  BY <1>5, <3>1
      <3> QED BY <1>3, <3>2
    <2> QED BY <2>2, <2>3
  <1>d. Len(made.bytes) \in Nat
    <2>1. Template(params, made)  BY EmitStep
    <2>2. made.bytes \in Bytes  BY <2>1 DEF Template, Holed
    <2> QED BY <2>2, BytesFacts
  <1>8. LastSeparator(ctx) <= here /\ LastSeparator(ctx) \in Nat
    <2>1. CASE ctx.separators = <<>>  BY <1>3, <2>1 DEF LastSeparator
    <2>2. CASE ctx.separators # <<>>
      <3>1. Len(ctx.separators) \in DOMAIN ctx.separators  BY <1>2, <2>2
      <3>2. LastSeparator(ctx) = ctx.separators[Len(ctx.separators)]
        BY <2>2 DEF LastSeparator, Last
      <3> QED BY <1>6, <3>1, <3>2
    <2> QED BY <2>1, <2>2
  <1> HIDE DEF made, here, S, Q, more
  <1>9. \A i, j \in DOMAIN made.slots : i < j => made.slots[i].offset < made.slots[j].offset
    <2>1. CASE op.op = "placeholder"
      <3> DEFINE e == [param |-> op.param, offset |-> here]
                 t == Append(ctx.slots, e)
      <3>1. made.slots = t /\ e.offset = here  BY <1>c, <2>1
      <3> HIDE DEF e
      <3>2. /\ Len(ctx.slots) \in Nat /\ DOMAIN ctx.slots = 1..Len(ctx.slots)
            /\ \A i \in DOMAIN t :
                  \/ i \in DOMAIN ctx.slots /\ t[i] = ctx.slots[i] /\ i <= Len(ctx.slots)
                  \/ i = Len(ctx.slots) + 1 /\ t[i] = e
        BY <1>2, AppendFacts
      <3> HIDE DEF t
      <3>3. ASSUME NEW i \in DOMAIN t, NEW j \in DOMAIN t, i < j PROVE t[i].offset < t[j].offset
        <4>1. i \in Int /\ j \in Int  BY <3>2
        <4>2. i \in DOMAIN ctx.slots /\ t[i] = ctx.slots[i]  BY <3>2, <3>3, <4>1
        <4>3. CASE j \in DOMAIN ctx.slots /\ t[j] = ctx.slots[j]  BY <3>3, <4>2, <4>3 DEF Laid
        <4>4. CASE t[j] = e  BY <1>4, <3>1, <4>2, <4>4
        <4> QED BY <3>2, <4>3, <4>4
      <3> QED BY <3>1, <3>3
    <2>2. CASE op.op # "placeholder"  BY <1>c, <2>2 DEF Laid
    <2> QED BY <2>1, <2>2
  <1>10. \A i \in DOMAIN made.sepSlots : made.sepSlots[i].index <= made.sepSlots[i].offset
    <2>1. CASE op.op = "push_codesep_index"
      <3> DEFINE e == [offset |-> here, index |-> LastSeparator(ctx)]
                 t == Append(ctx.sepSlots, e)
      <3>1. made.sepSlots = t /\ e.offset = here /\ e.index = LastSeparator(ctx)  BY <1>c, <2>1
      <3> HIDE DEF e
      <3>2. \A i \in DOMAIN t :
                  \/ i \in DOMAIN ctx.sepSlots /\ t[i] = ctx.sepSlots[i]
                  \/ t[i] = e
        BY <1>2, AppendFacts
      <3> HIDE DEF t
      <3> QED BY <1>8, <3>1, <3>2 DEF Laid
    <2>2. CASE op.op # "push_codesep_index"  BY <1>c, <2>2 DEF Laid
    <2> QED BY <2>1, <2>2
  <1>11. \A i \in DOMAIN made.separators : made.separators[i] <= Len(made.bytes)
    <2>1. \A i \in DOMAIN ctx.separators : ctx.separators[i] <= Len(made.bytes)
      BY <1>3, <1>6, <1>7, <1>d
    <2>2. CASE made.separators = Append(ctx.separators, here)
      <3> DEFINE t == Append(ctx.separators, here)
      <3>1. \A i \in DOMAIN t : \/ i \in DOMAIN ctx.separators /\ t[i] = ctx.separators[i]
                                \/ t[i] = here
        BY <1>2, AppendFacts
      <3> HIDE DEF t
      <3>2. \A i \in DOMAIN t : t[i] <= Len(made.bytes)  BY <1>7, <2>1, <3>1
      <3> QED BY <2>2, <3>2 DEF t
    <2>3. CASE made.separators = ctx.separators  BY <2>1, <2>3
    <2> QED BY <1>c, <2>2, <2>3
  <1>12. Laid(made)  BY <1>9, <1>10, <1>11 DEF Laid
  <1> QED BY <1>12 DEF made

(* It starts with one.                                                     *)
LEMMA NothingTemplate ==
  ASSUME NEW params PROVE Template(params, NothingEmitted) /\ Laid(NothingEmitted)
  <1>1. <<>> \in Bytes  BY CleanEmpty DEF Clean
  <1>2. Offset(<<>>) = {} /\ Apart(<<>>)  BY DEF Offset, Apart
  <1>3. Holed(<<>>, {} \cup {})  BY HoledEmpty
  <1>4. NothingEmitted = [bytes |-> <<>>, slots |-> <<>>, sepSlots |-> <<>>, separators |-> <<>>]
    BY DEF NothingEmitted
  <1>5. NothingEmitted \in Emitted(params)  BY <1>1, <1>4 DEF Emitted
  <1>6. Laid(NothingEmitted)  BY <1>4 DEF Laid
  <1> QED BY <1>2, <1>3, <1>4, <1>5, <1>6 DEF Template

(* So the artifact of clean operations is a template.                      *)
LEMMA EmitTemplate ==
  ASSUME NEW params, NEW methods \in Seq(Seq(CleanOps(params))), Len(methods) \in 1..MaxLength
  PROVE  Template(params, emit(methods)) /\ Laid(emit(methods))
  <1> DEFINE ops == IF Len(methods) = 1 THEN methods[1] ELSE emitMethodDispatch(methods)
             n == Len(ops)
             S == {ctx \in Emitted(params) : Template(params, ctx) /\ Laid(ctx)}
             body(k, g) == IF k = 0 THEN NothingEmitted ELSE emitStackOp(g[k - 1], ops[k])
             H == [k \in 0..n |-> [g \in [0..n -> S] |-> body(k, g)]]
             rank == [k \in 0..n |-> k]
             upTo == CHOOSE f : f = [k \in 0..n |-> body(k, f)]
  <1>a. emit(methods) = upTo[n]  BY DEF emit
  <1>b. ops \in Seq(CleanOps(params))
    <2>1. Len(methods) \in 1..Len(methods)  BY MaxLengthNat
    <2>2. Len(methods) = 1 => methods[1] \in Seq(CleanOps(params))  BY <2>1
    <2> HIDE DEF ops
    <2> QED BY <2>2, DispatchType DEF ops
  <1>c. NothingEmitted \in S /\ \A ctx \in S, op \in CleanOps(params) : emitStackOp(ctx, op) \in S
    BY EmitStep, LaidStep, NothingTemplate DEF Template
  <1> HIDE DEF S, ops
  <1>d. n \in Nat /\ \A k \in 1..n : ops[k] \in CleanOps(params)  BY <1>b
  <1> HIDE DEF n
  <1>1. \E f : Solves(0..n, S, H, f)
    <2>1. rank \in [0..n -> Nat] /\ S # {}  BY <1>c, <1>d
    <2>2. ASSUME NEW k \in 0..n, NEW g \in [0..n -> S] PROVE body(k, g) \in S
      <3>1. k # 0 => k - 1 \in 0..n /\ k \in 1..n  BY <1>d
      <3> QED BY <1>c, <1>d, <3>1
    <2>3. \A k \in 0..n : \A g \in [0..n -> S] : H[k][g] \in S
      BY <2>2
    <2>4. ASSUME NEW k \in 0..n, NEW g \in [0..n -> S], NEW h \in [0..n -> S],
                 \A y \in 0..n : rank[y] < rank[k] => g[y] = h[y]
          PROVE  H[k][g] = H[k][h]
      <3>1. k # 0 => k - 1 \in 0..n /\ rank[k - 1] < rank[k]  BY <1>d
      <3>2. body(k, g) = body(k, h)  BY <2>4, <3>1
      <3> QED BY <3>2
    <2>5. \A k \in 0..n : \A g, h \in [0..n -> S] :
             (\A y \in 0..n : rank[y] < rank[k] => g[y] = h[y]) => H[k][g] = H[k][h]
      BY <2>4
    <2> HIDE DEF H, rank, body, upTo
    <2>6. Ranked(0..n, S, rank, H)  BY <2>1, <2>3, <2>5, Zenon DEF Ranked
    <2> QED BY <2>6, RankRecursion, Zenon
  <1>2. PICK g \in [0..n -> S] : \A k \in 0..n : g[k] = H[k][g]
    BY <1>1 DEF Solves
  <1>3. g = [k \in 0..n |-> body(k, g)]
    BY <1>2
  <1>4. upTo = [k \in 0..n |-> body(k, upTo)]
    BY <1>3
  <1> HIDE DEF upTo
  <1> DEFINE P == {k \in 0..n : upTo[k] \in S}
  <1>5. 0 \in P  BY <1>c, <1>d, <1>4
  <1>6. ASSUME NEW k \in P, k \in 0..(n - 1) PROVE k + 1 \in P
    <2>1. k + 1 \in 0..n /\ k + 1 \in 1..n /\ k + 1 # 0 /\ (k + 1) - 1 = k  BY <1>d, <1>6
    <2>2. upTo[k + 1] = emitStackOp(upTo[k], ops[k + 1])  BY <1>4, <2>1
    <2>3. upTo[k + 1] \in S  BY <1>c, <1>d, <1>6, <2>1, <2>2
    <2> QED BY <2>1, <2>3
  <1> HIDE DEF P
  <1>7. 0..n \subseteq P  BY <1>d, <1>5, <1>6, UpTo
  <1>8. upTo[n] \in S
    <2>1. n \in 0..n  BY <1>d
    <2> QED BY <1>7, <2>1 DEF P
  <1> QED BY <1>a, <1>8 DEF S

-----------------------------------------------------------------------------
(* Splicing clean bytes into the holes.                                    *)
After(code, c, s) == \E x : Clean(x) /\ s = SubSeq(code, 1, c) \o x

(* The slices up to an offset and from it on.                              *)
LEMMA TailSlice ==
  ASSUME NEW s \in Bytes, NEW from \in 0..Len(s)
  PROVE  Tail_(s, from) = SubSeq(s, from + 1, Len(s)) /\ Slice(s, 0, from) = SubSeq(s, 1, from)
  <1>1. Len(s) \in Nat  BY BytesFacts
  <1>2. (IF Len(s) < Len(s) THEN Len(s) ELSE Len(s)) = Len(s)
        /\ (IF from < Len(s) THEN from ELSE Len(s)) = from /\ 0 + 1 = 1
    BY <1>1
  <1> QED BY <1>2, Zenon DEF Tail_, Slice

(* What substitutions are made of.                                         *)
Subs == [offset : Nat, bytes : Bytes]
(* Substitutions whose bytes are clean.                                    *)
CleanSubs == {sub \in Subs : Clean(sub.bytes)}
(* Bytes in place of the one byte at an offset.                            *)
Put(sub, rest) == Slice(rest, 0, sub.offset) \o sub.bytes \o Tail_(rest, sub.offset + 1)

(* Bytes put in a hole leave what is in front of it.                       *)
LEMMA PutAfter ==
  ASSUME NEW code \in Bytes, NEW sub \in Subs, sub.offset < Len(code), NEW x \in Bytes,
         NEW c \in 0..sub.offset
  PROVE  LET mid == SubSeq(code, c + 1, sub.offset) IN
         /\ mid \in Bytes /\ Len(mid) = sub.offset - c
         /\ Put(sub, SubSeq(code, 1, sub.offset + 1) \o x) = SubSeq(code, 1, c) \o (mid \o (sub.bytes \o x))
  <1> DEFINE n == Len(code)
             o == sub.offset
             b == sub.bytes
             front == SubSeq(code, 1, o + 1)
             head == SubSeq(code, 1, o)
             rest == front \o x
             left == SubSeq(code, 1, c)
             mid == SubSeq(code, c + 1, o)
  <1>1. o \in Nat /\ b \in Bytes  BY DEF Subs
  <1>2. n \in Nat /\ o \in 0..(n - 1) /\ o + 1 \in 0..n /\ o \in 0..n /\ c \in 0..n
    <2>1. n \in Nat  BY BytesFacts
    <2> QED BY <1>1, <2>1
  <1>a. Put(sub, rest) = Slice(rest, 0, o) \o b \o Tail_(rest, o + 1)  BY DEF Put
  <1>3. c \in 0..o  OBVIOUS
  <1> HIDE DEF o, b
  <1>4. front \in Bytes /\ Len(front) = o + 1 /\ head \in Bytes /\ Len(head) = o
    BY <1>2, Cut DEF Bytes
  <1>5. rest \in Bytes /\ Len(rest) = o + 1 + Len(x) /\ Len(x) \in Nat
    <2>1. Len(x) \in Nat  BY BytesFacts
    <2> HIDE DEF front
    <2>2. front \o x \in Bytes /\ Len(front \o x) = Len(front) + Len(x)  BY <1>4, BytesConcat
    <2> QED BY <1>4, <2>1, <2>2
  <1>6. Slice(rest, 0, o) = head
    <2>1. o \in 0..Len(rest) /\ 0 \in 0..(o + 1) /\ o \in 0..(o + 1) /\ 0 + 1 = 1  BY <1>2, <1>5
    <2>2. Slice(rest, 0, o) = SubSeq(rest, 1, o)  BY <1>5, <2>1, TailSlice
    <2>3. SubSeq(rest, 0 + 1, o) = SubSeq(front, 0 + 1, o)
      <3> HIDE DEF front
      <3>1. SubSeq(front \o x, 0 + 1, o) = SubSeq(front, 0 + 1, o)
        BY <1>4, <1>5, <2>1, SubSeqLeft DEF Bytes
      <3> QED BY <3>1
    <2>4. SubSeq(front, 1, o) = head
      <3> DEFINE back == SubSeq(code, o + 1 + 1, n)
      <3>1. back \in Bytes /\ code = front \o back  BY <1>2, Cut DEF Bytes
      <3> HIDE DEF front, back
      <3>2. SubSeq(front \o back, 0 + 1, o) = SubSeq(front, 0 + 1, o)
        BY <1>4, <2>1, <3>1, SubSeqLeft DEF Bytes
      <3> QED BY <2>1, <3>1, <3>2
    <2> QED BY <2>1, <2>2, <2>3, <2>4
  <1>7. Tail_(rest, o + 1) = x
    <2>1. o + 1 \in 0..Len(rest) /\ o + 1 \in 0..Len(front)  BY <1>2, <1>4, <1>5
    <2>2. Tail_(rest, o + 1) = SubSeq(rest, o + 1 + 1, Len(rest))  BY <1>5, <2>1, TailSlice
    <2> HIDE DEF front
    <2>3. SubSeq(front \o x, o + 1 + 1, Len(front \o x)) = SubSeq(front, o + 1 + 1, Len(front)) \o x
      <3> DEFINE k == o + 1
      <3>1. k \in 0..Len(front)  BY <2>1
      <3>2. front \in Seq(Byte) /\ x \in Seq(Byte)  BY <1>4, <1>5 DEF Bytes
      <3> HIDE DEF k
      <3>3. SubSeq(front \o x, k + 1, Len(front \o x)) = SubSeq(front, k + 1, Len(front)) \o x
        BY <3>1, <3>2, SubSeqOver
      <3> QED BY <3>3 DEF k
    <2>4. SubSeq(front, o + 1 + 1, Len(front)) = <<>>  BY <1>2, <1>4 DEF Bytes
    <2>5. <<>> \o x = x  BY <1>5 DEF Bytes
    <2> QED BY <2>2, <2>3, <2>4, <2>5
  <1>9. head = left \o mid /\ left \in Bytes /\ mid \in Bytes /\ Len(mid) = o - c
    <2>1. c \in 0..Len(head) /\ o \in 0..o /\ 0 \in 0..o /\ c \in 0..o /\ 0 + 1 = 1
      BY <1>2, <1>3, <1>4
    <2>2. /\ head = SubSeq(head, 1, c) \o SubSeq(head, c + 1, Len(head)) /\ SubSeq(head, 1, c) \in Bytes
          /\ SubSeq(head, c + 1, Len(head)) \in Bytes /\ Len(SubSeq(head, c + 1, Len(head))) = Len(head) - c
      BY <1>4, <2>1, Cut DEF Bytes
    <2> DEFINE back == SubSeq(code, o + 1, n)
    <2>3. back \in Bytes /\ code = head \o back  BY <1>2, Cut DEF Bytes
    <2> HIDE DEF head, back
    <2>4. SubSeq(head \o back, 0 + 1, c) = SubSeq(head, 0 + 1, c)
      BY <1>4, <2>1, <2>3, SubSeqLeft DEF Bytes
    <2>5. SubSeq(head \o back, c + 1, o) = SubSeq(head, c + 1, o)
      BY <1>4, <2>1, <2>3, SubSeqLeft DEF Bytes
    <2> QED BY <1>4, <2>1, <2>2, <2>3, <2>4, <2>5
  <1> HIDE DEF mid, left, head, front, rest
  <1>10. head \o b \o x = left \o (mid \o (b \o x))
    <2>1. b \o x \in Bytes  BY <1>1, BytesConcat
    <2>2. head \o b \o x = head \o (b \o x)
      <3>1. Associative(head, b, x)  BY <1>1, <1>4, BytesAssociative
      <3> QED BY <3>1 DEF Associative
    <2> DEFINE y == b \o x
    <2> HIDE DEF y
    <2>3. left \o mid \o y = left \o (mid \o y)
      <3>1. y \in Bytes  BY <2>1 DEF y
      <3>2. Associative(left, mid, y)  BY <1>9, <3>1, BytesAssociative
      <3> QED BY <3>2 DEF Associative
    <2> QED BY <1>9, <2>2, <2>3 DEF y
  <1>11. Put(sub, rest) = left \o (mid \o (b \o x))  BY <1>6, <1>7, <1>10, <1>a
  <1> QED BY <1>9, <1>11 DEF mid, left, rest, front, o, b

(* Replacing the hole at o: from any cut up to it the code is clean again. *)
LEMMA ReplacedAfter ==
  ASSUME NEW code, NEW H, Holed(code, H), NEW sub \in CleanSubs, sub.offset \in H,
         NEW rest, After(code, sub.offset + 1, rest), NEW c \in Cuts(H), c <= sub.offset
  PROVE  After(code, c, Put(sub, rest))
  <1>1. PICK x : Clean(x) /\ rest = SubSeq(code, 1, sub.offset + 1) \o x  BY DEF After
  <1> DEFINE mid == SubSeq(code, c + 1, sub.offset)
             more == mid \o (sub.bytes \o x)
  <1>2. /\ code \in Bytes /\ Len(code) \in Nat /\ sub \in Subs /\ sub.offset \in 0..(Len(code) - 1)
        /\ Clean(sub.bytes)
    BY BytesFacts DEF Holed, CleanSubs, Subs
  <1>3. sub.offset < Len(code) /\ c \in 0..sub.offset
    <2>1. c \in 0..Len(code)  BY <1>2, CutsFacts DEF Holed
    <2> QED BY <1>2, <2>1
  <1>4. Clean(mid)  BY DEF Holed
  <1>5. x \in Bytes  BY <1>1 DEF Clean
  <1>6. Put(sub, rest) = SubSeq(code, 1, c) \o more
    BY <1>1, <1>2, <1>3, <1>5, PutAfter
  <1> HIDE DEF mid
  <1>7. Clean(more)  BY <1>1, <1>2, <1>4, CleanConcat
  <1> HIDE DEF more
  <1> QED BY <1>6, <1>7 DEF After

(* From a cut to the end.                                                  *)
LEMMA AfterEnd ==
  ASSUME NEW code, NEW H, Holed(code, H), NEW c \in Cuts(H) PROVE After(code, c, code)
  <1>1. code \in Bytes /\ Len(code) \in Nat /\ c \in 0..Len(code)
    BY CutsFacts, BytesFacts DEF Holed
  <1>2. Clean(SubSeq(code, c + 1, Len(code)))
    <2>1. c <= Len(code)  BY <1>1
    <2> QED BY <2>1 DEF Holed
  <1>3. code = SubSeq(code, 1, c) \o SubSeq(code, c + 1, Len(code))
    BY <1>1, Cut DEF Bytes
  <1> QED BY <1>2, <1>3 DEF After

(* Their offsets and bytes.                                                *)
LEMMA CleanSubsType == ASSUME NEW subs \in Seq(CleanSubs) PROVE subs \in Seq(Subs)
  <1>1. \A s \in CleanSubs : s \in Subs  BY DEF CleanSubs, Subs
  <1> QED BY <1>1

(* The types of their parts, and their sets are finite.                    *)
LEMMA SubsFacts ==
  ASSUME NEW subs \in Seq(Subs)
  PROVE  /\ DOMAIN subs = 1..Len(subs) /\ Len(subs) \in Nat
         /\ \A i \in DOMAIN subs : subs[i].offset \in Nat /\ subs[i].bytes \in Bytes
         /\ \A T \in SUBSET DOMAIN subs : IsFiniteSet(T) /\ Cardinality(T) \in Nat
  <1>1. DOMAIN subs = 1..Len(subs) /\ Len(subs) \in Nat /\ \A i \in DOMAIN subs : subs[i] \in Subs
    OBVIOUS
  <1>2. \A s \in Subs : s.offset \in Nat /\ s.bytes \in Bytes  BY DEF Subs
  <1>3. IsFiniteSet(DOMAIN subs)  BY <1>1, FS_Interval
  <1>4. \A T \in SUBSET DOMAIN subs : IsFiniteSet(T) /\ Cardinality(T) \in Nat
    BY <1>3, FS_Subset, FS_CardinalityType
  <1> QED BY <1>1, <1>2, <1>4

(* The one of T with the least offset.                                     *)
First(subs, T, i) == i \in T /\ \A j \in T \ {i} : subs[i].offset < subs[j].offset

(* There is a leftmost one.                                                *)
LEMMA FirstHole ==
  ASSUME NEW subs \in Seq(Subs), NEW T \in SUBSET DOMAIN subs, T # {}
  PROVE  \E i \in T : \A j \in T : subs[i].offset <= subs[j].offset
  <1> DEFINE O == {subs[i].offset : i \in T}
  <1>1. \A i \in T : subs[i].offset \in Nat  BY SubsFacts
  <1>2. O \in SUBSET Nat /\ O # {}
    BY <1>1
  <1> HIDE DEF O
  <1>3. PICK m \in O : \A n \in O : m <= n
    BY <1>2, Least
  <1> QED BY <1>3 DEF O

(* Induction over the holes of a code, from the last to the first.         *)
LEMMA HolesInduction ==
  ASSUME NEW subs \in Seq(Subs), Apart(subs), NEW P, {} \in P,
         \A T \in SUBSET DOMAIN subs : \A i \in T : First(subs, T, i) /\ T \ {i} \in P => T \in P
  PROVE  SUBSET DOMAIN subs \subseteq P
  <1> DEFINE D == SUBSET DOMAIN subs
             rank == [T \in D |-> Cardinality(T)]
  <1>1. rank \in [D -> Nat]  BY SubsFacts
  <1>2. ASSUME NEW T \in D, \A U \in D : rank[U] < rank[T] => U \in P PROVE T \in P
    <2>1. CASE T # {}
      <3>1. PICK i \in T : \A j \in T : subs[i].offset <= subs[j].offset  BY <2>1, FirstHole
      <3>2. \A j \in T : subs[j].offset \in Nat  BY SubsFacts
      <3>3. \A j \in T \ {i} : subs[i].offset # subs[j].offset  BY DEF Apart
      <3>4. First(subs, T, i)  BY <3>1, <3>2, <3>3 DEF First
      <3>5. T \ {i} \in D  OBVIOUS
      <3>6. rank[T \ {i}] < rank[T]
        <4>1. IsFiniteSet(T) /\ Cardinality(T) \in Nat  BY SubsFacts
        <4>2. Cardinality(T \ {i}) = Cardinality(T) - 1  BY <4>1, FS_RemoveElement
        <4>3. Cardinality(T \ {i}) < Cardinality(T)  BY <4>1, <4>2
        <4> QED BY <3>5, <4>3
      <3>7. T \ {i} \in P  BY <1>2, <3>5, <3>6
      <3> QED BY <3>4, <3>7
    <2> QED BY <2>1
  <1> HIDE DEF D, rank
  <1>3. D \subseteq P  BY <1>1, <1>2, RankInduction
  <1> QED BY <1>3 DEF D

(* What f[T] is: the code with the bytes of T in their holes.              *)
SplicedBy(code, subs, f) ==
  /\ f \in [SUBSET DOMAIN subs -> Bytes] /\ f[{}] = code
  /\ \A T \in SUBSET DOMAIN subs : \A i \in T :
        First(subs, T, i) => f[T] = Put(subs[i], f[T \ {i}])

(* Splice is such an f for all of its substitutions.                       *)
LEMMA SpliceSteps ==
  ASSUME NEW code \in Bytes, NEW subs \in Seq(Subs)
  PROVE  \E f : SplicedBy(code, subs, f) /\ Splice(code, subs) = f[DOMAIN subs]
  <1> DEFINE D == SUBSET DOMAIN subs
             FirstOf(T) == CHOOSE i \in T : \A j \in T : subs[i].offset <= subs[j].offset
             Replace(sub, rest) ==
               Slice(rest, 0, sub.offset) \o sub.bytes \o Tail_(rest, sub.offset + 1)
             body(T, g) == IF T = {} THEN code ELSE Replace(subs[FirstOf(T)], g[T \ {FirstOf(T)}])
             G == [T \in D |-> [g \in [D -> Bytes] |-> body(T, g)]]
             rank == [T \in D |-> Cardinality(T)]
             spliced == CHOOSE f : f = [T \in D |-> body(T, f)]
  <1>a. Splice(code, subs) = spliced[DOMAIN subs]  BY DEF Splice
  <1>0. \A i \in DOMAIN subs : subs[i].offset \in Nat /\ subs[i].bytes \in Bytes
    BY SubsFacts
  <1>b. \A T \in D : T # {} => /\ FirstOf(T) \in T
                               /\ \A j \in T : subs[FirstOf(T)].offset <= subs[j].offset
    <2> TAKE T \in D
    <2>1. T # {} => \E i \in T : \A j \in T : subs[i].offset <= subs[j].offset  BY FirstHole
    <2> QED BY <2>1, Zenon
  <1> HIDE DEF FirstOf
  <1>c. \A T \in D : T # {} => /\ T \ {FirstOf(T)} \in D
                               /\ Cardinality(T \ {FirstOf(T)}) < Cardinality(T)
    <2> TAKE T \in D
    <2> HAVE T # {}
    <2> DEFINE i == FirstOf(T)
    <2>1. i \in T  BY <1>b
    <2> HIDE DEF i
    <2>2. IsFiniteSet(T) /\ Cardinality(T) \in Nat  BY SubsFacts
    <2>3. Cardinality(T \ {i}) = Cardinality(T) - 1  BY <2>1, <2>2, FS_RemoveElement
    <2>4. Cardinality(T \ {i}) < Cardinality(T)  BY <2>2, <2>3
    <2> QED BY <2>4 DEF i
  <1>d. \A i \in DOMAIN subs : \A rest \in Bytes : Replace(subs[i], rest) \in Bytes
    <2> TAKE i \in DOMAIN subs
    <2> TAKE rest \in Bytes
    <2> DEFINE o == subs[i].offset
               b == subs[i].bytes
               head == Slice(rest, 0, o)
               tail == Tail_(rest, o + 1)
    <2>1. o \in Nat /\ o + 1 \in Nat /\ 0 \in Nat /\ b \in Bytes /\ Len(rest) \in Nat
      BY <1>0, BytesFacts
    <2> HIDE DEF o, b
    <2>2. head \in Bytes /\ tail \in Bytes  BY <2>1, SliceType DEF Bytes, Tail_
    <2> HIDE DEF head, tail
    <2>3. head \o b \o tail \in Bytes  BY <2>1, <2>2, BytesConcat
    <2> QED BY <2>3 DEF head, tail, o, b
  <1>e. \A i \in DOMAIN subs : \A rest : Replace(subs[i], rest) = Put(subs[i], rest)
    BY DEF Put
  <1> HIDE DEF Replace
  <1>1. \E f : Solves(D, Bytes, G, f)
    <2>1. rank \in [D -> Nat] /\ Bytes # {}  BY SubsFacts
    <2> HIDE DEF D
    <2>2. ASSUME NEW T \in D, NEW g \in [D -> Bytes] PROVE body(T, g) \in Bytes
      <3>1. T # {} => FirstOf(T) \in DOMAIN subs /\ T \ {FirstOf(T)} \in D
        BY <1>b, <1>c DEF D
      <3>2. T # {} => g[T \ {FirstOf(T)}] \in Bytes  BY <3>1
      <3> QED BY <1>d, <3>1, <3>2
    <2>3. \A T \in D : \A g \in [D -> Bytes] : G[T][g] \in Bytes
      BY <2>2
    <2>4. ASSUME NEW T \in D, NEW g \in [D -> Bytes], NEW h \in [D -> Bytes],
                 \A U \in D : rank[U] < rank[T] => g[U] = h[U]
          PROVE  G[T][g] = G[T][h]
      <3>1. T # {} => T \ {FirstOf(T)} \in D /\ rank[T \ {FirstOf(T)}] < rank[T]
        BY <1>c
      <3>2. body(T, g) = body(T, h)  BY <2>4, <3>1
      <3> QED BY <3>2
    <2>5. \A T \in D : \A g, h \in [D -> Bytes] :
             (\A U \in D : rank[U] < rank[T] => g[U] = h[U]) => G[T][g] = G[T][h]
      BY <2>4
    <2> HIDE DEF G, rank, body, spliced
    <2>6. Ranked(D, Bytes, rank, G)  BY <2>1, <2>3, <2>5, Zenon DEF Ranked
    <2> QED BY <2>6, RankRecursion, Zenon
  <1>2. PICK g \in [D -> Bytes] : \A T \in D : g[T] = G[T][g]
    BY <1>1 DEF Solves
  <1>3. g = [T \in D |-> body(T, g)]
    BY <1>2
  <1>4. spliced = [T \in D |-> body(T, spliced)]
    BY <1>3
  <1> HIDE DEF spliced, G
  <1>5. spliced \in [D -> Bytes]
    <2> DEFINE P == {T \in D : spliced[T] \in Bytes}
    <2>1. ASSUME NEW T \in D, \A U \in D : rank[U] < rank[T] => U \in P PROVE T \in P
      <3>1. spliced[T] = body(T, spliced)  BY <1>4
      <3>2. T # {} => /\ FirstOf(T) \in DOMAIN subs /\ T \ {FirstOf(T)} \in D
                      /\ rank[T \ {FirstOf(T)}] < rank[T]
        BY <1>b, <1>c
      <3>3. T # {} => spliced[T \ {FirstOf(T)}] \in Bytes  BY <2>1, <3>2
      <3> QED BY <1>d, <3>1, <3>2, <3>3
    <2>2. rank \in [D -> Nat]  BY SubsFacts
    <2> HIDE DEF P, rank, D
    <2>3. D \subseteq P  BY <2>1, <2>2, RankInduction
    <2>4. \A T \in D : spliced[T] \in Bytes  BY <2>3 DEF P
    <2>5. spliced = [T \in D |-> spliced[T]]  BY <1>4
    <2> QED BY <2>4, <2>5
  <1>6. spliced[{}] = code  BY <1>4
  <1>7. ASSUME NEW T \in D, NEW i \in T, First(subs, T, i)
        PROVE  spliced[T] = Put(subs[i], spliced[T \ {i}])
    <2>1. FirstOf(T) \in T /\ subs[FirstOf(T)].offset <= subs[i].offset  BY <1>b
    <2>2. FirstOf(T) = i
      <3>1. FirstOf(T) # i => subs[i].offset < subs[FirstOf(T)].offset  BY <1>7, <2>1 DEF First
      <3>2. subs[i].offset \in Nat /\ subs[FirstOf(T)].offset \in Nat  BY <1>0, <2>1
      <3> QED BY <2>1, <3>1, <3>2
    <2>3. spliced[T] = body(T, spliced)  BY <1>4
    <2>4. T # {} /\ i \in DOMAIN subs  OBVIOUS
    <2>5. spliced[T] = Replace(subs[i], spliced[T \ {i}])  BY <2>2, <2>3, <2>4
    <2> QED BY <1>e, <2>4, <2>5
  <1>8. SplicedBy(code, subs, spliced)  BY <1>5, <1>6, <1>7 DEF SplicedBy
  <1> QED BY <1>a, <1>8

(* Clean bytes in every hole make clean code.                              *)
LEMMA SpliceClean ==
  ASSUME NEW code, NEW H, Holed(code, H), NEW subs \in Seq(CleanSubs), Apart(subs),
         Offset(subs) \subseteq H
  PROVE  Clean(Splice(code, subs))
  <1>0. /\ code \in Bytes /\ subs \in Seq(Subs)
        /\ \A i \in DOMAIN subs : subs[i].offset \in Nat /\ Clean(subs[i].bytes)
    <2>1. \A s \in CleanSubs : s.offset \in Nat /\ Clean(s.bytes)  BY DEF CleanSubs, Subs
    <2>2. \A i \in DOMAIN subs : subs[i] \in CleanSubs  OBVIOUS
    <2> QED BY <2>1, <2>2, CleanSubsType DEF Holed
  <1>1. PICK f : SplicedBy(code, subs, f) /\ Splice(code, subs) = f[DOMAIN subs]
    BY <1>0, SpliceSteps
  <1> DEFINE D == SUBSET DOMAIN subs
             P == {T \in D : \A c \in Cuts(H) : (\A i \in T : c <= subs[i].offset)
                                                  => After(code, c, f[T])}
  <1>2. {} \in P
    <2>1. f[{}] = code  BY <1>1 DEF SplicedBy
    <2>2. \A c \in Cuts(H) : After(code, c, code)  BY AfterEnd
    <2> QED BY <2>1, <2>2
  <1>3. ASSUME NEW T \in D, NEW i \in T, First(subs, T, i), T \ {i} \in P PROVE T \in P
    <2>1. SUFFICES ASSUME NEW c \in Cuts(H), \A j \in T : c <= subs[j].offset
                   PROVE  After(code, c, f[T])
      OBVIOUS
    <2> DEFINE U == T \ {i}
               o == subs[i].offset
    <2>2. i \in DOMAIN subs /\ o \in Nat /\ subs[i] \in CleanSubs /\ o \in H  BY <1>0 DEF Offset
    <2>3. o + 1 \in Cuts(H)  BY <2>2 DEF Cuts
    <2>4. \A j \in U : o + 1 <= subs[j].offset
      <3> TAKE j \in U
      <3>1. o < subs[j].offset  BY <1>3 DEF First
      <3>2. subs[j].offset \in Nat  BY <1>0
      <3> QED BY <2>2, <3>1, <3>2
    <2>5. After(code, o + 1, f[U])  BY <1>3, <2>3, <2>4
    <2>6. c <= o  BY <2>1
    <2>7. f[T] = Put(subs[i], f[U])
      BY <1>1, <1>3 DEF SplicedBy
    <2> DEFINE sub == subs[i]
    <2>8. sub \in CleanSubs /\ sub.offset \in H /\ After(code, sub.offset + 1, f[U]) /\ c <= sub.offset
      BY <2>2, <2>5, <2>6
    <2> HIDE DEF U, o, sub
    <2>9. After(code, c, Put(sub, f[U]))  BY <2>1, <2>8, ReplacedAfter
    <2> QED BY <2>7, <2>9 DEF sub
  <1> HIDE DEF P
  <1>4. SUBSET DOMAIN subs \subseteq P  BY <1>0, <1>2, <1>3, HolesInduction
  <1>5. After(code, 0, f[DOMAIN subs])
    <2>1. DOMAIN subs \in P  BY <1>4
    <2>2. 0 \in Cuts(H) /\ \A i \in DOMAIN subs : 0 <= subs[i].offset  BY <1>0 DEF Cuts
    <2> QED BY <2>1, <2>2 DEF P
  <1>9. PICK x : Clean(x) /\ f[DOMAIN subs] = SubSeq(code, 1, 0) \o x
    BY <1>5 DEF After
  <1>10. SubSeq(code, 1, 0) = <<>>  BY <1>0 DEF Bytes
  <1>11. <<>> \o x = x  BY <1>9 DEF Clean, Bytes
  <1> QED BY <1>1, <1>9, <1>10, <1>11

-----------------------------------------------------------------------------
(* The substitutions.                                                      *)
Numbers == {sub \in Subs : Len(sub.bytes) <= MaxLength => Clean(sub.bytes)}

(* What substitutions move an offset by.                                   *)
LEMMA ShiftType ==
  ASSUME NEW subs \in Seq(Subs), NEW offset PROVE ShiftBefore(subs, offset) \in Int
  <1> DEFINE v == [i \in DOMAIN subs |-> Expansion(subs[i].bytes)]
             T == {i \in DOMAIN subs : subs[i].offset < offset}
  <1>1. \A x \in T : v[x] \in Int
    <2> TAKE x \in T
    <2>0. subs[x] \in Subs  OBVIOUS
    <2>1. subs[x].bytes \in Bytes  BY <2>0 DEF Subs
    <2>2. Len(subs[x].bytes) \in Nat  BY <2>1, BytesFacts
    <2> QED BY <2>2 DEF Expansion
  <1>2. IsFiniteSet(T)
    <2>1. DOMAIN subs = 1..Len(subs) /\ Len(subs) \in Nat  OBVIOUS
    <2>2. IsFiniteSet(DOMAIN subs) /\ T \in SUBSET DOMAIN subs  BY <2>1, FS_Interval
    <2> HIDE DEF T
    <2> QED BY <2>2, FS_Subset
  <1> HIDE DEF v, T
  <1>3. Sum(v, T) \in Int  BY <1>1, <1>2, SumType
  <1> QED BY <1>3 DEF ShiftBefore, v, T

(* Values that the parameters take.                                        *)
GoodArgs(params, args) ==
  /\ params \in Seq([name : STRING, type : STRING]) /\ args \in Seq(Value)
  /\ Len(args) = Len(params) /\ \A k \in DOMAIN params : HasType(args[k], params[k].type)

(* The arguments are pushed cleanly.                                       *)
LEMMA GoodArgsClean ==
  ASSUME NEW params, NEW args, GoodArgs(params, args)
  PROVE  \A k \in DOMAIN params : Clean(encodeArg(args[k]))
  <1> TAKE k \in DOMAIN params
  <1>1. HasType(args[k], params[k].type)  BY DEF GoodArgs
  <1> DEFINE v == args[k]
  <1>2. v \in Value /\ Short(v)  BY <1>1 DEF HasType
  <1> HIDE DEF v
  <1>3. Clean(encodeArg(v))  BY <1>2, ArgType
  <1> QED BY <1>3 DEF v

(* The arguments are clean substitutions for the slots.                    *)
LEMMA ConstructorSubsFacts ==
  ASSUME NEW params, NEW ctx, Template(params, ctx), NEW args, GoodArgs(params, args)
  PROVE  /\ ConstructorSubs(ctx, args) \in Seq(CleanSubs)
         /\ Len(ConstructorSubs(ctx, args)) = Len(ctx.slots)
         /\ \A i \in DOMAIN ctx.slots : ConstructorSubs(ctx, args)[i].offset = ctx.slots[i].offset
  <1> DEFINE slots == ctx.slots
             n == Len(slots)
             bytes(i) == encodeArg(args[slots[i].param])
             subs == [i \in 1..n |-> [offset |-> slots[i].offset, bytes |-> bytes(i)]]
  <1>1. slots \in Seq([param : DOMAIN params, offset : Nat])
    BY DEF Template, Emitted
  <1> HIDE DEF slots
  <1>2. /\ n \in Nat /\ DOMAIN slots = 1..n
        /\ \A i \in 1..n : slots[i].offset \in Nat /\ slots[i].param \in DOMAIN params
    <2> DEFINE R == [param : DOMAIN params, offset : Nat]
    <2>1. \A r \in R : r.offset \in Nat /\ r.param \in DOMAIN params  OBVIOUS
    <2> HIDE DEF R
    <2>2. slots \in Seq(R)  BY <1>1 DEF R
    <2>3. n \in Nat /\ DOMAIN slots = 1..n /\ \A i \in 1..n : slots[i] \in R  BY <2>2
    <2> QED BY <2>1, <2>3
  <1>3. \A i \in 1..n : Clean(bytes(i))  BY <1>2, GoodArgsClean
  <1>4. ConstructorSubs(ctx, args) = subs  BY <1>2 DEF ConstructorSubs, slots
  <1>5. \A i \in 1..n : subs[i] \in CleanSubs
    <2> TAKE i \in 1..n
    <2> DEFINE o == slots[i].offset
               b == bytes(i)
    <2>1. o \in Nat /\ Clean(b) /\ b \in Bytes /\ subs[i] = [offset |-> o, bytes |-> b]
      BY <1>2, <1>3 DEF Clean
    <2> HIDE DEF o, b, subs
    <2> QED BY <2>1 DEF CleanSubs, Subs
  <1>6. subs \in Seq(CleanSubs) /\ Len(subs) = n
    <2>1. subs \in [1..n -> CleanSubs]  BY <1>5
    <2> HIDE DEF subs
    <2> QED BY <1>2, <2>1
  <1>7. \A i \in 1..n : subs[i].offset = slots[i].offset  OBVIOUS
  <1> HIDE DEF subs, n
  <1>8. ConstructorSubs(ctx, args) \in Seq(CleanSubs) /\ Len(ConstructorSubs(ctx, args)) = Len(slots)
        /\ \A i \in DOMAIN slots : ConstructorSubs(ctx, args)[i].offset = slots[i].offset
    BY <1>2, <1>4, <1>6, <1>7 DEF n
  <1> QED BY <1>8 DEF slots

(* What an index is pushed as, given those in front of it.                 *)
IndexBytes(ctx, args, slot, before) ==
  encodeScriptNumber(slot.index + ShiftBefore(ConstructorSubs(ctx, args), slot.index)
                                + ShiftBefore(before, slot.index))

(* The separator indices are numbers for their slots.                      *)
LEMMA ResolvedFacts ==
  ASSUME NEW params, NEW ctx, Template(params, ctx), NEW args, GoodArgs(params, args)
  PROVE  /\ resolvedCodeSepSlotValues(ctx, args) \in Seq(Numbers)
         /\ Len(resolvedCodeSepSlotValues(ctx, args)) = Len(ctx.sepSlots)
         /\ \A i \in DOMAIN ctx.sepSlots :
               /\ resolvedCodeSepSlotValues(ctx, args)[i].offset = ctx.sepSlots[i].offset
               /\ resolvedCodeSepSlotValues(ctx, args)[i].bytes
                     = IndexBytes(ctx, args, ctx.sepSlots[i],
                                  SubSeq(resolvedCodeSepSlotValues(ctx, args), 1, i - 1))
  <1> DEFINE slots == ctx.sepSlots
             n == Len(slots)
             S == Seq(Numbers)
             Resolve(slot, before) ==
               [offset |-> slot.offset,
                bytes |-> encodeScriptNumber(
                           slot.index + ShiftBefore(ConstructorSubs(ctx, args), slot.index)
                                      + ShiftBefore(before, slot.index))]
             body(k, g) == IF k = 0 THEN <<>> ELSE Append(g[k - 1], Resolve(slots[k], g[k - 1]))
             H == [k \in 0..n |-> [g \in [0..n -> S] |-> body(k, g)]]
             rank == [k \in 0..n |-> k]
             upTo == CHOOSE f : f = [k \in 0..n |-> body(k, f)]
  <1>a. resolvedCodeSepSlotValues(ctx, args) = upTo[n]  BY DEF resolvedCodeSepSlotValues
  <1>0. slots \in Seq([offset : Nat, index : Nat])  BY DEF Template, Emitted
  <1> HIDE DEF slots
  <1>d. /\ n \in Nat /\ DOMAIN slots = 1..n
        /\ \A k \in 1..n : slots[k].offset \in Nat /\ slots[k].index \in Nat
    <2> DEFINE R == [offset : Nat, index : Nat]
    <2>1. \A r \in R : r.offset \in Nat /\ r.index \in Nat  OBVIOUS
    <2> HIDE DEF R
    <2>2. slots \in Seq(R)  BY <1>0 DEF R
    <2>3. n \in Nat /\ DOMAIN slots = 1..n /\ \A i \in 1..n : slots[i] \in R  BY <2>2
    <2> QED BY <2>1, <2>3
  <1>f. \A k \in 1..n : \A before :
           Resolve(slots[k], before).bytes = IndexBytes(ctx, args, slots[k], before)
    BY DEF IndexBytes
  <1>c. \A k \in 1..n : \A before \in S : /\ Resolve(slots[k], before) \in Numbers
                                          /\ Resolve(slots[k], before).offset = slots[k].offset
    <2> TAKE k \in 1..n
    <2> TAKE before \in S
    <2> DEFINE o == slots[k].offset
               i == slots[k].index
               x == ShiftBefore(ConstructorSubs(ctx, args), i)
               y == ShiftBefore(before, i)
               b == encodeScriptNumber(i + x + y)
    <2>1. o \in Nat /\ i \in Nat  BY <1>d
    <2>2. Resolve(slots[k], before) = [offset |-> o, bytes |-> b]  OBVIOUS
    <2> HIDE DEF o, i
    <2>3. x \in Int
      <3>1. ConstructorSubs(ctx, args) \in Seq(Subs)  BY ConstructorSubsFacts, CleanSubsType
      <3> QED BY <3>1, ShiftType
    <2>4. y \in Int
      <3>1. \A s \in Numbers : s \in Subs  BY DEF Numbers
      <3>2. before \in Seq(Subs)  BY <3>1
      <3> QED BY <3>2, ShiftType
    <2> HIDE DEF x, y
    <2>5. i + x + y \in Int  BY <2>1, <2>3, <2>4
    <2>6. b \in Bytes /\ (Len(b) <= MaxLength => Clean(b))  BY <2>5, NumberType
    <2> HIDE DEF b, Resolve
    <2>7. [offset |-> o, bytes |-> b] \in Numbers  BY <2>1, <2>6 DEF Numbers, Subs
    <2> QED BY <2>2, <2>7 DEF o
  <1> HIDE DEF Resolve
  <1>e. <<>> \in S /\ \A s \in S, r \in Numbers : /\ Append(s, r) \in S /\ Len(Append(s, r)) = Len(s) + 1
                                                 /\ Append(s, r)[Len(s) + 1] = r
                                                 /\ \A j \in 1..Len(s) : Append(s, r)[j] = s[j]
    OBVIOUS
  <1>g. \A s \in S, r \in Numbers :
           /\ \A j \in 1..Len(s) : SubSeq(Append(s, r), 1, j - 1) = SubSeq(s, 1, j - 1)
           /\ SubSeq(Append(s, r), 1, (Len(s) + 1) - 1) = s
    <2> TAKE s \in S, r \in Numbers
    <2> DEFINE t == Append(s, r)
               m == Len(s)
    <2>1. /\ m \in Nat /\ t \in Seq(Numbers) /\ Len(t) = m + 1 /\ \A j \in 1..m : t[j] = s[j]
          /\ s \in Seq(Numbers)
      OBVIOUS
    <2> HIDE DEF t
    <2>2. \A j \in 0..m : SubSeq(t, 1, j) = SubSeq(s, 1, j)
      <3> TAKE j \in 0..m
      <3> DEFINE x == SubSeq(t, 1, j)
                 y == SubSeq(s, 1, j)
      <3>1. /\ x \in Seq(Numbers) /\ y \in Seq(Numbers) /\ Len(x) = j /\ Len(y) = j
            /\ \A i \in 1..j : x[i] = t[i] /\ y[i] = s[i]
        BY <2>1
      <3>2. \A i \in 1..j : i \in 1..m  BY <2>1
      <3> HIDE DEF x, y
      <3>3. \A i \in 1..Len(x) : x[i] = y[i]  BY <2>1, <3>1, <3>2
      <3>4. x = y  BY <3>1, <3>3, SeqEqual
      <3> QED BY <3>4 DEF x, y
    <2>3. SubSeq(s, 1, m) = s  BY <2>1
    <2>4. \A j \in 1..m : j - 1 \in 0..m  BY <2>1
    <2>5. m \in 0..m /\ (m + 1) - 1 = m  BY <2>1
    <2> HIDE DEF m
    <2>6. (\A j \in 1..m : SubSeq(t, 1, j - 1) = SubSeq(s, 1, j - 1)) /\ SubSeq(t, 1, (m + 1) - 1) = s
      BY <2>2, <2>3, <2>4, <2>5
    <2> QED BY <2>6 DEF t, m
  <1> HIDE DEF n, S
  <1>1. \E f : Solves(0..n, S, H, f)
    <2>1. rank \in [0..n -> Nat] /\ S # {}  BY <1>d, <1>e
    <2>2. ASSUME NEW k \in 0..n, NEW g \in [0..n -> S] PROVE body(k, g) \in S
      <3>1. k # 0 => k - 1 \in 0..n /\ k \in 1..n  BY <1>d
      <3> QED BY <1>c, <1>e, <3>1
    <2>3. \A k \in 0..n : \A g \in [0..n -> S] : H[k][g] \in S
      BY <2>2
    <2>4. ASSUME NEW k \in 0..n, NEW g \in [0..n -> S], NEW h \in [0..n -> S],
                 \A y \in 0..n : rank[y] < rank[k] => g[y] = h[y]
          PROVE  H[k][g] = H[k][h]
      <3>1. k # 0 => k - 1 \in 0..n /\ rank[k - 1] < rank[k]  BY <1>d
      <3>2. body(k, g) = body(k, h)  BY <2>4, <3>1
      <3> QED BY <3>2
    <2>5. \A k \in 0..n : \A g, h \in [0..n -> S] :
             (\A y \in 0..n : rank[y] < rank[k] => g[y] = h[y]) => H[k][g] = H[k][h]
      BY <2>4
    <2> HIDE DEF H, rank, body, upTo
    <2>6. Ranked(0..n, S, rank, H)  BY <2>1, <2>3, <2>5, Zenon DEF Ranked
    <2> QED BY <2>6, RankRecursion, Zenon
  <1>2. PICK g \in [0..n -> S] : \A k \in 0..n : g[k] = H[k][g]
    BY <1>1 DEF Solves
  <1>3. g = [k \in 0..n |-> body(k, g)]
    BY <1>2
  <1>4. upTo = [k \in 0..n |-> body(k, upTo)]
    BY <1>3
  <1> HIDE DEF upTo
  <1> DEFINE P == {k \in 0..n : /\ upTo[k] \in S /\ Len(upTo[k]) = k
                                /\ \A j \in 1..k : upTo[k][j].offset = slots[j].offset
                                /\ \A j \in 1..k : upTo[k][j].bytes
                                     = IndexBytes(ctx, args, slots[j], SubSeq(upTo[k], 1, j - 1))}
  <1>5. 0 \in P
    <2>1. 0 \in 0..n /\ upTo[0] = <<>>  BY <1>d, <1>4
    <2> QED BY <1>e, <2>1
  <1>6. ASSUME NEW k \in P, k \in 0..(n - 1) PROVE k + 1 \in P
    <2>1. k + 1 \in 0..n /\ k + 1 \in 1..n /\ k + 1 # 0 /\ (k + 1) - 1 = k /\ k \in Nat  BY <1>d, <1>6
    <2> DEFINE r == Resolve(slots[k + 1], upTo[k])
               s == upTo[k]
    <2>2. upTo[k + 1] = Append(s, r)  BY <1>4, <2>1
    <2>3. r \in Numbers /\ r.offset = slots[k + 1].offset /\ s \in S /\ Len(s) = k  BY <1>c, <1>6, <2>1
    <2>4. \A j \in 1..k : /\ s[j].offset = slots[j].offset
                          /\ s[j].bytes = IndexBytes(ctx, args, slots[j], SubSeq(s, 1, j - 1))
      BY <1>6
    <2>8. r.bytes = IndexBytes(ctx, args, slots[k + 1], s)  BY <1>f, <2>1
    <2> HIDE DEF r, s
    <2>5. Append(s, r) \in S /\ Len(Append(s, r)) = k + 1 /\ Append(s, r)[k + 1] = r
          /\ \A j \in 1..k : Append(s, r)[j] = s[j]
      BY <1>e, <2>3
    <2>6. \A j \in 1..(k + 1) : j \in 1..k \/ j = k + 1  BY <2>1
    <2>7. \A j \in 1..(k + 1) : Append(s, r)[j].offset = slots[j].offset
      BY <2>3, <2>4, <2>5, <2>6
    <2>9. /\ \A j \in 1..k : SubSeq(Append(s, r), 1, j - 1) = SubSeq(s, 1, j - 1)
          /\ SubSeq(Append(s, r), 1, (k + 1) - 1) = s
      BY <1>g, <2>3
    <2>10. ASSUME NEW j \in 1..(k + 1)
           PROVE  Append(s, r)[j].bytes = IndexBytes(ctx, args, slots[j], SubSeq(Append(s, r), 1, j - 1))
      <3>1. CASE j \in 1..k  BY <2>4, <2>5, <2>9, <3>1
      <3>2. CASE j = k + 1  BY <2>5, <2>8, <2>9, <3>2
      <3> QED BY <2>6, <3>1, <3>2
    <2> QED BY <2>1, <2>2, <2>5, <2>7, <2>10
  <1> HIDE DEF P
  <1>7. 0..n \subseteq P  BY <1>d, <1>5, <1>6, UpTo
  <1>8. /\ upTo[n] \in S /\ Len(upTo[n]) = n /\ \A j \in 1..n : upTo[n][j].offset = slots[j].offset
        /\ \A j \in 1..n : upTo[n][j].bytes
              = IndexBytes(ctx, args, slots[j], SubSeq(upTo[n], 1, j - 1))
    <2>1. n \in 0..n  BY <1>d
    <2> QED BY <1>7, <2>1 DEF P
  <1> QED BY <1>a, <1>d, <1>8 DEF S, n, slots

(* Two lists of substitutions at different offsets.                        *)
LEMMA ApartConcat ==
  ASSUME NEW S, NEW a \in Seq(S), NEW b \in Seq(S), Apart(a), Apart(b), Offset(a) \cap Offset(b) = {}
  PROVE  a \o b \in Seq(S) /\ Apart(a \o b) /\ Offset(a \o b) \subseteq Offset(a) \cup Offset(b)
  <1> DEFINE s == a \o b
             m == Len(a)
             n == Len(b)
  <1>1. m \in Nat /\ n \in Nat /\ DOMAIN a = 1..m /\ DOMAIN b = 1..n
    OBVIOUS
  <1>2. /\ s \in Seq(S) /\ Len(s) = m + n /\ DOMAIN s = 1..(m + n)
        /\ \A i \in 1..(m + n) : s[i] = IF i <= m THEN a[i] ELSE b[i - m]
    <2>1. /\ s \in Seq(S) /\ Len(s) = m + n
          /\ \A i \in 1..(m + n) : s[i] = IF i <= m THEN a[i] ELSE b[i - m]
      BY ConcatProperties
    <2> HIDE DEF s, m, n
    <2> QED BY <2>1
  <1> HIDE DEF s, m, n
  <1>3. \A i \in 1..(m + n) : \/ i \in 1..m /\ i <= m
                              \/ ~(i <= m) /\ i - m \in 1..n
    BY <1>1
  <1>4. \A i, j \in 1..(m + n) : i - m = j - m => i = j  BY <1>1
  <1>5. ASSUME NEW i \in 1..(m + n)
        PROVE  \/ i \in 1..m /\ s[i] = a[i] /\ s[i].offset \in Offset(a)
               \/ i - m \in 1..n /\ s[i] = b[i - m] /\ s[i].offset \in Offset(b)
    BY <1>1, <1>2, <1>3 DEF Offset
  <1>6. Offset(s) \subseteq Offset(a) \cup Offset(b)
    <2>1. ASSUME NEW o \in Offset(s) PROVE o \in Offset(a) \cup Offset(b)
      <3>1. PICK i \in 1..(m + n) : o = s[i].offset  BY <1>2, <2>1 DEF Offset
      <3> QED BY <1>5, <3>1
    <2> QED BY <2>1
  <1>7. Apart(s)
    <2>1. SUFFICES ASSUME NEW i \in 1..(m + n), NEW j \in 1..(m + n), s[i].offset = s[j].offset
                   PROVE  i = j
      BY <1>2 DEF Apart
    <2>2. CASE i \in 1..m /\ s[i] = a[i] /\ s[i].offset \in Offset(a)
      <3>1. j \in 1..m /\ s[j] = a[j]  BY <1>5, <2>1, <2>2
      <3> QED BY <1>1, <2>1, <2>2, <3>1 DEF Apart
    <2>3. CASE i - m \in 1..n /\ s[i] = b[i - m] /\ s[i].offset \in Offset(b)
      <3>1. j - m \in 1..n /\ s[j] = b[j - m]  BY <1>5, <2>1, <2>3
      <3>2. i - m = j - m  BY <1>1, <2>1, <2>3, <3>1 DEF Apart
      <3> QED BY <1>4, <3>2
    <2> QED BY <1>5, <2>2, <2>3
  <1> QED BY <1>2, <1>6, <1>7 DEF s

(* Lists with the same offsets.                                            *)
LEMMA ApartLike ==
  ASSUME NEW a, NEW b, DOMAIN a = DOMAIN b, \A i \in DOMAIN a : a[i].offset = b[i].offset
  PROVE  Offset(a) = Offset(b) /\ (Apart(b) => Apart(a))
  BY DEF Offset, Apart

(* The separator indices are short.                                        *)
ShortSubs(ctx, args) ==
  \A i \in DOMAIN ctx.sepSlots : Len(resolvedCodeSepSlotValues(ctx, args)[i].bytes) <= MaxLength

(* All substitutions together are clean and at the offsets of the holes.   *)
LEMMA CollectFacts ==
  ASSUME NEW params, NEW ctx, Template(params, ctx), NEW args, GoodArgs(params, args),
         ShortSubs(ctx, args)
  PROVE  /\ collectSubstitutions(ctx, args) \in Seq(CleanSubs) /\ Apart(collectSubstitutions(ctx, args))
         /\ Offset(collectSubstitutions(ctx, args)) \subseteq Offset(ctx.slots) \cup Offset(ctx.sepSlots)
  <1> DEFINE a == ConstructorSubs(ctx, args)
             b == resolvedCodeSepSlotValues(ctx, args)
  <1>1. /\ a \in Seq(CleanSubs) /\ Len(a) = Len(ctx.slots)
        /\ \A i \in DOMAIN ctx.slots : a[i].offset = ctx.slots[i].offset
    BY ConstructorSubsFacts
  <1>2. /\ b \in Seq(Numbers) /\ Len(b) = Len(ctx.sepSlots)
        /\ \A i \in DOMAIN ctx.sepSlots : b[i].offset = ctx.sepSlots[i].offset
    BY ResolvedFacts
  <1>3. /\ Apart(ctx.slots) /\ Apart(ctx.sepSlots)
        /\ Offset(ctx.slots) \cap Offset(ctx.sepSlots) = {}
    BY DEF Template
  <1>4. /\ DOMAIN ctx.slots = 1..Len(ctx.slots) /\ DOMAIN ctx.sepSlots = 1..Len(ctx.sepSlots)
    <2> DEFINE x == ctx.slots
               y == ctx.sepSlots
    <2>1. x \in Seq([param : DOMAIN params, offset : Nat]) /\ y \in Seq([offset : Nat, index : Nat])
      BY DEF Template, Emitted
    <2> HIDE DEF x, y
    <2>2. DOMAIN x = 1..Len(x) /\ DOMAIN y = 1..Len(y)  BY <2>1
    <2> QED BY <2>2 DEF x, y
  <1>5. \A i \in DOMAIN ctx.sepSlots : Len(b[i].bytes) <= MaxLength  BY DEF ShortSubs
  <1>c. collectSubstitutions(ctx, args) = a \o b  BY DEF collectSubstitutions
  <1> HIDE DEF a, b
  <1>6. DOMAIN a = DOMAIN ctx.slots /\ DOMAIN b = DOMAIN ctx.sepSlots  BY <1>1, <1>2, <1>4
  <1>7. b \in Seq(CleanSubs)
    <2>1. \A s \in Numbers : Len(s.bytes) <= MaxLength => s \in CleanSubs
      BY DEF Numbers, CleanSubs, Subs
    <2>2. \A i \in 1..Len(b) : b[i] \in Numbers  BY <1>2
    <2>3. \A i \in 1..Len(b) : b[i] \in CleanSubs  BY <1>2, <1>4, <1>5, <2>1, <2>2
    <2> QED BY <1>2, <2>3
  <1>8. Offset(a) = Offset(ctx.slots) /\ Apart(a)  BY <1>1, <1>3, <1>6, ApartLike
  <1>9. Offset(b) = Offset(ctx.sepSlots) /\ Apart(b)  BY <1>2, <1>3, <1>6, ApartLike
  <1>10. a \o b \in Seq(CleanSubs) /\ Apart(a \o b) /\ Offset(a \o b) \subseteq Offset(a) \cup Offset(b)
    BY <1>1, <1>3, <1>7, <1>8, <1>9, ApartConcat
  <1> QED BY <1>c, <1>8, <1>9, <1>10

(* The code part of a contract with state is clean.                        *)
LEMMA BuildFacts ==
  ASSUME NEW p, Template(p.params, p.artifact), NEW args, GoodArgs(p.params, args),
         ShortSubs(p.artifact, args)
  PROVE  /\ buildCodeScript(p, args) \in Bytes
         /\ p.fields # <<>> => Clean(buildCodeScript(p, args))
  <1> DEFINE subs == collectSubstitutions(p.artifact, args)
             code == p.artifact.bytes
             H == Offset(p.artifact.slots) \cup Offset(p.artifact.sepSlots)
  <1>1. Holed(code, H)  BY DEF Template
  <1>2. subs \in Seq(CleanSubs) /\ Apart(subs) /\ Offset(subs) \subseteq H  BY CollectFacts
  <1> DEFINE extra == Concat([i \in DOMAIN args |-> encodeArg(args[i])])
  <1>b. buildCodeScript(p, args) = CASE subs # <<>> -> Splice(code, subs)
                                     [] subs = <<>> /\ p.fields = <<>> -> code \o extra
                                     [] OTHER -> code
    BY DEF buildCodeScript
  <1> HIDE DEF subs, code, H, extra
  <1>3. code \in Bytes /\ Clean(code)
    <2>1. code \in Bytes /\ Len(code) \in Nat  BY <1>1, BytesFacts DEF Holed
    <2>2. 0 \in Cuts(H) /\ 0 <= Len(code)  BY <2>1 DEF Cuts
    <2>3. Clean(SubSeq(code, 0 + 1, Len(code)))  BY <1>1, <2>2 DEF Holed
    <2>4. SubSeq(code, 0 + 1, Len(code)) = code  BY <2>1 DEF Bytes
    <2> QED BY <2>1, <2>3, <2>4
  <1>4. Clean(Splice(code, subs))  BY <1>1, <1>2, SpliceClean
  <1>5. extra \in Bytes
    <2> DEFINE seqs == [i \in 1..Len(args) |-> encodeArg(args[i])]
    <2>1. args \in Seq(Value)  BY DEF GoodArgs
    <2>2. Len(args) \in Nat /\ DOMAIN args = 1..Len(args) /\ \A i \in 1..Len(args) : args[i] \in Value
      BY <2>1
    <2>3. \A i \in 1..Len(args) : encodeArg(args[i]) \in Bytes
      <3> TAKE i \in 1..Len(args)
      <3> DEFINE v == args[i]
      <3>1. v \in Value  BY <2>2
      <3> HIDE DEF v
      <3>2. encodeArg(v) \in Bytes  BY <3>1, ArgType
      <3> QED BY <3>2 DEF v
    <2>4. seqs \in [1..Len(args) -> Seq(Byte)]  BY <2>3 DEF Bytes
    <2>5. extra = Concat(seqs)  BY <2>2 DEF extra
    <2> HIDE DEF seqs
    <2>6. seqs \in Seq(Seq(Byte))  BY <2>2, <2>4
    <2> QED BY <2>5, <2>6, ConcatType DEF Bytes
  <1>6. code \o extra \in Bytes  BY <1>3, <1>5, BytesConcat
  <1>7. Splice(code, subs) \in Bytes  BY <1>4 DEF Clean
  <1> QED BY <1>b, <1>3, <1>4, <1>6, <1>7

-----------------------------------------------------------------------------
(* The programs and their arguments.                                       *)
LEMMA AppendForm ==
  ASSUME NEW A, NEW B, NEW x \in {Append(l, v) : l \in A, v \in B}
  PROVE  \E l \in A : \E v \in B : x = Append(l, v)
  OBVIOUS

(* A list of arguments fits the parameters.                                *)
LEMMA ArgListsGood ==
  ASSUME NEW params \in Seq([name : STRING, type : STRING]),
         \A k \in DOMAIN params : \A v \in Args(params[k].type) : HasType(v, params[k].type),
         NEW args \in ArgLists(params)
  PROVE  GoodArgs(params, args)
  <1> DEFINE n == Len(params)
             S == SUBSET Seq(Value)
             More(k, lists) == {Append(list, v) : list \in lists, v \in Args(params[k].type)}
             body(k, g) == IF k = 0 THEN {<<>>} ELSE More(k, g[k - 1])
             H == [k \in 0..n |-> [g \in [0..n -> S] |-> body(k, g)]]
             rank == [k \in 0..n |-> k]
             upTo == CHOOSE f : f = [k \in 0..n |-> body(k, f)]
  <1>a. ArgLists(params) = upTo[n]  BY DEF ArgLists
  <1>d. n \in Nat /\ DOMAIN params = 1..n  OBVIOUS
  <1>b. \A k \in 1..n : \A v \in Args(params[k].type) : v \in Value /\ HasType(v, params[k].type)
    BY <1>d DEF HasType
  <1>c. \A k \in 1..n : \A lists \in S : More(k, lists) \in S
    <2> TAKE k \in 1..n
    <2> TAKE lists \in S
    <2>1. ASSUME NEW list \in lists, NEW v \in Args(params[k].type) PROVE Append(list, v) \in Seq(Value)
      <3>1. list \in Seq(Value) /\ v \in Value  BY <1>b
      <3> QED BY <3>1
    <2> QED BY <2>1
  <1>e. {<<>>} \in S  OBVIOUS
  <1> HIDE DEF n, S, More
  <1>1. \E f : Solves(0..n, S, H, f)
    <2>1. rank \in [0..n -> Nat] /\ S # {}  BY <1>d, <1>e
    <2>2. ASSUME NEW k \in 0..n, NEW g \in [0..n -> S] PROVE body(k, g) \in S
      <3>1. k # 0 => k - 1 \in 0..n /\ k \in 1..n  BY <1>d
      <3> QED BY <1>c, <1>e, <3>1
    <2>3. \A k \in 0..n : \A g \in [0..n -> S] : H[k][g] \in S
      BY <2>2
    <2>4. ASSUME NEW k \in 0..n, NEW g \in [0..n -> S], NEW h \in [0..n -> S],
                 \A y \in 0..n : rank[y] < rank[k] => g[y] = h[y]
          PROVE  H[k][g] = H[k][h]
      <3>1. k # 0 => k - 1 \in 0..n /\ rank[k - 1] < rank[k]  BY <1>d
      <3>2. body(k, g) = body(k, h)  BY <2>4, <3>1
      <3> QED BY <3>2
    <2>5. \A k \in 0..n : \A g, h \in [0..n -> S] :
             (\A y \in 0..n : rank[y] < rank[k] => g[y] = h[y]) => H[k][g] = H[k][h]
      BY <2>4
    <2> HIDE DEF H, rank, body, upTo
    <2>6. Ranked(0..n, S, rank, H)  BY <2>1, <2>3, <2>5, Zenon DEF Ranked
    <2> QED BY <2>6, RankRecursion, Zenon
  <1>2. PICK g \in [0..n -> S] : \A k \in 0..n : g[k] = H[k][g]
    BY <1>1 DEF Solves
  <1>3. g = [k \in 0..n |-> body(k, g)]
    BY <1>2
  <1>4. upTo = [k \in 0..n |-> body(k, upTo)]
    BY <1>3
  <1> HIDE DEF upTo
  <1> DEFINE Fit(list, k) == /\ list \in Seq(Value) /\ Len(list) = k
                             /\ \A j \in 1..k : HasType(list[j], params[j].type)
             P == {k \in 0..n : \A list \in upTo[k] : Fit(list, k)}
  <1>5. 0 \in P
    <2>1. 0 \in 0..n /\ upTo[0] = {<<>>}  BY <1>d, <1>4
    <2>2. Fit(<<>>, 0)  OBVIOUS
    <2> QED BY <2>1, <2>2
  <1>6. ASSUME NEW k \in P, k \in 0..(n - 1) PROVE k + 1 \in P
    <2>1. k + 1 \in 0..n /\ k + 1 \in 1..n /\ k + 1 # 0 /\ (k + 1) - 1 = k /\ k \in Nat  BY <1>d, <1>6
    <2>2. upTo[k + 1] = More(k + 1, upTo[k])  BY <1>4, <2>1
    <2>3. ASSUME NEW list \in upTo[k + 1] PROVE Fit(list, k + 1)
      <3>1. PICK l \in upTo[k], v \in Args(params[k + 1].type) : list = Append(l, v)
        <4> DEFINE lists == upTo[k]
                   values == Args(params[k + 1].type)
        <4>1. list \in {Append(l, v) : l \in lists, v \in values}  BY <2>1, <2>2, <2>3 DEF More
        <4> HIDE DEF lists, values
        <4>2. \E l \in lists : \E v \in values : list = Append(l, v)  BY <4>1, AppendForm
        <4> QED BY <4>2 DEF lists, values
      <3>2. Fit(l, k)  BY <1>6
      <3>3. v \in Value /\ HasType(v, params[k + 1].type)  BY <1>b, <2>1
      <3>4. /\ Append(l, v) \in Seq(Value) /\ Len(Append(l, v)) = k + 1
            /\ Append(l, v)[k + 1] = v /\ \A j \in 1..k : Append(l, v)[j] = l[j]
        BY <2>1, <3>2, <3>3
      <3>5. \A j \in 1..(k + 1) : j \in 1..k \/ j = k + 1  BY <2>1
      <3> QED BY <3>1, <3>2, <3>3, <3>4, <3>5
    <2> HIDE DEF Fit
    <2> QED BY <2>1, <2>3
  <1> HIDE DEF P, Fit
  <1>7. 0..n \subseteq P  BY <1>d, <1>5, <1>6, UpTo
  <1>8. Fit(args, n)
    <2>1. n \in 0..n  BY <1>d
    <2> QED BY <1>7, <1>a, <2>1 DEF P
  <1> QED BY <1>8, <1>d DEF GoodArgs, n, Fit

(* The artifact of a program is a template.                                *)
LEMMA ProgramTemplate ==
  ASSUME NEW p \in Programs
  PROVE  /\ Artifact(p).params = p.params /\ Artifact(p).fields = p.fields
         /\ Artifact(p).artifact = emit(p.methods)
         /\ Template(p.params, emit(p.methods)) /\ Laid(emit(p.methods))
  <1>1. ValidProgram(p)  BY ProgramsAssumption
  <1> DEFINE ms == p.methods
             params == p.params
  <1>2. /\ ms \in Seq(Seq(Ops(params))) /\ Len(ms) \in 1..MaxLength
        /\ \A i \in DOMAIN ms : \A j \in DOMAIN ms[i] : ms[i][j].op = "push" => Short(ms[i][j].value)
    BY <1>1 DEF ValidProgram
  <1> HIDE DEF ms, params
  <1>3. \A op \in Ops(params) : (op.op = "push" => Short(op.value)) => op \in CleanOps(params)
    <2> TAKE op \in Ops(params)
    <2> HAVE op.op = "push" => Short(op.value)
    <2>1. op.op = "push" => op.value \in Value
      BY DEF Ops, PushCodesepIndexOp
    <2>2. op.op = "push" => Clean(encodeArg(op.value))
      <3> DEFINE v == op.value
      <3>1. op.op = "push" => v \in Value /\ Short(v)  BY <2>1
      <3> HIDE DEF v
      <3>2. op.op = "push" => Clean(encodeArg(v))  BY <3>1, ArgType
      <3> QED BY <3>2 DEF v
    <2> QED BY <2>2 DEF CleanOps
  <1>4. ASSUME NEW i \in 1..Len(ms) PROVE ms[i] \in Seq(CleanOps(params))
    <2> DEFINE m == ms[i]
    <2>0. DOMAIN ms = 1..Len(ms)  BY <1>2
    <2>1. m \in Seq(Ops(params))  BY <1>2
    <2>2. \A j \in DOMAIN m : m[j].op = "push" => Short(m[j].value)  BY <1>2, <2>0
    <2> HIDE DEF m
    <2>3. \A j \in 1..Len(m) : m[j] \in Ops(params) /\ j \in DOMAIN m  BY <2>1
    <2>4. \A j \in 1..Len(m) : m[j] \in CleanOps(params)  BY <1>3, <2>2, <2>3
    <2>5. m \in Seq(CleanOps(params))  BY <2>1, <2>4
    <2> QED BY <2>5 DEF m
  <1>5. ms \in Seq(Seq(CleanOps(params)))
    <2> HIDE <1>4
    <2>1. DOMAIN ms = 1..Len(ms) /\ Len(ms) \in Nat /\ ms = [i \in 1..Len(ms) |-> ms[i]]  BY <1>2
    <2>2. ms \in [1..Len(ms) -> Seq(CleanOps(params))]  BY <1>4, <2>1, Zenon
    <2> QED BY <2>1, <2>2
  <1>6. Template(params, emit(ms)) /\ Laid(emit(ms))  BY <1>2, <1>5, EmitTemplate
  <1> QED BY <1>6 DEF Artifact, ms, params

(* The object that a constructor makes.                                    *)
IsProgram(q) == \E p \in Programs : q = Artifact(p)

(* A program, its fields and its arguments fit each other.                 *)
LEMMA ProgramFacts ==
  ASSUME NEW q, IsProgram(q), NEW args \in ArgLists(q.params)
  PROVE  /\ Template(q.params, q.artifact) /\ GoodArgs(q.params, args) /\ ShortSubs(q.artifact, args)
         /\ Laid(q.artifact)
         /\ Len(q.fields) \in Nat /\ DOMAIN q.fields = 1..Len(q.fields)
         /\ q.fields \in Seq([name : STRING, type : STRING, initial : Seq(Value)])
         /\ \A i \in DOMAIN q.fields :
              IF q.fields[i].initial # <<>> THEN HasType(q.fields[i].initial[1], q.fields[i].type)
              ELSE /\ \E k \in DOMAIN q.params : q.params[k].name = q.fields[i].name
                   /\ \A k \in DOMAIN q.params :
                         q.params[k].name = q.fields[i].name => q.params[k].type = q.fields[i].type
  <1>1. PICK p \in Programs : q = Artifact(p)  BY DEF IsProgram
  <1>2. /\ q.params = p.params /\ q.fields = p.fields /\ q.artifact = emit(p.methods)
        /\ Template(p.params, emit(p.methods)) /\ Laid(emit(p.methods))
    BY <1>1, ProgramTemplate
  <1>3. ValidProgram(p) /\ ShortIndices(q)  BY <1>1, ProgramsAssumption
  <1>4. /\ p.params \in Seq([name : STRING, type : STRING])
        /\ \A k \in DOMAIN p.params : \A v \in Args(p.params[k].type) : HasType(v, p.params[k].type)
        /\ p.fields \in Seq([name : STRING, type : STRING, initial : Seq(Value)])
    BY <1>3 DEF ValidProgram
  <1>5. \A i \in DOMAIN p.fields :
              IF p.fields[i].initial # <<>> THEN HasType(p.fields[i].initial[1], p.fields[i].type)
              ELSE /\ \E k \in DOMAIN p.params : p.params[k].name = p.fields[i].name
                   /\ \A k \in DOMAIN p.params :
                         p.params[k].name = p.fields[i].name => p.params[k].type = p.fields[i].type
    BY <1>3, Zenon DEF ValidProgram
  <1>6. GoodArgs(q.params, args)
    <2> DEFINE params == p.params
    <2>1. args \in ArgLists(params)  BY <1>2
    <2> HIDE DEF params
    <2>2. GoodArgs(params, args)  BY <1>4, <2>1, ArgListsGood DEF params
    <2> QED BY <1>2, <2>2 DEF params
  <1>7. ShortSubs(q.artifact, args)  BY <1>3, Zenon DEF ShortIndices, ShortSubs
  <1>8. Len(p.fields) \in Nat /\ DOMAIN p.fields = 1..Len(p.fields)
    <2> DEFINE f == p.fields
    <2>1. f \in Seq([name : STRING, type : STRING, initial : Seq(Value)])  BY <1>4
    <2> HIDE DEF f
    <2>2. Len(f) \in Nat /\ DOMAIN f = 1..Len(f)  BY <2>1
    <2> QED BY <2>2 DEF f
  <1>9. \A i \in DOMAIN q.fields :
              IF q.fields[i].initial # <<>> THEN HasType(q.fields[i].initial[1], q.fields[i].type)
              ELSE /\ \E k \in DOMAIN q.params : q.params[k].name = q.fields[i].name
                   /\ \A k \in DOMAIN q.params :
                         q.params[k].name = q.fields[i].name => q.params[k].type = q.fields[i].type
    <2> DEFINE fields == p.fields
               params == p.params
    <2>1. q.fields = fields /\ q.params = params  BY <1>2
    <2>2. \A i \in DOMAIN fields :
              IF fields[i].initial # <<>> THEN HasType(fields[i].initial[1], fields[i].type)
              ELSE /\ \E k \in DOMAIN params : params[k].name = fields[i].name
                   /\ \A k \in DOMAIN params :
                         params[k].name = fields[i].name => params[k].type = fields[i].type
      BY <1>5, Zenon
    <2> HIDE DEF fields, params
    <2> QED BY <2>1, <2>2
  <1>10. Template(q.params, q.artifact) /\ Laid(q.artifact)  BY <1>2
  <1>11. Len(q.fields) \in Nat /\ DOMAIN q.fields = 1..Len(q.fields)
         /\ q.fields \in Seq([name : STRING, type : STRING, initial : Seq(Value)])
    BY <1>2, <1>4, <1>8
  <1> QED BY <1>6, <1>7, <1>9, <1>10, <1>11, Zenon

(* The state of an object that a constructor made fits the fields.         *)
LEMMA ObjectFacts ==
  ASSUME NEW q, IsProgram(q), NEW args \in ArgLists(q.params)
  PROVE  /\ Holds(q.fields, NewContract(q, args).state)
         /\ NewContract(q, args).fromChain = FALSE /\ NewContract(q, args).args = args
  <1> DEFINE fields == q.fields
             n == Len(fields)
             Param(name) == CHOOSE k \in DOMAIN q.params : q.params[k].name = name
             Start(field) == IF field.initial # <<>> THEN field.initial[1] ELSE args[Param(field.name)]
             state == [i \in DOMAIN fields |-> Start(fields[i])]
  <1>1. NewContract(q, args) = [args |-> args, state |-> state, fromChain |-> FALSE, codeScript |-> <<>>]
    BY DEF NewContract
  <1>2. /\ GoodArgs(q.params, args) /\ n \in Nat /\ DOMAIN fields = 1..n
        /\ \A i \in 1..n :
              IF fields[i].initial # <<>> THEN HasType(fields[i].initial[1], fields[i].type)
              ELSE /\ \E k \in DOMAIN q.params : q.params[k].name = fields[i].name
                   /\ \A k \in DOMAIN q.params :
                         q.params[k].name = fields[i].name => q.params[k].type = fields[i].type
    BY ProgramFacts
  <1>3. \A k \in DOMAIN q.params : HasType(args[k], q.params[k].type)  BY <1>2 DEF GoodArgs
  <1> HIDE DEF n, fields
  <1>4. ASSUME NEW i \in 1..n PROVE HasType(Start(fields[i]), fields[i].type)
    <2> DEFINE f == fields[i]
               k == Param(f.name)
    <2>0. IF f.initial # <<>> THEN HasType(f.initial[1], f.type)
          ELSE /\ \E j \in DOMAIN q.params : q.params[j].name = f.name
               /\ \A j \in DOMAIN q.params : q.params[j].name = f.name => q.params[j].type = f.type
      BY <1>2, Zenon
    <2> HIDE DEF f
    <2>1. CASE f.initial # <<>>
      <3>1. Start(f) = f.initial[1]  BY <2>1
      <3>2. HasType(Start(f), f.type)  BY <2>0, <2>1, <3>1, Zenon
      <3> QED BY <3>2 DEF f
    <2>2. CASE f.initial = <<>>
      <3>1. k \in DOMAIN q.params /\ q.params[k].name = f.name  BY <2>0, <2>2, Zenon
      <3>2. q.params[k].type = f.type  BY <2>0, <2>2, <3>1, Zenon
      <3>3. Start(f) = args[k]  BY <2>2
      <3> HIDE DEF k
      <3>4. HasType(args[k], f.type)  BY <1>3, <3>1, <3>2
      <3>5. HasType(Start(f), f.type)  BY <3>3, <3>4, Zenon
      <3> QED BY <3>5 DEF f
    <2> QED BY <2>1, <2>2
  <1> HIDE DEF Start
  <1>5. \A i \in 1..n : state[i] = Start(fields[i])  BY <1>2
  <1>6. \A i \in 1..n : HasType(state[i], fields[i].type) /\ state[i] \in Value
    BY <1>4, <1>5 DEF HasType
  <1>7. state = [i \in 1..n |-> state[i]]  BY <1>2
  <1> HIDE DEF state
  <1>8. state \in [1..n -> Value]  BY <1>6, <1>7, Zenon
  <1>9. state \in Seq(Value) /\ Len(state) = n  BY <1>2, <1>8
  <1>10. Holds(fields, state)  BY <1>2, <1>6, <1>9 DEF Holds, n
  <1> QED BY <1>1, <1>10 DEF fields

-----------------------------------------------------------------------------
(* Reading a script.                                                       *)
Sectioned(code, c, t) == Clean(c) /\ t \in Bytes /\ code = c \o (<<OP_RETURN>> \o t)

(* The OP_RETURN behind clean code is found, and so are code and section.  *)
LEMMA SectionFound ==
  ASSUME NEW code, NEW c, NEW t, Sectioned(code, c, t)
  PROVE  /\ code \in Bytes /\ Len(code) = Len(c) + 1 + Len(t)
         /\ findLastOpReturn(code) = Len(c) /\ Slice(code, 0, Len(c)) = c
         /\ Tail_(code, Len(c) + 1) = t
  <1> DEFINE r == <<OP_RETURN>>
             post == r \o t
  <1>s. Clean(c) /\ t \in Bytes /\ code = c \o (<<OP_RETURN>> \o t)  BY DEF Sectioned
  <1> USE <1>s
  <1>1. r \in Bytes /\ Len(r) = 1 /\ r[1] = OP_RETURN
    <2>1. OP_RETURN \in Byte  BY DEF OP_RETURN, Byte
    <2> QED BY <2>1 DEF Bytes
  <1>2. c \in Bytes /\ Len(c) \in Nat /\ Len(t) \in Nat  BY BytesFacts DEF Clean
  <1>0. code = c \o post  OBVIOUS
  <1> HIDE DEF r
  <1>3. post \in Bytes /\ Len(post) = 1 + Len(t)  BY <1>1, BytesConcat
  <1>4. code \in Bytes /\ Len(code) = Len(c) + 1 + Len(t)
    <2> HIDE DEF post
    <2>a. c \in Bytes /\ post \in Bytes  BY <1>2, <1>3
    <2>b. c \o post \in Bytes /\ Len(c \o post) = Len(c) + Len(post)  BY <2>a, BytesConcat
    <2>1. code \in Bytes /\ Len(code) = Len(c) + Len(post)  BY <1>0, <2>b
    <2> QED BY <1>2, <1>3, <2>1
  <1>5. <<>> \in Bytes /\ Len(<<>>) = 0 /\ <<>> \o c = c  BY <1>2, CleanEmpty DEF Clean, Bytes
  <1>6. findLastOpReturn(code) = Len(c)
    <2>1. ReturnFrom(<<>> \o c \o post)[Len(<<>>)] = ReturnFrom(<<>> \o c \o post)[Len(<<>>) + Len(c)]
      BY <1>3, <1>5 DEF Clean
    <2>2. ReturnFrom(code)[0] = ReturnFrom(code)[Len(c)]
      <3>1. 0 + Len(c) = Len(c)  BY <1>2
      <3> QED BY <1>0, <1>5, <2>1, <3>1
    <2>3. ByteAt(code, Len(c)) = OP_RETURN
      <3>a. Associative(c, r, t)  BY <1>1, <1>2, BytesAssociative
      <3>0. c \o r \o t = c \o (r \o t)  BY <3>a DEF Associative
      <3>1. code = c \o r \o t  BY <1>0, <3>0, Zenon
      <3>2. 0 \in 0..(Len(r) - 1) /\ Len(c) + 0 = Len(c) /\ 0 + 1 = 1  BY <1>1, <1>2
      <3>3. ByteAt(c \o r \o t, Len(c) + 0) = r[0 + 1]  BY <1>1, <1>2, <3>2, ByteAtLocal
      <3> QED BY <1>1, <3>1, <3>2, <3>3
    <2>4. Len(c) \in 0..Len(code)  BY <1>2, <1>4
    <2>5. ReturnFrom(code)[Len(c)] = Len(c)  BY <1>4, <2>3, <2>4, ReturnFromSteps
    <2> QED BY <2>2, <2>5 DEF findLastOpReturn
  <1>7. Slice(code, 0, Len(c)) = c
    <2>1. Slice(<<>> \o c \o post, Len(<<>>), Len(<<>>) + Len(c)) = c
      BY <1>2, <1>3, <1>5, SliceMiddle DEF Bytes
    <2>2. 0 + Len(c) = Len(c)  BY <1>2
    <2> QED BY <1>0, <1>5, <2>1, <2>2
  <1>8. Tail_(code, Len(c) + 1) = t
    <2> DEFINE a == c \o r
    <2>1. a \in Bytes /\ Len(a) = Len(c) + 1
      <3>1. c \in Bytes /\ r \in Bytes  BY <1>1, <1>2
      <3>2. Len(r) = 1  BY <1>1
      <3> HIDE DEF r
      <3>3. a \in Bytes /\ Len(a) = Len(c) + Len(r)  BY <3>1, BytesConcat
      <3> QED BY <3>2, <3>3
    <2>2. code = a \o t /\ a \o t \o <<>> = a \o t
      <3>a. Associative(c, r, t)  BY <1>1, <1>2, BytesAssociative
      <3>0. c \o r \o t = c \o (r \o t)  BY <3>a DEF Associative
      <3>1. code = a \o t  BY <1>0, <3>0, Zenon
      <3> HIDE DEF a
      <3>2. a \o t \in Bytes  BY <2>1, BytesConcat
      <3>3. a \o t \o <<>> = a \o t
        <4> DEFINE x == a \o t
        <4> HIDE DEF x
        <4>1. x \in Bytes => x \o <<>> = x  BY DEF Bytes
        <4> QED BY <3>2, <4>1 DEF x
      <3> QED BY <3>1, <3>3
    <2> HIDE DEF a
    <2>3. Slice(a \o t \o <<>>, Len(a), Len(a) + Len(t)) = t
      BY <1>5, <2>1, SliceMiddle DEF Bytes
    <2>4. Len(a) + Len(t) = Len(code)  BY <1>2, <1>4, <2>1
    <2> QED BY <2>1, <2>2, <2>3, <2>4 DEF Tail_
  <1> QED BY <1>4, <1>6, <1>7, <1>8

(* There is none in clean code.                                            *)
LEMMA NoSection ==
  ASSUME NEW c, Clean(c) PROVE findLastOpReturn(c) = -1
  <1>1. c \in Bytes /\ Len(c) \in Nat  BY BytesFacts DEF Clean
  <1>2. <<>> \in Bytes /\ Len(<<>>) = 0 /\ <<>> \o c = c /\ c \o <<>> = c
    BY <1>1, CleanEmpty DEF Clean, Bytes
  <1>3. ReturnFrom(<<>> \o c \o <<>>)[Len(<<>>)] = ReturnFrom(<<>> \o c \o <<>>)[Len(<<>>) + Len(c)]
    BY <1>2 DEF Clean
  <1>4. ReturnFrom(c)[0] = ReturnFrom(c)[Len(c)]
    <2>1. 0 + Len(c) = Len(c)  BY <1>1
    <2>2. <<>> \o c \o <<>> = c
      <3>1. <<>> \o c = c /\ c \o <<>> = c  BY <1>2
      <3> QED BY <3>1
    <2>3. ReturnFrom(c)[Len(<<>>)] = ReturnFrom(c)[Len(<<>>) + Len(c)]  BY <1>3, <2>2, Zenon
    <2>4. Len(<<>>) = 0  BY <1>2
    <2> QED BY <2>1, <2>3, <2>4, Zenon
  <1>5. ByteAt(c, Len(c)) # OP_RETURN
    <2>1. c \in Bytes  BY <1>1
    <2> DEFINE n == Len(c)
    <2>2. n \in Nat /\ n >= Len(c)  BY <1>1
    <2> HIDE DEF n
    <2>3. ByteAt(c, n) = -1  BY <2>1, <2>2, ByteAtFacts
    <2>4. -1 # OP_RETURN  BY DEF OP_RETURN
    <2> QED BY <2>3, <2>4 DEF n
  <1>6. Len(c) + Element(c, Len(c)).length > Len(c)
    <2>1. Element(c, Len(c)).length \in Nat
          /\ Element(c, Len(c)).length >= Element(c, Len(c)).header
          /\ Element(c, Len(c)).header \in 1..5
      BY <1>1, ElementType
    <2> QED BY <1>1, <2>1
  <1>7. Len(c) \in 0..Len(c)  BY <1>1
  <1>8. ReturnFrom(c)[Len(c)] = -1  BY <1>1, <1>5, <1>6, <1>7, ReturnFromSteps
  <1> QED BY <1>4, <1>8 DEF findLastOpReturn

(* The code part of an object that a constructor made.                     *)
LEMMA CodeFacts ==
  ASSUME NEW q, IsProgram(q), NEW args \in ArgLists(q.params), NEW object,
         object = NewContract(q, args)
  PROVE  /\ getCodePartHex(q, object) \in Bytes
         /\ q.fields # <<>> => Clean(getCodePartHex(q, object))
         /\ Holds(q.fields, object.state)
  <1>1. /\ Template(q.params, q.artifact) /\ GoodArgs(q.params, args) /\ ShortSubs(q.artifact, args)
    BY ProgramFacts
  <1>2. /\ Holds(q.fields, object.state) /\ object.fromChain = FALSE /\ object.args = args
    BY ObjectFacts
  <1>3. getCodePartHex(q, object) = buildCodeScript(q, args)
    BY <1>2, Zenon DEF getCodePartHex
  <1>4. /\ buildCodeScript(q, args) \in Bytes
        /\ q.fields # <<>> => Clean(buildCodeScript(q, args))
    BY <1>1, BuildFacts
  <1> QED BY <1>2, <1>3, <1>4, Zenon

(* What fromUtxo makes of a script.                                        *)
LEMMA LoadedParts ==
  ASSUME NEW q, NEW code
  PROVE  /\ fromUtxo(q, code).fromChain = TRUE
         /\ fromUtxo(q, code).codeScript = CodePart(q, code)
         /\ fromUtxo(q, code).ok = extractStateFromScript(q, code, findLastOpReturn(code)).ok
         /\ fromUtxo(q, code).state = extractStateFromScript(q, code, findLastOpReturn(code)).state
  BY DEF fromUtxo, FromScript

(* A whole section is read back.                                           *)
LEMMA SectionOf ==
  ASSUME NEW fields, NEW state, Holds(fields, state), Serializable(fields, state)
  PROVE  /\ serializeState(fields, state) \in Bytes
         /\ deserializeState(fields, serializeState(fields, state)).ok
         /\ deserializeState(fields, serializeState(fields, state)).state = state
  <1> DEFINE s == serializeState(fields, state)
             m == Len(s)
  <1>1. s \in Bytes
    <2>1. Parts(fields, state) \in Seq(Seq(Byte)) /\ s = Concat(Parts(fields, state))
      BY PartsFacts DEF Bytes
    <2> QED BY <2>1, ConcatType DEF Bytes
  <1>2. s = serializeState(fields, state)  OBVIOUS
  <1> HIDE DEF s
  <1>3. <<>> \in Bytes /\ s \o <<>> = s /\ m \in Nat /\ SubSeq(s, 1, m) = s
    BY <1>1, CleanEmpty, BytesFacts DEF Clean, Bytes
  <1>4. m \in 0..Len(s \o <<>>) /\ s = SubSeq(s \o <<>>, 1, m)  BY <1>3
  <1> HIDE DEF m
  <1>p. SectionPart(s, fields, state, s, <<>>, m)  BY <1>2, <1>3, <1>4 DEF SectionPart
  <1>5. (deserializeState(fields, s).ok <=> m = Len(s))
        /\ (m = Len(s) => deserializeState(fields, s).state = state)
    BY <1>p, SectionRead
  <1> QED BY <1>1, <1>5 DEF m, s

(* One with bytes missing is refused.                                      *)
LEMMA SectionCut ==
  ASSUME NEW fields, NEW state, Holds(fields, state), Serializable(fields, state),
         NEW m \in Nat, m < Len(serializeState(fields, state))
  PROVE  ~deserializeState(fields, SubSeq(serializeState(fields, state), 1, m)).ok
  <1> DEFINE s == serializeState(fields, state)
             blob == SubSeq(s, 1, m)
  <1>1. s \in Bytes  BY SectionOf
  <1>2. s = serializeState(fields, state) /\ m < Len(s)  OBVIOUS
  <1> HIDE DEF s
  <1>3. <<>> \in Bytes /\ s \o <<>> = s /\ Len(s) \in Nat
    BY <1>1, CleanEmpty, BytesFacts DEF Clean, Bytes
  <1>4. m \in 0..Len(s \o <<>>) /\ blob = SubSeq(s \o <<>>, 1, m) /\ m # Len(s)  BY <1>2, <1>3
  <1> HIDE DEF blob
  <1>p. SectionPart(blob, fields, state, s, <<>>, m)  BY <1>2, <1>3, <1>4 DEF SectionPart
  <1>5. deserializeState(fields, blob).ok <=> m = Len(s)
    BY <1>p, SectionRead
  <1> QED BY <1>4, <1>5 DEF blob, s

(* One with bytes behind it is refused.                                    *)
LEMMA SectionMore ==
  ASSUME NEW fields, NEW state, Holds(fields, state), Serializable(fields, state),
         NEW more \in Bytes, Len(more) > 0
  PROVE  ~deserializeState(fields, serializeState(fields, state) \o more).ok
  <1> DEFINE s == serializeState(fields, state)
             blob == s \o more
             m == Len(blob)
  <1>1. s \in Bytes  BY SectionOf
  <1>2. s = serializeState(fields, state)  OBVIOUS
  <1> HIDE DEF s
  <1>3. blob \in Bytes /\ m = Len(s) + Len(more) /\ Len(s) \in Nat /\ Len(more) \in Nat /\ m \in Nat
    BY <1>1, BytesConcat, BytesFacts
  <1> HIDE DEF blob
  <1>a. m \in 0..m /\ m # Len(s) /\ SubSeq(blob, 1, m) = blob  BY <1>3 DEF Bytes
  <1> HIDE DEF m
  <1>4. m \in 0..Len(s \o more) /\ blob = SubSeq(s \o more, 1, m)
    BY <1>a DEF blob, m
  <1>p. SectionPart(blob, fields, state, s, more, m)  BY <1>2, <1>4 DEF SectionPart
  <1>5. deserializeState(fields, blob).ok <=> m = Len(s)
    BY <1>p, SectionRead
  <1> QED BY <1>a, <1>5 DEF blob, s

-----------------------------------------------------------------------------
(* The script of an object, and the object read from it.                   *)
LEMMA ScriptParts ==
  ASSUME NEW q, NEW object, q.fields # <<>>
  PROVE  getLockingScript(q, object)
            = getCodePartHex(q, object) \o (<<OP_RETURN>> \o serializeState(q.fields, object.state))
  BY DEF getLockingScript

(* An object read from the script of another holds its state, code and     *)
(* script.                                                                 *)
LEMMA DeployedRead ==
  ASSUME NEW q, IsProgram(q), NEW args \in ArgLists(q.params), NEW object,
         object = NewContract(q, args), Serializable(q.fields, object.state),
         NEW code, code = getLockingScript(q, object)
  PROVE  /\ fromUtxo(q, code).ok /\ fromUtxo(q, code).state = object.state
         /\ fromUtxo(q, code).codeScript = getCodePartHex(q, object)
         /\ getLockingScript(q, fromUtxo(q, code)) = code
  <1> DEFINE c == getCodePartHex(q, object)
             load == fromUtxo(q, code)
             t == serializeState(q.fields, object.state)
  <1>1. c \in Bytes /\ (q.fields # <<>> => Clean(c)) /\ Holds(q.fields, object.state)
    BY CodeFacts
  <1>2. /\ load.fromChain = TRUE /\ load.codeScript = CodePart(q, code)
        /\ load.ok = extractStateFromScript(q, code, findLastOpReturn(code)).ok
        /\ load.state = extractStateFromScript(q, code, findLastOpReturn(code)).state
    BY LoadedParts
  <1>3. getLockingScript(q, load)
          = load.codeScript \o (IF q.fields = <<>> THEN <<>>
                                ELSE <<OP_RETURN>> \o serializeState(q.fields, load.state))
    BY <1>2 DEF getLockingScript, getCodePartHex
  <1>4. code = c \o (IF q.fields = <<>> THEN <<>> ELSE <<OP_RETURN>> \o t)
    BY Zenon DEF getLockingScript
  <1>5. t \in Bytes /\ deserializeState(q.fields, t).ok /\ deserializeState(q.fields, t).state = object.state
    BY <1>1, SectionOf
  <1> HIDE DEF c, load, t
  <1>6. CASE q.fields = <<>>
    <2>1. c \o <<>> = c  BY <1>1 DEF Bytes
    <2>2. code = c  BY <1>4, <1>6, <2>1
    <2>3. CodePart(q, code) = code  BY <1>6 DEF CodePart
    <2>4. load.ok /\ load.state = <<>>  BY <1>2, <1>6 DEF extractStateFromScript
    <2>5. object.state = <<>>
      <3>1. Len(q.fields) = 0  BY <1>6
      <3>2. object.state \in Seq(Value) /\ Len(object.state) = 0  BY <1>1, <3>1 DEF Holds
      <3> QED BY <3>2
    <2>6. getLockingScript(q, load) = code  BY <1>2, <1>3, <1>6, <2>1, <2>2, <2>3
    <2> QED BY <1>2, <2>2, <2>3, <2>4, <2>5, <2>6 DEF load, c
  <1>7. CASE q.fields # <<>>
    <2>1. code = c \o (<<OP_RETURN>> \o t)  BY <1>4, <1>7
    <2>2. /\ findLastOpReturn(code) = Len(c) /\ Slice(code, 0, Len(c)) = c
          /\ Tail_(code, Len(c) + 1) = t
      <3>1. Sectioned(code, c, t)  BY <1>1, <1>5, <1>7, <2>1 DEF Sectioned
      <3> QED BY <3>1, SectionFound
    <2>3. Len(c) \in Nat /\ Len(c) # -1  BY <1>1, BytesFacts
    <2>4. CodePart(q, code) = c  BY <1>7, <2>2, <2>3 DEF CodePart, CutAt
    <2>5. extractStateFromScript(q, code, findLastOpReturn(code)) = deserializeState(q.fields, t)
      BY <1>7, <2>2, <2>3 DEF extractStateFromScript
    <2>6. load.ok /\ load.state = object.state  BY <1>2, <1>5, <2>5
    <2>7. getLockingScript(q, load) = code  BY <1>2, <1>3, <1>7, <2>1, <2>4, <2>6 DEF t
    <2> QED BY <1>2, <2>4, <2>6, <2>7 DEF load, c
  <1> QED BY <1>6, <1>7

(* A script whose state section lost bytes or has more.                    *)
Damaged(q, object, code) ==
  /\ q.fields # <<>>
  /\ LET whole == getLockingScript(q, object) IN
       \E kept \in findLastOpReturn(whole)..(Len(whole) - 1), more \in {<<>>, <<0>>, <<1>>} :
          code = IF more = <<>> THEN Slice(whole, 0, kept) ELSE whole \o more

(* A script with a damaged section is refused.                             *)
LEMMA DamagedRead ==
  ASSUME NEW q, IsProgram(q), NEW args \in ArgLists(q.params), NEW object,
         object = NewContract(q, args), Serializable(q.fields, object.state),
         NEW code, Damaged(q, object, code)
  PROVE  ~fromUtxo(q, code).ok
  <1> DEFINE whole == getLockingScript(q, object)
             c == getCodePartHex(q, object)
             t == serializeState(q.fields, object.state)
             end == Len(c)
  <1>0. q.fields # <<>>  BY DEF Damaged
  <1>1. c \in Bytes /\ Clean(c) /\ Holds(q.fields, object.state)  BY <1>0, CodeFacts
  <1>2. t \in Bytes  BY <1>1, SectionOf
  <1>3. whole = c \o (<<OP_RETURN>> \o t)  BY <1>0, ScriptParts
  <1>4. PICK kept \in findLastOpReturn(whole)..(Len(whole) - 1), more \in {<<>>, <<0>>, <<1>>} :
          code = IF more = <<>> THEN Slice(whole, 0, kept) ELSE whole \o more
    BY DEF Damaged
  <1>5. fromUtxo(q, code).ok = extractStateFromScript(q, code, findLastOpReturn(code)).ok
    BY LoadedParts
  <1>c. \A m \in Nat : m < Len(t) => ~deserializeState(q.fields, SubSeq(t, 1, m)).ok
    BY <1>1, SectionCut
  <1>e. \A x \in Bytes : Len(x) > 0 => ~deserializeState(q.fields, t \o x).ok
    BY <1>1, SectionMore
  <1> HIDE DEF whole, c, t
  <1>w. Sectioned(whole, c, t)  BY <1>1, <1>2, <1>3 DEF Sectioned
  <1>6. /\ whole \in Bytes /\ Len(whole) = end + 1 + Len(t) /\ findLastOpReturn(whole) = end
        /\ Slice(whole, 0, end) = c
    <2>1. /\ whole \in Bytes /\ Len(whole) = Len(c) + 1 + Len(t)
          /\ findLastOpReturn(whole) = Len(c) /\ Slice(whole, 0, Len(c)) = c
      BY <1>w, SectionFound
    <2> QED BY <2>1
  <1>7. end \in Nat /\ Len(t) \in Nat  BY <1>1, <1>2, BytesFacts
  <1>r. <<OP_RETURN>> \in Bytes /\ Len(<<OP_RETURN>>) = 1
    <2>1. OP_RETURN \in Byte  BY DEF OP_RETURN, Byte
    <2> QED BY <2>1 DEF Bytes
  <1>8. ASSUME NEW u \in Bytes, ~deserializeState(q.fields, u).ok, code = c \o (<<OP_RETURN>> \o u)
        PROVE  ~fromUtxo(q, code).ok
    <2>1. findLastOpReturn(code) = end /\ Tail_(code, end + 1) = u
      <3>1. Sectioned(code, c, u)  BY <1>1, <1>8 DEF Sectioned
      <3> QED BY <3>1, SectionFound
    <2>2. end # -1  BY <1>7
    <2>3. extractStateFromScript(q, code, findLastOpReturn(code)) = deserializeState(q.fields, u)
      BY <1>0, <2>1, <2>2 DEF extractStateFromScript
    <2> QED BY <1>5, <1>8, <2>3
  <1>9. CASE more = <<>> /\ kept = end
    <2>1. code = c  BY <1>4, <1>6, <1>9
    <2>2. findLastOpReturn(code) = -1  BY <1>1, <2>1, NoSection
    <2>3. extractStateFromScript(q, code, findLastOpReturn(code)) = [ok |-> FALSE, state |-> <<>>]
      BY <1>0, <2>2 DEF extractStateFromScript
    <2> QED BY <1>5, <2>3
  <1>10. CASE more = <<>> /\ kept # end
    <2> DEFINE m == kept - (end + 1)
               a == c \o <<OP_RETURN>>
    <2>1. kept \in Nat /\ m \in Nat /\ m < Len(t) /\ kept \in 0..Len(whole) /\ kept >= end + 1
          /\ m \in 0..Len(t)
      BY <1>4, <1>6, <1>7, <1>10
    <2>2. a \in Bytes /\ Len(a) = end + 1  BY <1>1, <1>r, BytesConcat
    <2>3. whole = a \o t
      <3>1. c \o <<OP_RETURN>> \o t = c \o (<<OP_RETURN>> \o t)
        <4>1. Associative(c, <<OP_RETURN>>, t)  BY <1>1, <1>2, <1>r, BytesAssociative
        <4> QED BY <4>1 DEF Associative
      <3> QED BY <1>3, <3>1, Zenon
    <2> HIDE DEF a
    <2>4. Slice(whole, 0, kept) = SubSeq(whole, 1, kept)  BY <1>6, <2>1, TailSlice
    <2>5. SubSeq(a \o t, 1, kept) = a \o SubSeq(t, 1, kept - Len(a))
      <3>1. kept \in Nat /\ kept <= Len(a \o t) /\ kept >= Len(a)  BY <2>1, <2>2, <2>3
      <3>2. a \in Bytes /\ t \in Bytes  BY <1>2, <2>2
      <3> QED BY <3>1, <3>2, BytesCut
    <2> DEFINE u == SubSeq(t, 1, m)
    <2>6. u \in Bytes /\ ~deserializeState(q.fields, u).ok
      <3>1. u \in Bytes  BY <1>2, <2>1, Cut DEF Bytes
      <3> QED BY <1>c, <2>1, <3>1
    <2>7. kept - Len(a) = m  BY <2>2
    <2>8. code = a \o u  BY <1>4, <1>10, <2>3, <2>4, <2>5, <2>7
    <2> HIDE DEF u
    <2>9. code = c \o (<<OP_RETURN>> \o u)
      <3>1. c \o <<OP_RETURN>> \o u = c \o (<<OP_RETURN>> \o u)
        <4>1. Associative(c, <<OP_RETURN>>, u)  BY <1>1, <1>r, <2>6, BytesAssociative
        <4> QED BY <4>1 DEF Associative
      <3> QED BY <2>8, <3>1, Zenon DEF a
    <2> QED BY <1>8, <2>6, <2>9
  <1>11. CASE more # <<>>
    <2> DEFINE u == t \o more
    <2>1. more \in Bytes /\ Len(more) > 0
      <3>1. 0 \in Byte /\ 1 \in Byte  BY DEF Byte
      <3>2. <<0>> \in Bytes /\ Len(<<0>>) = 1 /\ <<1>> \in Bytes /\ Len(<<1>>) = 1  BY <3>1, OneByteRead
      <3>3. more = <<0>> \/ more = <<1>>  BY <1>4, <1>11
      <3> QED BY <3>2, <3>3
    <2>2. u \in Bytes /\ ~deserializeState(q.fields, u).ok  BY <1>2, <1>e, <2>1, BytesConcat
    <2>3. code = whole \o more  BY <1>4, <1>11
    <2>4. code = c \o (<<OP_RETURN>> \o u)
      <3> DEFINE r == <<OP_RETURN>>
                 post == r \o t
      <3>1. r \in Bytes /\ post \in Bytes  BY <1>2, <1>r, BytesConcat
      <3>2. r \o t \o more = r \o (t \o more)
        <4>1. Associative(r, t, more)  BY <1>2, <2>1, <3>1, BytesAssociative
        <4> QED BY <4>1 DEF Associative
      <3>3. c \o post \o more = c \o (post \o more)
        <4>1. Associative(c, post, more)  BY <1>1, <2>1, <3>1, BytesAssociative
        <4> QED BY <4>1 DEF Associative
      <3> QED BY <1>3, <2>3, <3>2, <3>3, Zenon
    <2> HIDE DEF u
    <2> QED BY <1>8, <2>2, <2>4
  <1> QED BY <1>9, <1>10, <1>11

(* The object is what the constructor makes of some arguments.             *)
Constructed(q, object) == \E args \in ArgLists(q.params) : object = NewContract(q, args)
(* The inductive invariant: the script is that of the object, or a damaged *)
(* one, and what was loaded was loaded from it.                            *)
ScriptInv ==
  /\ IsProgram(program) /\ Constructed(program, deployed)
  /\ phase \in {"deployed", "loaded", "corrupt", "loaded corrupt"} =>
        Serializable(program.fields, deployed.state)
  /\ phase \in {"deployed", "loaded"} => script = getLockingScript(program, deployed)
  /\ phase \in {"corrupt", "loaded corrupt"} => Damaged(program, deployed, script)
  /\ phase \in {"loaded", "loaded corrupt"} => loaded = fromUtxo(program, script)

(* It holds at first,                                                      *)
LEMMA InitScript == Init => ScriptInv
  <1> SUFFICES ASSUME Init PROVE ScriptInv
    OBVIOUS
  <1>1. IsProgram(program)  BY DEF Init, IsProgram
  <1>2. Constructed(program, deployed)  BY DEF Init, Constructed
  <1>3. phase = "new"  BY DEF Init
  <1> QED BY <1>1, <1>2, <1>3 DEF ScriptInv

(* every step keeps it,                                                    *)
LEMMA NextScript == ScriptInv /\ [Next]_vars => ScriptInv'
  <1> SUFFICES ASSUME ScriptInv, [Next]_vars PROVE ScriptInv'
    OBVIOUS
  <1>1. CASE Deploy
    <2>1. program' = program /\ deployed' = deployed  BY <1>1 DEF Deploy
    <2>2. CASE Serializable(program.fields, deployed.state)
      <3>1. phase' = "deployed" /\ script' = getLockingScript(program, deployed)
        BY <1>1, <2>2 DEF Deploy
      <3> QED BY <2>1, <2>2, <3>1 DEF ScriptInv
    <2>3. CASE ~Serializable(program.fields, deployed.state)
      <3>1. phase' = "refused"  BY <1>1, <2>3 DEF Deploy
      <3> QED BY <2>1, <3>1 DEF ScriptInv
    <2> QED BY <2>2, <2>3
  <1>2. CASE Corrupt
    <2>1. program' = program /\ deployed' = deployed /\ phase = "deployed" /\ phase' = "corrupt"
      BY <1>2 DEF Corrupt
    <2>2. script = getLockingScript(program, deployed) /\ Serializable(program.fields, deployed.state)
      BY <2>1 DEF ScriptInv
    <2>3. Damaged(program, deployed, script')
      BY <1>2, <2>2 DEF Corrupt, Damaged
    <2> QED BY <2>1, <2>2, <2>3 DEF ScriptInv
  <1>3. CASE Load
    <2>1. /\ program' = program /\ deployed' = deployed /\ script' = script
          /\ loaded' = fromUtxo(program, script)
          /\ \/ phase = "deployed" /\ phase' = "loaded"
             \/ phase = "corrupt" /\ phase' = "loaded corrupt"
      BY <1>3 DEF Load
    <2> QED BY <2>1 DEF ScriptInv
  <1>4. CASE Call
    <2>1. program' = program /\ deployed' = deployed /\ phase' = "called"
      BY <1>4 DEF Call
    <2> QED BY <2>1 DEF ScriptInv
  <1>5. CASE UNCHANGED vars
    BY <1>5 DEF vars, ScriptInv
  <1> QED BY <1>1, <1>2, <1>3, <1>4, <1>5 DEF Next

(* so it always holds.                                                     *)
LEMMA ScriptInvHolds == Spec => []ScriptInv
  BY InitScript, NextScript, PTL DEF Spec

(* It implies StateRestored,                                               *)
LEMMA ScriptInvRestores == ScriptInv => StateRestored
  <1> SUFFICES ASSUME ScriptInv, phase = "loaded"
               PROVE  /\ loaded.ok /\ loaded.state = deployed.state
                      /\ loaded.codeScript = getCodePartHex(program, deployed)
                      /\ getLockingScript(program, loaded) = script
    BY DEF StateRestored
  <1>1. /\ IsProgram(program) /\ Serializable(program.fields, deployed.state)
        /\ script = getLockingScript(program, deployed) /\ loaded = fromUtxo(program, script)
    BY DEF ScriptInv
  <1>2. PICK args \in ArgLists(program.params) : deployed = NewContract(program, args)
    BY DEF ScriptInv, Constructed
  <1> QED BY <1>1, <1>2, DeployedRead

(* and FailsClosed.                                                        *)
LEMMA ScriptInvRefuses == ScriptInv => FailsClosed
  <1> SUFFICES ASSUME ScriptInv, phase = "loaded corrupt" PROVE ~loaded.ok
    BY DEF FailsClosed
  <1>1. /\ IsProgram(program) /\ Serializable(program.fields, deployed.state)
        /\ Damaged(program, deployed, script) /\ loaded = fromUtxo(program, script)
    BY DEF ScriptInv
  <1>2. PICK args \in ArgLists(program.params) : deployed = NewContract(program, args)
    BY DEF ScriptInv, Constructed
  <1> QED BY <1>1, <1>2, DamagedRead

(* An object made from a script by fromUtxo holds the state, the code part *)
(* and the locking script of the object that deployed it (contract.ts      *)
(* fromUtxo, state.ts findLastOpReturn and deserializeState): whatever     *)
(* bytes of OP_RETURN the pushes and the state contain.                    *)
THEOREM StateRestoredCorrect == Spec => []StateRestored
  BY ScriptInvHolds, ScriptInvRestores, PTL

(* A script whose state section lost bytes or got more is refused          *)
(* (state.ts deserializeState).                                            *)
THEOREM FailsClosedCorrect == Spec => []FailsClosed
  BY ScriptInvHolds, ScriptInvRefuses, PTL

-----------------------------------------------------------------------------
(* An argument is a header and its value.                                  *)
HeadOf(header, size) == IF header = 0 THEN <<>> ELSE PushHeader(size)

(* A byte in front.                                                        *)
LEMMA AfterByte ==
  ASSUME NEW op \in Byte, NEW rest \in Bytes
  PROVE  <<op>> \o rest \in Bytes /\ (<<op>> \o rest)[1] = op /\ Len(<<op>> \o rest) = 1 + Len(rest)
  BY DEF Bytes

(* The width of the header that is the length itself.                      *)
LEMMA DirectHeader ==
  ASSUME NEW s, s[1] \in 1..75, NEW type, type # "boolean" PROVE PushHeaderBytes(s, type) = 1
  <1> DEFINE b == s[1]
  <1>1. b \in 1..75 /\ b # 0 /\ b # 79 /\ b \notin 81..96  OBVIOUS
  <1>2. PushHeaderBytes(s, type) =
          CASE type = "boolean" \/ b = 0 -> 0
            [] type = "bigint" /\ b \in {79} \cup (81..96) -> 0
            [] type # "boolean" /\ b \in 1..75 -> 1
            [] type # "boolean" /\ b = 76 -> 2
            [] type # "boolean" /\ b = 77 -> 3
            [] OTHER -> 5
    BY DEF PushHeaderBytes
  <1> HIDE DEF b
  <1> QED BY <1>1, <1>2

(* The width of no header.                                                 *)
LEMMA OpcodeHeader ==
  ASSUME NEW s, NEW type,
         type = "boolean" \/ s[1] = 0 \/ (type = "bigint" /\ s[1] \in {79} \cup (81..96))
  PROVE  PushHeaderBytes(s, type) = 0
  <1> DEFINE b == s[1]
  <1>1. PushHeaderBytes(s, type) =
          CASE type = "boolean" \/ b = 0 -> 0
            [] type = "bigint" /\ b \in {79} \cup (81..96) -> 0
            [] type # "boolean" /\ b \in 1..75 -> 1
            [] type # "boolean" /\ b = 76 -> 2
            [] type # "boolean" /\ b = 77 -> 3
            [] OTHER -> 5
    BY DEF PushHeaderBytes
  <1>2. CASE type = "boolean" \/ b = 0
    <2> HIDE DEF b
    <2>1. ~(type # "boolean" /\ b \in 1..75) /\ ~(type # "boolean" /\ b = 76) /\ ~(type # "boolean" /\ b = 77)
      BY <1>2
    <2> QED BY <1>1, <1>2, <2>1
  <1>3. CASE type = "bigint" /\ b \in {79} \cup (81..96)
    <2> HIDE DEF b
    <2>1. b \notin 1..75 /\ b # 76 /\ b # 77  BY <1>3
    <2> QED BY <1>1, <1>3, <2>1
  <1> QED BY <1>2, <1>3

(* The width of a push header is what PushHeaderBytes says.                *)
LEMMA HeaderWidth ==
  ASSUME NEW d \in Bytes, d # <<>>, Len(d) <= MaxLength, NEW type \in {"bigint", "data"}
  PROVE  /\ PushHeaderBytes(PushHeader(Len(d)) \o d, type) = Len(PushHeader(Len(d)))
         /\ PushHeader(Len(d)) \in Bytes /\ Len(PushHeader(Len(d))) \in 1..5
         /\ PushHeader(Len(d)) \o d \in Bytes
         /\ Len(PushHeader(Len(d)) \o d) = Len(PushHeader(Len(d))) + Len(d)
  <1> DEFINE n == Len(d)
             h == PushHeader(n)
             s == h \o d
             b == s[1]
  <1>1. n \in Nat /\ n # 0 /\ n <= MaxLength
    <2>1. Len(d) \in Nat /\ Len(d) # 0  BY DEF Bytes
    <2> QED BY <2>1
  <1>2. h \in Bytes /\ Len(h) \in 1..5 /\ s \in Bytes  BY PushElement
  <1> HIDE DEF n
  <1>3. \/ h[1] \in 1..75 /\ Len(h) = 1
        \/ h[1] = 76 /\ Len(h) = 2
        \/ h[1] = 77 /\ Len(h) = 3
        \/ h[1] = 78 /\ Len(h) = 5
    <2>1. CASE n <= 75 /\ h = <<n>>
      <3>1. n \in 1..75  BY <1>1, <2>1
      <3>2. Len(<<n>>) = 1 /\ <<n>>[1] = n  OBVIOUS
      <3> QED BY <2>1, <3>1, <3>2
    <2>2. CASE \E op \in 76..78, le \in Bytes : h = <<op>> \o le /\ Len(le) = LengthBytes(op)
      <3>1. PICK op \in 76..78, le \in Bytes : h = <<op>> \o le /\ Len(le) = LengthBytes(op)
        BY <2>2
      <3>2. op \in Byte  BY DEF Byte
      <3>3. h[1] = op /\ Len(h) = 1 + Len(le)  BY <3>1, <3>2, AfterByte
      <3>4. \/ op = 76 /\ LengthBytes(op) = 1
            \/ op = 77 /\ LengthBytes(op) = 2
            \/ op = 78 /\ LengthBytes(op) = 4
        BY DEF LengthBytes
      <3> HIDE DEF h
      <3> QED BY <3>1, <3>3, <3>4
    <2> HIDE DEF h
    <2> QED BY <1>1, <2>1, <2>2, HeaderParts DEF h
  <1> HIDE DEF h
  <1>4. b = h[1] /\ Len(s) = Len(h) + n
    <2>1. Len(h) \in Nat /\ Len(h) >= 1  BY <1>2
    <2> QED BY <1>2, <2>1 DEF n, Bytes
  <1>5. PushHeaderBytes(s, type) =
          CASE type = "boolean" \/ b = 0 -> 0
            [] type = "bigint" /\ b \in {79} \cup (81..96) -> 0
            [] type # "boolean" /\ b \in 1..75 -> 1
            [] type # "boolean" /\ b = 76 -> 2
            [] type # "boolean" /\ b = 77 -> 3
            [] OTHER -> 5
    BY DEF PushHeaderBytes
  <1> HIDE DEF b, s
  <1>6. type # "boolean"  OBVIOUS
  <1>7. PushHeaderBytes(s, type) = Len(h)
    <2>1. CASE h[1] \in 1..75 /\ Len(h) = 1
      <3>1. b \in 1..75  BY <1>4, <2>1
      <3>4. PushHeaderBytes(s, type) = 1  BY <1>6, <3>1, DirectHeader DEF b
      <3> QED BY <2>1, <3>4
    <2>2. CASE h[1] = 76 /\ Len(h) = 2  BY <1>4, <1>5, <1>6, <2>2
    <2>3. CASE h[1] = 77 /\ Len(h) = 3  BY <1>4, <1>5, <1>6, <2>3
    <2>4. CASE h[1] = 78 /\ Len(h) = 5  BY <1>4, <1>5, <1>6, <2>4
    <2> QED BY <1>3, <2>1, <2>2, <2>3, <2>4
  <1> QED BY <1>2, <1>4, <1>7 DEF s, h, n

(* The lowest byte of a number below 256 is the number.                    *)
LEMMA LowByte == ASSUME NEW b \in Byte, ~(b >= 128) PROVE b \in 0..127
  BY DEF Byte

(* A number has as many bytes as its push, less the header.                *)
LEMMA SignedBytes ==
  ASSUME NEW n \in Int, n < -1 \/ n > 16
  PROVE  /\ SignMagnitude(n) \in Bytes /\ SignMagnitude(n) # <<>> /\ SignMagnitude(n) # <<129>>
         /\ ~(Len(SignMagnitude(n)) = 1 /\ SignMagnitude(n)[1] \in 1..16)
  <1> DEFINE m == Abs_(n)
             bytes == Magnitude[m]
             sign == IF n < 0 THEN 128 ELSE 0
             last == Last(bytes)
             s == SignMagnitude(n)
  <1>1. m \in Nat /\ m # 0 /\ (n < 0 => m >= 2) /\ (~(n < 0) => m > 16)
    BY DEF Abs_
  <1>2. s = IF last >= 128 THEN Append(bytes, sign) ELSE WithLast(bytes, last + sign)
    BY DEF SignMagnitude
  <1>3. bytes \in Bytes /\ Len(bytes) \in Nat /\ Len(bytes) > 0
    <2>1. m \in Nat /\ m # 0  BY <1>1
    <2> HIDE DEF m
    <2>2. bytes \in Bytes /\ Len(bytes) \in Nat  BY <2>1, MagnitudeType
    <2>3. Len(bytes) > 0  BY <2>1, MagnitudeBounds
    <2> QED BY <2>2, <2>3
  <1>4. s \in Bytes  BY <1>1, SignMagnitudeType DEF Abs_
  <1>5. last = bytes[Len(bytes)] /\ last \in Byte
    <2>1. Len(bytes) \in 1..Len(bytes)  BY <1>3
    <2> QED BY <1>3, <2>1, BytesFacts DEF Last
  <1>6. Len(bytes) = 1 => last = m
    <2>1. bytes = <<m % 256>> \o Magnitude[m \div 256]
      <3>1. m \in Nat /\ m # 0  BY <1>1
      <3> HIDE DEF m
      <3> QED BY <3>1, MagnitudeFacts
    <2> DEFINE q == m \div 256
               rest == Magnitude[q]
    <2>2. q \in Nat /\ m % 256 \in Byte /\ m = (m % 256) + 256 * q  BY <1>1, Divided
    <2>3. rest \in Bytes /\ (q # 0 => Len(rest) > 0) /\ Len(rest) \in Nat
      <3>1. q \in Nat  BY <2>2
      <3> HIDE DEF q
      <3>2. rest \in Bytes /\ Len(rest) \in Nat  BY <3>1, MagnitudeType
      <3>3. q # 0 => Len(rest) > 0  BY <3>1, MagnitudeBounds
      <3> QED BY <3>2, <3>3
    <2> HIDE DEF q, rest, m
    <2>4. Len(<<m % 256>> \o rest) = 1 + Len(rest) /\ (<<m % 256>> \o rest)[1] = m % 256
      BY <2>2, <2>3 DEF Bytes
    <2>5. Len(bytes) = 1 + Len(rest) /\ bytes[1] = m % 256
      BY <2>1, <2>4 DEF rest, q
    <2> HIDE DEF bytes
    <2>6. Len(bytes) = 1 => Len(rest) = 0
      <3> DEFINE x == Len(bytes)
                 y == Len(rest)
      <3>1. y \in Nat /\ x = 1 + y  BY <2>3, <2>5
      <3> HIDE DEF x, y
      <3>2. x = 1 => y = 0  BY <3>1
      <3> QED BY <3>2 DEF x, y
    <2>7. Len(bytes) = 1 => q = 0  BY <2>2, <2>3, <2>6
    <2>8. Len(bytes) = 1 => m = m % 256  BY <1>1, <2>2, <2>7
    <2> QED BY <1>5, <2>5, <2>8
  <1>9. sign \in {0, 128} /\ (n < 0 => sign = 128)  OBVIOUS
  <1> HIDE DEF bytes, last, m, sign
  <1>7. CASE last >= 128
    <2>1. s = Append(bytes, sign) /\ sign \in Byte  BY <1>2, <1>7, <1>9 DEF Byte
    <2>2. Len(s) = Len(bytes) + 1  BY <1>3, <2>1 DEF Bytes
    <2> HIDE DEF s
    <2>3. Len(s) # 0 /\ Len(s) # 1  BY <1>3, <2>2
    <2> QED BY <1>4, <2>3 DEF s
  <1>8. CASE ~(last >= 128)
    <2>a. last \in 0..127  BY <1>5, <1>8, LowByte
    <2>1. last + sign \in Byte  BY <1>9, <2>a DEF Byte
    <2>2. s = WithLast(bytes, last + sign)  BY <1>2, <1>8
    <2>3. Len(s) = Len(bytes) /\ s[Len(bytes)] = last + sign  BY <1>3, <2>1, <2>2, WithLastFacts
    <2> HIDE DEF s
    <2>4. Len(s) = 1 => s[1] \notin 1..16 /\ s[1] # 129
      <3>1. Len(s) = 1 => s[1] = m + sign /\ m < 128  BY <1>5, <1>6, <1>8, <2>3 DEF Byte
      <3> QED BY <1>1, <1>9, <3>1
    <2>5. s # <<129>> /\ s # <<>>
      <3>1. Len(<<129>>) = 1 /\ <<129>>[1] = 129 /\ Len(<<>>) = 0  OBVIOUS
      <3> QED BY <1>3, <2>3, <2>4, <3>1
    <2> QED BY <1>4, <2>4, <2>5 DEF s
  <1> QED BY <1>7, <1>8

(* The push of a value is a header of PushHeaderBytes bytes and the bytes  *)
(* of the value.                                                           *)
Splits(value) ==
  LET s == encodeArg(value)
      h == PushHeaderBytes(s, value.type)
      v == ValueBytes(value)
  IN  /\ h \in 0..5 /\ v \in Bytes /\ HeadOf(h, Len(v)) \in Bytes /\ Len(HeadOf(h, Len(v))) = h
      /\ s = HeadOf(h, Len(v)) \o v

(* The byte that OP_1NEGATE pushes.                                        *)
MinusOneByte == <<129>>

(* A header and a value that is not empty are more than one byte.          *)
LEMMA NotAlone ==
  ASSUME NEW w \in 1..5, NEW n \in Nat, n # 0
  PROVE  w + n # 1
  OBVIOUS

(* A push with a header splits so.                                         *)
LEMMA PushSplits ==
  ASSUME NEW d \in Bytes, d # <<>>, d # MinusOneByte, ~(Len(d) = 1 /\ d[1] \in 1..16),
         Len(encodePushData(d)) <= MaxLength,
         NEW value \in Value, value.type \in {"bigint", "data"}, encodeArg(value) = encodePushData(d),
         ~PushedByOpcode(value) => ValueBytes(value) = d
  PROVE  Splits(value)
  <1> DEFINE type == value.type
             h == PushHeader(Len(d))
             s == h \o d
  <1>0. h = PushHeader(Len(d))  OBVIOUS
  <1>1. encodePushData(d) = s  BY DEF encodePushData, MinusOneByte
  <1>2. Len(d) <= MaxLength /\ Len(d) \in Nat /\ Len(d) # 0
    <2>1. Len(encodePushData(d)) \in Nat /\ Len(d) \in Nat  BY PushSize, BytesFacts
    <2>2. Len(d) # 0  BY DEF Bytes
    <2> QED BY <2>1, <2>2, PushSize, MaxLengthNat
  <1>3. /\ PushHeaderBytes(s, type) = Len(h) /\ h \in Bytes /\ Len(h) \in 1..5
        /\ s \in Bytes /\ Len(s) = Len(h) + Len(d)
    BY <1>2, HeaderWidth
  <1>4. encodeArg(value) = s  BY <1>1
  <1> HIDE DEF h, s
  <1>5. ~PushedByOpcode(value)
    <2>1. Len(s) # 1
      <3>2. Len(h) \in 1..5 /\ Len(d) \in Nat /\ Len(d) # 0 /\ Len(s) = Len(h) + Len(d)
        BY <1>2, <1>3, Zenon
      <3> QED BY <3>2, NotAlone, Zenon
    <2> QED BY <1>4, <2>1 DEF PushedByOpcode
  <1>6. ValueBytes(value) = d  BY <1>5, Zenon
  <1>8. Len(h) \in 0..5 /\ Len(h) # 0
    <2> DEFINE width == Len(h)
    <2>1. width \in 1..5  BY <1>3, Zenon
    <2> HIDE DEF width
    <2>2. width \in 0..5 /\ width # 0
      <3>1. ASSUME NEW w \in 1..5 PROVE w \in 0..5 /\ w # 0  BY SMT
      <3> QED BY <2>1, <3>1, Zenon
    <2> QED BY <2>2 DEF width
  <1>7. HeadOf(Len(h), Len(d)) = h
    <2> DEFINE size == Len(d)
    <2>1. Len(h) # 0  BY <1>8
    <2>2. h = PushHeader(size)  BY <1>0, Zenon
    <2> HIDE DEF size
    <2>3. HeadOf(Len(h), size) = PushHeader(size)  BY <2>1 DEF HeadOf
    <2> QED BY <2>2, <2>3 DEF size
  <1> QED BY <1>3, <1>4, <1>6, <1>7, <1>8 DEF Splits, s

(* A value pushed by an opcode alone splits so.                            *)
LEMMA OpcodeSplits ==
  ASSUME NEW value \in Value, NEW byte \in Byte, encodeArg(value) = <<byte>>,
         value.type = "boolean" \/ byte = 0 \/ (value.type = "bigint" /\ byte \in {79} \cup (81..96))
  PROVE  Splits(value)
  <1> DEFINE s == <<byte>>
  <1>1. s \in Bytes /\ Len(s) = 1 /\ s[1] = byte /\ <<>> \in Bytes /\ Len(<<>>) = 0
    BY OneByteRead, CleanEmpty DEF Clean
  <1>2. <<>> \o s = s  BY <1>1 DEF Bytes
  <1> HIDE DEF s
  <1>3. PushHeaderBytes(s, value.type) = 0  BY <1>1, OpcodeHeader
  <1>4. encodeArg(value) = s  BY DEF s
  <1>5. ValueBytes(value) = s  BY <1>1, <1>4 DEF PushedByOpcode, ValueBytes
  <1>6. HeadOf(0, Len(s)) = <<>>  BY DEF HeadOf
  <1>7. 0 \in 0..5  OBVIOUS
  <1> QED BY <1>1, <1>2, <1>3, <1>4, <1>5, <1>6, <1>7 DEF Splits

(* Every argument splits so, but for those that ByteByOpcode names.        *)
LEMMA ArgSplits ==
  ASSUME NEW value \in Value, Short(value), ~ByteByOpcode(value)
  PROVE  Splits(value)
  <1>1. CASE value.type = "boolean"
    <2>1. encodeArg(value) = <<81>> \/ encodeArg(value) = <<0>>  BY <1>1 DEF encodeArg
    <2>2. 81 \in Byte /\ 0 \in Byte  BY DEF Byte
    <2> QED BY <1>1, <2>1, <2>2, OpcodeSplits
  <1>2. CASE value.type = "data"
    <2> DEFINE d == value.bytes
    <2>1. d \in Bytes  BY <1>2 DEF Value, Bytes
    <2>2. encodeArg(value) = encodePushData(d)  BY <1>2 DEF encodeArg
    <2>3. CASE d = <<>>
      <3>1. encodeArg(value) = <<0>>  BY <2>2, <2>3 DEF encodePushData
      <3>2. 0 \in Byte  BY DEF Byte
      <3> QED BY <1>2, <3>1, <3>2, OpcodeSplits
    <2>4. CASE d # <<>>
      <3>1. ~PushedByOpcode(value)  BY <1>2, <2>4 DEF ByteByOpcode
      <3>2. ValueBytes(value) = d  BY <1>2, <3>1 DEF ValueBytes
      <3>3. Len(encodePushData(d)) # 1  BY <2>2, <3>1 DEF PushedByOpcode
      <3>4. d # <<129>>
        <4>1. d = <<129>> => encodePushData(d) = <<79>>  BY DEF encodePushData
        <4> QED BY <3>3, <4>1
      <3>5. ~(Len(d) = 1 /\ d[1] \in 1..16)
        <4>1. Len(d) = 1 /\ d[1] \in 1..16 => encodePushData(d) = <<80 + d[1]>>
          BY <2>4, <3>4 DEF encodePushData
        <4> QED BY <3>3, <4>1
      <3>6. Len(encodePushData(d)) <= MaxLength  BY <2>2 DEF Short
      <3> HIDE DEF d
      <3> QED BY <1>2, <2>1, <2>2, <2>4, <3>2, <3>4, <3>5, <3>6, PushSplits DEF MinusOneByte
    <2> QED BY <2>3, <2>4
  <1>3. CASE value.type = "bigint"
    <2> DEFINE n == value.n
               d == SignMagnitude(n)
    <2>1. n \in Int  BY <1>3 DEF Value
    <2>2. encodeArg(value) = encodeScriptNumber(n)  BY <1>3 DEF encodeArg
    <2> HIDE DEF n
    <2>3. CASE n = 0
      <3>1. encodeArg(value) = <<0>>  BY <2>2, <2>3 DEF encodeScriptNumber
      <3>2. 0 \in Byte  BY DEF Byte
      <3> QED BY <1>3, <3>1, <3>2, OpcodeSplits
    <2>4. CASE n \in 1..16
      <3>1. encodeArg(value) = <<80 + n>>  BY <2>2, <2>4 DEF encodeScriptNumber
      <3>2. 80 + n \in Byte /\ 80 + n \in 81..96  BY <2>4 DEF Byte
      <3> QED BY <1>3, <3>1, <3>2, OpcodeSplits
    <2>5. CASE n = -1
      <3>1. encodeArg(value) = <<79>>  BY <2>2, <2>5 DEF encodeScriptNumber
      <3>2. 79 \in Byte  BY DEF Byte
      <3> QED BY <1>3, <3>1, <3>2, OpcodeSplits
    <2>6. CASE n < -1 \/ n > 16
      <3>1. d \in Bytes /\ d # <<>> /\ d # <<129>> /\ ~(Len(d) = 1 /\ d[1] \in 1..16)
        BY <2>1, <2>6, SignedBytes
      <3>2. encodeArg(value) = encodePushData(d)
        <4>1. n # 0 /\ ~(n \in 1..16) /\ n # -1  BY <2>1, <2>6
        <4> QED BY <2>2, <4>1 DEF encodeScriptNumber
      <3>3. ~PushedByOpcode(value) => ValueBytes(value) = d  BY <1>3 DEF ValueBytes, n
      <3>4. Len(encodePushData(d)) <= MaxLength  BY <3>2 DEF Short
      <3> HIDE DEF d
      <3> QED BY <1>3, <3>1, <3>2, <3>3, <3>4, PushSplits DEF MinusOneByte
    <2> QED BY <2>1, <2>3, <2>4, <2>5, <2>6
  <1> QED BY <1>1, <1>2, <1>3 DEF Value

-----------------------------------------------------------------------------
(* Where a substitution ends up.                                           *)
Alike(code, c, x, y) == x = y /\ \E X \in Bytes : x = SubSeq(code, 1, c) \o X
(* Codes that differ in one part only, a in one and b in the other, at d - *)
(* c behind the first c bytes.                                             *)
Around(code, c, d, a, b, x, y) ==
  \E X, Z \in Bytes : /\ Len(X) + c = d
                      /\ x = SubSeq(code, 1, c) \o (X \o (a \o Z))
                      /\ y = SubSeq(code, 1, c) \o (X \o (b \o Z))

(* Bytes put in a hole stay behind what is in front of it.                 *)
PutsBehind(code, sub, c, x) ==
  Put(sub, SubSeq(code, 1, sub.offset + 1) \o x)
    = SubSeq(code, 1, c) \o (SubSeq(code, c + 1, sub.offset) \o (sub.bytes \o x))

LEMMA PutOne ==
  ASSUME NEW code \in Bytes, NEW sub \in Subs, sub.offset < Len(code), NEW c \in 0..sub.offset,
         NEW x \in Bytes
  PROVE  PutsBehind(code, sub, c, x)
  BY PutAfter DEF PutsBehind

(* The same for all that may come behind the hole.                         *)
LEMMA PutBehind ==
  ASSUME NEW code \in Bytes, NEW sub \in Subs, sub.offset < Len(code), NEW c \in 0..sub.offset
  PROVE  /\ SubSeq(code, c + 1, sub.offset) \in Bytes
         /\ Len(SubSeq(code, c + 1, sub.offset)) = sub.offset - c
         /\ \A x \in Bytes : Put(sub, SubSeq(code, 1, sub.offset + 1) \o x)
                             = SubSeq(code, 1, c) \o (SubSeq(code, c + 1, sub.offset) \o (sub.bytes \o x))
  <1>1. <<>> \in Bytes  BY DEF Bytes
  <1> DEFINE mid == SubSeq(code, c + 1, sub.offset)
             Puts(x) == Put(sub, SubSeq(code, 1, sub.offset + 1) \o x)
                        = SubSeq(code, 1, c) \o (mid \o (sub.bytes \o x))
  <1>2. ASSUME NEW x \in Bytes PROVE mid \in Bytes /\ Len(mid) = sub.offset - c /\ Puts(x)
    BY PutAfter
  <1> HIDE DEF mid, Puts
  <1>3. mid \in Bytes /\ Len(mid) = sub.offset - c  BY <1>1, <1>2
  <1>4. \A x \in Bytes : Puts(x)  BY <1>2
  <1> QED BY <1>3, <1>4 DEF mid, Puts

(* Equal bytes in front keep codes alike.                                  *)
LEMMA AlikeStep ==
  ASSUME NEW code \in Bytes, NEW sub \in Subs, sub.offset < Len(code), NEW c \in 0..sub.offset,
         NEW x, NEW y, Alike(code, sub.offset + 1, x, y)
  PROVE  Alike(code, c, Put(sub, x), Put(sub, y))
  <1>1. PICK X \in Bytes : x = SubSeq(code, 1, sub.offset + 1) \o X  BY DEF Alike
  <1> DEFINE mid == SubSeq(code, c + 1, sub.offset)
             more == mid \o (sub.bytes \o X)
  <1>2. mid \in Bytes /\ Put(sub, x) = SubSeq(code, 1, c) \o more
    <2>1. /\ SubSeq(code, c + 1, sub.offset) \in Bytes
          /\ Put(sub, SubSeq(code, 1, sub.offset + 1) \o X)
             = SubSeq(code, 1, c) \o (SubSeq(code, c + 1, sub.offset) \o (sub.bytes \o X))
      BY PutBehind
    <2> QED BY <1>1, <2>1
  <1>3. sub.bytes \in Bytes  BY DEF Subs
  <1> HIDE DEF mid
  <1>4. more \in Bytes  BY <1>2, <1>3, BytesConcat
  <1>5. x = y  BY DEF Alike
  <1> HIDE DEF more
  <1> QED BY <1>2, <1>4, <1>5 DEF Alike

(* The two bytes that differ.                                              *)
LEMMA AroundStart ==
  ASSUME NEW code \in Bytes, NEW sub \in Subs, sub.offset < Len(code), NEW c \in 0..sub.offset,
         NEW sub2 \in Subs, sub2.offset = sub.offset,
         NEW x, NEW y, Alike(code, sub.offset + 1, x, y)
  PROVE  Around(code, c, sub.offset, sub.bytes, sub2.bytes, Put(sub, x), Put(sub2, y))
  <1>1. PICK X \in Bytes : x = SubSeq(code, 1, sub.offset + 1) \o X /\ x = y  BY DEF Alike
  <1> DEFINE o == sub.offset
             mid == SubSeq(code, c + 1, o)
  <1>2. /\ mid \in Bytes /\ Len(mid) = o - c
        /\ Put(sub, x) = SubSeq(code, 1, c) \o (mid \o (sub.bytes \o X))
    <2>1. /\ SubSeq(code, c + 1, sub.offset) \in Bytes
          /\ Len(SubSeq(code, c + 1, sub.offset)) = sub.offset - c
          /\ Put(sub, SubSeq(code, 1, sub.offset + 1) \o X)
             = SubSeq(code, 1, c) \o (SubSeq(code, c + 1, sub.offset) \o (sub.bytes \o X))
      BY PutBehind
    <2> QED BY <1>1, <2>1
  <1>3. sub2.offset < Len(code) /\ c \in 0..sub2.offset  OBVIOUS
  <1>4. Put(sub2, y) = SubSeq(code, 1, c) \o (mid \o (sub2.bytes \o X))
    <2>1. Put(sub2, SubSeq(code, 1, sub2.offset + 1) \o X)
          = SubSeq(code, 1, c) \o (SubSeq(code, c + 1, sub2.offset) \o (sub2.bytes \o X))
      BY <1>3, PutBehind
    <2> QED BY <1>1, <2>1
  <1>5. o \in Nat  BY DEF Subs
  <1>6. c \in 0..o  OBVIOUS
  <1> HIDE DEF mid, o
  <1>7. Len(mid) + c = o  BY <1>2, <1>5, <1>6
  <1>8. Around(code, c, o, sub.bytes, sub2.bytes, Put(sub, x), Put(sub2, y))
    BY <1>2, <1>4, <1>7 DEF Around
  <1> QED BY <1>8 DEF o

(* What Regroup says.                                                      *)
Regrouped(m, s, X, a, Z) ==
  /\ m \o (s \o X) \in Bytes /\ Len(m \o (s \o X)) = Len(m) + (Len(s) + Len(X))
  /\ m \o (s \o (X \o (a \o Z))) = (m \o (s \o X)) \o (a \o Z)

(* Four parts, grouped in another way.                                     *)
LEMMA Regroup ==
  ASSUME NEW m \in Bytes, NEW s \in Bytes, NEW X \in Bytes, NEW a \in Bytes, NEW Z \in Bytes
  PROVE  Regrouped(m, s, X, a, Z)
  <1> DEFINE t == a \o Z
             u == s \o X
  <1>1. t \in Bytes /\ u \in Bytes /\ Len(u) = Len(s) + Len(X)  BY BytesConcat
  <1>2. u \o t = s \o (X \o t)
    <2> HIDE DEF t
    <2>1. Associative(s, X, t)  BY <1>1, BytesAssociative
    <2> QED BY <2>1 DEF Associative, u
  <1> HIDE DEF t, u
  <1>3. (m \o u) \o t = m \o (u \o t)
    <2>1. Associative(m, u, t)  BY <1>1, BytesAssociative
    <2> QED BY <2>1 DEF Associative
  <1>4. m \o u \in Bytes /\ Len(m \o u) = Len(m) + Len(u)  BY <1>1, BytesConcat
  <1> QED BY <1>1, <1>2, <1>3, <1>4 DEF t, u, Regrouped

(* Equal bytes in front of those that differ.                              *)
LEMMA AroundStep ==
  ASSUME NEW code \in Bytes, NEW sub \in Subs, sub.offset < Len(code), NEW c \in 0..sub.offset,
         NEW d \in Int, NEW a \in Bytes, NEW b \in Bytes,
         NEW x, NEW y, Around(code, sub.offset + 1, d, a, b, x, y)
  PROVE  Around(code, c, d + Expansion(sub.bytes), a, b, Put(sub, x), Put(sub, y))
  <1> DEFINE o == sub.offset
             s == sub.bytes
             mid == SubSeq(code, c + 1, o)
  <1>1. PICK X \in Bytes, Z \in Bytes :
            /\ Len(X) + (o + 1) = d
            /\ x = SubSeq(code, 1, o + 1) \o (X \o (a \o Z))
            /\ y = SubSeq(code, 1, o + 1) \o (X \o (b \o Z))
    BY DEF Around
  <1> DEFINE more == mid \o (s \o X)
             left == SubSeq(code, 1, c)
  <1>2. X \o (a \o Z) \in Bytes /\ X \o (b \o Z) \in Bytes
    BY BytesConcat
  <1>3. /\ mid \in Bytes /\ Len(mid) = o - c
        /\ Put(sub, x) = left \o (mid \o (s \o (X \o (a \o Z))))
    <2> DEFINE w == X \o (a \o Z)
    <2>1. w \in Bytes /\ x = SubSeq(code, 1, sub.offset + 1) \o w  BY <1>1, <1>2
    <2> HIDE DEF w
    <2>3. /\ SubSeq(code, c + 1, sub.offset) \in Bytes
          /\ Len(SubSeq(code, c + 1, sub.offset)) = sub.offset - c
          /\ Put(sub, SubSeq(code, 1, sub.offset + 1) \o w)
             = SubSeq(code, 1, c) \o (SubSeq(code, c + 1, sub.offset) \o (sub.bytes \o w))
      <3>1. PutsBehind(code, sub, c, w)  BY <2>1, PutOne
      <3>3. /\ SubSeq(code, c + 1, sub.offset) \in Bytes
            /\ Len(SubSeq(code, c + 1, sub.offset)) = sub.offset - c
        BY PutBehind
      <3> QED BY <3>1, <3>3 DEF PutsBehind
    <2>2. /\ mid \in Bytes /\ Len(mid) = o - c /\ Put(sub, x) = left \o (mid \o (s \o w))
      BY <2>1, <2>3
    <2> QED BY <2>2 DEF w
  <1>4. Put(sub, y) = left \o (mid \o (s \o (X \o (b \o Z))))
    <2> DEFINE w == X \o (b \o Z)
    <2>1. w \in Bytes /\ y = SubSeq(code, 1, sub.offset + 1) \o w  BY <1>1, <1>2
    <2> HIDE DEF w
    <2>3. Put(sub, SubSeq(code, 1, sub.offset + 1) \o w)
          = SubSeq(code, 1, c) \o (SubSeq(code, c + 1, sub.offset) \o (sub.bytes \o w))
      <3>1. PutsBehind(code, sub, c, w)  BY <2>1, PutOne
      <3> QED BY <3>1 DEF PutsBehind
    <2>2. Put(sub, y) = left \o (mid \o (s \o w))
      BY <2>1, <2>3
    <2> QED BY <2>2 DEF w
  <1>5. s \in Bytes /\ o \in Nat /\ c \in 0..o /\ Len(s) \in Nat /\ Len(X) \in Nat
    <2>1. s \in Bytes /\ o \in Nat  BY DEF Subs
    <2> QED BY <2>1, BytesFacts
  <1> HIDE DEF mid, left, o, s
  <1>6. /\ more \in Bytes /\ Len(more) = Len(mid) + (Len(s) + Len(X))
        /\ Put(sub, x) = left \o (more \o (a \o Z)) /\ Put(sub, y) = left \o (more \o (b \o Z))
    <2>1. Regrouped(mid, s, X, a, Z) /\ Regrouped(mid, s, X, b, Z)
      BY <1>3, <1>5, Regroup
    <2> QED BY <1>3, <1>4, <2>1 DEF Regrouped
  <1> HIDE DEF more
  <1>7. Len(more) + c = d + (Len(s) - 1)
    BY <1>1, <1>3, <1>5, <1>6
  <1>8. Around(code, c, d + (Len(s) - 1), a, b, Put(sub, x), Put(sub, y))
    BY <1>6, <1>7 DEF Around, left
  <1> QED BY <1>8 DEF Expansion, s

(* A function with integers for values on S.                               *)
Integers(v, S) == \A y \in S : v[y] \in Int

(* A sum with one more element.                                            *)
SumsTo(v, S, x) == Sum(v, S \cup {x}) = Sum(v, S) + v[x]

(* SumAdd, for sums of this form.                                          *)
LEMMA SumAnother ==
  ASSUME NEW S, IsFiniteSet(S), NEW v, NEW x, x \notin S, Integers(v, S), v[x] \in Int
  PROVE  SumsTo(v, S, x)
  <1>1. \A y \in S \cup {x} : v[y] \in Int  BY DEF Integers
  <1>2. Sum(v, S \cup {x}) = Sum(v, S) + v[x]  BY <1>1, SumAdd
  <1> QED BY <1>2 DEF SumsTo

(* Two splices that differ in the bytes of one hole differ there and       *)
(* nowhere else.                                                           *)
LEMMA SplicePair ==
  ASSUME NEW code \in Bytes, NEW subs \in Seq(Subs), Apart(subs),
         \A j \in DOMAIN subs : subs[j].offset < Len(code),
         NEW subs2 \in Seq(Subs), DOMAIN subs2 = DOMAIN subs,
         NEW i \in DOMAIN subs, subs2[i].offset = subs[i].offset,
         \A j \in DOMAIN subs \ {i} : subs2[j] = subs[j]
  PROVE  Around(code, 0, subs[i].offset + ShiftBefore(subs, subs[i].offset),
                subs[i].bytes, subs2[i].bytes, Splice(code, subs), Splice(code, subs2))
  <1> DEFINE D == SUBSET DOMAIN subs
             o == subs[i].offset
             a == subs[i].bytes
             b == subs2[i].bytes
             v == [j \in DOMAIN subs |-> Expansion(subs[j].bytes)]
             Lower(T) == {j \in T : subs[j].offset < o}
             d(T) == o + Sum(v, Lower(T))
  <1>1. PICK f : SplicedBy(code, subs, f) /\ Splice(code, subs) = f[DOMAIN subs]
    BY SpliceSteps
  <1>2. PICK g : SplicedBy(code, subs2, g) /\ Splice(code, subs2) = g[DOMAIN subs]
    <2>1. \E g : SplicedBy(code, subs2, g) /\ Splice(code, subs2) = g[DOMAIN subs2]
      BY SpliceSteps
    <2> QED BY <2>1
  <1>3. \A j \in DOMAIN subs : /\ subs[j] \in Subs /\ subs2[j] \in Subs
                               /\ subs[j].offset \in Nat /\ subs2[j].offset = subs[j].offset
    <2>1. \A j \in DOMAIN subs : subs[j] \in Subs /\ subs2[j] \in Subs  OBVIOUS
    <2>2. \A j \in DOMAIN subs : subs[j].offset \in Nat  BY SubsFacts
    <2> QED BY <2>1, <2>2
  <1>4. \A T \in D : \A k \in T : First(subs, T, k) => First(subs2, T, k)
    BY <1>3 DEF First
  <1>5. \A T \in D : \A k \in T : First(subs, T, k) => /\ f[T] = Put(subs[k], f[T \ {k}])
                                                       /\ g[T] = Put(subs2[k], g[T \ {k}])
    BY <1>1, <1>2, <1>4 DEF SplicedBy
  <1>6. f[{}] = code /\ g[{}] = code  BY <1>1, <1>2 DEF SplicedBy
  <1>7. a \in Bytes /\ b \in Bytes /\ o \in Nat /\ o < Len(code) /\ Len(code) \in Nat
    BY <1>3, BytesFacts DEF Subs
  <1>8. \A j \in DOMAIN subs : v[j] \in Int
    <2> TAKE j \in DOMAIN subs
    <2>1. subs[j].bytes \in Bytes  BY SubsFacts
    <2>2. Len(subs[j].bytes) \in Nat  BY <2>1, BytesFacts
    <2> QED BY <2>2 DEF Expansion
  <1>a. \A j \in DOMAIN subs : v[j] = Expansion(subs[j].bytes)  OBVIOUS
  <1> HIDE DEF v
  <1>9. \A T \in D : IsFiniteSet(Lower(T)) /\ d(T) \in Int
    <2> TAKE T \in D
    <2>1. IsFiniteSet(T)  BY SubsFacts
    <2> DEFINE L == Lower(T)
    <2>2. L \in SUBSET T  OBVIOUS
    <2> HIDE DEF L
    <2>3. IsFiniteSet(L)  BY <2>1, <2>2, FS_Subset
    <2>4. \A j \in L : v[j] \in Int  BY <1>8, <2>2
    <2>5. Sum(v, L) \in Int  BY <2>3, <2>4, SumType
    <2> QED BY <1>7, <2>3, <2>5 DEF L
  <1> DEFINE Good(T, c) == IF i \in T THEN Around(code, c, d(T), a, b, f[T], g[T])
                           ELSE Alike(code, c, f[T], g[T])
             P == {T \in D : \A c \in 0..Len(code) : (\A j \in T : c <= subs[j].offset) => Good(T, c)}
  <1>10. {} \in P
    <2>1. ASSUME NEW c \in 0..Len(code) PROVE Alike(code, c, code, code)
      <3>1. /\ code = SubSeq(code, 1, c) \o SubSeq(code, c + 1, Len(code))
            /\ SubSeq(code, c + 1, Len(code)) \in Bytes
        BY Cut DEF Bytes
      <3> QED BY <3>1 DEF Alike
    <2>2. {} \in D  OBVIOUS
    <2> HIDE DEF D
    <2>3. \A c \in 0..Len(code) : Good({}, c)  BY <1>6, <2>1
    <2> HIDE DEF Good
    <2> QED BY <2>2, <2>3
  <1>11. ASSUME NEW T \in D, NEW k \in T, First(subs, T, k), T \ {k} \in P PROVE T \in P
    <2>1. SUFFICES ASSUME NEW c \in 0..Len(code), \A j \in T : c <= subs[j].offset
                   PROVE  Good(T, c)
      OBVIOUS
    <2> DEFINE U == T \ {k}
               sub == subs[k]
               e == sub.offset + 1
    <2>2. /\ sub \in Subs /\ sub.offset \in Nat /\ sub.offset < Len(code) /\ c \in 0..sub.offset
          /\ e \in 0..Len(code)
      BY <1>3, <1>7, <2>1
    <2>3. \A j \in U : e <= subs[j].offset
      <3> TAKE j \in U
      <3>1. sub.offset < subs[j].offset  BY <1>11 DEF First
      <3> QED BY <1>3, <3>1
    <2>4. Good(U, e)
      <3> HIDE DEF Good, U, e
      <3>1. U \in P  BY <1>11 DEF U
      <3> QED BY <2>2, <2>3, <3>1
    <2>5. f[T] = Put(sub, f[U]) /\ g[T] = Put(subs2[k], g[U])  BY <1>5, <1>11
    <2>6. CASE i \notin T
      <3>1. Alike(code, e, f[U], g[U])  BY <2>4, <2>6
      <3>2. subs2[k] = sub  BY <2>6
      <3> HIDE DEF U, sub
      <3>3. Alike(code, c, Put(sub, f[U]), Put(sub, g[U]))  BY <2>2, <3>1, AlikeStep
      <3> QED BY <2>5, <2>6, <3>2, <3>3
    <2>7. CASE k = i
      <3>1. Alike(code, e, f[U], g[U])  BY <2>4, <2>7
      <3> DEFINE sub2 == subs2[k]
      <3>2. sub2 \in Subs /\ sub2.offset = sub.offset  BY <1>3
      <3>4. d(T) = o
        <4>1. Lower(T) = {}
          <5>1. \A j \in T : ~(subs[j].offset < o)
            <6> TAKE j \in T
            <6>1. j = k \/ o < subs[j].offset  BY <1>11, <2>7 DEF First
            <6> QED BY <1>3, <2>7, <6>1
          <5> QED BY <5>1
        <4>2. Sum(v, {}) = 0  BY SumEmpty
        <4>3. Sum(v, Lower(T)) = 0  BY <4>1, <4>2
        <4> HIDE DEF Lower, o
        <4> QED BY <1>7, <4>3
      <3>5. sub.bytes = a /\ sub2.bytes = b /\ sub.offset = o  BY <2>7
      <3> HIDE DEF U, sub, sub2
      <3>3. Around(code, c, sub.offset, sub.bytes, sub2.bytes, Put(sub, f[U]), Put(sub2, g[U]))
        BY <2>2, <3>1, <3>2, AroundStart
      <3> QED BY <2>5, <2>7, <3>3, <3>4, <3>5 DEF sub2
    <2>8. CASE i \in T /\ k # i
      <3>1. Around(code, e, d(U), a, b, f[U], g[U])  BY <2>4, <2>8
      <3>2. subs2[k] = sub  BY <2>8
      <3>3. d(T) = d(U) + Expansion(sub.bytes)
        <4> DEFINE L == Lower(U)
        <4>1. sub.offset < o  BY <1>11, <2>8 DEF First
        <4>2. Lower(T) = L \cup {k} /\ k \notin L  BY <4>1
        <4>3. IsFiniteSet(L) /\ \A j \in L \cup {k} : v[j] \in Int  BY <1>8, <1>9
        <4> HIDE DEF L
        <4>4. Sum(v, L \cup {k}) = Sum(v, L) + v[k]
          <5> HIDE DEF D, U, sub, e, P, Good, d, o, a, b
          <5>1. IsFiniteSet(L) /\ k \notin L /\ \A j \in L \cup {k} : v[j] \in Int  BY <4>2, <4>3
          <5>2. Integers(v, L) /\ v[k] \in Int  BY <5>1 DEF Integers
          <5>3. SumsTo(v, L, k)  BY <5>1, <5>2, SumAnother
          <5> QED BY <5>3 DEF SumsTo
        <4>5. Sum(v, L) \in Int /\ v[k] \in Int  BY <4>3, SumType
        <4>6. v[k] = Expansion(sub.bytes)  BY <1>a
        <4>7. d(T) = o + Sum(v, Lower(T)) /\ d(U) = o + Sum(v, L)  BY DEF L
        <4>8. Sum(v, Lower(T)) = Sum(v, L) + Expansion(sub.bytes)  BY <4>2, <4>4, <4>6
        <4>9. Expansion(sub.bytes) \in Int  BY <4>5, <4>6
        <4> HIDE DEF d, Lower, o, U, sub
        <4> QED BY <1>7, <4>5, <4>7, <4>8, <4>9
      <3>5. d(U) \in Int  BY <1>9
      <3> HIDE DEF U, sub, d, a, b
      <3>4. Around(code, c, d(U) + Expansion(sub.bytes), a, b, Put(sub, f[U]), Put(sub, g[U]))
        BY <1>7, <2>2, <3>1, <3>5, AroundStep
      <3> QED BY <2>5, <2>8, <3>2, <3>3, <3>4
    <2> QED BY <2>6, <2>7, <2>8
  <1> HIDE DEF P, Good
  <1>12. D \subseteq P  BY <1>10, <1>11, HolesInduction
  <1>13. Good(DOMAIN subs, 0)
    <2>1. DOMAIN subs \in P  BY <1>12
    <2>2. 0 \in 0..Len(code) /\ \A j \in DOMAIN subs : 0 <= subs[j].offset  BY <1>3, <1>7
    <2> QED BY <2>1, <2>2 DEF P
  <1>14. Around(code, 0, d(DOMAIN subs), a, b, Splice(code, subs), Splice(code, subs2))
    BY <1>1, <1>2, <1>13 DEF Good
  <1>15. d(DOMAIN subs) = o + ShiftBefore(subs, o)  BY DEF ShiftBefore, v
  <1> QED BY <1>14, <1>15

-----------------------------------------------------------------------------
(* The code without the values.                                            *)
LEMMA BothParts ==
  ASSUME NEW S, NEW a \in Seq(S), NEW b \in Seq(S)
  PROVE  SubSeq(a \o b, 1, Len(a)) = a /\ SubSeq(a \o b, Len(a) + 1, Len(a \o b)) = b
  <1>1. /\ Len(a) \in Nat /\ Len(b) \in Nat /\ a \o b \in Seq(S) /\ Len(a \o b) = Len(a) + Len(b)
        /\ \A i \in 1..(Len(a) + Len(b)) : (a \o b)[i] = IF i <= Len(a) THEN a[i] ELSE b[i - Len(a)]
    BY ConcatProperties
  <1> DEFINE s == a \o b
             m == Len(a)
             n == Len(b)
  <1> HIDE DEF s
  <1>2. SubSeq(s, 1, m) = a
    <2> DEFINE l == SubSeq(s, 1, m)
    <2>1. l \in Seq(S) /\ Len(l) = m /\ \A i \in 1..m : l[i] = s[i]  BY <1>1 DEF s
    <2>2. \A i \in 1..m : s[i] = a[i]  BY <1>1 DEF s
    <2> HIDE DEF l
    <2> QED BY <2>1, <2>2, SeqEqual DEF l
  <1>3. SubSeq(s, m + 1, Len(s)) = b
    <2> DEFINE r == SubSeq(s, m + 1, Len(s))
    <2>1. r \in Seq(S) /\ Len(r) = n /\ \A i \in 1..n : r[i] = s[i + m]  BY <1>1 DEF s
    <2>2. \A i \in 1..n : s[i + m] = b[i]
      <3> TAKE i \in 1..n
      <3>1. i + m \in 1..(m + n) /\ ~(i + m <= m) /\ i + m - m = i  BY <1>1
      <3> QED BY <1>1, <3>1 DEF s
    <2> HIDE DEF r
    <2> QED BY <2>1, <2>2, SeqEqual DEF r
  <1> QED BY <1>2, <1>3 DEF s

(* A value taken out from behind its header.                               *)
Excised(X, h, d, Z, range) == Excise(range, X \o ((h \o d) \o Z)) = X \o (h \o Z)

(* A range that spans the value takes it out.                              *)
LEMMA ExciseParts ==
  ASSUME NEW X \in Bytes, NEW h \in Bytes, NEW d \in Bytes, NEW Z \in Bytes, NEW range,
         range.valueOffset = Len(X) + Len(h), range.valueLength = Len(d)
  PROVE  Excised(X, h, d, Z, range)
  <1> DEFINE l == X \o h
             t == d \o Z
             ld == l \o d
             x == X \o ((h \o d) \o Z)
  <1>1. l \in Bytes /\ Len(l) = Len(X) + Len(h) /\ t \in Bytes
    BY BytesConcat
  <1>2. ld \in Bytes /\ Len(ld) = Len(l) + Len(d)
    <2> HIDE DEF l
    <2> QED BY <1>1, BytesConcat
  <1>3. x = l \o t
    <2>1. (h \o d) \o Z = h \o t
      <3>1. Associative(h, d, Z)  BY BytesAssociative
      <3> QED BY <3>1 DEF Associative
    <2>2. X \o (h \o t) = l \o t
      <3> HIDE DEF t
      <3>1. Associative(X, h, t)  BY <1>1, BytesAssociative
      <3> QED BY <3>1 DEF Associative
    <2> QED BY <2>1, <2>2
  <1>4. l \o t = ld \o Z
    <2> HIDE DEF l
    <2>1. Associative(l, d, Z)  BY <1>1, BytesAssociative
    <2> QED BY <2>1 DEF Associative
  <1>5. l \o Z = X \o (h \o Z)
    <2>1. Associative(X, h, Z)  BY BytesAssociative
    <2> QED BY <2>1 DEF Associative
  <1> HIDE DEF l, t, ld, x
  <1>6. x \in Bytes /\ Len(l) \in 0..Len(x) /\ Len(ld) \in 0..Len(x)
    <2>1. Len(l) \in Nat /\ Len(t) \in Nat /\ Len(ld) \in Nat /\ Len(Z) \in Nat  BY <1>1, <1>2, BytesFacts
    <2>2. l \o t \in Bytes /\ Len(l \o t) = Len(l) + Len(t)  BY <1>1, BytesConcat
    <2>3. Len(ld \o Z) = Len(ld) + Len(Z)  BY <1>2, BytesConcat
    <2>4. Len(x) = Len(l) + Len(t) /\ Len(x) = Len(ld) + Len(Z)  BY <1>3, <1>4, <2>2, <2>3
    <2> QED BY <1>3, <2>1, <2>2, <2>4
  <1>7. Slice(x, 0, Len(l)) = l
    <2>1. Slice(x, 0, Len(l)) = SubSeq(x, 1, Len(l))  BY <1>6, TailSlice
    <2>2. SubSeq(l \o t, 1, Len(l)) = l  BY <1>1, BothParts DEF Bytes
    <2> QED BY <1>3, <2>1, <2>2
  <1>8. Tail_(x, Len(ld)) = Z
    <2>1. Tail_(x, Len(ld)) = SubSeq(x, Len(ld) + 1, Len(x))  BY <1>6, TailSlice
    <2>2. SubSeq(ld \o Z, Len(ld) + 1, Len(ld \o Z)) = Z  BY <1>2, BothParts DEF Bytes
    <2> QED BY <1>3, <1>4, <2>1, <2>2
  <1>9. range.valueOffset = Len(l) /\ range.valueOffset + range.valueLength = Len(ld)
    BY <1>1, <1>2
  <1>10. Excise(range, x) = l \o Z  BY <1>7, <1>8, <1>9 DEF Excise
  <1> QED BY <1>5, <1>10 DEF x, Excised

(* The first m of the substitutions put values into the code, each behind  *)
(* its head; they go from left to right.                                   *)
Framed(code, subs, m, heads, datas) ==
  /\ code \in Bytes /\ subs \in Seq(Subs) /\ Apart(subs)
  /\ \A j \in DOMAIN subs : subs[j].offset < Len(code)
  /\ m \in 0..Len(subs)
  /\ \A i, j \in 1..m : i < j => subs[i].offset < subs[j].offset
  /\ \A i \in 1..m : heads[i] \in Bytes /\ datas[i] \in Bytes /\ subs[i].bytes = heads[i] \o datas[i]
(* The substitutions with their values taken out of all but the first k.   *)
HeadsFrom(subs, m, heads, k) ==
  [i \in DOMAIN subs |-> IF k < i /\ i <= m THEN [offset |-> subs[i].offset, bytes |-> heads[i]]
                         ELSE subs[i]]

(* They are where the whole ones are.                                      *)
LEMMA HeadsFromFacts ==
  ASSUME NEW code, NEW subs, NEW m, NEW heads, NEW datas, Framed(code, subs, m, heads, datas),
         NEW k \in 0..m
  PROVE  /\ HeadsFrom(subs, m, heads, k) \in Seq(Subs) /\ Apart(HeadsFrom(subs, m, heads, k))
         /\ DOMAIN HeadsFrom(subs, m, heads, k) = DOMAIN subs
         /\ \A i \in DOMAIN subs :
              /\ HeadsFrom(subs, m, heads, k)[i].offset = subs[i].offset
              /\ (i <= k \/ m < i) => HeadsFrom(subs, m, heads, k)[i] = subs[i]
              /\ (k < i /\ i <= m) => HeadsFrom(subs, m, heads, k)[i].bytes = heads[i]
  <1> DEFINE s == HeadsFrom(subs, m, heads, k)
             n == Len(subs)
  <1>1. /\ DOMAIN subs = 1..n /\ n \in Nat /\ \A i \in 1..n : subs[i] \in Subs /\ subs[i].offset \in Nat
    <2>1. subs \in Seq(Subs)  BY DEF Framed
    <2>2. DOMAIN subs = 1..n /\ n \in Nat /\ \A i \in DOMAIN subs : subs[i].offset \in Nat
      BY <2>1, SubsFacts
    <2> QED BY <2>1, <2>2
  <1>2. m \in 0..n /\ m \in Nat /\ k \in Nat  BY <1>1 DEF Framed
  <1>3. \A i \in 1..n : IF k < i /\ i <= m THEN s[i] = [offset |-> subs[i].offset, bytes |-> heads[i]]
                        ELSE s[i] = subs[i]
    BY <1>1 DEF HeadsFrom
  <1>4. DOMAIN s = 1..n  BY <1>1 DEF HeadsFrom
  <1>5. \A i \in 1..n : k < i /\ i <= m => heads[i] \in Bytes
    <2> TAKE i \in 1..n
    <2>1. k < i /\ i <= m => i \in 1..m  BY <1>2
    <2> QED BY <2>1 DEF Framed
  <1>6. \A i \in 1..n : s[i] \in Subs /\ s[i].offset = subs[i].offset
    <2> TAKE i \in 1..n
    <2> DEFINE o == subs[i].offset
               h == heads[i]
    <2>1. CASE k < i /\ i <= m
      <3>1. s[i] = [offset |-> o, bytes |-> h] /\ o \in Nat /\ h \in Bytes  BY <1>1, <1>3, <1>5, <2>1
      <3> HIDE DEF o, h, s
      <3> QED BY <3>1 DEF Subs, o
    <2>2. CASE ~(k < i /\ i <= m)
      BY <1>1, <1>3, <2>2
    <2> QED BY <2>1, <2>2
  <1>7. s \in Seq(Subs)
    <2>1. s = [i \in 1..n |-> s[i]]  BY <1>1 DEF HeadsFrom
    <2>2. s \in [1..n -> Subs]
      <3> DEFINE t == [i \in 1..n |-> s[i]]
      <3>1. t \in [1..n -> Subs]  BY <1>6
      <3> QED BY <2>1, <3>1
    <2> HIDE DEF s, n
    <2> QED BY <1>1, <2>2
  <1>8. Apart(s)
    <2>1. Apart(subs)  BY DEF Framed
    <2> QED BY <1>1, <1>4, <1>6, <2>1, ApartLike
  <1>9. \A i \in 1..n : /\ (i <= k \/ m < i) => s[i] = subs[i]
                        /\ (k < i /\ i <= m) => s[i].bytes = heads[i]
    <2> TAKE i \in 1..n
    <2>1. (i <= k \/ m < i) => ~(k < i /\ i <= m)  BY <1>2
    <2>2. CASE k < i /\ i <= m
      <3>1. s[i] = [offset |-> subs[i].offset, bytes |-> heads[i]]  BY <1>3, <2>2
      <3> HIDE DEF s
      <3> QED BY <2>1, <2>2, <3>1
    <2>3. CASE ~(k < i /\ i <= m)
      <3>1. s[i] = subs[i]  BY <1>3, <2>3
      <3> HIDE DEF s
      <3> QED BY <2>3, <3>1
    <2> QED BY <2>2, <2>3
  <1> QED BY <1>1, <1>4, <1>6, <1>7, <1>8, <1>9

(* The shift in front of a slot depends on what is in front of it only.    *)
LEMMA ShiftSame ==
  ASSUME NEW subs \in Seq(Subs), NEW subs2 \in Seq(Subs), NEW o,
         \A i \in DOMAIN subs : subs[i].offset < o =>
            i \in DOMAIN subs2 /\ subs2[i].offset < o /\ Len(subs2[i].bytes) = Len(subs[i].bytes),
         \A i \in DOMAIN subs2 : subs2[i].offset < o => i \in DOMAIN subs /\ subs[i].offset < o
  PROVE  ShiftBefore(subs2, o) = ShiftBefore(subs, o)
  <1> DEFINE v == [i \in DOMAIN subs |-> Expansion(subs[i].bytes)]
             w == [i \in DOMAIN subs2 |-> Expansion(subs2[i].bytes)]
             T == {i \in DOMAIN subs : subs[i].offset < o}
             U == {i \in DOMAIN subs2 : subs2[i].offset < o}
  <1>1. U = T  OBVIOUS
  <1>2. \A i \in T : w[i] = v[i]  BY DEF Expansion
  <1>3. IsFiniteSet(T)
    <2>1. T \in SUBSET DOMAIN subs  OBVIOUS
    <2> HIDE DEF T
    <2> QED BY <2>1, SubsFacts
  <1> HIDE DEF v, w, T, U
  <1>4. Sum(w, T) = Sum(v, T)  BY <1>2, <1>3, SumSame
  <1>5. ShiftBefore(subs, o) = Sum(v, T) /\ ShiftBefore(subs2, o) = Sum(w, U)
    BY DEF ShiftBefore, v, w, T, U
  <1> QED BY <1>1, <1>4, <1>5

(* Where the value of a slot begins.                                       *)
ValueAt(subs, heads, i) == subs[i].offset + ShiftBefore(subs, subs[i].offset) + Len(heads[i])

(* One value more taken out.                                               *)
LEMMA ExciseStep ==
  ASSUME NEW code, NEW subs, NEW m, NEW heads, NEW datas, Framed(code, subs, m, heads, datas),
         NEW i \in 1..m, NEW range, range.valueOffset = ValueAt(subs, heads, i),
         range.valueLength = Len(datas[i])
  PROVE  Excise(range, Splice(code, HeadsFrom(subs, m, heads, i)))
            = Splice(code, HeadsFrom(subs, m, heads, i - 1))
  <1> DEFINE a == HeadsFrom(subs, m, heads, i)
             b == HeadsFrom(subs, m, heads, i - 1)
             o == subs[i].offset
             h == heads[i]
             d == datas[i]
  <1>1. /\ code \in Bytes /\ subs \in Seq(Subs) /\ \A j \in DOMAIN subs : subs[j].offset < Len(code)
        /\ m \in 0..Len(subs) /\ h \in Bytes /\ d \in Bytes /\ subs[i].bytes = h \o d
    BY DEF Framed
  <1>2. DOMAIN subs = 1..Len(subs) /\ Len(subs) \in Nat /\ \A j \in DOMAIN subs : subs[j].offset \in Nat
    BY <1>1, SubsFacts
  <1>a. i \in Nat /\ m \in Nat /\ \A j \in DOMAIN subs : j \in Nat
    BY <1>1, <1>2
  <1>3. i \in DOMAIN subs /\ i \in 0..m /\ i - 1 \in 0..m /\ i - 1 < i /\ i <= m /\ ~(m < i)
    BY <1>1, <1>2
  <1>4. /\ a \in Seq(Subs) /\ Apart(a) /\ DOMAIN a = DOMAIN subs
        /\ \A j \in DOMAIN subs : /\ a[j].offset = subs[j].offset
                                  /\ (j <= i \/ m < j) => a[j] = subs[j]
                                  /\ (i < j /\ j <= m) => a[j].bytes = heads[j]
    BY <1>3, HeadsFromFacts
  <1>5. /\ b \in Seq(Subs) /\ DOMAIN b = DOMAIN subs
        /\ \A j \in DOMAIN subs : /\ b[j].offset = subs[j].offset
                                  /\ (j <= i - 1 \/ m < j) => b[j] = subs[j]
                                  /\ (i - 1 < j /\ j <= m) => b[j].bytes = heads[j]
    BY <1>3, HeadsFromFacts
  <1>6. \A j \in DOMAIN subs \ {i} : b[j] = a[j]
    <2> TAKE j \in DOMAIN subs \ {i}
    <2>1. \/ j <= i - 1 /\ j <= i
          \/ m < j
          \/ i < j /\ j <= m /\ i - 1 < j
      <3>1. j # i /\ j \in Nat  BY <1>a
      <3> QED BY <1>a, <3>1
    <2>2. a[j] = IF i < j /\ j <= m THEN [offset |-> subs[j].offset, bytes |-> heads[j]] ELSE subs[j]
      BY <1>3 DEF HeadsFrom
    <2>3. b[j] = IF i - 1 < j /\ j <= m THEN [offset |-> subs[j].offset, bytes |-> heads[j]] ELSE subs[j]
      BY <1>3 DEF HeadsFrom
    <2> HIDE DEF a, b
    <2> QED BY <1>4, <1>5, <2>1, <2>2, <2>3
  <1>7. a[i] = subs[i] /\ b[i].bytes = h /\ b[i].offset = o
    <2>1. i <= i  BY <1>3
    <2> HIDE DEF a, b
    <2> QED BY <1>3, <1>4, <1>5, <2>1
  <1>8. ShiftBefore(a, o) = ShiftBefore(subs, o)
    <2>1. \A j \in DOMAIN subs : subs[j].offset < o => a[j] = subs[j]
      <3> SUFFICES ASSUME NEW j \in DOMAIN subs, subs[j].offset < o PROVE a[j] = subs[j]
        OBVIOUS
      <3>1. ~(i < j /\ j <= m)
        <4>1. SUFFICES ASSUME i < j, j <= m PROVE FALSE  OBVIOUS
        <4>2. i \in 1..m /\ j \in 1..m  BY <1>2, <1>3, <4>1
        <4>3. o < subs[j].offset  BY <4>1, <4>2 DEF Framed
        <4> QED BY <1>2, <1>3, <4>3
      <3>2. j <= i \/ m < j  BY <1>a, <3>1
      <3> HIDE DEF a
      <3> QED BY <1>4, <3>2
    <2> HIDE DEF a, o
    <2>2. \A j \in DOMAIN subs : subs[j].offset < o =>
             j \in DOMAIN a /\ a[j].offset < o /\ Len(a[j].bytes) = Len(subs[j].bytes)
      BY <1>4, <2>1
    <2>3. \A j \in DOMAIN a : a[j].offset < o => j \in DOMAIN subs /\ subs[j].offset < o
      BY <1>4
    <2> QED BY <1>1, <1>4, <2>2, <2>3, ShiftSame
  <1>9. PICK X \in Bytes, Z \in Bytes :
            /\ Len(X) = o + ShiftBefore(subs, o)
            /\ Splice(code, a) = X \o ((h \o d) \o Z) /\ Splice(code, b) = X \o (h \o Z)
    <2> HIDE DEF a, b
    <2>1. \A j \in DOMAIN a : a[j].offset < Len(code)  BY <1>1, <1>4
    <2>2. Around(code, 0, a[i].offset + ShiftBefore(a, a[i].offset), a[i].bytes, b[i].bytes,
                 Splice(code, a), Splice(code, b))
      BY <1>1, <1>3, <1>4, <1>5, <1>6, <1>7, <2>1, SplicePair
    <2>3. a[i].offset + ShiftBefore(a, a[i].offset) = o + ShiftBefore(subs, o)
          /\ a[i].bytes = h \o d /\ b[i].bytes = h
      BY <1>1, <1>7, <1>8
    <2>4. PICK X \in Bytes, Z \in Bytes :
            /\ Len(X) + 0 = o + ShiftBefore(subs, o)
            /\ Splice(code, a) = SubSeq(code, 1, 0) \o (X \o ((h \o d) \o Z))
            /\ Splice(code, b) = SubSeq(code, 1, 0) \o (X \o (h \o Z))
      BY <2>2, <2>3 DEF Around
    <2>5. Len(X) \in Nat  BY BytesFacts
    <2>6. \A s \in Bytes : SubSeq(code, 1, 0) \o s = s  BY <1>1 DEF Bytes
    <2>7. X \o ((h \o d) \o Z) \in Bytes /\ X \o (h \o Z) \in Bytes
      <3>1. h \o d \in Bytes  BY <1>1, BytesConcat
      <3>2. (h \o d) \o Z \in Bytes /\ h \o Z \in Bytes  BY <1>1, <3>1, BytesConcat
      <3> QED BY <3>2, BytesConcat
    <2>8. Splice(code, a) = X \o ((h \o d) \o Z) /\ Splice(code, b) = X \o (h \o Z)
      BY <2>4, <2>6, <2>7
    <2>9. Len(X) = o + ShiftBefore(subs, o)  BY <2>4, <2>5
    <2> HIDE DEF o, h, d
    <2> QED BY <2>8, <2>9, Zenon
  <1>10. range.valueOffset = Len(X) + Len(h)  BY <1>9 DEF ValueAt
  <1>11. range.valueLength = Len(d)  OBVIOUS
  <1> HIDE DEF a, b, h, d
  <1>12. Excised(X, h, d, Z, range)  BY <1>1, <1>10, <1>11, ExciseParts
  <1> QED BY <1>9, <1>12 DEF a, b, Excised

(* No value taken out.                                                     *)
LEMMA HeadsNone ==
  ASSUME NEW code, NEW subs, NEW m, NEW heads, NEW datas, Framed(code, subs, m, heads, datas)
  PROVE  HeadsFrom(subs, m, heads, m) = subs
  <1>1. subs \in Seq(Subs) /\ m \in 0..Len(subs)  BY DEF Framed
  <1>2. /\ DOMAIN subs = 1..Len(subs) /\ Len(subs) \in Nat /\ subs = [i \in DOMAIN subs |-> subs[i]]
    BY <1>1
  <1>3. \A i \in DOMAIN subs : ~(m < i /\ i <= m)  BY <1>1, <1>2
  <1>4. HeadsFrom(subs, m, heads, m) = [i \in DOMAIN subs |-> subs[i]]  BY <1>3 DEF HeadsFrom
  <1> QED BY <1>2, <1>4

(* The recursion of ExcisedTemplate.                                       *)
Excising(f, m, start, layout) ==
  f = [k \in 0..m |-> IF k = m THEN start ELSE Excise(layout[k + 1], f[k + 1])]

(* Taking the values out from the last to the first leaves the headers.    *)
LEMMA ExciseAll ==
  ASSUME NEW code, NEW subs, NEW m, NEW heads, NEW datas, Framed(code, subs, m, heads, datas),
         NEW layout, \A i \in 1..m : /\ layout[i].valueOffset = ValueAt(subs, heads, i)
                                     /\ layout[i].valueLength = Len(datas[i])
  PROVE  /\ \E f : Excising(f, m, Splice(code, subs), layout)
         /\ \A f : Excising(f, m, Splice(code, subs), layout)
                     => f[0] = Splice(code, HeadsFrom(subs, m, heads, 0))
  <1> DEFINE W(k) == Splice(code, HeadsFrom(subs, m, heads, k))
  <1>1. m \in Nat
    <2>1. subs \in Seq(Subs) /\ m \in 0..Len(subs)  BY DEF Framed
    <2>2. Len(subs) \in Nat  BY <2>1
    <2> QED BY <2>1, <2>2
  <1>2. W(m) = Splice(code, subs)  BY HeadsNone
  <1>3. \A k \in 0..m : k # m => k + 1 \in 1..m /\ k + 1 \in 0..m /\ k + 1 - 1 = k  BY <1>1
  <1>4. \A k \in 0..m : k # m => W(k) = Excise(layout[k + 1], W(k + 1))
    <2> SUFFICES ASSUME NEW k \in 0..m, k # m PROVE W(k) = Excise(layout[k + 1], W(k + 1))
      OBVIOUS
    <2> DEFINE i == k + 1
               r == layout[i]
    <2>1. i \in 1..m /\ i - 1 = k  BY <1>3
    <2>2. r.valueOffset = ValueAt(subs, heads, i) /\ r.valueLength = Len(datas[i])  BY <2>1
    <2> HIDE DEF r, i
    <2>3. Excise(r, Splice(code, HeadsFrom(subs, m, heads, i)))
             = Splice(code, HeadsFrom(subs, m, heads, i - 1))
      BY <2>1, <2>2, ExciseStep
    <2> QED BY <2>1, <2>3 DEF r, i
  <1> HIDE DEF W
  <1>5. \E f : Excising(f, m, Splice(code, subs), layout)
    <2> DEFINE g == [k \in 0..m |-> W(k)]
    <2>1. \A k \in 0..m : g[k] = IF k = m THEN Splice(code, subs) ELSE Excise(layout[k + 1], g[k + 1])
      BY <1>2, <1>3, <1>4
    <2>2. g = [k \in 0..m |-> g[k]]  OBVIOUS
    <2> HIDE DEF g
    <2>3. Excising(g, m, Splice(code, subs), layout)  BY <2>1, <2>2 DEF Excising
    <2> QED BY <2>3
  <1>6. ASSUME NEW f, Excising(f, m, Splice(code, subs), layout) PROVE f[0] = W(0)
    <2>1. \A k \in 0..m : f[k] = IF k = m THEN Splice(code, subs) ELSE Excise(layout[k + 1], f[k + 1])
      BY <1>6 DEF Excising
    <2> DEFINE N == {n \in Nat : n <= m => f[m - n] = W(m - n)}
    <2>2. 0 \in N
      <3>1. m - 0 = m /\ m \in 0..m  BY <1>1
      <3>2. f[m] = W(m)  BY <1>2, <2>1, <3>1
      <3> QED BY <3>1, <3>2
    <2>3. ASSUME NEW n \in N PROVE n + 1 \in N
      <3> SUFFICES ASSUME n + 1 <= m PROVE f[m - (n + 1)] = W(m - (n + 1))
        OBVIOUS
      <3> DEFINE k == m - (n + 1)
      <3>1. n \in Nat /\ n <= m /\ k \in 0..m /\ k # m /\ k + 1 = m - n  BY <1>1
      <3>2. f[m - n] = W(m - n)  BY <3>1, <2>3
      <3> HIDE DEF k, N
      <3>3. f[k + 1] = W(k + 1)  BY <3>1, <3>2
      <3>4. f[k] = Excise(layout[k + 1], f[k + 1])  BY <2>1, <3>1
      <3>5. W(k) = Excise(layout[k + 1], W(k + 1))  BY <1>4, <3>1
      <3>6. f[k] = W(k)  BY <3>3, <3>4, <3>5
      <3> QED BY <3>6 DEF k
    <2>4. N \in SUBSET Nat  OBVIOUS
    <2> HIDE DEF N
    <2>5. N = Nat  BY <2>2, <2>3, <2>4, NatSetInduction
    <2>6. m \in N  BY <1>1, <2>5
    <2>7. m <= m => f[m - m] = W(m - m)  BY <2>6 DEF N
    <2>8. m <= m /\ m - m = 0  BY <1>1
    <2> QED BY <2>7, <2>8
  <1> QED BY <1>5, <1>6 DEF W

-----------------------------------------------------------------------------
(* The substitutions, one by one.                                          *)
Joined(s, a, b, m, n) ==
  /\ Len(s) = m + n /\ DOMAIN s = 1..(m + n)
  /\ \A i \in 1..m : s[i] = a[i]
  /\ \A i \in 1..n : s[m + i] = b[i]

(* They are those of its parts.                                            *)
LEMMA ConcatJoins ==
  ASSUME NEW S, NEW a \in Seq(S), NEW b \in Seq(S), NEW m \in Nat, NEW n \in Nat,
         Len(a) = m, Len(b) = n
  PROVE  Joined(a \o b, a, b, m, n)
  <1> DEFINE s == a \o b
  <1>1. /\ s \in Seq(S) /\ Len(s) = m + n
        /\ \A i \in 1..(m + n) : s[i] = IF i <= m THEN a[i] ELSE b[i - m]
    BY ConcatProperties
  <1> HIDE DEF s
  <1>2. DOMAIN s = 1..(m + n)  BY <1>1
  <1>3. \A i \in 1..m : i \in 1..(m + n) /\ i <= m  OBVIOUS
  <1>4. \A i \in 1..n : m + i \in 1..(m + n) /\ ~(m + i <= m) /\ m + i - m = i  OBVIOUS
  <1>5. \A i \in 1..n : s[m + i] = b[i]
    <2> TAKE i \in 1..n
    <2>1. s[m + i] = b[m + i - m]  BY <1>1, <1>4
    <2> QED BY <1>4, <2>1
  <1> QED BY <1>1, <1>2, <1>3, <1>5 DEF Joined, s

(* What collectSubstitutions makes of the slots.                           *)
Collected(ctx, args) ==
  LET m == Len(ctx.slots)
      n == Len(ctx.sepSlots)
      subs == collectSubstitutions(ctx, args)
  IN  /\ m \in Nat /\ n \in Nat /\ DOMAIN ctx.slots = 1..m /\ DOMAIN ctx.sepSlots = 1..n
      /\ Len(subs) = m + n /\ DOMAIN subs = 1..(m + n)
      /\ \A i \in 1..m : /\ subs[i].offset = ctx.slots[i].offset
                         /\ subs[i].bytes = encodeArg(args[ctx.slots[i].param])
      /\ \A i \in 1..n : /\ subs[m + i].offset = ctx.sepSlots[i].offset
                         /\ subs[m + i] = resolvedCodeSepSlotValues(ctx, args)[i]
      /\ \A i \in 1..m : subs[i] = ConstructorSubs(ctx, args)[i]

(* It makes one of each, the constructor slots first.                      *)
LEMMA CollectParts ==
  ASSUME NEW params, NEW ctx, Template(params, ctx), NEW args, GoodArgs(params, args),
         ShortSubs(ctx, args)
  PROVE  Collected(ctx, args)
  <1> DEFINE m == Len(ctx.slots)
             n == Len(ctx.sepSlots)
             subs == collectSubstitutions(ctx, args)
  <1> DEFINE a == ConstructorSubs(ctx, args)
             b == resolvedCodeSepSlotValues(ctx, args)
             x == ctx.slots
             y == ctx.sepSlots
  <1>1. /\ a \in Seq(CleanSubs) /\ Len(a) = m /\ \A i \in DOMAIN x : a[i].offset = x[i].offset
    BY ConstructorSubsFacts
  <1>2. /\ b \in Seq(Numbers) /\ Len(b) = n /\ \A i \in DOMAIN y : b[i].offset = y[i].offset
    BY ResolvedFacts
  <1>3. DOMAIN x = 1..m /\ DOMAIN y = 1..n /\ m \in Nat /\ n \in Nat
    <2>1. x \in Seq([param : DOMAIN params, offset : Nat]) /\ y \in Seq([offset : Nat, index : Nat])
      BY DEF Template, Emitted
    <2>2. m = Len(x) /\ n = Len(y)  OBVIOUS
    <2> HIDE DEF x, y, m, n
    <2> QED BY <2>1, <2>2
  <1>4. \A i \in DOMAIN x : a[i].bytes = encodeArg(args[x[i].param])  BY DEF ConstructorSubs
  <1>5. subs = a \o b  BY DEF collectSubstitutions
  <1> HIDE DEF a, b, x, y, m, n, subs
  <1>6. Joined(a \o b, a, b, m, n)
    <2>1. a \in Seq(Subs) /\ b \in Seq(Subs)
      <3>1. CleanSubs \subseteq Subs /\ Numbers \subseteq Subs  BY DEF CleanSubs, Numbers
      <3> QED BY <1>1, <1>2, <3>1
    <2> QED BY <1>1, <1>2, <1>3, <2>1, ConcatJoins
  <1>7. /\ Len(a \o b) = m + n /\ DOMAIN (a \o b) = 1..(m + n)
        /\ \A i \in 1..m : (a \o b)[i] = a[i]
        /\ \A i \in 1..n : (a \o b)[m + i] = b[i]
    BY <1>6 DEF Joined
  <1>8. /\ \A i \in 1..m : subs[i].offset = x[i].offset /\ subs[i].bytes = encodeArg(args[x[i].param])
        /\ \A i \in 1..n : subs[m + i].offset = y[i].offset
    BY <1>1, <1>2, <1>3, <1>4, <1>5, <1>7
  <1>9. /\ Len(subs) = m + n /\ DOMAIN subs = 1..(m + n)
        /\ \A i \in 1..m : subs[i] = a[i]
        /\ \A i \in 1..n : subs[m + i] = b[i]
    BY <1>5, <1>7
  <1> QED BY <1>3, <1>8, <1>9 DEF Collected, a, b, x, y, m, n, subs

-----------------------------------------------------------------------------
(* The layout of arguments whose pushes split into a header and a value.   *)
Headers(ctx, args) ==
  [i \in DOMAIN ctx.slots |->
     LET value == args[ctx.slots[i].param]
     IN  HeadOf(PushHeaderBytes(encodeArg(value), value.type), Len(ValueBytes(value)))]
(* The bytes of the values.                                                *)
Values(ctx, args) == [i \in DOMAIN ctx.slots |-> ValueBytes(args[ctx.slots[i].param])]
(* No argument is a byte that an opcode pushes.                            *)
AllSplit(ctx, args) == \A i \in DOMAIN ctx.slots : Splits(args[ctx.slots[i].param])

(* The arguments are framed by their headers.                              *)
LEMMA ArgsFramed ==
  ASSUME NEW params, NEW ctx, Template(params, ctx), Laid(ctx), NEW args, GoodArgs(params, args),
         ShortSubs(ctx, args), AllSplit(ctx, args)
  PROVE  Framed(ctx.bytes, collectSubstitutions(ctx, args), Len(ctx.slots),
                Headers(ctx, args), Values(ctx, args))
  <1> DEFINE code == ctx.bytes
             subs == collectSubstitutions(ctx, args)
             m == Len(ctx.slots)
             n == Len(ctx.sepSlots)
             x == ctx.slots
             heads == Headers(ctx, args)
             datas == Values(ctx, args)
  <1>1. /\ m \in Nat /\ n \in Nat /\ DOMAIN x = 1..m /\ Len(subs) = m + n
        /\ \A i \in 1..m : subs[i].offset = x[i].offset /\ subs[i].bytes = encodeArg(args[x[i].param])
    <2>1. Collected(ctx, args)  BY CollectParts
    <2> QED BY <2>1 DEF Collected
  <1>2. /\ subs \in Seq(Subs) /\ Apart(subs)
        /\ Offset(subs) \subseteq Offset(x) \cup Offset(ctx.sepSlots)
    BY CollectFacts, CleanSubsType
  <1>3. code \in Bytes /\ Len(code) \in Nat
        /\ Offset(x) \cup Offset(ctx.sepSlots) \subseteq 0..(Len(code) - 1)
    BY BytesFacts DEF Template, Holed
  <1>4. \A j \in DOMAIN subs : subs[j].offset < Len(code)
    <2> TAKE j \in DOMAIN subs
    <2>1. subs[j].offset \in Offset(subs)  BY DEF Offset
    <2>2. subs[j].offset \in 0..(Len(code) - 1)  BY <1>2, <1>3, <2>1
    <2> QED BY <1>3, <2>2
  <1>5. \A i, j \in 1..m : i < j => subs[i].offset < subs[j].offset
    <2>1. \A i, j \in 1..m : i < j => x[i].offset < x[j].offset  BY <1>1 DEF Laid
    <2> HIDE DEF subs, x, m
    <2> QED BY <1>1, <2>1
  <1>6. \A i \in 1..m : heads[i] \in Bytes /\ datas[i] \in Bytes /\ subs[i].bytes = heads[i] \o datas[i]
    <2> TAKE i \in 1..m
    <2> DEFINE value == args[x[i].param]
    <2>1. Splits(value)  BY <1>1 DEF AllSplit
    <2>2. /\ heads[i] = HeadOf(PushHeaderBytes(encodeArg(value), value.type), Len(ValueBytes(value)))
          /\ datas[i] = ValueBytes(value)
      BY <1>1 DEF Headers, Values
    <2>3. subs[i].bytes = encodeArg(value)  BY <1>1
    <2> HIDE DEF value, heads, datas, subs
    <2> QED BY <2>1, <2>2, <2>3 DEF Splits
  <1> HIDE DEF code, subs, m, n, heads, datas
  <1>7. m \in 0..Len(subs)
    <2>1. Len(subs) = m + n /\ m \in Nat /\ n \in Nat  BY <1>1
    <2> QED BY <2>1
  <1>8. Framed(code, subs, m, heads, datas)
    BY <1>2, <1>3, <1>4, <1>5, <1>6, <1>7 DEF Framed
  <1> QED BY <1>8 DEF code, subs, m, heads, datas

(* The i-th range of the layout.                                           *)
LEMMA RangeParts ==
  ASSUME NEW params, NEW ctx, Template(params, ctx), NEW args, GoodArgs(params, args),
         ShortSubs(ctx, args), NEW i \in DOMAIN ctx.slots
  PROVE  LET range == resolveSlotLayout(ctx, args)[i]
             subs == collectSubstitutions(ctx, args)
             value == args[ctx.slots[i].param]
             h == PushHeaderBytes(encodeArg(value), value.type)
         IN  /\ range.param = ctx.slots[i].param
             /\ range.valueOffset = ctx.slots[i].offset + ShiftBefore(subs, ctx.slots[i].offset) + h
             /\ range.valueLength = Len(encodeArg(value)) - h
  <1> DEFINE subs == collectSubstitutions(ctx, args)
             x == ctx.slots
             value == args[x[i].param]
             h == PushHeaderBytes(encodeArg(value), value.type)
             range == resolveSlotLayout(ctx, args)[i]
  <1>1. subs[i].offset = x[i].offset /\ subs[i].bytes = encodeArg(value)
    <2>1. Collected(ctx, args)  BY CollectParts
    <2>2. i \in 1..Len(x)  BY <2>1 DEF Collected
    <2> QED BY <2>1, <2>2 DEF Collected
  <1>2. range = RangeOf(x[i].param, subs[i], subs, PushHeaderBytes(subs[i].bytes, value.type))
    BY DEF resolveSlotLayout, Ranges
  <1> HIDE DEF range, subs, x
  <1>3. range = RangeOf(x[i].param, subs[i], subs, h)  BY <1>1, <1>2
  <1> HIDE DEF h
  <1>4. /\ range.param = x[i].param
        /\ range.valueOffset = subs[i].offset + ShiftBefore(subs, subs[i].offset) + h
        /\ range.valueLength = Len(subs[i].bytes) - h
    BY <1>3 DEF RangeOf
  <1> QED BY <1>1, <1>4 DEF h, range, subs, x

(* It spans the value.                                                     *)
LEMMA LayoutParts ==
  ASSUME NEW params, NEW ctx, Template(params, ctx), Laid(ctx), NEW args, GoodArgs(params, args),
         ShortSubs(ctx, args), AllSplit(ctx, args), NEW i \in DOMAIN ctx.slots
  PROVE  /\ resolveSlotLayout(ctx, args)[i].valueOffset
               = ValueAt(collectSubstitutions(ctx, args), Headers(ctx, args), i)
         /\ resolveSlotLayout(ctx, args)[i].valueLength = Len(Values(ctx, args)[i])
  <1> DEFINE range == resolveSlotLayout(ctx, args)[i]
             subs == collectSubstitutions(ctx, args)
             value == args[ctx.slots[i].param]
             v == ValueBytes(value)
             s == encodeArg(value)
             h == PushHeaderBytes(s, value.type)
  <1>1. /\ range.valueOffset = ctx.slots[i].offset + ShiftBefore(subs, ctx.slots[i].offset) + h
        /\ range.valueLength = Len(s) - h
    BY RangeParts
  <1>2. Splits(value)  BY DEF AllSplit
  <1>3. /\ h \in 0..5 /\ v \in Bytes /\ HeadOf(h, Len(v)) \in Bytes /\ Len(HeadOf(h, Len(v))) = h
        /\ s = HeadOf(h, Len(v)) \o v
    BY <1>2 DEF Splits
  <1>4. Headers(ctx, args)[i] = HeadOf(h, Len(v)) /\ Values(ctx, args)[i] = v
    BY DEF Headers, Values
  <1>5. subs[i].offset = ctx.slots[i].offset
    <2>1. Collected(ctx, args)  BY CollectParts
    <2>2. i \in 1..Len(ctx.slots)  BY <2>1 DEF Collected
    <2> QED BY <2>1, <2>2 DEF Collected
  <1> DEFINE a == HeadOf(h, Len(v))
  <1> HIDE DEF range, subs, s, h, v, a
  <1>6. Len(s) = h + Len(v) /\ Len(v) \in Nat
    <2>1. a \in Bytes /\ Len(a) = h /\ s = a \o v  BY <1>3 DEF a
    <2>2. Len(a \o v) = Len(a) + Len(v) /\ Len(v) \in Nat  BY <1>3, <2>1, BytesConcat, BytesFacts
    <2> QED BY <2>1, <2>2
  <1>7. range.valueLength = Len(v)  BY <1>1, <1>3, <1>6
  <1>8. range.valueOffset = subs[i].offset + ShiftBefore(subs, subs[i].offset) + Len(Headers(ctx, args)[i])
    BY <1>1, <1>3, <1>4, <1>5
  <1> QED BY <1>4, <1>7, <1>8 DEF ValueAt, range, subs

(* The code without the values.                                            *)
LEMMA ExcisedIs ==
  ASSUME NEW params, NEW ctx, Template(params, ctx), Laid(ctx), NEW args, GoodArgs(params, args),
         ShortSubs(ctx, args), AllSplit(ctx, args)
  PROVE  ExcisedTemplate(ctx, args)
            = Splice(ctx.bytes, HeadsFrom(collectSubstitutions(ctx, args), Len(ctx.slots),
                                          Headers(ctx, args), 0))
  <1> DEFINE layout == resolveSlotLayout(ctx, args)
             subs == collectSubstitutions(ctx, args)
             m == Len(ctx.slots)
             heads == Headers(ctx, args)
             datas == Values(ctx, args)
             start == Splice(ctx.bytes, subs)
             upFrom == CHOOSE f : f = [k \in 0..m |-> IF k = m THEN start
                                                      ELSE Excise(layout[k + 1], f[k + 1])]
  <1>1. m \in Nat /\ DOMAIN ctx.slots = 1..m  BY CollectParts DEF Collected
  <1>2. Len(layout) = m
    <2>1. layout = [i \in 1..m |-> layout[i]]  BY <1>1 DEF resolveSlotLayout, Ranges
    <2> HIDE DEF layout, m
    <2>2. DOMAIN layout = 1..m  BY <2>1
    <2> QED BY <1>1, <2>1, <2>2
  <1>3. ExcisedTemplate(ctx, args) = upFrom[0]
    BY <1>2 DEF ExcisedTemplate, buildResolvedCodeHex
  <1>4. Framed(ctx.bytes, subs, m, heads, datas)  BY ArgsFramed
  <1>5. \A i \in 1..m : /\ layout[i].valueOffset = ValueAt(subs, heads, i)
                        /\ layout[i].valueLength = Len(datas[i])
    BY <1>1, LayoutParts
  <1>6. upFrom = CHOOSE f : Excising(f, m, start, layout)  BY DEF Excising
  <1> HIDE DEF upFrom, layout, m, heads, datas, subs
  <1>7. /\ \E f : Excising(f, m, start, layout)
        /\ \A f : Excising(f, m, start, layout)
                     => f[0] = Splice(ctx.bytes, HeadsFrom(subs, m, heads, 0))
    BY <1>4, <1>5, ExciseAll
  <1>8. Excising(upFrom, m, start, layout)  BY <1>6, <1>7
  <1>9. upFrom[0] = Splice(ctx.bytes, HeadsFrom(subs, m, heads, 0))  BY <1>7, <1>8
  <1> QED BY <1>3, <1>9 DEF subs, m, heads

(* A byte that an opcode pushes leaves a range of negative length.         *)
LEMMA ByOpcodeNegative ==
  ASSUME NEW value \in Value, Short(value), ByteByOpcode(value)
  PROVE  Len(encodeArg(value)) = 1 /\ PushHeaderBytes(encodeArg(value), value.type) = 5
  <1> DEFINE d == value.bytes
             s == encodeArg(value)
  <1>1. value.type = "data" /\ d # <<>> /\ Len(s) = 1  BY DEF ByteByOpcode, PushedByOpcode
  <1>2. d \in Bytes /\ s = encodePushData(d)  BY <1>1 DEF Value, Bytes, encodeArg
  <1>3. s = <<79>> \/ \E b \in 81..96 : s = <<b>>
    <2>1. CASE d = <<129>>
      <3>1. encodePushData(d) = <<79>>  BY <2>1 DEF encodePushData
      <3> QED BY <1>2, <3>1
    <2>2. CASE d # <<129>> /\ Len(d) = 1 /\ d[1] \in 1..16
      <3>1. encodePushData(d) = <<80 + d[1]>>  BY <1>1, <2>2 DEF encodePushData
      <3>2. 80 + d[1] \in 81..96  BY <2>2
      <3> QED BY <1>2, <3>1, <3>2
    <2>3. CASE d # <<129>> /\ ~(Len(d) = 1 /\ d[1] \in 1..16)
      <3>1. encodePushData(d) = PushHeader(Len(d)) \o d  BY <1>1, <2>3 DEF encodePushData
      <3>2. Len(d) \in Nat /\ Len(d) # 0  BY <1>1, <1>2, BytesFacts DEF Bytes
      <3>3. Len(d) <= MaxLength
        <4>1. Len(d) <= Len(encodePushData(d)) /\ Len(encodePushData(d)) \in Nat
          BY <1>2, PushSize, BytesFacts
        <4>2. Len(encodePushData(d)) <= MaxLength  BY <1>2 DEF Short
        <4> QED BY <3>2, <4>1, <4>2, MaxLengthNat
      <3> DEFINE h == PushHeader(Len(d))
      <3>4. Len(h \o d) = Len(h) + Len(d) /\ Len(h) \in 1..5
        BY <1>2, <3>2, <3>3, HeaderWidth
      <3> HIDE DEF h, d, s
      <3>5. Len(s) = Len(h) + Len(d)  BY <1>2, <3>1, <3>4 DEF h
      <3>6. Len(s) # 1
        <4>1. Len(h) \in 1..5  BY <3>4
        <4>2. \A a \in 1..5, b \in Nat : b # 0 => a + b # 1  OBVIOUS
        <4>3. Len(h) + Len(d) # 1  BY <3>2, <4>1, <4>2
        <4> QED BY <3>5, <4>3
      <3> QED BY <1>1, <3>6
    <2> QED BY <2>1, <2>2, <2>3
  <1>4. PushHeaderBytes(s, "data") = 5
    <2> HIDE DEF s
    <2>1. s[1] = 79 \/ s[1] \in 81..96  BY <1>3
    <2>2. s[1] # 0 /\ s[1] \notin 1..75 /\ s[1] # 76 /\ s[1] # 77  BY <2>1
    <2> QED BY <2>2 DEF PushHeaderBytes
  <1> QED BY <1>1, <1>4

(* Arguments of one layout have values of the same lengths.                *)
LEMMA SameSplit ==
  ASSUME NEW u \in Value, Splits(u), NEW w \in Value, Short(w), w.type = u.type,
         Len(encodeArg(w)) - PushHeaderBytes(encodeArg(w), w.type)
            = Len(encodeArg(u)) - PushHeaderBytes(encodeArg(u), u.type)
  PROVE  Splits(w)
  <1>1. SUFFICES ASSUME ByteByOpcode(w) PROVE FALSE
    BY ArgSplits
  <1> DEFINE s == encodeArg(u)
             h == PushHeaderBytes(s, u.type)
             v == ValueBytes(u)
             a == HeadOf(h, Len(v))
  <1>2. h \in 0..5 /\ v \in Bytes /\ a \in Bytes /\ Len(a) = h /\ s = a \o v
    BY DEF Splits
  <1>3. Len(encodeArg(w)) = 1 /\ PushHeaderBytes(encodeArg(w), w.type) = 5
    BY <1>1, ByOpcodeNegative
  <1>4. Len(s) - h = 1 - 5  BY <1>3
  <1> HIDE DEF a, v, h, s
  <1>5. Len(a \o v) = Len(a) + Len(v) /\ Len(v) \in Nat  BY <1>2, BytesConcat, BytesFacts
  <1>6. Len(s) = h + Len(v)  BY <1>2, <1>5
  <1>7. \A x \in 0..5, y \in Nat : x + y - x # 1 - 5  OBVIOUS
  <1> QED BY <1>2, <1>4, <1>5, <1>6, <1>7

(* A template and arguments for it.                                        *)
Placed(ctx, params, args) ==
  Template(params, ctx) /\ Laid(ctx) /\ GoodArgs(params, args) /\ ShortSubs(ctx, args)

(* All arguments of a layout split, if those of one object do.             *)
LEMMA LayoutSplits ==
  ASSUME NEW params, NEW ctx, NEW A, NEW B, Placed(ctx, params, A), Placed(ctx, params, B),
         AllSplit(ctx, A), resolveSlotLayout(ctx, B) = resolveSlotLayout(ctx, A)
  PROVE  AllSplit(ctx, B)
  <1> SUFFICES ASSUME NEW i \in DOMAIN ctx.slots PROVE Splits(B[ctx.slots[i].param])
    BY DEF AllSplit
  <1> DEFINE k == ctx.slots[i].param
             u == A[k]
             w == B[k]
  <1>1. k \in DOMAIN params
    <2> DEFINE R == [param : DOMAIN params, offset : Nat]
    <2>1. ctx.slots \in Seq(R)  BY DEF Placed, Template, Emitted
    <2>2. \A r \in R : r.param \in DOMAIN params  OBVIOUS
    <2> HIDE DEF R
    <2>3. ctx.slots[i] \in R  BY <2>1
    <2> QED BY <2>2, <2>3
  <1>2. HasType(u, params[k].type) /\ HasType(w, params[k].type)
    BY <1>1 DEF Placed, GoodArgs
  <1>3. u \in Value /\ w \in Value /\ Short(w) /\ w.type = u.type  BY <1>2 DEF HasType
  <1>4. Splits(u)  BY DEF AllSplit
  <1>5. resolveSlotLayout(ctx, A)[i].valueLength = Len(encodeArg(u)) - PushHeaderBytes(encodeArg(u), u.type)
    BY RangeParts DEF Placed
  <1>6. resolveSlotLayout(ctx, B)[i].valueLength = Len(encodeArg(w)) - PushHeaderBytes(encodeArg(w), w.type)
    BY RangeParts DEF Placed
  <1> HIDE DEF u, w, k
  <1>7. Splits(w)  BY <1>3, <1>4, <1>5, <1>6, SameSplit
  <1> QED BY <1>7 DEF w, k

(* Substitutions in front of an offset that are as long move it as far.    *)
AsLong(ctx, A, B, o) ==
  \A j \in DOMAIN collectSubstitutions(ctx, A) : collectSubstitutions(ctx, A)[j].offset < o =>
     Len(collectSubstitutions(ctx, B)[j].bytes) = Len(collectSubstitutions(ctx, A)[j].bytes)

(* They move what is behind them as far.                                   *)
LEMMA AsFar ==
  ASSUME NEW params, NEW ctx, NEW A, NEW B, Placed(ctx, params, A), Placed(ctx, params, B),
         NEW o, AsLong(ctx, A, B, o)
  PROVE  /\ ShiftBefore(collectSubstitutions(ctx, B), o) = ShiftBefore(collectSubstitutions(ctx, A), o)
         /\ ShiftBefore(ConstructorSubs(ctx, B), o) = ShiftBefore(ConstructorSubs(ctx, A), o)
         /\ \A i \in DOMAIN ctx.sepSlots :
               ShiftBefore(SubSeq(resolvedCodeSepSlotValues(ctx, B), 1, i - 1), o)
                  = ShiftBefore(SubSeq(resolvedCodeSepSlotValues(ctx, A), 1, i - 1), o)
  <1> DEFINE m == Len(ctx.slots)
             n == Len(ctx.sepSlots)
             sa == collectSubstitutions(ctx, A)
             sb == collectSubstitutions(ctx, B)
             ca == ConstructorSubs(ctx, A)
             cb == ConstructorSubs(ctx, B)
             ra == resolvedCodeSepSlotValues(ctx, A)
             rb == resolvedCodeSepSlotValues(ctx, B)
  <1>1. /\ m \in Nat /\ n \in Nat /\ DOMAIN ctx.slots = 1..m /\ DOMAIN ctx.sepSlots = 1..n
        /\ DOMAIN sa = 1..(m + n) /\ DOMAIN sb = 1..(m + n)
        /\ \A i \in 1..m : sa[i].offset = sb[i].offset /\ sa[i] = ca[i] /\ sb[i] = cb[i]
        /\ \A i \in 1..n : sa[m + i].offset = sb[m + i].offset /\ sa[m + i] = ra[i] /\ sb[m + i] = rb[i]
    <2>1. Collected(ctx, A) /\ Collected(ctx, B)  BY CollectParts DEF Placed
    <2>2. /\ m \in Nat /\ n \in Nat /\ DOMAIN ctx.slots = 1..m /\ DOMAIN ctx.sepSlots = 1..n
          /\ DOMAIN sa = 1..(m + n)
          /\ \A i \in 1..m : sa[i].offset = ctx.slots[i].offset /\ sa[i] = ca[i]
          /\ \A i \in 1..n : sa[m + i].offset = ctx.sepSlots[i].offset /\ sa[m + i] = ra[i]
      BY <2>1 DEF Collected
    <2>3. /\ DOMAIN sb = 1..(m + n)
          /\ \A i \in 1..m : sb[i].offset = ctx.slots[i].offset /\ sb[i] = cb[i]
          /\ \A i \in 1..n : sb[m + i].offset = ctx.sepSlots[i].offset /\ sb[m + i] = rb[i]
      BY <2>1 DEF Collected
    <2> HIDE DEF m, n, sa, sb, ca, cb, ra, rb
    <2> QED BY <2>2, <2>3
  <1>2. sa \in Seq(Subs) /\ sb \in Seq(Subs)
    BY CollectFacts, CleanSubsType DEF Placed
  <1>3. ca \in Seq(Subs) /\ cb \in Seq(Subs) /\ Len(ca) = m /\ Len(cb) = m
    BY ConstructorSubsFacts, CleanSubsType DEF Placed
  <1>4. ra \in Seq(Subs) /\ rb \in Seq(Subs) /\ Len(ra) = n /\ Len(rb) = n
    <2>1. ra \in Seq(Numbers) /\ rb \in Seq(Numbers) /\ Len(ra) = n /\ Len(rb) = n
      BY ResolvedFacts DEF Placed
    <2>2. Numbers \subseteq Subs  BY DEF Numbers
    <2> HIDE DEF ra, rb
    <2> QED BY <2>1, <2>2
  <1>5. \A j \in 1..(m + n) : sa[j].offset < o => Len(sb[j].bytes) = Len(sa[j].bytes)
    BY <1>1 DEF AsLong
  <1> HIDE DEF m, n, sa, sb, ca, cb, ra, rb
  <1>6. \A i \in 1..m : i \in 1..(m + n)  BY <1>1
  <1>7. \A i \in 1..n : m + i \in 1..(m + n)  BY <1>1
  <1>8. ShiftBefore(sb, o) = ShiftBefore(sa, o)
    <2>1. \A j \in 1..(m + n) : sa[j].offset = sb[j].offset
      <3> TAKE j \in 1..(m + n)
      <3>1. j \in 1..m \/ (j - m \in 1..n /\ m + (j - m) = j)  BY <1>1
      <3>2. CASE j \in 1..m  BY <1>1, <3>2
      <3>3. CASE j - m \in 1..n /\ m + (j - m) = j
        <4>1. sa[m + (j - m)].offset = sb[m + (j - m)].offset  BY <1>1, <3>3
        <4> QED BY <3>3, <4>1
      <3> QED BY <3>1, <3>2, <3>3
    <2>2. \A j \in DOMAIN sa : sa[j].offset < o =>
             j \in DOMAIN sb /\ sb[j].offset < o /\ Len(sb[j].bytes) = Len(sa[j].bytes)
      BY <1>1, <1>5, <2>1
    <2>3. \A j \in DOMAIN sb : sb[j].offset < o => j \in DOMAIN sa /\ sa[j].offset < o
      BY <1>1, <2>1
    <2> QED BY <1>2, <2>2, <2>3, ShiftSame
  <1>9. ShiftBefore(cb, o) = ShiftBefore(ca, o)
    <2>1. DOMAIN ca = 1..m /\ DOMAIN cb = 1..m  BY <1>3
    <2>2. \A j \in DOMAIN ca : ca[j].offset < o =>
             j \in DOMAIN cb /\ cb[j].offset < o /\ Len(cb[j].bytes) = Len(ca[j].bytes)
      BY <1>1, <1>5, <1>6, <2>1
    <2>3. \A j \in DOMAIN cb : cb[j].offset < o => j \in DOMAIN ca /\ ca[j].offset < o
      BY <1>1, <2>1
    <2> QED BY <1>3, <2>2, <2>3, ShiftSame
  <1>10. ASSUME NEW i \in 1..n
         PROVE  ShiftBefore(SubSeq(rb, 1, i - 1), o) = ShiftBefore(SubSeq(ra, 1, i - 1), o)
    <2> DEFINE x == SubSeq(ra, 1, i - 1)
               y == SubSeq(rb, 1, i - 1)
    <2>0. i - 1 \in 0..n  BY <1>1
    <2>1. /\ x \in Seq(Subs) /\ DOMAIN x = 1..(i - 1) /\ \A j \in 1..(i - 1) : x[j] = ra[j]
          /\ y \in Seq(Subs) /\ DOMAIN y = 1..(i - 1) /\ \A j \in 1..(i - 1) : y[j] = rb[j]
      BY <1>4, <2>0
    <2>2. \A j \in 1..(i - 1) : j \in 1..n  BY <1>1
    <2> HIDE DEF x, y
    <2>3. \A j \in DOMAIN x : x[j].offset < o =>
             j \in DOMAIN y /\ y[j].offset < o /\ Len(y[j].bytes) = Len(x[j].bytes)
      <3> SUFFICES ASSUME NEW j \in 1..(i - 1), x[j].offset < o
                   PROVE  j \in DOMAIN y /\ y[j].offset < o /\ Len(y[j].bytes) = Len(x[j].bytes)
        BY <2>1
      <3>1. j \in 1..n /\ m + j \in 1..(m + n)  BY <1>7, <2>2
      <3>2. sa[m + j].offset = sb[m + j].offset /\ x[j] = sa[m + j] /\ y[j] = sb[m + j]
        BY <1>1, <2>1, <3>1
      <3>3. Len(sb[m + j].bytes) = Len(sa[m + j].bytes)  BY <1>5, <3>1, <3>2
      <3>4. y[j].offset < o  BY <3>2, Zenon
      <3>5. Len(y[j].bytes) = Len(x[j].bytes)  BY <3>2, <3>3, Zenon
      <3>6. j \in DOMAIN y  BY <2>1, Zenon
      <3> QED BY <3>4, <3>5, <3>6, Zenon
    <2>4. \A j \in DOMAIN y : y[j].offset < o => j \in DOMAIN x /\ x[j].offset < o
      <3> SUFFICES ASSUME NEW j \in 1..(i - 1), y[j].offset < o
                   PROVE  j \in DOMAIN x /\ x[j].offset < o
        BY <2>1
      <3>1. j \in 1..n /\ m + j \in 1..(m + n)  BY <1>7, <2>2
      <3>2. sa[m + j].offset = sb[m + j].offset /\ x[j] = sa[m + j] /\ y[j] = sb[m + j]
        BY <1>1, <2>1, <3>1
      <3>3. x[j].offset < o  BY <3>2, Zenon
      <3>4. j \in DOMAIN x  BY <2>1, Zenon
      <3> QED BY <3>3, <3>4
    <2>5. ShiftBefore(y, o) = ShiftBefore(x, o)  BY <2>1, <2>3, <2>4, ShiftSame
    <2> QED BY <2>5 DEF x, y
  <1> QED BY <1>1, <1>8, <1>9, <1>10 DEF sa, sb, ca, cb, ra, rb

(* The lengths of the two parts.                                           *)
LEMMA SplitLengths ==
  ASSUME NEW value, Splits(value)
  PROVE  /\ PushHeaderBytes(encodeArg(value), value.type) \in Nat /\ encodeArg(value) \in Bytes
         /\ Len(encodeArg(value)) = PushHeaderBytes(encodeArg(value), value.type) + Len(ValueBytes(value))
         /\ Len(ValueBytes(value)) \in Nat
  <1> DEFINE s == encodeArg(value)
             h == PushHeaderBytes(s, value.type)
             v == ValueBytes(value)
             a == HeadOf(h, Len(v))
  <1>1. h \in 0..5 /\ v \in Bytes /\ a \in Bytes /\ Len(a) = h /\ s = a \o v
    BY DEF Splits
  <1> HIDE DEF a, v, h, s
  <1>2. a \o v \in Bytes /\ Len(a \o v) = Len(a) + Len(v) /\ Len(v) \in Nat
    BY <1>1, BytesConcat, BytesFacts
  <1>3. h \in Nat /\ s \in Bytes /\ Len(s) = h + Len(v) /\ Len(v) \in Nat  BY <1>1, <1>2
  <1> QED BY <1>3 DEF s, h, v

(* Ranges that are equal have equal headers, if those in front are as      *)
(* long.                                                                   *)
LEMMA LayoutHeaders ==
  ASSUME NEW params, NEW ctx, NEW A, NEW B, Placed(ctx, params, A), Placed(ctx, params, B),
         AllSplit(ctx, A), AllSplit(ctx, B), NEW i \in DOMAIN ctx.slots,
         resolveSlotLayout(ctx, B)[i] = resolveSlotLayout(ctx, A)[i],
         AsLong(ctx, A, B, ctx.slots[i].offset)
  PROVE  /\ Len(collectSubstitutions(ctx, B)[i].bytes) = Len(collectSubstitutions(ctx, A)[i].bytes)
         /\ Headers(ctx, B)[i] = Headers(ctx, A)[i]
  <1> DEFINE o == ctx.slots[i].offset
             u == A[ctx.slots[i].param]
             w == B[ctx.slots[i].param]
             hu == PushHeaderBytes(encodeArg(u), u.type)
             hw == PushHeaderBytes(encodeArg(w), w.type)
             su == encodeArg(u)
             sw == encodeArg(w)
             S == ShiftBefore(collectSubstitutions(ctx, A), o)
             ra == resolveSlotLayout(ctx, A)[i]
             rb == resolveSlotLayout(ctx, B)[i]
  <1>1. ShiftBefore(collectSubstitutions(ctx, B), o) = S  BY AsFar
  <1>2. ra.valueOffset = o + S + hu /\ ra.valueLength = Len(su) - hu
    BY RangeParts DEF Placed
  <1>3. rb.valueOffset = o + S + hw /\ rb.valueLength = Len(sw) - hw
    <2>1. rb.valueOffset = o + ShiftBefore(collectSubstitutions(ctx, B), o) + hw
          /\ rb.valueLength = Len(sw) - hw
      BY RangeParts DEF Placed
    <2> HIDE DEF rb, hw, o
    <2> QED BY <1>1, <2>1
  <1>4. Splits(u) /\ Splits(w)  BY DEF AllSplit
  <1>5. /\ hu \in Nat /\ hw \in Nat /\ su \in Bytes /\ sw \in Bytes
        /\ Len(su) = hu + Len(ValueBytes(u)) /\ Len(sw) = hw + Len(ValueBytes(w))
        /\ Len(ValueBytes(u)) \in Nat /\ Len(ValueBytes(w)) \in Nat
    BY <1>4, SplitLengths
  <1>6. o \in Int /\ S \in Int
    <2>1. collectSubstitutions(ctx, A) \in Seq(Subs)  BY CollectFacts, CleanSubsType DEF Placed
    <2>2. Collected(ctx, A)  BY CollectParts DEF Placed
    <2>3. i \in DOMAIN collectSubstitutions(ctx, A) /\ o = collectSubstitutions(ctx, A)[i].offset
      <3> DEFINE m == Len(ctx.slots)
                 n == Len(ctx.sepSlots)
                 s == collectSubstitutions(ctx, A)
      <3>1. m \in Nat /\ n \in Nat /\ DOMAIN ctx.slots = 1..m /\ DOMAIN s = 1..(m + n)
            /\ \A j \in 1..m : s[j].offset = ctx.slots[j].offset
        BY <2>2 DEF Collected
      <3> HIDE DEF m, n, s
      <3>2. i \in 1..m /\ i \in 1..(m + n)  BY <3>1
      <3> QED BY <3>1, <3>2 DEF s
    <2>4. o \in Nat  BY <2>1, <2>3, SubsFacts
    <2> HIDE DEF o
    <2> QED BY <2>1, <2>4, ShiftType DEF S
  <1>7. ra = rb  OBVIOUS
  <1> HIDE DEF o, S, hu, hw, ra, rb, su, sw
  <1>8. hu = hw
    <2>1. o + S + hu = o + S + hw  BY <1>2, <1>3, <1>7
    <2> QED BY <1>5, <1>6, <2>1
  <1>9. Len(su) - hu = Len(sw) - hw  BY <1>2, <1>3, <1>7
  <1>10. Len(su) = Len(sw) /\ Len(ValueBytes(u)) = Len(ValueBytes(w))
    <2> DEFINE x == Len(ValueBytes(u))
               y == Len(ValueBytes(w))
    <2>1. x \in Nat /\ y \in Nat /\ Len(su) = hu + x /\ Len(sw) = hw + y  BY <1>5
    <2> HIDE DEF x, y
    <2>2. x = y  BY <1>5, <1>8, <1>9, <2>1
    <2> QED BY <1>8, <2>1, <2>2 DEF x, y
  <1>11. Headers(ctx, A)[i] = HeadOf(hu, Len(ValueBytes(u)))
         /\ Headers(ctx, B)[i] = HeadOf(hw, Len(ValueBytes(w)))
    BY DEF Headers, hu, hw
  <1>12. collectSubstitutions(ctx, A)[i].bytes = su /\ collectSubstitutions(ctx, B)[i].bytes = sw
    <2>1. Collected(ctx, A) /\ Collected(ctx, B)  BY CollectParts DEF Placed
    <2>2. i \in 1..Len(ctx.slots)  BY <2>1 DEF Collected
    <2> QED BY <2>1, <2>2 DEF Collected, su, sw
  <1> QED BY <1>8, <1>10, <1>11, <1>12

(* Indices are equal, if those in front of them are as long.               *)
LEMMA LayoutIndices ==
  ASSUME NEW params, NEW ctx, NEW A, NEW B, Placed(ctx, params, A), Placed(ctx, params, B),
         NEW i \in DOMAIN ctx.sepSlots, AsLong(ctx, A, B, ctx.sepSlots[i].offset)
  PROVE  resolvedCodeSepSlotValues(ctx, B)[i] = resolvedCodeSepSlotValues(ctx, A)[i]
  <1> DEFINE slot == ctx.sepSlots[i]
             o == slot.offset
             x == slot.index
             ra == resolvedCodeSepSlotValues(ctx, A)
             rb == resolvedCodeSepSlotValues(ctx, B)
  <1>1. AsLong(ctx, A, B, x)
    <2>1. x <= o  BY DEF Placed, Laid
    <2>2. x \in Nat /\ o \in Nat
      <3> DEFINE R == [offset : Nat, index : Nat]
      <3>1. ctx.sepSlots \in Seq(R)  BY DEF Placed, Template, Emitted
      <3>2. \A r \in R : r.index \in Nat /\ r.offset \in Nat  OBVIOUS
      <3> HIDE DEF R
      <3>3. ctx.sepSlots[i] \in R  BY <3>1
      <3> QED BY <3>2, <3>3
    <2>3. collectSubstitutions(ctx, A) \in Seq(Subs)  BY CollectFacts, CleanSubsType DEF Placed
    <2>4. \A j \in DOMAIN collectSubstitutions(ctx, A) : collectSubstitutions(ctx, A)[j].offset \in Nat
      BY <2>3, SubsFacts
    <2>5. AsLong(ctx, A, B, o)  OBVIOUS
    <2> HIDE DEF x, o
    <2> QED BY <2>1, <2>2, <2>4, <2>5 DEF AsLong
  <1>2. /\ ShiftBefore(ConstructorSubs(ctx, B), x) = ShiftBefore(ConstructorSubs(ctx, A), x)
        /\ ShiftBefore(SubSeq(rb, 1, i - 1), x) = ShiftBefore(SubSeq(ra, 1, i - 1), x)
    <2> HIDE DEF x
    <2> QED BY <1>1, AsFar
  <1>3. /\ ra \in Seq(Numbers) /\ Len(ra) = Len(ctx.sepSlots)
        /\ ra[i].offset = o /\ ra[i].bytes = IndexBytes(ctx, A, slot, SubSeq(ra, 1, i - 1))
    BY ResolvedFacts DEF Placed
  <1>4. /\ rb \in Seq(Numbers) /\ Len(rb) = Len(ctx.sepSlots)
        /\ rb[i].offset = o /\ rb[i].bytes = IndexBytes(ctx, B, slot, SubSeq(rb, 1, i - 1))
    BY ResolvedFacts DEF Placed
  <1>5. ra[i].bytes = rb[i].bytes
    <2> HIDE DEF ra, rb
    <2> QED BY <1>2, <1>3, <1>4 DEF IndexBytes
  <1>6. ra[i] \in Subs /\ rb[i] \in Subs
    <2>1. i \in 1..Len(ctx.sepSlots)
      <3>1. Collected(ctx, A)  BY CollectParts DEF Placed
      <3> QED BY <3>1 DEF Collected
    <2> HIDE DEF ra, rb
    <2>2. ra[i] \in Numbers /\ rb[i] \in Numbers  BY <1>3, <1>4, <2>1
    <2> QED BY <2>2 DEF Numbers
  <1> HIDE DEF ra, rb, o, slot
  <1>7. \A r, s \in Subs : r.offset = s.offset /\ r.bytes = s.bytes => r = s  BY DEF Subs
  <1> QED BY <1>3, <1>4, <1>5, <1>6, <1>7 DEF ra, rb

(* The layout determines all but the values.                               *)
LEMMA LayoutAgrees ==
  ASSUME NEW params, NEW ctx, NEW A, NEW B, Placed(ctx, params, A), Placed(ctx, params, B),
         AllSplit(ctx, A), resolveSlotLayout(ctx, B) = resolveSlotLayout(ctx, A)
  PROVE  /\ \A i \in DOMAIN ctx.slots : Headers(ctx, B)[i] = Headers(ctx, A)[i]
         /\ \A i \in DOMAIN ctx.sepSlots :
               resolvedCodeSepSlotValues(ctx, B)[i] = resolvedCodeSepSlotValues(ctx, A)[i]
  <1> DEFINE m == Len(ctx.slots)
             n == Len(ctx.sepSlots)
             sa == collectSubstitutions(ctx, A)
             sb == collectSubstitutions(ctx, B)
             ra == resolvedCodeSepSlotValues(ctx, A)
             rb == resolvedCodeSepSlotValues(ctx, B)
             D == DOMAIN sa
             rank == [j \in D |-> sa[j].offset]
             P == {j \in D : /\ Len(sb[j].bytes) = Len(sa[j].bytes)
                             /\ j \in DOMAIN ctx.slots => Headers(ctx, B)[j] = Headers(ctx, A)[j]
                             /\ \A i \in DOMAIN ctx.sepSlots : j = m + i => rb[i] = ra[i]}
  <1>1. /\ m \in Nat /\ n \in Nat /\ DOMAIN ctx.slots = 1..m /\ DOMAIN ctx.sepSlots = 1..n
        /\ D = 1..(m + n)
        /\ \A i \in 1..m : sa[i].offset = ctx.slots[i].offset
        /\ \A i \in 1..n : /\ sa[m + i].offset = ctx.sepSlots[i].offset
                           /\ sa[m + i] = ra[i] /\ sb[m + i] = rb[i]
    <2>1. Collected(ctx, A) /\ Collected(ctx, B)  BY CollectParts DEF Placed
    <2> QED BY <2>1 DEF Collected
  <1>2. rank \in [D -> Nat]
    <2>1. sa \in Seq(Subs)  BY CollectFacts, CleanSubsType DEF Placed
    <2>2. \A j \in D : sa[j].offset \in Nat  BY <2>1, SubsFacts
    <2> QED BY <2>2
  <1>3. AllSplit(ctx, B)  BY LayoutSplits
  <1>4. ASSUME NEW j \in D, \A k \in D : rank[k] < rank[j] => k \in P
        PROVE  j \in P
    <2> DEFINE o == sa[j].offset
    <2>1. AsLong(ctx, A, B, o)
      <3>1. \A k \in D : sa[k].offset < o => k \in P  BY <1>4
      <3> HIDE DEF o
      <3>2. \A k \in D : sa[k].offset < o => Len(sb[k].bytes) = Len(sa[k].bytes)  BY <3>1
      <3> QED BY <3>2 DEF AsLong
    <2>2. j \in 1..m \/ (j - m \in 1..n /\ m + (j - m) = j)
      <3> HIDE DEF m, n, D
      <3> QED BY <1>1
    <2>3. CASE j \in 1..m
      <3>1. j \in DOMAIN ctx.slots /\ o = ctx.slots[j].offset  BY <1>1, <2>3
      <3>2. resolveSlotLayout(ctx, B)[j] = resolveSlotLayout(ctx, A)[j]  OBVIOUS
      <3> HIDE DEF o, P, rank
      <3>3. AsLong(ctx, A, B, ctx.slots[j].offset)  BY <2>1, <3>1
      <3>4. Len(sb[j].bytes) = Len(sa[j].bytes) /\ Headers(ctx, B)[j] = Headers(ctx, A)[j]
        BY <1>3, <3>1, <3>2, <3>3, LayoutHeaders
      <3> HIDE DEF m, n, sa, sb, ra, rb
      <3>5. \A i \in DOMAIN ctx.sepSlots : j # m + i  BY <1>1, <2>3
      <3> HIDE DEF D
      <3> QED BY <3>4, <3>5 DEF P
    <2>4. CASE j - m \in 1..n /\ m + (j - m) = j
      <3> DEFINE i == j - m
      <3>1. i \in DOMAIN ctx.sepSlots /\ m + i = j  BY <1>1, <2>4
      <3>2. o = ctx.sepSlots[i].offset /\ sa[j] = ra[i] /\ sb[j] = rb[i]
        <4>1. sa[m + i].offset = ctx.sepSlots[i].offset /\ sa[m + i] = ra[i] /\ sb[m + i] = rb[i]
          BY <1>1, <2>4
        <4> QED BY <3>1, <4>1
      <3> HIDE DEF o, P, rank, i
      <3>3. AsLong(ctx, A, B, ctx.sepSlots[i].offset)  BY <2>1, <3>2
      <3>4. rb[i] = ra[i]  BY <3>1, <3>3, LayoutIndices
      <3> HIDE DEF m, n, sa, sb, ra, rb
      <3>5. \A k \in DOMAIN ctx.sepSlots : j = m + k => k = i  BY <1>1, <3>1
      <3>6. j \notin DOMAIN ctx.slots  BY <1>1, <3>1
      <3> HIDE DEF D
      <3> QED BY <3>2, <3>4, <3>5, <3>6 DEF P
    <2> QED BY <2>2, <2>3, <2>4
  <1> HIDE DEF m, n, sa, sb, ra, rb, D, rank, P
  <1>5. D \subseteq P  BY <1>2, <1>4, RankInduction
  <1>6. ASSUME NEW i \in DOMAIN ctx.slots PROVE Headers(ctx, B)[i] = Headers(ctx, A)[i]
    <2>1. i \in D  BY <1>1
    <2> QED BY <1>5, <2>1 DEF P
  <1>7. ASSUME NEW i \in DOMAIN ctx.sepSlots PROVE rb[i] = ra[i]
    <2>1. m + i \in D  BY <1>1
    <2> QED BY <1>5, <2>1 DEF P
  <1> QED BY <1>6, <1>7 DEF ra, rb

(* So the code without the values is the same for all of one layout.       *)
LEMMA LayoutDetermines ==
  ASSUME NEW params, NEW ctx, NEW A, NEW B, Placed(ctx, params, A), Placed(ctx, params, B),
         AllSplit(ctx, A), resolveSlotLayout(ctx, B) = resolveSlotLayout(ctx, A)
  PROVE  ExcisedTemplate(ctx, B) = ExcisedTemplate(ctx, A)
  <1> DEFINE m == Len(ctx.slots)
             n == Len(ctx.sepSlots)
             sa == collectSubstitutions(ctx, A)
             sb == collectSubstitutions(ctx, B)
             ha == Headers(ctx, A)
             hb == Headers(ctx, B)
             ra == resolvedCodeSepSlotValues(ctx, A)
             rb == resolvedCodeSepSlotValues(ctx, B)
  <1>1. AllSplit(ctx, B)  BY LayoutSplits
  <1>2. /\ ExcisedTemplate(ctx, A) = Splice(ctx.bytes, HeadsFrom(sa, m, ha, 0))
        /\ ExcisedTemplate(ctx, B) = Splice(ctx.bytes, HeadsFrom(sb, m, hb, 0))
    BY <1>1, ExcisedIs DEF Placed
  <1>3. /\ m \in Nat /\ n \in Nat /\ DOMAIN ctx.slots = 1..m /\ DOMAIN ctx.sepSlots = 1..n
        /\ DOMAIN sa = 1..(m + n) /\ DOMAIN sb = 1..(m + n)
        /\ \A i \in 1..m : sa[i].offset = sb[i].offset
        /\ \A i \in 1..n : sa[m + i] = ra[i] /\ sb[m + i] = rb[i]
    <2>1. Collected(ctx, A) /\ Collected(ctx, B)  BY CollectParts DEF Placed
    <2> QED BY <2>1 DEF Collected
  <1>4. (\A i \in 1..m : hb[i] = ha[i]) /\ \A i \in 1..n : rb[i] = ra[i]
    BY <1>3, LayoutAgrees
  <1> HIDE DEF m, n, sa, sb, ha, hb, ra, rb
  <1>5. \A j \in 1..(m + n) :
           (IF 0 < j /\ j <= m THEN [offset |-> sa[j].offset, bytes |-> ha[j]] ELSE sa[j])
         = (IF 0 < j /\ j <= m THEN [offset |-> sb[j].offset, bytes |-> hb[j]] ELSE sb[j])
    <2> TAKE j \in 1..(m + n)
    <2>1. \/ 0 < j /\ j <= m /\ j \in 1..m
          \/ ~(0 < j /\ j <= m) /\ j - m \in 1..n /\ m + (j - m) = j
      BY <1>3
    <2>2. CASE 0 < j /\ j <= m /\ j \in 1..m
      BY <1>3, <1>4, <2>2
    <2>3. CASE ~(0 < j /\ j <= m) /\ j - m \in 1..n /\ m + (j - m) = j
      <3>1. sa[m + (j - m)] = sb[m + (j - m)]  BY <1>3, <1>4, <2>3
      <3>2. sa[j] = sb[j]  BY <2>3, <3>1
      <3> QED BY <2>3, <3>2
    <2> QED BY <2>1, <2>2, <2>3
  <1>6. HeadsFrom(sa, m, ha, 0) = HeadsFrom(sb, m, hb, 0)
    BY <1>3, <1>5 DEF HeadsFrom
  <1> QED BY <1>2, <1>6

(* The part between the offsets.                                           *)
LEMMA SliceFound ==
  ASSUME NEW X \in Bytes, NEW h \in Bytes, NEW d \in Bytes, NEW Z \in Bytes, NEW rest \in Bytes
  PROVE  Slice((X \o ((h \o d) \o Z)) \o rest, Len(X) + Len(h), Len(X) + Len(h) + Len(d)) = d
  <1> DEFINE l == X \o h
             t == Z \o rest
             hd == h \o d
             dz == d \o Z
  <1>1. /\ l \in Bytes /\ Len(l) = Len(X) + Len(h) /\ t \in Bytes /\ dz \in Bytes /\ hd \in Bytes
    BY BytesConcat
  <1>2. hd \o Z = h \o dz
    <2>1. Associative(h, d, Z)  BY BytesAssociative
    <2> QED BY <2>1 DEF Associative
  <1>3. X \o (h \o dz) = l \o dz
    <2> HIDE DEF dz
    <2>1. Associative(X, h, dz)  BY <1>1, BytesAssociative
    <2> QED BY <2>1 DEF Associative
  <1>4. l \o dz = (l \o d) \o Z
    <2> HIDE DEF l
    <2>1. Associative(l, d, Z)  BY <1>1, BytesAssociative
    <2> QED BY <2>1 DEF Associative
  <1>5. ((l \o d) \o Z) \o rest = (l \o d) \o t
    <2> DEFINE ld == l \o d
    <2>1. ld \in Bytes
      <3> HIDE DEF l
      <3> QED BY <1>1, BytesConcat
    <2> HIDE DEF ld
    <2>2. Associative(ld, Z, rest)  BY <2>1, BytesAssociative
    <2>3. (ld \o Z) \o rest = ld \o (Z \o rest)  BY <2>2 DEF Associative
    <2> QED BY <2>3 DEF ld
  <1>6. Slice(l \o d \o t, Len(l), Len(l) + Len(d)) = d
    <2> HIDE DEF l, t
    <2>1. l \in Seq(Byte) /\ d \in Seq(Byte) /\ t \in Seq(Byte)  BY <1>1 DEF Bytes
    <2> QED BY <2>1, SliceMiddle
  <1>7. (X \o (hd \o Z)) \o rest = l \o d \o t  BY <1>2, <1>3, <1>4, <1>5
  <1> QED BY <1>1, <1>6, <1>7

(* The bytes of the value are where the layout says.                       *)
LEMMA ValueHeld ==
  ASSUME NEW params, NEW ctx, NEW A, Placed(ctx, params, A), AllSplit(ctx, A),
         NEW i \in DOMAIN ctx.slots, NEW rest \in Bytes
  PROVE  LET range == resolveSlotLayout(ctx, A)[i] IN
           Slice(Splice(ctx.bytes, collectSubstitutions(ctx, A)) \o rest,
                 range.valueOffset, range.valueOffset + range.valueLength)
             = ValueBytes(A[ctx.slots[i].param])
  <1> DEFINE code == ctx.bytes
             subs == collectSubstitutions(ctx, A)
             m == Len(ctx.slots)
             heads == Headers(ctx, A)
             datas == Values(ctx, A)
             range == resolveSlotLayout(ctx, A)[i]
             o == subs[i].offset
             h == heads[i]
             d == datas[i]
  <1>1. Framed(code, subs, m, heads, datas)  BY ArgsFramed DEF Placed
  <1>2. range.valueOffset = ValueAt(subs, heads, i) /\ range.valueLength = Len(d)
    BY LayoutParts DEF Placed
  <1>3. i \in 1..m /\ i \in DOMAIN subs
    <2> DEFINE n == Len(ctx.sepSlots)
    <2>1. Collected(ctx, A)  BY CollectParts DEF Placed
    <2>2. m \in Nat /\ n \in Nat /\ DOMAIN ctx.slots = 1..m /\ DOMAIN subs = 1..(m + n)
      BY <2>1 DEF Collected
    <2> HIDE DEF m, n, subs
    <2> QED BY <2>2
  <1>4. d = ValueBytes(A[ctx.slots[i].param])  BY DEF Values
  <1> HIDE DEF code, subs, m, heads, datas, range
  <1>5. /\ code \in Bytes /\ subs \in Seq(Subs) /\ Apart(subs)
        /\ \A j \in DOMAIN subs : subs[j].offset < Len(code)
        /\ h \in Bytes /\ d \in Bytes /\ subs[i].bytes = h \o d
    BY <1>1, <1>3 DEF Framed
  <1>6. Around(code, 0, o + ShiftBefore(subs, o), subs[i].bytes, subs[i].bytes,
               Splice(code, subs), Splice(code, subs))
    BY <1>3, <1>5, SplicePair
  <1>7. PICK X \in Bytes, Z \in Bytes :
            /\ Len(X) + 0 = o + ShiftBefore(subs, o)
            /\ Splice(code, subs) = SubSeq(code, 1, 0) \o (X \o ((h \o d) \o Z))
    BY <1>5, <1>6 DEF Around
  <1> HIDE DEF h, d, o
  <1>8. Splice(code, subs) = X \o ((h \o d) \o Z)
    <2>1. \A s \in Bytes : SubSeq(code, 1, 0) \o s = s  BY <1>5 DEF Bytes
    <2>2. h \o d \in Bytes  BY <1>5, BytesConcat
    <2>3. (h \o d) \o Z \in Bytes  BY <2>2, BytesConcat
    <2>4. X \o ((h \o d) \o Z) \in Bytes  BY <2>3, BytesConcat
    <2> QED BY <1>7, <2>1, <2>4
  <1>9. Len(X) = o + ShiftBefore(subs, o)
    <2>1. Len(X) \in Nat  BY BytesFacts
    <2> QED BY <1>7, <2>1
  <1>10. range.valueOffset = Len(X) + Len(h)  BY <1>2, <1>9 DEF ValueAt, o, h
  <1>11. Slice((X \o ((h \o d) \o Z)) \o rest, Len(X) + Len(h), Len(X) + Len(h) + Len(d)) = d
    BY <1>5, SliceFound
  <1>12. Slice(Splice(code, subs) \o rest, range.valueOffset, range.valueOffset + range.valueLength) = d
    BY <1>2, <1>8, <1>10, <1>11 DEF d
  <1> QED BY <1>4, <1>12 DEF code, subs, range

-----------------------------------------------------------------------------
(* The script of an object with slots is the spliced code and what is      *)
(* behind it.                                                              *)
LEMMA SpliceDeployed ==
  ASSUME NEW q, IsProgram(q), NEW args \in ArgLists(q.params), NEW object,
         object = NewContract(q, args), Serializable(q.fields, object.state), q.artifact.slots # <<>>
  PROVE  \E rest \in Bytes :
            getLockingScript(q, object)
               = Splice(q.artifact.bytes, collectSubstitutions(q.artifact, args)) \o rest
  <1> DEFINE subs == collectSubstitutions(q.artifact, args)
             code == Splice(q.artifact.bytes, subs)
             rest == IF q.fields = <<>> THEN <<>>
                     ELSE <<OP_RETURN>> \o serializeState(q.fields, object.state)
  <1>1. Holds(q.fields, object.state) /\ object.fromChain = FALSE /\ object.args = args
    BY ObjectFacts
  <1>2. subs # <<>>
    <2> DEFINE x == q.artifact.slots
               m == Len(x)
               n == Len(q.artifact.sepSlots)
    <2>1. Collected(q.artifact, args)  BY ProgramFacts, CollectParts
    <2>2. m \in Nat /\ n \in Nat /\ DOMAIN x = 1..m /\ Len(subs) = m + n
      BY <2>1 DEF Collected
    <2>3. x \in Seq([param : DOMAIN q.params, offset : Nat])
      BY ProgramFacts DEF Template, Emitted
    <2> HIDE DEF x, n, subs
    <2>4. m # 0  BY <2>3 DEF x
    <2> HIDE DEF m
    <2>5. Len(subs) # 0  BY <2>2, <2>4
    <2> QED BY <2>5
  <1>3. getCodePartHex(q, object) = code
    <2>1. getCodePartHex(q, object) = buildCodeScript(q, args)  BY <1>1 DEF getCodePartHex
    <2> HIDE DEF subs
    <2>2. buildCodeScript(q, args) = code  BY <1>2 DEF buildCodeScript, subs
    <2> QED BY <2>1, <2>2
  <1>4. rest \in Bytes
    <2>1. serializeState(q.fields, object.state) \in Bytes  BY <1>1, SectionOf
    <2>2. <<OP_RETURN>> \in Bytes /\ <<>> \in Bytes  BY DEF Bytes, Byte, OP_RETURN
    <2> DEFINE s == serializeState(q.fields, object.state)
               r == <<OP_RETURN>>
    <2> HIDE DEF s, r
    <2>3. r \o s \in Bytes  BY <2>1, <2>2, BytesConcat DEF r, s
    <2> QED BY <2>2, <2>3 DEF r, s
  <1>5. getLockingScript(q, object) = code \o rest  BY <1>3 DEF getLockingScript
  <1> QED BY <1>4, <1>5

(* The arguments of an object, none of them a byte that an opcode pushes.  *)
LEMMA ArgsSplit ==
  ASSUME NEW q, IsProgram(q), NEW args \in ArgLists(q.params),
         \A k \in Slotted(q) : ~ByteByOpcode(args[k])
  PROVE  AllSplit(q.artifact, args)
  <1> SUFFICES ASSUME NEW i \in DOMAIN q.artifact.slots
               PROVE  Splits(args[q.artifact.slots[i].param])
    BY DEF AllSplit
  <1> DEFINE k == q.artifact.slots[i].param
             value == args[k]
  <1>1. k \in DOMAIN q.params
    <2> DEFINE R == [param : DOMAIN q.params, offset : Nat]
    <2>1. q.artifact.slots \in Seq(R)  BY ProgramFacts DEF Template, Emitted
    <2>2. \A r \in R : r.param \in DOMAIN q.params  OBVIOUS
    <2> HIDE DEF R
    <2>3. q.artifact.slots[i] \in R  BY <2>1
    <2> QED BY <2>2, <2>3
  <1>2. HasType(value, q.params[k].type)
    <2>1. GoodArgs(q.params, args)  BY ProgramFacts
    <2> QED BY <1>1, <2>1 DEF GoodArgs
  <1>3. value \in Value /\ Short(value)  BY <1>2 DEF HasType
  <1>4. ~ByteByOpcode(value)
    <2>1. k \in Slotted(q)  BY DEF Slotted
    <2> QED BY <2>1
  <1> HIDE DEF value
  <1>5. Splits(value)  BY <1>3, <1>4, ArgSplits
  <1> QED BY <1>5 DEF value

(* The layout is right in each state of the invariant.                     *)
LEMMA ScriptInvLayout == ScriptInv => LayoutRightFramed
  <1> SUFFICES ASSUME ScriptInv, \A k \in Slotted(program) : ~ByteByOpcode(deployed.args[k]),
                      phase = "deployed"
               PROVE  /\ \A i \in DOMAIN program.artifact.slots :
                            HoldsValue(resolveSlotLayout(program.artifact, deployed.args)[i])
                      /\ TemplateIdentity(resolveSlotLayout(program.artifact, deployed.args),
                                          ExcisedTemplate(program.artifact, deployed.args))
    BY DEF LayoutRightFramed, LayoutRight
  <1> DEFINE ctx == program.artifact
  <1>1. IsProgram(program) /\ Serializable(program.fields, deployed.state)
        /\ script = getLockingScript(program, deployed)
    BY DEF ScriptInv
  <1>2. PICK args \in ArgLists(program.params) : deployed = NewContract(program, args)
    BY DEF ScriptInv, Constructed
  <1>3. deployed.args = args  BY <1>1, <1>2, ObjectFacts
  <1>4. AllSplit(ctx, args)  BY <1>1, <1>3, ArgsSplit
  <1>5. \A list \in ArgLists(program.params) : Placed(ctx, program.params, list)
    BY <1>1, ProgramFacts DEF Placed
  <1>6. ASSUME NEW i \in DOMAIN ctx.slots
        PROVE  HoldsValue(resolveSlotLayout(ctx, deployed.args)[i])
    <2> DEFINE range == resolveSlotLayout(ctx, args)[i]
               code == Splice(ctx.bytes, collectSubstitutions(ctx, args))
    <2>1. ctx.slots # <<>>  BY <1>6
    <2>2. PICK rest \in Bytes : script = code \o rest
      BY <1>1, <1>2, <2>1, SpliceDeployed
    <2>3. Slice(code \o rest, range.valueOffset, range.valueOffset + range.valueLength)
             = ValueBytes(args[ctx.slots[i].param])
      BY <1>4, <1>5, ValueHeld
    <2>4. range.param = ctx.slots[i].param
      BY <1>5, RangeParts DEF Placed
    <2> HIDE DEF range, code
    <2>5. HoldsValue(range)  BY <1>3, <2>2, <2>3, <2>4 DEF HoldsValue
    <2> QED BY <1>3, <2>5 DEF range
  <1>7. TemplateIdentity(resolveSlotLayout(ctx, deployed.args), ExcisedTemplate(ctx, deployed.args))
    <2>1. ASSUME NEW list \in ArgLists(program.params),
                 resolveSlotLayout(ctx, list) = resolveSlotLayout(ctx, args)
          PROVE  ExcisedTemplate(ctx, list) = ExcisedTemplate(ctx, args)
      BY <1>4, <1>5, <2>1, LayoutDetermines
    <2> QED BY <1>3, <2>1 DEF TemplateIdentity
  <1> QED BY <1>6, <1>7

(* The slot layout that the SDK gives a verifier points at the bytes of    *)
(* the values, and the code without them follows from the layout           *)
(* (slot-layout.ts resolveSlotLayout, computeTemplateHash).                *)
THEOREM LayoutRightFramedCorrect == Spec => []LayoutRightFramed
  BY ScriptInvHolds, ScriptInvLayout, PTL
-----------------------------------------------------------------------------
(* What a push holds is read back from it.                                 *)

(* The bytes of a number, lowest first, are what is left of it modulo 256. *)
Digits(n, bytes) ==
  \E left : /\ Leaves(n, Len(bytes), left) /\ left[Len(bytes)] = 0
            /\ \A k \in 1..Len(bytes) : bytes[k] = left[k - 1] % 256

(* One byte more in front.                                                 *)
LEMMA DigitsStep ==
  ASSUME NEW n \in Nat, NEW q, q = n \div 256, NEW byte \in Byte, byte = n % 256,
         NEW rest \in Bytes, Digits(q, rest)
  PROVE  Digits(n, <<byte>> \o rest)
  <1> DEFINE L == Len(rest)
             bytes == <<byte>> \o rest
  <1>1. L \in Nat  BY BytesFacts
  <1>2. /\ Len(bytes) = L + 1 /\ bytes[1] = byte
        /\ \A k \in 2..(L + 1) : bytes[k] = rest[k - 1]
    BY <1>1 DEF Bytes
  <1>3. PICK f : /\ Leaves(q, L, f) /\ f[L] = 0
                 /\ \A k \in 1..L : rest[k] = f[k - 1] % 256
    BY DEF Digits
  <1> HIDE DEF L, bytes
  <1> DEFINE left == [k \in 0..(L + 1) |-> IF k = 0 THEN n ELSE f[k - 1]]
  <1>4. left[0] = n /\ \A k \in 1..(L + 1) : left[k] = f[k - 1]  BY <1>1
  <1>5. left \in [0..(L + 1) -> Nat]
    <2>1. \A k \in 0..(L + 1) : k # 0 => k - 1 \in 0..L  BY <1>1
    <2> QED BY <1>3, <2>1 DEF Leaves
  <1> HIDE DEF left
  <1>6. ASSUME NEW k \in 1..(L + 1) PROVE left[k] = left[k - 1] \div 256
    <2>1. CASE k = 1
      <3>1. left[1] = f[0] /\ left[0] = n  BY <1>1, <1>4
      <3>2. f[0] = q  BY <1>3 DEF Leaves
      <3>3. k - 1 = 0  BY <2>1
      <3> QED BY <2>1, <3>1, <3>2, <3>3
    <2>2. CASE k # 1
      <3> DEFINE j == k - 1
      <3>1. j \in 1..(L + 1) /\ j \in 1..L /\ left[k] = f[j]  BY <1>1, <1>4, <2>2
      <3> HIDE DEF j
      <3>2. left[j] = f[j - 1]  BY <1>4, <3>1
      <3>3. f[j] = f[j - 1] \div 256  BY <1>3, <3>1 DEF Leaves
      <3>4. left[k] = left[j] \div 256  BY <3>1, <3>2, <3>3
      <3> QED BY <3>4 DEF j
    <2> QED BY <2>1, <2>2
  <1>7. ASSUME NEW k \in 1..(L + 1) PROVE bytes[k] = left[k - 1] % 256
    <2>1. CASE k = 1
      <3>1. k - 1 = 0  BY <2>1
      <3> QED BY <1>2, <1>4, <2>1, <3>1
    <2>2. CASE k # 1
      <3> DEFINE j == k - 1
      <3>0. k \in 2..(L + 1)  BY <1>1, <2>2
      <3>1. j \in 1..(L + 1) /\ j \in 1..L /\ bytes[k] = rest[j]  BY <1>1, <1>2, <3>0
      <3> HIDE DEF j
      <3>2. left[j] = f[j - 1]  BY <1>4, <3>1
      <3>3. rest[j] = f[j - 1] % 256  BY <1>3, <3>1
      <3>4. bytes[k] = left[j] % 256  BY <3>1, <3>2, <3>3
      <3> QED BY <3>4 DEF j
    <2> QED BY <2>1, <2>2
  <1>8. Leaves(n, L + 1, left)  BY <1>4, <1>5, <1>6 DEF Leaves
  <1>9. left[L + 1] = 0
    <2>1. L + 1 \in 1..(L + 1) /\ (L + 1) - 1 = L  BY <1>1
    <2> QED BY <1>3, <1>4, <2>1
  <1>10. Digits(n, bytes)
    <2>1. /\ Leaves(n, Len(bytes), left) /\ left[Len(bytes)] = 0
          /\ \A k \in 1..Len(bytes) : bytes[k] = left[k - 1] % 256
      BY <1>2, <1>7, <1>8, <1>9
    <2> QED BY <2>1 DEF Digits
  <1> QED BY <1>10 DEF bytes

(* So Magnitude gives the bytes of every number.                           *)
LEMMA MagnitudeDigits ==
  ASSUME NEW n \in Nat PROVE Digits(n, Magnitude[n])
  <1> DEFINE P == {m \in Nat : Digits(m, Magnitude[m])}
             rank == [m \in Nat |-> m]
  <1>1. ASSUME NEW m \in Nat, \A y \in Nat : rank[y] < rank[m] => y \in P PROVE m \in P
    <2>1. CASE m = 0
      <3> DEFINE left == [k \in 0..0 |-> 0]
      <3>1. Magnitude[m] = <<>> /\ Len(<<>>) = 0  BY <2>1, MagnitudeFacts
      <3>2. left \in [0..0 -> Nat] /\ left[0] = 0 /\ \A k \in 1..0 : FALSE  OBVIOUS
      <3> HIDE DEF left
      <3>3. Leaves(0, 0, left)  BY <3>2 DEF Leaves
      <3>4. Digits(0, <<>>)  BY <3>1, <3>2, <3>3 DEF Digits
      <3> QED BY <2>1, <3>1, <3>4
    <2>2. CASE m # 0
      <3> DEFINE q == m \div 256
                 byte == m % 256
      <3>1. q \in Nat /\ byte \in Byte /\ m = byte + 256 * q  BY Divided
      <3>2. q < m  BY <2>2, <3>1 DEF Byte
      <3>3. Magnitude[m] = <<byte>> \o Magnitude[q]
        <4>1. m # 0 => Magnitude[m] = <<m % 256>> \o Magnitude[m \div 256]  BY MagnitudeFacts
        <4> QED BY <2>2, <4>1
      <3>4. q = m \div 256 /\ byte = m % 256  OBVIOUS
      <3> HIDE DEF q, byte
      <3>5. q \in P  BY <1>1, <3>1, <3>2
      <3>6. Digits(q, Magnitude[q]) /\ Magnitude[q] \in Bytes  BY <3>1, <3>5, MagnitudeType
      <3>7. Digits(m, <<byte>> \o Magnitude[q])  BY <3>1, <3>4, <3>6, DigitsStep
      <3> QED BY <3>3, <3>7
    <2> QED BY <2>1, <2>2
  <1>2. rank \in [Nat -> Nat]  OBVIOUS
  <1> HIDE DEF P, rank
  <1>3. Nat \subseteq P  BY <1>1, <1>2, RankInduction
  <1> QED BY <1>3 DEF P

(* One zero byte more at the end.                                          *)
LEMMA DigitsPadded ==
  ASSUME NEW n \in Nat, NEW bytes \in Bytes, Digits(n, bytes),
         NEW plain \in Bytes, Len(plain) = Len(bytes) + 1,
         \A k \in 1..Len(bytes) : plain[k] = bytes[k], plain[Len(bytes) + 1] = 0
  PROVE  Digits(n, plain)
  <1> DEFINE L == Len(bytes)
  <1>1. L \in Nat  BY BytesFacts
  <1>2. PICK f : /\ Leaves(n, L, f) /\ f[L] = 0
                 /\ \A k \in 1..L : bytes[k] = f[k - 1] % 256
    BY DEF Digits
  <1>3. Len(plain) = L + 1 /\ plain[L + 1] = 0 /\ \A k \in 1..L : plain[k] = bytes[k]
    OBVIOUS
  <1> HIDE DEF L
  <1> DEFINE left == [k \in 0..(L + 1) |-> IF k = L + 1 THEN 0 ELSE f[k]]
  <1>4. /\ \A k \in 0..L : left[k] = f[k] /\ f[k] \in Nat
        /\ left[L + 1] = 0 /\ left \in [0..(L + 1) -> Nat]
    <2>1. \A k \in 0..(L + 1) : k # L + 1 => k \in 0..L  BY <1>1
    <2>2. \A k \in 0..L : f[k] \in Nat  BY <1>2 DEF Leaves
    <2>3. \A k \in 0..L : k \in 0..(L + 1) /\ k # L + 1  BY <1>1
    <2>4. L + 1 \in 0..(L + 1)  BY <1>1
    <2> QED BY <2>1, <2>2, <2>3, <2>4
  <1> HIDE DEF left
  <1>5. ASSUME NEW k \in 1..(L + 1) PROVE left[k] = left[k - 1] \div 256
    <2>1. CASE k = L + 1
      <3>1. k - 1 = L /\ L \in 0..L  BY <1>1, <2>1
      <3>2. left[k - 1] = 0 /\ left[k] = 0  BY <1>2, <1>4, <2>1, <3>1
      <3> QED BY <3>2
    <2>2. CASE k # L + 1
      <3> DEFINE j == k - 1
      <3>1. k \in 1..L /\ k \in 0..L /\ j \in 0..L  BY <1>1, <2>2
      <3>2. f[k] = f[j] \div 256  BY <1>2, <3>1 DEF Leaves
      <3> HIDE DEF j
      <3>3. left[k] = left[j] \div 256  BY <1>4, <3>1, <3>2
      <3> QED BY <3>3 DEF j
    <2> QED BY <2>1, <2>2
  <1>6. ASSUME NEW k \in 1..(L + 1) PROVE plain[k] = left[k - 1] % 256
    <2>1. CASE k = L + 1
      <3>1. k - 1 = L /\ L \in 0..L  BY <1>1, <2>1
      <3>2. left[k - 1] = 0 /\ plain[k] = 0  BY <1>2, <1>3, <1>4, <2>1, <3>1
      <3> QED BY <3>2
    <2>2. CASE k # L + 1
      <3> DEFINE j == k - 1
      <3>1. k \in 1..L /\ j \in 0..L  BY <1>1, <2>2
      <3>2. plain[k] = f[j] % 256  BY <1>2, <1>3, <3>1
      <3> HIDE DEF j
      <3>3. plain[k] = left[j] % 256  BY <1>4, <3>1, <3>2
      <3> QED BY <3>3 DEF j
    <2> QED BY <2>1, <2>2
  <1>7. left[0] = n
    <2>1. 0 \in 0..L /\ f[0] = n  BY <1>1, <1>2 DEF Leaves
    <2> QED BY <1>4, <2>1
  <1>8. Leaves(n, L + 1, left)  BY <1>4, <1>5, <1>7 DEF Leaves
  <1>9. Len(plain) = L + 1 /\ left[L + 1] = 0  BY <1>3, <1>4
  <1>10. /\ Leaves(n, Len(plain), left) /\ left[Len(plain)] = 0
         /\ \A k \in 1..Len(plain) : plain[k] = left[k - 1] % 256
    BY <1>6, <1>8, <1>9
  <1> QED BY <1>10 DEF Digits

(* A number is read back from its digits.                                  *)
LEMMA DigitsRead ==
  ASSUME NEW n \in Nat, NEW bytes \in Bytes, Digits(n, bytes)
  PROVE  FromLittleEndian(bytes) = n
  <1> DEFINE L == Len(bytes)
  <1>1. L \in Nat /\ Len(bytes) = L  BY BytesFacts
  <1>2. PICK left : /\ Leaves(n, L, left) /\ left[L] = 0
                    /\ \A k \in 1..L : bytes[k] = left[k - 1] % 256
    BY DEF Digits
  <1> HIDE DEF L
  <1> QED BY <1>1, <1>2, LittleEndianInverse

(* The sign bit and the byte without it.                                   *)
Signed(byte) == byte >= 128
Unsigned(byte) == byte % 128
LEMMA SignBit ==
  ASSUME NEW byte \in Byte
  PROVE  /\ Unsigned(byte) \in Byte
         /\ ~Signed(byte) => Unsigned(byte) = byte /\ Unsigned(byte + 128) = byte
                             /\ byte + 128 \in Byte /\ Signed(byte + 128) /\ byte + 0 = byte
         /\ 0 \in Byte /\ 128 \in Byte /\ ~Signed(0) /\ Signed(128)
         /\ Unsigned(0) = 0 /\ Unsigned(128) = 0
  BY DEF Byte, Signed, Unsigned

(* A number is read back from its bytes with the sign.                     *)
LEMMA SignedRead ==
  ASSUME NEW n \in Int, n # 0
  PROVE  decodeScriptNumber(SignMagnitude(n)) = n
  <1> DEFINE m == Abs_(n)
             bytes == Magnitude[m]
             sign == IF n < 0 THEN 128 ELSE 0
             last == Last(bytes)
             L == Len(bytes)
             s == SignMagnitude(n)
             plain == WithLast(s, Unsigned(Last(s)))
  <1>1. m \in Nat /\ m # 0 /\ n = IF n < 0 THEN -m ELSE m  BY DEF Abs_
  <1>2. s = IF Signed(last) THEN Append(bytes, sign) ELSE WithLast(bytes, last + sign)
    BY DEF SignMagnitude, Signed
  <1>3. (n < 0 => sign = 128) /\ (~(n < 0) => sign = 0)  OBVIOUS
  <1>4. Digits(m, bytes) /\ bytes \in Bytes /\ L \in Nat /\ L > 0
    <2>1. m \in Nat /\ m # 0  BY <1>1
    <2> HIDE DEF m
    <2>2. Digits(m, bytes) /\ bytes \in Bytes /\ L \in Nat  BY <2>1, MagnitudeDigits, MagnitudeType
    <2>3. L > 0  BY <2>1, MagnitudeBounds
    <2> QED BY <2>2, <2>3
  <1>5. s # <<>> => decodeScriptNumber(s) = IF Signed(Last(s)) THEN -FromLittleEndian(plain)
                                            ELSE FromLittleEndian(plain)
    BY DEF decodeScriptNumber, Signed, Unsigned
  <1> HIDE DEF m, bytes, sign, s
  <1>6. last = bytes[L] /\ last \in Byte
    <2>1. L \in 1..L  BY <1>4
    <2> QED BY <1>4, <2>1, BytesFacts DEF Last
  <1> HIDE DEF last
  <1>7. (Signed(Last(s)) <=> n < 0) /\ plain \in Bytes /\ Digits(m, plain) /\ s # <<>>
    <2>1. CASE Signed(last)
      <3>1. s = Append(bytes, sign) /\ sign \in Byte  BY <1>2, <1>3, <1>6, <2>1, SignBit
      <3>2. /\ s \in Bytes /\ Len(s) = L + 1 /\ Last(s) = sign
            /\ \A k \in 1..L : s[k] = bytes[k]
        BY <1>4, <3>1 DEF Bytes, Last
      <3>3. Unsigned(Last(s)) = 0 /\ 0 \in Byte /\ (Signed(Last(s)) <=> n < 0)
        <4>1. /\ 0 \in Byte /\ ~Signed(0) /\ Signed(128)
              /\ Unsigned(0) = 0 /\ Unsigned(128) = 0
          BY <1>6, SignBit
        <4>2. CASE n < 0  BY <1>3, <3>2, <4>1, <4>2
        <4>3. CASE ~(n < 0)  BY <1>3, <3>2, <4>1, <4>3
        <4> QED BY <4>2, <4>3
      <3>4. plain = WithLast(s, 0)  BY <3>3
      <3>5. Len(s) > 0 /\ Len(s) - 1 = L  BY <1>4, <3>2
      <3> HIDE DEF plain
      <3>6. /\ plain \in Bytes /\ Len(plain) = Len(s) /\ plain[Len(s)] = 0
            /\ \A k \in 1..(Len(s) - 1) : plain[k] = s[k]
        BY <3>2, <3>3, <3>4, <3>5, WithLastFacts
      <3>7. /\ Len(plain) = L + 1 /\ plain[L + 1] = 0 /\ \A k \in 1..L : plain[k] = bytes[k]
        BY <3>2, <3>5, <3>6
      <3>8. Digits(m, plain)  BY <1>1, <1>4, <3>6, <3>7, DigitsPadded
      <3>9. s # <<>>  BY <3>5
      <3> QED BY <3>3, <3>6, <3>8, <3>9
    <2>2. CASE ~Signed(last)
      <3> DEFINE b == last + sign
      <3>1. /\ b \in Byte /\ Unsigned(b) = last /\ (Signed(b) <=> n < 0)
        BY <1>3, <1>6, <2>2, SignBit
      <3>2. s = WithLast(bytes, b)  BY <1>2, <2>2
      <3> HIDE DEF b
      <3>3. /\ s \in Bytes /\ Len(s) = L /\ Last(s) = b
            /\ \A k \in 1..(L - 1) : s[k] = bytes[k]
        BY <1>4, <3>1, <3>2, WithLastFacts
      <3>4. plain = WithLast(s, last)  BY <3>1, <3>3
      <3> HIDE DEF plain
      <3>5. /\ plain \in Bytes /\ Len(plain) = L /\ plain[L] = last
            /\ \A k \in 1..(L - 1) : plain[k] = s[k]
        BY <1>4, <1>6, <3>3, <3>4, WithLastFacts
      <3>6. \A k \in 1..L : plain[k] = bytes[k]
        <4>1. \A k \in 1..L : k = L \/ k \in 1..(L - 1)  BY <1>4
        <4> QED BY <1>6, <3>3, <3>5, <4>1
      <3>7. plain = bytes  BY <1>4, <3>5, <3>6 DEF Bytes
      <3>8. s # <<>>  BY <1>4, <3>3
      <3> QED BY <1>4, <3>1, <3>3, <3>7, <3>8
    <2> QED BY <2>1, <2>2
  <1>8. FromLittleEndian(plain) = m
    <2> HIDE DEF plain
    <2> QED BY <1>1, <1>7, DigitsRead
  <1>9. decodeScriptNumber(s) = IF n < 0 THEN -m ELSE m  BY <1>5, <1>7, <1>8
  <1> QED BY <1>1, <1>9 DEF s
-----------------------------------------------------------------------------
(* A sequence of bytes that is one element, its opcode and its data.       *)
OneElement(s) == s \in Bytes /\ Len(s) > 0 /\ Element(s, 0).length = Len(s)
Carries(s, opcode, data) ==
  OneElement(s) /\ Element(s, 0).opcode = opcode /\ ElementData(s, 0, Element(s, 0)) = data

(* An opcode alone carries no data.                                        *)
LEMMA OpcodeCarries ==
  ASSUME NEW byte \in Byte \ (1..78)
  PROVE  Carries(<<byte>>, byte, <<>>)
  <1> DEFINE s == <<byte>>
  <1>1. byte \in Byte /\ ~CountsAfter(byte) /\ Counted(byte) = 0
    BY DEF CountsAfter, Counted
  <1>2. s \in Bytes /\ Len(s) = 1 /\ s[1] = byte  BY <1>1, OneByteRead
  <1> HIDE DEF s
  <1>3. Len(s) > 0  BY <1>2
  <1>4. Element(s, 0).opcode = byte /\ Element(s, 0).header = 1 /\ Element(s, 0).length = 1 + 0
    <2>1. s \in Bytes /\ ~CountsAfter(s[1]) /\ Counted(s[1]) = 0 /\ s[1] = byte  BY <1>1, <1>2
    <2>2. /\ Element(s, 0).opcode = s[1] /\ Element(s, 0).header = 1
          /\ Element(s, 0).length = 1 + Counted(s[1])
      BY <1>3, <2>1, ShortElement
    <2> QED BY <2>1, <2>2
  <1>5. ElementData(s, 0, Element(s, 0)) = SubSeq(s, 2, 1)
    <2>1. 0 + Element(s, 0).header = 1 /\ 0 + Element(s, 0).length = 1  BY <1>4
    <2>2. Slice(s, 1, 1) = SubSeq(s, 2, 1)  BY <1>2 DEF Slice
    <2> QED BY <2>1, <2>2 DEF ElementData
  <1>6. SubSeq(s, 2, 1) = <<>>  BY <1>2 DEF Bytes
  <1> QED BY <1>2, <1>3, <1>4, <1>5, <1>6 DEF Carries, OneElement, s

(* A push with a header carries what it pushes.                            *)
LEMMA PushCarries ==
  ASSUME NEW d \in Bytes, Len(d) <= MaxLength
  PROVE  \E op \in 0..78 : Carries(PushHeader(Len(d)) \o d, op, d)
  <1> DEFINE s == PushHeader(Len(d)) \o d
  <1>1. /\ s \in Bytes /\ Len(s) > 0 /\ s[1] \in 0..78
        /\ Element(s, 0).opcode = s[1] /\ Element(s, 0).length = Len(s)
        /\ ElementData(s, 0, Element(s, 0)) = d
    BY PushElement
  <1> HIDE DEF s
  <1>2. Carries(s, s[1], d)  BY <1>1 DEF Carries, OneElement
  <1> QED BY <1>1, <1>2 DEF s

(* What an opcode with its data stands for: data,                          *)
DataOf(opcode, data) ==
  CASE opcode \in 81..96 -> <<opcode - 80>> [] opcode = 79 -> <<129>> [] OTHER -> data
(* or a number.                                                            *)
NumberOf(opcode, data) ==
  CASE opcode \in 81..96 -> opcode - 80 [] opcode = 79 -> -1 [] OTHER -> decodeScriptNumber(data)

(* Opcodes of their own and those of a push.                               *)
LEMMA OpcodeStands ==
  /\ \A k \in 1..16 : \A data : DataOf(80 + k, data) = <<k>> /\ NumberOf(80 + k, data) = k
  /\ \A data : DataOf(79, data) = <<129>> /\ NumberOf(79, data) = -1
  /\ \A op \in 0..78 : \A data : DataOf(op, data) = data /\ NumberOf(op, data) = decodeScriptNumber(data)
  <1>1. ASSUME NEW k \in 1..16, NEW data
        PROVE  DataOf(80 + k, data) = <<k>> /\ NumberOf(80 + k, data) = k
    <2>1. 80 + k \in 81..96 /\ (80 + k) - 80 = k /\ 80 + k # 79  OBVIOUS
    <2> QED BY <2>1 DEF DataOf, NumberOf
  <1>2. ASSUME NEW data PROVE DataOf(79, data) = <<129>> /\ NumberOf(79, data) = -1
    BY DEF DataOf, NumberOf
  <1>3. ASSUME NEW op \in 0..78, NEW data
        PROVE  DataOf(op, data) = data /\ NumberOf(op, data) = decodeScriptNumber(data)
    <2>1. op \notin 81..96 /\ op # 79  OBVIOUS
    <2> QED BY <2>1 DEF DataOf, NumberOf
  <1> QED BY <1>1, <1>2, <1>3

(* An element whose opcode and data stand for data or for a number.        *)
PushesData(s, d) == \E op, data : Carries(s, op, data) /\ DataOf(op, data) = d
PushesNumber(s, n) == \E op : \E data \in Bytes :
  Carries(s, op, data) /\ NumberOf(op, data) = n /\ Len(data) <= Len(s)

(* Data is read back from its push,                                        *)
LEMMA DataRead ==
  ASSUME NEW d \in Bytes, Len(d) <= MaxLength
  PROVE  PushesData(encodePushData(d), d)
  <1>1. CASE d = <<>>
    <2>1. encodePushData(d) = <<0>>  BY <1>1 DEF encodePushData
    <2>2. 0 \in Byte \ (1..78)  BY DEF Byte
    <2>3. Carries(<<0>>, 0, <<>>)  BY <2>2, OpcodeCarries
    <2>4. DataOf(0, <<>>) = <<>>  BY OpcodeStands
    <2> QED BY <1>1, <2>1, <2>3, <2>4 DEF PushesData
  <1>2. CASE d # <<>> /\ Len(d) = 1 /\ d[1] \in 1..16
    <2> DEFINE k == d[1]
    <2>1. encodePushData(d) = <<80 + k>>
      <3> DEFINE pushed == PushHeader(Len(d)) \o d
      <3>1. encodePushData(d) =
               CASE d = <<>> -> <<0>>
                 [] Len(d) = 1 /\ d[1] \in 1..16 -> <<80 + d[1]>>
                 [] d = <<129>> -> <<79>>
                 [] OTHER -> pushed
        BY DEF encodePushData
      <3> HIDE DEF pushed
      <3>2. d # <<129>>
        <4>1. d = <<129>> => d[1] = 129  OBVIOUS
        <4>2. d[1] # 129  BY <1>2
        <4> QED BY <4>1, <4>2
      <3> QED BY <1>2, <3>1, <3>2, Zenon
    <2>2. d = <<k>> /\ k \in 1..16
      <3> DEFINE s == <<k>>
      <3>1. s \in Bytes /\ Len(s) = 1 /\ s[1] = k
        <4>1. k \in Byte  BY <1>2 DEF Byte
        <4> QED BY <4>1, OneByteRead
      <3> HIDE DEF s, k
      <3>2. \A i \in 1..Len(d) : d[i] = s[i]
        <4>1. \A i \in 1..1 : i = 1  OBVIOUS
        <4> QED BY <1>2, <3>1, <4>1 DEF k
      <3>3. d = s  BY <1>2, <3>1, <3>2, SeqEqual DEF Bytes
      <3> QED BY <1>2, <3>3 DEF s, k
    <2> HIDE DEF k
    <2>3. 80 + k \in Byte \ (1..78)  BY <2>2 DEF Byte
    <2>4. Carries(<<80 + k>>, 80 + k, <<>>)  BY <2>3, OpcodeCarries
    <2>5. DataOf(80 + k, <<>>) = <<k>>  BY <2>2, OpcodeStands
    <2>6. PushesData(<<80 + k>>, <<k>>)  BY <2>4, <2>5 DEF PushesData
    <2> QED BY <2>1, <2>2, <2>6
  <1>3. CASE d # <<>> /\ ~(Len(d) = 1 /\ d[1] \in 1..16) /\ d = <<129>>
    <2>1. encodePushData(d) = <<79>>  BY <1>3 DEF encodePushData
    <2>2. 79 \in Byte \ (1..78)  BY DEF Byte
    <2>3. Carries(<<79>>, 79, <<>>)  BY <2>2, OpcodeCarries
    <2>4. DataOf(79, <<>>) = <<129>>  BY OpcodeStands
    <2> QED BY <1>3, <2>1, <2>3, <2>4 DEF PushesData
  <1>4. CASE d # <<>> /\ ~(Len(d) = 1 /\ d[1] \in 1..16) /\ d # <<129>>
    <2> DEFINE h == PushHeader(Len(d))
               s == h \o d
    <2>1. encodePushData(d) = s
      <3>0. h = PushHeader(Len(d))  OBVIOUS
      <3> HIDE DEF h
      <3> QED BY <1>4, <3>0 DEF encodePushData
    <2>2. PICK op \in 0..78 : Carries(s, op, d)  BY PushCarries
    <2> HIDE DEF s
    <2>3. DataOf(op, d) = d  BY OpcodeStands
    <2>4. PushesData(s, d)  BY <2>2, <2>3 DEF PushesData
    <2> QED BY <2>1, <2>4
  <1> QED BY <1>1, <1>2, <1>3, <1>4

(* and so is a number.                                                     *)
LEMMA NumberRead ==
  ASSUME NEW n \in Int, Len(encodeScriptNumber(n)) <= MaxLength
  PROVE  PushesNumber(encodeScriptNumber(n), n)
  <1>0. <<>> \in Bytes /\ Len(<<>>) = 0 /\ \A byte : Len(<<byte>>) = 1
    BY CleanEmpty DEF Clean
  <1>1. ASSUME NEW byte \in Byte \ (1..78), NumberOf(byte, <<>>) = n
        PROVE  PushesNumber(<<byte>>, n)
    <2>1. Carries(<<byte>>, byte, <<>>)  BY OpcodeCarries
    <2>2. Len(<<>>) <= Len(<<byte>>)  BY <1>0
    <2> QED BY <1>0, <1>1, <2>1, <2>2 DEF PushesNumber
  <1>2. CASE n = 0
    <2>1. encodeScriptNumber(n) = <<0>>  BY <1>2 DEF encodeScriptNumber
    <2>2. 0 \in Byte \ (1..78)  BY DEF Byte
    <2>3. NumberOf(0, <<>>) = n  BY <1>2, OpcodeStands DEF decodeScriptNumber
    <2> QED BY <1>1, <2>1, <2>2, <2>3
  <1>3. CASE n \in 1..16
    <2>1. encodeScriptNumber(n) = <<80 + n>>  BY <1>3 DEF encodeScriptNumber
    <2>2. 80 + n \in Byte \ (1..78)  BY <1>3 DEF Byte
    <2>3. NumberOf(80 + n, <<>>) = n  BY <1>3, OpcodeStands
    <2> QED BY <1>1, <2>1, <2>2, <2>3
  <1>4. CASE n = -1
    <2>1. encodeScriptNumber(n) = <<79>>  BY <1>4 DEF encodeScriptNumber
    <2>2. 79 \in Byte \ (1..78)  BY DEF Byte
    <2>3. NumberOf(79, <<>>) = n  BY <1>4, OpcodeStands
    <2> QED BY <1>1, <2>1, <2>2, <2>3
  <1>5. CASE n < -1 \/ n > 16
    <2> DEFINE d == SignMagnitude(n)
               s == PushHeader(Len(d)) \o d
    <2>1. d \in Bytes /\ d # <<>> /\ d # <<129>> /\ ~(Len(d) = 1 /\ d[1] \in 1..16)
      BY <1>5, SignedBytes
    <2>2. n # 0 /\ n # -1 /\ ~(n \in 1..16)  BY <1>5
    <2>3. encodeScriptNumber(n) = encodePushData(d)  BY <2>2 DEF encodeScriptNumber
    <2>4. decodeScriptNumber(d) = n  BY <2>2, SignedRead
    <2> HIDE DEF d
    <2>5. encodePushData(d) = s  BY <2>1 DEF encodePushData
    <2>6. Len(d) <= Len(s) /\ Len(s) <= MaxLength  BY <2>1, <2>3, <2>5, PushSize
    <2>7. Len(d) \in Nat /\ Len(s) \in Nat  BY <2>1, <2>5, PushSize, BytesFacts
    <2>8. Len(d) <= MaxLength  BY <2>6, <2>7, MaxLengthNat
    <2>9. PICK op \in 0..78 : Carries(s, op, d)  BY <2>1, <2>8, PushCarries
    <2> HIDE DEF s
    <2>10. NumberOf(op, d) = n
      <3>1. NumberOf(op, d) = decodeScriptNumber(d)  BY OpcodeStands
      <3> QED BY <2>4, <3>1
    <2>11. PushesNumber(s, n)  BY <2>1, <2>6, <2>9, <2>10 DEF PushesNumber
    <2> QED BY <2>3, <2>5, <2>11
  <1> QED BY <1>2, <1>3, <1>4, <1>5

(* What ReadArgument makes of an element: a number that is not too long,   *)
LEMMA InterpretNumber ==
  ASSUME NEW opcode, NEW data, Len(data) \in Nat, Len(data) <= NumberBytes
  PROVE  interpretScriptElement(opcode, data, "bigint") = Int_(NumberOf(opcode, data))
  <1> DEFINE x == NumberOf(opcode, data)
             y == DataOf(opcode, data)
  <1>1. \A type : interpretScriptElement(opcode, data, type) =
           CASE type = "bigint" /\ Len(data) <= NumberBytes -> Int_(x)
             [] type = "bigint" /\ Len(data) > NumberBytes -> [type |-> "bigint", bytes |-> data]
             [] OTHER -> Data(y)
    BY DEF interpretScriptElement, NumberOf, DataOf
  <1> HIDE DEF x, y
  <1>2. ~(Len(data) > NumberBytes)  BY NumberAssumption
  <1>3. interpretScriptElement(opcode, data, "bigint") = Int_(x)  BY <1>1, <1>2
  <1> QED BY <1>3 DEF x

(* or data.                                                                *)
LEMMA InterpretData ==
  ASSUME NEW opcode, NEW data, NEW type, type # "bigint"
  PROVE  interpretScriptElement(opcode, data, type) = Data(DataOf(opcode, data))
  <1> DEFINE x == NumberOf(opcode, data)
             y == DataOf(opcode, data)
  <1>1. interpretScriptElement(opcode, data, type) =
           CASE type = "bigint" /\ Len(data) <= NumberBytes -> Int_(x)
             [] type = "bigint" /\ Len(data) > NumberBytes -> [type |-> "bigint", bytes |-> data]
             [] OTHER -> Data(y)
    BY DEF interpretScriptElement, NumberOf, DataOf
  <1> HIDE DEF x, y
  <1>2. interpretScriptElement(opcode, data, type) = Data(y)  BY <1>1
  <1> QED BY <1>2 DEF y

(* An argument is one element,                                             *)
LEMMA ArgElement ==
  ASSUME NEW value \in Value, Short(value)
  PROVE  OneElement(encodeArg(value))
  <1>0. \A b \in Byte \ (1..78) : OneElement(<<b>>)  BY OpcodeCarries DEF Carries
  <1>1. CASE value \in [type : {"bigint"}, n : Int]
    <2>1. value.type = "bigint" /\ value.n \in Int  BY <1>1
    <2> DEFINE n == value.n
    <2>2. encodeArg(value) = encodeScriptNumber(n)  BY <2>1 DEF encodeArg
    <2>3. n \in Int /\ Len(encodeScriptNumber(n)) <= MaxLength  BY <2>1, <2>2 DEF Short
    <2> HIDE DEF n
    <2>4. PushesNumber(encodeScriptNumber(n), n)  BY <2>3, NumberRead
    <2> QED BY <2>2, <2>4 DEF PushesNumber, Carries
  <1>2. CASE value \in [type : {"boolean"}, value : BOOLEAN]
    <2>1. value.type = "boolean" /\ value.value \in BOOLEAN  BY <1>2
    <2>2. encodeArg(value) = IF value.value THEN <<81>> ELSE <<0>>  BY <2>1 DEF encodeArg
    <2>3. 81 \in Byte \ (1..78) /\ 0 \in Byte \ (1..78)  BY DEF Byte
    <2> QED BY <1>0, <2>1, <2>2, <2>3
  <1>3. CASE value \in [type : {"data"}, bytes : Seq(Byte)]
    <2>1. value.type = "data" /\ value.bytes \in Bytes  BY <1>3 DEF Bytes
    <2> DEFINE d == value.bytes
    <2>2. encodeArg(value) = encodePushData(d)  BY <2>1 DEF encodeArg
    <2>3. d \in Bytes /\ Len(encodePushData(d)) <= MaxLength  BY <2>1, <2>2 DEF Short
    <2> HIDE DEF d
    <2>4. Len(d) <= MaxLength
      <3>1. Len(d) \in Nat /\ Len(encodePushData(d)) \in Nat  BY <2>3, PushSize, BytesFacts
      <3> QED BY <2>3, <3>1, PushSize, MaxLengthNat
    <2>5. PushesData(encodePushData(d), d)  BY <2>3, <2>4, DataRead
    <2> QED BY <2>2, <2>5 DEF PushesData, Carries
  <1> QED BY <1>1, <1>2, <1>3 DEF Value

(* and it is read back where ReadsBack says so.                            *)
LEMMA ArgRead ==
  ASSUME NEW type, NEW value, HasType(value, type), ReadsBack(value)
  PROVE  ReadArgument(encodeArg(value), 0, Element(encodeArg(value), 0), type) = value
  <1>1. value \in Value /\ Short(value) /\ value.type # "boolean"
        /\ value.type = IF type \in {"bigint", "boolean"} THEN type ELSE "data"
    BY DEF HasType, ReadsBack
  <1> DEFINE s == encodeArg(value)
             e == Element(s, 0)
  <1>2. ReadArgument(s, 0, e, type) = interpretScriptElement(e.opcode, ElementData(s, 0, e), type)
    BY DEF ReadArgument
  <1>3. CASE type = "bigint"
    <2>1. value.type = "bigint"  BY <1>1, <1>3
    <2> DEFINE n == value.n
    <2>2. n \in Int /\ value = Int_(n)  BY <1>1, <2>1 DEF Value, Int_
    <2>3. s = encodeScriptNumber(n)  BY <2>1 DEF encodeArg
    <2>4. Len(s) <= NumberBytes /\ Len(s) <= MaxLength  BY <1>1, <2>1 DEF ReadsBack, Short
    <2> HIDE DEF n, s
    <2>5. PushesNumber(s, n)  BY <2>2, <2>3, <2>4, NumberRead
    <2>a. PICK op : \E data \in Bytes :
             Carries(s, op, data) /\ NumberOf(op, data) = n /\ Len(data) <= Len(s)
      BY <2>5 DEF PushesNumber
    <2>6. PICK data \in Bytes :
             Carries(s, op, data) /\ NumberOf(op, data) = n /\ Len(data) <= Len(s)
      BY <2>a
    <2>7. Len(data) \in Nat /\ Len(data) <= NumberBytes
      <3>1. Len(data) \in Nat /\ Len(s) \in Nat  BY <2>6, BytesFacts DEF Carries, OneElement
      <3> QED BY <2>4, <2>6, <3>1, NumberAssumption
    <2>8. e.opcode = op /\ ElementData(s, 0, e) = data  BY <2>6 DEF Carries
    <2>9. interpretScriptElement(op, data, "bigint") = Int_(n)  BY <2>6, <2>7, InterpretNumber
    <2> QED BY <1>2, <1>3, <2>2, <2>8, <2>9 DEF s
  <1>4. CASE type # "bigint"
    <2>1. value.type = "data"  BY <1>1, <1>4
    <2> DEFINE d == value.bytes
    <2>2. d \in Bytes /\ value = Data(d)  BY <1>1, <2>1 DEF Value, Data, Bytes
    <2>3. s = encodePushData(d)  BY <2>1 DEF encodeArg
    <2>4. Len(encodePushData(d)) <= MaxLength  BY <1>1, <2>3 DEF Short
    <2> HIDE DEF d, s
    <2>5. Len(d) <= MaxLength
      <3>1. Len(d) \in Nat /\ Len(encodePushData(d)) \in Nat  BY <2>2, PushSize, BytesFacts
      <3> QED BY <2>2, <2>4, <3>1, PushSize, MaxLengthNat
    <2>6. PushesData(s, d)  BY <2>2, <2>3, <2>5, DataRead
    <2>7. PICK op, data : Carries(s, op, data) /\ DataOf(op, data) = d  BY <2>6 DEF PushesData
    <2>8. e.opcode = op /\ ElementData(s, 0, e) = data  BY <2>7 DEF Carries
    <2>9. interpretScriptElement(op, data, type) = Data(d)
      <3>1. interpretScriptElement(op, data, type) = Data(DataOf(op, data))
        BY <1>4, InterpretData, Zenon
      <3> QED BY <2>7, <3>1
    <2> QED BY <1>2, <2>2, <2>8, <2>9 DEF s
  <1> QED BY <1>3, <1>4

-----------------------------------------------------------------------------
(* The spliced code, from one slot to the next.                            *)
Ascending(subs) == \A i, j \in DOMAIN subs : i < j => subs[i].offset < subs[j].offset
(* Where the template goes on behind the k-th slot,                        *)
Behind(subs, k) == IF k = 0 THEN 0 ELSE subs[k].offset + 1
(* and what it has between that slot and the one in front of it.           *)
Gap(code, subs, k) == SubSeq(code, Behind(subs, k - 1) + 1, subs[k].offset)
(* R[k] is what is behind the k-th slot of the spliced code.               *)
Woven(code, subs, R) ==
  /\ R[Len(subs)] = SubSeq(code, Behind(subs, Len(subs)) + 1, Len(code))
  /\ \A k \in 0..Len(subs) : R[k] \in Bytes
  /\ \A k \in 1..Len(subs) : R[k - 1] = Gap(code, subs, k) \o (subs[k].bytes \o R[k])

(* Bytes put in the hole of sub, and what is then behind the first c.      *)
Weaves(code, sub, c, x) ==
  LET s == Put(sub, SubSeq(code, 1, sub.offset + 1) \o x)
      y == SubSeq(code, c + 1, sub.offset) \o (sub.bytes \o x)
  IN  y \in Bytes /\ s = SubSeq(code, 1, c) \o y /\ SubSeq(s, c + 1, Len(s)) = y

(* The first c bytes are in front of the hole.                             *)
InFront(code, sub, c) == sub.offset < Len(code) /\ c \in 0..sub.offset

(* It is what was in front of the hole, the bytes and the rest.            *)
LEMMA WeaveOne ==
  ASSUME NEW code \in Bytes, NEW sub \in Subs, NEW c, InFront(code, sub, c), NEW x \in Bytes
  PROVE  Weaves(code, sub, c, x)
  <1> DEFINE s == Put(sub, SubSeq(code, 1, sub.offset + 1) \o x)
             front == SubSeq(code, 1, c)
             mid == SubSeq(code, c + 1, sub.offset)
             y == mid \o (sub.bytes \o x)
  <1>0. sub.offset < Len(code) /\ c \in 0..sub.offset  BY DEF InFront
  <1>1. mid \in Bytes /\ s = front \o y  BY <1>0, PutBehind
  <1>2. c \in 0..Len(code) /\ sub.bytes \in Bytes
    <2>1. sub.offset \in Nat /\ sub.bytes \in Bytes /\ Len(code) \in Nat  BY BytesFacts DEF Subs
    <2> QED BY <1>0, <2>1
  <1>3. front \in Bytes /\ Len(front) = c  BY <1>2, Cut DEF Bytes
  <1> HIDE DEF s, front, mid
  <1>4. y \in Bytes
    <2>1. sub.bytes \o x \in Bytes  BY <1>2, BytesConcat
    <2> QED BY <1>1, <2>1, BytesConcat
  <1> HIDE DEF y
  <1>5. SubSeq(front \o y, Len(front) + 1, Len(front \o y)) = y
    BY <1>3, <1>4, BothParts DEF Bytes
  <1>6. SubSeq(s, c + 1, Len(s)) = y  BY <1>1, <1>3, <1>5
  <1> QED BY <1>1, <1>4, <1>6 DEF Weaves, s, front, mid, y

(* Arithmetic of the steps from a slot to the next.                        *)
LEMMA NextSlot ==
  ASSUME NEW m \in Nat, NEW k \in 0..m, k # m
  PROVE  k + 1 \in 1..m /\ k + 1 \in 0..m /\ (k + 1) - 1 = k /\ m - (k + 1) < m - k
  OBVIOUS

(* Where the k-th slot is, in a template of so many bytes.                 *)
Follows(subs, k, size) ==
  /\ subs[k] \in Subs /\ subs[k].offset \in Nat /\ subs[k].offset < size
  /\ Behind(subs, k) = subs[k].offset + 1 /\ Behind(subs, k - 1) \in 0..subs[k].offset

(* A slot is behind those in front of it.                                  *)
LEMMA BehindFacts ==
  ASSUME NEW subs \in Seq(Subs), Ascending(subs), NEW size \in Nat,
         \A i \in DOMAIN subs : subs[i].offset < size
  PROVE  \A k \in 1..Len(subs) : Follows(subs, k, size)
  <1> DEFINE m == Len(subs)
             at(k) == Behind(subs, k)
  <1>2. m \in Nat /\ DOMAIN subs = 1..m  OBVIOUS
  <1>t. \A k \in 1..m : subs[k] \in Subs /\ subs[k].offset \in Nat /\ subs[k].offset < size
    <2>1. \A s \in Subs : s.offset \in Nat  BY DEF Subs
    <2>2. \A k \in 1..m : subs[k] \in Subs  BY <1>2
    <2> QED BY <1>2, <2>1, <2>2
  <1>3. \A k \in 1..m : Follows(subs, k, size)
    <2> TAKE k \in 1..m
    <2>1. subs[k] \in Subs /\ subs[k].offset \in Nat /\ subs[k].offset < size
      BY <1>t
    <2>2. at(k) = subs[k].offset + 1
      <3>1. k # 0  OBVIOUS
      <3> QED BY <3>1 DEF Behind
    <2>3. at(k - 1) \in 0..subs[k].offset
      <3>1. CASE k - 1 = 0  BY <2>1, <3>1 DEF Behind
      <3>2. CASE k - 1 # 0
        <4> DEFINE j == k - 1
        <4>1. j \in 1..m /\ j < k  BY <1>2, <3>2
        <4>3. at(j) = subs[j].offset + 1  BY <3>2 DEF Behind
        <4> HIDE DEF j, at
        <4>2. subs[j].offset < subs[k].offset /\ subs[j].offset \in Nat
          BY <1>2, <1>t, <4>1 DEF Ascending
        <4>4. subs[j].offset + 1 \in 0..subs[k].offset
          <5> DEFINE a == subs[j].offset
                     b == subs[k].offset
          <5>1. a \in Nat /\ b \in Nat /\ a < b  BY <2>1, <4>2
          <5> HIDE DEF a, b
          <5>2. a + 1 \in 0..b  BY <5>1
          <5> QED BY <5>2 DEF a, b
        <4>5. at(j) \in 0..subs[k].offset  BY <4>3, <4>4, Zenon
        <4> QED BY <4>5 DEF j
      <3> QED BY <3>1, <3>2
    <2> QED BY <2>1, <2>2, <2>3 DEF Follows
  <1> QED BY <1>3

(* The spliced code is woven from the template and the bytes.              *)
LEMMA SpliceWoven ==
  ASSUME NEW code \in Bytes, NEW subs \in Seq(Subs), Ascending(subs),
         \A i \in DOMAIN subs : subs[i].offset < Len(code)
  PROVE  \E R : Woven(code, subs, R) /\ Splice(code, subs) = R[0]
  <1> DEFINE m == Len(subs)
             T(k) == {j \in 1..m : k < j}
             at(k) == Behind(subs, k)
  <1>1. PICK f : SplicedBy(code, subs, f) /\ Splice(code, subs) = f[DOMAIN subs]
    BY SpliceSteps
  <1> DEFINE R == [k \in 0..m |-> SubSeq(f[T(k)], at(k) + 1, Len(f[T(k)]))]
             Behindhand(k) == f[T(k)] = SubSeq(code, 1, at(k)) \o R[k] /\ R[k] \in Bytes
  <1>m. m \in Nat  OBVIOUS
  <1>2. m \in Nat /\ DOMAIN subs = 1..m /\ Len(code) \in Nat  BY BytesFacts
  <1>3. \A k \in 1..m : /\ subs[k] \in Subs /\ subs[k].offset \in Nat /\ subs[k].offset < Len(code)
                        /\ at(k) = subs[k].offset + 1 /\ at(k - 1) \in 0..subs[k].offset
    BY <1>2, BehindFacts DEF Follows
  <1>4. Behindhand(m) /\ R[m] = SubSeq(code, at(m) + 1, Len(code))
    <2>1. T(m) = {} /\ m \in 0..m  BY <1>2
    <2>2. f[T(m)] = code  BY <1>1, <2>1 DEF SplicedBy
    <2>3. at(m) \in 0..Len(code)
      <3>1. CASE m = 0  BY <1>2, <3>1 DEF Behind
      <3>2. CASE m # 0
        <4>1. m \in 1..m  BY <1>2, <3>2
        <4>2. subs[m].offset \in Nat /\ subs[m].offset < Len(code) /\ at(m) = subs[m].offset + 1
          BY <1>3, <4>1
        <4> HIDE DEF at, m
        <4> QED BY <1>2, <4>2
      <3> QED BY <3>1, <3>2
    <2>4. R[m] = SubSeq(code, at(m) + 1, Len(code))  BY <2>1, <2>2
    <2> HIDE DEF R, at
    <2>5. /\ SubSeq(code, at(m) + 1, Len(code)) \in Bytes
          /\ code = SubSeq(code, 1, at(m)) \o SubSeq(code, at(m) + 1, Len(code))
      BY <2>3, Cut DEF Bytes
    <2> QED BY <2>2, <2>4, <2>5
  <1>5. ASSUME NEW k \in 1..m, Behindhand(k)
        PROVE  Behindhand(k - 1) /\ R[k - 1] = Gap(code, subs, k) \o (subs[k].bytes \o R[k])
    <2>1. /\ T(k - 1) \in SUBSET DOMAIN subs /\ k \in T(k - 1) /\ T(k - 1) \ {k} = T(k)
          /\ k - 1 \in 0..m
      BY <1>2
    <2>2. First(subs, T(k - 1), k)
      <3>1. \A j \in T(k - 1) \ {k} : k < j /\ j \in DOMAIN subs /\ k \in DOMAIN subs  BY <1>2
      <3> QED BY <2>1, <3>1 DEF First, Ascending
    <2> HIDE DEF T
    <2>3. f[T(k - 1)] = Put(subs[k], f[T(k)])
      <3>1. \A U \in SUBSET DOMAIN subs : \A i \in U :
               First(subs, U, i) => f[U] = Put(subs[i], f[U \ {i}])
        BY <1>1 DEF SplicedBy
      <3> QED BY <2>1, <2>2, <3>1
    <2> DEFINE sub == subs[k]
               c == at(k - 1)
               x == R[k]
               whole == f[T(k - 1)]
    <2>4. whole = Put(sub, SubSeq(code, 1, sub.offset + 1) \o x) /\ x \in Bytes
      BY <1>3, <1>5, <2>3
    <2>5. R[k - 1] = SubSeq(whole, c + 1, Len(whole))  BY <2>1
    <2>6. sub \in Subs /\ InFront(code, sub, c)  BY <1>3 DEF InFront
    <2>7. Gap(code, subs, k) = SubSeq(code, c + 1, sub.offset)  BY DEF Gap
    <2> HIDE DEF sub, c, x, whole, R, at
    <2>a. x \in Bytes  BY <2>4
    <2>8. Weaves(code, sub, c, x)  BY <2>6, <2>a, WeaveOne
    <2>9. /\ whole = SubSeq(code, 1, c) \o R[k - 1] /\ R[k - 1] \in Bytes
          /\ R[k - 1] = Gap(code, subs, k) \o (sub.bytes \o x)
      BY <2>4, <2>5, <2>7, <2>8 DEF Weaves
    <2> QED BY <2>9 DEF sub, c, x, whole
  <1> HIDE DEF R, T, at
  <1>6. \A k \in 0..m : Behindhand(k)
    <2> DEFINE D == 0..m
               rank == [k \in D |-> m - k]
               P == {k \in D : Behindhand(k)}
    <2>1. rank \in [D -> Nat]  BY <1>2
    <2>2. ASSUME NEW k \in D, \A j \in D : rank[j] < rank[k] => j \in P PROVE k \in P
      <3>1. CASE k = m  BY <1>4, <3>1
      <3>2. CASE k # m
        <4> DEFINE j == k + 1
        <4>0. j \in 1..m /\ j \in D /\ j - 1 = k /\ m - j < m - k
          BY <1>m, <3>2, NextSlot
        <4> HIDE DEF j
        <4>1. rank[j] < rank[k]  BY <4>0
        <4>2. Behindhand(j)  BY <2>2, <4>0, <4>1
        <4> HIDE DEF Behindhand
        <4>3. Behindhand(j - 1)  BY <1>5, <4>0, <4>2
        <4> QED BY <4>0, <4>3
      <3> QED BY <3>1, <3>2
    <2> HIDE DEF P, D, rank
    <2>3. D \subseteq P  BY <2>1, <2>2, RankInduction
    <2> QED BY <2>3 DEF P, D
  <1>7. Woven(code, subs, R)
    <2>1. \A k \in 1..m : k \in 0..m  OBVIOUS
    <2>2. \A k \in 1..m : R[k - 1] = Gap(code, subs, k) \o (subs[k].bytes \o R[k])
      BY <1>5, <1>6, <2>1
    <2>3. \A k \in 0..m : R[k] \in Bytes  BY <1>6
    <2> QED BY <1>4, <2>2, <2>3 DEF Woven, at
  <1>8. Splice(code, subs) = R[0]
    <2>1. 0 \in 0..m /\ T(0) = DOMAIN subs  BY <1>2 DEF T
    <2>2. at(0) = 0 /\ SubSeq(code, 1, 0) = <<>>  BY DEF at, Behind, Bytes
    <2>3. f[T(0)] = <<>> \o R[0] /\ R[0] \in Bytes  BY <1>6, <2>1, <2>2
    <2>4. <<>> \o R[0] = R[0]  BY <2>3 DEF Bytes
    <2> QED BY <1>1, <2>1, <2>3, <2>4
  <1> QED BY <1>7, <1>8

(* Where an element behind a gap stands, and what it reads.                *)
Passed(c, n, g, b) ==
  /\ Slice(c, n, n + Len(g)) = g
  /\ Element(c, n + Len(g)) = Element(b, 0)
  /\ ElementData(c, n + Len(g), Element(b, 0)) = ElementData(b, 0, Element(b, 0))

(* It reads the same wherever it stands.                                   *)
LEMMA PassElement ==
  ASSUME NEW front \in Bytes, NEW g \in Bytes, NEW b, OneElement(b), NEW r \in Bytes,
         NEW c, c = front \o (g \o (b \o r))
  PROVE  Passed(c, Len(front), g, b)
  <1> DEFINE n == Len(front)
             pre == front \o g
             e == Element(b, 0)
             rest == b \o r
  <1>1. b \in Bytes /\ Len(b) > 0 /\ e.length = Len(b)  BY DEF OneElement
  <1>2. /\ e.header \in Nat /\ e.length \in Nat /\ e.header <= e.length
        /\ n \in Nat /\ Len(g) \in Nat
    <2>1. 0 \in Nat  OBVIOUS
    <2>2. /\ e.length \in Nat /\ e.length >= e.header /\ e.header \in 1..5
      BY <1>1, <2>1, ElementType
    <2>3. n \in Nat /\ Len(g) \in Nat  BY BytesFacts
    <2> HIDE DEF e, n
    <2> QED BY <2>2, <2>3
  <1>3. pre \in Bytes /\ Len(pre) = n + Len(g) /\ rest \in Bytes  BY <1>1, BytesConcat
  <1>4. front \o g \o rest = front \o (g \o rest)
    <2> HIDE DEF rest
    <2>1. Associative(front, g, rest)  BY <1>3, BytesAssociative
    <2> QED BY <2>1 DEF Associative
  <1>5. pre \o b \o r = pre \o rest
    <2> HIDE DEF pre
    <2>1. Associative(pre, b, r)  BY <1>1, <1>3, BytesAssociative
    <2> QED BY <2>1 DEF Associative
  <1>6. c = front \o g \o rest /\ c = pre \o b \o r  BY <1>4, <1>5
  <1> HIDE DEF n, pre, e, rest
  <1>7. Slice(c, n, n + Len(g)) = g
    <2>1. Slice(front \o g \o rest, Len(front), Len(front) + Len(g)) = g
      BY <1>3, SliceMiddle DEF Bytes
    <2> QED BY <1>6, <2>1 DEF n
  <1>8. Element(c, n + Len(g)) = e
    <2>1. e.header <= Len(b)  BY <1>1, <1>2
    <2>2. Element(pre \o b \o r, Len(pre)) = Element(b, 0)
      BY <1>1, <1>3, <2>1, ElementLocal DEF e
    <2> QED BY <1>3, <1>6, <2>2 DEF e
  <1>9. ElementData(c, n + Len(g), e) = ElementData(b, 0, e)
    <2> DEFINE from == e.header
               to == e.length
    <2>1. from \in Nat /\ to \in Nat /\ from <= to /\ to <= Len(b)
      <3>1. Len(b) \in Nat  BY <1>1, BytesFacts
      <3> QED BY <1>1, <1>2, <3>1
    <2>2. ElementData(c, n + Len(g), e) = Slice(c, n + Len(g) + from, n + Len(g) + to)
      BY DEF ElementData
    <2>3. ElementData(b, 0, e) = Slice(b, from, to)
      <3>1. 0 + from = from /\ 0 + to = to  BY <2>1
      <3> QED BY <3>1 DEF ElementData
    <2> HIDE DEF from, to
    <2>4. Slice(pre \o b \o r, Len(pre) + from, Len(pre) + to) = Slice(b, from, to)
      <3>1. pre \in Seq(Byte) /\ b \in Seq(Byte) /\ r \in Seq(Byte)  BY <1>1, <1>3 DEF Bytes
      <3>2. from \in Nat /\ to \in Nat /\ from <= to /\ to <= Len(b)  BY <2>1
      <3> QED BY ONLY <3>1, <3>2, SliceLocal
    <2> QED BY <1>3, <1>6, <2>2, <2>3, <2>4
  <1> QED BY <1>7, <1>8, <1>9 DEF Passed, n, e

(* The k-th slot of the template and of the code c woven from it.          *)
At(c, R, k) == Len(c) - Len(R[k])
Stands(template, subs, R, c, k) ==
  LET g == Gap(template, subs, k)
  IN  /\ At(c, R, k - 1) \in Nat /\ Behind(subs, k - 1) \in Nat /\ subs[k].offset \in Nat
      /\ Slice(template, Behind(subs, k - 1), subs[k].offset) = g
      /\ Len(g) = subs[k].offset - Behind(subs, k - 1)
      /\ Passed(c, At(c, R, k - 1), g, subs[k].bytes)
      /\ OneElement(subs[k].bytes) /\ Len(subs[k].bytes) \in Nat
      /\ At(c, R, k) = At(c, R, k - 1) + Len(g) + Len(subs[k].bytes)

(* What is in front of R[k] in the code woven.                             *)
LEMMA WovenFront ==
  ASSUME NEW code \in Bytes, NEW subs \in Seq(Subs), NEW R, Woven(code, subs, R),
         \A k \in 1..Len(subs) : Gap(code, subs, k) \in Bytes
  PROVE  \A k \in 0..Len(subs) : \E front \in Bytes : R[0] = front \o R[k]
  <1> DEFINE m == Len(subs)
             P == {k \in 0..m : \E front \in Bytes : R[0] = front \o R[k]}
  <1>1. m \in Nat  OBVIOUS
  <1>2. 0 \in P
    <2>1. <<>> \in Bytes /\ R[0] \in Bytes /\ 0 \in 0..m
      BY <1>1, CleanEmpty DEF Clean, Woven
    <2>2. <<>> \o R[0] = R[0]  BY <2>1 DEF Bytes
    <2> QED BY <2>1, <2>2
  <1>3. ASSUME NEW k \in P, k \in 0..(m - 1) PROVE k + 1 \in P
    <2> DEFINE j == k + 1
    <2>1. j \in 1..m /\ j \in 0..m /\ j - 1 = k  BY <1>1, <1>3
    <2>2. PICK front \in Bytes : R[0] = front \o R[k]  OBVIOUS
    <2> DEFINE g == Gap(code, subs, j)
               b == subs[j].bytes
    <2> HIDE DEF j, m
    <2>3. R[k] = g \o (b \o R[j]) /\ R[j] \in Bytes  BY <2>1 DEF Woven, m
    <2>4. g \in Bytes  BY <2>1 DEF m
    <2>5. b \in Bytes
      <3>1. subs[j] \in Subs  BY <2>1 DEF m
      <3> QED BY <3>1 DEF Subs
    <2> HIDE DEF g, b
    <2> DEFINE y == R[j]
               rest == b \o y
               more == front \o g
    <2>6. y \in Bytes /\ rest \in Bytes /\ more \in Bytes  BY <2>3, <2>4, <2>5, BytesConcat
    <2>7. R[0] = front \o (g \o rest)  BY <2>2, <2>3
    <2> HIDE DEF y, rest, more
    <2>8. front \o (g \o rest) = more \o rest
      <3>1. Associative(front, g, rest)  BY <2>4, <2>6, BytesAssociative
      <3> QED BY <3>1 DEF Associative, more
    <2>9. more \o rest = (more \o b) \o y
      <3>1. Associative(more, b, y)  BY <2>5, <2>6, BytesAssociative
      <3> QED BY <3>1 DEF Associative, rest
    <2>10. more \o b \in Bytes /\ R[0] = (more \o b) \o R[j]
      BY <2>5, <2>6, <2>7, <2>8, <2>9, BytesConcat DEF y
    <2>11. j \in P
      <3> DEFINE x == more \o b
      <3>1. x \in Bytes /\ R[0] = x \o R[j]  BY <2>10
      <3> HIDE DEF x
      <3> QED BY <2>1, <3>1 DEF m
    <2> QED BY <2>11 DEF j
  <1>4. \A k \in P : k \in 0..(m - 1) => k + 1 \in P  BY <1>3
  <1> HIDE DEF P, m
  <1>5. 0..m \subseteq P  BY <1>1, <1>2, <1>4, UpTo
  <1> QED BY <1>5 DEF P, m

(* The code c is woven from a template and substitutions that are each one *)
(* element.                                                                *)
Spliced(code, subs, R, c) ==
  /\ code \in Bytes /\ subs \in Seq(Subs) /\ Ascending(subs)
  /\ \A i \in DOMAIN subs : subs[i].offset < Len(code) /\ OneElement(subs[i].bytes)
  /\ Woven(code, subs, R) /\ c = R[0]

(* What a template has between two of its slots.                           *)
LEMMA GapFacts ==
  ASSUME NEW code, NEW subs, NEW R, NEW c, Spliced(code, subs, R, c)
  PROVE  \A k \in 1..Len(subs) :
            /\ Gap(code, subs, k) \in Bytes
            /\ Len(Gap(code, subs, k)) = subs[k].offset - Behind(subs, k - 1)
            /\ Slice(code, Behind(subs, k - 1), subs[k].offset) = Gap(code, subs, k)
  <1> TAKE k \in 1..Len(subs)
  <1>1. code \in Bytes /\ Len(code) \in Nat  BY BytesFacts DEF Spliced
  <1>2. Follows(subs, k, Len(code))  BY <1>1, BehindFacts DEF Spliced
  <1> DEFINE sub == subs[k]
             from == Behind(subs, k - 1)
  <1>3. sub \in Subs /\ sub.offset < Len(code) /\ from \in 0..sub.offset /\ sub.offset \in Nat
    BY <1>2 DEF Follows
  <1>4. Gap(code, subs, k) = SubSeq(code, from + 1, sub.offset)  BY DEF Gap
  <1> HIDE DEF sub, from
  <1>5. /\ SubSeq(code, from + 1, sub.offset) \in Bytes
        /\ Len(SubSeq(code, from + 1, sub.offset)) = sub.offset - from
    BY <1>1, <1>3, PutBehind
  <1>6. Slice(code, from, sub.offset) = SubSeq(code, from + 1, sub.offset)
    BY <1>3 DEF Slice
  <1> QED BY <1>4, <1>5, <1>6 DEF sub, from

(* How long what is left in front of a slot is.                            *)
LEMMA LeftLengths ==
  ASSUME NEW front \in Bytes, NEW g \in Bytes, NEW b \in Bytes, NEW r \in Bytes,
         NEW y, y = g \o (b \o r), NEW c, c = front \o y
  PROVE  Len(c) - Len(y) = Len(front) /\ Len(c) - Len(r) = Len(front) + Len(g) + Len(b)
  <1> DEFINE x == b \o r
  <1>1. x \in Bytes /\ Len(x) = Len(b) + Len(r)  BY BytesConcat
  <1> HIDE DEF x
  <1>2. y \in Bytes /\ Len(y) = Len(g) + Len(x)  BY <1>1, BytesConcat DEF x
  <1>3. Len(c) = Len(front) + Len(y)  BY <1>2, BytesConcat
  <1>4. Len(front) \in Nat /\ Len(g) \in Nat /\ Len(b) \in Nat /\ Len(r) \in Nat  BY BytesFacts
  <1> QED BY ONLY <1>1, <1>2, <1>3, <1>4

(* Every slot stands where the lengths of those in front of it put it.     *)
LEMMA SlotStands ==
  ASSUME NEW code, NEW subs, NEW R, NEW c, Spliced(code, subs, R, c)
  PROVE  \A k \in 1..Len(subs) : Stands(code, subs, R, c, k)
  <1> TAKE k \in 1..Len(subs)
  <1> DEFINE m == Len(subs)
             g == Gap(code, subs, k)
             b == subs[k].bytes
             r == R[k]
  <1>1. code \in Bytes /\ Len(code) \in Nat /\ subs \in Seq(Subs) /\ m \in Nat
    BY BytesFacts DEF Spliced
  <1>2. g \in Bytes /\ Len(g) = subs[k].offset - Behind(subs, k - 1)
        /\ Slice(code, Behind(subs, k - 1), subs[k].offset) = g
    BY GapFacts
  <1>3. OneElement(b)  BY <1>1 DEF Spliced
  <1>4. b \in Bytes /\ Len(b) \in Nat  BY <1>3, BytesFacts DEF OneElement
  <1>5. k \in 0..m /\ k - 1 \in 0..m  BY <1>1
  <1>6. R[k - 1] = g \o (b \o r) /\ r \in Bytes  BY <1>5 DEF Spliced, Woven
  <1>7. PICK front \in Bytes : c = front \o R[k - 1]
    <2>1. Woven(code, subs, R) /\ c = R[0]  BY DEF Spliced
    <2>2. \A j \in 1..Len(subs) : Gap(code, subs, j) \in Bytes  BY GapFacts
    <2> QED BY <1>1, <1>5, <2>1, <2>2, WovenFront
  <1>8. Behind(subs, k - 1) \in Nat /\ subs[k].offset \in Nat
    <2>1. Follows(subs, k, Len(code))  BY <1>1, BehindFacts DEF Spliced
    <2> QED BY <2>1 DEF Follows
  <1> HIDE DEF g, b, r
  <1>9. c = front \o (g \o (b \o r))  BY <1>6, <1>7
  <1>10. Passed(c, Len(front), g, b)  BY <1>2, <1>3, <1>6, <1>9, PassElement
  <1>11. Len(front) \in Nat /\ At(c, R, k - 1) = Len(front)
         /\ At(c, R, k) = Len(front) + Len(g) + Len(b)
    <2>1. Len(front) \in Nat  BY BytesFacts
    <2>2. Len(c) - Len(R[k - 1]) = Len(front) /\ Len(c) - Len(R[k]) = Len(front) + Len(g) + Len(b)
      <3> DEFINE y == R[k - 1]
      <3>1. y = g \o (b \o r) /\ c = front \o y  BY <1>6, <1>7
      <3> HIDE DEF y
      <3>2. g \in Bytes /\ b \in Bytes /\ r \in Bytes  BY <1>2, <1>4, <1>6
      <3>3. Len(c) - Len(y) = Len(front) /\ Len(c) - Len(r) = Len(front) + Len(g) + Len(b)
        BY <3>1, <3>2, LeftLengths
      <3> QED BY <3>3 DEF y, r
    <2> QED BY <2>1, <2>2 DEF At
  <1> QED BY <1>2, <1>3, <1>4, <1>8, <1>10, <1>11 DEF Stands, g, b

(* The template and the code begin and end with the same bytes.            *)
Ends(code, subs, R, c) ==
  /\ At(c, R, 0) = 0 /\ Behind(subs, 0) = 0
  /\ Tail_(c, At(c, R, Len(subs))) = Tail_(code, Behind(subs, Len(subs)))

(* Behind the last slot they do.                                           *)
LEMMA EndsAlike ==
  ASSUME NEW code, NEW subs, NEW R, NEW c, Spliced(code, subs, R, c)
  PROVE  Ends(code, subs, R, c)
  <1> DEFINE m == Len(subs)
             r == R[m]
             at == Behind(subs, m)
  <1>1. code \in Bytes /\ Len(code) \in Nat /\ subs \in Seq(Subs) /\ m \in Nat /\ c = R[0]
        /\ Woven(code, subs, R)
    BY BytesFacts DEF Spliced
  <1>2. 0 \in 0..m /\ m \in 0..m  BY <1>1
  <1>3. r = SubSeq(code, at + 1, Len(code)) /\ r \in Bytes /\ c \in Bytes
    BY <1>1, <1>2 DEF Woven
  <1>4. PICK front \in Bytes : c = front \o r
    <2>1. \A j \in 1..Len(subs) : Gap(code, subs, j) \in Bytes  BY GapFacts
    <2> QED BY <1>1, <1>2, <2>1, WovenFront
  <1>5. at \in 0..Len(code)
    <2>1. CASE m = 0  BY <1>1, <2>1 DEF Behind
    <2>2. CASE m # 0
      <3>1. m \in 1..m  BY <1>1, <2>2
      <3>2. Follows(subs, m, Len(code))  BY <1>1, <3>1, BehindFacts DEF Spliced
      <3> HIDE DEF m
      <3> QED BY <1>1, <3>2 DEF Follows
    <2> QED BY <2>1, <2>2
  <1>6. At(c, R, 0) = 0
    <2>1. Len(c) \in Nat  BY <1>3, BytesFacts
    <2> QED BY <1>1, <2>1 DEF At
  <1>7. At(c, R, m) = Len(front) /\ Len(front) \in 0..Len(c)
    <2>1. Len(c) = Len(front) + Len(r) /\ Len(front) \in Nat /\ Len(r) \in Nat
      BY <1>3, <1>4, BytesConcat, BytesFacts
    <2> QED BY <2>1 DEF At
  <1> HIDE DEF m, r, at
  <1>8. Tail_(c, Len(front)) = r
    <2>1. SubSeq(front \o r, Len(front) + 1, Len(front \o r)) = r
      BY <1>3, BothParts DEF Bytes
    <2>2. Tail_(c, Len(front)) = SubSeq(c, Len(front) + 1, Len(c))
      BY <1>3, <1>7, TailSlice
    <2> QED BY <1>4, <2>1, <2>2
  <1>9. Tail_(code, at) = r  BY <1>1, <1>3, <1>5, TailSlice
  <1> QED BY <1>6, <1>7, <1>8, <1>9 DEF Ends, m, at, Behind

(* A substitution for every slot.                                          *)
Fills(ctx, args, subs) ==
  /\ Len(subs) = Len(ctx.slots) /\ Len(subs) \in Nat
  /\ \A k \in 1..Len(subs) : /\ subs[k].offset = ctx.slots[k].offset
                             /\ subs[k].bytes = encodeArg(args[ctx.slots[k].param])
(* How far the match is behind k slots.                                    *)
Matched(subs, R, c, k) == [ok |-> TRUE, template |-> Behind(subs, k), code |-> At(c, R, k)]
(* One slot more.                                                          *)
MatchOne(ctx, code, read, k) ==
  MatchSegment(read, code, Slice(ctx.bytes, read.template, ctx.slots[k].offset), ctx.slots[k].offset)

(* A slot that stands in the code is matched.                              *)
LEMMA SlotMatched ==
  ASSUME NEW ctx, NEW args, NEW subs, Fills(ctx, args, subs), NEW R, NEW c,
         NEW k \in 1..Len(subs), Stands(ctx.bytes, subs, R, c, k)
  PROVE  MatchOne(ctx, c, Matched(subs, R, c, k - 1), k) = Matched(subs, R, c, k)
  <1> DEFINE g == Gap(ctx.bytes, subs, k)
             b == subs[k].bytes
             off == subs[k].offset
             at == At(c, R, k - 1)
             end == at + Len(g)
             e == Element(c, end)
  <1>1. off = ctx.slots[k].offset /\ k # 0 /\ Len(subs) \in Nat  BY DEF Fills
  <1>2. /\ Slice(ctx.bytes, Behind(subs, k - 1), off) = g
        /\ Passed(c, at, g, b) /\ OneElement(b) /\ At(c, R, k) = at + Len(g) + Len(b)
    BY DEF Stands
  <1>3. Slice(c, at, end) = g /\ e = Element(b, 0)  BY <1>2 DEF Passed
  <1>4. e.length = Len(b)  BY <1>2, <1>3 DEF OneElement
  <1>5. Behind(subs, k) = off + 1  BY <1>1 DEF Behind
  <1> HIDE DEF g, b, off, at, e
  <1>6. MatchSegment(Matched(subs, R, c, k - 1), c, g, off)
          = [ok |-> TRUE, template |-> off + 1, code |-> end + e.length]
    <2> DEFINE read == Matched(subs, R, c, k - 1)
    <2>1. read.ok = TRUE /\ read.code = at  BY DEF Matched, at
    <2> HIDE DEF read
    <2>2. (read.ok /\ Slice(c, read.code, end) = g) = TRUE  BY <1>3, <2>1
    <2>3. MatchSegment(read, c, g, off)
            = [ok |-> read.ok /\ Slice(c, read.code, end) = g,
               template |-> off + 1, code |-> end + e.length]
      BY <2>1 DEF MatchSegment, e
    <2> QED BY <2>2, <2>3, Zenon DEF read
  <1>7. MatchOne(ctx, c, Matched(subs, R, c, k - 1), k)
          = MatchSegment(Matched(subs, R, c, k - 1), c, g, off)
    <2>1. Matched(subs, R, c, k - 1).template = Behind(subs, k - 1)  BY DEF Matched
    <2> QED BY <1>1, <1>2, <2>1 DEF MatchOne
  <1> QED BY <1>2, <1>4, <1>5, <1>6, <1>7 DEF Matched

(* The artifact recognizes code woven from it.                             *)
LEMMA WovenMatches ==
  ASSUME NEW ctx, NEW args, NEW subs, Fills(ctx, args, subs), NEW R, NEW c,
         Spliced(ctx.bytes, subs, R, c)
  PROVE  MatchesTemplate(ctx, c)
  <1> DEFINE m == Len(ctx.slots)
             start == [ok |-> TRUE, template |-> 0, code |-> 0]
             body(k, g) == IF k = 0 THEN start ELSE MatchOne(ctx, c, g[k - 1], k)
             after == CHOOSE g : g = [k \in 0..m |-> body(k, g)]
             F == [k \in 0..m |-> Matched(subs, R, c, k)]
             Rest(read) == read.ok /\ Tail_(ctx.bytes, read.template) = Tail_(c, read.code)
  <1>1. m \in Nat /\ m = Len(subs)  BY DEF Fills
  <1>2. MatchesTemplate(ctx, c) <=> Rest(after[m])
    BY Zenon DEF MatchesTemplate, MatchOne
  <1>3. \A k \in 1..m : MatchOne(ctx, c, Matched(subs, R, c, k - 1), k) = Matched(subs, R, c, k)
    BY <1>1, SlotStands, SlotMatched
  <1>4. Ends(ctx.bytes, subs, R, c)  BY EndsAlike
  <1>5. Matched(subs, R, c, 0) = start  BY <1>4 DEF Matched, Ends
  <1> HIDE DEF m, start
  <1>6. \A k \in 0..m : k # 0 => k - 1 \in 0..m /\ k \in 1..m  BY <1>1
  <1>7. F = [k \in 0..m |-> body(k, F)]
    <2>1. \A k \in 0..m : F[k] = body(k, F)
      <3> TAKE k \in 0..m
      <3>1. F[k] = Matched(subs, R, c, k)  OBVIOUS
      <3>2. CASE k = 0  BY <1>5, <3>1, <3>2
      <3>3. CASE k # 0
        <4>1. F[k - 1] = Matched(subs, R, c, k - 1)  BY <1>6, <3>3
        <4> HIDE DEF F
        <4> QED BY <1>3, <1>6, <3>1, <3>3, <4>1
      <3> QED BY <3>2, <3>3
    <2>2. F = [k \in 0..m |-> F[k]]  OBVIOUS
    <2> HIDE DEF F, body
    <2> QED BY <2>1, <2>2
  <1> HIDE DEF F
  <1>8. after = [k \in 0..m |-> body(k, after)]  BY <1>7
  <1> HIDE DEF after
  <1> DEFINE P == {k \in 0..m : after[k] = Matched(subs, R, c, k)}
  <1>9. 0 \in P  BY <1>1, <1>5, <1>8
  <1>10. ASSUME NEW k \in P, k \in 0..(m - 1) PROVE k + 1 \in P
    <2>1. k + 1 \in 0..m /\ k + 1 \in 1..m /\ k + 1 # 0 /\ (k + 1) - 1 = k  BY <1>1, <1>10
    <2>2. after[k + 1] = MatchOne(ctx, c, after[k], k + 1)  BY <1>8, <2>1
    <2>3. after[k] = Matched(subs, R, c, k)  BY <1>10
    <2>4. MatchOne(ctx, c, Matched(subs, R, c, k), k + 1) = Matched(subs, R, c, k + 1)
      BY <1>3, <2>1
    <2> QED BY <2>1, <2>2, <2>3, <2>4
  <1>11. \A k \in P : k \in 0..(m - 1) => k + 1 \in P  BY <1>10
  <1> HIDE DEF P
  <1>12. 0..m \subseteq P  BY <1>1, <1>9, <1>11, UpTo
  <1>13. after[m] = Matched(subs, R, c, m)
    <2>1. m \in 0..m  BY <1>1
    <2> QED BY <1>12, <2>1 DEF P
  <1>14. Rest(Matched(subs, R, c, m))  BY <1>1, <1>4 DEF Matched, Ends
  <1> QED BY <1>2, <1>13, <1>14

(* The code part of a program without indices of separators is woven from  *)
(* its template and its arguments.                                         *)
LEMMA PlainSpliced ==
  ASSUME NEW q, IsProgram(q), NEW args \in ArgLists(q.params), q.artifact.sepSlots = <<>>,
         NEW subs, subs = collectSubstitutions(q.artifact, args)
  PROVE  /\ Fills(q.artifact, args, subs)
         /\ \E R : Spliced(q.artifact.bytes, subs, R, Splice(q.artifact.bytes, subs))
  <1> DEFINE ctx == q.artifact
             code == ctx.bytes
             m == Len(ctx.slots)
  <1>1. /\ Template(q.params, ctx) /\ GoodArgs(q.params, args) /\ ShortSubs(ctx, args) /\ Laid(ctx)
    BY ProgramFacts
  <1>2. /\ m \in Nat /\ DOMAIN ctx.slots = 1..m /\ Len(subs) = m /\ DOMAIN subs = 1..m
        /\ \A i \in 1..m : /\ subs[i].offset = ctx.slots[i].offset
                           /\ subs[i].bytes = encodeArg(args[ctx.slots[i].param])
    <2>1. Collected(ctx, args)  BY <1>1, CollectParts
    <2>2. Len(ctx.sepSlots) = 0  OBVIOUS
    <2>3. /\ m \in Nat /\ DOMAIN ctx.slots = 1..m
          /\ Len(subs) = m + Len(ctx.sepSlots) /\ DOMAIN subs = 1..(m + Len(ctx.sepSlots))
          /\ \A i \in 1..m : /\ subs[i].offset = ctx.slots[i].offset
                             /\ subs[i].bytes = encodeArg(args[ctx.slots[i].param])
      BY <2>1 DEF Collected
    <2> HIDE DEF m
    <2>4. m + Len(ctx.sepSlots) = m  BY <2>2, <2>3
    <2> QED BY <2>3, <2>4
  <1>3. Fills(ctx, args, subs)  BY <1>2 DEF Fills
  <1>4. /\ subs \in Seq(Subs)
        /\ Offset(subs) \subseteq Offset(ctx.slots) \cup Offset(ctx.sepSlots)
    BY <1>1, CollectFacts, CleanSubsType
  <1>5. code \in Bytes /\ Len(code) \in Nat
        /\ Offset(ctx.slots) \cup Offset(ctx.sepSlots) \subseteq 0..(Len(code) - 1)
    BY <1>1, BytesFacts DEF Template, Holed
  <1>6. \A j \in DOMAIN subs : subs[j].offset < Len(code)
    <2> TAKE j \in DOMAIN subs
    <2>1. subs[j].offset \in Offset(subs)  BY DEF Offset
    <2>2. subs[j].offset \in 0..(Len(code) - 1)  BY <1>4, <1>5, <2>1
    <2> QED BY <1>5, <2>2
  <1>7. Ascending(subs)
    <2>1. \A i, j \in 1..m : i < j => ctx.slots[i].offset < ctx.slots[j].offset
      BY <1>1, <1>2 DEF Laid
    <2> QED BY <1>2, <2>1 DEF Ascending
  <1>8. \A i \in DOMAIN subs : OneElement(subs[i].bytes)
    <2> TAKE i \in DOMAIN subs
    <2> DEFINE k == ctx.slots[i].param
               value == args[k]
    <2>1. k \in DOMAIN q.params
      <3> DEFINE slots == ctx.slots
                 Slots == [param : DOMAIN q.params, offset : Nat]
      <3>1. slots \in Seq(Slots)  BY <1>1 DEF Template, Emitted
      <3>2. i \in 1..Len(slots)  BY <1>2
      <3> HIDE DEF slots, Slots
      <3>3. slots[i] \in Slots  BY ONLY <3>1, <3>2
      <3> QED BY <3>3 DEF slots, Slots
    <2>2. HasType(value, q.params[k].type)  BY <1>1, <2>1 DEF GoodArgs
    <2>3. subs[i].bytes = encodeArg(value)  BY <1>2
    <2> HIDE DEF value
    <2>4. value \in Value /\ Short(value)  BY <2>2 DEF HasType
    <2> QED BY <2>3, <2>4, ArgElement
  <1>9. PICK R : Woven(code, subs, R) /\ Splice(code, subs) = R[0]
    BY <1>4, <1>5, <1>6, <1>7, SpliceWoven
  <1>10. Spliced(code, subs, R, Splice(code, subs))
    BY <1>4, <1>5, <1>6, <1>7, <1>8, <1>9 DEF Spliced
  <1> QED BY <1>3, <1>10

(* Nothing is put behind the code of a contract with slots or fields, or   *)
(* without parameters.                                                     *)
LEMMA PlainBuilt ==
  ASSUME NEW q, IsProgram(q), NEW args \in ArgLists(q.params), q.artifact.sepSlots = <<>>,
         ~Appended(q), NEW subs, subs = collectSubstitutions(q.artifact, args)
  PROVE  buildCodeScript(q, args) = Splice(q.artifact.bytes, subs)
  <1> DEFINE code == q.artifact.bytes
             extra == Concat([i \in DOMAIN args |-> encodeArg(args[i])])
  <1>1. buildCodeScript(q, args) = CASE subs # <<>> -> Splice(code, subs)
                                     [] subs = <<>> /\ q.fields = <<>> -> code \o extra
                                     [] OTHER -> code
    BY Zenon DEF buildCodeScript
  <1>2. CASE subs # <<>>  BY <1>1, <1>2
  <1>3. CASE subs = <<>>
    <2>1. Fills(q.artifact, args, subs)  BY PlainSpliced
    <2>2. PICK R : Spliced(code, subs, R, Splice(code, subs))  BY PlainSpliced
    <2>3. Len(subs) = 0 /\ code \in Bytes  BY <1>3, <2>2 DEF Spliced
    <2>4. Splice(code, subs) = code
      <3>1. R[0] = SubSeq(code, Behind(subs, 0) + 1, Len(code)) /\ Splice(code, subs) = R[0]
        BY <2>2, <2>3 DEF Spliced, Woven
      <3>2. Behind(subs, 0) + 1 = 1  BY DEF Behind
      <3>3. SubSeq(code, 1, Len(code)) = code  BY <2>3 DEF Bytes
      <3> QED BY <3>1, <3>2, <3>3
    <2>5. q.fields = <<>> => code \o extra = code
      <3> HAVE q.fields = <<>>
      <3>1. q.artifact.slots = <<>>
        <4> DEFINE slots == q.artifact.slots
        <4>1. slots \in Seq([param : DOMAIN q.params, offset : Nat])
          BY ProgramFacts DEF Template, Emitted
        <4>2. Len(slots) = 0  BY <2>1, <2>3 DEF Fills
        <4> HIDE DEF slots
        <4>3. slots = <<>>  BY <4>1, <4>2
        <4> QED BY <4>3 DEF slots
      <3>2. q.params = <<>>  BY <3>1 DEF Appended
      <3>3. args \in Seq(Value) /\ Len(args) = Len(q.params)  BY ProgramFacts DEF GoodArgs
      <3>4. args = <<>>  BY <3>2, <3>3
      <3>5. extra = <<>>
        <4>1. [i \in DOMAIN args |-> encodeArg(args[i])] = <<>>  BY <3>4
        <4>2. Concat(<<>>) = <<>>
          <5>1. <<>> \in Seq(Seq(Byte)) /\ Len(<<>>) = 0  OBVIOUS
          <5>2. PICK f : Joins(Byte, <<>>, f) /\ Concat(<<>>) = f[Len(<<>>)]
            BY <5>1, ConcatParts
          <5> QED BY <5>1, <5>2 DEF Joins
        <4> QED BY <4>1, <4>2
      <3> HIDE DEF extra
      <3> QED BY <2>3, <3>5 DEF Bytes
    <2> DEFINE built == buildCodeScript(q, args)
               spliced == Splice(code, subs)
    <2> HIDE DEF code, extra, built, spliced
    <2>6. built = CASE subs # <<>> -> spliced
                    [] subs = <<>> /\ q.fields = <<>> -> code \o extra
                    [] OTHER -> code
      BY <1>1 DEF built, spliced
    <2>7. built = code  BY ONLY <1>3, <2>5, <2>6
    <2> QED BY <2>4, <2>7 DEF built, spliced, code
  <1> QED BY <1>2, <1>3

(* The code part that is found in the script of an object, and the object  *)
(* loaded from it.                                                         *)
LEMMA LoadedPart ==
  ASSUME ScriptInv, phase = "loaded"
  PROVE  /\ IsProgram(program) /\ deployed.args \in ArgLists(program.params)
         /\ CodePart(program, script) = buildCodeScript(program, deployed.args)
         /\ loaded.args = restoreConstructorArgs(program, CodePart(program, script))
  <1>1. /\ IsProgram(program) /\ Serializable(program.fields, deployed.state)
        /\ script = getLockingScript(program, deployed) /\ loaded = fromUtxo(program, script)
    BY DEF ScriptInv
  <1>2. PICK args \in ArgLists(program.params) : deployed = NewContract(program, args)
    BY DEF ScriptInv, Constructed
  <1>3. deployed.fromChain = FALSE /\ deployed.args = args  BY <1>1, <1>2, ObjectFacts
  <1>4. fromUtxo(program, script).codeScript = getCodePartHex(program, deployed)
    BY <1>1, <1>2, DeployedRead
  <1>5. CodePart(program, script) = getCodePartHex(program, deployed)
    BY <1>4, LoadedParts
  <1>6. getCodePartHex(program, deployed) = buildCodeScript(program, args)
    BY <1>3, Zenon DEF getCodePartHex
  <1>7. fromUtxo(program, script).args = restoreConstructorArgs(program, CodePart(program, script))
    BY DEF fromUtxo, FromScript
  <1> QED BY <1>1, <1>3, <1>5, <1>6, <1>7

(* The invariant implies RecognizedPlain.                                  *)
LEMMA ScriptInvRecognizes == ScriptInv => RecognizedPlain
  <1> SUFFICES ASSUME ScriptInv, program.artifact.sepSlots = <<>>, ~Appended(program),
                      phase = "loaded"
               PROVE  matchesArtifact(program, script)
    BY DEF RecognizedPlain, Recognized
  <1> DEFINE args == deployed.args
             subs == collectSubstitutions(program.artifact, args)
             code == CodePart(program, script)
  <1>1. IsProgram(program) /\ args \in ArgLists(program.params)
        /\ code = buildCodeScript(program, args)
    BY LoadedPart
  <1> HIDE DEF args, code
  <1>2. code = Splice(program.artifact.bytes, subs)  BY <1>1, PlainBuilt
  <1>3. Fills(program.artifact, args, subs)  BY <1>1, PlainSpliced
  <1>4. PICK R : Spliced(program.artifact.bytes, subs, R, code)  BY <1>1, <1>2, PlainSpliced
  <1>5. MatchesTemplate(program.artifact, code)  BY <1>3, <1>4, WovenMatches
  <1> QED BY <1>5 DEF matchesArtifact, code

(* An artifact recognizes its own scripts, whatever arguments are spliced  *)
(* into them (script-utils.ts matchesArtifact), where no separator's index *)
(* is spliced into the code and no argument is put behind it.              *)
THEOREM RecognizedPlainCorrect == Spec => []RecognizedPlain
  BY ScriptInvHolds, ScriptInvRecognizes, PTL

(* The values of the slots read so far.                                    *)
Got(ctx, args, k) == [x \in {ctx.slots[j].param : j \in 1..k} |-> args[x]]
(* How far the reading is behind k slots.                                  *)
ReadUpTo(ctx, args, subs, R, c, k) ==
  [shift |-> At(c, R, k) - Behind(subs, k), args |-> Got(ctx, args, k)]
(* One slot more.                                                          *)
ReadOne(q, code, read, k) ==
  LET slot == q.artifact.slots[k]
  IN  ReadSlot(read, code, slot.param, q.params[slot.param].type, slot.offset + read.shift,
               Element(code, slot.offset + read.shift))
(* The arguments of the slots are read back where they stand alone.        *)
ReadBackAlone(q, args) ==
  \A j \in DOMAIN q.artifact.slots :
     LET x == q.artifact.slots[j].param
         s == encodeArg(args[x])
     IN  ReadArgument(s, 0, Element(s, 0), q.params[x].type) = args[x]

(* ... as they do in what fills the slots of the artifact.                 *)
Readable(q, ctx, args, subs) ==
  /\ ctx = q.artifact /\ Fills(ctx, args, subs) /\ DOMAIN ctx.slots = 1..Len(subs)
  /\ ReadBackAlone(q, args)

(* One parameter more.                                                     *)
LEMMA GotMore ==
  ASSUME NEW ctx, NEW args, NEW k \in Nat \ {0}, NEW x, x = ctx.slots[k].param,
         NEW got, got = Got(ctx, args, k - 1)
  PROVE  Got(ctx, args, k) = IF x \in DOMAIN got THEN got ELSE WithArgument(got, x, args[x])
  <1> DEFINE A == {ctx.slots[j].param : j \in 1..(k - 1)}
             B == {ctx.slots[j].param : j \in 1..k}
  <1>1. B = A \cup {x}
    <2>1. 1..k = (1..(k - 1)) \cup {k}  OBVIOUS
    <2> QED BY <2>1
  <1>2. got = [y \in A |-> args[y]] /\ Got(ctx, args, k) = [y \in B |-> args[y]]
    BY DEF Got
  <1> HIDE DEF A, B
  <1>3. CASE x \in A
    <2>1. B = A  BY <1>1, <1>3
    <2> QED BY <1>2, <1>3, <2>1
  <1>4. CASE x \notin A
    <2>1. WithArgument(got, x, args[x]) = [y \in A \cup {x} |-> args[y]]
      <3>1. DOMAIN got = A /\ \A y \in A : got[y] = args[y]  BY <1>2
      <3> QED BY <3>1 DEF WithArgument
    <2> QED BY <1>1, <1>2, <1>4, <2>1
  <1> QED BY <1>3, <1>4

(* Where the next slot is, and how it moves those behind it.               *)
LEMMA ShiftMore ==
  ASSUME NEW at \in Nat, NEW behind \in Nat, NEW off \in Nat, NEW g, g = off - behind, NEW b \in Nat
  PROVE  off + (at - behind) = at + g /\ (at - behind) + b - 1 = (at + g + b) - (off + 1)
  OBVIOUS

(* A slot that stands in the code is read.                                 *)
LEMMA SlotRead ==
  ASSUME NEW q, NEW ctx, NEW args, NEW subs, Readable(q, ctx, args, subs), NEW R, NEW c,
         NEW k \in 1..Len(subs), Stands(ctx.bytes, subs, R, c, k)
  PROVE  ReadOne(q, c, ReadUpTo(ctx, args, subs, R, c, k - 1), k)
            = ReadUpTo(ctx, args, subs, R, c, k)
  <1> DEFINE g == Len(Gap(ctx.bytes, subs, k))
             b == subs[k].bytes
             off == subs[k].offset
             at == At(c, R, k - 1)
             behind == Behind(subs, k - 1)
             x == ctx.slots[k].param
             type == q.params[x].type
             e == Element(b, 0)
             got == Got(ctx, args, k - 1)
             read == ReadUpTo(ctx, args, subs, R, c, k - 1)
  <1>0. /\ ctx = q.artifact /\ Fills(ctx, args, subs) /\ DOMAIN ctx.slots = 1..Len(subs)
        /\ ReadBackAlone(q, args)
    BY DEF Readable
  <1>1. off = ctx.slots[k].offset /\ b = encodeArg(args[x]) /\ Len(subs) \in Nat
    BY <1>0 DEF Fills
  <1>2. k \in Nat \ {0}  BY <1>1
  <1>3. /\ at \in Nat /\ behind \in Nat /\ off \in Nat /\ g = off - behind
        /\ Passed(c, at, Gap(ctx.bytes, subs, k), b) /\ OneElement(b) /\ Len(b) \in Nat
        /\ At(c, R, k) = at + g + Len(b)
    BY Zenon DEF Stands
  <1>4. /\ Element(c, at + g) = e /\ ElementData(c, at + g, e) = ElementData(b, 0, e)
        /\ e.length = Len(b)
    BY <1>3, Zenon DEF Passed, OneElement
  <1>5. ReadArgument(b, 0, e, type) = args[x]
    <2>1. k \in DOMAIN q.artifact.slots  BY <1>0
    <2> QED BY <1>0, <1>1, <2>1 DEF ReadBackAlone
  <1>6. ReadArgument(c, at + g, e, type) = args[x]
    <2> HIDE DEF b, e, type, at, g
    <2> QED BY <1>4, <1>5 DEF ReadArgument
  <1>7. Behind(subs, k) = off + 1  BY <1>2 DEF Behind
  <1>8. read.shift = at - behind /\ read.args = got  BY DEF ReadUpTo
  <1>9. Got(ctx, args, k) = IF x \in DOMAIN got THEN got ELSE WithArgument(got, x, args[x])
    <2> HIDE DEF got, x
    <2> QED BY <1>2, GotMore DEF got, x
  <1>10. off + (at - behind) = at + g
         /\ (at - behind) + Len(b) - 1 = (at + g + Len(b)) - (off + 1)
    <2> HIDE DEF at, behind, off, g, b
    <2> QED BY <1>3, ShiftMore
  <1>11. ReadOne(q, c, read, k)
           = ReadSlot(read, c, x, type, off + read.shift, Element(c, off + read.shift))
    BY <1>0, <1>1, Zenon DEF ReadOne
  <1> HIDE DEF g, b, off, at, behind, x, type, e, got, read
  <1>12. ReadOne(q, c, read, k) = ReadSlot(read, c, x, type, at + g, e)
    BY <1>4, <1>8, <1>10, <1>11
  <1>13. ReadSlot(read, c, x, type, at + g, e)
           = [shift |-> (at - behind) + Len(b) - 1,
              args |-> IF x \in DOMAIN got THEN got ELSE WithArgument(got, x, args[x])]
    <2>1. ReadSlot(read, c, x, type, at + g, e)
            = [shift |-> read.shift + e.length - 1,
               args |-> IF x \in DOMAIN read.args THEN read.args
                        ELSE WithArgument(read.args, x, ReadArgument(c, at + g, e, type))]
      BY Zenon DEF ReadSlot
    <2> QED BY <1>4, <1>6, <1>8, <2>1
  <1>14. ReadUpTo(ctx, args, subs, R, c, k)
           = [shift |-> (at + g + Len(b)) - (off + 1), args |-> Got(ctx, args, k)]
    BY <1>3, <1>7 DEF ReadUpTo
  <1> QED BY <1>9, <1>10, <1>12, <1>13, <1>14 DEF read

(* The arguments are read back from code woven from them.                  *)
LEMMA WovenReads ==
  ASSUME NEW q, NEW ctx, NEW args, NEW subs, Readable(q, ctx, args, subs), NEW R, NEW c,
         Spliced(ctx.bytes, subs, R, c)
  PROVE  extractConstructorArgs(q, c) = Got(ctx, args, Len(ctx.slots))
  <1> DEFINE m == Len(ctx.slots)
             start == [shift |-> 0, args |-> [x \in {} |-> 0]]
             body(k, g) == IF k = 0 THEN start ELSE ReadOne(q, c, g[k - 1], k)
             after == CHOOSE g : g = [k \in 0..m |-> body(k, g)]
             S(k) == ReadUpTo(ctx, args, subs, R, c, k)
             F == [k \in 0..m |-> S(k)]
  <1>0. ctx = q.artifact /\ Fills(ctx, args, subs)  BY DEF Readable
  <1>1. m \in Nat /\ m = Len(subs)  BY <1>0 DEF Fills
  <1>2. extractConstructorArgs(q, c) = after[m].args
    BY <1>0, Zenon DEF extractConstructorArgs, ReadOne
  <1>3. \A k \in 1..m : ReadOne(q, c, S(k - 1), k) = S(k)
    <2> TAKE k \in 1..m
    <2>1. k \in 1..Len(subs)  BY <1>1
    <2>2. Stands(ctx.bytes, subs, R, c, k)  BY <2>1, SlotStands
    <2> QED BY <2>1, <2>2, SlotRead
  <1>4. S(0) = start
    <2>1. At(c, R, 0) = 0 /\ Behind(subs, 0) = 0  BY EndsAlike DEF Ends
    <2>2. Got(ctx, args, 0) = [x \in {} |-> 0]
      <3>1. {ctx.slots[j].param : j \in 1..0} = {}  OBVIOUS
      <3>2. Got(ctx, args, 0) = [x \in {} |-> args[x]]  BY <3>1 DEF Got
      <3>3. [x \in {} |-> args[x]] = [x \in {} |-> 0]  OBVIOUS
      <3> QED BY <3>2, <3>3
    <2> QED BY <2>1, <2>2 DEF ReadUpTo
  <1> HIDE DEF m, start, S
  <1>5. \A k \in 0..m : k # 0 => k - 1 \in 0..m /\ k \in 1..m  BY <1>1
  <1>6. F = [k \in 0..m |-> body(k, F)]
    <2>1. \A k \in 0..m : F[k] = body(k, F)
      <3> TAKE k \in 0..m
      <3>1. F[k] = S(k)  OBVIOUS
      <3>2. CASE k = 0  BY <1>4, <3>1, <3>2
      <3>3. CASE k # 0
        <4>1. F[k - 1] = S(k - 1)  BY <1>5, <3>3
        <4> HIDE DEF F
        <4> QED BY <1>3, <1>5, <3>1, <3>3, <4>1
      <3> QED BY <3>2, <3>3
    <2>2. F = [k \in 0..m |-> F[k]]  OBVIOUS
    <2> HIDE DEF F, body
    <2> QED BY <2>1, <2>2
  <1> HIDE DEF F
  <1>7. after = [k \in 0..m |-> body(k, after)]  BY <1>6
  <1> HIDE DEF after
  <1> DEFINE P == {k \in 0..m : after[k] = S(k)}
  <1>8. 0 \in P  BY <1>1, <1>4, <1>7
  <1>9. ASSUME NEW k \in P, k \in 0..(m - 1) PROVE k + 1 \in P
    <2>1. k + 1 \in 0..m /\ k + 1 \in 1..m /\ k + 1 # 0 /\ (k + 1) - 1 = k  BY <1>1, <1>9
    <2>2. after[k + 1] = ReadOne(q, c, after[k], k + 1)  BY <1>7, <2>1
    <2>3. after[k] = S(k)  BY <1>9
    <2>4. ReadOne(q, c, S(k), k + 1) = S(k + 1)  BY <1>3, <2>1
    <2> QED BY <2>1, <2>2, <2>3, <2>4
  <1>10. \A k \in P : k \in 0..(m - 1) => k + 1 \in P  BY <1>9
  <1> HIDE DEF P
  <1>11. 0..m \subseteq P  BY <1>1, <1>8, <1>10, UpTo
  <1>12. after[m] = S(m)
    <2>1. m \in 0..m  BY <1>1
    <2> QED BY <1>11, <2>1 DEF P
  <1>13. S(m).args = Got(ctx, args, m)  BY DEF S, ReadUpTo
  <1> QED BY <1>2, <1>12, <1>13 DEF m

(* The invariant implies ArgsRestoredPlain.                                *)
LEMMA ScriptInvRestoresArgs == ScriptInv => ArgsRestoredPlain
  <1> DEFINE ctx == program.artifact
             args == deployed.args
             subs == collectSubstitutions(ctx, args)
             code == CodePart(program, script)
  <1> SUFFICES ASSUME ScriptInv, program.artifact.sepSlots = <<>>,
                      \A k \in Slotted(program) : ReadsBack(deployed.args[k]),
                      phase = "loaded", NEW x \in Slotted(program)
               PROVE  loaded.args[x] = deployed.args[x]
    BY Zenon DEF ArgsRestoredPlain, ArgsRestored
  <1>1. /\ IsProgram(program) /\ args \in ArgLists(program.params)
        /\ code = buildCodeScript(program, args)
        /\ loaded.args = restoreConstructorArgs(program, code)
    BY LoadedPart
  <1>2. PICK i \in DOMAIN ctx.slots : x = ctx.slots[i].param  BY DEF Slotted
  <1>3. GoodArgs(program.params, args)
        /\ ctx.slots \in Seq([param : DOMAIN program.params, offset : Nat])
    <2> HIDE DEF args
    <2>1. GoodArgs(program.params, args) /\ Template(program.params, ctx)  BY <1>1, ProgramFacts
    <2> QED BY <2>1 DEF Template, Emitted
  <1>4. \A j \in DOMAIN ctx.slots : ctx.slots[j].param \in DOMAIN program.params
    <2> DEFINE slots == ctx.slots
               Slots == [param : DOMAIN program.params, offset : Nat]
    <2>1. slots \in Seq(Slots)  BY <1>3
    <2>2. \A s \in Slots : s.param \in DOMAIN program.params  OBVIOUS
    <2> HIDE DEF slots, Slots
    <2>3. \A j \in DOMAIN slots : slots[j] \in Slots  BY <2>1
    <2>4. \A j \in DOMAIN slots : slots[j].param \in DOMAIN program.params  BY <2>2, <2>3
    <2> QED BY <2>4 DEF slots
  <1>5. ~Appended(program)  BY <1>2 DEF Appended
  <1>6. ReadBackAlone(program, args)
    <2> SUFFICES ASSUME NEW j \in DOMAIN ctx.slots
                 PROVE  LET y == ctx.slots[j].param
                            s == encodeArg(args[y])
                        IN  ReadArgument(s, 0, Element(s, 0), program.params[y].type) = args[y]
      BY Zenon DEF ReadBackAlone
    <2> DEFINE y == ctx.slots[j].param
               value == args[y]
    <2>1. HasType(value, program.params[y].type)  BY <1>3, <1>4 DEF GoodArgs
    <2>2. ReadsBack(value)  BY DEF Slotted
    <2> HIDE DEF value
    <2>3. ReadArgument(encodeArg(value), 0, Element(encodeArg(value), 0), program.params[y].type)
             = value
      BY <2>1, <2>2, ArgRead
    <2> QED BY <2>3 DEF value
  <1>7. Fills(ctx, args, subs) /\ code = Splice(ctx.bytes, subs)
    BY <1>1, <1>5, PlainSpliced, PlainBuilt
  <1>8. PICK R : Spliced(ctx.bytes, subs, R, code)  BY <1>1, <1>7, PlainSpliced
  <1>9. DOMAIN ctx.slots = 1..Len(subs) /\ DOMAIN ctx.slots = 1..Len(ctx.slots)
    <2> DEFINE slots == ctx.slots
    <2>1. slots \in Seq([param : DOMAIN program.params, offset : Nat])
      BY <1>3
    <2> HIDE DEF slots
    <2>2. DOMAIN slots = 1..Len(slots)  BY <2>1
    <2> QED BY <1>7, <2>2 DEF Fills, slots
  <1> HIDE DEF subs, args, code
  <1>10. extractConstructorArgs(program, code) = Got(ctx, args, Len(ctx.slots))
    <2>1. Readable(program, ctx, args, subs)  BY <1>6, <1>7, <1>9 DEF Readable
    <2> QED BY <1>8, <2>1, WovenReads
  <1>11. x \in DOMAIN Got(ctx, args, Len(ctx.slots)) /\ Got(ctx, args, Len(ctx.slots))[x] = args[x]
    BY <1>2, <1>9 DEF Got
  <1>12. x \in DOMAIN program.params  BY <1>2, <1>4
  <1>13. loaded.args[x] = args[x]
    <2> DEFINE got == extractConstructorArgs(program, code)
    <2>1. x \in DOMAIN got /\ got[x] = args[x]  BY <1>10, <1>11
    <2>2. loaded.args = Restored(program.params, got)  BY <1>1 DEF restoreConstructorArgs
    <2> HIDE DEF got
    <2> QED BY <1>12, <2>1, <2>2 DEF Restored
  <1> QED BY <1>13 DEF args

(* The arguments that were spliced into a script are read back from it     *)
(* (script-utils.ts extractConstructorArgs, contract.ts fromUtxo), where   *)
(* no separator's index is spliced into the code and no argument is a      *)
(* boolean or a number larger than the model reads.                        *)
THEOREM ArgsRestoredPlainCorrect == Spec => []ArgsRestoredPlain
  BY ScriptInvHolds, ScriptInvRestoresArgs, PTL

=============================================================================
