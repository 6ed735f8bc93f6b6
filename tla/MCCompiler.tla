------------------------------ MODULE MCCompiler ------------------------------
EXTENDS Compiler

CONSTANT Pool   \* which family of contracts is compiled

Prop(p, readonly) == [name |-> p, readonly |-> readonly, initial |-> <<>>]
Method(name, public, params, body) ==
    [name |-> name, public |-> public, params |-> params, body |-> body]
Stateless(props, methods) == [stateful |-> FALSE, properties |-> props, methods |-> methods]
Stateful(props, methods) == [stateful |-> TRUE, properties |-> props, methods |-> methods]

Seqs(S, n) == UNION {[1..k -> S] : k \in 0..n}
a == Id("a")
b == Id("b")
x == Id("x")
y == Id("y")
Plus(l, r) == Bin(l, "+", r)
Times(l, r) == Bin(l, "*", r)
Minus(l, r) == Bin(l, "-", r)
Less(l, r) == Bin(l, "<", r)
Eq(l, r) == Bin(l, "===", r)

Both == {[fold |-> f, peephole |-> p] : f \in BOOLEAN, p \in BOOLEAN}
AllOn == {[fold |-> TRUE, peephole |-> TRUE]}

\* x and y start as parameters plus constants and the statements in the middle
\* change them.  Whatever those leave, about two spends in three pass the last
\* assertion, which tells x from y and a value from its neighbours.
Last == AssertThat(Bin(Bin(Plus(x, Times(y, Lit(2))), "%", Lit(3)), "!==", Lit(1)))
Unlock(mid) ==
    Stateless(<<>>, <<Method("unlock", TRUE, <<"a", "b">>,
        <<Let("x", a), Let("y", Plus(b, Lit(1)))>> \o mid
        \o <<AssertThat(Less(x, Plus(y, Lit(8)))), Last>>)>>)

\* Arms that rebind nothing, x, y, or both in the order they were declared in.
Checks == {<<>>, <<AssertThat(Less(y, x))>>}
ArmsX == {<<Assign(x, Plus(x, y))>>, <<AssertThat(Less(a, Lit(2))), Assign(x, Lit(2))>>}
ArmsY == {<<Assign(y, x)>>, <<Let("z", Times(y, y)), Assign(y, Plus(Id("z"), b))>>}
ArmsXY == {<<Assign(x, Lit(2)), Assign(y, Plus(x, b))>>}
IfXLessB(t, e) == If(Less(x, b), t, e)
Conditionals(then, else) == {IfXLessB(t, e) : t \in then, e \in else}

Straight == {Assign(x, Plus(y, x)), Assign(y, Times(x, Lit(2))), AssertThat(Less(a, x))}
\* Conditionals with at most one local to merge.
MergeOne == Conditionals(ArmsX, Checks \cup ArmsX) \cup Conditionals(ArmsY, Checks \cup ArmsY)
            \cup Conditionals(Checks \ {<<>>}, Checks \cup ArmsX \cup ArmsY)
\* Conditionals that merge both.
MergeBoth == Conditionals(ArmsXY, Checks \cup ArmsX \cup ArmsY \cup ArmsXY)
             \cup Conditionals(ArmsX, ArmsY \cup ArmsXY)
             \cup Conditionals(Checks \ {<<>>}, ArmsXY)
BranchContracts ==
    {Unlock(s) : s \in Seqs(Straight \cup MergeOne, 2)}
    \cup {Unlock(<<both>> \o s) : both \in MergeBoth, s \in Seqs(Straight \cup MergeOne, 1)}
    \cup {Unlock(<<p, q>>) : p \in MergeBoth, q \in MergeBoth}

\* ---- conditionals in the arms of conditionals -----------------------------------
\* The inner one merges one local; the outer one, without an else, leaves what it
\* inherited where it was.
Inner == Conditionals(ArmsX, (Checks \ {<<>>}) \cup ArmsX)
Reads(v) == AssertThat(Less(v, Plus(a, Lit(4))))
NestedContracts ==
    {Unlock(<<If(Less(y, Lit(3)), pre \o <<i>> \o post, e)>>) :
        pre \in {<<>>, <<Let("w", Plus(y, a))>>},
        i \in Inner, post \in {<<>>, <<Reads(y)>>, <<Assign(x, Plus(x, y))>>},
        e \in {<<>>, <<Assign(x, y)>>, <<Reads(x)>>}}
    \cup {Unlock(<<If(Less(y, Lit(3)), <<i>>, <<j>>)>>) : i \in Inner, j \in Inner}
    \* the conditional is what the method ends with
    \cup {Stateless(<<>>, <<Method("unlock", TRUE, <<"a", "b">>,
             <<Let("x", a), Let("y", Plus(b, Lit(1))), p,
               If(Less(y, x), <<q, Reads(Plus(x, y))>>, <<AssertThat(Eq(x, b))>>)>>)>>) :
             p \in Inner, q \in Inner}

\* ---- loops ------------------------------------------------------------------------
n == Id("n")
Bodies == {<<Assign(x, Plus(x, n))>>, <<Assign(x, Plus(x, y))>>,
           <<Assign(x, Plus(x, n)), Assign(y, Plus(y, x))>>,
           <<Let("t", Plus(x, b)), Assign(x, Minus(Id("t"), n))>>,
           <<AssertThat(Less(x, Plus(a, Lit(3))))>>,
           <<IfXLessB(<<Assign(x, Plus(x, y))>>, <<>>), Assign(y, Plus(y, x))>>,
           <<IfXLessB(<<Assign(x, Plus(x, n))>>, <<Assign(x, Minus(y, x))>>)>>,
           <<IfXLessB(<<Assign(x, Plus(x, y)), Assign(y, x)>>, <<>>)>>,
           <<For("m", 0, "<", 2, TRUE, <<Assign(x, Plus(x, Id("m"))), Assign(y, Plus(y, x))>>)>>}
Ranges == {<<0, "<", 0>>, <<0, "<", 1>>, <<0, "<", 3>>, <<1, "<=", 2>>}
Loops == {For("n", r[1], r[2], r[3], TRUE, body) : r \in Ranges, body \in Bodies}
         \cup {For("n", 2, ">", 0, FALSE, body) : body \in Bodies}
LoopContracts == {Unlock(<<l>>) : l \in Loops}
    \cup {Unlock(<<l, p>>) : l \in Loops, p \in Straight}
    \cup {Unlock(<<If(Less(y, Lit(3)), <<l>>, e)>>) :
             l \in {For("n", 0, "<", 2, TRUE, <<body>>) :
                      body \in {AssertThat(Less(x, Plus(y, n))), Let("t", Plus(x, n))}},
             e \in {<<>>, <<Assign(x, y)>>}}

\* ---- private methods and several public ones ------------------------------------------
p == Id("p")
Callees == {Method("helper", FALSE, <<"p">>, body) : body \in
              {<<Return(Plus(p, Lit(1)))>>,
               <<AssertThat(Less(p, Lit(3))), Return(Times(p, p))>>,
               <<Let("q", Plus(p, p)), Return(Minus(Id("q"), Lit(1)))>>,
               <<If(Less(p, Lit(1)), <<Return(Lit(5))>>, <<>>), Return(p)>>,
               <<Let("q", p), If(Less(p, Lit(1)), <<Assign(Id("q"), Lit(2))>>,
                                 <<Assign(Id("q"), Plus(p, Lit(1)))>>), Return(Id("q"))>>}}
\* A parameter with the name of one of the caller's locals.
Shadowing == Method("helper", FALSE, <<"x">>, <<Return(Plus(x, x))>>)
Help(e) == ThisCall("helper", <<e>>)
TopCalls == {<<Assign(x, Help(y))>>, <<Assign(x, Plus(Help(x), y))>>,
             <<Assign(y, Help(Plus(Help(x), b)))>>, <<Do(Help(y))>>}
ArmCalls == {<<IfXLessB(<<Assign(x, Help(x))>>, <<Assign(x, Plus(Help(y), x))>>)>>,
             <<IfXLessB(<<Do(Help(a))>>, <<>>)>>}
LoopCalls == {<<For("n", 0, "<", 2, TRUE, <<Assign(x, Plus(x, Help(n)))>>)>>}
HelperCalls == TopCalls \cup ArmCalls \cup LoopCalls
Helped(use, callee) ==
    Stateless(<<>>, <<Method("unlock", TRUE, <<"a", "b">>,
        <<Let("x", a), Let("y", Plus(b, Lit(1)))>> \o use \o <<Last>>), callee>>)
MethodContracts ==
    {Helped(use, callee) : use \in HelperCalls, callee \in Callees}
    \cup {Helped(use, Shadowing) : use \in TopCalls \cup LoopCalls}
    \cup {Stateless(<<Prop("s", TRUE)>>,
            <<Method("first", TRUE, <<"a", "b">>,
                <<Let("x", a), Let("y", This("s"))>> \o use \o <<Last>>),
              Method("second", TRUE, <<"a">>, <<AssertThat(Less(This("s"), a))>>)>>
            \o third \o <<callee>>) :
            use \in HelperCalls, callee \in Callees,
            third \in {<<>>, <<Method("third", TRUE, <<"a", "b">>,
                                 <<AssertThat(Eq(Help(a), b))>>)>>}}

\* ---- state ------------------------------------------------------------------------------
s == This("s")
u == This("u")
Counter(body) ==
    Stateful(<<Prop("s", FALSE), Prop("u", FALSE)>>, <<Method("step", TRUE, <<"a">>, body)>>)
Writes == {<<Assign(s, Plus(s, a))>>, <<Assign(u, s)>>, <<Do(Inc(s, FALSE))>>,
           <<Assign(s, u), Assign(u, a)>>}
ChainWrites == {Assign(s, a), Assign(u, Plus(s, a)), Assign(s, u)}
StateArms == Writes \cup {<<AssertThat(Less(s, a))>>}
\* Private methods that write the state, at top level, in arms and in loops.
Writers == {Method("write", FALSE, <<"p">>, body) : body \in
              {<<Assign(s, Plus(s, p))>>, <<Assign(u, s), Assign(s, p)>>,
               <<AssertThat(Less(p, Lit(3))), Do(Inc(u, FALSE))>>,
               <<Assign(s, Plus(s, p)), Return(Plus(s, u))>>}}
Write(e) == Do(ThisCall("write", <<e>>))
WriteCalls == {<<Write(a)>>, <<Write(Plus(a, u)), Assign(u, Plus(u, s))>>,
               <<Assign(s, a), Write(Lit(1)), Write(s)>>}
ArmWrites == {<<If(Less(a, u), <<Write(a)>>, <<>>), Assign(u, Plus(u, s))>>,
              <<For("n", 0, "<", 2, TRUE, <<Write(Plus(n, a))>>), Assign(u, Plus(u, s))>>}
Written(use, writer) ==
    Stateful(<<Prop("s", FALSE), Prop("u", FALSE)>>,
             <<Method("step", TRUE, <<"a">>, use), writer>>)
WriterContracts == {Written(use, w) : use \in WriteCalls \cup ArmWrites, w \in Writers}

\* A method that changes no state ends with an assertion on every path.
EndsWell(c) == \/ StmtsMutate(c.methods[1].body, c)
               \/ LET last == LastOf(c.methods[1].body)
                  IN  last.kind = "if_statement" => last.else # <<>>
StatePool ==
    {Counter(w \o v) : w \in Writes, v \in Writes \cup {<<>>}}
    \cup {Counter(<<If(Less(a, u), t, e)>> \o w) :
            t \in StateArms, e \in StateArms \cup {<<>>}, w \in {<<>>, <<Assign(s, Plus(s, u))>>}}
    \cup {Counter(<<Let("x", s), For("n", 0, "<", 2, TRUE, w), AssertThat(Less(x, Lit(2)))>>) :
            w \in Writes}
    \cup {Counter(<<AssertThat(Less(s, a))>>)}
    \* an else-if chain whose every arm ends in a write is flattened
    \cup {Counter(pre \o <<If(Less(a, u), <<v>>, <<If(Eq(a, s), <<w>>, last)>>)>>) :
            pre \in {<<>>, <<Assign(u, Plus(u, Lit(1)))>>},
            v \in ChainWrites, w \in ChainWrites,
            last \in {<<Assign(s, Minus(u, s))>>, <<AssertThat(BoolLit(FALSE))>>,
                     <<If(Less(s, u), <<Assign(u, a)>>, <<Assign(s, Lit(1))>>)>>}}
StateContracts == {c \in StatePool : EndsWell(c)} \cup WriterContracts

\* ---- expressions ------------------------------------------------------------------------
Leaves == {a, Lit(0), Lit(2)}
Arithmetic == {Bin(l, op, r) : l \in Leaves, r \in Leaves, op \in {"+", "-", "*", "/", "%"}}
Chained == {Bin(Bin(a, o1, Lit(k)), o2, Lit(m)) :
               o1 \in {"+", "-"}, o2 \in {"+", "-"}, k \in {0, 1, 3}, m \in {0, 1, 3}}
Built == {Call("min", <<a, Lit(1)>>), Call("max", <<Lit(2), b>>), Call("abs", <<Minus(a, b)>>),
          Call("abs", <<Lit(2)>>), Call("min", <<Lit(2), Lit(1)>>),
          Un("-", Un("-", a)), Un("-", Lit(2)), Minus(Lit(0), Un("-", Lit(1))),
          Tern(Less(a, b), Plus(a, b), Lit(2)), Tern(BoolLit(TRUE), b, a)}
Small == Less(a, Lit(2))
Tests == {Un("!", Small), Un("!", Un("!", Small)), Eq(a, Lit(0)),
          Bin(a, "!==", b), Bin(a, ">=", Lit(1)), Bin(Lit(2), ">", Lit(1)),
          Bin(Small, "&&", Bin(b, "<=", a)), Bin(BoolLit(FALSE), "||", Small),
          Bin(BoolLit(TRUE), "&&", Un("!", BoolLit(FALSE))),
          Call("within", <<a, Lit(1), b>>), Un("!", Eq(a, b))}
Holds(e, test) ==
    Stateless(<<>>, <<Method("unlock", TRUE, <<"a", "b">>,
        <<Let("x", e), Let("c", test), AssertThat(Bin(x, "<=", Plus(b, Lit(1)))),
          AssertThat(Bin(Id("c"), "||", Eq(x, a)))>>)>>)
ExpressionContracts ==
    {Holds(e, Eq(a, Lit(0))) : e \in Arithmetic \cup Chained}
    \cup {Holds(e, test) : e \in Built, test \in Tests}

\* ---- points of the curve ------------------------------------------------------------------
g == Call("ecMulGen", <<Lit(1)>>)
Gen(e) == Call("ecMulGen", <<e>>)
Mul(q, k) == Call("ecMul", <<q, k>>)
Add(q, r) == Call("ecAdd", <<q, r>>)
Neg(q) == Call("ecNegate", <<q>>)
Scalars == {Lit(0), Lit(1), Lit(3), b}
Points == {a, Gen(Lit(0)), Gen(Lit(1)), Gen(Lit(5)), Gen(b), Neg(a)}
          \cup {Mul(a, k) : k \in Scalars}
Curved == {Add(q, r) : q \in Points, r \in Points} \cup {Mul(q, k) : q \in Points, k \in Scalars}
          \cup {Neg(q) : q \in Points}
          \cup {Mul(Mul(a, Lit(3)), Lit(4)), Add(Mul(a, Lit(5)), Mul(a, Lit(2))),
                Mul(Mul(a, Un("-", Lit(3))), Lit(4)), Add(Mul(a, Un("-", Lit(5))), Mul(a, Lit(2)))}
CurveContracts ==
    {Stateless(<<>>, <<Method("unlock", TRUE, <<"a", "b">>,
        <<Let("x", q), Let("y", Times(b, Lit(2))),
          AssertThat(Eq(Add(x, a), Mul(a, b))), AssertThat(Less(y, Lit(4)))>>)>>) : q \in Curved}

StatelessContracts == BranchContracts \cup NestedContracts \cup LoopContracts
                      \cup MethodContracts \cup ExpressionContracts \cup CurveContracts

MCContracts == CASE Pool = "stateless" -> StatelessContracts
                 [] Pool = "stateful" -> StateContracts
=============================================================================
