---------------------------- MODULE MCMiscompiled ----------------------------
(***************************************************************************)
(* Contracts on which the compiler departs from what its documents and     *)
(* comments say of it, one family for each departure.  The pools of        *)
(* MCCompiler keep clear of them.                                          *)
(***************************************************************************)
EXTENDS MCCompiler

\* A local rebound at top level in front of a conditional that merges it with
\* another: the slot of its first value is still on the stack.
Rebound == {Unlock(<<Assign(y, Times(x, Lit(2))), q>>) : q \in MergeBoth}

\* The same two locals merged in the reverse of their order, with nothing under
\* them on the stack.
Reversed ==
    {Stateless(<<>>, <<Method("unlock", TRUE, <<"a", "b">>,
        <<Let("x", a), Let("y", Plus(b, Lit(1))),
          If(Less(x, Lit(1)), <<Assign(y, x)>>, <<Assign(x, Plus(x, y))>>),
          AssertThat(Less(x, y))>>)>>)}

\* An arm with a conditional, without an else, that rebinds an outer local.
NestedIf ==
    {Unlock(<<If(Less(y, Lit(3)), <<IfXLessB(arm, <<>>)>>, e)>>) :
        arm \in ArmsX, e \in {<<>>, <<Reads(x)>>}}

\* A loop whose body rebinds an outer local on a condition and does not read it
\* again.
LoopConditional == {Unlock(<<For("n", 0, "<", k, TRUE, <<IfXLessB(<<Assign(x, Plus(x, y))>>,
                                                               <<>>)>>)>>) : k \in 1..2}

\* A loop that sets an outer local before it reads it.
Overwritten ==
    {Unlock(<<For("n", 0, "<", 2, TRUE, <<Assign(x, Times(n, y)), Assign(y, Plus(y, x))>>)>>)}

\* A private method, called in an arm, whose parameter has the name of one of the
\* caller's locals.
ShadowedInArm == {Helped(use, Shadowing) : use \in ArmCalls}

\* A method of a stateful contract that changes no state and does not end with
\* an assertion.
ReadOnlyTail == StatePool \ StateContracts

\* A flattened chain that writes a local, not an expression.
ChainOfLocals ==
    {Counter(<<Let("x", Plus(a, Lit(1))),
               If(Less(a, u), <<Assign(s, x)>>, <<Assign(s, Lit(0))>>)>>)}

\* A flattened chain whose second condition divides by what the first excludes.
GuardedDivision ==
    {Counter(<<If(Eq(s, Lit(0)), <<Assign(u, a)>>,
                  <<If(Less(Bin(a, "/", s), Lit(2)), <<Assign(u, Lit(1))>>,
                       <<Assign(u, Lit(0))>>)>>)>>)}

\* A conditional expression one of whose values is a local.
TernaryOfLocals == {Unlock(<<Let("z", Tern(Less(a, b), x, y)), Assign(x, Plus(x, Id("z")))>>)}

\* The old value of a local, taken by x++.
Postfix == {Unlock(<<Assign(y, Inc(x, FALSE))>>)}

\* A conditional with an assertion, beside a curve operation that simplifies.
DeadConditional ==
    {Stateless(<<>>, <<Method("unlock", TRUE, <<"a", "b">>,
        <<If(Less(b, Lit(1)), <<AssertThat(BoolLit(FALSE))>>, <<>>),
          AssertThat(Eq(Mul(a, Lit(1)), Gen(b)))>>)>>)}

\* A parameter with the name of a property that the method also reads.
ShadowedProperty ==
    {Stateful(<<Prop("s", FALSE), Prop("u", FALSE)>>,
              <<Method("step", TRUE, <<"s", "a">>, body)>>) : body \in
        {<<Assign(s, Plus(s, Id("s")))>>, <<Assign(s, Id("s"))>>,
         <<Assign(u, Plus(s, a)), Assign(s, Id("s"))>>,
         <<Assign(s, a), Assign(u, Id("s"))>>}}

\* The same, the parameter read in an arm.
ShadowedInConditional ==
    {Stateful(<<Prop("s", FALSE), Prop("u", FALSE)>>,
              <<Method("step", TRUE, <<"s", "a">>,
                  <<If(Less(s, a), <<Assign(s, Id("s"))>>, <<AssertThat(Less(s, Lit(3)))>>)>>)>>)}

\* A private method, called in an arm, that writes another property than the other
\* arm does.
HelperInConditional ==
    {Written(<<If(Less(a, u), <<Write(a)>>, <<Assign(s, a)>>), Assign(u, Plus(u, s))>>,
             Method("write", FALSE, <<"p">>, <<Assign(u, s), Assign(s, p)>>))}

\* A private method whose temporaries have the names of its caller's.
HelperTemporaries ==
    {Written(<<Write(a)>>, Method("write", FALSE, <<"p">>,
        <<If(Less(s, p), <<Assign(u, p)>>, <<Assign(s, Lit(0))>>)>>))}

\* A boolean asserted twice.
AssertedTwice ==
    {Stateless(<<>>, <<Method("unlock", TRUE, <<"c">>,
        <<AssertThat(Id("c")), AssertThat(Id("c"))>>)>>)}

\* A right operand the evaluator does not reach.
ShortCircuit ==
    {Stateless(<<>>, <<Method("unlock", TRUE, <<"a", "b">>,
        <<AssertThat(Bin(Eq(b, Lit(0)), "||", Less(Bin(a, "/", b), Lit(1))))>>)>>)}

MCMiscompiledContracts ==
    CASE Pool = "rebound" -> Rebound
      [] Pool = "reversed" -> Reversed
      [] Pool = "nested_if" -> NestedIf
      [] Pool = "loop_conditional" -> LoopConditional
      [] Pool = "overwritten" -> Overwritten
      [] Pool = "shadowed" -> ShadowedInArm
      [] Pool = "read_only_tail" -> ReadOnlyTail
      [] Pool = "chain_of_locals" -> ChainOfLocals
      [] Pool = "guarded_division" -> GuardedDivision
      [] Pool = "ternary" -> TernaryOfLocals
      [] Pool = "postfix" -> Postfix
      [] Pool = "dead_conditional" -> DeadConditional
      [] Pool = "shadowed_property" -> ShadowedProperty
      [] Pool = "shadowed_in_conditional" -> ShadowedInConditional
      [] Pool = "helper_in_conditional" -> HelperInConditional
      [] Pool = "helper_temporaries" -> HelperTemporaries
      [] Pool = "asserted_twice" -> AssertedTwice
      [] Pool = "short_circuit" -> ShortCircuit
=============================================================================
