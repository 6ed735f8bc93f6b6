--------------------------- MODULE MCContractScript ---------------------------
EXTENDS ContractScript

CONSTANT Pool   \* which family of contracts is deployed

\* Data full of bytes that are OP_RETURN and OP_CODESEPARATOR outside a push.
Bytes(n) == Data(<<>> \o [i \in 1..n |-> IF i % 2 = 1 THEN OP_RETURN ELSE OP_CODESEPARATOR])
MCArgs(type) ==
    CASE type = "bigint" -> {Int_(n) : n \in {-32768, -32767, -128, -1, 0, 16, 17, 127, 128, 32767}}
      [] type = "ByteString" -> {Data(<<>>), Data(<<0>>), Data(<<5>>), Data(<<129>>),
                                 Bytes(2), Bytes(75), Bytes(76), Bytes(256)}
      [] type = "Addr" -> {Bytes(20)}
      [] type = "boolean" -> {Bool(TRUE), Bool(FALSE)}

Param(name, type) == [name |-> name, type |-> type]
Field(name, type) == [name |-> name, type |-> type, initial |-> <<>>]
Program(stateful, params, fields, methods) ==
    [stateful |-> stateful, params |-> params, fields |-> fields, methods |-> methods]

\* Code that takes space: a push of n bytes, dropped.
Code(n) == <<PushOp(Bytes(n)), Op(117)>>
Sep == Op(OP_CODESEPARATOR)

\* Contracts without state: the arguments are in the code, twice where they are used
\* twice.
Plain(t, u) ==
    {Program(FALSE, <<Param("p", t), Param("q", u)>>, <<>>, methods) :
        methods \in {<< <<PlaceholderOp(1)>> \o Code(9) \o <<PlaceholderOp(1), PlaceholderOp(2)>> >>,
                     << <<PlaceholderOp(2), Sep, PlaceholderOp(1)>> \o Code(9) >>,
                     << <<PlaceholderOp(2)>>, <<PlaceholderOp(1), Sep>> >>}}
\* Fixed state: the section has no lengths in it.
Fixed(t) ==
    {Program(TRUE, <<Param("p", t), Param("n", "bigint"), Param("flag", "boolean"), Param("who", "Addr")>>,
             <<Field("n", "bigint"), Field("flag", "boolean"), Field("who", "Addr")>>, methods) :
        methods \in {<< <<Sep, PlaceholderOp(1)>> \o Code(4) >>,
                     << <<Sep>> \o Code(4) \o <<PlaceholderOp(1)>>,
                        <<Sep, PlaceholderOp(1)>>, <<Sep>> >>}}
\* State of variable length: each method pushes where its separator is.
Rebuild == <<Sep, PushCodesepIndexOp>>
Variable(size) ==
    {Program(TRUE, <<Param("s", "ByteString"), Param("n", "bigint")>>,
             <<Field("s", "ByteString"), Field("n", "bigint")>>, methods) :
        methods \in {<< Rebuild \o Code(4) >>, << Rebuild \o Code(size), Rebuild, Rebuild >>}}
\* ... with an argument in the code behind the push.
VariableWithArgument ==
    {Program(TRUE, <<Param("p", t), Param("s", "ByteString")>>, <<Field("s", "ByteString")>>,
             << Rebuild \o Code(9), Rebuild \o <<PlaceholderOp(1)>> \o Code(size), Rebuild >>) :
        t \in {"bigint", "ByteString"}, size \in {2, 90}}
\* Covenants without state, one separator in each of two methods.
Covenants == {Program(FALSE, <<>>, <<>>, << <<Sep>> \o Code(2), <<Sep>> \o Code(2) >>)}
\* An argument that no method uses.
Unused == {Program(FALSE, <<Param("p", "bigint")>>, <<>>, << Code(3) >>)}
\* A boolean in the code.
BooleanArgument == {Program(FALSE, <<Param("p", "boolean")>>, <<>>, << <<PlaceholderOp(1)>> >>)}

MCPrograms ==
    CASE Pool = "all" -> UNION {Plain("bigint", "ByteString"), Plain("ByteString", "bigint"),
                                Fixed("bigint"), Fixed("ByteString"), VariableWithArgument,
                                UNION {Variable(size) : size \in {2, 9, 100, 250}}}
      [] Pool = "variable" -> VariableWithArgument
      [] Pool = "covenants" -> Covenants
      [] Pool = "unused" -> Unused
      [] Pool = "bytes" -> Plain("ByteString", "bigint")
      [] Pool = "boolean" -> BooleanArgument
=============================================================================
