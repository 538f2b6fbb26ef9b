------------------------------ MODULE MCQueries ------------------------------
(* Statements, catalogs and rows for the model checker to plan and answer:
   every kind of condition alone and next to another, every way of asking for an
   order, a search, a group or a join, and statements that are wrong. *)
EXTENDS Planner

Number(n) == Literal(Is("number", 2 * n))
Half(n) == Literal(Is("number", n))
Text(n) == Literal(Is("text", n))
Point(n) == Literal(Is("point", n))
UpTo(n) == Literal(Is("polygon", n))
NullLiteral == Literal(Null)
C(name) == Column("", name)
A(name) == Column("a", name)
B(name) == Column("b", name)
Op(op, x, y) == Node(op, <<x, y>>)
And(x, y) == Op("and", x, y)
Not(e) == Node("not", <<e>>)
Negative(e) == [e EXCEPT !.negated = TRUE]
In(x, options) == Node("in", <<x>> \o options)
Between(x, low, high) == Node("between", <<x, low, high>>)
IsNull(x) == Node("is null", <<x>>)
Away(x, y) == Op("distance", x, y)
Match(query) == Node("match", <<C("s"), Text(query)>>)
Similar(query, k) == Node("similar", <<C("s"), Text(query), Node("k", <<Number(k)>>)>>)
ScoreOfRow == Node("score", <<>>)
Count == Node("count", <<>>)
Sum(e) == Node("sum", <<e>>)
Most(e) == Node("max", <<e>>)

Of(e) == [of |-> e, alias |-> ""]
As(e, name) == [of |-> e, alias |-> name]
Up(e) == [key |-> e, down |-> FALSE]
Down(e) == [key |-> e, down |-> TRUE]
Everything ==
  [from |-> "a", joins |-> <<>>, where |-> Absent, projections |-> <<Of(Star)>>, group |-> <<>>,
   having |-> Absent, order |-> <<>>, distinct |-> FALSE, limit |-> -1, offset |-> 0]
Where(c) == [Everything EXCEPT !.where = c]
Joining(kind, on) == [Everything EXCEPT !.joins = <<[table |-> "b", kind |-> kind, on |-> on]>>]
JoinKinds == {"inner", "left", "right", "full"}

-----------------------------------------------------------------------------
\* Each condition that an index could answer, or that looks as if it could.
Indexable == {
  Op("=", C("id"), Number(2)), Op("=", C("v"), Number(2)), Op("=", C("v"), Half(1)), Op("=", C("v"), NullLiteral),
  In(C("id"), <<Number(4), Number(2), Number(4), NullLiteral>>), In(C("s"), <<Text(9), Text(1)>>),
  Op(">=", Number(3), C("id")), Op(">", C("v"), Half(1)), Between(C("v"), Number(1), Number(2)),
  Between(C("id"), Number(3), Number(1)), Op("=", C("d"), Text(4)), Op("<=", C("d"), Text(3)),
  Op("<=", Away(C("p"), Point(0)), Number(1)), Op(">", Number(2), Away(Point(1), C("p"))),
  Op("inside", C("p"), UpTo(2))}
Others == {
  Negative(In(C("v"), <<Number(0), NullLiteral>>)), Negative(Between(C("id"), Number(2), NullLiteral)),
  Op("=", C("p"), Point(0)), Op("like", C("s"), Text(1)), Op(">", Op("/", Number(4), C("v")), Number(1)),
  Op("<>", C("v"), Number(0)), Op("<", C("v"), C("id")), IsNull(C("v"))}

Filtering ==
  {Where(c) : c \in Indexable \cup Others} \cup {Where(And(c, d)) : c \in Indexable, d \in Indexable \cup Others}
  \cup {Where(And(Op("<>", C("v"), Number(0)), d)) : d \in Others}
  \cup {Where(Op("or", Not(Op("<", C("id"), Number(3))), d)) : d \in Others}

Mistaken == {Where(c) : c \in {
  Op("=", C("v"), Text(1)), Op("<", C("p"), Point(0)), Op("=", C("d"), Text(1)), C("v"),
  Op("like", C("v"), Text(1)), Op("+", C("v"), Number(1)), Op("=", C("w"), Number(1)),
  Op("<", Away(C("p"), Number(1)), Number(1)), Op("/", Number(1), Number(0)), Op("=", C("s"), C("v")),
  In(C("v"), <<Number(1), Text(1)>>)}}

Ordering == {
  [Everything EXCEPT !.order = <<Up(C("id"))>>, !.limit = 1, !.offset = 1],
  [Everything EXCEPT !.order = <<Down(C("id"))>>, !.limit = 2],
  [Everything EXCEPT !.order = <<Up(C("v")), Down(C("id"))>>],
  [Everything EXCEPT !.order = <<Down(C("v"))>>, !.limit = 1],
  [Everything EXCEPT !.projections = <<As(Op("*", C("v"), Number(-1)), "id")>>, !.order = <<Up(C("id"))>>],
  [Everything EXCEPT !.projections = <<Of(C("s")), Of(C("v"))>>, !.order = <<Up(Number(2))>>, !.distinct = TRUE],
  [Everything EXCEPT !.projections = <<Of(C("s"))>>, !.order = <<Up(C("id"))>>, !.distinct = TRUE, !.limit = 2],
  [Everything EXCEPT !.projections = <<Of(C("s"))>>, !.order = <<Up(Number(2))>>],
  [Everything EXCEPT !.order = <<Up(Away(C("p"), Point(1)))>>, !.limit = 2],
  [Where(Op(">", C("v"), Number(0))) EXCEPT !.order = <<Up(Away(C("p"), Point(3)))>>],
  [Where(In(C("id"), <<Number(4), Number(2)>>)) EXCEPT !.order = <<Up(C("id"))>>, !.limit = 1],
  [Where(Op(">=", C("id"), Number(2))) EXCEPT !.order = <<Up(C("id"))>>, !.limit = 1],
  [Everything EXCEPT !.order = <<Up(C("p"))>>]}

Searching == {
  Where(Match(1)), Where(Match(2)), [Where(Match(2)) EXCEPT !.limit = 1],
  [Where(And(Match(2), Op("=", C("v"), Number(0)))) EXCEPT !.limit = 1],
  [Where(Match(2)) EXCEPT
     !.projections = <<Of(C("id")), Of(ScoreOfRow)>>, !.order = <<Down(C("score"))>>, !.limit = 1],
  [Where(Match(2)) EXCEPT !.order = <<Up(ScoreOfRow)>>, !.limit = 1],
  [Where(And(Match(2), Op(">", ScoreOfRow, Number(1)))) EXCEPT !.projections = <<Of(C("id"))>>],
  [Where(Match(2)) EXCEPT !.projections = <<Of(C("v"))>>, !.distinct = TRUE, !.limit = 1],
  [Where(Match(2)) EXCEPT !.projections = <<Of(Most(ScoreOfRow))>>, !.limit = 1],
  Where(Similar(1, 1)), Where(And(Op("=", C("v"), Number(2)), Similar(2, 1))),
  Where(And(Op("=", C("id"), Number(2)), Similar(1, 2))),
  [Where(And(Similar(2, 2), Op(">", ScoreOfRow, Number(1)))) EXCEPT !.order = <<Down(ScoreOfRow)>>],
  Where(Op("or", Match(1), Op("=", C("v"), Number(2)))), Where(And(Match(1), Match(2))),
  [Everything EXCEPT !.projections = <<Of(ScoreOfRow)>>], Where(Similar(1, 0))}

\* Columns beside all those of a table, or of one that is not in the FROM.
ColumnsOf(table) == [Star EXCEPT !.table = table]
Starred ==
  {[Everything EXCEPT !.projections = of] :
     of \in {<<Of(ColumnsOf("zz"))>>, <<Of(ColumnsOf("zz")), Of(C("id"))>>, <<Of(C("id")), Of(ColumnsOf("zz"))>>,
             <<Of(C("v")), Of(ColumnsOf("a"))>>}}
  \cup {[Joining("inner", Op("=", A("id"), B("id"))) EXCEPT !.projections = of] :
          of \in {<<Of(ColumnsOf("b"))>>, <<Of(ColumnsOf("b")), Of(ColumnsOf("zz")), Of(A("v"))>>}}

Remainder == Op("%", C("id"), Number(2))
Grouping == {
  [Everything EXCEPT !.projections = <<Of(Count), Of(Node("count", <<C("v")>>)), Of(Sum(C("v"))), Of(Most(C("d")))>>],
  [Everything EXCEPT !.projections = <<Of(C("v")), As(Count, "n")>>, !.group = <<C("v")>>,
                     !.order = <<Down(C("n")), Up(C("v"))>>],
  [Everything EXCEPT !.projections = <<Of(C("v"))>>, !.group = <<C("v")>>, !.having = Op(">", Count, Number(1))],
  [Everything EXCEPT !.projections = <<Of(Op("+", Count, Sum(C("id"))))>>, !.group = <<C("s")>>,
                     !.having = Op(">=", Most(C("id")), Number(2)), !.limit = 1],
  [Everything EXCEPT !.projections = <<As(Remainder, "odd"), Of(Count)>>, !.group = <<C("odd")>>,
                     !.order = <<Up(Number(1))>>],
  [Everything EXCEPT !.projections = <<Of(Op("+", Remainder, Number(1)))>>, !.group = <<Remainder>>],
  [Everything EXCEPT !.projections = <<Of(C("s")), Of(Count)>>, !.group = <<C("v")>>],
  [Everything EXCEPT !.projections = <<Of(Sum(C("s")))>>],
  [Everything EXCEPT !.projections = <<Of(Star), Of(Count)>>],
  [Everything EXCEPT !.having = Op("=", C("v"), Number(1))],
  [Where(Op(">", Count, Number(1))) EXCEPT !.projections = <<Of(C("v"))>>, !.group = <<C("v")>>],
  [Where(Op(">", C("v"), Number(0))) EXCEPT !.projections = <<Of(Sum(C("v")))>>,
                                            !.having = Op(">", Sum(C("v")), Number(1))]}

SameId == Op("=", A("id"), B("id"))
Meeting ==
  {Joining(kind, Op("=", A("v"), B("v"))) : kind \in JoinKinds}
  \cup {Joining(kind, And(Op("=", B("id"), A("id")), Op("<", A("v"), B("v")))) : kind \in JoinKinds}
  \cup {Joining(kind, Op("<=", A("d"), B("e"))) : kind \in {"inner", "full"}}
  \cup {[Joining(kind, Op("=", A("d"), B("e"))) EXCEPT !.where = Op("=", A("id"), Number(1))] : kind \in JoinKinds}
  \cup {[Joining(kind, SameId) EXCEPT !.where = c] : kind \in JoinKinds,
          c \in {Op(">", B("v"), Number(2)), IsNull(B("id")), Op("=", C("e"), Text(3)),
                 And(Op("=", A("id"), Number(1)), Op("=", C("s"), Text(1)))}}
  \cup {[Joining("inner", SameId) EXCEPT !.where = Op("=", C("id"), Number(1))],
        [Joining("inner", SameId) EXCEPT !.where = Match(2), !.limit = 1],
        [Joining("left", SameId) EXCEPT !.where = And(Op("=", B("id"), Number(1)), Similar(2, 1))],
        [Joining("inner", Op("=", A("v"), B("v"))) EXCEPT !.order = <<Up(A("id"))>>, !.limit = 1],
        [Joining("left", Op("=", A("v"), B("v"))) EXCEPT
           !.projections = <<Of(A("v")), Of(Node("count", <<B("v")>>))>>, !.group = <<A("v")>>,
           !.order = <<Up(Number(1))>>]}

Selects == Filtering \cup Mistaken \cup Ordering \cup Searching \cup Grouping \cup Meeting \cup Starred

-----------------------------------------------------------------------------
Index(column, method) == [column |-> column, method |-> method]
KeyIndex == Index("id", "hash")
SearchIndexes == <<Index("s", "inverted"), Index("s", "hnsw")>>
Catalog(a, onA, b, onB) == [organization |-> [a |-> a, b |-> b], indexes |-> [a |-> onA, b |-> onB]]

\* Only a heap file has indexes on other columns, and the hash index of its key.
CatalogsFor(s) ==
  {Catalog("heap", <<KeyIndex, Index("id", "btree"), Index("v", "btree"), Index("v", "hash"),
                     Index("p", "rtree"), Index("d", "btree")>> \o SearchIndexes,
           "heap", <<KeyIndex, Index("v", "btree")>>),
   Catalog("heap", <<KeyIndex, Index("d", "hash")>> \o SearchIndexes, "clustered", <<>>)}
  \cup IF Asked(s) # <<>> THEN {}
       ELSE {Catalog("sequential", <<>>, "heap", <<KeyIndex, Index("e", "btree")>>),
             Catalog("clustered", <<>>, "sequential", <<>>)}

N(n) == Is("number", 2 * n)
RowsFor(s, t) ==
  IF t = "b" THEN {<<N(1), Is("number", 5), Is("text", 3)>>, <<N(2), N(2), Is("text", 4)>>, <<N(3), Null, Null>>}
  ELSE {<<N(1), N(2), Is("date", 2), Is("text", 1), Is("point", 0)>>,
        <<N(2), N(0), Is("date", 1), Is("text", 2), Is("point", 3)>>,
        <<N(3), Null, Null, Null, Null>>,
        <<N(4), N(2), Is("date", 2), Is("text", 2), Is("point", 1)>>}

\* How well a text answers a query: itself best, and the text 2 answers a little to all.
RelevanceTable ==
  [query \in {1, 2} |-> [text \in {1, 2, 3, 4, 9} |-> IF query = text THEN 2 ELSE IF text = 2 THEN 1 ELSE 0]]

=============================================================================
