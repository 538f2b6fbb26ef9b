---------------------------- MODULE MCSqlParser ----------------------------
(* The statements for TLC: every operator and predicate with every other in each of its
   places, and statements with every clause. *)
EXTENDS SqlNodes

VARIABLES meant, tokens, edits

Column(name) == Node("column", name, <<>>)
Literal(word) == Node("literal", word, <<>>)
NameOf(word) == Node("name", word, <<>>)
List(args) == Node("list", "", args)
A == Column("a")
One == Literal("1")
Not(e) == [e EXCEPT !.negated = TRUE]

\* Each form with its operands from x and y.
Binary(x, y) ==
  {Node(op, "", <<x, y>>) : op \in {"OR", "AND", "=", "+", "-", "*"}}
Forms(x, y) ==
  Binary(x, y)
  \cup UNION {{form, Not(form)} : form \in
         {Node("between", "", <<x, y, A>>), Node("in", "", <<x, One, y>>),
          Node("like", "", <<x, y>>), Node("is null", "", <<x>>)}}
  \cup {Node("not", "", <<x>>), Node("negate", "", <<x>>), Node("tuple", "", <<x, y>>),
        Node("call", "f", <<x, Node("named", "b", <<y>>)>>)}
Leaves == {Column("q"), Node("of", "t", <<Column("b")>>), Literal("NULL"),
           Node("call", "f", <<>>), Node("call", "f", <<A, Star("")>>)}
Simple == Forms(A, One)

Deep ==     \* as deep as the limit, and deeper
  LET twice(op) == Node(op, "", <<Node(op, "", <<Node(op, "", <<A>>)>>)>>)
      joined(op) == Node(op, "", <<Node(op, "", <<Node(op, "", <<A, One>>), One>>), One>>)
  IN  {twice("not"), twice("negate"), joined("OR"), joined("-"),
       Node("not", "", <<twice("not")>>), Node("not", "", <<twice("negate")>>)}

Written2 == Leaves \cup Simple \cup Deep
            \cup UNION {Forms(x, One) \cup Forms(One, x) : x \in Simple \cup Leaves}
            \cup UNION {Binary(x, y) : x, y \in Binary(A, One)}

Shown(e, alias) == Node("shown", "", <<e, alias>>)
TableAs(name, alias) == Node("table", "", <<NameOf(name), alias>>)
Ordered(direction, e) == Node(direction, "", <<e>>)
Query(shown, rest) == Node("select", "", <<Absent, List(shown), TableAs("t", Absent), List(<<>>)>> \o rest)
Nowhere(n) == [i \in 1..n |-> Absent]
Only(e) == <<Node("WHERE", "", <<e>>)>>

Full ==
  Node("select", "",
       <<Node("DISTINCT", "", <<>>),
         List(<<Star("t"), Shown(Node("+", "", <<A, One>>), NameOf("b")), Star("")>>),
         TableAs("t", NameOf("b")),
         List(<<Node("join", "LEFT", <<TableAs("q", Absent), Node("=", "", <<A, One>>)>>),
                Node("join", "INNER", <<TableAs("t", Absent), A>>)>>)>>
       \o Only(Not(Node("between", "", <<A, One, One>>)))
       \o <<Node("GROUP", "", <<A, Column("b")>>), Node("HAVING", "", <<Node("not", "", <<A>>)>>),
            Node("USING", "", <<NameOf("HASH")>>),
            Node("ORDER", "", <<Ordered("DESC", A), Ordered("ASC", One)>>),
            Node("LIMIT", "", <<Literal("1")>>), Node("OFFSET", "", <<Literal("0")>>)>>)

Row(args) == Node("row", "", args)
Set(name, e) == Node("assign", name, <<e>>)
Changes ==
  {Node("insert", "", <<NameOf("t"), List(<<NameOf("a"), NameOf("b")>>),
                        Row(<<One, Node("negate", "", <<One>>)>>), Row(<<A, Literal("NULL")>>)>>),
   Node("insert", "", <<NameOf("t"), Absent, Row(<<One>>), Row(<<Node("tuple", "", <<One, A>>)>>)>>),
   Node("update", "", <<NameOf("t"), List(<<Set("a", One), Set("b", Node("=", "", <<A, One>>))>>)>>
                      \o Only(Node("is null", "", <<A>>))),
   Node("delete", "", <<NameOf("q")>> \o Only(Node("AND", "", <<Node("between", "", <<A, One, One>>), A>>)))}

Type(name, size) == Node("type", name, <<size>>)
Tables ==
  {Node("create", "t",
        <<[Plain("a", Type("INT", Absent)) EXCEPT !.key = TRUE, !.nullable = nullable],
          [Plain("b", Type("VARCHAR", size)) EXCEPT !.unique = TRUE, !.index = "HASH"],
          [Plain("q", Type("VECTOR", Literal("1"))) EXCEPT !.nullable = nullable]>>) :
      nullable \in BOOLEAN, size \in {Absent, Literal("1")}}

MCMeant ==
  {Query(<<Star("")>>, Only(e) \o Nowhere(6)) : e \in Written2}
  \cup {Query(<<Shown(e, NameOf("b"))>>, Nowhere(7)) : e \in Simple \cup Leaves}
  \cup {Full} \cup Changes \cup Tables

Parser == INSTANCE SqlParser WITH
  Identifier <- {"a", "b", "f", "t", "INT", "VARCHAR", "VECTOR", "HASH", "BM25"}, QuotedName <- {"q"},
  IntegerToken <- {"0", "1"}, OtherLiteral <- {"NULL"},
  DataType <- [INT |-> "none", VARCHAR |-> "optional", VECTOR |-> "required"],
  Method <- {"HASH"}, Ranking <- {"BM25"},
  MaxNesting <- 4, MaxDepth <- 3, EditLimit <- 1, Meant <- MCMeant

SqlInit == Parser!SqlInit
Mistake == Parser!Mistake
ReadAsWritten == Parser!ReadAsWritten

=============================================================================
