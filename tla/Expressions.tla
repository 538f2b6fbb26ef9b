----------------------------- MODULE Expressions -----------------------------
(***************************************************************************)
(* The expressions of a query: their value over a row, what is rejected    *)
(* before any row is read, and the rewritings the planner makes of them.   *)
(*                                                                         *)
(* An expression is a node of the parser's tree.  A value is a family and  *)
(* a number: a number is twice itself, so that an odd one has decimals; a  *)
(* text, a date or a point is a code.  The points lie on a line and the    *)
(* polygon n holds the points up to n: the geometry belongs to RTree.      *)
(* Arithmetic is exact on halves and nothing overflows.                    *)
(***************************************************************************)
EXTENDS Integers, FiniteSets, SequencesExt, TLC

CONSTANTS IsoDate,      \* the texts that spell a date, and the date each spells
          LongText      \* the texts that are longer than a VARCHAR column

Is(family, n) == [family |-> family, of |-> n]
Null == Is("null", 0)
Wrong == Is("wrong", 0)       \* raised: a value of a type the operation does not take
Failed == Is("failed", 0)     \* raised: a division by zero, a text that is no date
Raises(v) == v \in {Wrong, Failed}
Truth(b) == Is("boolean", IF b THEN 1 ELSE 0)
Unordered == {"point", "polygon"}
AnyText == 0                  \* the pattern '%'

Node(op, args) ==
  [op |-> op, args |-> args, table |-> "", name |-> "", value |-> Null, negated |-> FALSE]
Literal(v) == [Node("literal", <<>>) EXCEPT !.value = v]
Column(table, name) == [Node("column", <<>>) EXCEPT !.table = table, !.name = name]
Absent == Node("absent", <<>>)
Star == Node("star", <<>>)
Score == Column("", "score()")

Equalities == {"=", "<>"}
Comparisons == Equalities \cup {"<", "<=", ">", ">="}
Arithmetic == {"+", "-", "*", "/", "%"}
Aggregates == {"count", "sum", "max"}
Scalars == {"distance", "inside"}
Calls == Aggregates \cup Scalars \cup {"match", "similar", "score"}

FamilyOfType(type) ==
  CASE type \in {"INT", "FLOAT"} -> "number" [] type = "VARCHAR" -> "text"
    [] type = "DATE" -> "date" [] type = "POINT" -> "point" [] type = "BOOL" -> "boolean"
    [] OTHER -> "any"

\* The columns of a layout that a reference may mean; it is clear when it is one.
Meant(layout, column) ==
  {i \in DOMAIN layout : layout[i].name = column.name /\ column.table \in {"", layout[i].table}}
Has(layout, column) == Cardinality(Meant(layout, column)) = 1
SlotOf(layout, column) == CHOOSE i \in Meant(layout, column) : TRUE
StoredType(layout, column) == layout[SlotOf(layout, column)].type
\* A column that was computed has no declared type to check against.
TypeIn(layout, column) ==
  IF layout[SlotOf(layout, column)].computed THEN "any" ELSE StoredType(layout, column)

-----------------------------------------------------------------------------
(* Which values compare with each other.                                   *)

WithDateParsed(v, other) ==
  IF v.family = "text" /\ other.family = "date"
  THEN IF v.of \in DOMAIN IsoDate THEN Is("date", IsoDate[v.of]) ELSE Failed
  ELSE v

Ordered(op, a, b) ==
  CASE op = "=" -> a = b [] op = "<>" -> a # b [] op = "<" -> a < b
    [] op = "<=" -> a <= b [] op = ">" -> a > b [] op = ">=" -> a >= b

ComparedAs(op, first, second) ==
  IF Failed \in {first, second} THEN Failed
  ELSE IF \/ first.family # second.family
          \/ op \notin Equalities /\ first.family \in Unordered THEN Wrong
  ELSE Truth(Ordered(op, first.of, second.of))
Compared(op, v, w) == ComparedAs(op, WithDateParsed(v, w), WithDateParsed(w, v))

\* A constant as a value of the column it is compared with.
LiteralFor(type, v) ==
  LET w == WithDateParsed(v, Is(FamilyOfType(type), 0))
  IN  IF w.family = FamilyOfType(type) THEN w ELSE Wrong

-----------------------------------------------------------------------------
(* The value of an expression over a row.                                  *)

FirstRaised(values) == LET i == SelectInSeq(values, Raises) IN IF i = 0 THEN Null ELSE values[i]
AsTruth(v) == IF v.family \in {"null", "boolean"} \/ Raises(v) THEN v ELSE Wrong
Negated(v) == IF v.family = "boolean" THEN Truth(v = Truth(FALSE)) ELSE v
Magnitude(n) == IF n < 0 THEN -n ELSE n

\* A remainder has the sign of the dividend.
Operate(op, v, w) ==
  LET a == v.of
      b == w.of
      quotient == (2 * Magnitude(a)) \div Magnitude(b)
      remainder == Magnitude(a) % Magnitude(b)
  IN  IF {v.family, w.family} # {"number"} THEN Wrong
      ELSE IF op \in {"/", "%"} /\ b = 0 THEN Failed
      ELSE Is("number", CASE op = "+" -> a + b
                          [] op = "-" -> a - b
                          [] op = "*" -> (a * b) \div 2
                          [] op = "/" -> IF (a < 0) = (b < 0) THEN quotient ELSE -quotient
                          [] op = "%" -> IF a < 0 THEN -remainder ELSE remainder)

\* AND and OR look at their second side only if the first does not decide.
Connect(decisive, left, right) ==
  IF Raises(left) \/ left = decisive THEN left
  ELSE IF Raises(right) \/ right = decisive THEN right
  ELSE IF Null \in {left, right} THEN Null ELSE Negated(decisive)

\* A bound that is NULL does not matter if the other one already excludes.
Both(above, below) ==
  IF Raises(above) THEN above ELSE IF Raises(below) THEN below
  ELSE IF Truth(FALSE) \in {above, below} THEN Truth(FALSE)
  ELSE IF Null \in {above, below} THEN Null ELSE Truth(TRUE)
BetweenValue(v, low, high) ==
  Both(IF Null \in {v, low} THEN Null ELSE Compared(">=", v, low),
       IF Null \in {v, high} THEN Null ELSE Compared("<=", v, high))

\* The first option that is equal, or does not compare, ends the search.
FirstAnswer(answers, undecided) ==
  LET i == SelectInSeq(answers, LAMBDA a : a # Truth(FALSE)) IN IF i = 0 THEN undecided ELSE answers[i]
InValue(v, options) ==
  FirstAnswer([i \in DOMAIN options |-> IF options[i] = Null THEN Truth(FALSE) ELSE Compared("=", v, options[i])],
              IF Null \in ToSet(options) THEN Null ELSE Truth(FALSE))

LikeValue(v, pattern) ==
  IF Null \in {v, pattern} THEN Null
  ELSE IF {v.family, pattern.family} # {"text"} THEN Wrong
  ELSE Truth(pattern.of \in {AnyText, v.of})

\* Every function takes NULL, and a wrong value next to a NULL is still wrong.
Called(op, values) ==
  LET takes == IF op = "distance" THEN <<"point", "point">> ELSE <<"point", "polygon">>
      a == values[1]
      b == values[2]
  IN  IF \E i \in 1..2 : values[i].family \notin {"null", takes[i]} THEN Wrong
      ELSE IF Null \in {a, b} THEN Null
      ELSE IF op = "distance" THEN Is("number", 2 * Magnitude(a.of - b.of))
      ELSE Truth(a.of <= b.of)

RECURSIVE Evaluate(_, _, _)
Evaluate(e, layout, row) ==
  LET values == [i \in DOMAIN e.args |-> Evaluate(e.args[i], layout, row)]
      raised == FirstRaised(values)
      turned(v) == IF e.negated THEN Negated(v) ELSE v
  IN  CASE e.op = "literal" -> e.value
        [] e.op = "column" -> row[SlotOf(layout, e)]
        [] e.op = "and" -> Connect(Truth(FALSE), AsTruth(values[1]), AsTruth(values[2]))
        [] e.op = "or" -> Connect(Truth(TRUE), AsTruth(values[1]), AsTruth(values[2]))
        [] e.op = "in" /\ values[1] = Null -> Null
        [] e.op \in Calls \ Scalars -> Wrong
        [] OTHER ->
             IF raised # Null THEN raised
             ELSE CASE e.op = "not" -> Negated(AsTruth(values[1]))
                    [] e.op = "negate" -> IF values[1] = Null THEN Null
                                          ELSE Operate("-", Is("number", 0), values[1])
                    [] e.op = "is null" -> Truth((values[1] = Null) # e.negated)
                    [] e.op = "between" -> turned(BetweenValue(values[1], values[2], values[3]))
                    [] e.op = "in" -> turned(InValue(values[1], Tail(values)))
                    [] e.op = "like" -> turned(LikeValue(values[1], values[2]))
                    [] e.op \in Scalars -> Called(e.op, values)
                    [] OTHER -> IF Null \in ToSet(values) THEN Null
                                ELSE IF e.op \in Comparisons THEN Compared(e.op, values[1], values[2])
                                ELSE Operate(e.op, values[1], values[2])

RECURSIVE IsConstant(_)
IsConstant(e) ==
  e.op \notin {"column", "star"} /\ \A i \in DOMAIN e.args : IsConstant(e.args[i])

\* The value of what depends on no row; raised when there is none.
ConstantValue(e) == IF IsConstant(e) THEN Evaluate(e, <<>>, <<>>) ELSE Wrong
Matches(e, layout, row) == IF e = Absent THEN Truth(TRUE) ELSE AsTruth(Evaluate(e, layout, row))

-----------------------------------------------------------------------------
(* What is rejected before reading any row.                                *)

\* The columns that an expression compares with a constant.
Facing(e) ==
  LET pairs == CASE e.op \in Comparisons -> {<<1, 2>>, <<2, 1>>}
                 [] e.op \in {"between", "in"} -> {1} \X (2..Len(e.args))
                 [] OTHER -> {}
  IN  {f \in {<<e.args[p[1]], ConstantValue(e.args[p[2]])>> : p \in {q \in pairs : e.args[q[1]].op = "column"}} :
         ~Raises(f[2])}

\* A call is tried with NULL in what depends on the row: only a constant can make it fail.
CallFits(e, layout) ==
  /\ e.op \in Scalars
  /\ \A i \in DOMAIN e.args : e.args[i].op = "column" =>
       TypeIn(layout, e.args[i]) \in {"any"} \cup (IF e.op = "inside" /\ i = 2 THEN {} ELSE {"POINT"})
  /\ ~Raises(Called(e.op, [i \in DOMAIN e.args |->
                             IF IsConstant(e.args[i]) THEN ConstantValue(e.args[i]) ELSE Null]))

RECURSIVE ShapeFits(_, _)
ShapeFits(e, layout) ==
  CASE e.op = "literal" -> TRUE
    [] e.op = "column" -> Has(layout, e)
    [] e.op = "star" -> FALSE
    [] OTHER ->
         /\ \A i \in DOMAIN e.args : ShapeFits(e.args[i], layout)
         /\ IF e.op \in Calls THEN CallFits(e, layout)
            ELSE /\ IsConstant(e) => ~Raises(ConstantValue(e))
                 /\ \A p \in Facing(e) :
                      \/ p[2] = Null \/ TypeIn(layout, p[1]) = "any"
                      \/ ~Raises(LiteralFor(TypeIn(layout, p[1]), p[2]))

Comparable(left, right, ordered) ==
  \/ "any" \in {left, right}
  \/ /\ left = right \/ {left, right} = {"date", "text"}
     /\ ~(ordered /\ left \in Unordered)

\* The family of the result, "any" if it is not known and "wrong" if it cannot be.
RECURSIVE FamilyOf(_, _)
FamilyOf(e, layout) ==
  LET families == [i \in DOMAIN e.args |-> FamilyOf(e.args[i], layout)]
      all(allowed) == ToSet(families) \subseteq allowed \cup {"any"}
      compare(ordered) == \A i \in DOMAIN e.args \ {1} : Comparable(families[1], families[i], ordered)
  IN  CASE "wrong" \in ToSet(families) -> "wrong"
        [] e.op = "literal" -> IF e.value = Null THEN "any" ELSE e.value.family
        [] e.op = "column" -> FamilyOfType(TypeIn(layout, e))
        [] e.op = "negate" \/ e.op \in Arithmetic -> IF all({"number"}) THEN "number" ELSE "wrong"
        [] e.op = "between" \/ e.op \in (Comparisons \ Equalities) ->
             IF compare(TRUE) THEN "boolean" ELSE "wrong"
        [] e.op = "in" \/ e.op \in Equalities -> IF compare(FALSE) THEN "boolean" ELSE "wrong"
        [] e.op = "like" -> IF all({"text"}) THEN "boolean" ELSE "wrong"
        [] e.op = "distance" -> "number"
        [] OTHER -> "boolean"

RECURSIVE IsCondition(_, _)
IsCondition(e, layout) ==
  CASE e.op \in {"not", "and", "or"} -> \A i \in DOMAIN e.args : IsCondition(e.args[i], layout)
    [] e.op \in Comparisons \cup {"between", "in", "like", "is null", "inside"} -> TRUE
    [] e.op = "literal" -> e.value.family \in {"null", "boolean"}
    [] e.op = "column" -> TypeIn(layout, e) \in {"any", "BOOL"}
    [] OTHER -> FALSE

Validates(e, layout) == e = Absent \/ (ShapeFits(e, layout) /\ FamilyOf(e, layout) # "wrong")
ValidCondition(e, layout) == Validates(e, layout) /\ (e # Absent => IsCondition(e, layout))

-----------------------------------------------------------------------------
(* What the planner takes apart and puts together.                         *)

RECURSIVE Conjuncts(_)
Conjuncts(e) ==
  CASE e = Absent -> <<>>
    [] e.op = "and" -> Conjuncts(e.args[1]) \o Conjuncts(e.args[2])
    [] OTHER -> <<e>>

AllOf(conditions) ==
  FoldLeft(LAMBDA all, c : IF all = Absent THEN c ELSE Node("and", <<all, c>>), Absent, conditions)

RECURSIVE Within(_)
Within(e) == {e} \cup UNION {Within(e.args[i]) : i \in DOMAIN e.args}

\* An expression as text, which names the column that holds it and tells one aggregation
\* from another. Only an operand of a binary operator is ever put in parentheses.
Precedence(op) ==
  CASE op = "or" -> 1 [] op = "and" -> 2 [] op \in Comparisons -> 3 [] op \in {"+", "-"} -> 4
    [] op \in {"*", "/", "%"} -> 5 [] OTHER -> 6

\* texts are those of the operands. Only an operator with two operands puts them in
\* parentheses.
DescribedOperand(e, i, texts, level) ==
  IF Precedence(e.args[i].op) < level THEN "(" \o texts[i] \o ")" ELSE texts[i]
DescribedList(texts) == "(" \o FoldLeft(LAMBDA all, text : all \o ", " \o text, Head(texts), Tail(texts)) \o ")"
DescribedWith(e, texts) ==
  LET level == Precedence(e.op)
      keyword == (IF e.negated THEN " not " ELSE " ") \o e.op \o " "
  IN  CASE e.op = "column" -> IF e.table = "" THEN e.name ELSE e.table \o "." \o e.name
        [] e.op = "literal" -> e.value.family \o ToString(e.value.of)
        [] e.op = "star" -> "*"
        [] e.op \in Calls /\ texts = <<>> -> e.op \o (IF e.op \in Aggregates THEN "(*)" ELSE "()")
        [] e.op \in Calls /\ texts # <<>> -> e.op \o DescribedList(texts)
        [] e.op = "k" -> "k=" \o texts[1]
        [] e.op = "not" -> "not " \o texts[1]
        [] e.op = "negate" -> "-" \o texts[1]
        [] e.op = "is null" -> texts[1] \o (IF e.negated THEN " is not null" ELSE " is null")
        [] e.op = "between" -> texts[1] \o keyword \o texts[2] \o " and " \o texts[3]
        [] e.op = "in" -> texts[1] \o keyword \o DescribedList(Tail(texts))
        [] e.op = "like" -> texts[1] \o keyword \o texts[2]
        [] OTHER -> DescribedOperand(e, 1, texts, level) \o " " \o e.op \o " "
                    \o DescribedOperand(e, 2, texts, level + 1)
RECURSIVE Described(_)
Described(e) == DescribedWith(e, [i \in DOMAIN e.args |-> Described(e.args[i])])

\* The expression with each subexpression that is the first of a pair made the second.
RECURSIVE Rewritten(_, _)
Rewritten(e, pairs) ==
  IF \E p \in pairs : p[1] = e THEN (CHOOSE p \in pairs : p[1] = e)[2]
  ELSE [e EXCEPT !.args = [i \in DOMAIN e.args |-> Rewritten(e.args[i], pairs)]]

\* Each column written as the column of the layout that it refers to.
Qualified(e, layout) ==
  Rewritten(e, {<<c, Column(layout[SlotOf(layout, c)].table, c.name)>> :
                  c \in {d \in Within(e) : d.op = "column" /\ Has(layout, d)}})

\* The column of the result that a number or an alias stands for.
Aliased(e, projections) ==
  LET i == SelectInSeq(projections, LAMBDA p : p.alias = e.name)
  IN  IF e.op # "column" \/ e.table # "" \/ i = 0 \/ projections[i].of.op \in Aggregates THEN e
      ELSE projections[i].of
IsPosition(e) == e.op = "literal" /\ e.value.family = "number" /\ e.value.of % 2 = 0
PositionFits(e, projections) ==
  IsPosition(e) => e.value.of \div 2 \in DOMAIN projections /\ projections[e.value.of \div 2].of.op # "star"
OrderKey(e, projections) ==
  IF IsPosition(e) /\ PositionFits(e, projections) THEN projections[e.value.of \div 2].of
  ELSE Aliased(e, projections)
GroupKey(e, projections, layout) ==
  IF e.op = "column" /\ Has(layout, e) THEN e ELSE OrderKey(e, projections)

\* The type of the column that could hold the result; "none" if none can.
RECURSIVE ResultType(_, _)
ResultType(e, layout) ==
  LET types == {ResultType(e.args[i], layout) : i \in DOMAIN e.args}
  IN  CASE e.op = "column" -> StoredType(layout, e)
        [] e.op = "literal" /\ e.value.family = "boolean" -> "BOOL"
        [] e.op = "literal" /\ e.value.family = "text" -> "VARCHAR"
        [] e.op = "literal" -> IF e.value.of % 2 = 0 THEN "INT" ELSE "FLOAT"
        [] e.op = "negate" -> CHOOSE t \in types : TRUE
        [] e.op \in Arithmetic -> IF types = {"INT"} /\ e.op # "/" THEN "INT" ELSE "FLOAT"
        [] e.op = "distance" -> "FLOAT"
        [] e.op \in (Calls \ Scalars) \cup {"star"} -> "none"
        [] OTHER -> "BOOL"

=============================================================================
