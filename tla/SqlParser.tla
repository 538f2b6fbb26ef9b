----------------------------- MODULE SqlParser -----------------------------
(* sql/parser.py: the recursive descent that makes a statement of tokens. A token is a
   word: a keyword or a sign stands for itself, and constants say which words are names
   and literals. Left out are upper and lower case, positions, messages, scripts of many
   statements, the options after WITH, IF NOT EXISTS, CREATE TABLE FROM FILE and the
   statements that are a few words in a row. *)
EXTENDS SqlNodes, FiniteSets, SequencesExt

CONSTANTS Identifier, QuotedName,       \* the words of each kind; types and methods are
          IntegerToken, OtherLiteral,   \* identifiers too
          DataType,     \* DATA_TYPES: type -> whether its size is "none", "optional" or "required"
          Method,       \* INDEX_METHODS
          Ranking,      \* RANKING_METHODS, that a query may use too
          MaxNesting,   \* MAX_NESTING_DEPTH
          MaxDepth,     \* MAX_EXPRESSION_DEPTH
          Meant,        \* the statements that somebody writes
          EditLimit     \* bound: mistakes in what is written

VARIABLES meant,   \* the statement
          tokens,  \* how it is written
          edits    \* with so many mistakes

sqlVars == <<meant, tokens, edits>>

Name == Identifier \cup QuotedName
Comparisons == {"=", "<>", "<"}

-----------------------------------------------------------------------------
(* What is parsed up to a token: the trees, and the token that is next, 0 if the text
   is not accepted. *)

Peek(t, n) == IF n \in DOMAIN t THEN t[n] ELSE "end"
Nothing(n) == [trees |-> <<>>, next |-> n]
Failed == Nothing(0)
Read(tree, n) == [trees |-> <<tree>>, next |-> n]

Then(s, r) ==
  IF s.next = 0 \/ r.next = 0 THEN Failed ELSE [trees |-> s.trees \o r.trees, next |-> r.next]
Expect(t, s, words) == IF Peek(t, s.next) \in words THEN [s EXCEPT !.next = @ + 1] ELSE Failed
Skip(t, s, words) == IF Peek(t, s.next) \in words THEN [s EXCEPT !.next = @ + 1] ELSE s
Made(s, op, name) == IF s.next = 0 THEN s ELSE [s EXCEPT !.trees = <<Node(op, name, @)>>]
Word(t, n, op, words) == IF Peek(t, n) \in words THEN Read(Node(op, Peek(t, n), <<>>), n + 1) ELSE Failed

\* One or more, with commas: each is read knowing those before it.
Listed(t, n, Item(_, _)) ==
  LET RECURSIVE More(_)
      More(s) == IF Peek(t, s.next) = "," THEN More(Then(s, Item(s.trees, s.next + 1))) ELSE s
  IN  More(Item(<<>>, n))

IsNew(before, name) == \A i \in DOMAIN before : before[i].name # name
NameList(t, s) ==
  Expect(t, Listed(t, Expect(t, s, {"("}).next, LAMBDA before, n :
              IF IsNew(before, Peek(t, n)) THEN Word(t, n, "name", Name) ELSE Failed), {")"})

-----------------------------------------------------------------------------
(* Expressions, level by level. The depth d is how many times the descent has started
   again: in parentheses, after a NOT and after a minus. *)

Disjunction == 1
Conjunction == 2
Negation == 3
Comparison == 4
Additive == 5
Multiplicative == 6
Unary == 7

\* The operators that a level joins from left to right, their operands of the level below.
Joining == [level \in {Disjunction, Conjunction, Additive, Multiplicative} |->
  CASE level = Disjunction -> {"OR"} [] level = Conjunction -> {"AND"}
    [] level = Additive -> {"+", "-"} [] level = Multiplicative -> {"*", "/"}]

RECURSIVE Descend(_, _, _, _)

Expression(t, n, d) ==
  LET parsed == IF n = 0 \/ d >= MaxNesting THEN Failed ELSE Descend(t, n, d + 1, Disjunction)
  IN  IF d = 0 /\ parsed.next # 0 /\ Depth(parsed.trees[1]) > MaxDepth THEN Failed ELSE parsed
ExpressionList(t, n, d) == Listed(t, n, LAMBDA before, m : Expression(t, m, d))

Reference(t, n) ==
  IF Peek(t, n + 1) # "." THEN Read(Node("column", Peek(t, n), <<>>), n + 1)
  ELSE Made(Word(t, n + 2, "column", Name), "of", Peek(t, n))

\* An identifier and an equals sign name an argument; after one, all have a name.
Argument(t, before, n, d) ==
  LET named == Peek(t, n) \in Identifier /\ Peek(t, n + 1) = "="
      names == SelectSeq(before, LAMBDA a : a.op = "named")
  IN  CASE named -> IF IsNew(names, Peek(t, n)) THEN Made(Expression(t, n + 2, d), "named", Peek(t, n))
                    ELSE Failed
        [] ~named /\ names # <<>> -> Failed
        [] ~named /\ names = <<>> /\ Peek(t, n) = "*" /\ Peek(t, n + 1) = ")" -> Read(Star(""), n + 1)
        [] OTHER -> Expression(t, n, d)

Call(t, n, d) ==
  Made(IF Peek(t, n + 2) = ")" THEN Nothing(n + 3)
       ELSE Expect(t, Listed(t, n + 2, LAMBDA before, m : Argument(t, before, m, d)), {")"}),
       "call", Peek(t, n))

GroupOrTuple(t, n, d) ==
  LET parsed == Expect(t, ExpressionList(t, n + 1, d), {")"})
  IN  IF Len(parsed.trees) = 1 THEN parsed ELSE Made(parsed, "tuple", "")

Primary(t, n, d) ==
  CASE Peek(t, n) \in IntegerToken \cup OtherLiteral -> Word(t, n, "literal", {Peek(t, n)})
    [] Peek(t, n) = "(" -> GroupOrTuple(t, n, d)
    [] Peek(t, n) \in Identifier /\ Peek(t, n + 1) = "(" -> Call(t, n, d)
    [] Peek(t, n) \in Name /\ ~(Peek(t, n) \in Identifier /\ Peek(t, n + 1) = "(") -> Reference(t, n)
    [] OTHER -> Failed

\* Mutant: the upper bound takes the conditions that follow it.
BoundsAndMore(t, n, d) ==
  LET lower == Expect(t, Descend(t, n, d, Additive), {"AND"})
  IN  Then(lower, Descend(t, lower.next, d, Conjunction))

\* The two bounds, with the AND that is theirs.
Bounds(t, n, d) ==
  LET lower == Expect(t, Descend(t, n, d, Additive), {"AND"})
  IN  Then(lower, Descend(t, lower.next, d, Additive))

\* A comparison or a predicate about what is on its left, if one follows.
Predicate(t, left, d) ==
  LET n       == left.next
      negated == Peek(t, n) = "NOT"
      keyword == Peek(t, IF negated THEN n + 1 ELSE n)
      after   == IF negated THEN n + 2 ELSE n + 1
      isNot   == Skip(t, Nothing(n + 1), {"NOT"})
      about(op, not, rest) ==
        LET s == Made(Then(left, rest), op, "") IN IF s.next = 0 THEN s ELSE [s EXCEPT !.trees[1].negated = not]
  IN  CASE Peek(t, n) \in Comparisons -> about(Peek(t, n), FALSE, Descend(t, n + 1, d, Additive))
        [] Peek(t, n) = "IS" -> about("is null", isNot.next = n + 2, Expect(t, isNot, {"NULL"}))
        [] keyword = "BETWEEN" -> about("between", negated, Bounds(t, after, d))
        [] keyword = "LIKE" -> about("like", negated, Descend(t, after, d, Additive))
        [] keyword = "IN" -> about("in", negated, Expect(t,
             ExpressionList(t, Expect(t, Nothing(after), {"("}).next, d), {")"}))
        [] OTHER -> left

RECURSIVE Predicates(_, _, _)
Predicates(t, left, d) ==
  LET s == Predicate(t, left, d) IN IF s = left THEN left ELSE Predicates(t, s, d)

\* The joining operators of a level after what is on their left.
RECURSIVE Joined(_, _, _, _)
Joined(t, left, d, level) ==
  IF Peek(t, left.next) \notin Joining[level] THEN left
  ELSE Joined(t, Made(Then(left, Descend(t, left.next + 1, d, level + 1)), Peek(t, left.next), ""), d, level)

\* NOT and minus: another of the same level, one deeper.
Deeper(t, n, d, level, op) ==
  IF d >= MaxNesting THEN Failed ELSE Made(Descend(t, n + 1, d + 1, level), op, "")

Descend(t, n, d, level) ==
  CASE level \in DOMAIN Joining -> Joined(t, Descend(t, n, d, level + 1), d, level)
    [] level = Negation -> IF Peek(t, n) = "NOT" THEN Deeper(t, n, d, level, "not")
                           ELSE Descend(t, n, d, Comparison)
    [] level = Comparison -> Predicates(t, Descend(t, n, d, Additive), d)
    [] level = Unary -> CASE Peek(t, n) = "-" -> Deeper(t, n, d, level, "negate")
                          [] Peek(t, n) = "+" -> Primary(t, n + 1, d)
                          [] OTHER -> Primary(t, n, d)

-----------------------------------------------------------------------------
(* Statements. *)

\* AS a name, or just the name.
Aliased(t, s) ==
  CASE s.next = 0 -> Failed
    [] Peek(t, s.next) = "AS" -> Then(s, Word(t, s.next + 1, "name", Name))
    [] Peek(t, s.next) \in Name -> Then(s, Word(t, s.next, "name", Name))
    [] OTHER -> Then(s, Read(Absent, s.next))

Projection(t, n) ==
  CASE Peek(t, n) = "*" -> Read(Star(""), n + 1)
    [] Peek(t, n) \in Name /\ Peek(t, n + 1) = "." /\ Peek(t, n + 2) = "*" -> Read(Star(Peek(t, n)), n + 3)
    [] OTHER -> Made(Aliased(t, Expression(t, n, 0)), "shown", "")

TableRef(t, n) == Made(Aliased(t, Word(t, n, "name", Name)), "table", "")

OuterKinds == {"LEFT", "RIGHT", "FULL"}
\* The words of a join up to its table.
JoinKind(t, n) ==
  CASE Peek(t, n) = "JOIN"  -> Nothing(n + 1)
    [] Peek(t, n) = "INNER" -> Expect(t, Nothing(n + 1), {"JOIN"})
    [] Peek(t, n) \in OuterKinds -> Expect(t, Skip(t, Nothing(n + 1), {"OUTER"}), {"JOIN"})
    [] OTHER -> Failed
JoinAt(t, n) ==
  LET kind  == JoinKind(t, n)
      table == Expect(t, IF kind.next = 0 THEN Failed ELSE TableRef(t, kind.next), {"ON"})
  IN  Made(Then(table, Expression(t, table.next, 0)), "join",
           IF Peek(t, n) \in OuterKinds THEN Peek(t, n) ELSE "INNER")
Joins(t, s) ==
  LET RECURSIVE More(_)
      More(before) == IF Peek(t, before.next) \in {"JOIN", "INNER"} \cup OuterKinds
                      THEN More(Then(before, JoinAt(t, before.next))) ELSE before
  IN  More(s)

OrderItem(t, n) ==
  LET key == Expression(t, n, 0)
      descending == Expect(t, key, {"DESC"})
  IN  IF descending.next # 0 THEN Made(descending, "DESC", "") ELSE Made(Skip(t, key, {"ASC"}), "ASC", "")

\* What follows the word of a clause.
ClauseBody(t, word, n) ==
  CASE word \in {"WHERE", "HAVING"} -> Expression(t, n, 0)
    [] word = "DISTINCT" -> Nothing(n)
    [] word = "USING" -> Word(t, n, "name", Method \cup Ranking)
    [] word \in {"LIMIT", "OFFSET"} -> Word(t, n, "literal", IntegerToken)
    [] word = "GROUP" /\ Peek(t, n) = "BY" -> ExpressionList(t, n + 1, 0)
    [] word = "ORDER" /\ Peek(t, n) = "BY" -> Listed(t, n + 1, LAMBDA before, m : OrderItem(t, m))
    [] OTHER -> Failed
RECURSIVE Parts(_, _, _)

Select(t, n) ==
  Made(Parts(t, Nothing(n + 1), <<"DISTINCT", "shown", "table", "joins", "WHERE", "GROUP", "HAVING",
                                  "USING", "ORDER", "LIMIT", "OFFSET">>), "select", "")

\* Every row has as many values as there are columns, or as the first row has.
ValueRow(t, n, arity) ==
  LET row == Made(Expect(t, ExpressionList(t, Expect(t, Nothing(n), {"("}).next, 0), {")"}), "row", "")
  IN  IF row.next # 0 /\ arity \notin {0, Len(row.trees[1].args)} THEN Failed ELSE row
Insert(t, n) ==
  LET table   == Word(t, Expect(t, Nothing(n + 1), {"INTO"}).next, "name", Name)
      columns == IF Peek(t, table.next) = "(" THEN Made(NameList(t, Nothing(table.next)), "list", "")
                 ELSE Read(Absent, table.next)
      values  == Expect(t, Then(table, columns), {"VALUES"})
      rows    == Listed(t, values.next, LAMBDA before, m :
                   ValueRow(t, m, Len((IF before = <<>> THEN columns.trees ELSE before)[1].args)))
  IN  IF values.next = 0 THEN Failed ELSE Made(Then(values, rows), "insert", "")

Assignment(t, before, n) ==
  IF Peek(t, n) \in Name /\ IsNew(before, Peek(t, n)) /\ Peek(t, n + 1) = "="
  THEN Made(Expression(t, n + 2, 0), "assign", Peek(t, n)) ELSE Failed
Update(t, n) ==
  LET table == Expect(t, Word(t, n + 1, "name", Name), {"SET"})
      set   == IF table.next = 0 THEN Failed
               ELSE Made(Listed(t, table.next, LAMBDA before, m : Assignment(t, before, m)), "list", "")
  IN  Made(Parts(t, Then(table, set), <<"WHERE">>), "update", "")

Delete(t, n) ==
  LET table == Word(t, Expect(t, Nothing(n + 1), {"FROM"}).next, "name", Name)
  IN  Made(Parts(t, table, <<"WHERE">>), "delete", "")

-----------------------------------------------------------------------------
(* CREATE TABLE. *)

Size(t, n) ==
  LET size == Word(t, n + 1, "literal", IntegerToken \ {"0"})
  IN  IF Peek(t, n) = "(" THEN Expect(t, size, {")"}) ELSE Read(Absent, n)
Typed(t, n) ==
  LET needs == DataType[Peek(t, n)]
      size  == Size(t, n + 1)
      sized == size.trees # <<Absent>>
  IN  IF \/ Peek(t, n) \notin DOMAIN DataType
         \/ size.next = 0
         \/ needs = "none" /\ sized
         \/ needs = "required" /\ ~sized
      THEN Failed ELSE Made(size, "type", Peek(t, n))

\* The constraints in the order they are written: the last to speak of NULL decides.
Constrained(t, s) ==
  LET first  == Peek(t, s.next)
      second == Peek(t, s.next + 1)
      with(column, n) == [trees |-> <<column>>, next |-> s.next + n]
      c == s.trees[1]
  IN  CASE first = "PRIMARY" -> IF second = "KEY" THEN with([c EXCEPT !.key = TRUE, !.nullable = FALSE], 2) ELSE Failed
        [] first = "NOT" -> IF second = "NULL" THEN with([c EXCEPT !.nullable = FALSE], 2) ELSE Failed
        [] first = "NULL" -> with([c EXCEPT !.nullable = TRUE], 1)
        [] first = "UNIQUE" -> with([c EXCEPT !.unique = TRUE], 1)
        [] first = "INDEX" -> IF second \in Method THEN with([c EXCEPT !.index = second], 2) ELSE Failed
        [] OTHER -> s
ColumnDefinition(t, n) ==
  LET type == Typed(t, n + 1)
      RECURSIVE More(_)
      More(s) == LET next == Constrained(t, s) IN IF next.next \in {0, s.next} THEN next ELSE More(next)
  IN  IF Peek(t, n) \notin Name \/ type.next = 0 THEN Failed
      ELSE More(Read(Plain(Peek(t, n), type.trees[1]), type.next))

\* A column, or the key of the table, which is declared once.
IsKey(part) == "op" \in DOMAIN part
TablePart(t, before, n) ==
  CASE Peek(t, n) = "PRIMARY" ->
         IF Peek(t, n + 1) = "KEY" /\ SelectSeq(before, IsKey) = <<>>
         THEN Made(NameList(t, Nothing(n + 2)), "key", "") ELSE Failed
    [] Peek(t, n) # "PRIMARY" /\ IsNew(SelectSeq(before, LAMBDA p : ~IsKey(p)), Peek(t, n)) -> ColumnDefinition(t, n)
    [] OTHER -> Failed

WithKey(parts) ==
  LET columns == SelectSeq(parts, LAMBDA p : ~IsKey(p))
      keys == {k.name : k \in UNION {ToSet(parts[i].args) : i \in {j \in DOMAIN parts : IsKey(parts[j])}}}
  IN  [known   |-> keys \subseteq {columns[i].name : i \in DOMAIN columns},
       columns |-> [i \in DOMAIN columns |->
          IF columns[i].name \in keys THEN [columns[i] EXCEPT !.key = TRUE, !.nullable = FALSE] ELSE columns[i]]]
CreateTable(t, n) ==
  LET table == Expect(t, IF Peek(t, n + 1) = "TABLE" THEN Word(t, n + 2, "name", Name) ELSE Failed, {"("})
      parts == IF table.next = 0 THEN Failed
               ELSE Expect(t, Listed(t, table.next, LAMBDA before, m : TablePart(t, before, m)), {")"})
      keyed == WithKey(parts.trees)
  IN  IF parts.next = 0 \/ ~keyed.known THEN Failed
      ELSE Made([parts EXCEPT !.trees = keyed.columns], "create", table.trees[1].name)

-----------------------------------------------------------------------------
Statement(t, n) ==
  CASE Peek(t, n) = "SELECT" -> Select(t, n) [] Peek(t, n) = "INSERT" -> Insert(t, n)
    [] Peek(t, n) = "UPDATE" -> Update(t, n) [] Peek(t, n) = "DELETE" -> Delete(t, n)
    [] Peek(t, n) = "CREATE" -> CreateTable(t, n) [] OTHER -> Failed

RECURSIVE Separators(_, _)
Separators(t, n) == IF Peek(t, n) = ";" THEN Separators(t, n + 1) ELSE Nothing(n)

\* A part of a text; a clause is there if its word is.
Part(t, n, part) ==
  CASE part = ";" -> Separators(t, n)
    [] part = "statement" -> Statement(t, n)
    [] part = "end" -> IF n = Len(t) + 1 THEN Nothing(n) ELSE Failed
    [] part = "shown" -> Expect(t, Made(Listed(t, n, LAMBDA before, m : Projection(t, m)), "list", ""), {"FROM"})
    [] part = "table" -> TableRef(t, n)
    [] part = "joins" -> Made(Joins(t, Nothing(n)), "list", "")
    [] Peek(t, n) = part -> Made(ClauseBody(t, part, n + 1), part, "")
    [] OTHER -> Read(Absent, n)
Parts(t, s, parts) ==
  IF s.next = 0 \/ parts = <<>> THEN s ELSE Parts(t, Then(s, Part(t, s.next, Head(parts))), Tail(parts))

\* parse_single: one statement, with semicolons around it; none if it is not accepted.
Parsed(t) == Parts(t, Nothing(1), <<";", "statement", ";", "end">>).trees

-----------------------------------------------------------------------------
(* How SQL writes a statement: an expression with the parentheses that its operators
   need and no others. *)

Level(e) ==
  CASE e.op = "OR" -> 1 [] e.op = "AND" -> 2 [] e.op = "not" -> 3
    [] e.op \in Comparisons \cup {"between", "in", "like", "is null"} -> 4
    [] e.op \in {"+", "-"} -> 5 [] e.op \in {"*", "/"} -> 6 [] e.op = "negate" -> 7 [] OTHER -> 8

InParentheses(text) == <<"(">> \o text \o <<")">>
WithCommas(texts) == FoldLeft(LAMBDA all, text : all \o <<",">> \o text, Head(texts), Tail(texts))
If(condition, text) == IF condition THEN text ELSE <<>>

RECURSIVE Written(_, _)
WrittenList(args) == WithCommas([i \in DOMAIN args |-> Written(args[i], 0)])
\* A comparison that starts with a name would be taken for an argument with a name.
WrittenArgument(arg) ==
  LET text == Written(arg, 0)
  IN  IF arg.op # "named" /\ Peek(text, 1) \in Identifier /\ Peek(text, 2) = "=" THEN InParentheses(text) ELSE text
WrittenPredicate(e) ==
  Written(e.args[1], 4)
  \o CASE e.op = "is null" -> <<"IS">> \o If(e.negated, <<"NOT">>) \o <<"NULL">>
       [] e.op = "between" -> If(e.negated, <<"NOT">>) \o <<"BETWEEN">> \o Written(e.args[2], 5)
                              \o <<"AND">> \o Written(e.args[3], 5)
       [] e.op = "like" -> If(e.negated, <<"NOT">>) \o <<"LIKE">> \o Written(e.args[2], 5)
       [] e.op = "in" -> If(e.negated, <<"NOT">>) \o <<"IN">> \o InParentheses(WrittenList(Tail(e.args)))
WrittenBare(e) ==
  CASE e.op \in {"literal", "column"} -> <<e.name>>
    [] e.op = "of" -> <<e.name, ".">> \o Written(e.args[1], 0)
    [] e.op = "star" -> If(e.name # "", <<e.name, ".">>) \o <<"*">>
    [] e.op = "tuple" -> InParentheses(WrittenList(e.args))
    [] e.op = "named" -> <<e.name, "=">> \o Written(e.args[1], 0)
    [] e.op = "call" -> <<e.name>> \o InParentheses(If(e.args # <<>>,
                          WithCommas([i \in DOMAIN e.args |-> WrittenArgument(e.args[i])])))
    [] e.op = "not" -> <<"NOT">> \o Written(e.args[1], 3)
    [] e.op = "negate" -> <<"-">> \o Written(e.args[1], 7)
    [] e.op \in {"between", "in", "like", "is null"} -> WrittenPredicate(e)
    [] OTHER -> Written(e.args[1], Level(e)) \o <<e.op>> \o Written(e.args[2], Level(e) + 1)
Written(e, level) == IF Level(e) < level THEN InParentheses(WrittenBare(e)) ELSE WrittenBare(e)

WrittenTable(e) == <<e.args[1].name>> \o If(e.args[2] # Absent, <<"AS", e.args[2].name>>)
WrittenShown(e) ==
  IF e.op = "star" THEN Written(e, 0)
  ELSE Written(e.args[1], 0) \o If(e.args[2] # Absent, <<"AS", e.args[2].name>>)
WrittenEach(args, Text(_)) == FlattenSeq([i \in DOMAIN args |-> Text(args[i])])
WrittenClause(e) ==
  CASE e = Absent -> <<>>
    [] e.op \in {"WHERE", "HAVING"} -> <<e.op>> \o Written(e.args[1], 0)
    [] e.op = "GROUP" -> <<"GROUP", "BY">> \o WrittenList(e.args)
    [] e.op = "ORDER" -> <<"ORDER", "BY">> \o WithCommas([i \in DOMAIN e.args |->
                           Written(e.args[i].args[1], 0) \o <<e.args[i].op>>])
    [] OTHER -> <<e.op>> \o If(e.args # <<>>, <<e.args[1].name>>)

WrittenColumn(c) ==
  LET size == c.type.args[1]
  IN  <<c.name, c.type.name>> \o If(size # Absent, <<"(", size.name, ")">>)
      \o If(c.key, <<"PRIMARY", "KEY">>) \o If(c.key = c.nullable, IF c.key THEN <<"NULL">> ELSE <<"NOT", "NULL">>)
      \o If(c.unique, <<"UNIQUE">>) \o If(c.index # "", <<"INDEX", c.index>>)

Statements == {"select", "insert", "update", "delete", "create"}
WrittenStatement(s) ==
  LET a == s.args
      listed(list, Text(_)) == WithCommas([i \in DOMAIN list |-> Text(list[i])])
      named(e) == <<e.name>>
  IN  CASE s.op = "select" ->
             <<"SELECT">> \o WrittenClause(a[1]) \o listed(a[2].args, WrittenShown) \o <<"FROM">>
             \o WrittenTable(a[3])
             \o WrittenEach(a[4].args, LAMBDA j : <<j.name, "JOIN">> \o WrittenTable(j.args[1])
                                                  \o <<"ON">> \o Written(j.args[2], 0))
             \o WrittenEach(SubSeq(a, 5, Len(a)), WrittenClause)
        [] s.op = "insert" ->
             <<"INSERT", "INTO", a[1].name>> \o If(a[2] # Absent, InParentheses(listed(a[2].args, named)))
             \o <<"VALUES">> \o listed(SubSeq(a, 3, Len(a)), LAMBDA row : InParentheses(WrittenList(row.args)))
        [] s.op = "update" ->
             <<"UPDATE", a[1].name, "SET">>
             \o listed(a[2].args, LAMBDA set : <<set.name, "=">> \o Written(set.args[1], 0)) \o WrittenClause(a[3])
        [] s.op = "delete" -> <<"DELETE", "FROM", a[1].name>> \o WrittenClause(a[2])
        [] s.op = "create" -> <<"CREATE", "TABLE", s.name>> \o InParentheses(listed(a, WrittenColumn))

-----------------------------------------------------------------------------
SqlInit == meant \in Meant /\ tokens = WrittenStatement(meant) /\ edits = 0

\* A word is left out, written twice or written after the one that follows it.
Mistake ==
  /\ edits < EditLimit
  /\ \E i \in DOMAIN tokens :
       tokens' \in {RemoveAt(tokens, i), InsertAt(tokens, i, tokens[i])}
                   \cup (IF i = Len(tokens) THEN {}
                         ELSE {InsertAt(RemoveAt(tokens, i), i + 1, tokens[i])})
  /\ edits' = edits + 1
  /\ UNCHANGED meant

SqlSpec == SqlInit /\ [][Mistake]_sqlVars

-----------------------------------------------------------------------------
SqlTypeOK == edits \in 0..EditLimit /\ meant.op \in Statements /\ tokens # <<>>

RECURSIVE Expressions(_)
Expressions(e) ==   \* an expression of a statement and not of another expression
  IF e.op \in Statements \cup {"list", "row", "shown", "table", "join", "assign", "name", "WHERE", "HAVING",
                               "GROUP", "ORDER", "ASC", "DESC", "USING", "LIMIT", "OFFSET", "DISTINCT", "absent"}
  THEN UNION {Expressions(e.args[i]) : i \in DOMAIN e.args} ELSE {e}
ExpressionsOf(s) == IF s.op = "create" THEN {} ELSE Expressions(s)

\* How many times the descent starts again at most, and for certain.
Restarts(t) == 1 + Cardinality({i \in DOMAIN t : t[i] \in {"(", "NOT", "-"}})

NamesAreNew(parts) == Cardinality({parts[i].name : i \in DOMAIN parts}) = Len(parts)

\* What may never be executed: expressions deeper than the limit, rows of different
\* lengths, columns assigned or declared twice.
WellFormed(s) ==
  /\ \A e \in ExpressionsOf(s) : Depth(e) <= MaxDepth
  /\ s.op = "insert" => \A i, j \in 3..Len(s.args) :
       /\ Len(s.args[i].args) = Len(s.args[j].args)
       /\ s.args[2] # Absent => NamesAreNew(s.args[2].args) /\ Len(s.args[2].args) = Len(s.args[i].args)
  /\ s.op = "update" => NamesAreNew(s.args[2].args)
  /\ s.op = "create" => NamesAreNew(s.args)

\* A statement written with no more parentheses than it needs is read as the tree it was
\* written from, whatever its operators and predicates have inside, unless it is beyond
\* the limits (then it is refused, never read as another). And a text with mistakes, if it
\* is accepted, is a statement that can be executed and that is read again as it was.
ReadAsWritten ==
  \A parsed \in {Parsed(tokens)} :
    /\ SqlTypeOK
    /\ edits = 0 => /\ parsed \in {<<>>, <<meant>>}
                    /\ WellFormed(meant) /\ Restarts(tokens) <= MaxNesting => parsed = <<meant>>
    /\ \A i \in DOMAIN parsed : \A again \in {WrittenStatement(parsed[i])} :
         WellFormed(parsed[i]) /\ Parsed(again) = parsed

=============================================================================
