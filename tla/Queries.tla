------------------------------ MODULE Queries ------------------------------
(***************************************************************************)
(* What a planned query delivers, over tables whose rows come and go: the  *)
(* ways into a table, the operators above them and, beside them, what SQL  *)
(* asks for, computed from every row of every table.                       *)
(*                                                                         *)
(* A plan only reads the catalog, so it is made once, and looked at over   *)
(* every content the tables can have.  The external algorithms the         *)
(* operators use in bounded memory are those of ExternalAlgorithms, the    *)
(* indexes those of KeyedStore, RTree and InvertedIndex: here a lookup     *)
(* finds the rows that hold the value and an ordered one has their order.  *)
(***************************************************************************)
EXTENDS Planner

CONSTANTS Statements,   \* the SELECTs that are asked
          Catalogs(_),  \* the catalogs a SELECT is asked of
          RowsOf(_, _), \* the rows a table of the SELECT may be given
          Relevance,    \* query -> text -> score, 0 if it does not match
          RowLimit      \* bound: rows of one table

VARIABLES statement, catalog, plan, rows

queries == <<statement, catalog, plan, rows>>

Value(t, i, column) == rows[t][i][CHOOSE n \in DOMAIN Columns[t] : Columns[t][n].name = column]

-----------------------------------------------------------------------------
(* The ways into a table, as the places of its rows.                       *)

Stored(t) ==
  IF catalog.organization[t] = "heap" THEN [i \in DOMAIN rows[t] |-> i]
  ELSE SetToSortSeq(DOMAIN rows[t], LAMBDA i, j : Value(t, i, PrimaryKey).of < Value(t, j, PrimaryKey).of)

ByRank(t, places, rank(_)) ==
  SetToSortSeq(places, LAMBDA i, j : rank(i) < rank(j) \/ (rank(i) = rank(j) /\ i < j))
Cut(s, limit) == IF limit = -1 \/ Len(s) <= limit THEN s ELSE SubSeq(s, 1, limit)

\* The rows of one key after another, each key once.
WithKeys(t, column, keys, stored) ==
  LET once == Firsts(keys)
  IN  FlattenSeq([n \in DOMAIN once |-> SelectSeq(stored, LAMBDA i : Value(t, i, column) = once[n])])
InBounds(v, low, high) ==
  v # Null /\ (low = Null \/ low.of <= v.of) /\ (high = Null \/ v.of <= high.of)
Distance(t, i, way) == Called("distance", <<Value(t, i, way.column), way.query>>)
ScoreOf(t, i, way) ==
  LET v == Value(t, i, way.column) IN IF v = Null THEN 0 ELSE Relevance[way.query.of][v.of]

Located(t, column) == {i \in DOMAIN rows[t] : Value(t, i, column) # Null}
ByDistance(way, places) == ByRank(way.table, places, LAMBDA i : Distance(way.table, i, way).of)
ByScore(way, places) == Cut(ByRank(way.table, places, LAMBDA i : -ScoreOf(way.table, i, way)), way.limit)

\* The stored rows that an access reads, given those whose column holds something.
Filtering(way, stored, located) ==
  SelectSeq(stored, LAMBDA i :
    CASE way.op = "scan" -> TRUE
      [] way.op = "key lookup" -> Value(way.table, i, PrimaryKey) \in ToSet(way.keys)
      [] way.op = "key range" -> InBounds(Value(way.table, i, way.column), way.low, way.high)
      [] way.op = "radius" -> i \in located /\ Distance(way.table, i, way).of <= way.high.of
      [] way.op = "polygon" -> i \in located /\ Value(way.table, i, way.column).of <= way.query.of
      [] way.op = "nearest" -> i \notin located)

RECURSIVE Places(_)
PlacesOf(way, stored, located) ==
  CASE way.op = "key lookup" /\ catalog.organization[way.table] # "heap" ->
         WithKeys(way.table, PrimaryKey, way.keys, stored)
    [] way.op = "index lookup" -> WithKeys(way.table, way.column, way.keys, stored)
    [] way.op = "index range" ->
         ByRank(way.table, {i \in located : InBounds(Value(way.table, i, way.column), way.low, way.high)},
                LAMBDA i : Value(way.table, i, way.column).of)
    [] way.op = "match" -> ByScore(way, {i \in located : ScoreOf(way.table, i, way) > 0})
    [] way.op = "similar" -> ByScore(way, IF way.before = <<>> THEN located
         ELSE {i \in located \cap ToSet(Places(way.before[1])) :
                 Matches(way.condition, LayoutOf(way.table), rows[way.table][i]) = Truth(TRUE)})
    [] OTHER -> Filtering(way, stored, located)
                \o (IF way.op = "nearest" THEN ByDistance(way, located) ELSE <<>>)
Places(way) == PlacesOf(way, Stored(way.table), Located(way.table, way.column))

\* The rows in those places, with their score if the access gives one.
Scored(way, places) ==
  [n \in DOMAIN places |->
     rows[way.table][places[n]]
     \o (IF way.op \in {"match", "similar"}
         THEN <<Is("number", 2 * ScoreOf(way.table, places[n], way))>> ELSE <<>>)]
Read(way) == Scored(way, Places(way))

-----------------------------------------------------------------------------
(* The operators.                                                          *)

NoneOf(layout) == [i \in DOMAIN layout |-> Null]

\* The pairs that meet, and, in an outer join, the rows of either side that met nobody.  In
\* which order they come out, by blocks or by partitions, is a matter of ExternalAlgorithms.
Alone(side, s, met) == SelectSeq([i \in DOMAIN s |-> i], LAMBDA i : \A p \in met : p[side] # i)
PairedAs(lefts, rights, met, lonelyLeft, lonelyRight, nothingLeft, nothingRight) ==
  LET ordered == SetToSortSeq(met, LAMBDA p, q : p[1] < q[1] \/ (p[1] = q[1] /\ p[2] < q[2]))
  IN  [n \in DOMAIN ordered |-> lefts[ordered[n][1]] \o rights[ordered[n][2]]]
      \o [n \in DOMAIN lonelyLeft |-> lefts[lonelyLeft[n]] \o nothingRight]
      \o [n \in DOMAIN lonelyRight |-> nothingLeft \o rights[lonelyRight[n]]]
Paired(lefts, rights, kind, met, nothingLeft, nothingRight) ==
  PairedAs(lefts, rights, met,
           IF kind \in {"left", "full"} THEN Alone(1, lefts, met) ELSE <<>>,
           IF kind \in {"right", "full"} THEN Alone(2, rights, met) ELSE <<>>,
           nothingLeft, nothingRight)

\* A key that is NULL meets nothing; equal keys still have to accept each other.
SameKeys(join, l, r) ==
  \A i \in DOMAIN join.keys :
    LET v == Evaluate(join.keys[i][1], join.left, l) IN
    v # Null /\ v = Evaluate(join.keys[i][2], join.layout, r)
JoinRows(lefts, join, rights) ==
  Paired(lefts, rights, join.kind,
         {p \in (DOMAIN lefts) \X (DOMAIN rights) :
            /\ SameKeys(join, lefts[p[1]], rights[p[2]])
            /\ Matches(join.condition, join.left \o join.layout, lefts[p[1]] \o rights[p[2]]) = Truth(TRUE)},
         NoneOf(join.left), NoneOf(join.layout))
Joined == FoldLeft(LAMBDA lefts, join : JoinRows(lefts, join, Read(join.way)), Read(plan.source), plan.joins)

Summary(call, present) ==
  CASE call.op = "count" -> Is("number", 2 * Len(present))
    [] present = <<>> -> Null
    [] call.op = "sum" -> Is("number", FoldLeft(LAMBDA sum, v : sum + v.of, 0, present))
    [] call.op = "max" -> CHOOSE v \in ToSet(present) : \A w \in ToSet(present) : w.of <= v.of
SummaryOf(call, layout, group) ==
  Summary(call, SelectSeq([i \in DOMAIN group |->
                  IF call.args = <<>> THEN Truth(TRUE) ELSE Evaluate(call.args[1], layout, group[i])],
                LAMBDA v : v # Null))

\* Groups in the order of their first row; without GROUP BY, one group of everything.
SplitBy(all, keyOf) ==
  LET found == Firsts(keyOf)
      of(key) == SelectSeq([i \in DOMAIN all |-> i], LAMBDA i : keyOf[i] = key)
  IN  [n \in DOMAIN found |-> [key |-> found[n], of |-> [m \in DOMAIN of(found[n]) |-> all[of(found[n])[m]]]]]
Split(all, layout, keys) ==
  IF keys = <<>> THEN <<[key |-> <<>>, of |-> all]>>
  ELSE SplitBy(all, [n \in DOMAIN all |-> [i \in DOMAIN keys |-> Evaluate(keys[i], layout, all[n])]])

Filtered(all, condition, layout) ==
  SelectSeq(all, LAMBDA row : Matches(condition, layout, row) = Truth(TRUE))

\* NULL goes first, and last in descending order.
Precedes(u, v, down) == IF down THEN v # u /\ (v = Null \/ (u # Null /\ v.of < u.of))
                        ELSE v # u /\ (u = Null \/ (v # Null /\ u.of < v.of))
Before(order, a, b) ==
  \E n \in DOMAIN order : /\ Precedes(a.keys[n], b.keys[n], order[n].down)
                          /\ \A m \in 1..(n - 1) : a.keys[m] = b.keys[m]

\* The places of rows in the order of their keys; those that tie stay as they were.
Turns(order, shown) ==
  SetToSortSeq(DOMAIN shown, LAMBDA i, j :
    Before(order, shown[i], shown[j]) \/ (~Before(order, shown[j], shown[i]) /\ i < j))
At(s, places) == [n \in DOMAIN places |-> s[places[n]]]

Groups(split) ==
  Filtered([n \in DOMAIN split |-> split[n].key \o
              [i \in DOMAIN plan.calls |-> SummaryOf(plan.calls[i], plan.rows, split[n].of)]],
           plan.having, plan.layout)
Made(filtered) == IF plan.grouped THEN Groups(Split(filtered, plan.rows, plan.keys)) ELSE filtered
Shown(made) ==
  [n \in DOMAIN made |->
     [out |-> [i \in DOMAIN plan.columns |-> Evaluate(plan.columns[i], plan.layout, made[n])],
      keys |-> [i \in DOMAIN plan.order |-> Evaluate(plan.order[i].key, plan.layout, made[n])]]]
Sorted(shown) == IF plan.sorts /\ plan.order # <<>> THEN At(shown, Turns(plan.order, shown)) ELSE shown
Distinct(sorted) ==
  At(sorted, SelectSeq([n \in DOMAIN sorted |-> n],
                       LAMBDA n : ~plan.distinct \/ \A m \in 1..(n - 1) : sorted[m].out # sorted[n].out))
Page(all) == Cut(SubSeq(all, plan.offset + 1, Len(all)), plan.limit)

\* Each delivered row with what it was ordered by.
Delivered == Page(Distinct(Sorted(Shown(Made(Filtered(Joined, plan.where, plan.rows))))))

-----------------------------------------------------------------------------
(* What SQL asks for, from the statement and every row.                    *)

\* A search gives each row it may deliver a score; SIMILAR_TO takes its k best.
Search(call, found, s) ==
  [Way(call.op, found.table) EXCEPT !.column = found.column, !.query = TextOf(call),
     !.limit = IF call.op = "similar" THEN NumberAsked(call).of \div 2 ELSE -1,
     !.condition = IF call.op = "similar" /\ s.joins = <<>> THEN Unscored(s.where) ELSE Absent]
SearchOf(s) ==
  IF Asked(statement) = <<>> THEN NoWay ELSE Search(Asked(statement)[1], Answering(statement, catalog)[1], s)

Able(search) ==
  {i \in Located(search.table, search.column) :
     IF search.op = "match" THEN ScoreOf(search.table, i, search) > 0
     ELSE Matches(search.condition, LayoutOf(search.table), rows[search.table][i]) = Truth(TRUE)}
Best(search, able) ==
  {i \in able :
     \/ search.limit = -1
     \/ search.limit > Cardinality({j \in able :
          LET better == ScoreOf(search.table, j, search) - ScoreOf(search.table, i, search)
          IN  better > 0 \/ (better = 0 /\ j < i)})}
RowsAsked(t, search) ==
  IF t # search.table THEN rows[t]
  ELSE Scored(search, SetToSortSeq(Best(search, Able(search)), LAMBDA i, j : i < j))
SlotsAsked(t, search) == LayoutOf(t) \o (IF t = search.table THEN <<ScoreSlot(t)>> ELSE <<>>)

\* Every pair of rows and what the ON answers of each.
Crossed(before, join, slots, others) ==
  LET answer(p) == Matches(join.on, before.layout \o slots, before.rows[p[1]] \o others[p[2]])
      pairs == (DOMAIN before.rows) \X (DOMAIN others)
  IN  [layout |-> before.layout \o slots,
       rows |-> Paired(before.rows, others, join.kind, {p \in pairs : answer(p) = Truth(TRUE)},
                       NoneOf(before.layout), NoneOf(slots)),
       answers |-> before.answers \cup {answer(p) : p \in pairs}]
Product(s, search) ==
  FoldLeft(LAMBDA before, join :
             Crossed(before, join, SlotsAsked(join.table, search), RowsAsked(join.table, search)),
           [layout |-> SlotsAsked(s.from, search), rows |-> RowsAsked(s.from, search), answers |-> {}],
           s.joins)

\* Over a group, an aggregation and a key are constants: no column stands for them.
OverGroup(e, group, keys, layout, projections) ==
  LET summary(call) == Literal(SummaryOf(call, layout, group.of))
      aliased == {p \in ToSet(projections) : p.of.op \in Aggregates /\ p.alias # ""
                                             /\ Meant(layout, Column("", p.alias)) = {}}
      same(x, k) == Qualified(x, layout) = Qualified(k, layout)
  IN  Rewritten(e,
        {<<c, summary(c)>> : c \in {x \in Within(e) : x.op \in Aggregates}}
        \cup {<<p[1], Literal(group.key[p[2]])>> : p \in {q \in Within(e) \X (DOMAIN keys) : same(q[1], keys[q[2]])}}
        \cup {<<Column("", p.alias), summary(p.of)>> : p \in aliased})

\* The rows asked for, each with what it is ordered by, and every value met on the way.
ShownOf(s, shown, answers) ==
  [rows |-> shown,
   answers |-> answers \cup UNION {ToSet(shown[n].out) \cup ToSet(shown[n].keys) : n \in DOMAIN shown}]
WantedOf(s, columns, sortKeys, filtered, layout, keys, answers) ==
  LET over(e, group) == Evaluate(OverGroup(e, group, keys, layout, s.projections), layout, NoneOf(layout))
      groups == SelectSeq(Split(filtered, layout, keys),
                          LAMBDA g : s.having = Absent \/ over(s.having, g) = Truth(TRUE))
      plainly(es, row) == [i \in DOMAIN es |-> Evaluate(es[i], layout, row)]
      together(es, group) == [i \in DOMAIN es |-> over(es[i], group)]
  IN  ShownOf(s, IF keys # <<>> \/ AggregatesOf(s) # <<>>
                 THEN [n \in DOMAIN groups |->
                         [out |-> together(columns, groups[n]), keys |-> together(sortKeys, groups[n])]]
                 ELSE [n \in DOMAIN filtered |->
                         [out |-> plainly(columns, filtered[n]), keys |-> plainly(sortKeys, filtered[n])]],
              answers)
WantedFrom(s, product, tested) ==
  WantedOf(s,
    FlattenSeq([i \in DOMAIN s.projections |->
      IF s.projections[i].of.op = "star" THEN Expanded(s.projections[i].of, product.layout)
      ELSE <<s.projections[i].of>>]),
    [i \in DOMAIN s.order |-> OrderKey(s.order[i].key, s.projections)],
    At(product.rows, SelectSeq([n \in DOMAIN tested |-> n], LAMBDA n : tested[n] = Truth(TRUE))),
    product.layout,
    [i \in DOMAIN s.group |-> GroupKey(s.group[i], s.projections, product.layout)],
    product.answers \cup ToSet(tested))
WantedBy(s, product) ==
  WantedFrom(s, product, [n \in DOMAIN product.rows |-> Matches(s.where, product.layout, product.rows[n])])

-----------------------------------------------------------------------------
QueriesInit ==
  /\ statement \in Statements
  /\ catalog \in Catalogs(statement)
  /\ plan = Unplanned
  /\ rows = [t \in DOMAIN Columns |-> <<>>]

MakePlan ==
  /\ plan = Unplanned
  /\ \E made \in {PlanOf(statement, catalog)} : made.accepted /\ plan' = made
  /\ UNCHANGED <<statement, catalog, rows>>

\* A row with a new key is stored in a table of the statement.
Store ==
  \E t \in ToSet(SourcesOf(statement)) : \E row \in RowsOf(statement, t) :
    /\ plan.accepted
    /\ Len(rows[t]) < RowLimit
    /\ \A i \in DOMAIN rows[t] : rows[t][i][1] # row[1]
    /\ rows' = [rows EXCEPT ![t] = Append(@, row)]
    /\ UNCHANGED <<statement, catalog, plan>>

QueriesNext == MakePlan \/ Store
QueriesSpec == QueriesInit /\ [][QueriesNext]_queries

-----------------------------------------------------------------------------
\* The rows that SQL asks for, in an order it allows, cut where it says.
AnswersIn(s, delivered, wanted, outs, sorted) ==
  LET total == IF s.distinct THEN Cardinality(outs) ELSE Len(wanted)
      left == IF total > s.offset THEN total - s.offset ELSE 0
      times(x, all) == Cardinality({n \in DOMAIN all : all[n] = x})
      timesOut(x, all) == Cardinality({n \in DOMAIN all : all[n].out = x})
  IN  /\ Len(delivered) = IF s.limit = -1 \/ left <= s.limit THEN left ELSE s.limit
      /\ \A x \in ToSet(delivered) : times(x, delivered) <= times(x, wanted)
      /\ s.distinct => \A out \in outs : timesOut(out, delivered) <= 1
      /\ s.order # <<>> /\ ~s.distinct =>
           \A n \in DOMAIN delivered : delivered[n].keys = wanted[sorted[s.offset + n]].keys
      /\ \A n \in 1..(Len(delivered) - 1) : ~Before(s.order, delivered[n + 1], delivered[n])
AnswersTo(s, delivered, wanted) ==
  AnswersIn(s, delivered, wanted, {wanted[n].out : n \in DOMAIN wanted}, Turns(s.order, wanted))
Answered(s, wanted) ==
  /\ Wrong \notin wanted.answers
  /\ Failed \notin wanted.answers => AnswersTo(s, Delivered, wanted.rows)
AnsweredFully(s) == Answered(s, WantedBy(s, Product(s, SearchOf(s))))

\* Whatever index or organization the planner reads through, a SELECT delivers the rows that
\* its conditions select from everything, in the order it asks for; no value of a column makes
\* an accepted statement meet a type it did not expect (ExpressionEvaluator.validate); and
\* whether it is accepted does not depend on the indexes there are (comparison.py:1-8).
QueriesAnswer ==
  LET plain == [organization |-> [t \in DOMAIN catalog.organization |-> "heap"],
                indexes |-> [t \in DOMAIN catalog.indexes |->
                  SelectSeq(catalog.indexes[t], LAMBDA x : x.method \in {"inverted", "hnsw"})]]
  IN  /\ plan = Unplanned => Cardinality({PlanOf(statement, c).accepted : c \in {catalog, plain}}) = 1
      /\ plan.accepted => AnsweredFully(Served(statement))

=============================================================================
