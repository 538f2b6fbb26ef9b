------------------------------ MODULE Planner ------------------------------
(***************************************************************************)
(* The rule-based planner: which way a SELECT reads each table, what it    *)
(* joins, groups, sorts and cuts, and which statements it rejects.  It     *)
(* looks at the catalog and never at the rows.                             *)
(*                                                                         *)
(* A statement is [from, joins, where, projections, group, having, order,  *)
(* distinct, limit, offset]; a limit of -1 is none and a table's alias is  *)
(* its name.  The catalog gives each table its organization and its        *)
(* indexes, in the order they were created.                                *)
(***************************************************************************)
EXTENDS Expressions

CONSTANTS Columns       \* table -> its columns, sequence of [name, type]

PrimaryKey == "id"
KeyedOrganizations == {"sequential", "clustered"}
Capabilities(method) ==
  CASE method = "btree" -> {"equality", "range"} [] method = "hash" -> {"equality"}
    [] method = "rtree" -> {"equality", "spatial"} [] method = "inverted" -> {"text"}
    [] method = "hnsw" -> {"similarity"}

Firsts(s) == FoldLeft(LAMBDA seen, x : IF x \in ToSet(seen) THEN seen ELSE Append(seen, x), <<>>, s)
SourcesOf(s) == <<s.from>> \o [i \in DOMAIN s.joins |-> s.joins[i].table]
IsField(t, name) == \E i \in DOMAIN Columns[t] : Columns[t][i].name = name
TypeOf(t, name) == Columns[t][CHOOSE i \in DOMAIN Columns[t] : Columns[t][i].name = name].type
LayoutOf(t) == [i \in DOMAIN Columns[t] |->
                  [table |-> t, name |-> Columns[t][i].name, type |-> Columns[t][i].type, computed |-> FALSE]]
ScoreSlot(t) == [table |-> t, name |-> Score.name, type |-> "FLOAT", computed |-> FALSE]

\* The most specialised index that answers, and the oldest of those.
IndexFor(catalog, t, column, capability) ==
  LET able == SelectSeq(catalog.indexes[t], LAMBDA x : x.column = column /\ capability \in Capabilities(x.method))
      fewest == {i \in DOMAIN able : \A j \in DOMAIN able :
                   Cardinality(Capabilities(able[i].method)) <= Cardinality(Capabilities(able[j].method))}
  IN  IF able = <<>> THEN "" ELSE able[CHOOSE i \in fewest : \A j \in fewest : i <= j].method

-----------------------------------------------------------------------------
(* The searches that score: MATCH by an inverted index, SIMILAR_TO by a    *)
(* similarity index.  Only one, joined to the rest of the WHERE by AND.    *)

RECURSIVE CallsTo(_, _)
CallsTo(ops, e) == IF e.op \in ops THEN <<e>>
                   ELSE FlattenSeq([i \in DOMAIN e.args |-> CallsTo(ops, e.args[i])])
Everywhere(s) == {s.where, s.having} \cup {s.projections[i].of : i \in DOMAIN s.projections}
  \cup {s.joins[i].on : i \in DOMAIN s.joins} \cup {s.order[i].key : i \in DOMAIN s.order} \cup ToSet(s.group)
Asked(s) == CallsTo({"match", "similar"}, s.where)

\* The indexes that could answer: a MATCH names its column, a SIMILAR_TO may not.
Answering(s, catalog) ==
  LET call == Asked(s)[1]
      sources == SourcesOf(s)
      all == FlattenSeq([i \in DOMAIN sources |-> LayoutOf(sources[i])])
      named == call.args[1].op = "column"
      capability == IF call.op = "match" THEN "text" ELSE "similarity"
      on(t) == SelectSeq(catalog.indexes[t], LAMBDA x : capability \in Capabilities(x.method))
      answers == FlattenSeq([i \in DOMAIN sources |-> LET of == on(sources[i]) IN
                   [n \in DOMAIN of |-> [table |-> sources[i], column |-> of[n].column]]])
      slot == all[SlotOf(all, call.args[1])]
  IN  IF ~named THEN answers ELSE IF ~Has(all, call.args[1]) THEN <<>>
      ELSE SelectSeq(answers, LAMBDA x : x.table = slot.table /\ x.column = slot.name)

TextOf(call) == ConstantValue(Last(SelectSeq(call.args, LAMBDA a : a.op # "k")))
NumberAsked(call) == ConstantValue(SelectSeq(call.args, LAMBDA a : a.op = "k")[1].args[1])
IsCount(v) == v.family = "number" /\ v.of % 2 = 0 /\ v.of >= 2

SearchFits(s, catalog) ==
  IF Asked(s) = <<>> THEN \A e \in Everywhere(s) : CallsTo({"score"}, e) = <<>>
  ELSE LET call == Asked(s)[1]
           counts == Cardinality({i \in DOMAIN call.args : call.args[i].op = "k"})
       IN  /\ Len(Asked(s)) = 1
           /\ call \in ToSet(Conjuncts(s.where))
           /\ call.op = "match" => call.args[1].op = "column" /\ Len(call.args) = 2 /\ counts = 0
           /\ call.op = "similar" => counts = 1 /\ IsCount(NumberAsked(call))
           /\ TextOf(call).family = "text"
           /\ IF call.op = "match" THEN Answering(s, catalog) # <<>> ELSE Len(Answering(s, catalog)) = 1

\* The statement that is left once the access answers: without the call, the score a column.
Served(s) ==
  LET read(e) == Rewritten(e, {<<Node("score", <<>>), Score>>})
      rest == SelectSeq(Conjuncts(s.where), LAMBDA c : c.op \notin {"match", "similar"})
  IN  IF Asked(s) = <<>> THEN s
      ELSE [s EXCEPT
             !.where = AllOf([i \in DOMAIN rest |-> read(rest[i])]),
             !.projections = [i \in DOMAIN s.projections |->
                LET p == s.projections[i] IN
                [of |-> read(p.of),
                 alias |-> IF p.of = Node("score", <<>>) /\ p.alias = "" THEN "score" ELSE p.alias]],
             !.joins = [i \in DOMAIN @ |-> [@[i] EXCEPT !.on = read(@)]],
             !.group = [i \in DOMAIN @ |-> read(@[i])],
             !.having = read(@),
             !.order = [i \in DOMAIN @ |-> [@[i] EXCEPT !.key = read(@)]]]

OrderedByScore(s) ==
  Len(s.order) = 1 /\ s.order[1].down /\ OrderKey(s.order[1].key, s.projections) = Score

-----------------------------------------------------------------------------
(* The ways into one table.                                                *)

Way(op, t) == [op |-> op, table |-> t, column |-> "", keys |-> <<>>, low |-> Null, high |-> Null,
               query |-> Null, limit |-> -1, condition |-> Absent, before |-> <<>>]
Rejected == Way("rejected", "")
NoWay == Way("none", "")
Ranking(way) ==
  CASE way.op \in {"index lookup", "key lookup"} -> 0 [] way.op \in {"radius", "polygon"} -> 1
    [] Null \notin {way.low, way.high} -> 2 [] OTHER -> 3

\* With several tables, a column without its table could belong to any of them.
ColumnNamed(e, t, single) ==
  IF e.op = "column" /\ (e.table = t \/ (e.table = "" /\ single)) THEN e.name ELSE ""

Sides(c) == {<<c.args[1], c.args[2], c.op>>,
             <<c.args[2], c.args[1],
               CASE c.op = "<" -> ">" [] c.op = "<=" -> ">=" [] c.op = ">" -> "<" [] c.op = ">=" -> "<="
                 [] OTHER -> c.op>>}
\* A column of the table on one side and a constant on the other: <<column, value, op>>.
Usable(c, t, single) ==
  {side \in {<<ColumnNamed(x[1], t, single), ConstantValue(x[2]), x[3]>> : x \in Sides(c)} :
     side[1] # "" /\ ~Raises(side[2])}

NoLookup == [column |-> "", keys |-> <<>>]
NoRange == [column |-> "", low |-> Null, high |-> Null]

EqualTo(sides) ==
  IF sides = {} THEN NoLookup
  ELSE LET side == CHOOSE x \in sides : TRUE IN [column |-> side[1], keys |-> <<side[2]>>]
OneOf(column, options) ==
  IF column = "" \/ FirstRaised(options) # Null THEN NoLookup
  ELSE [column |-> column, keys |-> SelectSeq(options, LAMBDA v : v # Null)]
From(sides) ==
  LET side == CHOOSE x \in sides : TRUE IN
  IF sides = {} THEN NoRange
  ELSE IF side[3] \in {"<", "<="} THEN [column |-> side[1], low |-> Null, high |-> side[2]]
  ELSE [column |-> side[1], low |-> side[2], high |-> Null]
BetweenBounds(column, low, high) ==
  IF column = "" \/ Raises(low) \/ Raises(high) THEN NoRange
  ELSE [column |-> column, low |-> low, high |-> high]

\* col = constant, or col IN (constants); a NULL of the list equals nothing.
LookupOn(c, t, single) ==
  CASE c.op = "in" /\ ~c.negated ->
         OneOf(ColumnNamed(c.args[1], t, single), [i \in 1..Len(c.args) - 1 |-> ConstantValue(c.args[i + 1])])
    [] c.op = "=" -> EqualTo(Usable(c, t, single))
    [] OTHER -> NoLookup

RangeOn(c, t, single) ==
  CASE c.op = "between" /\ ~c.negated ->
         BetweenBounds(ColumnNamed(c.args[1], t, single), ConstantValue(c.args[2]), ConstantValue(c.args[3]))
    [] c.op \in Comparisons \ Equalities -> From(Usable(c, t, single))
    [] OTHER -> NoRange

\* A constant that no row of the column can hold is not looked for: NULL if so.
StoredKey(type, v) ==
  IF v = Null THEN Null
  ELSE IF (type = "INT" /\ v.family = "number" /\ v.of % 2 = 1)
          \/ (type = "VARCHAR" /\ v.family = "text" /\ v.of \in LongText) THEN Null
  ELSE LiteralFor(type, v)

EqualityWay(catalog, t, lookup) ==
  LET stored == [i \in DOMAIN lookup.keys |-> StoredKey(TypeOf(t, lookup.column), lookup.keys[i])]
      keys == SelectSeq(stored, LAMBDA v : v # Null)
  IN  IF ~IsField(t, lookup.column) THEN NoWay
      ELSE IF FirstRaised(stored) # Null THEN Rejected
      ELSE IF IndexFor(catalog, t, lookup.column, "equality") # ""
      THEN [Way("index lookup", t) EXCEPT !.column = lookup.column, !.keys = keys]
      ELSE IF lookup.column = PrimaryKey THEN [Way("key lookup", t) EXCEPT !.keys = keys] ELSE NoWay

\* distance(column, constant point), in either order; the point is NULL if it is not that.
TargetOf(sides) ==
  IF sides = {} THEN [column |-> Absent, center |-> Null]
  ELSE LET side == CHOOSE x \in sides : TRUE IN [column |-> side[1], center |-> side[2]]
DistanceTarget(e) ==
  TargetOf(IF e.op # "distance" THEN {}
           ELSE {side \in {<<e.args[i], ConstantValue(e.args[3 - i])>> : i \in 1..2} :
                   side[1].op = "column" /\ side[2].family = "point"})

SpatiallyIndexed(catalog, t, column, single) ==
  ColumnNamed(column, t, single) # "" /\ IndexFor(catalog, t, column.name, "spatial") # ""
RadiusWay(catalog, t, target, radius, single) ==
  IF /\ target.center # Null /\ radius.family = "number"
     /\ SpatiallyIndexed(catalog, t, target.column, single)
  THEN [Way("radius", t) EXCEPT !.column = target.column.name, !.query = target.center, !.high = radius]
  ELSE NoWay
PolygonWay(catalog, t, column, polygon, single) ==
  IF polygon.family = "polygon" /\ SpatiallyIndexed(catalog, t, column, single)
  THEN [Way("polygon", t) EXCEPT !.column = column.name, !.query = polygon] ELSE NoWay
SpatialWay(catalog, t, c, single) ==
  LET near(distance, radius) == RadiusWay(catalog, t, DistanceTarget(distance), ConstantValue(radius), single)
  IN  CASE c.op \in {"<", "<="} -> near(c.args[1], c.args[2])
        [] c.op \in {">", ">="} -> near(c.args[2], c.args[1])
        [] c.op = "inside" -> PolygonWay(catalog, t, c.args[1], ConstantValue(c.args[2]), single)
        [] OTHER -> NoWay

\* The greatest of the lower bounds and the least of the upper ones, all of them closed.
Narrowed(t, column, intervals) ==
  LET bounds(of(_)) == {LiteralFor(TypeOf(t, column), of(x)) :
                          x \in {y \in ToSet(intervals) : y.column = column /\ of(y) # Null}}
      lows == bounds(LAMBDA x : x.low)
      highs == bounds(LAMBDA x : x.high)
  IN  IF \E v \in lows \cup highs : Raises(v) THEN [low |-> Wrong, high |-> Wrong]
      ELSE [low |-> IF lows = {} THEN Null ELSE CHOOSE v \in lows : \A w \in lows : w.of <= v.of,
            high |-> IF highs = {} THEN Null ELSE CHOOSE v \in highs : \A w \in highs : v.of <= w.of]

RangeWay(catalog, t, column, intervals) ==
  LET range == Narrowed(t, column, intervals)
      bounded(op) == [Way(op, t) EXCEPT !.column = column, !.low = range.low, !.high = range.high]
  IN  IF range.low = Wrong THEN Rejected
      ELSE IF column = PrimaryKey /\ catalog.organization[t] \in KeyedOrganizations THEN bounded("key range")
      ELSE IF IndexFor(catalog, t, column, "range") # "" THEN bounded("index range") ELSE NoWay

\* What a condition offers: a lookup, or a bound, or else a spatial search.
Offer(catalog, t, c, single) ==
  [lookup |-> LookupOn(c, t, single), range |-> RangeOn(c, t, single), spatial |-> SpatialWay(catalog, t, c, single)]
Offers(catalog, t, conditions, single) ==
  [i \in DOMAIN conditions |-> Offer(catalog, t, conditions[i], single)]
DirectWay(catalog, t, offer) ==
  IF offer.lookup.column # "" THEN EqualityWay(catalog, t, offer.lookup)
  ELSE IF offer.range.column # "" THEN NoWay ELSE offer.spatial

WaysFrom(catalog, t, offers) ==
  LET intervals == SelectSeq([i \in DOMAIN offers |-> offers[i].range],
                             LAMBDA r : r.column # "" /\ IsField(t, r.column))
      columns == Firsts([i \in DOMAIN intervals |-> intervals[i].column])
  IN  [i \in DOMAIN offers |-> DirectWay(catalog, t, offers[i])]
      \o [i \in DOMAIN columns |-> RangeWay(catalog, t, columns[i], intervals)]

BestWay(t, ways) ==
  LET found == SelectSeq(ways, LAMBDA w : w # NoWay)
      best == {i \in DOMAIN found : \A j \in DOMAIN found : Ranking(found[i]) <= Ranking(found[j])}
  IN  IF Rejected \in ToSet(found) THEN Rejected
      ELSE IF found = <<>> THEN Way("scan", t)
      ELSE found[CHOOSE i \in best : \A j \in best : i <= j]

\* The best way the conditions of the WHERE offer, or reading the whole table.
PlainWay(catalog, t, where, single) ==
  CHOOSE way \in {BestWay(t, WaysFrom(catalog, t, offers)) :
                    offers \in {Offers(catalog, t, Conjuncts(where), single)}} : TRUE

Unscored(where) == AllOf(SelectSeq(Conjuncts(where), LAMBDA c : Score \notin Within(c)))
SearchedTable(s, catalog) == IF Asked(s) = <<>> THEN "" ELSE Answering(s, catalog)[1].table

\* The filter comes before a SIMILAR_TO if there is one table.
SimilarWay(catalog, way, filter) ==
  IF filter = Absent THEN way
  ELSE IF ~ValidCondition(filter, LayoutOf(way.table)) THEN Rejected
  ELSE [way EXCEPT !.condition = filter, !.before = <<PlainWay(catalog, way.table, filter, TRUE)>>]

\* The table that is searched is read by its index; a MATCH may be told how many rows
\* are enough.
AccessWay(s, served, catalog, t, enough) ==
  LET call == Asked(s)[1]
      way == [Way(call.op, t) EXCEPT !.column = Answering(s, catalog)[1].column, !.query = TextOf(call)]
  IN  IF t # SearchedTable(s, catalog) THEN PlainWay(catalog, t, served.where, s.joins = <<>>)
      ELSE IF call.op = "match" THEN [way EXCEPT !.limit = enough]
      ELSE SimilarWay(catalog, [way EXCEPT !.limit = NumberAsked(call).of \div 2],
                      IF s.joins = <<>> THEN Unscored(served.where) ELSE Absent)

\* A plausible slip: it cuts although the rest of the WHERE may still drop rows.
RankedLimitUnfiltered(served, grouped) ==
  IF \/ served.limit = -1 \/ grouped \/ served.joins # <<>> \/ served.distinct
     \/ (served.order # <<>> /\ ~OrderedByScore(served))
  THEN -1 ELSE served.limit + served.offset

\* How many of the best rows are enough: all of them if anything may still drop or move one.
RankedLimit(served, grouped) ==
  IF \/ served.limit = -1 \/ grouped \/ served.joins # <<>> \/ served.distinct
     \/ served.where # Absent \/ (served.order # <<>> /\ ~OrderedByScore(served))
  THEN -1 ELSE served.limit + served.offset

\* The access that already gives the rows in the order that is asked for; NoWay if none.
PresortedBy(s, catalog, source, key, target) ==
  LET rising == Len(s.order) = 1 /\ ~s.order[1].down
      single == s.joins = <<>>
      byKey == /\ rising /\ catalog.organization[s.from] \in KeyedOrganizations
               /\ ColumnNamed(key, s.from, single) = PrimaryKey
  IN  CASE rising /\ source.op = "scan" /\ target.center # Null
           /\ SpatiallyIndexed(catalog, s.from, target.column, single) ->
             [Way("nearest", s.from) EXCEPT !.column = target.column.name, !.query = target.center]
        [] byKey /\ source.op \in {"scan", "key range"} -> source
        [] byKey /\ source.op = "key lookup" /\ Len(source.keys) <= 1 -> source
        [] source.op \in {"match", "similar"} /\ OrderedByScore(s) -> source
        [] OTHER -> NoWay
Presorted(s, catalog, source) ==
  IF s.order = <<>> THEN NoWay
  ELSE LET key == OrderKey(s.order[1].key, s.projections)
       IN  PresortedBy(s, catalog, source, key, DistanceTarget(key))

-----------------------------------------------------------------------------
(* Joins, groups and the plan.                                             *)

\* The two columns of an equality that a hash join can split rows by.
HashablePairs(c, left, right) ==
  {p \in IF c.op = "=" THEN {<<c.args[1], c.args[2]>>, <<c.args[2], c.args[1]>>} ELSE {} :
     /\ p[1].op = "column" /\ p[2].op = "column" /\ Has(left, p[1]) /\ Has(right, p[2])
     /\ FamilyOfType(TypeIn(left, p[1])) = FamilyOfType(TypeIn(right, p[2]))}

JoinPlan(join, way, left, right) ==
  LET parts == Conjuncts(join.on)
      keyed == SelectSeq(parts, LAMBDA c : HashablePairs(c, left, right) # {})
      rest == SelectSeq(parts, LAMBDA c : HashablePairs(c, left, right) = {})
  IN  [way |-> way, kind |-> join.kind, condition |-> AllOf(rest), left |-> left, layout |-> right,
       keys |-> [i \in DOMAIN keyed |-> CHOOSE p \in HashablePairs(keyed[i], left, right) : TRUE]]

AggregatesOf(s) ==
  LET inside(e) == CallsTo(Aggregates, e)
  IN  FlattenSeq([i \in DOMAIN s.projections |-> inside(s.projections[i].of)]) \o inside(s.having)
      \o FlattenSeq([i \in DOMAIN s.order |-> inside(s.order[i].key)])

\* Every aggregation with the name of its column: its alias, or how it is written. Those
\* that are written the same are taken for one.
Labelled(s) ==
  LET plain == SelectSeq(s.projections, LAMBDA p : p.of.op \in Aggregates)
      calls == AggregatesOf(s)
      column(call, alias, text) == [call |-> call, text |-> text, label |-> IF alias = "" THEN text ELSE alias]
  IN  FoldLeft(LAMBDA all, a : IF \E i \in DOMAIN all : all[i].text = a.text THEN all ELSE Append(all, a),
               [i \in DOMAIN plain |-> column(plain[i].of, plain[i].alias, Described(plain[i].of))],
               [i \in DOMAIN calls |-> column(calls[i], "", Described(calls[i]))])

\* The columns computed: of two aggregations with one label the last is kept.
Aggregations(labelled) ==
  LET labels == Firsts([i \in DOMAIN labelled |-> labelled[i].label])
  IN  [i \in DOMAIN labels |-> Last(SelectSeq(labelled, LAMBDA a : a.label = labels[i]))]
ColumnFor(call, labelled) ==
  Column("", labelled[SelectInSeq(labelled, LAMBDA a : a.text = Described(call))].label)

GroupLayout(keys, aggregations, layout) ==
  [i \in DOMAIN keys |->
     [table |-> IF keys[i].op = "column" THEN layout[SlotOf(layout, keys[i])].table ELSE "",
      name |-> IF keys[i].op = "column" THEN keys[i].name ELSE Described(keys[i]),
      type |-> ResultType(keys[i], layout), computed |-> TRUE]]
  \o [i \in DOMAIN aggregations |->
        [table |-> "", name |-> aggregations[i].label, computed |-> TRUE,
         type |-> IF aggregations[i].call.op = "count" THEN "INT"
                  ELSE ResultType(aggregations[i].call.args[1], layout)]]

AggregationFits(call, layout) ==
  /\ \A i \in DOMAIN call.args : Validates(call.args[i], layout)
  /\ call.op = "sum" => call.args # <<>> /\ ResultType(call.args[1], layout) \in {"INT", "FLOAT"}
  /\ call.op = "max" => call.args # <<>> /\ ResultType(call.args[1], layout) \notin {"POINT", "none"}

\* What the grouping computed is read from the column that holds it.
Reading(e, keys, labelled, layout) ==
  LET written == {keys[i] : i \in {j \in DOMAIN keys : keys[j].op # "column"}}
      same(x, y) == Qualified(x, layout) = Qualified(y, layout)
  IN  Rewritten(e, {<<c, ColumnFor(c, labelled)>> : c \in {x \in Within(e) : x.op \in Aggregates}}
                   \cup {<<x, Column("", Described(k))>> :
                           <<x, k>> \in {y \in Within(e) \X written : same(y[1], y[2])}})

Expanded(star, layout) ==
  LET shown == SelectSeq(layout, LAMBDA slot :
                 slot.name # Score.name /\ star.table \in {"", slot.table})
  IN  [i \in DOMAIN shown |-> Column(shown[i].table, shown[i].name)]

Unplanned == [accepted |-> FALSE]

\* How each table is reached, and the rows before any grouping.
Accessed(statement, s, catalog, grouped) ==
  LET slots(t) == LayoutOf(t) \o (IF t = SearchedTable(statement, catalog) THEN <<ScoreSlot(t)>> ELSE <<>>)
      layoutTo[n \in 0..Len(s.joins)] ==
        IF n = 0 THEN slots(s.from) ELSE layoutTo[n - 1] \o slots(s.joins[n].table)
      way(t) == AccessWay(statement, s, catalog, t, RankedLimit(s, grouped))
  IN  [source |-> way(s.from), rows |-> layoutTo[Len(s.joins)],
       joins |-> [i \in DOMAIN s.joins |->
                    JoinPlan(s.joins[i], way(s.joins[i].table), layoutTo[i - 1], slots(s.joins[i].table))]]

LayoutAfter(keys, aggregations, rows) ==
  IF aggregations = <<>> /\ keys = <<>> THEN rows ELSE GroupLayout(keys, aggregations, rows)

\* The plan that a statement would have if nothing in it is rejected.
Draft(s, access, sorted, keys, labelled, aggregations, layout) ==
  LET grouped == aggregations # <<>> \/ keys # <<>>
      read(e) == IF grouped THEN Reading(e, keys, labelled, access.rows) ELSE e
  IN  [accepted |-> TRUE, source |-> IF sorted = NoWay THEN access.source ELSE sorted,
       sorts |-> sorted = NoWay, joins |-> access.joins, where |-> s.where, rows |-> access.rows,
       grouped |-> grouped, keys |-> keys, calls |-> [i \in DOMAIN aggregations |-> aggregations[i].call],
       having |-> read(s.having), layout |-> layout,
       order |-> [i \in DOMAIN s.order |->
                    [key |-> read(OrderKey(s.order[i].key, s.projections)), down |-> s.order[i].down]],
       columns |-> FlattenSeq([i \in DOMAIN s.projections |->
                     LET of == s.projections[i].of IN
                     IF of.op = "star" THEN Expanded(of, layout) ELSE <<read(of)>>]),
       distinct |-> s.distinct, limit |-> s.limit, offset |-> s.offset]

JoinsFit(s, draft) ==
  \A i \in DOMAIN draft.joins :
    /\ draft.joins[i].way # Rejected
    /\ Validates(s.joins[i].on, draft.joins[i].left \o draft.joins[i].layout)
    /\ ValidCondition(draft.joins[i].condition, draft.joins[i].left \o draft.joins[i].layout)
GroupsFit(s, draft) ==
  /\ \A i \in DOMAIN draft.keys :
       Validates(draft.keys[i], draft.rows) /\ ResultType(draft.keys[i], draft.rows) # "none"
  /\ \A i \in DOMAIN draft.calls : AggregationFits(draft.calls[i], draft.rows)
  /\ IF draft.grouped THEN ValidCondition(draft.having, draft.layout) ELSE s.having = Absent
\* A star of no table of the FROM is refused where nothing has been projected before it.
ResultFits(s, draft) ==
  LET stars    == {i \in DOMAIN s.projections : s.projections[i].of.op = "star"}
      gives(i) == i \in stars => Expanded(s.projections[i].of, draft.layout) # <<>>
  IN  /\ stars # {} => draft.calls = <<>>
      /\ \A i \in stars : \E j \in 1..i : gives(j)
      /\ \A i \in DOMAIN draft.columns : Validates(draft.columns[i], draft.layout)
      /\ draft.sorts => \A i \in DOMAIN draft.order :
           /\ Validates(draft.order[i].key, draft.layout)
           /\ ResultType(draft.order[i].key, draft.layout) \notin {"POINT", "none"}

Fits(s, draft) ==
  /\ draft.source # Rejected
  /\ JoinsFit(s, draft)
  /\ ValidCondition(s.where, draft.rows)
  /\ \A i \in DOMAIN s.group : PositionFits(s.group[i], s.projections)
  /\ \A i \in DOMAIN s.order : PositionFits(s.order[i].key, s.projections)
  /\ GroupsFit(s, draft)
  /\ ResultFits(s, draft)

OrUnplanned(s, draft) == IF Fits(s, draft) THEN draft ELSE Unplanned

PlanServed(s, catalog, access, labelled, aggregations) ==
  LET keys == [i \in DOMAIN s.group |-> GroupKey(s.group[i], s.projections, access.rows)]
      sorted == IF s.joins = <<>> /\ aggregations = <<>> /\ keys = <<>>
                THEN Presorted(s, catalog, access.source) ELSE NoWay
  IN  OrUnplanned(s, Draft(s, access, sorted, keys, labelled, aggregations,
                           LayoutAfter(keys, aggregations, access.rows)))

PlanLabelled(statement, s, catalog, labelled) ==
  {PlanServed(s, catalog, access, labelled, aggregations) :
     access \in {Accessed(statement, s, catalog, labelled # <<>> \/ s.group # <<>>)},
     aggregations \in {Aggregations(labelled)}}

PlanOf(statement, catalog) ==
  IF ~SearchFits(statement, catalog) THEN Unplanned
  ELSE CHOOSE plan \in UNION {PlanLabelled(statement, s, catalog, Labelled(s)) : s \in {Served(statement)}} : TRUE

=============================================================================
