---------------------------- MODULE MCAggregates ----------------------------
(* Two sums for TLC that are not the same and that the engine writes the same:
   SELECT SUM(-(id + v)), SUM(-id + v) FROM a. *)
EXTENDS Queries

MCColumns == [a |-> <<[name |-> "id", type |-> "INT"], [name |-> "v", type |-> "INT"]>>]
MCIsoDate == 3 :> 1
MCLongText == {9}

Id == Column("", "id")
V == Column("", "v")
Negative(e) == Node("negate", <<e>>)
SumOf(e) == [of |-> Node("sum", <<e>>), alias |-> ""]
MCStatements ==
  {[from |-> "a", joins |-> <<>>, where |-> Absent, group |-> <<>>, having |-> Absent, order |-> <<>>,
    distinct |-> FALSE, limit |-> -1, offset |-> 0,
    projections |-> <<SumOf(Negative(Node("+", <<Id, V>>))), SumOf(Node("+", <<Negative(Id), V>>))>>]}
MCCatalogs(s) == {[organization |-> [a |-> "clustered"], indexes |-> [a |-> <<>>]]}
MCRowsOf(s, t) == {<<Is("number", 2 * id), Is("number", 2 * v)>> : id \in 1..2, v \in 0..1}
MCRelevance == [query \in {} |-> 0]

=============================================================================
