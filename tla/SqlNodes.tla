------------------------------ MODULE SqlNodes ------------------------------
(* sql/nodes.py: the tree of a statement. A node has what it is, a word and what is
   below it, in the order of the text. *)
EXTENDS Integers, Sequences, FiniteSetsExt

Node(op, name, args) == [op |-> op, name |-> name, args |-> args, negated |-> FALSE]
Absent == Node("absent", "", <<>>)
Star(qualifier) == Node("star", qualifier, <<>>)

\* A column of a table, before its constraints.
Plain(name, type) ==
  [name |-> name, type |-> type, key |-> FALSE, nullable |-> TRUE, unique |-> FALSE, index |-> ""]

\* expression_depth: the names of an argument and of a table are no level of their own.
RECURSIVE Depth(_)
Depth(e) == (IF e.op \in {"named", "of"} THEN 0 ELSE 1) + Max({0} \cup {Depth(e.args[i]) : i \in DOMAIN e.args})

=============================================================================
