------------------------------ MODULE MCEngine ------------------------------
(* Small instances, for TLC, of what the engine is built on and of what it answers:
   one run checks them all, one in each behaviour. *)
EXTENDS BufferPool, InvertedIndex, TextSearch, ExternalAlgorithms, Definitions, TableRows, TLC

VARIABLES
  statement, catalog, plan, stored,
  subject   \* the component that works in this behaviour

-----------------------------------------------------------------------------
(* Values of the constants.                                                *)

MCFilePages == [f \in PoolFile |-> IF f = "f" THEN 2 ELSE 1]

MCTexts == {{"b"}, {"a", "b"}}
MCBuilds ==
  LET four == <<<<"p", {"a", "b"}>>, <<"q", {"b"}>>, <<"r", {"a", "b"}>>, <<"s", {"b"}>>>>
  IN  {SubSeq(four, 1, 2), four}

\* Trees of boolean queries up to two operators deep, and the ways to write each.
MCWordTerms == [a |-> <<"ta">>, b |-> <<"tb">>, ac |-> <<"ta", "tc">>, c |-> <<"tc">>, the |-> <<>>]
MCCeiling == [ta |-> 2, tb |-> 1, tc |-> 1]
Leaves == {Word(w) : w \in {"a", "b", "ac", "the"}}
Deeper(trees, leaves) ==
  trees \cup {Node("not", <<t>>) : t \in trees}
    \cup UNION {{Node(op, <<t, u>>), Node(op, <<u, t>>)} : op \in {"and", "or"}, t \in trees, u \in leaves}
Trees ==
  LET one == Deeper(Leaves \cup {Node("not", <<Word("a")>>)}, {Word("b"), Word("ac"), Word("the")})
  IN  Deeper(one, {Word("b"), Node("not", <<Word("ac")>>)}) \ Leaves

RECURSIVE Written(_, _)
Written(tree, or) ==
  LET operand(i, alone) ==
        LET text == Written(tree.of[i], or)
        IN  IF tree.of[i].op \in alone THEN text ELSE <<"(">> \o text \o <<")">>
      joined(by, alone) ==
        FoldLeft(LAMBDA before, i : before \o by \o operand(i, alone), operand(1, alone),
                 [i \in 1..(Len(tree.of) - 1) |-> i + 1])
  IN  CASE tree.op = "word" -> <<tree.text>>
        [] tree.op = "not"  -> <<"NOT">> \o operand(1, {"word", "not"})
        [] tree.op = "and"  -> joined(<<"AND">>, {"word", "not"})
        [] tree.op = "or"   -> joined(or, {"word", "not", "and"})

MCDocument == 1..8
WithTerm(term) ==
  {d \in MCDocument : CASE term = "ta" -> d % 2 = 0 [] term = "tb" -> ((d - 1) \div 2) % 2 = 1
                        [] term = "tc" -> d > 4}
WeightsUpTo(most) == {[d \in MCDocument |-> IF d <= 3 THEN w[d] ELSE 0] : w \in [1..3 -> 0..most]}
InOrder == [d \in MCDocument |-> d]
Backwards == [d \in MCDocument |-> 9 - d]
Asked(query, meant, k) ==
  [query |-> query, meant |-> meant, deleted |-> {4}, row |-> Backwards, k |-> k,
   weights |-> [t \in DOMAIN MCCeiling |-> [d \in MCDocument |-> IF d \in WithTerm(t) THEN 1 ELSE 0]]]

\* An operator without what it joins, or a parenthesis without the other one.
Malformations ==
  {<<"AND">>, <<"NOT">>, <<"OR", "b">>, <<"a", "AND">>, <<"a", "OR">>, <<"a", "NOT">>,
   <<"a", "AND", "AND", "b">>, <<"a", "AND", "OR", "b">>, <<"a", "OR", "OR", "b">>,
   <<"a", "NOT", "AND", "b">>, <<"(", ")">>, <<"(", "a">>, <<"(", "a", "b">>, <<"a", ")">>,
   <<")", "a">>, <<"(", "a", ")", ")">>, <<"a", "(", "AND", "b", ")">>}

MCSearches ==
  {Asked(Written(tree, <<"OR">>), <<tree>>, Unlimited) : tree \in Trees}
  \cup {Asked(Written(tree, <<>>), <<tree>>, 1) : tree \in Trees}
  \cup {Asked(query, <<>>, 1) : query \in Malformations} \cup {Asked(<<"a", "b">>, <<>>, 0)}
  \cup {[query |-> <<"a", "b", "c">>, meant |-> <<>>, deleted |-> deleted, row |-> row, k |-> k,
         weights |-> [ta |-> a, tb |-> b, tc |-> c]] :
          a \in WeightsUpTo(2), b, c \in WeightsUpTo(1), deleted \in {{}, {2}},
          row \in {InOrder, Backwards}, k \in 1..2}

MCRow == [key : 1..3, code : 0..2, text : 0..2]
R(key, code, text) == [key |-> key, code |-> code, text |-> text]
MCBatches == {<<R(1, 1, 1), R(2, 2, 0)>>, <<R(1, 1, 0), R(3, 0, 2)>>}
\* One exchanges the keys, the other the codes and moves the TEXT.
MCTransforms ==
  {[r \in MCRow |-> [r EXCEPT !.key = IF @ = 3 THEN 3 ELSE 3 - @, !.text = IF @ = 1 THEN 2 ELSE @]],
   [r \in MCRow |-> [r EXCEPT !.code = IF @ = 0 THEN 1 ELSE 3 - @, !.text = IF @ = 0 THEN 1 ELSE 0]]}

MCColumns ==
  LET column(name, type) == [name |-> name, type |-> type]
  IN  [a |-> <<column("id", "INT"), column("v", "INT"), column("d", "DATE"), column("s", "VARCHAR"),
               column("p", "POINT")>>,
       b |-> <<column("id", "INT"), column("v", "FLOAT"), column("e", "VARCHAR")>>]
Tables == Permutations(TableName)

MCIsoDate == (3 :> 1) @@ (4 :> 2)
MCLongText == {9}

-----------------------------------------------------------------------------
(* The components with names in common with others.                        *)

Cases == INSTANCE MCQueries WITH Columns <- MCColumns, IsoDate <- MCIsoDate, LongText <- MCLongText
CatalogsFor(s) == Cases!CatalogsFor(s)
RowsFor(s, t) == Cases!RowsFor(s, t)
Q == INSTANCE Queries WITH Columns <- MCColumns, IsoDate <- MCIsoDate, LongText <- MCLongText,
       Statements <- Cases!Selects, Catalogs <- CatalogsFor, RowsOf <- RowsFor,
       Relevance <- Cases!RelevanceTable, RowLimit <- 2, rows <- stored

queryVars == <<statement, catalog, plan, stored>>
vars == <<poolVars, invertedVars, searchVars, inputs, defVars, tableVars, queryVars, subject>>

Unused == "unused"

Init ==
  /\ subject \in {"pool", "inverted", "search", "inputs", "definitions", "rows", "queries"}
  /\ PoolInit /\ DefInit
  /\ InvertedInit /\ (subject # "inverted" => Len(documents) = 2)
  /\ InputsInit /\ (subject # "inputs" => buffer = 1)
  /\ TableInit /\ (subject # "rows" => organization = "heap")
  /\ IF subject = "search" THEN SearchInit
     ELSE search = Unused /\ evaluated = Unused /\ terms = Unused /\ accumulators = Unused /\ pruning = Unused
  /\ IF subject = "queries" THEN Q!QueriesInit
     ELSE statement = Unused /\ catalog = Unused /\ plan = Unused /\ stored = Unused

Next ==
  /\ UNCHANGED subject
  /\ \/ subject = "pool" /\ PoolNext
        /\ UNCHANGED <<invertedVars, searchVars, inputs, defVars, tableVars, queryVars>>
     \/ subject = "inverted" /\ InvertedNext
        /\ UNCHANGED <<poolVars, searchVars, inputs, defVars, tableVars, queryVars>>
     \/ subject = "search" /\ SearchNext
        /\ UNCHANGED <<poolVars, invertedVars, inputs, defVars, tableVars, queryVars>>
     \/ subject = "inputs" /\ MoreInput
        /\ UNCHANGED <<poolVars, invertedVars, searchVars, defVars, tableVars, queryVars>>
     \/ subject = "definitions" /\ DefNext
        /\ UNCHANGED <<poolVars, invertedVars, searchVars, inputs, tableVars, queryVars>>
     \/ subject = "rows" /\ TableNext
        /\ UNCHANGED <<poolVars, invertedVars, searchVars, inputs, defVars, queryVars>>
     \/ subject = "queries" /\ Q!QueriesNext
        /\ UNCHANGED <<poolVars, invertedVars, searchVars, inputs, defVars, tableVars>>

Spec == Init /\ [][Next]_vars

-----------------------------------------------------------------------------
(* What each module states of its component.                               *)

\* BufferPool states PagesAreKept itself: the pool stays as it began under another subject.
\* InvertedIndex: searches find exactly the live documents with the word, through
\* deletes, merges and a crash between any two files of a flush.
PostingsAreTrue == subject = "inverted" => InvertedSound
\* TextSearch: a boolean query means what it says and pruning drops none of the k best.
SearchIsExact == subject = "search" => SearchSound
\* ExternalAlgorithms: with little memory, sorts, groups and joins give what SQL asks for.
ExternalIsExactInBuffers == subject = "inputs" => ExternalIsExact
\* Definitions states DefinitionsSound itself, of its state as it began under another subject.
\* TableRows states TableSound and UndoRestoresRows itself, of empty tables under another subject.
\* Queries: a SELECT answers what SQL asks for whatever way the planner takes.
QueriesAnswer == subject = "queries" => Q!QueriesAnswer

=============================================================================
