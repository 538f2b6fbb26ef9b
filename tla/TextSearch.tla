----------------------------- MODULE TextSearch -----------------------------
(* A MATCH over an inverted index: text/boolean_query.py, index/inverted/merges.py and
   the BM25 of index/inverted/ranking.py. The query is parsed and put in the form that
   is evaluated, without complements; its documents are found by merging sorted
   lists; and they are scored a term at a time, where the documents that can no longer
   be among the k best are dropped (MaxScore). Scores are small integers: the
   contribution of a term to a document, 0 if it does not have the term. They are added
   up exactly, so the factor that the code gives to a bound for the rounding of its sums
   (UPPER_BOUND_SLACK_FACTOR, 1 + 10^-9) would not change any comparison of them. *)
EXTENDS Integers, Sequences, FiniteSets, SequencesExt, FiniteSetsExt, Functions

CONSTANTS Document,   \* doc_ids, an interval of the integers
          WordTerms,  \* word -> the terms that the analyzer makes of it
          Ceiling,    \* term -> the most that it contributes, in (0, infinity)
          Searches    \* what is searched: [query, meant, weights, deleted, row, k], where
                      \* meant has no tree if the query is malformed, row gives the place
                      \* of the row of each document and k may be Unlimited

VARIABLES search,       \* the search in course
          evaluated,    \* what is evaluated of a query with operators; <<>> if no term is left
          terms,        \* terms of it that are yet to be scored
          accumulators, \* document -> score so far
          pruning       \* whether documents have been dropped

searchVars == <<search, evaluated, terms, accumulators, pruning>>

-----------------------------------------------------------------------------
(* _Parser: OR, written or not, then AND, then NOT. A result has no tree if the
   query is malformed. *)

Failed == [trees |-> <<>>, next |-> 0]
Peek(tokens, n) == IF n <= Len(tokens) THEN tokens[n] ELSE "end"
Word(text) == [op |-> "word", text |-> text]
Node(op, of) == [op |-> op, of |-> of]
Grouped(op, parsed) ==
  IF Len(parsed.trees) <= 1 THEN parsed ELSE [parsed EXCEPT !.trees = <<Node(op, @)>>]
Followed(first, rest) ==
  IF rest.trees = <<>> THEN Failed ELSE [rest EXCEPT !.trees = first.trees \o @]

RECURSIVE Disjuncts(_, _), Conjuncts(_, _), Negation(_, _)

Primary(tokens, n) ==
  LET inner == Grouped("or", Disjuncts(tokens, n + 1))
  IN  CASE Peek(tokens, n) \in {"end", "AND", "OR", ")"} -> Failed
        [] Peek(tokens, n) = "(" -> IF inner.trees # <<>> /\ Peek(tokens, inner.next) = ")"
                                    THEN [inner EXCEPT !.next = @ + 1] ELSE Failed
        [] OTHER                 -> [trees |-> <<Word(tokens[n])>>, next |-> n + 1]

Negation(tokens, n) ==
  LET inner == Negation(tokens, n + 1)
  IN  CASE Peek(tokens, n) # "NOT" -> Primary(tokens, n)
        [] Peek(tokens, n) = "NOT" /\ inner.trees # <<>> ->
             [inner EXCEPT !.trees = <<Node("not", @)>>]
        [] OTHER                   -> Failed

Conjuncts(tokens, n) ==
  LET first == Negation(tokens, n)
  IN  IF first.trees # <<>> /\ Peek(tokens, first.next) = "AND"
      THEN Followed(first, Conjuncts(tokens, first.next + 1)) ELSE first

Disjuncts(tokens, n) ==
  LET first == Grouped("and", Conjuncts(tokens, n))
      following == Peek(tokens, first.next)
  IN  IF first.trees # <<>> /\ following \notin {"end", "AND", ")"}
      THEN Followed(first, Disjuncts(tokens, IF following = "OR" THEN first.next + 1 ELSE first.next))
      ELSE first

Parsed(tokens) ==
  LET parsed == Grouped("or", Disjuncts(tokens, 1))
  IN  IF parsed.next = Len(tokens) + 1 THEN parsed.trees ELSE <<>>

-----------------------------------------------------------------------------
(* _normalized: expressions of terms, AND of some less others, and OR. *)

Leaf(term) == [op |-> "term", term |-> term]

Flat(operands, op, part(_)) ==
  FlattenSeq([i \in DOMAIN operands |-> IF operands[i].op = op THEN part(operands[i]) ELSE <<operands[i]>>])

Conjunction(included, excluded) ==
  LET kept == Flat(included, "and", LAMBDA e : e.included)
      gone == excluded \o FlattenSeq([i \in DOMAIN included |->
                            IF included[i].op = "and" THEN included[i].excluded ELSE <<>>])
  IN  IF Len(kept) = 1 /\ gone = <<>> THEN kept[1]
      ELSE [op |-> "and", included |-> kept, excluded |-> gone]

Disjunction(operands) ==
  LET flat == Flat(operands, "or", LAMBDA e : e.of)
  IN  IF Len(flat) = 1 THEN flat[1] ELSE Node("or", flat)

Part(expression, complemented) == <<[expression |-> expression, complemented |-> complemented]>>
Expressions(parts, complemented) ==
  LET chosen == SelectSeq(parts, LAMBDA part : part.complemented = complemented)
  IN  [i \in DOMAIN chosen |-> chosen[i].expression]

\* An OR with a complement is the complement of what all its complements exclude,
\* less what its positive operands give.
ComplementOfOr(positive, complemented) ==
  Conjunction(complemented, IF positive = <<>> THEN <<>> ELSE <<Disjunction(positive)>>)

\* Nothing is left of a word that the analyzer drops, nor of what has only such words.
RECURSIVE Normalized(_)
Normalized(tree) ==
  LET leaves == [i \in DOMAIN WordTerms[tree.text] |-> Leaf(WordTerms[tree.text][i])]
      parts == FlattenSeq([i \in DOMAIN tree.of |-> Normalized(tree.of[i])])
      positive == Expressions(parts, FALSE)
      complemented == Expressions(parts, TRUE)
  IN  CASE tree.op = "word" -> IF leaves = <<>> THEN <<>> ELSE Part(Conjunction(leaves, <<>>), FALSE)
        [] tree.op = "not"  -> [i \in DOMAIN parts |-> [parts[i] EXCEPT !.complemented = ~@]]
        [] tree.op \in {"and", "or"} /\ parts = <<>> -> <<>>
        [] tree.op = "and" /\ positive # <<>> -> Part(Conjunction(positive, complemented), FALSE)
        [] tree.op = "and" /\ positive = <<>> /\ parts # <<>> -> Part(Disjunction(complemented), TRUE)
        [] tree.op = "or" /\ complemented = <<>> /\ parts # <<>> -> Part(Disjunction(positive), FALSE)
        [] OTHER -> Part(ComplementOfOr(positive, complemented), TRUE)

RECURSIVE PositiveTerms(_), PositiveTermsOfExcluded(_)
TermsOfEach(seq, Of(_)) == FlattenSeq([i \in DOMAIN seq |-> Of(seq[i])])
PositiveTerms(e) ==
  CASE e.op = "term" -> <<e.term>>
    [] e.op = "or"   -> TermsOfEach(e.of, PositiveTerms)
    [] e.op = "and"  -> TermsOfEach(e.included, PositiveTerms) \o TermsOfEach(e.excluded, PositiveTermsOfExcluded)
PositiveTermsOfExcluded(e) ==
  CASE e.op = "term" -> <<>>
    [] e.op = "or"   -> TermsOfEach(e.of, PositiveTermsOfExcluded)
    [] e.op = "and"  -> TermsOfEach(e.included, PositiveTermsOfExcluded) \o TermsOfEach(e.excluded, PositiveTerms)

-----------------------------------------------------------------------------
(* merges.py: a cursor on each of two sorted lists. *)

RECURSIVE Intersect(_, _), Union(_, _), Difference(_, _)
Intersect(first, second) ==
  CASE first = <<>> \/ second = <<>> -> <<>>
    [] OTHER -> CASE Head(first) = Head(second) -> <<Head(first)>> \o Intersect(Tail(first), Tail(second))
                  [] Head(first) < Head(second) -> Intersect(Tail(first), second)
                  [] Head(first) > Head(second) -> Intersect(first, Tail(second))
Union(first, second) ==
  CASE first = <<>> \/ second = <<>> -> first \o second
    [] OTHER -> CASE Head(first) = Head(second) -> <<Head(first)>> \o Union(Tail(first), Tail(second))
                  [] Head(first) < Head(second) -> <<Head(first)>> \o Union(Tail(first), second)
                  [] Head(first) > Head(second) -> <<Head(second)>> \o Union(first, Tail(second))
Difference(first, second) ==
  CASE first = <<>> \/ second = <<>> -> first
    [] OTHER -> CASE Head(first) = Head(second) -> Difference(Tail(first), Tail(second))
                  [] Head(first) < Head(second) -> <<Head(first)>> \o Difference(Tail(first), second)
                  [] Head(first) > Head(second) -> Difference(first, Tail(second))

\* From the shortest list to the longest.
ByLength(lists) == SortSeq(lists, LAMBDA a, b : Len(a) < Len(b))
IntersectAll(lists) == LET sorted == ByLength(lists) IN FoldLeft(Intersect, Head(sorted), Tail(sorted))
UnionAll(lists) == FoldLeft(Union, <<>>, ByLength(lists))

ListOf(term) == SetToSortSeq({d \in Document : search.weights[term][d] > 0}, <)

RECURSIVE MatchingDocuments(_)
MatchingDocuments(e) ==
  LET each(seq) == [i \in DOMAIN seq |-> MatchingDocuments(seq[i])]
  IN  CASE e.op = "term" -> ListOf(e.term)
        [] e.op = "or"   -> UnionAll(each(e.of))
        [] e.op = "and"  -> FoldLeft(Difference, IntersectAll(each(e.included)), each(e.excluded))

-----------------------------------------------------------------------------
\* parse_boolean_query, once for each search; rejected if it is malformed or if it only
\* excludes documents.
IsBoolean == \E i \in DOMAIN search.query : search.query[i] \in {"AND", "OR", "NOT", "(", ")"}
ExpressionOf(query) ==
  LET trees == Parsed(query) IN FlattenSeq([i \in DOMAIN trees |-> Normalized(trees[i])])
Malformed == IsBoolean /\ Parsed(search.query) = <<>>
OnlyExcludes == IsBoolean /\ evaluated # <<>> /\ evaluated[1].complemented

FirstOfEach(found) ==
  FoldLeft(LAMBDA seen, term : IF term \in ToSet(seen) THEN seen ELSE Append(seen, term), <<>>, found)

\* _scores: the terms of a query with operators, or of one that is free text.
QueryTerms ==
  SelectSeq(FirstOfEach(CASE IsBoolean /\ (evaluated = <<>> \/ OnlyExcludes) -> <<>>
                          [] IsBoolean /\ evaluated # <<>> /\ ~OnlyExcludes -> PositiveTerms(evaluated[1].expression)
                          [] ~IsBoolean -> TermsOfEach(search.query, LAMBDA word : WordTerms[word])),
            LAMBDA term : ListOf(term) # <<>>)

\* _BooleanPostings.read: the list of a term, of the documents that match.
ReadPostings(term) ==
  ToSet(ListOf(term)) \cap
    IF IsBoolean THEN ToSet(MatchingDocuments(evaluated[1].expression)) ELSE Document

Largest(scores, k) ==
  LET sorted == SortSeq(SetToSeq({<<scores[d], d>> : d \in DOMAIN scores}), LAMBDA a, b : a[1] > b[1])
  IN  [i \in 1..Min({k, Len(sorted)}) |-> sorted[i][1]]
Alive(scores) == Restrict(scores, DOMAIN scores \ search.deleted)

\* Mutant: deleted documents count for the threshold.
BestOfAll(scores) == Largest(scores, search.k)

BestSoFar(scores) == Largest(Alive(scores), search.k)

\* _prune: nobody new can be among the k best, and of those who are there, who can.
CanPrune(scores, remaining) ==
  Len(BestSoFar(scores)) = search.k /\ remaining < Last(BestSoFar(scores))
Pruned(scores, remaining) ==
  Restrict(Alive(scores),
           {d \in DOMAIN Alive(scores) : scores[d] + remaining >= Last(BestSoFar(scores))})

SumOf(seq) == FoldLeft(LAMBDA n, term : n + Ceiling[term], 0, seq)

SearchInit ==
  /\ search \in Searches
  /\ evaluated = IF IsBoolean THEN ExpressionOf(search.query) ELSE <<>>
  /\ terms = QueryTerms
  /\ accumulators = <<>> /\ pruning = FALSE

\* What the documents have once the term is added, for those that are still counted.
Merged(term) ==
  LET read == ReadPostings(term) \cap IF pruning THEN DOMAIN accumulators ELSE Document
  IN  [d \in DOMAIN accumulators \cup read |->
         (IF d \in DOMAIN accumulators THEN accumulators[d] ELSE 0)
           + IF d \in read THEN search.weights[term][d] ELSE 0]

\* ranked asks for every document, as if k were None.
Unlimited == -1

\* Without a k, or with 0, nothing is pruned; nor after the last term, nor while what is
\* left reaches all that was seen.
Prunes(scores, remaining) ==
  /\ search.k > 0 /\ Len(terms) > 1 /\ remaining < SumOf(QueryTerms) - remaining
  /\ CanPrune(scores, remaining)
Accumulate(scores, remaining, prunes) ==
  /\ accumulators' = IF prunes THEN Pruned(scores, remaining) ELSE scores
  /\ pruning' = (pruning \/ prunes)

\* A turn of the loop of _accumulate_with_pruning.
ScoreTerm ==
  /\ terms # <<>>
  /\ \E scores \in {Merged(Head(terms))}, remaining \in {SumOf(Tail(terms))} :
       Accumulate(scores, remaining, Prunes(scores, remaining))
  /\ terms' = Tail(terms)
  /\ UNCHANGED <<search, evaluated>>

InRowOrder(scores, documents) ==
  SortSeq(SetToSeq(documents),
          LAMBDA a, b : \/ scores[a] > scores[b]
                        \/ scores[a] = scores[b] /\ search.row[a] < search.row[b])

\* Those that reach the k-th best score, by score and by the address of the row among
\* equals, and the first k of them.
TopK(scores) ==
  LET best   == Largest(scores, search.k)
      chosen == {d \in DOMAIN scores : Len(best) = search.k => scores[d] >= Last(best)}
  IN  IF search.k = 0 THEN <<>>
      ELSE SubSeq(InRowOrder(scores, chosen), 1, Min({search.k, Cardinality(chosen)}))

\* _pop_in_order: one group of equal scores after another, each in the order of its rows.
Ranked(scores) ==
  LET groups == SetToSortSeq({scores[d] : d \in DOMAIN scores}, >)
  IN  FlattenSeq([i \in DOMAIN groups |->
        InRowOrder(scores, {d \in DOMAIN scores : scores[d] = groups[i]})])

RankingOf(scores) == IF search.k = Unlimited THEN Ranked(scores) ELSE TopK(scores)

SearchNext == ScoreTerm
SearchSpec == SearchInit /\ [][SearchNext]_searchVars

-----------------------------------------------------------------------------
(* What a query means, read from its tree: for a set of terms, whether a document with
   them matches; <<>> if no word is left. *)

RECURSIVE Meaning(_, _)
Meaning(tree, has) ==
  LET words == WordTerms[tree.text]
      parts == FlattenSeq([i \in DOMAIN tree.of |-> Meaning(tree.of[i], has)])
  IN  CASE tree.op = "word" -> IF words = <<>> THEN <<>> ELSE <<ToSet(words) \subseteq has>>
        [] tree.op = "not"  -> [i \in DOMAIN parts |-> ~parts[i]]
        [] tree.op = "and"  -> IF parts = <<>> THEN <<>> ELSE <<\A i \in DOMAIN parts : parts[i]>>
        [] tree.op = "or"   -> IF parts = <<>> THEN <<>> ELSE <<\E i \in DOMAIN parts : parts[i]>>

\* The terms that score: those under an even number of NOT.
RECURSIVE Scoring(_, _)
Scoring(tree, negated) ==
  CASE tree.op = "word" -> IF negated THEN {} ELSE ToSet(WordTerms[tree.text])
    [] tree.op = "not"  -> Scoring(tree.of[1], ~negated)
    [] OTHER            -> UNION {Scoring(tree.of[i], negated) : i \in DOMAIN tree.of}

TermsOf(d) == {term \in DOMAIN Ceiling : search.weights[term][d] > 0}
Matches(d) == Meaning(search.meant[1], TermsOf(d)) = <<TRUE>>

\* A query is read as the tree it was written from, and has none if it is malformed; it
\* is rejected as one that only excludes exactly when a document without any word would
\* match.
ParsesAsWritten ==
  IsBoolean => /\ Parsed(search.query) = search.meant
               /\ OnlyExcludes <=> search.meant # <<>> /\ Meaning(search.meant[1], {}) = <<TRUE>>

SumOver(scoring, d) == FoldFunctionOnSet(+, 0, [t \in DOMAIN Ceiling |-> search.weights[t][d]], scoring)
FullScores(scoring) ==
  [d \in {d \in Document : IF IsBoolean THEN Matches(d) ELSE TermsOf(d) \cap scoring # {}} |->
     SumOver(scoring, d)]

\* How many live documents go before each: those with more, and of those with the same
\* the ones whose rows are before.
PlaceOf(full, d) ==
  Cardinality({e \in DOMAIN full \ search.deleted :
                 full[e] > full[d] \/ (full[e] = full[d] /\ search.row[e] < search.row[d])})

\* The documents of a search are the live ones that match, although deleted ones
\* stay in the lists, and each NOT is a subtraction; and those that are dropped on the
\* way would never be among the k best: order and scores are those of adding up all.
RankedAs(full) == \A ranking \in {RankingOf(Alive(accumulators))} :
  /\ ToSet(ranking) = {d \in DOMAIN full \ search.deleted :
                         search.k = Unlimited \/ PlaceOf(full, d) < search.k}
  /\ \A i \in DOMAIN ranking : /\ PlaceOf(full, ranking[i]) = i - 1
                               /\ accumulators[ranking[i]] = full[ranking[i]]
SearchesAreExact ==
  terms = <<>> /\ ~Malformed /\ ~OnlyExcludes =>
    RankedAs(FullScores(IF IsBoolean THEN Scoring(search.meant[1], FALSE) ELSE ToSet(QueryTerms)))

SearchSound == ParsesAsWritten /\ SearchesAreExact

=============================================================================
