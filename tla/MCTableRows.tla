---------------------------- MODULE MCTableRows ----------------------------
(* A small instance of TableRows for TLC: an UPDATE that moves one of the rows
   whose codes it exchanges. *)
EXTENDS TableRows

MCRow == [key : 1..3, code : 0..2, text : {0}]
R(key, code) == [key |-> key, code |-> code, text |-> 0]
MCBatches == {<<R(1, 1), R(2, 2)>>}
MCTransforms ==
  {[r \in MCRow |-> [r EXCEPT !.key = IF @ = 2 THEN 3 ELSE @, !.code = IF @ = 0 THEN 0 ELSE 3 - @]]}

\* No call raises: the statement succeeds and the client asks for the ROLLBACK.
CalmSpec == TableInit /\ [][TableNext /\ UNCHANGED raised]_tableVars

=============================================================================
