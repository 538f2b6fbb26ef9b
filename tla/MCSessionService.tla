-------------------------- MODULE MCSessionService --------------------------
(* Small instances of SessionService for TLC. *)
EXTENDS SessionService, TLC

Symmetry == Permutations(Id) \cup Permutations(Thread) \cup Permutations(Slot)

=============================================================================
