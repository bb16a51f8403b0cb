-------------------------- MODULE MCOperationQueue --------------------------
(* Operations and clients are interchangeable model values.                *)
EXTENDS OperationQueue, TLC

Symmetry == Permutations(Ops) \cup Permutations(Clients)
=============================================================================
