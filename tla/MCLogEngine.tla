---------------------------- MODULE MCLogEngine -----------------------------
(* TLC instances of LogEngine.                                             *)
EXTENDS LogEngine, TLC

(* Messages are interchangeable, and handlers are.                         *)
LogSymmetry == Permutations(Messages) \cup Permutations(Handlers)

=============================================================================
