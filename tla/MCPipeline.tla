----------------------------- MODULE MCPipeline -----------------------------
(* TLC instances of Pipeline.                                              *)
EXTENDS Pipeline, TLC

(* Calls are interchangeable: no definition chooses among them.            *)
CallSymmetry == Permutations(Calls)

AllKinds == Kinds

=============================================================================
