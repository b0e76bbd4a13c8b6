---------------------------- MODULE MCThreadpool ----------------------------
(* TLC instances of Threadpool.                                            *)
EXTENDS Threadpool, TLC

CONSTANTS c1, c2, c3, c4

(* Every call may be any function: calls are interchangeable.              *)
ThreeCalls == {c1, c2, c3}
AnyCall == [c \in ThreeCalls |-> Kinds]
TaskKinds == Kinds \ {"Destroy"}
CallSymmetry == Permutations(ThreeCalls)

(* Roles, for liveness, where symmetry is unsound.                         *)
FourCalls == {c1, c2, c3, c4}
Roles == (c1 :> {"Post", "PostWithTimer"}) @@ (c2 :> {"Close"})
         @@ (c3 :> {"WaitUntilClosed"}) @@ (c4 :> {"WaitUntilClosed", "Destroy"})

=============================================================================
