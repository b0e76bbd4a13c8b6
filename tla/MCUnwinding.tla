---------------------------- MODULE MCUnwinding -----------------------------
(* TLC instances of Unwinding.                                             *)
EXTENDS Unwinding

=============================================================================
