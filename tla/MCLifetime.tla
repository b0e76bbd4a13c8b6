----------------------------- MODULE MCLifetime -----------------------------
(* TLC instances of Lifetime.                                              *)
EXTENDS Lifetime, TLC

=============================================================================
