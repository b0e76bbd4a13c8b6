----------------------------- MODULE MCLogText ------------------------------
(* TLC instances of LogText.                                               *)
EXTENDS LogText

=============================================================================
