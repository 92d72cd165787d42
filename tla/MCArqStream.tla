---------------------------- MODULE MCArqStream ----------------------------
(* TLC instances of ArqStream; the values are in the configurations. *)
EXTENDS ArqStream

=============================================================================
