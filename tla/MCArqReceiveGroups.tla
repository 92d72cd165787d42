------------------------- MODULE MCArqReceiveGroups -------------------------
(* TLC instances of ArqReceiveGroups. *)
EXTENDS ArqReceiveGroups

\* Three groups across the wrap of the 16-bit id, which skips 0: one whose
\* message passes the ceiling of two units, one that fits it, one of a single
\* segment.
WrapGroups == {65535, 1, 2}
WrapLength == (65535 :> 4) @@ (1 :> 2) @@ (2 :> 1)
=============================================================================
