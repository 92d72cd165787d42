--------------------------- MODULE SerialNumbers ---------------------------
(***************************************************************************)
(* The fixed-width serial arithmetic every wire counter of the program     *)
(* uses: `Int16(bitPattern: seq &- reference)` (ArqEndpoint.swift) places  *)
(* the raw value seq at a signed distance from the raw value reference.    *)
(* A module of this project keeps positions unwrapped (1, 2, 3, ...) and   *)
(* hands the code's comparisons the low bits only, so that a comparison    *)
(* the wrap falsifies is falsified in the model too.                       *)
(***************************************************************************)
EXTENDS Integers

\* The signed distance from raw value x to raw value y in a space of n
\* values, read as the two's-complement bit pattern of y &- x: in -n/2 ..
\* n/2-1.
SerialDistance(n, x, y) ==
  LET d == (y - x) % n IN IF 2 * d < n THEN d ELSE d - n
=============================================================================
