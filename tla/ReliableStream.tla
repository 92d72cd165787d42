--------------------------- MODULE ReliableStream ---------------------------
(***************************************************************************)
(* What the ordered stream of an ARQ endpoint promises (ArqEndpoint.swift, *)
(* header): messages come out of the far end in the order they went in,    *)
(* each exactly once.  A message is cut into units (the last one marked),  *)
(* and delivery of units in order, each once, is delivery of messages in   *)
(* order, each once, with their boundaries.                                *)
(***************************************************************************)
EXTENDS Sequences, Naturals

VARIABLES
  sent,       \* the units of every accepted message, in order
  delivered   \* the units the far end has assembled, in order

vars == <<sent, delivered>>

IsPrefixOf(s, t) == Len(s) <= Len(t) /\ \A i \in 1 .. Len(s) : s[i] = t[i]

Init == sent = << >> /\ delivered = << >>

\* The application hands over a message.
Accept ==
  /\ Len(sent') > Len(sent)
  /\ IsPrefixOf(sent, sent')
  /\ UNCHANGED delivered

\* The far end assembles some more of what was sent.
Deliver ==
  /\ Len(delivered') > Len(delivered)
  /\ IsPrefixOf(delivered, delivered')
  /\ IsPrefixOf(delivered', sent)
  /\ UNCHANGED sent

Next == Accept \/ Deliver

Safety == Init /\ [][Next]_vars

\* Each of the first bound units is delivered once it is accepted.
Delivery(bound) == \A n \in 1 .. bound : Len(sent) >= n ~> Len(delivered) >= n
=============================================================================
