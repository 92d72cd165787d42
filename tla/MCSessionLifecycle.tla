------------------------- MODULE MCSessionLifecycle -------------------------
(* TLC instances of SessionLifecycle.  One unit of time is about 350 ms of  *)
(* the shipped bars; the order of the bars is the shipped one.              *)
EXTENDS SessionLifecycle

\* A host whose bar runs from the first unanswered send (capability key 17),
\* and one whose bar runs from the last evidence.
SendAnchored ==
  [blackout |-> 1, recovery |-> 2, liveness |-> 3, cleanWindows |-> 2,
   fromSend |-> TRUE]
EvidenceAnchored == [SendAnchored EXCEPT !.fromSend = FALSE]

Baseline == [EvidenceAnchored EXCEPT !.blackout = 2]
=============================================================================
