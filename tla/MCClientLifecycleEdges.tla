----------------------- MODULE MCClientLifecycleEdges -----------------------
(* TLC instances of ClientLifecycleEdges, the bars in the order shipped. *)
EXTENDS ClientLifecycleEdges

Baseline ==
  [blackout |-> 2, recovery |-> 2, liveness |-> 3, cleanWindows |-> 2,
   fromSend |-> FALSE]
=============================================================================
