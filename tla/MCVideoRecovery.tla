--------------------------- MODULE MCVideoRecovery ---------------------------
(* VideoRecovery on a small instance.  Frame numbers are only ever compared  *)
(* with the next one, so they are turned back to make the next one 0 after   *)
(* every arrival.                                                            *)
EXTENDS VideoRecovery

Compact == stream.next = 0
Turned(n) == IF n < FrameSpace THEN Wrapped(n + FrameSpace - stream.next) ELSE n
TurnedIn(s) == [i \in DOMAIN s |-> IF s[i].kind = "unit"
                                   THEN [s[i] EXCEPT !.n = Turned(@)] ELSE s[i]]

Renumber ==
    /\ ~Compact
    /\ stream' = [stream EXCEPT !.next = 0]
    /\ todo' = [t \in Threads |-> TurnedIn(todo[t])]
    /\ built' = TurnedIn(built) /\ jobs' = TurnedIn(jobs)
    /\ admitted' = [admitted EXCEPT !.n = Turned(@)]
    /\ handoff' = [handoff EXCEPT !.queue = TurnedIn(@)]
    /\ renderer' = [renderer EXCEPT !.last = Turned(@)]
    /\ UNCHANGED <<posting, session, coming>>

MCSpec == /\ VideoInit /\ [][Renumber \/ (Compact /\ VideoNext)]_videoVars
          /\ WF_videoVars(Renumber) /\ Fairness
==============================================================================
