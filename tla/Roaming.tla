------------------------------- MODULE Roaming -------------------------------
(* The client's dial policy (RoamingPolicy) and the driver that executes it  *)
(* (ConnectionModel+Roaming): the window's first connect, and the hunt for a *)
(* host that moved, restarted or went dark under a standing session.  Scans  *)
(* and dials are answered at any later moment, by a task that may find the   *)
(* window gone; the policy is told by a timer, by the session's events, by   *)
(* the network and by the human.  Times are counted down to the instant at   *)
(* which the policy compares them with now.                                  *)
EXTENDS Integers

CONSTANTS
    Addresses,                \* where the host may be
    ScanAfter, RedialAfter,   \* silence before a scan, before a redial
    Grace, Budget,            \* of a path change, of the first connect
    ScanFloor, ScanCeiling, DialFloor, DialCeiling,
    Faults,                   \* moves, losses and interventions
    MaxBrowses                \* bound: browses in flight

None == -1          \* no deadline, no clock running
Nobody == "none"    \* no target

ASSUME Parameters ==
    /\ Nobody \notin Addresses
    /\ {ScanAfter, RedialAfter, Grace, Budget, ScanFloor, ScanCeiling,
        DialFloor, DialCeiling, Faults, MaxBrowses} \subseteq Nat

VARIABLES
    window,   \* the phase: picker, lookup, connecting, streaming
    policy,   \* the RoamingPolicy, or Off
    session,  \* the attached session: none, moving, frozen
    dialing,  \* the dial in flight: its target, its session, its tier
    browses,  \* scans the driver owes the policy an answer to
    late,     \* answers on their way to a window that moved on
    host,     \* where it is, whether the path is up and it holds the session
    faults

vars == <<window, policy, session, dialing, browses, late, host, faults>>
world == <<host, faults>>

Off == [on |-> FALSE]
Wires == {"moving", "frozen", "closed"}  \* of a dial that was answered
NoDial == [to |-> Nobody, wire |-> "none", old |-> FALSE]
Dialed(a) == [to |-> a, wire |-> "starting", old |-> FALSE]

Init ==
    /\ window = "picker" /\ policy = Off /\ session = "none"
    /\ dialing = NoDial /\ browses = 0 /\ late = {}
    /\ host \in [at : Addresses, up : {TRUE}, holds : {FALSE}]
    /\ faults = Faults

Smaller(a, b) == IF a < b THEN a ELSE b

------------------------------------------------------------------------------
(* The policy: every input turns it into an outcome, the policy and what it  *)
(* asks of the driver.                                                       *)

Fresh(a) ==
    [on |-> TRUE, known |-> a, alive |-> TRUE, budget |-> None,
     silent |-> None, grace |-> None, waived |-> FALSE, scanning |-> FALSE,
     browsing |-> FALSE, nextScan |-> None, scanGap |-> ScanFloor,
     dial |-> Nobody, held |-> Nobody, dialIn |-> 0, dialGap |-> DialFloor,
     same |-> FALSE]

Asks(p, what) == [p |-> p, asks |-> what]

Rescan(o) == Asks([o.p EXCEPT !.nextScan = None, !.browsing = TRUE],
                  o.asks \cup {"scan"})

BeginScanning(o) ==
    IF o.p.scanning THEN o ELSE
    LET looking == Asks([o.p EXCEPT !.scanning = TRUE, !.scanGap = ScanFloor],
                        o.asks)
    IN IF o.p.browsing THEN looking ELSE Rescan(looking)

ScheduleNextScan(p) ==
    [p EXCEPT !.nextScan = p.scanGap,
              !.scanGap = Smaller(2 * @, ScanCeiling)]

DialNow(o, a) ==
    IF o.p.dial # Nobody THEN o
    ELSE Asks([o.p EXCEPT !.alive = FALSE, !.same = FALSE, !.dial = a],
              o.asks \cup {"dial"})

DialSighting(p, a) ==
    DialNow(Asks(IF a = p.known THEN p
                 ELSE [p EXCEPT !.dialGap = DialFloor, !.dialIn = 0], {}), a)

\* The driver ends the window, and the policy with it.
Expire(o) == Asks(o.p, o.asks \cup {"end"})

\* The deadlines of nextDeadline that have passed.
GraceOver(p) == p.grace = 0
SilenceOver(p) == p.alive /\ ~p.scanning /\ p.silent >= ScanAfter
RedialReady(p) == p.alive /\ p.same /\ ~p.waived /\ p.silent >= RedialAfter
ProbeReady(p) == ~p.alive /\ p.dial = Nobody /\ p.dialIn = 0
ScanDue(p) == p.scanning /\ ~p.browsing /\ p.nextScan = 0
Overdue(p) == p.budget = 0 /\ p.dial = Nobody
Due(p) == \/ GraceOver(p) \/ SilenceOver(p) \/ RedialReady(p) \/ ScanDue(p)
          \/ ProbeReady(p) \/ Overdue(p)

\* tick: the grace and the silence begin a scan, a redial or a probe begins
\* the one dial, and a scan falls due unless this beat dials.
Beat(o) ==
    LET p == o.p
        looks == SilenceOver(p) \/ (GraceOver(p) /\ p.silent # None)
        dials == RedialReady(p) \/ ProbeReady(p)
        graced == IF GraceOver(p)
                  THEN [p EXCEPT !.grace = None, !.waived = @ /\ p.silent # None]
                  ELSE p
        looked == IF looks THEN BeginScanning(Asks(graced, o.asks))
                  ELSE Asks(graced, o.asks)
    IN IF Overdue(p) THEN Expire(o)
       ELSE IF dials THEN DialNow(looked, p.known)
       ELSE IF ScanDue(p) THEN Rescan(Asks(graced, o.asks))
       ELSE looked

Beaten(p) == Beat(Asks(p, {}))

Connecting(a) ==
    Beaten([Fresh(a) EXCEPT !.alive = FALSE, !.budget = Budget])

WentSilent(p) ==
    IF ~p.alive THEN Asks(p, {})
    ELSE Beaten([p EXCEPT !.silent = IF @ = None THEN 0 ELSE @])

\* Fault: evidence stops the silence clock and leaves the scans running.
EvidenceReturnedScanning(p) ==
    IF ~p.alive THEN p
    ELSE [p EXCEPT !.silent = None, !.grace = None, !.waived = FALSE,
                   !.same = FALSE]

EvidenceReturned(p) ==
    IF ~p.alive THEN p
    ELSE [p EXCEPT !.silent = None, !.grace = None, !.waived = FALSE,
                   !.same = FALSE, !.scanning = FALSE,
                   !.nextScan = IF p.scanning THEN None ELSE @,
                   !.scanGap = IF p.scanning THEN ScanFloor ELSE @]

SessionClosed(p) ==
    Beat(BeginScanning(Asks([p EXCEPT !.alive = FALSE, !.same = FALSE], {})))

PathChanged(p) ==
    IF ~p.alive THEN Asks(p, {})
    ELSE IF p.silent # None
    THEN Beat(BeginScanning(
             Asks([p EXCEPT !.waived = TRUE, !.grace = None], {})))
    ELSE Asks([p EXCEPT !.waived = TRUE, !.grace = Grace], {})

ManualReconnect(p) ==
    Beat(BeginScanning(Asks(
        [p EXCEPT !.alive = FALSE, !.scanning = FALSE, !.same = FALSE,
                  !.dialGap = DialFloor, !.dialIn = 0], {})))

\* Fault: a sighting that lands while a dial is in flight is dropped.
ScanCompletedUnheld(p, sighted) ==
    LET q == [p EXCEPT !.browsing = FALSE]
        worthADial == sighted # q.known \/ ~q.alive \/ q.waived
    IN IF ~q.scanning THEN Asks(q, {})
       ELSE IF sighted = Nobody THEN Beaten(ScheduleNextScan(q))
       ELSE IF worthADial /\ q.dial = Nobody THEN DialSighting(q, sighted)
       ELSE Beaten(ScheduleNextScan([q EXCEPT !.same = @ \/ ~worthADial]))

ScanCompleted(p, sighted) ==
    LET q == [p EXCEPT !.browsing = FALSE]
        worthADial == sighted # q.known \/ ~q.alive \/ q.waived
    IN IF ~q.scanning THEN Asks(q, {})
       ELSE IF sighted = Nobody THEN Beaten(ScheduleNextScan(q))
       ELSE IF worthADial /\ q.dial = Nobody THEN DialSighting(q, sighted)
       ELSE Beaten(ScheduleNextScan(
                IF ~worthADial THEN [q EXCEPT !.same = TRUE]
                ELSE IF sighted # q.dial THEN [q EXCEPT !.held = sighted]
                ELSE q))

\* Fault: a failed dial leaves a scan whose turn passed unscheduled.
DialFailedUnscheduled(p) ==
    LET q == [p EXCEPT !.dial = Nobody] IN
    IF p.dial = Nobody THEN Asks(p, {})
    ELSE IF q.budget = 0 THEN Expire(Asks(q, {}))
    ELSE IF q.held # Nobody THEN DialSighting([q EXCEPT !.held = Nobody], q.held)
    ELSE Beat(BeginScanning(Asks(
        [q EXCEPT !.dialIn = q.dialGap,
                  !.dialGap = Smaller(2 * @, DialCeiling)], {})))

DialFailed(p) ==
    LET q == [p EXCEPT !.dial = Nobody] IN
    IF p.dial = Nobody THEN Asks(p, {})
    ELSE IF q.budget = 0 THEN Expire(Asks(q, {}))
    ELSE IF q.held # Nobody THEN DialSighting([q EXCEPT !.held = Nobody], q.held)
    ELSE Beat(BeginScanning(Asks(
        [q EXCEPT !.dialIn = q.dialGap,
                  !.dialGap = Smaller(2 * @, DialCeiling),
                  !.nextScan = IF q.scanning /\ ~q.browsing /\ @ = None
                               THEN 0 ELSE @], {})))

------------------------------------------------------------------------------
(* The driver.                                                               *)

Spend == faults > 0 /\ faults' = faults - 1

\* The window ends: its dial is abandoned, its scans answer nobody.
Ends ==
    /\ window' = "picker" /\ policy' = Off /\ session' = "none"
    /\ dialing' = NoDial /\ browses' = 0
    /\ late' = late \cup {k \in {"dial", "browse", "lookup"} :
                            \/ k = "dial" /\ dialing # NoDial
                            \/ k = "browse" /\ browses > 0
                            \/ k = "lookup" /\ window = "lookup"}
    /\ host' = [host EXCEPT !.holds = FALSE]

\* roamingInput: the policy moves, and what it asks is done; a dial tears a
\* standing session down.  `left` is the window as the input itself leaves it.
Standing == [window |-> window, session |-> session, dialing |-> dialing,
             browses |-> browses]

Drives(outcome, left) == \E o \in {outcome}, w \in {left} :
    IF "end" \in o.asks THEN Ends
    ELSE LET dials == "dial" \in o.asks IN
         /\ window' = w.window /\ policy' = o.p
         /\ session' = IF dials THEN "none" ELSE w.session
         /\ dialing' = IF dials THEN Dialed(o.p.dial) ELSE w.dialing
         /\ browses' = w.browses + IF "scan" \in o.asks THEN 1 ELSE 0
         /\ browses' <= MaxBrowses
         /\ host' = [host EXCEPT !.holds = @ /\ \/ session' # "none"
                                                \/ dialing'.wire \in Wires]
         /\ UNCHANGED late

Timer ==
    /\ policy.on /\ Due(policy)
    /\ Drives(Beaten(policy), Standing)
    /\ UNCHANGED faults

\* A browse ends: nothing sighted, the host where it is, or an advertisement
\* of where it was.
ScanAnswers(sighted) ==
    /\ browses > 0
    /\ sighted = host.at => host.up
    /\ IF sighted \in {Nobody, host.at} THEN UNCHANGED faults ELSE Spend
    /\ Drives(ScanCompleted(policy, sighted), [Standing EXCEPT !.browses = @ - 1])

\* Another identity under the pinned host's name.
IdentityReplaced == browses > 0 /\ Spend /\ Ends

\* The handshake completes; the session receives before the dial returns.
DialSucceeds ==
    /\ dialing.wire = "starting" /\ host.up /\ dialing.to = host.at
    /\ dialing' = [dialing EXCEPT !.wire = "moving"]
    /\ host' = [host EXCEPT !.holds = TRUE]
    /\ UNCHANGED <<window, policy, session, browses, late, faults>>

DialUnanswered ==
    /\ dialing.wire = "starting"
    /\ Drives(DialFailed(policy), [Standing EXCEPT !.dialing = NoDial])
    /\ UNCHANGED faults

\* Refused while connecting, or the host is no longer paired.
DialRefused == dialing.wire = "starting" /\ Spend /\ Ends

\* What a session's close, or its failed agreement, comes to.
Verdicts == {"roam", "redial", "end"}
Closes(p, verdict, w) ==
    \/ verdict = "roam" /\ Drives(SessionClosed(p), w)
    \/ verdict = "redial" /\ Drives(ManualReconnect(p), w)
    \/ verdict = "end" /\ Ends

\* adoptDialedSession: the dial's session becomes the window's; the end it
\* met meanwhile is replayed.
Adopted(wire) == [Standing EXCEPT !.window = "streaming", !.session = wire,
                                  !.dialing = NoDial]
Adopt ==
    /\ \/ /\ dialing.wire \in {"moving", "frozen"}
          /\ Drives(Asks(Fresh(dialing.to), {}), Adopted(dialing.wire))
       \/ /\ dialing.wire = "closed"
          /\ \E verdict \in Verdicts :
               Closes(Fresh(dialing.to), verdict, Adopted("none"))
    /\ UNCHANGED faults

\* The answer to a browse, a dial or a Keychain lookup whose window moved on:
\* the generation and claimDial drop it.
Dropped(answer) ==
    /\ answer \in late /\ late' = late \ {answer}
    /\ UNCHANGED <<window, policy, session, dialing, browses, world>>

------------------------------------------------------------------------------
(* The session in hand: the window's, whose state feeds the silence clock,   *)
(* or the dial's, which the policy does not listen to yet.  The core's event *)
(* reaches the window in a main-actor task of its own                        *)
(* (ConnectionModel.swift:362-366).  Freeze, Thaw and Liveness are the core's*)
(* change and the window's hearing of it in one step, so `session` is what   *)
(* the window knows: that a thaw is heard when datagrams flow no longer, or a*)
(* freeze when they flow again, is left out.                                 *)

Flows == host.up /\ host.holds

Freeze ==
    /\ IF Flows THEN Spend ELSE UNCHANGED faults
    /\ \/ /\ session = "moving"
          /\ Drives(WentSilent(policy), [Standing EXCEPT !.session = "frozen"])
       \/ /\ dialing.wire = "moving"
          /\ dialing' = [dialing EXCEPT !.wire = "frozen"]
          /\ UNCHANGED <<window, policy, session, browses, late, host>>

Thaw ==
    /\ Flows /\ UNCHANGED faults
    /\ \/ /\ session = "frozen"
          /\ Drives(Asks(EvidenceReturned(policy), {}),
                    [Standing EXCEPT !.session = "moving"])
       \/ /\ dialing.wire = "frozen"
          /\ dialing' = [dialing EXCEPT !.wire = "moving"]
          /\ UNCHANGED <<window, policy, session, browses, late, host>>

\* The liveness verdict on a session nobody answers.
Liveness ==
    /\ ~Flows /\ UNCHANGED faults
    /\ \/ session = "frozen" /\ Closes(policy, "roam", [Standing EXCEPT !.session = "none"])
       \/ /\ dialing.wire = "frozen"
          /\ dialing' = [dialing EXCEPT !.wire = "closed"]
          /\ UNCHANGED <<window, policy, session, browses, late, host>>

\* The host's goodbye, a takeover, a poisoned stream, a failed agreement.
PeerEnds ==
    /\ Flows /\ Spend
    /\ \/ /\ session # "none"
          /\ \E verdict \in Verdicts :
               Closes(policy, verdict, [Standing EXCEPT !.session = "none"])
       \/ /\ dialing.wire \in {"moving", "frozen"}
          /\ dialing' = [dialing EXCEPT !.wire = "closed"]
          /\ host' = [host EXCEPT !.holds = FALSE]
          /\ UNCHANGED <<window, policy, session, browses, late>>

------------------------------------------------------------------------------
(* The human.                                                                *)

Connect ==
    /\ window = "picker" /\ window' = "lookup"
    /\ UNCHANGED <<policy, session, dialing, browses, late, world>>

\* The identity is at hand: the policy is born at the row's address.
LookupAnswers ==
    /\ window = "lookup"
    /\ \/ \E a \in Addresses :
            Drives(Connecting(a), [Standing EXCEPT !.window = "connecting"])
       \/ /\ window' = "picker"
          /\ UNCHANGED <<policy, session, dialing, browses, late, host>>
    /\ UNCHANGED faults

Disconnect == window # "picker" /\ Ends /\ UNCHANGED faults

\* Another chroma tier: the dial in flight declares the one of before.
Flipped(d) == IF d = NoDial THEN d ELSE [d EXCEPT !.old = ~@]

\* Reconnect, alone or to declare another tier, which a dial does only once.
Reconnect(flips) ==
    /\ window = "streaming" /\ Spend
    /\ Drives(ManualReconnect(policy),
              [Standing EXCEPT !.session = "none",
                               !.dialing = IF flips THEN Flipped(@) ELSE @])

------------------------------------------------------------------------------
(* The network and the host.                                                 *)

\* The Mac's path changes; validation carries the session, or does not.
PathHops ==
    /\ policy.on /\ Spend
    /\ Drives(PathChanged(policy), Standing)

Moves(a) ==
    /\ a # host.at /\ Spend
    /\ host' = [host EXCEPT !.at = a, !.holds = FALSE]
    /\ UNCHANGED <<window, policy, session, dialing, browses, late>>

Restarts ==
    /\ host.holds /\ Spend
    /\ host' = [host EXCEPT !.holds = FALSE]
    /\ UNCHANGED <<window, policy, session, dialing, browses, late>>

Darkens ==
    /\ host.up /\ Spend
    /\ host' = [host EXCEPT !.up = FALSE]
    /\ UNCHANGED <<window, policy, session, dialing, browses, late>>

Lightens ==
    /\ ~host.up /\ host' = [host EXCEPT !.up = TRUE]
    /\ UNCHANGED <<window, policy, session, dialing, browses, late, faults>>

Older(left) == IF left > 0 THEN left - 1 ELSE left

Tick ==
    /\ policy.on
    /\ policy' = [policy EXCEPT
           !.budget = Older(@), !.grace = Older(@), !.nextScan = Older(@),
           !.dialIn = Older(@),
           !.silent = IF @ \in 0 .. RedialAfter - 1 THEN @ + 1 ELSE @]
    /\ UNCHANGED <<window, session, dialing, browses, late, world>>

------------------------------------------------------------------------------
Next ==
    \/ Connect \/ LookupAnswers \/ Disconnect
    \/ \E flips \in BOOLEAN : Reconnect(flips)
    \/ Timer \/ Tick
    \/ \E a \in Addresses \cup {Nobody} : ScanAnswers(a)
    \/ IdentityReplaced \/ DialSucceeds \/ DialUnanswered \/ DialRefused \/ Adopt
    \/ \E answer \in {"dial", "browse", "lookup"} : Dropped(answer)
    \/ Freeze \/ Thaw \/ Liveness \/ PeerEnds
    \/ PathHops \/ (\E a \in Addresses : Moves(a))
    \/ Restarts \/ Darkens \/ Lightens

Spec == Init /\ [][Next]_vars

(* Timers and time run, answers come, a session nobody answers freezes and   *)
(* closes, the path returns; a host that is looked for and dialed again and  *)
(* again is sighted and answers.                                             *)
Fairness ==
    /\ WF_vars(Timer) /\ WF_vars(Tick)
    /\ WF_vars(\E a \in Addresses \cup {Nobody} : ScanAnswers(a))
    /\ SF_vars(ScanAnswers(host.at))
    /\ SF_vars(DialSucceeds) /\ WF_vars(DialUnanswered) /\ WF_vars(Adopt)
    /\ WF_vars(Freeze) /\ WF_vars(Thaw) /\ WF_vars(Liveness)
    /\ WF_vars(Lightens)

FairSpec == Spec /\ Fairness

------------------------------------------------------------------------------
Moments == {None} \cup Nat
Targets == Addresses \cup {Nobody}
Policies ==
    [on : {TRUE}, known : Addresses, alive : BOOLEAN, budget : Moments,
     silent : Moments, grace : Moments, waived : BOOLEAN, scanning : BOOLEAN,
     browsing : BOOLEAN, nextScan : Moments, scanGap : Nat, dial : Targets,
     held : Targets, dialIn : Nat, dialGap : Nat, same : BOOLEAN]

\* A window that hunts has a policy, and at most one of session and dial.
TypeOK ==
    /\ window \in {"picker", "lookup", "connecting", "streaming"}
    /\ policy \in {Off} \cup Policies
    /\ policy.on = (window \in {"connecting", "streaming"})
    /\ session \in {"none", "moving", "frozen"}
    /\ dialing \in [to : Targets, wire : Wires \cup {"none", "starting"},
                    old : BOOLEAN]
    /\ (dialing.to = Nobody) = (dialing.wire = "none")
    /\ browses \in Nat /\ late \subseteq {"dial", "browse", "lookup"}
    /\ host \in [at : Addresses, up : BOOLEAN, holds : BOOLEAN]
    /\ faults \in Nat

(* The policy never waits for an answer nobody owes it.  Its one dial is the *)
(* driver's one dial; a scan it waits for is running; and while scanning is  *)
(* wanted a scan is in flight, scheduled, or waiting on the dial in flight   *)
(* (RoamingPolicy.swift:36-37).  A window with neither session nor dial has  *)
(* a probe coming.                                                           *)
NeverStranded ==
    policy.on =>
      /\ policy.dial = dialing.to
      /\ policy.browsing => browses > 0
      /\ policy.scanning => \/ policy.browsing \/ policy.nextScan # None
                            \/ policy.dial # Nobody
      /\ (session = "none") = ~policy.alive

(* A session that moves is never torn down by the policy: neither a scan or  *)
(* a timer that outlived the silence, nor a change of path.                  *)
PolicyActs == Timer \/ PathHops \/ \E a \in Addresses \cup {Nobody} : ScanAnswers(a)
MovingStands == [][session = "moving" /\ PolicyActs => session' = "moving"]_vars

(* While the window stands, a lost host is found again wherever it went.     *)
Reattaches == policy.on ~> ~policy.on \/ session = "moving"

(* Four statements of the code that do not hold.                             *)

(* tick is "idempotent at one now" (RoamingPolicy.swift:410): nothing that   *)
(* was due before it is due after it.                                        *)
TickIdempotent == [][Timer /\ policy'.on => ~Due(policy')]_vars

(* Picking a chroma tier reconnects with it, and the live posture rides      *)
(* every dial (ConnectionModel+Features.swift:138, +Roaming.swift:154).      *)
LiveTierRides == [][Adopt => ~dialing.old]_vars

(* The FROZEN edge feeds the silence clock (ConnectionModel.swift:570).      *)
SilenceClockRuns == session = "frozen" => policy.silent # None

(* After a path change the same-address redial "is allowed at once"          *)
(* (RoamingPolicy.swift:30-31).                                              *)
WaiverAllows ==
    policy.on => ~(policy.alive /\ policy.same /\ policy.waived)
==============================================================================
