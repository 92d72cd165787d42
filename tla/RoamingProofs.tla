---------------------------- MODULE RoamingProofs ----------------------------
(* The dial policy never waits for an answer nobody owes it, and never tears *)
(* down a session that moves, for every ladder, budget and set of addresses. *)
EXTENDS Roaming, TLAPS

(* What every input leaves of the policy and asks of the driver, given the   *)
(* target d of the dial and the number b of scans the driver has in hand.    *)
Outcomes == [p : Policies, asks : SUBSET {"scan", "dial", "end"}]
Coherent(p) ==
    /\ p.alive => p.dial = Nobody /\ p.budget = None
    /\ p.scanning => p.browsing \/ p.nextScan # None \/ p.dial # Nobody
Proper(o, d, b) ==
    /\ o \in Outcomes
    /\ Coherent(o.p)
    /\ "dial" \in o.asks => o.p.dial # Nobody
    /\ "dial" \notin o.asks => o.p.dial = d
    /\ o.p.browsing => b > 0 \/ "scan" \in o.asks

(* An outcome is a policy and what it asks.                                  *)
LEMMA AsksIs ==
    ASSUME NEW p \in Policies, NEW asks \in SUBSET {"scan", "dial", "end"}
    PROVE  /\ Asks(p, asks) \in Outcomes
           /\ Asks(p, asks).p = p /\ Asks(p, asks).asks = asks
BY DEF Asks, Outcomes

(* A scan in flight stands in for a scheduled one.                           *)
LEMMA RescanProper ==
    ASSUME NEW d, NEW b \in Nat, NEW o, o \in Outcomes,
           o.p.alive => o.p.dial = Nobody /\ o.p.budget = None,
           "dial" \in o.asks => o.p.dial # Nobody,
           "dial" \notin o.asks => o.p.dial = d
    PROVE  /\ Proper(Rescan(o), d, b)
           /\ Rescan(o).p.alive = o.p.alive
           /\ Rescan(o).p.dial = o.p.dial
           /\ Rescan(o).p.known = o.p.known
           /\ Rescan(o).asks = o.asks \cup {"scan"}
<1> DEFINE q == [o.p EXCEPT !.nextScan = None, !.browsing = TRUE]
           a == o.asks \cup {"scan"}
<1>1. o.p \in Policies /\ o.asks \in SUBSET {"scan", "dial", "end"}
  BY DEF Outcomes
<1>2. /\ q \in Policies /\ q.browsing
      /\ q.alive = o.p.alive /\ q.dial = o.p.dial
      /\ q.budget = o.p.budget /\ q.known = o.p.known
  BY <1>1 DEF Policies, Moments
<1>3. a \in SUBSET {"scan", "dial", "end"}
  BY <1>1
<1>4. Rescan(o) = Asks(q, a)
  BY DEF Rescan
<1> HIDE DEF q
<1>5. Rescan(o) \in Outcomes /\ Rescan(o).p = q /\ Rescan(o).asks = a
  BY <1>2, <1>3, <1>4, AsksIs
<1>6. Coherent(q)
  BY <1>2 DEF Coherent
<1> QED BY <1>2, <1>5, <1>6 DEF Proper

(* Scanning begins with a scan in flight.                                    *)
LEMMA BeginScanningProper ==
    ASSUME NEW d, NEW b \in Nat, NEW o, Proper(o, d, b)
    PROVE  /\ Proper(BeginScanning(o), d, b)
           /\ BeginScanning(o).p.alive = o.p.alive
           /\ BeginScanning(o).p.dial = o.p.dial
           /\ BeginScanning(o).p.known = o.p.known
           /\ "dial" \in BeginScanning(o).asks => "dial" \in o.asks
<1> DEFINE q == [o.p EXCEPT !.scanning = TRUE, !.scanGap = ScanFloor]
<1>1. o \in Outcomes /\ o.p \in Policies /\ o.asks \in SUBSET {"scan", "dial", "end"}
  BY DEF Proper, Outcomes
<1>2. /\ q \in Policies /\ q.browsing = o.p.browsing
      /\ q.alive = o.p.alive /\ q.dial = o.p.dial
      /\ q.budget = o.p.budget /\ q.known = o.p.known
  BY <1>1, Parameters DEF Policies, Moments
<1> DEFINE l == Asks(q, o.asks)
<1>3. /\ o.p.scanning => BeginScanning(o) = o
      /\ ~o.p.scanning /\ o.p.browsing => BeginScanning(o) = l
      /\ ~o.p.scanning /\ ~o.p.browsing => BeginScanning(o) = Rescan(l)
  <2> HIDE DEF q
  <2>1. l.p = q
    BY <1>1, <1>2, AsksIs
  <2> QED BY <1>2, <2>1 DEF BeginScanning, q
<1> HIDE DEF q
<1>4. l \in Outcomes /\ l.p = q /\ l.asks = o.asks
  BY <1>1, <1>2, AsksIs
<1> HIDE DEF l
<1>5. CASE o.p.scanning
  BY <1>3, <1>5
<1>6. CASE ~o.p.scanning /\ o.p.browsing
  <2>1. Coherent(q)
    BY <1>2, <1>6 DEF Proper, Coherent
  <2> QED BY <1>2, <1>3, <1>4, <1>6, <2>1 DEF Proper
<1>7. CASE ~o.p.scanning /\ ~o.p.browsing
  <2>1. /\ l.p.alive => l.p.dial = Nobody /\ l.p.budget = None
        /\ "dial" \in l.asks => l.p.dial # Nobody
        /\ "dial" \notin l.asks => l.p.dial = d
    BY <1>2, <1>4 DEF Proper, Coherent
  <2>2. /\ Proper(Rescan(l), d, b)
        /\ Rescan(l).p.alive = l.p.alive
        /\ Rescan(l).p.dial = l.p.dial
        /\ Rescan(l).p.known = l.p.known
        /\ Rescan(l).asks = l.asks \cup {"scan"}
    BY <1>4, <2>1, RescanProper
  <2> QED BY <1>2, <1>3, <1>4, <1>7, <2>2
<1> QED BY <1>5, <1>6, <1>7

(* The one dial: none beside the dial in flight.                             *)
LEMMA DialNowProper ==
    ASSUME NEW d, NEW b \in Nat, NEW o, NEW a \in Addresses, o \in Outcomes,
           "dial" \in o.asks => o.p.dial # Nobody,
           o.p.dial # Nobody => Proper(o, d, b),
           o.p.browsing => b > 0 \/ "scan" \in o.asks
    PROVE  /\ Proper(DialNow(o, a), d, b)
           /\ "dial" \notin DialNow(o, a).asks => DialNow(o, a).p.alive = o.p.alive
<1> DEFINE q == [o.p EXCEPT !.alive = FALSE, !.same = FALSE, !.dial = a]
           s == o.asks \cup {"dial"}
<1>1. o.p \in Policies /\ o.asks \in SUBSET {"scan", "dial", "end"}
  BY DEF Outcomes
<1>2. /\ q \in Policies /\ ~q.alive /\ q.dial = a
      /\ q.browsing = o.p.browsing
  BY <1>1 DEF Policies, Targets
<1>3. CASE o.p.dial # Nobody
  BY <1>3 DEF DialNow
<1>4. CASE o.p.dial = Nobody
  <2>1. DialNow(o, a) = Asks(q, s)
    BY <1>4 DEF DialNow
  <2>2. s \in SUBSET {"scan", "dial", "end"} /\ "dial" \in s
    BY <1>1
  <2> HIDE DEF q
  <2>3. DialNow(o, a) \in Outcomes /\ DialNow(o, a).p = q /\ DialNow(o, a).asks = s
    BY <1>2, <2>1, <2>2, AsksIs
  <2>4. a # Nobody
    BY Parameters
  <2>5. Coherent(q)
    BY <1>2, <2>4 DEF Coherent
  <2> QED BY <1>2, <2>2, <2>3, <2>4, <2>5 DEF Proper
<1> QED BY <1>3, <1>4

(* A policy between two inputs, the dial and the scans it waits for in hand. *)
Kept(p, d, b) ==
    /\ p \in Policies /\ Coherent(p)
    /\ p.dial = d /\ (p.browsing => b > 0)
Keeps(o, p) == "dial" \notin o.asks => o.p.alive = p.alive

LEMMA KeptProper ==
    ASSUME NEW d, NEW b \in Nat, NEW p, NEW asks \in SUBSET {"scan", "end"},
           Kept(p, d, b)
    PROVE  /\ Proper(Asks(p, asks), d, b) /\ Asks(p, asks) \in Outcomes
           /\ Asks(p, asks).p = p /\ Asks(p, asks).asks = asks
BY AsksIs DEF Kept, Proper

(* The end of a path change's grace touches nothing the others rest on.      *)
LEMMA GracedIs ==
    ASSUME NEW p \in Policies
    PROVE  LET g == [p EXCEPT !.grace = None, !.waived = @ /\ p.silent # None]
           IN  /\ g \in Policies /\ g.alive = p.alive /\ g.dial = p.dial
               /\ g.budget = p.budget /\ g.known = p.known
               /\ g.scanning = p.scanning /\ g.browsing = p.browsing
               /\ g.nextScan = p.nextScan /\ g.silent = p.silent
BY DEF Policies, Moments

(* The timer's beat.                                                         *)
LEMMA BeatProper ==
    ASSUME NEW d, NEW b \in Nat, NEW o, Proper(o, d, b)
    PROVE  Proper(Beat(o), d, b) /\ Keeps(Beat(o), o.p)
<1> DEFINE p == o.p
           e == [p EXCEPT !.grace = None, !.waived = @ /\ p.silent # None]
           g == IF GraceOver(p) THEN e ELSE p
           h == Asks(g, o.asks)
           looks == SilenceOver(p) \/ (GraceOver(p) /\ p.silent # None)
           dials == RedialReady(p) \/ ProbeReady(p)
           l == IF looks THEN BeginScanning(h) ELSE h
<1>1. Beat(o) = IF Overdue(p) THEN Expire(o)
                ELSE IF dials THEN DialNow(l, p.known)
                ELSE IF ScanDue(p) THEN Rescan(h) ELSE l
  BY DEF Beat
<1>2. p \in Policies /\ o.asks \in SUBSET {"scan", "dial", "end"} /\ p.known \in Addresses
  BY DEF Proper, Outcomes, Policies
<1>3. /\ g \in Policies /\ g.alive = p.alive /\ g.dial = p.dial
      /\ g.budget = p.budget /\ g.known = p.known
      /\ g.scanning = p.scanning /\ g.browsing = p.browsing
      /\ g.nextScan = p.nextScan /\ g.silent = p.silent
  <2>1. /\ e \in Policies /\ e.alive = p.alive /\ e.dial = p.dial
        /\ e.budget = p.budget /\ e.known = p.known
        /\ e.scanning = p.scanning /\ e.browsing = p.browsing
        /\ e.nextScan = p.nextScan /\ e.silent = p.silent
    BY <1>2, GracedIs
  <2> HIDE DEF e
  <2> QED BY <1>2, <2>1
<1> HIDE DEF g
<1>4. h \in Outcomes /\ h.p = g /\ h.asks = o.asks
  BY <1>2, <1>3, AsksIs
<1> HIDE DEF h
<1>5. Proper(h, d, b)
  BY <1>3, <1>4 DEF Proper, Coherent, p
<1>6. /\ Proper(l, d, b) /\ l.p.alive = p.alive
      /\ "dial" \in l.asks => "dial" \in o.asks
  <2>1. CASE looks
    <3>1. l = BeginScanning(h)
      BY <2>1
    <3> QED BY <1>3, <1>4, <1>5, <3>1, BeginScanningProper
  <2>2. CASE ~looks
    <3>1. l = h
      BY <2>2
    <3> QED BY <1>3, <1>4, <1>5, <3>1
  <2> QED BY <2>1, <2>2
<1> HIDE DEF l, looks, dials
<1>7. CASE Overdue(p)
  <2>1. Beat(o) = Asks(p, o.asks \cup {"end"})
    BY <1>1, <1>7 DEF Expire
  <2>2. Beat(o) \in Outcomes /\ Beat(o).p = p /\ Beat(o).asks = o.asks \cup {"end"}
    BY <1>2, <2>1, AsksIs
  <2> QED BY <2>2 DEF Proper, Keeps
<1>8. CASE ~Overdue(p) /\ dials
  <2>1. Beat(o) = DialNow(l, p.known)
    BY <1>1, <1>8
  <2>2. /\ l \in Outcomes /\ ("dial" \in l.asks => l.p.dial # Nobody)
        /\ l.p.browsing => b > 0 \/ "scan" \in l.asks
    BY <1>6 DEF Proper
  <2> HIDE DEF p
  <2>3. /\ Proper(DialNow(l, p.known), d, b)
        /\ "dial" \notin DialNow(l, p.known).asks
              => DialNow(l, p.known).p.alive = l.p.alive
    BY <1>2, <1>6, <2>2, DialNowProper
  <2> QED BY <1>6, <2>1, <2>3 DEF Keeps, p
<1>9. CASE ~Overdue(p) /\ ~dials /\ ScanDue(p)
  <2>1. Beat(o) = Rescan(h)
    BY <1>1, <1>9
  <2>2. /\ h.p.alive => h.p.dial = Nobody /\ h.p.budget = None
        /\ "dial" \in h.asks => h.p.dial # Nobody
        /\ "dial" \notin h.asks => h.p.dial = d
    BY <1>5 DEF Proper, Coherent
  <2>3. Proper(Rescan(h), d, b) /\ Rescan(h).p.alive = h.p.alive
    BY <1>4, <2>2, RescanProper
  <2> QED BY <1>3, <1>4, <2>1, <2>3 DEF Keeps
<1>10. CASE ~Overdue(p) /\ ~dials /\ ~ScanDue(p)
  BY <1>1, <1>6, <1>10 DEF Keeps
<1> QED BY <1>7, <1>8, <1>9, <1>10

LEMMA BeatenProper ==
    ASSUME NEW d, NEW b \in Nat, NEW p, Kept(p, d, b)
    PROVE  Proper(Beaten(p), d, b) /\ Keeps(Beaten(p), p)
<1>1. Proper(Asks(p, {}), d, b) /\ Asks(p, {}).p = p
  BY KeptProper
<1> QED BY <1>1, BeatProper DEF Beaten

(* A policy with a session that moves has no deadline but the grace, whose   *)
(* end asks nothing.                                                         *)
Quiet(p) == p.alive /\ p.silent = None /\ ~p.scanning
Idle(o) == Quiet(o.p) /\ o.asks = {}

LEMMA BeatenIdle ==
    ASSUME NEW p \in Policies, Coherent(p), Quiet(p)
    PROVE  Idle(Beaten(p))
<1> DEFINE e == [p EXCEPT !.grace = None, !.waived = @ /\ p.silent # None]
           g == IF GraceOver(p) THEN e ELSE p
<1>1. /\ ~Overdue(p) /\ ~RedialReady(p) /\ ~ProbeReady(p)
      /\ ~ScanDue(p) /\ ~SilenceOver(p)
  BY Parameters DEF Quiet, Coherent, Overdue, RedialReady, ProbeReady, ScanDue,
                    SilenceOver, None
<1>2. /\ e \in Policies /\ e.alive = p.alive
      /\ e.scanning = p.scanning /\ e.silent = p.silent
  BY GracedIs
<1>3. g \in Policies /\ Quiet(g)
  <2> HIDE DEF e
  <2> QED BY <1>2 DEF Quiet
<1>4. Asks(p, {}).p = p /\ Asks(p, {}).asks = {}
  BY AsksIs
<1>5. Beaten(p) = Asks(g, {})
  BY <1>1, <1>4 DEF Beaten, Beat, Quiet
<1> HIDE DEF g
<1>6. Asks(g, {}).p = g /\ Asks(g, {}).asks = {}
  BY <1>3, AsksIs
<1> QED BY <1>3, <1>5, <1>6 DEF Idle

LEMMA SmallerNat == ASSUME NEW m \in Nat, NEW n \in Nat PROVE Smaller(2 * m, n) \in Nat
BY DEF Smaller

LEMMA ScheduleNextScanIs ==
    ASSUME NEW p \in Policies
    PROVE  LET q == ScheduleNextScan(p)
           IN  /\ q \in Policies /\ q.nextScan # None
               /\ q.alive = p.alive /\ q.dial = p.dial /\ q.budget = p.budget
               /\ q.browsing = p.browsing
<1>1. p.scanGap \in Nat /\ ScanCeiling \in Nat
  BY Parameters DEF Policies
<1> DEFINE v == Smaller(2 * p.scanGap, ScanCeiling)
           r == [p EXCEPT !.nextScan = p.scanGap, !.scanGap = v]
<1>2. v \in Nat
  BY <1>1, SmallerNat
<1>3. ScheduleNextScan(p) = r
  BY DEF ScheduleNextScan, Policies
<1> HIDE DEF v
<1>4. /\ r \in Policies /\ r.nextScan = p.scanGap
      /\ r.alive = p.alive /\ r.dial = p.dial /\ r.budget = p.budget
      /\ r.browsing = p.browsing
  BY <1>1, <1>2 DEF Policies, Moments
<1> HIDE DEF r
<1> QED BY <1>1, <1>3, <1>4 DEF None

LEMMA DialSightingProper ==
    ASSUME NEW d, NEW b \in Nat, NEW p \in Policies, NEW a \in Addresses,
           p.dial = Nobody, p.browsing => b > 0
    PROVE  /\ Proper(DialSighting(p, a), d, b)
           /\ "dial" \notin DialSighting(p, a).asks => DialSighting(p, a).p.alive = p.alive
<1> DEFINE e == [p EXCEPT !.dialGap = DialFloor, !.dialIn = 0]
           q == IF a = p.known THEN p ELSE e
           o == Asks(q, {})
<1>1. e \in Policies /\ e.dial = p.dial /\ e.browsing = p.browsing /\ e.alive = p.alive
  BY Parameters DEF Policies
<1> HIDE DEF e
<1>2. q \in Policies /\ q.dial = p.dial /\ q.browsing = p.browsing /\ q.alive = p.alive
  BY <1>1
<1>3. DialSighting(p, a) = DialNow(o, a)
  BY DEF DialSighting, e
<1> HIDE DEF q
<1>4. o \in Outcomes /\ o.p = q /\ o.asks = {}
  BY <1>2, AsksIs
<1> HIDE DEF o
<1> QED BY <1>2, <1>3, <1>4, DialNowProper

LEMMA WentSilentProper ==
    ASSUME NEW d, NEW b \in Nat, NEW p, Kept(p, d, b)
    PROVE  Proper(WentSilent(p), d, b) /\ Keeps(WentSilent(p), p)
<1> DEFINE q == [p EXCEPT !.silent = IF @ = None THEN 0 ELSE @]
<1>1. /\ q \in Policies /\ q.alive = p.alive /\ q.dial = p.dial
      /\ q.budget = p.budget /\ q.scanning = p.scanning
      /\ q.browsing = p.browsing /\ q.nextScan = p.nextScan
  BY DEF Kept, Policies, Moments
<1> HIDE DEF q
<1>2. Kept(q, d, b)
  BY <1>1 DEF Kept, Coherent
<1>3. Proper(Beaten(q), d, b) /\ Keeps(Beaten(q), p)
  BY <1>1, <1>2, BeatenProper DEF Keeps
<1>4. CASE p.alive
  BY <1>3, <1>4 DEF WentSilent, q
<1>5. CASE ~p.alive
  <2>1. WentSilent(p) = Asks(p, {})
    BY <1>5 DEF WentSilent
  <2> QED BY <2>1, KeptProper DEF Keeps
<1> QED BY <1>4, <1>5

LEMMA EvidenceReturnedKept ==
    ASSUME NEW d, NEW b \in Nat, NEW p, Kept(p, d, b)
    PROVE  /\ Kept(EvidenceReturned(p), d, b)
           /\ EvidenceReturned(p).alive = p.alive
           /\ p.alive => Quiet(EvidenceReturned(p))
<1> DEFINE q == [p EXCEPT !.silent = None, !.grace = None, !.waived = FALSE,
                   !.same = FALSE, !.scanning = FALSE,
                   !.nextScan = IF p.scanning THEN None ELSE @,
                   !.scanGap = IF p.scanning THEN ScanFloor ELSE @]
<1>1. CASE p.alive
  <2>1. EvidenceReturned(p) = q
    BY <1>1 DEF EvidenceReturned
  <2>2. /\ q \in Policies /\ q.alive = p.alive /\ q.dial = p.dial
        /\ q.budget = p.budget /\ ~q.scanning /\ q.browsing = p.browsing
        /\ q.silent = None
    BY Parameters DEF Kept, Policies, Moments
  <2> HIDE DEF q
  <2> QED BY <1>1, <2>1, <2>2 DEF Kept, Coherent, Quiet
<1>2. CASE ~p.alive
  BY <1>2 DEF EvidenceReturned
<1> QED BY <1>1, <1>2

(* The inputs that begin a scan and beat.                                    *)
LEMMA ScanAndBeat ==
    ASSUME NEW d, NEW b \in Nat, NEW p, Kept(p, d, b)
    PROVE  LET o == Beat(BeginScanning(Asks(p, {})))
           IN  Proper(o, d, b) /\ Keeps(o, p)
<1> DEFINE h == Asks(p, {})
           l == BeginScanning(h)
<1>1. Proper(h, d, b) /\ h.p = p
  BY KeptProper
<1> HIDE DEF h
<1>2. Proper(l, d, b) /\ l.p.alive = p.alive
  BY <1>1, BeginScanningProper
<1> HIDE DEF l
<1>3. Proper(Beat(l), d, b) /\ Keeps(Beat(l), l.p)
  BY <1>2, BeatProper
<1> QED BY <1>2, <1>3 DEF Keeps, l, h

(* What loses the session leaves it lost.                                    *)
Loses(o) == ~o.p.alive

LEMMA LostStaysLost ==
    ASSUME NEW d, NEW b, NEW o, NEW p, Proper(o, d, b), Keeps(o, p), ~p.alive
    PROVE  Loses(o)
BY DEF Proper, Keeps, Loses, Coherent

LEMMA SessionClosedProper ==
    ASSUME NEW d, NEW b \in Nat, NEW p, Kept(p, d, b)
    PROVE  Proper(SessionClosed(p), d, b) /\ Loses(SessionClosed(p))
<1> DEFINE q == [p EXCEPT !.alive = FALSE, !.same = FALSE]
<1>1. /\ q \in Policies /\ ~q.alive /\ q.dial = p.dial /\ q.scanning = p.scanning
      /\ q.browsing = p.browsing /\ q.nextScan = p.nextScan
  BY DEF Kept, Policies
<1>2. SessionClosed(p) = Beat(BeginScanning(Asks(q, {})))
  BY DEF SessionClosed
<1> HIDE DEF q
<1>3. Kept(q, d, b)
  BY <1>1 DEF Kept, Coherent
<1>4. Proper(SessionClosed(p), d, b) /\ Keeps(SessionClosed(p), q)
  BY <1>2, <1>3, ScanAndBeat
<1> QED BY <1>1, <1>4, LostStaysLost

LEMMA ManualReconnectProper ==
    ASSUME NEW d, NEW b \in Nat, NEW p, Kept(p, d, b)
    PROVE  Proper(ManualReconnect(p), d, b) /\ Loses(ManualReconnect(p))
<1> DEFINE q == [p EXCEPT !.alive = FALSE, !.scanning = FALSE, !.same = FALSE,
                  !.dialGap = DialFloor, !.dialIn = 0]
<1>1. /\ q \in Policies /\ ~q.alive /\ q.dial = p.dial /\ ~q.scanning
      /\ q.browsing = p.browsing
  BY Parameters DEF Kept, Policies
<1>2. ManualReconnect(p) = Beat(BeginScanning(Asks(q, {})))
  BY DEF ManualReconnect
<1> HIDE DEF q
<1>3. Kept(q, d, b)
  BY <1>1 DEF Kept, Coherent
<1>4. Proper(ManualReconnect(p), d, b) /\ Keeps(ManualReconnect(p), q)
  BY <1>2, <1>3, ScanAndBeat
<1> QED BY <1>1, <1>4, LostStaysLost

LEMMA PathChangedProper ==
    ASSUME NEW d, NEW b \in Nat, NEW p, Kept(p, d, b)
    PROVE  /\ Proper(PathChanged(p), d, b) /\ Keeps(PathChanged(p), p)
           /\ Quiet(p) => Idle(PathChanged(p))
<1> DEFINE q == [p EXCEPT !.waived = TRUE, !.grace = None]
           g == [p EXCEPT !.waived = TRUE, !.grace = Grace]
<1>1. /\ q \in Policies /\ q.alive = p.alive /\ q.dial = p.dial
      /\ q.budget = p.budget /\ q.scanning = p.scanning
      /\ q.browsing = p.browsing /\ q.nextScan = p.nextScan
  BY DEF Kept, Policies, Moments
<1>2. /\ g \in Policies /\ g.alive = p.alive /\ g.dial = p.dial
      /\ g.budget = p.budget /\ g.scanning = p.scanning /\ g.silent = p.silent
      /\ g.browsing = p.browsing /\ g.nextScan = p.nextScan
  BY Parameters DEF Kept, Policies, Moments
<1>3. PathChanged(p) = IF ~p.alive THEN Asks(p, {})
                       ELSE IF p.silent # None THEN Beat(BeginScanning(Asks(q, {})))
                       ELSE Asks(g, {})
  BY DEF PathChanged
<1> HIDE DEF q, g
<1>4. Kept(q, d, b) /\ Kept(g, d, b)
  BY <1>1, <1>2 DEF Kept, Coherent
<1>5. CASE ~p.alive
  <2>1. PathChanged(p) = Asks(p, {})
    BY <1>3, <1>5
  <2> QED BY <1>5, <2>1, KeptProper DEF Keeps, Quiet
<1>6. CASE p.alive /\ p.silent # None
  <2>1. PathChanged(p) = Beat(BeginScanning(Asks(q, {})))
    BY <1>3, <1>6
  <2>2. Proper(PathChanged(p), d, b) /\ Keeps(PathChanged(p), q)
    BY <1>4, <2>1, ScanAndBeat
  <2> QED BY <1>1, <1>6, <2>2 DEF Keeps, Quiet
<1>7. CASE p.alive /\ p.silent = None
  <2>1. PathChanged(p) = Asks(g, {})
    BY <1>3, <1>7
  <2>2. /\ Proper(Asks(g, {}), d, b)
        /\ Asks(g, {}).p = g /\ Asks(g, {}).asks = {}
    BY <1>4, KeptProper
  <2> QED BY <1>2, <2>1, <2>2 DEF Keeps, Quiet, Idle
<1> QED BY <1>5, <1>6, <1>7

LEMMA ConnectingProper ==
    ASSUME NEW b \in Nat, NEW a \in Addresses
    PROVE  Proper(Connecting(a), Nobody, b) /\ Loses(Connecting(a))
<1> DEFINE f == Fresh(a)
           q == [f EXCEPT !.alive = FALSE, !.budget = Budget]
<1>1. f \in Policies /\ f.dial = Nobody /\ ~f.scanning /\ ~f.browsing
  BY Parameters DEF Fresh, Policies, Moments, None, Targets
<1>2. Connecting(a) = Beaten(q)
  BY DEF Connecting
<1> HIDE DEF f
<1>3. q \in Policies /\ q.dial = Nobody /\ ~q.scanning /\ ~q.browsing /\ ~q.alive
  BY <1>1, Parameters DEF Policies, Moments
<1> HIDE DEF q
<1>4. Kept(q, Nobody, b)
  BY <1>3 DEF Kept, Coherent
<1>5. Proper(Connecting(a), Nobody, b) /\ Keeps(Connecting(a), q)
  BY <1>2, <1>4, BeatenProper
<1> QED BY <1>3, <1>5, LostStaysLost

LEMMA FreshKept ==
    ASSUME NEW b \in Nat, NEW a \in Addresses
    PROVE  Kept(Fresh(a), Nobody, b) /\ Quiet(Fresh(a))
<1> DEFINE f == Fresh(a)
<1>1. /\ f \in Policies /\ f.dial = Nobody /\ ~f.scanning /\ ~f.browsing
      /\ f.alive /\ f.budget = None /\ f.silent = None
  BY Parameters DEF Fresh, Policies, Moments, None, Targets
<1> HIDE DEF f
<1>2. Kept(f, Nobody, b) /\ Quiet(f)
  BY <1>1 DEF Kept, Coherent, Quiet
<1> QED BY <1>2 DEF f

(* A browse that answers is no longer in hand, whatever it saw.              *)
LEMMA ScanCompletedProper ==
    ASSUME NEW d, NEW b \in Nat, NEW p, NEW a \in Targets, Kept(p, d, b + 1)
    PROVE  /\ Proper(ScanCompleted(p, a), d, b) /\ Keeps(ScanCompleted(p, a), p)
           /\ Quiet(p) => Idle(ScanCompleted(p, a))
<1> DEFINE q == [p EXCEPT !.browsing = FALSE]
           worth == a # q.known \/ ~q.alive \/ q.waived
           m == [q EXCEPT !.same = TRUE]
           n == [q EXCEPT !.held = a]
           r == IF ~worth THEN m ELSE IF a # q.dial THEN n ELSE q
<1>1. /\ q \in Policies /\ q.alive = p.alive /\ q.dial = d
      /\ q.budget = p.budget /\ q.scanning = p.scanning /\ q.silent = p.silent
      /\ ~q.browsing
  BY DEF Kept, Policies
<1>2. ScanCompleted(p, a) =
        IF ~q.scanning THEN Asks(q, {})
        ELSE IF a = Nobody THEN Beaten(ScheduleNextScan(q))
        ELSE IF worth /\ q.dial = Nobody THEN DialSighting(q, a)
        ELSE Beaten(ScheduleNextScan(r))
  BY DEF ScanCompleted
<1>3. q.alive => q.dial = Nobody /\ q.budget = None
  BY <1>1 DEF Kept, Coherent
<1> HIDE DEF q
<1>4. /\ r \in Policies /\ r.alive = q.alive /\ r.dial = q.dial
      /\ r.budget = q.budget /\ ~r.browsing
  <2>1. /\ m \in Policies /\ m.alive = q.alive /\ m.dial = q.dial
        /\ m.budget = q.budget /\ ~m.browsing
    BY <1>1 DEF Policies
  <2>2. /\ n \in Policies /\ n.alive = q.alive /\ n.dial = q.dial
        /\ n.budget = q.budget /\ ~n.browsing
    BY <1>1 DEF Policies
  <2> HIDE DEF m, n, worth
  <2> QED BY <1>1, <2>1, <2>2
<1> HIDE DEF r, worth
<1>5. ASSUME NEW t \in Policies, t.alive = q.alive, t.dial = q.dial,
             t.budget = q.budget, ~t.browsing
      PROVE  /\ Proper(Beaten(ScheduleNextScan(t)), d, b)
             /\ Keeps(Beaten(ScheduleNextScan(t)), p)
  <2> DEFINE u == ScheduleNextScan(t)
  <2>1. /\ u \in Policies /\ u.nextScan # None /\ u.alive = t.alive
        /\ u.dial = t.dial /\ u.budget = t.budget /\ u.browsing = t.browsing
    BY ScheduleNextScanIs
  <2> HIDE DEF u
  <2>2. Kept(u, d, b)
    BY <1>1, <1>3, <1>5, <2>1 DEF Kept, Coherent
  <2>3. Proper(Beaten(u), d, b) /\ Keeps(Beaten(u), u)
    BY <2>2, BeatenProper
  <2> QED BY <1>1, <1>5, <2>1, <2>3 DEF Keeps, u
<1>6. CASE ~q.scanning
  <2>1. ScanCompleted(p, a) = Asks(q, {})
    BY <1>2, <1>6
  <2>2. Kept(q, d, b)
    BY <1>1, <1>3, <1>6 DEF Kept, Coherent
  <2>3. Proper(Asks(q, {}), d, b) /\ Asks(q, {}).p = q /\ Asks(q, {}).asks = {}
    BY <2>2, KeptProper
  <2> QED BY <1>1, <2>1, <2>3 DEF Keeps, Quiet, Idle
<1>7. CASE q.scanning /\ a = Nobody
  <2>1. ScanCompleted(p, a) = Beaten(ScheduleNextScan(q))
    BY <1>2, <1>7
  <2> QED BY <1>1, <1>5, <1>7, <2>1 DEF Quiet
<1>8. CASE q.scanning /\ a # Nobody /\ worth /\ q.dial = Nobody
  <2>1. ScanCompleted(p, a) = DialSighting(q, a) /\ a \in Addresses
    BY <1>2, <1>8 DEF Targets
  <2>2. /\ Proper(DialSighting(q, a), d, b)
        /\ "dial" \notin DialSighting(q, a).asks
              => DialSighting(q, a).p.alive = q.alive
    BY <1>1, <1>8, <2>1, DialSightingProper
  <2> QED BY <1>1, <1>8, <2>1, <2>2 DEF Keeps, Quiet
<1>9. CASE q.scanning /\ a # Nobody /\ ~(worth /\ q.dial = Nobody)
  <2>1. ScanCompleted(p, a) = Beaten(ScheduleNextScan(r))
    BY <1>2, <1>9
  <2> QED BY <1>1, <1>4, <1>5, <1>9, <2>1 DEF Quiet
<1> QED BY <1>6, <1>7, <1>8, <1>9

(* A dial that failed frees the one dial, and leaves a scan coming.          *)
LEMMA DialFailedProper ==
    ASSUME NEW d, NEW b \in Nat, NEW p, Kept(p, d, b), d # Nobody
    PROVE  \/ "end" \in DialFailed(p).asks
           \/ Proper(DialFailed(p), Nobody, b) /\ Loses(DialFailed(p))
<1> DEFINE q == [p EXCEPT !.dial = Nobody]
           h == [q EXCEPT !.held = Nobody]
           v == Smaller(2 * q.dialGap, DialCeiling)
           w == IF q.scanning /\ ~q.browsing /\ q.nextScan = None THEN 0 ELSE q.nextScan
           n == [q EXCEPT !.dialIn = q.dialGap, !.dialGap = v, !.nextScan = w]
<1>1. /\ q \in Policies /\ ~q.alive /\ q.dial = Nobody
      /\ q.browsing = p.browsing /\ q.scanning = p.scanning
  BY DEF Kept, Coherent, Policies, Targets
<1>2. DialFailed(p) =
        IF q.budget = 0 THEN Expire(Asks(q, {}))
        ELSE IF q.held # Nobody THEN DialSighting(h, q.held)
        ELSE Beat(BeginScanning(Asks(n, {})))
  <2>1. DialFailed(p) =
        IF q.budget = 0 THEN Expire(Asks(q, {}))
        ELSE IF q.held # Nobody THEN DialSighting([q EXCEPT !.held = Nobody], q.held)
        ELSE Beat(BeginScanning(Asks(
        [q EXCEPT !.dialIn = q.dialGap,
                  !.dialGap = Smaller(2 * @, DialCeiling),
                  !.nextScan = IF q.scanning /\ ~q.browsing /\ @ = None
                               THEN 0 ELSE @], {})))
    BY DEF DialFailed, Kept
  <2> HIDE DEF q
  <2>2. n = [q EXCEPT !.dialIn = q.dialGap,
                  !.dialGap = Smaller(2 * @, DialCeiling),
                  !.nextScan = IF q.scanning /\ ~q.browsing /\ @ = None
                               THEN 0 ELSE @]
    BY <1>1 DEF Policies
  <2> QED BY <2>1, <2>2
<1> HIDE DEF q
<1>3. CASE q.budget = 0
  <2>1. DialFailed(p) = Asks(Asks(q, {}).p, Asks(q, {}).asks \cup {"end"})
    BY <1>2, <1>3 DEF Expire
  <2> QED BY <2>1 DEF Asks
<1>4. CASE q.budget # 0 /\ q.held # Nobody
  <2>1. /\ h \in Policies /\ h.dial = Nobody /\ h.browsing = p.browsing
        /\ ~h.alive /\ q.held \in Addresses
    BY <1>1, <1>4 DEF Policies, Targets
  <2>2. DialFailed(p) = DialSighting(h, q.held)
    BY <1>2, <1>4
  <2> HIDE DEF h
  <2>3. /\ Proper(DialFailed(p), Nobody, b)
        /\ "dial" \notin DialFailed(p).asks => DialFailed(p).p.alive = h.alive
    BY <2>1, <2>2, DialSightingProper DEF Kept
  <2> QED BY <2>1, <2>3, LostStaysLost DEF Keeps
<1>5. CASE q.budget # 0 /\ q.held = Nobody
  <2>1. q.dialGap \in Nat /\ DialCeiling \in Nat /\ q.nextScan \in Moments
    BY <1>1, Parameters DEF Policies
  <2>2. v \in Nat /\ w \in Moments
    BY <2>1, SmallerNat DEF Moments
  <2>3. q.scanning /\ ~q.browsing => w # None
    BY DEF None
  <2> HIDE DEF v, w
  <2>4. /\ n \in Policies /\ n.dial = Nobody /\ n.browsing = p.browsing
        /\ n.scanning = q.scanning /\ n.nextScan = w /\ ~n.alive
    BY <1>1, <2>1, <2>2 DEF Policies
  <2>5. DialFailed(p) = Beat(BeginScanning(Asks(n, {})))
    BY <1>2, <1>5
  <2> HIDE DEF n
  <2>6. Kept(n, Nobody, b)
    BY <1>1, <2>3, <2>4 DEF Kept, Coherent
  <2>7. Proper(DialFailed(p), Nobody, b) /\ Keeps(DialFailed(p), n)
    BY <2>5, <2>6, ScanAndBeat
  <2> QED BY <2>4, <2>7, LostStaysLost
<1> QED BY <1>3, <1>4, <1>5

------------------------------------------------------------------------------
(* The invariant: NeverStranded is not inductive alone.  A session that      *)
(* moves keeps the policy quiet, one that is attached keeps it from dialing, *)
(* and a window without a policy has nothing in hand.                        *)
IInv ==
    /\ TypeOK
    /\ NeverStranded
    /\ policy.on => Coherent(policy)
    /\ session = "moving" => Quiet(policy)
    /\ ~policy.on => session = "none" /\ dialing.to = Nobody /\ browses = 0

Dials == {d \in [to : Targets, wire : Wires \cup {"none", "starting"},
                 old : BOOLEAN] : (d.to = Nobody) = (d.wire = "none")}
Hosts == [at : Addresses, up : BOOLEAN, holds : BOOLEAN]
Windows == [window : {"connecting", "streaming"},
            session : {"none", "moving", "frozen"},
            dialing : Dials, browses : Nat]
Settled(o, s) ==
    \/ "dial" \in o.asks
    \/ /\ s = "none" <=> ~o.p.alive
       /\ s = "moving" => Quiet(o.p)

LEMMA EndsKeeps ==
    ASSUME TypeOK, Ends, faults' \in Nat
    PROVE  IInv'
<1>1. /\ window' = "picker" /\ policy' = Off /\ session' = "none"
      /\ dialing' = NoDial /\ browses' = 0
      /\ late' \subseteq {"dial", "browse", "lookup"}
      /\ host' = [host EXCEPT !.holds = FALSE]
  BY DEF Ends, TypeOK
<1>2. host' \in [at : Addresses, up : BOOLEAN, holds : BOOLEAN]
  BY <1>1 DEF TypeOK
<1>3. policy'.on = FALSE /\ dialing'.to = Nobody /\ dialing'.wire = "none"
  BY <1>1 DEF Off, NoDial
<1>4. dialing' \in [to : Targets, wire : Wires \cup {"none", "starting"},
                    old : BOOLEAN]
  BY <1>1 DEF NoDial, Targets
<1>5. TypeOK'
  <2>1. policy'.on = (window' \in {"connecting", "streaming"})
    <3>1. (window' \in {"connecting", "streaming"}) = FALSE
      BY <1>1
    <3> QED BY Zenon, <1>3, <3>1
  <2>2. (dialing'.to = Nobody) = (dialing'.wire = "none")
    BY <1>3
  <2>3. policy' \in {Off} \cup Policies
    BY <1>1
  <2> QED BY <1>1, <1>2, <1>4, <2>1, <2>2, <2>3 DEF TypeOK
<1> QED BY <1>1, <1>3, <1>5 DEF IInv, NeverStranded

LEMMA DrivesKeeps ==
    ASSUME TypeOK, NEW o, NEW w \in Windows, Drives(o, w), faults' \in Nat,
           \/ "end" \in o.asks
           \/ Proper(o, w.dialing.to, w.browses) /\ Settled(o, w.session)
    PROVE  IInv'
<1>1. CASE "end" \in o.asks
  BY <1>1, EndsKeeps DEF Drives
<1>2. CASE "end" \notin o.asks
  <2>1. Proper(o, w.dialing.to, w.browses) /\ Settled(o, w.session)
    BY <1>2
  <2>2. o.p \in Policies /\ Coherent(o.p) /\ o.p.dial \in Targets
    BY <2>1 DEF Proper, Outcomes, Policies
  <2>3. /\ w.window \in {"connecting", "streaming"} /\ w.browses \in Nat
        /\ w.session \in {"none", "moving", "frozen"} /\ w.dialing \in Dials
    BY DEF Windows
  <2>4. /\ window' = w.window /\ policy' = o.p
        /\ session' = IF "dial" \in o.asks THEN "none" ELSE w.session
        /\ dialing' = IF "dial" \in o.asks THEN Dialed(o.p.dial) ELSE w.dialing
        /\ browses' = w.browses + IF "scan" \in o.asks THEN 1 ELSE 0
        /\ late' = late
    BY <1>2 DEF Drives
  <2>5. host' \in Hosts
    <3>1. \E v \in BOOLEAN : host' = [host EXCEPT !.holds = v]
      <4>1. host' = [host EXCEPT !.holds = @ /\ \/ session' # "none"
                                                \/ dialing'.wire \in Wires]
        BY <1>2 DEF Drives
      <4> QED BY <4>1
    <3> QED BY <3>1 DEF TypeOK, Hosts
  <2>6. dialing' \in Dials /\ dialing'.to = o.p.dial
    <3>1. CASE "dial" \in o.asks
      <4>1. o.p.dial # Nobody
        BY <2>1, <3>1 DEF Proper
      <4>2. dialing' = [to |-> o.p.dial, wire |-> "starting", old |-> FALSE]
        BY <2>4, <3>1 DEF Dialed
      <4> QED BY <2>2, <4>1, <4>2 DEF Dials
    <3>2. CASE "dial" \notin o.asks
      BY <2>1, <2>3, <2>4, <3>2 DEF Proper
    <3> QED BY <3>1, <3>2
  <2>7. browses' \in Nat /\ (policy'.browsing => browses' > 0)
    BY <2>1, <2>3, <2>4 DEF Proper
  <2>8. policy'.on /\ policy' \in Policies /\ policy'.alive \in BOOLEAN
    BY <2>2, <2>4 DEF Policies
  <2>9. /\ session' = "none" <=> ~policy'.alive
        /\ session' = "moving" => Quiet(policy')
    <3>1. CASE "dial" \in o.asks
      BY <2>1, <2>2, <2>4, <3>1 DEF Proper, Coherent
    <3>2. CASE "dial" \notin o.asks
      BY <2>1, <2>4, <3>2 DEF Settled
    <3> QED BY <3>1, <3>2
  <2>10. TypeOK'
    <3>1. /\ dialing' \in [to : Targets, wire : Wires \cup {"none", "starting"},
                           old : BOOLEAN]
          /\ (dialing'.to = Nobody) = (dialing'.wire = "none")
      BY <2>6 DEF Dials
    <3>2. policy'.on = (window' \in {"connecting", "streaming"})
      BY <2>3, <2>4, <2>8, <2>2 DEF Policies
    <3>3. session' \in {"none", "moving", "frozen"}
      BY <2>3, <2>4
    <3> QED BY <2>3, <2>4, <2>5, <2>7, <2>8, <3>1, <3>2, <3>3 DEF TypeOK, Hosts
  <2>11. NeverStranded'
    BY <2>2, <2>4, <2>6, <2>7, <2>8, <2>9 DEF NeverStranded, Coherent
  <2> QED BY <2>2, <2>4, <2>8, <2>9, <2>10, <2>11 DEF IInv
<1> QED BY <1>1, <1>2

(* A step that leaves the window, its policy and its session alone.          *)
LEMMA WorldKeeps ==
    ASSUME IInv, UNCHANGED <<window, policy, session, browses>>,
           dialing' \in Dials, dialing'.to = dialing.to, host' \in Hosts,
           late' \subseteq late, faults' \in Nat
    PROVE  IInv'
<1>1. TypeOK'
  <2>1. /\ dialing' \in [to : Targets, wire : Wires \cup {"none", "starting"},
                         old : BOOLEAN]
        /\ (dialing'.to = Nobody) = (dialing'.wire = "none")
    BY DEF Dials
  <2>2. late' \subseteq {"dial", "browse", "lookup"}
    BY DEF IInv, TypeOK
  <2> QED BY <2>1, <2>2 DEF IInv, TypeOK, Hosts
<1>2. NeverStranded'
  BY DEF IInv, NeverStranded
<1> QED BY <1>1, <1>2 DEF IInv, Coherent, Quiet

LEMMA Held ==
    ASSUME IInv
    PROVE  /\ dialing \in Dials /\ host \in Hosts /\ faults \in Nat /\ browses \in Nat
           /\ policy.on => /\ Standing \in Windows
                           /\ Kept(policy, dialing.to, browses)
                           /\ session = "none" <=> ~policy.alive
           /\ session = "moving" => policy.on /\ Quiet(policy)
           /\ session # "none" => policy.on
           /\ dialing.to # Nobody => policy.on
           /\ browses > 0 => policy.on
<1>1. dialing \in Dials /\ host \in Hosts /\ faults \in Nat /\ browses \in Nat
  BY DEF IInv, TypeOK, Dials, Hosts
<1>2. ASSUME policy.on
      PROVE  /\ Standing \in Windows
             /\ Kept(policy, dialing.to, browses)
             /\ session = "none" <=> ~policy.alive
  <2>1. window \in {"connecting", "streaming"} /\ session \in {"none", "moving", "frozen"}
    BY <1>2 DEF IInv, TypeOK
  <2>2. policy \in Policies
    BY <1>2 DEF IInv, TypeOK, Off
  <2>3. policy.alive \in BOOLEAN
    BY <2>2 DEF Policies
  <2> QED BY <1>1, <1>2, <2>1, <2>2, <2>3
          DEF IInv, NeverStranded, Standing, Windows, Kept
<1> QED BY <1>1, <1>2 DEF IInv

LEMMA InitHolds == Init => IInv
<1> SUFFICES ASSUME Init PROVE IInv
  OBVIOUS
<1>1. policy.on = FALSE /\ dialing.to = Nobody /\ dialing.wire = "none"
  BY DEF Init, Off, NoDial
<1>2. dialing \in [to : Targets, wire : Wires \cup {"none", "starting"},
                   old : BOOLEAN]
  BY DEF Init, NoDial, Targets
<1>3. host \in [at : Addresses, up : BOOLEAN, holds : BOOLEAN]
  BY DEF Init
<1>4. TypeOK
  <2>1. policy.on = (window \in {"connecting", "streaming"})
    <3>1. (window \in {"connecting", "streaming"}) = FALSE
      BY DEF Init
    <3> QED BY Zenon, <1>1, <3>1
  <2>2. (dialing.to = Nobody) = (dialing.wire = "none")
    BY <1>1
  <2>3. policy \in {Off} \cup Policies
    BY DEF Init
  <2>4. faults \in Nat /\ browses \in Nat /\ late = {}
    BY Parameters DEF Init
  <2> QED BY <1>2, <1>3, <2>1, <2>2, <2>3, <2>4 DEF Init, TypeOK
<1> QED BY <1>1, <1>4 DEF Init, IInv, NeverStranded

(* The timer.                                                                *)
LEMMA TimerKeeps == ASSUME IInv, Timer PROVE IInv'
<1> DEFINE o == Beaten(policy)
<1>1. policy.on /\ Drives(o, Standing) /\ faults' = faults
  BY DEF Timer
<1>2. /\ Standing \in Windows /\ Kept(policy, dialing.to, browses)
      /\ session = "none" <=> ~policy.alive
      /\ session = "moving" => Quiet(policy)
      /\ faults' \in Nat /\ browses \in Nat
  BY <1>1, Held
<1>3. Proper(o, dialing.to, browses) /\ Keeps(o, policy)
  BY <1>2, BeatenProper
<1>4. session = "moving" => Idle(o)
  BY <1>2, BeatenIdle DEF Kept
<1> HIDE DEF o
<1>5. Settled(o, session)
  BY <1>2, <1>3, <1>4 DEF Settled, Keeps, Idle
<1>6. /\ Standing.dialing = dialing /\ Standing.browses = browses
      /\ Standing.session = session
  BY DEF Standing
<1> QED BY <1>1, <1>2, <1>3, <1>5, <1>6, DrivesKeeps DEF IInv

(* A browse answers.                                                         *)
LEMMA ScanAnswersKeeps ==
    ASSUME IInv, NEW a \in Addresses \cup {Nobody}, ScanAnswers(a) PROVE IInv'
<1> DEFINE o == ScanCompleted(policy, a)
           w == [Standing EXCEPT !.browses = @ - 1]
<1>1. browses > 0 /\ Drives(o, w)
  BY DEF ScanAnswers
<1>2. /\ policy.on /\ Standing \in Windows /\ Kept(policy, dialing.to, browses)
      /\ session = "none" <=> ~policy.alive
      /\ session = "moving" => Quiet(policy)
      /\ faults \in Nat /\ browses \in Nat
  BY <1>1, Held
<1>3. faults' \in Nat
  BY <1>2 DEF ScanAnswers, Spend
<1>4. browses - 1 \in Nat /\ (browses - 1) + 1 = browses /\ a \in Targets
  BY <1>1, <1>2 DEF Targets
<1>5. /\ Proper(o, dialing.to, browses - 1) /\ Keeps(o, policy)
      /\ Quiet(policy) => Idle(o)
  BY <1>2, <1>4, ScanCompletedProper
<1> HIDE DEF o
<1>6. Settled(o, session)
  BY <1>2, <1>5 DEF Settled, Keeps, Idle
<1>7. /\ w \in Windows /\ w.dialing = dialing /\ w.browses = browses - 1
      /\ w.session = session
  BY <1>2, <1>4 DEF Standing, Windows
<1> HIDE DEF w
<1> QED BY <1>1, <1>3, <1>5, <1>6, <1>7, DrivesKeeps DEF IInv

(* The path changes.                                                         *)
LEMMA PathHopsKeeps == ASSUME IInv, PathHops PROVE IInv'
<1> DEFINE o == PathChanged(policy)
<1>1. policy.on /\ Drives(o, Standing) /\ faults > 0 /\ faults' = faults - 1
  BY DEF PathHops, Spend
<1>2. /\ Standing \in Windows /\ Kept(policy, dialing.to, browses)
      /\ session = "none" <=> ~policy.alive
      /\ session = "moving" => Quiet(policy)
      /\ faults \in Nat /\ browses \in Nat
  BY <1>1, Held
<1>3. faults' \in Nat
  BY <1>1, <1>2
<1>4. /\ Proper(o, dialing.to, browses) /\ Keeps(o, policy)
      /\ Quiet(policy) => Idle(o)
  BY <1>2, PathChangedProper
<1> HIDE DEF o
<1>5. Settled(o, session)
  BY <1>2, <1>4 DEF Settled, Keeps, Idle
<1>6. /\ Standing.dialing = dialing /\ Standing.browses = browses
      /\ Standing.session = session
  BY DEF Standing
<1> QED BY <1>1, <1>2, <1>3, <1>4, <1>5, <1>6, DrivesKeeps DEF IInv

(* A dial fails, and has held back no session.                               *)
LEMMA DialUnansweredKeeps == ASSUME IInv, DialUnanswered PROVE IInv'
<1> DEFINE o == DialFailed(policy)
           w == [Standing EXCEPT !.dialing = NoDial]
<1>1. dialing.wire = "starting" /\ Drives(o, w) /\ faults' = faults
  BY DEF DialUnanswered
<1>2. dialing.to # Nobody
  BY <1>1 DEF IInv, TypeOK
<1>3. /\ policy.on /\ Standing \in Windows /\ Kept(policy, dialing.to, browses)
      /\ session = "none" <=> ~policy.alive
      /\ faults' \in Nat /\ browses \in Nat
  BY <1>1, <1>2, Held
<1>4. "end" \in o.asks \/ (Proper(o, Nobody, browses) /\ Loses(o))
  BY <1>2, <1>3, DialFailedProper
<1>5. session = "none"
  BY <1>2, <1>3 DEF Kept, Coherent
<1> HIDE DEF o
<1>6. "end" \in o.asks \/ Settled(o, session)
  BY <1>4, <1>5 DEF Settled, Loses
<1>7. NoDial \in Dials /\ NoDial.to = Nobody
  BY DEF NoDial, Dials, Targets
<1>8. /\ w \in Windows /\ w.dialing = NoDial /\ w.browses = browses
      /\ w.session = session
  BY <1>3, <1>7 DEF Standing, Windows
<1> HIDE DEF w
<1> QED BY <1>1, <1>3, <1>4, <1>6, <1>7, <1>8, DrivesKeeps DEF IInv

(* A session ends: the policy roams, dials again, or ends with the window.   *)
LEMMA ClosesKeeps ==
    ASSUME TypeOK, NEW p, NEW verdict \in Verdicts, NEW w \in Windows,
           w.session = "none", Kept(p, w.dialing.to, w.browses),
           Closes(p, verdict, w), faults' \in Nat
    PROVE  IInv'
<1>1. w.browses \in Nat
  BY DEF Windows
<1>2. CASE Drives(SessionClosed(p), w)
  <2>1. Proper(SessionClosed(p), w.dialing.to, w.browses) /\ Loses(SessionClosed(p))
    BY <1>1, SessionClosedProper
  <2>2. Settled(SessionClosed(p), w.session)
    BY <2>1 DEF Settled, Loses
  <2> QED BY <1>2, <2>1, <2>2, DrivesKeeps
<1>3. CASE Drives(ManualReconnect(p), w)
  <2>1. Proper(ManualReconnect(p), w.dialing.to, w.browses) /\ Loses(ManualReconnect(p))
    BY <1>1, ManualReconnectProper
  <2>2. Settled(ManualReconnect(p), w.session)
    BY <2>1 DEF Settled, Loses
  <2> QED BY <1>3, <2>1, <2>2, DrivesKeeps
<1>4. CASE Ends
  BY <1>4, EndsKeeps
<1> QED BY <1>2, <1>3, <1>4 DEF Closes, Verdicts

(* The dial's session becomes the window's.                                  *)
LEMMA AdoptKeeps == ASSUME IInv, Adopt PROVE IInv'
<1> DEFINE f == Fresh(dialing.to)
<1>1. dialing.wire \in {"moving", "frozen", "closed"} /\ faults' = faults
  BY DEF Adopt
<1>2. dialing.to \in Addresses
  BY <1>1 DEF IInv, TypeOK, Targets
<1>3. /\ policy.on /\ Standing \in Windows
      /\ faults' \in Nat /\ browses \in Nat
  BY <1>1, <1>2, Held, Parameters
<1>4. Kept(f, Nobody, browses) /\ Quiet(f)
  BY <1>2, <1>3, FreshKept
<1> HIDE DEF f
<1>5. NoDial \in Dials /\ NoDial.to = Nobody
  BY DEF NoDial, Dials, Targets
<1>6. ASSUME NEW wire \in {"none", "moving", "frozen"}
      PROVE  /\ Adopted(wire) \in Windows /\ Adopted(wire).dialing = NoDial
             /\ Adopted(wire).browses = browses /\ Adopted(wire).session = wire
  <2>1. Adopted(wire) = [window |-> "streaming", session |-> wire,
                         dialing |-> NoDial, browses |-> browses]
    <3>1. Adopted(wire) = [[[Standing EXCEPT !.window = "streaming"]
                              EXCEPT !.session = wire] EXCEPT !.dialing = NoDial]
      BY Zenon DEF Adopted
    <3>2. [Standing EXCEPT !.window = "streaming"]
            = [window |-> "streaming", session |-> session,
               dialing |-> dialing, browses |-> browses]
      BY DEF Standing
    <3>3. [[window |-> "streaming", session |-> session,
            dialing |-> dialing, browses |-> browses] EXCEPT !.session = wire]
            = [window |-> "streaming", session |-> wire,
               dialing |-> dialing, browses |-> browses]
      OBVIOUS
    <3>4. [[window |-> "streaming", session |-> wire,
            dialing |-> dialing, browses |-> browses] EXCEPT !.dialing = NoDial]
            = [window |-> "streaming", session |-> wire,
               dialing |-> NoDial, browses |-> browses]
      OBVIOUS
    <3> QED BY <3>1, <3>2, <3>3, <3>4
  <2> QED BY <1>3, <1>5, <2>1 DEF Windows
<1>7. CASE /\ dialing.wire \in {"moving", "frozen"}
           /\ Drives(Asks(f, {}), Adopted(dialing.wire))
  <2>1. /\ Adopted(dialing.wire) \in Windows
        /\ Adopted(dialing.wire).dialing = NoDial
        /\ Adopted(dialing.wire).browses = browses
        /\ Adopted(dialing.wire).session = dialing.wire
    BY <1>6, <1>7
  <2>2. /\ Proper(Asks(f, {}), Nobody, browses) /\ Asks(f, {}).p = f
    BY <1>3, <1>4, KeptProper
  <2>3. Settled(Asks(f, {}), dialing.wire)
    BY <1>4, <1>7, <2>2 DEF Settled, Quiet
  <2> QED BY <1>3, <1>5, <1>7, <2>1, <2>2, <2>3, DrivesKeeps DEF IInv
<1>8. CASE \E verdict \in Verdicts : Closes(f, verdict, Adopted("none"))
  <2>1. PICK verdict \in Verdicts : Closes(f, verdict, Adopted("none"))
    BY <1>8
  <2>2. /\ Adopted("none") \in Windows /\ Adopted("none").dialing = NoDial
        /\ Adopted("none").browses = browses /\ Adopted("none").session = "none"
    BY <1>6
  <2> QED BY <1>3, <1>4, <1>5, <2>1, <2>2, ClosesKeeps DEF IInv
<1> QED BY <1>7, <1>8 DEF Adopt, f

(* The session in hand freezes, thaws, closes; or the dial's, unheard.       *)
LEMMA WindowsAre ==
    ASSUME IInv, Standing \in Windows, NEW s \in {"none", "moving", "frozen"}
    PROVE  LET w == [Standing EXCEPT !.session = s]
           IN  /\ w \in Windows /\ w.dialing = dialing /\ w.browses = browses
               /\ w.session = s
BY DEF Standing, Windows

LEMMA DialWireKeeps ==
    ASSUME IInv, dialing.wire \in Wires,
           NEW wire \in Wires, dialing' = [dialing EXCEPT !.wire = wire],
           UNCHANGED <<window, policy, session, browses, late>>,
           host' \in Hosts, faults' \in Nat
    PROVE  IInv'
<1>1. dialing \in Dials
  BY Held
<1>2. wire # "none" /\ dialing.wire # "none"
  BY DEF Wires
<1>3. dialing' \in Dials /\ dialing'.to = dialing.to
  BY <1>1, <1>2 DEF Dials
<1> QED BY <1>3, WorldKeeps

LEMMA FreezeKeeps == ASSUME IInv, Freeze PROVE IInv'
<1>1. faults' \in Nat /\ host \in Hosts
  BY Held DEF Freeze, Spend
<1>2. CASE session = "moving" /\ Drives(WentSilent(policy), [Standing EXCEPT !.session = "frozen"])
  <2> DEFINE w == [Standing EXCEPT !.session = "frozen"]
             o == WentSilent(policy)
  <2>1. /\ policy.on /\ Standing \in Windows /\ Kept(policy, dialing.to, browses)
        /\ session = "none" <=> ~policy.alive
        /\ browses \in Nat
    BY <1>2, Held
  <2>2. /\ w \in Windows /\ w.dialing = dialing /\ w.browses = browses
        /\ w.session = "frozen"
    BY <2>1, WindowsAre
  <2>3. Proper(o, dialing.to, browses) /\ Keeps(o, policy)
    BY <2>1, WentSilentProper
  <2>4. Drives(o, w)
    BY <1>2
  <2> HIDE DEF o, w
  <2>5. Settled(o, "frozen")
    BY <1>2, <2>1, <2>3 DEF Settled, Keeps
  <2> QED BY <1>1, <2>2, <2>3, <2>4, <2>5, DrivesKeeps DEF IInv
<1>3. CASE /\ dialing.wire = "moving"
           /\ dialing' = [dialing EXCEPT !.wire = "frozen"]
           /\ UNCHANGED <<window, policy, session, browses, late, host>>
  <2>1. dialing.wire \in Wires /\ "frozen" \in Wires
    BY <1>3 DEF Wires
  <2> QED BY <1>1, <1>3, <2>1, DialWireKeeps
<1> QED BY <1>2, <1>3 DEF Freeze

LEMMA ThawKeeps == ASSUME IInv, Thaw PROVE IInv'
<1>1. faults' \in Nat /\ host \in Hosts
  BY Held DEF Thaw
<1>2. CASE /\ session = "frozen"
           /\ Drives(Asks(EvidenceReturned(policy), {}),
                     [Standing EXCEPT !.session = "moving"])
  <2> DEFINE w == [Standing EXCEPT !.session = "moving"]
             p == EvidenceReturned(policy)
             o == Asks(p, {})
  <2>1. /\ policy.on /\ Standing \in Windows /\ Kept(policy, dialing.to, browses)
        /\ session = "none" <=> ~policy.alive
        /\ browses \in Nat
    BY <1>2, Held
  <2>2. /\ w \in Windows /\ w.dialing = dialing /\ w.browses = browses
        /\ w.session = "moving"
    BY <2>1, WindowsAre
  <2>3. Kept(p, dialing.to, browses) /\ p.alive = policy.alive /\ Quiet(p)
    BY <1>2, <2>1, EvidenceReturnedKept
  <2>4. Drives(o, w)
    BY <1>2
  <2> HIDE DEF p, w
  <2>5. Proper(o, dialing.to, browses) /\ o.p = p
    BY <2>1, <2>3, KeptProper
  <2> HIDE DEF o
  <2>6. Settled(o, "moving")
    BY <2>3, <2>5 DEF Settled, Quiet
  <2> QED BY <1>1, <2>2, <2>4, <2>5, <2>6, DrivesKeeps DEF IInv
<1>3. CASE /\ dialing.wire = "frozen"
           /\ dialing' = [dialing EXCEPT !.wire = "moving"]
           /\ UNCHANGED <<window, policy, session, browses, late, host>>
  <2>1. dialing.wire \in Wires /\ "moving" \in Wires
    BY <1>3 DEF Wires
  <2> QED BY <1>1, <1>3, <2>1, DialWireKeeps
<1> QED BY <1>2, <1>3 DEF Thaw

LEMMA SessionEndKeeps ==
    ASSUME IInv, session # "none", NEW verdict \in Verdicts,
           Closes(policy, verdict, [Standing EXCEPT !.session = "none"]),
           faults' \in Nat
    PROVE  IInv'
<1> DEFINE w == [Standing EXCEPT !.session = "none"]
<1>1. policy.on /\ Standing \in Windows /\ Kept(policy, dialing.to, browses)
  BY Held
<1>2. /\ w \in Windows /\ w.dialing = dialing /\ w.browses = browses
      /\ w.session = "none"
  BY <1>1, WindowsAre
<1>3. Closes(policy, verdict, w)
  OBVIOUS
<1> HIDE DEF w
<1> QED BY <1>1, <1>2, <1>3, ClosesKeeps DEF IInv

LEMMA LivenessKeeps == ASSUME IInv, Liveness PROVE IInv'
<1>1. faults' \in Nat /\ host \in Hosts
  BY Held DEF Liveness
<1>2. CASE /\ session = "frozen"
           /\ Closes(policy, "roam", [Standing EXCEPT !.session = "none"])
  <2>1. "roam" \in Verdicts /\ session # "none"
    BY <1>2 DEF Verdicts
  <2> QED BY <1>1, <1>2, <2>1, SessionEndKeeps
<1>3. CASE /\ dialing.wire = "frozen"
           /\ dialing' = [dialing EXCEPT !.wire = "closed"]
           /\ UNCHANGED <<window, policy, session, browses, late, host>>
  <2>1. dialing.wire \in Wires /\ "closed" \in Wires
    BY <1>3 DEF Wires
  <2> QED BY <1>1, <1>3, <2>1, DialWireKeeps
<1> QED BY <1>2, <1>3 DEF Liveness

LEMMA PeerEndsKeeps == ASSUME IInv, PeerEnds PROVE IInv'
<1>1. faults' \in Nat /\ host \in Hosts
  BY Held DEF PeerEnds, Spend
<1>2. CASE /\ session # "none"
           /\ \E verdict \in Verdicts :
                Closes(policy, verdict, [Standing EXCEPT !.session = "none"])
  BY <1>1, <1>2, SessionEndKeeps
<1>3. CASE /\ dialing.wire \in {"moving", "frozen"}
           /\ dialing' = [dialing EXCEPT !.wire = "closed"]
           /\ host' = [host EXCEPT !.holds = FALSE]
           /\ UNCHANGED <<window, policy, session, browses, late>>
  <2>1. dialing.wire \in Wires /\ "closed" \in Wires
    BY <1>3 DEF Wires
  <2>2. host' \in Hosts
    BY <1>1, <1>3 DEF Hosts
  <2> QED BY <1>1, <1>3, <2>1, <2>2, DialWireKeeps
<1> QED BY <1>2, <1>3 DEF PeerEnds

(* The human.                                                                *)
LEMMA LookupAnswersKeeps == ASSUME IInv, LookupAnswers PROVE IInv'
<1>1. window = "lookup" /\ faults' = faults /\ faults' \in Nat
  BY Held DEF LookupAnswers
<1>2. /\ policy.on = FALSE /\ session = "none" /\ dialing.to = Nobody /\ browses = 0
      /\ dialing \in Dials
  <2>1. policy.on = FALSE
    <3>1. /\ policy.on = (window \in {"connecting", "streaming"})
          /\ (window \in {"connecting", "streaming"}) = FALSE
      BY <1>1 DEF IInv, TypeOK
    <3> QED BY Zenon, <3>1
  <2> QED BY <2>1, Held DEF IInv
<1>3. ASSUME NEW a \in Addresses,
             Drives(Connecting(a), [Standing EXCEPT !.window = "connecting"])
      PROVE  IInv'
  <2> DEFINE w == [Standing EXCEPT !.window = "connecting"]
             o == Connecting(a)
  <2>1. /\ w \in Windows /\ w.dialing = dialing /\ w.browses = 0
        /\ w.session = "none"
    BY <1>2 DEF Standing, Windows
  <2>2. Proper(o, Nobody, 0) /\ Loses(o)
    BY ConnectingProper
  <2>3. Drives(o, w)
    BY <1>3
  <2> HIDE DEF o, w
  <2>4. Settled(o, "none")
    BY <2>2 DEF Settled, Loses
  <2> QED BY <1>1, <1>2, <2>1, <2>2, <2>3, <2>4, DrivesKeeps DEF IInv
<1>4. CASE /\ window' = "picker"
           /\ UNCHANGED <<policy, session, dialing, browses, late, host>>
  <2>1. policy'.on = (window' \in {"connecting", "streaming"})
    <3>1. (window' \in {"connecting", "streaming"}) = FALSE /\ policy'.on = FALSE
      BY <1>2, <1>4
    <3> QED BY Zenon, <3>1
  <2>2. TypeOK'
    BY <1>1, <1>4, <2>1 DEF IInv, TypeOK
  <2> QED BY <1>2, <1>4, <2>2 DEF IInv, NeverStranded
<1> QED BY <1>3, <1>4 DEF LookupAnswers

LEMMA ConnectKeeps == ASSUME IInv, Connect PROVE IInv'
<1>1. /\ window = "picker" /\ window' = "lookup"
      /\ UNCHANGED <<policy, session, dialing, browses, late, host, faults>>
  BY DEF Connect, world
<1>2. policy.on = FALSE
  <2>1. /\ policy.on = (window \in {"connecting", "streaming"})
        /\ (window \in {"connecting", "streaming"}) = FALSE
    BY <1>1 DEF IInv, TypeOK
  <2> QED BY Zenon, <2>1
<1>3. policy'.on = (window' \in {"connecting", "streaming"})
  <2>1. (window' \in {"connecting", "streaming"}) = FALSE /\ policy'.on = FALSE
    BY <1>1, <1>2
  <2> QED BY Zenon, <2>1
<1>4. TypeOK'
  BY <1>1, <1>3 DEF IInv, TypeOK
<1> QED BY <1>1, <1>2, <1>4 DEF IInv, NeverStranded

LEMMA ReconnectKeeps == ASSUME IInv, NEW flips \in BOOLEAN, Reconnect(flips) PROVE IInv'
<1> DEFINE d == IF flips THEN Flipped(dialing) ELSE dialing
           w == [Standing EXCEPT !.session = "none",
                                 !.dialing = IF flips THEN Flipped(@) ELSE @]
           o == ManualReconnect(policy)
<1>1. window = "streaming" /\ Drives(o, w)
  BY DEF Reconnect
<1>2. /\ policy.on /\ Standing \in Windows /\ Kept(policy, dialing.to, browses)
      /\ faults' \in Nat /\ browses \in Nat /\ dialing \in Dials
  <2>1. policy.on
    BY <1>1 DEF IInv, TypeOK
  <2> QED BY <2>1, Held DEF Reconnect, Spend
<1>3. /\ w \in Windows /\ w.dialing.to = dialing.to /\ w.browses = browses
      /\ w.session = "none"
  <2>1. Flipped(dialing) \in Dials /\ Flipped(dialing).to = dialing.to
    BY <1>2 DEF Flipped, Dials
  <2>2. d \in Dials /\ d.to = dialing.to
    BY <1>2, <2>1
  <2>3. w = [Standing EXCEPT !.session = "none", !.dialing = d]
    BY DEF Standing
  <2> HIDE DEF d, w
  <2> QED BY <1>2, <2>2, <2>3 DEF Standing, Windows
<1>4. Proper(o, dialing.to, browses) /\ Loses(o)
  BY <1>2, ManualReconnectProper
<1> HIDE DEF o, w
<1>5. Settled(o, "none")
  BY <1>4 DEF Settled, Loses
<1> QED BY <1>1, <1>2, <1>3, <1>4, <1>5, DrivesKeeps DEF IInv

(* Time passes.                                                              *)
LEMMA TickKeeps == ASSUME IInv, Tick PROVE IInv'
<1> DEFINE u == IF policy.silent \in 0 .. RedialAfter - 1
                THEN policy.silent + 1 ELSE policy.silent
           q == [policy EXCEPT !.budget = Older(policy.budget),
                   !.grace = Older(policy.grace),
                   !.nextScan = Older(policy.nextScan),
                   !.dialIn = Older(policy.dialIn), !.silent = u]
<1>1. /\ policy.on
      /\ UNCHANGED <<window, session, dialing, browses, late, host, faults>>
  BY DEF Tick, world
<1>2. policy \in Policies
  BY <1>1 DEF IInv, TypeOK, Off
<1>3. /\ policy.budget \in Moments /\ policy.grace \in Moments
      /\ policy.nextScan \in Moments /\ policy.silent \in Moments
      /\ policy.dialIn \in Nat
  BY <1>2 DEF Policies
<1>4. \A m \in Moments : Older(m) \in Moments /\ (Older(m) = None <=> m = None)
  BY DEF Older, Moments, None
<1>5. \A n \in Nat : Older(n) \in Nat
  BY DEF Older
<1>6. u \in Moments /\ (u = None <=> policy.silent = None)
  BY <1>3, Parameters DEF Moments, None
<1>7. policy' = q
  BY <1>2 DEF Tick, Policies
<1> HIDE DEF u
<1>8. /\ q \in Policies /\ q.alive = policy.alive /\ q.dial = policy.dial
      /\ q.budget = Older(policy.budget) /\ q.nextScan = Older(policy.nextScan)
      /\ q.scanning = policy.scanning /\ q.browsing = policy.browsing
      /\ q.silent = u /\ q.on = policy.on
  BY <1>2, <1>3, <1>4, <1>5, <1>6 DEF Policies
<1> HIDE DEF q
<1>9. Coherent(q) /\ (Quiet(policy) => Quiet(q))
  BY <1>1, <1>3, <1>4, <1>6, <1>8 DEF IInv, Coherent, Quiet
<1>10. TypeOK'
  BY <1>1, <1>7, <1>8 DEF IInv, TypeOK
<1>11. NeverStranded'
  BY <1>1, <1>7, <1>8, <1>9 DEF IInv, NeverStranded, Coherent
<1> QED BY <1>1, <1>7, <1>8, <1>9, <1>10, <1>11 DEF IInv

(* The steps of the host, the network and the dial that tell nobody.         *)
LEMMA DialSucceedsKeeps == ASSUME IInv, DialSucceeds PROVE IInv'
<1>1. dialing.wire # "none" /\ dialing \in Dials /\ host \in Hosts /\ faults' \in Nat
  BY Held DEF DialSucceeds
<1>2. dialing' = [dialing EXCEPT !.wire = "moving"] /\ "moving" \in Wires
  BY DEF DialSucceeds, Wires
<1>3. dialing' \in Dials /\ dialing'.to = dialing.to
  BY <1>1, <1>2 DEF Dials, Wires
<1>4. host' \in Hosts
  BY <1>1 DEF DialSucceeds, Hosts
<1> QED BY <1>1, <1>3, <1>4, WorldKeeps DEF DialSucceeds

LEMMA HostKeeps ==
    ASSUME IInv, UNCHANGED <<window, policy, session, dialing, browses>>,
           late' \subseteq late, host' \in Hosts, faults' \in Nat
    PROVE  IInv'
BY Held, WorldKeeps

LEMMA EnvironmentKeeps ==
    ASSUME IInv,
           \/ \E answer \in {"dial", "browse", "lookup"} : Dropped(answer)
           \/ \E a \in Addresses : Moves(a)
           \/ Restarts \/ Darkens \/ Lightens
    PROVE  IInv'
<1>1. host \in Hosts /\ faults \in Nat
  BY Held
<1>2. ASSUME NEW answer \in {"dial", "browse", "lookup"}, Dropped(answer)
      PROVE  IInv'
  BY <1>1, <1>2, HostKeeps DEF Dropped, world
<1>3. ASSUME NEW a \in Addresses, Moves(a)
      PROVE  IInv'
  <2>1. host' = [host EXCEPT !.at = a, !.holds = FALSE] /\ Spend
    BY <1>3, Zenon DEF Moves
  <2>2. faults' \in Nat
    BY <1>1, <2>1 DEF Spend
  <2>3. host' \in Hosts
    BY <1>1, <2>1 DEF Hosts
  <2>4. UNCHANGED <<window, policy, session, dialing, browses, late>>
    BY <1>3, Zenon DEF Moves
  <2> QED BY <2>2, <2>3, <2>4, HostKeeps
<1>4. CASE Restarts
  <2>1. host' = [host EXCEPT !.holds = FALSE] /\ faults' \in Nat
    BY <1>1, <1>4 DEF Restarts, Spend
  <2>2. host' \in Hosts
    BY <1>1, <2>1 DEF Hosts
  <2> QED BY <1>4, <2>1, <2>2, HostKeeps DEF Restarts
<1>5. CASE Darkens
  <2>1. host' = [host EXCEPT !.up = FALSE] /\ faults' \in Nat
    BY <1>1, <1>5 DEF Darkens, Spend
  <2>2. host' \in Hosts
    BY <1>1, <2>1 DEF Hosts
  <2> QED BY <1>5, <2>1, <2>2, HostKeeps DEF Darkens
<1>6. CASE Lightens
  <2>1. host' = [host EXCEPT !.up = TRUE] /\ faults' \in Nat
    BY <1>1, <1>6 DEF Lightens
  <2>2. host' \in Hosts
    BY <1>1, <2>1 DEF Hosts
  <2> QED BY <1>6, <2>1, <2>2, HostKeeps DEF Lightens
<1> QED BY <1>2, <1>3, <1>4, <1>5, <1>6

(* The window ends by a human, a refusal, or a host under another identity.  *)
LEMMA EndingsKeep ==
    ASSUME IInv, Disconnect \/ IdentityReplaced \/ DialRefused
    PROVE  IInv'
<1>1. Ends /\ faults' \in Nat /\ TypeOK
  BY Held DEF Disconnect, IdentityReplaced, DialRefused, Spend, IInv
<1> QED BY <1>1, EndsKeeps

LEMMA NextHolds == IInv /\ [Next]_vars => IInv'
<1> SUFFICES ASSUME IInv, [Next]_vars PROVE IInv'
  OBVIOUS
<1>1. CASE UNCHANGED vars
  <2>1. host \in Hosts /\ faults \in Nat
    BY Held
  <2> QED BY <1>1, <2>1, HostKeeps DEF vars
<1>2. CASE Connect \/ LookupAnswers \/ Disconnect
  BY <1>2, ConnectKeeps, LookupAnswersKeeps, EndingsKeep
<1>3. CASE \E flips \in BOOLEAN : Reconnect(flips)
  BY <1>3, ReconnectKeeps
<1>4. CASE Timer \/ Tick
  BY <1>4, TimerKeeps, TickKeeps
<1>5. CASE \E a \in Addresses \cup {Nobody} : ScanAnswers(a)
  BY <1>5, ScanAnswersKeeps
<1>6. CASE IdentityReplaced \/ DialSucceeds \/ DialUnanswered \/ DialRefused \/ Adopt
  BY <1>6, EndingsKeep, DialSucceedsKeeps, DialUnansweredKeeps, AdoptKeeps
<1>7. CASE Freeze \/ Thaw \/ Liveness \/ PeerEnds
  BY <1>7, FreezeKeeps, ThawKeeps, LivenessKeeps, PeerEndsKeeps
<1>8. CASE PathHops
  BY <1>8, PathHopsKeeps
<1>9. CASE \/ \E answer \in {"dial", "browse", "lookup"} : Dropped(answer)
           \/ \E a \in Addresses : Moves(a)
           \/ Restarts \/ Darkens \/ Lightens
  BY <1>9, EnvironmentKeeps
<1> QED BY <1>1, <1>2, <1>3, <1>4, <1>5, <1>6, <1>7, <1>8, <1>9 DEF Next

(* The invariant holds in every reachable state.                             *)
THEOREM Invariance == Spec => []IInv
BY InitHolds, NextHolds, PTL DEF Spec

(* Every variable has its type, for every ladder, budget and set of          *)
(* addresses.                                                                *)
THEOREM TypeCorrect == Spec => []TypeOK
<1>1. IInv => TypeOK
  BY DEF IInv
<1> QED BY Invariance, <1>1, PTL

(* RoamingPolicy and its driver agree: the policy waits only for a scan and  *)
(* a dial that are running, and while it wants scans one is in flight,       *)
(* scheduled, or waiting on the dial (RoamingPolicy.swift:36-38).            *)
THEOREM AlwaysDriven == Spec => []NeverStranded
<1>1. IInv => NeverStranded
  BY DEF IInv
<1> QED BY Invariance, <1>1, PTL

(* No timer, late scan or change of path makes the driver tear down a        *)
(* session that moves.                                                       *)
THEOREM MovingUndisturbed == Spec => MovingStands
<1>1. IInv /\ [Next]_vars
        => [session = "moving" /\ PolicyActs => session' = "moving"]_vars
  <2> SUFFICES ASSUME IInv, session = "moving", PolicyActs
               PROVE  session' = "moving"
    OBVIOUS
  <2>1. /\ policy.on /\ Quiet(policy) /\ Kept(policy, dialing.to, browses)
        /\ browses \in Nat
    BY Held
  <2>2. ASSUME NEW o, NEW w, Drives(o, w), Idle(o), w.session = "moving"
        PROVE  session' = "moving"
    BY <2>2 DEF Drives, Idle
  <2>3. Standing.session = "moving"
    BY DEF Standing
  <2>4. CASE Timer
    <3>1. Idle(Beaten(policy))
      BY <2>1, BeatenIdle DEF Kept
    <3> QED BY <2>2, <2>3, <2>4, <3>1 DEF Timer
  <2>5. CASE PathHops
    <3>1. Idle(PathChanged(policy))
      BY <2>1, PathChangedProper
    <3> QED BY <2>2, <2>3, <2>5, <3>1 DEF PathHops
  <2>6. ASSUME NEW a \in Addresses \cup {Nobody}, ScanAnswers(a)
        PROVE  session' = "moving"
    <3> DEFINE w == [Standing EXCEPT !.browses = @ - 1]
    <3>1. browses - 1 \in Nat /\ (browses - 1) + 1 = browses /\ a \in Targets
      BY <2>1, <2>6 DEF ScanAnswers, Targets
    <3>2. Idle(ScanCompleted(policy, a))
      BY <2>1, <3>1, ScanCompletedProper
    <3>3. w.session = "moving"
      BY DEF Standing
    <3>4. Drives(ScanCompleted(policy, a), w)
      BY <2>6 DEF ScanAnswers
    <3> HIDE DEF w
    <3> QED BY <2>2, <3>2, <3>3, <3>4
  <2> QED BY <2>4, <2>5, <2>6 DEF PolicyActs
<1> QED BY Invariance, <1>1, PTL DEF Spec, MovingStands
=============================================================================
