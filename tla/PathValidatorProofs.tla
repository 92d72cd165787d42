------------------------ MODULE PathValidatorProofs ------------------------
(***************************************************************************)
(* Proofs about PathValidator for every set of tuples, channels and        *)
(* tokens, every timeout, and every run of the client and the network.     *)
(***************************************************************************)
EXTENDS PathValidator, TLAPS

USE PathAssumption

Sound(s) == s \in Validator /\ Apart(s)
Arrived == [from: Tuples, channel: Channels, seq: Nat, size: Nat,
            token: Token, asked: Tuples \cup {None}]

(***************************************************************************)
(* What an order notes, and the fields of a validator.                     *)
(***************************************************************************)
LEMMA NotedType ==
  ASSUME NEW order \in Order, NEW d \in Arrived
  PROVE  Noted(order, d) \in Order
BY DEF Noted, Order, Arrived

LEMMA NoProbeType == NoProbe \in Probe /\ NoOrder \in Order
BY DEF Probe, NoOrder, Order

LEMMA NoProbeTuple == NoProbe.tuple = None /\ NoProbe.token = None
BY DEF NoProbe

LEMMA ProbeFields ==
  ASSUME NEW p \in Probe
  PROVE  /\ p.tuple \in Tuples \cup {None} /\ p.token \in Token
         /\ p.left \in Nat /\ p.received \in Nat /\ p.challenged \in BOOLEAN
         /\ p.order \in Order
         /\ p # NoProbe => p.tuple \in Tuples /\ p.token \in Tokens
         /\ p = NoProbe => p.tuple = None /\ p.token = None /\ p.challenged = FALSE
<1>1. CASE p = NoProbe
  BY <1>1 DEF NoProbe, Token, NoOrder, Order
<1>2. CASE p # NoProbe
  BY <1>2 DEF Probe, Token
<1> QED
  BY <1>1, <1>2

(***************************************************************************)
(* Expiry keeps the primary, and only forgets.                             *)
(***************************************************************************)
LEMMA ExpiredSound ==
  ASSUME NEW s, Sound(s)
  PROVE  /\ Sound(Expired(s))
         /\ Expired(s).primary = s.primary
         /\ Expired(s).left = s.left
         /\ Expired(s).fallback # None =>
                Expired(s).fallback = s.fallback /\ s.left > 0
         /\ Expired(s).primaryOrder = s.primaryOrder
         /\ Expired(s).probe \in {s.probe, NoProbe}
<1> DEFINE t == IF s.probe.left = 0 THEN [s EXCEPT !.probe = NoProbe] ELSE s
<1>1. /\ t \in Validator /\ Apart(t) /\ t.primary = s.primary /\ t.left = s.left
      /\ t.fallback = s.fallback /\ t.primaryOrder = s.primaryOrder
      /\ t.probe \in {s.probe, NoProbe}
  BY NoProbeType DEF Sound, Apart, Validator
<1>2. Expired(s) = IF t.left = 0
                   THEN [t EXCEPT !.fallback = None, !.fallbackOrder = NoOrder]
                   ELSE t
  BY DEF Expired
<1> HIDE DEF t
<1>3. s.left \in Nat
  BY DEF Sound, Validator
<1>4. CASE t.left = 0
  <2> DEFINE u == [t EXCEPT !.fallback = None, !.fallbackOrder = NoOrder]
  <2>1. /\ u \in Validator /\ u.primary = t.primary /\ u.left = t.left
        /\ u.fallback = None /\ u.primaryOrder = t.primaryOrder
        /\ u.probe = t.probe
    BY <1>1, NoProbeType DEF Validator
  <2>2. u.primary \in Tuples
    BY <2>1 DEF Validator
  <2>3. Apart(u)
    <3>1. u.probe # NoProbe => u.probe.tuple \in Tuples /\ u.probe.tuple # t.primary
      BY <1>1, <2>1, ProbeFields DEF Apart, Validator
    <3> QED
      BY <2>1, <2>2, <3>1 DEF Apart
  <2> QED
    BY <1>1, <1>2, <1>4, <2>1, <2>3 DEF Sound
<1>5. CASE t.left # 0
  BY <1>1, <1>2, <1>3, <1>5 DEF Sound
<1> QED
  BY <1>4, <1>5


(***************************************************************************)
(* A datagram routed keeps the validator sound.  The primary changes only  *)
(* to the fallback, for a datagram from there that the primary's order     *)
(* knows to be overtaken; a probe is opened for the datagram's own source. *)
(***************************************************************************)
LEMMA RoutedSound ==
  ASSUME NEW s, Sound(s), NEW d \in Arrived, NEW token \in Tokens
  PROVE  /\ Sound(Routed(s, d, token))
         /\ Routed(s, d, token).left = s.left
         /\ \/ /\ Routed(s, d, token).primary = s.primary
               /\ Routed(s, d, token).fallback = s.fallback
            \/ /\ Routed(s, d, token).primary = s.fallback
               /\ Routed(s, d, token).fallback = s.primary
               /\ d.from = s.fallback /\ s.fallback # None
               /\ IsOvertaken(s.primaryOrder, d)
         /\ LET p == Routed(s, d, token).probe
            IN \/ p = s.probe
               \/ s.probe # NoProbe /\ p # NoProbe
                  /\ p.tuple = s.probe.tuple /\ p.token = s.probe.token
               \/ s.probe = NoProbe /\ p # NoProbe
                  /\ p.tuple = d.from /\ p.token = token
<1>1. /\ d.from \in Tuples /\ d.size \in Nat
      /\ s.primary \in Tuples /\ s.fallback \in Tuples \cup {None}
      /\ s.primaryOrder \in Order /\ s.fallbackOrder \in Order /\ s.probe \in Probe
  BY DEF Arrived, Sound, Validator
<1>0. /\ s.fallback # s.primary
      /\ d.from = s.probe.tuple => d.from \notin {s.primary, s.fallback}
      /\ d.from = s.probe.tuple => s.probe # NoProbe
  BY <1>1, NoProbeTuple DEF Sound, Apart
<1>2. CASE d.from = s.primary
  <2>1. Routed(s, d, token) = [s EXCEPT !.primaryOrder = Noted(s.primaryOrder, d)]
    BY <1>2, <1>0 DEF Routed
  <2> QED
    BY <2>1, <1>1, NotedType DEF Sound, Apart, Validator
<1>3. CASE d.from # s.primary /\ d.from = s.fallback
  <2> DEFINE t == [s EXCEPT !.fallbackOrder = Noted(s.fallbackOrder, d)]
  <2>1. Routed(s, d, token) = FromFallback(s, d)
    BY <1>3, <1>0 DEF Routed
  <2>2. /\ t \in Validator /\ Apart(t) /\ t.primary = s.primary
        /\ t.fallback = s.fallback /\ t.left = s.left /\ t.probe = s.probe
        /\ t.primaryOrder = s.primaryOrder
    BY <1>1, NotedType DEF Sound, Apart, Validator
  <2>3. FromFallback(s, d) = IF IsOvertaken(s.primaryOrder, d)
                             THEN ReturnToFallback(t) ELSE t
    BY DEF FromFallback
  <2> HIDE DEF t
  <2>4. CASE ~IsOvertaken(s.primaryOrder, d)
    BY <2>1, <2>2, <2>3, <2>4 DEF Sound
  <2>5. CASE IsOvertaken(s.primaryOrder, d)
    <3> DEFINE u == ReturnToFallback(t)
    <3>1. s.fallback \in Tuples /\ s.fallback # None
      BY <1>1, <1>3
    <3>2. /\ u \in Validator /\ u.primary = t.fallback /\ u.fallback = t.primary
          /\ u.left = t.left /\ u.probe = t.probe
      BY <2>2, <3>1 DEF ReturnToFallback, Validator
    <3>3. Apart(u)
      BY <2>2, <3>2 DEF Apart
    <3> QED
      BY <1>3, <2>1, <2>2, <2>3, <2>5, <3>1, <3>2, <3>3 DEF Sound
  <2> QED
    BY <2>4, <2>5
<1>4. CASE /\ d.from \notin {s.primary, s.fallback}
           /\ d.from = s.probe.tuple
  <2> DEFINE p == s.probe
  <2> DEFINE q == [p EXCEPT !.order = Noted(p.order, d)]
  <2> DEFINE r == Raised(q, d.size)
  <2> DEFINE u == ChallengeWithinBudget(r)
  <2>1. p # NoProbe /\ p \in Probe
    BY <1>1, <1>4, NoProbeTuple
  <2>2. p.order \in Order
    BY <2>1, ProbeFields
  <2>3. q \in Probe \ {NoProbe} /\ q.tuple = p.tuple /\ q.token = p.token
    <3>1. q.tuple # None
      BY <2>1, <1>1, <1>4 DEF Probe
    <3> QED
      BY <2>1, <2>2, <3>1, NotedType, NoProbeTuple DEF Probe
  <2> HIDE DEF q
  <2>4. r \in Probe \ {NoProbe} /\ r.tuple = p.tuple /\ r.token = p.token
    <3>1. r.tuple = q.tuple /\ r.token = q.token
      BY <2>3, ProbeFields DEF Raised, Probe
    <3>2. q.received \in Nat /\ q.tuple \in Tuples
      BY <2>3, ProbeFields
    <3>3. r \in Probe
      BY <2>3, <3>2, <1>1 DEF Raised, Probe
    <3> QED
      BY <2>3, <3>1, <3>2, <3>3, NoProbeTuple
  <2> HIDE DEF r
  <2>5. u \in Probe \ {NoProbe} /\ u.tuple = p.tuple /\ u.token = p.token
    <3>1. r.tuple \in Tuples
      BY <2>4, ProbeFields
    <3>2. u.tuple = r.tuple /\ u.token = r.token /\ u \in Probe
      BY <2>4 DEF ChallengeWithinBudget, Probe
    <3> QED
      BY <2>4, <3>1, <3>2, NoProbeTuple
  <2>6. Routed(s, d, token) = [s EXCEPT !.probe = u]
    <3>1. Routed(s, d, token) = FromProbed(s, d)
      BY <1>4, <1>0 DEF Routed
    <3>2. FromProbed(s, d) = [s EXCEPT !.probe = u]
      BY DEF FromProbed, q, r
    <3> QED
      BY <3>1, <3>2
  <2> HIDE DEF u
  <2>7. /\ [s EXCEPT !.probe = u] \in Validator
        /\ Apart([s EXCEPT !.probe = u])
    BY <2>1, <2>5 DEF Sound, Apart, Validator
  <2> QED
    BY <2>1, <2>5, <2>6, <2>7 DEF Sound, Validator
<1>5. CASE /\ d.from \notin {s.primary, s.fallback, s.probe.tuple}
           /\ s.probe = NoProbe
  <2> DEFINE q == [NoProbe EXCEPT !.tuple = d.from, !.token = token,
                      !.left = Timeout, !.order = Noted(NoOrder, d)]
  <2> DEFINE r == Raised(q, d.size)
  <2> DEFINE u == ChallengeWithinBudget(r)
  <2>1. /\ q \in [tuple: Tuples, token: Tokens, left: Nat, received: Nat,
                  challenged: BOOLEAN, order: Order]
        /\ q.tuple = d.from /\ q.token = token
    <3>1. Noted(NoOrder, d) \in Order /\ Timeout \in Nat
      BY NotedType, NoProbeType
    <3> QED
      BY <1>1, <3>1 DEF NoProbe
  <2> HIDE DEF q
  <2>2. /\ r \in [tuple: Tuples, token: Tokens, left: Nat, received: Nat,
                  challenged: BOOLEAN, order: Order]
        /\ r.tuple = d.from /\ r.token = token
    BY <1>1, <2>1 DEF Raised
  <2> HIDE DEF r
  <2>3. /\ u \in Probe \ {NoProbe} /\ u.tuple = d.from /\ u.token = token
    <3>1. u.tuple = d.from /\ u.token = token /\ u \in Probe
      BY <2>2 DEF ChallengeWithinBudget, Probe
    <3> QED
      BY <1>1, <3>1, NoProbeTuple
  <2>4. Routed(s, d, token) = [s EXCEPT !.probe = u]
    BY <1>5 DEF Routed, FromUnknown, q, r
  <2> HIDE DEF u
  <2>5. /\ [s EXCEPT !.probe = u] \in Validator
        /\ Apart([s EXCEPT !.probe = u])
    BY <1>5, <2>3 DEF Sound, Apart, Validator
  <2> QED
    BY <1>5, <2>3, <2>4, <2>5 DEF Sound, Validator
<1>6. CASE /\ d.from \notin {s.primary, s.fallback, s.probe.tuple}
           /\ s.probe # NoProbe
  BY <1>6 DEF Routed
<1> QED
  BY <1>2, <1>3, <1>4, <1>5, <1>6

(***************************************************************************)
(* A promotion retains the primary and empties the probe slot.             *)
(***************************************************************************)
LEMMA AnsweredSound ==
  ASSUME NEW s, Sound(s), NEW d \in Arrived, d.token # None, Answers(s, d)
  PROVE  /\ Sound(Answered(s, d)) /\ s.probe # NoProbe
         /\ d.from \notin {s.primary, s.fallback}
         /\ Answered(s, d).primary = d.from /\ Answered(s, d).probe = NoProbe
         /\ Answered(s, d).left = Retention
<1>1. s.probe # NoProbe /\ s.probe \in Probe /\ d.from \in Tuples
      /\ d.from = s.probe.tuple
  BY NoProbeTuple DEF Sound, Validator, Answers, Arrived
<1>2. s.probe.order \in Order
  BY <1>1, ProbeFields
<1>3. d.from \notin {s.primary, s.fallback}
  BY <1>1 DEF Sound, Apart
<1>4. /\ Answered(s, d) \in Validator /\ Answered(s, d).primary = d.from
      /\ Answered(s, d).fallback = s.primary /\ Answered(s, d).probe = NoProbe
      /\ Answered(s, d).left = Retention
  BY <1>1, <1>2, NoProbeType DEF Answered, Sound, Validator
<1> QED
  BY <1>1, <1>3, <1>4 DEF Sound, Apart


(***************************************************************************)
(* What one received datagram does to the validator, all of Receive's      *)
(* cases in one.                                                           *)
(***************************************************************************)
LEMMA ReceiveEffect ==
  ASSUME IInv, NEW d \in net, Receive(d)
  PROVE  /\ Sound(v')
         /\ \/ /\ v'.primary = v.primary
               /\ v'.fallback # None =>
                    /\ v'.left = v.left /\ v.fallback # None
               /\ proofAge' = proofAge
            \/ /\ v'.primary = v.fallback /\ v.left > 0 /\ v.fallback # None
               /\ v'.left = v.left /\ proofAge' = proofAge
               /\ d.from = v.fallback /\ IsOvertaken(v.primaryOrder, d)
            \/ /\ v'.primary \notin {v.primary, v.fallback}
               /\ v'.left = Retention /\ proofAge' = 0
               /\ d.from = v'.primary /\ d.asked = v'.primary
         /\ \/ v'.probe = NoProbe
            \/ /\ v.probe # NoProbe /\ v'.probe.tuple = v.probe.tuple
               /\ v'.probe.token = v.probe.token
            \/ v'.probe.token \notin InUse
         /\ \A c \in challenges' \ challenges :
                /\ c \in [to: Tuples, token: Tokens]
                /\ v'.probe # NoProbe => c.to = v'.probe.tuple
         /\ net' = net \ {d}
<1> DEFINE e == Expired(v)
<1> DEFINE r == Routed(e, d, Fresh)
<1> DEFINE promotes == d.token # None /\ Answers(r, d)
<1>1. d \in Arrived /\ Sound(v) /\ d.token \in InUse /\ v.probe.token \in InUse
  BY DEF IInv, TypeOK, Sound, Arrived, InUse
<1>2. Fresh \in Tokens /\ Fresh \notin InUse
  BY DEF Receive, Fresh
<1>3. /\ Sound(e) /\ e.primary = v.primary /\ e.left = v.left
      /\ e.fallback # None => e.fallback = v.fallback /\ v.left > 0
      /\ e.primaryOrder = v.primaryOrder
      /\ e.probe \in {v.probe, NoProbe}
  BY <1>1, ExpiredSound
<1>4. /\ v' = IF promotes THEN Answered(r, d) ELSE r
      /\ proofAge' = IF promotes THEN 0 ELSE proofAge
      /\ challenges' \subseteq challenges \cup Challenged(e, r)
      /\ net' = net \ {d}
  BY DEF Receive
<1> HIDE DEF e
<1>5. /\ Sound(r) /\ r.left = e.left
      /\ \/ r.primary = e.primary /\ r.fallback = e.fallback
         \/ /\ r.primary = e.fallback /\ r.fallback = e.primary
            /\ d.from = e.fallback /\ e.fallback # None
            /\ IsOvertaken(e.primaryOrder, d)
      /\ \/ r.probe = e.probe
         \/ /\ e.probe # NoProbe /\ r.probe # NoProbe
            /\ r.probe.tuple = e.probe.tuple /\ r.probe.token = e.probe.token
         \/ /\ e.probe = NoProbe /\ r.probe # NoProbe
            /\ r.probe.tuple = d.from /\ r.probe.token = Fresh
  BY <1>1, <1>2, <1>3, RoutedSound
<1> HIDE DEF r
<1>6. \A c \in Challenged(e, r) : /\ c.to = r.probe.tuple /\ r.probe # NoProbe
                                  /\ c \in [to: Tuples, token: Tokens]
  <2>1. SUFFICES ASSUME NEW c \in Challenged(e, r)
                 PROVE  /\ c.to = r.probe.tuple /\ r.probe # NoProbe
                        /\ c \in [to: Tuples, token: Tokens]
    OBVIOUS
  <2>2. r.probe.challenged /\ c = [to |-> r.probe.tuple, token |-> r.probe.token]
    BY DEF Challenged
  <2>3. r.probe \in Probe /\ r.probe # NoProbe
    BY <1>5, <2>2, ProbeFields DEF Sound, Validator
  <2>4. r.probe.tuple \in Tuples /\ r.probe.token \in Tokens
    BY <2>3, ProbeFields
  <2> QED
    BY <2>2, <2>3, <2>4
<1>7. CASE ~promotes
  <2>1. v' = r /\ proofAge' = proofAge
    BY <1>4, <1>7
  <2>2. \/ r.probe = NoProbe
        \/ /\ v.probe # NoProbe /\ r.probe.tuple = v.probe.tuple
           /\ r.probe.token = v.probe.token
        \/ r.probe.token \notin InUse
    BY <1>2, <1>3, <1>5
  <2> QED
    BY <1>3, <1>4, <1>5, <1>6, <2>1, <2>2
<1>8. CASE promotes
  <2>1. /\ Sound(v') /\ r.probe # NoProbe /\ d.from \notin {r.primary, r.fallback}
        /\ v'.primary = d.from /\ v'.probe = NoProbe /\ v'.left = Retention
        /\ proofAge' = 0
    BY <1>1, <1>4, <1>5, <1>8, AnsweredSound
  <2>2. d.from = r.probe.tuple /\ d.token = r.probe.token /\ d.token # None
    BY <1>8 DEF Answers
  <2>3. /\ v.probe # NoProbe /\ r.probe.tuple = v.probe.tuple
        /\ r.probe.token = v.probe.token
    BY <1>1, <1>2, <1>3, <1>5, <2>1, <2>2
  <2>4. d.from \notin {v.primary, v.fallback}
    BY <1>1, <2>2, <2>3 DEF Sound, Apart
  <2>5. d.asked = d.from
    BY <2>2, <2>3 DEF IInv, TokensBound
  <2> QED
    BY <1>4, <1>6, <2>1, <2>4, <2>5
<1> QED
  BY <1>7, <1>8

(***************************************************************************)
(* The invariant holds initially, and every step keeps it.                 *)
(***************************************************************************)
THEOREM InitIInv == Init => IInv
<1> SUFFICES ASSUME Init PROVE IInv
  OBVIOUS
<1>1. TypeOK
  BY NoProbeType DEF Init, TypeOK, Validator
<1>2. Apart(v)
  BY DEF Init, Apart
<1> QED
  BY <1>1, <1>2 DEF Init, IInv, TokensBound, WindowBound, SentSince

LEMMA ReceiveKeeps ==
  ASSUME IInv, NEW d \in net, Receive(d)
  PROVE  IInv'
<1>1. /\ Sound(v') /\ net' = net \ {d} /\ UNCHANGED <<at, moves, sent, since>>
      /\ v.left \in Nat /\ Retention \in Nat /\ proofAge \in Nat
  BY ReceiveEffect DEF Receive, IInv, TypeOK, Validator
<1>2. TypeOK'
  <2>1. proofAge' \in Nat
    BY <1>1 DEF Receive
  <2>2. challenges' \subseteq [to: Tuples, token: Tokens]
    BY ReceiveEffect DEF IInv, TypeOK
  <2> QED
    BY <1>1, <2>1, <2>2 DEF IInv, TypeOK, Sound
<1>3. TokensBound'
  <2>1. CASE v'.probe = NoProbe
    <3>1. v'.probe.token = None
      BY <2>1, NoProbeTuple
    <3>2. \A c \in challenges' : c.token # None
      BY <1>2 DEF TypeOK
    <3> QED
      BY <3>1, <3>2 DEF TokensBound
  <2>2. CASE /\ v'.probe # NoProbe /\ v'.probe.tuple = v.probe.tuple
             /\ v'.probe.token = v.probe.token
    BY <1>1, <2>2, ReceiveEffect DEF IInv, TokensBound
  <2>3. CASE v'.probe # NoProbe /\ v'.probe.token \notin InUse
    <3>1. /\ \A e \in net' : e.token # v'.probe.token
          /\ \A c \in challenges : c.token # v'.probe.token
      BY <1>1, <2>3 DEF InUse
    <3>2. \A c \in challenges' \ challenges : c.to = v'.probe.tuple
      BY <2>3, ReceiveEffect
    <3> QED
      BY <3>1, <3>2 DEF TokensBound
  <2> QED
    BY <2>1, <2>2, <2>3, ReceiveEffect
<1>4. WindowBound'
  BY <1>1, ReceiveEffect DEF IInv, WindowBound
<1>5. SentSince'
  BY <1>1 DEF IInv, SentSince
<1> QED
  BY <1>1, <1>2, <1>3, <1>4, <1>5 DEF IInv, Sound

LEMMA AdvanceKeeps ==
  ASSUME IInv, Advance
  PROVE  IInv'
<1>1. /\ Sound(v') /\ v'.left = v.left
      /\ v'.fallback # None => v.fallback # None
      /\ v'.probe \in {v.probe, NoProbe}
      /\ UNCHANGED <<at, moves, sent, since, net, challenges, proofAge>>
  BY ExpiredSound DEF Advance, IInv, TypeOK, Sound
<1>2. TypeOK'
  BY <1>1 DEF IInv, TypeOK, Sound
<1>3. TokensBound'
  <2>1. \A c \in challenges : c.token # None
    BY DEF IInv, TypeOK
  <2> QED
    BY <1>1, <2>1, NoProbeTuple DEF IInv, TokensBound
<1> QED
  BY <1>1, <1>2, <1>3 DEF IInv, Sound, WindowBound, SentSince


\* The client's datagrams are its newest, from where it is.
LEMMA SendKeeps ==
  ASSUME IInv, NEW d \in Arrived, Enters(d), NEW ch \in Channels,
         d.from = at, d.channel = ch, d.seq = sent[ch] + 1,
         \/ d.token = None
         \/ \E c \in challenges : d.token = c.token /\ d.asked = c.to,
         sent' = [sent EXCEPT ![ch] = @ + 1],
         challenges' \subseteq challenges,
         UNCHANGED <<v, at, moves, since, proofAge>>
  PROVE  IInv'
<1>1. net' \subseteq net \cup {d}
  BY DEF Enters
<1>2. TypeOK'
  BY <1>1 DEF IInv, TypeOK, Arrived, Order
<1>3. TokensBound'
  BY <1>1 DEF IInv, TokensBound
<1>4. SentSince'
  <2>1. SUFFICES ASSUME NEW e \in net'
                 PROVE  /\ e.seq <= sent'[e.channel]
                        /\ e.seq > since[e.channel] => e.from = at
    BY DEF SentSince
  <2>2. sent \in [Channels -> Nat]
    BY DEF IInv, TypeOK, Order
  <2>3. CASE e = d
    BY <2>2, <2>3
  <2>4. CASE e \in net
    <3>1. e.channel \in Channels /\ e.seq \in Nat /\ e.seq <= sent[e.channel]
      BY <2>4 DEF IInv, TypeOK, SentSince
    <3>2. sent'[e.channel] >= sent[e.channel]
          /\ sent'[e.channel] \in Nat /\ sent[e.channel] \in Nat
      BY <2>2, <3>1
    <3>3. e.seq > since[e.channel] => e.from = at
      BY <2>4 DEF IInv, SentSince
    <3> QED
      BY <3>1, <3>2, <3>3
  <2> QED
    BY <1>1, <2>3, <2>4
<1> QED
  BY <1>2, <1>3, <1>4 DEF IInv, WindowBound

LEMMA MoveKeeps ==
  ASSUME IInv, NEW tuple \in Tuples, ClientMoves(tuple)
  PROVE  IInv'
<1>1. TypeOK'
  BY DEF ClientMoves, IInv, TypeOK
<1>2. SentSince'
  <2>1. SUFFICES ASSUME NEW d \in net
                 PROVE  d.seq <= sent[d.channel] /\ ~(d.seq > sent[d.channel])
    BY DEF ClientMoves, SentSince
  <2>2. d.seq \in Nat /\ sent[d.channel] \in Nat
    BY DEF IInv, TypeOK, Order
  <2> QED
    BY <2>2 DEF IInv, SentSince
<1> QED
  BY <1>1, <1>2 DEF ClientMoves, IInv, TokensBound, WindowBound

LEMMA TickKeeps ==
  ASSUME IInv, Tick
  PROVE  IInv'
<1>1. /\ v.left \in Nat /\ v.probe \in Probe /\ proofAge \in Nat
      /\ Retention \in Nat /\ v.probe.left \in Nat
  <2>1. v.probe \in Probe
    BY DEF IInv, TypeOK, Validator
  <2> QED
    BY <2>1, ProbeFields DEF IInv, TypeOK, Validator
<1> DEFINE p == [v.probe EXCEPT !.left = Less(v.probe.left)]
<1>2. p \in Probe /\ p.tuple = v.probe.tuple /\ p.token = v.probe.token
      /\ (p # NoProbe => v.probe # NoProbe)
  <2>1. CASE v.probe = NoProbe
    <3>1. NoProbe.left = 0 /\ Less(0) = 0
      BY DEF NoProbe, Less
    <3>2. p = NoProbe
      BY <2>1, <3>1 DEF NoProbe
    <3> QED
      BY <2>1, <3>2, NoProbeType
  <2>2. CASE v.probe # NoProbe
    <3>1. Less(v.probe.left) \in Nat
      BY <1>1 DEF Less
    <3> QED
      BY <1>1, <2>2, <3>1 DEF Probe
  <2> QED
    BY <2>1, <2>2
<1>3. v' = [v EXCEPT !.left = Less(v.left), !.probe = p]
  BY DEF Tick, IInv, TypeOK, Validator
<1> HIDE DEF p
<1>4. Less(v.left) \in Nat
  BY <1>1 DEF Less
<1>5. /\ v' \in Validator /\ v'.primary = v.primary /\ v'.fallback = v.fallback
      /\ v'.left = Less(v.left) /\ v'.probe = p
  BY <1>2, <1>3, <1>4 DEF IInv, TypeOK, Validator
<1>6. TypeOK'
  BY <1>1, <1>5 DEF Tick, IInv, TypeOK
<1>7. Apart(v')
  BY <1>2, <1>5 DEF IInv, Apart
<1>8. TokensBound'
  BY <1>2, <1>5 DEF Tick, IInv, TokensBound
<1>9. WindowBound'
  BY <1>1, <1>5 DEF Tick, Less, IInv, WindowBound
<1>10. SentSince'
  BY DEF Tick, IInv, SentSince
<1> QED
  BY <1>6, <1>7, <1>8, <1>9, <1>10 DEF IInv

THEOREM NextIInv == IInv /\ [Next]_vars => IInv'
<1> SUFFICES ASSUME IInv, [Next]_vars PROVE IInv'
  OBVIOUS
<1>1. ASSUME NEW d \in net, Receive(d) PROVE IInv'
  BY <1>1, ReceiveKeeps
<1>2. ASSUME NEW c \in challenges, NetLosesChallenge(c) PROVE IInv'
  BY <1>2 DEF NetLosesChallenge, IInv, TypeOK, Apart, TokensBound, WindowBound,
              SentSince
<1>3. CASE Advance
  BY <1>3, AdvanceKeeps
<1>4. CASE Tick
  BY <1>4, TickKeeps
<1>5. ASSUME NEW size \in Sizes, NEW channel \in Channels,
             ClientSends(channel, size)
      PROVE  IInv'
  <2> DEFINE d == Datagram(channel, size, None, None)
  <2>1. d \in Arrived /\ d.from = at /\ d.channel = channel
        /\ d.seq = sent[channel] + 1 /\ d.token = None
    BY DEF Datagram, Arrived, IInv, TypeOK, Order, Token
  <2>2. /\ Enters(d) /\ sent' = [sent EXCEPT ![channel] = @ + 1]
        /\ challenges' = challenges /\ UNCHANGED <<v, at, moves, since, proofAge>>
    BY <1>5 DEF ClientSends
  <2> HIDE DEF d
  <2> QED
    BY <2>1, <2>2, SendKeeps
<1>6. ASSUME NEW size \in Sizes, NEW c \in challenges, ClientAnswers(c, size)
      PROVE  IInv'
  <2> DEFINE d == Datagram(Ctrl, size, c.token, c.to)
  <2>1. d \in Arrived /\ d.from = at /\ d.channel = Ctrl /\ d.seq = sent[Ctrl] + 1
        /\ d.token = c.token /\ d.asked = c.to
    BY DEF Datagram, Arrived, IInv, TypeOK, Order, Token
  <2>2. /\ Enters(d) /\ sent' = [sent EXCEPT ![Ctrl] = @ + 1]
        /\ challenges' \subseteq challenges
        /\ UNCHANGED <<v, at, moves, since, proofAge>>
    BY <1>6 DEF ClientAnswers
  <2> HIDE DEF d
  <2> QED
    BY <2>1, <2>2, SendKeeps
<1>7. ASSUME NEW tuple \in Tuples, ClientMoves(tuple) PROVE IInv'
  BY <1>7, MoveKeeps
<1>8. CASE UNCHANGED vars
  BY <1>8 DEF vars, IInv, TypeOK, Apart, TokensBound, WindowBound, SentSince
<1> QED
  BY <1>1, <1>2, <1>3, <1>4, <1>5, <1>6, <1>7, <1>8 DEF Next

(***************************************************************************)
(* The invariant holds in every behaviour.                                 *)
(***************************************************************************)
THEOREM Invariance == Spec => []IInv
BY InitIInv, NextIInv, PTL DEF Spec

(***************************************************************************)
(* Only the tuple that answered the challenge sent to it is promoted, so   *)
(* neither a late answer nor one sent from elsewhere moves the media.      *)
(***************************************************************************)
THEOREM PromotionAnswered == Spec => OnlyAnswered
<1> DEFINE A == v'.primary \notin {v.primary, v.fallback} =>
                  \E d \in net \ net': d.from = v'.primary /\ d.asked = v'.primary
<1>1. ASSUME IInv, [Next]_vars PROVE [A]_vars
  <2>1. CASE \E d \in net : Receive(d)
    BY <1>1, <2>1, ReceiveEffect
  <2>2. CASE UNCHANGED v
    BY <2>2
  <2>3. CASE Advance
    BY <1>1, <2>3, ExpiredSound DEF Advance, IInv, TypeOK, Sound
  <2>4. CASE Tick
    BY <1>1, <2>4 DEF Tick, IInv, TypeOK, Validator
  <2> QED
    BY <1>1, <2>1, <2>2, <2>3, <2>4 DEF Next, NetLosesChallenge, ClientSends,
       ClientAnswers, ClientMoves, vars
<1> QED
  BY <1>1, Invariance, PTL DEF Spec, OnlyAnswered

(***************************************************************************)
(* A step that changes the primary to the fallback is the receipt of a     *)
(* datagram from the fallback, newer than what the primary delivered.      *)
(***************************************************************************)
LEMMA ReturnCause ==
  ASSUME IInv, [Next]_vars, Returns
  PROVE  /\ v.left > 0 /\ v.fallback # None
         /\ \E d \in net : d.from = v.fallback /\ IsOvertaken(v.primaryOrder, d)
<1>1. CASE \E d \in net : Receive(d)
  BY <1>1, ReceiveEffect DEF Returns
<1>2. CASE UNCHANGED v
  BY <1>2 DEF Returns
<1>3. CASE Advance
  BY <1>3, ExpiredSound DEF Advance, IInv, TypeOK, Sound, Returns
<1>4. CASE Tick
  BY <1>4 DEF Tick, IInv, TypeOK, Validator, Returns
<1> QED
  BY <1>1, <1>2, <1>3, <1>4 DEF Next, NetLosesChallenge, ClientSends,
     ClientAnswers, ClientMoves, vars

(***************************************************************************)
(* Media returns to the fallback only inside the window of the answered    *)
(* challenge, however often the path flaps.                                *)
(***************************************************************************)
THEOREM ReturnsInWindow == Spec => ReturnWithinWindow
<1>1. ASSUME IInv, [Next]_vars PROVE [Returns => proofAge < Retention]_vars
  <2>1. Returns => v.left > 0 /\ v.fallback # None
    BY <1>1, ReturnCause
  <2>2. v.left \in Nat /\ proofAge \in Nat /\ Retention \in Nat
    BY <1>1 DEF IInv, TypeOK, Validator
  <2> QED
    BY <1>1, <2>1, <2>2 DEF IInv, WindowBound
<1> QED
  BY <1>1, Invariance, PTL DEF Spec, ReturnWithinWindow

(***************************************************************************)
(* Media that reached the client on evidence it sent from there stays      *)
(* there while the client does.                                            *)
(***************************************************************************)
THEOREM AnchorHolds == Spec => AnchoredStays
<1>1. ASSUME IInv, [Next]_vars PROVE [Anchored => ~Returns]_vars
  <2>1. SUFFICES ASSUME Anchored, Returns PROVE FALSE
    OBVIOUS
  <2>2. PICK d \in net : d.from = v.fallback /\ IsOvertaken(v.primaryOrder, d)
    BY <1>1, <2>1, ReturnCause
  <2>3. /\ d.channel \in Channels /\ d.seq \in Nat
        /\ v.primaryOrder[d.channel] \in Nat /\ since[d.channel] \in Nat
    BY <1>1 DEF IInv, TypeOK, Validator, Order
  <2>4. d.seq > since[d.channel]
    BY <2>1, <2>2, <2>3 DEF IsOvertaken, Anchored
  <2>5. d.from = at
    BY <1>1, <2>4 DEF IInv, SentSince
  <2> QED
    BY <1>1, <2>1, <2>2, <2>5 DEF Anchored, IInv, Apart
<1> QED
  BY <1>1, Invariance, PTL DEF Spec, AnchoredStays
=============================================================================
