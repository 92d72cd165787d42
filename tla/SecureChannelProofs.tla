------------------------- MODULE SecureChannelProofs -------------------------
(***************************************************************************)
(* Proofs about the secure channel: HandshakeAdmission, where a dial's     *)
(* answer is one transcript, wherever and however late, and outlives the   *)
(* dial that waits for it, for every set of clients and places, schedule,  *)
(* lifetime and budget; and NoiseTransport, the counters of the channel    *)
(* that opens, for every size of the seq space, window, threshold and wrap *)
(* count its assumption admits, and sessions of every length.              *)
(***************************************************************************)
EXTENDS HandshakeAdmission, NoiseTransport, BasicLemmas, FiniteSetTheorems

-----------------------------------------------------------------------------
(* The handshake.                                                          *)

(* The memory holds exactly the dials that were answered, each once; nothing *)
(* carries another key, and a client holds a dial of its own.                *)
Keyed(m, a) == m.type \in {"0x06", "sealed"} => m.key = 1 /\ m.dial \in a
HostInv ==
    /\ session \in {NoSession} \cup Sessions
    /\ challenges \subseteq Asking /\ gate \in Gates
    /\ answered \subseteq Dials /\ drawn \in [Dials -> Nat]
    /\ \A d \in Dials : drawn[d] = IF d \in answered THEN 1 ELSE 0
    /\ session # NoSession => session.key = 1 /\ session.dial \in answered
Dialer(x, c, a) ==
    /\ x \in Dialers
    /\ x.phase # "idle" => x.dial \in Dials /\ x.dial[1] = c
    /\ x.phase = "up" => x.key = 1 /\ x.dial \in a
IInv ==
    /\ HostInv
    /\ client \in [Clients -> Dialers]
    /\ \A c \in Clients : Dialer(client[c], c, answered)
    /\ net \subseteq Messages /\ stray \subseteq Messages
    /\ \A m \in net \cup stray : Keyed(m, answered)
    /\ faults \in 0..Faults

(* The initial states keep the memory and the answers in step.               *)
LEMMA InitHolds == Init => IInv
<1> SUFFICES ASSUME Init PROVE IInv
  OBVIOUS
<1>1. \A c \in Clients : Idle(Home, Dialings) \in Dialers
  BY HandshakeAssumption DEF Idle, Dialers
<1>2. HostInv
  BY HandshakeAssumption DEF Init, HostInv, Gates
<1>3. \A c \in Clients : Dialer(client[c], c, answered)
  BY <1>1 DEF Init, Dialer, Idle
<1> QED BY <1>1, <1>2, <1>3, HandshakeAssumption DEF Init, IInv

(* The gate keeps its bounds.                                                *)
LEMMA NotedIs ==
    ASSUME NEW g \in Gates PROVE Noted(g) \in Gates
<1> DEFINE n == Smaller(g.arrivals + 1, Enter)
           on == IF g.cookieMode THEN n > Exit ELSE n >= Enter
<1>1. n \in 0..Enter
  BY HandshakeAssumption DEF Gates, Smaller
<1>2. on \in BOOLEAN
  <2>1. (n > Exit) \in BOOLEAN /\ (n >= Enter) \in BOOLEAN
    BY <1>1, HandshakeAssumption
  <2> HIDE DEF n
  <2> QED BY <2>1, Zenon
<1>3. Noted(g) = [g EXCEPT !.arrivals = n, !.cookieMode = on]
  BY DEF Noted
<1> HIDE DEF n, on
<1> QED BY <1>1, <1>2, <1>3 DEF Gates

(* Spending for an admitted message 1 leaves the gate within its bounds.     *)
LEMMA SpentIs ==
    ASSUME NEW g \in Gates, NEW m, m.place \in Places, Admits(g, m)
    PROVE  Spent(g, m) \in Gates
<1>1. CASE m.type = "0x14"
  <2>1. g.share[m.place] - 1 \in 0..ShareBurst /\ g.cookies - 1 \in 0..CookieBurst
    BY <1>1, HandshakeAssumption DEF Admits, Credits, Gates
  <2>2. [g.share EXCEPT ![m.place] = @ - 1] \in [Places -> 0..ShareBurst]
    BY <2>1 DEF Gates
  <2>3. Spent(g, m) = [g EXCEPT !.share = [g.share EXCEPT ![m.place] = @ - 1],
                                !.cookies = @ - 1]
    BY <1>1 DEF Spent
  <2> QED BY <2>1, <2>2, <2>3 DEF Gates
<1>2. CASE m.type # "0x14"
  BY <1>2, HandshakeAssumption DEF Admits, Spent, Gates
<1> QED BY <1>1, <1>2

(* A fresh answer to a dial nobody answered.                                 *)
LEMMA AnswerKeeps ==
    ASSUME HostInv, NEW m, m.dial \in Dials \ answered, m.place \in Places, Answer(m),
           gate' \in Gates, challenges' \subseteq Asking
    PROVE  HostInv' /\ answered \subseteq answered'
<1>1. drawn[m.dial] = 0
  BY DEF HostInv
<1>2. drawn' = [drawn EXCEPT ![m.dial] = 1]
  BY <1>1 DEF Answer
<1>7. drawn \in [Dials -> Nat]
  BY DEF HostInv
<1>8. drawn'[m.dial] = 1 /\ drawn' \in [Dials -> Nat]
  BY <1>2, <1>7
<1>3. answered' = answered \cup {m.dial}
  BY DEF Answer
<1>4. session' = Answering(m.dial, m.place, 1)
  BY <1>8 DEF Answer
<1>5. session' \in Sessions /\ session'.key = 1 /\ session'.dial = m.dial
  BY <1>4, HandshakeAssumption DEF Answering, Sessions
<1>6. \A d \in Dials : drawn'[d] = IF d \in answered' THEN 1 ELSE 0
  BY <1>2, <1>3, <1>7 DEF HostInv
<1> QED BY <1>3, <1>5, <1>6, <1>8 DEF HostInv

(* An initiation the acceptor takes, refuses or challenges keeps the memory. *)
LEMMA AcceptKeeps ==
    ASSUME HostInv, NEW m \in Messages, Accept(m)
    PROVE  HostInv' /\ answered \subseteq answered'
<1>1. m.dial \in Dials /\ m.place \in Places
  BY DEF Messages, Asking
<1>2. CASE m.dial \in answered /\ UNCHANGED host
  BY <1>2 DEF HostInv, host
<1>3. CASE m.dial \notin answered
  <2> DEFINE g == Noted(gate)
  <2>1. g \in Gates
    BY NotedIs DEF HostInv
  <2>2. CASE Admits(g, m) /\ Answer(m) /\ gate' = Spent(g, m) /\ UNCHANGED challenges
    <3>1. gate' \in Gates
      BY <1>1, <2>1, <2>2, SpentIs
    <3>2. challenges' \subseteq Asking
      BY <2>2 DEF HostInv
    <3> QED BY <1>1, <1>3, <2>2, <3>1, <3>2, AnswerKeeps
  <2>3. CASE /\ ~Admits(g, m) /\ gate' = g
             /\ challenges' = IF m.type = "0x14" THEN challenges
                              ELSE challenges \cup {RetryChallenge(m.dial, m.place)}
             /\ UNCHANGED <<session, answered, drawn>>
    <3>1. RetryChallenge(m.dial, m.place) \in Asking
      BY <1>1 DEF RetryChallenge, Asking
    <3> QED BY <2>1, <2>3, <3>1 DEF HostInv
  <2> QED BY <1>3, <2>2, <2>3 DEF Accept
<1> QED BY <1>2, <1>3 DEF Accept

(* A session asked again owes its answer once more, and stays one.           *)
LEMMA AskedAgain ==
    ASSUME NEW s \in Sessions
    PROVE  [s EXCEPT !.owed = TRUE, !.quiet = 0] \in Sessions
<1> DEFINE t == [s EXCEPT !.owed = TRUE]
<1>1. t \in Sessions
  BY DEF Sessions
<1>2. [s EXCEPT !.owed = TRUE, !.quiet = 0] = [t EXCEPT !.quiet = 0]
  BY DEF Sessions
<1>3. 0 \in 0..Lifetime
  BY HandshakeAssumption
<1> HIDE DEF t
<1> QED BY <1>1, <1>2, <1>3 DEF Sessions

(* The host reading a datagram, confirmed or not, keeps the memory.          *)
LEMMA HostReadsKeeps ==
    ASSUME HostInv, NEW m \in Messages, HostReads(m)
    PROVE  HostInv' /\ answered \subseteq answered'
<1>1. CASE UNCHANGED host
  <2>1. /\ session' = session /\ challenges' = challenges /\ gate' = gate
        /\ answered' = answered /\ drawn' = drawn
    BY <1>1 DEF host
  <2> QED BY <2>1 DEF HostInv
<1>2. CASE Accept(m)
  BY <1>2, AcceptKeeps
<1>3. CASE session # NoSession /\ ReceiveUnconfirmed(m)
  <2>1. session \in Sessions
    BY <1>3 DEF HostInv
  <2>2. CASE /\ session' = [session EXCEPT !.confirmed = TRUE]
             /\ UNCHANGED <<challenges, answered, gate, drawn>>
    BY <1>3, <2>1, <2>2 DEF HostInv, Sessions
  <2>3. CASE /\ session' = IF m.place # session.place THEN session
                           ELSE [session EXCEPT !.owed = TRUE, !.quiet = 0]
             /\ UNCHANGED <<challenges, answered, gate, drawn>>
    <3>1. [session EXCEPT !.owed = TRUE, !.quiet = 0] \in Sessions
      BY <2>1, AskedAgain
    <3>2. session' \in Sessions
          /\ session'.key = session.key /\ session'.dial = session.dial
      BY <2>1, <2>3, <3>1 DEF Sessions
    <3> QED BY <1>3, <2>3, <3>2 DEF HostInv
  <2> QED BY <1>1, <1>2, <1>3, <2>2, <2>3 DEF ReceiveUnconfirmed
<1> QED BY <1>1, <1>2, <1>3 DEF HostReads

(* What the host's growth leaves of the rest.                                *)
LEMMA GrowthKeeps ==
    ASSUME IInv, HostInv', answered \subseteq answered',
           client' \in [Clients -> Dialers],
           \A c \in Clients : Dialer(client'[c], c, answered'),
           net' \subseteq Messages, stray' \subseteq Messages,
           \A m \in (net' \cup stray') \ (net \cup stray) : Keyed(m, answered'),
           faults' \in 0..Faults
    PROVE  IInv'
<1>1. \A m \in net' \cup stray' : Keyed(m, answered')
  BY DEF IInv, Keyed
<1> QED BY <1>1 DEF IInv

(* A client stays a dialer while the memory grows.                           *)
LEMMA DialersKeep ==
    ASSUME IInv, answered \subseteq answered', UNCHANGED client
    PROVE  client' \in [Clients -> Dialers]
           /\ \A c \in Clients : Dialer(client'[c], c, answered')
BY DEF IInv, Dialer

(* One client's dial moves, the others' stand.                               *)
LEMMA OneDialerKeeps ==
    ASSUME IInv, UNCHANGED answered, NEW c \in Clients, NEW x, Dialer(x, c, answered),
           client' = [client EXCEPT ![c] = x]
    PROVE  client' \in [Clients -> Dialers]
           /\ \A k \in Clients : Dialer(client'[k], k, answered')
BY DEF IInv, Dialer

(* A client whose dial is over is a dialer again.                            *)
LEMMA OverIs == ASSUME IInv, NEW c \in Clients PROVE Dialer(Over(c), c, answered)
BY HandshakeAssumption DEF IInv, Over, Idle, Dialer, Dialers

(* What is said belongs to the dial that it names.                           *)
LEMMA Sendable ==
    ASSUME NEW d \in Dials, NEW p \in Places, NEW a
    PROVE  /\ \A m \in {Message1(d, p), RetryHandshake1(d, p), RetryChallenge(d, p)} :
                m \in Messages /\ Keyed(m, a)
           /\ d \in a => \A m \in {Message2(d, p, 1), Sealed(d, p, 1)} :
                m \in Messages /\ Keyed(m, a)
<1>1. \A m \in {Message1(d, p), RetryHandshake1(d, p)} : m \in Messages /\ Keyed(m, a)
  BY DEF Message1, RetryHandshake1, Messages, Keyed
<1>2. RetryChallenge(d, p) \in Messages /\ Keyed(RetryChallenge(d, p), a)
  BY DEF RetryChallenge, Messages, Asking, Keyed
<1>3. \A m \in {Message2(d, p, 1), Sealed(d, p, 1)} :
        m \in Messages /\ (d \in a => Keyed(m, a))
  BY DEF Message2, Sealed, Messages, Keyed
<1> QED BY <1>1, <1>2, <1>3

-----------------------------------------------------------------------------
(* One action at a time.                                                     *)

(* The host reading a datagram taken from the wire keeps the invariant.      *)
LEMMA HostStep ==
    ASSUME IInv, NEW m \in Messages, HostReads(m), UNCHANGED client,
           net' \subseteq net, stray' \subseteq stray, faults' \in 0..Faults
    PROVE  IInv'
<1>1. HostInv' /\ answered \subseteq answered'
  BY HostReadsKeeps DEF IInv
<1>2. /\ client' \in [Clients -> Dialers]
      /\ \A c \in Clients : Dialer(client'[c], c, answered')
  BY <1>1, DialersKeep
<1>3. net' \subseteq Messages /\ stray' \subseteq Messages
  BY DEF IInv
<1> QED BY <1>1, <1>2, <1>3, GrowthKeeps

(* The host stands and one client moves.                                     *)
LEMMA ClientStep ==
    ASSUME IInv, UNCHANGED host, NEW c \in Clients, NEW x, Dialer(x, c, answered),
           client' = [client EXCEPT ![c] = x], NEW said,
           \A m \in said : m \in Messages /\ Keyed(m, answered),
           net' \subseteq net \cup said, stray' \subseteq stray \cup net,
           faults' \in 0..Faults
    PROVE  IInv'
<1>1. /\ session' = session /\ challenges' = challenges /\ gate' = gate
      /\ answered' = answered /\ drawn' = drawn
  BY DEF host
<1>2. HostInv' /\ answered \subseteq answered'
  BY <1>1 DEF HostInv, IInv
<1>3. /\ client' \in [Clients -> Dialers]
      /\ \A k \in Clients : Dialer(client'[k], k, answered')
  BY <1>1, OneDialerKeeps
<1>4. net' \subseteq Messages /\ stray' \subseteq Messages
  BY DEF IInv
<1>5. \A m \in (net' \cup stray') \ (net \cup stray) : Keyed(m, answered')
  BY <1>1
<1> QED BY <1>2, <1>3, <1>4, <1>5, GrowthKeeps

(* A dialer that completes its handshake is up, with the key of the answer.  *)
LEMMA Completes ==
    ASSUME NEW s \in Dialers
    PROVE  LET x == [s EXCEPT !.phase = "up", !.key = 1, !.due = TRUE]
           IN x \in Dialers /\ x.phase = "up" /\ x.key = 1 /\ x.dial = s.dial
<1> DEFINE t == [s EXCEPT !.phase = "up"]
           u == [t EXCEPT !.key = 1]
           x == [s EXCEPT !.phase = "up", !.key = 1, !.due = TRUE]
<1>1. t \in Dialers /\ t.phase = "up" /\ t.dial = s.dial
  BY DEF Dialers
<1>2. u \in Dialers /\ u.phase = "up" /\ u.dial = s.dial /\ u.key = 1
  <2> HIDE DEF t
  <2> QED BY <1>1 DEF Dialers
<1>3. x = [u EXCEPT !.due = TRUE]
  BY DEF Dialers
<1>4. x \in Dialers /\ x.phase = "up" /\ x.dial = s.dial /\ x.key = 1
  <2> HIDE DEF t, u
  <2> QED BY <1>2, <1>3 DEF Dialers
<1> QED BY <1>4

(* A client reading a datagram keeps the invariant.                          *)
LEMMA ReadingKeeps ==
    ASSUME IInv, NEW m \in net \cup stray, ~ToHost(m), NEW kept \in SUBSET net,
           ClientReads(m, kept), UNCHANGED host,
           stray' \subseteq stray, faults' \in 0..Faults
    PROVE  IInv'
<1> DEFINE c == m.dial[1]
<1>1. m \in Messages /\ Keyed(m, answered)
  BY DEF IInv
<1>2. m.dial \in Dials /\ m.place \in Places
  BY <1>1 DEF Messages, Asking
<1>3. c \in Clients
  BY <1>2 DEF Dials
<1>4. Dialer(client[c], c, answered)
  BY <1>3 DEF IInv
<1>5. CASE /\ client[c].phase = "dialing" /\ client[c].dial = m.dial
           /\ client' = [client EXCEPT ![c].asked = TRUE]
           /\ net' = kept \cup {RetryHandshake1(m.dial, m.place)}
  <2> DEFINE x == [client[c] EXCEPT !.asked = TRUE]
  <2>1. Dialer(x, c, answered)
    BY <1>4, <1>5 DEF Dialer, Dialers
  <2>2. client' = [client EXCEPT ![c] = x]
    BY <1>5
  <2> DEFINE said == {RetryHandshake1(m.dial, m.place)}
  <2>3. \A n \in said : n \in Messages /\ Keyed(n, answered)
    BY <1>2, Sendable
  <2>4. net' \subseteq net \cup said /\ stray' \subseteq stray \cup net
    BY <1>5
  <2> HIDE DEF x, c, said
  <2> QED BY <1>3, <2>1, <2>2, <2>3, <2>4, ClientStep
<1>6. CASE /\ client[c].phase = "dialing" /\ client[c].dial = m.dial /\ m.type = "0x06"
           /\ client' = [client EXCEPT ![c].phase = "up", ![c].key = m.key, ![c].due = TRUE]
           /\ net' = kept
  <2> DEFINE x == [client[c] EXCEPT !.phase = "up", !.key = m.key, !.due = TRUE]
  <2>1. m.key = 1 /\ m.dial \in answered
    BY <1>1, <1>6 DEF Keyed
  <2>2. x = [client[c] EXCEPT !.phase = "up", !.key = 1, !.due = TRUE]
    BY <2>1
  <2>3. Dialer(x, c, answered)
    <3>1. client[c] \in Dialers /\ client[c].dial \in Dials /\ client[c].dial[1] = c
      BY <1>4, <1>6 DEF Dialer
    <3>2. x \in Dialers /\ x.phase = "up" /\ x.key = 1 /\ x.dial = client[c].dial
      BY <2>2, <3>1, Completes
    <3> HIDE DEF x
    <3> QED BY <1>6, <2>1, <3>1, <3>2 DEF Dialer
  <2>4. client' = [client EXCEPT ![c] = x]
    BY <1>6
  <2> DEFINE said == {}
  <2>5. \A n \in said : n \in Messages /\ Keyed(n, answered)
    OBVIOUS
  <2>6. net' \subseteq net \cup said /\ stray' \subseteq stray \cup net
    BY <1>6
  <2> HIDE DEF x, c, said
  <2> QED BY <1>3, <2>3, <2>4, <2>5, <2>6, ClientStep
<1>7. CASE net' = kept /\ UNCHANGED client
  <2>1. client' = [client EXCEPT ![c] = client[c]]
    BY <1>3, <1>7 DEF IInv
  <2> DEFINE said == {}
  <2>2. \A n \in said : n \in Messages /\ Keyed(n, answered)
    OBVIOUS
  <2>3. net' \subseteq net \cup said /\ stray' \subseteq stray \cup net
    BY <1>7
  <2> HIDE DEF c, said
  <2> QED BY <1>3, <1>4, <2>1, <2>2, <2>3, ClientStep
<1> QED BY <1>5, <1>6, <1>7 DEF ClientReads

(* The network alone moves.                                                  *)
LEMMA WireStep ==
    ASSUME IInv, UNCHANGED <<client, host>>, net' \subseteq net,
           stray' \subseteq stray \cup net, faults' \in 0..Faults
    PROVE  IInv'
<1> DEFINE c == Persistent
           said == {}
<1>1. c \in Clients
  BY HandshakeAssumption
<1>2. client' = [client EXCEPT ![c] = client[c]] /\ Dialer(client[c], c, answered)
  BY <1>1 DEF IInv
<1>3. \A n \in said : n \in Messages /\ Keyed(n, answered)
  OBVIOUS
<1>4. net' \subseteq net \cup said /\ UNCHANGED host
  OBVIOUS
<1> HIDE DEF c, said
<1> QED BY <1>1, <1>2, <1>3, <1>4, ClientStep

(* The session stands, is marked, or is gone; its memory stands.             *)
LEMMA SessionStep ==
    ASSUME IInv, UNCHANGED <<answered, drawn, stray, faults>>,
           challenges' \subseteq Asking, gate' \in Gates,
           session' = NoSession \/
             (session \in Sessions /\ session' \in Sessions /\ session # NoSession
              /\ session'.key = session.key /\ session'.dial = session.dial),
           client' \in [Clients -> Dialers],
           \A c \in Clients : Dialer(client'[c], c, answered),
           \A m \in net' : m \in net \/ (m \in Messages /\ Keyed(m, answered))
    PROVE  IInv'
<1>1. HostInv'
  BY DEF HostInv, IInv
<1>2. net' \subseteq Messages /\ stray' \subseteq Messages /\ faults' \in 0..Faults
  BY DEF IInv
<1>3. \A m \in (net' \cup stray') \ (net \cup stray) : Keyed(m, answered')
  OBVIOUS
<1>4. \A c \in Clients : Dialer(client'[c], c, answered')
  OBVIOUS
<1> QED BY <1>1, <1>2, <1>3, <1>4, GrowthKeeps

(* Sending the challenges owed keeps the invariant.                          *)
LEMMA FlushesKeeps == IInv /\ Flushes => IInv'
<1> SUFFICES ASSUME IInv, Flushes PROVE IInv'
  OBVIOUS
<1>1. \A m \in Owed : m \in Messages /\ Keyed(m, answered)
  <2> SUFFICES ASSUME session # NoSession
               PROVE  LET m == Message2(session.dial, session.place, session.key)
                      IN m \in Messages /\ Keyed(m, answered)
    BY DEF Owed
  <2>1. session \in Sessions /\ session.key = 1 /\ session.dial \in answered
    BY DEF IInv, HostInv
  <2>2. session.dial \in Dials /\ session.place \in Places
    BY <2>1 DEF Sessions
  <2> QED BY <2>1, <2>2, Sendable
<1>2. \A m \in challenges : m \in Messages /\ Keyed(m, answered)
  BY DEF IInv, HostInv, Messages, Asking, Keyed
<1>3. \A m \in net' : m \in net \/ (m \in Messages /\ Keyed(m, answered))
  BY <1>1, <1>2 DEF Flushes
<1>4. session' = NoSession \/
        (session \in Sessions /\ session' \in Sessions /\ session # NoSession
         /\ session'.key = session.key /\ session'.dial = session.dial)
  BY DEF Flushes, IInv, HostInv, Sessions
<1>5. /\ client' \in [Clients -> Dialers]
      /\ \A c \in Clients : Dialer(client'[c], c, answered)
  BY DEF Flushes, IInv
<1>6. challenges' \subseteq Asking /\ gate' \in Gates
      /\ UNCHANGED <<answered, drawn, stray, faults>>
  BY DEF Flushes, IInv, HostInv
<1> QED BY <1>3, <1>4, <1>5, <1>6, SessionStep

(* The end or the discarding of a session keeps the invariant.               *)
LEMMA EndsKeep == IInv /\ (Discards \/ SessionEnds) => IInv'
<1> SUFFICES ASSUME IInv, Discards \/ SessionEnds PROVE IInv'
  OBVIOUS
<1>1. /\ session' = NoSession /\ UNCHANGED <<answered, drawn, stray, faults>>
      /\ UNCHANGED <<client, challenges, gate, net>>
  BY DEF Discards, SessionEnds
<1>2. /\ client' \in [Clients -> Dialers]
      /\ \A c \in Clients : Dialer(client'[c], c, answered)
      /\ challenges' \subseteq Asking /\ gate' \in Gates
  BY <1>1 DEF IInv, HostInv
<1>3. \A m \in net' : m \in net \/ (m \in Messages /\ Keyed(m, answered))
  BY <1>1
<1> QED BY <1>1, <1>2, <1>3, SessionStep

(* An unconfirmed answer grows old, within the lifetimes.                    *)
LEMMA Aged ==
    ASSUME NEW s \in Sessions, s.quiet < Lifetime, s.age < Silence
    PROVE  LET x == [s EXCEPT !.quiet = @ + 1, !.age = @ + 1]
           IN x \in Sessions /\ x.key = s.key /\ x.dial = s.dial
<1> DEFINE q == s.quiet + 1
           a == s.age + 1
           t == [s EXCEPT !.quiet = q]
           x == [s EXCEPT !.quiet = @ + 1, !.age = @ + 1]
<1>1. q \in 0..Lifetime /\ a \in 0..Silence
  BY HandshakeAssumption DEF Sessions
<1>2. t \in Sessions /\ t.key = s.key /\ t.dial = s.dial
  <2> HIDE DEF q, a
  <2> QED BY <1>1 DEF Sessions
<1>3. x = [t EXCEPT !.age = a]
  BY DEF Sessions
<1>4. x \in Sessions /\ x.key = s.key /\ x.dial = s.dial
  <2> HIDE DEF q, a, t
  <2> QED BY <1>1, <1>2, <1>3 DEF Sessions
<1> QED BY <1>4

(* The passing of time keeps the invariant.                                  *)
LEMMA TickKeeps == IInv /\ Tick => IInv'
<1> SUFFICES ASSUME IInv, Tick PROVE IInv'
  OBVIOUS
<1>1. session' = NoSession \/
        (session \in Sessions /\ session' \in Sessions /\ session # NoSession
         /\ session'.key = session.key /\ session'.dial = session.dial)
  <2>1. CASE session = NoSession
    BY <2>1 DEF Tick
  <2>2. CASE session # NoSession /\ session.confirmed
    BY <2>2 DEF Tick, IInv, HostInv
  <2>3. CASE session # NoSession /\ ~session.confirmed
    <3>1. session \in Sessions
      BY <2>3 DEF IInv, HostInv
    <3>2. session' = [session EXCEPT !.quiet = @ + 1, !.age = @ + 1]
      BY <2>3 DEF Tick
    <3>3. session.quiet < Lifetime /\ session.age < Silence
      <4>1. ~(session.quiet >= Lifetime) /\ ~(session.age >= Silence)
        BY <2>3 DEF Tick, Unawaited, Abandoned
      <4> QED BY <3>1, <4>1, HandshakeAssumption DEF Sessions
    <3> QED BY <2>3, <3>1, <3>2, <3>3, Aged
  <2> QED BY <2>1, <2>2, <2>3
<1>2. gate' \in Gates
  <2>1. gate \in Gates
    BY DEF IInv, HostInv
  <2>2. PICK n \in 0..gate.arrivals :
          gate' = [gate EXCEPT
              !.arrivals = n, !.bucket = Smaller(@ + 1, Burst),
              !.cookies = Smaller(@ + 1, CookieBurst),
              !.share = [p \in Places |-> Smaller(@[p] + 1, ShareBurst)]]
    BY DEF Tick
  <2> DEFINE b == Smaller(gate.bucket + 1, Burst)
             k == Smaller(gate.cookies + 1, CookieBurst)
             h == [p \in Places |-> Smaller(gate.share[p] + 1, ShareBurst)]
  <2>3. n \in 0..Enter /\ b \in 0..Burst /\ k \in 0..CookieBurst
    BY <2>1, HandshakeAssumption DEF Gates, Smaller
  <2>4. h \in [Places -> 0..ShareBurst]
    BY <2>1, HandshakeAssumption DEF Gates, Smaller
  <2>5. gate' = [gate EXCEPT !.arrivals = n, !.bucket = b, !.cookies = k, !.share = h]
    BY <2>2
  <2>6. gate' = [cookieMode |-> gate.cookieMode, arrivals |-> n, bucket |-> b,
                 cookies |-> k, share |-> h]
    <3> HIDE DEF b, k, h
    <3> QED BY <2>1, <2>5 DEF Gates
  <2>7. gate.cookieMode \in BOOLEAN
    BY <2>1 DEF Gates
  <2> HIDE DEF b, k, h
  <2> QED BY <2>3, <2>4, <2>6, <2>7 DEF Gates
<1>3. \A c \in Clients : Dialer(client'[c], c, answered)
  <2> SUFFICES ASSUME NEW c \in Clients PROVE Dialer(client'[c], c, answered)
    OBVIOUS
  <2> DEFINE on == client[c].phase # "idle" /\ (Holds(c) => ~session.confirmed)
  <2>1. client'[c] = [client[c] EXCEPT !.due = on]
    BY DEF Tick
  <2>2. on \in BOOLEAN
    BY Zenon
  <2> HIDE DEF on
  <2> QED BY <2>1, <2>2 DEF IInv, Dialer, Dialers
<1>4. client' \in [Clients -> Dialers]
  <2>1. \A c \in Clients : client'[c] \in Dialers
    BY <1>3 DEF Dialer
  <2>2. client' = [c \in Clients |-> client'[c]]
    BY DEF Tick
  <2> QED BY <2>1, <2>2
<1>5. challenges' \subseteq Asking /\ UNCHANGED <<answered, drawn, stray, faults>>
  BY DEF Tick, IInv, HostInv
<1>6. \A m \in net' : m \in net \/ (m \in Messages /\ Keyed(m, answered))
  BY DEF Tick
<1> QED BY <1>1, <1>2, <1>3, <1>4, <1>5, <1>6, SessionStep

(* A client begins, repeats, speaks, hops or is over.                        *)
LEMMA Dialing ==
    ASSUME NEW s \in Dialers, NEW d \in Dials, NEW l \in 0..Dialings
    PROVE  LET x == [s EXCEPT !.phase = "dialing", !.dial = d, !.sent = 1, !.left = l]
           IN x \in Dialers /\ x.phase = "dialing" /\ x.dial = d
<1> DEFINE t == [s EXCEPT !.phase = "dialing", !.dial = d]
           x == [s EXCEPT !.phase = "dialing", !.dial = d, !.sent = 1, !.left = l]
<1>1. 1 \in 0..Attempts
  BY HandshakeAssumption
<1>2. t \in Dialers /\ t.phase = "dialing" /\ t.dial = d
  BY DEF Dialers
<1>3. x = [t EXCEPT !.sent = 1, !.left = l]
  BY DEF Dialers
<1>4. x \in Dialers /\ x.phase = "dialing" /\ x.dial = d
  <2> HIDE DEF t
  <2> QED BY <1>1, <1>2, <1>3 DEF Dialers
<1> QED BY <1>4

(* A new dial draws a transcript nobody has answered, and keeps the invariant. *)
LEMMA DialKeeps == ASSUME IInv, NEW c \in Clients, Dial(c) PROVE IInv'
<1>1. PICK n \in Ephemerals :
        /\ Unused(<<c, n>>)
        /\ client' = [client EXCEPT ![c] = Opened(c, <<c, n>>)]
        /\ answered' = answered \ {<<c, n>>} /\ drawn' = [drawn EXCEPT ![<<c, n>>] = 0]
        /\ net' = net \cup {Message1(<<c, n>>, client[c].place)}
  BY DEF Dial
<1> DEFINE d == <<c, n>>
           l == IF c = Persistent THEN client[c].left ELSE client[c].left - 1
           x == Opened(c, d)
<1>2. d \in Dials /\ d[1] = c
  BY DEF Dials
<1>3. client[c] \in Dialers /\ client[c].place \in Places
  BY DEF IInv, Dialers
<1>4. l \in 0..Dialings
  <2>1. client[c].left \in 0..Dialings
    BY <1>3 DEF Dialers
  <2>2. c = Persistent \/ client[c].left > 0
    BY DEF Dial
  <2> QED BY <2>1, <2>2, HandshakeAssumption
<1>5. x \in Dialers /\ x.phase = "dialing" /\ x.dial = d
  <2>1. x = [client[c] EXCEPT !.phase = "dialing", !.dial = d, !.sent = 1, !.left = l]
    BY DEF Opened
  <2> DEFINE y == [client[c] EXCEPT !.phase = "dialing", !.dial = d, !.sent = 1, !.left = l]
  <2>2. y \in Dialers /\ y.phase = "dialing" /\ y.dial = d
    <3> HIDE DEF d, l, x
    <3> QED BY <1>2, <1>3, <1>4, Dialing
  <2>3. x = y
    BY <2>1
  <2> HIDE DEF x, y
  <2> QED BY <2>2, <2>3
<1>6. client' = [client EXCEPT ![c] = x]
  BY <1>1
<1>7. answered' = answered \ {d} /\ drawn' = [drawn EXCEPT ![d] = 0] /\ Unused(d)
  BY <1>1
<1>8. net' = net \cup {Message1(d, client[c].place)}
      /\ UNCHANGED <<session, challenges, gate, stray, faults>>
  BY <1>1 DEF Dial
<1>9. Message1(d, client[c].place) \in Messages
      /\ Keyed(Message1(d, client[c].place), answered')
  <2> HIDE DEF d
  <2> QED BY <1>2, <1>3, Sendable
<1> HIDE DEF d, l, x
<1>10. HostInv'
  <2>1. session \in {NoSession} \cup Sessions /\ challenges \subseteq Asking /\ gate \in Gates
        /\ answered \subseteq Dials /\ drawn \in [Dials -> Nat]
        /\ (session # NoSession => session.key = 1 /\ session.dial \in answered)
        /\ \A k \in Dials : drawn[k] = IF k \in answered THEN 1 ELSE 0
    BY DEF IInv, HostInv
  <2>2. session.dial # d
    BY <1>7 DEF Unused
  <2>3. \A k \in Dials : drawn'[k] = IF k \in answered' THEN 1 ELSE 0
    BY <1>2, <1>7, <2>1
  <2>4. answered' \subseteq Dials /\ drawn' \in [Dials -> Nat]
    BY <1>2, <1>7, <2>1
  <2>5. session' # NoSession => session'.key = 1 /\ session'.dial \in answered'
    BY <1>7, <1>8, <2>1, <2>2
  <2>6. session' \in {NoSession} \cup Sessions /\ challenges' \subseteq Asking /\ gate' \in Gates
    BY <1>8, <2>1
  <2> QED BY <2>3, <2>4, <2>5, <2>6 DEF HostInv
<1>11. client' \in [Clients -> Dialers]
  BY <1>5, <1>6 DEF IInv
<1>12. \A k \in Clients : Dialer(client'[k], k, answered')
  <2> SUFFICES ASSUME NEW k \in Clients PROVE Dialer(client'[k], k, answered')
    OBVIOUS
  <2>1. CASE k = c
    BY <1>2, <1>5, <1>6, <2>1 DEF IInv, Dialer
  <2>2. CASE k # c
    <3>1. client'[k] = client[k] /\ Dialer(client[k], k, answered)
      BY <1>6, <2>2 DEF IInv
    <3>2. client[k].phase = "up" => client[k].dial # d
      BY <1>2, <2>2, <3>1 DEF Dialer
    <3> QED BY <1>7, <3>1, <3>2 DEF Dialer
  <2> QED BY <2>1, <2>2
<1>13. \A m \in net' \cup stray' : Keyed(m, answered')
  <2> SUFFICES ASSUME NEW m \in net \cup stray PROVE Keyed(m, answered')
    BY <1>8, <1>9
  <2>1. m.dial # d
    BY <1>7 DEF Unused
  <2> QED BY <1>7, <2>1 DEF IInv, Keyed
<1>14. net' \subseteq Messages /\ stray' \subseteq Messages /\ faults' \in 0..Faults
  BY <1>8, <1>9 DEF IInv
<1> QED BY <1>10, <1>11, <1>12, <1>13, <1>14 DEF IInv

(* Sending once more keeps a dialer one.                                     *)
LEMMA Again ==
    ASSUME NEW s \in Dialers, s.sent + 1 \in 0..Attempts
    PROVE  LET x == [s EXCEPT !.sent = @ + 1, !.asked = FALSE, !.due = FALSE]
           IN x \in Dialers /\ x.phase = s.phase /\ x.dial = s.dial
<1> DEFINE n == s.sent + 1
           t == [s EXCEPT !.sent = n]
           x == [s EXCEPT !.sent = @ + 1, !.asked = FALSE, !.due = FALSE]
<1>1. t \in Dialers /\ t.phase = s.phase /\ t.dial = s.dial
  <2>1. n \in 0..Attempts
    OBVIOUS
  <2> HIDE DEF n
  <2> QED BY <2>1 DEF Dialers
<1>2. x = [t EXCEPT !.asked = FALSE, !.due = FALSE]
  BY DEF Dialers
<1>3. x \in Dialers /\ x.phase = s.phase /\ x.dial = s.dial
  <2> HIDE DEF t
  <2> QED BY <1>1, <1>2 DEF Dialers
<1> QED BY <1>3

(* What a client sends names its own dial, with a key that was answered.     *)
LEMMA SendsKeep ==
    ASSUME IInv, NEW c \in Clients, Retransmits(c) \/ Speaks(c) PROVE IInv'
<1>0. client[c] \in Dialers /\ client[c].place \in Places /\ Dialer(client[c], c, answered)
  BY DEF IInv, Dialers
<1>1. UNCHANGED <<host, stray, faults>> /\ stray' \subseteq stray \cup net /\ faults' \in 0..Faults
  BY DEF Retransmits, Speaks, IInv
<1>2. CASE /\ client[c].phase = "dialing" /\ client[c].sent < Attempts
           /\ client' = [client EXCEPT ![c] = Begun(c)]
           /\ net' = net \cup {Message1(client[c].dial, client[c].place)}
  <2> DEFINE x == Begun(c)
             said == {Message1(client[c].dial, client[c].place)}
  <2>1. client[c].sent + 1 \in 0..Attempts
    BY <1>0, <1>2, HandshakeAssumption DEF Dialers
  <2>2. x \in Dialers /\ x.phase = "dialing" /\ x.dial = client[c].dial
    BY <1>0, <1>2, <2>1, Again DEF Begun
  <2>3. client[c].dial \in Dials /\ client[c].dial[1] = c
    BY <1>0, <1>2 DEF Dialer
  <2> HIDE DEF x
  <2>4. Dialer(x, c, answered)
    BY <2>2, <2>3 DEF Dialer
  <2>5. \A m \in said : m \in Messages /\ Keyed(m, answered)
    BY <1>0, <2>3, Sendable
  <2>6. client' = [client EXCEPT ![c] = x] /\ net' \subseteq net \cup said
    BY <1>2 DEF x
  <2> HIDE DEF said
  <2> QED BY <1>1, <2>4, <2>5, <2>6, ClientStep
<1>3. CASE client' = [client EXCEPT ![c] = Over(c)] /\ UNCHANGED net
  <2> DEFINE said == {}
  <2>1. \A m \in said : m \in Messages /\ Keyed(m, answered)
    OBVIOUS
  <2>2. net' \subseteq net \cup said
    BY <1>3
  <2>3. Dialer(Over(c), c, answered)
    BY OverIs
  <2> HIDE DEF said
  <2> QED BY <1>1, <1>3, <2>1, <2>2, <2>3, ClientStep
<1>4. CASE Speaks(c)
  <2> DEFINE x == [client[c] EXCEPT !.due = FALSE]
             said == {Sealed(client[c].dial, client[c].place, client[c].key)}
  <2>1. /\ client[c].key = 1 /\ client[c].dial \in answered
        /\ client[c].dial \in Dials
    BY <1>0, <1>4 DEF Dialer, Speaks
  <2>2. Dialer(x, c, answered)
    BY <1>0 DEF Dialer, Dialers
  <2>3. \A m \in said : m \in Messages /\ Keyed(m, answered)
    BY <1>0, <2>1, Sendable
  <2>4. client' = [client EXCEPT ![c] = x] /\ net' \subseteq net \cup said
    BY <1>4 DEF Speaks
  <2> HIDE DEF x, said
  <2> QED BY <1>1, <2>2, <2>3, <2>4, ClientStep
<1> QED BY <1>2, <1>3, <1>4 DEF Retransmits

(* A client that loses its host, leaves, hops or cancels says nothing new.   *)
LEMMA QuietClientKeeps ==
    ASSUME IInv, NEW c \in Clients, Lost(c) \/ Leaves(c) \/ Hops(c) \/ Cancels(c)
    PROVE  IInv'
<1>1. /\ UNCHANGED host /\ faults' \in 0..Faults
      /\ net' \subseteq net \cup {} /\ stray' \subseteq stray \cup net
  <2>1. UNCHANGED <<host, net, stray>>
    BY DEF Lost, Leaves, Hops, Cancels
  <2>2. faults \in 0..Faults
    BY DEF IInv
  <2>3. faults' \in 0..Faults
    BY <2>2, HandshakeAssumption DEF Lost, Leaves, Hops, Cancels, Spend
  <2> QED BY <2>1, <2>3
<1> DEFINE said == {}
<1>2. (\A m \in said : m \in Messages /\ Keyed(m, answered)) /\ net' \subseteq net \cup said
  BY <1>1
<1>3. CASE client' = [client EXCEPT ![c] = Over(c)]
  <2>1. Dialer(Over(c), c, answered)
    BY OverIs
  <2> HIDE DEF said
  <2> QED BY <1>1, <1>2, <1>3, <2>1, ClientStep
<1>4. CASE Hops(c)
  <2>1. PICK p \in Places : client' = [client EXCEPT ![c].place = p]
    BY <1>4 DEF Hops
  <2> DEFINE x == [client[c] EXCEPT !.place = p]
  <2>2. Dialer(x, c, answered)
    BY DEF IInv, Dialer, Dialers
  <2>3. client' = [client EXCEPT ![c] = x]
    BY <2>1
  <2> HIDE DEF x, said
  <2> QED BY <1>1, <1>2, <2>2, <2>3, ClientStep
<1> QED BY <1>3, <1>4 DEF Lost, Leaves, Cancels

(* Loss and delay keep the invariant.                                        *)
LEMMA WireKeeps ==
    ASSUME IInv, NEW m \in net, Loses(m) \/ Strays(m) PROVE IInv'
<1>1. faults' \in 0..Faults
  BY HandshakeAssumption DEF IInv, Loses, Strays, Spend
<1>2. UNCHANGED <<client, host>> /\ net' \subseteq net /\ stray' \subseteq stray \cup net
  BY DEF Loses, Strays
<1> QED BY <1>1, <1>2, WireStep

(* An arrival at either end keeps the invariant.                             *)
LEMMA ArrivalsKeep ==
    ASSUME IInv, NEW m \in net \cup stray,
           (m \in net /\ (HostReceives(m) \/ ClientReceives(m)))
             \/ (m \in stray /\ StrayArrives(m))
    PROVE  IInv'
<1>1. m \in Messages /\ faults \in 0..Faults
  BY DEF IInv
<1>2. faults' \in 0..Faults
  BY <1>1 DEF HostReceives, ClientReceives, StrayArrives
<1>3. CASE HostReads(m) /\ UNCHANGED client /\ net' \subseteq net /\ stray' \subseteq stray
  BY <1>1, <1>2, <1>3, HostStep
<1>4. CASE /\ ~ToHost(m) /\ UNCHANGED host /\ stray' \subseteq stray
           /\ \E kept \in SUBSET net : ClientReads(m, kept)
  BY <1>2, <1>4, ReadingKeeps
<1>5. CASE HostReceives(m)
  BY <1>3, <1>5 DEF HostReceives
<1>6. CASE ClientReceives(m)
  <2>1. net \ {m} \in SUBSET net
    OBVIOUS
  <2> QED BY <1>4, <1>6, <2>1 DEF ClientReceives
<1>7. CASE StrayArrives(m)
  <2>1. net \in SUBSET net
    OBVIOUS
  <2> QED BY <1>3, <1>4, <1>7, <2>1 DEF StrayArrives
<1> QED BY <1>5, <1>6, <1>7

-----------------------------------------------------------------------------
(* IInv is inductive.                                                        *)
LEMMA NextKeeps == IInv /\ [Next]_vars => IInv'
<1> SUFFICES ASSUME IInv, [Next]_vars PROVE IInv'
  OBVIOUS
<1>1. CASE UNCHANGED vars
  <2>1. UNCHANGED <<client, host>> /\ net' \subseteq net
        /\ stray' \subseteq stray \cup net /\ faults' \in 0..Faults
    BY <1>1 DEF vars, IInv
  <2> QED BY <2>1, WireStep
<1>2. CASE Flushes \/ Discards \/ SessionEnds \/ Tick
  BY <1>2, FlushesKeeps, EndsKeep, TickKeeps
<1>3. CASE \E c \in Clients : Retransmits(c) \/ Speaks(c)
  BY <1>3, SendsKeep
<1>4. CASE \E c \in Clients : Dial(c) \/ Lost(c) \/ Leaves(c) \/ Hops(c) \/ Cancels(c)
  BY <1>4, DialKeeps, QuietClientKeeps
<1>5. CASE \E m \in net : Loses(m) \/ Strays(m)
  BY <1>5, WireKeeps
<1>6. CASE \/ \E m \in net : HostReceives(m) \/ ClientReceives(m)
           \/ \E m \in stray : StrayArrives(m)
  BY <1>6, ArrivalsKeep
<1> QED BY <1>1, <1>2, <1>3, <1>4, <1>5, <1>6 DEF Next, Prompt

(* Every behaviour keeps the memory, the answers and the keys in step.       *)
THEOREM Invariance == Spec => []IInv
<1> QED BY InitHolds, NextKeeps, PTL DEF Spec

(* Every value has its type.                                                 *)
THEOREM TypeCorrect == Spec => []TypeOK
<1>1. IInv => TypeOK
  BY DEF IInv, HostInv, TypeOK
<1> QED BY <1>1, Invariance, PTL

(* No dial is ever answered with two transcripts: not when its message 1     *)
(* comes again after the session that answered it was replaced, discarded or *)
(* over, not through a challenge, not from another place.                    *)
THEOREM OneAnswer == Spec => []OneTranscript
<1>1. ASSUME IInv PROVE OneTranscript
  <2> SUFFICES ASSUME NEW d \in Dials
      PROVE  Cardinality(
          {m.key : m \in {x \in net \cup stray :
                            x.type \in {"0x06", "sealed"} /\ x.dial = d}}
          \cup {client[c].key : c \in {x \in Clients :
                            client[x].phase = "up" /\ client[x].dial = d}}
          \cup (IF session.dial = d THEN {session.key} ELSE {})) <= 1
    BY DEF OneTranscript
  <2> DEFINE inNet == {m.key : m \in {x \in net \cup stray :
                            x.type \in {"0x06", "sealed"} /\ x.dial = d}}
             atClients == {client[c].key : c \in {x \in Clients :
                            client[x].phase = "up" /\ client[x].dial = d}}
             atHost == IF session.dial = d THEN {session.key} ELSE {}
  <2>1. inNet \subseteq {1}
    BY <1>1 DEF IInv, Keyed
  <2>2. atClients \subseteq {1}
    BY <1>1 DEF IInv, Dialer
  <2>3. atHost \subseteq {1}
    <3>1. d # <<>>
      BY DEF Dials
    <3>2. session = NoSession => session.dial # d
      BY <3>1 DEF NoSession
    <3> QED BY <1>1, <3>2 DEF IInv, HostInv
  <2> HIDE DEF inNet, atClients, atHost
  <2>4. inNet \cup atClients \cup atHost \subseteq {1}
    BY <2>1, <2>2, <2>3
  <2>5. Cardinality({1}) = 1 /\ IsFiniteSet({1})
    BY FS_Singleton
  <2>6. Cardinality(inNet \cup atClients \cup atHost) <= 1
    BY <2>4, <2>5, FS_Subset
  <2> QED BY <2>6 DEF inNet, atClients, atHost
<1> QED BY <1>1, Invariance, PTL

-----------------------------------------------------------------------------
(* The age of an answer its client still waits for.                          *)

(* The session's answer is unconfirmed, and this client's dial asked for it. *)
Waits(s, x) ==
    s # NoSession /\ ~s.confirmed /\ x.phase # "idle" /\ x.dial = s.dial

(* The units of time since the dial began.                                   *)
Units(x) == x.sent - 1 + (IF x.due THEN 1 ELSE 0)

(* What a read answer may weigh: one that came late cost a fault, and its    *)
(* client has spoken in every unit since, so each in which the host stayed   *)
(* unconfirmed cost another.                                                 *)
Within(age, f) == age = 0 \/ age + f <= Attempts + Faults - 1

(* What will confirm it is about to be said, or on its way.                  *)
Soon(x, n) == x.due \/ \E p \in Places : Sealed(x.dial, p, 1) \in n

(* While its client dials an answer is no older than the dial, and before    *)
(* the first fault it comes within the unit; then the faults bound its age.  *)
Patient(s, x, n, f) ==
    Waits(s, x) =>
        /\ x.phase = "dialing" => s.age <= Units(x)
        /\ x.phase = "dialing" /\ f = Faults =>
             s.age = 0 /\ (s.owed \/ Message2(s.dial, s.place, s.key) \in n)
        /\ x.phase = "up" =>
             IF Soon(x, n) THEN Within(s.age, f) ELSE Within(s.age + 1, f)

(* Before the first fault nobody has moved and nothing is astray.            *)
AtHome ==
    faults = Faults =>
        /\ stray = {} /\ \A m \in net \cup challenges : m.place = Home
        /\ \A c \in Clients : client[c].place = Home
        /\ session # NoSession => session.place = Home

(* A dial in progress has sent, no answer is quiet for longer than it is old,*)
(* and whoever waits for one does so within its age.                         *)
AwaitInv ==
    /\ \A c \in Clients : client[c].phase = "dialing" => client[c].sent >= 1
    /\ session # NoSession => session.quiet <= session.age
    /\ AtHome
    /\ \A c \in Clients : Patient(session, client[c], net, faults)

(* Nobody waits when the program starts.                                     *)
LEMMA AwaitInit == Init => AwaitInv
<1> SUFFICES ASSUME Init PROVE AwaitInv
  OBVIOUS
<1>1. /\ session = NoSession /\ net = {} /\ stray = {} /\ challenges = {}
      /\ \A c \in Clients : client[c] = Idle(Home, Dialings)
  BY DEF Init
<1>2. \A c \in Clients : client[c].phase = "idle" /\ client[c].place = Home
  BY <1>1 DEF Idle
<1> QED BY <1>1, <1>2 DEF AwaitInv, AtHome, Patient, Waits

(* What the assumption says of the schedule.                                 *)
LEMMA Bounds ==
    /\ Attempts \in Nat /\ Lifetime \in Nat /\ Silence \in Nat /\ Faults \in Nat
    /\ 0 < Attempts /\ Attempts < Lifetime /\ Lifetime <= Silence
BY HandshakeAssumption

(* What the invariant says of the fields that are compared.                  *)
LEMMA TypesAre ==
    ASSUME IInv
    PROVE  /\ session # NoSession =>
                session \in Sessions /\ session.key = 1 /\ session.age \in Nat
                /\ session.quiet \in Nat
           /\ faults \in Nat /\ faults <= Faults
           /\ \A c \in Clients :
                /\ client[c] \in Dialers /\ client[c].due \in BOOLEAN
                /\ client[c].sent \in Nat /\ client[c].sent <= Attempts
                /\ client[c].phase # "idle" => client[c].dial[1] = c
                /\ client[c].phase = "up" => client[c].dial \in answered
                                             /\ client[c].key = 1
                /\ client[c].phase \in {"idle", "dialing", "up"}
<1>1. session # NoSession => session \in Sessions /\ session.key = 1
  BY DEF IInv, HostInv
<1>2. \A s \in Sessions : s.age \in Nat /\ s.quiet \in Nat
  BY Bounds DEF Sessions
<1>3. faults \in Nat /\ faults <= Faults
  BY Bounds DEF IInv
<1>4. \A c \in Clients : Dialer(client[c], c, answered)
  BY DEF IInv
<1>5. \A x \in Dialers : /\ x.due \in BOOLEAN /\ x.sent \in Nat /\ x.sent <= Attempts
                         /\ x.phase \in {"idle", "dialing", "up"}
  BY Bounds DEF Dialers
<1> QED BY <1>1, <1>2, <1>3, <1>4, <1>5 DEF Dialer

(* What the host makes of its session and its challenges on a datagram.      *)
LEMMA HostReadsMoves ==
    ASSUME IInv, NEW m \in Messages, HostReads(m)
    PROVE  /\ \/ session' = session
              \/ session' # NoSession /\ session'.confirmed /\ session # NoSession
                 /\ session' = [session EXCEPT !.confirmed = TRUE]
              \/ session # NoSession /\ ~session.confirmed
                 /\ session' = [session EXCEPT !.owed = TRUE, !.quiet = 0]
              \/ session' = Answering(m.dial, m.place, 1) /\ m.dial \notin answered
           /\ \A x \in challenges' : x \in challenges \/ x = RetryChallenge(m.dial, m.place)
<1>1. m.dial \in Dials
  BY DEF Messages, Asking
<1>2. ASSUME UNCHANGED host
      PROVE  session' = session /\ challenges' = challenges
  BY <1>2 DEF host
<1>3. ASSUME Accept(m)
      PROVE  /\ \/ session' = session
                \/ session' = Answering(m.dial, m.place, 1) /\ m.dial \notin answered
             /\ \A x \in challenges' :
                  x \in challenges \/ x = RetryChallenge(m.dial, m.place)
  <2>1. CASE UNCHANGED host
    BY <1>2, <2>1
  <2>2. CASE m.dial \notin answered /\ Answer(m) /\ UNCHANGED challenges
    <3>1. drawn[m.dial] = 0 /\ drawn \in [Dials -> Nat]
      BY <1>1, <2>2 DEF IInv, HostInv
    <3>2. drawn'[m.dial] = 1
      BY <1>1, <2>2, <3>1 DEF Answer
    <3> QED BY <2>2, <3>2 DEF Answer
  <2>3. CASE /\ challenges' = IF m.type = "0x14" THEN challenges
                              ELSE challenges \cup {RetryChallenge(m.dial, m.place)}
             /\ UNCHANGED session
    BY <2>3
  <2> QED BY <1>3, <2>1, <2>2, <2>3 DEF Accept
<1>4. CASE session # NoSession /\ ~session.confirmed /\ ReceiveUnconfirmed(m)
  <2>1. session \in Sessions
    BY <1>4 DEF IInv, HostInv
  <2>2. CASE session' = [session EXCEPT !.confirmed = TRUE] /\ UNCHANGED challenges
    <3>1. session'.confirmed /\ session' \in Sessions
      BY <2>1, <2>2 DEF Sessions
    <3>2. \A s \in Sessions : s # NoSession
      BY DEF Sessions, NoSession
    <3> QED BY <1>4, <2>2, <3>1, <3>2
  <2> QED BY <1>2, <1>3, <1>4, <2>2 DEF ReceiveUnconfirmed
<1> QED BY <1>2, <1>3, <1>4 DEF HostReads

(* What an answer may weigh, with less of it, and after a fault.             *)
LEMMA WithinRules ==
    ASSUME NEW a \in Nat, NEW f \in Nat, f <= Faults
    PROVE  /\ Within(a + 1, f) => Within(a, f)
           /\ f > 0 /\ Within(a, f) => Within(a, f - 1) /\ Within(a + 1, f - 1)
           /\ a <= Attempts /\ f < Faults => Within(a, f)
BY Bounds DEF Within

(* More on its way does no harm.                                             *)
LEMMA PatientGrows ==
    ASSUME NEW s, s # NoSession => s.age \in Nat, NEW x, NEW n, NEW n2,
           n \subseteq n2, NEW f \in Nat, f <= Faults, Patient(s, x, n, f)
    PROVE  Patient(s, x, n2, f)
<1> SUFFICES ASSUME Waits(s, x) PROVE Patient(s, x, n2, f)
  BY DEF Patient
<1>1. s.age \in Nat
  BY DEF Waits
<1>2. Within(s.age + 1, f) => Within(s.age, f)
  BY <1>1, WithinRules
<1>3. Soon(x, n) => Soon(x, n2)
  BY DEF Soon
<1> QED BY <1>2, <1>3 DEF Patient

(* A fault pays for the unit that it costs.                                  *)
LEMMA PatientPaid ==
    ASSUME NEW s, s # NoSession => s.age \in Nat, NEW x, NEW n, NEW y, NEW n2,
           y.phase = x.phase, y.dial = x.dial, y.sent = x.sent, y.due = x.due,
           NEW f \in Nat, f <= Faults, f > 0, Patient(s, x, n, f)
    PROVE  Patient(s, y, n2, f - 1)
<1> SUFFICES ASSUME Waits(s, y) PROVE Patient(s, y, n2, f - 1)
  BY DEF Patient
<1>1. s.age \in Nat /\ Waits(s, x)
  BY DEF Waits
<1>2. f - 1 # Faults /\ f - 1 \in Nat /\ f - 1 <= Faults
  BY Bounds
<1>3. y.phase = "dialing" => s.age <= Units(y)
  BY <1>1 DEF Patient, Units
<1>4. ASSUME y.phase = "up"
      PROVE  Within(s.age, f - 1) /\ Within(s.age + 1, f - 1)
  <2>1. Within(s.age, f)
    BY <1>1, <1>4, WithinRules DEF Patient
  <2> QED BY <1>1, <2>1, WithinRules
<1> QED BY <1>2, <1>3, <1>4 DEF Patient

(* A client that is not dialing waits for nothing.                           *)
LEMMA OverPatient ==
    ASSUME NEW c \in Clients, NEW s, NEW n, NEW f
    PROVE  Patient(s, Over(c), n, f) /\ Over(c).phase = "idle"
           /\ Over(c).place = client[c].place
BY DEF Over, Idle, Patient, Waits

(* A sealed datagram confirms the answer that it belongs to.                 *)
LEMMA SealedConfirms ==
    ASSUME IInv, NEW m \in Messages, HostReads(m), m.type = "sealed", m.key = 1,
           session # NoSession, m.dial = session.dial
    PROVE  session'.confirmed
<1>1. session \in Sessions /\ session.key = 1
  BY DEF IInv, HostInv
<1>2. CASE session.confirmed
  BY <1>1, <1>2 DEF HostReads, host
<1>3. CASE ~session.confirmed
  <2>1. ReceiveUnconfirmed(m)
    BY <1>3 DEF HostReads
  <2>2. Confirms(m) /\ ~Initiation(m)
    BY <1>1 DEF Confirms, Initiation
  <2>3. session' = [session EXCEPT !.confirmed = TRUE]
    BY <2>1, <2>2 DEF ReceiveUnconfirmed, Repeats
  <2> QED BY <1>1, <2>3 DEF Sessions
<1> QED BY <1>2, <1>3

(* The host reads: an answer confirmed is waited for no more, one asked for  *)
(* again is as old, a new one is as old as its dial at most.                 *)
LEMMA HostReadsPatient ==
    ASSUME IInv, AwaitInv, NEW m \in Messages, HostReads(m), ToHost(m),
           NEW n, net \ {m} \subseteq n, NEW c \in Clients
    PROVE  Patient(session', client[c], n, faults)
<1> DEFINE x == client[c]
<1> SUFFICES ASSUME Waits(session', x) PROVE Patient(session', x, n, faults)
  BY DEF Patient
<1>1. /\ session' # NoSession /\ ~session'.confirmed
      /\ x.phase # "idle" /\ x.dial = session'.dial
  BY DEF Waits
<1>2. /\ x.sent \in Nat /\ x.due \in BOOLEAN
      /\ x.phase = "dialing" => x.sent >= 1
      /\ x.phase \in {"idle", "dialing", "up"}
      /\ x.phase = "up" => x.dial \in answered
      /\ faults \in Nat /\ faults <= Faults
      /\ Patient(session, x, net, faults)
  BY TypesAre DEF AwaitInv
<1>3. CASE session' = Answering(m.dial, m.place, 1) /\ m.dial \notin answered
  <2>1. session'.dial = m.dial /\ session'.age = 0 /\ session'.owed
    BY <1>3 DEF Answering
  <2>2. x.phase # "up"
    BY <1>1, <1>2, <1>3, <2>1
  <2>3. 0 <= Units(x)
    BY <1>1, <1>2, <2>2 DEF Units
  <2> QED BY <2>1, <2>2, <2>3 DEF Patient
<1>4. ASSUME session # NoSession, ~session.confirmed,
             session'.dial = session.dial, session'.place = session.place,
             session'.key = session.key, session'.age = session.age,
             session.owed => session'.owed
      PROVE  Patient(session', x, n, faults)
  <2>1. Waits(session, x) /\ session.age \in Nat /\ session.key = 1
    BY <1>1, <1>4, TypesAre DEF Waits
  <2>2. Message2(session.dial, session.place, session.key) \in net
        => Message2(session'.dial, session'.place, session'.key) \in n
    BY <1>4 DEF Message2, ToHost, Initiation
  <2>3. ~(m.type = "sealed" /\ m.key = 1 /\ m.dial = x.dial)
    BY <1>1, <1>4, SealedConfirms
  <2>4. Soon(x, net) => Soon(x, n)
    <3>1. \A p \in Places : Sealed(x.dial, p, 1) # m
      BY <2>3 DEF Sealed
    <3> QED BY <3>1 DEF Soon
  <2>5. Within(session.age + 1, faults) => Within(session.age, faults)
    BY <1>2, <2>1, WithinRules
  <2> QED BY <1>2, <1>4, <2>1, <2>2, <2>4, <2>5 DEF Patient
<1>5. CASE session' = session
  BY <1>1, <1>4, <1>5
<1>6. CASE session # NoSession /\ ~session.confirmed
           /\ session' = [session EXCEPT !.owed = TRUE, !.quiet = 0]
  <2>1. session \in Sessions
    BY <1>6, TypesAre
  <2>2. /\ session'.dial = session.dial /\ session'.place = session.place
        /\ session'.key = session.key /\ session'.age = session.age /\ session'.owed
    BY <1>6, <2>1 DEF Sessions
  <2> QED BY <1>4, <1>6, <2>2
<1> QED BY <1>1, <1>3, <1>5, <1>6, HostReadsMoves

(* A client reads: the answer it waits for makes it speak at once, and comes *)
(* to it late only by a fault.                                               *)
LEMMA ClientReadsPatient ==
    ASSUME IInv, AwaitInv, NEW m \in net \cup stray, ~ToHost(m), NEW kept \in SUBSET net,
           net \ {m} \subseteq kept, ClientReads(m, kept),
           NEW c \in Clients
    PROVE  Patient(session, client'[c], net', faults)
<1> DEFINE s == session
           x == client[c]
<1>1. /\ m \in Messages /\ Keyed(m, answered)
      /\ m.dial \in Dials /\ m.dial[1] \in Clients /\ m.place \in Places
  BY DEF IInv, Messages, Asking, Dials
<1>2. /\ x \in Dialers /\ x.sent \in Nat /\ x.sent <= Attempts /\ x.due \in BOOLEAN
      /\ x.phase # "idle" => x.dial[1] = c
      /\ faults \in Nat /\ faults <= Faults
      /\ s # NoSession => s.age \in Nat /\ s.key = 1
      /\ Patient(s, x, net, faults)
  BY TypesAre DEF AwaitInv
<1>3. \A d, p : Sealed(d, p, 1) # m
  BY DEF Sealed, ToHost
<1>4. kept \subseteq net' /\ (Soon(x, net) => Soon(x, net'))
  BY <1>3 DEF ClientReads, Soon
<1>5. s # NoSession /\ Waits(s, x) => (Within(s.age + 1, faults) => Within(s.age, faults))
  BY <1>2, WithinRules DEF Waits
<1>6. ASSUME client'[c] = x, Waits(s, x), x.phase = "dialing", faults = Faults,
             m = Message2(s.dial, s.place, s.key)
      PROVE  FALSE
  <2>1. stray = {} /\ s.place = Home /\ x.place = Home
    BY <1>6 DEF AwaitInv, AtHome, Waits
  <2>2. m.dial = s.dial /\ m.place = Home /\ m.type = "0x06" /\ m.dial[1] = c
    BY <1>2, <1>6, <2>1 DEF Message2, Waits
  <2>3. /\ client[c].phase = "dialing" /\ client[c].dial = m.dial
        /\ client[c].place = m.place
    BY <1>6, <2>1, <2>2 DEF Waits
  <2>4. client' = [client EXCEPT ![c].phase = "up", ![c].key = m.key, ![c].due = TRUE]
    BY <2>2, <2>3 DEF ClientReads
  <2>5. client'[c].phase = "up"
    BY <1>2, <2>4 DEF IInv, Dialers
  <2> QED BY <1>6, <2>5
<1>7. ASSUME client'[c] = x PROVE Patient(s, client'[c], net', faults)
  <2> SUFFICES ASSUME Waits(s, x) PROVE Patient(s, x, net', faults)
    BY <1>7 DEF Patient
  <2>1. x.phase = "dialing" /\ faults = Faults =>
          (Message2(s.dial, s.place, s.key) \in net
             => Message2(s.dial, s.place, s.key) \in net')
    BY <1>4, <1>6, <1>7
  <2>2. Patient(s, x, net, faults)
    BY <1>2
  <2>3. Within(s.age + 1, faults) => Within(s.age, faults)
    BY <1>5 DEF Waits
  <2> HIDE DEF s, x
  <2> QED BY <1>4, <2>1, <2>2, <2>3 DEF Patient
<1>8. CASE m.dial[1] # c
  <2>1. client'[c] = x
    BY <1>1, <1>8 DEF ClientReads, IInv
  <2> QED BY <1>7, <2>1
<1>9. CASE m.dial[1] = c
  <2>1. CASE UNCHANGED client
    BY <1>7, <2>1
  <2>2. CASE client' = [client EXCEPT ![c].asked = TRUE] /\ m.type = "0x13"
    <3> DEFINE y == [x EXCEPT !.asked = TRUE]
    <3>1. client'[c] = y
      BY <2>2 DEF IInv
    <3>2. /\ y.phase = x.phase /\ y.dial = x.dial /\ y.sent = x.sent /\ y.due = x.due
      BY <1>2 DEF Dialers
    <3> HIDE DEF y
    <3>3. Message2(s.dial, s.place, s.key) # m
      BY <2>2 DEF Message2
    <3>4. Waits(s, y) => Waits(s, x) /\ Units(y) = Units(x)
      BY <3>2 DEF Waits, Units
    <3>5. Soon(x, net) <=> Soon(y, net)
      BY <3>2 DEF Soon
    <3>6. Soon(y, net) => Soon(y, net')
      BY <1>3, <1>4 DEF Soon
    <3> SUFFICES ASSUME Waits(s, y) PROVE Patient(s, y, net', faults)
      BY <3>1 DEF Patient
    <3>7. Patient(s, x, net, faults) /\ Waits(s, x)
      BY <1>2, <3>4
    <3>8. Within(s.age + 1, faults) => Within(s.age, faults)
      BY <1>5, <3>7 DEF Waits
    <3>9. Message2(s.dial, s.place, s.key) \in net
          => Message2(s.dial, s.place, s.key) \in net'
      BY <1>4, <3>3
    <3> HIDE DEF s, x
    <3> QED BY <3>2, <3>4, <3>5, <3>6, <3>7, <3>8, <3>9 DEF Patient
  <2>3. CASE /\ client' = [client EXCEPT ![c].phase = "up", ![c].key = m.key, ![c].due = TRUE]
             /\ x.phase = "dialing" /\ x.dial = m.dial
    <3> DEFINE y == [x EXCEPT !.phase = "up", !.key = m.key, !.due = TRUE]
    <3>1. client'[c] = y
      BY <2>3 DEF IInv
    <3>2. y.phase = "up" /\ y.dial = x.dial /\ y.due
      BY <1>2 DEF Dialers
    <3> HIDE DEF y
    <3> SUFFICES ASSUME Waits(s, y) PROVE Patient(s, y, net', faults)
      BY <3>1 DEF Patient
    <3>3. Waits(s, x) /\ s.age \in Nat
      BY <1>2, <2>3, <3>2 DEF Waits
    <3>4. s.age <= Units(x) /\ (faults = Faults => s.age = 0)
      BY <2>3, <3>3, <1>2 DEF Patient
    <3>5. s.age <= Attempts
      BY <1>2, <3>3, <3>4, Bounds DEF Units
    <3>6. Within(s.age, faults)
      <4>1. CASE faults = Faults
        BY <3>4, <4>1 DEF Within
      <4>2. CASE faults # Faults
        BY <1>2, <3>3, <3>5, <4>2, Bounds, WithinRules
      <4> QED BY <4>1, <4>2
    <3>7. Soon(y, net')
      BY <3>2 DEF Soon
    <3> QED BY <3>2, <3>6, <3>7 DEF Patient
  <2> QED BY <1>9, <2>1, <2>2, <2>3 DEF ClientReads
<1> QED BY <1>8, <1>9

(* The host reading a datagram.                                              *)
LEMMA HostReadsAwaits ==
    ASSUME IInv, AwaitInv, NEW m \in net \cup stray, HostReads(m), ToHost(m),
           UNCHANGED <<client, faults>>, net \ {m} \subseteq net', net' \subseteq net,
           stray' \subseteq stray
    PROVE  AwaitInv'
<1>1. m \in Messages
  BY DEF IInv
<1>2. \A c \in Clients : Patient(session', client'[c], net', faults')
  BY <1>1, HostReadsPatient
<1>3. \A c \in Clients : client'[c].phase = "dialing" => client'[c].sent >= 1
  BY DEF AwaitInv
<1>4. /\ \/ session' = session
         \/ session \in Sessions /\ session' = [session EXCEPT !.confirmed = TRUE]
         \/ session \in Sessions /\ session' = [session EXCEPT !.owed = TRUE, !.quiet = 0]
         \/ session' = Answering(m.dial, m.place, 1)
      /\ \A x \in challenges' : x \in challenges \/ x = RetryChallenge(m.dial, m.place)
      /\ session # NoSession => session \in Sessions /\ session.age \in Nat
                                /\ session.quiet <= session.age
  BY <1>1, HostReadsMoves, TypesAre DEF AwaitInv
<1>5. session' # NoSession =>
        /\ session'.quiet <= session'.age
        /\ session'.place \in {m.place} \cup (IF session # NoSession THEN {session.place} ELSE {})
  <2>1. CASE session' = session
    BY <1>4, <2>1
  <2>2. CASE session \in Sessions /\ session' = [session EXCEPT !.confirmed = TRUE]
    <3>1. /\ session'.quiet = session.quiet /\ session'.age = session.age
          /\ session'.place = session.place /\ session # NoSession
      BY <2>2 DEF Sessions, NoSession
    <3> QED BY <1>4, <3>1
  <2>3. CASE session \in Sessions /\ session' = [session EXCEPT !.owed = TRUE, !.quiet = 0]
    <3>1. /\ session'.quiet = 0 /\ session'.age = session.age
          /\ session'.place = session.place /\ session # NoSession
      BY <2>3 DEF Sessions, NoSession
    <3> QED BY <1>4, <3>1
  <2>4. CASE session' = Answering(m.dial, m.place, 1)
    BY <2>4 DEF Answering
  <2> QED BY <1>4, <2>1, <2>2, <2>3, <2>4
<1>6. AtHome'
  <2> SUFFICES ASSUME faults = Faults
               PROVE  /\ stray' = {} /\ \A x \in net' \cup challenges' : x.place = Home
                      /\ \A c \in Clients : client'[c].place = Home
                      /\ session' # NoSession => session'.place = Home
    BY DEF AtHome
  <2>1. /\ stray = {} /\ \A x \in net \cup challenges : x.place = Home
        /\ \A c \in Clients : client[c].place = Home
        /\ session # NoSession => session.place = Home
    BY DEF AwaitInv, AtHome
  <2>2. m.place = Home /\ RetryChallenge(m.dial, m.place).place = Home
    BY <2>1 DEF RetryChallenge
  <2> QED BY <1>4, <1>5, <2>1, <2>2
<1> QED BY <1>2, <1>3, <1>5, <1>6 DEF AwaitInv

(* A client reading a datagram.                                              *)
LEMMA ClientReadsAwaits ==
    ASSUME IInv, AwaitInv, NEW m \in net \cup stray, ~ToHost(m), NEW kept \in SUBSET net,
           net \ {m} \subseteq kept, ClientReads(m, kept),
           UNCHANGED <<host, faults>>, stray' \subseteq stray
    PROVE  AwaitInv'
<1>1. session' = session /\ challenges' = challenges
  BY DEF host
<1>2. \A c \in Clients : Patient(session', client'[c], net', faults')
  BY <1>1, ClientReadsPatient
<1>3. ASSUME NEW c \in Clients
      PROVE  /\ client'[c].place = client[c].place
             /\ client'[c].phase = "dialing" => client[c].phase = "dialing"
                                                /\ client'[c].sent = client[c].sent
  <2>1. client[c] \in Dialers
    BY TypesAre
  <2> DEFINE y == [client[c] EXCEPT !.asked = TRUE]
             z == [client[c] EXCEPT !.phase = "up", !.key = m.key, !.due = TRUE]
  <2>2. client'[c] \in {client[c], y, z}
    BY DEF ClientReads, IInv
  <2>3. y.place = client[c].place /\ y.phase = client[c].phase /\ y.sent = client[c].sent
    BY <2>1 DEF Dialers
  <2>4. z.place = client[c].place /\ z.phase = "up"
    BY <2>1 DEF Dialers
  <2> HIDE DEF y, z
  <2> QED BY <2>2, <2>3, <2>4
<1>4. AtHome'
  <2> SUFFICES ASSUME faults = Faults
               PROVE  /\ stray' = {} /\ \A x \in net' \cup challenges' : x.place = Home
                      /\ \A c \in Clients : client'[c].place = Home
                      /\ session' # NoSession => session'.place = Home
    BY DEF AtHome
  <2>1. /\ stray = {} /\ \A x \in net \cup challenges : x.place = Home
        /\ \A c \in Clients : client[c].place = Home
        /\ session # NoSession => session.place = Home
    BY DEF AwaitInv, AtHome
  <2>2. RetryHandshake1(m.dial, m.place).place = Home
    BY <2>1 DEF RetryHandshake1
  <2>3. \A x \in net' : x \in net \/ x = RetryHandshake1(m.dial, m.place)
    BY DEF ClientReads
  <2> QED BY <1>1, <1>3, <2>1, <2>2, <2>3
<1> QED BY <1>1, <1>2, <1>3, <1>4 DEF AwaitInv

(* A datagram that arrives, in time or astray.                               *)
LEMMA ArrivalsAwait ==
    ASSUME IInv, AwaitInv,
           \/ \E m \in net : HostReceives(m) \/ ClientReceives(m)
           \/ \E m \in stray : StrayArrives(m)
    PROVE  AwaitInv'
<1>1. ASSUME NEW m \in net, HostReceives(m) PROVE AwaitInv'
  BY <1>1, HostReadsAwaits DEF HostReceives
<1>2. ASSUME NEW m \in net, ClientReceives(m) PROVE AwaitInv'
  <2>1. ~ToHost(m) /\ ClientReads(m, net \ {m}) /\ UNCHANGED <<host, stray, faults>>
    BY <1>2 DEF ClientReceives
  <2>2. net \ {m} \in SUBSET net /\ UNCHANGED <<host, faults>> /\ stray' \subseteq stray
    BY <2>1
  <2> QED BY <2>1, <2>2, ClientReadsAwaits
<1>3. ASSUME NEW m \in stray, StrayArrives(m) PROVE AwaitInv'
  <2>1. CASE HostReads(m) /\ ToHost(m) /\ UNCHANGED <<client, net>>
    <3>1. UNCHANGED <<client, faults>> /\ net \ {m} \subseteq net' /\ net' \subseteq net
          /\ stray' \subseteq stray
      BY <1>3, <2>1 DEF StrayArrives
    <3> QED BY <2>1, <3>1, HostReadsAwaits
  <2>2. CASE ~ToHost(m) /\ ClientReads(m, net) /\ UNCHANGED host
    <3>1. UNCHANGED <<host, faults>> /\ stray' \subseteq stray
      BY <1>3, <2>2 DEF StrayArrives
    <3> QED BY <2>2, <3>1, ClientReadsAwaits
  <2> QED BY <1>3, <2>1, <2>2 DEF StrayArrives
<1> QED BY <1>1, <1>2, <1>3

(* The end of a wait pass puts the answer that is owed on its way.           *)
LEMMA FlushesAwaits == IInv /\ AwaitInv /\ Flushes => AwaitInv'
<1> SUFFICES ASSUME IInv, AwaitInv, Flushes PROVE AwaitInv'
  OBVIOUS
<1>1. /\ UNCHANGED <<client, stray, faults>> /\ net' = net \cup Owed \cup challenges
      /\ challenges' = {}
  BY DEF Flushes
<1>2. \/ session = NoSession /\ session' = NoSession
      \/ session # NoSession /\ session' = [session EXCEPT !.owed = FALSE]
  BY DEF Flushes
<1>3. session # NoSession =>
        /\ session \in Sessions /\ session.age \in Nat
        /\ session'.place = session.place /\ session'.dial = session.dial
        /\ session'.key = session.key /\ session'.confirmed = session.confirmed
        /\ session'.age = session.age /\ session'.quiet = session.quiet
  BY <1>2, TypesAre DEF Sessions
<1>4. \A c \in Clients : Patient(session', client'[c], net', faults')
  <2> SUFFICES ASSUME NEW c \in Clients, Waits(session', client[c])
               PROVE  Patient(session', client[c], net', faults)
    BY <1>1 DEF Patient
  <2> DEFINE x == client[c]
             s == session
             t == session'
  <2>1. s # NoSession /\ Waits(s, x)
    BY <1>2, <1>3 DEF Waits
  <2>2. Patient(s, x, net', faults)
    <3>1. faults \in Nat /\ faults <= Faults /\ Patient(s, x, net, faults)
      BY TypesAre DEF AwaitInv
    <3>2. net \subseteq net'
      BY <1>1
    <3> HIDE DEF x, s
    <3> QED BY <1>3, <3>1, <3>2, PatientGrows DEF s
  <2>3. s.owed => Message2(s.dial, s.place, s.key) \in net'
    BY <1>1, <2>1 DEF Owed
  <2>4. /\ t.dial = s.dial /\ t.place = s.place /\ t.key = s.key /\ t.age = s.age
    BY <1>3, <2>1
  <2> HIDE DEF x, s, t
  <2>5. Patient(t, x, net', faults)
    BY <2>1, <2>2, <2>3, <2>4 DEF Patient
  <2> QED BY <2>5 DEF x, t
<1>5. AtHome'
  <2> SUFFICES ASSUME faults = Faults
               PROVE  /\ stray = {} /\ \A x \in net' : x.place = Home
                      /\ \A c \in Clients : client[c].place = Home
                      /\ session' # NoSession => session'.place = Home
    BY <1>1 DEF AtHome
  <2>1. /\ stray = {} /\ \A x \in net \cup challenges : x.place = Home
        /\ \A c \in Clients : client[c].place = Home
        /\ session # NoSession => session.place = Home
    BY DEF AwaitInv, AtHome
  <2>2. \A x \in Owed : x.place = Home
    BY <2>1 DEF Owed, Message2
  <2> QED BY <1>1, <1>2, <1>3, <2>1, <2>2
<1>6. \A c \in Clients : client'[c].phase = "dialing" => client'[c].sent >= 1
  BY <1>1 DEF AwaitInv
<1>7. session' # NoSession => session'.quiet <= session'.age
  BY <1>2, <1>3 DEF AwaitInv
<1> QED BY <1>4, <1>5, <1>6, <1>7 DEF AwaitInv

(* Nobody waits for a session that is gone.                                  *)
LEMMA EndsAwait == AwaitInv /\ (Discards \/ SessionEnds \/ UNCHANGED vars) => AwaitInv'
<1>1. ASSUME AwaitInv, UNCHANGED vars PROVE AwaitInv'
  BY <1>1 DEF vars, host, AwaitInv, AtHome
<1>2. ASSUME AwaitInv, Discards \/ SessionEnds PROVE AwaitInv'
  <2>1. session' = NoSession /\ UNCHANGED <<client, challenges, net, stray, faults>>
    BY <1>2 DEF Discards, SessionEnds
  <2> QED BY <1>2, <2>1 DEF AwaitInv, AtHome, Patient, Waits
<1> QED BY <1>1, <1>2

(* A unit passes only when nothing is on its way and nothing is owed: who    *)
(* waits and dials sends again in it, and who is up speaks in it.            *)
LEMMA TickAwaits == IInv /\ AwaitInv /\ Tick => AwaitInv'
<1> SUFFICES ASSUME IInv, AwaitInv, Tick PROVE AwaitInv'
  OBVIOUS
<1>1. /\ net = {} /\ Owed = {} /\ challenges = {} /\ \A c \in Clients : ~client[c].due
      /\ UNCHANGED <<challenges, net, stray, faults>>
  BY DEF Tick
<1>2. \/ session = NoSession /\ session' = session
      \/ session # NoSession /\ session.confirmed /\ session' = session
      \/ /\ session # NoSession /\ ~session.confirmed
         /\ session' = [session EXCEPT !.quiet = @ + 1, !.age = @ + 1]
  BY DEF Tick
<1>3. session # NoSession =>
        session \in Sessions /\ session.age \in Nat /\ session.quiet \in Nat
        /\ session.quiet <= session.age
  BY TypesAre DEF AwaitInv
<1>4. session # NoSession /\ ~session.confirmed =>
        /\ session'.place = session.place /\ session'.dial = session.dial
        /\ session'.key = session.key /\ session'.confirmed = session.confirmed
        /\ session'.owed = session.owed
        /\ session'.age = session.age + 1 /\ session'.quiet = session.quiet + 1
  BY <1>2, <1>3 DEF Sessions
<1>5. \A c \in Clients :
        /\ client'[c] = [client[c] EXCEPT !.due =
                           client[c].phase # "idle" /\ (Holds(c) => ~session.confirmed)]
        /\ client'[c].phase = client[c].phase /\ client'[c].dial = client[c].dial
        /\ client'[c].sent = client[c].sent /\ client'[c].place = client[c].place
        /\ client[c].phase # "idle" /\ ~session.confirmed => client'[c].due
  <2> SUFFICES ASSUME NEW c \in Clients
               PROVE  /\ client'[c] = [client[c] EXCEPT !.due =
                           client[c].phase # "idle" /\ (Holds(c) => ~session.confirmed)]
                      /\ client'[c].phase = client[c].phase
                      /\ client'[c].dial = client[c].dial
                      /\ client'[c].sent = client[c].sent
                      /\ client'[c].place = client[c].place
                      /\ client[c].phase # "idle" /\ ~session.confirmed => client'[c].due
    OBVIOUS
  <2>1. client[c] \in Dialers
    BY TypesAre
  <2>2. client'[c] = [client[c] EXCEPT !.due =
                        client[c].phase # "idle" /\ (Holds(c) => ~session.confirmed)]
    BY DEF Tick
  <2> DEFINE on == client[c].phase # "idle" /\ (Holds(c) => ~session.confirmed)
  <2>3. client[c].phase # "idle" /\ ~session.confirmed => on
    OBVIOUS
  <2>4. client'[c] = [client[c] EXCEPT !.due = on]
    BY <2>2
  <2> HIDE DEF on
  <2>5. /\ client'[c].phase = client[c].phase /\ client'[c].dial = client[c].dial
        /\ client'[c].sent = client[c].sent /\ client'[c].place = client[c].place
        /\ client'[c].due = on
    BY <2>1, <2>4 DEF Dialers
  <2> QED BY <2>2, <2>3, <2>5
<1>6. \A c \in Clients : Patient(session', client'[c], net', faults')
  <2> SUFFICES ASSUME NEW c \in Clients, Waits(session', client'[c])
               PROVE  Patient(session', client'[c], net', faults)
    BY <1>1 DEF Patient
  <2> DEFINE x == client[c]
             y == client'[c]
             s == session
             t == session'
  <2>1. s # NoSession /\ ~s.confirmed /\ Waits(s, x)
    BY <1>2, <1>4, <1>5 DEF Waits
  <2>2. /\ y.phase = x.phase /\ y.dial = x.dial /\ y.sent = x.sent /\ y.due /\ ~x.due
        /\ x.phase # "idle" /\ x.sent \in Nat /\ s.age \in Nat
    BY <1>1, <1>3, <1>5, <2>1, TypesAre DEF Waits
  <2>3. t.age = s.age + 1 /\ t.owed = s.owed
    BY <1>4, <2>1
  <2>4. ~s.owed
    BY <1>1, <2>1 DEF Owed
  <2>5. Patient(s, x, net, faults)
    BY DEF AwaitInv
  <2>6. ~Soon(x, net) /\ Soon(y, net')
    BY <1>1, <2>2 DEF Soon
  <2>7. y.phase = "dialing" => t.age <= Units(y)
    BY <2>1, <2>2, <2>3, <2>5 DEF Patient, Units
  <2>8. ~(x.phase = "dialing" /\ faults = Faults)
    BY <1>1, <2>1, <2>4, <2>5 DEF Patient
  <2>9. y.phase = "up" => Within(t.age, faults)
    BY <2>1, <2>2, <2>3, <2>5, <2>6 DEF Patient
  <2> HIDE DEF x, y, s, t
  <2>10. Patient(t, y, net', faults)
    BY <2>2, <2>6, <2>7, <2>8, <2>9 DEF Patient
  <2> QED BY <2>10 DEF y, t
<1>7. AtHome'
  BY <1>1, <1>2, <1>4, <1>5 DEF AtHome, AwaitInv
<1>8. \A c \in Clients : client'[c].phase = "dialing" => client'[c].sent >= 1
  BY <1>5 DEF AwaitInv
<1>9. session' # NoSession => session'.quiet <= session'.age
  BY <1>2, <1>3, <1>4
<1> QED BY <1>6, <1>7, <1>8, <1>9 DEF AwaitInv

(* One client moves, and may send; the others wait as they did.              *)
LEMMA OneMovesAwaits ==
    ASSUME IInv, AwaitInv, UNCHANGED <<session, challenges, stray, faults>>,
           NEW c \in Clients, NEW y, client' = [client EXCEPT ![c] = y],
           net \subseteq net', Patient(session, y, net', faults),
           y.phase = "dialing" => y.sent >= 1,
           faults = Faults => y.place = Home /\ \A m \in net' \ net : m.place = Home
    PROVE  AwaitInv'
<1>1. \A k \in Clients : client'[k] = IF k = c THEN y ELSE client[k]
  BY DEF IInv
<1>2. \A k \in Clients : Patient(session', client'[k], net', faults')
  <2> SUFFICES ASSUME NEW k \in Clients PROVE Patient(session, client'[k], net', faults)
    OBVIOUS
  <2>1. /\ faults \in Nat /\ faults <= Faults /\ Patient(session, client[k], net, faults)
        /\ session # NoSession => session.age \in Nat
    BY TypesAre DEF AwaitInv
  <2>2. Patient(session, client[k], net', faults)
    BY <2>1, PatientGrows
  <2> QED BY <1>1, <2>2
<1>3. AtHome'
  BY <1>1 DEF AtHome, AwaitInv
<1> QED BY <1>1, <1>2, <1>3 DEF AwaitInv

(* A client that dials, sends again or falls silent.                         *)
LEMMA ClientsAwait ==
    ASSUME IInv, AwaitInv, NEW c \in Clients,
           Dial(c) \/ Retransmits(c) \/ Speaks(c) \/ Lost(c) \/ Leaves(c)
    PROVE  AwaitInv'
<1> DEFINE x == client[c]
           s == session
<1>1. /\ UNCHANGED <<session, challenges, stray, faults>> /\ net \subseteq net'
  BY DEF Dial, Retransmits, Speaks, Lost, Leaves, host
<1>2. /\ x \in Dialers /\ x.sent \in Nat /\ x.place \in Places /\ x.due \in BOOLEAN
      /\ faults \in Nat /\ faults <= Faults
      /\ s # NoSession => s.age \in Nat
      /\ Patient(s, x, net, faults)
      /\ x.phase = "up" => x.key = 1
      /\ x.phase = "dialing" => x.sent >= 1
      /\ faults = Faults => x.place = Home
  BY TypesAre DEF AwaitInv, AtHome, Dialers
<1>3. Patient(s, x, net', faults)
  <2> HIDE DEF x, s
  <2> QED BY <1>1, <1>2, PatientGrows DEF s
<1>4. CASE client' = [client EXCEPT ![c] = Over(c)] /\ UNCHANGED net
  <2> DEFINE y == Over(c)
  <2>1. Patient(s, y, net', faults) /\ y.phase = "idle" /\ y.place = x.place
    BY OverPatient
  <2>2. client' = [client EXCEPT ![c] = y] /\ net' \ net = {}
    BY <1>4
  <2>3. /\ y.phase = "dialing" => y.sent >= 1
        /\ faults = Faults => y.place = Home /\ \A m \in net' \ net : m.place = Home
    BY <1>2, <2>1, <2>2
  <2> HIDE DEF y
  <2> QED BY <1>1, <2>1, <2>2, <2>3, OneMovesAwaits
<1>5. CASE Dial(c)
  <2>1. PICK n \in Ephemerals :
          /\ Unused(<<c, n>>) /\ client' = [client EXCEPT ![c] = Opened(c, <<c, n>>)]
          /\ net' = net \cup {Message1(<<c, n>>, x.place)}
    BY <1>5 DEF Dial
  <2> DEFINE d == <<c, n>>
             y == Opened(c, d)
  <2>2. y.dial = d /\ y.sent = 1 /\ y.place = x.place /\ s.dial # d
    BY <1>2, <2>1 DEF Opened, Dialers, Unused
  <2>3. Patient(s, y, net', faults)
    BY <2>2 DEF Patient, Waits
  <2>4. client' = [client EXCEPT ![c] = y]
        /\ \A m \in net' \ net : m.place = x.place
    BY <2>1 DEF Message1
  <2>5. /\ y.phase = "dialing" => y.sent >= 1
        /\ faults = Faults => y.place = Home /\ \A m \in net' \ net : m.place = Home
    BY <1>2, <2>2, <2>4
  <2> HIDE DEF y, d
  <2> QED BY <1>1, <2>3, <2>4, <2>5, OneMovesAwaits
<1>6. CASE /\ x.phase = "dialing" /\ x.due /\ client' = [client EXCEPT ![c] = Begun(c)]
           /\ net' = net \cup {Message1(x.dial, x.place)}
  <2> DEFINE y == Begun(c)
  <2>1. /\ y.phase = x.phase /\ y.dial = x.dial /\ y.place = x.place
        /\ y.sent = x.sent + 1 /\ y.due = FALSE
    BY <1>2 DEF Begun, Dialers
  <2>2. client' = [client EXCEPT ![c] = y]
        /\ \A m \in net' \ net : m.place = x.place
    BY <1>6 DEF Message1
  <2> HIDE DEF y
  <2>3. Units(y) = Units(x)
    BY <1>2, <1>6, <2>1 DEF Units
  <2>4. Patient(s, y, net', faults)
    <3> HIDE DEF x, s
    <3> QED BY <1>3, <1>6, <2>1, <2>3 DEF Patient, Waits
  <2>5. /\ y.phase = "dialing" => y.sent >= 1
        /\ faults = Faults => y.place = Home /\ \A m \in net' \ net : m.place = Home
    BY <1>2, <2>1, <2>2
  <2> QED BY <1>1, <2>2, <2>4, <2>5, OneMovesAwaits
<1>7. CASE Speaks(c)
  <2> DEFINE y == [x EXCEPT !.due = FALSE]
  <2>1. /\ y.phase = "up" /\ x.phase = "up" /\ x.due
        /\ y.dial = x.dial /\ y.place = x.place
    BY <1>2, <1>7 DEF Speaks, Dialers
  <2>2. /\ client' = [client EXCEPT ![c] = y]
        /\ net' = net \cup {Sealed(x.dial, x.place, 1)}
    BY <1>2, <1>7, <2>1 DEF Speaks
  <2>3. \A m \in net' \ net : m.place = x.place
    BY <2>2 DEF Sealed
  <2> HIDE DEF y
  <2>4. Soon(x, net') /\ Soon(y, net')
    BY <1>2, <2>1, <2>2 DEF Soon
  <2>5. Patient(s, y, net', faults)
    <3> HIDE DEF x, s
    <3> QED BY <1>3, <2>1, <2>4 DEF Patient, Waits
  <2>6. /\ y.phase = "dialing" => y.sent >= 1
        /\ faults = Faults => y.place = Home /\ \A m \in net' \ net : m.place = Home
    BY <1>2, <2>1, <2>3
  <2> QED BY <1>1, <2>2, <2>5, <2>6, OneMovesAwaits
<1> QED BY <1>4, <1>5, <1>6, <1>7 DEF Retransmits, Lost, Leaves

(* A fault that befalls a client or a datagram is paid for.                  *)
LEMMA FaultsAwait ==
    ASSUME IInv, AwaitInv,
           \/ \E m \in net : Loses(m) \/ Strays(m)
           \/ \E c \in Clients : Hops(c) \/ Cancels(c)
    PROVE  AwaitInv'
<1>1. /\ faults > 0 /\ faults' = faults - 1 /\ session' = session
      /\ challenges' = challenges
  BY DEF Loses, Strays, Hops, Cancels, Spend, host
<1>2. faults \in Nat /\ faults <= Faults
  BY TypesAre
<1>3. \A k \in Clients :
        client'[k] \in {client[k], Over(k)} \cup {[client[k] EXCEPT !.place = p] : p \in Places}
  BY DEF Loses, Strays, Hops, Cancels, IInv
<1>4. ASSUME NEW k \in Clients
      PROVE  /\ Patient(session', client'[k], net', faults')
             /\ client'[k].phase = "dialing" => client'[k].sent >= 1
  <2> DEFINE x == client[k]
             y == client'[k]
  <2>1. /\ x \in Dialers /\ Patient(session, x, net, faults)
        /\ session # NoSession => session.age \in Nat
        /\ x.phase = "dialing" => x.sent >= 1
    BY TypesAre DEF AwaitInv
  <2>2. CASE y = Over(k)
    BY <2>2, OverPatient
  <2>3. CASE y \in {x} \cup {[x EXCEPT !.place = p] : p \in Places}
    <3>1. y.phase = x.phase /\ y.dial = x.dial /\ y.sent = x.sent /\ y.due = x.due
      BY <2>1, <2>3 DEF Dialers
    <3>2. Patient(session, y, net', faults - 1)
      <4> HIDE DEF x, y
      <4> QED BY <1>1, <1>2, <2>1, <3>1, PatientPaid
    <3> QED BY <1>1, <2>1, <3>1, <3>2
  <2> QED BY <1>3, <2>2, <2>3
<1>5. AtHome'
  <2>1. faults' # Faults
    BY <1>1, <1>2, Bounds
  <2> QED BY <2>1 DEF AtHome
<1> QED BY <1>1, <1>4, <1>5 DEF AwaitInv

(* Every step keeps the ages.                                                *)
LEMMA AwaitNext == IInv /\ AwaitInv /\ [Next]_vars => AwaitInv'
BY ArrivalsAwait, FlushesAwaits, EndsAwait, TickAwaits, ClientsAwait, FaultsAwait
   DEF Next, Prompt

(* Whatever is lost, repeated or delayed, an unconfirmed answer is no older  *)
(* than the dial that waits for it, nor, once read, than its faults allow.   *)
THEOREM AgesHold == Spec => []AwaitInv
BY AwaitInit, AwaitNext, Invariance, PTL DEF Spec

(* An answer is not discarded while its client dials with it, for however    *)
(* many faults: its lifetime is longer than every retry schedule             *)
(* (unconfirmedAnswerLifetimeNS, HandshakeLifetimeGateTests).                *)
THEOREM DialsOutlived ==
    Spec => [][Discards => \A c \in Clients :
                 client[c].phase = "dialing" => client[c].dial # session.dial]_vars
<1>1. ASSUME IInv, AwaitInv, Discards, NEW c \in Clients, client[c].phase = "dialing",
             client[c].dial = session.dial
      PROVE  FALSE
  <2>1. /\ session # NoSession /\ ~session.confirmed
        /\ session.quiet >= Lifetime \/ session.age >= Silence
    BY <1>1 DEF Discards, Unawaited, Abandoned
  <2>2. /\ session.age \in Nat /\ session.quiet \in Nat /\ session.quiet <= session.age
        /\ client[c].sent \in Nat /\ client[c].sent <= Attempts
    BY <1>1, <2>1, TypesAre DEF AwaitInv
  <2>3. session.age <= Units(client[c])
    BY <1>1, <2>1 DEF AwaitInv, Patient, Waits
  <2>4. Units(client[c]) <= Attempts /\ Units(client[c]) \in Int
    BY <2>2, Bounds DEF Units
  <2> QED BY <2>1, <2>2, <2>3, <2>4, Bounds
<1>2. IInv /\ AwaitInv =>
        (Discards => \A c \in Clients :
           client[c].phase = "dialing" => client[c].dial # session.dial)
  BY <1>1
<1> QED BY <1>2, Invariance, AgesHold, PTL

(* Nor while its client, having read it, goes on sending, when the faults    *)
(* are fewer than what the lifetime leaves beyond the schedule: each unit in *)
(* which nothing it sent confirmed the answer cost one.                      *)
THEOREM AnswerOutlives ==
    ASSUME Attempts + Faults <= Lifetime
    PROVE  Spec => AnswerOutlivesDial
<1>1. ASSUME IInv, AwaitInv, Discards, NEW c \in Clients, Awaits(c)
      PROVE  FALSE
  <2>1. /\ session # NoSession /\ ~session.confirmed
        /\ session.quiet >= Lifetime \/ session.age >= Silence
    BY <1>1 DEF Discards, Unawaited, Abandoned
  <2>2. /\ session.age \in Nat /\ session.quiet \in Nat /\ session.quiet <= session.age
        /\ client[c].sent \in Nat /\ client[c].sent <= Attempts
        /\ client[c].phase \in {"idle", "dialing", "up"}
        /\ faults \in Nat
        /\ Patient(session, client[c], net, faults) /\ Waits(session, client[c])
    BY <1>1, <2>1, TypesAre DEF AwaitInv, Awaits, Waits
  <2>3. session.age >= Lifetime
    BY <2>1, <2>2, Bounds
  <2>4. CASE client[c].phase = "dialing"
    <3>1. session.age <= Units(client[c])
      BY <2>2, <2>4 DEF Patient
    <3>2. Units(client[c]) <= Attempts /\ Units(client[c]) \in Int
      BY <2>2, Bounds DEF Units
    <3> QED BY <2>2, <2>3, <3>1, <3>2, Bounds
  <2>5. CASE client[c].phase = "up"
    <3>1. Within(session.age, faults) \/ Within(session.age + 1, faults)
      BY <2>2, <2>5 DEF Patient
    <3> QED BY <2>2, <2>3, <3>1, Bounds DEF Within
  <2> QED BY <1>1, <2>2, <2>4, <2>5 DEF Awaits
<1>2. IInv /\ AwaitInv => (Discards => \A c \in Clients : ~Awaits(c))
  BY <1>1
<1> QED BY <1>2, Invariance, AgesHold, PTL DEF AnswerOutlivesDial

-----------------------------------------------------------------------------
(* The counters.                                                           *)

USE NoiseAssumption

(***************************************************************************)
(* Every counter a resync tries lies ahead of the anchor, if there is one. *)
(***************************************************************************)
LEMMA CandidatesAhead ==
  ASSUME NEW seq \in Int, highest \in Nat, NEW c \in Candidates(seq)
  PROVE  c > highest
<1> DEFINE ahead == (seq - Seq16(highest)) % SeqSpace
<1> DEFINE base == highest + (IF ahead = 0 THEN SeqSpace ELSE ahead)
<1>1. PICK i \in 0 .. Wraps : c = base + i * SeqSpace
  <2>1. highest # None
    BY DEF None
  <2> QED
    BY <2>1 DEF Candidates
<1>2. i * SeqSpace \in Nat
  BY <1>1
<1>3. ahead \in Nat
  BY DEF Seq16
<1> HIDE DEF ahead
<1>4. base \in Nat /\ base > highest
  BY <1>3
<1> HIDE DEF base
<1> DEFINE m == i * SeqSpace
<1>5. c = base + m /\ m \in Nat
  BY <1>1, <1>2
<1> HIDE DEF m
<1> QED
  BY <1>4, <1>5

(***************************************************************************)
(* Nothing that was opened opens again.                                    *)
(***************************************************************************)
LEMMA OpensOnce ==
  ASSUME NoiseTypeOK, WindowTruthful, NEW d \in sent, Opens(d)
  PROVE  /\ d \notin opened
         /\ highest # None => d.counter > highest - WindowBits
<1>1. d.counter \in Nat /\ \A e \in opened : e.counter \in Nat /\ e.counter <= highest
  BY DEF NoiseTypeOK, WindowTruthful, Datagram
<1>2. CASE highest = None
  BY <1>1, <1>2 DEF None
<1>3. CASE highest # None /\ OpensOrdinarily(d)
  <2>1. highest \in Nat
    BY <1>3 DEF NoiseTypeOK
  <2>2. ~Stale(d.counter) /\ d.counter \notin window
    BY <1>3 DEF OpensOrdinarily, Replayed
  <2>3. d.counter > highest - WindowBits
    BY <1>1, <1>3, <2>1, <2>2 DEF Stale
  <2> QED
    BY <2>2, <2>3 DEF WindowTruthful
<1>4. CASE highest # None /\ OpensByResync(d)
  <2>1. highest \in Nat
    BY <1>4 DEF NoiseTypeOK
  <2>2. Seq16(d.counter) \in Int /\ d.counter \in Candidates(Seq16(d.counter))
    BY <1>1, <1>4 DEF OpensByResync, Seq16
  <2>3. d.counter > highest
    BY <2>1, <2>2, CandidatesAhead
  <2> QED
    BY <1>1, <2>1, <2>3
<1> QED
  BY <1>2, <1>3, <1>4 DEF Opens

(***************************************************************************)
(* The invariant holds initially.                                          *)
(***************************************************************************)
THEOREM NoiseInitHolds == NoiseInit => NoiseInv
<1> SUFFICES ASSUME NoiseInit PROVE NoiseInv
  OBVIOUS
<1>1. NoiseTypeOK
  <2>1. sent \subseteq Datagram /\ opened \subseteq sent /\ window \subseteq Nat
    BY DEF NoiseInit
  <2>2. newest \in Nat \cup {None} /\ highest \in Nat \cup {None}
    BY DEF NoiseInit
  <2>3. \A c \in window : c <= highest /\ c > highest - WindowBits
    BY DEF NoiseInit
  <2>4. failures \in 0 .. Threshold /\ sendEpoch \in Nat /\ epoch \in 0 .. sendEpoch
    BY DEF NoiseInit
  <2>5. repeated \in BOOLEAN
    BY DEF NoiseInit
  <2> QED
    BY <2>1, <2>2, <2>3, <2>4, <2>5 DEF NoiseTypeOK
<1>2. EachOnce /\ SealedOnce
  BY DEF NoiseInit, EachOnce, SealedOnce
<1>3. WindowTruthful
  BY DEF NoiseInit, WindowTruthful
<1> QED
  BY <1>1, <1>2, <1>3 DEF NoiseInv

(***************************************************************************)
(* A datagram that opens keeps the window truthful.                        *)
(***************************************************************************)
LEMMA UnsealOpensKeeps ==
  ASSUME NoiseInv, NEW d \in sent, UnsealOpens(d)
  PROVE  NoiseInv'
<1>1. d \notin opened /\ (highest # None => d.counter > highest - WindowBits)
  BY OpensOnce DEF NoiseInv, UnsealOpens
<1>2. d.counter \in Nat
  BY DEF NoiseInv, NoiseTypeOK, Datagram
<1>3. \A e \in opened : e.counter \in Nat /\ e.counter <= highest
  BY DEF NoiseInv, NoiseTypeOK, WindowTruthful, Datagram
<1>4. highest \in Nat \cup {-1} /\ highest' \in Nat /\ highest' >= d.counter
      /\ highest' >= highest /\ highest' \in {highest, d.counter}
  BY <1>2 DEF NoiseInv, NoiseTypeOK, UnsealOpens, None
<1>5. window' = {x \in window \cup {d.counter} : x > highest' - WindowBits}
  <2>1. highest' = (IF highest = None \/ d.counter > highest
                    THEN d.counter ELSE highest)
    BY <1>2, <1>4 DEF UnsealOpens, None
  <2> QED
    BY <2>1 DEF UnsealOpens, WindowAfter
<1>6. EachOnce'
  BY <1>1 DEF NoiseInv, EachOnce, UnsealOpens
<1>7. WindowTruthful'
  <2>1. window' =
          {e.counter : e \in {f \in opened' : f.counter > highest' - WindowBits}}
    <3>1. opened' = opened \cup {d}
      BY DEF UnsealOpens
    <3>2. window =
            {e.counter : e \in {f \in opened : f.counter > highest - WindowBits}}
      BY DEF NoiseInv, WindowTruthful
    <3>3. \A x : x \in window' <=>
                   /\ x > highest' - WindowBits
                   /\ \/ x = d.counter
                      \/ \E e \in opened : /\ e.counter > highest - WindowBits
                                           /\ x = e.counter
      BY <1>5, <3>2
    <3>4. \A e \in opened :
            e.counter > highest' - WindowBits => e.counter > highest - WindowBits
      BY <1>3, <1>4
    <3> QED
      BY <3>1, <3>3, <3>4
  <2>2. \A e \in opened' : e.counter <= highest'
    BY <1>2, <1>3, <1>4 DEF UnsealOpens
  <2>3. \E e \in opened' : e.counter = highest'
    <3>1. CASE highest' = d.counter
      BY <3>1 DEF UnsealOpens
    <3>2. CASE highest' = highest
      <4>1. highest # None
        BY <1>4, <3>2 DEF None
      <4> QED
        BY <3>2, <4>1 DEF NoiseInv, WindowTruthful, UnsealOpens
    <3> QED
      BY <1>4, <3>1, <3>2
  <2> QED
    BY <2>1, <2>2, <2>3 DEF WindowTruthful
<1>8. NoiseTypeOK'
  <2>1. \A x \in window' : x \in Nat /\ x <= highest' /\ x > highest' - WindowBits
    <3>1. \A x \in window : x \in Nat /\ x <= highest
      BY DEF NoiseInv, NoiseTypeOK
    <3>2. TAKE x \in window'
    <3>3. (x \in window \/ x = d.counter) /\ x > highest' - WindowBits
      BY <1>5
    <3> QED
      BY <1>2, <1>4, <3>1, <3>3
  <2>2. failures' \in 0 .. Threshold /\ repeated' \in BOOLEAN
    BY <1>6 DEF UnsealOpens, EachOnce
  <2> QED
    BY <1>4, <2>1, <2>2 DEF NoiseInv, NoiseTypeOK, UnsealOpens
<1>9. SealedOnce'
  BY DEF NoiseInv, SealedOnce, UnsealOpens
<1> QED
  BY <1>6, <1>7, <1>8, <1>9 DEF NoiseInv

(***************************************************************************)
(* A failure moves neither the anchor nor the window.                      *)
(***************************************************************************)
LEMMA FailureKeeps ==
  ASSUME NoiseInv, NoteFailure,
         UNCHANGED <<sent, newest, sendEpoch, epoch, highest, window, opened, repeated>>
  PROVE  NoiseInv'
<1>1. failures' \in 0 .. Threshold
  BY DEF NoiseInv, NoiseTypeOK, NoteFailure
<1> QED
  BY <1>1 DEF NoiseInv, NoiseTypeOK, EachOnce, WindowTruthful, SealedOnce

(***************************************************************************)
(* Every step keeps the invariant.                                         *)
(***************************************************************************)
THEOREM NoiseNextKeeps == NoiseInv /\ [NoiseNext]_noiseVars => NoiseInv'
<1> SUFFICES ASSUME NoiseInv, [NoiseNext]_noiseVars PROVE NoiseInv'
  OBVIOUS
<1>1. CASE Seal
  <2> DEFINE seq == IF newest = None THEN FirstSeq ELSE Seq16(newest + 1)
  <2> DEFINE c == Extended(newest, seq)
  <2> DEFINE new == [counter |-> c, epoch |-> sendEpoch]
  <2>1. c > newest /\ sent' = sent \cup {new} /\ newest' = c
        /\ UNCHANGED <<sendEpoch, epoch, receiver>>
    BY <1>1 DEF Seal
  <2>2. c \in Int
    <3>1. newest \in Int /\ seq \in Int /\ Seq16(newest) \in Int
      BY DEF NoiseInv, NoiseTypeOK, None, Seq16
    <3>2. SerialDistance(SeqSpace, Seq16(newest), seq) \in Int
      BY <3>1 DEF SerialDistance
    <3> HIDE DEF seq
    <3> QED
      BY <3>1, <3>2 DEF Extended, None
  <2> HIDE DEF c
  <2>3. c \in Nat /\ newest \in Nat \cup {-1}
    BY <2>1, <2>2 DEF NoiseInv, NoiseTypeOK, None
  <2>4. new \in Datagram /\ new.counter = c /\ new.epoch = sendEpoch
    BY <2>3 DEF NoiseInv, NoiseTypeOK, Datagram
  <2>5. \A e \in sent : e.counter \in Nat /\ e.counter < c
    BY <2>1, <2>3 DEF NoiseInv, NoiseTypeOK, SealedOnce, Datagram
  <2> HIDE DEF new
  <2>6. NoiseTypeOK' /\ EachOnce' /\ WindowTruthful'
    BY <2>1, <2>3, <2>4 DEF NoiseInv, NoiseTypeOK, EachOnce, WindowTruthful, receiver
  <2>7. SealedOnce'
    <3>1. \A e \in sent' : e.counter <= newest' /\ e.epoch <= sendEpoch'
      BY <2>1, <2>3, <2>4, <2>5 DEF NoiseInv, NoiseTypeOK, SealedOnce
    <3>2. \A e, f \in sent' : e.counter = f.counter => e = f
      BY <2>1, <2>3, <2>4, <2>5 DEF NoiseInv, SealedOnce
    <3> QED
      BY <3>1, <3>2 DEF SealedOnce
  <2> QED
    BY <2>6, <2>7 DEF NoiseInv
<1>2. CASE RekeySend
  <2>1. /\ sendEpoch \in Nat /\ sendEpoch' = sendEpoch + 1
        /\ UNCHANGED <<sent, newest, epoch, receiver>>
        /\ \A d \in sent : d.epoch \in Nat
    BY <1>2 DEF RekeySend, NoiseInv, NoiseTypeOK, Datagram
  <2>2. SealedOnce'
    BY <2>1 DEF NoiseInv, SealedOnce
  <2> QED
    BY <2>1, <2>2 DEF NoiseInv, NoiseTypeOK, EachOnce, WindowTruthful, receiver
<1>3. CASE RekeyReceive
  BY <1>3 DEF RekeyReceive, NoiseInv, NoiseTypeOK, EachOnce, WindowTruthful, SealedOnce,
              receiver
<1>4. ASSUME NEW d \in sent, UnsealOpens(d) PROVE NoiseInv'
  BY <1>4, UnsealOpensKeeps
<1>5. ASSUME NEW d \in sent, UnsealFails(d) PROVE NoiseInv'
  BY <1>5, FailureKeeps DEF UnsealFails
<1>6. ASSUME NEW seq \in Damaged, UnsealDamaged(seq) PROVE NoiseInv'
  BY <1>6, FailureKeeps DEF UnsealDamaged
<1>7. CASE UNCHANGED noiseVars
  BY <1>7 DEF noiseVars, receiver, NoiseInv, NoiseTypeOK, EachOnce, WindowTruthful, SealedOnce
<1> QED
  BY <1>1, <1>2, <1>3, <1>4, <1>5, <1>6, <1>7 DEF NoiseNext

(***************************************************************************)
(* The invariant is one of the specification.                              *)
(***************************************************************************)
THEOREM NoiseInvariance == NoiseSpec => []NoiseInv
<1>1. NoiseInit => NoiseInv
  BY NoiseInitHolds
<1>2. NoiseInv /\ [NoiseNext]_noiseVars => NoiseInv'
  BY NoiseNextKeeps
<1> QED
  BY <1>1, <1>2, PTL DEF NoiseSpec

(***************************************************************************)
(* Each extended counter is admitted once, whatever the network repeats    *)
(* and however the anchor moves.                                           *)
(***************************************************************************)
THEOREM AdmittedOnce == NoiseSpec => []EachOnce
<1>1. NoiseInv => EachOnce
  BY DEF NoiseInv
<1> QED
  BY <1>1, NoiseInvariance, PTL

(***************************************************************************)
(* Type correctness.                                                       *)
(***************************************************************************)
THEOREM NoiseTyped == NoiseSpec => []NoiseTypeOK
<1>1. NoiseInv => NoiseTypeOK
  BY DEF NoiseInv
<1> QED
  BY <1>1, NoiseInvariance, PTL

-----------------------------------------------------------------------------
(* What a receiver that is left its key and its anchor opens.              *)

(***************************************************************************)
(* A datagram no further ahead of the anchor than half the seq space nor   *)
(* behind it than the window gets back the counter it was sealed under.    *)
(***************************************************************************)
LEMMA ReconstructionExact ==
  ASSUME NEW c \in Nat, highest \in Nat,
         c > highest - WindowBits, 2 * (c - highest) < SeqSpace
  PROVE  Extended(highest, Seq16(c)) = c
<1>1. highest # None
  BY DEF None
<1>2. SerialDistance(SeqSpace, Seq16(highest), Seq16(c)) = c - highest
  <2>1. 2 * (highest - c) < SeqSpace
    OBVIOUS
  <2>2. /\ SeqSpace \in Nat /\ SeqSpace > 0 /\ highest \in Int /\ c \in Int
        /\ 2 * (c - highest) < SeqSpace
    OBVIOUS
  <2>3. SerialDistance(SeqSpace, highest % SeqSpace, c % SeqSpace) = c - highest
    BY <2>1, <2>2, SerialDistanceExact, Zenon
  <2> QED
    BY <2>3 DEF Seq16
<1>3. highest + (c - highest) = c
  OBVIOUS
<1> QED
  BY <1>1, <1>2, <1>3 DEF Extended

(***************************************************************************)
(* Reorder inside the window, gaps below half the seq space and a rekey in *)
(* between lose no datagram.                                               *)
(***************************************************************************)
THEOREM OrdinaryAlwaysOpens == NoiseSpec => []OrdinaryOpens
<1>1. NoiseInv => OrdinaryOpens
  <2> SUFFICES ASSUME NoiseInv, NEW d \in sent \ opened, WithinOrdinaryReach(d)
               PROVE  OpensOrdinarily(d)
    BY DEF OrdinaryOpens
  <2>1. d.counter \in Nat /\ highest \in Nat /\ d.epoch \in {epoch, epoch - 1}
        /\ d.counter > highest - WindowBits
        /\ 2 * (d.counter - highest) < SeqSpace
    BY DEF NoiseInv, NoiseTypeOK, Datagram, WithinOrdinaryReach
  <2>2. Extended(highest, Seq16(d.counter)) = d.counter
    BY <2>1, ReconstructionExact
  <2>3. d.counter # None /\ ~Stale(d.counter)
    BY <2>1 DEF Stale, None
  <2>4. d.counter \notin window
    BY DEF NoiseInv, NoiseTypeOK, WindowTruthful, SealedOnce
  <2> QED
    BY <2>1, <2>2, <2>3, <2>4 DEF OpensOrdinarily, Replayed
<1> QED
  BY <1>1, NoiseInvariance, PTL

(***************************************************************************)
(* A count of n-sized wraps that fits below k of them.                     *)
(***************************************************************************)
LEMMA WrapsFit ==
  ASSUME NEW n \in Nat, n > 0, NEW q \in Int, NEW k \in Int,
         NEW r \in Nat, n * q + r < n * k
  PROVE  q < k
<1>1. SUFFICES ASSUME q >= k PROVE FALSE
  OBVIOUS
<1>2. n * (q - k) >= 0
  BY <1>1
<1>3. n * (q - k) = n * q - n * k
  OBVIOUS
<1> QED
  BY <1>2, <1>3

(***************************************************************************)
(* Quotient and remainder.                                                 *)
(***************************************************************************)
LEMMA QuotientRemainder ==
  ASSUME NEW n \in Nat, n > 0, NEW a \in Int
  PROVE  /\ a = n * (a \div n) + (a % n)
         /\ a \div n \in Int /\ a % n \in 0 .. n - 1
         /\ a >= 0 => a \div n >= 0
  OBVIOUS

\* Of a counter: its wrap and its seq.
(* A counter is its wrap and its seq.                                        *)
LEMMA WrapOf ==
  ASSUME NEW c \in Nat
  PROVE  /\ c = SeqSpace * (c \div SeqSpace) + (c % SeqSpace)
         /\ c \div SeqSpace \in Nat
         /\ c % SeqSpace \in 0 .. SeqSpace - 1
<1>1. SeqSpace \in Nat /\ SeqSpace > 0 /\ c \in Int /\ c >= 0
  OBVIOUS
<1>2. /\ c = SeqSpace * (c \div SeqSpace) + (c % SeqSpace)
      /\ c \div SeqSpace \in Int /\ c % SeqSpace \in 0 .. SeqSpace - 1
      /\ c \div SeqSpace >= 0
  BY <1>1, QuotientRemainder, Zenon
<1>3. c \div SeqSpace \in Nat
  BY <1>2
<1> QED
  BY <1>2, <1>3

(***************************************************************************)
(* The resync candidates of a datagram within reach hold its counter.      *)
(***************************************************************************)
LEMMA CandidatesReach ==
  ASSUME NoiseTypeOK, NEW d \in sent, WithinResyncReach(d),
         Extended(highest, Seq16(d.counter)) # d.counter
  PROVE  d.counter \in Candidates(Seq16(d.counter))
<1> DEFINE c == d.counter
<1> DEFINE n == SeqSpace
<1>1. c \in Nat /\ highest \in Nat \cup {-1} /\ c > highest
  BY DEF NoiseTypeOK, Datagram, WithinResyncReach, None
<1>2. CASE highest = None
  <2>1. /\ c = n * (c \div n) + (c % n) /\ c \div n \in Nat
        /\ c % n \in 0 .. n - 1
    BY <1>1, WrapOf
  <2>2. n * (c \div n) + (c % n) < n * (Wraps + 1)
    BY <1>1, <1>2, <2>1 DEF WithinResyncReach
  <2>3. c \div n < Wraps + 1
    <3> DEFINE k == Wraps + 1
    <3> DEFINE t == c \div n
    <3> DEFINE u == c % n
    <3>1. t \in Int /\ u \in Nat /\ k \in Int /\ n * t + u < n * k
      BY <2>1, <2>2
    <3> HIDE DEF t, u, k
    <3>2. t < k
      BY <3>1, WrapsFit
    <3> QED
      BY <3>2 DEF t, k
  <2>4. c \div n \in 0 .. Wraps
    BY <1>1, <2>3
  <2>5. c = (c % n) + (c \div n) * n
    BY <2>1
  <2> QED
    BY <1>2, <2>4, <2>5 DEF Candidates, Seq16
<1>3. CASE highest # None
  <2> DEFINE g == c - highest
  <2> DEFINE r == g % n
  <2> DEFINE q == g \div n
  <2>1. g \in Nat /\ g > 0 /\ g <= n * (Wraps + 1)
    BY <1>1, <1>3 DEF WithinResyncReach, None
  <2>2. g = n * q + r /\ q \in Nat /\ r \in 0 .. n - 1
    <3> HIDE DEF g
    <3>1. g \in Nat
      BY <2>1
    <3> QED
      BY <3>1, WrapOf DEF q, r
  <2>3. (Seq16(c) - Seq16(highest)) % n = r
    <3>1. PICK p \in Int : highest = n * p + (highest % n)
      <4>1. highest \in Nat
        BY <1>1, <1>3 DEF None
      <4>2. highest = n * (highest \div n) + (highest % n)
            /\ highest \div n \in Nat
        BY <4>1, WrapOf
      <4> DEFINE w == highest \div n
      <4> DEFINE l == highest % n
      <4>3. highest = n * w + l /\ w \in Int
        BY <4>2
      <4> HIDE DEF w, l
      <4>4. \E p \in Int : highest = n * p + l
        BY <4>3
      <4> QED
        BY <4>4 DEF l
    <3>2. PICK s \in Int : c = n * s + (c % n)
      <4>1. c = n * (c \div n) + (c % n) /\ c \div n \in Nat
        BY <1>1, WrapOf
      <4> DEFINE w == c \div n
      <4> DEFINE l == c % n
      <4>2. c = n * w + l /\ w \in Int
        BY <4>1
      <4> HIDE DEF w, l
      <4>3. \E s \in Int : c = n * s + l
        BY <4>2
      <4> QED
        BY <4>3 DEF l
    <3> DEFINE x == highest % n
    <3> DEFINE y == c % n
    <3>3. x \in Int /\ y \in Int
      BY <1>1
    <3> HIDE DEF x, y
    <3>4. y - x = n * (q - s + p) + r
      <4>1. n * (q - s + p) = n * q - n * s + n * p
        BY <2>2, <3>1, <3>2
      <4>2. highest = n * p + x /\ c = n * s + y
        BY <3>1, <3>2 DEF x, y
      <4> QED
        BY <1>1, <2>2, <3>3, <4>1, <4>2
    <3>5. (y - x) % n = r
      <4>1. y - x \in Int /\ q - s + p \in Int /\ r \in Int /\ 0 <= r /\ r < n
        BY <2>2, <3>3
      <4> DEFINE k == q - s + p
      <4> DEFINE z == y - x
      <4>2. z \in Int /\ k \in Int /\ z = n * k + r
        BY <3>4, <4>1
      <4> HIDE DEF r, k, z
      <4>3. z % n = r
        BY <4>1, <4>2, RemainderUnique
      <4> QED
        BY <4>3 DEF z
    <3> QED
      BY <3>5 DEF x, y, Seq16
  <2> HIDE DEF q, r
  <2>4. CASE r = 0
    <3>1. q >= 1 /\ q - 1 \in 0 .. Wraps
      <4>1. q # 0
        BY <2>1, <2>2, <2>4
      <4>2. n * (q - 1) + 0 < n * (Wraps + 1)
        <5>1. n * (q - 1) = n * q - n
          BY <2>2
        <5> QED
          BY <2>1, <2>2, <2>4, <5>1
      <4>3. q - 1 < Wraps + 1
        BY <2>2, <4>2, WrapsFit
      <4> QED
        BY <2>2, <4>1, <4>3
    <3>2. c = (highest + n) + (q - 1) * n
      <4>1. (q - 1) * n = n * q - n
        BY <2>2
      <4> QED
        BY <1>1, <2>2, <2>4, <4>1
    <3> QED
      BY <1>3, <2>3, <2>4, <3>1, <3>2 DEF Candidates
  <2>5. CASE r # 0
    <3>1. q \in 0 .. Wraps
      <4>1. n * q + 0 < n * (Wraps + 1)
        BY <2>1, <2>2, <2>5
      <4>2. q < Wraps + 1
        BY <2>2, <4>1, WrapsFit
      <4> QED
        BY <2>2, <4>2
    <3>2. c = (highest + r) + q * n
      BY <1>1, <2>2
    <3> QED
      BY <1>3, <2>3, <2>5, <3>1, <3>2 DEF Candidates
  <2> QED
    BY <2>4, <2>5
<1> QED
  BY <1>2, <1>3

(***************************************************************************)
(* The anchor is never lost for good: after enough failures a newer        *)
(* datagram within reach opens, unless its seq reads as a replay.          *)
(***************************************************************************)
THEOREM ResyncAlwaysReaches == NoiseSpec => []ResyncReaches
<1>1. NoiseInv => ResyncReaches
  <2> SUFFICES ASSUME NoiseInv, failures >= Threshold, NEW d \in sent,
                      WithinResyncReach(d), ~ReadsAsReplay(d),
                      ~OpensOrdinarily(d)
               PROVE  OpensByResync(d)
    BY DEF ResyncReaches, Opens
  <2> DEFINE c == Extended(highest, Seq16(d.counter))
  <2>1. FailsOrdinarily(d)
    BY DEF FailsOrdinarily, ReadsAsReplay
  <2>2. d.counter \in Nat /\ d.epoch = epoch /\ d.counter > highest
    BY DEF NoiseInv, NoiseTypeOK, Datagram, WithinResyncReach
  <2>3. c # d.counter
    <3>1. highest \in Nat \cup {-1}
      BY DEF NoiseInv, NoiseTypeOK, None
    <3>2. d.counter # None /\ ~Stale(d.counter)
      BY <2>2, <3>1 DEF Stale, None
    <3>3. d.counter \notin window
      BY <2>2, <3>1 DEF NoiseInv, NoiseTypeOK
    <3> QED
      BY <2>2, <3>2, <3>3 DEF OpensOrdinarily, Replayed
  <2>4. d.counter \in Candidates(Seq16(d.counter))
    BY <2>3, CandidatesReach DEF NoiseInv
  <2> QED
    BY <2>1, <2>2, <2>4 DEF OpensByResync
<1> QED
  BY <1>1, NoiseInvariance, PTL

(***************************************************************************)
(* Nothing WindowBits or more behind the anchor is ever opened.            *)
(***************************************************************************)
THEOREM StaleNeverOpened == NoiseSpec => NothingStaleOpened
<1>1. NoiseInv /\ [NoiseNext]_noiseVars =>
        [\A d \in opened' \ opened :
           highest = None \/ d.counter > highest - WindowBits]_noiseVars
  <2> SUFFICES ASSUME NoiseInv, NoiseNext, NEW d \in opened' \ opened
               PROVE  highest = None \/ d.counter > highest - WindowBits
    OBVIOUS
  <2>1. PICK e \in sent : UnsealOpens(e)
    BY DEF NoiseNext, Seal, RekeySend, RekeyReceive, UnsealFails, UnsealDamaged,
           receiver
  <2>2. d = e
    BY <2>1 DEF UnsealOpens
  <2> QED
    BY <2>1, <2>2, OpensOnce DEF NoiseInv, UnsealOpens
<1> QED
  BY <1>1, NoiseInvariance, PTL DEF NoiseSpec, NothingStaleOpened

=============================================================================
