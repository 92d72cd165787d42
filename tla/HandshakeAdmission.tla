------------------------- MODULE HandshakeAdmission -------------------------
(* The host's admission of dials: one acceptor for the whole process (the    *)
(* memory of answered message 1s and the gate), and the one session that is  *)
(* answered, confirmed, served and ended before the next.  Clients dial with *)
(* a fresh message 1, retransmit it, answer retry challenges and give up;    *)
(* datagrams are lost, repeated, and arrive after their dial is over or in   *)
(* the middle of a later one.  A unit of time is a retransmit interval, in   *)
(* which a datagram that is not a stray makes its way.                       *)
EXTENDS Integers, FiniteSets

CONSTANTS
    Clients, Persistent,           \* who dials; the one that never stops
    Ephemerals,                    \* message 1s to draw
    Places, Home,                  \* source addresses, where all begin
    Attempts,                      \* transmissions of one dial
    Lifetime, Silence,             \* an unconfirmed answer's, the machine's
    Burst, CookieBurst, ShareBurst, Enter, Exit,   \* HandshakeGate.Config
    Dialings, Faults               \* bounds: dials of the others, faults

ASSUME HandshakeAssumption ==
    /\ Persistent \in Clients /\ Ephemerals \subseteq Nat /\ Home \in Places
    /\ {Attempts, Lifetime, Silence, Burst, CookieBurst, ShareBurst, Enter,
        Exit, Dialings, Faults} \subseteq Nat
    /\ 0 < Attempts /\ Attempts < Lifetime /\ Lifetime <= Silence
    /\ Exit < Enter

VARIABLES
    client,      \* each client's dial
    session,     \* the host's session, or NoSession
    challenges,  \* pendingChallenges
    answered,    \* AnsweredHandshakeMemory
    gate,        \* HandshakeGate
    drawn,       \* how many transcripts each dial was answered with
    net, stray,  \* datagrams on their way, and those astray
    faults

host == <<session, challenges, answered, gate, drawn>>
vars == <<client, host, net, stray, faults>>

Dials == Clients \X Ephemerals    \* a message 1, known by its ephemeral key

Message1(d, p) == [type |-> "0x05", dial |-> d, place |-> p]
Message2(d, p, k) == [type |-> "0x06", dial |-> d, place |-> p, key |-> k]
RetryChallenge(d, p) == [type |-> "0x13", dial |-> d, place |-> p]
RetryHandshake1(d, p) == [type |-> "0x14", dial |-> d, place |-> p]
Sealed(d, p, k) == [type |-> "sealed", dial |-> d, place |-> p, key |-> k]
Initiation(m) == m.type \in {"0x05", "0x14"}
ToHost(m) == Initiation(m) \/ m.type = "sealed"

NoSession == [dial |-> <<>>]
Answering(d, p, k) ==
    [dial |-> d, place |-> p, key |-> k, confirmed |-> FALSE,
     owed |-> TRUE, quiet |-> 0, age |-> 0]

Idle(p, dialings) ==
    [phase |-> "idle", dial |-> <<>>, place |-> p, sent |-> 0,
     asked |-> FALSE, due |-> FALSE, key |-> 0, left |-> dialings]

Init ==
    /\ client = [c \in Clients |-> Idle(Home, Dialings)]
    /\ session = NoSession /\ challenges = {} /\ answered = {}
    /\ gate = [cookieMode |-> FALSE, arrivals |-> 0, bucket |-> Burst,
               cookies |-> CookieBurst, share |-> [p \in Places |-> ShareBurst]]
    /\ drawn = [d \in Dials |-> 0]
    /\ net = {} /\ stray = {} /\ faults = Faults

Smaller(a, b) == IF a < b THEN a ELSE b

-----------------------------------------------------------------------------
(* The host.                                                                 *)

\* noteArrival and updateCookieMode: the dial with its hysteresis.
Noted(g) ==
    LET n == Smaller(g.arrivals + 1, Enter)
    IN [g EXCEPT !.arrivals = n,
                 !.cookieMode = IF @ THEN n > Exit ELSE n >= Enter]

\* A cookie echoed from the tuple that was challenged verifies (one that expired
\* on its way counts as lost); it spends both budgets or neither.  A bare
\* message 1 spends the bucket, unless a cookie is required.
Credits(g, m) == g.share[m.place] > 0 /\ g.cookies > 0
Spent(g, m) ==
    IF m.type = "0x14"
    THEN [g EXCEPT !.share[m.place] = @ - 1, !.cookies = @ - 1]
    ELSE [g EXCEPT !.bucket = @ - 1]
Admits(g, m) ==
    IF m.type = "0x14" THEN Credits(g, m)
    ELSE ~g.cookieMode /\ g.bucket > 0

\* Fault: remembered with the confirmation, not with the answer.
AnswerForgetful(m) ==
    /\ answered' = answered
    /\ drawn' = [drawn EXCEPT ![m.dial] = @ + 1]
    /\ session' = Answering(m.dial, m.place, drawn'[m.dial])

\* Discards the unconfirmed session with its queue, and answers on a fresh
\* transcript; only then is the message 1 remembered.
Answer(m) ==
    /\ answered' = answered \cup {m.dial}
    /\ drawn' = [drawn EXCEPT ![m.dial] = @ + 1]
    /\ session' = Answering(m.dial, m.place, drawn'[m.dial])

\* Fault: a challenged message 1 is remembered too.
AcceptRemembering(m) ==
    \/ m.dial \in answered /\ UNCHANGED host
    \/ LET g == Noted(gate) IN
       /\ m.dial \notin answered
       /\ \/ /\ Admits(g, m) /\ Answer(m)
             /\ gate' = Spent(g, m) /\ UNCHANGED challenges
          \/ /\ ~Admits(g, m) /\ gate' = g /\ answered' = answered \cup {m.dial}
             /\ challenges' = IF m.type = "0x14" THEN challenges
                              ELSE challenges \cup {RetryChallenge(m.dial, m.place)}
             /\ UNCHANGED <<session, drawn>>

\* accept: one answered before is refused unread; the gate admits it, or a
\* challenge leaves for it, or a cookie that does not verify or finds no
\* credit is dropped.
Accept(m) ==
    \/ m.dial \in answered /\ UNCHANGED host
    \/ LET g == Noted(gate) IN
       /\ m.dial \notin answered
       /\ \/ /\ Admits(g, m) /\ Answer(m)
             /\ gate' = Spent(g, m) /\ UNCHANGED challenges
          \/ /\ ~Admits(g, m) /\ gate' = g
             /\ challenges' = IF m.type = "0x14" THEN challenges
                              ELSE challenges \cup {RetryChallenge(m.dial, m.place)}
             /\ UNCHANGED <<session, answered, drawn>>

\* Session.receive while unconfirmed: the session's keys confirm it; a
\* verbatim repeat is owed the same message 2, on the path that asked;
\* another initiation is the acceptor's.
Confirms(m) ==
    m.type = "sealed" /\ m.dial = session.dial /\ m.key = session.key
Repeats(m) == Initiation(m) /\ m.dial = session.dial
ReceiveUnconfirmed(m) ==
    \/ /\ Confirms(m) /\ session' = [session EXCEPT !.confirmed = TRUE]
       /\ UNCHANGED <<challenges, answered, gate, drawn>>
    \/ /\ Repeats(m)
       /\ session' = IF m.place # session.place THEN session
                     ELSE [session EXCEPT !.owed = TRUE, !.quiet = 0]
       /\ UNCHANGED <<challenges, answered, gate, drawn>>
    \/ Initiation(m) /\ ~Repeats(m) /\ Accept(m)
    \/ ~Initiation(m) /\ ~Confirms(m) /\ UNCHANGED host

HostReads(m) ==
    \/ session = NoSession /\ Initiation(m) /\ Accept(m)
    \/ session = NoSession /\ ~Initiation(m) /\ UNCHANGED host
    \/ session # NoSession /\ ~session.confirmed /\ ReceiveUnconfirmed(m)
    \/ session # NoSession /\ session.confirmed /\ UNCHANGED host

\* The end of a wait pass: message 2, then the challenges.
Owed == IF session # NoSession /\ session.owed
        THEN {Message2(session.dial, session.place, session.key)} ELSE {}
Flushes ==
    /\ Owed \cup challenges # {}
    /\ net' = net \cup Owed \cup challenges
    /\ session' = IF session = NoSession THEN session
                  ELSE [session EXCEPT !.owed = FALSE]
    /\ challenges' = {}
    /\ UNCHANGED <<client, answered, gate, drawn, stray, faults>>

\* Fault: a lifetime within the client's schedule.
AbandonedEarly(s) == s.quiet >= Lifetime - 2 \/ s.age >= Silence

\* isUnconfirmedAnswerAbandoned, or the lifecycle closes.
Abandoned(s) == s.quiet >= Lifetime \/ s.age >= Silence
Unawaited ==
    session # NoSession /\ ~session.confirmed /\ Abandoned(session)
Discards ==
    /\ Unawaited /\ session' = NoSession
    /\ UNCHANGED <<client, challenges, answered, gate, drawn, net, stray, faults>>

\* The client left or fell silent: the service loop awaits the next client,
\* the acceptor standing.
Holds(c) ==
    /\ client[c].phase = "up" /\ session # NoSession
    /\ session.dial = client[c].dial /\ session.key = client[c].key
SessionEnds ==
    /\ session # NoSession /\ session.confirmed
    /\ \A c \in Clients : ~Holds(c)
    /\ session' = NoSession
    /\ UNCHANGED <<client, challenges, answered, gate, drawn, net, stray, faults>>

-----------------------------------------------------------------------------
(* The clients.                                                              *)

Begun(c) ==
    [client[c] EXCEPT !.sent = @ + 1, !.asked = FALSE, !.due = FALSE]

\* A dial draws a message 1.  One of which nothing is left on its way stands
\* for a fresh one: nobody but the memory could tell them apart.
Unused(d) ==
    /\ \A m \in net \cup stray \cup challenges : m.dial # d
    /\ session.dial # d
Opened(c, d) ==
    [client[c] EXCEPT !.phase = "dialing", !.dial = d, !.sent = 1,
                      !.left = IF c = Persistent THEN @ ELSE @ - 1]
Dial(c) ==
    /\ client[c].phase = "idle" /\ (c = Persistent \/ client[c].left > 0)
    /\ \E n \in Ephemerals :
        LET d == <<c, n>> IN
        /\ Unused(d) /\ \A k \in Ephemerals : k < n => ~Unused(<<c, k>>)
        /\ client' = [client EXCEPT ![c] = Opened(c, d)]
        /\ answered' = answered \ {d} /\ drawn' = [drawn EXCEPT ![d] = 0]
        /\ net' = net \cup {Message1(d, client[c].place)}
    /\ UNCHANGED <<session, challenges, gate, stray, faults>>

Over(c) == Idle(client[c].place, client[c].left)

\* tick: message 1 again, verbatim, until every attempt has had its interval.
Retransmits(c) ==
    /\ client[c].phase = "dialing" /\ client[c].due
    /\ \/ /\ client[c].sent < Attempts
          /\ client' = [client EXCEPT ![c] = Begun(c)]
          /\ net' = net \cup {Message1(client[c].dial, client[c].place)}
       \/ /\ client[c].sent >= Attempts
          /\ client' = [client EXCEPT ![c] = Over(c)] /\ UNCHANGED net
    /\ UNCHANGED <<host, stray, faults>>

\* ingest: one challenge answered for each transmission; a message 2 of this
\* dial completes it.  Each dial has its own socket.
ClientReads(m, kept) ==
    LET c == m.dial[1]
        hears == /\ client[c].phase = "dialing" /\ client[c].dial = m.dial
                 /\ client[c].place = m.place
    IN \/ /\ hears /\ m.type = "0x13" /\ ~client[c].asked
          /\ client' = [client EXCEPT ![c].asked = TRUE]
          /\ net' = kept \cup {RetryHandshake1(m.dial, m.place)}
       \/ /\ hears /\ m.type = "0x06"
          /\ client' = [client EXCEPT ![c].phase = "up", ![c].key = m.key,
                                      ![c].due = TRUE]
          /\ net' = kept
       \/ /\ ~hears \/ (m.type = "0x13" /\ client[c].asked)
          /\ net' = kept /\ UNCHANGED client

\* An established client keeps sending; what it sends into its confirmed session
\* changes nothing here.
Speaks(c) ==
    /\ client[c].phase = "up" /\ client[c].due
    /\ client' = [client EXCEPT ![c].due = FALSE]
    /\ net' = net \cup {Sealed(client[c].dial, client[c].place, client[c].key)}
    /\ UNCHANGED <<host, stray, faults>>

\* Its session is gone, and it falls silent; or the human leaves.
Lost(c) ==
    /\ client[c].phase = "up" /\ ~Holds(c)
    /\ client' = [client EXCEPT ![c] = Over(c)]
    /\ UNCHANGED <<host, net, stray, faults>>
Leaves(c) ==
    /\ Holds(c) /\ session.confirmed
    /\ client' = [client EXCEPT ![c] = Over(c)]
    /\ UNCHANGED <<host, net, stray, faults>>

-----------------------------------------------------------------------------
(* The network, the clock and the faults.                                    *)

HostReceives(m) ==
    /\ m \in net /\ ToHost(m) /\ HostReads(m)
    /\ net' = net \ {m} /\ UNCHANGED <<client, stray, faults>>
ClientReceives(m) ==
    /\ m \in net /\ ~ToHost(m) /\ ClientReads(m, net \ {m})
    /\ UNCHANGED <<host, stray, faults>>
StrayArrives(m) ==
    /\ m \in stray /\ stray' = stray \ {m} /\ UNCHANGED faults
    /\ \/ ToHost(m) /\ HostReads(m) /\ UNCHANGED <<client, net>>
       \/ ~ToHost(m) /\ ClientReads(m, net) /\ UNCHANGED host

Tick ==
    /\ net = {} /\ Owed \cup challenges = {} /\ ~Unawaited
    /\ \A c \in Clients : ~client[c].due
    /\ client' = [c \in Clients |->
         [client[c] EXCEPT !.due =
            /\ client[c].phase # "idle"
            /\ Holds(c) => ~session.confirmed]]
    /\ session' = IF session = NoSession \/ session.confirmed THEN session
                  ELSE [session EXCEPT !.quiet = @ + 1, !.age = @ + 1]
    /\ \E n \in 0..gate.arrivals :
        gate' = [gate EXCEPT
            !.arrivals = n, !.bucket = Smaller(@ + 1, Burst),
            !.cookies = Smaller(@ + 1, CookieBurst),
            !.share = [p \in Places |-> Smaller(@[p] + 1, ShareBurst)]]
    /\ UNCHANGED <<challenges, answered, drawn, net, stray, faults>>

Spend == faults > 0 /\ faults' = faults - 1

Loses(m) ==
    /\ m \in net /\ Spend /\ net' = net \ {m}
    /\ UNCHANGED <<client, host, stray>>
Strays(m) ==
    /\ m \in net \ stray /\ Spend /\ stray' = stray \cup {m}
    /\ net' \in {net, net \ {m}}
    /\ UNCHANGED <<client, host>>
Hops(c) ==
    /\ client[c].phase # "idle" /\ Spend
    /\ \E p \in Places \ {client[c].place} :
        client' = [client EXCEPT ![c].place = p]
    /\ UNCHANGED <<host, net, stray>>
Cancels(c) ==
    /\ client[c].phase # "idle" /\ Spend
    /\ client' = [client EXCEPT ![c] = Over(c)]
    /\ UNCHANGED <<host, net, stray>>

Prompt ==
    \/ \E m \in net : HostReceives(m) \/ ClientReceives(m)
    \/ Flushes \/ Discards \/ Tick
    \/ \E c \in Clients : Retransmits(c) \/ Speaks(c)

Next ==
    \/ Prompt \/ SessionEnds
    \/ \E c \in Clients : Dial(c) \/ Lost(c) \/ Leaves(c) \/ Hops(c) \/ Cancels(c)
    \/ \E m \in net : Loses(m) \/ Strays(m)
    \/ \E m \in stray : StrayArrives(m)

Spec == Init /\ [][Next]_vars

\* A unit's steps are taken and time passes; a client that lost its host finds
\* out, one that does not persist leaves in the end, and the other dials again.
FairSpec ==
    /\ Spec /\ WF_vars(Prompt) /\ WF_vars(SessionEnds)
    /\ WF_vars(Dial(Persistent))
    /\ \A c \in Clients : WF_vars(Lost(c)) /\ WF_vars(Leaves(c))

-----------------------------------------------------------------------------
(* Properties.                                                               *)

Asking == [type : {"0x13"}, dial : Dials, place : Places]
Messages ==
    [type : {"0x05", "0x14"}, dial : Dials, place : Places] \cup Asking
    \cup [type : {"0x06", "sealed"}, dial : Dials, place : Places, key : Nat]
Dialers ==
    [phase : {"idle", "dialing", "up"}, dial : Dials \cup {<<>>},
     place : Places, sent : 0..Attempts, asked : BOOLEAN, due : BOOLEAN,
     key : Nat, left : 0..Dialings]
Sessions ==
    [dial : Dials, place : Places, key : Nat, confirmed : BOOLEAN,
     owed : BOOLEAN, quiet : 0..Lifetime, age : 0..Silence]
Gates ==
    [cookieMode : BOOLEAN, arrivals : 0..Enter, bucket : 0..Burst,
     cookies : 0..CookieBurst, share : [Places -> 0..ShareBurst]]
TypeOK ==
    /\ client \in [Clients -> Dialers]
    /\ session \in {NoSession} \cup Sessions
    /\ challenges \subseteq Asking
    /\ answered \subseteq Dials /\ drawn \in [Dials -> Nat]
    /\ gate \in Gates
    /\ net \subseteq Messages /\ stray \subseteq Messages
    /\ faults \in 0..Faults

\* Whatever is left of a dial's answer anywhere, in a message 2 however late,
\* in the client that read one, in the host's session, is one transcript: a
\* repeat gets the same message 2 again, and once the session that gave it is
\* replaced, discarded or over nothing gets another (AnsweredHandshakeMemory,
\* answeredHandshake).  So the keys a client completes with are its session's.
OneTranscript ==
    LET keys(d) ==
          {m.key : m \in {x \in net \cup stray :
                            x.type \in {"0x06", "sealed"} /\ x.dial = d}}
          \cup {client[c].key : c \in {x \in Clients :
                            client[x].phase = "up" /\ client[x].dial = d}}
          \cup (IF session.dial = d THEN {session.key} ELSE {})
    IN \A d \in Dials : Cardinality(keys(d)) <= 1

\* No answer is discarded for want of a client while its client still dials
\* with it, or has read it and goes on sending (unconfirmedAnswerLifetimeNS
\* outlasts every retry schedule, HandshakeLifetimeGateTests).  While the client
\* dials this holds for any number of faults; once it has read the answer, each
\* of its datagrams that goes astray leaves the answer unconfirmed for a unit
\* more, so that half takes Attempts + Faults <= Lifetime.
Awaits(c) ==
    /\ client[c].phase # "idle" /\ client[c].dial = session.dial
AnswerOutlivesDial ==
    [][Discards => \A c \in Clients : ~Awaits(c)]_vars

\* No stray message 1, no answer whose client left, no rival's session, no
\* required cookie and no empty budget keeps a client out for good that goes
\* on dialing (awaitClient, HandshakeGate).
EventuallyServed ==
    <>(session # NoSession /\ session.confirmed /\ session.dial[1] = Persistent)

\* PROTOCOL.md:132-133: "a newer message 1 that authenticates replaces the
\* unconfirmed handshake"; so none its own client gave up for this one does.
NewerReplaces ==
    [][\A c \in Clients :
         session # NoSession /\ session' # NoSession /\ ~session.confirmed
         /\ client[c].dial = session.dial => session'.dial[1] # c
                                             \/ session'.dial = session.dial]_vars
=============================================================================
