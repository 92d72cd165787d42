---------------------------- MODULE PathValidator ----------------------------
(***************************************************************************)
(* Path migration: the host's PathValidator, and the client and network    *)
(* that drive it.  The client sends from one tuple at a time and roams; a  *)
(* datagram from a new tuple draws a challenge there, the answer promotes  *)
(* the tuple, and the primary it replaces stays the fallback for a while.  *)
(*                                                                         *)
(* The validator is sans-IO: each entry point is an operator from its      *)
(* state, a record, to the next.  Time is counted in probe timeouts: the   *)
(* probe and the fallback hold the ticks they have left.                   *)
(*                                                                         *)
(* A datagram carries its seq on its channel, unwrapped.  Every datagram   *)
(* here has unsealed and carries the session's connection ID: the others   *)
(* never reach the validator, or never past its first guard.               *)
(***************************************************************************)
EXTENDS Integers, FiniteSets

CONSTANTS
    Tuples,     \* source tuples the client may send from
    None,       \* no tuple
    First,      \* the tuple the handshake came from
    Channels,   \* channels the client sends on
    Ctrl,       \* the one that carries path responses
    Tokens,     \* challenge tokens, drawn so that none in use is drawn again
    Timeout,    \* validationTimeoutNS, in ticks
    Retention,  \* fallbackRetentionNS, in ticks
    Factor,     \* amplificationFactor
    Cost,       \* challengeDatagramByteCount
    Sizes,      \* wire sizes of the client's datagrams
    MaxMoves,   \* bound: times the client roams
    NetCapacity,\* bound: datagrams in flight
    AskCapacity \* bound: challenges in flight

ASSUME PathAssumption ==
    /\ First \in Tuples /\ None \notin Tuples \cup Tokens /\ Ctrl \in Channels
    /\ {Timeout, Retention, Factor, Cost, NetCapacity, AskCapacity} \subseteq Nat \ {0}
    /\ Sizes \subseteq Nat \ {0} /\ MaxMoves \in Nat

VARIABLES
    v,          \* the PathValidator
    at,         \* the tuple the client sends from
    sent,       \* the newest seq the client has sent on each channel
    moves,      \* times the client has moved
    since,      \* history: what it was when the client last moved
    net,        \* datagrams in flight to the host
    challenges, \* challenges in flight to the client
    proofAge    \* history: ticks since an answer promoted a tuple

vars == <<v, at, moves, sent, since, net, challenges, proofAge>>

NoOrder == [c \in Channels |-> 0]
NoProbe == [tuple |-> None, token |-> None, left |-> 0, received |-> 0,
            challenged |-> FALSE, order |-> NoOrder]

Init ==
    /\ v = [primary |-> First, fallback |-> None, left |-> 0, probe |-> NoProbe,
            primaryOrder |-> NoOrder, fallbackOrder |-> NoOrder]
    /\ at = First /\ moves = 0 /\ sent = NoOrder /\ since = NoOrder
    /\ net = {} /\ challenges = {} /\ proofAge = 0

----------------------------------------------------------------------------
(* SendOrder: the newest each channel delivered from one tuple.            *)

Noted(order, d) ==
    IF d.seq > order[d.channel] THEN [order EXCEPT ![d.channel] = d.seq] ELSE order

\* Mutant: whatever arrives from the fallback takes the path back.
IsOvertakenByAny(order, d) == order[d.channel] # 0

\* Only when it is known: a channel nothing came from says nothing.
IsOvertaken(order, d) == order[d.channel] # 0 /\ d.seq > order[d.channel]

(* The validator's entry points.                                           *)

\* Mutant: an unanswered probe keeps the one slot.
ExpiredHoldsProbe(s) ==
    IF s.left = 0 THEN [s EXCEPT !.fallback = None, !.fallbackOrder = NoOrder] ELSE s

\* The order of a tuple that is no longer the fallback is never read again.
Expired(s) ==
    LET t == IF s.probe.left = 0 THEN [s EXCEPT !.probe = NoProbe] ELSE s
    IN IF t.left = 0 THEN [t EXCEPT !.fallback = None, !.fallbackOrder = NoOrder] ELSE t

\* The fallback and the primary change places inside the same window.
ReturnToFallback(s) ==
    [s EXCEPT !.primary = s.fallback, !.fallback = s.primary,
              !.primaryOrder = s.fallbackOrder, !.fallbackOrder = s.primaryOrder]

\* One challenge per probe, once the bytes received afford it.
ChallengeWithinBudget(p) ==
    [p EXCEPT !.challenged = @ \/ Cost <= Factor * p.received]

\* The bytes a probe counts, which matter only up to the challenge's cost.
Raised(p, size) ==
    [p EXCEPT !.received = IF @ + size < Cost THEN @ + size ELSE Cost]

FromFallback(s, d) ==
    LET t == [s EXCEPT !.fallbackOrder = Noted(@, d)]
    IN IF IsOvertaken(s.primaryOrder, d) THEN ReturnToFallback(t) ELSE t

FromProbed(s, d) ==
    LET heard == [s.probe EXCEPT !.order = Noted(s.probe.order, d)]
    IN [s EXCEPT !.probe = ChallengeWithinBudget(Raised(heard, d.size))]

FromUnknown(s, d, token) ==
    [s EXCEPT !.probe = ChallengeWithinBudget(Raised(
        [NoProbe EXCEPT !.tuple = d.from, !.token = token, !.left = Timeout,
                        !.order = Noted(NoOrder, d)], d.size))]

\* datagramReceived, its expiry done
Routed(s, d, token) ==
    CASE d.from = s.primary     -> [s EXCEPT !.primaryOrder = Noted(@, d)]
      [] d.from = s.fallback    -> FromFallback(s, d)
      [] d.from = s.probe.tuple -> FromProbed(s, d)
      [] d.from \notin {s.primary, s.fallback} /\ s.probe = NoProbe
                                -> FromUnknown(s, d, token)
      [] OTHER                  -> s

\* Mutant: any answer from the probed tuple promotes it.
AnswersAnyToken(s, d) == s.probe.tuple = d.from /\ d.token # None

\* Promotion takes the token and the probed tuple both.
Answers(s, d) == s.probe.tuple = d.from /\ s.probe.token = d.token

\* pathResponseReceived
Answered(s, d) ==
    [s EXCEPT !.probe = NoProbe, !.primary = d.from, !.primaryOrder = s.probe.order,
              !.fallback = s.primary, !.fallbackOrder = s.primaryOrder,
              !.left = Retention]

----------------------------------------------------------------------------
(* The host: Session.receive, its timer wake and the encoder's poll.       *)

InUse == {d.token : d \in net} \cup {c.token : c \in challenges} \cup {v.probe.token}

Fresh == CHOOSE token \in Tokens : token \notin InUse

\* The challenge a step sends, if it sends one.
Challenged(before, after) ==
    IF /\ after.probe.challenged
       /\ after.probe.token # before.probe.token \/ ~before.probe.challenged
    THEN {[to |-> after.probe.tuple, token |-> after.probe.token]}
    ELSE {}

\* A datagram reaches datagramReceived; a path response then reaches
\* pathResponseReceived.  What is sent to a tuple may be lost on the way.
Receive(d) ==
    /\ d \in net /\ Tokens \ InUse # {}
    /\ net' = net \ {d}
    /\ LET routed == Routed(Expired(v), d, Fresh)
           promotes == d.token # None /\ Answers(routed, d)
       IN /\ v' = IF promotes THEN Answered(routed, d) ELSE routed
          /\ proofAge' = IF promotes THEN 0 ELSE proofAge
          /\ \/ UNCHANGED challenges
             \/ /\ challenges' = challenges \cup Challenged(Expired(v), routed)
                /\ Cardinality(challenges') <= AskCapacity
    /\ UNCHANGED <<at, moves, sent, since>>

\* advance
Advance ==
    /\ v' = Expired(v)
    /\ UNCHANGED <<at, moves, sent, since, net, challenges, proofAge>>

----------------------------------------------------------------------------
(* The client, the network and the clock.                                  *)

Datagram(channel, size, token, asked) ==
    [from |-> at, channel |-> channel, seq |-> sent[channel] + 1, size |-> size,
     token |-> token, asked |-> asked]

\* A network with no room left loses something for each datagram it takes.
Enters(d) == \E kept \in SUBSET net: /\ Cardinality(kept) < NetCapacity
                                     /\ net' = kept \cup {d}

ClientSends(channel, size) ==
    /\ Enters(Datagram(channel, size, None, None))
    /\ sent' = [sent EXCEPT ![channel] = @ + 1]
    /\ UNCHANGED <<v, at, moves, since, challenges, proofAge>>

\* The answer leaves from wherever the client sends by then.
ClientAnswers(c, size) ==
    /\ c \in challenges
    /\ challenges' = challenges \ {c}
    /\ Enters(Datagram(Ctrl, size, c.token, c.to))
    /\ sent' = [sent EXCEPT ![Ctrl] = @ + 1]
    /\ UNCHANGED <<v, at, moves, since, proofAge>>

ClientMoves(tuple) ==
    /\ tuple # at /\ moves < MaxMoves
    /\ at' = tuple /\ since' = sent /\ moves' = moves + 1
    /\ UNCHANGED <<v, sent, net, challenges, proofAge>>

NetLosesChallenge(c) ==
    /\ c \in challenges
    /\ challenges' = challenges \ {c}
    /\ UNCHANGED <<v, at, moves, sent, since, net, proofAge>>

Less(n) == IF n = 0 THEN 0 ELSE n - 1

Tick ==
    /\ v' = [v EXCEPT !.left = Less(@), !.probe.left = Less(@)]
    /\ proofAge' = IF proofAge < Retention THEN proofAge + 1 ELSE proofAge
    /\ UNCHANGED <<at, moves, sent, since, net, challenges>>

----------------------------------------------------------------------------
Next ==
    \/ \E d \in net: Receive(d)
    \/ \E c \in challenges: NetLosesChallenge(c)
    \/ Advance \/ Tick
    \/ \E size \in Sizes:
        \/ \E channel \in Channels: ClientSends(channel, size)
        \/ \E c \in challenges: ClientAnswers(c, size)
    \/ \E tuple \in Tuples: ClientMoves(tuple)

Spec == Init /\ [][Next]_vars

----------------------------------------------------------------------------
(* The invariant the proofs rest on.                                       *)

Order == [Channels -> Nat]
Token == Tokens \cup {None}
Probe == [tuple: Tuples, token: Tokens, left: Nat, received: Nat,
          challenged: BOOLEAN, order: Order] \cup {NoProbe}
Validator == [primary: Tuples, fallback: Tuples \cup {None}, left: Nat,
              probe: Probe, primaryOrder: Order, fallbackOrder: Order]

TypeOK ==
    /\ v \in Validator /\ at \in Tuples /\ moves \in Nat /\ proofAge \in Nat
    /\ sent \in Order /\ since \in Order
    /\ net \subseteq [from: Tuples, channel: Channels, seq: Nat, size: Nat,
                      token: Token, asked: Tuples \cup {None}]
    /\ challenges \subseteq [to: Tuples, token: Tokens]

\* The primary, the fallback and the probed tuple are three tuples.
Apart(s) == /\ s.fallback # s.primary
            /\ s.probe # NoProbe => s.probe.tuple \notin {s.primary, s.fallback}

\* A token in use names the tuple it was drawn for.
TokensBound ==
    /\ \A d \in net: d.token # None /\ d.token = v.probe.token =>
                         d.asked = v.probe.tuple
    /\ \A c \in challenges: c.token = v.probe.token => c.to = v.probe.tuple

\* A fallback lives inside the window of the answer that retained it.
WindowBound == v.fallback # None => v.left + proofAge <= Retention

\* What the client sent since it moved came from where it is.
SentSince == \A d \in net: /\ d.seq <= sent[d.channel]
                           /\ d.seq > since[d.channel] => d.from = at

IInv == TypeOK /\ Apart(v) /\ TokensBound /\ WindowBound /\ SentSince

----------------------------------------------------------------------------
(* Properties.                                                             *)

Returns == v'.primary # v.primary /\ v'.primary = v.fallback

\* Media moves to a tuple the host does not retain only when that very tuple
\* answered the challenge sent to it: neither an answer that left from another
\* tuple nor one to an earlier probe's token promotes.
OnlyAnswered ==
    [][v'.primary \notin {v.primary, v.fallback} =>
        \E d \in net \ net': d.from = v'.primary /\ d.asked = v'.primary]_vars

\* Once media is where the client is, on evidence the client sent since it
\* got there, no straggler takes it back to the fallback.
Anchored == /\ v.primary = at
            /\ \A c \in Channels: v.primaryOrder[c] = 0 \/ v.primaryOrder[c] > since[c]
AnchoredStays == [][Anchored => ~Returns]_vars

\* The fallback is an escape hatch of one window after an answered challenge;
\* a return does not renew it.
ReturnWithinWindow == [][Returns => proofAge < Retention]_vars

\* docs/PROTOCOL.md:305-308: a datagram takes the path back only when it is
\* newer than what the primary delivered, so a straggler, sent before the
\* client's last move, cannot flip the path.
StragglerCannotFlip == [][Returns => \E d \in net \ net': d.seq > since[d.channel]]_vars

\* A client that stays somewhere long enough gets its media there, whatever
\* was lost or delayed before.
RoamCompletes == \A t \in Tuples: <>[](at = t) => <>[](v.primary = t)
=============================================================================
