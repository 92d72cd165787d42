----------------------------- MODULE ArqStream -----------------------------
(***************************************************************************)
(* The ordered stream (group 0) of ArqEndpoint.swift, one data direction:  *)
(* the send half of one endpoint, the receive half of its peer, and the    *)
(* datagrams between them, which may be lost, duplicated and reordered.    *)
(*                                                                         *)
(* Positions count the stream's segments from 1 and never wrap; a frame    *)
(* carries Raw(position), the 16 low bits the code puts on the wire, and   *)
(* both ends compare Raw values only, with SerialDistance.  RTT estimate,  *)
(* backoff and clock are abstracted: a probe timer that is armed may fire  *)
(* at any poll.  A datagram carries one frame: frames packed together are  *)
(* ingested in turn without a poll between them, which the interleavings   *)
(* of single frames include.                                               *)
(***************************************************************************)
EXTENDS SerialNumbers, Sequences, FiniteSets

CONSTANTS
  SeqSpace,         \* values of a segment seq on the wire (65,536)
  InitialSeq,       \* ArqConfig.initialSegmentSeq
  SendWindow,       \* ArqConfig.sendWindowSegments
  ReceiveWindow,    \* ArqConfig.receiveWindowSegments
  PacketThreshold,  \* ArqConfig.packetThreshold
  ProbeSegments,    \* ArqConfig.ptoProbeSegments
  MaxQueued,        \* ArqBounds.maxQueuedSegmentsPerGroup
  Horizon,          \* positions a datagram may be behind when it arrives
  MaxMessage,       \* segments of the longest message
  MaxSegments       \* bound: segments ever accepted from the application

ASSUME ArqStreamAssumption ==
  /\ SeqSpace \in Nat \ {0} /\ InitialSeq \in 0 .. SeqSpace - 1
  /\ ReceiveWindow \in Nat \ {0} /\ SendWindow \in 1 .. ReceiveWindow
  /\ PacketThreshold \in Nat \ {0} /\ ProbeSegments \in Nat \ {0}
  /\ MaxQueued \in Nat /\ Horizon \in Nat /\ MaxMessage \in Nat \ {0}
  /\ MaxSegments \in Nat
  /\ 2 * (Horizon + ReceiveWindow) < SeqSpace

VARIABLES
  log,        \* the segments of every accepted message: those below next
              \* are cut, the others wait in SendGroup.queue
  base,       \* SendGroup.base: lowest unacknowledged position
  next,       \* SendGroup.nextSeq: the next position to cut
  live,       \* positions whose slot is not nil
  resend,     \* live positions with needsSend
  fastUsed,   \* live positions with fastRetransmitConsumed
  highAcked,  \* SendGroup.highestAckedEver as a position, 0 when nil
  stream,     \* the segments the receiver assembled, in order
  buffered,   \* RecvGroup.buffered, by position
  ackOwed,    \* ackNeeded holds the group
  dataNet,    \* positions whose segment is in flight to the receiver
  ackNet      \* ACK blocks in flight to the sender

sender == <<log, base, next, live, resend, fastUsed, highAcked>>
receiver == <<stream, buffered, ackOwed>>
vars == <<sender, receiver, dataNet, ackNet>>

Segment == [message : Nat, endOfMessage : BOOLEAN]

\* The wire form of a position.
Raw(p) == (p - 1 + InitialSeq) % SeqSpace

\* Fault: the low bits are compared as plain numbers.
DistanceUnwrapped(from, to) == Raw(to) - Raw(from)

\* The distance the code computes from the wire forms of two positions.
Distance(from, to) == SerialDistance(SeqSpace, Raw(from), Raw(to))

Init ==
  /\ log = << >> /\ base = 1 /\ next = 1
  /\ live = {} /\ resend = {} /\ fastUsed = {} /\ highAcked = 0
  /\ stream = << >> /\ buffered = << >> /\ ackOwed = FALSE
  /\ dataNet = {} /\ ackNet = {}

-----------------------------------------------------------------------------
(* The sender.                                                             *)

Least(a, b) == IF a <= b THEN a ELSE b

Queued == Len(log) - (next - 1)

\* send(message:): a message of k segments, refused (queueFull) when the
\* group would hold more than MaxQueued unacknowledged segments.
Send(k) ==
  /\ Cardinality(live) + Queued + k <= MaxQueued
  /\ Len(log) + k <= MaxSegments
  /\ log' = log \o [i \in 1 .. k |->
                      [message |-> Len(log) + 1, endOfMessage |-> i = k]]
  /\ UNCHANGED <<base, next, live, resend, fastUsed, highAcked, receiver,
                 dataNet, ackNet>>

\* firePto: the lowest ProbeSegments live segments not already queued.
Probes ==
  LET idle == live \ resend
  IN {p \in idle : Cardinality({q \in idle : q < p}) < ProbeSegments}

\* Fault: only the in-flight count is bounded, not the span above base.
FreshCountUnspanned ==
  IF SendWindow <= Cardinality(live) THEN 0
  ELSE Least(SendWindow - Cardinality(live), Queued)

\* emitSegments' loop: how many fresh segments both windows allow.
FreshCount ==
  LET room == Least(SendWindow - Cardinality(live),
                    ReceiveWindow - (next - base))
  IN IF room <= 0 THEN 0 ELSE Least(room, Queued)

\* poll at the sending end; due says that the probe timer has expired.
PollSender(due) ==
  LET again == resend \cup (IF due THEN Probes ELSE {})
      fresh == next .. next + FreshCount - 1
  IN /\ due => live # {}
     /\ again \cup fresh # {}
     /\ dataNet' = dataNet \cup again \cup fresh
     /\ next' = next + FreshCount
     /\ live' = live \cup fresh
     /\ resend' = {}
     /\ fastUsed' = fastUsed \ again
     /\ UNCHANGED <<log, base, highAcked, receiver, ackNet>>

\* The distance from an ACK block's cumulative to the highest seq it
\* reports (ArqAck.Block.highestReported).
Reach(ack) ==
  IF ack.bitmap = {} THEN 0
  ELSE CHOOSE n \in ack.bitmap : \A m \in ack.bitmap : m <= n

CumulativeOffset(ack) == Distance(base, ack.cumulative)
HighOffset(ack) == CumulativeOffset(ack) + Reach(ack)

\* Fault: the ring's span is taken for the count of live segments.
AckWithinLive(ack) == HighOffset(ack) < Cardinality(live)

\* applyAck's forgery bound: nothing past the highest sent position.
AckWithinSent(ack) == HighOffset(ack) < next - base

\* Fault: bit n of the bitmap is read as cumulative + n.
CoveredOffByOne(ack) ==
  {p \in live : \/ p - base <= CumulativeOffset(ack)
                \/ p - base - CumulativeOffset(ack) + 1 \in ack.bitmap}

\* The positions applyAck retires: those up to the cumulative, and those
\* the bitmap names.
Covered(ack) ==
  {p \in live : \/ p - base <= CumulativeOffset(ack)
                \/ p - base - CumulativeOffset(ack) \in ack.bitmap}

\* Fault: every ACK runs the fast-retransmit scan.
AckAlwaysAdvances(ack) == TRUE

\* The fast-retransmit gate: the block reports a seq above every earlier one.
AckAdvances(ack) ==
  highAcked = 0 \/ Distance(highAcked, ack.cumulative + Reach(ack)) > 0

\* compactFront: base moves past the acknowledged front of the ring.
RingFront(left) ==
  IF left = {} THEN next ELSE CHOOSE p \in left : \A q \in left : p <= q

\* A retired slot takes its marks with it.
Kept(marks, left) == marks \cap left

\* The live segments the gate queues again: PacketThreshold or more behind
\* the claim, each once between two transmissions.
Lagging(ack, left) ==
  {p \in left \ (resend \cup fastUsed) :
     AckAdvances(ack) /\ p - base <= HighOffset(ack) - PacketThreshold}

\* ingestAck and applyAck for one block.
IngestAck(ack) ==
  LET left == live \ Covered(ack)
  IN /\ AckWithinSent(ack)
     /\ base' = IF left # live THEN RingFront(left) ELSE base
     /\ live' = left
     /\ resend' = Kept(resend, left) \cup Lagging(ack, left)
     /\ fastUsed' = Kept(fastUsed, left) \cup Lagging(ack, left)
     /\ highAcked' = IF AckAdvances(ack) THEN base + HighOffset(ack)
                     ELSE highAcked
     /\ UNCHANGED <<log, next, receiver, dataNet, ackNet>>

\* The transport's replay window bounds how stale an arriving ACK can be.
ReceiveAck(ack) ==
  /\ ack \in ackNet
  /\ ack.cumulative >= base - 1 - Horizon
  /\ IngestAck(ack)

-----------------------------------------------------------------------------
(* The receiver.                                                           *)

cumulative == Len(stream)

\* The last position of the in-order run that starts above the cumulative
\* once p is held.
RunEnd(held) ==
  CHOOSE e \in {cumulative} \cup held :
    /\ \A q \in cumulative + 1 .. e : q \in held
    /\ e + 1 \notin held

\* Fault: whatever arrives is taken for the next segment.
PlaceNext(p) == IF Distance(cumulative, p) <= 0 THEN cumulative ELSE cumulative + 1

\* Where the receiver places an arriving segment.
Place(p) == cumulative + Distance(cumulative, p)

IsDuplicate(p) == Place(p) <= cumulative \/ Place(p) \in DOMAIN buffered

\* ingestSegment, verdict duplicate: acknowledged again.
IngestDuplicate(p) ==
  /\ IsDuplicate(p)
  /\ ackOwed' = TRUE
  /\ UNCHANGED <<sender, stream, buffered, dataNet, ackNet>>

\* ingestSegment, verdict accepted: the segment is buffered and the in-order
\* run drained.  One past the window is ignored, unacknowledged.
AcceptSegment(p) ==
  LET held == DOMAIN buffered \cup {Place(p)}
      value(q) == IF q = Place(p) THEN log[p] ELSE buffered[q]
      end == RunEnd(held)
  IN /\ ~IsDuplicate(p)
     /\ Place(p) <= cumulative + ReceiveWindow
     /\ ackOwed' = TRUE
     /\ stream' = stream \o [i \in 1 .. end - cumulative |->
                                value(cumulative + i)]
     /\ buffered' = [q \in {q \in held : q > end} |-> value(q)]
     /\ UNCHANGED <<sender, dataNet, ackNet>>

\* The transport's replay window bounds how stale an arriving segment can be.
ReceiveSegment(p) ==
  /\ p \in dataNet
  /\ p >= cumulative - Horizon
  /\ IngestDuplicate(p) \/ AcceptSegment(p)

\* poll at the receiving end: appendAckFrames reports the whole state.
PollReceiver ==
  /\ ackOwed
  /\ ackOwed' = FALSE
  /\ ackNet' = ackNet \cup
       {[cumulative |-> cumulative,
         bitmap |-> {p - cumulative : p \in DOMAIN buffered}]}
  /\ UNCHANGED <<sender, stream, buffered, dataNet>>

-----------------------------------------------------------------------------
(* The network: a datagram stays until it is lost, so it may arrive any    *)
(* number of times, in any order.                                          *)

LoseSegment(p) ==
  /\ p \in dataNet
  /\ dataNet' = dataNet \ {p}
  /\ UNCHANGED <<sender, receiver, ackNet>>

LoseAck(ack) ==
  /\ ack \in ackNet
  /\ ackNet' = ackNet \ {ack}
  /\ UNCHANGED <<sender, receiver, dataNet>>

ReceiveSomeSegment == \E p \in dataNet : ReceiveSegment(p)
ReceiveSomeAck == \E ack \in ackNet : ReceiveAck(ack)

Next ==
  \/ \E k \in 1 .. MaxMessage : Send(k)
  \/ \E due \in BOOLEAN : PollSender(due)
  \/ ReceiveSomeAck
  \/ ReceiveSomeSegment
  \/ PollReceiver
  \/ \E p \in dataNet : LoseSegment(p)
  \/ \E ack \in ackNet : LoseAck(ack)

Spec == Init /\ [][Next]_vars

\* The shells poll after every send and ingest and at the deadline poll
\* returned, so a poll with work is not put off for ever and an armed probe
\* timer fires.  The network is fair-lossy: what arrives again and again is
\* not lost every time, separately for a segment the receiver lacks, a
\* duplicate that renews its acknowledgement, and an ACK that retires
\* something.  No copy circulates for ever: the transport's replay window
\* takes a datagram once.
FairSpec ==
  /\ Spec
  /\ WF_vars(\E due \in BOOLEAN : PollSender(due))
  /\ WF_vars(PollSender(TRUE))
  /\ WF_vars(PollReceiver)
  /\ SF_<<stream, buffered>>(ReceiveSomeSegment)
  /\ SF_ackOwed(ReceiveSomeSegment)
  /\ SF_live(ReceiveSomeAck)
  /\ \A p \in 1 .. MaxSegments : WF_vars(LoseSegment(p))

-----------------------------------------------------------------------------
(* Properties.                                                             *)

Received == 1 .. cumulative \cup DOMAIN buffered

TypeOK ==
  /\ log \in Seq(Segment) /\ stream \in Seq(Segment)
  /\ base \in Nat \ {0} /\ next \in Nat \ {0} /\ highAcked \in Nat
  /\ live \subseteq base .. next - 1
  /\ resend \subseteq live /\ fastUsed \subseteq live
  /\ ackOwed \in BOOLEAN
  /\ DOMAIN buffered \subseteq Nat /\ \A p \in DOMAIN buffered : buffered[p] \in Segment
  /\ dataNet \subseteq 1 .. next - 1
  /\ ackNet \subseteq [cumulative : Nat, bitmap : SUBSET (Nat \ {0})]

Abstract == INSTANCE ReliableStream WITH sent <- log, delivered <- stream

\* What the receiver assembles is a prefix of what was sent: every message
\* in order, whole, once, whatever is lost, repeated or reordered, across
\* the wrap of the 16-bit seq (ingestSegment, accept).
StreamIntegrity == Abstract!IsPrefixOf(stream, log)

\* A segment the sender has retired is in the receiver's hands: no ACK, old
\* or new, makes the sender drop a segment that was not received (applyAck).
AckTruthful == \A p \in 1 .. next - 1 : p \in live \/ p \in Received

\* An honest sender's segment is never past the receive window, whichever
\* copy of it arrives when (emitSegments' span bound; beyondReceiveWindow
\* is documented as forgery- or bug-shaped).
NeverOverrun ==
  \A p \in dataNet :
    p >= cumulative - Horizon => Place(p) <= cumulative + ReceiveWindow

\* An ACK the receiver sent is never taken for a forgery, however late it
\* arrives (applyAck's bound; ackForUnsentData is documented as forgery).
HonestAckAccepted ==
  \A ack \in ackNet :
    ack.cumulative >= base - 1 - Horizon => AckWithinSent(ack)

\* A segment is queued again by an ACK only when that ACK brought news, and
\* only when the receiver holds a segment PacketThreshold or more above it:
\* a replayed ACK buys no retransmission (applyAck's gate).
RetransmitEarned ==
  [][\A p \in resend' \ resend :
       /\ highAcked' > highAcked
       /\ \E q \in Received : q >= p + PacketThreshold]_vars

\* Every step of the protocol accepts a message, delivers more of the
\* stream, or changes nothing the applications see.
ImplementsReliableStream == Abstract!Safety

\* Once accepted, a message is delivered (the header's "exactly once on the
\* ordered stream").
EventuallyDelivered == Abstract!Delivery(MaxSegments)

\* Every accepted segment is eventually acknowledged, and the endpoints go
\* quiet: isQuiescent, until new work arrives.
Quiescent == live = {} /\ Queued = 0 /\ ~ackOwed
EventuallyQuiescent == <>[]Quiescent

-----------------------------------------------------------------------------
(* The inductive invariant the proofs rest on, in named parts.             *)

\* The ring: next is the end of what was cut, the span stays within the
\* receive window, and base is the lowest live position.
SenderRing ==
  /\ base <= next /\ next <= Len(log) + 1
  /\ next - base <= ReceiveWindow
  /\ live = {} => base = next
  /\ live # {} => base \in live

\* What the receiver holds was sent, lies above a gap, and is the log's.
ReceiverHolds ==
  /\ cumulative < next
  /\ \A p \in DOMAIN buffered :
       cumulative + 1 < p /\ p < next /\ buffered[p] = log[p]

\* An ACK in flight reports nothing the receiver does not hold now.
AcksInFlight ==
  \A ack \in ackNet :
    /\ ack.cumulative <= cumulative
    /\ \A n \in ack.bitmap : ack.cumulative + n \in Received

\* The highest reported position is received and above all that retired.
HighMark ==
  /\ highAcked = 0 \/ highAcked \in Received
  /\ \A p \in 1 .. next - 1 : p \in live \/ p <= highAcked

IInv ==
  /\ TypeOK /\ SenderRing /\ ReceiverHolds /\ StreamIntegrity
  /\ AckTruthful /\ AcksInFlight /\ HighMark
=============================================================================
