----------------------------- MODULE ArqProofs -----------------------------
(***************************************************************************)
(* Proofs about the ARQ endpoint.                                          *)
(*                                                                         *)
(* ArqStream: for every width of the seq space, window, probe count and    *)
(* threshold its assumption admits, and messages of every length.          *)
(*                                                                         *)
(* ArqReceiveGroups: for any ids within half the id space and any caps.  A *)
(* group that is over stays shut: under its own tombstone, or under a      *)
(* watermark that only moves ahead of what it evicts.  The tables are one  *)
(* ledger: none holds more than was reserved, and what an ACK would report *)
(* was received, until the watermark covers the group.                     *)
(***************************************************************************)
EXTENDS ArqStream, ArqReceiveGroups, BasicLemmas, FiniteSetTheorems,
        SequenceTheorems

USE ArqStreamAssumption

(***************************************************************************)
(* The distance the code computes from low bits is the true distance of    *)
(* two positions less than half the seq space apart.                       *)
(***************************************************************************)
LEMMA DistanceExact ==
  ASSUME NEW from \in Int, NEW to \in Int,
         2 * (to - from) < SeqSpace, 2 * (from - to) < SeqSpace
  PROVE  Distance(from, to) = to - from
<1> DEFINE a == from - 1 + InitialSeq
<1> DEFINE b == to - 1 + InitialSeq
<1>1. a \in Int /\ b \in Int /\ b - a = to - from /\ a - b = from - to
  OBVIOUS
<1> HIDE DEF a, b
<1>2. SerialDistance(SeqSpace, a % SeqSpace, b % SeqSpace) = b - a
  <2>1. /\ SeqSpace \in Nat /\ SeqSpace > 0 /\ a \in Int /\ b \in Int
        /\ 2 * (b - a) < SeqSpace /\ 2 * (a - b) < SeqSpace
    BY <1>1
  <2> QED
    BY <2>1, SerialDistanceExact, Zenon
<1>3. Distance(from, to) = SerialDistance(SeqSpace, a % SeqSpace, b % SeqSpace)
  BY DEF Distance, Raw, a, b
<1> QED
  BY <1>1, <1>2, <1>3

(***************************************************************************)
(* Consequences of the invariant: base trails the receiver's cumulative by *)
(* nothing it does not hold, so what is in flight is within the window.    *)
(***************************************************************************)
LEMMA BaseBehindReceiver ==
  ASSUME IInv
  PROVE  /\ base <= cumulative + 1
         /\ cumulative \in Nat
         /\ \A p \in Received : p \in 1 .. next - 1
         /\ highAcked < next
         /\ highAcked # 0 => base - 1 <= highAcked
         /\ highAcked = 0 => base = 1
<1>1. cumulative \in Nat /\ next \in Nat /\ base \in Nat \ {0} /\ base <= next
  BY DEF IInv, TypeOK, SenderRing, cumulative
<1>2. \A p \in Received : p \in 1 .. next - 1
  BY <1>1 DEF IInv, TypeOK, ReceiverHolds, Received
<1>3. cumulative + 1 \notin Received
  BY <1>1 DEF IInv, TypeOK, ReceiverHolds, Received
<1>4. base <= cumulative + 1
  <2>1. SUFFICES ASSUME cumulative + 1 < base PROVE FALSE
    BY <1>1
  <2>2. cumulative + 1 \in 1 .. next - 1 /\ cumulative + 1 \notin live
    BY <1>1, <2>1 DEF IInv, TypeOK
  <2> QED
    BY <1>3, <2>2 DEF IInv, AckTruthful
<1>5. highAcked < next
  BY <1>1, <1>2 DEF IInv, TypeOK, HighMark
<1>6. base - 1 <= highAcked
  <2>1. CASE base = 1
    BY <2>1 DEF IInv, TypeOK
  <2>2. CASE base # 1
    <3>1. base - 1 \in 1 .. next - 1 /\ base - 1 \notin live
      BY <1>1, <2>2 DEF IInv, TypeOK
    <3> QED
      BY <3>1 DEF IInv, HighMark
  <2> QED
    BY <2>1, <2>2
<1> QED
  BY <1>1, <1>2, <1>4, <1>5, <1>6 DEF IInv, TypeOK

(***************************************************************************)
(* The number of fresh segments a poll cuts fits the log and the window.   *)
(***************************************************************************)
LEMMA FreshCountBounds ==
  ASSUME IInv
  PROVE  /\ FreshCount \in Nat
         /\ next + FreshCount <= Len(log) + 1
         /\ next + FreshCount - base <= ReceiveWindow
<1>1. /\ next \in Nat \ {0} /\ base \in Nat \ {0} /\ Len(log) \in Nat
      /\ base <= next /\ next <= Len(log) + 1 /\ next - base <= ReceiveWindow
  BY DEF IInv, TypeOK, SenderRing
<1>2. Cardinality(live) \in Nat
  <2>1. IsFiniteSet(base .. next - 1) /\ live \subseteq base .. next - 1
    <3>1. base \in Int /\ next - 1 \in Int
      BY <1>1
    <3> QED
      BY <3>1, FS_Interval DEF IInv, TypeOK
  <2> QED
    BY <2>1, FS_Subset, FS_CardinalityType
<1> QED
  BY <1>1, <1>2 DEF FreshCount, Least, Queued

THEOREM InitIInv == Init => IInv
<1> SUFFICES ASSUME Init PROVE IInv
  OBVIOUS
<1>1. Len(<< >>) = 0 /\ << >> \in Seq(Segment) /\ DOMAIN << >> = {}
  OBVIOUS
<1>2. cumulative = 0 /\ DOMAIN buffered = {}
  BY <1>1 DEF Init, cumulative
<1>3. TypeOK
  <2>1. log \in Seq(Segment) /\ stream \in Seq(Segment)
    BY <1>1, Zenon DEF Init
  <2>3. /\ base \in Nat \ {0} /\ next \in Nat \ {0} /\ highAcked \in Nat
    BY DEF Init
  <2>4. ackOwed \in BOOLEAN
    BY DEF Init
  <2>2. /\ live \subseteq base .. next - 1 /\ resend \subseteq live
        /\ fastUsed \subseteq live /\ dataNet \subseteq 1 .. next - 1
        /\ ackNet \subseteq [cumulative : Nat, bitmap : SUBSET (Nat \ {0})]
    BY DEF Init
  <2> QED
    BY <1>2, <2>1, <2>2, <2>3, <2>4 DEF TypeOK
<1>4. SenderRing /\ ReceiverHolds
  BY <1>1, <1>2 DEF Init, SenderRing, ReceiverHolds
<1>5. StreamIntegrity
  BY <1>1 DEF Init, StreamIntegrity, Abstract!IsPrefixOf
<1>6. AckTruthful /\ AcksInFlight /\ HighMark
  BY <1>2 DEF Init, AckTruthful, AcksInFlight, HighMark
<1> QED
  BY <1>3, <1>4, <1>5, <1>6 DEF IInv

LEMMA SendStep ==
  ASSUME IInv, NEW k \in 1 .. MaxMessage, Send(k)
  PROVE  IInv'
<1> DEFINE message == [i \in 1 .. k |->
             [message |-> Len(log) + 1, endOfMessage |-> i = k]]
<1>1. message \in Seq(Segment) /\ Len(message) = k
  <2>1. log \in Seq(Segment) /\ k \in Nat
    BY DEF IInv, TypeOK
  <2>2. \A i \in 1 .. k : message[i] \in Segment
    BY <2>1 DEF Segment
  <2>3. message \in [1 .. k -> Segment]
    BY <2>2
  <2> QED
    BY <2>1, <2>3, FunctionIsSeq
<1>2. log' = log \o message
  BY DEF Send
<1> HIDE DEF message
<1>3. /\ log' \in Seq(Segment) /\ Len(log') = Len(log) + k
      /\ \A i \in 1 .. Len(log) : log'[i] = log[i]
  BY <1>1, <1>2 DEF IInv, TypeOK
<1>4. UNCHANGED <<base, next, live, resend, fastUsed, highAcked, stream,
                  buffered, ackOwed, dataNet, ackNet>>
  BY DEF Send, receiver
<1>5. Len(log) \in Nat /\ next \in Nat /\ base \in Nat /\ Len(stream) \in Nat
  BY DEF IInv, TypeOK
<1>6. TypeOK'
  BY <1>3, <1>4 DEF IInv, TypeOK
<1>7. SenderRing'
  BY <1>3, <1>4, <1>5 DEF IInv, SenderRing
<1>8. ReceiverHolds'
  <2>1. \A p \in DOMAIN buffered : p \in 1 .. Len(log)
    BY <1>5 DEF IInv, TypeOK, ReceiverHolds, SenderRing, cumulative
  <2> QED
    BY <1>3, <1>4, <2>1 DEF IInv, ReceiverHolds, cumulative
<1>9. StreamIntegrity'
  <2>1. /\ Len(stream) <= Len(log)
        /\ \A i \in 1 .. Len(stream) : stream[i] = log[i]
    BY DEF IInv, StreamIntegrity, Abstract!IsPrefixOf
  <2>2. /\ stream' = stream /\ Len(stream) <= Len(log')
        /\ \A i \in 1 .. Len(stream) : stream[i] = log'[i]
    BY <1>1, <1>3, <1>4, <1>5, <2>1
  <2> QED
    BY <2>2 DEF StreamIntegrity, Abstract!IsPrefixOf
<1>10. AckTruthful' /\ AcksInFlight' /\ HighMark'
  BY <1>4 DEF IInv, AckTruthful, AcksInFlight, HighMark, Received, cumulative
<1> QED
  BY <1>6, <1>7, <1>8, <1>9, <1>10 DEF IInv

LEMMA PollSenderStep ==
  ASSUME IInv, NEW due \in BOOLEAN, PollSender(due)
  PROVE  IInv'
<1> DEFINE again == resend \cup (IF due THEN Probes ELSE {})
<1> DEFINE fresh == next .. next + FreshCount - 1
<1>1. /\ dataNet' = dataNet \cup again \cup fresh
      /\ next' = next + FreshCount /\ live' = live \cup fresh
      /\ resend' = {} /\ fastUsed' = fastUsed \ again
      /\ UNCHANGED <<log, base, highAcked, stream, buffered, ackOwed, ackNet>>
  BY DEF PollSender, receiver
<1>2. again \subseteq live
  BY DEF Probes, IInv, TypeOK
<1> HIDE DEF again
<1>3. /\ next \in Nat \ {0} /\ base \in Nat \ {0} /\ Len(log) \in Nat
      /\ cumulative \in Nat /\ base <= next /\ live \subseteq base .. next - 1
  BY DEF IInv, TypeOK, SenderRing, cumulative
<1>4. /\ FreshCount \in Nat /\ next + FreshCount <= Len(log) + 1
      /\ next + FreshCount - base <= ReceiveWindow
  BY FreshCountBounds
<1> HIDE DEF FreshCount
<1>5. TypeOK'
  BY <1>1, <1>2, <1>3, <1>4 DEF IInv, TypeOK
<1>6. SenderRing'
  BY <1>1, <1>3, <1>4 DEF IInv, SenderRing
<1>7. ReceiverHolds'
  BY <1>1, <1>3, <1>4 DEF IInv, TypeOK, ReceiverHolds, cumulative
<1>8. StreamIntegrity'
  BY <1>1 DEF IInv, StreamIntegrity, Abstract!IsPrefixOf
<1>9. AckTruthful'
  BY <1>1, <1>3, <1>4 DEF IInv, AckTruthful, Received, cumulative
<1>10. AcksInFlight'
  BY <1>1 DEF IInv, AcksInFlight, Received, cumulative
<1>11. HighMark'
  BY <1>1, <1>3, <1>4 DEF IInv, HighMark, Received, cumulative
<1> QED
  BY <1>5, <1>6, <1>7, <1>8, <1>9, <1>10, <1>11 DEF IInv
(***************************************************************************)
(* The greatest offset a bitmap of an ACK in flight names, and what the    *)
(* ACK claims: a position the receiver holds, or nothing.                  *)
(***************************************************************************)
LEMMA ReachOfAck ==
  ASSUME IInv, NEW ack \in ackNet
  PROVE  /\ ack.cumulative \in Nat /\ Reach(ack) \in Nat
         /\ ack.bitmap = {} => Reach(ack) = 0
         /\ ack.bitmap # {} => Reach(ack) \in ack.bitmap
         /\ \A n \in ack.bitmap : n \in Nat \ {0} /\ n <= Reach(ack)
         /\ ack.cumulative <= cumulative
         /\ ack.cumulative + Reach(ack) < next
         /\ ack.cumulative + Reach(ack) \in Received \cup {0}
         /\ \A p \in Nat \ {0} :
              p <= ack.cumulative \/ p - ack.cumulative \in ack.bitmap
                => p \in Received
<1>1. /\ cumulative \in Nat /\ next \in Nat \ {0}
      /\ \A p \in Received : p \in 1 .. next - 1
  BY BaseBehindReceiver DEF IInv, TypeOK
<1>2. /\ ack.cumulative \in Nat /\ ack.bitmap \subseteq Nat \ {0}
      /\ ack.cumulative <= cumulative
      /\ \A n \in ack.bitmap : ack.cumulative + n \in Received
  BY DEF IInv, TypeOK, AcksInFlight
<1>3. \A p \in 1 .. cumulative : p \in Received
  BY DEF Received
<1>4. ack.cumulative \in Received \cup {0}
  BY <1>1, <1>2, <1>3
<1>5. ASSUME ack.bitmap # {}
      PROVE  Reach(ack) \in ack.bitmap /\ \A n \in ack.bitmap : n <= Reach(ack)
  <2>1. ack.bitmap \subseteq Nat /\ \A n \in ack.bitmap : n <= next
    BY <1>1, <1>2
  <2>2. \E n \in ack.bitmap : \A m \in ack.bitmap : m <= n
    BY <1>1, <1>5, <2>1, GreatestElement
  <2> QED
    BY <1>5, <2>2 DEF Reach
<1>6. CASE ack.bitmap = {}
  <2>1. Reach(ack) = 0
    BY <1>6 DEF Reach
  <2>2. ack.cumulative < next
    BY <1>1, <1>4
  <2> QED
    BY <1>1, <1>2, <1>3, <1>4, <1>6, <2>1, <2>2
<1>7. CASE ack.bitmap # {}
  <2>1. Reach(ack) \in ack.bitmap /\ \A n \in ack.bitmap : n <= Reach(ack)
    BY <1>5, <1>7
  <2>2. ack.cumulative + Reach(ack) \in Received
    BY <1>2, <2>1
  <2>3. \A p \in Nat \ {0} : p - ack.cumulative \in ack.bitmap => p \in Received
    <3> SUFFICES ASSUME NEW p \in Nat \ {0}, p - ack.cumulative \in ack.bitmap
                 PROVE  p \in Received
      OBVIOUS
    <3>1. ack.cumulative + (p - ack.cumulative) = p
      BY <1>2
    <3> QED
      BY <1>2, <3>1
  <2> QED
    BY <1>1, <1>2, <1>3, <1>7, <2>1, <2>2, <2>3
<1> QED
  BY <1>6, <1>7

(***************************************************************************)
(* The sender reads an ACK no staler than the horizon as it was meant: the *)
(* offsets are true, the block is not taken for a forgery, and a block is  *)
(* news exactly when it claims more than every earlier one.                *)
(***************************************************************************)
LEMMA AckReadRight ==
  ASSUME IInv, NEW ack \in ackNet, ack.cumulative >= base - 1 - Horizon
  PROVE  /\ CumulativeOffset(ack) = ack.cumulative - base
         /\ HighOffset(ack) = ack.cumulative + Reach(ack) - base
         /\ AckWithinSent(ack)
         /\ AckAdvances(ack) <=>
              highAcked = 0 \/ highAcked < ack.cumulative + Reach(ack)
<1>1. /\ ack.cumulative \in Nat /\ Reach(ack) \in Nat
      /\ ack.cumulative + Reach(ack) < next
  BY ReachOfAck
<1>2. /\ base \in Nat \ {0} /\ next \in Nat /\ highAcked \in Nat
      /\ next - base <= ReceiveWindow /\ base <= next
      /\ highAcked < next /\ (highAcked # 0 => base - 1 <= highAcked)
  BY BaseBehindReceiver DEF IInv, TypeOK, SenderRing
<1>3. CumulativeOffset(ack) = ack.cumulative - base
  BY <1>1, <1>2, DistanceExact DEF CumulativeOffset
<1>4. HighOffset(ack) = ack.cumulative + Reach(ack) - base
  BY <1>1, <1>2, <1>3 DEF HighOffset
<1>5. AckWithinSent(ack)
  BY <1>1, <1>2, <1>4 DEF AckWithinSent
<1>6. ASSUME highAcked # 0
      PROVE  Distance(highAcked, ack.cumulative + Reach(ack))
               = ack.cumulative + Reach(ack) - highAcked
  BY <1>1, <1>2, <1>6, DistanceExact
<1>7. AckAdvances(ack) <=>
        highAcked = 0 \/ highAcked < ack.cumulative + Reach(ack)
  BY <1>1, <1>2, <1>6 DEF AckAdvances
<1> QED
  BY <1>3, <1>4, <1>5, <1>7

(***************************************************************************)
(* The bitmap never reports the position just above the cumulative of a    *)
(* receiver, nor one below it: retiring what it covers keeps AckTruthful.  *)
(***************************************************************************)
LEMMA ReceiveAckStep ==
  ASSUME IInv, NEW ack \in ackNet, ReceiveAck(ack)
  PROVE  /\ IInv'
         /\ \A p \in resend' \ resend :
              /\ highAcked' > highAcked
              /\ \E q \in Received : q >= p + PacketThreshold
<1> DEFINE left == live \ Covered(ack)
<1> DEFINE front == RingFront(left)
<1> DEFINE lagging == Lagging(ack, left)
<1> DEFINE claim == ack.cumulative + Reach(ack)
<1>1. /\ base' = IF left # live THEN front ELSE base
      /\ live' = left
      /\ resend' = (resend \cap left) \cup lagging
      /\ fastUsed' = (fastUsed \cap left) \cup lagging
      /\ highAcked' = IF AckAdvances(ack) THEN base + HighOffset(ack)
                      ELSE highAcked
      /\ UNCHANGED <<log, next, stream, buffered, ackOwed, dataNet, ackNet>>
  BY DEF ReceiveAck, IngestAck, Kept, receiver
<1>2. ack.cumulative >= base - 1 - Horizon
  BY DEF ReceiveAck
<1>3. /\ base \in Nat \ {0} /\ next \in Nat \ {0} /\ highAcked \in Nat
      /\ base <= next /\ live \subseteq base .. next - 1
      /\ next - base <= ReceiveWindow
      /\ resend \subseteq live /\ fastUsed \subseteq live
      /\ highAcked < next
  BY BaseBehindReceiver DEF IInv, TypeOK, SenderRing
<1>w. next \in Nat /\ base \in Nat /\ next - base <= ReceiveWindow
  BY <1>3
<1>4. /\ ack.cumulative \in Nat /\ Reach(ack) \in Nat /\ claim \in Nat
      /\ \A n \in ack.bitmap : n \in Nat /\ n <= Reach(ack)
      /\ claim < next /\ claim \in Received \cup {0}
      /\ \A p \in Nat \ {0} :
              p <= ack.cumulative \/ p - ack.cumulative \in ack.bitmap
                => p \in Received
  BY ReachOfAck
<1>5. /\ CumulativeOffset(ack) = ack.cumulative - base
      /\ HighOffset(ack) = claim - base
      /\ AckAdvances(ack) <=> highAcked = 0 \/ highAcked < claim
  <2>1. CumulativeOffset(ack) = ack.cumulative - base
    BY <1>2, AckReadRight
  <2>2. HighOffset(ack) = claim - base
    BY <1>2, <1>3, <1>4, AckReadRight
  <2>3. AckAdvances(ack) <=> highAcked = 0 \/ highAcked < claim
    BY <1>2, AckReadRight
  <2> QED
    BY <2>1, <2>2, <2>3
<1>6. \A p \in Covered(ack) : p \in live /\ p \in Received /\ p <= claim
  <2> SUFFICES ASSUME NEW p \in Covered(ack)
               PROVE  p \in live /\ p \in Received /\ p <= claim
    OBVIOUS
  <2>1. p \in live /\ p \in Nat \ {0}
    BY <1>3 DEF Covered
  <2>2. CASE p - base <= CumulativeOffset(ack)
    <3>1. p <= ack.cumulative
      BY <1>3, <1>4, <1>5, <2>1, <2>2
    <3> QED
      BY <1>4, <2>1, <3>1
  <2>3. CASE p - base - CumulativeOffset(ack) \in ack.bitmap
    <3>1. p - base - CumulativeOffset(ack) = p - ack.cumulative
      BY <1>3, <1>4, <1>5, <2>1
    <3>2. p - ack.cumulative \in ack.bitmap
      BY <2>3, <3>1
    <3> QED
      BY <1>4, <2>1, <3>2
  <2> QED
    BY <2>2, <2>3 DEF Covered
<1> HIDE DEF claim
<1>7. left \subseteq live /\ left \subseteq Nat /\ left \subseteq base .. next - 1
  <2>1. left \subseteq live
    OBVIOUS
  <2> HIDE DEF left
  <2>2. base .. next - 1 \subseteq Nat
    BY <1>3
  <2> QED
    BY <1>3, <2>1, <2>2
<1>8. ASSUME left # {}
      PROVE  front \in left /\ \A q \in left : front <= q
  <2>1. \E p \in left : \A q \in left : p <= q
    BY <1>7, <1>8, LeastElement
  <2> QED
    BY <1>8, <2>1 DEF RingFront
<1>9. lagging \subseteq left
  BY DEF Lagging
<1> HIDE DEF front
<1>10. base' \in Nat \ {0} /\ base <= base' /\ base' <= next
       /\ (left = {} => base' = next) /\ (left # {} => base' \in left)
       /\ left \subseteq base' .. next - 1 /\ next - base' <= ReceiveWindow
  <2> HIDE DEF left
  <2>1. CASE left = live
    BY <1>1, <1>3, <2>1 DEF IInv, SenderRing
  <2>2. CASE left # live /\ left = {}
    BY <1>1, <1>3, <2>2 DEF front, RingFront
  <2>3. CASE left # live /\ left # {}
    <3>1. base' \in left /\ \A q \in left : base' <= q
      BY <1>1, <1>8, <2>3
    <3>2. \A q \in left : q \in base .. next - 1
      BY <1>7
    <3>3. base' \in Nat \ {0} /\ base <= base' /\ base' <= next
      BY <1>3, <3>1, <3>2
    <3>4. left \subseteq base' .. next - 1
      BY <1>3, <3>1, <3>2, <3>3
    <3>5. next - base' <= ReceiveWindow
      <4>1. ASSUME NEW b \in Nat, base <= b PROVE next - b <= ReceiveWindow
        BY <1>w, <4>1
      <4> QED
        BY <3>3, <4>1
    <3> QED
      BY <2>3, <3>1, <3>3, <3>4, <3>5
  <2> QED
    BY <2>1, <2>2, <2>3
<1>11. highAcked' = (IF highAcked = 0 \/ highAcked < claim THEN claim ELSE highAcked)
  BY <1>1, <1>3, <1>4, <1>5
<1>12. \A p \in resend' \ resend :
         /\ highAcked' > highAcked
         /\ \E q \in Received : q >= p + PacketThreshold
  <2> SUFFICES ASSUME NEW p \in resend' \ resend
               PROVE  /\ highAcked' > highAcked
                      /\ \E q \in Received : q >= p + PacketThreshold
    OBVIOUS
  <2>1. p \in lagging
    BY <1>1
  <2>2. AckAdvances(ack) /\ p - base <= claim - base - PacketThreshold
    BY <1>5, <2>1 DEF Lagging
  <2>3. p \in Nat \ {0}
    <3>1. p \in live
      BY <1>7, <1>9, <2>1
    <3> HIDE DEF lagging, left
    <3> QED
      BY <1>3, <3>1
  <2>4. p + PacketThreshold <= claim
    BY <1>3, <1>4, <2>2, <2>3
  <2>5. claim \in Received
    BY <1>4, <2>3, <2>4
  <2>6. highAcked' > highAcked
    BY <1>3, <1>4, <1>5, <1>11, <2>2, <2>3, <2>4
  <2> QED
    BY <2>4, <2>5, <2>6
<1> HIDE DEF lagging
<1>13. TypeOK'
  <2>1. /\ base' \in Nat \ {0} /\ next' \in Nat \ {0} /\ highAcked' \in Nat
        /\ live' \subseteq base' .. next' - 1
        /\ resend' \subseteq live' /\ fastUsed' \subseteq live'
    BY <1>1, <1>3, <1>4, <1>9, <1>10, <1>11
  <2> QED
    BY <1>1, <2>1 DEF IInv, TypeOK
<1>14. SenderRing'
  <2> QED
    BY <1>1, <1>3, <1>10 DEF IInv, SenderRing
<1>15. ReceiverHolds' /\ AcksInFlight'
  BY <1>1 DEF IInv, ReceiverHolds, AcksInFlight, Received, cumulative
<1>16. StreamIntegrity'
  BY <1>1 DEF IInv, StreamIntegrity, Abstract!IsPrefixOf
<1>17. AckTruthful'
  <2>1. Received' = Received
    BY <1>1 DEF Received, cumulative
  <2> QED
    BY <1>1, <1>6, <2>1 DEF IInv, AckTruthful
<1>18. HighMark'
  <2>1. Received' = Received
    BY <1>1 DEF Received, cumulative
  <2>2. highAcked' = 0 \/ highAcked' \in Received
    BY <1>4, <1>11 DEF IInv, HighMark
  <2>3. ASSUME NEW p \in 1 .. next - 1, p \notin left PROVE p <= highAcked'
    <3>1. CASE p \in live
      <4>1. p <= claim
        BY <1>6, <2>3, <3>1
      <4> QED
        BY <1>3, <1>4, <1>11, <4>1
    <3>2. CASE p \notin live
      <4>1. p <= highAcked
        BY <3>2 DEF IInv, HighMark
      <4> QED
        BY <1>3, <1>4, <1>11, <4>1
    <3> QED
      BY <3>1, <3>2
  <2> QED
    BY <1>1, <2>1, <2>2, <2>3 DEF HighMark
<1> QED
  BY <1>12, <1>13, <1>14, <1>15, <1>16, <1>17, <1>18 DEF IInv
(***************************************************************************)
(* A segment no staler than the horizon is placed at its own position, and *)
(* never past the window.                                                  *)
(***************************************************************************)
LEMMA SegmentReadRight ==
  ASSUME IInv, NEW p \in dataNet, p >= cumulative - Horizon
  PROVE  /\ Distance(cumulative, p) = p - cumulative
         /\ Place(p) = p
         /\ p <= cumulative + ReceiveWindow
         /\ p \in 1 .. next - 1
<1>1. /\ p \in 1 .. next - 1 /\ next \in Nat /\ base \in Nat
      /\ cumulative \in Nat /\ base <= cumulative + 1
      /\ next - base <= ReceiveWindow
  BY BaseBehindReceiver DEF IInv, TypeOK, SenderRing
<1>2. p <= cumulative + ReceiveWindow
  BY <1>1
<1>3. Distance(cumulative, p) = p - cumulative
  BY <1>1, <1>2, DistanceExact
<1>4. Place(p) = p
  BY <1>1, <1>3 DEF Place
<1> QED
  BY <1>1, <1>2, <1>3, <1>4

LEMMA ReceiveSegmentStep ==
  ASSUME IInv, NEW p \in dataNet, ReceiveSegment(p)
  PROVE  /\ IInv'
         /\ Abstract!IsPrefixOf(stream, stream')
         /\ stream' # stream => Len(stream') > Len(stream)
<1> DEFINE at == Place(p)
<1> DEFINE held == DOMAIN buffered \cup {at}
<1> DEFINE value(q) == IF q = at THEN log[p] ELSE buffered[q]
<1> DEFINE end == RunEnd(held)
<1> DEFINE run == [i \in 1 .. end - cumulative |-> value(cumulative + i)]
<1>1. /\ ackOwed' = TRUE
      /\ UNCHANGED <<log, base, next, live, resend, fastUsed, highAcked,
                     dataNet, ackNet>>
  BY DEF ReceiveSegment, IngestDuplicate, AcceptSegment, sender
<1>2. at = p /\ p \in 1 .. next - 1
  BY SegmentReadRight DEF ReceiveSegment
<1>3. /\ cumulative \in Nat /\ next \in Nat \ {0} /\ Len(log) \in Nat
      /\ cumulative < next /\ next <= Len(log) + 1
      /\ log \in Seq(Segment) /\ stream \in Seq(Segment)
      /\ \A q \in DOMAIN buffered : /\ q \in Nat /\ buffered[q] = log[q]
                                    /\ cumulative + 1 < q /\ q < next
  BY BaseBehindReceiver
     DEF IInv, TypeOK, SenderRing, ReceiverHolds, cumulative
<1>5. CASE IngestDuplicate(p)
  <2>1. UNCHANGED <<log, base, next, live, resend, fastUsed, highAcked,
                    stream, buffered, dataNet, ackNet>> /\ ackOwed' = TRUE
    BY <1>1, <1>5 DEF IngestDuplicate
  <2>2. TypeOK'
    BY <2>1 DEF IInv, TypeOK
  <2>3. SenderRing' /\ ReceiverHolds' /\ AckTruthful' /\ AcksInFlight' /\ HighMark'
    BY <2>1 DEF IInv, SenderRing, ReceiverHolds, AckTruthful, AcksInFlight,
                HighMark, Received, cumulative
  <2>4. StreamIntegrity'
    BY <2>1 DEF IInv, StreamIntegrity, Abstract!IsPrefixOf
  <2>5. Abstract!IsPrefixOf(stream, stream')
    BY <1>3, <2>1 DEF Abstract!IsPrefixOf, cumulative
  <2> QED
    BY <2>1, <2>2, <2>3, <2>4, <2>5 DEF IInv
<1>6. CASE AcceptSegment(p)
  <2>1. p > cumulative /\ p \notin DOMAIN buffered
    BY <1>2, <1>3, <1>6 DEF AcceptSegment, IsDuplicate
  <2>2. \A q \in held : /\ q \in Nat /\ cumulative < q /\ q < next
                        /\ value(q) = log[q] /\ q \in 1 .. Len(log)
    BY <1>2, <1>3, <2>1
  <2>h. held = DOMAIN buffered \cup {p}
    BY <1>2
  <2>6. stream' = stream \o run
    BY <1>6 DEF AcceptSegment
  <2>7. buffered' = [q \in {q \in held : q > end} |-> value(q)]
    BY <1>6 DEF AcceptSegment
  <2> HIDE DEF held, at, value
  <2>3. held \subseteq Nat /\ \A q \in held : q <= next
    BY <1>3, <2>2
  <2>4. /\ end \in {cumulative} \cup held
        /\ \A q \in cumulative + 1 .. end : q \in held
        /\ end + 1 \notin held
    <3>1. \E e \in {cumulative} \cup held :
            /\ e >= cumulative
            /\ \A q \in cumulative + 1 .. e : q \in held
            /\ e + 1 \notin held
      BY <1>3, <2>3, FirstGap
    <3> QED
      BY <3>1 DEF RunEnd
  <2>5. end \in Nat /\ cumulative <= end /\ end < next
    BY <1>3, <2>2, <2>4
  <2>8. /\ run \in Seq(Segment) /\ Len(run) = end - cumulative
        /\ \A i \in 1 .. end - cumulative : run[i] = log[cumulative + i]
    <3>1. \A i \in 1 .. end - cumulative : cumulative + i \in held
      BY <1>3, <2>4, <2>5
    <3>2. \A i \in 1 .. end - cumulative :
            /\ value(cumulative + i) = log[cumulative + i]
            /\ cumulative + i \in 1 .. Len(log)
      BY <2>2, <3>1
    <3>3. \A i \in 1 .. end - cumulative : run[i] = log[cumulative + i]
      BY <3>2
    <3>4. \A i \in 1 .. Len(log) : log[i] \in Segment
      BY <1>3
    <3>5. run \in [1 .. end - cumulative -> Segment]
      BY <3>2, <3>4
    <3>6. end - cumulative \in Nat
      BY <1>3, <2>5
    <3> HIDE DEF run
    <3> QED
      BY <3>3, <3>5, <3>6, FunctionIsSeq
  <2> HIDE DEF run, end
  <2>9. /\ stream' \in Seq(Segment) /\ Len(stream') = end
        /\ \A i \in 1 .. cumulative : stream'[i] = stream[i]
        /\ \A i \in cumulative + 1 .. end : stream'[i] = log[i]
    <3>1. /\ stream' \in Seq(Segment)
          /\ Len(stream') = cumulative + (end - cumulative)
          /\ \A i \in 1 .. cumulative : stream'[i] = stream[i]
          /\ \A i \in 1 .. end - cumulative : stream'[cumulative + i] = run[i]
      <4>1. /\ Len(stream) = cumulative /\ stream \in Seq(Segment)
            /\ run \in Seq(Segment) /\ Len(run) = end - cumulative
        BY <1>3, <2>8 DEF cumulative
      <4> QED
        BY <2>6, <4>1, ConcatProperties
    <3>2. ASSUME NEW i \in cumulative + 1 .. end PROVE stream'[i] = log[i]
      <4>1. i - cumulative \in 1 .. end - cumulative
            /\ cumulative + (i - cumulative) = i
        BY <1>3, <2>5
      <4> QED
        BY <2>8, <3>1, <4>1
    <3>3. cumulative + (end - cumulative) = end
      BY <1>3, <2>5
    <3> QED
      BY <3>1, <3>2, <3>3
  <2>10. cumulative' = end
    BY <2>9 DEF cumulative
  <2>11. /\ DOMAIN buffered' = {q \in held : q > end}
         /\ \A q \in held : q > end => buffered'[q] = log[q]
    BY <2>2, <2>7
  <2>12. \A q \in Received : q \in Received'
    <3> SUFFICES ASSUME NEW q \in Received PROVE q \in Received'
      OBVIOUS
    <3>1. CASE q \in 1 .. cumulative
      BY <1>3, <2>5, <2>10, <3>1 DEF Received
    <3>2. CASE q \in DOMAIN buffered
      <4>1. q \in held /\ q \in Nat /\ q >= 1
        BY <1>3, <2>h, <3>2
      <4> QED
        BY <2>5, <2>10, <2>11, <4>1 DEF Received
    <3> QED
      BY <3>1, <3>2 DEF Received
  <2>13. TypeOK'
    <3>1. \A q \in held : log[q] \in Segment
      BY <1>3, <2>2
    <3>2. DOMAIN buffered' \subseteq Nat
          /\ \A q \in DOMAIN buffered' : buffered'[q] \in Segment
      BY <2>2, <2>11, <3>1
    <3> QED
      BY <1>1, <2>9, <3>2 DEF IInv, TypeOK
  <2>14. SenderRing'
    BY <1>1 DEF IInv, SenderRing
  <2>15. ReceiverHolds'
    <3>1. ASSUME NEW q \in DOMAIN buffered'
          PROVE  end + 1 < q /\ q < next /\ buffered'[q] = log[q]
      <4>1. q \in held /\ q > end /\ q # end + 1 /\ q \in Nat /\ q < next
        BY <2>2, <2>4, <2>11
      <4> QED
        BY <2>5, <2>11, <4>1
    <3> QED
      BY <1>1, <2>5, <2>10, <3>1 DEF ReceiverHolds
  <2>16. StreamIntegrity'
    <3>1. \A i \in 1 .. cumulative : stream[i] = log[i]
      BY DEF IInv, StreamIntegrity, Abstract!IsPrefixOf, cumulative
    <3>2. ASSUME NEW i \in 1 .. end PROVE stream'[i] = log[i]
      <4>1. i \in 1 .. cumulative \/ i \in cumulative + 1 .. end
        BY <1>3, <2>5
      <4> QED
        BY <2>9, <3>1, <4>1
    <3>3. end <= Len(log)
      BY <1>3, <2>5
    <3> QED
      BY <1>1, <2>9, <3>2, <3>3 DEF StreamIntegrity, Abstract!IsPrefixOf
  <2>17. AckTruthful'
    BY <1>1, <2>12 DEF IInv, AckTruthful
  <2>18. AcksInFlight'
    <3> SUFFICES ASSUME NEW ack \in ackNet
                 PROVE  /\ ack.cumulative <= end
                        /\ \A n \in ack.bitmap : ack.cumulative + n \in Received'
      BY <1>1, <2>10 DEF AcksInFlight
    <3>1. ack.cumulative \in Nat /\ ack.cumulative <= cumulative
      BY DEF IInv, TypeOK, AcksInFlight
    <3> QED
      BY <1>3, <2>5, <2>12, <3>1 DEF IInv, AcksInFlight
  <2>19. HighMark'
    BY <1>1, <2>12 DEF IInv, HighMark
  <2>20. Abstract!IsPrefixOf(stream, stream')
    BY <1>3, <2>5, <2>9 DEF Abstract!IsPrefixOf, cumulative
  <2>21. stream' # stream => Len(stream') > Len(stream)
    <3> SUFFICES ASSUME ~ (Len(stream') > Len(stream)) PROVE stream' = stream
      OBVIOUS
    <3>1. Len(stream') = Len(stream)
      BY <1>3, <2>5, <2>9 DEF cumulative
    <3>2. \A i \in 1 .. Len(stream) : stream'[i] = stream[i]
      BY <2>9 DEF cumulative
    <3> QED
      BY <1>3, <2>9, <3>1, <3>2, SeqEqual
  <2> QED
    BY <2>13, <2>14, <2>15, <2>16, <2>17, <2>18, <2>19, <2>20, <2>21 DEF IInv
<1> QED
  BY <1>5, <1>6 DEF ReceiveSegment

LEMMA PollReceiverStep ==
  ASSUME IInv, PollReceiver
  PROVE  IInv'
<1> DEFINE fresh == [cumulative |-> cumulative,
                     bitmap |-> {p - cumulative : p \in DOMAIN buffered}]
<1>1. /\ ackOwed' = FALSE /\ ackNet' = ackNet \cup {fresh}
      /\ UNCHANGED <<log, base, next, live, resend, fastUsed, highAcked,
                     stream, buffered, dataNet>>
  BY DEF PollReceiver, sender
<1>2. cumulative \in Nat /\ \A p \in DOMAIN buffered :
        p \in Nat /\ cumulative + 1 < p
  BY BaseBehindReceiver DEF IInv, TypeOK, ReceiverHolds
<1>3. fresh \in [cumulative : Nat, bitmap : SUBSET (Nat \ {0})]
  <2>1. \A p \in DOMAIN buffered : p - cumulative \in Nat \ {0}
    BY <1>2
  <2> QED
    BY <1>2, <2>1
<1>4. \A n \in fresh.bitmap : fresh.cumulative + n \in Received
  <2>1. ASSUME NEW p \in DOMAIN buffered
        PROVE  cumulative + (p - cumulative) \in Received
    <3>1. cumulative + (p - cumulative) = p
      BY <1>2
    <3> QED
      BY <3>1 DEF Received
  <2> QED
    BY <2>1
<1>5. fresh.cumulative = cumulative
  OBVIOUS
<1> HIDE DEF fresh
<1>6. TypeOK'
  BY <1>1, <1>3 DEF IInv, TypeOK
<1>7. SenderRing' /\ ReceiverHolds' /\ AckTruthful' /\ HighMark'
  BY <1>1 DEF IInv, SenderRing, ReceiverHolds, AckTruthful, HighMark,
              Received, cumulative
<1>8. StreamIntegrity'
  BY <1>1 DEF IInv, StreamIntegrity, Abstract!IsPrefixOf
<1>9. AcksInFlight'
  <2>1. cumulative' = cumulative /\ Received' = Received
    BY <1>1 DEF Received, cumulative
  <2> QED
    BY <1>1, <1>2, <1>4, <1>5, <2>1 DEF IInv, AcksInFlight
<1> QED
  BY <1>6, <1>7, <1>8, <1>9 DEF IInv

LEMMA LoseStep ==
  ASSUME IInv,
         \/ \E p \in dataNet : LoseSegment(p)
         \/ \E ack \in ackNet : LoseAck(ack)
  PROVE  IInv'
<1>1. /\ dataNet' \subseteq dataNet /\ ackNet' \subseteq ackNet
      /\ UNCHANGED <<log, base, next, live, resend, fastUsed, highAcked,
                     stream, buffered, ackOwed>>
  BY DEF LoseSegment, LoseAck, sender, receiver
<1>2. TypeOK'
  BY <1>1 DEF IInv, TypeOK
<1>3. /\ SenderRing' /\ ReceiverHolds' /\ AckTruthful' /\ AcksInFlight'
      /\ HighMark'
  BY <1>1 DEF IInv, SenderRing, ReceiverHolds, AckTruthful, AcksInFlight,
              HighMark, Received, cumulative
<1>4. StreamIntegrity'
  BY <1>1 DEF IInv, StreamIntegrity, Abstract!IsPrefixOf
<1> QED
  BY <1>2, <1>3, <1>4 DEF IInv
LEMMA NextKeepsIInv == IInv /\ [Next]_vars => IInv'
<1> SUFFICES ASSUME IInv, [Next]_vars PROVE IInv'
  OBVIOUS
<1>1. ASSUME NEW k \in 1 .. MaxMessage, Send(k) PROVE IInv'
  BY <1>1, SendStep
<1>2. ASSUME NEW due \in BOOLEAN, PollSender(due) PROVE IInv'
  BY <1>2, PollSenderStep
<1>3. CASE ReceiveSomeAck
  BY <1>3, ReceiveAckStep DEF ReceiveSomeAck
<1>4. CASE ReceiveSomeSegment
  BY <1>4, ReceiveSegmentStep DEF ReceiveSomeSegment
<1>5. CASE PollReceiver
  BY <1>5, PollReceiverStep
<1>6. CASE \/ \E p \in dataNet : LoseSegment(p)
           \/ \E ack \in ackNet : LoseAck(ack)
  BY <1>6, LoseStep
<1>7. CASE UNCHANGED vars
  <2>1. UNCHANGED <<log, base, next, live, resend, fastUsed, highAcked,
                    stream, buffered, ackOwed, dataNet, ackNet>>
    BY <1>7 DEF vars, sender, receiver
  <2>2. TypeOK'
    BY <2>1 DEF IInv, TypeOK
  <2>3. /\ SenderRing' /\ ReceiverHolds' /\ AckTruthful' /\ AcksInFlight'
        /\ HighMark'
    BY <2>1 DEF IInv, SenderRing, ReceiverHolds, AckTruthful, AcksInFlight,
                HighMark, Received, cumulative
  <2>4. StreamIntegrity'
    BY <2>1 DEF IInv, StreamIntegrity, Abstract!IsPrefixOf
  <2> QED
    BY <2>2, <2>3, <2>4 DEF IInv
<1> QED
  BY <1>1, <1>2, <1>3, <1>4, <1>5, <1>6, <1>7 DEF Next

(***************************************************************************)
(* The inductive invariant holds in every reachable state.                 *)
(***************************************************************************)
THEOREM Invariance == Spec => []IInv
<1>1. Init => IInv
  BY InitIInv
<1>2. IInv /\ [Next]_vars => IInv'
  BY NextKeepsIInv
<1> QED
  BY <1>1, <1>2, PTL DEF Spec

(***************************************************************************)
(* The state of both halves of an endpoint (SendGroup, RecvGroup) stays    *)
(* well formed: live, queued and spent marks only on cut segments.         *)
(***************************************************************************)
THEOREM TypeCorrect == Spec => []TypeOK
<1>1. IInv => TypeOK
  BY DEF IInv
<1> QED
  BY <1>1, Invariance, PTL

(***************************************************************************)
(* The far end assembles a prefix of what was sent (ingestSegment, accept).*)
(***************************************************************************)
THEOREM InOrderDelivery == Spec => []StreamIntegrity
<1>1. IInv => StreamIntegrity
  BY DEF IInv
<1> QED
  BY <1>1, Invariance, PTL

(***************************************************************************)
(* No ACK makes the sender drop what was not received (applyAck).          *)
(***************************************************************************)
THEOREM NothingRetiredUnreceived == Spec => []AckTruthful
<1>1. IInv => AckTruthful
  BY DEF IInv
<1> QED
  BY <1>1, Invariance, PTL

(***************************************************************************)
(* emitSegments' window discipline never makes an honest sender overrun    *)
(* the receiver (accept's beyondWindow).                                   *)
(***************************************************************************)
THEOREM WindowNeverOverrun == Spec => []NeverOverrun
<1>1. IInv => NeverOverrun
  BY SegmentReadRight DEF NeverOverrun
<1> QED
  BY <1>1, Invariance, PTL

(***************************************************************************)
(* applyAck's forgery bound never refuses an ACK the receiver sent.        *)
(***************************************************************************)
THEOREM NoHonestAckRefused == Spec => []HonestAckAccepted
<1>1. IInv => HonestAckAccepted
  BY AckReadRight DEF HonestAckAccepted
<1> QED
  BY <1>1, Invariance, PTL

(***************************************************************************)
(* A replayed ACK buys no retransmission (applyAck's fast-retransmit gate).*)
(***************************************************************************)
THEOREM RetransmissionIsEarned == Spec => RetransmitEarned
<1> DEFINE Earned == \A p \in resend' \ resend :
                       /\ highAcked' > highAcked
                       /\ \E q \in Received : q >= p + PacketThreshold
<1>1. IInv /\ [Next]_vars => [Earned]_vars
  <2> SUFFICES ASSUME IInv, Next PROVE Earned
    OBVIOUS
  <2>1. ASSUME resend' \subseteq resend PROVE Earned
    BY <2>1
  <2>2. ASSUME NEW k \in 1 .. MaxMessage, Send(k) PROVE Earned
    BY <2>2, <2>1 DEF Send
  <2>3. ASSUME NEW due \in BOOLEAN, PollSender(due) PROVE Earned
    BY <2>3, <2>1 DEF PollSender
  <2>4. CASE ReceiveSomeAck
    BY <2>4, ReceiveAckStep DEF ReceiveSomeAck
  <2>5. CASE \/ ReceiveSomeSegment \/ PollReceiver
             \/ \E p \in dataNet : LoseSegment(p)
             \/ \E ack \in ackNet : LoseAck(ack)
    BY <2>5, <2>1 DEF ReceiveSomeSegment, ReceiveSegment,
       IngestDuplicate, AcceptSegment, PollReceiver, LoseSegment, LoseAck, sender
  <2> QED
    BY <2>2, <2>3, <2>4, <2>5 DEF Next
<1>2. Spec => [][Earned]_vars
  BY <1>1, Invariance, PTL DEF Spec
<1> QED
  BY <1>2 DEF RetransmitEarned

(***************************************************************************)
(* The protocol implements the abstract reliable stream, safety part: each *)
(* step accepts a message, delivers more of the sent stream, or changes    *)
(* nothing the applications see.                                           *)
(***************************************************************************)
THEOREM Refinement == Spec => ImplementsReliableStream
<1>1. Init => Abstract!Init
  BY DEF Init, Abstract!Init
<1>2. IInv /\ IInv' /\ [Next]_vars => [Abstract!Next]_(Abstract!vars)
  <2> SUFFICES ASSUME IInv, IInv', [Next]_vars
               PROVE  Abstract!Next \/ UNCHANGED <<log, stream>>
    BY DEF Abstract!vars
  <2>1. ASSUME NEW k \in 1 .. MaxMessage, Send(k) PROVE Abstract!Accept
    <3> DEFINE message == [i \in 1 .. k |->
                 [message |-> Len(log) + 1, endOfMessage |-> i = k]]
    <3>1. log' = log \o message /\ stream' = stream
      BY <2>1 DEF Send, receiver
    <3>2. log \in Seq(Segment) /\ k \in Nat \ {0}
      BY DEF IInv, TypeOK
    <3>3. \A i \in 1 .. k : message[i] \in Segment
      BY <3>2 DEF Segment
    <3>4. message \in [1 .. k -> Segment]
      BY <3>3
    <3> HIDE DEF message
    <3>5. message \in Seq(Segment) /\ Len(message) = k
      BY <3>2, <3>4, FunctionIsSeq
    <3>6. /\ Len(log') = Len(log) + k
          /\ \A i \in 1 .. Len(log) : log'[i] = log[i]
      <4>1. /\ Len(log \o message) = Len(log) + k
            /\ \A i \in 1 .. Len(log) + k : (log \o message)[i] =
                 IF i <= Len(log) THEN log[i] ELSE message[i - Len(log)]
        BY <3>2, <3>5, ConcatProperties
      <4>2. \A i \in 1 .. Len(log) : i \in 1 .. Len(log) + k /\ i <= Len(log)
        BY <3>2
      <4> QED
        BY <3>1, <4>1, <4>2
    <3> QED
      BY <3>1, <3>2, <3>6 DEF Abstract!Accept, Abstract!IsPrefixOf
  <2>2. CASE ReceiveSomeSegment
    <3>1. PICK p \in dataNet : ReceiveSegment(p)
      BY <2>2 DEF ReceiveSomeSegment
    <3>2. /\ Abstract!IsPrefixOf(stream, stream') /\ log' = log
          /\ stream' # stream => Len(stream') > Len(stream)
      BY <3>1, ReceiveSegmentStep DEF ReceiveSegment,
         IngestDuplicate, AcceptSegment, sender
    <3>3. Abstract!IsPrefixOf(stream', log)
      BY <3>2 DEF IInv, StreamIntegrity, Abstract!IsPrefixOf
    <3> QED
      BY <3>2, <3>3 DEF Abstract!Next, Abstract!Deliver
  <2>3. ASSUME NEW due \in BOOLEAN, PollSender(due)
        PROVE  UNCHANGED <<log, stream>>
    BY <2>3 DEF PollSender, receiver
  <2>4. CASE \/ ReceiveSomeAck \/ PollReceiver
             \/ \E p \in dataNet : LoseSegment(p)
             \/ \E ack \in ackNet : LoseAck(ack)
    BY <2>4 DEF ReceiveSomeAck, ReceiveAck, IngestAck, PollReceiver,
       LoseSegment, LoseAck, sender, receiver
  <2>5. CASE UNCHANGED vars
    BY <2>5 DEF vars, sender, receiver
  <2> QED
    BY <2>1, <2>2, <2>3, <2>4, <2>5 DEF Next, Abstract!Next
<1>3. Spec => Abstract!Safety
  BY <1>1, <1>2, Invariance, PTL DEF Spec, Abstract!Safety
<1> QED
  BY <1>3 DEF ImplementsReliableStream

-----------------------------------------------------------------------------
(* The one-shot receive groups.                                              *)

HIDE ArqStreamAssumption

(* A group that is over: not open, and under a tombstone or the watermark.   *)
Behind(t, g) == t.evicted # NoGroup /\ ~Ahead(g, t.evicted)
Shut(t, g) == g \notin DOMAIN t.open /\ (g \in DOMAIN t.closed \/ Behind(t, g))

Tabled(t) ==
  /\ t = [open |-> t.open, closed |-> t.closed, order |-> t.order,
          evicted |-> t.evicted, owed |-> t.owed]
  /\ DOMAIN t.open \subseteq Groups /\ t.order \in Seq(Groups)
  /\ t.evicted \in Groups \cup {NoGroup}

GroupsInv ==
  /\ Tabled(table) /\ delivered \in [Groups -> {0, 1}]
  /\ \A g \in Groups : delivered[g] = 1 \/ reached[g] >= 0 => Shut(table, g)
  /\ \A g \in Groups : ~(delivered[g] = 1 /\ reached[g] >= 0)

(* Half a space of ids is ordered by Ahead.                                  *)
LEMMA AheadIsOrder ==
  \E at \in [Groups -> Int] :
    \A g, h \in Groups : Ahead(g, h) <=> at[g] > at[h]
<1>1. /\ GroupSpace \in Nat /\ GroupSpace > 0
      /\ \A g \in Groups : g \in Nat /\ 0 <= g /\ g < GroupSpace
  BY ReceiveGroupsAssumption
<1>2. PICK first \in 0 .. GroupSpace - 1 :
        \A g \in Groups : 2 * ((g - first) % GroupSpace) < GroupSpace
  BY ReceiveGroupsAssumption
<1> DEFINE Spot(g) == first + ((g - first) % GroupSpace)
           at == [g \in Groups |-> Spot(g)]
<1>3. first \in Int
  BY <1>1, <1>2
<1>4. ASSUME NEW g \in Groups
      PROVE  /\ at[g] \in Int /\ at[g] % GroupSpace = g
             /\ first <= at[g] /\ 2 * (at[g] - first) < GroupSpace
  <2> DEFINE r == (g - first) % GroupSpace
             q == (g - first) \div GroupSpace
             w == GroupSpace * q
  <2>1. /\ g - first = GroupSpace * q + r /\ q \in Int
        /\ r \in 0 .. GroupSpace - 1
    BY <1>1, <1>3
  <2>2. 2 * r < GroupSpace
    BY <1>2
  <2>3. Spot(g) = first + r
    OBVIOUS
  <2>4. r \in Int /\ 0 <= r
    BY <2>1
  <2> HIDE DEF r, q, Spot
  <2>5. w \in Int /\ -q \in Int /\ GroupSpace * (-q) = -w
    BY <1>1, <2>1
  <2>6. g - first = w + r
    BY <2>1
  <2> HIDE DEF w
  <2>7. at[g] = first + r
    BY <2>3
  <2> HIDE DEF at
  <2>8. w \in Int /\ g \in Int
    BY <1>1, <2>5
  <2>9. at[g] \in Int /\ at[g] = -w + g
    BY <1>3, <2>4, <2>8, <2>6, <2>7
  <2>10. at[g] = GroupSpace * (-q) + g
    BY <2>5, <2>9
  <2>11. at[g] % GroupSpace = g
    <3>1. /\ GroupSpace \in Nat /\ GroupSpace > 0 /\ at[g] \in Int /\ -q \in Int
          /\ g \in Int /\ 0 <= g /\ g < GroupSpace
      BY <1>1, <2>5, <2>9
    <3> QED BY <2>10, <3>1, RemainderUnique, Zenon
  <2> QED BY <1>3, <2>2, <2>4, <2>7, <2>9, <2>11
<1>5. at \in [Groups -> Int]
  BY <1>4
<1> HIDE DEF at
<1>6. ASSUME NEW g \in Groups, NEW h \in Groups
      PROVE  Ahead(g, h) <=> at[g] > at[h]
  <2> DEFINE a == at[h]
             b == at[g]
  <2>1. a \in Int /\ b \in Int /\ 2 * (b - a) < GroupSpace /\ 2 * (a - b) < GroupSpace
        /\ a % GroupSpace = h /\ b % GroupSpace = g
    BY <1>1, <1>3, <1>4
  <2> HIDE DEF a, b
  <2>2. SerialDistance(GroupSpace, a % GroupSpace, b % GroupSpace) = b - a
    BY <1>1, <2>1, SerialDistanceExact
  <2>3. SerialDistance(GroupSpace, h, g) = b - a
    BY <2>1, <2>2
  <2>4. Ahead(g, h) <=> b - a > 0
    BY <2>3 DEF Ahead
  <2> QED BY <2>1, <2>4 DEF a, b
<1> QED BY <1>5, <1>6

(* A tombstone, and the eviction it may cause, reopens nothing.              *)
LEMMA RememberedIs ==
  ASSUME NEW t, Tabled(t), NEW g \in Groups, NEW c
  PROVE  LET u == RememberClosed(t, g, c)
         IN /\ Tabled(u) /\ u.open = t.open /\ u.owed = t.owed
            /\ \A h \in Groups : Shut(t, h) \/ (h = g /\ h \notin DOMAIN t.open)
                                   => Shut(u, h)
<1> DEFINE order == Append(t.order, g)
           closed == With(t.closed, g, c)
           u == RememberClosed(t, g, c)
<1>1. CASE g \in DOMAIN t.closed
  <2> DEFINE v == IF c > t.closed[g] THEN c ELSE t.closed[g]
  <2>1. u = [t EXCEPT !.closed[g] = v]
    BY <1>1 DEF RememberClosed
  <2> HIDE DEF u, v
  <2>2. /\ Tabled(u) /\ u.open = t.open /\ u.owed = t.owed /\ u.evicted = t.evicted
        /\ DOMAIN u.closed = DOMAIN t.closed
    BY <1>1, <2>1 DEF Tabled
  <2> QED BY <1>1, <2>2 DEF u, Shut, Behind
<1>2. CASE g \notin DOMAIN t.closed /\ Len(order) > MaxTombstones
  <2> DEFINE head == Head(order)
  <2>1. order \in Seq(Groups) /\ order # <<>> /\ Tail(order) \in Seq(Groups)
        /\ head \in Groups
    BY DEF Tabled
  <2>2. u = [t EXCEPT !.closed = Without(closed, head), !.order = Tail(order),
                      !.evicted = Mark(t.evicted, head)]
    BY <1>2 DEF RememberClosed
  <2> HIDE DEF head, order
  <2>3. Mark(t.evicted, head) \in Groups
    BY <2>1 DEF Mark, Tabled
  <2> HIDE DEF u, closed
  <2>4. /\ Tabled(u) /\ u.open = t.open /\ u.owed = t.owed
        /\ u.closed = Without(closed, head)
        /\ u.evicted = Mark(t.evicted, head)
    BY <2>1, <2>2, <2>3 DEF Tabled
  <2>5. DOMAIN u.closed = (DOMAIN t.closed \cup {g}) \ {head}
    BY <2>4 DEF closed, With, Without
  <2>6. NoGroup \notin Groups
    BY ReceiveGroupsAssumption DEF NoGroup
  <2>7. PICK at \in [Groups -> Int] :
          \A a, b \in Groups : Ahead(a, b) <=> at[a] > at[b]
    BY AheadIsOrder
  <2>8. Behind(u, head) /\ \A h \in Groups : Behind(t, h) => Behind(u, h)
    BY <2>1, <2>3, <2>4, <2>6, <2>7 DEF Behind, Mark, Tabled
  <2> QED BY <2>4, <2>5, <2>8 DEF u, Shut
<1>3. CASE g \notin DOMAIN t.closed /\ ~(Len(order) > MaxTombstones)
  <2>1. u = [t EXCEPT !.closed = closed, !.order = order]
    BY <1>3 DEF RememberClosed
  <2>2. order \in Seq(Groups)
    BY DEF Tabled
  <2> HIDE DEF u, closed, order
  <2>3. /\ Tabled(u) /\ u.open = t.open /\ u.owed = t.owed /\ u.evicted = t.evicted
        /\ u.closed = closed
    BY <2>1, <2>2 DEF Tabled
  <2>4. DOMAIN u.closed = DOMAIN t.closed \cup {g}
    BY <2>3 DEF closed, With
  <2> QED BY <2>3, <2>4 DEF u, Shut, Behind
<1> QED BY <1>1, <1>2, <1>3

LEMMA ClosedIs ==
  ASSUME NEW t, Tabled(t), NEW g \in Groups
  PROVE  LET u == Close(t, g)
         IN /\ Tabled(u) /\ u.open = Without(t.open, g) /\ u.owed = t.owed
            /\ \A h \in Groups : Shut(t, h) \/ h = g => Shut(u, h)
<1> DEFINE s == [t EXCEPT !.open = Without(t.open, g)]
<1>1. Close(t, g) = RememberClosed(s, g, t.open[g].cumulative)
  BY DEF Close
<1>2. DOMAIN Without(t.open, g) = DOMAIN t.open \ {g}
  BY DEF Without
<1>3. /\ Tabled(s) /\ s.open = Without(t.open, g) /\ s.owed = t.owed
      /\ s.closed = t.closed /\ s.evicted = t.evicted
  BY <1>2 DEF Tabled
<1> HIDE DEF s
<1>4. g \notin DOMAIN s.open /\ \A h \in Groups : Shut(t, h) => Shut(s, h)
  BY <1>2, <1>3 DEF Shut, Behind
<1> QED BY <1>1, <1>3, <1>4, RememberedIs

LEMMA ReclaimIs ==
  ASSUME NEW t, Tabled(t), NEW g \in Groups
  PROVE  LET u == Reclaim(t, g)
         IN /\ Tabled(u) /\ u.open = Without(t.open, g)
            /\ \A h \in Groups : Shut(t, h) \/ h = g => Shut(u, h)
<1> DEFINE s == Close(t, g)
           u == Reclaim(t, g)
<1>1. /\ Tabled(s) /\ s.open = Without(t.open, g) /\ s.owed = t.owed
      /\ \A h \in Groups : Shut(t, h) \/ h = g => Shut(s, h)
  BY ClosedIs
<1>2. u = [s EXCEPT !.owed = s.owed \ {g}]
  BY DEF Reclaim
<1> HIDE DEF s, u
<1>3. /\ Tabled(u) /\ u.open = s.open /\ u.closed = s.closed
      /\ u.evicted = s.evicted
  BY <1>1, <1>2 DEF Tabled
<1>4. \A h \in Groups : Shut(s, h) => Shut(u, h)
  BY <1>3 DEF Shut, Behind
<1> QED BY <1>1, <1>3, <1>4 DEF u

(* The recursive function of Reclaimed exists, prefix by prefix.             *)
LEMMA ReclaimedSteps ==
  ASSUME NEW t, NEW order \in Seq(Groups)
  PROVE  \E after : /\ after[0] = t
                    /\ \A i \in 1 .. Len(order) :
                         after[i] = Reclaim(after[i - 1], order[i])
                    /\ Reclaimed(t, order) = after[Len(order)]
<1> DEFINE Step(f, i) == IF i = 0 THEN t ELSE Reclaim(f[i - 1], order[i])
           Is(f, n) == f = [i \in 0 .. n |-> Step(f, i)]
           Bad == {n \in Nat : ~ \E f : Is(f, n)}
<1>1. Bad = {}
  <2> SUFFICES ASSUME Bad # {} PROVE FALSE
    OBVIOUS
  <2>1. PICK n \in Bad : \A m \in Bad : n <= m
    <3> HIDE DEF Is
    <3>1. Bad \subseteq Nat
      OBVIOUS
    <3> HIDE DEF Bad
    <3> QED BY <3>1, LeastElement
  <2>2. n \in Nat /\ ~ \E f : Is(f, n)
    BY <2>1
  <2>3. CASE n = 0
    <3> DEFINE f == [i \in 0 .. 0 |-> t]
    <3>1. Is(f, 0)
      OBVIOUS
    <3> QED BY <2>2, <2>3, <3>1
  <2>4. CASE n # 0
    <3>1. n - 1 \in Nat /\ n - 1 \notin Bad
      <4>1. n - 1 \in Nat /\ ~(n <= n - 1)
        BY <2>2, <2>4
      <4> HIDE DEF Bad
      <4> QED BY <2>1, <4>1
    <3>2. PICK f : Is(f, n - 1)
      BY <3>1
    <3> DEFINE g == [i \in 0 .. n |->
                       IF i = n THEN Reclaim(f[n - 1], order[n]) ELSE f[i]]
    <3>3. ASSUME NEW i \in 0 .. n PROVE g[i] = Step(g, i)
      <4>1. CASE i = n
        <5>1. g[n - 1] = f[n - 1]
          BY <2>2, <2>4
        <5> QED BY <2>4, <4>1, <5>1
      <4>2. CASE i # n
        <5>1. i \in 0 .. n - 1 /\ g[i] = f[i]
          BY <2>2, <4>2
        <5>2. f[i] = Step(f, i)
          BY <3>2, <5>1
        <5>3. i # 0 => g[i - 1] = f[i - 1]
          BY <2>2, <4>2
        <5> QED BY <5>1, <5>2, <5>3
      <4> QED BY <4>1, <4>2
    <3>4. Is(g, n)
      <4>1. g = [i \in 0 .. n |-> g[i]]
        OBVIOUS
      <4> HIDE DEF g
      <4> QED BY <3>3, <4>1
    <3> QED BY <2>2, <3>4
  <2> QED BY <2>3, <2>4
<1> DEFINE n == Len(order)
           after == CHOOSE f : Is(f, n)
<1>2. n \in Nat
  OBVIOUS
<1>3. Is(after, n)
  BY <1>1, <1>2
<1>4. Reclaimed(t, order) = after[n]
  BY DEF Reclaimed
<1> HIDE DEF after
<1>5. after[0] = t
  BY <1>2, <1>3
<1>6. ASSUME NEW i \in 1 .. n PROVE after[i] = Reclaim(after[i - 1], order[i])
  BY <1>2, <1>3
<1> QED BY <1>4, <1>5, <1>6

LEMMA GroupsFinite == ASSUME NEW S, S \subseteq Groups PROVE IsFiniteSet(S)
<1>1. 1 \in Int /\ GroupSpace - 1 \in Int /\ S \in SUBSET (1 .. GroupSpace - 1)
  BY ReceiveGroupsAssumption
<1> QED BY <1>1, FS_Interval, FS_Subset

(* An order of the abandoned groups has each of them once.                   *)
LEMMA OrderIs ==
  ASSUME NEW t, Tabled(t), NEW order \in SetToSeqs(Abandoned(t))
  PROVE  /\ order \in Seq(Groups) /\ Len(order) \in Nat
         /\ \A i \in 1 .. Len(order) : order[i] \in Abandoned(t)
         /\ \A i, j \in 1 .. Len(order) : i # j => order[i] # order[j]
         /\ \A h \in Abandoned(t) : \E i \in 1 .. Len(order) : order[i] = h
<1> DEFINE S == Abandoned(t)
           D == 1 .. Cardinality(S)
<1>1. S \subseteq Groups /\ IsFiniteSet(S)
  <2>1. S \subseteq Groups
    BY DEF Abandoned, Tabled
  <2> QED BY <2>1, GroupsFinite
<1>2. order \in [D -> S] /\ \A i, j \in D : i # j => order[i] # order[j]
  BY DEF SetToSeqs
<1> HIDE DEF S
<1>3. Cardinality(S) \in Nat
  BY <1>1, FS_CardinalityType
<1>4. Len(order) = Cardinality(S) /\ order \in Seq(Groups)
  BY <1>1, <1>2, <1>3, FunctionIsSeq
<1>5. Cardinality(D) = Cardinality(S) /\ IsFiniteSet(D)
  BY <1>3, FS_Interval
<1>6. order \in Injection(D, S)
  BY <1>2 DEF Injection, IsInjective
<1>7. order \in Surjection(D, S)
  <2> HIDE DEF D
  <2> QED BY <1>1, <1>5, <1>6, FS_Injection
<1>8. \A h \in S : \E i \in D : order[i] = h
  BY <1>7 DEF Surjection
<1> QED BY <1>2, <1>3, <1>4, <1>8 DEF S

(* Whatever the order, every abandoned group is shut and nothing reopened.   *)
LEMMA ReclaimedIs ==
  ASSUME NEW t, Tabled(t), NEW order \in SetToSeqs(Abandoned(t))
  PROVE  LET u == Reclaimed(t, order)
         IN /\ Tabled(u)
            /\ \A h \in Groups : Shut(t, h) \/ h \in Abandoned(t) => Shut(u, h)
<1> DEFINE S == Abandoned(t)
           n == Len(order)
<1>1. /\ order \in Seq(Groups) /\ n \in Nat
      /\ \A h \in S : \E i \in 1 .. n : order[i] = h
  BY OrderIs
<1> HIDE DEF S
<1>2. PICK after : /\ after[0] = t
                   /\ \A i \in 1 .. n : after[i] = Reclaim(after[i - 1], order[i])
                   /\ Reclaimed(t, order) = after[n]
  BY <1>1, ReclaimedSteps
<1> DEFINE Good(i) ==
             /\ Tabled(after[i])
             /\ \A h \in Groups :
                  Shut(t, h) \/ (\E j \in 1 .. i : order[j] = h) => Shut(after[i], h)
           Bad == {i \in Nat : i <= n /\ ~Good(i)}
<1>3. Bad = {}
  <2> SUFFICES ASSUME Bad # {} PROVE FALSE
    OBVIOUS
  <2>1. PICK i \in Bad : \A j \in Bad : i <= j
    <3> HIDE DEF Good
    <3>1. Bad \subseteq Nat
      OBVIOUS
    <3> HIDE DEF Bad
    <3> QED BY <3>1, LeastElement
  <2>2. i \in Nat /\ i <= n /\ ~Good(i)
    BY <2>1
  <2>3. i # 0
    BY <1>2, <2>2
  <2>4. Good(i - 1) /\ i \in 1 .. n
    <3>1. i - 1 \in Nat /\ i - 1 <= n /\ ~(i <= i - 1)
      BY <1>1, <2>2, <2>3
    <3> HIDE DEF Good
    <3> QED BY <1>1, <2>1, <2>2, <2>3, <3>1
  <2> DEFINE s == after[i - 1]
             g == order[i]
             u == after[i]
  <2>5. u = Reclaim(s, g) /\ g \in Groups /\ Tabled(s)
    BY <1>1, <1>2, <2>4
  <2>6. Tabled(u) /\ \A h \in Groups : Shut(s, h) \/ h = g => Shut(u, h)
    <3> HIDE DEF s, g, u
    <3> QED BY <2>5, ReclaimIs
  <2>7. \A h \in Groups : (\E j \in 1 .. i : order[j] = h) =>
                            h = g \/ \E j \in 1 .. i - 1 : order[j] = h
    BY <2>2, <2>3
  <2> QED BY <2>2, <2>4, <2>6, <2>7
<1>4. Good(n)
  <2> HIDE DEF Good
  <2> QED BY <1>1, <1>3
<1> QED BY <1>1, <1>2, <1>4 DEF S

-----------------------------------------------------------------------------
(* The handlers.                                                             *)

LEMMA ReclaimKeeps ==
  ASSUME GroupsInv, NEW order \in SetToSeqs(Abandoned(table))
  PROVE  LET t == Reclaimed(table, order)
         IN /\ Tabled(t)
            /\ \A h \in Groups : Shut(table, h) => Shut(t, h)
            /\ \A h \in Groups : h \in Abandoned(table) => Shut(t, h)
BY ReclaimedIs DEF GroupsInv

(* What was abandoned had not been delivered.                                *)
LEMMA GivenUpIs ==
  ASSUME GroupsInv
  PROVE  \A h \in Groups :
           /\ h \in Abandoned(table) => delivered[h] = 0
           /\ h \notin Abandoned(table) => GivenUp(table)[h] = reached[h]
BY DEF GroupsInv, GivenUp, Abandoned, Shut

(* A step past the reclaim, which leaves shut what is shut.                  *)
LEMMA Holds ==
  ASSUME GroupsInv, NEW order \in SetToSeqs(Abandoned(table)), Tabled(table'),
         \A h \in Groups : Shut(Reclaimed(table, order), h) => Shut(table', h),
         delivered' = delivered, reached' = GivenUp(table)
  PROVE  GroupsInv'
<1>1. \A h \in Groups : Shut(table, h) \/ h \in Abandoned(table) => Shut(table', h)
  BY ReclaimKeeps
<1>2. \A h \in Groups : /\ h \in Abandoned(table) => delivered'[h] = 0
                        /\ h \notin Abandoned(table) => reached'[h] = reached[h]
  BY GivenUpIs
<1>3. delivered' \in [Groups -> {0, 1}]
  BY DEF GroupsInv
<1>4. ASSUME NEW h \in Groups
      PROVE  /\ delivered'[h] = 1 \/ reached'[h] >= 0 => Shut(table', h)
             /\ ~(delivered'[h] = 1 /\ reached'[h] >= 0)
  BY <1>1, <1>2 DEF GroupsInv
<1> QED BY <1>3, <1>4 DEF GroupsInv

LEMMA OwedIs ==
  ASSUME NEW t, Tabled(t), NEW owed
  PROVE  LET u == [t EXCEPT !.owed = owed]
         IN Tabled(u) /\ \A h \in Groups : Shut(t, h) => Shut(u, h)
<1> DEFINE u == [t EXCEPT !.owed = owed]
<1>1. /\ Tabled(u) /\ u.open = t.open /\ u.closed = t.closed /\ u.evicted = t.evicted
  BY DEF Tabled
<1> HIDE DEF u
<1>2. \A h \in Groups : Shut(t, h) => Shut(u, h)
  BY <1>1 DEF Shut, Behind
<1> QED BY <1>1, <1>2 DEF u

LEMMA OpenedIs ==
  ASSUME NEW t, Tabled(t), NEW g \in Groups, NEW state
  PROVE  LET u == [t EXCEPT !.open = With(t.open, g, state)]
         IN Tabled(u) /\ \A h \in Groups : Shut(t, h) /\ h # g => Shut(u, h)
<1> DEFINE u == [t EXCEPT !.open = With(t.open, g, state)]
<1>1. DOMAIN With(t.open, g, state) = DOMAIN t.open \cup {g}
  BY DEF With
<1>2. /\ Tabled(u) /\ u.open = With(t.open, g, state) /\ u.closed = t.closed
      /\ u.evicted = t.evicted
  BY <1>1 DEF Tabled
<1> HIDE DEF u
<1>3. \A h \in Groups : Shut(t, h) /\ h # g => Shut(u, h)
  BY <1>1, <1>2 DEF Shut, Behind
<1> QED BY <1>2, <1>3 DEF u

LEMMA OnClosedKeeps ==
  ASSUME GroupsInv, NEW g \in Groups, NEW s, NEW order \in SetToSeqs(Abandoned(table)),
         OnClosedGroup(Reclaimed(table, order), g, s)
  PROVE  GroupsInv'
<1> DEFINE t == Reclaimed(table, order)
           u == IF g \in DOMAIN t.closed THEN t ELSE RememberClosed(t, g, s)
<1>1. Tabled(t)
  BY ReclaimKeeps
<1>2. /\ table' = Owe(u, g) /\ reached' = GivenUp(table) /\ delivered' = delivered
  BY DEF OnClosedGroup
<1>3. Tabled(u) /\ \A h \in Groups : Shut(t, h) => Shut(u, h)
  <2> HIDE DEF t
  <2> QED BY <1>1, RememberedIs
<1> HIDE DEF t, u
<1>4. Tabled(table') /\ \A h \in Groups : Shut(u, h) => Shut(table', h)
  BY <1>2, <1>3, OwedIs DEF Owe
<1>5. \A h \in Groups : Shut(t, h) => Shut(table', h)
  BY <1>3, <1>4
<1> QED BY <1>2, <1>4, <1>5, Holds DEF t

LEMMA RefusedKeeps ==
  ASSUME GroupsInv, NEW g \in Groups, NEW order \in SetToSeqs(Abandoned(table)),
         Refused(Reclaimed(table, order), g)
  PROVE  GroupsInv'
BY ReclaimKeeps, Holds DEF Refused

LEMMA OnOpenKeeps ==
  ASSUME GroupsInv, NEW g \in Groups, NEW s, NEW order \in SetToSeqs(Abandoned(table)),
         OnOpenGroup(Reclaimed(table, order), g, s)
  PROVE  GroupsInv'
<1> DEFINE t == Reclaimed(table, order)
           group == IF g \in DOMAIN t.open THEN t.open[g]
                    ELSE [cumulative |-> 0, buffered |-> {}, age |-> 0]
           after == Drained(group, s)
           Holding(state) == [t EXCEPT !.open = With(t.open, g, state)]
           Shutting(u) == \A h \in Groups : Shut(t, h) => Shut(u, h)
<1>1. /\ Tabled(t) /\ \A h \in Groups : Shut(table, h) => Shut(t, h)
      /\ \A h \in Groups : h \in Abandoned(table) => Shut(t, h)
  BY ReclaimKeeps
<1>2. ~Shut(t, g)
  BY DEF OnOpenGroup, Shut, Behind, IsClosed
<1>3. /\ g \notin Abandoned(table) /\ delivered[g] = 0 /\ ~(reached[g] >= 0)
      /\ GivenUp(table)[g] = reached[g]
  BY <1>1, <1>2, GivenUpIs DEF GroupsInv
<1>4. \/ /\ table' = Holding(group) \/ table' = Owe(Holding(group), g)
         /\ reached' = GivenUp(table) /\ delivered' = delivered
      \/ /\ \E state : table' = Owe(Close(Holding(state), g), g)
         /\ \/ /\ \E c : reached' = [GivenUp(table) EXCEPT ![g] = c]
               /\ delivered' = delivered
            \/ /\ reached' = GivenUp(table)
               /\ delivered' = [delivered EXCEPT ![g] = @ + 1]
      \/ /\ table' = Owe(Holding(after), g)
         /\ reached' = GivenUp(table) /\ delivered' = delivered
  BY DEF OnOpenGroup
<1> HIDE DEF t, group, after
<1>5. \A state : Tabled(Holding(state)) /\ Shutting(Holding(state))
  BY <1>1, <1>2, OpenedIs
<1> HIDE DEF Holding
<1>6. ASSUME NEW u, Tabled(u), Shutting(u), table' \in {u, Owe(u, g)}
      PROVE  Tabled(table') /\ Shutting(table')
  BY <1>6, OwedIs DEF Owe
<1>7. CASE /\ \E state : table' \in {Holding(state), Owe(Holding(state), g)}
           /\ reached' = GivenUp(table) /\ delivered' = delivered
  <2>1. Tabled(table') /\ Shutting(table')
    BY <1>5, <1>6, <1>7
  <2> QED BY <1>7, <2>1, Holds DEF t
<1>8. ASSUME NEW state, table' = Owe(Close(Holding(state), g), g),
             \/ /\ \E c : reached' = [GivenUp(table) EXCEPT ![g] = c]
                /\ delivered' = delivered
             \/ /\ reached' = GivenUp(table)
                /\ delivered' = [delivered EXCEPT ![g] = @ + 1]
      PROVE  GroupsInv'
  <2> DEFINE u == Close(Holding(state), g)
  <2>1. Tabled(u) /\ Shutting(u) /\ Shut(u, g)
    BY <1>5, ClosedIs
  <2> HIDE DEF u
  <2>2. table' = Owe(u, g)
    BY <1>8 DEF u
  <2>3. Tabled(table') /\ Shutting(table') /\ Shut(table', g)
    BY <2>1, <2>2, OwedIs DEF Owe
  <2>4. \A h \in Groups : Shut(table, h) \/ h \in Abandoned(table) => Shut(table', h)
    BY <1>1, <2>3
  <2>5. \A h \in Groups \ {g} : reached'[h] = GivenUp(table)[h]
                                /\ delivered'[h] = delivered[h]
    BY <1>8 DEF GivenUp, GroupsInv
  <2>6. /\ delivered' \in [Groups -> {0, 1}]
        /\ ~(delivered'[g] = 1 /\ reached'[g] >= 0)
    <3>1. CASE delivered' = delivered
      BY <1>3, <3>1 DEF GroupsInv
    <3>2. CASE /\ reached' = GivenUp(table)
               /\ delivered' = [delivered EXCEPT ![g] = @ + 1]
      BY <1>3, <3>2 DEF GroupsInv
    <3> QED BY <1>8, <3>1, <3>2
  <2>7. ASSUME NEW h \in Groups
        PROVE  /\ delivered'[h] = 1 \/ reached'[h] >= 0 => Shut(table', h)
               /\ ~(delivered'[h] = 1 /\ reached'[h] >= 0)
    <3>1. CASE h = g
      BY <2>3, <2>6, <3>1
    <3>2. CASE h # g
      BY <2>4, <2>5, <3>2, GivenUpIs DEF GroupsInv
    <3> QED BY <3>1, <3>2
  <2> QED BY <2>3, <2>6, <2>7 DEF GroupsInv
<1> QED BY <1>4, <1>7, <1>8

LEMMA TickKeeps == ASSUME GroupsInv, Tick PROVE GroupsInv'
<1> DEFINE open == [g \in DOMAIN table.open |-> Aged(table.open[g])]
<1>1. table' = [table EXCEPT !.open = open] /\ UNCHANGED <<delivered, reached>>
  BY DEF Tick
<1>2. DOMAIN open = DOMAIN table.open
  OBVIOUS
<1> HIDE DEF open
<1>3. /\ Tabled(table') /\ table'.open = open /\ table'.closed = table.closed
      /\ table'.evicted = table.evicted
  BY <1>1, <1>2 DEF GroupsInv, Tabled
<1> QED BY <1>1, <1>2, <1>3 DEF GroupsInv, Shut, Behind

LEMMA PollKeeps == ASSUME GroupsInv, Poll PROVE GroupsInv'
<1>1. PICK order \in SetToSeqs(Abandoned(table)) :
        /\ table' = [Reclaimed(table, order) EXCEPT !.owed = {}]
        /\ reached' = GivenUp(table) /\ delivered' = delivered
  BY DEF Poll
<1> DEFINE t == Reclaimed(table, order)
<1>2. Tabled(t)
  BY ReclaimKeeps
<1>3. Tabled(table') /\ \A h \in Groups : Shut(t, h) => Shut(table', h)
  <2> HIDE DEF t
  <2> QED BY <1>1, <1>2, OwedIs DEF t
<1> QED BY <1>1, <1>3, Holds

LEMMA StreamKeeps == ASSUME GroupsInv, IngestStream PROVE GroupsInv'
BY ReclaimKeeps, Holds DEF IngestStream

-----------------------------------------------------------------------------
LEMMA GroupsStart == GroupsInit => GroupsInv
BY DEF GroupsInit, GroupsInv, Tabled, NoGroup

LEMMA GroupsStep == GroupsInv /\ [GroupsNext]_groupsVars => GroupsInv'
<1> SUFFICES ASSUME GroupsInv, [GroupsNext]_groupsVars PROVE GroupsInv'
  OBVIOUS
<1>1. ASSUME NEW g \in Groups, NEW s \in 1 .. Length[g], IngestSegment(g, s)
      PROVE  GroupsInv'
  BY <1>1, OnClosedKeeps, RefusedKeeps, OnOpenKeeps DEF IngestSegment
<1>2. CASE UNCHANGED groupsVars
  BY <1>2 DEF groupsVars, GroupsInv, Tabled, Shut, Behind
<1> QED BY <1>1, <1>2, StreamKeeps, PollKeeps, TickKeeps DEF GroupsNext

(* Whatever the authenticated peer sends, and in whatever order abandoned    *)
(* groups are reclaimed, a group that is over is shut for good.              *)
THEOREM GroupsInvariance == GroupsSpec => []GroupsInv
<1> QED BY GroupsStart, GroupsStep, PTL DEF GroupsSpec

(* A message is delivered once at most, and never after it was given up.     *)
THEOREM FateSettledOnce == GroupsSpec => []SettledOnce
<1>1. GroupsInv => SettledOnce
  BY DEF GroupsInv, SettledOnce, AtMostOnce, GivenUpStaysClosed
<1> QED BY <1>1, GroupsInvariance, PTL

-----------------------------------------------------------------------------
(* The tables as a ledger of what was received.                              *)

(* A group in reassembly keeps to its window and to its share.               *)
Sound(group) ==
  /\ group \in Group
  /\ group.buffered \subseteq group.cumulative + 1 .. group.cumulative + Window
  /\ Held(group) <= Ceiling

(* The tombstones are those of the eviction order, beside the open groups.   *)
Ordered(t) ==
  /\ Tabled(t) /\ IsInjective(t.order) /\ Len(t.order) <= MaxTombstones
  /\ DOMAIN t.closed = ToSet(t.order) /\ t.closed \in [DOMAIN t.closed -> Nat]
  /\ DOMAIN t.open \cap DOMAIN t.closed = {} /\ t.owed \subseteq Groups
  /\ Cardinality(DOMAIN t.open) <= MaxOpenOneShot
  /\ \A g \in DOMAIN t.open : Sound(t.open[g])

(* An ACK would report only what came in, or the group is behind the mark.   *)
Honest(t, had) ==
  \A g \in Groups : Behind(t, g) \/ Reported(t, g) \subseteq had[g]

LedgerInv ==
  /\ Ordered(table) /\ Honest(table, got) /\ streamOpen \in BOOLEAN
  /\ got \in [Groups -> SUBSET Nat]
  /\ \A g \in Groups : Behind(table, g) \/ acked[g] \subseteq got[g]

LEMMA AppendedOnce ==
  ASSUME NEW s \in Seq(Groups), IsInjective(s), NEW g \in Groups, g \notin ToSet(s)
  PROVE  LET u == Append(s, g)
         IN u \in Seq(Groups) /\ IsInjective(u) /\ ToSet(u) = ToSet(s) \cup {g}
BY DEF IsInjective, ToSet

LEMMA TailOnce ==
  ASSUME NEW s \in Seq(Groups), IsInjective(s), s # <<>>
  PROVE  LET u == Tail(s)
         IN /\ u \in Seq(Groups) /\ IsInjective(u) /\ Len(u) = Len(s) - 1
            /\ ToSet(u) = ToSet(s) \ {Head(s)} /\ Head(s) \in ToSet(s)
<1> DEFINE u == Tail(s)
<1>1. /\ u \in Seq(Groups) /\ Len(u) = Len(s) - 1 /\ Len(s) \in Nat /\ Len(s) > 0
      /\ \A i \in 1 .. Len(u) : u[i] = s[i + 1]
      /\ Head(s) = s[1] /\ DOMAIN u = 1 .. Len(u) /\ DOMAIN s = 1 .. Len(s)
  OBVIOUS
<1> HIDE DEF u
<1>2. \A i, j \in 1 .. Len(s) : s[i] = s[j] => i = j
  BY <1>1 DEF IsInjective
<1>3. IsInjective(u)
  BY <1>1, <1>2 DEF IsInjective
<1>4. ASSUME NEW x PROVE x \in ToSet(u) <=> x \in ToSet(s) \ {Head(s)}
  <2>1. ASSUME NEW i \in 1 .. Len(u), x = u[i] PROVE x \in ToSet(s) \ {Head(s)}
    <3>1. i + 1 \in 1 .. Len(s) /\ i + 1 # 1 /\ 1 \in 1 .. Len(s) /\ x = s[i + 1]
      BY <1>1, <2>1
    <3>2. x # s[1]
      BY <1>2, <3>1
    <3> QED BY <1>1, <3>1, <3>2 DEF ToSet
  <2>2. ASSUME NEW i \in 1 .. Len(s), x = s[i], x # Head(s) PROVE x \in ToSet(u)
    <3>1. i - 1 \in 1 .. Len(u) /\ u[i - 1] = s[i]
      BY <1>1, <2>2
    <3> QED BY <1>1, <2>2, <3>1 DEF ToSet
  <2> QED BY <1>1, <2>1, <2>2 DEF ToSet
<1>5. 1 \in DOMAIN s /\ Head(s) = s[1]
  BY <1>1
<1>6. Head(s) \in ToSet(s)
  BY <1>5 DEF ToSet
<1>7. ToSet(u) = ToSet(s) \ {Head(s)}
  BY <1>4
<1> QED BY <1>1, <1>3, <1>6, <1>7 DEF u

(* One more unit in, wherever it goes.                                       *)
LEMMA DrainedIs ==
  ASSUME NEW group, Sound(group), NEW s \in Nat, s \notin group.buffered,
         group.cumulative < s, s <= group.cumulative + Window, ~Overflows(group)
  PROVE  LET u == Drained(group, s)
         IN /\ Sound(u)
            /\ 1 .. u.cumulative \cup u.buffered
                 \subseteq 1 .. group.cumulative \cup group.buffered \cup {s}
<1> DEFINE c == group.cumulative
           held == group.buffered \cup {s}
           Stops(e) == /\ \A q \in c + 1 .. e : q \in held
                       /\ e + 1 \notin held
           end == CHOOSE e \in {c} \cup held : Stops(e)
           above == {q \in held : q > end}
           u == Drained(group, s)
<1>1. /\ c \in Nat /\ Window \in Nat /\ Ceiling \in Nat /\ group \in Group
      /\ held \subseteq c + 1 .. c + Window /\ held \subseteq Nat
  BY ReceiveGroupsAssumption DEF Sound, Group
<1>2. u = [group EXCEPT !.cumulative = end, !.buffered = above]
  BY DEF Drained
<1>3. end \in {c} \cup held /\ Stops(end) /\ end >= c
  <2>1. \A x \in held : x <= c + Window
    BY <1>1
  <2>2. \E e \in {c} \cup held : e >= c /\ Stops(e)
    <3>1. c \in Nat /\ c + Window \in Nat /\ held \subseteq Nat
      BY <1>1
    <3> HIDE DEF held, c
    <3> QED BY <2>1, <3>1, FirstGap
  <2>3. end \in {c} \cup held /\ Stops(end)
    <3> HIDE DEF held, Stops, c
    <3> QED BY <2>2
  <2> HIDE DEF end, Stops
  <2>4. end >= c
    BY <1>1, <2>3
  <2> QED BY <2>3, <2>4
<1> HIDE DEF end, u
<1>4. end \in Nat /\ above \subseteq end + 1 .. end + Window
  BY <1>1, <1>3
<1>5. /\ u.cumulative = end /\ u.buffered = above /\ u \in Group
  <2>1. above \subseteq Nat \ {0}
    BY <1>4
  <2> HIDE DEF above
  <2> QED BY <1>1, <1>2, <1>4, <2>1 DEF Group
<1>6. IsFiniteSet(group.buffered) /\ IsFiniteSet(held) /\ IsFiniteSet(above)
      /\ IsFiniteSet(c + 1 .. end)
  <2>1. IsFiniteSet(c + 1 .. c + Window) /\ IsFiniteSet(c + 1 .. end)
    <3>1. c + 1 \in Int /\ c + Window \in Int /\ end \in Int
      BY <1>1, <1>4
    <3> HIDE DEF c
    <3> QED BY <3>1, FS_Interval
  <2>2. group.buffered \in SUBSET (c + 1 .. c + Window)
        /\ held \in SUBSET (c + 1 .. c + Window)
        /\ above \in SUBSET (c + 1 .. c + Window)
    BY <1>1
  <2> HIDE DEF held, above, c
  <2> QED BY <2>1, <2>2, FS_Subset
<1>7. Cardinality(held) = Cardinality(group.buffered) + 1
  BY <1>6, FS_AddElement
<1>8. Cardinality(held) = (end - c) + Cardinality(above)
  <2>1. held = (c + 1 .. end) \cup above /\ (c + 1 .. end) \cap above = {}
    BY <1>1, <1>3, <1>4
  <2>2. Cardinality(c + 1 .. end) = end - c
    <3>1. c \in Int /\ c + 1 \in Int /\ end \in Int /\ end >= c
      BY <1>1, <1>3, <1>4
    <3> HIDE DEF c
    <3>2. Cardinality(c + 1 .. end) = IF c + 1 > end THEN 0 ELSE end - (c + 1) + 1
      BY <3>1, FS_Interval
    <3> QED BY <3>1, <3>2
  <2>3. Cardinality({}) = 0
    BY FS_EmptySet
  <2>4. Cardinality(above) \in Nat
    BY <1>6, FS_CardinalityType
  <2> HIDE DEF held, above, c
  <2>5. Cardinality((c + 1 .. end) \cup above)
          = Cardinality(c + 1 .. end) + Cardinality(above) - Cardinality({})
    <3> DEFINE run == c + 1 .. end
    <3>1. run \cap above = {} /\ IsFiniteSet(run)
      BY <1>6, <2>1
    <3> HIDE DEF run
    <3>2. Cardinality(run \cup above)
            = Cardinality(run) + Cardinality(above) - Cardinality(run \cap above)
      BY <1>6, <3>1, FS_Union, Zenon
    <3> QED BY <3>1, <3>2 DEF run
  <2> QED BY <1>1, <1>3, <1>4, <2>1, <2>2, <2>3, <2>4, <2>5
<1>9. /\ Cardinality(held) \in Nat /\ Cardinality(above) \in Nat
      /\ Cardinality(group.buffered) \in Nat
  BY <1>6, FS_CardinalityType
<1>10. Held(u) <= Ceiling
  <2>1. Held(u) = end + Cardinality(above)
        /\ c + Cardinality(group.buffered) + 1 <= Ceiling
    BY <1>1, <1>5, <1>9 DEF Held, Overflows
  <2> HIDE DEF held, above, c
  <2>2. c \in Nat
    BY <1>1
  <2> QED BY <1>4, <1>7, <1>8, <1>9, <2>1, <2>2
<1>11. Sound(u)
  BY <1>4, <1>5, <1>10 DEF Sound
<1>12. 1 .. end \cup above \subseteq 1 .. c \cup held
  BY <1>1, <1>3, <1>4
<1> QED BY <1>5, <1>11, <1>12 DEF u

(* A table that reports no more than another, and has evicted no less.       *)
Less(t, u) ==
  \A h \in Groups : /\ Behind(t, h) => Behind(u, h)
                    /\ Behind(u, h) \/ Reported(u, h) \subseteq Reported(t, h)

LEMMA LessIsHonest ==
  ASSUME NEW t, NEW u, NEW had, Honest(t, had), Less(t, u)
  PROVE  Honest(u, had)
BY DEF Honest, Less

LEMMA LessIsTransitive ==
  ASSUME NEW t, NEW u, NEW v, Less(t, u), Less(u, v)
  PROVE  Less(t, v)
BY DEF Less

(* A tombstone takes the place of the oldest, whose id the watermark covers. *)
LEMMA RememberedKept ==
  ASSUME NEW t, Ordered(t), NEW g \in Groups, NEW c \in Nat,
         g \notin DOMAIN t.open, g \notin DOMAIN t.closed
  PROVE  LET u == RememberClosed(t, g, c)
         IN /\ Ordered(u)
            /\ \A h \in Groups : Behind(t, h) => Behind(u, h)
            /\ \A h \in Groups \ {g} :
                 Behind(u, h) \/ Reported(u, h) \subseteq Reported(t, h)
            /\ Behind(u, g) \/ Reported(u, g) \subseteq 1 .. c
<1> DEFINE order == Append(t.order, g)
           closed == With(t.closed, g, c)
           u == RememberClosed(t, g, c)
<1>1. Tabled(u) /\ u.open = t.open /\ u.owed = t.owed
  BY RememberedIs DEF Ordered
<1>2. /\ order \in Seq(Groups) /\ IsInjective(order) /\ order # <<>>
      /\ ToSet(order) = ToSet(t.order) \cup {g} /\ Len(order) = Len(t.order) + 1
      /\ Len(t.order) \in Nat
  BY AppendedOnce DEF Ordered, Tabled
<1>3. DOMAIN closed = ToSet(order) /\ closed \in [DOMAIN closed -> Nat]
      /\ closed[g] = c /\ \A h \in DOMAIN t.closed : closed[h] = t.closed[h]
  BY <1>2 DEF Ordered, With
<1>4. CASE Len(order) > MaxTombstones
  <2> DEFINE head == Head(order)
  <2>1. /\ Tail(order) \in Seq(Groups) /\ IsInjective(Tail(order))
        /\ Len(Tail(order)) = Len(t.order) /\ head \in Groups
        /\ ToSet(Tail(order)) = ToSet(order) \ {head}
    <3> HIDE DEF order
    <3> QED BY <1>2, TailOnce
  <2>2. u = [t EXCEPT !.closed = Without(closed, head), !.order = Tail(order),
                      !.evicted = Mark(t.evicted, head)]
    BY <1>4 DEF RememberClosed
  <2> HIDE DEF u, order, closed, head
  <2>3. /\ u.closed = Without(closed, head) /\ u.order = Tail(order)
        /\ u.evicted = Mark(t.evicted, head)
    BY <2>2 DEF Ordered, Tabled
  <2>4. /\ DOMAIN u.closed = ToSet(order) \ {head}
        /\ \A h \in DOMAIN u.closed : u.closed[h] = closed[h] /\ u.closed[h] \in Nat
        /\ u.closed = [h \in DOMAIN u.closed |-> u.closed[h]]
    BY <1>3, <2>3 DEF Without
  <2>5. Behind(u, head) /\ \A h \in Groups : Behind(t, h) => Behind(u, h)
    <3>1. NoGroup \notin Groups
      BY ReceiveGroupsAssumption DEF NoGroup
    <3>2. PICK at \in [Groups -> Int] :
            \A a, b \in Groups : Ahead(a, b) <=> at[a] > at[b]
      BY AheadIsOrder
    <3> QED BY <2>1, <2>3, <3>1, <3>2 DEF Behind, Mark, Tabled, Ordered
  <2>6. Ordered(u)
    <3>1. u.closed \in [DOMAIN u.closed -> Nat]
      BY <2>4
    <3>2. IsInjective(u.order) /\ Len(u.order) <= MaxTombstones
          /\ DOMAIN u.closed = ToSet(u.order)
      BY <2>1, <2>3, <2>4 DEF Ordered
    <3>3. DOMAIN u.open \cap DOMAIN u.closed = {}
      BY <1>1, <1>2, <2>4 DEF Ordered
    <3> QED BY <1>1, <3>1, <3>2, <3>3 DEF Ordered
  <2>7. ASSUME NEW h \in Groups \ {g}
        PROVE  Behind(u, h) \/ Reported(u, h) \subseteq Reported(t, h)
    <3>1. CASE h = head
      BY <2>5, <3>1
    <3>2. CASE h # head /\ h \in DOMAIN t.closed
      BY <1>2, <1>3, <2>4, <3>2 DEF Reported, Ordered
    <3>3. CASE h # head /\ h \notin DOMAIN t.closed
      <4>1. h \notin DOMAIN u.closed
        BY <1>2, <2>4, <3>3 DEF Ordered
      <4> QED BY <1>1, <3>3, <4>1 DEF Reported
    <3> QED BY <3>1, <3>2, <3>3
  <2>8. Behind(u, g) \/ Reported(u, g) \subseteq 1 .. c
    BY <1>2, <1>3, <2>4, <2>5 DEF Reported
  <2> QED BY <2>5, <2>6, <2>7, <2>8 DEF u
<1>5. CASE ~(Len(order) > MaxTombstones)
  <2>1. u = [t EXCEPT !.closed = closed, !.order = order]
    BY <1>5 DEF RememberClosed, Ordered
  <2>2. Len(order) <= MaxTombstones
    BY <1>2, <1>5, ReceiveGroupsAssumption
  <2> HIDE DEF u, order, closed
  <2>3. u.closed = closed /\ u.order = order /\ u.evicted = t.evicted
    BY <2>1 DEF Ordered, Tabled
  <2>4. DOMAIN u.open \cap DOMAIN u.closed = {}
    BY <1>1, <1>2, <1>3, <2>3 DEF Ordered
  <2>5. Ordered(u)
    BY <1>1, <1>2, <1>3, <2>2, <2>3, <2>4 DEF Ordered
  <2>6. ASSUME NEW h \in Groups \ {g}
        PROVE  Reported(u, h) \subseteq Reported(t, h)
    <3>1. h \in DOMAIN u.closed <=> h \in DOMAIN t.closed
      BY <1>2, <1>3, <2>3 DEF Ordered
    <3> QED BY <1>1, <1>3, <2>3, <3>1 DEF Reported
  <2>7. Reported(u, g) \subseteq 1 .. c
    BY <1>2, <1>3, <2>3 DEF Reported
  <2> QED BY <2>3, <2>5, <2>6, <2>7 DEF u, Behind
<1> QED BY <1>4, <1>5

LEMMA ClosedKept ==
  ASSUME NEW t, Ordered(t), NEW g \in DOMAIN t.open
  PROVE  LET u == Close(t, g)
         IN Ordered(u) /\ u.open = Without(t.open, g) /\ Less(t, u)
<1> DEFINE s == [t EXCEPT !.open = Without(t.open, g)]
           c == t.open[g].cumulative
           u == Close(t, g)
<1>1. u = RememberClosed(s, g, c)
  BY DEF Close
<1>2. /\ DOMAIN Without(t.open, g) = DOMAIN t.open \ {g}
      /\ \A h \in DOMAIN t.open \ {g} : Without(t.open, g)[h] = t.open[h]
  BY DEF Without
<1>3. /\ g \in Groups /\ g \notin DOMAIN t.closed /\ DOMAIN t.open \subseteq Groups
      /\ Sound(t.open[g]) /\ c \in Nat
  BY DEF Ordered, Tabled, Sound, Group
<1>4. /\ s.open = Without(t.open, g) /\ s.owed = t.owed /\ s.order = t.order
      /\ s.closed = t.closed /\ s.evicted = t.evicted /\ Tabled(s)
  BY <1>2, <1>3 DEF Ordered, Tabled
<1> HIDE DEF s, c
<1>5. Cardinality(DOMAIN s.open) <= MaxOpenOneShot
  <2>1. DOMAIN s.open = DOMAIN t.open \ {g} /\ IsFiniteSet(DOMAIN t.open)
    BY <1>2, <1>3, <1>4, GroupsFinite
  <2>2. Cardinality(DOMAIN t.open \ {g}) = Cardinality(DOMAIN t.open) - 1
        /\ Cardinality(DOMAIN t.open) \in Nat
    BY <1>3, <2>1, FS_RemoveElement, FS_CardinalityType
  <2> QED BY <2>1, <2>2, ReceiveGroupsAssumption DEF Ordered
<1>6. Ordered(s)
  <2>1. \A h \in DOMAIN s.open : Sound(s.open[h])
    BY <1>2, <1>4 DEF Ordered
  <2>2. DOMAIN s.open \cap DOMAIN s.closed = {}
    BY <1>2, <1>4 DEF Ordered
  <2> QED BY <1>4, <1>5, <2>1, <2>2 DEF Ordered
<1>7. \A h \in Groups : Behind(s, h) <=> Behind(t, h)
  BY <1>4 DEF Behind
<1>8. \A h \in Groups : Reported(s, h) \subseteq Reported(t, h)
  BY <1>2, <1>4 DEF Reported
<1>9. 1 .. c \subseteq Reported(t, g)
  BY <1>3 DEF Reported, c
<1>10. g \notin DOMAIN s.open /\ g \notin DOMAIN s.closed
  BY <1>2, <1>3, <1>4
<1>11. /\ Ordered(u)
       /\ \A h \in Groups : Behind(s, h) => Behind(u, h)
       /\ \A h \in Groups \ {g} :
            Behind(u, h) \/ Reported(u, h) \subseteq Reported(s, h)
       /\ Behind(u, g) \/ Reported(u, g) \subseteq 1 .. c
  <2> HIDE DEF u
  <2> QED BY <1>1, <1>3, <1>6, <1>10, RememberedKept
<1>12. u.open = Without(t.open, g)
  BY <1>1, <1>3, <1>4, RememberedIs
<1> HIDE DEF u
<1>13. Less(t, u)
  BY <1>7, <1>8, <1>9, <1>11 DEF Less
<1> QED BY <1>11, <1>12, <1>13 DEF u

LEMMA OwedKept ==
  ASSUME NEW t, Ordered(t), NEW owed, owed \subseteq Groups
  PROVE  LET u == [t EXCEPT !.owed = owed]
         IN Ordered(u) /\ u.open = t.open /\ Less(t, u) /\ Less(u, t)
<1> DEFINE u == [t EXCEPT !.owed = owed]
<1>1. /\ u.open = t.open /\ u.closed = t.closed /\ u.evicted = t.evicted
      /\ u.order = t.order /\ u.owed = owed /\ Tabled(u)
  BY DEF Ordered, Tabled
<1> HIDE DEF u
<1>2. Ordered(u) /\ Less(t, u) /\ Less(u, t)
  BY <1>1 DEF Ordered, Less, Behind, Reported
<1> QED BY <1>1, <1>2 DEF u

LEMMA ReclaimKept ==
  ASSUME NEW t, Ordered(t), NEW g \in DOMAIN t.open
  PROVE  LET u == Reclaim(t, g)
         IN Ordered(u) /\ DOMAIN u.open = DOMAIN t.open \ {g} /\ Less(t, u)
<1> DEFINE s == Close(t, g)
           u == Reclaim(t, g)
<1>1. Ordered(s) /\ s.open = Without(t.open, g) /\ Less(t, s)
  BY ClosedKept
<1>2. u = [s EXCEPT !.owed = s.owed \ {g}]
  BY DEF Reclaim
<1>3. s.owed \ {g} \subseteq Groups
  BY <1>1 DEF Ordered
<1> HIDE DEF s, u
<1>4. Ordered(u) /\ u.open = s.open /\ Less(s, u)
  BY <1>1, <1>2, <1>3, OwedKept
<1>5. DOMAIN Without(t.open, g) = DOMAIN t.open \ {g}
  BY DEF Without
<1> QED BY <1>1, <1>4, <1>5, LessIsTransitive DEF u

(* Reclaiming neither drops what is open beyond the abandoned nor reports    *)
(* what was not.                                                             *)
LEMMA ReclaimedKept ==
  ASSUME NEW t, Ordered(t), NEW order \in SetToSeqs(Abandoned(t))
  PROVE  LET u == Reclaimed(t, order) IN Ordered(u) /\ Less(t, u)
<1> DEFINE n == Len(order)
<1>1. /\ order \in Seq(Groups) /\ n \in Nat
      /\ \A i \in 1 .. n : order[i] \in DOMAIN t.open
      /\ \A i, j \in 1 .. n : i # j => order[i] # order[j]
  BY OrderIs DEF Ordered, Abandoned
<1>2. PICK after : /\ after[0] = t
                   /\ \A i \in 1 .. n : after[i] = Reclaim(after[i - 1], order[i])
                   /\ Reclaimed(t, order) = after[n]
  BY <1>1, ReclaimedSteps
<1> DEFINE Good(i) ==
             /\ Ordered(after[i]) /\ Less(t, after[i])
             /\ \A h \in DOMAIN t.open : h \in DOMAIN after[i].open
                                           \/ \E j \in 1 .. i : order[j] = h
           Bad == {i \in Nat : i <= n /\ ~Good(i)}
<1>3. Bad = {}
  <2> SUFFICES ASSUME Bad # {} PROVE FALSE
    OBVIOUS
  <2>1. PICK i \in Bad : \A j \in Bad : i <= j
    <3> HIDE DEF Good
    <3>1. Bad \subseteq Nat
      OBVIOUS
    <3> HIDE DEF Bad
    <3> QED BY <3>1, LeastElement
  <2>2. i \in Nat /\ i <= n /\ ~Good(i)
    BY <2>1
  <2>3. i # 0
    BY <1>2, <2>2 DEF Less
  <2>4. Good(i - 1) /\ i \in 1 .. n
    <3>1. i - 1 \in Nat /\ i - 1 <= n /\ ~(i <= i - 1)
      BY <1>1, <2>2, <2>3
    <3> HIDE DEF Good
    <3> QED BY <1>1, <2>1, <2>2, <2>3, <3>1
  <2> DEFINE s == after[i - 1]
             g == order[i]
             u == after[i]
  <2>5. u = Reclaim(s, g) /\ Ordered(s) /\ Less(t, s)
    BY <1>1, <1>2, <2>4
  <2>6. g \in DOMAIN s.open
    <3>1. ~ \E j \in 1 .. i - 1 : order[j] = g
      BY <1>1, <2>2, <2>4
    <3> QED BY <1>1, <2>4, <3>1
  <2>7. Ordered(u) /\ DOMAIN u.open = DOMAIN s.open \ {g} /\ Less(s, u)
    <3> HIDE DEF s, g, u
    <3> QED BY <2>5, <2>6, ReclaimKept
  <2>8. Less(t, u)
    <3> HIDE DEF s, u
    <3> QED BY <2>5, <2>7, LessIsTransitive
  <2>9. ASSUME NEW h \in DOMAIN t.open
        PROVE  h \in DOMAIN u.open \/ \E j \in 1 .. i : order[j] = h
    <3>1. h \in DOMAIN s.open \/ \E j \in 1 .. i - 1 : order[j] = h
      BY <2>4
    <3>2. CASE \E j \in 1 .. i - 1 : order[j] = h
      BY <2>2, <3>2
    <3>3. CASE h \in DOMAIN s.open
      BY <2>4, <2>7, <3>3
    <3> QED BY <3>1, <3>2, <3>3
  <2> QED BY <2>2, <2>7, <2>8, <2>9
<1>4. Good(n)
  <2> HIDE DEF Good
  <2> QED BY <1>1, <1>3
<1> QED BY <1>2, <1>4

(* A group taken into the table, new or with what it has become.             *)
LEMMA HoldingKept ==
  ASSUME NEW t, Ordered(t), NEW g \in Groups, g \notin DOMAIN t.closed,
         g \in DOMAIN t.open \/ Cardinality(DOMAIN t.open) < MaxOpenOneShot,
         NEW state, Sound(state)
  PROVE  LET u == [t EXCEPT !.open = With(t.open, g, state)]
         IN /\ Ordered(u) /\ g \in DOMAIN u.open
            /\ \A h \in Groups : /\ Behind(u, h) <=> Behind(t, h)
                                 /\ h # g => Reported(u, h) = Reported(t, h)
            /\ Reported(u, g) = 1 .. state.cumulative \cup state.buffered
<1> DEFINE u == [t EXCEPT !.open = With(t.open, g, state)]
<1>1. /\ DOMAIN With(t.open, g, state) = DOMAIN t.open \cup {g}
      /\ With(t.open, g, state)[g] = state
      /\ \A h \in DOMAIN t.open \ {g} : With(t.open, g, state)[h] = t.open[h]
  BY DEF With
<1>2. /\ u.open = With(t.open, g, state) /\ u.closed = t.closed
      /\ u.evicted = t.evicted /\ u.order = t.order /\ u.owed = t.owed /\ Tabled(u)
  BY <1>1 DEF Ordered, Tabled
<1> HIDE DEF u
<1>3. Cardinality(DOMAIN u.open) <= MaxOpenOneShot
  <2>1. DOMAIN u.open = DOMAIN t.open \cup {g} /\ IsFiniteSet(DOMAIN t.open)
    BY <1>1, <1>2, GroupsFinite DEF Ordered, Tabled
  <2>2. /\ Cardinality(DOMAIN t.open \cup {g})
             = IF g \in DOMAIN t.open THEN Cardinality(DOMAIN t.open)
               ELSE Cardinality(DOMAIN t.open) + 1
        /\ Cardinality(DOMAIN t.open) \in Nat
    BY <2>1, FS_AddElement, FS_CardinalityType
  <2> QED BY <2>1, <2>2, ReceiveGroupsAssumption DEF Ordered
<1>4. Ordered(u)
  <2>1. \A h \in DOMAIN u.open : Sound(u.open[h])
    BY <1>1, <1>2 DEF Ordered
  <2>2. DOMAIN u.open \cap DOMAIN u.closed = {}
    BY <1>1, <1>2 DEF Ordered
  <2> QED BY <1>2, <1>3, <2>1, <2>2 DEF Ordered
<1>5. \A h \in Groups : Behind(u, h) <=> Behind(t, h)
  BY <1>2 DEF Behind
<1>6. \A h \in Groups : h # g => Reported(u, h) = Reported(t, h)
  BY <1>1, <1>2 DEF Reported
<1>7. Reported(u, g) = 1 .. state.cumulative \cup state.buffered
  BY <1>1, <1>2 DEF Reported
<1>8. g \in DOMAIN u.open
  BY <1>1, <1>2
<1> QED BY <1>4, <1>5, <1>6, <1>7, <1>8 DEF u

-----------------------------------------------------------------------------
(* The handlers and the ledger.                                              *)

LEMMA LedgerHolds ==
  ASSUME LedgerInv, Ordered(table'), Honest(table', got'),
         got' \in [Groups -> SUBSET Nat], \A h \in Groups : got[h] \subseteq got'[h],
         \A h \in Groups : Behind(table, h) => Behind(table', h),
         acked' = acked, streamOpen' \in BOOLEAN
  PROVE  LedgerInv'
<1>1. \A h \in Groups : Behind(table', h) \/ acked'[h] \subseteq got'[h]
  BY DEF LedgerInv
<1>2. /\ Ordered(table)' /\ Honest(table, got)'
      /\ \A h \in Groups : (Behind(table, h) \/ acked[h] \subseteq got[h])'
  BY <1>1 DEF Ordered, Honest, Tabled, Behind, Reported, Sound, Held
<1> QED BY <1>2 DEF LedgerInv

LEMMA LedgerReclaimed ==
  ASSUME LedgerInv, NEW order \in SetToSeqs(Abandoned(table))
  PROVE  LET t == Reclaimed(table, order)
         IN /\ Ordered(t) /\ Less(table, t) /\ Honest(t, got)
<1>1. Ordered(table) /\ Honest(table, got)
  BY DEF LedgerInv
<1> QED BY <1>1, ReclaimedKept, LessIsHonest

(* A step past the reclaim that takes nothing in.                            *)
LEMMA LedgerReduced ==
  ASSUME LedgerInv, NEW order \in SetToSeqs(Abandoned(table)),
         Ordered(table'), Less(Reclaimed(table, order), table'),
         got' = got, acked' = acked, streamOpen' \in BOOLEAN
  PROVE  LedgerInv'
<1> DEFINE t == Reclaimed(table, order)
<1>1. Ordered(t) /\ Less(table, t) /\ Honest(t, got)
  BY LedgerReclaimed
<1> HIDE DEF t
<1>2. Less(t, table')
  BY DEF t
<1>3. Honest(table', got')
  BY <1>1, <1>2, LessIsHonest
<1>4. \A h \in Groups : Behind(table, h) => Behind(table', h)
  BY <1>1, <1>2 DEF Less
<1>5. got' \in [Groups -> SUBSET Nat] /\ \A h \in Groups : got[h] \subseteq got'[h]
  BY DEF LedgerInv
<1> QED BY <1>3, <1>4, <1>5, LedgerHolds

LEMMA LedgerOnClosed ==
  ASSUME LedgerInv, NEW g \in Groups, NEW s \in Nat,
         NEW order \in SetToSeqs(Abandoned(table)),
         OnClosedGroup(Reclaimed(table, order), g, s),
         acked' = acked, streamOpen' = streamOpen
  PROVE  LedgerInv'
<1> DEFINE t == Reclaimed(table, order)
           u == IF g \in DOMAIN t.closed THEN t ELSE RememberClosed(t, g, s)
<1>1. Ordered(t)
  BY LedgerReclaimed
<1>2. IsClosed(t, g) /\ table' = Owe(u, g) /\ got' = got
  BY DEF OnClosedGroup
<1>3. Ordered(u) /\ Less(t, u)
  <2> HIDE DEF t
  <2>1. CASE g \in DOMAIN t.closed
    BY <1>1, <2>1 DEF Less
  <2>2. CASE g \notin DOMAIN t.closed
    <3>1. g \notin DOMAIN t.open /\ Behind(t, g)
      BY <1>2, <2>2 DEF IsClosed, Behind
    <3>2. u = RememberClosed(t, g, s)
      BY <2>2
    <3> HIDE DEF u
    <3>3. /\ Ordered(u)
          /\ \A h \in Groups : Behind(t, h) => Behind(u, h)
          /\ \A h \in Groups \ {g} :
               Behind(u, h) \/ Reported(u, h) \subseteq Reported(t, h)
      BY <1>1, <2>2, <3>1, <3>2, RememberedKept
    <3> QED BY <3>1, <3>3 DEF Less
  <2> QED BY <2>1, <2>2
<1> HIDE DEF t, u
<1>4. u.owed \cup {g} \subseteq Groups
  BY <1>3 DEF Ordered
<1>5. Ordered(table') /\ Less(u, table')
  BY <1>2, <1>3, <1>4, OwedKept DEF Owe
<1>6. Less(t, table')
  BY <1>3, <1>5, LessIsTransitive
<1>7. streamOpen' \in BOOLEAN
  BY DEF LedgerInv
<1> QED BY <1>2, <1>5, <1>6, <1>7, LedgerReduced DEF t

LEMMA LedgerRefused ==
  ASSUME LedgerInv, NEW g \in Groups, NEW order \in SetToSeqs(Abandoned(table)),
         Refused(Reclaimed(table, order), g), acked' = acked, streamOpen' = streamOpen
  PROVE  LedgerInv'
<1>1. table' = Reclaimed(table, order) /\ got' = got /\ streamOpen' \in BOOLEAN
  BY DEF Refused, LedgerInv
<1>2. Ordered(table') /\ Less(Reclaimed(table, order), table')
  BY <1>1, LedgerReclaimed DEF Less
<1> QED BY <1>1, <1>2, LedgerReduced

LEMMA LedgerOnOpen ==
  ASSUME LedgerInv, NEW g \in Groups, NEW s \in Nat \ {0},
         NEW order \in SetToSeqs(Abandoned(table)),
         OnOpenGroup(Reclaimed(table, order), g, s),
         acked' = acked, streamOpen' = streamOpen
  PROVE  LedgerInv'
<1> DEFINE t == Reclaimed(table, order)
           group == IF g \in DOMAIN t.open THEN t.open[g]
                    ELSE [cumulative |-> 0, buffered |-> {}, age |-> 0]
           after == Drained(group, s)
           Holding(state) == [t EXCEPT !.open = With(t.open, g, state)]
<1>1. Ordered(t) /\ Less(table, t) /\ Honest(t, got)
  BY LedgerReclaimed
<1>2. g \notin DOMAIN t.closed
  BY DEF OnOpenGroup, IsClosed
<1>3. g \in DOMAIN t.open \/ Cardinality(DOMAIN t.open) < MaxOpenOneShot
  BY DEF OnOpenGroup, AdmitsAnother
<1>4. \/ /\ table' = Holding(group) \/ table' = Owe(Holding(group), g)
               \/ table' = Owe(Close(Holding(group), g), g)
         /\ got' = got
      \/ /\ ~(s <= group.cumulative \/ s \in group.buffered)
         /\ ~(s > group.cumulative + Window) /\ ~Overflows(group)
         /\ table' = Owe(Close(Holding(after), g), g) \/ table' = Owe(Holding(after), g)
         /\ got' = [got EXCEPT ![g] = @ \cup {s}]
  BY DEF OnOpenGroup
<1>5. streamOpen' \in BOOLEAN
  BY DEF LedgerInv
<1> HIDE DEF t
<1>6. Sound(group) /\ Reported(t, g) = 1 .. group.cumulative \cup group.buffered
  <2>1. CASE g \in DOMAIN t.open
    BY <1>1, <1>2, <2>1 DEF Ordered, Reported
  <2>2. CASE g \notin DOMAIN t.open
    <3>1. group = [cumulative |-> 0, buffered |-> {}, age |-> 0]
      BY <2>2
    <3> HIDE DEF group
    <3>2. Held(group) = 0
      BY <3>1, FS_EmptySet DEF Held
    <3>3. group \in Group
      BY <3>1, ReceiveGroupsAssumption DEF Group
    <3> QED BY <1>2, <2>2, <3>1, <3>2, <3>3, ReceiveGroupsAssumption
            DEF Sound, Reported
  <2> QED BY <2>1, <2>2
<1> HIDE DEF group
<1>7. ASSUME NEW state, Sound(state)
      PROVE  LET u == Holding(state)
             IN /\ Ordered(u) /\ g \in DOMAIN u.open
                /\ \A h \in Groups : /\ Behind(u, h) <=> Behind(t, h)
                                     /\ h # g => Reported(u, h) = Reported(t, h)
                /\ Reported(u, g) = 1 .. state.cumulative \cup state.buffered
  BY <1>1, <1>2, <1>3, <1>7, HoldingKept
<1> HIDE DEF Holding
<1>8. ASSUME NEW u, Ordered(u), g \in DOMAIN u.open,
             table' = u \/ table' = Owe(u, g) \/ table' = Owe(Close(u, g), g)
      PROVE  Ordered(table') /\ Less(u, table')
  <2>1. ASSUME NEW v, Ordered(v), Less(u, v)
        PROVE  Ordered(Owe(v, g)) /\ Less(u, Owe(v, g))
    <3>1. v.owed \cup {g} \subseteq Groups
      BY <2>1 DEF Ordered
    <3>2. Ordered(Owe(v, g)) /\ Less(v, Owe(v, g))
      BY <2>1, <3>1, OwedKept DEF Owe
    <3> QED BY <2>1, <3>2, LessIsTransitive
  <2>2. Less(u, u)
    BY DEF Less
  <2>3. Ordered(Close(u, g)) /\ Less(u, Close(u, g))
    BY <1>8, ClosedKept
  <2> QED BY <1>8, <2>1, <2>2, <2>3
<1>9. CASE /\ table' = Holding(group) \/ table' = Owe(Holding(group), g)
                 \/ table' = Owe(Close(Holding(group), g), g)
           /\ got' = got
  <2> DEFINE u == Holding(group)
  <2>1. Ordered(u) /\ g \in DOMAIN u.open /\ Less(t, u)
    BY <1>6, <1>7 DEF Less
  <2>2. table' = u \/ table' = Owe(u, g) \/ table' = Owe(Close(u, g), g)
    BY <1>9
  <2> HIDE DEF u
  <2>3. Ordered(table') /\ Less(t, table')
    BY <2>1, <2>2, <1>8, LessIsTransitive
  <2> QED BY <1>5, <1>9, <2>3, LedgerReduced DEF t
<1>10. CASE /\ ~(s <= group.cumulative \/ s \in group.buffered)
            /\ ~(s > group.cumulative + Window) /\ ~Overflows(group)
            /\ table' = Owe(Close(Holding(after), g), g) \/ table' = Owe(Holding(after), g)
            /\ got' = [got EXCEPT ![g] = @ \cup {s}]
  <2> DEFINE u == Holding(after)
  <2>1. /\ Sound(after)
        /\ 1 .. after.cumulative \cup after.buffered
             \subseteq 1 .. group.cumulative \cup group.buffered \cup {s}
    <3>1. /\ group.cumulative < s /\ s <= group.cumulative + Window
          /\ s \notin group.buffered /\ s \in Nat /\ ~Overflows(group)
      BY <1>6, <1>10, ReceiveGroupsAssumption DEF Sound, Group
    <3> QED BY <1>6, <3>1, DrainedIs
  <2> HIDE DEF after
  <2>2. /\ Ordered(u) /\ g \in DOMAIN u.open
        /\ \A h \in Groups : /\ Behind(u, h) <=> Behind(t, h)
                             /\ h # g => Reported(u, h) = Reported(t, h)
        /\ Reported(u, g) = 1 .. after.cumulative \cup after.buffered
    BY <1>7, <2>1
  <2>3. table' = u \/ table' = Owe(u, g) \/ table' = Owe(Close(u, g), g)
    BY <1>10
  <2>4. /\ got' \in [Groups -> SUBSET Nat] /\ got'[g] = got[g] \cup {s}
        /\ \A h \in Groups \ {g} : got'[h] = got[h]
    BY <1>10 DEF LedgerInv
  <2> HIDE DEF u
  <2>5. Honest(u, got')
    BY <1>1, <1>6, <2>1, <2>2, <2>4 DEF Honest
  <2>6. Ordered(table') /\ Less(u, table')
    BY <1>8, <2>2, <2>3
  <2>7. Honest(table', got')
    BY <2>5, <2>6, LessIsHonest
  <2>8. \A h \in Groups : Behind(table, h) => Behind(table', h)
    BY <1>1, <2>2, <2>6 DEF Less
  <2>9. \A h \in Groups : got[h] \subseteq got'[h]
    BY <2>4
  <2> QED BY <1>5, <2>4, <2>6, <2>7, <2>8, <2>9, LedgerHolds
<1> QED BY <1>4, <1>9, <1>10

LEMMA LedgerTick == ASSUME LedgerInv, Tick PROVE LedgerInv'
<1> DEFINE open == [g \in DOMAIN table.open |-> Aged(table.open[g])]
<1>1. table' = [table EXCEPT !.open = open] /\ UNCHANGED <<got, acked, streamOpen>>
  BY DEF Tick
<1>2. DOMAIN open = DOMAIN table.open
      /\ \A g \in DOMAIN table.open : open[g] = Aged(table.open[g])
  OBVIOUS
<1> HIDE DEF open
<1>3. /\ table'.open = open /\ table'.closed = table.closed /\ Tabled(table')
      /\ table'.evicted = table.evicted /\ table'.order = table.order
      /\ table'.owed = table.owed
  BY <1>1, <1>2 DEF LedgerInv, Ordered, Tabled
<1>4. ASSUME NEW g \in DOMAIN table.open
      PROVE  /\ Sound(open[g]) /\ open[g].cumulative = table.open[g].cumulative
             /\ open[g].buffered = table.open[g].buffered
  <2> DEFINE group == table.open[g]
  <2>1. Sound(group) /\ open[g] = Aged(group)
    BY <1>2 DEF LedgerInv, Ordered
  <2> HIDE DEF group
  <2>2. Aged(group) = [group EXCEPT !.age = IF group.age < Lifetime
                                            THEN group.age + 1 ELSE group.age]
    BY DEF Aged
  <2>3. Aged(group) \in Group /\ Aged(group).cumulative = group.cumulative
        /\ Aged(group).buffered = group.buffered
    BY <2>1, <2>2, ReceiveGroupsAssumption DEF Sound, Group
  <2>4. Sound(Aged(group))
    BY <2>1, <2>3 DEF Sound, Held
  <2> QED BY <2>1, <2>3, <2>4 DEF group
<1>5. Ordered(table')
  BY <1>2, <1>3, <1>4 DEF LedgerInv, Ordered
<1>6. \A h \in Groups : /\ Behind(table', h) <=> Behind(table, h)
                        /\ Reported(table', h) = Reported(table, h)
  BY <1>2, <1>3, <1>4 DEF Behind, Reported
<1>7. Honest(table', got') /\ got' = got /\ acked' = acked /\ streamOpen' = streamOpen
  BY <1>1, <1>6 DEF LedgerInv, Honest
<1>8. got' \in [Groups -> SUBSET Nat] /\ streamOpen' \in BOOLEAN
      /\ \A h \in Groups : got[h] \subseteq got'[h]
  BY <1>7 DEF LedgerInv
<1> QED BY <1>5, <1>6, <1>7, <1>8, LedgerHolds

LEMMA LedgerPoll == ASSUME LedgerInv, Poll PROVE LedgerInv'
<1>1. PICK order \in SetToSeqs(Abandoned(table)) :
        LET t == Reclaimed(table, order)
        IN /\ acked' = [g \in Groups |-> IF g \in t.owed
                                         THEN acked[g] \cup Reported(t, g)
                                         ELSE acked[g]]
           /\ table' = [t EXCEPT !.owed = {}] /\ UNCHANGED <<streamOpen, got>>
  BY DEF Poll
<1> DEFINE t == Reclaimed(table, order)
<1>2. Ordered(t) /\ Less(table, t) /\ Honest(t, got)
  BY LedgerReclaimed
<1>3. /\ table' = [t EXCEPT !.owed = {}] /\ got' = got /\ streamOpen' = streamOpen
      /\ \A g \in Groups : acked'[g] \subseteq acked[g] \cup Reported(t, g)
  BY <1>1
<1> HIDE DEF t
<1>4. Ordered(table') /\ Less(t, table')
  BY <1>2, <1>3, OwedKept
<1>5. Honest(table', got')
  BY <1>2, <1>3, <1>4, LessIsHonest
<1>6. ASSUME NEW g \in Groups PROVE Behind(table', g) \/ acked'[g] \subseteq got'[g]
  <2>1. Behind(table, g) \/ acked[g] \subseteq got[g]
    BY DEF LedgerInv
  <2>2. Behind(t, g) \/ Reported(t, g) \subseteq got[g]
    BY <1>2 DEF Honest
  <2>3. (Behind(table, g) => Behind(t, g)) /\ (Behind(t, g) => Behind(table', g))
    BY <1>2, <1>4 DEF Less
  <2> QED BY <1>3, <2>1, <2>2, <2>3
<1>7. got' \in [Groups -> SUBSET Nat] /\ streamOpen' \in BOOLEAN
  BY <1>3 DEF LedgerInv
<1>8. /\ Ordered(table)' /\ Honest(table, got)'
      /\ \A h \in Groups : (Behind(table, h) \/ acked[h] \subseteq got[h])'
  BY <1>4, <1>5, <1>6 DEF Ordered, Honest, Tabled, Behind, Reported, Sound, Held
<1> QED BY <1>7, <1>8 DEF LedgerInv

LEMMA LedgerStart == GroupsInit => LedgerInv
<1> SUFFICES ASSUME GroupsInit PROVE LedgerInv
  OBVIOUS
<1>1. /\ table.open = << >> /\ table.closed = << >> /\ table.order = << >>
      /\ table.owed = {} /\ Tabled(table) /\ streamOpen \in BOOLEAN
  BY GroupsStart DEF GroupsInit, GroupsInv
<1>2. Cardinality({}) = 0
  BY FS_EmptySet
<1>3. Ordered(table)
  BY <1>1, <1>2, ReceiveGroupsAssumption DEF Ordered, ToSet, IsInjective
<1>4. Honest(table, got)
  BY <1>1 DEF Honest, Reported
<1> QED BY <1>1, <1>3, <1>4 DEF LedgerInv, GroupsInit

LEMMA LedgerStep == LedgerInv /\ [GroupsNext]_groupsVars => LedgerInv'
<1> SUFFICES ASSUME LedgerInv, [GroupsNext]_groupsVars PROVE LedgerInv'
  OBVIOUS
<1>1. ASSUME NEW g \in Groups, NEW s \in 1 .. Length[g], IngestSegment(g, s)
      PROVE  LedgerInv'
  <2>1. s \in Nat /\ s \in Nat \ {0} /\ acked' = acked /\ streamOpen' = streamOpen
    BY <1>1, ReceiveGroupsAssumption DEF IngestSegment
  <2>2. PICK order \in SetToSeqs(Abandoned(table)) :
          LET t == Reclaimed(table, order)
          IN OnClosedGroup(t, g, s) \/ Refused(t, g) \/ OnOpenGroup(t, g, s)
    BY <1>1 DEF IngestSegment
  <2> QED BY <2>1, <2>2, LedgerOnClosed, LedgerRefused, LedgerOnOpen
<1>2. CASE IngestStream
  <2>1. PICK order \in SetToSeqs(Abandoned(table)) : table' = Reclaimed(table, order)
    BY <1>2 DEF IngestStream
  <2>2. got' = got /\ acked' = acked /\ streamOpen' \in BOOLEAN
    BY <1>2 DEF IngestStream
  <2>3. Ordered(table') /\ Less(Reclaimed(table, order), table')
    BY <2>1, LedgerReclaimed DEF Less
  <2> QED BY <2>2, <2>3, LedgerReduced
<1>3. CASE UNCHANGED groupsVars
  BY <1>3 DEF groupsVars, LedgerInv, Ordered, Tabled, Honest, Behind, Reported
<1> QED BY <1>1, <1>2, <1>3, LedgerPoll, LedgerTick DEF GroupsNext

(* Whatever the authenticated peer sprays, the tables stay one ledger: no    *)
(* group outgrows its share, none is open and closed at once, and what an    *)
(* ACK would report was received, until the watermark covers the group.      *)
THEOREM LedgerInvariance == GroupsSpec => []LedgerInv
<1> QED BY LedgerStart, LedgerStep, PTL DEF GroupsSpec

(* The tombstones are the ids in the eviction order, each once, within their *)
(* limit, and no id is open and closed at once.                              *)
THEOREM GroupsTyped == GroupsSpec => []GroupsTypeOK
<1>1. LedgerInv => GroupsTypeOK
  BY DEF LedgerInv, Ordered, Tabled, Sound, GroupsTypeOK
<1> QED BY <1>1, LedgerInvariance, PTL

(* The open one-shot groups hold no more than the budget, each no more than  *)
(* the share admission reserved for it.                                      *)
THEOREM BudgetHolds == GroupsSpec => []HeldWithinBudget
<1>1. LedgerInv => HeldWithinBudget
  BY DEF LedgerInv, Ordered, Sound, HeldWithinBudget
<1> QED BY <1>1, LedgerInvariance, PTL

(* Until the watermark covers a group, an ACK reports only what came in.     *)
THEOREM ReportsAreTrue == GroupsSpec => []AckedWasReceived
<1>1. LedgerInv => AckedWasReceived
  BY DEF LedgerInv, Behind, AckedWasReceived
<1> QED BY <1>1, LedgerInvariance, PTL
=============================================================================
