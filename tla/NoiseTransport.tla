--------------------------- MODULE NoiseTransport ---------------------------
(***************************************************************************)
(* One direction of one channel of NoiseTransport.swift: the extended      *)
(* counter rebuilt from the seq on the wire, the replay window, the resync *)
(* after a long gap and the grace of a rekey.                              *)
(*                                                                         *)
(* A datagram carries its seq; what the AEAD binds, the counter and epoch  *)
(* it was sealed under, opens exactly when the receiver tries both.  A     *)
(* datagram, once sealed, may arrive at any time and any number of times,  *)
(* or never; a damaged one opens under nothing.                            *)
(***************************************************************************)
EXTENDS SerialNumbers, FiniteSets

CONSTANTS
  SeqSpace,   \* values of a ChannelSeq (65,536)
  FirstSeq,   \* the seq of the channel's first datagram
  WindowBits, \* windowBitCount (64)
  Threshold,  \* resyncFailureThreshold (8)
  Wraps,      \* resyncWrapCount (4)
  Damaged,    \* bound: the seqs a damaged datagram may claim
  MaxCounter, \* bound: counters of one session
  MaxEpoch    \* bound: rekeys of one session

ASSUME NoiseAssumption ==
  /\ SeqSpace \in Nat \ {0} /\ FirstSeq \in 0 .. SeqSpace - 1
  /\ WindowBits \in Nat \ {0} /\ 2 * WindowBits <= SeqSpace
  /\ Threshold \in Nat /\ Wraps \in Nat
  /\ Damaged \subseteq 0 .. SeqSpace - 1
  /\ MaxCounter \in Nat /\ MaxEpoch \in Nat

VARIABLES
  sent,      \* datagrams sealed
  newest,    \* send tracker: highest
  sendEpoch, \* send.epoch
  highest,   \* receive tracker: highest, None when nil
  window,    \* receive tracker: the counters whose bit is set
  failures,  \* failuresSinceAccept, up to the threshold
  epoch,     \* receive.epoch
  opened,    \* history: the datagrams opened
  repeated   \* history: one of them was opened again

receiver == <<highest, window, failures, opened, repeated>>
noiseVars == <<sent, newest, sendEpoch, epoch, receiver>>

None == -1

NoiseInit ==
  /\ sent = {} /\ newest = None /\ sendEpoch = 0
  /\ highest = None /\ window = {} /\ failures = 0 /\ epoch = 0
  /\ opened = {} /\ repeated = FALSE

-----------------------------------------------------------------------------
(* ExtendedCounterTracker.                                                 *)

Seq16(counter) == counter % SeqSpace

\* Fault: the counter never steps back over a wrap.
ExtendedForward(anchor, seq) ==
  IF anchor = None THEN seq
  ELSE anchor + ((seq - Seq16(anchor)) % SeqSpace)

\* extendedCounter(for:); None when it would lie before the session.
Extended(anchor, seq) ==
  IF anchor = None THEN seq
  ELSE LET c == anchor + SerialDistance(SeqSpace, Seq16(anchor), seq)
       IN IF c < 0 THEN None ELSE c

\* verdict(for:): older than the window, or in it and marked.
Stale(c) == highest # None /\ highest - c >= WindowBits
Replayed(c) == ~Stale(c) /\ c \in window

\* Fault: one wrap too few.
CandidatesShort(seq) ==
  LET ahead == (seq - Seq16(highest)) % SeqSpace
      base == IF highest = None THEN seq
              ELSE highest + (IF ahead = 0 THEN SeqSpace ELSE ahead)
  IN {base + i * SeqSpace : i \in 0 .. Wraps - 1} \ {Extended(highest, seq)}

\* resyncCandidates(for:): the counters ahead of the anchor with this seq.
Candidates(seq) ==
  LET ahead == (seq - Seq16(highest)) % SeqSpace
      base == IF highest = None THEN seq
              ELSE highest + (IF ahead = 0 THEN SeqSpace ELSE ahead)
  IN {base + i * SeqSpace : i \in 0 .. Wraps} \ {Extended(highest, seq)}

\* Fault: a straggler's bit is lost.
WindowAfterForgetting(c) ==
  IF highest # None /\ c < highest THEN window
  ELSE {d \in window \cup {c} : d > c - WindowBits}

\* accept: the window after c.
WindowAfter(c) ==
  LET top == IF highest = None \/ c > highest THEN c ELSE highest
  IN {d \in window \cup {c} : d > top - WindowBits}

-----------------------------------------------------------------------------
(* The sender.                                                             *)

\* seal of the channel's next seq.
Seal ==
  LET seq == IF newest = None THEN FirstSeq ELSE Seq16(newest + 1)
      c == Extended(newest, seq)
  IN /\ c # None /\ c > newest /\ c <= MaxCounter
     /\ sent' = sent \cup {[counter |-> c, epoch |-> sendEpoch]}
     /\ newest' = c
     /\ UNCHANGED <<sendEpoch, epoch, receiver>>

\* rekeySend.
RekeySend ==
  /\ sendEpoch < MaxEpoch
  /\ sendEpoch' = sendEpoch + 1
  /\ UNCHANGED <<sent, newest, epoch, receiver>>

-----------------------------------------------------------------------------
(* The receiver.                                                           *)

\* openTryingEpochs: the current key, then the previous one.
OpensOrdinarily(d) ==
  LET c == Extended(highest, Seq16(d.counter))
  IN /\ c # None /\ ~Stale(c) /\ ~Replayed(c)
     /\ d.counter = c /\ d.epoch \in {epoch, epoch - 1}

\* An ordinary attempt that failed for any reason but a replay.
FailsOrdinarily(d) ==
  LET c == Extended(highest, Seq16(d.counter))
  IN ~OpensOrdinarily(d) /\ (c = None \/ ~Replayed(c))

\* resyncOpen, once enough datagrams have failed: the current key only.
OpensByResync(d) ==
  /\ failures >= Threshold /\ FailsOrdinarily(d)
  /\ d.counter \in Candidates(Seq16(d.counter)) /\ d.epoch = epoch

Opens(d) == OpensOrdinarily(d) \/ OpensByResync(d)

\* noteFailure.
NoteFailure ==
  failures' = IF failures < Threshold THEN failures + 1 ELSE failures

\* unseal of a datagram that opens.
UnsealOpens(d) ==
  /\ Opens(d)
  /\ highest' = IF d.counter > highest THEN d.counter ELSE highest
  /\ window' = WindowAfter(d.counter)
  /\ failures' = 0
  /\ opened' = opened \cup {d} /\ repeated' = (repeated \/ d \in opened)
  /\ UNCHANGED <<sent, newest, sendEpoch, epoch>>

\* unseal of one that does not.
UnsealFails(d) ==
  /\ ~Opens(d) /\ FailsOrdinarily(d)
  /\ NoteFailure
  /\ UNCHANGED <<sent, newest, sendEpoch, epoch, highest, window, opened, repeated>>

\* unseal of a damaged datagram, whatever its seq says.
UnsealDamaged(seq) ==
  LET c == Extended(highest, seq)
  IN /\ c = None \/ ~Replayed(c)
     /\ NoteFailure
     /\ UNCHANGED <<sent, newest, sendEpoch, epoch, highest, window, opened, repeated>>

\* rekeyReceive, after the sender's.
RekeyReceive ==
  /\ epoch < sendEpoch
  /\ epoch' = epoch + 1
  /\ UNCHANGED <<sent, newest, sendEpoch, receiver>>

NoiseNext ==
  \/ Seal \/ RekeySend \/ RekeyReceive
  \/ \E d \in sent : UnsealOpens(d) \/ UnsealFails(d)
  \/ \E seq \in Damaged : UnsealDamaged(seq)

NoiseSpec == NoiseInit /\ [][NoiseNext]_noiseVars

-----------------------------------------------------------------------------
(* Properties.                                                             *)

Datagram == [counter : Nat, epoch : Nat]

NoiseTypeOK ==
  /\ sent \subseteq Datagram /\ newest \in Nat \cup {None} /\ sendEpoch \in Nat
  /\ opened \subseteq sent /\ highest \in Nat \cup {None}
  /\ window \subseteq Nat /\ \A c \in window : c <= highest
  /\ \A c \in window : c > highest - WindowBits
  /\ failures \in 0 .. Threshold /\ epoch \in 0 .. sendEpoch
  /\ repeated \in BOOLEAN

\* Each extended counter is admitted once, across reordering, long gaps,
\* resyncs and rekeys (header of NoiseTransport.swift).
EachOnce == ~repeated

\* The window is what was opened within its length of the anchor, and the
\* anchor the newest of what was opened: a seq that opens nothing, however
\* far ahead it claims to be, moves neither.
WindowTruthful ==
  /\ window = {d.counter : d \in {e \in opened : e.counter > highest - WindowBits}}
  /\ \A d \in opened : d.counter <= highest
  /\ highest # None => \E d \in opened : d.counter = highest

\* Counters are never sealed twice, nor out of order.
SealedOnce ==
  /\ \A d \in sent : d.counter <= newest /\ d.epoch <= sendEpoch
  /\ \A d, e \in sent : d.counter = e.counter => d = e

\* The inductive invariant.
NoiseInv == NoiseTypeOK /\ EachOnce /\ WindowTruthful /\ SealedOnce

\* Nothing WindowBits or more behind the newest opened is opened: what the
\* channels above may count on about the age of a datagram.
NothingStaleOpened ==
  [][\A d \in opened' \ opened :
       highest = None \/ d.counter > highest - WindowBits]_noiseVars

\* A datagram under a key the receiver holds, no further behind the anchor
\* than the window nor ahead of it than half the seq space.
WithinOrdinaryReach(d) ==
  /\ highest # None /\ d.epoch \in {epoch, epoch - 1}
  /\ d.counter > highest - WindowBits /\ 2 * (d.counter - highest) < SeqSpace

\* Reorder inside the window, gaps below half the seq space and a rekey in
\* between lose nothing: such a datagram opens, unless it was opened already.
OrdinaryOpens ==
  \A d \in sent \ opened : WithinOrdinaryReach(d) => OpensOrdinarily(d)

\* Reach of a resync under the current key: the nearest counter ahead of the
\* anchor with some seq, and Wraps wraps beyond it.
WithinResyncReach(d) ==
  /\ d.epoch = epoch
  /\ d.counter > highest
  /\ IF highest = None THEN d.counter < (Wraps + 1) * SeqSpace
     ELSE d.counter - highest <= (Wraps + 1) * SeqSpace

\* Its ordinary counter is one the window has marked.
ReadsAsReplay(d) == Replayed(Extended(highest, Seq16(d.counter)))

\* The anchor is never lost for good: once enough datagrams have failed, any
\* newer one within reach opens, but for one whose ordinary counter is a
\* replay.
ResyncReaches ==
  failures >= Threshold =>
    \A d \in sent :
      (WithinResyncReach(d) /\ ~ReadsAsReplay(d)) => Opens(d)

\* The same without the exception.  The comment on ExtendedCounterTracker says
\* that past a long gap "every later datagram reads as stale or opens under
\* the wrong counter" and that after the failures the receiver "therefore also
\* tries the forward wraps of the same seq".
ResyncTriesEvery ==
  failures >= Threshold =>
    \A d \in sent : WithinResyncReach(d) => Opens(d)
=============================================================================
