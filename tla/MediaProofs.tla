----------------------------- MODULE MediaProofs -----------------------------
(* Theorems about what flows through a session.                               *)
(*                                                                            *)
(* VideoRecovery: two gates under two locks, the session's episode and the    *)
(* handoff's await-IRAP gate, that threads half way with a unit close and     *)
(* open.  The invariant says what each gate knows of the other, and where the *)
(* first key frame is before anything was handed over: a unit may wait in the *)
(* queue, in the jobs or past the session's gate, and only the first of them  *)
(* matters.                                                                   *)
(*                                                                            *)
(* InputPath: what is held is told by the policy's books, by the wire and by  *)
(* the host's devices.  The invariant says that the wire takes the devices to *)
(* what the books believe, which every step of every handler keeps.           *)
(*                                                                            *)
(* AudioRouting: the user's default sink is asked for, switched and put back  *)
(* by round trips over a connection that answers late.  The invariant says    *)
(* where the answer a trip waits for may still be, among the requests or the  *)
(* events, and that it comes before the trip's own sync or done.              *)
EXTENDS VideoRecovery, InputPath, AudioRouting, FiniteSetTheorems, SequenceTheorems,
        TLAPS

USE BoundsAreCounts DEF None, Stale

Units == [kind : {"unit"}, n : 0 .. FrameSpace - 1, key : BOOLEAN]
Handoffs == [awaiting : BOOLEAN, pending : BOOLEAN, queue : Seq(Units),
             flushing : BOOLEAN, requesting : BOOLEAN]
SessionStates == [open : BOOLEAN, ask : BOOLEAN]
Renderers == [failed : BOOLEAN, sick : BOOLEAN, last : 0 .. FrameSpace + 1,
              broken : BOOLEAN]
Streams == [next : 0 .. FrameSpace - 1, joined : BOOLEAN, primed : BOOLEAN,
            faults : Nat]
Worlds == [h : Handoffs, s : SessionStates, r : Renderers]

(* What the threads hold is well formed.                                     *)
Holding ==
  /\ todo \in [Threads -> Seq(Units \cup {Gone})]
  /\ posting \in [Threads -> BOOLEAN] /\ built \in Seq(Units)
  /\ admitted \in Units \cup {NoUnit} /\ jobs \in Seq(Units \cup {Begin})
  /\ World \in Worlds /\ coming \in BOOLEAN
  /\ stream \in Streams

(* The handoff's gate awaits a key frame with an empty queue and the         *)
(* session's episode open, or holds one at the head of its queue; a flush is *)
(* outstanding only while it awaits.                                         *)
Shut(w) == w.h.awaiting /\ ~w.h.pending
Gate(w) == /\ w.h.pending \/ w.h.flushing => w.h.awaiting
           /\ Shut(w) => w.h.queue = <<>>
           /\ w.h.pending => w.h.queue # <<>> /\ Head(w.h.queue).key
Backed(w) == Gate(w) /\ (Shut(w) => w.s.open)

(* Before anything was handed over or discarded, the first unit past the     *)
(* session's gate, wherever it got to, is a key frame.                       *)
Fresh(w) == ~w.h.awaiting /\ w.r.last = None
KeyFirst(js) == \E i \in DOMAIN js : /\ js[i] # Begin /\ js[i].key
                                    /\ \A j \in 1 .. i - 1 : js[j] = Begin
Blank(js) == \A i \in DOMAIN js : js[i] = Begin
Waits(js, unit, primed) ==
  KeyFirst(js) \/ (Blank(js) /\ IF unit = NoUnit THEN ~primed ELSE unit.key)
FirstIsKey ==
  Fresh(World) =>
    \/ handoff.queue # <<>> /\ Head(handoff.queue).key
    \/ handoff.queue = <<>> /\ Waits(jobs, admitted, stream.primed)

VideoInv == Holding /\ Backed(World) /\ FirstIsKey

-----------------------------------------------------------------------------
LEMMA SeqFacts ==
  ASSUME NEW S, NEW s \in Seq(S), NEW e \in S
  PROVE  /\ << >> \in Seq(S)
         /\ <<e>> \in Seq(S) /\ <<e>> # << >> /\ Head(<<e>>) = e
         /\ Append(s, e) \in Seq(S) /\ Append(s, e) # << >>
         /\ Head(Append(s, e)) = IF s = << >> THEN e ELSE Head(s)
<1>1. /\ << >> \in Seq(S) /\ <<e>> \in Seq(S) /\ <<e>> # << >> /\ Head(<<e>>) = e
  OBVIOUS
<1>2. /\ Append(s, e) \in Seq(S) /\ Append(s, e) # << >>
  BY AppendProperties
<1>3. CASE s = << >>
  <2>1. Append(s, e) = <<e>>
    BY <1>3
  <2> QED BY <1>1, <1>2, <1>3, <2>1
<1>4. CASE s # << >>
  BY <1>2, <1>4
<1> QED BY <1>1, <1>2, <1>3, <1>4

LEMMA NumbersAre ==
  /\ NoUnit \notin Units /\ Begin \notin Units /\ Gone \notin Units
  /\ \A u \in Units : u.n # None
  /\ \A n \in Nat : Wrapped(n) \in 0 .. FrameSpace - 1
<1>1. NoUnit \notin Units /\ Begin \notin Units /\ Gone \notin Units
  BY DEF NoUnit, Unit, Units, Begin, Gone
<1>2. \A n \in Nat : Wrapped(n) \in 0 .. FrameSpace - 1
  BY DEF Wrapped
<1> QED BY <1>1, <1>2 DEF Units

(* Whatever voids the episode leaves the gate awaiting, empty-handed.        *)
LEMMA VoidIs ==
  ASSUME NEW w \in Worlds, Gate(w), NEW asks \in BOOLEAN
  PROVE  /\ Void(w, asks) \in Worlds /\ Gate(Void(w, asks)) /\ Shut(Void(w, asks))
         /\ asks /\ Backed(w) => Backed(Void(w, asks))
         /\ Void(w, asks).r.last \in {None, w.r.last}
<1> DEFINE v == Void(w, asks)
<1>1. CASE ~StartsRecovery(w.h)
  BY <1>1 DEF Void, StartsRecovery, Gate, Shut, Worlds, Handoffs
<1>2. CASE StartsRecovery(w.h)
  <2>1. v = [h |-> [awaiting |-> TRUE, pending |-> FALSE, queue |-> << >>,
                    flushing |-> TRUE, requesting |-> FALSE],
             s |-> IF asks THEN Demanded(w.s) ELSE w.s,
             r |-> [w.r EXCEPT !.last = None]]
    BY <1>2 DEF Void, Worlds, Handoffs
  <2>2. Demanded(w.s) \in SessionStates /\ Demanded(w.s).open
    BY DEF Demanded, Worlds, SessionStates
  <2>3. [w.r EXCEPT !.last = None] \in Renderers
          /\ [w.r EXCEPT !.last = None].last = None
    BY DEF Worlds, Renderers
  <2> DEFINE g == [awaiting |-> TRUE, pending |-> FALSE, queue |-> << >>,
                   flushing |-> TRUE, requesting |-> FALSE]
             d == IF asks THEN Demanded(w.s) ELSE w.s
  <2>6. g \in Handoffs /\ d \in SessionStates /\ (asks => d.open)
    BY <2>2 DEF Handoffs, Worlds
  <2>7. v = [h |-> g, s |-> d, r |-> [w.r EXCEPT !.last = None]]
    BY <2>1
  <2> HIDE DEF g, d, v
  <2>4. v \in Worlds /\ v.r.last = None /\ (asks => v.s.open)
    BY <2>3, <2>6, <2>7 DEF Worlds
  <2>5. Gate(v) /\ Shut(v)
    BY <2>1 DEF Gate, Shut
  <2> QED BY <2>4, <2>5 DEF Backed, v
<1> QED BY <1>1, <1>2

(* What is said of a world w that became v: it still has its first unit.     *)
FirstStays(w, v, unit) ==
  Fresh(v) => /\ Fresh(w) /\ v.h.queue # << >>
              /\ \/ Head(v.h.queue).key
                 \/ w.h.queue # << >> /\ Head(v.h.queue) = Head(w.h.queue)
                 \/ w.h.queue = << >> /\ Head(v.h.queue) = unit

LEMMA OfferedIs ==
  ASSUME NEW w \in Worlds, Gate(w), NEW unit \in Units, NEW late \in BOOLEAN,
         Backed(w) \/ (Shut(w) /\ unit.key)
  PROVE  LET v == Offered(w, unit, late)
         IN /\ v \in Worlds /\ Backed(v) /\ v.r.last \in {None, w.r.last}
            /\ FirstStays(w, v, unit)
<1> DEFINE v == Offered(w, unit, late)
<1>1. /\ w.h \in Handoffs /\ w.h.queue \in Seq(Units) /\ w.s \in SessionStates
      /\ w.r \in Renderers /\ unit.key \in BOOLEAN
  BY DEF Worlds, Handoffs, Units
<1>2. /\ <<unit>> \in Seq(Units) /\ <<unit>> # << >> /\ Head(<<unit>>) = unit
      /\ Append(w.h.queue, unit) \in Seq(Units) /\ Append(w.h.queue, unit) # << >>
      /\ Head(Append(w.h.queue,
          unit)) = IF w.h.queue = << >> THEN unit ELSE Head(w.h.queue)
  BY <1>1, SeqFacts
<1>3. CASE Shut(w) /\ unit.key
  <2>1. v = [w EXCEPT !.h = [w.h EXCEPT !.pending = TRUE, !.queue = <<unit>>]]
    BY <1>3 DEF Offered, Shut
  <2> DEFINE g == [w.h EXCEPT !.pending = TRUE, !.queue = <<unit>>]
  <2>2. /\ g \in Handoffs /\ g.pending /\ g.queue = <<unit>> /\ g.awaiting
        /\ g.flushing = w.h.flushing
    BY <1>1, <1>2, <1>3 DEF Handoffs, Shut
  <2> HIDE DEF g
  <2>3. v \in Worlds /\ v.h = g /\ v.r = w.r
    BY <2>1, <2>2 DEF Worlds, g
  <2> QED BY <1>2, <1>3, <2>2, <2>3 DEF Backed, Gate, Shut, FirstStays, Fresh
<1>4. CASE Shut(w) /\ ~unit.key
  BY <1>4 DEF Offered, Shut, FirstStays, Fresh
<1>5. CASE ~Shut(w) /\ Len(w.h.queue) < Depth /\ (late => w.h.queue = << >>)
  <2> DEFINE g == [w.h EXCEPT !.queue = Append(w.h.queue, unit)]
  <2>1. v = [w EXCEPT !.h = g]
    BY <1>5 DEF Offered, Shut, Worlds, Handoffs
  <2>2. /\ g \in Handoffs /\ g.pending = w.h.pending /\ g.awaiting = w.h.awaiting
        /\ g.flushing = w.h.flushing /\ g.queue = Append(w.h.queue, unit)
    BY <1>1, <1>2 DEF Handoffs
  <2> HIDE DEF g
  <2>3. v \in Worlds /\ v.h = g /\ v.r = w.r /\ v.s = w.s
    BY <2>1, <2>2 DEF Worlds
  <2> HIDE DEF v
  <2>4. Backed(v)
    BY <1>2, <1>5, <2>2, <2>3 DEF Backed, Gate, Shut
  <2>5. FirstStays(w, v, unit)
    BY <1>2, <2>2, <2>3 DEF FirstStays, Fresh
  <2> QED BY <2>3, <2>4, <2>5 DEF v
<1>6. CASE /\ ~Shut(w) /\ ~(Len(w.h.queue) < Depth /\ (late => w.h.queue = << >>))
           /\ unit.key
  <2> DEFINE g == [w.h EXCEPT !.queue = <<unit>>]
  <2>1. v = [w EXCEPT !.h = g]
    BY <1>6 DEF Offered, Shut, Worlds, Handoffs
  <2>2. /\ g \in Handoffs /\ g.pending = w.h.pending /\ g.awaiting = w.h.awaiting
        /\ g.flushing = w.h.flushing /\ g.queue = <<unit>>
    BY <1>1, <1>2 DEF Handoffs
  <2> HIDE DEF g
  <2>3. v \in Worlds /\ v.h = g /\ v.r = w.r /\ v.s = w.s
    BY <2>1, <2>2 DEF Worlds
  <2> HIDE DEF v
  <2>4. Backed(v)
    BY <1>2, <1>6, <2>2, <2>3 DEF Backed, Gate, Shut
  <2>5. FirstStays(w, v, unit)
    BY <1>2, <1>6, <2>2, <2>3 DEF FirstStays, Fresh
  <2> QED BY <2>3, <2>4, <2>5 DEF v
<1>7. CASE /\ ~Shut(w) /\ ~(Len(w.h.queue) < Depth /\ (late => w.h.queue = << >>))
           /\ ~unit.key
  <2>1. v = Void(w, TRUE)
    BY <1>7 DEF Offered, Shut
  <2>2. v \in Worlds /\ Backed(v) /\ Shut(v) /\ v.r.last \in {None, w.r.last}
    BY <1>7, <2>1, VoidIs
  <2> QED BY <2>2 DEF FirstStays, Fresh, Shut
<1> QED BY <1>1, <1>3, <1>4, <1>5, <1>6, <1>7

LEMMA ArmedIs ==
  ASSUME NEW w \in Worlds
  PROVE  /\ Armed(w) \in Worlds /\ Armed(w).s = w.s /\ Armed(w).r = w.r
         /\ \E r \in BOOLEAN : Armed(w).h = [w.h EXCEPT !.requesting = r]
         /\ Backed(w) => Backed(Armed(w))
         /\ Armed(w).h.queue = w.h.queue /\ Armed(w).h.awaiting = w.h.awaiting
<1>1. PICK r \in BOOLEAN : Armed(w) = [w EXCEPT !.h = [w.h EXCEPT !.requesting = r]]
  BY DEF Armed, Worlds, Handoffs
<1>2. /\ [w.h EXCEPT !.requesting = r] \in Handoffs
      /\ \A f \in {"awaiting", "pending", "queue", "flushing"} :
           [w.h EXCEPT !.requesting = r][f] = w.h[f]
  BY DEF Worlds, Handoffs
<1> QED BY <1>1, <1>2 DEF Worlds, Handoffs, Backed, Gate, Shut

LEMMA AcceptedIs ==
  ASSUME NEW w \in Worlds, Backed(w), NEW unit \in Units,
         NEW debt \in BOOLEAN, NEW late \in BOOLEAN
  PROVE  LET v == Accepted(w, unit, debt, late)
         IN /\ v \in Worlds /\ Backed(v) /\ v.r.last \in {None, w.r.last}
            /\ FirstStays(w, v, unit)
<1> DEFINE fit == IF debt \/ w.r.failed THEN Void(w, ~unit.key) ELSE w
           o == Offered(fit, unit, late)
<1>1. unit.key \in BOOLEAN /\ Gate(w)
  BY DEF Units, Backed
<1>2. /\ fit \in Worlds /\ Gate(fit) /\ fit.r.last \in {None, w.r.last}
      /\ Backed(fit) \/ (Shut(fit) /\ unit.key)
      /\ fit = w \/ Shut(fit)
  BY <1>1, VoidIs
<1>3. /\ o \in Worlds /\ Backed(o) /\ o.r.last \in {None, fit.r.last}
      /\ FirstStays(fit, o, unit)
  BY <1>2, OfferedIs
<1>4. Accepted(w, unit, debt, late) = Armed(o)
  BY DEF Accepted
<1> HIDE DEF fit, o
<1>5. FirstStays(w, o, unit)
  BY <1>2, <1>3 DEF FirstStays, Fresh, Shut
<1> QED BY <1>2, <1>3, <1>4, <1>5, ArmedIs DEF FirstStays, Fresh

-----------------------------------------------------------------------------
(* The handoff's jobs.                                                       *)

Jobs == Units \cup {Begin}

LEMMA WaitsAppend ==
  ASSUME NEW js \in Seq(Jobs), NEW unit, NEW primed, Waits(js, unit, primed)
  PROVE  /\ Waits(Append(js, Begin), unit, primed)
         /\ unit \in Units => Waits(Append(js, unit), NoUnit, primed)
<1> SUFFICES ASSUME NEW job \in Jobs, job = Begin \/ job = unit
             PROVE  Waits(Append(js, job), IF job = Begin THEN unit ELSE NoUnit,
                    primed)
  BY NumbersAre DEF Jobs
<1> DEFINE ks == Append(js, job)
<1>1. /\ Len(js) \in Nat /\ DOMAIN js = 1 .. Len(js)
      /\ DOMAIN ks = 1 .. Len(js) + 1
      /\ \A i \in 1 .. Len(js) : ks[i] = js[i]
      /\ ks[Len(js) + 1] = job
  BY AppendProperties, LenProperties
<1> HIDE DEF ks
<1>2. CASE KeyFirst(js)
  <2>1. KeyFirst(ks)
    BY <1>1, <1>2 DEF KeyFirst
  <2> QED BY <2>1 DEF Waits, ks
<1>3. CASE ~KeyFirst(js) /\ job = Begin
  <2>1. Blank(ks)
    BY <1>1, <1>3 DEF Waits, Blank
  <2> QED BY <1>3, <2>1 DEF Waits, ks
<1>4. CASE ~KeyFirst(js) /\ job # Begin
  <2>1. job \in Units /\ job = unit /\ unit # NoUnit
    BY <1>4, NumbersAre DEF Jobs
  <2>2. Blank(js) /\ job.key
    BY <1>4, <2>1 DEF Waits
  <2>3. KeyFirst(ks)
    BY <1>1, <1>4, <2>2 DEF KeyFirst, Blank
  <2> QED BY <2>3 DEF Waits, ks
<1> QED BY <1>2, <1>3, <1>4

LEMMA WaitsTail ==
  ASSUME NEW js \in Seq(Jobs), js # << >>, NEW unit, NEW primed,
         Waits(js, unit, primed)
  PROVE  IF Head(js) = Begin THEN Waits(Tail(js), unit, primed) ELSE Head(js).key
<1> DEFINE ks == Tail(js)
<1>1. /\ Len(js) \in Nat /\ Len(js) > 0 /\ DOMAIN js = 1 .. Len(js)
      /\ DOMAIN ks = 1 .. Len(js) - 1 /\ Head(js) = js[1]
      /\ \A i \in 1 .. Len(js) - 1 : ks[i] = js[i + 1]
  BY HeadTailProperties, LenProperties
<1> HIDE DEF ks
<1>2. CASE Head(js) = Begin
  <2>1. CASE KeyFirst(js)
    <3>1. PICK i \in 1 .. Len(js) : /\ js[i] # Begin /\ js[i].key
                                    /\ \A j \in 1 .. i - 1 : js[j] = Begin
      BY <1>1, <2>1 DEF KeyFirst
    <3>2. i - 1 \in 1 .. Len(js) - 1 /\ ks[i - 1] = js[i]
      BY <1>1, <1>2, <3>1
    <3>3. \A j \in 1 .. (i - 1) - 1 : ks[j] = Begin
      <4> TAKE j \in 1 .. (i - 1) - 1
      <4>1. j \in 1 .. Len(js) - 1 /\ j + 1 \in 1 .. i - 1
        BY <1>1, <3>1
      <4> QED BY <1>1, <3>1, <4>1
    <3>4. KeyFirst(ks)
      BY <1>1, <3>1, <3>2, <3>3 DEF KeyFirst
    <3> QED BY <1>2, <3>4 DEF Waits, ks
  <2>2. CASE ~KeyFirst(js)
    <3>1. Blank(ks)
      BY <1>1, <2>2 DEF Waits, Blank
    <3> QED BY <1>2, <2>2, <3>1 DEF Waits, ks
  <2> QED BY <2>1, <2>2
<1>3. CASE Head(js) # Begin
  <2>1. PICK i \in 1 .. Len(js) : /\ js[i] # Begin /\ js[i].key
                                  /\ \A j \in 1 .. i - 1 : js[j] = Begin
    BY <1>1, <1>3 DEF Waits, Blank, KeyFirst
  <2>2. i = 1
    BY <1>1, <1>3, <2>1
  <2> QED BY <1>1, <1>3, <2>1, <2>2
<1> QED BY <1>2, <1>3

-----------------------------------------------------------------------------
(* Every action keeps the invariant, and only the drain hands a sample to a  *)
(* renderer that was handed none since a flush.                              *)

Keeps == VideoInv' /\ (renderer.last = None => renderer'.last = None)

LEMMA AsideKeeps ==
  ASSUME VideoInv, Holding', handoff' = handoff,
         session.open => session'.open,
         renderer'.last = None <=> renderer.last = None,
         Waits(jobs, admitted, stream.primed)
           => Waits(jobs', admitted', stream'.primed)
  PROVE  Keeps
<1>1. Backed(World)'
  BY DEF VideoInv, Backed, Gate, Shut, World
<1>2. FirstIsKey'
  BY DEF VideoInv, FirstIsKey, Fresh, World
<1> QED BY <1>1, <1>2 DEF VideoInv, Keeps

LEMMA VideoStarts == VideoInit => VideoInv
<1> SUFFICES ASSUME VideoInit PROVE VideoInv
  OBVIOUS
<1>1. /\ handoff = [awaiting |-> FALSE, pending |-> FALSE, queue |-> <<>>,
                    flushing |-> FALSE, requesting |-> FALSE]
      /\ session = [open |-> FALSE, ask |-> FALSE]
      /\ renderer = [failed |-> FALSE, sick |-> FALSE, last |-> None,
          broken |-> FALSE]
      /\ stream = [next |-> 0, joined |-> FALSE, primed |-> FALSE,
          faults |-> Faults]
      /\ jobs = <<>> /\ admitted = NoUnit
  BY DEF VideoInit
<1>2. handoff \in Handoffs /\ session \in SessionStates /\ renderer \in Renderers
  BY <1>1 DEF Handoffs, SessionStates, Renderers
<1>3. World \in Worlds
  BY <1>2 DEF World, Worlds
<1>4. Holding
  BY <1>1, <1>3 DEF VideoInit, Holding, Streams
<1>5. Backed(World)
  BY <1>1 DEF Backed, Gate, Shut, World
<1>6. FirstIsKey
  BY <1>1 DEF FirstIsKey, Waits, Blank
<1> QED BY <1>4, <1>5, <1>6 DEF VideoInv

LEMMA HoldingIs ==
  ASSUME Holding
  PROVE  /\ handoff \in Handoffs /\ handoff.queue \in Seq(Units)
         /\ session \in SessionStates /\ renderer \in Renderers
         /\ World.h = handoff /\ World.s = session /\ World.r = renderer
BY DEF Holding, World, Worlds, Handoffs

(* Holding' from its parts.                                                  *)
LEMMA HoldingBy ==
  ASSUME todo' \in [Threads -> Seq(Units \cup {Gone})],
         posting' \in [Threads -> BOOLEAN], built' \in Seq(Units),
         admitted' \in Units \cup {NoUnit}, jobs' \in Seq(Units \cup {Begin}),
         handoff' \in Handoffs, session' \in SessionStates, renderer' \in Renderers,
         coming' \in BOOLEAN,
         stream' \in Streams
  PROVE  Holding'
BY DEF Holding, World, Worlds

LEMMA AskKeeps == ASSUME VideoInv, Retry \/ HostHears \/ AskLost PROVE Keeps
<1>1. /\ UNCHANGED <<todo, posting, built, admitted, jobs, handoff, renderer,
         stream>>
      /\ coming' \in BOOLEAN /\ session' \in SessionStates
          /\ session'.open = session.open
  BY HoldingIs DEF Retry, HostHears, AskLost, pipeline, VideoInv, Holding,
       SessionStates
<1>2. Holding'
  BY <1>1, HoldingIs, HoldingBy DEF VideoInv, Holding
<1> QED BY <1>1, <1>2, AsideKeeps

LEMMA ForgetIs ==
  ASSUME Holding, NEW last,
         last = renderer.last
           \/ (last = Stale /\ renderer.last \in 0 .. FrameSpace - 1)
  PROVE  /\ [renderer EXCEPT !.last = last] \in Renderers
         /\ [renderer EXCEPT !.last = last].last = None <=> renderer.last = None
<1>1. renderer \in Renderers
  BY HoldingIs
<1>2. last \in 0 .. FrameSpace + 1 /\ (last = None <=> renderer.last = None)
  BY <1>1 DEF Renderers
<1> QED BY <1>1, <1>2 DEF Renderers

LEMMA ArriveKeeps ==
  ASSUME VideoInv, NEW isKey \in BOOLEAN, Arrive(isKey) PROVE Keeps
<1>1. /\ stream.next \in 0 .. FrameSpace - 1 /\ Holding
  BY DEF VideoInv, Holding, Streams
<1>2. <<Unit(stream.next, isKey)>> \in Seq(Units \cup {Gone})
  <2>1. Unit(stream.next, isKey) \in Units \cup {Gone}
    BY <1>1 DEF Unit, Units
  <2> QED BY <2>1
<1>3. todo' \in [Threads -> Seq(Units \cup {Gone})]
  BY <1>1, <1>2 DEF Arrive, Holding
<1>4. renderer' \in Renderers /\ (renderer'.last = None <=> renderer.last = None)
  <2> DEFINE last == Forget(stream.next)
  <2>1. last = renderer.last
          \/ (last = Stale /\ renderer.last \in 0 .. FrameSpace - 1)
    BY <1>1 DEF Forget
  <2>2. renderer' = [renderer EXCEPT !.last = last]
    BY DEF Arrive
  <2> HIDE DEF last
  <2> QED BY <1>1, <2>1, <2>2, ForgetIs
<1>5. stream' \in Streams
      /\ stream'.primed = stream.primed
  <2>1. stream \in Streams /\ Wrapped(stream.next + 1) \in 0 .. FrameSpace - 1
    <3>1. stream.next + 1 \in Nat
      BY <1>1
    <3> QED BY <1>1, <3>1, NumbersAre DEF Holding
  <2>2. stream' = [stream EXCEPT !.next = Wrapped(stream.next + 1), !.joined = TRUE]
    BY <2>1 DEF Arrive, Streams
  <2> QED BY <2>1, <2>2 DEF Streams
<1>6. Holding'
  BY <1>1, <1>3, <1>4, <1>5, HoldingIs, HoldingBy DEF Arrive, VideoInv, Holding
<1> QED BY <1>4, <1>5, <1>6, AsideKeeps DEF Arrive

LEMMA SkipKeeps ==
  ASSUME VideoInv, NEW t \in Dispatchers, NEW lostKey \in BOOLEAN,
         NEW isKey \in BOOLEAN,
         Skip(t, lostKey, isKey) PROVE Keeps
<1> DEFINE n == Wrapped(stream.next + 1)
<1>1. /\ stream.next \in 0 .. FrameSpace - 1 /\ Holding /\ t \in Threads
  BY DEF VideoInv, Holding, Threads, Streams
<1>2. n \in 0 .. FrameSpace - 1 /\ Wrapped(n + 1) \in 0 .. FrameSpace - 1
  BY <1>1, NumbersAre
<1>3. Unit(n, isKey) \in Units
  BY <1>2 DEF Unit, Units
<1>4. /\ todo' = [todo EXCEPT ![t] = <<Gone, Unit(n, isKey)>>]
      /\ coming' \in BOOLEAN
      /\ stream' = [stream EXCEPT !.next = Wrapped(n + 1), !.faults = @ - 1]
      /\ renderer' = [renderer EXCEPT !.last =
                          IF @ \in {stream.next, n} THEN Stale ELSE @]
      /\ stream.faults > 0
      /\ UNCHANGED <<posting, built, admitted, jobs, handoff, session>>
  BY DEF Skip, VideoInv, Holding
<1> HIDE DEF n
<1>5. todo' \in [Threads -> Seq(Units \cup {Gone})]
  BY <1>1, <1>3, <1>4 DEF Holding
<1>6. renderer' \in Renderers /\ (renderer'.last = None <=> renderer.last = None)
  <2> DEFINE last == IF renderer.last \in {stream.next,
             n} THEN Stale ELSE renderer.last
  <2>1. last = renderer.last
          \/ (last = Stale /\ renderer.last \in 0 .. FrameSpace - 1)
    BY <1>1, <1>2
  <2>2. renderer' = [renderer EXCEPT !.last = last]
    BY <1>1, <1>4, HoldingIs DEF Renderers
  <2> HIDE DEF last
  <2> QED BY <1>1, <2>1, <2>2, ForgetIs
<1>7. stream' \in Streams
      /\ stream'.primed = stream.primed
  <2>1. stream \in Streams /\ stream.faults - 1 \in Nat
    BY <1>1, <1>4 DEF Holding, Streams
  <2>2. stream' = [stream EXCEPT !.next = Wrapped(n + 1),
          !.faults = stream.faults - 1]
    BY <1>4, <2>1 DEF Streams
  <2> QED BY <1>2, <2>1, <2>2 DEF Streams
<1>8. Holding'
  BY <1>1, <1>4, <1>5, <1>6, <1>7, HoldingIs, HoldingBy DEF Holding
<1> QED BY <1>4, <1>6, <1>7, <1>8, AsideKeeps

LEMMA SpendIs ==
  ASSUME Holding, Spend
  PROVE  /\ stream' \in Streams
         /\ stream'.primed = stream.primed
<1>1. stream \in Streams /\ stream.faults - 1 \in Nat
  BY DEF Holding, Streams, Spend
<1>2. stream' = [stream EXCEPT !.faults = stream.faults - 1]
  BY <1>1 DEF Spend, Streams
<1> QED BY <1>1, <1>2 DEF Streams

LEMMA OpeningKeeps == ASSUME VideoInv, OpeningLost PROVE Keeps
<1>1. Holding
  BY DEF VideoInv
<1>2. Holding'
  BY <1>1, SpendIs, HoldingIs, HoldingBy DEF OpeningLost, pipeline, Holding
<1> QED BY <1>1, <1>2, SpendIs, AsideKeeps DEF OpeningLost, pipeline

LEMMA EscalateKeeps == ASSUME VideoInv, NEW t \in Threads, Escalate(t) PROVE Keeps
<1>1. Holding
  BY DEF VideoInv
<1>2. todo' \in [Threads -> Seq(Units \cup {Gone})]
  BY <1>1 DEF Holding, Escalate
<1>3. Holding'
  BY <1>1, <1>2, SpendIs, HoldingIs, HoldingBy DEF Escalate, Holding
<1> QED BY <1>1, <1>3, SpendIs, AsideKeeps DEF Escalate

LEMMA DispatchKeeps == ASSUME VideoInv, NEW t \in Threads, Dispatch(t) PROVE Keeps
<1>1. /\ Holding /\ todo[t] \in Seq(Units \cup {Gone}) /\ todo[t] # << >>
  BY DEF VideoInv, Holding, Dispatch
<1>2. Head(todo[t]) \in Units \cup {Gone}
        /\ Tail(todo[t]) \in Seq(Units \cup {Gone})
  BY <1>1, HeadTailProperties
<1>3. /\ todo' \in [Threads -> Seq(Units \cup {Gone})]
      /\ UNCHANGED <<admitted, jobs, handoff, renderer, coming, stream>>
  BY <1>1, <1>2 DEF Dispatch, Holding
<1>4. CASE /\ session' = Demanded(session)
           /\ posting' = [posting EXCEPT ![t] = TRUE] /\ UNCHANGED built
  <2>1. session' \in SessionStates /\ session'.open
    BY <1>1, <1>4, HoldingIs DEF Demanded, SessionStates
  <2>2. posting' \in [Threads -> BOOLEAN]
    BY <1>1, <1>4 DEF Holding
  <2>3. Holding'
    BY <1>1, <1>3, <1>4, <2>1, <2>2, HoldingIs, HoldingBy DEF Holding
  <2> QED BY <1>3, <2>1, <2>3, AsideKeeps
<1>5. CASE /\ Head(todo[t]) # Gone /\ built' = Append(built, Head(todo[t]))
           /\ UNCHANGED <<session, posting>>
  <2>1. built' \in Seq(Units)
    BY <1>1, <1>2, <1>5, AppendProperties DEF Holding
  <2>2. Holding'
    BY <1>1, <1>3, <1>5, <2>1, HoldingIs, HoldingBy DEF Holding
  <2> QED BY <1>3, <1>5, <2>2, AsideKeeps
<1> QED BY <1>4, <1>5 DEF Dispatch

LEMMA PostKeeps == ASSUME VideoInv, NEW t \in Threads, Post(t) PROVE Keeps
<1>1. Holding /\ jobs \in Seq(Jobs) /\ Begin \in Jobs
  BY DEF VideoInv, Holding, Jobs
<1>2. posting' \in [Threads -> BOOLEAN] /\ jobs' \in Seq(Jobs)
  BY <1>1, AppendProperties DEF Holding, Post
<1>3. Holding'
  BY <1>1, <1>2, HoldingIs, HoldingBy DEF Post, Holding, Jobs
<1>4. Waits(jobs, admitted, stream.primed)
        => Waits(jobs', admitted', stream'.primed)
  BY <1>1, WaitsAppend DEF Post
<1> QED BY <1>3, <1>4, AsideKeeps DEF Post

LEMMA BuildKeeps == ASSUME VideoInv, Build PROVE Keeps
<1> DEFINE unit == Head(built)
<1>1. Holding /\ built \in Seq(Units) /\ built # << >> /\ admitted = NoUnit
  BY DEF VideoInv, Holding, Build
<1>2. unit \in Units /\ Tail(built) \in Seq(Units)
  BY <1>1, HeadTailProperties
<1>3. /\ stream' = [stream EXCEPT !.primed = stream.primed \/ unit.key]
      /\ admitted' = IF ~Withheld(unit) /\ Admits(unit) THEN unit ELSE NoUnit
      /\ built' = Tail(built)
      /\ UNCHANGED <<todo, posting, jobs, handoff, session, renderer, coming>>
  BY DEF Build
<1> HIDE DEF unit
<1>4. /\ stream.primed \in BOOLEAN /\ unit.key \in BOOLEAN
      /\ stream' \in Streams
      /\ stream'.primed = (stream.primed \/ unit.key)
  BY <1>1, <1>2, <1>3 DEF Holding, Units, Streams
<1>5. Holding'
  BY <1>1, <1>2, <1>3, <1>4, HoldingIs, HoldingBy DEF Holding
<1>6. Waits(jobs, admitted, stream.primed)
        => Waits(jobs', admitted', stream'.primed)
  BY <1>1, <1>2, <1>3, <1>4, NumbersAre DEF Waits, Withheld, Admits
<1> QED BY <1>3, <1>5, <1>6, AsideKeeps

LEMMA BuildFailsKeeps == ASSUME VideoInv, BuildFails PROVE Keeps
<1>1. Holding /\ built \in Seq(Units) /\ built # << >> /\ "worker" \in Threads
  BY DEF VideoInv, Holding, BuildFails, Threads
<1>2. built' \in Seq(Units) /\ todo' \in [Threads -> Seq(Units \cup {Gone})]
  BY <1>1, HeadTailProperties DEF BuildFails, Holding
<1>3. Holding'
  BY <1>1, <1>2, SpendIs, HoldingIs, HoldingBy DEF BuildFails, Holding
<1> QED BY <1>1, <1>3, SpendIs, AsideKeeps DEF BuildFails

LEMMA SubmitKeeps == ASSUME VideoInv, Submit PROVE Keeps
<1>1. Holding /\ jobs \in Seq(Jobs) /\ admitted \in Units /\ Units \subseteq Jobs
  BY DEF VideoInv, Holding, Submit, Jobs
<1>2. jobs' \in Seq(Jobs)
  BY <1>1, AppendProperties DEF Submit
<1>3. Holding'
  BY <1>1, <1>2, HoldingIs, HoldingBy DEF Submit, Holding, Jobs
<1>4. Waits(jobs, admitted, stream.primed)
        => Waits(jobs', admitted', stream'.primed)
  BY <1>1, WaitsAppend DEF Submit
<1> QED BY <1>3, <1>4, AsideKeeps DEF Submit

LEMMA BecomesIs == ASSUME NEW w \in Worlds, Becomes(w)
                   PROVE  World' = w /\ handoff' = w.h /\ session' = w.s
                          /\ renderer' = w.r /\ handoff' \in Handoffs
                          /\ session' \in SessionStates /\ renderer' \in Renderers
<1>1. /\ handoff' = w.h /\ session' = w.s /\ renderer' = w.r
      /\ w = [h |-> w.h, s |-> w.s, r |-> w.r]
  BY DEF Becomes, Worlds
<1> QED BY <1>1 DEF World, Worlds

(* A step that voids the episode, or finds it voided.                        *)
LEMMA VoidKeeps ==
  ASSUME VideoInv, NEW w \in Worlds, Becomes(w), Backed(w),
         w.h.awaiting, w.r.last \in {None, renderer.last},
         UNCHANGED <<todo, posting, built, admitted, coming>>,
         jobs' \in Seq(Jobs), stream' \in Streams
  PROVE  Keeps
<1>1. World' = w /\ handoff' = w.h /\ session' = w.s /\ renderer' = w.r
      /\ handoff' \in Handoffs /\ session' \in SessionStates
          /\ renderer' \in Renderers
  BY BecomesIs
<1>2. Holding'
  BY <1>1, HoldingBy DEF VideoInv, Holding, Jobs
<1>3. Backed(World)' /\ ~Fresh(World)'
  BY <1>1 DEF Fresh, Backed, Gate, Shut
<1> QED BY <1>1, <1>2, <1>3 DEF Keeps, VideoInv, FirstIsKey

LEMMA PerformKeeps == ASSUME VideoInv, Perform PROVE Keeps
<1> DEFINE job == Head(jobs)
<1>1. /\ Holding /\ jobs \in Seq(Jobs) /\ jobs # << >> /\ World \in Worlds
      /\ Backed(World) /\ Gate(World) /\ stream \in Streams
  BY DEF VideoInv, Holding, Perform, Jobs, Backed
<1>2. job \in Jobs /\ Tail(jobs) \in Seq(Jobs)
  BY <1>1, HeadTailProperties
<1>3. /\ jobs' = Tail(jobs)
      /\ UNCHANGED <<todo, posting, built, admitted, coming>>
      /\ \/ job = Begin /\ Becomes(Begun(World)) /\ UNCHANGED stream
         \/ /\ job # Begin
            /\ \E debt, late \in BOOLEAN : Becomes(Accepted(World, job, debt, late))
            /\ UNCHANGED stream \/ Spend
  BY DEF Perform
<1> HIDE DEF job
<1>4. CASE job = Begin /\ Becomes(Begun(World)) /\ UNCHANGED stream
  <2> DEFINE v == Void(World, TRUE)
  <2>1. v \in Worlds /\ Backed(v) /\ Shut(v) /\ v.r.last \in {None, renderer.last}
    BY <1>1, VoidIs, HoldingIs
  <2>2. Becomes(v) /\ jobs' \in Seq(Jobs) /\ stream' \in Streams
    BY <1>1, <1>2, <1>3, <1>4 DEF Begun
  <2> HIDE DEF v
  <2> QED BY <1>3, <2>1, <2>2, VoidKeeps DEF Shut
<1>5. ASSUME job # Begin, UNCHANGED stream \/ Spend,
             NEW debt \in BOOLEAN, NEW late \in BOOLEAN,
             Becomes(Accepted(World, job, debt, late))
      PROVE  Keeps
  <2> DEFINE v == Accepted(World, job, debt, late)
  <2>1. job \in Units
    BY <1>2, <1>5 DEF Jobs
  <2>2. /\ v \in Worlds /\ Backed(v) /\ v.r.last \in {None, renderer.last}
        /\ FirstStays(World, v, job)
    BY <1>1, <2>1, AcceptedIs, HoldingIs
  <2>3. Becomes(v)
    BY <1>5
  <2> HIDE DEF v
  <2>4. /\ World' = v /\ handoff' = v.h /\ renderer' = v.r
        /\ handoff' \in Handoffs /\ session' \in SessionStates
            /\ renderer' \in Renderers
    BY <2>2, <2>3, BecomesIs
  <2>5. stream' \in Streams
    BY <1>1, <1>5, SpendIs
  <2>6. Holding'
    BY <1>1, <1>2, <1>3, <2>4, <2>5, HoldingBy DEF Holding, Jobs
  <2>7. FirstIsKey'
    <3> SUFFICES ASSUME Fresh(v) PROVE handoff'.queue # << >>
                        /\ Head(handoff'.queue).key
      BY <2>4 DEF FirstIsKey
    <3>1. /\ Fresh(World) /\ v.h.queue # << >>
          /\ \/ Head(v.h.queue).key
             \/ handoff.queue # << >> /\ Head(v.h.queue) = Head(handoff.queue)
             \/ handoff.queue = << >> /\ Head(v.h.queue) = job
      BY <1>1, <2>2, HoldingIs DEF FirstStays
    <3>2. handoff.queue = << >> => job.key
      <4>1. ASSUME handoff.queue = << >> PROVE Waits(jobs, admitted, stream.primed)
        BY <3>1, <4>1 DEF VideoInv, FirstIsKey
      <4> QED BY <1>1, <1>5, <4>1, WaitsTail DEF job
    <3>3. handoff.queue # << >> => Head(handoff.queue).key
      BY <3>1 DEF VideoInv, FirstIsKey
    <3> QED BY <2>4, <3>1, <3>2, <3>3
  <2> QED BY <2>2, <2>4, <2>6, <2>7 DEF Keeps, VideoInv
<1> QED BY <1>3, <1>4, <1>5

LEMMA ExpireKeeps == ASSUME VideoInv, Expire PROVE Keeps
<1> DEFINE v == Void(World, TRUE)
<1>1. /\ Holding /\ World \in Worlds /\ Backed(World) /\ Gate(World)
      /\ jobs \in Seq(Jobs)
  BY DEF VideoInv, Holding, Backed, Jobs
<1>2. v \in Worlds /\ Backed(v) /\ Shut(v) /\ v.r.last \in {None, renderer.last}
  BY <1>1, VoidIs, HoldingIs
<1>3. /\ Becomes(v) /\ stream' \in Streams /\ jobs' = jobs
      /\ UNCHANGED <<todo, posting, built, admitted, coming>>
  BY <1>1, SpendIs DEF Expire, pipeline
<1> HIDE DEF v
<1> QED BY <1>1, <1>2, <1>3, VoidKeeps DEF Shut

(* A sample that leaves opens the gate: what it leaves behind follows it.    *)
LEMMA LeavesKeeps ==
  ASSUME VideoInv, handoff.queue # << >>, ~handoff.flushing,
         LET unit == Head(handoff.queue)
             closes == unit.key /\ handoff.awaiting /\ handoff.pending
         IN /\ handoff' = [handoff EXCEPT
                   !.queue = Tail(@), !.awaiting = @ /\ ~closes,
                   !.requesting = @ /\ Tail(handoff.queue) # <<>>,
                   !.pending = @ /\ ~closes]
            /\ session' = [session EXCEPT !.open = @ /\ ~closes]
            /\ renderer' = Enqueued(unit),
         UNCHANGED <<pipeline, coming, stream>>
  PROVE  VideoInv' /\ (renderer.last = None => Head(handoff.queue).key)
<1> DEFINE unit == Head(handoff.queue)
           closes == unit.key /\ handoff.awaiting /\ handoff.pending
<1>1. /\ Holding /\ handoff \in Handoffs /\ handoff.queue \in Seq(Units)
      /\ session \in SessionStates /\ renderer \in Renderers
      /\ World.h = handoff /\ Backed(World)
  BY HoldingIs DEF VideoInv
<1>2. unit \in Units /\ Tail(handoff.queue) \in Seq(Units)
  BY <1>1, HeadTailProperties
<1>3. handoff.awaiting => closes /\ handoff.pending
  BY <1>1 DEF Backed, Gate, Shut
<1>4. handoff.pending => handoff.awaiting
  BY <1>1 DEF Backed, Gate
<1>5. /\ handoff' = [handoff EXCEPT
              !.queue = Tail(handoff.queue), !.awaiting = handoff.awaiting
                  /\ ~closes,
              !.requesting = handoff.requesting /\ Tail(handoff.queue) # <<>>,
              !.pending = handoff.pending /\ ~closes]
      /\ session' = [session EXCEPT !.open = session.open /\ ~closes]
      /\ renderer' = Enqueued(unit)
  BY <1>1 DEF Handoffs, SessionStates
<1>6. closes \in BOOLEAN
  BY <1>1, <1>2 DEF Handoffs, Units
<1>7. Head(handoff.queue) = unit
  OBVIOUS
<1>8. renderer.last = None => unit.key
  BY <1>1, <1>3 DEF VideoInv, FirstIsKey, Fresh, HoldingIs, World
<1> HIDE DEF closes, unit
<1>9. handoff' \in Handoffs /\ session' \in SessionStates
  <2>1. /\ (handoff.awaiting /\ ~closes) \in BOOLEAN
           /\ (handoff.pending /\ ~closes) \in BOOLEAN
        /\ (handoff.requesting /\ Tail(handoff.queue) # <<>>) \in BOOLEAN
        /\ (session.open /\ ~closes) \in BOOLEAN
    OBVIOUS
  <2> QED BY <1>1, <1>2, <1>5, <2>1 DEF Handoffs, SessionStates
<1>10. /\ handoff'.awaiting = FALSE /\ handoff'.pending = FALSE
       /\ handoff'.flushing = FALSE
  BY <1>1, <1>3, <1>4, <1>5, <1>6 DEF Handoffs
<1>11. renderer' \in Renderers /\ renderer'.last # None
  <2> DEFINE broken == ~unit.key /\ (renderer.broken \/ ~Follows(unit))
             sick == renderer.sick \/ broken
  <2>1. renderer' = [renderer EXCEPT !.last = unit.n, !.broken = broken,
          !.sick = sick]
    BY <1>1, <1>5 DEF Enqueued, Renderers
  <2>2. broken \in BOOLEAN /\ sick \in BOOLEAN
    OBVIOUS
  <2>3. unit.n \in 0 .. FrameSpace - 1
    BY <1>2 DEF Units
  <2> HIDE DEF broken, sick
  <2>4. renderer' = [failed |-> renderer.failed, sick |-> sick, last |-> unit.n,
                     broken |-> broken]
    BY <1>1, <2>1 DEF Renderers
  <2>5. renderer.failed \in BOOLEAN /\ unit.n \in 0 .. FrameSpace + 1
          /\ unit.n # None
    BY <1>1, <2>3 DEF Renderers
  <2> QED BY <2>2, <2>4, <2>5 DEF Renderers
<1>12. Holding'
  BY <1>1, <1>9, <1>11, HoldingBy DEF Holding, pipeline
<1>13. World.h' = handoff' /\ World.r' = renderer'
  BY DEF World
<1>14. Backed(World)' /\ FirstIsKey'
  BY <1>10, <1>11, <1>13 DEF Backed, Gate, Shut, FirstIsKey, Fresh
<1> QED BY <1>7, <1>8, <1>12, <1>14 DEF VideoInv

DrainsKey == VideoInv' /\ (renderer.last = None /\ renderer'.last # None
                            => Head(handoff.queue).key)

LEMMA DrainKeeps == ASSUME VideoInv, Drain PROVE DrainsKey
<1>1. /\ Holding /\ World \in Worlds /\ Backed(World) /\ Gate(World)
      /\ jobs \in Seq(Jobs) /\ ~handoff.flushing /\ stream' \in Streams
      /\ UNCHANGED <<todo, posting, built, admitted, jobs, coming, stream>>
      /\ UNCHANGED <<pipeline, coming, stream>>
  BY DEF VideoInv, Holding, Backed, Jobs, Drain, MayDrain, pipeline
<1>2. CASE Becomes(Void(World, TRUE))
  <2> DEFINE v == Void(World, TRUE)
  <2>1. v \in Worlds /\ Backed(v) /\ Shut(v) /\ v.r.last \in {None, renderer.last}
    BY <1>1, VoidIs, HoldingIs
  <2>2. Becomes(v)
    BY <1>2
  <2> HIDE DEF v
  <2> QED BY <1>1, <2>1, <2>2, VoidKeeps DEF Shut, Keeps, DrainsKey
<1>3. CASE handoff.queue # <<>> /\ ~Becomes(Void(World, TRUE))
  <2>1. VideoInv' /\ (renderer.last = None => Head(handoff.queue).key)
    BY <1>1, <1>3, LeavesKeeps DEF Drain
  <2> QED BY <2>1 DEF DrainsKey
<1>4. CASE /\ handoff' = [handoff EXCEPT !.requesting = FALSE]
           /\ UNCHANGED <<session, renderer>>
  <2>1. /\ handoff' \in Handoffs /\ handoff'.queue = handoff.queue
        /\ handoff'.awaiting = handoff.awaiting
            /\ handoff'.pending = handoff.pending
        /\ handoff'.flushing = handoff.flushing
    BY <1>1, <1>4, HoldingIs DEF Handoffs
  <2>2. Holding'
    BY <1>1, <1>4, <2>1, HoldingIs, HoldingBy DEF Holding, Jobs
  <2>3. Backed(World)' /\ FirstIsKey'
    BY <1>1, <1>4, <2>1 DEF VideoInv, Backed, Gate, Shut, FirstIsKey, Fresh, World
  <2> QED BY <1>4, <2>2, <2>3 DEF VideoInv, DrainsKey
<1> QED BY <1>2, <1>3, <1>4 DEF Drain

LEMMA FlushKeeps == ASSUME VideoInv, CompleteFlush PROVE Keeps
<1> DEFINE w == [World EXCEPT !.h.flushing = FALSE, !.r.last = None,
           !.r.failed = FALSE]
           g == [handoff EXCEPT !.flushing = FALSE]
           r == [renderer EXCEPT !.last = None, !.failed = FALSE]
<1>1. /\ Holding /\ World \in Worlds /\ Backed(World) /\ handoff.flushing
      /\ jobs' \in Seq(Jobs) /\ stream' \in Streams /\ Becomes(Armed(w))
      /\ UNCHANGED <<todo, posting, built, admitted, coming>>
  BY DEF VideoInv, Holding, Jobs, CompleteFlush, pipeline, Rearmed
<1>2. w = [h |-> g, s |-> session, r |-> r]
  <2>1. World = [h |-> handoff, s |-> session, r |-> renderer]
    BY DEF World
  <2>2. w = [World EXCEPT !.h = g, !.r = r]
    BY <2>1
  <2> HIDE DEF w, g, r
  <2> QED BY <2>1, <2>2
<1>3. /\ g \in Handoffs /\ g.awaiting = handoff.awaiting
         /\ g.pending = handoff.pending
      /\ g.queue = handoff.queue /\ g.flushing = FALSE
      /\ r \in Renderers /\ r.last = None /\ session \in SessionStates
  <2>1. handoff \in Handoffs /\ renderer \in Renderers /\ session \in SessionStates
    BY <1>1, HoldingIs
  <2>2. /\ g \in Handoffs /\ g.awaiting = handoff.awaiting
           /\ g.pending = handoff.pending
        /\ g.queue = handoff.queue /\ g.flushing = FALSE
    BY <2>1 DEF Handoffs
  <2>3. r = [[renderer EXCEPT !.last = None] EXCEPT !.failed = FALSE]
    BY <2>1 DEF Renderers
  <2>4. r \in Renderers /\ r.last = None
    <3> DEFINE q == [renderer EXCEPT !.last = None]
    <3>1. q \in Renderers /\ q.last = None
      BY <2>1 DEF Renderers
    <3> HIDE DEF q
    <3>2. [q EXCEPT !.failed = FALSE] \in Renderers
            /\ [q EXCEPT !.failed = FALSE].last = None
      BY <3>1 DEF Renderers
    <3> QED BY <2>3, <3>2 DEF q
  <2> QED BY <2>1, <2>2, <2>4
<1> HIDE DEF w, g, r
<1>4. w \in Worlds /\ Backed(w) /\ w.h.awaiting /\ w.r.last = None
  BY <1>1, <1>2, <1>3, HoldingIs DEF Worlds, Backed, Gate, Shut
<1>5. /\ Armed(w) \in Worlds /\ Backed(Armed(w)) /\ Armed(w).h.awaiting
      /\ Armed(w).r.last = None
  BY <1>4, ArmedIs
<1> QED BY <1>1, <1>5, VoidKeeps

LEMMA FailedToDecodeKeeps == ASSUME VideoInv, RendererFailedToDecode PROVE Keeps
<1> DEFINE w == [World EXCEPT !.r.sick = FALSE]
           r == [renderer EXCEPT !.sick = FALSE]
<1>1. /\ Holding /\ World \in Worlds /\ Backed(World)
      /\ jobs \in Seq(Jobs) /\ stream' \in Streams
      /\ Becomes(IF handoff.flushing \/ handoff.awaiting THEN w ELSE Void(w, TRUE))
      /\ UNCHANGED <<todo, posting, built, admitted, jobs, coming, stream>>
  BY DEF VideoInv, Holding, Jobs, RendererFailedToDecode, pipeline
<1>2. w = [h |-> handoff, s |-> session, r |-> r]
  <2>1. World = [h |-> handoff, s |-> session, r |-> renderer]
    BY DEF World
  <2>2. w = [World EXCEPT !.r = r]
    BY <2>1
  <2> HIDE DEF w, r
  <2> QED BY <2>1, <2>2
<1>3. r \in Renderers /\ r.last = renderer.last /\ handoff \in Handoffs
        /\ session \in SessionStates
  BY HoldingIs, <1>1 DEF Renderers
<1> HIDE DEF w, r
<1>4. w \in Worlds /\ Backed(w) /\ Gate(w) /\ w.h = handoff
        /\ w.r.last = renderer.last
  BY <1>1, <1>2, <1>3, HoldingIs DEF Worlds, Backed, Gate, Shut
<1>5. CASE handoff.flushing \/ handoff.awaiting
  <2>1. handoff.awaiting
    BY <1>1, <1>5, HoldingIs DEF Backed, Gate
  <2> QED BY <1>1, <1>4, <1>5, <2>1, VoidKeeps
<1>6. CASE ~(handoff.flushing \/ handoff.awaiting)
  <2> DEFINE v == Void(w, TRUE)
  <2>1. v \in Worlds /\ Backed(v) /\ Shut(v) /\ v.r.last \in {None, renderer.last}
    BY <1>4, VoidIs
  <2>2. Becomes(v)
    BY <1>1, <1>6
  <2> HIDE DEF v
  <2> QED BY <1>1, <2>1, <2>2, VoidKeeps DEF Shut
<1> QED BY <1>5, <1>6

LEMMA FailsKeeps == ASSUME VideoInv, DecodeFails \/ RendererFails PROVE Keeps
<1>1. /\ Holding /\ renderer' \in Renderers /\ renderer'.last = renderer.last
      /\ UNCHANGED <<todo, posting, built, admitted, jobs, handoff, session,
          coming>>
      /\ Spend
  BY HoldingIs DEF VideoInv, DecodeFails, RendererFails, pipeline, Renderers
<1>2. Holding'
  BY <1>1, SpendIs, HoldingIs, HoldingBy DEF Holding
<1> QED BY <1>1, <1>2, SpendIs, AsideKeeps

LEMMA VideoSteps == VideoInv /\ [VideoNext]_videoVars => DrainsKey \/ Keeps
<1> SUFFICES ASSUME VideoInv, [VideoNext]_videoVars PROVE DrainsKey \/ Keeps
  OBVIOUS
<1>1. CASE Retry \/ HostHears \/ AskLost
  BY <1>1, AskKeeps
<1>2. ASSUME NEW isKey \in BOOLEAN, Arrive(isKey) PROVE Keeps
  BY <1>2, ArriveKeeps
<1>3. ASSUME NEW t \in Dispatchers, NEW lostKey \in BOOLEAN, NEW isKey \in BOOLEAN,
             Skip(t, lostKey, isKey) PROVE Keeps
  BY <1>3, SkipKeeps
<1>4. CASE OpeningLost
  BY <1>4, OpeningKeeps
<1>5. CASE Escalate("timer")
  <2>1. "timer" \in Threads
    BY DEF Threads, Dispatchers
  <2> QED BY <1>5, <2>1, EscalateKeeps
<1>6. ASSUME NEW t \in Threads, Dispatch(t) \/ Post(t) PROVE Keeps
  BY <1>6, DispatchKeeps, PostKeeps
<1>7. CASE Build \/ BuildFails \/ Submit
  BY <1>7, BuildKeeps, BuildFailsKeeps, SubmitKeeps
<1>8. CASE Perform \/ Expire
  BY <1>8, PerformKeeps, ExpireKeeps
<1>9. CASE Drain
  BY <1>9, DrainKeeps
<1>10. CASE CompleteFlush \/ RendererFailedToDecode
  BY <1>10, FlushKeeps, FailedToDecodeKeeps
<1>11. CASE DecodeFails \/ RendererFails
  BY <1>11, FailsKeeps
<1>12. CASE UNCHANGED videoVars
  BY <1>12 DEF videoVars, Keeps, VideoInv, Holding, Backed, Gate, Shut, FirstIsKey,
       Fresh, World
<1> QED BY <1>1, <1>2, <1>3, <1>4, <1>5, <1>6, <1>7, <1>8, <1>9, <1>10, <1>11, <1>12
     DEF VideoNext

(* Whatever the threads, the flushes and the faults, the invariant holds.    *)
THEOREM VideoInvariance == VideoSpec => []VideoInv
<1>1. VideoInv /\ [VideoNext]_videoVars => VideoInv'
  BY VideoSteps DEF Keeps, DrainsKey
<1> QED BY <1>1, VideoStarts, PTL DEF VideoSpec

(* While the handoff's gate awaits a key frame it does not hold, the         *)
(* session's episode is open, so the cadence goes on asking for one.         *)
THEOREM GateIsBacked == VideoSpec => []GateBacked
<1>1. VideoInv => GateBacked
  BY HoldingIs DEF VideoInv, Backed, Shut, GateBacked
<1> QED BY <1>1, VideoInvariance, PTL

(* The renderer that was flushed, or was handed nothing yet, is handed a key *)
(* frame first, whichever thread was half way with which unit.               *)
THEOREM KeyAfterFlush == VideoSpec => FlushThenKey
<1>1. VideoInv /\ [VideoNext]_videoVars =>
        [handoff.queue # <<>> /\ handoff'.queue = Tail(handoff.queue)
           /\ renderer.last = None /\ renderer'.last # None
           => Head(handoff.queue).key]_videoVars
  BY VideoSteps DEF Keeps, DrainsKey
<1> QED BY <1>1, VideoInvariance, PTL DEF VideoSpec, FlushThenKey

-----------------------------------------------------------------------------
(* A key and what the host holds: the client's policy, the reliable stream   *)
(* and the host's devices.  After every handler the policy's books are sound *)
(* and believe what the wire will leave on the devices; this is kept through *)
(* each of a handler's steps in turn.                                        *)

HIDE BoundsAreCounts DEF None, Stale

(* The policy, and what it says, are well formed.                            *)
Held == Codes \cup Modifiers
Policies ==
    [heldKeys : SUBSET Held, heldButtons : SUBSET {Button},
     pendingCommandKeys : SUBSET {Meta},
     pressedAs : UNION {[D -> Codes] : D \in SUBSET Keys},
     controlChordKeys : SUBSET Codes, hostCapsLock : BOOLEAN]
Finite(p) == IsFiniteSet(p.heldKeys)
Mapped(p) == \A k \in DOMAIN p.pressedAs : p.pressedAs[k] \in CodesOf[k]
PolicySound(p) == p \in Policies /\ Finite(p) /\ Mapped(p)

Events == [code : Held \cup {CapsLock, Button}, pressed : BOOLEAN]

(* Without the focus, and without a session, the policy holds nothing; the   *)
(* book is what the devices hold.                                            *)
Quiet(p) == /\ p.heldKeys = {} /\ p.heldButtons = {} /\ p.controlChordKeys = {}
Rests ==
    /\ ~mac.focused => Quiet(policy)
    /\ desk = book
    /\ phase = "down" => desk = {} /\ wire = <<>> /\ Quiet(policy)

(* What the policy holds for the user is down on the Mac, until a release is *)
(* swallowed.                                                                *)
Fingered(p, m) ==
    /\ \A c \in p.heldKeys \cap Codes :
         \E k \in m.keys \cap DOMAIN p.pressedAs : p.pressedAs[k] = c
    /\ p.heldButtons \subseteq m.buttons
Fingers == ~unlifted => Fingered(policy, mac)

(* Between handlers a Control held twice is known for it.                    *)
Known(p) == HoldsTwice(p) => twice
Matches(p, codes) ==
    /\ codes \subseteq BelievedOf(p)
    /\ (BelievedOf(p) \cap (Modifiers \cup {Button})) \ Unsure \subseteq codes

Macs == [keys : SUBSET Keys, mods : SUBSET Modifiers, buttons : SUBSET {Button},
         caps : BOOLEAN, focused : BOOLEAN]
Budgets == [missed : 0 .. Missed, sessions : Int]
Shapes == /\ mac \in Macs /\ wire \in Seq(Events)
          /\ phase \in {"up", "closing", "down"} /\ budget \in Budgets
          /\ unlifted \in BOOLEAN /\ twice \in BOOLEAN

InputInv ==
    /\ Shapes /\ PolicySound(policy) /\ Rests /\ Fingers /\ Known(policy)
    /\ phase = "up" => Matches(policy, Landing)
-----------------------------------------------------------------------------
(* Sequences of events.                                                      *)

LEMMA EventIs ==
  /\ \A e \in Events : e = Down(e.code) \/ e = Up(e.code)
  /\ \A c \in Held \cup {CapsLock, Button} : Down(c) \in Events /\ Up(c) \in Events
  /\ \A c, d : Down(c) # Up(d) /\ (Down(c) = Down(d) => c = d)
  /\ \A c : Down(c).code = c /\ Up(c).code = c
BY DEF Events, Down, Up

LEMMA AfterPoint ==
  ASSUME NEW S, NEW w, NEW c
  PROVE  c \in After(S, w) <=> LastSays(c, w) \/ (c \in S /\ Untouched(c, w))
BY EventIs DEF After, LastSays

LEMMA AfterNone ==
  ASSUME NEW S
  PROVE  After(S, << >>) = S
<1>1. \A c : ~LastSays(c, << >>) /\ Untouched(c, << >>)
  BY DEF LastSays, Untouched
<1>2. \A c : c \in After(S, << >>) <=> c \in S
  BY <1>1, AfterPoint
<1> QED BY <1>2

LEMMA AfterConcat ==
  ASSUME NEW S, NEW s \in Seq(Events), NEW t \in Seq(Events)
  PROVE  /\ s \o t \in Seq(Events)
         /\ After(S, s \o t) = After(After(S, s), t)
<1>1. /\ Len(s) \in Nat /\ Len(t) \in Nat /\ s \o t \in Seq(Events)
      /\ \A i \in 1 .. Len(s) + Len(t) :
           (s \o t)[i] = IF i <= Len(s) THEN s[i] ELSE t[i - Len(s)]
      /\ DOMAIN s = 1 .. Len(s) /\ DOMAIN t = 1 .. Len(t)
      /\ DOMAIN (s \o t) = 1 .. Len(s) + Len(t)
  BY ConcatProperties
<1> DEFINE st == s \o t
<1> HIDE DEF st
<1>2. /\ \A i \in 1 .. Len(s) : i \in DOMAIN st /\ st[i] = s[i]
      /\ \A i \in 1 .. Len(t) : Len(s) + i \in DOMAIN st /\ st[Len(s) + i] = t[i]
      /\ \A i \in DOMAIN st : \/ i \in 1 .. Len(s)
                              \/ i - Len(s) \in 1 .. Len(t)
                                  /\ i = Len(s) + (i - Len(s))
  BY <1>1 DEF st
<1>3. ASSUME NEW c PROVE Untouched(c, st) <=> Untouched(c, s) /\ Untouched(c, t)
  BY <1>1, <1>2 DEF Untouched
<1>4. ASSUME NEW c, LastSays(c, t) PROVE LastSays(c, st)
  <2>1. PICK i \in 1 .. Len(t) :
          /\ t[i] = Down(c)
          /\ \A j \in 1 .. Len(t) : j > i => t[j].code # c
    BY <1>1, <1>4 DEF LastSays
  <2>2. ASSUME NEW j \in DOMAIN st, j > Len(s) + i PROVE st[j].code # c
    <3>1. j - Len(s) \in 1 .. Len(t) /\ j - Len(s) > i /\ st[j] = t[j - Len(s)]
      BY <1>1, <1>2, <2>1, <2>2
    <3> QED BY <2>1, <3>1
  <2> QED BY <1>2, <2>1, <2>2 DEF LastSays
<1>5. ASSUME NEW c, LastSays(c, s), Untouched(c, t) PROVE LastSays(c, st)
  <2>1. PICK i \in 1 .. Len(s) :
          /\ s[i] = Down(c)
          /\ \A j \in 1 .. Len(s) : j > i => s[j].code # c
    BY <1>1, <1>5 DEF LastSays
  <2>2. ASSUME NEW j \in DOMAIN st, j > i PROVE st[j].code # c
    BY <1>1, <1>2, <1>5, <2>1, <2>2 DEF Untouched
  <2> QED BY <1>2, <2>1, <2>2 DEF LastSays
<1>6. ASSUME NEW c, LastSays(c, st)
      PROVE  LastSays(c, t) \/ (LastSays(c, s) /\ Untouched(c, t))
  <2>1. PICK i \in DOMAIN st :
          /\ st[i] = Down(c)
          /\ \A j \in DOMAIN st : j > i => st[j].code # c
    BY <1>6 DEF LastSays
  <2>2. CASE i \in 1 .. Len(s)
    <3>1. \A j \in 1 .. Len(t) : t[j].code # c
      BY <1>1, <1>2, <2>1, <2>2
    <3>2. \A j \in 1 .. Len(s) : j > i => s[j].code # c
      BY <1>1, <1>2, <2>1, <2>2
    <3> QED BY <1>1, <1>2, <2>1, <2>2, <3>1, <3>2 DEF LastSays, Untouched
  <2>3. CASE i - Len(s) \in 1 .. Len(t)
    <3> DEFINE k == i - Len(s)
    <3>1. t[k] = Down(c)
      BY <1>1, <1>2, <2>1, <2>3
    <3>2. \A j \in 1 .. Len(t) : j > k => t[j].code # c
      BY <1>1, <1>2, <2>1, <2>3
    <3> QED BY <1>1, <2>3, <3>1, <3>2 DEF LastSays
  <2> QED BY <1>2, <2>2, <2>3
<1>7. ASSUME NEW c PROVE c \in After(S, st) <=> c \in After(After(S, s), t)
  <2>1. c \in After(S, st) <=> LastSays(c, st) \/ (c \in S /\ Untouched(c, st))
    BY AfterPoint
  <2>2. c \in After(S, s) <=> LastSays(c, s) \/ (c \in S /\ Untouched(c, s))
    BY AfterPoint
  <2>3. c \in After(After(S, s), t) <=>
          LastSays(c, t) \/ (c \in After(S, s) /\ Untouched(c, t))
    BY AfterPoint
  <2> QED BY <1>3, <1>4, <1>5, <1>6, <2>1, <2>2, <2>3
<1> QED BY <1>1, <1>7 DEF st

LEMMA AfterOne ==
  ASSUME NEW S, NEW c \in Held \cup {CapsLock, Button}
  PROVE  /\ << >> \in Seq(Events)
         /\ <<Down(c)>> \in Seq(Events) /\ After(S, <<Down(c)>>) = S \cup {c}
         /\ <<Up(c)>> \in Seq(Events) /\ After(S, <<Up(c)>>) = S \ {c}
<1>1. Down(c) \in Events /\ Up(c) \in Events
  BY EventIs
<1>2. /\ <<Down(c)>> \in Seq(Events) /\ DOMAIN <<Down(c)>> = {1}
      /\ <<Down(c)>>[1] = Down(c)
      /\ <<Up(c)>> \in Seq(Events) /\ DOMAIN <<Up(c)>> = {1} /\ <<Up(c)>>[1] = Up(c)
  BY <1>1
<1> DEFINE d == <<Down(c)>>
           u == <<Up(c)>>
<1> HIDE DEF d, u
<1>3. ASSUME NEW x PROVE /\ LastSays(x, d) <=> x = c
                         /\ Untouched(x, d) <=> x # c
  BY <1>2, EventIs DEF LastSays, Untouched, d
<1>4. ASSUME NEW x PROVE ~LastSays(x, u) /\ (Untouched(x, u) <=> x # c)
  BY <1>2, EventIs DEF LastSays, Untouched, u
<1>5. After(S, d) = S \cup {c}
  BY <1>3, AfterPoint
<1>6. After(S, u) = S \ {c}
  BY <1>4, AfterPoint
<1>7. << >> \in Seq(Events)
  OBVIOUS
<1> QED BY <1>2, <1>5, <1>6, <1>7 DEF d, u

LEMMA AfterWritten ==
  ASSUME NEW S, NEW w \in Seq(Events), w # << >>
  PROVE  /\ After(S, w) = After(Written(S, Head(w)), Tail(w))
         /\ Tail(w) \in Seq(Events) /\ Head(w) \in Events
<1> DEFINE h == Head(w)
           t == Tail(w)
<1>1. h \in Events /\ t \in Seq(Events)
  BY HeadTailProperties
<1>2. w = <<h>> \o t
  OBVIOUS
<1> HIDE DEF h, t
<1>3. h.code \in Held \cup {CapsLock, Button} /\ h.pressed \in BOOLEAN
  BY <1>1 DEF Events
<1>4. CASE h.pressed
  <2>1. h = Down(h.code)
    BY <1>1, <1>4, EventIs DEF Up
  <2>2. After(S, <<h>>) = S \cup {h.code} /\ <<h>> \in Seq(Events)
    BY <1>3, <2>1, AfterOne
  <2>3. After(S, <<h>> \o t) = After(After(S, <<h>>), t)
    <3> DEFINE o == <<h>>
    <3>1. o \in Seq(Events)
      BY <2>2
    <3> HIDE DEF o
    <3>2. After(S, o \o t) = After(After(S, o), t)
      BY <1>1, <3>1, AfterConcat
    <3> QED BY <3>2 DEF o
  <2>4. Written(S, h) = After(S, <<h>>)
    BY <1>4, <2>2 DEF Written
  <2> QED BY <1>1, <1>2, <2>3, <2>4 DEF h, t
<1>5. CASE ~h.pressed
  <2>1. h = Up(h.code)
    BY <1>1, <1>5, EventIs DEF Down
  <2>2. After(S, <<h>>) = S \ {h.code} /\ <<h>> \in Seq(Events)
    BY <1>3, <2>1, AfterOne
  <2>3. After(S, <<h>> \o t) = After(After(S, <<h>>), t)
    <3> DEFINE o == <<h>>
    <3>1. o \in Seq(Events)
      BY <2>2
    <3> HIDE DEF o
    <3>2. After(S, o \o t) = After(After(S, o), t)
      BY <1>1, <3>1, AfterConcat
    <3> QED BY <3>2 DEF o
  <2>4. Written(S, h) = After(S, <<h>>)
    BY <1>5, <2>2 DEF Written
  <2> QED BY <1>1, <1>2, <2>3, <2>4 DEF h, t
<1> QED BY <1>3, <1>4, <1>5

(* SetToSeq lists a finite set whole.                                        *)
LEMMA Listed ==
  ASSUME NEW S, IsFiniteSet(S)
  PROVE  LET s == SetToSeq(S)
         IN /\ s \in Seq(S)
            /\ \A c \in S : \E i \in DOMAIN s : s[i] = c
            /\ \A i, j \in DOMAIN s : s[i] = s[j] => i = j
<1> DEFINE n == Cardinality(S)
           s == SetToSeq(S)
<1>1. n \in Nat /\ ExistsBijection(1 .. n, S)
  BY FS_CardinalityType
<1>2. PICK f \in Bijection(1 .. n, S) : TRUE
  BY <1>1 DEF ExistsBijection
<1>3. f \in [1 .. n -> S] /\ IsInjective(f)
  BY <1>2 DEF Bijection, Injection
<1>4. s \in [1 .. n -> S] /\ IsInjective(s)
  BY <1>3 DEF SetToSeq
<1>5. s \in Injection(1 .. n, S)
  BY <1>4 DEF Injection
<1>6. Cardinality(1 .. n) = n
  BY <1>1, FS_Interval
<1> HIDE DEF s
<1>7. s \in Surjection(1 .. n, S)
  <2> HIDE DEF n
  <2> QED BY <1>5, <1>6, FS_Injection DEF n
<1>8. \A c \in S : \E i \in 1 .. n : s[i] = c
  BY <1>7 DEF Surjection
<1> QED BY <1>1, <1>4, <1>8 DEF s, IsInjective

LEMMA AfterEdges ==
  ASSUME NEW S, NEW T \in SUBSET (Held \cup {CapsLock, Button}), IsFiniteSet(T)
  PROVE  /\ Edges(T, Down) \in Seq(Events) /\ After(S, Edges(T, Down)) = S \cup T
         /\ Edges(T, Up) \in Seq(Events) /\ After(S, Edges(T, Up)) = S \ T
<1> DEFINE s == SetToSeq(T)
           d == Edges(T, Down)
           u == Edges(T, Up)
<1>1. /\ s \in Seq(T) /\ \A c \in T : \E i \in DOMAIN s : s[i] = c
      /\ \A i, j \in DOMAIN s : s[i] = s[j] => i = j
  BY Listed
<1>2. /\ d = [i \in DOMAIN s |-> Down(s[i])] /\ u = [i \in DOMAIN s |-> Up(s[i])]
  BY DEF Edges
<1> HIDE DEF s, d, u
<1>3. Len(s) \in Nat /\ DOMAIN s = 1 .. Len(s) /\ \A i \in DOMAIN s : s[i] \in T
  BY <1>1
<1>4. \A i \in DOMAIN s : Down(s[i]) \in Events /\ Up(s[i]) \in Events
  BY <1>3, EventIs
<1>5. d \in Seq(Events) /\ u \in Seq(Events)
  BY <1>2, <1>3, <1>4
<1>6. DOMAIN d = DOMAIN s /\ DOMAIN u = DOMAIN s
  BY <1>2
<1>7. ASSUME NEW c PROVE Untouched(c, d) <=> c \notin T
  BY <1>1, <1>2, <1>3, <1>6, EventIs DEF Untouched
<1>8. ASSUME NEW c PROVE Untouched(c, u) <=> c \notin T
  BY <1>1, <1>2, <1>3, <1>6, EventIs DEF Untouched
<1>9. ASSUME NEW c PROVE ~LastSays(c, u)
  BY <1>2, <1>6, EventIs DEF LastSays
<1>10. ASSUME NEW c, LastSays(c, d) PROVE c \in T
  BY <1>2, <1>3, <1>6, <1>10, EventIs DEF LastSays
<1>11. ASSUME NEW c \in T PROVE LastSays(c, d)
  <2>1. PICK i \in DOMAIN s : s[i] = c
    BY <1>1, <1>11
  <2>2. d[i] = Down(c)
    BY <1>2, <2>1
  <2>3. \A j \in DOMAIN d : j > i => d[j].code # c
    BY <1>1, <1>2, <1>3, <1>6, <2>1, EventIs
  <2> QED BY <1>6, <2>2, <2>3 DEF LastSays
<1>12. After(S, d) = S \cup T
  BY <1>7, <1>10, <1>11, AfterPoint
<1>13. After(S, u) = S \ T
  BY <1>8, <1>9, AfterPoint
<1> QED BY <1>5, <1>12, <1>13 DEF d, u

-----------------------------------------------------------------------------
(* The policy's steps.                                                       *)

(* A verdict so far: its policy is sound, and believes what its sends leave. *)
Verdicts == [p : Policies, sends : Seq(Events)]
Stage(v) ==
    /\ v \in Verdicts /\ PolicySound(v.p)
    /\ phase = "up" => Matches(v.p, After(Landing, v.sends))

(* The keys and buttons of the user are untouched.                           *)
SameKeys(p, q) ==
    /\ q.heldKeys \cap Codes = p.heldKeys \cap Codes
    /\ q.heldButtons = p.heldButtons /\ q.pressedAs = p.pressedAs

LEMMA CodesAre ==
  /\ \A c \in Codes : c # LeftCtrl /\ c # Meta /\ c # CapsLock /\ c # Button
  /\ LeftCtrl # Meta /\ LeftCtrl # CapsLock /\ Meta # CapsLock
  /\ Button # LeftCtrl /\ Button # Meta /\ Button # CapsLock
  /\ \A k \in Keys : CodesOf[k] \subseteq Codes
  /\ \A j, k \in Keys : j # k => CodesOf[j] \cap CodesOf[k] = {}
  /\ LeftCtrl \in Held /\ Meta \in Held /\ Codes \subseteq Held
BY CodesApart DEF Codes, modifierKeyCodes, Modifiers, LeftCtrl, Meta, CapsLock, Held

LEMMA SmallFinite ==
  /\ IsFiniteSet({}) /\ \A x : IsFiniteSet({x})
  /\ \A S, x : S \subseteq {x} => IsFiniteSet(S)
  /\ \A S, x : IsFiniteSet(S) => IsFiniteSet(S \cup {x}) /\ IsFiniteSet(S \ {x})
<1>1. \A x : IsFiniteSet({x})
  BY FS_Singleton
<1>2. \A S, x : S \subseteq {x} => IsFiniteSet(S)
  BY <1>1, FS_Subset
<1> QED BY <1>1, <1>2, FS_EmptySet, FS_AddElement, FS_RemoveElement

(* What is said next.                                                        *)
LEMMA Extended ==
  ASSUME NEW v, Stage(v), NEW q, PolicySound(q),
         NEW events \in Seq(Events),
         \A B : Matches(v.p, B) => Matches(q, After(B, events))
  PROVE  /\ Say([v EXCEPT !.p = q], events) = [p |-> q, sends |-> v.sends \o events]
         /\ Stage([p |-> q, sends |-> v.sends \o events])
<1>1. v.sends \in Seq(Events) /\ v = [p |-> v.p, sends |-> v.sends]
  BY DEF Stage, Verdicts
<1>2. /\ v.sends \o events \in Seq(Events)
      /\ After(Landing, v.sends \o events) = After(After(Landing, v.sends), events)
  BY <1>1, AfterConcat
<1>3. Say([v EXCEPT !.p = q], events) = [p |-> q, sends |-> v.sends \o events]
  <2> DEFINE w == [v EXCEPT !.p = q]
  <2>1. w = [p |-> q, sends |-> v.sends]
    BY <1>1
  <2> HIDE DEF w
  <2>2. Say(w, events) = [w EXCEPT !.sends = w.sends \o events]
    BY DEF Say
  <2> DEFINE said == v.sends \o events
  <2>3. Say(w, events) = [w EXCEPT !.sends = said]
    BY <2>1, <2>2
  <2> HIDE DEF said
  <2>4. [w EXCEPT !.sends = said] = [p |-> q, sends |-> said]
    BY <2>1
  <2> QED BY <2>3, <2>4 DEF w, said
<1>4. Stage([p |-> q, sends |-> v.sends \o events])
  BY <1>2 DEF Stage, Verdicts, PolicySound
<1> QED BY <1>3, <1>4

LEMMA ReleaseStage ==
  ASSUME NEW v, Stage(v), Known(v.p)
  PROVE  LET r == ReleaseChordControl(v)
         IN /\ Stage(r) /\ SameKeys(v.p, r.p)
            /\ r.p.controlChordKeys = {} /\ r.p.heldKeys = v.p.heldKeys
<1> DEFINE r == ReleaseChordControl(v)
           q == [v.p EXCEPT !.controlChordKeys = {}]
           up == <<Up(LeftCtrl)>>
<1>1. CASE v.p.controlChordKeys = {}
  BY <1>1 DEF ReleaseChordControl, SameKeys
<1>2. CASE v.p.controlChordKeys # {}
  <2>1. /\ q \in Policies /\ q.controlChordKeys = {} /\ q.heldKeys = v.p.heldKeys
        /\ q.heldButtons = v.p.heldButtons /\ q.pressedAs = v.p.pressedAs
    BY DEF Stage, PolicySound, Policies
  <2>2. r = Say([v EXCEPT !.p = q], up)
    BY <1>2 DEF ReleaseChordControl
  <2>4. /\ up \in Seq(Events) /\ \A B : After(B, up) = B \ {LeftCtrl}
    BY AfterOne, CodesAre
  <2> HIDE DEF q, r, up
  <2>3. PolicySound(q)
    BY <2>1 DEF Stage, PolicySound, Finite, Mapped
  <2>5. LeftCtrl \in q.heldKeys \cup q.heldButtons => LeftCtrl \in Unsure
    BY <1>2, <2>1, CodesAre DEF Stage, PolicySound, Policies, Known, HoldsTwice,
         Unsure
  <2>6. ASSUME NEW B, Matches(v.p, B) PROVE Matches(q, After(B, up))
    BY <1>2, <2>1, <2>4, <2>5, <2>6 DEF Matches, BelievedOf
  <2>7. /\ Say([v EXCEPT !.p = q], up) = [p |-> q, sends |-> v.sends \o up]
        /\ Stage([p |-> q, sends |-> v.sends \o up])
    BY <2>3, <2>4, <2>6, Extended
  <2> QED BY <2>1, <2>2, <2>7 DEF SameKeys, r
<1> QED BY <1>1, <1>2

LEMMA SyncStage ==
  ASSUME NEW v, Stage(v), NEW on \in BOOLEAN
  PROVE  LET r == SyncCapsLock(v, on)
         IN /\ Stage(r) /\ SameKeys(v.p, r.p)
            /\ r.p.heldKeys = v.p.heldKeys
            /\ r.p.controlChordKeys = v.p.controlChordKeys
<1> DEFINE r == SyncCapsLock(v, on)
           q == [v.p EXCEPT !.hostCapsLock = on]
           taps == <<Down(CapsLock), Up(CapsLock)>>
<1>1. CASE on = v.p.hostCapsLock
  BY <1>1 DEF SyncCapsLock, SameKeys
<1>2. CASE on # v.p.hostCapsLock
  <2>1. /\ q \in Policies /\ q.controlChordKeys = v.p.controlChordKeys
        /\ q.heldKeys = v.p.heldKeys
        /\ q.heldButtons = v.p.heldButtons /\ q.pressedAs = v.p.pressedAs
    BY DEF Stage, PolicySound, Policies
  <2>2. r = Say([v EXCEPT !.p = q], taps)
    BY <1>2 DEF SyncCapsLock
  <2>3. taps = <<Down(CapsLock)>> \o <<Up(CapsLock)>>
    OBVIOUS
  <2> HIDE DEF q, r, taps
  <2>4. PolicySound(q)
    BY <2>1 DEF Stage, PolicySound, Finite, Mapped
  <2>5. /\ taps \in Seq(Events)
        /\ \A B : After(B, taps) = (B \cup {CapsLock}) \ {CapsLock}
    <3> DEFINE s == <<Down(CapsLock)>>
               t == <<Up(CapsLock)>>
    <3>1. /\ s \in Seq(Events) /\ t \in Seq(Events)
          /\ \A B : After(B, s) = B \cup {CapsLock} /\ After(B, t) = B \ {CapsLock}
      BY AfterOne
    <3>2. taps = s \o t
      BY <2>3
    <3> HIDE DEF s, t
    <3>3. s \o t \in Seq(Events) /\ \A B : After(B, s \o t) = After(After(B, s), t)
      BY <3>1, AfterConcat
    <3> QED BY <3>1, <3>2, <3>3
  <2>6. CapsLock \notin BelievedOf(q) /\ BelievedOf(q) = BelievedOf(v.p)
    BY <2>1, CodesAre DEF BelievedOf, Policies, Held, Modifiers
  <2>7. ASSUME NEW B, Matches(v.p, B) PROVE Matches(q, After(B, taps))
    BY <2>5, <2>6, <2>7, CodesAre DEF Matches
  <2>8. /\ Say([v EXCEPT !.p = q], taps) = [p |-> q, sends |-> v.sends \o taps]
        /\ Stage([p |-> q, sends |-> v.sends \o taps])
    BY <2>4, <2>5, <2>7, Extended
  <2> QED BY <2>1, <2>2, <2>8 DEF SameKeys, r
<1> QED BY <1>1, <1>2

LEMMA ResyncStage ==
  ASSUME NEW v, Stage(v), Known(v.p), NEW mods
  PROVE  LET r == ResyncModifiers(v, mods \cap {LeftCtrl})
         IN /\ Stage(r) /\ SameKeys(v.p, r.p)
            /\ r.p.controlChordKeys = v.p.controlChordKeys
            /\ LeftCtrl \in r.p.heldKeys <=> LeftCtrl \in mods
<1> DEFINE down == mods \cap {LeftCtrl}
           held == v.p.heldKeys \cap {LeftCtrl}
           keys == (v.p.heldKeys \ held) \cup down
           r == ResyncModifiers(v, down)
           q == [v.p EXCEPT !.heldKeys = keys]
           ups == Edges(held \ down, Up)
           downs == Edges(down \ held, Down)
<1>1. /\ q \in Policies /\ q.controlChordKeys = v.p.controlChordKeys
      /\ q.heldKeys = keys
      /\ q.heldButtons = v.p.heldButtons /\ q.pressedAs = v.p.pressedAs
  BY CodesAre DEF Stage, PolicySound, Policies
<1>2. r = Say([v EXCEPT !.p = q], ups \o downs)
  BY DEF ResyncModifiers
<1>3. /\ held \subseteq {LeftCtrl} /\ down \subseteq {LeftCtrl}
      /\ LeftCtrl \in keys <=> LeftCtrl \in mods
      /\ keys \cap Codes = v.p.heldKeys \cap Codes
      /\ keys \ {LeftCtrl} = v.p.heldKeys \ {LeftCtrl}
      /\ LeftCtrl \in held <=> LeftCtrl \in v.p.heldKeys
      /\ LeftCtrl \in down <=> LeftCtrl \in mods
      /\ held \ down \in SUBSET (Held \cup {CapsLock, Button})
      /\ down \ held \in SUBSET (Held \cup {CapsLock, Button})
  BY CodesAre
<1>4. IsFiniteSet(held \ down) /\ IsFiniteSet(down \ held) /\ IsFiniteSet(keys)
  <2>1. IsFiniteSet(v.p.heldKeys)
    BY DEF Stage, PolicySound, Finite
  <2>2. keys = v.p.heldKeys \cup {LeftCtrl} \/ keys = v.p.heldKeys \ {LeftCtrl}
    OBVIOUS
  <2>3. IsFiniteSet(keys)
    <3> HIDE DEF keys
    <3>1. /\ IsFiniteSet(v.p.heldKeys \cup {LeftCtrl})
          /\ IsFiniteSet(v.p.heldKeys \ {LeftCtrl})
      BY <2>1, FS_AddElement, FS_RemoveElement
    <3> QED BY <2>2, <3>1
  <2>4. held \ down \subseteq {LeftCtrl} /\ down \ held \subseteq {LeftCtrl}
    OBVIOUS
  <2> QED BY <2>3, <2>4, SmallFinite
<1> HIDE DEF down, held, keys, q, r
<1>5. PolicySound(q)
  BY <1>1, <1>3, <1>4 DEF Stage, PolicySound, Finite, Mapped
<1>6. /\ ups \in Seq(Events) /\ \A B : After(B, ups) = B \ (held \ down)
      /\ downs \in Seq(Events) /\ \A B : After(B, downs) = B \cup (down \ held)
  BY <1>3, <1>4, AfterEdges
<1> HIDE DEF ups, downs
<1>7. /\ ups \o downs \in Seq(Events)
      /\ \A B : After(B, ups \o downs) = (B \ (held \ down)) \cup (down \ held)
  <2>1. ups \in Seq(Events) /\ downs \in Seq(Events)
    BY <1>6
  <2>2. ASSUME NEW B
        PROVE  /\ ups \o downs \in Seq(Events)
               /\ After(B, ups \o downs) = After(After(B, ups), downs)
    BY <2>1, AfterConcat
  <2> QED BY <1>6, <2>2
<1>8. ASSUME NEW B, Matches(v.p, B) PROVE Matches(q, After(B, ups \o downs))
  <2> DEFINE C == After(B, ups \o downs)
  <2>1. /\ LeftCtrl \in C <=>
             \/ LeftCtrl \in B /\ ~(LeftCtrl \in held /\ LeftCtrl \notin mods)
             \/ LeftCtrl \in mods /\ LeftCtrl \notin held
        /\ C \ {LeftCtrl} = B \ {LeftCtrl}
    BY <1>3, <1>7
  <2> HIDE DEF C
  <2>2. /\ LeftCtrl \in BelievedOf(q) <=> LeftCtrl \in mods
           \/ q.controlChordKeys # {}
        /\ LeftCtrl \in BelievedOf(v.p) <=> LeftCtrl \in held
            \/ v.p.controlChordKeys # {}
        /\ BelievedOf(q) \ {LeftCtrl} = BelievedOf(v.p) \ {LeftCtrl}
    BY <1>1, <1>3, CodesAre DEF BelievedOf, Stage, PolicySound, Policies
  <2>3. v.p.controlChordKeys # {} /\ LeftCtrl \in held => LeftCtrl \in Unsure
    BY <1>3 DEF Known, HoldsTwice, Unsure
  <2>4. /\ LeftCtrl \in C => LeftCtrl \in BelievedOf(q)
        /\ LeftCtrl \in BelievedOf(q) => LeftCtrl \in C \cup Unsure
    <3>1. /\ LeftCtrl \in B => LeftCtrl \in BelievedOf(v.p)
          /\ LeftCtrl \in BelievedOf(v.p) => LeftCtrl \in B \cup Unsure
      BY <1>8 DEF Matches, Modifiers
    <3> QED BY <1>1, <2>1, <2>2, <2>3, <3>1
  <2>5. \A x : x # LeftCtrl => /\ x \in C <=> x \in B
                               /\ x \in BelievedOf(q) <=> x \in BelievedOf(v.p)
    BY <2>1, <2>2
  <2>6. Matches(q, C)
    BY <1>8, <2>4, <2>5 DEF Matches
  <2> QED BY <2>6 DEF C
<1>9. r = [p |-> q, sends |-> v.sends \o (ups \o downs)] /\ Stage(r)
  <2> DEFINE both == ups \o downs
  <2>1. both \in Seq(Events) /\ \A B : Matches(v.p, B) => Matches(q, After(B, both))
    BY <1>7, <1>8
  <2> HIDE DEF both
  <2>2. /\ Say([v EXCEPT !.p = q], both) = [p |-> q, sends |-> v.sends \o both]
        /\ Stage([p |-> q, sends |-> v.sends \o both])
    BY <1>5, <2>1, Extended
  <2> QED BY <1>2, <2>2 DEF both
<1>10. /\ Stage(r) /\ SameKeys(v.p, r.p)
       /\ r.p.controlChordKeys = v.p.controlChordKeys
       /\ LeftCtrl \in r.p.heldKeys <=> LeftCtrl \in mods
  BY <1>1, <1>3, <1>9 DEF SameKeys
<1> QED BY <1>10 DEF r, down

LEMMA HoldBackStage ==
  ASSUME NEW v, Stage(v)
  PROVE  LET r == HoldBackCommand(v)
         IN /\ Stage(r) /\ SameKeys(v.p, r.p)
            /\ r.p.controlChordKeys = v.p.controlChordKeys
            /\ LeftCtrl \in r.p.heldKeys <=> LeftCtrl \in v.p.heldKeys
            /\ Meta \notin r.p.heldKeys
<1> DEFINE forwarded == v.p.heldKeys \cap {Meta}
           keys == v.p.heldKeys \ forwarded
           r == HoldBackCommand(v)
           q == [v.p EXCEPT !.heldKeys = keys,
                            !.pendingCommandKeys = @ \cup forwarded]
           ups == Edges(forwarded, Up)
<1>1. /\ q \in Policies /\ q.controlChordKeys = v.p.controlChordKeys
      /\ q.heldKeys = keys
      /\ q.heldButtons = v.p.heldButtons /\ q.pressedAs = v.p.pressedAs
  BY DEF Stage, PolicySound, Policies
<1>2. r = Say([v EXCEPT !.p = q], ups)
  BY DEF HoldBackCommand
<1>3. /\ forwarded \subseteq {Meta}
         /\ forwarded \in SUBSET (Held \cup {CapsLock, Button})
      /\ keys = v.p.heldKeys \ {Meta}
          /\ (Meta \in forwarded <=> Meta \in v.p.heldKeys)
      /\ keys \cap Codes = v.p.heldKeys \cap Codes
      /\ LeftCtrl \in keys <=> LeftCtrl \in v.p.heldKeys
  BY CodesAre
<1>4. IsFiniteSet(forwarded) /\ IsFiniteSet(keys)
  <2>1. IsFiniteSet(v.p.heldKeys)
    BY DEF Stage, PolicySound, Finite
  <2> HIDE DEF forwarded, keys
  <2>2. IsFiniteSet(v.p.heldKeys \ {Meta})
    BY <2>1, FS_RemoveElement
  <2> QED BY <1>3, <2>2, SmallFinite
<1> HIDE DEF forwarded, keys, q, r
<1>5. PolicySound(q)
  BY <1>1, <1>3, <1>4 DEF Stage, PolicySound, Finite, Mapped
<1>6. /\ ups \in Seq(Events) /\ \A B : After(B, ups) = B \ forwarded
  BY <1>3, <1>4, AfterEdges
<1> HIDE DEF ups
<1>7. ASSUME NEW B, Matches(v.p, B) PROVE Matches(q, After(B, ups))
  <2>1. BelievedOf(q) = BelievedOf(v.p) \ {Meta}
    BY <1>1, <1>3, CodesAre DEF BelievedOf, Stage, PolicySound, Policies
  <2>2. Meta \in forwarded <=> Meta \in BelievedOf(v.p)
    BY <1>3, CodesAre DEF BelievedOf, Stage, PolicySound, Policies
  <2> QED BY <1>3, <1>6, <1>7, <2>1, <2>2 DEF Matches
<1>8. /\ Say([v EXCEPT !.p = q], ups) = [p |-> q, sends |-> v.sends \o ups]
      /\ Stage([p |-> q, sends |-> v.sends \o ups])
  BY <1>5, <1>6, <1>7, Extended
<1> QED BY <1>1, <1>2, <1>3, <1>8, CodesAre DEF SameKeys, r

LEMMA ResyncCommandStage ==
  ASSUME NEW v, Stage(v), NEW held \in BOOLEAN
  PROVE  LET r == ResyncCommand(v, held)
         IN /\ Stage(r) /\ SameKeys(v.p, r.p)
            /\ r.p.controlChordKeys = v.p.controlChordKeys
            /\ LeftCtrl \in r.p.heldKeys <=> LeftCtrl \in v.p.heldKeys
            /\ Meta \in r.p.heldKeys => held
<1> DEFINE pending == v.p.pendingCommandKeys
           gone == v.p.heldKeys \cap {Meta}
           keys == IF held THEN v.p.heldKeys \cup pending ELSE v.p.heldKeys \ gone
           r == ResyncCommand(v, held)
           q == [v.p EXCEPT !.pendingCommandKeys = {}, !.heldKeys = keys]
           edges == IF held THEN Edges(pending, Down) ELSE Edges(gone, Up)
<1>1. /\ pending \subseteq {Meta} /\ gone \subseteq {Meta} /\ v.p \in Policies
      /\ v \in Verdicts
  BY DEF Stage, PolicySound, Policies
<1>2. /\ keys \subseteq Held /\ keys \cap Codes = v.p.heldKeys \cap Codes
      /\ LeftCtrl \in keys <=> LeftCtrl \in v.p.heldKeys
      /\ Meta \in keys => held
      /\ held => keys = v.p.heldKeys \cup pending
      /\ ~held => keys = v.p.heldKeys \ {Meta}
      /\ Meta \in gone <=> Meta \in v.p.heldKeys
  BY <1>1, CodesAre DEF Policies
<1>3. /\ q \in Policies /\ q.controlChordKeys = v.p.controlChordKeys
      /\ q.heldKeys = keys
      /\ q.heldButtons = v.p.heldButtons /\ q.pressedAs = v.p.pressedAs
  <2> HIDE DEF keys
  <2> QED BY <1>1, <1>2 DEF Policies
<1>4. r = Say([v EXCEPT !.p = q], edges)
  <2> DEFINE w == [v EXCEPT !.p.pendingCommandKeys = {}]
  <2>1. /\ [w EXCEPT !.p.heldKeys = @ \cup pending] =
             [v EXCEPT !.p = [v.p EXCEPT !.pendingCommandKeys = {},
                                         !.heldKeys = @ \cup pending]]
        /\ [w EXCEPT !.p.heldKeys = @ \ gone] =
             [v EXCEPT !.p = [v.p EXCEPT !.pendingCommandKeys = {},
                                         !.heldKeys = @ \ gone]]
    BY <1>1 DEF Verdicts, Policies
  <2>2. CASE held
    BY <2>1, <2>2 DEF ResyncCommand
  <2>3. CASE ~held
    BY <2>1, <2>3 DEF ResyncCommand
  <2> QED BY <2>2, <2>3
<1>5. IsFiniteSet(pending) /\ IsFiniteSet(gone) /\ IsFiniteSet(keys)
  <2>1. IsFiniteSet(v.p.heldKeys)
    BY DEF Stage, PolicySound, Finite
  <2> HIDE DEF pending, keys, gone
  <2>2. IsFiniteSet(v.p.heldKeys \ {Meta}) /\ IsFiniteSet(v.p.heldKeys \cup {Meta})
    BY <2>1, FS_RemoveElement, FS_AddElement
  <2>3. pending = {} \/ pending = {Meta}
    BY <1>1
  <2>4. keys \in {v.p.heldKeys, v.p.heldKeys \ {Meta}, v.p.heldKeys \cup {Meta}}
    BY <1>2, <2>3
  <2>5. IsFiniteSet(keys)
    BY <2>1, <2>2, <2>4
  <2> QED BY <1>1, <2>5, SmallFinite
<1>6. PolicySound(q)
  <2> HIDE DEF keys, q
  <2> QED BY <1>2, <1>3, <1>5 DEF Stage, PolicySound, Finite, Mapped
<1>7. /\ edges \in Seq(Events)
      /\ \A B : After(B, edges) = IF held THEN B \cup pending ELSE B \ gone
  <2>1. /\ pending \in SUBSET (Held \cup {CapsLock, Button})
        /\ gone \in SUBSET (Held \cup {CapsLock, Button})
    BY <1>1, CodesAre
  <2> HIDE DEF pending, gone
  <2> QED BY <1>5, <2>1, AfterEdges
<1> HIDE DEF pending, gone, keys, r, q, edges
<1>8. ASSUME NEW B, Matches(v.p, B) PROVE Matches(q, After(B, edges))
  <2>1. /\ BelievedOf(q) \ {Meta} = BelievedOf(v.p) \ {Meta}
        /\ Meta \in BelievedOf(q) <=> Meta \in keys
        /\ Meta \in BelievedOf(v.p) <=> Meta \in v.p.heldKeys
    <3>1. keys \ {Meta} = v.p.heldKeys \ {Meta}
      BY <1>1, <1>2
    <3> QED BY <1>1, <1>3, <3>1, CodesAre DEF BelievedOf, Policies
  <2> DEFINE C == After(B, edges)
  <2>2. C \ {Meta} = B \ {Meta}
    BY <1>1, <1>7
  <2>3. Meta \in B <=> Meta \in v.p.heldKeys
    BY <1>8, <2>1, CodesAre DEF Matches, Modifiers, Unsure
  <2>4. Meta \in C <=> Meta \in keys
    BY <1>1, <1>2, <1>7, <2>3
  <2> HIDE DEF C
  <2>5. \A x : x # Meta => /\ x \in C <=> x \in B
                           /\ x \in BelievedOf(q) <=> x \in BelievedOf(v.p)
    BY <2>1, <2>2
  <2>6. Matches(q, C)
    BY <1>8, <2>1, <2>4, <2>5 DEF Matches
  <2> QED BY <2>6 DEF C
<1>9. /\ Say([v EXCEPT !.p = q], edges) = [p |-> q, sends |-> v.sends \o edges]
      /\ Stage([p |-> q, sends |-> v.sends \o edges])
  BY <1>6, <1>7, <1>8, Extended
<1> QED BY <1>2, <1>3, <1>4, <1>9 DEF SameKeys, r

LEMMA JoinStage ==
  ASSUME NEW v, Stage(v), NEW code \in Codes
  PROVE  LET r == JoinControlChord(v, code)
         IN /\ Stage(r) /\ SameKeys(v.p, r.p)
            /\ r.p.heldKeys = v.p.heldKeys
            /\ LeftCtrl \in BelievedOf(r.p)
<1> DEFINE adds == v.p.controlChordKeys = {} /\ LeftCtrl \notin v.p.heldKeys
           joins == adds \/ v.p.controlChordKeys # {}
           chord == IF joins THEN v.p.controlChordKeys \cup {code}
                             ELSE v.p.controlChordKeys
           r == JoinControlChord(v, code)
           q == [v.p EXCEPT !.controlChordKeys = chord]
           events == IF adds THEN <<Down(LeftCtrl)>> ELSE << >>
<1>1. v.p \in Policies /\ v \in Verdicts
  BY DEF Stage, PolicySound
<1>2. /\ chord \in SUBSET Codes /\ (chord # {} <=> joins)
  BY <1>1 DEF Policies
<1>3. /\ q \in Policies /\ q.controlChordKeys = chord
      /\ q.heldKeys = v.p.heldKeys
      /\ q.heldButtons = v.p.heldButtons /\ q.pressedAs = v.p.pressedAs
  <2> HIDE DEF chord
  <2> QED BY <1>1, <1>2 DEF Policies
<1>4. r = Say([v EXCEPT !.p = q], events)
  BY DEF JoinControlChord
<1>5. /\ events \in Seq(Events)
      /\ \A B : After(B, events) = IF adds THEN B \cup {LeftCtrl} ELSE B
  BY CodesAre, AfterOne, AfterNone
<1> HIDE DEF chord, q, r, events
<1>7. PolicySound(q)
  BY <1>2, <1>3 DEF Stage, PolicySound, Finite, Mapped
<1>8. ASSUME NEW B, Matches(v.p, B) PROVE Matches(q, After(B, events))
  BY <1>2, <1>3, <1>5, <1>8, CodesAre DEF Matches, BelievedOf
<1>9. /\ Say([v EXCEPT !.p = q], events) = [p |-> q, sends |-> v.sends \o events]
      /\ Stage([p |-> q, sends |-> v.sends \o events])
  BY <1>5, <1>7, <1>8, Extended
<1>10. LeftCtrl \in BelievedOf(q)
  BY <1>2, <1>3 DEF BelievedOf
<1> QED BY <1>3, <1>4, <1>9, <1>10 DEF SameKeys, r

LEMMA PressStage ==
  ASSUME NEW v, Stage(v), NEW macKey \in Keys, NEW code \in CodesOf[macKey]
  PROVE  LET r == Press(v, macKey, code)
         IN /\ Stage(r) /\ r.p.heldButtons = v.p.heldButtons
            /\ r.p.heldKeys = v.p.heldKeys \cup {code}
            /\ DOMAIN r.p.pressedAs = DOMAIN v.p.pressedAs \cup {macKey}
            /\ r.p.pressedAs[macKey] = code
            /\ \A k \in DOMAIN v.p.pressedAs \ {macKey} :
                 r.p.pressedAs[k] = v.p.pressedAs[k]
            /\ r.p.controlChordKeys = v.p.controlChordKeys
<1> DEFINE as == v.p.pressedAs
           pressed == [k \in DOMAIN as \cup {macKey} |-> IF k = macKey THEN code ELSE as[k]]
           keys == v.p.heldKeys \cup {code}
           r == Press(v, macKey, code)
           q == [v.p EXCEPT !.heldKeys = keys, !.pressedAs = pressed]
           down == <<Down(code)>>
<1>1. v.p \in Policies /\ v \in Verdicts /\ Mapped(v.p) /\ Finite(v.p)
  BY DEF Stage, PolicySound
<1>2. code \in Codes /\ code \in Held
  BY CodesAre
<1>3. /\ pressed \in UNION {[D -> Codes] : D \in SUBSET Keys}
      /\ DOMAIN pressed = DOMAIN as \cup {macKey} /\ pressed[macKey] = code
      /\ \A k \in DOMAIN as \ {macKey} : pressed[k] = as[k]
      /\ \A k \in DOMAIN pressed : pressed[k] \in CodesOf[k]
  <2>1. PICK D \in SUBSET Keys : as \in [D -> Codes]
    BY <1>1 DEF Policies
  <2>2. pressed \in [D \cup {macKey} -> Codes]
    BY <1>2, <2>1
  <2>3. D \cup {macKey} \in SUBSET Keys
    OBVIOUS
  <2> QED BY <1>1, <2>1, <2>2, <2>3 DEF Mapped
<1>4. /\ q \in Policies /\ q.controlChordKeys = v.p.controlChordKeys
      /\ q.heldKeys = keys
      /\ q.heldButtons = v.p.heldButtons /\ q.pressedAs = pressed
  <2> HIDE DEF pressed
  <2> QED BY <1>1, <1>2, <1>3 DEF Policies
<1>5. r = Say([v EXCEPT !.p = q], down)
  BY DEF Press
<1>6. down \in Seq(Events) /\ \A B : After(B, down) = B \cup {code}
  BY <1>2, AfterOne
<1>7. IsFiniteSet(keys)
  BY <1>1, FS_AddElement DEF Finite
<1> HIDE DEF pressed, keys, r, q, down
<1>8. LeftCtrl \in keys <=> LeftCtrl \in v.p.heldKeys
  BY <1>2, CodesAre DEF keys
<1>9. PolicySound(q)
  BY <1>3, <1>4, <1>7, <1>8 DEF Stage, PolicySound, Finite, Mapped
<1>10. ASSUME NEW B, Matches(v.p, B) PROVE Matches(q, After(B, down))
  <2>1. BelievedOf(q) = BelievedOf(v.p) \cup {code}
    BY <1>4 DEF BelievedOf, keys
  <2> QED BY <1>2, <1>6, <1>10, <2>1, CodesAre DEF Matches, Modifiers
<1>11. /\ Say([v EXCEPT !.p = q], down) = [p |-> q, sends |-> v.sends \o down]
       /\ Stage([p |-> q, sends |-> v.sends \o down])
  BY <1>6, <1>9, <1>10, Extended
<1>12. r.p = q /\ Stage(r)
  BY <1>5, <1>11
<1>13. /\ Stage(r) /\ r.p.heldButtons = v.p.heldButtons
       /\ r.p.heldKeys = keys
       /\ DOMAIN r.p.pressedAs = DOMAIN as \cup {macKey}
       /\ r.p.pressedAs[macKey] = code
       /\ \A k \in DOMAIN as \ {macKey} : r.p.pressedAs[k] = as[k]
       /\ r.p.controlChordKeys = v.p.controlChordKeys
  <2> HIDE DEF as
  <2> QED BY <1>3, <1>4, <1>12
<1> QED BY <1>13 DEF r, keys

-----------------------------------------------------------------------------
(* The policy's handlers.                                                    *)

LEMMA Standing ==
  ASSUME InputInv
  PROVE  /\ Stage(Verdict) /\ Verdict.p = policy
         /\ Verdict = [p |-> policy, sends |-> << >>] /\ policy \in Policies
<1>1. After(Landing, << >>) = Landing
  BY AfterNone
<1>2. Verdict.p = policy /\ Verdict.sends = << >> /\ << >> \in Seq(Events)
  BY DEF Verdict
<1>3. Verdict \in Verdicts
  BY <1>2 DEF Verdicts, Verdict, InputInv, PolicySound
<1> QED BY <1>1, <1>2, <1>3 DEF Stage, InputInv, Verdict, PolicySound

LEMMA PressedAsMapped ==
  ASSUME InputInv, NEW macKey \in Keys, NEW mapped \in CodesOf[macKey]
  PROVE  PressedAs(macKey, mapped) \in CodesOf[macKey]
BY DEF PressedAs, InputInv, PolicySound, Mapped

LEMMA keyDownStage ==
  ASSUME InputInv, NEW macKey \in Keys, NEW mapped \in CodesOf[macKey],
         NEW typesLetter \in BOOLEAN
  PROVE  LET v == keyDown(macKey, mapped, typesLetter)
             code == PressedAs(macKey, mapped)
         IN /\ Stage(v) /\ v.p.heldButtons = policy.heldButtons
            /\ v.p.heldKeys \cap Codes = (policy.heldKeys \cap Codes) \cup {code}
            /\ DOMAIN v.p.pressedAs = DOMAIN policy.pressedAs \cup {macKey}
            /\ v.p.pressedAs[macKey] = code
            /\ \A k \in DOMAIN policy.pressedAs \ {macKey} :
                 v.p.pressedAs[k] = policy.pressedAs[k]
            /\ Command /\ typesLetter =>
                 LeftCtrl \in BelievedOf(v.p) /\ Meta \notin BelievedOf(v.p)
            /\ ~(Command /\ typesLetter) =>
                 /\ LeftCtrl \in BelievedOf(v.p) <=> LeftCtrl \in mac.mods
                 /\ Meta \in BelievedOf(v.p) => Command
<1> DEFINE code == PressedAs(macKey, mapped)
           mods == mac.mods
           chord == Command /\ typesLetter
           v0 == IF chord THEN Verdict ELSE ReleaseChordControl(Verdict)
           s == SyncCapsLock(v0, mac.caps)
           v1 == ResyncModifiers(s, ModifiersDown)
           h == HoldBackCommand(v1)
           v2 == IF chord THEN JoinControlChord(h, code)
                          ELSE ResyncCommand(v1, Command)
           v == Press(v2, macKey, code)
<1>1. code \in CodesOf[macKey] /\ code \in Codes
  BY PressedAsMapped, CodesAre
<1>2. mac.caps \in BOOLEAN /\ Command \in BOOLEAN
  BY DEF InputInv, Shapes, Macs, Command
<1>3. keyDown(macKey, mapped, typesLetter) = v
  BY DEF keyDown
<1>4. Stage(Verdict) /\ Verdict.p = policy /\ Known(policy)
  BY Standing DEF InputInv
<1> HIDE DEF code, v, mods
<1>5. /\ Stage(v0) /\ SameKeys(policy, v0.p) /\ Known(v0.p)
      /\ ~chord => v0.p.controlChordKeys = {}
  <2>1. /\ Stage(ReleaseChordControl(Verdict))
        /\ SameKeys(Verdict.p, ReleaseChordControl(Verdict).p)
        /\ ReleaseChordControl(Verdict).p.controlChordKeys = {}
        /\ Known(ReleaseChordControl(Verdict).p)
    BY <1>4, ReleaseStage DEF Known, HoldsTwice
  <2>2. SameKeys(policy, policy)
    BY DEF SameKeys
  <2> QED BY <1>4, <2>1, <2>2
<1> HIDE DEF v0
<1>6. /\ Stage(s) /\ SameKeys(v0.p, s.p)
      /\ s.p.controlChordKeys = v0.p.controlChordKeys /\ Known(s.p)
  BY <1>2, <1>5, SyncStage DEF Known, HoldsTwice
<1> HIDE DEF s
<1>7. /\ Stage(v1) /\ SameKeys(s.p, v1.p)
      /\ v1.p.controlChordKeys = s.p.controlChordKeys
      /\ LeftCtrl \in v1.p.heldKeys <=> LeftCtrl \in mods
  <2>1. ModifiersDown = mods \cap {LeftCtrl}
    BY DEF ModifiersDown, mods
  <2> QED BY <1>6, <2>1, ResyncStage
<1> HIDE DEF v1
<1>8. /\ Stage(v2) /\ SameKeys(v1.p, v2.p)
      /\ chord => LeftCtrl \in BelievedOf(v2.p) /\ Meta \notin v2.p.heldKeys
      /\ ~chord => /\ v2.p.controlChordKeys = v1.p.controlChordKeys
                   /\ LeftCtrl \in v2.p.heldKeys <=> LeftCtrl \in mods
                   /\ Meta \in v2.p.heldKeys => Command
  <2>1. CASE chord
    <3>1. /\ Stage(h) /\ SameKeys(v1.p, h.p)
          /\ LeftCtrl \in h.p.heldKeys <=> LeftCtrl \in v1.p.heldKeys
          /\ Meta \notin h.p.heldKeys
      BY <1>7, HoldBackStage
    <3> HIDE DEF h
    <3> DEFINE j == JoinControlChord(h, code)
    <3>2. /\ Stage(j) /\ SameKeys(h.p, j.p)
          /\ j.p.heldKeys = h.p.heldKeys
          /\ LeftCtrl \in BelievedOf(j.p)
      BY <1>1, <1>7, <3>1, JoinStage
    <3>3. v2 = j
      BY <2>1
    <3> HIDE DEF j, v2
    <3> QED BY <2>1, <3>1, <3>2, <3>3 DEF SameKeys
  <2>2. CASE ~chord
    <3> DEFINE rc == ResyncCommand(v1, Command)
    <3>1. /\ Stage(rc) /\ SameKeys(v1.p, rc.p)
          /\ rc.p.controlChordKeys = v1.p.controlChordKeys
          /\ LeftCtrl \in rc.p.heldKeys <=> LeftCtrl \in v1.p.heldKeys
          /\ Meta \in rc.p.heldKeys => Command
      <4> DEFINE cmd == Command
      <4>1. cmd \in BOOLEAN
        BY <1>2
      <4> HIDE DEF cmd
      <4>2. /\ Stage(ResyncCommand(v1, cmd))
            /\ SameKeys(v1.p, ResyncCommand(v1, cmd).p)
            /\ ResyncCommand(v1, cmd).p.controlChordKeys = v1.p.controlChordKeys
            /\ LeftCtrl \in ResyncCommand(v1, cmd).p.heldKeys
                 <=> LeftCtrl \in v1.p.heldKeys
            /\ Meta \in ResyncCommand(v1, cmd).p.heldKeys => cmd
        BY <1>7, <4>1, ResyncCommandStage
      <4> QED BY <4>2 DEF cmd
    <3>2. v2 = rc
      BY <2>2
    <3> HIDE DEF rc, v2
    <3> QED BY <1>7, <2>2, <3>1, <3>2
  <2> QED BY <2>1, <2>2
<1> HIDE DEF v2
<1>9. /\ Stage(v) /\ v.p.heldButtons = v2.p.heldButtons
      /\ v.p.heldKeys = v2.p.heldKeys \cup {code}
      /\ DOMAIN v.p.pressedAs = DOMAIN v2.p.pressedAs \cup {macKey}
      /\ v.p.pressedAs[macKey] = code
      /\ \A k \in DOMAIN v2.p.pressedAs \ {macKey} :
           v.p.pressedAs[k] = v2.p.pressedAs[k]
      /\ v.p.controlChordKeys = v2.p.controlChordKeys
  <2> QED BY <1>1, <1>8, PressStage DEF v
<1>10. SameKeys(policy, v2.p)
  BY <1>5, <1>6, <1>7, <1>8 DEF SameKeys
<1>11. /\ v.p.heldButtons = policy.heldButtons
       /\ v.p.heldKeys \cap Codes = (policy.heldKeys \cap Codes) \cup {code}
       /\ DOMAIN v.p.pressedAs = DOMAIN policy.pressedAs \cup {macKey}
       /\ \A k \in DOMAIN policy.pressedAs \ {macKey} :
            v.p.pressedAs[k] = policy.pressedAs[k]
  BY <1>1, <1>9, <1>10 DEF SameKeys
<1>12. v.p \in Policies /\ v2.p \in Policies
  BY <1>8, <1>9 DEF Stage, PolicySound
<1>13. /\ Meta \in BelievedOf(v.p) <=> Meta \in v2.p.heldKeys
       /\ LeftCtrl \in BelievedOf(v.p) <=> LeftCtrl \in BelievedOf(v2.p)
       /\ LeftCtrl \in BelievedOf(v2.p) <=>
            LeftCtrl \in v2.p.heldKeys \/ v2.p.controlChordKeys # {}
  BY <1>1, <1>9, <1>12, CodesAre DEF BelievedOf, Policies
<1>14. chord => LeftCtrl \in BelievedOf(v.p) /\ Meta \notin BelievedOf(v.p)
  BY <1>8, <1>13
<1>15. ~chord => /\ LeftCtrl \in BelievedOf(v.p) <=> LeftCtrl \in mods
                 /\ Meta \in BelievedOf(v.p) => Command
  BY <1>5, <1>6, <1>7, <1>8, <1>13
<1> QED BY <1>3, <1>9, <1>11, <1>14, <1>15 DEF code, mods

LEMMA keyUpStage ==
  ASSUME InputInv, NEW macKey \in Keys, NEW mapped \in CodesOf[macKey]
  PROVE  LET v == keyUp(macKey, mapped)
             code == PressedAs(macKey, mapped)
         IN /\ Stage(v) /\ v.p.heldButtons = policy.heldButtons
            /\ v.p.heldKeys \cap Codes = (policy.heldKeys \cap Codes) \ {code}
            /\ DOMAIN v.p.pressedAs = DOMAIN policy.pressedAs \ {macKey}
            /\ \A k \in DOMAIN policy.pressedAs \ {macKey} :
                 v.p.pressedAs[k] = policy.pressedAs[k]
<1> DEFINE code == PressedAs(macKey, mapped)
           as == policy.pressedAs
           lifted == [k \in DOMAIN as \ {macKey} |-> as[k]]
           keys == policy.heldKeys \ {code}
           left == policy.controlChordKeys \ {code}
           w == [Verdict EXCEPT !.p.pressedAs =
                   [k \in DOMAIN @ \ {macKey} |-> @[k]]]
           p0 == [policy EXCEPT !.pressedAs = lifted]
           p1 == [policy EXCEPT !.pressedAs = lifted, !.heldKeys = keys,
                                !.controlChordKeys = left]
           last == code \in policy.controlChordKeys /\ left = {}
           ups == <<Up(code)>> \o IF last THEN <<Up(LeftCtrl)>> ELSE << >>
           v == keyUp(macKey, mapped)
<1>1. /\ policy \in Policies /\ Mapped(policy) /\ Finite(policy)
      /\ Stage(Verdict) /\ Verdict = [p |-> policy, sends |-> << >>]
      /\ PolicySound(policy) /\ Known(policy)
  BY Standing DEF InputInv, PolicySound
<1>2. code \in Codes
  BY PressedAsMapped, CodesAre
<1>3. /\ lifted \in UNION {[D -> Codes] : D \in SUBSET Keys}
      /\ DOMAIN lifted = DOMAIN as \ {macKey}
      /\ \A k \in DOMAIN as \ {macKey} : lifted[k] = as[k]
      /\ \A k \in DOMAIN lifted : lifted[k] \in CodesOf[k]
  <2>1. PICK D \in SUBSET Keys : as \in [D -> Codes]
    BY <1>1 DEF Policies
  <2>2. lifted \in [D \ {macKey} -> Codes] /\ D \ {macKey} \in SUBSET Keys
    BY <2>1
  <2> QED BY <1>1, <2>1, <2>2 DEF Mapped
<1>4. /\ p0 \in Policies /\ p0.controlChordKeys = policy.controlChordKeys
      /\ p0.heldKeys = policy.heldKeys
      /\ p0.heldButtons = policy.heldButtons /\ p0.pressedAs = lifted
      /\ p1 \in Policies /\ p1.controlChordKeys = left
      /\ p1.heldKeys = keys
      /\ p1.heldButtons = policy.heldButtons /\ p1.pressedAs = lifted
  <2>1. keys \subseteq policy.heldKeys /\ left \subseteq policy.controlChordKeys
    OBVIOUS
  <2> HIDE DEF lifted, keys, left
  <2> QED BY <1>1, <1>3, <2>1 DEF Policies
<1>5. IsFiniteSet(keys)
  BY <1>1, FS_RemoveElement DEF Finite
<1>6. PolicySound(p0) /\ PolicySound(p1)
  <2>1. keys \subseteq policy.heldKeys /\ left \subseteq policy.controlChordKeys
    OBVIOUS
  <2> HIDE DEF lifted, keys, left, p0, p1
  <2> QED BY <1>1, <1>3, <1>4, <1>5, <2>1
        DEF PolicySound, Finite, Mapped
<1>7. w = [p |-> p0, sends |-> << >>] /\ w.p = p0
  <2>1. w = [Verdict EXCEPT !.p = p0]
    <3>1. Verdict.p = policy
      BY <1>1
    <3> QED BY <3>1
  <2> HIDE DEF p0, w
  <2> QED BY <1>1, <2>1
<1>8. v = IF code \notin policy.heldKeys THEN w
          ELSE Say([w EXCEPT !.p.heldKeys = @ \ {code},
                             !.p.controlChordKeys = left], ups)
  <2>1. /\ w.p.heldKeys = policy.heldKeys
        /\ w.p.controlChordKeys = policy.controlChordKeys
    BY <1>4, <1>7
  <2>2. v = IF code \notin w.p.heldKeys THEN w
            ELSE Say([w EXCEPT !.p.heldKeys = @ \ {code},
                               !.p.controlChordKeys = w.p.controlChordKeys \ {code}],
                     <<Up(code)>> \o
                     IF code \in w.p.controlChordKeys
                        /\ w.p.controlChordKeys \ {code} = {}
                     THEN <<Up(LeftCtrl)>> ELSE << >>)
    BY DEF keyUp, ReleasedAs
  <2> HIDE DEF w, v, code
  <2> QED BY <2>1, <2>2
<1>9. [w EXCEPT !.p.heldKeys = @ \ {code}, !.p.controlChordKeys = left]
        = [p |-> p1, sends |-> << >>]
  <2>1. [p0 EXCEPT !.heldKeys = @ \ {code}, !.controlChordKeys = left] = p1
    BY <1>1, <1>4 DEF Policies
  <2> HIDE DEF lifted, left, w, p0, p1
  <2>2. [w EXCEPT !.p.heldKeys = @ \ {code}] =
          [p |-> [p0 EXCEPT !.heldKeys = @ \ {code}], sends |-> << >>]
    <3> DEFINE e == w.p.heldKeys \ {code}
               y == [w.p EXCEPT !.heldKeys = @ \ {code}]
    <3>1. [w EXCEPT !.p.heldKeys = @ \ {code}] = [w EXCEPT !.p = y]
      <4>1. [w EXCEPT !.p.heldKeys = e] = [w EXCEPT !.p = [w.p EXCEPT !.heldKeys = e]]
        <5> HIDE DEF e
        <5> QED BY <1>7
      <4> QED BY <4>1
    <3>2. y = [p0 EXCEPT !.heldKeys = @ \ {code}]
      BY <1>7
    <3> HIDE DEF y
    <3>3. [w EXCEPT !.p = y] = [p |-> y, sends |-> << >>]
      BY <1>7
    <3> QED BY <3>1, <3>2, <3>3
  <2> DEFINE x == [w EXCEPT !.p.heldKeys = @ \ {code}]
             p2 == [p0 EXCEPT !.heldKeys = @ \ {code}]
  <2>3. [w EXCEPT !.p.heldKeys = @ \ {code}, !.p.controlChordKeys = left]
          = [x EXCEPT !.p.controlChordKeys = left]
    BY <1>7
  <2>4. x = [p |-> p2, sends |-> << >>]
    BY <2>2
  <2>5. [p2 EXCEPT !.controlChordKeys = left] = p1
    BY <2>1
  <2> HIDE DEF x, p2
  <2>6. [x EXCEPT !.p.controlChordKeys = left] =
          [p |-> [p2 EXCEPT !.controlChordKeys = left], sends |-> << >>]
    BY <2>4
  <2> QED BY <2>3, <2>5, <2>6
<1>10. /\ ups \in Seq(Events)
       /\ \A B : After(B, ups) = (B \ {code}) \ (IF last THEN {LeftCtrl} ELSE {})
  <2> DEFINE u == <<Up(code)>>
             c == IF last THEN <<Up(LeftCtrl)>> ELSE << >>
  <2>1. u \in Seq(Events) /\ \A B : After(B, u) = B \ {code}
    BY <1>2, CodesAre, AfterOne
  <2>2. /\ c \in Seq(Events)
        /\ \A B : After(B, c) = B \ (IF last THEN {LeftCtrl} ELSE {})
    <3> HIDE DEF last
    <3>1. CASE last
      BY <3>1, CodesAre, AfterOne
    <3>2. CASE ~last
      BY <3>2, CodesAre, AfterOne, AfterNone
    <3> QED BY <3>1, <3>2
  <2> HIDE DEF u, c
  <2>3. u \o c \in Seq(Events) /\ \A B : After(B, u \o c) = After(After(B, u), c)
    BY <2>1, <2>2, AfterConcat
  <2> QED BY <2>1, <2>2, <2>3 DEF u, c
<1> HIDE DEF ups, p0, p1, lifted, w, v, code
<1>11. CASE code \notin policy.heldKeys
  <2>1. ASSUME NEW B, Matches(policy, B) PROVE Matches(p0, B)
    BY <1>4, <2>1 DEF Matches, BelievedOf
  <2>2. After(Landing, << >>) = Landing /\ << >> \in Seq(Events)
    BY AfterNone
  <2>3. Stage(v)
    BY <1>1, <1>4, <1>6, <1>7, <1>8, <1>11, <2>1, <2>2 DEF Stage, Verdicts
  <2> QED BY <1>3, <1>4, <1>7, <1>8, <1>11, <2>3 DEF v, code
<1>12. CASE code \in policy.heldKeys
  <2> HIDE DEF left
  <2>1. ASSUME NEW B, Matches(policy, B) PROVE Matches(p1, After(B, ups))
    <3>1. policy.controlChordKeys # {} /\ LeftCtrl \in policy.heldKeys
            => LeftCtrl \in Unsure
      BY <1>1 DEF Known, HoldsTwice, Unsure
    <3>2. \A x : x \notin Unsure =>
             (x \in BelievedOf(p1) <=> /\ x \in BelievedOf(policy) /\ x # code
                                      /\ ~(last /\ x = LeftCtrl))
      BY <1>1, <1>2, <1>4, <3>1, CodesAre DEF BelievedOf, Policies, left
    <3>3. \A x \in BelievedOf(policy) :
            x = code \/ (last /\ x = LeftCtrl) \/ x \in BelievedOf(p1)
      BY <1>1, <1>2, <1>4, CodesAre DEF BelievedOf, Policies, left
    <3> QED BY <1>2, <1>10, <2>1, <3>2, <3>3, CodesAre DEF Matches, Modifiers
  <2>2. [w EXCEPT !.p.heldKeys = @ \ {code}, !.p.controlChordKeys = left]
          = [Verdict EXCEPT !.p = p1]
    BY <1>1, <1>9
  <2>3. /\ Say([Verdict EXCEPT !.p = p1], ups)
             = [p |-> p1, sends |-> Verdict.sends \o ups]
        /\ Stage([p |-> p1, sends |-> Verdict.sends \o ups])
    <3>1. Verdict.p = policy
      BY <1>1
    <3> QED BY <1>1, <1>6, <1>10, <2>1, <3>1, Extended
  <2>4. v.p = p1 /\ Stage(v)
    BY <1>8, <1>12, <2>2, <2>3
  <2> QED BY <1>3, <1>4, <2>4 DEF v, code
<1> QED BY <1>11, <1>12

(* What is said first, of the policy as it stands.                           *)
LEMMA SaidFirst ==
  ASSUME InputInv, NEW q, PolicySound(q),
         NEW events \in Seq(Events),
         \A B : Matches(policy, B) => Matches(q, After(B, events))
  PROVE  /\ Say([Verdict EXCEPT !.p = q], events).p = q
         /\ Stage(Say([Verdict EXCEPT !.p = q], events))
<1>1. Verdict = [p |-> policy, sends |-> << >>]
  BY Standing
<1> DEFINE w == [Verdict EXCEPT !.p = q]
<1>2. w = [p |-> q, sends |-> << >>]
  BY <1>1
<1> HIDE DEF w
<1>3. Say(w, events) = [p |-> q, sends |-> events]
  <2>1. << >> \o events = events
    OBVIOUS
  <2>2. [w EXCEPT !.sends = events] = [p |-> q, sends |-> events]
    BY <1>2
  <2>3. Say(w, events) = [w EXCEPT !.sends = w.sends \o events]
    BY DEF Say
  <2>4. w.sends = << >>
    BY <1>2
  <2> QED BY <2>1, <2>2, <2>3, <2>4
<1>4. Stage([p |-> q, sends |-> events])
  BY DEF Stage, Verdicts, PolicySound, InputInv
<1> QED BY <1>3, <1>4 DEF w

(* A policy that says nothing, its book of held keys aside.                  *)
LEMMA SaidNothing ==
  ASSUME InputInv, NEW q, PolicySound(q),
         \A B : Matches(policy, B) => Matches(q, B)
  PROVE  /\ [Verdict EXCEPT !.p = q].p = q
         /\ Stage([Verdict EXCEPT !.p = q])
<1>1. Verdict = [p |-> policy, sends |-> << >>]
  BY Standing
<1>2. [Verdict EXCEPT !.p = q] = [p |-> q, sends |-> << >>]
  BY <1>1
<1>3. After(Landing, << >>) = Landing /\ << >> \in Seq(Events)
  BY AfterNone
<1>4. Stage([p |-> q, sends |-> << >>])
  BY <1>3 DEF Stage, Verdicts, PolicySound, InputInv
<1> QED BY <1>2, <1>4

LEMMA modifierDownStage ==
  ASSUME InputInv, NEW code \in Modifiers
  PROVE  LET v == modifierDown(code)
         IN Stage(v) /\ SameKeys(policy, v.p)
<1> DEFINE v == modifierDown(code)
           keys == policy.heldKeys \cup {code}
           down == <<Down(code)>>
           q1 == [policy EXCEPT !.pendingCommandKeys = @ \cup {code}]
           q2 == [policy EXCEPT !.controlChordKeys = {}, !.heldKeys = keys]
           q3 == [policy EXCEPT !.heldKeys = keys]
<1>1. /\ policy \in Policies /\ Verdict.p = policy /\ PolicySound(policy)
      /\ Verdict = [p |-> policy, sends |-> << >>]
  BY Standing DEF InputInv
<1>2. code \in Held /\ code \notin Codes /\ code # Button
      /\ code \in {LeftCtrl, Meta} /\ LeftCtrl # Meta
  BY CodesAre DEF Modifiers, Held
<1>3. IsFiniteSet(keys)
  BY <1>1, FS_AddElement DEF PolicySound, Finite
<1>4. /\ q2 \in Policies /\ q2.controlChordKeys = {} /\ q2.heldKeys = keys
      /\ q2.heldButtons = policy.heldButtons /\ q2.pressedAs = policy.pressedAs
      /\ q3 \in Policies /\ q3.controlChordKeys = policy.controlChordKeys
      /\ q3.heldKeys = keys
      /\ q3.heldButtons = policy.heldButtons /\ q3.pressedAs = policy.pressedAs
  <2>1. keys \subseteq Held
    BY <1>1, <1>2 DEF Policies
  <2> HIDE DEF keys
  <2> QED BY <1>1, <2>1 DEF Policies
<1>5. keys \cap Codes = policy.heldKeys \cap Codes
  BY <1>2
<1>6. CASE code = Meta
  <2>1. PolicySound(policy)
    BY <1>1, <1>2, <1>6 DEF PolicySound
  <2>2. CASE Meta \in policy.heldKeys
    <3>1. Stage(Verdict)
      BY <2>1, Standing DEF Stage
    <3> QED BY <1>1, <1>6, <2>2, <3>1 DEF modifierDown, SameKeys
  <2>3. CASE Meta \notin policy.heldKeys
    <3>1. /\ q1 \in Policies /\ q1.controlChordKeys = policy.controlChordKeys
          /\ q1.heldKeys = policy.heldKeys
          /\ q1.heldButtons = policy.heldButtons /\ q1.pressedAs = policy.pressedAs
      BY <1>1, <1>6 DEF Policies
    <3>2. [Verdict EXCEPT !.p.pendingCommandKeys = @ \cup {code}]
            = [Verdict EXCEPT !.p = q1]
      BY <1>1
    <3>3. v = [Verdict EXCEPT !.p = q1]
      BY <1>6, <2>3, <3>2 DEF modifierDown
    <3> HIDE DEF q1, v
    <3>4. PolicySound(q1)
      BY <2>1, <3>1 DEF PolicySound, Finite, Mapped
    <3>5. \A B : Matches(policy, B) => Matches(q1, B)
      BY <3>1 DEF Matches, BelievedOf
    <3>6. v.p = q1 /\ Stage(v)
      BY <3>3, <3>4, <3>5, SaidNothing
    <3> QED BY <3>1, <3>6 DEF SameKeys, v
  <2> QED BY <2>2, <2>3
<1>7. CASE code = LeftCtrl /\ policy.controlChordKeys # {}
  <2>1. [Verdict EXCEPT !.p.controlChordKeys = {}, !.p.heldKeys = @ \cup {code}]
          = [Verdict EXCEPT !.p = q2]
    <3> DEFINE x == [Verdict EXCEPT !.p.controlChordKeys = {}]
               p1 == [policy EXCEPT !.controlChordKeys = {}]
    <3>1. x = [p |-> p1, sends |-> << >>]
      <4>1. x = [Verdict EXCEPT !.p = p1]
        BY <1>1
      <4> HIDE DEF x, p1
      <4> QED BY <1>1, <4>1
    <3>2. p1.heldKeys = policy.heldKeys /\ q2 = [p1 EXCEPT !.heldKeys = keys]
      <4> HIDE DEF keys
      <4> QED BY <1>1 DEF Policies
    <3>3. [Verdict EXCEPT !.p.controlChordKeys = {}, !.p.heldKeys = @ \cup {code}]
            = [x EXCEPT !.p.heldKeys = keys]
      BY <1>1
    <3> HIDE DEF x, p1, keys, q2
    <3>4. [x EXCEPT !.p.heldKeys = keys] = [p |-> q2, sends |-> << >>]
      BY <3>1, <3>2
    <3>5. [Verdict EXCEPT !.p = q2] = [p |-> q2, sends |-> << >>]
      BY <1>1
    <3> QED BY <3>3, <3>4, <3>5
  <2>2. v = [Verdict EXCEPT !.p = q2]
    BY <1>2, <1>7, <2>1 DEF modifierDown
  <2> HIDE DEF q2, v
  <2>3. PolicySound(q2)
    BY <1>1, <1>3, <1>4 DEF PolicySound, Finite, Mapped
  <2>4. ASSUME NEW B, Matches(policy, B) PROVE Matches(q2, B)
    BY <1>4, <1>7, <2>4 DEF Matches, BelievedOf
  <2>5. v.p = q2 /\ Stage(v)
    BY <2>2, <2>3, <2>4, SaidNothing
  <2> QED BY <1>4, <1>5, <2>5 DEF SameKeys, v
<1>8. CASE code = LeftCtrl /\ policy.controlChordKeys = {}
  <2>1. [Verdict EXCEPT !.p.heldKeys = @ \cup {code}] = [Verdict EXCEPT !.p = q3]
    BY <1>1
  <2>2. v = Say([Verdict EXCEPT !.p = q3], down)
    BY <1>2, <1>8, <2>1 DEF modifierDown
  <2>3. down \in Seq(Events) /\ \A B : After(B, down) = B \cup {code}
    BY <1>2, AfterOne
  <2> HIDE DEF q3, v, down
  <2>4. PolicySound(q3)
    BY <1>1, <1>3, <1>4, <1>8 DEF PolicySound, Finite, Mapped
  <2>5. ASSUME NEW B, Matches(policy, B) PROVE Matches(q3, After(B, down))
    BY <1>4, <1>8, <2>3, <2>5 DEF Matches, BelievedOf
  <2>6. v.p = q3 /\ Stage(v)
    BY <2>2, <2>3, <2>4, <2>5, SaidFirst
  <2> QED BY <1>4, <1>5, <2>6 DEF SameKeys, v
<1> QED BY <1>2, <1>6, <1>7, <1>8

LEMMA modifierUpStage ==
  ASSUME InputInv, NEW code \in Modifiers
  PROVE  LET v == modifierUp(code)
         IN Stage(v) /\ SameKeys(policy, v.p)
<1> DEFINE v == modifierUp(code)
           keys == policy.heldKeys \ {code}
           up == <<Up(code)>>
           q1 == [policy EXCEPT !.pendingCommandKeys = @ \ {code}]
           q2 == [policy EXCEPT !.heldKeys = keys]
<1>1. /\ policy \in Policies /\ Verdict.p = policy /\ PolicySound(policy)
      /\ Verdict = [p |-> policy, sends |-> << >>]
  BY Standing DEF InputInv
<1>2. code \in Held /\ code \notin Codes /\ code # Button
      /\ code \in {LeftCtrl, Meta} /\ LeftCtrl # Meta
  BY CodesAre DEF Modifiers, Held
<1>3. PolicySound(policy)
  BY <1>1 DEF PolicySound
<1>4. CASE code \in policy.pendingCommandKeys
  <2>1. /\ q1 \in Policies /\ q1.controlChordKeys = policy.controlChordKeys
        /\ q1.heldKeys = policy.heldKeys
        /\ q1.heldButtons = policy.heldButtons /\ q1.pressedAs = policy.pressedAs
    BY <1>1 DEF Policies
  <2>2. [Verdict EXCEPT !.p.pendingCommandKeys = @ \ {code}]
          = [Verdict EXCEPT !.p = q1]
    BY <1>1
  <2>3. v = [Verdict EXCEPT !.p = q1]
    BY <1>4, <2>2 DEF modifierUp
  <2> HIDE DEF q1, v
  <2>4. PolicySound(q1)
    BY <1>3, <2>1 DEF PolicySound, Finite, Mapped
  <2>5. \A B : Matches(policy, B) => Matches(q1, B)
    BY <2>1 DEF Matches, BelievedOf
  <2>6. v.p = q1 /\ Stage(v)
    BY <2>3, <2>4, <2>5, SaidNothing
  <2> QED BY <2>1, <2>6 DEF SameKeys, v
<1>5. CASE code \notin policy.pendingCommandKeys /\ code \in policy.heldKeys
  <2>1. [Verdict EXCEPT !.p.heldKeys = @ \ {code}] = [Verdict EXCEPT !.p = q2]
    BY <1>1
  <2>2. v = Say([Verdict EXCEPT !.p = q2], up)
    BY <1>5, <2>1 DEF modifierUp
  <2>3. up \in Seq(Events) /\ \A B : After(B, up) = B \ {code}
    BY <1>2, AfterOne
  <2>4. /\ q2 \in Policies /\ q2.controlChordKeys = policy.controlChordKeys
        /\ q2.heldKeys = keys
        /\ q2.heldButtons = policy.heldButtons /\ q2.pressedAs = policy.pressedAs
    <3>1. keys \subseteq Held
      BY <1>1 DEF Policies
    <3> HIDE DEF keys
    <3> QED BY <1>1, <3>1 DEF Policies
  <2>5. IsFiniteSet(keys) /\ keys \cap Codes = policy.heldKeys \cap Codes
    BY <1>1, <1>2, FS_RemoveElement DEF PolicySound, Finite
  <2> HIDE DEF q2, v, up
  <2>6. PolicySound(q2)
    BY <1>3, <2>4, <2>5 DEF PolicySound, Finite, Mapped
  <2>7. ASSUME NEW B, Matches(policy, B) PROVE Matches(q2, After(B, up))
    <3>1. policy.controlChordKeys # {} /\ LeftCtrl \in policy.heldKeys
            => LeftCtrl \in Unsure
      BY DEF InputInv, Known, HoldsTwice, Unsure
    <3>2. /\ BelievedOf(q2) \subseteq BelievedOf(policy)
          /\ BelievedOf(policy) \ {code} \subseteq BelievedOf(q2)
          /\ code \in BelievedOf(q2) => code \in Unsure
      BY <1>1, <1>2, <1>5, <2>4, <3>1, CodesAre DEF BelievedOf, Policies
    <3> QED BY <2>3, <2>7, <3>2 DEF Matches
  <2>8. v.p = q2 /\ Stage(v)
    BY <2>2, <2>3, <2>6, <2>7, SaidFirst
  <2> QED BY <2>4, <2>5, <2>8 DEF SameKeys, v
<1>6. CASE code \notin policy.pendingCommandKeys /\ code \notin policy.heldKeys
  <2>1. Stage(Verdict)
    BY <1>3, Standing DEF Stage
  <2> QED BY <1>1, <1>6, <2>1 DEF modifierUp, SameKeys
<1> QED BY <1>4, <1>5, <1>6

LEMMA buttonDownStage ==
  ASSUME InputInv
  PROVE  LET v == buttonDown
         IN /\ Stage(v) /\ v.p.heldButtons = {Button}
            /\ v.p.heldKeys \cap Codes = policy.heldKeys \cap Codes
            /\ v.p.pressedAs = policy.pressedAs
<1> DEFINE rl == ReleaseChordControl(Verdict)
           rm == ResyncModifiers(rl, ModifiersDown)
           w == ResyncCommand(rm, Command)
           q == [w.p EXCEPT !.heldButtons = {Button}]
           down == <<Down(Button)>>
           v == buttonDown
<1>1. Command \in BOOLEAN /\ ModifiersDown = mac.mods \cap {LeftCtrl}
  BY DEF Command, ModifiersDown
<1>2. v = Say([w EXCEPT !.p.heldButtons = {Button}], down)
  BY DEF buttonDown
<1>3. Stage(Verdict) /\ Verdict.p = policy
  BY Standing
<1> HIDE DEF v
<1>4. Stage(rl) /\ SameKeys(policy, rl.p) /\ Known(rl.p)
  BY <1>3, ReleaseStage DEF InputInv, Known, HoldsTwice
<1> HIDE DEF rl
<1>5. Stage(rm) /\ SameKeys(rl.p, rm.p)
  BY <1>1, <1>4, ResyncStage
<1> HIDE DEF rm
<1>6. Stage(w) /\ SameKeys(rm.p, w.p)
  <2> DEFINE cmd == Command
  <2>1. cmd \in BOOLEAN
    BY <1>1
  <2> HIDE DEF cmd
  <2>2. /\ Stage(ResyncCommand(rm, cmd))
        /\ SameKeys(rm.p, ResyncCommand(rm, cmd).p)
    BY <1>5, <2>1, ResyncCommandStage
  <2> QED BY <2>2 DEF cmd
<1> HIDE DEF w
<1>7. SameKeys(policy, w.p) /\ w.p \in Policies /\ w \in Verdicts
  BY <1>4, <1>5, <1>6 DEF SameKeys, Stage, PolicySound
<1>8. /\ q \in Policies /\ q.controlChordKeys = w.p.controlChordKeys
      /\ q.heldKeys = w.p.heldKeys
      /\ q.heldButtons = {Button} /\ q.pressedAs = w.p.pressedAs
  BY <1>7 DEF Policies
<1>9. v = Say([w EXCEPT !.p = q], down)
  BY <1>2
<1>10. down \in Seq(Events) /\ \A B : After(B, down) = B \cup {Button}
  BY AfterOne
<1> HIDE DEF q, down
<1>11. PolicySound(q)
  BY <1>6, <1>8 DEF Stage, PolicySound, Finite, Mapped
<1>12. ASSUME NEW B, Matches(w.p, B) PROVE Matches(q, After(B, down))
  <2>1. BelievedOf(q) = BelievedOf(w.p) \cup {Button}
    BY <1>7, <1>8 DEF BelievedOf, Policies
  <2> QED BY <1>10, <1>12, <2>1 DEF Matches
<1>13. /\ Say([w EXCEPT !.p = q], down) = [p |-> q, sends |-> w.sends \o down]
       /\ Stage([p |-> q, sends |-> w.sends \o down])
  BY <1>6, <1>10, <1>11, <1>12, Extended
<1>14. v.p = q /\ Stage(v)
  BY <1>9, <1>13
<1> QED BY <1>7, <1>8, <1>14 DEF v, SameKeys

LEMMA buttonUpStage ==
  ASSUME InputInv
  PROVE  LET v == buttonUp
         IN /\ Stage(v) /\ v.p.heldButtons = {}
            /\ v.p.heldKeys = policy.heldKeys
            /\ v.p.pressedAs = policy.pressedAs
<1> DEFINE q == [policy EXCEPT !.heldButtons = {}]
           up == <<Up(Button)>>
           v == buttonUp
<1>1. /\ policy \in Policies /\ Verdict.p = policy /\ PolicySound(policy)
      /\ Stage(Verdict) /\ Verdict = [p |-> policy, sends |-> << >>]
  BY Standing DEF InputInv
<1>2. CASE policy.heldButtons = {}
  BY <1>1, <1>2 DEF buttonUp
<1>3. CASE policy.heldButtons # {}
  <2>1. /\ q \in Policies /\ q.controlChordKeys = policy.controlChordKeys
        /\ q.heldKeys = policy.heldKeys
        /\ q.heldButtons = {} /\ q.pressedAs = policy.pressedAs
    BY <1>1 DEF Policies
  <2>2. [Verdict EXCEPT !.p.heldButtons = {}] = [Verdict EXCEPT !.p = q]
    BY <1>1
  <2>3. v = Say([Verdict EXCEPT !.p = q], up)
    BY <1>3, <2>2 DEF buttonUp
  <2>4. up \in Seq(Events) /\ \A B : After(B, up) = B \ {Button}
    BY AfterOne
  <2> HIDE DEF q, v, up
  <2>5. PolicySound(q)
    BY <1>1, <2>1 DEF PolicySound, Finite, Mapped
  <2>6. ASSUME NEW B, Matches(policy, B) PROVE Matches(q, After(B, up))
    <3>1. BelievedOf(q) = BelievedOf(policy) \ {Button}
      BY <1>1, <1>3, <2>1, CodesAre DEF BelievedOf, Policies, Held, Modifiers
    <3> QED BY <2>4, <2>6, <3>1 DEF Matches
  <2>7. v.p = q /\ Stage(v)
    BY <2>3, <2>4, <2>5, <2>6, SaidFirst
  <2> QED BY <2>1, <2>7 DEF v
<1> QED BY <1>2, <1>3

(* A fresh policy holds nothing.                                             *)
FreshWith(on) ==
    [heldKeys |-> {}, heldButtons |-> {}, pendingCommandKeys |-> {},
     pressedAs |-> [k \in {} |-> {}], controlChordKeys |-> {}, hostCapsLock |-> on]
Empty(q) == PolicySound(q) /\ Quiet(q) /\ BelievedOf(q) = {}

LEMMA FreshIsEmpty ==
  ASSUME NEW on \in BOOLEAN
  PROVE  /\ Empty(FreshWith(on)) /\ Empty(FreshPolicy)
         /\ Empty([FreshPolicy EXCEPT !.hostCapsLock = on])
<1>1. FreshPolicy = FreshWith(FALSE)
  BY DEF FreshPolicy, FreshWith
<1>2. [FreshPolicy EXCEPT !.hostCapsLock = on] = FreshWith(on)
  <2> SUFFICES ASSUME NEW q, q = [FreshPolicy EXCEPT !.hostCapsLock = on]
               PROVE  q = FreshWith(on)
    OBVIOUS
  <2> QED BY DEF FreshPolicy, FreshWith
<1>3. ASSUME NEW b \in BOOLEAN PROVE Empty(FreshWith(b))
  <2> DEFINE none == [k \in {} |-> {}]
             r == FreshWith(b)
  <2>1. none \in [{} -> Codes] /\ DOMAIN none = {}
    OBVIOUS
  <2>2. none \in UNION {[D -> Codes] : D \in SUBSET Keys}
    BY <2>1
  <2>3. /\ r.heldKeys = {} /\ r.heldButtons = {} /\ r.controlChordKeys = {}
        /\ r.pressedAs = none
        /\ r = [heldKeys |-> {}, heldButtons |-> {}, pendingCommandKeys |-> {},
                pressedAs |-> none, controlChordKeys |-> {}, hostCapsLock |-> b]
    BY DEF FreshWith
  <2> HIDE DEF none, r
  <2>4. r \in Policies
    BY <2>2, <2>3 DEF Policies
  <2>5. PolicySound(r) /\ Quiet(r) /\ BelievedOf(r) = {}
    BY <2>1, <2>3, <2>4, SmallFinite
    DEF PolicySound, Finite, Mapped, Quiet, BelievedOf
  <2> QED BY <2>5 DEF Empty, r
<1> QED BY <1>1, <1>2, <1>3

LEMMA releaseAllStage ==
  ASSUME InputInv
  PROVE  LET v == releaseAll IN Stage(v) /\ Quiet(v.p)
<1> DEFINE q == [FreshPolicy EXCEPT !.hostCapsLock = policy.hostCapsLock]
           k == Edges(policy.heldKeys, Up)
           c == ReleaseChordControl(Verdict).sends
           b == Edges(policy.heldButtons, Up)
           v == releaseAll
<1>1. /\ policy \in Policies /\ PolicySound(policy)
      /\ Verdict = [p |-> policy, sends |-> << >>]
  BY Standing DEF InputInv
<1>2. v = Say([Verdict EXCEPT !.p = q], k \o c \o b)
  BY DEF releaseAll
<1>3. PolicySound(q) /\ Quiet(q) /\ BelievedOf(q) = {}
  <2>1. policy.hostCapsLock \in BOOLEAN
    BY <1>1 DEF Policies
  <2> QED BY <2>1, FreshIsEmpty DEF Empty
<1> DEFINE control == IF policy.controlChordKeys = {} THEN {} ELSE {LeftCtrl}
<1>4. /\ k \in Seq(Events) /\ \A B : After(B, k) = B \ policy.heldKeys
      /\ b \in Seq(Events) /\ \A B : After(B, b) = B \ policy.heldButtons
  <2>1. /\ policy.heldKeys \in SUBSET (Held \cup {CapsLock, Button})
        /\ policy.heldButtons \in SUBSET (Held \cup {CapsLock, Button})
        /\ IsFiniteSet(policy.heldKeys) /\ IsFiniteSet(policy.heldButtons)
    BY <1>1, SmallFinite DEF Policies, PolicySound, Finite
  <2> QED BY <2>1, AfterEdges
<1>5. c \in Seq(Events) /\ \A B : After(B, c) = B \ control
  <2>1. CASE policy.controlChordKeys = {}
    <3>1. c = << >> /\ control = {}
      BY <1>1, <2>1 DEF ReleaseChordControl
    <3> HIDE DEF c, control
    <3>2. << >> \in Seq(Events)
      OBVIOUS
    <3> QED BY <3>1, <3>2, AfterNone
  <2>2. CASE policy.controlChordKeys # {}
    <3> DEFINE up == <<Up(LeftCtrl)>>
    <3>1. up \in Seq(Events) /\ \A B : After(B, up) = B \ {LeftCtrl}
      BY AfterOne, CodesAre
    <3>2. c = up
      <4> DEFINE q0 == [policy EXCEPT !.controlChordKeys = {}]
                 x == [Verdict EXCEPT !.p.controlChordKeys = {}]
      <4>1. ReleaseChordControl(Verdict) = Say(x, up)
        BY <1>1, <2>2 DEF ReleaseChordControl
      <4>2. x = [Verdict EXCEPT !.p = q0]
        BY <1>1
      <4> HIDE DEF x, q0, up
      <4>3. x = [p |-> q0, sends |-> << >>]
        BY <1>1, <4>2
      <4>4. << >> \o up = up
        BY <3>1
      <4> QED BY <4>1, <4>3, <4>4 DEF Say
    <3>3. control = {LeftCtrl}
      BY <2>2
    <3> HIDE DEF c, up, control
    <3> QED BY <3>1, <3>2, <3>3
  <2> QED BY <2>1, <2>2
<1> HIDE DEF k, c, b, control, q, v
<1>6. /\ k \o c \o b \in Seq(Events)
      /\ \A B : After(B, k \o c \o b)
                  = ((B \ policy.heldKeys) \ control) \ policy.heldButtons
  <2>1. /\ k \o c \in Seq(Events)
        /\ \A B : After(B, k \o c) = (B \ policy.heldKeys) \ control
    BY <1>4, <1>5, AfterConcat
  <2> DEFINE kc == k \o c
  <2>3. kc \in Seq(Events)
    BY <2>1
  <2> HIDE DEF kc
  <2>2. /\ kc \o b \in Seq(Events)
        /\ \A B : After(B, kc \o b) = After(After(B, kc), b)
    BY <1>4, <2>3, AfterConcat
  <2> QED BY <1>4, <2>1, <2>2 DEF kc
<1> DEFINE all == k \o c \o b
<1> HIDE DEF all
<1>7. ASSUME NEW B, Matches(policy, B) PROVE Matches(q, After(B, all))
  <2>1. After(B, all) = {}
    BY <1>6, <1>7 DEF Matches, BelievedOf, control, all
  <2> QED BY <1>3, <2>1 DEF Matches
<1>8. v.p = q /\ Stage(v)
  <2>1. all \in Seq(Events) /\ v = Say([Verdict EXCEPT !.p = q], all)
    BY <1>2, <1>6 DEF all
  <2> QED BY <1>3, <1>7, <2>1, SaidFirst
<1> QED BY <1>3, <1>8 DEF v

-----------------------------------------------------------------------------
(* Every step keeps InputInv.                                                *)

(* What the policy said is on the wire.                                      *)
LEMMA Sent ==
  ASSUME InputInv, NEW v, v \in Verdicts, Execute(v)
  PROVE  Landing' = After(Landing, v.sends) /\ wire' \in Seq(Events)
<1>1. wire \in Seq(Events) /\ v.sends \in Seq(Events)
  BY DEF InputInv, Shapes, Verdicts
<1>2. wire' = wire \o v.sends /\ desk' = desk
  BY DEF Execute, host
<1>3. /\ wire \o v.sends \in Seq(Events)
      /\ After(desk, wire \o v.sends) = After(After(desk, wire), v.sends)
  BY <1>1, AfterConcat
<1>4. Landing' = After(desk', wire') /\ Landing = After(desk, wire)
  BY DEF Landing
<1> QED BY <1>2, <1>3, <1>4

LEMMA Heard ==
  ASSUME InputInv, UserActs, NEW v, Execute(v), mac' \in Macs,
         Stage(v), ~mac'.focused => Quiet(v.p),
         ~unlifted => Fingered(v.p, mac')
  PROVE  InputInv'
<1>1. v \in Verdicts /\ PolicySound(v.p)
  BY DEF Stage
<1>2. Landing' = After(Landing, v.sends) /\ wire' \in Seq(Events)
  BY <1>1, Sent
<1>3. /\ policy' = v.p /\ desk' = desk /\ book' = book /\ phase' = phase
      /\ budget' = budget /\ unlifted' = unlifted /\ phase # "down"
      /\ twice' = (LeftCtrl \in BelievedOf(v.p) /\ (twice \/ HoldsTwice(v.p)))
  BY DEF Execute, host, UserActs
<1>4. Shapes'
  BY <1>2, <1>3 DEF Shapes, InputInv
<1>5. PolicySound(policy)'
  BY <1>1, <1>3 DEF PolicySound, Policies, Finite, Mapped
<1>6. Rests'
  BY <1>3 DEF Rests, InputInv, Quiet
<1>7. Fingers'
  BY <1>3 DEF Fingers, Fingered
<1>8. Known(policy)'
  BY <1>3 DEF Known, HoldsTwice, BelievedOf
<1>9. (phase = "up" => Matches(policy, Landing))'
  <2> SUFFICES ASSUME phase = "up" PROVE Matches(policy, Landing)'
    BY <1>3
  <2>1. Matches(v.p, Landing') /\ (BelievedOf(policy))' = BelievedOf(v.p)
    BY <1>2, <1>3 DEF Stage, BelievedOf
  <2>2. LeftCtrl \in BelievedOf(v.p) /\ twice => twice'
    BY <1>3
  <2> QED BY <2>1, <2>2 DEF Matches, Unsure, Modifiers
<1> QED BY <1>4, <1>5, <1>6, <1>7, <1>8, <1>9 DEF InputInv

LEMMA Unheard ==
  ASSUME InputInv, UserActs, UNCHANGED <<policy, wire, host, twice>>,
         budget' \in Budgets, unlifted' \in BOOLEAN, mac' \in Macs,
         ~mac'.focused => Quiet(policy), ~unlifted' => Fingered(policy, mac')
  PROVE  InputInv'
<1>1. /\ policy' = policy /\ wire' = wire /\ desk' = desk /\ book' = book
      /\ phase' = phase /\ phase # "down" /\ twice' = twice
  BY DEF host, UserActs
<1>2. Shapes'
  BY <1>1 DEF Shapes, InputInv
<1>3. PolicySound(policy)'
  BY <1>1 DEF PolicySound, Policies, Finite, Mapped, InputInv
<1>4. Rests'
  BY <1>1 DEF Rests, InputInv, Quiet
<1>5. Fingers'
  BY <1>1 DEF Fingers, Fingered
<1>6. (phase = "up" => Matches(policy, Landing))' /\ Known(policy)'
  BY <1>1 DEF Landing, InputInv, Matches, BelievedOf, Unsure, Known, HoldsTwice
<1> QED BY <1>2, <1>3, <1>4, <1>5, <1>6 DEF InputInv

(* Without the focus the policy holds nothing to be wrong about.             *)
LEMMA NoFocus ==
  ASSUME InputInv, ~mac.focused, NEW m
  PROVE  Quiet(policy) /\ Fingered(policy, m)
BY DEF InputInv, Rests, Quiet, Fingered

(* An event of the focused window's, or of another's.                        *)
LEMMA SeenKeeps ==
  ASSUME InputInv, UserActs, NEW v, Seen(v), mac' \in Macs,
         mac'.focused = mac.focused,
         mac.focused => Stage(v) /\ (~unlifted => Fingered(v.p, mac'))
  PROVE  InputInv'
<1>1. CASE mac.focused
  BY <1>1, Heard DEF Seen
<1>2. CASE ~mac.focused
  <2>1. Quiet(policy) /\ Fingered(policy, mac')
    BY <1>2, NoFocus
  <2>2. /\ UNCHANGED <<policy, wire, host, budget, unlifted, twice>>
        /\ budget \in Budgets /\ unlifted \in BOOLEAN
    BY <1>2 DEF Seen, Unseen, history, InputInv, Shapes
  <2> QED BY <2>1, <2>2, Unheard
<1> QED BY <1>1, <1>2

LEMMA SwallowedKeeps ==
  ASSUME InputInv, UserActs, mac' \in Macs, mac'.focused = mac.focused,
         \/ ReleaseSwallowed
         \/ PressSwallowed /\ (~unlifted => Fingered(policy, mac'))
  PROVE  InputInv'
<1>1. /\ mac.focused /\ budget.missed > 0
      /\ budget' = [budget EXCEPT !.missed = @ - 1]
      /\ UNCHANGED <<policy, wire, host, twice>>
  BY Zenon DEF ReleaseSwallowed, PressSwallowed, Swallowed
<1>2. \/ unlifted' = TRUE
      \/ unlifted' = unlifted /\ (~unlifted => Fingered(policy, mac'))
  BY Zenon DEF ReleaseSwallowed, PressSwallowed
<1>3. budget' \in Budgets
  BY <1>1, CodesApart DEF InputInv, Shapes, Budgets
<1>4. unlifted' \in BOOLEAN /\ (~unlifted' => Fingered(policy, mac'))
  BY <1>2, Zenon DEF InputInv, Shapes
<1> QED BY <1>1, <1>3, <1>4, Unheard

LEMMA KeyDownKeeps ==
  ASSUME InputInv, NEW macKey \in Keys, NEW mapped \in CodesOf[macKey],
         NEW typesLetter \in BOOLEAN, KeyDown(macKey, mapped, typesLetter)
  PROVE  InputInv'
<1>1. /\ UserActs /\ mac' = [mac EXCEPT !.keys = @ \cup {macKey}]
      /\ Seen(keyDown(macKey, mapped, typesLetter)) \/ PressSwallowed
  BY DEF KeyDown
<1>2. mac \in Macs /\ budget \in Budgets
  BY DEF InputInv, Shapes
<1>3. /\ mac' \in Macs /\ mac'.mods = mac.mods /\ mac'.focused = mac.focused
      /\ mac'.keys = mac.keys \cup {macKey} /\ mac'.buttons = mac.buttons
  BY <1>1, <1>2 DEF Macs
<1> DEFINE v == keyDown(macKey, mapped, typesLetter)
           code == PressedAs(macKey, mapped)
<1>4. Stage(v) /\ (~unlifted => Fingered(v.p, mac'))
  <2>2. /\ Stage(v) /\ v.p.heldButtons = policy.heldButtons
        /\ v.p.heldKeys \cap Codes = (policy.heldKeys \cap Codes) \cup {code}
        /\ DOMAIN v.p.pressedAs = DOMAIN policy.pressedAs \cup {macKey}
        /\ v.p.pressedAs[macKey] = code
        /\ \A k \in DOMAIN policy.pressedAs \ {macKey} :
             v.p.pressedAs[k] = policy.pressedAs[k]
    BY keyDownStage
  <2>3. PressedAs(macKey, mapped) = IF macKey \in DOMAIN policy.pressedAs
                                 THEN policy.pressedAs[macKey] ELSE mapped
    BY DEF PressedAs
  <2> HIDE DEF v
  <2>4. ASSUME ~unlifted PROVE Fingered(v.p, mac')
    <3>1. Fingered(policy, mac)
      BY <2>4 DEF InputInv, Fingers
    <3>2. ASSUME NEW c \in v.p.heldKeys \cap Codes
          PROVE  \E k \in mac'.keys \cap DOMAIN v.p.pressedAs : v.p.pressedAs[k] = c
      <4>1. CASE c = code
        BY <1>3, <2>2, <4>1
      <4>2. CASE c # code
        <5>1. PICK k \in mac.keys \cap DOMAIN policy.pressedAs :
                policy.pressedAs[k] = c
          BY <2>2, <3>1, <3>2, <4>2 DEF Fingered
        <5>2. k # macKey
          BY <2>3, <4>2, <5>1
        <5> QED BY <1>3, <2>2, <5>1, <5>2
      <4> QED BY <4>1, <4>2
    <3> QED BY <1>3, <2>2, <3>1, <3>2 DEF Fingered
  <2> QED BY <2>2, <2>4
<1>5. ~unlifted => Fingered(policy, mac')
  BY <1>3 DEF InputInv, Fingers, Fingered
<1> HIDE DEF v
<1>6. CASE Seen(v)
  BY <1>1, <1>3, <1>4, <1>6, SeenKeeps
<1> QED BY <1>1, <1>3, <1>5, <1>6, SwallowedKeeps DEF v

LEMMA KeyUpKeeps ==
  ASSUME InputInv, NEW macKey \in Keys, NEW mapped \in CodesOf[macKey],
         KeyUp(macKey, mapped)
  PROVE  InputInv'
<1>1. /\ UserActs /\ mac' = [mac EXCEPT !.keys = @ \ {macKey}]
      /\ Seen(keyUp(macKey, mapped)) \/ ReleaseSwallowed
  BY DEF KeyUp
<1>2. mac \in Macs /\ budget \in Budgets
  BY DEF InputInv, Shapes
<1>3. /\ mac' \in Macs /\ mac'.mods = mac.mods /\ mac'.focused = mac.focused
      /\ mac'.keys = mac.keys \ {macKey} /\ mac'.buttons = mac.buttons
  BY <1>1, <1>2 DEF Macs
<1> DEFINE v == keyUp(macKey, mapped)
           code == PressedAs(macKey, mapped)
<1>4. Stage(v) /\ (~unlifted => Fingered(v.p, mac'))
  <2>2. /\ Stage(v) /\ v.p.heldButtons = policy.heldButtons
        /\ v.p.heldKeys \cap Codes = (policy.heldKeys \cap Codes) \ {code}
        /\ DOMAIN v.p.pressedAs = DOMAIN policy.pressedAs \ {macKey}
        /\ \A k \in DOMAIN policy.pressedAs \ {macKey} :
             v.p.pressedAs[k] = policy.pressedAs[k]
    BY keyUpStage
  <2>3. PressedAs(macKey, mapped) = IF macKey \in DOMAIN policy.pressedAs
                                 THEN policy.pressedAs[macKey] ELSE mapped
    BY DEF PressedAs
  <2> HIDE DEF v
  <2>4. ASSUME ~unlifted PROVE Fingered(v.p, mac')
    <3>1. Fingered(policy, mac)
      BY <2>4 DEF InputInv, Fingers
    <3>2. ASSUME NEW c \in v.p.heldKeys \cap Codes
          PROVE  \E k \in mac'.keys \cap DOMAIN v.p.pressedAs : v.p.pressedAs[k] = c
      <4>1. c # code /\ c \in policy.heldKeys \cap Codes
        BY <2>2, <3>2
      <4>2. PICK k \in mac.keys \cap DOMAIN policy.pressedAs :
              policy.pressedAs[k] = c
        BY <3>1, <4>1 DEF Fingered
      <4>3. k # macKey
        BY <2>3, <4>1, <4>2
      <4> QED BY <1>3, <2>2, <4>2, <4>3
    <3> QED BY <1>3, <2>2, <3>1, <3>2 DEF Fingered
  <2> QED BY <2>2, <2>4
<1> HIDE DEF v
<1>5. CASE Seen(v)
  BY <1>1, <1>3, <1>4, <1>5, SeenKeeps
<1> QED BY <1>1, <1>3, <1>5, SwallowedKeeps DEF v

LEMMA ModifierKeeps ==
  ASSUME InputInv, NEW code \in Modifiers,
         ModifierDown(code) \/ ModifierUp(code)
  PROVE  InputInv'
<1>1. mac \in Macs
  BY DEF InputInv, Shapes
<1>2. ASSUME NEW p, SameKeys(policy, p), mac'.keys = mac.keys,
             mac'.buttons = mac.buttons, ~unlifted
      PROVE  Fingered(p, mac')
  BY <1>2 DEF InputInv, Fingers, Fingered, SameKeys
<1>3. CASE ModifierDown(code)
  <2> DEFINE v == modifierDown(code)
  <2>1. /\ UserActs /\ mac' = [mac EXCEPT !.mods = @ \cup {code}]
        /\ Seen(v) \/ PressSwallowed
    BY <1>3 DEF ModifierDown
  <2>2. /\ mac' \in Macs /\ mac'.mods = mac.mods \cup {code}
        /\ mac'.focused = mac.focused /\ mac'.keys = mac.keys
        /\ mac'.buttons = mac.buttons
    BY <1>1, <2>1 DEF Macs
  <2>3. Stage(v) /\ SameKeys(policy, v.p)
    BY modifierDownStage
  <2>4. SameKeys(policy, policy)
    BY DEF SameKeys
  <2> HIDE DEF v
  <2>5. CASE Seen(v)
    BY <1>2, <2>1, <2>2, <2>3, <2>5, SeenKeeps
  <2> QED BY <1>2, <2>1, <2>2, <2>4, <2>5, SwallowedKeeps
<1>4. CASE ModifierUp(code)
  <2> DEFINE v == modifierUp(code)
  <2>1. /\ UserActs /\ mac' = [mac EXCEPT !.mods = @ \ {code}]
        /\ Seen(v) \/ ReleaseSwallowed
    BY <1>4 DEF ModifierUp
  <2>2. /\ mac' \in Macs /\ mac'.mods = mac.mods \ {code}
        /\ mac'.focused = mac.focused /\ mac'.keys = mac.keys
        /\ mac'.buttons = mac.buttons
    BY <1>1, <2>1 DEF Macs
  <2>3. Stage(v) /\ SameKeys(policy, v.p)
    BY modifierUpStage
  <2> HIDE DEF v
  <2>4. CASE Seen(v)
    BY <1>2, <2>1, <2>2, <2>3, <2>4, SeenKeeps
  <2> QED BY <2>1, <2>2, <2>4, SwallowedKeeps
<1> QED BY <1>3, <1>4

LEMMA ButtonKeeps ==
  ASSUME InputInv, ButtonDown \/ ButtonUp
  PROVE  InputInv'
<1>1. mac \in Macs /\ budget \in Budgets /\ unlifted \in BOOLEAN
  BY DEF InputInv, Shapes
<1>2. CASE ButtonDown
  <2> DEFINE v == buttonDown
  <2>1. /\ UserActs /\ mac' = [mac EXCEPT !.buttons = {Button}]
        /\ mac.focused /\ (Execute(v) \/ Unseen) /\ mac.buttons = {}
    BY <1>2 DEF ButtonDown
  <2>2. /\ mac' \in Macs /\ mac'.mods = mac.mods
        /\ mac'.focused = mac.focused /\ mac'.keys = mac.keys
        /\ mac'.buttons = {Button}
    BY <1>1, <2>1 DEF Macs
  <2>3. /\ Stage(v) /\ v.p.heldButtons = {Button}
        /\ v.p.heldKeys \cap Codes = policy.heldKeys \cap Codes
        /\ v.p.pressedAs = policy.pressedAs
    BY buttonDownStage
  <2> HIDE DEF v
  <2>4. ~unlifted => Fingered(v.p, mac') /\ Fingered(policy, mac')
    BY <2>1, <2>2, <2>3 DEF InputInv, Fingers, Fingered
  <2>5. CASE Execute(v)
    BY <2>1, <2>2, <2>3, <2>4, <2>5, Heard
  <2>6. CASE Unseen
    BY <1>1, <2>1, <2>2, <2>4, <2>6, Unheard DEF Unseen, history
  <2> QED BY <2>1, <2>5, <2>6
<1>3. CASE ButtonUp
  <2> DEFINE v == buttonUp
  <2>1. /\ UserActs /\ mac' = [mac EXCEPT !.buttons = {}]
        /\ Seen(v) \/ ReleaseSwallowed
    BY <1>3 DEF ButtonUp
  <2>2. /\ mac' \in Macs /\ mac'.mods = mac.mods
        /\ mac'.focused = mac.focused /\ mac'.keys = mac.keys
    BY <1>1, <2>1 DEF Macs
  <2>3. /\ Stage(v) /\ v.p.heldButtons = {}
        /\ v.p.heldKeys = policy.heldKeys /\ v.p.pressedAs = policy.pressedAs
    BY buttonUpStage
  <2> HIDE DEF v
  <2>4. ~unlifted => Fingered(v.p, mac')
    BY <2>2, <2>3 DEF InputInv, Fingers, Fingered
  <2>5. CASE Seen(v)
    BY <2>1, <2>2, <2>3, <2>4, <2>5, SeenKeeps
  <2> QED BY <2>1, <2>2, <2>5, SwallowedKeeps
<1> QED BY <1>2, <1>3

LEMMA FocusKeeps ==
  ASSUME InputInv, FocusLost \/ FocusReturns
  PROVE  InputInv'
<1>1. mac \in Macs /\ budget \in Budgets /\ unlifted \in BOOLEAN
  BY DEF InputInv, Shapes
<1>2. CASE FocusLost
  <2> DEFINE v == releaseAll
  <2>1. UserActs /\ mac' = [mac EXCEPT !.focused = FALSE] /\ Execute(v)
    BY <1>2 DEF FocusLost
  <2>2. mac' \in Macs /\ mac'.mods = mac.mods
    BY <1>1, <2>1 DEF Macs
  <2>3. Stage(v) /\ Quiet(v.p)
    BY releaseAllStage
  <2> HIDE DEF v
  <2>4. Fingered(v.p, mac')
    BY <2>3 DEF Quiet, Fingered
  <2> QED BY <2>1, <2>2, <2>3, <2>4, Heard
<1>3. CASE FocusReturns
  <2>1. /\ UserActs /\ mac' = [mac EXCEPT !.focused = TRUE] /\ ~mac.focused
        /\ UNCHANGED <<policy, wire, host, budget, unlifted, twice>>
    BY <1>3 DEF FocusReturns, Unseen, history
  <2>2. mac' \in Macs
    BY <1>1, <2>1 DEF Macs
  <2>3. Quiet(policy) /\ Fingered(policy, mac')
    BY <2>1, NoFocus
  <2> QED BY <1>1, <2>1, <2>2, <2>3, Unheard
<1> QED BY <1>2, <1>3

LEMMA OtherKeyKeeps ==
  ASSUME InputInv, CapsLockFlips \/ \E macKey \in Keys : LocalShortcut(macKey)
  PROVE  InputInv'
<1>1. mac \in Macs /\ budget \in Budgets /\ unlifted \in BOOLEAN
  BY DEF InputInv, Shapes
<1>2. CASE CapsLockFlips
  <2> DEFINE v == SyncCapsLock(Verdict, ~mac.caps)
  <2>1. /\ UserActs /\ mac' = [mac EXCEPT !.caps = ~mac.caps]
        /\ Seen(v) \/ PressSwallowed
    BY <1>2 DEF CapsLockFlips
  <2>2. /\ mac' \in Macs /\ mac'.mods = mac.mods
        /\ mac'.focused = mac.focused /\ mac'.keys = mac.keys
        /\ mac'.buttons = mac.buttons
    BY <1>1, <2>1 DEF Macs
  <2>3. Stage(v) /\ SameKeys(policy, v.p)
    <3> DEFINE on == ~mac.caps
    <3>1. on \in BOOLEAN
      OBVIOUS
    <3>2. Stage(Verdict) /\ Verdict.p = policy
      BY Standing
    <3> HIDE DEF on
    <3>3. /\ Stage(SyncCapsLock(Verdict, on))
          /\ SameKeys(policy, SyncCapsLock(Verdict, on).p)
      BY <3>1, <3>2, SyncStage
    <3> QED BY <3>3 DEF on
  <2> HIDE DEF v
  <2>4. ~unlifted => Fingered(v.p, mac') /\ Fingered(policy, mac')
    BY <2>2, <2>3 DEF InputInv, Fingers, Fingered, SameKeys
  <2>5. CASE Seen(v)
    BY <2>1, <2>2, <2>3, <2>4, <2>5, SeenKeeps
  <2> QED BY <2>1, <2>2, <2>4, <2>5, SwallowedKeeps
<1>3. ASSUME NEW macKey \in Keys, LocalShortcut(macKey) PROVE InputInv'
  <2>1. /\ UserActs /\ mac' = [mac EXCEPT !.keys = @ \cup {macKey}]
        /\ UNCHANGED <<policy, wire, host, budget, unlifted, twice>>
    BY <1>3 DEF LocalShortcut, Unseen, history
  <2>2. /\ mac' \in Macs /\ mac'.mods = mac.mods
        /\ mac'.focused = mac.focused /\ mac.keys \subseteq mac'.keys
        /\ mac'.buttons = mac.buttons
    BY <1>1, <2>1 DEF Macs
  <2>3. ~unlifted => Fingered(policy, mac')
    BY <2>2 DEF InputInv, Fingers, Fingered
  <2>4. budget' = budget /\ (~mac'.focused => Quiet(policy))
    BY <2>1, <2>2 DEF InputInv, Rests
  <2> QED BY <1>1, <2>1, <2>2, <2>3, <2>4, Unheard
<1> QED BY <1>2, <1>3

(* The host's own steps.                                                     *)
LEMMA InjectKeeps ==
  ASSUME InputInv, Inject
  PROVE  InputInv'
<1>1. /\ phase # "down" /\ wire # << >> /\ wire' = Tail(wire)
      /\ desk' = Written(desk, Head(wire)) /\ book' = Written(book, Head(wire))
      /\ mac' = mac /\ policy' = policy /\ phase' = phase /\ budget' = budget
      /\ unlifted' = unlifted /\ twice' = twice
  BY DEF Inject, history
<1>2. wire \in Seq(Events) /\ desk = book
  BY DEF InputInv, Shapes, Rests
<1>3. /\ After(desk, wire) = After(Written(desk, Head(wire)), Tail(wire))
      /\ Tail(wire) \in Seq(Events)
  BY <1>1, <1>2, AfterWritten
<1>4. Landing' = Landing
  BY <1>1, <1>3 DEF Landing
<1>5. Shapes'
  BY <1>1, <1>3 DEF InputInv, Shapes
<1>6. PolicySound(policy)' /\ Fingers' /\ Known(policy)'
  BY <1>1 DEF InputInv, PolicySound, Policies, Finite, Mapped, Fingers, Fingered,
              Known, HoldsTwice
<1>7. Rests'
  BY <1>1, <1>2 DEF InputInv, Rests, Quiet
<1>8. (phase = "up" => Matches(policy, Landing))'
  BY <1>1, <1>4 DEF InputInv, Matches, BelievedOf, Unsure
<1> QED BY <1>5, <1>6, <1>7, <1>8 DEF InputInv

LEMMA InputSilenceKeeps ==
  ASSUME InputInv, InputSilence
  PROVE  InputInv'
<1>1. /\ phase = "up" /\ wire' = wire
      /\ desk' = desk \ Autorepeating /\ book' = book \ Autorepeating
      /\ mac' = mac /\ policy' = policy /\ phase' = phase /\ budget' = budget
      /\ unlifted' = unlifted /\ twice' = twice
  BY DEF InputSilence, history
<1>2. /\ Landing' \subseteq Landing
      /\ Landing \cap (Modifiers \cup {Button}) \subseteq Landing'
  <2>1. \A c : c \in Landing' <=>
                 LastSays(c, wire)
                     \/ (c \in desk \ Autorepeating /\ Untouched(c, wire))
    BY <1>1, AfterPoint DEF Landing
  <2>2. \A c : c \in Landing <=>
                 LastSays(c, wire) \/ (c \in desk /\ Untouched(c, wire))
    BY AfterPoint DEF Landing
  <2>3. \A c \in Modifiers \cup {Button} : c \notin Autorepeating
    BY DEF Autorepeating, modifierKeyCodes
  <2> QED BY <2>1, <2>2, <2>3
<1>3. Shapes' /\ PolicySound(policy)' /\ Fingers' /\ Known(policy)'
  BY <1>1 DEF InputInv, Shapes, PolicySound, Policies, Finite, Mapped, Fingers,
              Fingered, Known, HoldsTwice
<1>4. Rests'
  BY <1>1 DEF InputInv, Rests, Quiet
<1>5. (phase = "up" => Matches(policy, Landing))'
  BY <1>1, <1>2 DEF InputInv, Matches, BelievedOf, Unsure
<1> QED BY <1>3, <1>4, <1>5 DEF InputInv

LEMMA SessionKeeps ==
  ASSUME InputInv, SessionClosed \/ SessionRetired \/ NextSession
  PROVE  InputInv'
<1>1. mac' = mac
  BY DEF SessionClosed, SessionRetired, NextSession
<1>2. CASE SessionClosed
  <2>1. /\ phase' = "closing" /\ desk' = desk \ book /\ book' = {}
        /\ policy' = policy /\ wire' = wire /\ budget' = budget
        /\ unlifted' = unlifted /\ twice' = twice
    BY <1>2 DEF SessionClosed, history
  <2>2. Shapes' /\ PolicySound(policy)' /\ Fingers' /\ Known(policy)'
    BY <1>1, <2>1 DEF InputInv, Shapes, PolicySound, Policies, Finite, Mapped,
                      Fingers, Fingered, Known, HoldsTwice
  <2>3. Rests'
    BY <1>1, <2>1 DEF InputInv, Rests, Quiet
  <2> QED BY <2>1, <2>2, <2>3 DEF InputInv
<1>3. CASE SessionRetired
  <2>1. /\ phase' = "down" /\ desk' = {} /\ book' = {} /\ wire' = << >>
        /\ policy' = FreshPolicy /\ budget' = budget
        /\ unlifted' = unlifted /\ twice' = FALSE
    BY <1>3 DEF SessionRetired, RetiredReleased, InputInv, Rests
  <2>2. /\ PolicySound(FreshPolicy) /\ Quiet(FreshPolicy)
        /\ BelievedOf(FreshPolicy) = {}
    BY FreshIsEmpty DEF Empty
  <2>3. Shapes'
    <3>1. /\ mac' \in Macs /\ budget' \in Budgets
          /\ unlifted' \in BOOLEAN /\ twice' \in BOOLEAN
      BY <1>1, <2>1, Zenon DEF InputInv, Shapes
    <3>2. wire' \in Seq(Events) /\ phase' \in {"up", "closing", "down"}
      BY <2>1
    <3> QED BY <3>1, <3>2 DEF Shapes
  <2>4. PolicySound(policy)'
    BY <1>1, <2>1, <2>2 DEF PolicySound, Policies, Finite, Mapped
  <2>5. Fingers' /\ Rests' /\ Known(policy)'
    BY <2>1, <2>2 DEF Fingers, Fingered, Quiet, Rests, Known, HoldsTwice
  <2> QED BY <2>1, <2>3, <2>4, <2>5 DEF InputInv
<1>4. CASE NextSession
  <2>1. /\ phase = "down" /\ phase' = "up" /\ desk' = desk /\ book' = book
        /\ wire' = wire /\ policy' = policy
        /\ budget' = [budget EXCEPT !.sessions = @ - 1]
        /\ unlifted' = unlifted /\ twice' = twice
    BY <1>4 DEF NextSession, history
  <2>2. desk = {} /\ wire = << >> /\ Quiet(policy) /\ desk = book
    BY <2>1 DEF InputInv, Rests
  <2>3. Shapes'
    BY <1>1, <2>1 DEF InputInv, Shapes, Budgets
  <2>4. PolicySound(policy)'
    BY <1>1, <2>1 DEF InputInv, PolicySound, Policies, Finite, Mapped
  <2>5. Fingers' /\ Rests' /\ Known(policy)'
    BY <2>1, <2>2 DEF Fingers, Fingered, Quiet, Rests, Known, HoldsTwice
  <2>6. (phase = "up" => Matches(policy, Landing))'
    <3>1. Landing' = {}
      BY <2>1, <2>2, AfterNone DEF Landing
    <3> QED BY <2>1, <2>2, <3>1 DEF Matches, BelievedOf, Quiet
  <2> QED BY <2>3, <2>4, <2>5, <2>6 DEF InputInv
<1> QED BY <1>2, <1>3, <1>4

-----------------------------------------------------------------------------
(* InputInv holds throughout: for any keys and key map, any number of        *)
(* sessions and of swallowed presses and releases, the policy's books are    *)
(* well formed and what the host will hold is what the policy believes, but  *)
(* for a Control pressed twice.                                              *)
THEOREM InputInvariance == InputSpec => []InputInv
<1>1. InputInit => InputInv
  <2> SUFFICES ASSUME InputInit PROVE InputInv
    OBVIOUS
  <2>1. /\ policy = FreshPolicy /\ wire = << >> /\ desk = {} /\ book = {}
        /\ phase = "up" /\ budget = [missed |-> Missed, sessions |-> Sessions - 1]
        /\ mac.mods = {} /\ mac.focused = TRUE
        /\ mac \in Macs /\ unlifted = FALSE /\ twice = FALSE
    BY DEF InputInit, Macs
  <2>2. /\ PolicySound(policy) /\ Quiet(policy) /\ BelievedOf(policy) = {}
    BY <2>1, FreshIsEmpty DEF Empty
  <2>3. Shapes
    <3>1. budget \in Budgets
      BY <2>1, CodesApart DEF Budgets
    <3>2. unlifted \in BOOLEAN /\ twice \in BOOLEAN /\ mac \in Macs
      BY <2>1, Zenon
    <3>3. wire \in Seq(Events) /\ phase \in {"up", "closing", "down"}
      BY <2>1
    <3> QED BY <3>1, <3>2, <3>3 DEF Shapes
  <2>4. Fingers /\ Rests /\ Known(policy)
    BY <2>1, <2>2 DEF Fingers, Fingered, Quiet, Rests, Known, HoldsTwice
  <2>5. Matches(policy, Landing)
    BY <2>1, <2>2, AfterNone DEF Matches, Landing
  <2> QED BY <2>2, <2>3, <2>4, <2>5 DEF InputInv
<1>2. InputInv /\ [InputNext]_inputVars => InputInv'
  <2>1. ASSUME InputInv, InputNext PROVE InputInv'
    BY <2>1, KeyDownKeeps, KeyUpKeeps, ModifierKeeps, ButtonKeeps, FocusKeeps,
       OtherKeyKeeps, InjectKeeps, InputSilenceKeeps, SessionKeeps DEF InputNext
  <2>2. ASSUME InputInv, UNCHANGED inputVars PROVE InputInv'
    BY <2>2 DEF InputInv, inputVars, history, Shapes, PolicySound, Policies, Finite,
                Mapped, Rests, Quiet, Fingers, Fingered, Matches, BelievedOf,
                    Landing,
                Unsure, Known, HoldsTwice
  <2> QED BY <2>1, <2>2
<1> QED BY <1>1, <1>2, PTL DEF InputSpec

(* The three views of what is held agree (InputPath's HeldAgrees).           *)
THEOREM ViewsAgree == InputSpec => []HeldAgrees
<1>1. InputInv => HeldAgrees
  <2> SUFFICES ASSUME InputInv, phase = "up" PROVE HeldAgrees
    BY DEF HeldAgrees, Balanced, NothingStuck
  <2>1. Believed = BelievedOf(policy) /\ Matches(policy, Landing)
    BY DEF Believed, InputInv
  <2>2. Balanced
    BY <2>1 DEF Balanced, Matches
  <2>3. ASSUME ~unlifted
        PROVE  /\ Landing \cap Codes \subseteq UNION {CodesOf[k] : k \in mac.keys}
               /\ Landing \cap {Button} \subseteq mac.buttons
    <3>1. Fingered(policy, mac) /\ policy \in Policies /\ Mapped(policy)
      BY <2>3 DEF InputInv, Fingers, PolicySound
    <3>2. ASSUME NEW c \in Landing \cap Codes
          PROVE  c \in UNION {CodesOf[k] : k \in mac.keys}
      <4>1. c \in policy.heldKeys
        BY <2>1, <3>1, <3>2, CodesAre DEF Matches, BelievedOf, Policies
      <4>2. PICK k \in mac.keys \cap DOMAIN policy.pressedAs : policy.pressedAs[k] = c
        BY <3>1, <3>2, <4>1 DEF Fingered
      <4> QED BY <3>1, <4>2 DEF Mapped
    <3>3. ASSUME Button \in Landing PROVE Button \in mac.buttons
      <4>1. Button \in policy.heldButtons
        BY <2>1, <3>1, <3>3, CodesAre
        DEF Matches, BelievedOf, Policies, Held, Modifiers
      <4> QED BY <3>1, <4>1 DEF Fingered
    <3> QED BY <3>2, <3>3
  <2> QED BY <2>2, <2>3 DEF HeldAgrees, NothingStuck
<1> QED BY <1>1, InputInvariance, PTL

(* Nothing stays pressed after a session (InputPath's NothingStranded).      *)
THEOREM SessionsLeaveNothing == InputSpec => []NothingStranded
<1>1. InputInv => NothingStranded
  BY DEF InputInv, Rests, NothingStranded
<1> QED BY <1>1, InputInvariance, PTL

(* A key the policy sees reaches the host under the modifiers it was pressed *)
(* under, Control excepted once it was pressed twice (InputPath's            *)
(* UnderTheRightModifiers).                                                  *)
THEOREM RightModifiers == InputSpec => UnderTheRightModifiers
<1> DEFINE Right(macKey, typesLetter, mapped) ==
             /\ KeyDown(macKey, mapped, typesLetter) /\ mac.focused /\ phase = "up"
             /\ UNCHANGED budget
             => IF Command /\ typesLetter
                THEN (Landing' \cap Modifiers) \ Unsure = {LeftCtrl} \ Unsure
                ELSE /\ (Landing' \cap {LeftCtrl}) \ Unsure = ModifiersDown \ Unsure
                     /\ Meta \in Landing' => Command
<1>1. ASSUME InputInv, NEW macKey \in Keys, NEW typesLetter \in BOOLEAN,
             NEW mapped \in CodesOf[macKey]
      PROVE  Right(macKey, typesLetter, mapped)
  <2> SUFFICES
        ASSUME KeyDown(macKey, mapped, typesLetter), mac.focused, phase = "up",
               budget' = budget
        PROVE  IF Command /\ typesLetter
               THEN (Landing' \cap Modifiers) \ Unsure = {LeftCtrl} \ Unsure
               ELSE /\ (Landing' \cap {LeftCtrl}) \ Unsure = ModifiersDown \ Unsure
                    /\ Meta \in Landing' => Command
    OBVIOUS
  <2> DEFINE v == keyDown(macKey, mapped, typesLetter)
             chord == Command /\ typesLetter
  <2>1. Execute(v)
    <3>1. ~PressSwallowed
      BY <1>1 DEF PressSwallowed, Swallowed, InputInv, Shapes, Budgets
    <3> QED BY <3>1 DEF KeyDown, Seen
  <2>2. /\ Stage(v)
        /\ chord => LeftCtrl \in BelievedOf(v.p) /\ Meta \notin BelievedOf(v.p)
        /\ ~chord => /\ LeftCtrl \in BelievedOf(v.p) <=> LeftCtrl \in mac.mods
                     /\ Meta \in BelievedOf(v.p) => Command
    BY <1>1, keyDownStage
  <2> HIDE DEF v
  <2>3. Matches(v.p, Landing')
    BY <1>1, <2>1, <2>2, Sent DEF Stage
  <2>4. /\ LeftCtrl \notin Unsure =>
             (LeftCtrl \in Landing' <=> LeftCtrl \in BelievedOf(v.p))
        /\ Meta \in Landing' <=> Meta \in BelievedOf(v.p)
    BY <2>3, CodesAre DEF Matches, Modifiers, Unsure
  <2>5. CASE chord
    BY <2>2, <2>4, <2>5 DEF Modifiers
  <2>6. CASE ~chord
    BY <2>2, <2>4, <2>6 DEF ModifiersDown
  <2> QED BY <2>5, <2>6
<1>2. InputInv /\ [InputNext]_inputVars =>
        [\A k \in Keys, typesLetter \in BOOLEAN :
           \A mapped \in CodesOf[k] :
             /\ KeyDown(k, mapped, typesLetter) /\ mac.focused /\ phase = "up"
             /\ UNCHANGED budget
             => IF Command /\ typesLetter
                THEN (Landing' \cap Modifiers) \ Unsure = {LeftCtrl} \ Unsure
                ELSE /\ (Landing' \cap {LeftCtrl}) \ Unsure = ModifiersDown \ Unsure
                     /\ Meta \in Landing' => Command]_inputVars
  BY <1>1
<1> QED BY <1>2, InputInvariance, PTL DEF InputSpec, UnderTheRightModifiers

-----------------------------------------------------------------------------
(* The audio routing.                                                         *)

(* What travels: requests to the server, events to the loop.                 *)
Requests == {<<"registry">>, <<"bind">>, <<"create">>}
            \cup ({"set"} \X DefaultKeys) \cup ({"sync"} \X Nat)
LeafEvents == {<<"metadata">>, <<"global">>, <<"error">>}
          \cup ({"property"} \X DefaultKeys) \cup ({"done"} \X Nat)
Leaves ==
    [mute : BOOLEAN, metadata : BOOLEAN, seen : BOOLEAN, tries : Nat,
     capturing : BOOLEAN, saved : DefaultKeys, switched : BOOLEAN,
     restored : BOOLEAN, seq : Nat, pending : BOOLEAN, failed : BOOLEAN,
     timer : BOOLEAN, exit : {-1, 0, 1}]
Steps == Trips \cup {"down", "idle", "sweepUnlink", "ledger", "start", "running",
                     "quit", "join", "restore", "unlink", "free"}

(* Of the requests q and the events q, for a trip whose sync is number n.    *)
NoSet(q) == \A i \in DOMAIN q : q[i][1] # "set"
SyncsTo(q, n) == \A i \in DOMAIN q : q[i][1] = "sync" => q[i][2] <= n
DonesTo(q, n) == \A i \in DOMAIN q : q[i][1] = "done" => q[i][2] <= n
NotDone(q, n) == \A i \in DOMAIN q : q[i] # <<"done", n>>
Carries(q, r) == \E i \in DOMAIN q : q[i] = r
PropertiesAre(q, v) ==
    \A i \in DOMAIN q : q[i][1] = "property" => q[i][2] = v

(* A request that goes before the sync, a set that is also the last one, a   *)
(* property that comes before the done.                                      *)
Binding(q, n) ==
    \E i \in DOMAIN q :
      /\ q[i] = <<"bind">>
      /\ \A j \in DOMAIN q : j < i => q[j] # <<"sync", n>>
Setting(q, n, v) ==
    \E i \in DOMAIN q :
      /\ q[i] = <<"set", v>>
      /\ \A j \in DOMAIN q : j > i => q[j][1] # "set"
      /\ \A j \in DOMAIN q : j < i => q[j] # <<"sync", n>>
Replaying(q, n, v) ==
    \E i \in DOMAIN q :
      /\ q[i] = <<"property", v>>
      /\ \A j \in DOMAIN q : j < i => q[j] # <<"done", n>>

Travelling ==
    /\ out \in Seq(Requests) /\ inb \in Seq(LeafEvents) /\ leaf \in Leaves
    /\ key \in DefaultKeys /\ pc \in Steps
    /\ ledger \in DefaultKeys \cup {"none"}
    /\ pc \in {"sweepBind", "sweepSet", "sweepUnlink"} => ledger # "none"
    /\ SyncsTo(out, leaf.seq) /\ DonesTo(inb, leaf.seq)
    /\ pc \in {"idle", "down", "sweepUnlink"} =>
         out = <<>> /\ inb = <<>> /\ ~sinkDue

Unanswered(l) == l.pending \/ l.failed

(* The key on its way to a leaf that captures it: asked for, or replayed,    *)
(* and not behind the trip's own sync.                                       *)
Replays(k, o, i, l) ==
    \/ l.saved = k
    \/ Unanswered(l) /\ Replaying(i, l.seq, k)
    \/ Unanswered(l) /\ NotDone(i, l.seq) /\ Binding(o, l.seq)
Before(k, o, i, l) ==
    /\ NoSet(o) /\ PropertiesAre(i, k)
    /\ l.mute /\ ~l.switched /\ l.saved \in {k, "unset"}
KeyCaptured ==
    /\ pc \in {"bind", "capture", "sink"} => Before(key, out, inb, leaf)
    /\ pc \in {"bind", "capture"} => leaf.capturing
    /\ pc = "bind" /\ leaf.metadata =>
         \/ leaf.saved = key \/ Carries(inb, <<"property", key>>)
         \/ Carries(out, <<"bind">>)
    /\ pc = "capture" => Replays(key, out, inb, leaf)
    /\ pc = "sink" => leaf.saved = key
    /\ leaf.switched => leaf.mute /\ ~leaf.capturing /\ leaf.saved = before
    /\ leaf.capturing => pc \in {"bind", "capture", "free"}
    /\ pc \in {"switch", "ledger"} => leaf.switched
    /\ pc \in {"start", "running", "quit", "join"} /\ leaf.mute =>
         leaf.switched /\ ledger = before

(* A restore's set: taken, or still ahead of its sync.                       *)
Flushed(v, k, o) == k = v /\ NoSet(o)
Flushes(v, k, o, i, l) ==
    \/ Flushed(v, k, o)
    \/ Unanswered(l) /\ NotDone(i, l.seq) /\ Setting(o, l.seq, v)
Restored ==
    /\ pc \in {"restoreTrip", "freeTrip"}
        => Flushes(leaf.saved, key, out, inb, leaf)
    /\ pc = "unlink" => Flushed(leaf.saved, key, out)
    /\ pc = "sweepSet" => Flushes(ledger, key, out, inb, leaf)
    /\ pc = "sweepUnlink" => key = ledger

(* One loop thread, between start and join; a recorded error stopped it, and *)
(* is the verdict unless the deadline was dispatched after it.               *)
Runs ==
    /\ loop \in {"none", "starting", "running", "returned"}
    /\ loop # "none" <=> pc \in {"running", "quit", "join"}
    /\ pc \in {"bind", "capture", "sink", "switch", "ledger", "start"} => ~errored
    /\ errored /\ loop # "none" =>
         leaf.exit = -1 /\ loop \in {"running", "returned"}
    /\ errored /\ loop = "running" => ~looping

AudioInv == Travelling /\ KeyCaptured /\ Restored /\ Runs

-----------------------------------------------------------------------------
(* Requests and events, and the sequences they travel in.                    *)

LEMMA RequestIs ==
  /\ \A r \in Requests :
       \/ r = <<"registry">> /\ r[1] = "registry"
       \/ r = <<"bind">> /\ r[1] = "bind"
       \/ r = <<"create">> /\ r[1] = "create"
       \/ r[1] = "set" /\ r[2] \in DefaultKeys /\ r = <<"set", r[2]>>
       \/ r[1] = "sync" /\ r[2] \in Nat /\ r = <<"sync", r[2]>>
  /\ <<"registry">> \in Requests /\ <<"bind">> \in Requests
  /\ <<"create">> \in Requests
  /\ \A v \in DefaultKeys : <<"set", v>> \in Requests /\ <<"set", v>>[1] = "set"
  /\ \A n \in Nat : <<"sync", n>> \in Requests /\ <<"sync", n>>[1] = "sync"
  /\ \A v, n : <<"sync", n>>[1] = "sync" /\ <<"sync", n>>[2] = n
              /\ <<"set", v>>[1] = "set" /\ <<"set", v>>[2] = v
  /\ <<"registry">>[1] = "registry" /\ <<"bind">>[1] = "bind"
  /\ <<"create">>[1] = "create"
BY DEF Requests

LEMMA LeafEventIs ==
  /\ \A e \in LeafEvents :
       \/ e = <<"metadata">> /\ e[1] = "metadata"
       \/ e = <<"global">> /\ e[1] = "global"
       \/ e = <<"error">> /\ e[1] = "error"
       \/ e[1] = "property" /\ e[2] \in DefaultKeys /\ e = <<"property", e[2]>>
       \/ e[1] = "done" /\ e[2] \in Nat /\ e = <<"done", e[2]>>
  /\ <<"metadata">> \in LeafEvents /\ <<"global">> \in LeafEvents
  /\ <<"error">> \in LeafEvents
  /\ \A v \in DefaultKeys : <<"property", v>> \in LeafEvents
  /\ \A n \in Nat : <<"done", n>> \in LeafEvents
  /\ \A v, n : <<"done", n>>[1] = "done" /\ <<"done", n>>[2] = n
              /\ <<"property", v>>[1] = "property" /\ <<"property", v>>[2] = v
  /\ <<"metadata">>[1] = "metadata" /\ <<"global">>[1] = "global"
  /\ <<"error">>[1] = "error"
BY DEF LeafEvents

LEMMA TailFacts ==
  ASSUME NEW S, NEW s \in Seq(S), s # <<>>
  PROVE  /\ Len(s) \in Nat /\ Len(s) >= 1 /\ DOMAIN s = 1 .. Len(s)
         /\ Head(s) = s[1] /\ s[1] \in S
         /\ Tail(s) \in Seq(S) /\ DOMAIN Tail(s) = 1 .. Len(s) - 1
         /\ \A i \in 1 .. Len(s) - 1 : Tail(s)[i] = s[i + 1]
OBVIOUS

LEMMA AppendFacts ==
  ASSUME NEW S, NEW s \in Seq(S), NEW e \in S
  PROVE  /\ Len(s) \in Nat /\ DOMAIN s = 1 .. Len(s)
         /\ Append(s, e) \in Seq(S) /\ DOMAIN Append(s, e) = 1 .. Len(s) + 1
         /\ \A i \in 1 .. Len(s) : Append(s, e)[i] = s[i]
         /\ Append(s, e)[Len(s) + 1] = e
OBVIOUS

(* The server takes a request.                                               *)
LEMMA TakenOut ==
  ASSUME NEW q \in Seq(Requests), q # <<>>, NEW n \in Nat
  PROVE  /\ Head(q) \in Requests /\ Tail(q) \in Seq(Requests)
         /\ NoSet(q) => NoSet(Tail(q)) /\ Head(q)[1] # "set"
         /\ SyncsTo(q, n) => SyncsTo(Tail(q), n)
              /\ (Head(q)[1] = "sync" => Head(q)[2] <= n)
         /\ Carries(q, <<"bind">>) => Head(q) = <<"bind">>
             \/ Carries(Tail(q), <<"bind">>)
         /\ Binding(q, n) =>
              Head(q) = <<"bind">>
                  \/ (Head(q) # <<"sync", n>> /\ Binding(Tail(q), n))
         /\ \A v : Setting(q, n, v) =>
              \/ Head(q) = <<"set", v>> /\ NoSet(Tail(q))
              \/ Head(q) # <<"sync", n>> /\ Setting(Tail(q), n, v)
<1> DEFINE t == Tail(q)
<1>1. /\ Len(q) \in Nat /\ Len(q) >= 1 /\ DOMAIN q = 1 .. Len(q)
      /\ Head(q) = q[1] /\ q[1] \in Requests
      /\ t \in Seq(Requests) /\ DOMAIN t = 1 .. Len(q) - 1
      /\ \A i \in 1 .. Len(q) - 1 : t[i] = q[i + 1]
  BY TailFacts
<1> HIDE DEF t
<1>2. \A i \in DOMAIN t : i + 1 \in DOMAIN q /\ t[i] = q[i + 1] /\ i \in Nat
        /\ i >= 1
  BY <1>1
<1>3. \A i \in DOMAIN q : i = 1
        \/ (i - 1 \in DOMAIN t /\ t[i - 1] = q[i] /\ i \in Nat)
  BY <1>1
<1>4. 1 \in DOMAIN q
  BY <1>1
<1>5. NoSet(q) => NoSet(t) /\ Head(q)[1] # "set"
  BY <1>1, <1>2, <1>4 DEF NoSet
<1>6. SyncsTo(q, n) => SyncsTo(t, n) /\ (Head(q)[1] = "sync" => Head(q)[2] <= n)
  BY <1>1, <1>2, <1>4 DEF SyncsTo
<1>7. Carries(q, <<"bind">>) => Head(q) = <<"bind">> \/ Carries(t, <<"bind">>)
  BY <1>1, <1>3 DEF Carries
<1>8. ASSUME Binding(q, n), Head(q) # <<"bind">>
      PROVE  Head(q) # <<"sync", n>> /\ Binding(t, n)
  <2>1. PICK i \in DOMAIN q : /\ q[i] = <<"bind">>
                              /\ \A j \in DOMAIN q : j < i => q[j] # <<"sync", n>>
    BY <1>8 DEF Binding
  <2>2. i - 1 \in DOMAIN t /\ t[i - 1] = q[i] /\ 1 < i /\ i \in Nat
    BY <1>1, <1>3, <1>8, <2>1
  <2>3. \A j \in DOMAIN t : j < i - 1 => t[j] # <<"sync", n>>
    BY <1>2, <2>1, <2>2
  <2> QED BY <1>1, <1>4, <2>1, <2>2, <2>3 DEF Binding
<1>9. ASSUME NEW v, Setting(q, n, v), ~(Head(q) = <<"set", v>> /\ NoSet(t))
      PROVE  Head(q) # <<"sync", n>> /\ Setting(t, n, v)
  <2>1. PICK i \in DOMAIN q : /\ q[i] = <<"set", v>>
                              /\ \A j \in DOMAIN q : j > i => q[j][1] # "set"
                              /\ \A j \in DOMAIN q : j < i => q[j] # <<"sync", n>>
    BY <1>9 DEF Setting
  <2>2. i # 1
    <3> SUFFICES ASSUME i = 1 PROVE FALSE
      OBVIOUS
    <3>1. \A j \in DOMAIN t : t[j][1] # "set"
      BY <1>2, <2>1
    <3> QED BY <1>1, <1>9, <2>1, <3>1 DEF NoSet
  <2>3. i - 1 \in DOMAIN t /\ t[i - 1] = q[i] /\ 1 < i /\ i \in Nat
    BY <1>1, <1>3, <2>1, <2>2
  <2>4. \A j \in DOMAIN t : /\ j < i - 1 => t[j] # <<"sync", n>>
                            /\ j > i - 1 => t[j][1] # "set"
    BY <1>2, <2>1, <2>3
  <2> QED BY <1>1, <1>4, <2>1, <2>3, <2>4 DEF Setting
<1> QED BY <1>1, <1>5, <1>6, <1>7, <1>8, <1>9 DEF t

(* The leaf, or the library, sends one.                                      *)
LEMMA SentOut ==
  ASSUME NEW q \in Seq(Requests), NEW r \in Requests, NEW n \in Nat
  PROVE  /\ Append(q, r) \in Seq(Requests)
         /\ NoSet(q) /\ r[1] # "set" => NoSet(Append(q, r))
         /\ SyncsTo(q, n) /\ (r[1] = "sync" => r[2] <= n)
             => SyncsTo(Append(q, r), n)
         /\ \A s : Carries(q, s) => Carries(Append(q, r), s)
         /\ Carries(Append(q, r), r)
         /\ Binding(q, n) => Binding(Append(q, r), n)
         /\ \A v : Setting(q, n, v) /\ r[1] # "set" => Setting(Append(q, r), n, v)
         /\ \A v : r = <<"set", v>> /\ (\A j \in DOMAIN q : q[j] # <<"sync", n>>)
               => Setting(Append(q, r), n, v)
<1> DEFINE t == Append(q, r)
<1>1. /\ Len(q) \in Nat /\ DOMAIN q = 1 .. Len(q)
      /\ t \in Seq(Requests) /\ DOMAIN t = 1 .. Len(q) + 1
      /\ \A i \in 1 .. Len(q) : t[i] = q[i]
      /\ t[Len(q) + 1] = r
  BY AppendFacts
<1> HIDE DEF t
<1>2. \A i \in DOMAIN q : i \in DOMAIN t /\ t[i] = q[i] /\ i < Len(q) + 1
  BY <1>1
<1>3. \A i \in DOMAIN t : (i \in DOMAIN q /\ t[i] = q[i])
        \/ (i = Len(q) + 1 /\ t[i] = r)
  BY <1>1
<1>4. Len(q) + 1 \in DOMAIN t
  BY <1>1
<1>5. NoSet(q) /\ r[1] # "set" => NoSet(t)
  BY <1>3 DEF NoSet
<1>6. SyncsTo(q, n) /\ (r[1] = "sync" => r[2] <= n) => SyncsTo(t, n)
  BY <1>3 DEF SyncsTo
<1>7. (\A s : Carries(q, s) => Carries(t, s)) /\ Carries(t, r)
  BY <1>1, <1>2, <1>4 DEF Carries
<1>8. ASSUME Binding(q, n) PROVE Binding(t, n)
  <2>1. PICK i \in DOMAIN q : /\ q[i] = <<"bind">>
                              /\ \A j \in DOMAIN q : j < i => q[j] # <<"sync", n>>
    BY <1>8 DEF Binding
  <2>2. \A j \in DOMAIN t : j < i => t[j] # <<"sync", n>>
    BY <1>1, <1>2, <1>3, <2>1
  <2> QED BY <1>2, <2>1, <2>2 DEF Binding
<1>9. ASSUME NEW v, Setting(q, n, v), r[1] # "set" PROVE Setting(t, n, v)
  <2>1. PICK i \in DOMAIN q : /\ q[i] = <<"set", v>>
                              /\ \A j \in DOMAIN q : j > i => q[j][1] # "set"
                              /\ \A j \in DOMAIN q : j < i => q[j] # <<"sync", n>>
    BY <1>9 DEF Setting
  <2>2. \A j \in DOMAIN t : j < i => t[j] # <<"sync", n>>
    BY <1>1, <1>2, <1>3, <2>1
  <2>3. \A j \in DOMAIN t : j > i => t[j][1] # "set"
    BY <1>1, <1>3, <1>9, <2>1
  <2> QED BY <1>2, <2>1, <2>2, <2>3 DEF Setting
<1>10. ASSUME NEW v, r = <<"set", v>>, \A j \in DOMAIN q : q[j] # <<"sync", n>>
       PROVE  Setting(t, n, v)
  <2>1. \A j \in DOMAIN t : j > Len(q) + 1 => t[j][1] # "set"
    BY <1>1
  <2>2. \A j \in DOMAIN t : j < Len(q) + 1 => t[j] # <<"sync", n>>
    BY <1>1, <1>3, <1>10
  <2> QED BY <1>1, <1>4, <1>10, <2>1, <2>2 DEF Setting
<1> QED BY <1>1, <1>5, <1>6, <1>7, <1>8, <1>9, <1>10 DEF t

(* The loop dispatches an event.                                             *)
LEMMA HeardEvent ==
  ASSUME NEW q \in Seq(LeafEvents), q # <<>>, NEW n \in Nat
  PROVE  /\ Head(q) \in LeafEvents /\ Tail(q) \in Seq(LeafEvents)
         /\ DonesTo(q, n) => DonesTo(Tail(q), n)
         /\ NotDone(q, n) => NotDone(Tail(q), n) /\ Head(q) # <<"done", n>>
         /\ \A v : PropertiesAre(q, v) =>
              PropertiesAre(Tail(q), v)
                  /\ (Head(q)[1] = "property" => Head(q)[2] = v)
         /\ \A e : Carries(q, e) => Head(q) = e \/ Carries(Tail(q), e)
         /\ \A v : Replaying(q, n, v) =>
              \/ Head(q) = <<"property", v>>
              \/ Head(q) # <<"done", n>> /\ Replaying(Tail(q), n, v)
<1> DEFINE t == Tail(q)
<1>1. /\ Len(q) \in Nat /\ Len(q) >= 1 /\ DOMAIN q = 1 .. Len(q)
      /\ Head(q) = q[1] /\ q[1] \in LeafEvents
      /\ t \in Seq(LeafEvents) /\ DOMAIN t = 1 .. Len(q) - 1
      /\ \A i \in 1 .. Len(q) - 1 : t[i] = q[i + 1]
  BY TailFacts
<1> HIDE DEF t
<1>2. \A i \in DOMAIN t : i + 1 \in DOMAIN q /\ t[i] = q[i + 1] /\ i \in Nat
        /\ i >= 1
  BY <1>1
<1>3. \A i \in DOMAIN q : i = 1
        \/ (i - 1 \in DOMAIN t /\ t[i - 1] = q[i] /\ i \in Nat)
  BY <1>1
<1>4. 1 \in DOMAIN q
  BY <1>1
<1>5. DonesTo(q, n) => DonesTo(t, n)
  BY <1>2 DEF DonesTo
<1>6. NotDone(q, n) => NotDone(t, n) /\ Head(q) # <<"done", n>>
  BY <1>1, <1>2, <1>4 DEF NotDone
<1>7. \A v : PropertiesAre(q, v) =>
         PropertiesAre(t, v) /\ (Head(q)[1] = "property" => Head(q)[2] = v)
  BY <1>1, <1>2, <1>4 DEF PropertiesAre
<1>8. \A e : Carries(q, e) => Head(q) = e \/ Carries(t, e)
  BY <1>1, <1>3 DEF Carries
<1>9. ASSUME NEW v, Replaying(q, n, v), Head(q) # <<"property", v>>
      PROVE  Head(q) # <<"done", n>> /\ Replaying(t, n, v)
  <2>1. PICK i \in DOMAIN q : /\ q[i] = <<"property", v>>
                              /\ \A j \in DOMAIN q : j < i => q[j] # <<"done", n>>
    BY <1>9 DEF Replaying
  <2>2. i - 1 \in DOMAIN t /\ t[i - 1] = q[i] /\ 1 < i /\ i \in Nat
    BY <1>1, <1>3, <1>9, <2>1
  <2>3. \A j \in DOMAIN t : j < i - 1 => t[j] # <<"done", n>>
    BY <1>2, <2>1, <2>2
  <2> QED BY <1>1, <1>4, <2>1, <2>2, <2>3 DEF Replaying
<1> QED BY <1>1, <1>5, <1>6, <1>7, <1>8, <1>9 DEF t

(* The server sends one.                                                     *)
LEMMA SentEvent ==
  ASSUME NEW q \in Seq(LeafEvents), NEW e \in LeafEvents, NEW n \in Nat
  PROVE  /\ Append(q, e) \in Seq(LeafEvents)
         /\ DonesTo(q, n) /\ (e[1] = "done" => e[2] <= n)
             => DonesTo(Append(q, e), n)
         /\ NotDone(q, n) /\ e # <<"done", n>> => NotDone(Append(q, e), n)
         /\ \A v : PropertiesAre(q, v) /\ (e[1] = "property" => e[2] = v)
                => PropertiesAre(Append(q, e), v)
         /\ \A d : Carries(q, d) => Carries(Append(q, e), d)
         /\ Carries(Append(q, e), e)
         /\ \A v : Replaying(q, n, v) => Replaying(Append(q, e), n, v)
         /\ \A v : e = <<"property", v>> /\ NotDone(q, n)
                => Replaying(Append(q, e), n, v)
<1> DEFINE t == Append(q, e)
<1>1. /\ Len(q) \in Nat /\ DOMAIN q = 1 .. Len(q)
      /\ t \in Seq(LeafEvents) /\ DOMAIN t = 1 .. Len(q) + 1
      /\ \A i \in 1 .. Len(q) : t[i] = q[i]
      /\ t[Len(q) + 1] = e
  BY AppendFacts
<1> HIDE DEF t
<1>2. \A i \in DOMAIN q : i \in DOMAIN t /\ t[i] = q[i] /\ i < Len(q) + 1
  BY <1>1
<1>3. \A i \in DOMAIN t : (i \in DOMAIN q /\ t[i] = q[i])
        \/ (i = Len(q) + 1 /\ t[i] = e)
  BY <1>1
<1>4. Len(q) + 1 \in DOMAIN t
  BY <1>1
<1>5. DonesTo(q, n) /\ (e[1] = "done" => e[2] <= n) => DonesTo(t, n)
  BY <1>3 DEF DonesTo
<1>6. NotDone(q, n) /\ e # <<"done", n>> => NotDone(t, n)
  BY <1>3 DEF NotDone
<1>7. \A v : PropertiesAre(q, v) /\ (e[1] = "property" => e[2] = v)
        => PropertiesAre(t, v)
  BY <1>3 DEF PropertiesAre
<1>8. (\A d : Carries(q, d) => Carries(t, d)) /\ Carries(t, e)
  BY <1>1, <1>2, <1>4 DEF Carries
<1>9. ASSUME NEW v, Replaying(q, n, v) PROVE Replaying(t, n, v)
  <2>1. PICK i \in DOMAIN q : /\ q[i] = <<"property", v>>
                              /\ \A j \in DOMAIN q : j < i => q[j] # <<"done", n>>
    BY <1>9 DEF Replaying
  <2>2. \A j \in DOMAIN t : j < i => t[j] # <<"done", n>>
    BY <1>1, <1>2, <1>3, <2>1
  <2> QED BY <1>2, <2>1, <2>2 DEF Replaying
<1>10. ASSUME NEW v, e = <<"property", v>>, NotDone(q, n) PROVE Replaying(t, n, v)
  <2>1. \A j \in DOMAIN t : j < Len(q) + 1 => t[j] # <<"done", n>>
    BY <1>1, <1>3, <1>10 DEF NotDone
  <2> QED BY <1>1, <1>4, <1>10, <2>1 DEF Replaying
<1> QED BY <1>1, <1>5, <1>6, <1>7, <1>8, <1>9, <1>10 DEF t

-----------------------------------------------------------------------------
(* A trip begins: its sync is the first with its number.                     *)

LEMMA SyncBehind ==
  ASSUME NEW q \in Seq(Requests), NEW m \in Nat, SyncsTo(q, m)
  PROVE  LET n == m + 1
             t == Append(q, <<"sync", n>>)
         IN /\ t \in Seq(Requests) /\ SyncsTo(t, n)
            /\ NoSet(q) => NoSet(t)
            /\ Carries(q, <<"bind">>) => Binding(t, n)
            /\ \A v : Setting(q, n, v) => Setting(t, n, v)
            /\ \A j \in DOMAIN q : q[j] # <<"sync", n>>
<1> DEFINE n == m + 1
           sync == <<"sync", n>>
<1>1. n \in Nat /\ n > m /\ sync \in Requests /\ sync[1] = "sync" /\ sync[2] = n
  BY RequestIs
<1>2. SyncsTo(q, n) /\ \A j \in DOMAIN q : q[j] # sync
  <2> SUFFICES ASSUME NEW j \in DOMAIN q PROVE (q[j][1] = "sync" => q[j][2] <= n)
                      /\ q[j] # sync
    BY DEF SyncsTo
  <2>1. q[j] \in Requests
    OBVIOUS
  <2>2. CASE q[j][1] = "sync"
    <3>1. q[j][2] \in Nat /\ q[j][2] <= m
      BY <2>1, <2>2, RequestIs DEF SyncsTo
    <3> QED BY <1>1, <3>1
  <2>3. CASE q[j][1] # "sync"
    BY <1>1, <2>3
  <2> QED BY <2>2, <2>3
<1> HIDE DEF sync
<1>3. Carries(q, <<"bind">>) => Binding(q, n)
  BY <1>2 DEF Carries, Binding, sync
<1>4. /\ Append(q, sync) \in Seq(Requests) /\ SyncsTo(Append(q, sync), n)
      /\ NoSet(q) => NoSet(Append(q, sync))
      /\ Binding(q, n) => Binding(Append(q, sync), n)
      /\ \A v : Setting(q, n, v) => Setting(Append(q, sync), n, v)
  <2> HIDE DEF n
  <2>1. n <= n
    BY <1>1
  <2> QED BY <1>1, <1>2, <2>1, SentOut
<1> QED BY <1>2, <1>3, <1>4 DEF sync

LEMMA NoDoneYet ==
  ASSUME NEW q \in Seq(LeafEvents), NEW m \in Nat, DonesTo(q, m)
  PROVE  /\ DonesTo(q, m + 1) /\ NotDone(q, m + 1)
         /\ \A v : Carries(q, <<"property", v>>) => Replaying(q, m + 1, v)
<1>1. DonesTo(q, m + 1) /\ NotDone(q, m + 1)
  <2> SUFFICES ASSUME NEW j \in DOMAIN q
               PROVE  (q[j][1] = "done" => q[j][2] <= m + 1)
                      /\ q[j] # <<"done", m + 1>>
    BY DEF DonesTo, NotDone
  <2>1. q[j] \in LeafEvents
    OBVIOUS
  <2>2. CASE q[j][1] = "done"
    <3>1. q[j][2] \in Nat /\ q[j][2] <= m
      BY <2>1, <2>2, LeafEventIs DEF DonesTo
    <3> QED BY <3>1
  <2>3. CASE q[j][1] # "done"
    BY <2>3
  <2> QED BY <2>2, <2>3
<1>2. ASSUME NEW v, Carries(q, <<"property", v>>) PROVE Replaying(q, m + 1, v)
  BY <1>1, <1>2 DEF Carries, Replaying, NotDone
<1> QED BY <1>1, <1>2

(* The leaf as a trip leaves it.                                             *)
SameCare(l, m) ==
    /\ m.mute = l.mute /\ m.metadata = l.metadata /\ m.capturing = l.capturing
    /\ m.saved = l.saved /\ m.switched = l.switched /\ m.restored = l.restored
    /\ m.exit = l.exit

(* What the leaf and its connection are once it asked; r is its request.     *)
LEMMA AskedIs ==
  ASSUME out \in Seq(Requests), inb \in Seq(LeafEvents), NEW l \in Leaves,
         SyncsTo(out, l.seq), DonesTo(inb, l.seq),
         NEW r \in Requests, r[1] # "sync",
         NEW requests \in {<<>>, <<r>>}, Asked(l, requests)
  PROVE  /\ out' \in Seq(Requests) /\ inb' = inb /\ key' = key
         /\ leaf' \in Leaves /\ Unanswered(leaf')
         /\ leaf'.seq = l.seq + 1 /\ SameCare(l, leaf')
         /\ SyncsTo(out', leaf'.seq) /\ DonesTo(inb', leaf'.seq)
         /\ NotDone(inb', leaf'.seq)
         /\ NoSet(out) /\ (requests = <<>> \/ r[1] # "set") => NoSet(out')
         /\ Carries(out, <<"bind">>) => Binding(out', leaf'.seq)
         /\ \A v : Carries(inb, <<"property", v>>) => Replaying(inb', leaf'.seq, v)
         /\ \A v : requests = <<r>> /\ r = <<"set", v>>
             => Setting(out', leaf'.seq, v)
<1> DEFINE n == l.seq + 1
           mid == out \o requests
<1>1. /\ leaf' = [l EXCEPT !.seq = n, !.pending = TRUE, !.failed = FALSE]
      /\ out' = mid \o << <<"sync", n>> >>
      /\ inb' = inb /\ key' = key
  BY DEF Asked
<1>2. l.seq \in Nat
  BY DEF Leaves
<1>3. leaf' \in Leaves /\ leaf'.seq = n /\ leaf'.pending = TRUE
        /\ SameCare(l, leaf')
  <2>1. n \in Nat
    BY <1>2
  <2> HIDE DEF n
  <2>2. leaf' \in Leaves
    BY <1>1, <2>1 DEF Leaves
  <2>3. leaf'.seq = n /\ leaf'.pending = TRUE
    BY <1>1, <2>1 DEF Leaves
  <2>4. SameCare(l, leaf')
    BY <1>1, <2>1 DEF Leaves, SameCare
  <2> QED BY <2>2, <2>3, <2>4
<1>4. CASE requests = <<>>
  <2>1. mid = out
    BY <1>4
  <2>2. out' = Append(out, <<"sync", n>>)
    BY <1>1, <2>1
  <2>3. <<r>> # <<>>
    OBVIOUS
  <2> HIDE DEF mid
  <2> QED BY <1>1, <1>2, <1>3, <1>4, <2>2, <2>3, SyncBehind, NoDoneYet
        DEF Unanswered
<1>5. CASE requests = <<r>>
  <2>1. mid = Append(out, r) /\ mid \in Seq(Requests)
    BY <1>5
  <2>2. out' = Append(mid, <<"sync", n>>)
    BY <1>1, <2>1
  <2>3. <<r>> # <<>>
    OBVIOUS
  <2> HIDE DEF mid
  <2>4. \A j \in DOMAIN out : out[j] # <<"sync", n>>
    BY <1>2, SyncBehind
  <2>5. n \in Nat
    BY <1>2
  <2>6. /\ SyncsTo(mid, l.seq)
        /\ NoSet(out) /\ r[1] # "set" => NoSet(mid)
        /\ Carries(out, <<"bind">>) => Carries(mid, <<"bind">>)
    BY <1>2, <2>1, SentOut
  <2>7. \A v : r = <<"set", v>> => Setting(mid, n, v)
    BY <2>1, <2>4, <2>5, SentOut
  <2> QED BY <1>1, <1>2, <1>3, <1>5, <2>1, <2>2, <2>3, <2>6, <2>7, SyncBehind,
        NoDoneYet
          DEF Unanswered
<1> QED BY <1>4, <1>5

-----------------------------------------------------------------------------
(* The server's steps.                                                       *)

LEMMA TakesKeeps == ASSUME AudioInv, ServerTakes PROVE AudioInv'
<1> DEFINE r == Head(out)
           n == leaf.seq
<1>1. /\ out \in Seq(Requests) /\ inb \in Seq(LeafEvents) /\ n \in Nat /\ out # <<>>
      /\ key \in DefaultKeys /\ SyncsTo(out, n) /\ DonesTo(inb, n)
      /\ pc \notin {"idle", "down", "sweepUnlink"}
  BY DEF AudioInv, Travelling, Leaves, ServerTakes
<1>2. /\ out' = Tail(out) /\ key' = IF r[1] = "set" THEN r[2] ELSE key
      /\ UNCHANGED <<leaf, pc, ledger, before, errored, loop, looping>>
  BY DEF ServerTakes, loopVars
<1>3. /\ r \in Requests /\ Tail(out) \in Seq(Requests)
      /\ NoSet(out) => NoSet(Tail(out)) /\ r[1] # "set"
      /\ SyncsTo(Tail(out), n) /\ (r[1] = "sync" => r[2] <= n)
      /\ Carries(out, <<"bind">>) => r = <<"bind">>
          \/ Carries(Tail(out), <<"bind">>)
      /\ Binding(out, n) =>
           r = <<"bind">> \/ (r # <<"sync", n>> /\ Binding(Tail(out), n))
      /\ \A v : Setting(out, n, v) =>
           \/ r = <<"set", v>> /\ NoSet(Tail(out))
           \/ r # <<"sync", n>> /\ Setting(Tail(out), n, v)
  BY <1>1, TakenOut
<1>4. \/ inb' = inb /\ r # <<"bind">>
      \/ \E e \in LeafEvents :
           /\ inb' = Append(inb, e)
           /\ e[1] = "done" => r[1] = "sync" /\ r[2] \in Nat /\ e = <<"done", r[2]>>
           /\ e[1] = "property" => e = <<"property", key>> \/ r[1] = "set"
           /\ r = <<"bind">> => e = <<"property", key>>
  <2>1. CASE r[1] = "registry"
    <3>1. inb' \in {inb, Append(inb, <<"metadata">>)} /\ r # <<"bind">>
      BY <2>1, RequestIs DEF ServerTakes
    <3> QED BY <2>1, <3>1, LeafEventIs
  <2>2. CASE r[1] = "bind"
    <3>1. inb' = Append(inb, <<"property", key>>)
      BY <2>2 DEF ServerTakes
    <3> QED BY <1>1, <2>2, <3>1, LeafEventIs
  <2>3. CASE r[1] = "set"
    <3>1. inb' \in {inb, Append(inb, <<"property", r[2]>>)}
      BY <2>3 DEF ServerTakes
    <3>2. r[2] \in DefaultKeys /\ r # <<"bind">>
      BY <1>3, <2>3, RequestIs
    <3> QED BY <2>3, <3>1, <3>2, LeafEventIs
  <2>4. CASE r[1] = "create"
    BY <2>4, RequestIs DEF ServerTakes
  <2>5. CASE r[1] = "sync"
    BY <1>3, <2>5, LeafEventIs, RequestIs DEF ServerTakes
  <2> QED BY <1>3, <2>1, <2>2, <2>3, <2>4, <2>5, RequestIs
<1> DEFINE Replayed == <<"property", key>>
           Told == /\ inb' \in Seq(LeafEvents) /\ DonesTo(inb', n)
                   /\ r # <<"sync", n>> /\ NotDone(inb, n) => NotDone(inb', n)
                   /\ r[1] # "set" /\ PropertiesAre(inb, key)
                        => PropertiesAre(inb', key)
                   /\ Carries(inb, Replayed) => Carries(inb', Replayed)
                   /\ Replaying(inb, n, key) => Replaying(inb', n, key)
                   /\ r = <<"bind">> => Carries(inb', Replayed)
                   /\ r = <<"bind">> /\ NotDone(inb, n) => Replaying(inb', n, key)
<1>5. Told
  <2>1. CASE inb' = inb /\ r # <<"bind">>
    BY <1>1, <2>1
  <2>2. ASSUME NEW e \in LeafEvents, inb' = Append(inb, e),
               e[1] = "done" => r[1] = "sync" /\ r[2] \in Nat
                   /\ e = <<"done", r[2]>>,
               e[1] = "property" => e = <<"property", key>> \/ r[1] = "set",
               r = <<"bind">> => e = <<"property", key>>
        PROVE  Told
    <3>1. e[1] = "done" => e[2] <= n
      BY <1>3, <2>2, LeafEventIs
    <3>2. r # <<"sync", n>> => e # <<"done", n>>
      BY <1>3, <2>2, LeafEventIs, RequestIs
    <3>3. r[1] # "set" /\ e[1] = "property" => e[2] = key
      BY <2>2, LeafEventIs
    <3>4. r = <<"bind">> => e = <<"property", key>>
      BY <2>2
    <3>5. inb' = Append(inb, e)
      BY <2>2
    <3> HIDE DEF r, n
    <3>6. /\ inb' \in Seq(LeafEvents) /\ DonesTo(inb', n)
          /\ Carries(inb, Replayed) => Carries(inb', Replayed)
          /\ Replaying(inb, n, key) => Replaying(inb', n, key)
      BY <1>1, <3>1, <3>5, SentEvent
    <3>7. r # <<"sync", n>> /\ NotDone(inb, n) => NotDone(inb', n)
      BY <1>1, <3>2, <3>5, SentEvent
    <3>8. r[1] # "set" /\ PropertiesAre(inb, key) => PropertiesAre(inb', key)
      BY <1>1, <3>3, <3>5, SentEvent
    <3>9. /\ r = <<"bind">> => Carries(inb', Replayed)
          /\ r = <<"bind">> /\ NotDone(inb, n) => Replaying(inb', n, key)
      BY <1>1, <3>4, <3>5, SentEvent
    <3> QED BY <3>6, <3>7, <3>8, <3>9
  <2> QED BY <1>4, <2>1, <2>2
<1>6. key' \in DefaultKeys /\ (r[1] # "set" => key' = key)
      /\ \A v : r = <<"set", v>> => key' = v
  BY <1>1, <1>2, <1>3, RequestIs
<1>7. r = <<"bind">> => r[1] # "set" /\ r # <<"sync", n>>
  BY RequestIs
<1> HIDE DEF r
<1>8. Travelling'
  BY <1>1, <1>2, <1>3, <1>5, <1>6 DEF AudioInv, Travelling
<1>9. KeyCaptured'
  <2>1. Before(key, out, inb, leaf) => Before(key, out, inb, leaf)' /\ key' = key
    BY <1>2, <1>3, <1>5, <1>6 DEF Before
  <2>2. /\ Carries(inb, Replayed) => Carries(inb', Replayed)
        /\ Carries(out, <<"bind">>) => Carries(out', <<"bind">>)
            \/ Carries(inb', Replayed)
    BY <1>2, <1>3, <1>5
  <2>3. key' = key /\ Replays(key, out, inb, leaf) => Replays(key, out, inb, leaf)'
    BY <1>2, <1>3, <1>5, <1>7 DEF Replays, Unanswered
  <2> QED BY <1>2, <2>1, <2>2, <2>3 DEF AudioInv, KeyCaptured
<1>10. Restored'
  BY <1>1, <1>2, <1>3, <1>5, <1>6
     DEF AudioInv, Restored, Flushes, Flushed, Unanswered
<1>11. Runs'
  BY <1>2 DEF AudioInv, Runs
<1> QED BY <1>8, <1>9, <1>10, <1>11 DEF AudioInv

LEMMA TellsKeep ==
  ASSUME AudioInv, ServerAnnounces \/ ServerErrs PROVE AudioInv'
<1>1. PICK e \in LeafEvents :
        /\ inb' = Append(inb, e) /\ e[1] \notin {"done", "property"}
        /\ pc \notin {"idle", "down", "sweepUnlink"}
        /\ UNCHANGED <<key, out, leaf, pc, ledger, before, errored, loop, looping>>
  <2>1. CASE ServerAnnounces
    <3>1. inb' = Append(inb, <<"global">>)
      BY <2>1 DEF ServerAnnounces
    <3> QED BY <2>1, <3>1, LeafEventIs DEF ServerAnnounces, AudioInv, Travelling,
          loopVars
  <2>2. CASE ServerErrs
    <3>1. inb' = Append(inb, <<"error">>)
      BY <2>2 DEF ServerErrs
    <3>2. pc \notin {"idle", "down", "sweepUnlink"}
      BY <2>2 DEF ServerErrs, Trips
    <3> QED BY <2>2, <3>1, <3>2, LeafEventIs DEF ServerErrs, loopVars
  <2> QED BY <2>1, <2>2
<1> DEFINE n == leaf.seq
<1>2. inb \in Seq(LeafEvents) /\ n \in Nat /\ DonesTo(inb, n) /\ e # <<"done", n>>
  BY <1>1, LeafEventIs DEF AudioInv, Travelling, Leaves
<1> HIDE DEF n
<1>3. /\ inb' \in Seq(LeafEvents) /\ DonesTo(inb', n)
      /\ NotDone(inb, n) => NotDone(inb', n)
      /\ PropertiesAre(inb, key) => PropertiesAre(inb', key)
      /\ \A d : Carries(inb, d) => Carries(inb', d)
      /\ \A v : Replaying(inb, n, v) => Replaying(inb', n, v)
  BY <1>1, <1>2, SentEvent
<1>4. Travelling'
  BY <1>1, <1>3 DEF AudioInv, Travelling, n
<1>5. KeyCaptured'
  BY <1>1, <1>3 DEF AudioInv, KeyCaptured, Before, Replays, Unanswered, n
<1>6. Restored'
  BY <1>1, <1>3 DEF AudioInv, Restored, Flushes, Flushed, Unanswered, n
<1>7. Runs'
  BY <1>1 DEF AudioInv, Runs
<1> QED BY <1>4, <1>5, <1>6, <1>7 DEF AudioInv

-----------------------------------------------------------------------------
(* The loop's steps.                                                         *)

(* What a dispatched event e leaves to the trip that is under way, whose sync *)
(* is number n.                                                              *)
Passed(n, e) ==
    /\ n \in Nat /\ e \in LeafEvents
    /\ inb' = Tail(inb) /\ inb' \in Seq(LeafEvents) /\ DonesTo(inb', n)
    /\ NotDone(inb, n) => NotDone(inb', n) /\ e # <<"done", n>>
    /\ PropertiesAre(inb, key) =>
         PropertiesAre(inb', key) /\ (e[1] = "property" => e[2] = key)
    /\ Carries(inb, <<"property", key>>) =>
         e = <<"property", key>> \/ Carries(inb', <<"property", key>>)
    /\ Replaying(inb, n, key) =>
         \/ e = <<"property", key>>
         \/ e # <<"done", n>> /\ Replaying(inb', n, key)
    /\ UNCHANGED <<key, ledger, pc, loop, before>>
    /\ pc \in Trips \/ loop = "running"
    /\ pc \notin {"idle", "down", "sweepUnlink", "free", "unlink"}
    /\ leaf \in Leaves /\ out \in Seq(Requests) /\ SyncsTo(out, n)

LEMMA DispatchedIs ==
  ASSUME AudioInv, LoopDispatch PROVE Passed(leaf.seq, Head(inb))
<1> DEFINE n == leaf.seq
<1>1. inb \in Seq(LeafEvents) /\ n \in Nat /\ DonesTo(inb, n) /\ inb # <<>>
      /\ inb' = Tail(inb)
  BY DEF AudioInv, Travelling, Leaves, LoopDispatch
<1>2. pc \in Trips \/ loop = "running"
  BY DEF LoopDispatch, Dispatching
<1>3. pc \notin {"idle", "down", "sweepUnlink", "free", "unlink"}
  BY <1>2 DEF AudioInv, Runs, Trips
<1>4. /\ leaf \in Leaves /\ out \in Seq(Requests) /\ SyncsTo(out, n)
      /\ UNCHANGED <<key, ledger, pc, loop, before>>
  BY DEF AudioInv, Travelling, LoopDispatch
<1> HIDE DEF n
<1> QED BY <1>1, <1>2, <1>3, <1>4, HeardEvent DEF n, Passed

LEMMA DoneKeeps ==
  ASSUME AudioInv, LoopDispatch, Head(inb)[1] = "done", OnCoreDone(Head(inb)[2])
  PROVE  AudioInv'
<1> DEFINE n == leaf.seq
           e == Head(inb)
<1>1. Passed(n, e)
  BY DispatchedIs
<1> USE DEF Passed
<1>2. e = <<"done", e[2]>> /\ e # <<"property", key>>
  BY <1>1, LeafEventIs
<1>3. UNCHANGED <<out, looping, errored>>
  BY DEF OnCoreDone
<1>4. /\ leaf' \in Leaves /\ leaf'.seq = n /\ SameCare(leaf, leaf')
      /\ leaf'.failed = leaf.failed
      /\ e # <<"done", n>> => leaf' = leaf
  BY <1>1, <1>2 DEF OnCoreDone, Leaves, SameCare
<1> HIDE DEF e
<1>5. Travelling'
  BY <1>1, <1>3, <1>4 DEF AudioInv, Travelling, n
<1>6. KeyCaptured'
  <2>1. Before(key, out, inb, leaf) => Before(key, out, inb, leaf)'
    BY <1>1, <1>3, <1>4 DEF Before, SameCare
  <2>2. Replays(key, out, inb, leaf) => Replays(key, out, inb, leaf)'
    BY <1>1, <1>2, <1>3, <1>4 DEF Replays, Unanswered, SameCare, n
  <2> QED BY <1>1, <1>2, <1>3, <1>4, <2>1, <2>2 DEF AudioInv, KeyCaptured, SameCare
<1>7. Restored'
  BY <1>1, <1>3, <1>4 DEF AudioInv, Restored, Flushes, Flushed, Unanswered,
       SameCare, n
<1>8. Runs'
  BY <1>1, <1>3, <1>4 DEF AudioInv, Runs, SameCare
<1> QED BY <1>5, <1>6, <1>7, <1>8 DEF AudioInv

LEMMA ErrorKeeps ==
  ASSUME AudioInv, LoopDispatch, Head(inb)[1] = "error", OnCoreError
  PROVE  AudioInv'
<1> DEFINE n == leaf.seq
           e == Head(inb)
<1>1. Passed(n, e)
  BY DispatchedIs
<1> USE DEF Passed
<1>2. e = <<"error">> /\ e # <<"property", key>>
  BY <1>1, LeafEventIs
<1>3. out' = out /\ looping' = FALSE /\ errored' = (errored \/ loop = "running")
  BY DEF OnCoreError
<1>4. /\ leaf' \in Leaves /\ leaf'.seq = n /\ leaf'.failed /\ leaf'.exit = -1
      /\ leaf'.mute = leaf.mute /\ leaf'.metadata = leaf.metadata
      /\ leaf'.capturing = leaf.capturing /\ leaf'.saved = leaf.saved
      /\ leaf'.switched = leaf.switched
  BY <1>1 DEF OnCoreError, Leaves
<1> HIDE DEF e
<1>5. Travelling'
  BY <1>1, <1>3, <1>4 DEF AudioInv, Travelling, n
<1>6. KeyCaptured'
  <2>1. Before(key, out, inb, leaf) => Before(key, out, inb, leaf)'
    BY <1>1, <1>3, <1>4 DEF Before
  <2>2. Replays(key, out, inb, leaf) => Replays(key, out, inb, leaf)'
    BY <1>1, <1>2, <1>3, <1>4 DEF Replays, Unanswered, n
  <2> QED BY <1>1, <1>2, <1>3, <1>4, <2>1, <2>2 DEF AudioInv, KeyCaptured
<1>7. Restored'
  BY <1>1, <1>3, <1>4 DEF AudioInv, Restored, Flushes, Flushed, Unanswered, n
<1>8. Runs'
  BY <1>1, <1>3, <1>4 DEF AudioInv, Runs, Trips
<1> QED BY <1>5, <1>6, <1>7, <1>8 DEF AudioInv

LEMMA PropertyKeeps ==
  ASSUME AudioInv, LoopDispatch, Head(inb)[1] = "property",
         OnMetadataProperty(Head(inb)[2])
  PROVE  AudioInv'
<1> DEFINE n == leaf.seq
           e == Head(inb)
<1>1. Passed(n, e)
  BY DispatchedIs
<1> USE DEF Passed
<1>2. e = <<"property", e[2]>> /\ e[2] \in DefaultKeys
  BY <1>1, LeafEventIs
<1>3. UNCHANGED <<out, looping, errored>>
  BY DEF OnMetadataProperty
<1>4. /\ leaf' \in Leaves /\ leaf'.seq = n /\ leaf'.failed = leaf.failed
      /\ leaf'.pending = leaf.pending /\ leaf'.exit = leaf.exit
      /\ leaf'.mute = leaf.mute /\ leaf'.metadata = leaf.metadata
      /\ leaf'.capturing = leaf.capturing /\ leaf'.switched = leaf.switched
      /\ leaf'.saved = IF leaf.capturing /\ e[2] # "unset" THEN e[2] ELSE leaf.saved
  BY <1>1, <1>2 DEF OnMetadataProperty, Leaves
<1> HIDE DEF e
<1>5. Travelling'
  BY <1>1, <1>3, <1>4 DEF AudioInv, Travelling, n
<1>6. KeyCaptured'
  <2>1. Before(key, out, inb, leaf) =>
          /\ Before(key, out, inb, leaf)' /\ e[2] = key
          /\ leaf.saved = key => leaf'.saved = key
          /\ leaf.capturing => leaf'.saved = key
    BY <1>1, <1>2, <1>3, <1>4 DEF Before
  <2> QED BY <1>1, <1>2, <1>3, <1>4, <2>1 DEF AudioInv, KeyCaptured, Replays
<1>7. Restored'
  <2>1. pc \in {"restoreTrip", "freeTrip"} => leaf'.saved = leaf.saved
    BY <1>4 DEF AudioInv, KeyCaptured
  <2> QED BY <1>1, <1>3, <1>4, <2>1
      DEF AudioInv, Restored, Flushes, Flushed, Unanswered, n
<1>8. Runs'
  BY <1>1, <1>3, <1>4 DEF AudioInv, Runs
<1> QED BY <1>5, <1>6, <1>7, <1>8 DEF AudioInv

LEMMA GlobalKeeps ==
  ASSUME AudioInv, LoopDispatch, Head(inb)[1] \in {"metadata", "global"},
         OnRegistryGlobal(Head(inb)[1])
  PROVE  AudioInv'
<1> DEFINE n == leaf.seq
           e == Head(inb)
<1>1. Passed(n, e)
  BY DispatchedIs
<1> USE DEF Passed
<1>2. e # <<"property", key>> /\ e # <<"done", n>>
  BY <1>1, LeafEventIs
<1>3. UNCHANGED <<looping, errored>>
  BY DEF OnRegistryGlobal
<1>4. /\ leaf' \in Leaves /\ leaf'.seq = n /\ leaf'.failed = leaf.failed
      /\ leaf'.pending = leaf.pending /\ leaf'.exit = leaf.exit
      /\ leaf'.mute = leaf.mute /\ leaf'.saved = leaf.saved
      /\ leaf'.capturing = leaf.capturing /\ leaf'.switched = leaf.switched
      /\ leaf.metadata => leaf'.metadata
      /\ leaf'.metadata => leaf.metadata \/ e[1] = "metadata"
  BY <1>1, <1>2 DEF OnRegistryGlobal, Leaves
<1>5. \/ out' = out /\ (leaf'.metadata => leaf.metadata)
      \/ out' = Append(out, <<"bind">>)
  BY <1>4 DEF OnRegistryGlobal
<1>6. /\ out' \in Seq(Requests) /\ SyncsTo(out', n)
      /\ NoSet(out) => NoSet(out')
      /\ Carries(out, <<"bind">>) => Carries(out', <<"bind">>)
      /\ leaf'.metadata => leaf.metadata \/ Carries(out', <<"bind">>)
      /\ Binding(out, n) => Binding(out', n)
      /\ \A v : Setting(out, n, v) => Setting(out', n, v)
  <2>1. CASE out' = out /\ (leaf'.metadata => leaf.metadata)
    BY <1>1, <2>1
  <2>2. CASE out' = Append(out, <<"bind">>)
    <3> DEFINE r == <<"bind">>
    <3>1. r \in Requests /\ r[1] # "set" /\ r[1] # "sync"
      BY RequestIs
    <3> HIDE DEF r, n
    <3>2. out' = Append(out, r)
      BY <2>2 DEF r
    <3>3. /\ out' \in Seq(Requests) /\ SyncsTo(out', n)
          /\ NoSet(out) => NoSet(out')
          /\ Carries(out, r) => Carries(out', r)
          /\ Carries(out', r)
          /\ Binding(out, n) => Binding(out', n)
          /\ \A v : Setting(out, n, v) => Setting(out', n, v)
      BY <1>1, <3>1, <3>2, SentOut
    <3> QED BY <3>3 DEF r
  <2> QED BY <1>5, <2>1, <2>2
<1> HIDE DEF e
<1>7. Travelling'
  BY <1>1, <1>4, <1>6 DEF AudioInv, Travelling, n
<1>8. KeyCaptured'
  <2>1. Before(key, out, inb, leaf) => Before(key, out, inb, leaf)'
    BY <1>1, <1>4, <1>6 DEF Before
  <2>2. Replays(key, out, inb, leaf) => Replays(key, out, inb, leaf)'
    BY <1>1, <1>2, <1>4, <1>6 DEF Replays, Unanswered, n
  <2> QED BY <1>1, <1>2, <1>4, <1>6, <2>1, <2>2 DEF AudioInv, KeyCaptured
<1>9. Restored'
  BY <1>1, <1>4, <1>6 DEF AudioInv, Restored, Flushes, Flushed, Unanswered, n
<1>10. Runs'
  BY <1>1, <1>3, <1>4 DEF AudioInv, Runs
<1> QED BY <1>7, <1>8, <1>9, <1>10 DEF AudioInv

LEMMA LoopDispatchKeeps == ASSUME AudioInv, LoopDispatch PROVE AudioInv'
BY DoneKeeps, ErrorKeeps, PropertyKeeps, GlobalKeeps DEF LoopDispatch

LEMMA TimesOutKeeps == ASSUME AudioInv, TripTimesOut PROVE AudioInv'
<1>1. /\ UNCHANGED <<key, out, inb, sinkDue, ledger, pc, loop, looping, before,
         errored>>
      /\ pc \in Trips
  BY DEF TripTimesOut, serverVars, loopVars
<1>2. leaf \in Leaves /\ loop = "none"
  BY <1>1 DEF AudioInv, Travelling, Runs, Trips
<1>3. /\ leaf' \in Leaves /\ leaf'.seq = leaf.seq /\ leaf'.failed
      /\ leaf'.mute = leaf.mute /\ leaf'.metadata = leaf.metadata
      /\ leaf'.capturing = leaf.capturing /\ leaf'.saved = leaf.saved
      /\ leaf'.switched = leaf.switched
  BY <1>2 DEF TripTimesOut, Leaves
<1>4. Travelling'
  BY <1>1, <1>3 DEF AudioInv, Travelling
<1>5. KeyCaptured'
  BY <1>1, <1>3 DEF AudioInv, KeyCaptured, Before, Replays, Unanswered
<1>6. Restored'
  BY <1>1, <1>3 DEF AudioInv, Restored, Flushes, Flushed, Unanswered
<1>7. Runs'
  BY <1>1, <1>2 DEF AudioInv, Runs
<1> QED BY <1>4, <1>5, <1>6, <1>7 DEF AudioInv

LEMMA ReentersKeeps == ASSUME AudioInv, TripReenters PROVE AudioInv'
BY DEF TripReenters, AudioInv, Travelling, KeyCaptured, Restored, Runs, serverVars

(* The loop thread's run: nothing that travels is touched.                   *)
LEMMA RunKeeps == ASSUME AudioInv, Run PROVE AudioInv'
<1>1. /\ UNCHANGED <<key, out, inb, sinkDue, ledger, pc, before>>
      /\ loop # "none" /\ loop' # "none"
  BY DEF Run, LoopEnters, StreamErrs, RunTimesOut, LoopQuits, LoopReturns,
       serverVars
<1>2. leaf \in Leaves /\ pc \in {"running", "quit", "join"}
  BY <1>1 DEF AudioInv, Travelling, Runs
<1>3. \/ leaf' = leaf \/ leaf' = [leaf EXCEPT !.timer = TRUE]
      \/ leaf' = [leaf EXCEPT !.exit = -1]
      \/ leaf' = [leaf EXCEPT !.exit = 1, !.timer = FALSE]
  BY DEF Run, LoopEnters, StreamErrs, RunTimesOut, LoopQuits, LoopReturns
<1>4. /\ leaf' \in Leaves /\ leaf'.seq = leaf.seq
      /\ leaf'.mute = leaf.mute /\ leaf'.capturing = leaf.capturing
      /\ leaf'.saved = leaf.saved /\ leaf'.switched = leaf.switched
  BY <1>2, <1>3 DEF Leaves
<1>5. Travelling'
  BY <1>1, <1>4 DEF AudioInv, Travelling
<1>6. KeyCaptured'
  BY <1>1, <1>2, <1>4 DEF AudioInv, KeyCaptured
<1>7. Restored'
  BY <1>1, <1>2 DEF AudioInv, Restored
<1>8. Runs'
  <2>1. CASE LoopEnters
    <3>1. leaf'.exit = leaf.exit
      BY <1>2, <2>1 DEF LoopEnters, Leaves
    <3> QED BY <1>1, <2>1, <3>1 DEF AudioInv, Runs, LoopEnters
  <2>2. CASE StreamErrs
    <3>1. leaf'.exit = -1
      BY <1>2, <2>2 DEF StreamErrs, Leaves
    <3> QED BY <1>1, <1>2, <2>2, <3>1 DEF AudioInv, Runs, StreamErrs
  <2>3. CASE RunTimesOut
    BY <1>1, <2>3 DEF AudioInv, Runs, RunTimesOut
  <2>4. CASE LoopQuits
    BY <1>1, <2>4 DEF AudioInv, Runs, LoopQuits
  <2>5. CASE LoopReturns
    BY <1>1, <2>5 DEF AudioInv, Runs, LoopReturns
  <2> QED BY <2>1, <2>2, <2>3, <2>4, <2>5 DEF Run
<1> QED BY <1>5, <1>6, <1>7, <1>8 DEF AudioInv

-----------------------------------------------------------------------------
(* The main thread's steps.                                                  *)

LEMMA NoLeafIs ==
  /\ NoLeaf \in Leaves /\ NoLeaf.seq = 0 /\ ~NoLeaf.mute /\ ~NoLeaf.metadata
  /\ ~NoLeaf.capturing /\ ~NoLeaf.switched /\ NoLeaf.saved = "unset"
BY DEF NoLeaf, Leaves, DefaultKeys

LEMMA EmptyIs ==
  /\ <<>> \in Seq(Requests) /\ <<>> \in Seq(LeafEvents)
  /\ NoSet(<<>>) /\ \A n : SyncsTo(<<>>, n) /\ DonesTo(<<>>, n) /\ NotDone(<<>>, n)
  /\ \A v : PropertiesAre(<<>>, v)
BY DEF NoSet, SyncsTo, DonesTo, NotDone, PropertiesAre

(* The connection is closed and the leaf is gone.                            *)
LEMMA GoneKeeps ==
  ASSUME AudioInv, Disconnected, leaf' = NoLeaf,
         pc' \in {"idle", "down", "sweepUnlink"}, loop' = "none",
         pc' = "sweepUnlink" => ledger # "none" /\ key = ledger,
         UNCHANGED <<ledger, before, errored>>
  PROVE  AudioInv'
<1>1. out' = <<>> /\ inb' = <<>> /\ ~sinkDue' /\ key' = key
  BY DEF Disconnected
<1>2. Travelling'
  BY <1>1, NoLeafIs, EmptyIs DEF AudioInv, Travelling, Steps, Trips
<1>3. KeyCaptured' /\ Restored' /\ Runs'
  BY <1>1, NoLeafIs DEF KeyCaptured, Restored, Runs
<1> QED BY <1>2, <1>3 DEF AudioInv

LEMMA BootKeeps == ASSUME AudioInv, Boot PROVE AudioInv'
<1>1. /\ pc = "down" /\ loop = "none" /\ out = <<>> /\ inb = <<>>
      /\ UNCHANGED <<ledger, loop, looping, before, errored>>
  BY DEF Boot, loopVars, AudioInv, Travelling, Runs
<1>2. CASE pc' = "idle" /\ UNCHANGED <<serverVars, leaf>>
  BY <1>1, <1>2
     DEF serverVars, AudioInv, Travelling, KeyCaptured, Restored, Runs, Steps
<1>3. CASE ledger # "none" /\ Asked(NoLeaf, << <<"registry">> >>)
             /\ pc' = "sweepBind"
  <2>1. /\ out' \in Seq(Requests) /\ inb' = inb /\ key' = key
        /\ leaf' \in Leaves /\ SyncsTo(out', leaf'.seq) /\ DonesTo(inb', leaf'.seq)
        /\ ~leaf'.switched /\ ~leaf'.capturing
    BY <1>1, <1>3, AskedIs, NoLeafIs, EmptyIs, RequestIs DEF SameCare
  <2> QED BY <1>1, <1>3, <2>1
      DEF AudioInv, Travelling, KeyCaptured, Restored, Runs, Steps, Trips
<1> QED BY <1>2, <1>3 DEF Boot

(* What every step of the main thread finds.                                 *)
LEMMA Found ==
  ASSUME AudioInv
  PROVE  /\ out \in Seq(Requests) /\ inb \in Seq(LeafEvents) /\ leaf \in Leaves
         /\ SyncsTo(out, leaf.seq) /\ DonesTo(inb, leaf.seq)
         /\ key \in DefaultKeys /\ leaf.saved \in DefaultKeys /\ leaf.seq \in Nat
BY DEF AudioInv, Travelling, Leaves

LEMMA SweepsKeep ==
  ASSUME AudioInv, SweepBound \/ SweepDone \/ SweepUnlink PROVE AudioInv'
<1>1. /\ UNCHANGED <<loop, looping, before, errored>>
      /\ pc \in {"sweepBind", "sweepSet", "sweepUnlink"}
  BY DEF SweepBound, SweepDone, SweepUnlink, loopVars
<1>2. loop = "none" /\ ledger \in DefaultKeys /\ ledger # "none"
  BY <1>1 DEF AudioInv, Travelling, Runs
<1>3. CASE SweepBound /\ Asked(leaf, << <<"set", ledger>> >>) /\ pc' = "sweepSet"
  <2>1. /\ out' \in Seq(Requests) /\ inb' = inb /\ key' = key
        /\ leaf' \in Leaves /\ SyncsTo(out', leaf'.seq) /\ DonesTo(inb', leaf'.seq)
        /\ SameCare(leaf, leaf') /\ Unanswered(leaf') /\ NotDone(inb', leaf'.seq)
        /\ Setting(out', leaf'.seq, ledger)
    <3>1. <<"set", ledger>> \in Requests /\ <<"set", ledger>>[1] # "sync"
      BY <1>2, RequestIs
    <3> QED BY <1>3, <3>1, AskedIs, Found
  <2>2. pc = "sweepBind" /\ ledger' = ledger
    BY <1>3 DEF SweepBound
  <2>3. Travelling'
    BY <1>2, <1>3, <2>1, <2>2 DEF AudioInv, Travelling, Steps, Trips
  <2>4. KeyCaptured' /\ Runs'
    BY <1>1, <1>2, <1>3, <2>1, <2>2 DEF AudioInv, KeyCaptured, Runs, SameCare
  <2>5. Restored'
    BY <1>3, <2>1, <2>2 DEF Restored, Flushes
  <2> QED BY <2>3, <2>4, <2>5 DEF AudioInv
<1>4. CASE SweepBound /\ Disconnected /\ leaf' = NoLeaf /\ pc' = "idle"
  <2>1. ledger' = ledger
    BY <1>4 DEF SweepBound
  <2> QED BY <1>1, <1>2, <1>4, <2>1, GoneKeeps
<1>5. CASE SweepDone
  <2>1. /\ Disconnected /\ leaf' = NoLeaf /\ ledger' = ledger
        /\ pc' = IF TripOk THEN "sweepUnlink" ELSE "idle"
        /\ pc = "sweepSet"
    BY <1>5 DEF SweepDone
  <2>2. TripOk => key = ledger
    BY <2>1 DEF AudioInv, Restored, Flushes, Flushed, TripOk, TripOver, Unanswered
  <2> QED BY <1>1, <1>2, <2>1, <2>2, GoneKeeps
<1>6. CASE SweepUnlink
  <2>1. pc = "sweepUnlink" /\ pc' = "idle" /\ ledger' = "none"
          /\ UNCHANGED <<serverVars, leaf>>
    BY <1>6 DEF SweepUnlink
  <2> QED BY <1>1, <1>2, <2>1
      DEF AudioInv, Travelling, KeyCaptured, Restored, Runs, serverVars, Steps
<1> QED BY <1>3, <1>4, <1>5, <1>6 DEF SweepBound

LEMMA NewLeafKeeps ==
  ASSUME AudioInv, NEW mute \in BOOLEAN, NewLeaf(mute) PROVE AudioInv'
<1>1. /\ pc = "idle" /\ loop = "none" /\ out = <<>> /\ inb = <<>>
         /\ errored' = FALSE
      /\ UNCHANGED <<ledger, loop, looping, before>>
  BY DEF NewLeaf, loopVars, AudioInv, Travelling, Runs
<1>2. CASE mute
  <2> DEFINE l == [NoLeaf EXCEPT !.mute = TRUE, !.capturing = TRUE]
  <2>1. Asked(l, << <<"registry">> >>) /\ pc' = "bind"
    BY <1>2 DEF NewLeaf
  <2>2. /\ l \in Leaves /\ l.seq = 0 /\ l.mute /\ ~l.metadata /\ l.capturing
        /\ ~l.switched /\ l.saved = "unset"
    BY NoLeafIs DEF NoLeaf, Leaves
  <2> HIDE DEF l
  <2>3. /\ out' \in Seq(Requests) /\ inb' = <<>> /\ key' = key /\ leaf' \in Leaves
        /\ SyncsTo(out', leaf'.seq) /\ DonesTo(inb', leaf'.seq)
        /\ SameCare(l, leaf') /\ NoSet(out')
    BY <1>1, <2>1, <2>2, AskedIs, EmptyIs, RequestIs
  <2>4. Travelling'
    BY <1>1, <2>1, <2>3 DEF AudioInv, Travelling, Steps, Trips
  <2>5. KeyCaptured'
    BY <1>1, <2>1, <2>2, <2>3, EmptyIs DEF KeyCaptured, Before, SameCare
  <2>6. Restored' /\ Runs'
    BY <1>1, <2>1 DEF Restored, Runs
  <2> QED BY <2>4, <2>5, <2>6 DEF AudioInv
<1>3. CASE ~mute
  <2>1. leaf' = NoLeaf /\ pc' = "start" /\ UNCHANGED <<key, out, inb>>
    BY <1>3 DEF NewLeaf, serverVars
  <2>2. Travelling'
    BY <1>1, <2>1, NoLeafIs, EmptyIs DEF AudioInv, Travelling, Steps
  <2>3. KeyCaptured' /\ Restored' /\ Runs'
    BY <1>1, <2>1, NoLeafIs DEF KeyCaptured, Restored, Runs
  <2> QED BY <2>2, <2>3 DEF AudioInv
<1> QED BY <1>2, <1>3

(* The trips of a setup: the replay is captured before anything is switched. *)
LEMMA BoundKeeps == ASSUME AudioInv, Bound PROVE AudioInv'
<1>1. /\ pc = "bind" /\ loop = "none"
      /\ UNCHANGED <<ledger, loop, looping, before, errored>>
      /\ Before(key, out, inb, leaf) /\ leaf.capturing
  BY DEF Bound, loopVars, AudioInv, KeyCaptured, Runs
<1>2. CASE TripOk /\ leaf.metadata
  <2>1. Asked(leaf, <<>>) /\ pc' = "capture"
    BY <1>2 DEF Bound
  <2>2. /\ out' \in Seq(Requests) /\ inb' = inb /\ key' = key /\ leaf' \in Leaves
        /\ SyncsTo(out', leaf'.seq) /\ DonesTo(inb', leaf'.seq)
        /\ SameCare(leaf, leaf') /\ Unanswered(leaf') /\ NotDone(inb', leaf'.seq)
        /\ NoSet(out')
        /\ Carries(out, <<"bind">>) => Binding(out', leaf'.seq)
        /\ Carries(inb, <<"property", key>>) => Replaying(inb', leaf'.seq, key)
    <3>1. <<"bind">> \in Requests /\ <<"bind">>[1] # "sync"
      BY RequestIs
    <3> QED BY <1>1, <2>1, <3>1, AskedIs, Found DEF Before
  <2>3. Travelling'
    BY <1>1, <2>1, <2>2 DEF AudioInv, Travelling, Steps, Trips
  <2>4. KeyCaptured'
    <3>1. Before(key, out, inb, leaf)'
      BY <1>1, <2>2 DEF Before, SameCare
    <3>2. Replays(key, out, inb, leaf)'
      BY <1>1, <1>2, <2>2 DEF AudioInv, KeyCaptured, Replays, SameCare
    <3> QED BY <1>1, <2>1, <2>2, <3>1, <3>2 DEF AudioInv, KeyCaptured, SameCare
  <2>5. Restored' /\ Runs'
    BY <1>1, <2>1 DEF AudioInv, Restored, Runs
  <2> QED BY <2>3, <2>4, <2>5 DEF AudioInv
<1>3. CASE pc' = "free" /\ UNCHANGED <<serverVars, leaf>>
  BY <1>1, <1>3
     DEF serverVars, AudioInv, Travelling, KeyCaptured, Before, Restored, Runs,
          Steps
<1> QED BY <1>2, <1>3 DEF Bound

LEMMA CapturedKeeps == ASSUME AudioInv, Captured PROVE AudioInv'
<1>1. /\ pc = "capture" /\ loop = "none"
      /\ UNCHANGED <<ledger, loop, looping, before, errored>>
      /\ Before(key, out, inb, leaf) /\ leaf.capturing
  BY DEF Captured, loopVars, AudioInv, KeyCaptured, Runs
<1>2. CASE TripOk
  <2> DEFINE l == [leaf EXCEPT !.capturing = FALSE, !.tries = 1]
  <2>1. Asked(l, << <<"create">> >>) /\ pc' = "sink"
    BY <1>2 DEF Captured
  <2>2. /\ l \in Leaves /\ l.seq = leaf.seq /\ l.mute = leaf.mute /\ ~l.capturing
        /\ l.switched = leaf.switched /\ l.saved = leaf.saved
    BY Found DEF Leaves
  <2>3. leaf.saved = key
    BY <1>1, <1>2 DEF AudioInv, KeyCaptured, Replays, TripOk, TripOver, Unanswered
  <2> HIDE DEF l
  <2>4. /\ out' \in Seq(Requests) /\ inb' = inb /\ key' = key /\ leaf' \in Leaves
        /\ SyncsTo(out', leaf'.seq) /\ DonesTo(inb', leaf'.seq)
        /\ SameCare(l, leaf') /\ NoSet(out')
    <3>1. /\ <<"create">> \in Requests /\ <<"create">>[1] # "sync"
          /\ <<"create">>[1] # "set"
      BY RequestIs
    <3> QED BY <1>1, <2>1, <2>2, <3>1, AskedIs, Found DEF Before
  <2>5. Travelling'
    BY <1>1, <2>1, <2>4 DEF AudioInv, Travelling, Steps, Trips
  <2>6. KeyCaptured'
    BY <1>1, <2>1, <2>2, <2>3, <2>4 DEF KeyCaptured, Before, SameCare
  <2>7. Restored' /\ Runs'
    BY <1>1, <2>1 DEF AudioInv, Restored, Runs
  <2> QED BY <2>5, <2>6, <2>7 DEF AudioInv
<1>3. CASE pc' = "free" /\ UNCHANGED <<serverVars, leaf>>
  BY <1>1, <1>3
     DEF serverVars, AudioInv, Travelling, KeyCaptured, Before, Restored, Runs,
          Steps
<1> QED BY <1>2, <1>3 DEF Captured

LEMMA SinkAwaitedKeeps == ASSUME AudioInv, SinkAwaited PROVE AudioInv'
<1>1. /\ pc = "sink" /\ loop = "none"
      /\ UNCHANGED <<ledger, loop, looping, errored>>
      /\ Before(key, out, inb, leaf) /\ leaf.saved = key /\ ~leaf.capturing
  BY DEF SinkAwaited, loopVars, AudioInv, KeyCaptured, Runs
<1>2. CASE /\ Asked([leaf EXCEPT !.switched = TRUE], << <<"set", "lyte">> >>)
           /\ pc' = "switch" /\ before' = key
  <2> DEFINE l == [leaf EXCEPT !.switched = TRUE]
  <2>1. /\ l \in Leaves /\ l.seq = leaf.seq /\ l.mute = leaf.mute /\ ~l.capturing
        /\ l.switched /\ l.saved = leaf.saved
    BY <1>1, Found DEF Leaves
  <2>2. Asked(l, << <<"set", "lyte">> >>)
    BY <1>2
  <2> HIDE DEF l
  <2>3. /\ out' \in Seq(Requests) /\ inb' = inb /\ key' = key /\ leaf' \in Leaves
        /\ SyncsTo(out', leaf'.seq) /\ DonesTo(inb', leaf'.seq)
        /\ SameCare(l, leaf')
    <3>1. <<"set", "lyte">> \in Requests /\ <<"set", "lyte">>[1] # "sync"
      BY RequestIs DEF DefaultKeys
    <3> QED BY <2>1, <2>2, <3>1, AskedIs, Found
  <2>4. Travelling'
    BY <1>1, <1>2, <2>3 DEF AudioInv, Travelling, Steps, Trips
  <2>5. KeyCaptured'
    BY <1>1, <1>2, <2>1, <2>3 DEF KeyCaptured, Before, SameCare
  <2>6. Restored' /\ Runs'
    BY <1>1, <1>2 DEF AudioInv, Restored, Runs
  <2> QED BY <2>4, <2>5, <2>6 DEF AudioInv
<1>3. CASE Asked([leaf EXCEPT !.tries = @ + 1], <<>>) /\ UNCHANGED <<pc, before>>
  <2> DEFINE l == [leaf EXCEPT !.tries = @ + 1]
  <2>1. /\ l \in Leaves /\ l.seq = leaf.seq /\ l.mute = leaf.mute /\ ~l.capturing
        /\ l.switched = leaf.switched /\ l.saved = leaf.saved
    BY <1>1, Found DEF Leaves
  <2>2. Asked(l, <<>>)
    BY <1>3
  <2> HIDE DEF l
  <2>3. /\ out' \in Seq(Requests) /\ inb' = inb /\ key' = key /\ leaf' \in Leaves
        /\ SyncsTo(out', leaf'.seq) /\ DonesTo(inb', leaf'.seq)
        /\ SameCare(l, leaf') /\ NoSet(out')
    <3>1. <<"create">> \in Requests /\ <<"create">>[1] # "sync"
      BY RequestIs
    <3> QED BY <1>1, <2>1, <2>2, <3>1, AskedIs, Found DEF Before
  <2>4. Travelling'
    BY <1>1, <1>3, <2>3 DEF AudioInv, Travelling
  <2>5. KeyCaptured'
    BY <1>1, <1>3, <2>1, <2>3 DEF AudioInv, KeyCaptured, Before, SameCare
  <2>6. Restored' /\ Runs'
    BY <1>1, <1>3 DEF AudioInv, Restored, Runs
  <2> QED BY <2>4, <2>5, <2>6 DEF AudioInv
<1>4. CASE pc' = "free" /\ UNCHANGED <<serverVars, leaf, before>>
  BY <1>1, <1>4
     DEF serverVars, AudioInv, Travelling, KeyCaptured, Before, Restored, Runs,
          Steps
<1> QED BY <1>2, <1>3, <1>4 DEF SinkAwaited

(* Steps that ask nothing of the server and leave the leaf's cares alone.    *)
LEMMA QuietSetupKeeps ==
  ASSUME AudioInv, Switched \/ WriteLedger \/ Start PROVE AudioInv'
<1>1. /\ UNCHANGED <<key, out, inb, sinkDue, leaf, before, errored>>
         /\ loop = "none"
      /\ pc \in {"switch", "ledger", "start"}
  BY DEF Switched, WriteLedger, Start, serverVars, loopVars, AudioInv, Runs
<1>2. CASE Switched
  <2>1. pc = "switch" /\ pc' \in {"ledger", "free"}
          /\ UNCHANGED <<ledger, loop, looping>>
    BY <1>2 DEF Switched, loopVars
  <2> QED BY <1>1, <2>1
      DEF AudioInv, Travelling, KeyCaptured, Restored, Runs, Steps
<1>3. CASE WriteLedger
  <2>1. /\ pc = "ledger" /\ UNCHANGED <<loop, looping>>
           /\ leaf.saved \in DefaultKeys
        /\ \/ ledger' = leaf.saved /\ pc' = "start"
           \/ ledger' = ledger /\ pc' = "restore"
    BY <1>3, Found DEF WriteLedger, loopVars
  <2> QED BY <1>1, <2>1
      DEF AudioInv, Travelling, KeyCaptured, Restored, Runs, Steps
<1>4. CASE Start
  <2>1. pc = "start" /\ pc' = "running" /\ loop' = "starting" /\ ledger' = ledger
    BY <1>4 DEF Start
  <2> QED BY <1>1, <2>1
      DEF AudioInv, Travelling, KeyCaptured, Restored, Runs, Steps
<1> QED BY <1>2, <1>3, <1>4

LEMMA StopsKeep == ASSUME AudioInv, Stop \/ Quit \/ Join PROVE AudioInv'
<1>1. /\ UNCHANGED <<key, out, inb, sinkDue, ledger, before, errored, looping>>
      /\ pc \in {"running", "quit", "join"} /\ leaf \in Leaves
  BY Found DEF Stop, Quit, Join, serverVars, loopVars
<1>2. CASE Stop
  <2>1. pc = "running" /\ pc' = "quit" /\ UNCHANGED <<leaf, loop>>
    BY <1>2 DEF Stop
  <2> QED BY <1>1, <2>1
      DEF AudioInv, Travelling, KeyCaptured, Restored, Runs, Steps
<1>3. CASE Quit
  <2>1. /\ pc = "quit" /\ pc' \in {"quit", "join"} /\ loop' = loop
        /\ leaf' = leaf \/ (leaf.exit # -1 /\ leaf' = [leaf EXCEPT !.exit = 0])
    BY <1>3 DEF Quit, QuitTurn
  <2>2. /\ leaf' \in Leaves /\ leaf'.seq = leaf.seq /\ leaf'.mute = leaf.mute
        /\ leaf'.capturing = leaf.capturing /\ leaf'.switched = leaf.switched
        /\ leaf'.saved = leaf.saved
        /\ leaf.exit = -1 => leaf'.exit = -1
    BY <1>1, <2>1 DEF Leaves
  <2>3. Travelling'
    BY <1>1, <2>1, <2>2 DEF AudioInv, Travelling, Steps
  <2>4. KeyCaptured' /\ Restored'
    BY <1>1, <2>1, <2>2 DEF AudioInv, KeyCaptured, Restored
  <2>5. Runs'
    BY <1>1, <2>1, <2>2 DEF AudioInv, Runs
  <2> QED BY <2>3, <2>4, <2>5 DEF AudioInv
<1>4. CASE Join
  <2>1. pc = "join" /\ pc' = "restore" /\ leaf' = leaf /\ loop' = "none"
    BY <1>4 DEF Join
  <2> QED BY <1>1, <2>1
      DEF AudioInv, Travelling, KeyCaptured, Restored, Runs, Steps
<1> QED BY <1>2, <1>3, <1>4

(* A restore asks for the set, ahead of its sync.                            *)
LEMMA RestoringKeeps ==
  ASSUME AudioInv, NEW next \in {"restoreTrip", "freeTrip"}, Restoring(next),
         leaf.switched, pc \notin {"bind", "capture", "sink"}, loop = "none",
         UNCHANGED <<ledger, loop, looping, before, errored>>
  PROVE  AudioInv'
<1> DEFINE l == [leaf EXCEPT !.restored = TRUE]
           v == leaf.saved
<1>1. /\ l \in Leaves /\ l.seq = leaf.seq /\ l.mute = leaf.mute /\ l.saved = v
      /\ l.capturing = leaf.capturing /\ l.switched
  BY Found DEF Leaves
<1>2. Asked(l, << <<"set", v>> >>) /\ pc' = next
  BY DEF Restoring
<1> HIDE DEF l
<1>3. /\ out' \in Seq(Requests) /\ inb' = inb /\ key' = key /\ leaf' \in Leaves
      /\ SyncsTo(out', leaf'.seq) /\ DonesTo(inb', leaf'.seq) /\ SameCare(l, leaf')
      /\ Unanswered(leaf') /\ NotDone(inb', leaf'.seq)
          /\ Setting(out', leaf'.seq, v)
  <2>1. <<"set", v>> \in Requests /\ <<"set", v>>[1] # "sync"
    BY Found, RequestIs
  <2> QED BY <1>1, <1>2, <2>1, AskedIs, Found
<1>4. Travelling'
  BY <1>2, <1>3 DEF AudioInv, Travelling, Steps, Trips
<1>5. KeyCaptured' /\ Runs'
  BY <1>1, <1>2, <1>3 DEF AudioInv, KeyCaptured, Runs, SameCare
<1>6. Restored'
  BY <1>1, <1>2, <1>3 DEF Restored, Flushes, SameCare
<1> QED BY <1>4, <1>5, <1>6 DEF AudioInv

LEMMA WayOutKeeps ==
  ASSUME AudioInv, Restore \/ RestoreDone \/ Unlink \/ Free \/ FreeDone
  PROVE  AudioInv'
<1>1. /\ UNCHANGED <<loop, looping, before, errored>>
      /\ pc \in {"restore", "restoreTrip", "unlink", "free", "freeTrip"}
  BY DEF Restore, RestoreDone, Unlink, Free, FreeDone, loopVars
<1>2. loop = "none"
  BY <1>1 DEF AudioInv, Runs
<1>3. CASE Restore
  <2>1. pc = "restore" /\ ledger' = ledger
    BY <1>3 DEF Restore
  <2>2. CASE Owes(leaf) /\ Restoring("restoreTrip")
    BY <1>1, <1>2, <2>1, <2>2, RestoringKeeps DEF Owes
  <2>3. CASE pc' = "free" /\ UNCHANGED <<serverVars, leaf>>
    BY <1>1, <1>2, <2>1, <2>3
       DEF AudioInv, Travelling, KeyCaptured, Restored, Runs, Steps, serverVars
  <2> QED BY <1>3, <2>2, <2>3 DEF Restore
<1>4. CASE RestoreDone
  <2>1. /\ pc = "restoreTrip" /\ pc' = (IF TripOk THEN "unlink" ELSE "free")
        /\ UNCHANGED <<key, out, inb, sinkDue, ledger, leaf>>
    BY <1>4 DEF RestoreDone, serverVars
  <2>2. TripOk => Flushed(leaf.saved, key, out)
    BY <2>1 DEF AudioInv, Restored, Flushes, TripOk, TripOver, Unanswered
  <2> QED BY <1>1, <1>2, <2>1, <2>2
      DEF AudioInv, Travelling, KeyCaptured, Restored, Runs, Steps
<1>5. CASE Unlink
  <2>1. /\ pc = "unlink" /\ pc' = "free" /\ ledger' = "none"
        /\ UNCHANGED <<key, out, inb, sinkDue, leaf>>
    BY <1>5 DEF Unlink, serverVars
  <2> QED BY <1>1, <1>2, <2>1
      DEF AudioInv, Travelling, KeyCaptured, Restored, Runs, Steps
<1>6. CASE Free
  <2>1. pc = "free" /\ ledger' = ledger
    BY <1>6 DEF Free
  <2>2. CASE Owes(leaf) /\ Restoring("freeTrip")
    BY <1>1, <1>2, <2>1, <2>2, RestoringKeeps DEF Owes
  <2>3. CASE Disconnected /\ leaf' = NoLeaf /\ pc' = "idle"
    BY <1>1, <1>2, <2>1, <2>3, GoneKeeps
  <2> QED BY <1>6, <2>2, <2>3 DEF Free
<1>7. CASE FreeDone
  <2>1. Disconnected /\ leaf' = NoLeaf /\ pc' = "idle" /\ ledger' = ledger
    BY <1>7 DEF FreeDone
  <2> QED BY <1>1, <1>2, <2>1, GoneKeeps
<1> QED BY <1>3, <1>4, <1>5, <1>6, <1>7

LEMMA KilledKeeps == ASSUME AudioInv, Killed PROVE AudioInv'
BY GoneKeeps DEF Killed

-----------------------------------------------------------------------------
LEMMA AudioStarts == AudioInit => AudioInv
<1> SUFFICES ASSUME AudioInit PROVE AudioInv
  OBVIOUS
<1>1. Travelling
  BY NoLeafIs, EmptyIs DEF AudioInit, Travelling, Steps, DefaultKeys
<1>2. KeyCaptured /\ Restored /\ Runs
  BY NoLeafIs DEF AudioInit, KeyCaptured, Restored, Runs
<1> QED BY <1>1, <1>2 DEF AudioInv

LEMMA AudioSteps == AudioInv /\ [AudioNext]_audioVars => AudioInv'
<1> SUFFICES ASSUME AudioInv, [AudioNext]_audioVars PROVE AudioInv'
  OBVIOUS
<1>1. CASE Server
  BY <1>1, TakesKeeps, TellsKeep DEF Server
<1>2. CASE LoopDispatch
  BY <1>2, LoopDispatchKeeps
<1>3. CASE TripTimesOut \/ TripReenters
  BY <1>3, TimesOutKeeps, ReentersKeeps
<1>4. CASE Sweep
  BY <1>4, BootKeeps, SweepsKeep DEF Sweep
<1>5. CASE Setup
  BY <1>5, NewLeafKeeps, BoundKeeps, CapturedKeeps, SinkAwaitedKeeps,
       QuietSetupKeeps
     DEF Setup
<1>6. CASE Run
  BY <1>6, RunKeeps
<1>7. CASE Exit
  BY <1>7, StopsKeep, WayOutKeeps DEF Exit
<1>8. CASE Killed
  BY <1>8, KilledKeeps
<1>9. CASE UNCHANGED audioVars
  BY <1>9 DEF audioVars, serverVars, loopVars, AudioInv, Travelling, KeyCaptured,
             Restored, Runs
<1> QED BY <1>1, <1>2, <1>3, <1>4, <1>5, <1>6, <1>7, <1>8, <1>9 DEF AudioNext

(* However late, wedged or failing the server is, and wherever the process   *)
(* is killed, the invariant of the audio routing holds.                      *)
THEOREM AudioInvariance == AudioSpec => []AudioInv
<1> QED BY AudioStarts, AudioSteps, PTL DEF AudioSpec

(* What the switch took from the user is known to the leaf that puts it back *)
(* and, before traffic, to the ledger a killed process leaves.               *)
THEOREM OriginalIsKept == AudioSpec => []OriginalKept
<1>1. AudioInv => OriginalKept
  BY DEF AudioInv, KeyCaptured, Runs, OriginalKept, SavedIsOriginal,
       LedgerBeforeTraffic
<1> QED BY <1>1, AudioInvariance, PTL

(* A restore or a sweep that reports success has reached the server, and an  *)
(* error of the run is not taken for a clean stop.                           *)
THEOREM StopIsTruthful == AudioSpec => []StopTruthful
<1>1. AudioInv => StopTruthful
  <2> SUFFICES ASSUME AudioInv PROVE StopTruthful
    OBVIOUS
  <2>1. CleanRestoreApplied
    BY DEF AudioInv, Restored, Flushes, Flushed, CleanRestoreApplied, TripOk,
         TripOver,
           Unanswered
  <2>2. ErrorSurvivesQuit
    BY DEF AudioInv, Runs, ErrorSurvivesQuit
  <2> QED BY <2>1, <2>2 DEF StopTruthful
<1> QED BY <1>1, AudioInvariance, PTL
=============================================================================
