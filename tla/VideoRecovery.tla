---------------------------- MODULE VideoRecovery ----------------------------
(* The client's video recovery, across its threads: the dispatching threads  *)
(* that find a frame gone, the worker that builds samples and asks the       *)
(* session's render gate, the handoff's serial queue in front of the         *)
(* renderer, and the host that owes a key frame.  Two gates close together   *)
(* and open together, each under its own lock: the session's episode         *)
(* (ClientIdrRecovery, LyteUdpSessionCore) and the handoff's await-IRAP gate *)
(* (RendererHandoffPolicy, VideoRendererHandoff).                            *)
(* A frame is its number and whether it is a key frame; a run of frames      *)
(* skipped at once is one number.  Every fault spends one of Faults.         *)
EXTENDS Naturals, Sequences, FiniteSets

CONSTANTS
    Depth,      \* BoundedRendererHandoff.Config.capacity
    Capacity,   \* units in the client at once
    FrameSpace, \* frame numbers wrap here, far beyond what is in flight
    Faults      \* losses, failures, stalls and spurious demands

ASSUME BoundsAreCounts ==
    /\ Depth \in Nat \ {0} /\ Capacity \in Nat \ {0} /\ Faults \in Nat
    /\ FrameSpace \in Nat /\ FrameSpace > Capacity + 2

VARIABLES
    todo,     \* per thread, the actions drawn under the pipeline's lock
    posting,  \* per thread, a demand recorded and not yet posted
    built,    \* the sample queue: units to build
    admitted, \* the unit past the session's gate, not yet submitted
    jobs,     \* the handoff's serial queue
    handoff,  \* the renderer handoff and its policy
    session,  \* the session's episode, and its request on the way
    renderer, \* status, an owed failure notice, the newest sample handed over
    coming,   \* a key frame owed by the host, or on its way
    stream    \* the next frame number, what the client knows, faults left

videoVars == <<todo, posting, built, admitted, jobs, handoff, session, renderer,
          coming, stream>>
pipeline == <<todo, posting, built, admitted, jobs>>

Dispatchers == {"rx", "timer"}
Threads == Dispatchers \cup {"worker"}
None == FrameSpace    \* no frame number: nothing handed over since a flush
Stale == FrameSpace + 1 \* a number the stream has come round to again
Gone == [kind |-> "gone"]
Unit(n, key) == [kind |-> "unit", n |-> n, key |-> key]
NoUnit == Unit(None, FALSE)
Begin == [kind |-> "begin"]

VideoInit ==
    /\ todo = [t \in Threads |-> <<>>]
    /\ posting = [t \in Threads |-> FALSE]
    /\ built = <<>> /\ admitted = NoUnit /\ jobs = <<>>
    /\ handoff = [awaiting |-> FALSE, pending |-> FALSE, queue |-> <<>>,
                  flushing |-> FALSE, requesting |-> FALSE]
    /\ session = [open |-> FALSE, ask |-> FALSE]
    /\ renderer = [failed |-> FALSE, sick |-> FALSE, last |-> None,
                   broken |-> FALSE]
    /\ coming = TRUE
    /\ stream = [next |-> 0, joined |-> FALSE, primed |-> FALSE,
                 faults |-> Faults]

Spend == /\ stream.faults > 0
         /\ stream' = [stream EXCEPT !.faults = @ - 1]

------------------------------------------------------------------------------
(* The session's episode.                                                    *)

\* A demand opens the episode and its request leaves at once, or it joins
\* the open one, whose retry the cadence sends.
Demanded(s) == [open |-> TRUE, ask |-> s.ask \/ ~s.open]
Admits(unit) == ~session.open \/ unit.key

Retry ==
    /\ session.open /\ session' = [session EXCEPT !.ask = TRUE]
    /\ UNCHANGED <<pipeline, handoff, renderer, coming, stream>>

------------------------------------------------------------------------------
(* The host.  Causes coalesce into one key frame owed; a request that names  *)
(* an older frame than a key frame offered a moment ago is ignored, which is *)
(* here as good as lost.                                                     *)

HostHears ==
    /\ session.ask /\ ~coming
    /\ session' = [session EXCEPT !.ask = FALSE] /\ coming' = TRUE
    /\ UNCHANGED <<pipeline, handoff, renderer, stream>>

AskLost ==
    /\ session.ask /\ session' = [session EXCEPT !.ask = FALSE]
    /\ UNCHANGED <<pipeline, handoff, renderer, coming, stream>>

------------------------------------------------------------------------------
(* The assembler's frames, drawn by a dispatching thread under the           *)
(* pipeline's lock and acted on outside it.                                  *)

UnitsOf(s) == {s[i] : i \in {j \in DOMAIN s : s[j].kind = "unit"}}
InFlight == UNION {UnitsOf(todo[t]) : t \in Threads} \cup UnitsOf(built)
            \cup UnitsOf(jobs) \cup UnitsOf(handoff.queue)
            \cup ({admitted} \ {NoUnit})
Wrapped(n) == n % FrameSpace
Ahead(n) == \A u \in InFlight : u.n \notin {Wrapped(n), Wrapped(n + 1)}
\* A number comes round again: the renderer's newest is another frame.
Forget(n) == IF renderer.last = n THEN Stale ELSE renderer.last

Arrive(key) ==
    /\ todo["rx"] = <<>> /\ ~posting["rx"]
    /\ Cardinality(InFlight) < Capacity /\ Ahead(stream.next)
    /\ key => coming
    /\ ~stream.joined /\ coming => key
    /\ todo' = [todo EXCEPT !["rx"] = <<Unit(stream.next, key)>>]
    /\ coming' = (coming /\ ~key)
    /\ stream' = [stream EXCEPT !.next = Wrapped(@ + 1), !.joined = TRUE]
    /\ renderer' = [renderer EXCEPT !.last = Forget(stream.next)]
    /\ UNCHANGED <<posting, built, admitted, jobs, handoff, session>>

\* Frames are lost past repair; one that waited behind them follows in the
\* same batch, found by a datagram or by the eviction tick.
Skip(t, lostKey, key) ==
    LET n == Wrapped(stream.next + 1) IN
    /\ todo[t] = <<>> /\ ~posting[t] /\ stream.joined /\ stream.faults > 0
    /\ Cardinality(InFlight) < Capacity /\ Ahead(n) /\ Ahead(stream.next)
    /\ lostKey \/ key => coming
    /\ ~(lostKey /\ key)
    /\ todo' = [todo EXCEPT ![t] = <<Gone, Unit(n, key)>>]
    /\ coming' = (coming /\ ~lostKey /\ ~key)
    /\ stream' = [stream EXCEPT !.next = Wrapped(n + 1), !.faults = @ - 1]
    /\ renderer' = [renderer EXCEPT !.last =
                        IF @ \in {stream.next, n} THEN Stale ELSE @]
    /\ UNCHANGED <<posting, built, admitted, jobs, handoff, session>>

\* No datagram of the opening frame arrives: the assembler takes the lowest
\* frame it tracks for the first one, and nothing is skipped.
OpeningLost ==
    /\ ~stream.joined /\ coming /\ Spend
    /\ coming' = FALSE
    /\ UNCHANGED <<pipeline, handoff, session, renderer>>

\* A repair abandoned, or written off before its frame's turn.
Escalate(t) ==
    /\ todo[t] = <<>> /\ ~posting[t] /\ stream.joined /\ Spend
    /\ todo' = [todo EXCEPT ![t] = <<Gone>>]
    /\ UNCHANGED <<posting, built, admitted, jobs, handoff, session, renderer,
                   coming>>

Dispatch(t) ==
    /\ todo[t] # <<>> /\ ~posting[t]
    /\ todo' = [todo EXCEPT ![t] = Tail(@)]
    /\ \/ /\ Head(todo[t]) = Gone
          /\ session' = Demanded(session)
          /\ posting' = [posting EXCEPT ![t] = TRUE]
          /\ UNCHANGED built
       \/ /\ Head(todo[t]) # Gone
          /\ built' = Append(built, Head(todo[t]))
          /\ UNCHANGED <<session, posting>>
    /\ UNCHANGED <<admitted, jobs, handoff, renderer, coming, stream>>

\* The demand reaches the handoff's queue after it reached the session.
Post(t) ==
    /\ posting[t] /\ posting' = [posting EXCEPT ![t] = FALSE]
    /\ jobs' = Append(jobs, Begin)
    /\ UNCHANGED <<todo, built, admitted, handoff, session, renderer, coming,
                   stream>>

------------------------------------------------------------------------------
(* The worker: build, ask the session's gate, submit.                        *)

WorkerFree == todo["worker"] = <<>> /\ ~posting["worker"]
Withheld(unit) == ~unit.key /\ ~stream.primed

Build ==
    /\ WorkerFree /\ built # <<>> /\ admitted = NoUnit
    /\ LET unit == Head(built) IN
         /\ stream' = [stream EXCEPT !.primed = @ \/ unit.key]
         /\ admitted' = IF ~Withheld(unit) /\ Admits(unit) THEN unit
                                                           ELSE NoUnit
    /\ built' = Tail(built)
    /\ UNCHANGED <<todo, posting, jobs, handoff, session, renderer, coming>>

BuildFails ==
    /\ WorkerFree /\ built # <<>> /\ admitted = NoUnit /\ Spend
    /\ built' = Tail(built)
    /\ todo' = [todo EXCEPT !["worker"] = <<Gone>>]
    /\ UNCHANGED <<posting, admitted, jobs, handoff, session, renderer, coming>>

Submit ==
    /\ admitted # NoUnit /\ admitted' = NoUnit
    /\ jobs' = Append(jobs, admitted)
    /\ UNCHANGED <<todo, posting, built, handoff, session, renderer, coming,
                   stream>>

------------------------------------------------------------------------------
(* The handoff's policy, on the handoff, the session and the renderer.       *)

World == [h |-> handoff, s |-> session, r |-> renderer]
Becomes(w) == handoff' = w.h /\ session' = w.s /\ renderer' = w.r

\* An episode still waiting for its key frame has already asked; one whose
\* pending key frame was just lost asks again.
StartsRecovery(h) == ~h.awaiting \/ h.pending

\* The whole episode is discarded, the renderer flushed, and the gate awaits
\* a key frame: failEpisode and what the shell does with its outcome.
Void(w, asks) ==
    IF ~StartsRecovery(w.h) THEN w ELSE
    [w EXCEPT !.h = [@ EXCEPT !.awaiting = TRUE, !.pending = FALSE,
                              !.queue = <<>>, !.flushing = TRUE,
                              !.requesting = FALSE],
              !.s = IF asks THEN Demanded(@) ELSE @,
              !.r.last = None]

Offered(w, unit, stale) ==
    IF w.h.awaiting /\ ~w.h.pending
    THEN IF unit.key
         THEN [w EXCEPT !.h.pending = TRUE, !.h.queue = <<unit>>]
         ELSE w
    ELSE IF Len(w.h.queue) < Depth /\ (stale => w.h.queue = <<>>)
    THEN [w EXCEPT !.h.queue = Append(@, unit)]
    ELSE IF unit.key THEN [w EXCEPT !.h.queue = <<unit>>]
                     ELSE Void(w, TRUE)

Armed(w) == [w EXCEPT !.h.requesting =
                @ \/ (~w.h.flushing /\ w.h.queue # <<>>)]

\* Mutant: the handoff opens its gate and leaves the session's as it is.
BegunSilently(w) == Void(w, FALSE)
\* The session's demand: its episode is reopened if it closed meanwhile.
Begun(w) == Void(w, TRUE)

\* A key frame in hand answers the flush it trips.
Accepted(w, unit, debt, stale) ==
    LET fit == IF debt \/ w.r.failed THEN Void(w, ~unit.key) ELSE w IN
    Armed(Offered(fit, unit, stale))

Perform ==
    /\ jobs # <<>> /\ jobs' = Tail(jobs)
    /\ LET job == Head(jobs) IN
       \/ /\ job = Begin /\ Becomes(Begun(World))
          /\ UNCHANGED stream
       \/ /\ job # Begin
          /\ \/ /\ Becomes(Accepted(World, job, FALSE, FALSE))
                /\ UNCHANGED stream
             \/ /\ Spend
                /\ \E debt, stale \in BOOLEAN :
                     /\ debt \/ stale
                     /\ Becomes(Accepted(World, job, debt, stale))
    /\ UNCHANGED <<todo, posting, built, admitted, coming>>

\* The oldest entry outlives its deadline.
Expire ==
    /\ handoff.queue # <<>> /\ Spend
    /\ Becomes(Void(World, TRUE))
    /\ UNCHANGED <<pipeline, coming>>

------------------------------------------------------------------------------
(* The renderer.  A sample whose reference it was not given fails to decode, *)
(* as every one after it until a key frame.                                  *)

Follows(unit) == renderer.last < FrameSpace /\ unit.n = Wrapped(renderer.last + 1)

Enqueued(unit) ==
    LET broken == ~unit.key /\ (renderer.broken \/ ~Follows(unit)) IN
    [renderer EXCEPT !.last = unit.n, !.broken = broken,
                     !.sick = @ \/ broken]

\* Mutant: samples go on leaving the queue while the flush is outstanding.
DrainsDuringFlush == TRUE
MayDrain == ~handoff.flushing

\* The renderer asks for data, or the drain that follows a closed gate looks
\* once more.  One sample leaves for the renderer; a key frame that closes
\* the handoff's gate closes the session's episode.
Drain ==
    /\ MayDrain
    /\ \/ /\ renderer.failed
          /\ Becomes(Void(World, TRUE))
       \/ /\ ~renderer.failed /\ handoff.queue # <<>>
          /\ LET unit == Head(handoff.queue)
                 closes == unit.key /\ handoff.awaiting /\ handoff.pending
             IN /\ handoff' = [handoff EXCEPT
                       !.queue = Tail(@), !.awaiting = @ /\ ~closes,
                       !.requesting = @ /\ Tail(handoff.queue) # <<>>,
                       !.pending = @ /\ ~closes]
                /\ session' = [session EXCEPT !.open = @ /\ ~closes]
                /\ renderer' = Enqueued(unit)
       \/ /\ ~renderer.failed /\ handoff.queue = <<>>
          /\ handoff' = [handoff EXCEPT !.requesting = FALSE]
          /\ UNCHANGED <<session, renderer>>
    /\ UNCHANGED <<pipeline, coming, stream>>

\* Mutant: the renderer is not asked for data again.
FlushedUnarmed(w) == w
Rearmed(w) == Armed(w)

\* The flush's completion: what was handed over before it is gone.
CompleteFlush ==
    /\ handoff.flushing
    /\ Becomes(Rearmed([World EXCEPT !.h.flushing = FALSE, !.r.last = None,
                                     !.r.failed = FALSE]))
    /\ UNCHANGED <<pipeline, coming, stream>>

\* During a flush, or while the gate awaits its key frame, the failure is of
\* a discarded sample.
RendererFailedToDecode ==
    /\ renderer.sick
    /\ LET w == [World EXCEPT !.r.sick = FALSE] IN
       Becomes(IF handoff.flushing \/ handoff.awaiting THEN w
                                                       ELSE Void(w, TRUE))
    /\ UNCHANGED <<pipeline, coming, stream>>

DecodeFails ==
    /\ renderer.last # None /\ Spend
    /\ renderer' = [renderer EXCEPT !.sick = TRUE, !.broken = TRUE]
    /\ UNCHANGED <<pipeline, handoff, session, coming>>

RendererFails ==
    /\ ~renderer.failed /\ Spend
    /\ renderer' = [renderer EXCEPT !.failed = TRUE]
    /\ UNCHANGED <<pipeline, handoff, session, coming>>

------------------------------------------------------------------------------
VideoNext ==
    \/ Retry \/ HostHears \/ AskLost
    \/ \E key \in BOOLEAN : Arrive(key)
    \/ \E t \in Dispatchers, lostKey, key \in BOOLEAN : Skip(t, lostKey, key)
    \/ OpeningLost \/ Escalate("timer")
    \/ \E t \in Threads : Dispatch(t) \/ Post(t)
    \/ Build \/ BuildFails \/ Submit \/ Perform \/ Expire
    \/ Drain \/ CompleteFlush \/ RendererFailedToDecode
    \/ DecodeFails \/ RendererFails

VideoSpec == VideoInit /\ [][VideoNext]_videoVars

(* Queues and threads run, the cadence retries, the renderer takes samples,  *)
(* a key frame on its way arrives unless it is lost, and a request repeated  *)
(* for ever is heard.                                                        *)
Fairness ==
    /\ WF_videoVars(Retry) /\ SF_videoVars(HostHears) /\ SF_videoVars(Arrive(TRUE))
    /\ \A t \in Threads : WF_videoVars(Dispatch(t) \/ Post(t))
    /\ WF_videoVars(Build \/ Submit) /\ WF_videoVars(Perform)
    /\ SF_videoVars(handoff.requesting /\ Drain) /\ WF_videoVars(CompleteFlush)
    /\ WF_videoVars(RendererFailedToDecode)

VideoFairSpec == VideoSpec /\ Fairness

------------------------------------------------------------------------------
(* While the handoff awaits a key frame and holds none, the session's        *)
(* episode is open, so its request keeps retrying: two gates under two       *)
(* locks, each closed by the other's callbacks.                              *)
GateBacked == handoff.awaiting /\ ~handoff.pending => session.open

(* After a flush the renderer is handed nothing but a key frame: no P frame  *)
(* of a discarded episode, whichever thread was half way with it.            *)
FlushThenKey ==
    [][handoff.queue # <<>> /\ handoff'.queue = Tail(handoff.queue)
       /\ renderer.last = None /\ renderer'.last # None
       => Head(handoff.queue).key]_videoVars

(* When faults cease, neither gate stays shut and the renderer is not left   *)
(* with a broken chain.                                                      *)
Impaired == session.open \/ handoff.awaiting \/ renderer.broken
Recovers == Impaired ~> ~Impaired

(* Lost shards draw a repair or an IDR request (docs/PROTOCOL.md:335): a     *)
(* session whose opening frame is lost still gets a picture.                 *)
Lights == <>(renderer.last # None)
==============================================================================
