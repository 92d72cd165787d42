------------------------ MODULE ClientLifecycleEdges ------------------------
(***************************************************************************)
(* The threads of LyteUdpSessionCore.swift around the client's lifecycle   *)
(* machine: the receive thread, the 100 ms beat and the owner's thread     *)
(* decide under `lock` and execute after releasing it; evidence is stamped *)
(* in an atomic the beat reads, and machineFrozen routes a datagram to the *)
(* machine at once.  A step is what happens between two points where       *)
(* another thread may run.                                                 *)
(*                                                                         *)
(* Only decisions with an edge take a ticket here: the code numbers all of *)
(* them and looks at the number of those only.                             *)
(***************************************************************************)
EXTENDS SessionStateMachine

CONSTANTS
  Config,            \* the machine's SessionMachineConfig
  TightenedBlackout, \* its blackout bar once audio arrives
  Kinds,             \* what datagrams carry: a word, audio, an announced
                     \* quiet, or "other"
  MaxDatagrams       \* bound: datagrams of one session

ASSUME EdgesAssumption ==
  /\ Config \in Configs(Nat \ {0}) /\ TightenedBlackout \in Nat \ {0}
  /\ Kinds \subseteq WireModes \cup {"teardown", "audio", "quiet", "other"}
  /\ MaxDatagrams \in Nat

Threads == {"receive", "beat", "owner"}

VARIABLES
  machine,   \* ClientSessionLifecycle.machine
  reported,  \* reportedState and reportedWireMode
  frozen,    \* machineFrozen
  stamp,     \* lastEvidenceMicros: its number and age
  fed,       \* lastFedEvidenceMicros: the number of the stamp fed last
  issued,    \* lifecycleTicketsIssued
  delivered, \* lifecycleEdgeDelivered
  thread,    \* each thread: its next step, the decision it executes, and the
             \* instant (as an age) and stamp it took
  owner      \* what onEvent has told the owner

edgesVars == <<machine, reported, frozen, stamp, fed, issued, delivered, thread, owner>>

View(m) == [state |-> m.state, wireMode |-> m.wireMode]

NoDecision == [ticket |-> 0, state |-> "none", wireMode |-> "none", closes |-> FALSE]

Resting == [next |-> "rest", then |-> "rest", decision |-> NoDecision,
            took |-> [number |-> 0, age |-> 0], now |-> 0]

EdgesInit ==
  /\ machine = Machine("mediaReceiver", Config)
  /\ reported = View(machine) /\ frozen = FALSE
  /\ stamp = [number |-> 0, age |-> 0] /\ fed = 0
  /\ issued = 0 /\ delivered = 0
  /\ thread = [t \in Threads |-> Resting]
  /\ owner = [state |-> machine.state, wireMode |-> machine.wireMode, closes |-> 0]

-----------------------------------------------------------------------------
(* Deciding and executing.                                                 *)

Changed(old, new) == IF new = old THEN "none" ELSE new

\* issueLifecycleTicketLocked.
Issued(edge) == IF edge THEN issued + 1 ELSE issued

\* A decision: apply, poll, the edges against what was reported, a ticket.
\* Thread t executes it next and then goes on to `then`.
Decide(t, outcome, then) ==
  \E o \in {outcome} :
    LET state == Changed(reported.state, o.machine.state)
        mode == Changed(reported.wireMode, o.machine.wireMode)
        edge == state # "none" \/ mode # "none"
    IN /\ machine' = o.machine
       /\ reported' = View(o.machine)
       /\ frozen' = (o.machine.state = "frozen")
       /\ issued' = Issued(edge)
       /\ thread' = [thread EXCEPT
            ![t].next = "execute", ![t].then = then,
            ![t].decision =
              [ticket |-> IF edge THEN Issued(edge) ELSE 0,
               state |-> state, wireMode |-> mode,
               closes |-> \E i \in DOMAIN o.actions : o.actions[i] = "closed"]]

Goes(t, step) ==
  thread' = [thread EXCEPT ![t] =
    IF step = "rest" THEN Resting
    ELSE [@ EXCEPT !.next = step, !.then = "rest", !.decision = NoDecision]]

\* Fault: edges are delivered whenever they come.
TellsAlways(d) == d.ticket > 0

\* The edges of a decision are delivered unless newer ones were.
Tells(d) == d.ticket > delivered

\* executeLifecycle: the effects always run, the edges if still current.
Execute(t) ==
  LET d == thread[t].decision
      told(old, new) == IF Tells(d) /\ new # "none" THEN new ELSE old
  IN /\ thread[t].next = "execute"
     /\ owner' = [state |-> told(owner.state, d.state),
                  wireMode |-> told(owner.wireMode, d.wireMode),
                  closes |-> owner.closes + (IF d.closes THEN 1 ELSE 0)]
     /\ delivered' = IF Tells(d) THEN d.ticket ELSE delivered
     /\ Goes(t, thread[t].then)
     /\ UNCHANGED <<machine, reported, frozen, stamp, fed, issued>>

-----------------------------------------------------------------------------
(* The receive thread.                                                     *)

\* The first audio datagram rebuilds the machine around the tightened bar, an
\* announced quiet around the baseline, under the lock, the edges left to the
\* next decision.
TightConfig == [Config EXCEPT !.blackout = TightenedBlackout]

\* handleDatagram: dispatch of what the datagram carries.
Receive(kind) ==
  /\ thread["receive"].next = "rest" /\ stamp.number < MaxDatagrams
  /\ \/ /\ kind \in WireModes
        /\ Decide("receive", Advance(ModeMessage(machine, kind), 0), "stamp")
     \/ /\ kind = "teardown"
        /\ Decide("receive", Advance(TeardownMessage(machine), 0), "stamp")
     \/ /\ kind \in {"audio", "quiet", "other"}
        /\ machine' = Redetected(machine, kind, Config, TightConfig)
        /\ Goes("receive", "stamp")
        /\ UNCHANGED <<reported, frozen, issued>>
  /\ UNCHANGED <<stamp, fed, delivered, owner>>

\* Its arrival is stamped, at the instant the handler took first.
Stamp ==
  /\ thread["receive"].next = "stamp"
  /\ stamp' = [number |-> stamp.number + 1, age |-> thread["receive"].now]
  /\ Goes("receive", "route")
  /\ UNCHANGED <<machine, reported, frozen, fed, issued, delivered, owner>>

\* machineFrozen is read: a frozen machine hears of the datagram at once.
Route ==
  /\ thread["receive"].next = "route"
  /\ IF frozen
       THEN LET behind == thread["receive"].now IN
              Decide("receive",
                     Advance(MediaPathEvidence(machine, behind), behind), "rest")
       ELSE /\ Goes("receive", "rest")
            /\ UNCHANGED <<machine, reported, frozen, issued>>
  /\ UNCHANGED <<stamp, fed, delivered, owner>>

-----------------------------------------------------------------------------
(* The beat.                                                               *)

\* machineBeat: the instant and the stamp are taken.
Beat ==
  /\ thread["beat"].next = "rest"
  /\ thread' = [thread EXCEPT !["beat"].next = "compare",
                              !["beat"].took = stamp, !["beat"].now = 0]
  /\ UNCHANGED <<machine, reported, frozen, stamp, fed, issued, delivered, owner>>

\* Fault: a frozen machine is left to the route.
CompareUnlessFrozen ==
  /\ thread["beat"].next = "compare"
  /\ LET fresh == thread["beat"].took.number > fed /\ ~frozen
     IN /\ fed' = IF fresh THEN thread["beat"].took.number ELSE fed
        /\ Goes("beat", IF fresh THEN "feed" ELSE "poll")
  /\ UNCHANGED <<machine, reported, frozen, stamp, issued, delivered, owner>>

\* Under the lock, a stamp newer than the one fed last is marked fed.
Compare ==
  /\ thread["beat"].next = "compare"
  /\ LET took == thread["beat"].took.number
     IN /\ fed' = IF took > fed THEN took ELSE fed
        /\ Goes("beat", IF took > fed THEN "feed" ELSE "poll")
  /\ UNCHANGED <<machine, reported, frozen, stamp, issued, delivered, owner>>

\* It is fed at the instant it arrived.
Feed ==
  /\ thread["beat"].next = "feed"
  /\ LET behind == thread["beat"].took.age
     IN Decide("beat", Advance(MediaPathEvidence(machine, behind), behind), "poll")
  /\ UNCHANGED <<stamp, fed, delivered, owner>>

\* Then the timers are polled at the instant the beat took.
PollTimers ==
  /\ thread["beat"].next = "poll"
  /\ Decide("beat", Poll(machine, thread["beat"].now), "rest")
  /\ UNCHANGED <<stamp, fed, delivered, owner>>

-----------------------------------------------------------------------------
(* The owner and time.                                                     *)

\* beginTeardown, as often as the owner asks.
Teardown ==
  /\ thread["owner"].next = "rest"
  /\ Decide("owner", Advance(TeardownRequest(machine), 0), "rest")
  /\ UNCHANGED <<stamp, fed, delivered, owner>>

EdgesTick ==
  LET grown(age) == IF age >= Config.liveness THEN age ELSE age + 1
  IN /\ machine' = Older(machine)
     /\ stamp' = [stamp EXCEPT !.age = grown(@)]
     /\ thread' = [t \in Threads |->
          IF thread[t].next = "rest" THEN thread[t]
          ELSE [thread[t] EXCEPT !.took.age = grown(@), !.now = grown(@)]]
     /\ UNCHANGED <<reported, frozen, fed, issued, delivered, owner>>

BeatStep == Beat \/ Compare \/ Feed \/ PollTimers
ReceiveStep == Stamp \/ Route

EdgesNext ==
  \/ \E kind \in Kinds : Receive(kind)
  \/ ReceiveStep \/ BeatStep \/ Teardown \/ EdgesTick
  \/ \E t \in Threads : Execute(t)

EdgesSpec == EdgesInit /\ [][EdgesNext]_edgesVars

\* Every thread that has a step runs, and the beat's timer repeats.
EdgesFairSpec ==
  /\ EdgesSpec /\ WF_edgesVars(ReceiveStep) /\ WF_edgesVars(BeatStep)
  /\ \A t \in Threads : WF_edgesVars(Execute(t))

-----------------------------------------------------------------------------
(* Properties.                                                             *)

Decisions ==
  [ticket : 0 .. issued, state : States \cup {"none"},
   wireMode : WireModes \cup {"none"}, closes : BOOLEAN]

\* The tickets of pending decisions are distinct.
EdgesTypeOK ==
  /\ machine.state \in States /\ reported.state \in States /\ frozen \in BOOLEAN
  /\ fed \in 0 .. stamp.number /\ delivered \in 0 .. issued
  /\ \A t \in Threads : thread[t].decision \in Decisions
  /\ \A t, u \in Threads :
       t # u /\ thread[t].decision.ticket > 0
         => thread[t].decision.ticket # thread[u].decision.ticket

Settled == \A t \in Threads : thread[t].decision = NoDecision

\* However the threads interleave, once every decision was executed the owner
\* knows the state the last one left, and no edge told it an older one last.
OwnerSeesState == Settled => owner.state = reported.state

\* The owner hears of the close once, and last: no edge follows CLOSED.
ClosedOnce ==
  /\ owner.closes <= 1
  /\ Settled /\ machine.state = "closed" => owner.closes = 1

\* A datagram that arrives around the freezing beat is not lost: if the route
\* missed it, a later beat feeds it, and the machine leaves FROZEN.
HeardThaws ==
  (machine.state = "frozen" /\ stamp.number > fed) ~> machine.state # "frozen"

\* Between beats every stamp marked fed has reached the machine: its silence
\* is never counted from before the newest datagram.
StampsReachMachine ==
  fed > 0 /\ fed = stamp.number /\ thread["beat"].next # "feed"
      /\ machine.state # "closed"
    => machine.mediaAge <= stamp.age
=============================================================================
