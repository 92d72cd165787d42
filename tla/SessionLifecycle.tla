-------------------------- MODULE SessionLifecycle --------------------------
(***************************************************************************)
(* One session's two lifecycle machines, the host's behind its             *)
(* SessionLifecycleLane and the client's behind ClientSessionLifecycle and *)
(* ClientControlSession, over a path that comes and goes.                  *)
(*                                                                         *)
(* Words of the ordered streams arrive in order, each once (ArqStream      *)
(* shows it); any other datagram is evidence at the instant it arrives.    *)
(* An end that closed sends no more evidence.                              *)
(***************************************************************************)
EXTENDS SessionStateMachine, SequencesExt

CONSTANTS
  HostConfig,    \* the host machine's SessionMachineConfig
  ClientConfig,  \* ClientControlSession.baselineMachineConfig
  Tightened,     \* tightenedBlackoutSilenceMicroseconds
  Ratchet,       \* the host feeds damage and convergence; v1 hosts do not
  MaxWords,      \* bound: words in flight on one stream
  MaxFrames      \* bound: final frames of one session

ASSUME SessionAssumption ==
  /\ HostConfig \in Configs(Nat \ {0}) /\ ClientConfig \in Configs(Nat \ {0})
  /\ HostConfig.recovery >= HostConfig.blackout
  /\ Tightened \in Nat \ {0} /\ Ratchet \in BOOLEAN
  /\ MaxWords \in Nat \ {0} /\ MaxFrames \in Nat

VARIABLES
  host,      \* SessionLifecycleLane.machine
  deadline,  \* nextDeadlineNanoseconds, as time left; None when nil
  client,    \* ClientSessionLifecycle.machine
  toClient,  \* words on the host's ordered stream, oldest first
  toHost,    \* words on the client's ordered stream
  path,      \* datagrams get through
  frames,    \* final frames: sent, held by the client, acknowledged
  trace      \* history: video frozen by the actions, age of RECOVERY,
             \* media sent since the host last heard of media

vars == <<host, deadline, client, toClient, toHost, path, frames, trace>>

Init ==
  /\ host = Machine("mediaSender", HostConfig) /\ deadline = None
  /\ client = Machine("mediaReceiver", ClientConfig)
  /\ toClient = << >> /\ toHost = << >> /\ path = TRUE
  /\ frames = [sent |-> 0, held |-> {}, acked |-> {}]
  /\ trace = [recovering |-> None, owed |-> FALSE]

-----------------------------------------------------------------------------
(* The host.                                                               *)

\* The words the actions put on the ordered stream, each as it is executed: a
\* SelectSeq, in a form that can be reasoned about.
ModeOf == [modeActive |-> "active", modeIdle |-> "idle"]
Words(actions) ==
  LET sent[n \in 0 .. Len(actions)] ==
        IF n = 0 THEN << >>
        ELSE IF actions[n] \in DOMAIN ModeOf \cup {"teardown"}
          THEN Append(sent[n - 1], actions[n])
        ELSE sent[n - 1]
  IN sent[Len(actions)]

Count(action, actions) == Cardinality({i \in DOMAIN actions : actions[i] = action})

\* One drive of the lane and the execution of what it returns: the outcome of
\* an input, then the timers at the same instant.
HostHears(outcome, owed) ==
  \E heard \in {outcome} : \E o \in {Advance(heard, 0)} :
    /\ host' = o.machine
    /\ deadline' = NextDeadline(o.machine)
    /\ Len(toClient \o Words(o.actions)) <= MaxWords
    /\ toClient' = toClient \o Words(o.actions)
    /\ trace' = [trace EXCEPT
         !.recovering = IF o.machine.state # "recovery" THEN None
                        ELSE IF host.state # "recovery" THEN 0 ELSE @,
         !.owed = owed]

HostRuns(outcome) == HostHears(outcome, trace.owed)

\* A handler of several inputs polls after each.
Then(outcome, Input(_)) ==
  LET polled == Advance(outcome, 0)
      next == Input(polled.machine)
  IN Outcome(next.machine, polled.actions \o next.actions)

\* advance: the timer, when shouldService.
ShouldService == host.state # "closed" /\ deadline \in {None, 0}

HostTimer ==
  /\ ShouldService
  /\ HostRuns(Ignored(host))
  /\ UNCHANGED <<client, toHost, path, frames>>

\* The windows one feedback datagram closes, judged in turn: two at most here.
Judged(outcome, clean) == Then(outcome, LAMBDA m : FeedbackWindow(m, clean))
JudgedInTurn(outcome, windows) ==
  CASE Len(windows) = 0 -> outcome
    [] Len(windows) = 1 -> Judged(outcome, windows[1])
    [] OTHER -> Judged(Judged(outcome, windows[1]), windows[2])

\* A feedback datagram: media evidence, then the windows the estimator judged,
\* which it judges only in RECOVERY.
HostFeedback(windows) ==
  LET heard == MediaPathEvidence(host, 0)
  IN /\ path /\ client.state # "closed"
     /\ windows # << >> => Advance(heard, 0).machine.state = "recovery"
     /\ HostHears(JudgedInTurn(heard, windows), FALSE)
     /\ UNCHANGED <<client, toHost, path, frames>>

\* An authenticated CTRL datagram that carries no new word of the stream.
HostCtrl ==
  /\ path /\ client.state # "closed"
  /\ HostRuns(CtrlEvidence(host))
  /\ UNCHANGED <<client, toHost, path, frames>>

\* A CTRL datagram with the next word of the client's stream.
HostWord ==
  LET word(m) == IF Head(toHost) = "input" THEN PreArmInput(m)
                 ELSE TeardownMessage(m)
  IN /\ path /\ toHost # << >>
     /\ HostRuns(Then(CtrlEvidence(host), word))
     /\ toHost' = Tail(toHost)
     /\ UNCHANGED <<client, path, frames>>

\* Fault: a send starts the bar but not the timer.
HostSendsUnarmed(media) ==
  /\ media = "video" => host.state \notin {"frozen", "closed"}
  /\ host.state # "closed"
  /\ host' = MediaSent(host).machine
  /\ deadline' = deadline
  /\ trace' = [trace EXCEPT !.owed = TRUE]
  /\ UNCHANGED <<client, toClient, toHost, path, frames>>

\* A video frame or an audio packet is committed: videoSendsSuppressed,
\* audioSendsSuppressed and noteMediaSent.
HostSends(media) ==
  /\ media = "video" => host.state \notin {"frozen", "closed"}
  /\ host.state # "closed"
  /\ host' = MediaSent(host).machine
  /\ deadline' = NextDeadline(host')
  /\ trace' = [trace EXCEPT !.owed = TRUE]
  /\ UNCHANGED <<client, toClient, toHost, path, frames>>

\* beginTeardown.
HostTeardown ==
  /\ host.state # "closed"
  /\ HostRuns(TeardownRequest(host))
  /\ UNCHANGED <<client, toHost, path, frames>>

\* The inputs a host with a convergence ratchet feeds.
HostDamage ==
  /\ Ratchet
  /\ HostRuns(Damage(host))
  /\ UNCHANGED <<client, toHost, path, frames>>

HostConverges ==
  LET run == RatchetConverged(host)
  IN /\ Ratchet /\ frames.sent < MaxFrames
     /\ HostRuns(run)
     /\ frames' = [frames EXCEPT !.sent = @ + Count("finalFrame", run.actions)]
     /\ UNCHANGED <<client, toHost, path>>

\* A final frame's one-shot group is fully acknowledged, on a CTRL datagram.
HostFrameAcked(f) ==
  /\ path /\ f \in frames.held \ frames.acked
  /\ HostRuns(Then(CtrlEvidence(host), FinalFrameAcknowledged))
  /\ frames' = [frames EXCEPT !.acked = @ \cup {f}]
  /\ UNCHANGED <<client, toHost, path>>

-----------------------------------------------------------------------------
(* The client.                                                             *)

ClientRuns(outcome) ==
  \E heard \in {outcome} : \E o \in {Advance(heard, 0)} :
    /\ client' = o.machine
    /\ Len(toHost \o Words(o.actions)) <= MaxWords
    /\ toHost' = toHost \o Words(o.actions)

\* machineBeat with nothing stamped.
ClientBeat ==
  /\ LivenessDue(client, 0) \/ SilenceDue(client, 0)
  /\ ClientRuns(Ignored(client))
  /\ UNCHANGED <<host, deadline, toClient, path, frames, trace>>

\* Any other authenticated datagram: audio, an announced quiet, the rest.
Carried == {"audio", "quiet", "other"}
ClientDatagram(carried) ==
  LET tight == [ClientConfig EXCEPT !.blackout = Tightened]
      heard == Redetected(client, carried, ClientConfig, tight)
  IN /\ path /\ host.state # "closed"
     /\ ClientRuns(MediaPathEvidence(heard, 0))
     /\ UNCHANGED <<host, deadline, toClient, path, frames, trace>>

\* receiveReliable.
WordApplied(m, word) ==
  IF word = "teardown" THEN TeardownMessage(m) ELSE ModeMessage(m, ModeOf[word])

\* A CTRL datagram with the next word of the host's stream: dispatched, then
\* stamped as evidence.
ClientWord ==
  /\ path /\ toClient # << >>
  /\ ClientRuns(Then(WordApplied(client, Head(toClient)),
                     LAMBDA m : MediaPathEvidence(m, 0)))
  /\ toClient' = Tail(toClient)
  /\ UNCHANGED <<host, deadline, path, frames, trace>>

\* A final frame arrives.
ClientFrame(f) ==
  /\ path /\ client.state # "closed" /\ f \in 1 .. frames.sent \ frames.held
  /\ ClientRuns(MediaPathEvidence(client, 0))
  /\ frames' = [frames EXCEPT !.held = @ \cup {f}]
  /\ UNCHANGED <<host, deadline, toClient, path, trace>>

\* sendInput: never gated on wire mode or FROZEN.
ClientInput ==
  /\ client.state # "closed" /\ Len(toHost) < MaxWords
  /\ toHost' = Append(toHost, "input")
  /\ UNCHANGED <<host, deadline, client, toClient, path, frames, trace>>

ClientTeardown ==
  /\ client.state # "closed"
  /\ ClientRuns(TeardownRequest(client))
  /\ UNCHANGED <<host, deadline, toClient, path, frames, trace>>

-----------------------------------------------------------------------------
(* Path and time.                                                          *)

PathChanges ==
  /\ path' = ~path
  /\ UNCHANGED <<host, deadline, client, toClient, toHost, frames, trace>>

\* Time passes while someone's clock can still tell.
Tick ==
  /\ host' = Older(host) /\ client' = Older(client)
  /\ deadline' = IF deadline > 0 THEN deadline - 1 ELSE deadline
  /\ trace' = [trace EXCEPT !.recovering =
       IF @ = None \/ @ >= HostConfig.recovery THEN @ ELSE @ + 1]
  /\ UNCHANGED <<toClient, toHost, path, frames>>

Evidence ==
  \/ \E windows \in BoundedSeq(BOOLEAN, 2) : HostFeedback(windows)
  \/ HostCtrl
  \/ \E carried \in Carried : ClientDatagram(carried)

Next ==
  \/ Evidence \/ HostWord \/ ClientWord \/ HostTimer \/ ClientBeat
  \/ \E media \in {"video", "audio"} : HostSends(media)
  \/ HostTeardown \/ HostDamage \/ HostConverges
  \/ \E f \in 1 .. MaxFrames : HostFrameAcked(f) \/ ClientFrame(f)
  \/ ClientInput \/ ClientTeardown
  \/ PathChanges \/ Tick

Spec == Init /\ [][Next]_vars

\* The host's loop wakes at its deadline, the client beats every 100 ms, time
\* passes, and each end's 1 Hz beacon or echo gets through an open path.
FairSpec ==
  /\ Spec /\ WF_vars(HostTimer) /\ WF_vars(ClientBeat) /\ WF_vars(Tick)
  /\ WF_vars(HostCtrl) /\ WF_vars(ClientDatagram("other"))

-----------------------------------------------------------------------------
(* Properties.                                                             *)

Machines(role) ==
  [role : {role}, config : Configs(Nat), state : States, wireMode : WireModes,
   preArmed : BOOLEAN, awaiting : BOOLEAN, clean : Nat,
   mediaAge : Nat, peerAge : Nat, owedAge : Nat \cup {None}]

\* The overlay and the flags sit where the machine's fields say: FROZEN and
\* RECOVERY over a wire mode, RECOVERY over ACTIVE only, a pre-arm held only
\* until RECOVERY's IDR consumes it, a pending idle flip dead with the path.
OverlayOnWireMode ==
  /\ \A m \in {host, client} : m.state \in WireModes => m.wireMode = m.state
  /\ host.state = "recovery" => host.wireMode = "active"
  /\ host.preArmed => host.state \in {"frozen", "closed"}
  /\ host.awaiting => host.state \in {"active", "recovery", "closed"}

\* Both machines, the lane, the queues and the frames are well formed.
TypeOK ==
  /\ OverlayOnWireMode
  /\ host \in Machines("mediaSender") /\ client \in Machines("mediaReceiver")
  /\ host.clean < HostConfig.cleanWindows
  /\ deadline \in Nat \cup {None} /\ path \in BOOLEAN
  /\ toClient \in Seq({"modeActive", "modeIdle", "teardown"})
  /\ toHost \in Seq({"input", "teardown"})
  /\ frames.acked \subseteq frames.held /\ frames.held \subseteq 1 .. frames.sent

\* The mode that words leave their reader in.
ModeAfter(words, mode) ==
  LET modes == {i \in DOMAIN words : words[i] \in DOMAIN ModeOf}
  IN IF modes = {} THEN mode ELSE ModeOf[words[Max(modes)]]

\* Whatever freezes, thaws and flips happen at either end, the last mode word
\* on its way, or else the client's own mode, is the mode the host is in.
ModesAgree ==
  client.state # "closed" => host.wireMode = ModeAfter(toClient, client.wireMode)

\* The lane's timer is never later than what the machine's clocks owe: a
\* poll that would freeze or close is a poll that shouldService runs.
DeadlineNeverLate ==
  host.state # "closed" /\ (LivenessDue(host, 0) \/ SilenceDue(host, 0))
    => ShouldService

\* RECOVERY does not fall back into FROZEN before its forced IDR has had the
\* longer bar to earn feedback, unless an idle flip ended it first.
RecoveryGrace ==
  [][host.state = "recovery" /\ host'.state = "frozen"
         /\ host'.wireMode = "active"
       => trace.recovering >= HostConfig.recovery]_vars

\* A sender that sent nothing is owed nothing: under the send-anchored bar a
\* still screen never freezes.
StillScreenNeverFreezes ==
  [][HostConfig.fromSend /\ host.state # "frozen" /\ host'.state = "frozen"
       => trace.owed]_vars

\* The host freezes only on a silence that means something: one that was owed
\* an answer, and after a recovery that had its grace.
FreezesJustly == RecoveryGrace /\ StillScreenNeverFreezes

\* A path that goes dark for good closes both ends, whatever they still send.
DarkPathCloses ==
  <>[](~path) => <>(host.state = "closed" /\ client.state = "closed")

\* An end that closes takes the other with it, by its teardown or, that lost,
\* by the liveness clock.
CloseSpreads ==
  /\ host.state = "closed" ~> client.state = "closed"
  /\ client.state = "closed" ~> host.state = "closed"

\* Evidence on an open path thaws a frozen end.
Thaws ==
  /\ (host.state = "frozen" /\ path) ~> (host.state # "frozen" \/ ~path)
  /\ (client.state = "frozen" /\ path) ~> (client.state # "frozen" \/ ~path)

\* SessionLifecycle.swift: "The receiver therefore always holds the converged
\* frame before it learns the session went idle."
ConvergedFrameHeld == host.wireMode = "idle" => frames.sent \in frames.held
=============================================================================
