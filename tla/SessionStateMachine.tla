------------------------- MODULE SessionStateMachine -------------------------
(***************************************************************************)
(* SessionStateMachine.swift: the lifecycle core both ends run, as pure    *)
(* operators from a machine to its outcome, the machine after the input    *)
(* and the actions it asks of its shell.                                   *)
(*                                                                         *)
(* The code keeps instants and compares their distance from now; a machine *)
(* here keeps the distances, as ages that Older advances.  An input may be *)
(* applied at an instant `behind` the present, as the client's beat does.  *)
(***************************************************************************)
EXTENDS Integers, Sequences

Roles == {"mediaSender", "mediaReceiver"}
States == {"active", "idle", "frozen", "recovery", "closed"}
WireModes == {"active", "idle"}

\* An age that is not running: the optional instants of the code.
None == -1

\* SessionMachineConfig: the blackout bars of the wire modes and of RECOVERY,
\* the liveness timeout, the clean windows that recover, and whether silence
\* counts from an unanswered send.
Configs(Bar) ==
  [blackout : Bar, recovery : Bar, liveness : Bar, cleanWindows : Bar,
   fromSend : BOOLEAN]

\* init: streaming, both evidence clocks fresh.
Machine(role, config) ==
  [role |-> role, config |-> config, state |-> "active", wireMode |-> "active",
   preArmed |-> FALSE, awaiting |-> FALSE, clean |-> 0,
   mediaAge |-> 0, peerAge |-> 0, owedAge |-> None]

\* One unit of time passes; ages past every bar are not told apart.
Older(m) ==
  LET grown(age) == IF age = None \/ age >= m.config.liveness
                    THEN age ELSE age + 1
  IN [m EXCEPT !.mediaAge = grown(@), !.peerAge = grown(@),
               !.owedAge = grown(@)]

Outcome(m, actions) == [machine |-> m, actions |-> actions]
Ignored(m) == Outcome(m, << >>)

\* An input counts only while its guard holds and the machine is open.
Where(guard, m, outcome) ==
  IF m.state # "closed" /\ guard THEN outcome ELSE Ignored(m)

IsSender(m) == m.role = "mediaSender"

-----------------------------------------------------------------------------
(* Transitions.                                                            *)

\* Fault: the mode word is not sent.
WakeSilently(m) ==
  Outcome([m EXCEPT !.state = "active", !.wireMode = "active"], <<"armIdr">>)

\* wake.
Wake(m) ==
  Outcome([m EXCEPT !.state = "active", !.wireMode = "active"],
          <<"modeActive", "armIdr">>)

Close(m, actions) ==
  Outcome([m EXCEPT !.state = "closed"], actions \o <<"closed">>)

\* Fault: the send owed from before the blackout stays owed.
ExitFrozenOwing(m, behind) ==
  IF m.state # "frozen" THEN Ignored(m)
  ELSE IF ~IsSender(m) THEN
    Outcome([m EXCEPT !.mediaAge = behind, !.state = m.wireMode], << >>)
  ELSE
    Outcome([m EXCEPT !.mediaAge = behind,
                      !.state = "recovery", !.wireMode = "active",
                      !.clean = 0, !.preArmed = FALSE],
            <<"resume">> \o (IF m.wireMode = "idle" THEN <<"modeActive">>
                             ELSE << >>) \o <<"forceIdr">>)

\* exitFrozenIfNeeded.
ExitFrozen(m, behind) ==
  IF m.state # "frozen" THEN Ignored(m)
  ELSE IF ~IsSender(m) THEN
    Outcome([m EXCEPT !.mediaAge = behind, !.owedAge = None,
                      !.state = m.wireMode], << >>)
  ELSE
    Outcome([m EXCEPT !.mediaAge = behind, !.owedAge = None,
                      !.state = "recovery", !.wireMode = "active",
                      !.clean = 0, !.preArmed = FALSE],
            <<"resume">> \o (IF m.wireMode = "idle" THEN <<"modeActive">>
                             ELSE << >>) \o <<"forceIdr">>)

-----------------------------------------------------------------------------
(* apply, one operator per input.                                          *)

\* Fault: evidence does not answer the send.
MediaPathEvidenceUnanswering(m, behind) ==
  Where(TRUE, m, ExitFrozen([m EXCEPT !.mediaAge = behind, !.peerAge = behind],
                            behind))

MediaPathEvidence(m, behind) ==
  Where(TRUE, m, ExitFrozen([m EXCEPT !.mediaAge = behind, !.peerAge = behind,
                                      !.owedAge = None], behind))

\* Fault: CTRL feeds the liveness clock and does not thaw.
CtrlEvidenceUnthawing(m) == Where(TRUE, m, Ignored([m EXCEPT !.peerAge = 0]))

CtrlEvidence(m) == Where(TRUE, m, ExitFrozen([m EXCEPT !.peerAge = 0], 0))

\* Fault: sending counts as hearing from the peer.
MediaSentAsEvidence(m) ==
  Where(IsSender(m), m, Ignored([m EXCEPT !.peerAge = 0]))

MediaSent(m) ==
  Where(IsSender(m) /\ m.config.fromSend /\ m.owedAge = None, m,
        Ignored([m EXCEPT !.owedAge = 0]))

FeedbackWindow(m, clean) ==
  Where(IsSender(m) /\ m.state = "recovery", m, Ignored(
    IF ~clean THEN [m EXCEPT !.clean = 0]
    ELSE IF m.clean + 1 >= m.config.cleanWindows
      THEN [m EXCEPT !.state = "active", !.clean = 0]
    ELSE [m EXCEPT !.clean = @ + 1]))

PreArmInput(m) ==
  Where(IsSender(m) /\ m.state \in {"idle", "frozen"}, m,
        IF m.state = "idle" THEN Wake(m)
        ELSE Ignored([m EXCEPT !.preArmed = TRUE]))

Damage(m) ==
  Where(IsSender(m) /\ m.state # "frozen", m,
        IF m.state = "idle" THEN Wake(m)
        ELSE Ignored([m EXCEPT !.awaiting = FALSE]))

RatchetConverged(m) ==
  Where(IsSender(m) /\ m.state \in {"active", "recovery"}, m,
        Outcome([m EXCEPT !.awaiting = TRUE], <<"finalFrame">>))

FinalFrameAcknowledged(m) ==
  Where(IsSender(m) /\ m.awaiting /\ m.state \in {"active", "recovery"}, m,
        Outcome([m EXCEPT !.awaiting = FALSE, !.state = "idle",
                          !.wireMode = "idle", !.clean = 0], <<"modeIdle">>))

ModeMessage(m, mode) ==
  Where(~IsSender(m), m,
        Ignored([m EXCEPT !.peerAge = 0, !.wireMode = mode, !.state = mode,
                          !.mediaAge = IF m.state = "frozen" THEN 0 ELSE @]))

TeardownMessage(m) == Where(TRUE, m, Close(m, << >>))

TeardownRequest(m) == Where(TRUE, m, Close(m, <<"teardown">>))

-----------------------------------------------------------------------------
(* Timers.                                                                 *)

\* silenceAnchor, as an age; None when nothing is owed.
SilenceAge(m) ==
  IF m.config.fromSend /\ IsSender(m) THEN m.owedAge ELSE m.mediaAge

\* silenceLimitMicroseconds, None where there is no bar.
SilenceLimit(m) ==
  IF m.state \in WireModes THEN m.config.blackout
  ELSE IF m.state = "recovery" THEN m.config.recovery
  ELSE None

LivenessDue(m, behind) == m.peerAge - behind >= m.config.liveness

SilenceDue(m, behind) ==
  /\ SilenceLimit(m) # None /\ SilenceAge(m) # None
  /\ SilenceAge(m) - behind >= SilenceLimit(m)

\* poll.
Poll(m, behind) ==
  IF m.state = "closed" THEN Ignored(m)
  ELSE IF LivenessDue(m, behind) THEN Close(m, << >>)
  ELSE IF SilenceDue(m, behind)
    THEN Outcome([m EXCEPT !.awaiting = FALSE, !.state = "frozen"],
                 IF IsSender(m) THEN <<"freeze">> ELSE << >>)
  ELSE Ignored(m)

\* timerDeadline and nextDeadline, as time from the present: 0 when due,
\* None when no timer is armed.
NextDeadline(m) ==
  LET left(limit, age) == IF limit > age THEN limit - age ELSE 0
      liveness == left(m.config.liveness, m.peerAge)
      silence == left(SilenceLimit(m), SilenceAge(m))
  IN IF m.state = "closed" THEN None
     ELSE IF SilenceLimit(m) # None /\ SilenceAge(m) # None
               /\ silence < liveness
       THEN silence ELSE liveness

\* One input, then the timers, at one instant: what both shells do.
Advance(outcome, behind) ==
  LET polled == Poll(outcome.machine, behind)
  IN Outcome(polled.machine, outcome.actions \o polled.actions)

\* ClientSessionLifecycle.reconfigure: a fresh machine under a new policy
\* that keeps the wire mode the peer last announced.
Reconfigured(m, config) ==
  IF m.state = "closed" THEN m
  ELSE ModeMessage(Machine(m.role, config), m.wireMode).machine

\* The receiver's detector: the first audio datagram tightens it
\* (noteAudioEvidence); an announced quiet relaxes it until audio resumes
\* (relaxDetectorIfQuiet).
Redetected(m, carried, baseline, tight) ==
  IF carried = "audio" /\ m.config # tight THEN Reconfigured(m, tight)
  ELSE IF carried = "quiet" /\ m.config = tight THEN Reconfigured(m, baseline)
  ELSE m
=============================================================================
