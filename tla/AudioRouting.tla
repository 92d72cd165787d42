---------------------------- MODULE AudioRouting ----------------------------
(***************************************************************************)
(* The host's audio routing: CPipeWireAudio's leaf (audio.c), AudioWire,   *)
(* which keeps the crash ledger, and the PipeWire server they talk to.     *)
(* A hostMuted leaf creates the "Lyte Audio" sink, saves the default-sink  *)
(* key, points it at that sink and puts the original back on the way out.  *)
(*                                                                         *)
(* The server takes a connection's requests in order and at its own pace;  *)
(* a wedged one takes none.  The leaf learns of it only through a          *)
(* roundtrip: a sync request whose `done` event comes back, or a guard     *)
(* timer.  The main thread sets up, stops and frees leaves one at a time;  *)
(* the loop thread runs one between start() and the join in stop().  The   *)
(* process may be killed between any two steps, and only the ledger and    *)
(* the server's key outlive it.                                            *)
(*                                                                         *)
(* Of the environment it is assumed that, while lyte runs, nobody else     *)
(* writes default.configured.audio.sink: a user's choice made between the  *)
(* replay and the switch would be replaced unseen (audio.c:270-317).       *)
(***************************************************************************)
EXTENDS Integers, Sequences

CONSTANTS
    Originals,  \* what the default-sink key may hold before lyte
    SinkTrips,  \* setup_virtual_sink's trips for the sink's global: 3
    MaxLives,   \* bound: host processes, one after another
    MaxLeaves,  \* bound: leaves ever started
    MaxErrors   \* bound: core errors the server reports

ASSUME AudioAssumption ==
    /\ Originals \cap {"lyte", "none"} = {}
    /\ {SinkTrips, MaxLives, MaxLeaves} \subseteq Nat \ {0}
    /\ MaxErrors \in Nat

\* What the key can hold: lyte's own sink by name, no value, or an original.
DefaultKeys == Originals \cup {"unset", "lyte"}

VARIABLES
    key,      \* the server's default.configured.audio.sink
    out,      \* requests the server has not taken yet, the oldest first
    inb,      \* events the loop has not dispatched yet
    sinkDue,  \* the server owes the announcement of our sink
    bound,    \* the server sends this connection the metadata's properties
    ledger,   \* the state file: a key, or "none"
    leaf,     \* struct lyte_pw_audio
    pc,       \* what the main thread does next
    loop,     \* the loop thread: "none", "starting", "running", "returned"
    looping,  \* pw_main_loop's running flag, while the loop thread holds it
    cur,      \* lyte_pw_audio_quit's snapshot of exit_reason
    stale,    \* a quit queued while nobody ran the loop
    original, \* history: the key before the first process
    before,   \* history: the key as this leaf's switch found it
    errored,  \* history: an error is the last verdict the running loop recorded
    lives, leaves, errors

serverVars == <<key, out, inb, sinkDue, bound>>
loopVars == <<loop, looping, cur, stale>>
rest == <<original, lives, leaves, errors>>
audioVars == <<serverVars, ledger, leaf, pc, loopVars, before, errored, rest>>

NoLeaf == [mute |-> FALSE, metadata |-> FALSE, seen |-> FALSE, tries |-> 0,
           capturing |-> FALSE, saved |-> "unset", switched |-> FALSE,
           restored |-> FALSE, seq |-> 0, pending |-> FALSE, failed |-> FALSE,
           timer |-> FALSE, exit |-> 1]

AudioInit ==
    /\ key \in Originals /\ original = key /\ out = <<>> /\ inb = <<>> /\ sinkDue = FALSE
    /\ bound = FALSE /\ ledger = "none" /\ leaf = NoLeaf /\ pc = "down"
    /\ loop = "none" /\ looping = FALSE /\ cur = 1 /\ stale = FALSE
    /\ before = key /\ errored = FALSE
    /\ lives = 0 /\ leaves = 0 /\ errors = 0

----------------------------------------------------------------------------
(* The connection.  Closing it drops what the server has not taken: it     *)
(* looks at a socket's hang-up before its bytes.                           *)

Trips == {"sweepBind", "sweepSet", "bind", "capture", "sink", "switch",
          "restoreTrip", "freeTrip"}

Disconnected == /\ out' = <<>> /\ inb' = <<>> /\ sinkDue' = FALSE
                /\ bound' = FALSE /\ UNCHANGED key

\* roundtrip's opening: the requests before it, then a sync with a new seq.
Asked(l, requests) ==
    /\ leaf' = [l EXCEPT !.seq = @ + 1, !.pending = TRUE, !.failed = FALSE]
    /\ out' = out \o requests \o << <<"sync", l.seq + 1>> >>
    /\ UNCHANGED <<key, inb, sinkDue, bound>>

\* The exits of roundtrip's loop.
TripOver == ~leaf.pending \/ leaf.failed
TripOk == TripOver /\ ~leaf.failed

\* The server takes the oldest request.
ServerTakes ==
    /\ out # <<>>
    /\ LET r == Head(out) IN
        /\ out' = Tail(out)
        /\ key' = IF r[1] = "set" THEN r[2] ELSE key
        /\ sinkDue' = (sinkDue \/ r[1] = "create")
        /\ bound' = (bound \/ r[1] = "bind")
        /\ \/ r[1] = "registry" /\ inb' \in {inb, Append(inb, <<"metadata">>)}
           \/ r[1] = "bind" /\ inb' = Append(inb, <<"property", key>>)
           \/ r[1] = "set" /\ inb' = IF bound THEN Append(inb, <<"property", r[2]>>)
                                              ELSE inb
           \/ r[1] = "create" /\ inb' = inb
           \/ r[1] = "sync" /\ inb' = Append(inb, <<"done", r[2]>>)
    /\ UNCHANGED <<ledger, leaf, pc, loopVars, before, errored, rest>>

\* The sink's global: often within the trip that asked for it, or later.
ServerAnnounces ==
    /\ sinkDue
    /\ sinkDue' = FALSE
    /\ inb' = Append(inb, <<"global">>)
    /\ UNCHANGED <<key, out, bound, ledger, leaf, pc, loopVars, before, errored,
                   rest>>

ServerErrs ==
    /\ errors < MaxErrors /\ pc \in Trips \cup {"running", "quit", "join"}
    /\ errors' = errors + 1
    /\ inb' = Append(inb, <<"error">>)
    /\ UNCHANGED <<key, out, sinkDue, bound, ledger, leaf, pc, loopVars, before,
                   errored, original, lives, leaves>>

----------------------------------------------------------------------------
(* Event dispatch: the main thread's inside a trip, the loop thread's while *)
(* the leaf runs.  pw_main_loop_quit only clears the running flag: before   *)
(* the loop returns, it dispatches what else was ready with the event that  *)
(* quit it, be it a message, a timer, a stream's event or a queued quit.    *)

Dispatching == pc \in Trips \/ loop = "running"

\* Mutant: the done of an earlier trip ends this one.
OnCoreDoneAny(seq) ==
    /\ leaf' = [leaf EXCEPT !.pending = FALSE]
    /\ UNCHANGED <<out, looping, errored>>

\* on_core_done: only the newest sync ends the trip.
OnCoreDone(seq) ==
    /\ leaf' = IF leaf.pending /\ seq = leaf.seq
               THEN [leaf EXCEPT !.pending = FALSE] ELSE leaf
    /\ UNCHANGED <<out, looping, errored>>

\* on_core_error
OnCoreError ==
    /\ leaf' = [leaf EXCEPT !.exit = -1, !.failed = TRUE]
    /\ looping' = FALSE
    /\ errored' = (errored \/ loop = "running")
    /\ UNCHANGED out

\* on_metadata_property: the replay counts, and only while it is captured.
OnMetadataProperty(value) ==
    /\ leaf' = IF leaf.capturing /\ value # "unset"
               THEN [leaf EXCEPT !.saved = value] ELSE leaf
    /\ UNCHANGED <<out, looping, errored>>

\* on_registry_global
OnRegistryGlobal(what) ==
    /\ leaf' = IF what = "metadata" THEN [leaf EXCEPT !.metadata = TRUE]
                                    ELSE [leaf EXCEPT !.seen = TRUE]
    /\ out' = IF what = "metadata" /\ ~leaf.metadata
              THEN Append(out, <<"bind">>) ELSE out
    /\ UNCHANGED <<looping, errored>>

LoopDispatch ==
    /\ Dispatching /\ inb # <<>>
    /\ inb' = Tail(inb)
    /\ LET e == Head(inb) IN
        \/ e[1] = "done" /\ OnCoreDone(e[2])
        \/ e[1] = "error" /\ OnCoreError
        \/ e[1] = "property" /\ OnMetadataProperty(e[2])
        \/ e[1] \in {"metadata", "global"} /\ OnRegistryGlobal(e[1])
    /\ UNCHANGED <<key, sinkDue, bound, ledger, pc, loop, cur, stale, before,
                   rest>>

\* on_roundtrip_timeout: two seconds without the done.
TripTimesOut ==
    /\ pc \in Trips /\ leaf.pending
    /\ leaf' = [leaf EXCEPT !.pending = FALSE, !.exit = -1, !.failed = TRUE]
    /\ UNCHANGED <<serverVars, ledger, pc, loopVars, before, errored, rest>>

\* A quit queued earlier leaves pw_main_loop_run; the trip enters it again.
TripReenters ==
    /\ pc \in Trips /\ ~TripOver /\ stale
    /\ stale' = FALSE
    /\ UNCHANGED <<serverVars, ledger, leaf, pc, loop, looping, cur, before,
                   errored, rest>>

----------------------------------------------------------------------------
(* The process starts: the sweep of a ledger a killed run left, first.     *)

\* sweepLeftoverRouting and lyte_pw_audio_restore_default; without a ledger,
\* or without a connection, the host goes on.
Boot ==
    /\ pc = "down" /\ lives < MaxLives
    /\ lives' = lives + 1
    /\ \/ pc' = "idle" /\ UNCHANGED <<serverVars, leaf>>
       \/ /\ ledger # "none"
          /\ Asked(NoLeaf, << <<"registry">> >>) /\ pc' = "sweepBind"
    /\ UNCHANGED <<ledger, loopVars, before, errored, original, leaves, errors>>

SweepBound ==
    /\ pc = "sweepBind" /\ TripOver
    /\ IF TripOk /\ leaf.metadata
       THEN Asked(leaf, << <<"set", ledger>> >>) /\ pc' = "sweepSet"
       ELSE Disconnected /\ leaf' = NoLeaf /\ pc' = "idle"
    /\ UNCHANGED <<ledger, loopVars, before, errored, rest>>

SweepDone ==
    /\ pc = "sweepSet" /\ TripOver
    /\ pc' = IF TripOk THEN "sweepUnlink" ELSE "idle"
    /\ Disconnected /\ leaf' = NoLeaf
    /\ UNCHANGED <<ledger, loopVars, before, errored, rest>>

SweepUnlink ==
    /\ pc = "sweepUnlink"
    /\ ledger' = "none" /\ pc' = "idle"
    /\ UNCHANGED <<serverVars, leaf, loopVars, before, errored, rest>>

----------------------------------------------------------------------------
(* lyte_pw_audio_new: the session's first leaf, or one a flip rebuilds.     *)

NewLeaf(mute) ==
    /\ pc = "idle" /\ leaves < MaxLeaves
    /\ leaves' = leaves + 1
    /\ errored' = FALSE
    /\ IF mute
       THEN /\ Asked([NoLeaf EXCEPT !.mute = TRUE, !.capturing = TRUE],
                     << <<"registry">> >>)
            /\ pc' = "bind"
       ELSE leaf' = NoLeaf /\ pc' = "start" /\ UNCHANGED serverVars
    /\ UNCHANGED <<ledger, loopVars, before, original, lives, errors>>

\* Mutant: no trip waits for the replay.
BoundInOneTrip ==
    /\ pc = "bind" /\ TripOver
    /\ IF TripOk /\ leaf.metadata
       THEN /\ Asked([leaf EXCEPT !.capturing = FALSE, !.tries = 1],
                     << <<"create">> >>)
            /\ pc' = "sink"
       ELSE pc' = "free" /\ UNCHANGED <<serverVars, leaf>>
    /\ UNCHANGED <<ledger, loopVars, before, errored, rest>>

\* Trip 1 has bound the metadata; trip 2 sees its properties replayed.
Bound ==
    /\ pc = "bind" /\ TripOver
    /\ IF TripOk /\ leaf.metadata
       THEN Asked(leaf, <<>>) /\ pc' = "capture"
       ELSE pc' = "free" /\ UNCHANGED <<serverVars, leaf>>
    /\ UNCHANGED <<ledger, loopVars, before, errored, rest>>

Captured ==
    /\ pc = "capture" /\ TripOver
    /\ IF TripOk
       THEN /\ Asked([leaf EXCEPT !.capturing = FALSE, !.tries = 1],
                     << <<"create">> >>)
            /\ pc' = "sink"
       ELSE pc' = "free" /\ UNCHANGED <<serverVars, leaf>>
    /\ UNCHANGED <<ledger, loopVars, before, errored, rest>>

\* The sink's global must exist before the default points at its name.
SinkAwaited ==
    /\ pc = "sink" /\ TripOver
    /\ \/ /\ TripOk /\ leaf.seen
          /\ Asked([leaf EXCEPT !.switched = TRUE], << <<"set", "lyte">> >>)
          /\ pc' = "switch" /\ before' = key
       \/ /\ TripOk /\ ~leaf.seen /\ leaf.tries < SinkTrips
          /\ Asked([leaf EXCEPT !.tries = @ + 1], <<>>)
          /\ UNCHANGED <<pc, before>>
       \/ /\ ~TripOk \/ (~leaf.seen /\ leaf.tries = SinkTrips)
          /\ pc' = "free" /\ UNCHANGED <<serverVars, leaf, before>>
    /\ UNCHANGED <<ledger, loopVars, errored, rest>>

\* The switch is flushed; the capture stream may still fail to come up.
Switched ==
    /\ pc = "switch" /\ TripOver
    /\ pc' \in IF TripOk THEN {"ledger", "free"} ELSE {"free"}
    /\ UNCHANGED <<serverVars, ledger, leaf, loopVars, before, errored, rest>>

\* Mutant: a ledger that cannot be written is only logged.
WriteLedgerIfPossible ==
    /\ pc = "ledger"
    /\ ledger' \in {leaf.saved, ledger} /\ pc' = "start"
    /\ UNCHANGED <<serverVars, leaf, loopVars, before, errored, rest>>

\* AudioWire.init records the original; when it cannot, deinit restores.
WriteLedger ==
    /\ pc = "ledger"
    /\ \/ ledger' = leaf.saved /\ pc' = "start"
       \/ ledger' = ledger /\ pc' = "restore"
    /\ UNCHANGED <<serverVars, leaf, loopVars, before, errored, rest>>

----------------------------------------------------------------------------
(* The run: one loop thread, and the thread that stops it.                 *)

Start ==
    /\ pc = "start"
    /\ pc' = "running" /\ loop' = "starting"
    /\ UNCHANGED <<serverVars, ledger, leaf, looping, cur, stale, before,
                   errored, rest>>

\* The deadline is armed, and pw_main_loop_run raises the flag as it enters.
LoopEnters ==
    /\ loop = "starting"
    /\ loop' = "running" /\ looping' = TRUE
    /\ leaf' = [leaf EXCEPT !.timer = TRUE]
    /\ UNCHANGED <<serverVars, ledger, pc, cur, stale, before, errored, rest>>

\* on_stream_state_changed and on_stream_param_changed's refusals.
StreamErrs ==
    /\ loop = "running"
    /\ leaf' = [leaf EXCEPT !.exit = -1]
    /\ looping' = FALSE /\ errored' = TRUE
    /\ UNCHANGED <<serverVars, ledger, pc, loop, cur, stale, before, rest>>

\* Mutant: the deadline records its verdict and does not quit the loop.
RunTimesOutUnquit ==
    /\ loop = "running" /\ leaf.timer
    /\ leaf' = [leaf EXCEPT !.exit = 1, !.timer = FALSE]
    /\ errored' = FALSE
    /\ UNCHANGED <<serverVars, ledger, pc, loopVars, before, rest>>

\* on_timeout: the run's deadline, once, whatever the verdict so far.  (In a
\* later trip it only makes roundtrip enter its loop again.)
RunTimesOut ==
    /\ loop = "running" /\ leaf.timer
    /\ leaf' = [leaf EXCEPT !.exit = 1, !.timer = FALSE]
    /\ looping' = FALSE /\ errored' = FALSE
    /\ UNCHANGED <<serverVars, ledger, pc, loop, cur, stale, before, rest>>

\* A quit queued for the loop is among its next events.
LoopQuits ==
    /\ loop = "running" /\ stale
    /\ looping' = FALSE /\ stale' = FALSE
    /\ UNCHANGED <<serverVars, ledger, leaf, pc, loop, cur, before, errored,
                   rest>>

LoopReturns ==
    /\ loop = "running" /\ ~looping
    /\ loop' = "returned"
    /\ UNCHANGED <<serverVars, ledger, leaf, pc, looping, cur, stale, before,
                   errored, rest>>

\* stop() enters lyte_pw_audio_quit, which reads exit_reason.
Stop ==
    /\ pc = "running"
    /\ pc' = "quit" /\ cur' = leaf.exit
    /\ UNCHANGED <<serverVars, ledger, leaf, loop, looping, stale, before,
                   errored, rest>>

\* Mutant: a plain store, decided on the snapshot alone.
QuitTurnBlind(reason, seen) == [store |-> seen # -1, leave |-> TRUE]

\* One turn of its compare-exchange loop.
QuitTurn(reason, seen) ==
    [store |-> seen # -1 /\ reason = seen, leave |-> seen = -1 \/ reason = seen]

\* On the way out it quits the loop: the running one hears of it, and a quit
\* while nobody runs the loop is either queued or overwritten on entry.
Quit ==
    /\ pc = "quit"
    /\ LET turn == QuitTurn(leaf.exit, cur) IN
        /\ leaf' = IF turn.store THEN [leaf EXCEPT !.exit = 0] ELSE leaf
        /\ IF turn.leave
           THEN /\ pc' = "join" /\ UNCHANGED cur
                /\ stale' \in IF loop = "running" /\ looping THEN {TRUE}
                                                             ELSE BOOLEAN
           ELSE cur' = leaf.exit /\ UNCHANGED <<pc, stale>>
    /\ UNCHANGED <<serverVars, ledger, loop, looping, before, errored, rest>>

Join ==
    /\ pc = "join" /\ loop = "returned"
    /\ pc' = "restore" /\ loop' = "none"
    /\ UNCHANGED <<serverVars, ledger, leaf, looping, cur, stale, before,
                   errored, rest>>

----------------------------------------------------------------------------
(* The way out.                                                            *)

\* lyte_pw_audio_restore's opening, where it has anything to restore.
Owes(l) == l.mute /\ l.switched /\ ~l.restored

Restoring(next) ==
    /\ Asked([leaf EXCEPT !.restored = TRUE], << <<"set", leaf.saved>> >>)
    /\ pc' = next

Restore ==
    /\ pc = "restore"
    /\ IF Owes(leaf) THEN Restoring("restoreTrip")
                     ELSE pc' = "free" /\ UNCHANGED <<serverVars, leaf>>
    /\ UNCHANGED <<ledger, loopVars, before, errored, rest>>

RestoreDone ==
    /\ pc = "restoreTrip" /\ TripOver
    /\ pc' = IF TripOk THEN "unlink" ELSE "free"
    /\ UNCHANGED <<serverVars, ledger, leaf, loopVars, before, errored, rest>>

Unlink ==
    /\ pc = "unlink"
    /\ ledger' = "none" /\ pc' = "free"
    /\ UNCHANGED <<serverVars, leaf, loopVars, before, errored, rest>>

\* lyte_pw_audio_free: restore what a failed setup switched, then tear down.
Free ==
    /\ pc = "free"
    /\ \/ Owes(leaf) /\ Restoring("freeTrip") /\ UNCHANGED stale
       \/ /\ ~Owes(leaf) /\ Disconnected
          /\ leaf' = NoLeaf /\ pc' = "idle" /\ stale' = FALSE
    /\ UNCHANGED <<ledger, loop, looping, cur, before, errored, rest>>

FreeDone ==
    /\ pc = "freeTrip" /\ TripOver
    /\ Disconnected /\ leaf' = NoLeaf /\ pc' = "idle" /\ stale' = FALSE
    /\ UNCHANGED <<ledger, loop, looping, cur, before, errored, rest>>

\* kill -9, or the process's exit.
Killed ==
    /\ pc # "down"
    /\ Disconnected /\ leaf' = NoLeaf /\ pc' = "down"
    /\ loop' = "none" /\ looping' = FALSE /\ stale' = FALSE
    /\ UNCHANGED <<ledger, cur, before, errored, rest>>

----------------------------------------------------------------------------
Setup == \/ \E mute \in BOOLEAN: NewLeaf(mute)
         \/ Bound \/ Captured \/ SinkAwaited \/ Switched \/ WriteLedger \/ Start
Run == LoopEnters \/ StreamErrs \/ RunTimesOut \/ LoopQuits \/ LoopReturns
Exit == Stop \/ Quit \/ Join \/ Restore \/ RestoreDone \/ Unlink \/ Free \/ FreeDone
Sweep == Boot \/ SweepBound \/ SweepDone \/ SweepUnlink
Server == ServerTakes \/ ServerAnnounces \/ ServerErrs

AudioNext == \/ Server \/ LoopDispatch \/ TripTimesOut \/ TripReenters
             \/ Sweep \/ Setup \/ Run \/ Exit \/ Killed

AudioSpec == AudioInit /\ [][AudioNext]_audioVars

\* The main thread's own steps; Boot, NewLeaf and Stop are asked for.
MainSteps == \/ SweepBound \/ SweepDone \/ SweepUnlink
             \/ Bound \/ Captured \/ SinkAwaited \/ Switched \/ WriteLedger \/ Start
             \/ Quit \/ Join \/ Restore \/ RestoreDone \/ Unlink \/ Free \/ FreeDone

(* Fairness: a thread that can step does, and both timers fire.  Nothing is *)
(* asked of the server.                                                     *)
AudioFairSpec ==
    /\ AudioSpec
    /\ WF_audioVars(MainSteps) /\ WF_audioVars(TripTimesOut)
    /\ WF_audioVars(LoopEnters) /\ WF_audioVars(LoopReturns)
    /\ WF_audioVars(RunTimesOut)

----------------------------------------------------------------------------
(* Properties.                                                             *)

\* What a leaf that has switched the default will put back is what the key
\* held when it switched: the replay is captured whole, and neither the switch
\* nor anything after it is taken for the original.
SavedIsOriginal == leaf.switched => leaf.saved = before

\* A restore or a sweep that reports success has reached the server, so the
\* ledger goes, or the connection closes, after the key is back: no timeout,
\* late answer of an earlier trip or stale quit passes for the flush.
CleanRestoreApplied ==
    /\ pc = "unlink" => ~leaf.switched \/ key = leaf.saved
    /\ pc = "freeTrip" /\ TripOk => key = leaf.saved
    /\ pc = "sweepUnlink" => key = ledger

\* As long as a muted leaf may carry traffic, a kill leaves on disk the key as
\* the switch found it.
LedgerBeforeTraffic == loop # "none" /\ leaf.mute => ledger = before

\* What the switch took from the user is known to the leaf that will put it
\* back and, before traffic, to the process that sweeps after a kill.
OriginalKept == SavedIsOriginal /\ LedgerBeforeTraffic

\* An error the running loop recorded outlives the stop that races it: run()
\* returns -1, the operator's only witness.  The one exception is the run's
\* own deadline, which overwrites an error of the batch it is dispatched in
\* (on_timeout does not look; ErrorIsFinal): an error recorded after it stands.
ErrorSurvivesQuit == errored /\ pc \in {"running", "quit", "join"} => leaf.exit = -1

\* What AudioWire hears of a stop is so: a success reached the server, and a
\* run whose last verdict is an error is not taken for a clean one, whenever
\* stop() asks and however many turns its compare-exchange takes.
StopTruthful == CleanRestoreApplied /\ ErrorSurvivesQuit

\* stop() comes back, whatever the server does: the join ends with the quit or
\* with the run's deadline, and the restore with its guard timer.
StopEnds == pc = "quit" ~> pc \in {"idle", "down"}

\* AudioWire.swift:8-12: the original is persisted at the switch and swept on
\* the next start, so whenever no leaf is up and the key still names lyte's
\* sink, the ledger holds the original.
OriginalRecoverable == pc \in {"idle", "down"} /\ key = "lyte" => ledger = original

\* lyte_pw_audio.h:59-62: run() returns -1 on an error, 1 when its time
\* elapsed; so no later event of the loop takes a recorded error away.
ErrorIsFinal ==
    [][loop = "running" /\ leaf.exit = -1 /\ pc' # "down" => leaf'.exit = -1]_audioVars

=============================================================================
