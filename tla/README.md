# Lyte: specifications, model checking and proofs

Lyte streams a Linux desktop to a client over UDP. This directory holds TLA+
models of the parts of it whose correctness depends on the order of events: the
ARQ that makes control messages reliable, the transport's counters, the session's
lifecycle on both ends, the host's admission of dials, path migration, the client's hunt
for a host it lost, its video recovery, the input path, the host's audio routing and file
transfer. TLC checks each on a small instance; TLAPS proves theorems about every one of
them for every value of its constants: all but one of the invariants and all of the
action properties the runs check. Everything is translated from the Swift and C sources;
paths below are relative to the repository.

`PROJECT.json` is the machine-readable side of this document: which definition
models which lines, what each run checks, the hazards and the properties that
face them, and for each property a plausible bug that breaks it (the operators
marked "Fault:" or "Mutant:" in the modules).

To repeat a check: `tlc -config MCArqStream.cfg MCArqStream`, and
`tlapm ArqProofs.tla`.

## 1. The system

A host process serves one client at a time. Host and client run the same wire
library (`Wire/Sources/LyteWire`), which is sans-IO: structs that take inputs with
an injected clock and return actions. Shells around them own sockets, threads,
files and timers. All datagrams of a session travel in channels (control, video,
audio, input, bulk ...), each sealed by the Noise transport under a counter of its
own. Control, input and bulk messages go through the ARQ; media does not.

| Component | State it keeps | Operations | Interacts with | Correct when |
|---|---|---|---|---|
| ARQ ordered stream (`Arq/ArqEndpoint.swift`) | send ring, receive cumulative point and buffer, owed ACKs | send, poll, ingest segment, ingest ACK, probe timer | transport below; session, bulk, input and capabilities above | each message delivered once, in order, for any loss and reordering; windows never overrun; ACKs never believed past the truth |
| ARQ one-shot groups (same file) | open groups, tombstones, eviction watermark | ingest, poll, reclaim | as above | at most once; a group given up stays closed; caps hold; no starvation |
| Noise transport (`Crypto/Noise/NoiseTransport.swift`) | per-channel counter tracker, replay window, failure count, epochs | seal, unseal, rekey each way | every channel | nothing opened twice; nothing honest refused within reach; an anchor left behind recovers |
| Session machine (`Session/SessionStateMachine.swift`) | state, wire mode, clocks, flags | apply(input), poll | host lane, client shell | never frozen while heard from, never open on a dead path, both ends in one mode |
| Host lane (`HostSession/SessionLifecycleLane.swift`) | the machine and its cached deadline | feed, note sends, poll | `HostWire/Session.swift`, service loop | the timer fires when it must |
| Client shell (`LyteTransport/LyteUdpSessionCore.swift`) | machine under a lock, atomic stamps, edge tickets | receive, beat, teardown | receive thread, beat, owner | the owner learns the newest state; no evidence lost between threads |
| Path validation (`HostSession/SessionPath.swift`) | primary, fallback, one probe, newest seq per channel of each | datagram, response, expiry | session, outbox | media only to a tuple that answered; a straggler never pulls back; a roam completes |
| Client video recovery (`LyteClientSession/ClientIdrRecovery.swift`, `LyteTransport/LyteVideoPipeline.swift`, `LyteTransport/VideoRendererHandoff.swift`, `LyteCore/RendererHandoffPolicy.swift`) | recovery episode, sample queue, await-IRAP gate, flush | demands, retries, submissions, renderer callbacks | assembler, request channel, encoder, renderer | while a gate is shut a key frame is being asked for; after a flush the first sample is a key frame; the gates open again |
| Host keyframe and repair books (`HostWire/SessionFreshKeyframeBook.swift` and others) | owed key frame and its causes, repair budget | request, offer, repair | encoder, video ring | a request is answered by one key frame or ignored as moot |
| Video assembler (`Video/VideoAssembler.swift`) | shard groups, last emitted frame, loss presumption | ingest, evict | recovery, decoder | frames in order, each at most once; holdback bounded |
| Input path (`Lyte/InputForwardingPolicy.swift`, `LyteInputCapture.swift`, `HostCore/HeldInputBook.swift`) | held keys, held-back Commands, chord; host's book; virtual devices | key, modifier, button and focus events; inject; silence; close | ARQ, uinput | what is down on the host is what the user holds, under the modifiers the user holds |
| Audio routing (`CPipeWireAudio/audio.c`, `lyte-host/AudioWire.swift`) | the leaf, its loop thread, the ledger file; the server's default-sink key | set up, switch, run, stop, restore, sweep | PipeWire, file system | the user's default sink comes back, also after a kill |
| Bulk transfer (`Bulk/BulkEngines.swift`, shells on both sides, `HostIO/BulkFileStore.swift`) | possession, credit, read-ahead; staging files and records on disk | offer, grant, chunk, verify, promote, abort, resume | ARQ, file systems, coordinator's queue | possession survives crashes; only verified bytes appear; transfers end |
| Bulk coordinator (`LyteTransport/BulkSendCoordinator.swift`) | queue, the head's shell, preparation in flight | drop, sessionReady, sessionEnded, cancel | send shell, session | each drop sent or reported, never two at once |
| Handshake admission (`HostSession/Handshake*.swift`, `LyteClientSession/ClientHandshakeInitiator.swift`) | token buckets, cookie mode, admitted cookies, answered message 1s; the answered session until it is confirmed; the client's dial | accept, confirm, resend, discard; begin, retransmit, answer a challenge | listening loop, path, client shell | a message 1 is answered with one transcript, ever; an answer outlives the dial that waits for it; a client that goes on dialing is served |
| Roaming (`LyteClientCore/RoamingPolicy.swift`, `Lyte/ConnectionModel+Roaming.swift`) | silence clock, scan and dial ladders, budget; the window's session, dial and generation | events of the session, scan and dial answers, path change, reconnect, tick | client machine, browser, handshake | never waits for an answer nobody owes; a session that moves is left alone; a lost host is found again |
| Pacer and outbox (`HostCore/Pacer.swift`, `HostWire/SocketOutbox.swift`) | class queues, tokens; unsent datagrams | enqueue, flush, shed | session, sockets | order within a channel; each datagram confirmed or discarded once |
| Host media admission (`HostWire/VideoChannel.swift`, `VideoAdmissionGate.swift`) | video ring, frames admitted but unsent | admit, repair, evict | outbox, keyframe book | a repair is answered from the ring or refused |
| Host listening loop (`lyte-host/HostApplication.swift`, `HostCore/HostServiceLoop.swift`) | the session if any, the memories that outlive it | listen, serve, tear down | handshake admission | one session at a time; what outlives a session is safe to keep |
| Capabilities, pairing, clipboard images, radio hold | small protocol states | messages and timers | control channel, helper daemon | see the plan |
| Rate estimation, jitter adaptation, presentation clock, codecs, FEC arithmetic, capture and encode, UI, vendored libraries | numeric or I/O state | - | - | not a question for a model checker (section 7) |

Hard behaviours, by kind: datagrams lost, repeated and reordered under every
protocol; timers racing answers (probe timeouts, silence bars, the liveness clock,
path probes, dial ladders); threads deciding under a lock and acting outside it
(client shell, video pipeline and renderer handoff, audio loop, send shell, service
wires); a process killed between disk operations or between a disk operation and a
request to another server; events another program swallows (menus, window drags);
state that outlives a session (virtual devices, tombstones, the ledger); numeric wrap
(16-bit seq and group ids, counters rebuilt from 16 bits); bounded tables that
forget (tombstones, answered handshakes, admitted cookies, refusal rings).

## 2. Modules

| Module | What it models | EXTENDS |
|---|---|---|
| `SerialNumbers` | signed 16-bit distance (`Int16(bitPattern: a &- b)`), for any width | |
| `BasicLemmas` | lemmas: the serial distance is exact within half the space; least and greatest elements, the first gap, functions as sequences | `SerialNumbers` |
| `ReliableStream` | the abstract stream: accept, deliver | |
| `ArqStream` | one direction of the ordered stream and its network | `SerialNumbers` |
| `ArqReceiveGroups` | one-shot groups at the receiver | `SerialNumbers` |
| `ArqProofs` | theorems about both | `ArqStream`, `ArqReceiveGroups` |
| `NoiseTransport` | one channel's counters, both ends | `SerialNumbers` |
| `SessionStateMachine` | the shared machine as operators on a record | |
| `SessionLifecycle` | host lane and client machine over a path | `SessionStateMachine` |
| `ClientLifecycleEdges` | the client's three threads around its machine | `SessionStateMachine` |
| `SessionProofs` | theorems about both | `ClientLifecycleEdges`, `SessionLifecycle` |
| `HandshakeAdmission` | dials, the gate, the memory and the one session, from one to the next | |
| `SecureChannelProofs` | theorems about admission and the transport | `HandshakeAdmission`, `NoiseTransport` |
| `PathValidator`, `PathValidatorProofs` | path migration with a client that roams; its theorems | |
| `VideoRecovery` | the recovery episode and the renderer's gate, on the client's threads, with the host's key frames | |
| `Roaming`, `RoamingProofs` | the client's dial policy and the window that drives it, with a host that moves; its theorems | |
| `InputPath` | a key from the Mac to the host's devices, over sessions | |
| `AudioRouting` | the host's default-sink switch, its ledger and its loop thread | |
| `MediaProofs` | theorems about video, input and audio | `VideoRecovery`, `InputPath`, `AudioRouting` |
| `BulkTransfer`, `BulkProofs` | both bulk engines, both shells, the disk, sessions and crashes; its theorems | |
| `MC*` | instances for TLC; a run whose constants its configuration can write uses the module itself | the module of that name |

Where one module of proofs extends several components, each of these but one names its
initial states, steps and specification after itself (`VideoInit`, `InputNext`,
`EdgesSpec`, `GroupsTypeOK`, `bulkVars`), since EXTENDS has one name space. Every module
of proofs also extends `TLAPS`, the theorem libraries it cites and, where it needs them,
`BasicLemmas`.

Composition. `HandshakeAdmission` makes the session the others live in, and `Roaming`
sees of it only whether a dial succeeds. `PathValidator` carries a session across a change of path and `Roaming`
takes over when it could not: the second sees of the first only whether evidence comes
back within the grace. The transport is below the ARQ: `ArqStream` assumes that a datagram is
opened at most `Horizon` positions late, and `StaleNeverOpened`, proved of
`NoiseTransport`, is the reason: nothing 64 or more counters behind the newest opened
is ever opened, a datagram carries at most 123 segments, and the sender's ring spans
at most 256, so a copy is at most 63 * 123 + 256 = 8,005 positions behind, far below
half of 65,536. The ARQ is below the session, input and bulk models: their messages
are ordered, delivered once and not lost while the session lives, which is what
`ArqStream` shows of the code. `SessionLifecycle` and `ClientLifecycleEdges` share the
machine as one set of operators; the first composes the two ends, the second the
threads inside one end. `VideoRecovery`, `InputPath`, `AudioRouting` and
`PathValidator` each compose the actors of one concern across both machines.

### How state and actions correspond to the code

**ArqStream.** Positions never wrap; `Raw` gives the bits on the wire and every
decision of the code is made on `Distance`, the code's own computation. `base`,
`next`, `live`, `resend`, `fastUsed`, `highAcked` are `SendGroup`'s fields (a slot is
live when it is not nil); `stream`, `buffered`, `ackOwed` are `RecvGroup` and
`ackNeeded`. `Send` is `send(message:)`, `PollSender` is `poll` with `firePto`,
`ReceiveAck` is `applyAck` from its forgery bound to fast retransmit,
`ReceiveSegment` is `ingestSegment` and `accept`, `PollReceiver` is
`appendAckFrames`. The network is a set of frames: what stays in the set may arrive
again, what leaves it is lost. RTT and backoff are abstracted: an armed timer may
fire at any poll, which includes every schedule the estimates produce.

**ArqReceiveGroups.** `table` is the endpoint's tables. `IngestSegment` has the order
of the code: closed groups first (`OnClosedGroup`), then admission (`Refused`), then
`OnOpenGroup` (duplicate, window, ceiling, drain, poison, close). The peer may send
any segment of any group at any time.

**NoiseTransport.** `sent` holds what was sealed; `OpensOrdinarily` is the path
through `extendedCounter`, `verdict` and the epochs, `OpensByResync` the loop over
`resyncCandidates`. The AEAD is ideal.

**HandshakeAdmission.** A dial is the message 1 it draws, known by its ephemeral key, so
the memory is a set of dials (`answered`); an id is drawn again only when nothing of it
is on its way, which stands for a fresh key. `Accept` is `accept` from the memory through
`admitMessage1` to `authenticate`, `ReceiveUnconfirmed` what an unconfirmed session does
with a datagram, `HostReads` their order in `awaitDatagram`, `Flushes` the end of a wait
pass. A key is the number of the transcript that dial was answered with (`drawn`). A unit
of time is a retransmit interval: what is not lost or astray arrives within it, and the
flood window is shorter, so `Tick` lets any number of the arrivals expire. A cookie
verifies from the tuple it was minted for; one that expired counts as lost. The clients
are paired; every dial has a socket of its own.

**SessionStateMachine.** A machine is a record, clocks kept as ages and capped
where nothing can tell them apart; each input of `apply` is an operator from
machine to machine and actions, `Poll` follows the order of `poll`.

**SessionLifecycle.** `HostTimer` is the service loop's `pollLifecycle`, `HostFeedback`,
`HostCtrl`, `HostWord` the evidence inputs, `HostSends` is `noteMediaSent`, which
re-caches the deadline without a poll. `Ratchet` says whether the host feeds damage
and convergence; v1 hosts do not, so what the runs show of idle mode with
`Ratchet = TRUE` is about the machine, not yet about a shipped host.

**ClientLifecycleEdges.** A step ends where another thread can run: stamping is
apart from routing, the beat reads the stamp, compares under the lock, feeds, then
polls timers. `Execute` delivers an edge unless a newer ticket has been delivered.
In both session modules the first audio datagram tightens the client's detector and an
announced quiet relaxes it (`Redetected`); which of the two a datagram carries is left to
chance.

**PathValidator.** `v` is the struct; each entry point is an operator from state to
state. `Receive` is `Session.receive` on a datagram that has unsealed: expiry,
`datagramReceived` (`Routed`, one branch per kind of tuple) and, for a path response,
`pathResponseReceived`, in that order. The send orders hold the newest seq each
channel delivered from a tuple. The client moves between tuples, answers a challenge
from wherever it is by then, and the network reorders, delays and loses. `since` and
`proofAge` are history: what the client had sent when it last moved, and the ticks
since an answer promoted a tuple.

**VideoRecovery.** Two gates close and open together under two locks: `session.open`
is `ClientIdrRecovery`'s episode behind the session's lock, `handoff.awaiting` the
policy's await-IRAP gate on the handoff's serial queue. The dispatching threads
(datagram and eviction tick) draw actions under the pipeline's lock (`todo`) and act on
them outside it (`Dispatch`, then `Post` to the queue); the worker builds, asks the
session's gate (`Build`) and submits (`Submit`) in steps of its own. `Perform` is the
queue's next job, `Drain` the renderer's pull, `CompleteFlush` the flush's callback.
A renderer that is handed a frame whose reference it lacks fails to decode until a
key frame. The host owes a key frame or does not (`coming`).

**Roaming.** An input of `RoamingPolicy` is an operator from the policy to the policy and
what it asks of the driver (`asks`); `Drives` is `roamingInput`, which does what is asked
in the same step: a scan joins `browses`, a dial detaches the session and becomes
`dialing`, an expiry ends the window. `Due` is `nextDeadline`, the guard of the timer.
Instants are kept as the time left until them, which is all the policy compares; `Tick`
is the clock. A browse, a dial or a Keychain lookup whose window has ended moves to
`late`, where its answer is dropped, as the generation and `claimDial` drop it. The dial's
session lives before it is adopted and may freeze or close there unheard. The host moves,
restarts (and forgets the session), goes dark and returns. `Freeze`, `Thaw` and `Liveness`
are the core's change and the window's hearing of it, which the code separates by a
main-actor task (`ConnectionModel.swift:362-366`), in one step: `session` is what the
window knows, and a thaw that is heard when datagrams flow no longer is left out.

**InputPath.** Every verdict of `InputForwardingPolicy` is an operator from the policy
to the policy and the events it sends, in the order sent. `mac` is what is physically
down; `wire` the reliable stream; `desk` what the uinput devices hold; `book` the host's
record. The Mac's events reach the policy only while the window has the focus, any press
or release may be swallowed (a menu, a drag of the title bar), a press may belong to an
app shortcut or an overlay, and the key map may change between press and release. Two
history variables say what a property has to except: `unlifted`, that a release was
swallowed, and `twice`, that a Control the policy believes down was pressed twice
(finding 15).
`SessionClosed` and `SessionRetired` are the two releases of the session's end, between
which its threads still serve.

**AudioRouting.** The server takes requests from `out` in order when it pleases, and
answers into `inb`; a roundtrip of `audio.c` is a wait on a sync that ends with its
`done`, an error or the guard timer. `pc` walks the main thread through
`lyte_pw_audio_new`, `AudioWire.init`, `start`, `stop`, restore and free; `loop` is the
thread that runs between `start()` and the join, with PipeWire's running flag apart
(`looping`) so that a quit can reach the loop before it is entered. A loop that was quit
still dispatches the rest of its batch, so every callback may run until the loop has
returned; the run's deadline is armed once as the loop is entered and fires at most once.
`Killed` may fall between any two steps, and leaves the key and the ledger. Nobody but
lyte writes `default.configured.audio.sink` while lyte runs: a choice the user makes
between the replay and the switch (`audio.c:270-317`) would be replaced unseen, and no
property speaks of it.

**BulkTransfer.** One host message is answered synchronously; its disk operations
stand in `todo` and are done one by one so that `HostCrashes` falls between any two
or halfway through a write. `replies` are sent after the batch, as `driveBulkShell`
does. Reads complete in any order; `sending` is the gap between the send shell's
unlock and the stream. A staging file is an inode, so a link and an unlink can be
told apart. A session's end persists the resume record; the next session loads
records and drops those without their staging file.

## 3. Runs

| Run | Question | Result |
|---|---|---|
| `arq_stream` | truthful ACKs, windows, forgery bound, earned retransmits, refinement of `ReliableStream`, and delivery, at 16 bits across the wrap | holds |
| `arq_receive_groups` | is a group's fate settled once (delivered at most once, given up stays closed), no starvation with room for one open group | holds |
| `session_lifecycle` | timer, modes through freeze, thaw and idle, recovery grace, still screens, dark paths close, evidence thaws | holds |
| `client_edges` | threads around the client machine: the owner's last word, evidence that races the freezing beat | holds |
| `noise_transport` | replay, reach, resync | holds |
| `handshake` | one transcript per dial, answers that outlive their dials, a client that goes on dialing is served | holds |
| `path_roam` | who is promoted, does a straggler pull media back, does a roam complete | holds |
| `video_recovery` | is a shut gate always backed by a request, what follows a flush, do the gates open again | holds |
| `roaming` | does the policy ever wait for nobody, does it tear down a session that moves, is a lost host found again | holds |
| `input_path` | are the three views of what is down in step, do keys land under the right modifiers, what outlives a session | holds, but for a Control pressed twice |
| `audio_routing` | is the user's default sink saved, restored and recoverable; does `stop()` return with the right verdict | holds |
| `bulk_transfer` | crash durability, visibility, verification, progress | holds |

What each property says stands in the comment in front of it in its module.

Further configurations are kept beside the runs. They check the same modules and take
longer, or check the type invariants, or show a documented statement the code does
not keep (section 4):

| Configuration | Checks |
|---|---|
| `MCArqReceiveGroupsTypes.cfg` | `GroupsTypeOK`, the caps (`HeldWithinBudget`), truthful ACKs until eviction (`AckedWasReceived`) |
| `MCClientLifecycleEdgesTypes.cfg` | `EdgesTypeOK`, one close (`ClosedOnce`), stamps never ahead of the machine for long (`StampsReachMachine`) |
| `MCBulkTransferTypes.cfg` | `BulkTypeOK`, no chunk stored twice in a session (`NothingStoredTwice`) |
| `MCInputCaps.cfg`, `MCVideoDark.cfg`, `MCArqGivenUpAck.cfg`, `MCSessionFinalFrame.cfg`, `MCNoiseAlias.cfg`, `MCBulkCrash.cfg`, `MCAudioRecoverable.cfg`, `MCPathStraggler.cfg` | violated: findings 1 to 8; with `-continue`, the fourth also checks `TypeOK` of the session with two words and two final frames in flight, the seventh shows finding 14 and the first finding 15 |
| `MCRoamingRules.cfg` | with `-continue`, violated: findings 9 to 12 |
| `MCHandshakeNewer.cfg` | violated: finding 13; with `-continue`, `TypeOK` of admission |

### Bounds, and why they are enough

- `arq_stream`: the wire's 16-bit space and its horizon of 8,005; four segments from
  seq 65,535, so that base, cumulative point and high mark each cross the wrap at
  different moments; windows of 2, a packet threshold of 1, messages of up to two
  segments. Every frame of a window may be in flight at once, as may every ACK: the
  network has no capacity bound here, since a constraint would cut fair behaviours
  short. The proofs remove all of these bounds for safety.
- `arq_receive_groups`: three ids across the wrap (65535, 1, 2), messages above, at
  and below the ceiling of two units, one tombstone so that eviction happens, room
  for one open group so that admission is contended, a lifetime of one tick.
- `session_lifecycle`: bars of 1 to 3 units in the order of the shipped 350 ms, 2.5 s
  and 30 s; only their order is compared by the code. The host's bar is anchored at
  its sends and the idle inputs are on; one word and one final frame in flight.
- `client_edges`: two datagrams of four kinds: a mode word, a teardown, audio, an
  announced quiet; three threads in every interleaving.
- `noise_transport`: seq space 4, window 2, one wrap of resync, counters up to 11
  (almost three wraps), one rekey, damaged datagrams claiming two of the seqs. The
  proofs remove these bounds.
- `handshake`: two clients, one that goes on dialing and one that dials once, which is
  enough for a datagram to meet every stage of a later dial, its own client's or the
  other's; two transmissions of a dial within a lifetime of three units and a silence of
  four (shipped: 5 of 2 s or 3 of 0.7 s, 12 s, and the machine's longer close); every
  budget one deep, a cookie required at two arrivals; one fault: a datagram lost,
  delayed or repeated, a hop or a cancel. The proofs remove these bounds for
  `OneTranscript`, and for `AnswerOutlivesDial` where it holds (§5).
- `path_roam`: two tuples, two moves (there and back, so a straggler of one stay
  meets the next), two datagrams and one challenge in flight, a
  retention of two probe timeouts. The
  smallest sealed datagram (51 bytes) already pays for a challenge (61, at a factor of
  3); the proofs take every size. Seqs are renumbered after
  each step, which the validator cannot see. The proofs remove these bounds for safety, and
  take any number of channels.
- `video_recovery`: queue depth 2, two units in the client, two faults of any kind at
  any moment: one may fall in the episode of the other, on another thread.
  Frame numbers are turned back after each arrival, which nothing can tell.
- `roaming`: two addresses, thresholds of 1 and 2 units in the order of the shipped ones,
  ladders of two rungs (floor and ceiling), a budget of two units, two browses in flight,
  two faults of any kind: a fault may fall in the hunt the other began. Only the order of
  the thresholds is compared by the code. The proofs remove these bounds for safety.
- `input_path`: one key whose code the key map may change, one whose code
  it may not, Control, Command, one button; one swallowed press or release; two sessions on the
  same devices; the user acts when nothing is on its way (`WireBound` 0), while
  silences, closes and injections fall anywhere in the sends of one action.
- `audio_routing`: three processes and three leaves, so that a leaf follows a killed
  one and a sweep; one server error; originals named and unset.
- `bulk_transfer`: three chunks, a credit window and read-ahead of 2 (so credit is
  refreshed mid-file), two files, two sessions, two faults (a crash, a disk or read
  error, a source edit, a cancel). Two faults reach every pair, such as a source
  edit followed by a crash.
- Deadlock checking is off where the system stops: everything acknowledged, the
  counters at their bound, the queue of files empty, the last session or the last
  process over.

### Fairness

- ARQ: the shells sleep until the instant `poll` returned, so a poll with work and an
  expired probe timer are not put off for ever (weak fairness). The network is
  fair-lossy (strong fairness on reception, apart for a segment that is news, for a
  duplicate that renews an owed ACK, and for an ACK that retires something), and no
  copy circulates for ever, which the replay window guarantees.
- Groups: the shell polls, time passes, and a persistent peer repeats each segment
  until it is acknowledged, as the sending half does.
- Session: the host's loop wakes at its deadline, the client beats every 100 ms, time
  passes, and beacon and echo (1 Hz each) get through an open path. Nothing is
  assumed of the path; `DarkPathCloses` and `Thaws` say for which paths they speak.
- Client: every thread that has a step takes it; the beat's timer repeats.
- Handshake: a step the host's wait pass or a client's own loop owes is taken and time
  passes; the persistent client dials again when a dial is over; a client that holds a
  session leaves in the end, one whose host is gone notices, and a session nobody holds
  ends. Nothing is assumed of the network beyond the bound on its faults: what is not
  lost or astray arrives within its unit.
- Path: the client keeps sending (it beats and reports feedback), a network offered
  datagrams of a kind for ever delivers one in time, and a challenge, its answer and
  the answer's delivery sometimes all fit in one probe's timeout. A challenge to a
  place the client has left is lost. `RoamCompletes` speaks of a client that stays.
- Video: threads and queues run, the retry cadence repeats, the renderer asks for data
  while it is armed, a request repeated for ever is heard (strong fairness) and a key
  frame on its way for ever arrives.
- Audio: a thread that can step does, and both guard timers fire. Nothing at all is
  assumed of the server: `StopEnds` holds against one that takes no request.
- Bulk: each end's next step is taken. Crashes, cancels and session ends are never
  required, and only as many occur as the bounds allow.
- Roaming: timers fire, time passes, scans and dials are answered one way or the other, a
  session nobody answers freezes and then closes (the machine's own clocks), the path
  comes back. Strong fairness on two things the code cannot force: of scans repeated for
  ever one sights the host, and of dials to where it is one succeeds. `Reattaches` ends
  with the window, so a human who closes it is not an exception.
- Noise and input: no liveness is stated.

## 4. Findings

Disagreements between the code and a statement of the repository. Each is shown by a
configuration beside the runs:

1. `MCInputCaps.cfg`: each `LyteInputCapture` starts a fresh `InputForwardingPolicy`
   whose `hostCapsLock` is false (`InputForwardingPolicy.swift:68`), while the host's
   devices and its desktop's lock outlive the session. After a session that ended with
   Caps Lock on, the next one drives the host's to the inverse of the Mac's.
   `InputForwardingPolicy.swift:34-35` says it follows.
2. `MCVideoDark.cfg`: when no datagram of the opening key frame arrives,
   `VideoAssembler.swift:517` takes the lowest tracked frame for the first, so nothing
   counts as lost, nothing is asked for, and every P frame is withheld.
   `docs/PROTOCOL.md:335` says lost shards draw a NACK or an IDR request.
3. `MCArqGivenUpAck.cfg`: when the tombstone of a poisoned or expired group has been
   evicted, `ArqEndpoint.swift:603-607` re-creates it at the repeated segment's own
   seq and so acknowledges segments that never arrived. `docs/PROTOCOL.md:284-286`
   says such late retransmits "are acknowledged truthfully". It stays closed all the
   same (`GivenUpStaysClosed` holds).
4. `MCSessionFinalFrame.cfg`: `finalFrameAcknowledged` (`SessionStateMachine.swift:316`)
   has no identity, so the ACK of a final frame that was aborted flips to idle for a
   later one the client does not hold yet. `SessionLifecycle.swift:11-13` says it
   always does. Dormant in v1.
5. `MCNoiseAlias.cfg`: past a gap of a wrap or more, a fresh datagram whose ordinary
   counter falls on a marked one is refused as a replay and the forward wraps are
   not tried (`NoiseTransport.swift:283`), against the comment at `:30-36`. At most 64
   of the 65,536 seqs are affected, until another one resyncs; `ResyncReaches` states
   and proves what does hold.
6. `MCBulkCrash.cfg`: a kill between `link` and `unlink` of a promotion
   (`BulkFileStore.swift:144`) leaves the finished file under its staging name as well.
   The client re-offers it, `openStaging` opens that inode, and if the source was
   edited meanwhile the chunks are written into the visible file. The header of the
   file (`:11-15`) says a kill -9 never leaves "a visible partial".
7. `MCAudioRecoverable.cfg`: the ledger is written after the switch has been flushed
   (`AudioWire.swift:101`), so a kill in between leaves the default on lyte's sink and
   nothing on disk; the next start sweeps nothing, and the next muted leaf saves
   lyte's own sink as the original. `AudioWire.swift:9-12` says the original is
   persisted at the switch and swept on the next start.
8. `MCPathStraggler.cfg`: a return to the fallback swaps the two send orders
   (`SessionPath.swift:298`), so on every channel but the one that brought the client
   back, the primary's newest seq is the one of its earlier stay. A straggler of the
   stay in between, on such a channel, is newer than that and takes the path with it.
   `docs/PROTOCOL.md:305-308` says a straggler cannot flip the path. It lasts until the
   client's next datagram; `AnchoredStays` states, and `AnchorHolds` proves, what does
   hold.
9. `MCRoamingRules.cfg` (`LiveTierRides`): a chroma tier picked while a re-dial is in flight does not ride
   it. `setChromaTier` calls `reconnectNow`, whose `manualReconnect` finds a dial in flight
   and makes no other (`RoamingPolicy.swift:522`), and nothing abandons that one: the
   session it brings declared the tier of before, under a strip that shows the new one.
   `ConnectionModel+Features.swift:138` says picking a tier reconnects, and
   `ConnectionModel+Roaming.swift:154-156` that the live posture rides every dial.
10. `MCRoamingRules.cfg` (`SilenceClockRuns`): a session that freezes between its handshake and its
    adoption tells a policy that is not attached (`RoamingPolicy.swift:278`), and
    `sessionEstablished` starts no clock, so no scan looks for the host before the
    liveness close. `ConnectionModel.swift:570` says the FROZEN edge feeds the clock.
11. `MCRoamingRules.cfg` (`WaiverAllows`): a path change after a same-address sighting has been remembered
    cancels its redial, where `RoamingPolicy.swift:30-31` says it is "allowed at once":
    `sameAddressRedialReadyAt` is nil once waived, and only a scan of the same address that
    completes later dials.
12. `MCRoamingRules.cfg` (`TickIdempotent`): a beat that dials leaves a due scan due, so a second `tick` at the
    same instant launches it; `RoamingPolicy.swift:410` says `tick` is idempotent at one
    now, and `:411-413` that no browse is launched beside a dial.
13. `MCHandshakeNewer.cfg`: the acceptor tells the dials of a client apart but not which
   is newer. A delayed message 1 of a dial its client has given up, never answered before,
   replaces the unconfirmed answer to the dial the client is making
   (`SessionWire.swift:783-793`), and the answer to that one is then refused as answered
   before; the client is served by the dial after it. `docs/PROTOCOL.md:132-133` says a
   *newer* message 1 replaces the unconfirmed handshake.

14. `MCAudioRecoverable.cfg` (`ErrorIsFinal`): `on_timeout` stores 1 whatever was recorded
    (`audio.c:430-436`), and a loop that was quit finishes its batch of ready sources. A
    deadline ready in the batch of a server or stream error replaces the -1, and `run()`
    reports that its time elapsed. `lyte_pw_audio.h:59-62` says it returns "-1 on stream error", and `audio.c:572-574`
    that the run-error line is the operator's only witness. `StopTruthful` speaks of the
    last verdict the loop recorded.
15. `MCInputCaps.cfg` (`ControlPressedOnce`, `FlagsAreTheTruth`): the chord's Control is not
    among `heldKeys`, so when a Control press was swallowed inside a Command chord, the
    chord's next letter makes `resyncModifiers` (`InputForwardingPolicy.swift:225-239`)
    press it a second time, for the user. Whichever of the two is released first lifts it
    on the host while the policy goes on believing the other: the chord's end lifts the
    Control under the user's finger, and no later key sends it again, since the books say
    it is down. `:20-22` says the host sees one press and one release, `:26-31` that a
    key's own flags are the truth about the modifiers. `Balanced` and
    `UnderTheRightModifiers` except that Control, and nothing else, from the second press
    until the policy believes it up.

## 5. What is proved

`tlapm` checks every theorem for every value of the constants that the modules'
assumptions admit.

**The ordered stream** (`ArqProofs`; assumption `ArqStreamAssumption`: windows
positive, send window at most the receive window, and
`2 * (Horizon + ReceiveWindow) < SeqSpace`; no bound on messages, segments in
flight or datagrams is used). The invariant `IInv` is `TypeOK` with six parts.
`StreamIntegrity` alone is not inductive: that a buffered segment is the log's own
needs `ReceiverHolds`; that an ACK retires only what was received needs
`AcksInFlight` (an ACK on its way reports what the receiver holds *now*, which only
grows); that its bitmap is read at the right positions needs `SenderRing` and the
exactness of the serial distance (`SerialDistanceExact`), which needs base and
cumulative point to lie within a window of each other (`BaseBehindReceiver`, from
`AckTruthful`). `HighMark` carries the fast-retransmit gate. From it follow
`TypeCorrect`, `InOrderDelivery`, `NothingRetiredUnreceived`, `WindowNeverOverrun`,
`NoHonestAckRefused`, `RetransmissionIsEarned` and `Refinement`: each step of the
protocol accepts a message, delivers more of the stream, or stutters.

**Receive groups** (`ArqProofs`; assumption `ReceiveGroupsAssumption`, whose one
condition beyond positive bounds is that the ids in use lie within half of the id space,
so that the code's signed comparison orders them; no bound on segments, lengths or time
is used). `SettledOnce` speaks of a delivered group and of one given up, and is not
inductive: that neither is opened again needs that it is *shut*, which is to be under a
tombstone or not ahead of the eviction watermark (`GroupsInv`). `Reclaim` evicts any
number of tombstones in order, so the lemma that it keeps a shut group shut is an
induction over a recursive function, made by a least counterexample. `FateSettledOnce`
follows. A second invariant, `LedgerInv`, is about what the tables hold: every open group is
`Sound` (what it buffers lies within the window after its cumulative point, and it holds
no more than the ceiling), the tombstones are the ids of the eviction order, each once and
beside the open groups (`Ordered`), and what an ACK would report was received, unless the
group is at or behind the watermark (`Honest`). That a group grows by exactly one unit per
segment taken in, however long a run the segment completes, is `DrainedIs`; that a
tombstone, an eviction or a reclaim in any order reports no more than before (`Less`) is
what the handlers share. `GroupsTyped`, `BudgetHolds` (the one-shot groups never hold more
than the budget) and `ReportsAreTrue` (no segment is acknowledged that was not received
until the watermark covers the group) follow; the configuration beside the runs checks the same
three on an instance.

**The transport** (`SecureChannelProofs`; assumption `NoiseAssumption`: the window
at most half the seq space). The invariant adds to `EachOnce` that the window is
*exactly* what was opened within its length of the anchor (`WindowTruthful`) and that
counters were sealed once (`SealedOnce`): an opened datagram that had left the window
would otherwise be admitted again. `AdmittedOnce` and `StaleNeverOpened` follow.
`OrdinaryAlwaysOpens` rests on the exactness of reconstruction within half the space
(`ReconstructionExact`), `ResyncAlwaysReaches` on the candidates enumerating every
wrap (`CandidatesReach`, by division with remainder).

**Admission** (`SecureChannelProofs`; assumption `HandshakeAssumption`: bounds are naturals, a
dial has an attempt and fewer of them than a lifetime has units, the lifetime is within
the silence that closes a session (12 s of 30 s), the exit threshold is below the enter
threshold; no bound on clients, dials, strays or places is used).
`OneTranscript` says nothing of the memory, so it is not inductive: `HostInv` adds that
the memory holds exactly the dials that were answered, each once, and `Keyed` and
`Dialer` that whatever carries a key carries that of an answer still remembered. A dial
that is not remembered therefore has no key anywhere, and answering it gives it its
first. `OneAnswer` and `TypeCorrect` follow. That the shipped memory holds 1,024 dials
and then forgets the oldest is outside the theorem.

`AnswerOutlivesDial` compares clocks of two machines, and `AwaitInv` relates them
(`AgesHold`): while its client dials, an unconfirmed answer is no older than the
transmissions the dial has made; before the first fault it comes within the unit; once it
was read, its client speaks in every unit, so each unit that leaves it unconfirmed has
cost a fault. `DialsOutlived` follows for any number of faults: no answer is discarded
under a client that still dials with it. That none is discarded under a client which has
read it holds as long as the faults do not outnumber what the lifetime leaves beyond the
schedule, and `AnswerOutlives` has `Attempts + Faults <= Lifetime` as its hypothesis. For
a connect's first dial (5 of 2 s under 12 s) that is one fault, for a redial (3 of
0.7 s) fourteen; beyond it a client that is up may find its host gone, and dials again.

**Path migration** (`PathValidatorProofs`; assumption `PathAssumption`: counts are
positive, `None` is neither a tuple nor a token; no bound on moves, seqs or datagrams
is used beyond those). The invariant has four parts next to `TypeOK`. `OnlyAnswered`
needs `TokensBound`: a token in use names the tuple it was drawn for, which holds
because a fresh one is drawn outside everything in flight. `ReturnWithinWindow` needs
`WindowBound`: what a fallback has left and the time since the answer that retained it
sum to at most one window, so swapping the two tuples renews nothing. `AnchoredStays`
needs `SentSince`: a datagram newer than what the client had sent when it moved came
from where it is, so an overtaking datagram from the fallback is not a straggler; and
`Apart`, without which the fallback could be the primary.

**Roaming** (`RoamingProofs`; assumption `Parameters`: thresholds, ladders, budget and
bounds are naturals, `Nobody` is no address). The invariant adds three parts to
`TypeOK` and `NeverStranded`. `Coherent` makes the scanning half of `NeverStranded`
inductive: an attached policy has no dial and no budget, and one that scans has a scan
in flight, one scheduled, or a dial whose failure will schedule it. A session that moves
leaves the policy `Quiet` (attached, no silence clock, not scanning), which is what
`MovingStands` needs. A window without a policy has nothing in hand, so that the next
connect starts clean. Each input of the policy has one lemma: it is `Proper` (coherent,
and what it waits for is in hand or asked for), and where a session moves also `Idle` (it
stays quiet and asks for nothing); `DrivesKeeps` carries an outcome through the
driver. `AlwaysDriven` and `MovingUndisturbed` follow.

**The client's threads** (`SessionProofs`; assumption `EdgesAssumption`: positive bars,
wire kinds the code has; no bound on datagrams is used). `OwnerSeesState` speaks of the
moments when no thread has anything to execute; the invariant says who has the news in
between. `NewestTells`: the newest ticket carries the state reported last, and is
delivered or is in the hands of one thread. `Deciding`: no two threads hold the same
ticket. `Reports` relates the machine to what was reported of it, which differ only after
the first audio datagram or an announced quiet has thawed it and before its own route
reports it. `ClosesOnce`:
a close that happened has been told or is in the hands of one thread, and was told once.
`OwnerLearns`, `CloseToldOnce` and `EdgesTyped` follow.

**The host's lane** (`SessionProofs`; assumption `SessionAssumption`: positive bars, a
recovery no shorter than the blackout bar). `TimerArmed`: the cached deadline is never
later than what the machine's clocks owe, though it may be earlier. For `FreezesJustly`,
`OwedForASend` dates the silence clock to a send after the last evidence, and
`SilenceWithin` has the silence of a recovery begin within it. `TimerNeverLate` and
`HostFreezesJustly` follow, whatever the client, the path and the control channel do.

**The mode of both ends** (`SessionProofs`, same assumption). `ModesAgree` says that the
mode words on the host's stream, however many, lead the client from its mode to the
host's; `ModesInv` adds the types it needs. Every input of the machine has a lemma for a
sender (`Speaks`: what it puts on the stream leads from the mode before to the mode after)
and one for a receiver (`KeepsMode`: the mode stays, or the machine closes); an appended
stream is read one part after the other (`ConcatAfter`). That the loop which selects the
words of a list of actions keeps their meaning is an induction over a recursive function,
by a least counterexample (`WordsAfter`). `WireModesAgree` follows, for any number of words
in flight.

**Video recovery** (`MediaProofs`; assumption `BoundsAreCounts`). The gate and the episode
change on different threads under different locks. `VideoInv` is about the world both
share: a shut gate has an empty queue and an open episode, one with a key frame pending
holds it at the head of its queue, a flush is outstanding only while the gate awaits
(`Backed`); and before anything was handed over, the first unit past the session's gate is
a key frame, wherever on its way through the sample queue, the jobs and the worker it is
(`FirstIsKey`). `GateIsBacked` and `KeyAfterFlush` follow.

**Input** (`MediaProofs`; assumption `CodesApart`: no two keys share a code, and none is a
modifier's). What the properties relate is apart while events are on the wire. `InputInv`
therefore speaks of `Landing`, the set of codes down once the wire has been injected:
the policy's books believe it, and are exact about modifiers and the button (`Matches`),
but for a Control that was pressed twice. That a Control held both for the user and for a
chord is known for it (`Known`) makes this inductive: the books and the host part only
when one of its two holders lets it go.
Each step of each handler has a lemma that what it sends takes the old landing to what the
new books believe. `Rests` is what holds outside a session and without the focus, `Fingers`
what the books owe to the Mac. `ViewsAgree`, `RightModifiers` and `SessionsLeaveNothing`
follow, the last for any number of sessions.

**Audio routing** (`MediaProofs`; assumption `AudioAssumption`: an original is neither
lyte's own sink nor the word for none). A round trip waits for the `done` of its own sync,
and the server answers when it pleases. `KeyCaptured` and `Restored` say where the answer a
trip waits for, or the set it must have flushed, may still be: among the requests, among
the events, or taken; and always before the trip's own sync or done. A done of an earlier
trip is told apart because syncs are numbered (`Travelling`). `Runs` ties a recorded
error to the loop's exit code and its running flag. `OriginalIsKept` and `StopIsTruthful`
follow, for any number of processes, leaves and kills; of a run's error the second says
that no stop takes it away, not that the run's own deadline does not (finding 14).

**Bulk transfer** (`BulkProofs`; assumption `BulkAssumption`: positive bounds and a credit
window of at most twice the read-ahead, which the shipped configuration keeps). `BulkInv`
has four parts. `Disk`: what engine, book and records claim is durable in the part, a
record the book does not vouch for is about to be dropped, only a verified part is about
to be linked, a completion on its way is of a file that is visible or waits for its link
in the batch whose replies have not left. `Turns`: the order of the conversation. An offer
on its way is the client's own or is followed by its withdrawal, nothing has been said of
its transfer, and what the host still receives is withdrawn in front of it; a verdict is
the last word of the host on a transfer; an acceptance is single and comes first.
`Counts`: every chunk on its way, being stored or stored since the offer is one the grant
was spent on, and no chunk is among them twice; the client's account of what it may send
is never ahead of the host's. `Turns` and `Counts` are what `HonestNeverRefused` needs and
does not say: it is about the host's refusals, and what makes them impossible is the order
and number of messages in two streams. For these two the steps of the model are first
sorted into turns (`ClientTurn`, `HostTurn`) that say only what a step does to the streams
and to the states of the two ends. `SaidStored`, `PromotesVerified`, `NeverRefused` and
`BulkTyped` follow, for any number of files, chunks, sessions and faults.

The type invariants of the ARQ stream, the transport, admission, path migration, roaming,
the client's threads, the groups and bulk transfer are theorems too; that of the
session is checked by a configuration beside the runs, and where neither is said the
invariant above carries the types of what it speaks about.

Only model-checked: every liveness property (`EventuallyDelivered`,
`EveryGroupSettles`, `DarkPathCloses`, `Thaws`, `HeardThaws`, `EventuallyServed`,
`RoamCompletes`, `Recovers`, `Reattaches`, `StopEnds`, `EventuallySettles`: `tlapm` does not
prove liveness under fairness, nor facts about ENABLED); and what only the configurations
beside the runs check, such as `NothingStoredTwice`. Nothing in the project is defined by a RECURSIVE operator, and what a
recursive function computes on every input is proved only where a least counterexample
will do, since the library's induction theorems have operator parameters that the
provers at hand cannot instantiate.

## 6. Plan

Done, in this order: ARQ stream with its proofs, receive groups, session machine and
composition, client threads, transport with its proofs, bulk transfer, path validation
with its proofs, audio routing, input path, video recovery, roaming with its proofs,
handshake admission with its proofs; then the proofs of video recovery, the input path,
the client's threads, the host's lane, audio routing, the receive groups with their budget and
their acknowledgements, bulk transfer, the mode of both ends and the age of an answer.

To model next, by importance:

1. `VideoAssembler`: emission order, holdback and eviction against an abstract
   in-order stream of frames with skips (refinement); `ClientNackPolicy` with the repair
   budget and the host's video ring, in front of `VideoRecovery`.
2. `BulkCoordinator`: preparation in the background, generations, and a property
   for the chunk that outlives its transfer; then composed with `BulkTransfer`.
3. `SocketOutbox`: order within a channel and an exactly-once ledger under partial
   writes, shedding and purges.
4. `RadioHold` (holds, idle exit, killed daemon), `PairingService` (guess budget across
   sessions), `ClipboardImages`, `CapabilityNegotiator`, the sending
   half of one-shot groups, the jitter buffer's order.
5. `Roaming` composed with `PathValidator` and the client's machine, which here freezes,
   thaws and closes on its own.

To prove next: `NothingStoredTwice` of bulk transfer, for which `Counts` has what is needed of
the streams; it also needs that without a fault a transfer once discarded is never
offered again.

## 7. Not modelled, and why

- Rate estimation, jitter-depth adaptation, presentation scheduling, clock models:
  real-valued control loops; what matters of them is tuning.
- Codecs, CBOR, FEC arithmetic, HEVC parsing, cryptography: pure functions on bytes
  with vectors and fuzz tests in the repository; idealised in the models.
- Capture, encode, sockets, PipeWire's own graph, Metal, AppKit, the browser page: I/O
  against other systems. Where a model needs one (the audio server, the renderer, the
  Mac's events), it is a nondeterministic environment and marked external in the map.
- Vendored code: Opus and nanors. Of the repository's C, some 73,500 lines by a count
  that takes headers and tables in, nearly all is `COpus/Upstream`; the program's own C
  is about 1,500 lines of shims over PipeWire, uinput and the like, of which the audio
  leaf's routing and the uinput devices are mapped. Lyte itself is Swift, so a share of
  C lines says little about what the models cover; the map names the Swift lines.
- In what is modelled: RTT values and backoff; frames packed into one datagram (the
  interleavings of single frames include them); power loss as distinct from a killed
  process, since a completed durable write is taken as durable; the promotion's
  fallback for file systems without hard links; a full send queue under the session
  and under bulk; rejections of offers and possession claims that no honest pair
  produces; what the host does with a promotion of a path (rebinding, pacing anew);
  shards, holdback and the pacing of requests under `VideoRecovery`, which takes frames
  as arrived or skipped; motion, scroll and key repeat, and a uinput write that fails,
  under `InputPath`; another program that writes the default sink while lyte runs, under
  `AudioRouting`; the main-actor task between a core's event and the window, under
  `Roaming`; dials of clients that are not paired, and a flood's, beyond the budgets
  they empty, under `HandshakeAdmission`; the audio packets themselves. `PROJECT.json` names the hazards
  that nothing covers yet.
