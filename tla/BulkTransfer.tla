---------------------------- MODULE BulkTransfer ----------------------------
(***************************************************************************)
(* File transfer, client to host (channel 8).  The client's BulkSendEngine *)
(* and BulkSendShell, the host's BulkReceiveEngine, BulkReceiveShell and   *)
(* BulkFileStore, and the two ordered reliable streams between them, over  *)
(* any number of sessions and host crashes.  The coordinator's queue       *)
(* appears as the order in which transfers are offered and re-offered.     *)
(*                                                                         *)
(* The host answers one message synchronously: the engine decides, and the *)
(* disk operations it asks for run one after another.  `todo` holds the    *)
(* ones not yet done, so that a crash may fall between any two.            *)
(***************************************************************************)
EXTENDS Integers, Sequences, FiniteSets, Functions

CONSTANTS
    N,             \* chunks of every file
    Files,         \* how many files are dropped, transferred in order
    ReceiveWindow, \* BulkTransferConfig.receiveWindowChunks
    ReadAhead,     \* BulkSendEngine.maxReadAheadChunks
    MaxSessions,   \* bound: sessions, the first included
    MaxFaults      \* bound: crashes, disk and read faults, edits of a source, cancels

ASSUME BulkAssumption ==
    /\ {N, Files, ReceiveWindow, ReadAhead, MaxSessions} \subseteq Nat \ {0}
    /\ ReceiveWindow <= 2 * ReadAhead
    /\ MaxFaults \in Nat

Transfers == 1..Files
Chunks == 0..(N - 1)

\* What a block of a staging file holds: nothing yet, the bytes the offer's
\* digest was taken over, bytes of a source changed since, or half a write.
Contents == {"absent", "offered", "changed", "torn"}
Durable == {"offered", "changed"}

\* Each creation of a transfer's staging file is a new inode.
Inodes == Transfers \X (1..MaxSessions)

VARIABLES
    queue,    \* the coordinator's entries, the head first
    sent,     \* transfers whose BulkComplete the client took
    client,   \* the head's BulkSendEngine
    sending,  \* chunk messages between supplyChunk's unlock and the stream
    changed,  \* transfers whose source file changed after its offer
    up, down, \* channel 8's ordered streams, to the host and to the client
    host,     \* the BulkReceiveEngine, with the shell's resume book
    todo,     \* the shell's pending disk operations
    replies,  \* messages the shell answered that are not yet sent
    part,     \* staging names on disk: transfer -> inode
    record,   \* resume records on disk: transfer -> chunks claimed
    blocks,   \* inode -> contents
    visible,  \* inodes linked under a name of their own
    refused,  \* history: the violations and refusals an end reported
    lost,     \* history: verified transfers whose promotion failed
    session, faults

clientVars == <<queue, sent, client, sending, changed>>
diskVars == <<part, record, blocks, visible>>
hostVars == <<host, todo, replies, diskVars>>
bulkVars == <<clientVars, up, down, hostVars, refused, lost, session, faults>>

Removed(f, t) == Restrict(f, DOMAIN f \ {t})
Put(f, t, x) == [u \in DOMAIN f \cup {t} |-> IF u = t THEN x ELSE f[u]]
Smaller(a, b) == IF a < b THEN a ELSE b
Larger(a, b) == IF a > b THEN a ELSE b

Fault == faults < MaxFaults /\ faults' = faults + 1

-----------------------------------------------------------------------------
(* The sending engine.                                                     *)

NoShell == [state |-> "idle", held |-> {}, credit |-> 0, issued |-> 0,
            unconfirmed |-> {}, outstanding |-> {}, cursor |-> 0]

\* Fault: the cursor stays where it was.
CursorStuck(cursor, reads) == cursor

\* The cursor only advances, so no chunk is read twice.
CursorPast(cursor, reads) ==
    IF reads = {} THEN cursor ELSE 1 + CHOOSE i \in reads : \A j \in reads : j <= i

\* issueReads: the next missing chunks from the cursor on, in order, as far as
\* the credit and the local ceiling reach.
IssueReads(c) ==
    LET waiting == c.unconfirmed \ c.held
        missing == {i \in Chunks : i >= c.cursor /\ i \notin c.held}
        room    == Smaller(c.credit - c.issued, ReadAhead - Cardinality(waiting))
        reads   == {i \in missing : Cardinality({j \in missing : j < i}) < room}
    IN [c EXCEPT !.unconfirmed = waiting \cup reads,
                 !.outstanding = @ \cup reads,
                 !.issued = @ + Cardinality(reads),
                 !.cursor = CursorPast(@, reads)]

\* After a report of what the host holds.
Informed(c, m) ==
    LET known == [c EXCEPT !.held = @ \cup m.held, !.credit = Larger(@, m.credit)]
    IN IF known.held = Chunks
       THEN [known EXCEPT !.state = "awaitingVerification", !.outstanding = {}]
       ELSE IF c.state = "awaitingVerification" THEN known
       ELSE IssueReads([known EXCEPT !.state = "transferring"])

\* The head's entry leaves the queue and the next may be offered.
Pop == /\ queue' = Tail(queue)
       /\ client' = NoShell

BulkInit ==
    /\ queue = [i \in 1..Files |-> i] /\ sent = {} /\ client = NoShell
    /\ sending = {} /\ changed = {} /\ up = <<>> /\ down = <<>>
    /\ host = [state |-> "awaitingOffer", id |-> 0, held |-> {}, start |-> {},
               granted |-> 0, consumed |-> 0, book |-> <<>>]
    /\ todo = <<>> /\ replies = <<>>
    /\ part = <<>> /\ record = <<>> /\ visible = {}
    /\ blocks = [x \in Inodes |-> [c \in Chunks |-> "absent"]]
    /\ refused = {} /\ lost = {} /\ session = 1 /\ faults = 0

\* beginShellLocked: offer the head, with the id it had in earlier sessions.
Begin ==
    /\ queue # <<>> /\ client.state = "idle"
    /\ client' = [NoShell EXCEPT !.state = "offering"]
    /\ up' = Append(up, [type |-> "offer", id |-> Head(queue)])
    /\ UNCHANGED <<queue, sent, sending, changed, down, hostVars, refused, lost, session, faults>>

\* A message from the host.  The coordinator drops one that names no active
\* transfer; the engine takes accept while offering, a report or the verdict
\* once accepted, and breaks off over anything else.
Expected(m) ==
    CASE m.type = "accept" -> client.state = "offering"
      [] m.type \in {"ack", "complete"} -> client.state \in {"transferring", "awaitingVerification"}
      [] OTHER -> TRUE

ClientIngest ==
    /\ down # <<>>
    /\ down' = Tail(down)
    /\ LET m == Head(down)
           active == client.state # "idle" /\ m.id = Head(queue)
       IN
       \/ /\ ~active
          /\ UNCHANGED <<queue, sent, client, up, refused>>
       \/ /\ active /\ ~Expected(m)
          /\ Pop
          /\ up' = Append(up, [type |-> "abort", id |-> m.id])
          /\ refused' = refused \cup {"unexpected answer"}
          /\ UNCHANGED sent
       \/ /\ active /\ Expected(m)
          /\ \/ m.type \in {"accept", "ack"} /\ client' = Informed(client, m)
                /\ UNCHANGED <<queue, sent>>
             \/ m.type = "complete" /\ Pop /\ sent' = sent \cup {m.id}
             \/ m.type = "abort" /\ Pop /\ UNCHANGED sent
          /\ UNCHANGED <<up, refused>>
    /\ UNCHANGED <<sending, changed, hostVars, lost, session, faults>>

\* A read completes.  supplyChunk decides under the shell's lock; the chunk is
\* handed to the stream after it is released, so other messages may go first.
SupplyChunk(c) ==
    /\ client.state = "transferring" /\ c \in client.outstanding /\ sending = {}
    /\ client' = [client EXCEPT !.outstanding = @ \ {c}]
    /\ sending' = {[type |-> "chunk", id |-> Head(queue), chunk |-> c,
                    data |-> IF Head(queue) \in changed THEN "changed" ELSE "offered"]}
    /\ UNCHANGED <<queue, sent, changed, up, down, hostVars, refused, lost, session, faults>>

SendChunk ==
    \E m \in sending :
        /\ up' = Append(up, m)
        /\ sending' = {}
        /\ UNCHANGED <<queue, sent, client, changed, down, hostVars, refused, lost, session, faults>>

\* A read fails: the shell cancels the transfer, and the next entry follows.
ReadFails(c) ==
    /\ client.state = "transferring" /\ c \in client.outstanding /\ sending = {}
    /\ Fault
    /\ Pop
    /\ up' = Append(up, [type |-> "abort", id |-> Head(queue)])
    /\ UNCHANGED <<sent, sending, changed, down, hostVars, refused, lost, session>>

\* cancelAll: the active transfer is cancelled and the queue cleared.
CancelAll ==
    /\ queue # <<>>
    /\ Fault
    /\ queue' = <<>> /\ client' = NoShell
    /\ up' = IF client.state = "idle" THEN up
             ELSE Append(up, [type |-> "abort", id |-> Head(queue)])
    /\ UNCHANGED <<sent, sending, changed, down, hostVars, refused, lost, session>>

\* The user edits the file the head was hashed from.
SourceChanges ==
    /\ queue # <<>> /\ Head(queue) \notin changed
    /\ Fault
    /\ changed' = changed \cup {Head(queue)}
    /\ UNCHANGED <<queue, sent, client, sending, up, down, hostVars, refused, lost, session>>

-----------------------------------------------------------------------------
(* The receiving engine and its shell.                                     *)

\* rearm: a terminal engine is replaced by a fresh one with the current book.
Rearmed(book) == [state |-> "awaitingOffer", id |-> 0, held |-> {}, start |-> {},
                  granted |-> 0, consumed |-> 0, book |-> book]

Answer(t, type, h) == [type |-> type, id |-> t, credit |-> h.granted, held |-> h.held]
Abort(t) == [type |-> "abort", id |-> t]

\* A disk operation the shell owes.
Do(op, t) == [op |-> op, id |-> t]
Store(m) == [op |-> "store", id |-> m.id, chunk |-> m.chunk, data |-> m.data]

\* cleanUpAborted for a reason that leaves the partial no future.
Discard(t) == /\ host' = Rearmed(Removed(host.book, t))
              /\ todo' = <<Do("drop part", t), Do("drop record", t)>>

IsComplete(h) == h.held = Chunks

\* Fault: a refresh waits for more than the window.
RefreshStepLate == ReceiveWindow + 1

\* How far a grant must move to be reported.
RefreshStep == Larger(1, ReceiveWindow \div 2)

\* creditActions: the last chunk ends in verification and a final report; a
\* grant that moved by half a window is reported; otherwise nothing is.
CreditActions(h) ==
    LET candidate == h.consumed + ReceiveWindow IN
       IF IsComplete(h)
       THEN LET v == [h EXCEPT !.state = "verifying", !.granted = Larger(@, candidate)]
            IN [host |-> v, todo |-> <<Do("verify", h.id)>>, replies |-> <<Answer(h.id, "ack", v)>>]
       ELSE IF candidate >= h.granted + RefreshStep
       THEN LET g == [h EXCEPT !.granted = candidate]
            IN [host |-> g, todo |-> <<>>, replies |-> <<Answer(h.id, "ack", g)>>]
       ELSE [host |-> h, todo |-> <<>>, replies |-> <<>>]

Credited(h) ==
    LET r == CreditActions(h) IN
    /\ host' = r.host
    /\ todo' = r.todo
    /\ replies' = replies \o r.replies

\* An offer.  A disk that cannot take it answers abort(storageFailure) and
\* keeps the staging file only if the book vouches for it.
RefuseOffer(t) ==
    /\ Fault
    /\ host' = Rearmed(host.book)
    /\ todo' = IF t \in DOMAIN host.book THEN <<>> ELSE <<Do("drop part", t)>>
    /\ replies' = Append(replies, Abort(t))
    /\ UNCHANGED part

AcceptOffer(t) ==
    LET known == IF t \in DOMAIN host.book THEN host.book[t] ELSE {}
        opened == [host EXCEPT !.id = t, !.held = known, !.start = known]
        h == IF known = Chunks THEN [opened EXCEPT !.state = "verifying"]
             ELSE [opened EXCEPT !.state = "receiving", !.granted = ReceiveWindow]
    IN /\ host' = h
       /\ todo' = IF known = Chunks THEN <<Do("verify", t)>> ELSE <<>>
       /\ replies' = Append(replies, Answer(t, "accept", h))
       /\ part' = IF t \in DOMAIN part THEN part ELSE Put(part, t, <<t, session>>)
       /\ UNCHANGED faults

\* A violation aborts the transfer under way; with none, nobody is told.
Violate(kind) ==
    /\ refused' = refused \cup {kind}
    /\ IF host.state = "awaitingOffer" THEN UNCHANGED <<host, todo, replies>>
       ELSE /\ Discard(host.id)
            /\ replies' = Append(replies, Abort(host.id))

\* consumedChunkCount + pendingStores.count: between messages nothing is pending.
AdmissionDebt == host.consumed

IngestOffer(m) ==
    IF host.state # "awaitingOffer"
    THEN /\ replies' = Append(replies, Abort(m.id))
         /\ refused' = refused \cup {"busy"}
         /\ UNCHANGED <<host, todo, part, faults>>
    ELSE /\ AcceptOffer(m.id) \/ RefuseOffer(m.id)
         /\ UNCHANGED refused

IngestChunk(m) ==
    /\ IF host.state # "receiving" THEN Violate("unexpected chunk")
       ELSE IF m.id # host.id THEN Violate("foreign transfer")
       ELSE IF AdmissionDebt >= host.granted THEN Violate("credit exceeded")
       ELSE IF m.chunk \in host.held
            THEN IF m.chunk \in host.start
                 THEN Credited([host EXCEPT !.consumed = @ + 1]) /\ UNCHANGED refused
                 ELSE Violate("duplicate chunk")
       ELSE /\ todo' = <<Store(m)>>
            /\ UNCHANGED <<host, replies, refused>>
    /\ UNCHANGED <<part, faults>>

IngestAbort(m) ==
    /\ IF host.state = "awaitingOffer" THEN UNCHANGED <<host, todo, replies, refused>>
       ELSE IF m.id # host.id THEN Violate("foreign transfer")
       ELSE Discard(m.id) /\ UNCHANGED <<replies, refused>>
    /\ UNCHANGED <<part, faults>>

HostIngest ==
    /\ up # <<>> /\ todo = <<>>
    /\ up' = Tail(up)
    /\ LET m == Head(up) IN
       \/ m.type = "offer" /\ IngestOffer(m)
       \/ m.type = "chunk" /\ IngestChunk(m)
       \/ m.type = "abort" /\ IngestAbort(m)
    /\ UNCHANGED <<clientVars, down, record, blocks, visible, lost, session>>

\* Fault: the chunk whose write failed is claimed with the others.
FailStorageClaiming ==
    LET claim == IF Head(todo).op = "store" THEN host.held \cup {Head(todo).chunk} ELSE host.held IN
    /\ Fault
    /\ record' = Put(record, host.id, claim)
    /\ host' = Rearmed(Put(host.book, host.id, claim))
    /\ todo' = <<>>
    /\ replies' = Append(replies, Abort(host.id))

\* A disk refusal mid-transfer: what the engine vouches for is persisted (the
\* write of the record may fail too), and kept with the staging file.
FailStorage ==
    /\ Fault
    /\ \E persisted \in BOOLEAN :
           record' = IF persisted THEN Put(record, host.id, host.held) ELSE record
    /\ host' = Rearmed(Put(host.book, host.id, host.held))
    /\ todo' = <<>>
    /\ replies' = Append(replies, Abort(host.id))

\* A write cut short; one that repeats the bytes already there changes none.
CutShort(w) ==
    [blocks EXCEPT ![part[w.id]][w.chunk] = IF @ = w.data THEN @ ELSE "torn"]

\* writeChunkDurably, then chunkStored.
StoreChunk ==
    /\ todo # <<>> /\ Head(todo).op = "store"
    /\ LET w == Head(todo)
       IN \/ /\ blocks' = [blocks EXCEPT ![part[w.id]][w.chunk] = w.data]
             /\ Credited([host EXCEPT !.held = @ \cup {w.chunk}, !.consumed = @ + 1])
             /\ UNCHANGED <<record, faults>>
          \/ /\ blocks' = CutShort(w)
             /\ FailStorage
    /\ UNCHANGED <<clientVars, up, down, part, visible, refused, lost, session>>

\* Fault: a staging file of the full length passes.
DigestOfLength(t) == \A c \in Chunks : blocks[part[t]][c] # "absent"

\* The digest of the whole staging file is the offer's.
DigestMatches(t) == \A c \in Chunks : blocks[part[t]][c] = "offered"

Verify ==
    /\ todo # <<>> /\ Head(todo).op = "verify"
    /\ LET t == Head(todo).id IN
       \/ /\ IF DigestMatches(t)
             THEN /\ replies' = Append(replies, [type |-> "complete", id |-> t])
                  /\ todo' = <<Do("link", t)>>
                  /\ UNCHANGED host
             ELSE /\ replies' = Append(replies, Abort(t))
                  /\ Discard(t)
          /\ UNCHANGED <<record, faults>>
       \/ FailStorage
    /\ UNCHANGED <<clientVars, up, down, part, blocks, visible, refused, lost, session>>

\* promoteStaging links the verified file to a free name and unlinks the
\* staging name.  When no name takes it the staging file goes; either way the
\* resume record goes last and the engine is re-armed.
Link ==
    /\ todo # <<>> /\ Head(todo).op = "link"
    /\ LET t == Head(todo).id IN
       /\ \/ visible' = visible \cup {part[t]} /\ UNCHANGED <<lost, faults>>
          \/ Fault /\ lost' = lost \cup {t} /\ UNCHANGED visible
       /\ Discard(t)
    /\ UNCHANGED <<clientVars, up, down, replies, part, record, blocks, refused, session>>

DropPart ==
    /\ todo # <<>> /\ Head(todo).op = "drop part"
    /\ part' = Removed(part, Head(todo).id)
    /\ todo' = Tail(todo)
    /\ UNCHANGED <<clientVars, up, down, host, replies, record, blocks, visible, refused, lost, session, faults>>

DropRecord ==
    /\ todo # <<>> /\ Head(todo).op = "drop record"
    /\ record' = Removed(record, Head(todo).id)
    /\ todo' = Tail(todo)
    /\ UNCHANGED <<clientVars, up, down, host, replies, part, blocks, visible, refused, lost, session, faults>>

\* Fault: each answer leaves at once, before the disk operations behind it.
SendRepliesAtOnce ==
    /\ replies # <<>>
    /\ down' = down \o replies
    /\ replies' = <<>>
    /\ UNCHANGED <<clientVars, up, host, todo, diskVars, refused, lost, session, faults>>

\* driveBulkShell sends the answers once its batch of messages is answered.
SendReplies ==
    /\ todo = <<>> /\ replies # <<>>
    /\ down' = down \o replies
    /\ replies' = <<>>
    /\ UNCHANGED <<clientVars, up, host, todo, diskVars, refused, lost, session, faults>>

-----------------------------------------------------------------------------
(* Sessions and crashes.                                                   *)

\* The next session's shell reads the records back; one without its staging
\* file is removed.
NextSession(left) ==
    LET loaded == Restrict(left, DOMAIN left \cap DOMAIN part) IN
    /\ session < MaxSessions /\ session' = session + 1
    /\ record' = loaded
    /\ host' = Rearmed(loaded)
    /\ client' = NoShell /\ sending' = {}
    /\ up' = <<>> /\ down' = <<>> /\ todo' = <<>> /\ replies' = <<>>

\* The session goes down: what is in flight is gone, a transfer under way is
\* persisted, and the client's entry stays at the head of the queue.
SessionEnds ==
    /\ todo = <<>>
    /\ NextSession(IF host.state = "awaitingOffer" THEN record
                   ELSE Put(record, host.id, host.held))
    /\ UNCHANGED <<queue, sent, changed, part, blocks, visible, refused, lost, faults>>

\* kill -9 between any two disk operations, or half way through a write.
HostCrashes ==
    /\ Fault
    /\ NextSession(record)
    /\ \/ UNCHANGED blocks
       \/ /\ todo # <<>> /\ Head(todo).op = "store"
          /\ blocks' = CutShort(Head(todo))
    /\ UNCHANGED <<queue, sent, changed, part, visible, refused, lost>>

-----------------------------------------------------------------------------
ClientSteps == Begin \/ ClientIngest \/ SendChunk \/ \E c \in Chunks : SupplyChunk(c)
HostSteps == HostIngest \/ StoreChunk \/ Verify \/ Link \/ DropPart \/ DropRecord \/ SendReplies
Disturbances == \/ \E c \in Chunks : ReadFails(c)
                \/ CancelAll \/ SourceChanges \/ SessionEnds \/ HostCrashes

BulkNext == ClientSteps \/ HostSteps \/ Disturbances

BulkSpec == BulkInit /\ [][BulkNext]_bulkVars

\* Both ends' threads go on; sessions end only as often as the bound allows.
BulkFairSpec == BulkSpec /\ WF_bulkVars(ClientSteps) /\ WF_bulkVars(HostSteps)

-----------------------------------------------------------------------------
(* Properties.                                                             *)

\* Both engines, the streams between them and the disk are well formed.
BulkTypeOK ==
    /\ \E i \in 0..Files : queue = [j \in 1..(Files - i) |-> i + j]
    /\ {sent, changed, lost, DOMAIN part, DOMAIN record, DOMAIN host.book} \subseteq SUBSET Transfers
    /\ client.state \in {"idle", "offering", "transferring", "awaitingVerification"}
    /\ client.outstanding \subseteq client.unconfirmed
    /\ client.unconfirmed \subseteq Chunks /\ client.held \subseteq Chunks
    /\ client.issued <= N /\ client.cursor \in 0..N
    /\ host.state \in {"awaitingOffer", "receiving", "verifying"}
    /\ host.state = "receiving" => host.id \in DOMAIN part /\ host.held # Chunks
    /\ host.start \subseteq host.held /\ host.consumed \in 0..N
    /\ \A x \in Inodes, c \in Chunks : blocks[x][c] \in Contents
    /\ visible \subseteq Inodes
    /\ session \in 1..MaxSessions /\ faults \in 0..MaxFaults

\* Possession never claims a byte the disk could still lose: what the engine
\* holds, what its book and the records on disk claim, and what the client was
\* told is held, is durably in the staging file, whatever was torn, refused or
\* cut off by a crash.
PossessionDurable ==
    LET Has(t, claim) == t \in DOMAIN part /\ \A c \in claim : blocks[part[t]][c] \in Durable
    IN /\ host.state # "awaitingOffer" => Has(host.id, host.held)
       /\ \A t \in DOMAIN host.book : Has(t, host.book[t])
       /\ \A t \in DOMAIN record \cap DOMAIN part : Has(t, record[t])
       /\ host.state = "receiving" /\ client.state # "idle" /\ host.id = Head(queue)
            => client.held \subseteq host.held

\* A file the client was told is complete is in the drop directory under a
\* name of its own (unless no name took it), although the host may die between
\* the verdict and the link.
SentIsVisible ==
    \A t \in sent \ lost : \E x \in visible : x[1] = t

\* Nothing the host has said of a transfer outruns its disk: neither a claim
\* of possession nor a completion.
SaidIsStored == PossessionDurable /\ SentIsVisible

\* Only the offered bytes are ever promoted, although the staging file may mix
\* chunks of several sessions, torn writes and a source that changed.
PromotedVerified ==
    [][\A x \in visible' \ visible : \A c \in Chunks : blocks'[x][c] = "offered"]_bulkVars

\* What an honest client sends is never taken for a breach: it never exceeds
\* its credit, never repeats a chunk, never finds the host busy, and an honest
\* host's answers are never unexpected, over any aborts, resumes and crashes.
\* (A chunk that outlives its transfer is; see SendChunk.)
HonestNeverRefused ==
    refused \subseteq {"unexpected chunk", "foreign transfer"}

\* A torn session costs nothing but what was in flight: without a crash or a
\* refusal no chunk is stored twice, however many sessions a file takes.
NothingStoredTwice ==
    faults = 0 /\ todo # <<>> /\ Head(todo).op = "store" =>
        blocks[part[Head(todo).id]][Head(todo).chunk] = "absent"

\* Credit, read-ahead and resumes never leave the two ends waiting for each
\* other: every dropped file is sent, failed or cancelled.
EventuallySettles == <>(queue = <<>>)

\* BulkFileStore.swift:11-15: "a kill -9 at any instant leaves the dotted
\* staging pair or the finished file, never a visible partial".
VisibleIsWhole ==
    \A x \in visible, c \in Chunks : blocks[x][c] = "offered"

=============================================================================
