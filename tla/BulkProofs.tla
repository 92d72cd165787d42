----------------------------- MODULE BulkProofs -----------------------------
(***************************************************************************)
(* Proofs about BulkTransfer: a file handed from the client to the host    *)
(* over the ordered stream, with a resume book that survives sessions and  *)
(* crashes.  What the properties say (the host claims only what is         *)
(* durable, it promotes only what it verified, an honest client is never   *)
(* refused) is not inductive.  The invariant BulkInv has four parts:       *)
(*                                                                         *)
(*   Shape   what each variable may hold, and which disk work the state    *)
(*           of the host's engine may leave owing;                         *)
(*   Disk    what the engine, its book and the records claim is durable,   *)
(*           a link is owed only for a part that was verified, and a       *)
(*           completion said is a file shown (or lost to another hand);    *)
(*   Turns   the order of the conversation: the offers, acceptances and    *)
(*           verdicts under way, and which transfer each end is at.  That  *)
(*           an offer never meets a busy host rests on it;                 *)
(*   Counts  the credit: every chunk under way, being stored or stored     *)
(*           since the offer was granted, and none is sent twice.  That a  *)
(*           chunk never meets an exhausted grant rests on it.             *)
(*                                                                         *)
(* Disk needs Shape alone, Turns needs Shape, and Counts needs both Shape  *)
(* and Turns.  For the last two the steps of the model are first sorted    *)
(* into the turns of the conversation (ClientTurn, HostTurn), which say    *)
(* only what a step does to the streams and the states of the two ends.    *)
(***************************************************************************)
EXTENDS BulkTransfer, BasicLemmas, FiniteSetTheorems

\* The transfer the host's engine is at, and the one the client's is.
Hosting(t) == host.state # "awaitingOffer" /\ host.id = t
Active(t) == client.state # "idle" /\ t = Head(queue)

\* Everything the host has said and the client has not heard.
Answers == down \o replies

-----------------------------------------------------------------------------
(* The shape of the state.                                                 *)

Books == UNION {[D -> SUBSET Chunks] : D \in SUBSET Transfers}

OfferMessage == [type : {"offer"}, id : Transfers]
AbortMessage == [type : {"abort"}, id : Transfers]
ChunkMessage == [type : {"chunk"}, id : Transfers, chunk : Chunks, data : Durable]
ReportMessage ==
    [type : {"accept", "ack"}, id : Transfers, credit : Nat, held : SUBSET Chunks]
CompleteMessage == [type : {"complete"}, id : Transfers]

ToHost == OfferMessage \cup AbortMessage \cup ChunkMessage
ToClient == ReportMessage \cup CompleteMessage \cup AbortMessage

ClientRecord ==
    [state : {"idle", "offering", "transferring", "awaitingVerification"},
     held : SUBSET Chunks, credit : Nat, issued : Nat,
     unconfirmed : SUBSET Chunks, outstanding : SUBSET Chunks, cursor : 0..N]

HostRecord ==
    [state : {"awaitingOffer", "receiving", "verifying"}, id : Nat,
     held : SUBSET Chunks, start : SUBSET Chunks,
     granted : Nat, consumed : Nat, book : Books]

\* The queue counts up to the last file.
QueueInOrder ==
    /\ queue \in Seq(Transfers)
    /\ Len(queue) <= Files
    /\ \A j \in 1..Len(queue) : queue[j] = Files - Len(queue) + j

\* The disk operations each state of the engine can owe.
TodoFits ==
    CASE host.state = "receiving" ->
            todo = <<>> \/ \E c \in Chunks \ host.held, d \in Durable :
                todo = <<[op |-> "store", id |-> host.id,
                          chunk |-> c, data |-> d]>>
      [] host.state = "verifying" ->
            todo = <<Do("verify", host.id)>> \/ todo = <<Do("link", host.id)>>
      [] OTHER ->
            todo = <<>> \/ \E t \in Transfers :
                todo \in {<<Do("drop part", t), Do("drop record", t)>>,
                          <<Do("drop part", t)>>, <<Do("drop record", t)>>}

ClientShape ==
    /\ QueueInOrder
    /\ sent \subseteq Transfers /\ changed \subseteq Transfers
    /\ client \in ClientRecord
    /\ client.state = "idle" => client = NoShell
    /\ client.state = "offering" => client = [NoShell EXCEPT !.state = "offering"]
    /\ client.state # "idle" => queue # <<>>
    /\ sending = {} \/ \E m \in ChunkMessage : sending = {m}

StreamShape ==
    up \in Seq(ToHost) /\ down \in Seq(ToClient) /\ replies \in Seq(ToClient)

HostShape ==
    /\ host \in HostRecord
    /\ host.state # "awaitingOffer" => host.id \in Transfers
    /\ host.state = "awaitingOffer" => host.consumed = 0
    /\ host.state = "receiving" => host.held # Chunks
    /\ host.start \subseteq host.held
    /\ TodoFits

DiskShape ==
    /\ part \in UNION {[D -> Inodes] : D \in SUBSET Transfers}
    /\ record \in Books
    /\ blocks \in [Inodes -> [Chunks -> Contents]]
    /\ visible \subseteq Inodes /\ lost \subseteq Transfers
    /\ session \in 1..MaxSessions /\ faults \in 0..MaxFaults

Shape == ClientShape /\ StreamShape /\ HostShape /\ DiskShape

-----------------------------------------------------------------------------
(* The disk.                                                               *)

\* The part of t is there and durable in every chunk of the claim.
Has(t, claim) ==
    t \in DOMAIN part /\ \A c \in claim : blocks[part[t]][c] \in Durable

Owes(list, op, t) == \E i \in 1..Len(list) : list[i] = Do(op, t)

Shown(t) == t \in lost \/ \E x \in visible : x[1] = t

\* No two transfers share a part.
NamesDistinct == \A t \in DOMAIN part : part[t][1] = t

\* The disk has what the engine holds,
EngineDurable == host.state # "awaitingOffer" => Has(host.id, host.held)

\* what its book says, and no part the book names is about to go,
BookDurable ==
    \A t \in DOMAIN host.book :
        /\ Has(t, host.book[t])
        /\ Hosting(t) => host.book[t] \subseteq host.start
        /\ ~Owes(todo, "drop part", t)

\* and what a record says, as long as its part is there; a record the book does
\* not vouch for is about to go.
RecordDurable ==
    \A t \in DOMAIN record :
        /\ t \in DOMAIN part => Has(t, record[t])
        /\ \/ t \in DOMAIN host.book /\ record[t] \subseteq host.book[t]
           \/ Owes(todo, "drop record", t)

\* Only a verified part is about to be linked.
LinkVerified == \A t \in Transfers : Owes(todo, "link", t) => DigestMatches(t)

\* A completion under way is of a file that is shown, or waits for its link.
CompletesShown ==
    \A i \in 1..Len(Answers) : Answers[i].type = "complete" =>
        \/ Shown(Answers[i].id)
        \/ todo = <<Do("link", Answers[i].id)>> /\ i > Len(down)

SentShown == \A t \in sent : Shown(t)

Disk ==
    /\ NamesDistinct /\ EngineDurable /\ BookDurable /\ RecordDurable
    /\ LinkVerified /\ CompletesShown /\ SentShown

-----------------------------------------------------------------------------
(* The turns of the conversation.                                          *)

\* The number of files offered so far: they are offered in order.
Offered == Files - Len(queue) + (IF client.state = "idle" THEN 0 ELSE 1)

Offer(t) == [type |-> "offer", id |-> t]
IsChunk(m, t) == m.type = "chunk" /\ m.id = t
NoChunk(t) == /\ \A i \in 1..Len(up) : ~IsChunk(up[i], t)
              /\ \A m \in sending : m.id # t
IsFinal(m) == m.type \in {"abort", "complete"}

\* Nobody speaks of a file that has not been offered.
InPlay ==
    /\ \A i \in 1..Len(up) : up[i].id <= Offered
    /\ \A i \in 1..Len(Answers) : Answers[i].id <= Offered
    /\ \A m \in sending : m.id <= Offered
    /\ host.state # "awaitingOffer" => host.id <= Offered

\* An offer behind another names the next transfer, and the first is aborted
\* between the two.
OffersApart ==
    \A i, j \in 1..Len(up) :
        i < j /\ up[i].type = "offer" /\ up[j].type = "offer" =>
            /\ up[i].id # up[j].id
            /\ \E k \in 1..Len(up) : i < k /\ k < j /\ up[k] = Abort(up[i].id)

\* An offer under way is the client's, or an abort follows it.
OffersOpen ==
    \A i \in 1..Len(up) : up[i].type = "offer" =>
        \/ Active(up[i].id) /\ client.state = "offering"
        \/ /\ ~Active(up[i].id)
           /\ \E k \in 1..Len(up) : i < k /\ up[k] = Abort(up[i].id)

\* Nothing of the transfer has been said before its offer arrives.
OffersFresh ==
    \A i \in 1..Len(up) : up[i].type = "offer" =>
        NoChunk(up[i].id) /\ \A k \in 1..Len(Answers) : Answers[k].id # up[i].id

\* What the host receives ends before the next offer reaches it.
OffersWait ==
    host.state # "awaitingOffer" =>
        \A i \in 1..Len(up) : up[i].type = "offer" =>
            /\ up[i].id # host.id
            /\ \E k \in 1..Len(up) : k < i /\ up[k] = Abort(host.id)

Offers == OffersApart /\ OffersOpen /\ OffersFresh /\ OffersWait

\* The client still wants what the host receives, or has said otherwise.
HostWanted ==
    host.state # "awaitingOffer" =>
        Active(host.id) \/ \E k \in 1..Len(up) : up[k] = Abort(host.id)

\* After its verdict a transfer is no longer the host's.
VerdictsLast ==
    \A i \in 1..Len(Answers) : IsFinal(Answers[i]) =>
        \/ ~Hosting(Answers[i].id)
        \/ todo = <<Do("link", Answers[i].id)>> /\ i > Len(down)

Verdicts == HostWanted /\ VerdictsLast

\* A transfer is accepted once, and the client has not yet heard it.
AcceptsOnce ==
    \A i \in 1..Len(Answers) : Answers[i].type = "accept" =>
        /\ Active(Answers[i].id) => client.state = "offering"
        /\ \A j \in 1..Len(Answers) :
              Answers[j].type = "accept" /\ Answers[j].id = Answers[i].id => j = i

\* While the client offers it has sent no chunk, and what the host has said of
\* the transfer began with an accept.
OfferingQuiet ==
    client.state = "offering" =>
        /\ NoChunk(Head(queue))
        /\ Hosting(Head(queue)) =>
              /\ host.held = host.start
              /\ host.state = "receiving" => todo = <<>>
              /\ \E j \in 1..Len(Answers) :
                    Answers[j].type = "accept" /\ Answers[j].id = host.id
        /\ \A i \in 1..Len(Answers) : Answers[i].id = Head(queue) =>
              /\ Answers[i].type # "ack"
              /\ Answers[i].type = "complete" =>
                    \E j \in 1..Len(Answers) :
                        j < i /\ Answers[j].type = "accept"
                            /\ Answers[j].id = Head(queue)

Accepts == AcceptsOnce /\ OfferingQuiet

Turns == InPlay /\ Offers /\ Verdicts /\ Accepts

-----------------------------------------------------------------------------
(* The account of the credit.                                              *)

\* The chunks of a transfer in a stream and in what is being handed to it.
ChunksOf(u, s, t) ==
    {u[i].chunk : i \in {j \in 1..Len(u) : IsChunk(u[j], t)}}
        \cup {m.chunk : m \in {n \in s : n.id = t}}

\* Each of them is there once.
Once(u, s, t) ==
    /\ \A i, j \in 1..Len(u) :
          i # j /\ IsChunk(u[i], t) /\ IsChunk(u[j], t) => u[i].chunk # u[j].chunk
    /\ \A i \in 1..Len(u), m \in s :
          IsChunk(u[i], t) /\ m.id = t => u[i].chunk # m.chunk

Receiving == host.state = "receiving"
Busy == client.state \in {"transferring", "awaitingVerification"}

\* The chunks on their way to the host, those it is storing, and everything its
\* grant has been spent on.
Flying == ChunksOf(up, sending, host.id)
Storing == {todo[i].chunk : i \in {j \in 1..Len(todo) : todo[j].op = "store"}}
Spent == (host.held \ host.start) \cup Storing \cup Flying

\* What the client reads it has not read before, and no report makes it void.
Reading ==
    Busy =>
        /\ client.outstanding \subseteq client.unconfirmed
        /\ \A c \in client.outstanding : c < client.cursor /\ c \notin client.held
        /\ client.issued <= client.cursor
        /\ \A i \in 1..Len(Answers) :
              Answers[i].type = "ack" /\ Answers[i].id = Head(queue) =>
                  /\ Answers[i].held \cap client.outstanding = {}
                  /\ \A c \in Answers[i].held : c < client.cursor
                      \/ c \in client.held

\* The engine has counted what it stored since the offer.
Consumed ==
    host.state # "awaitingOffer" =>
        host.consumed = Cardinality(host.held \ host.start)

\* No chunk under way is one the host has.
ChunksApart ==
    Receiving =>
        Once(up, sending, host.id) /\ Flying \cap (host.held \cup Storing) = {}

\* All of them fit into the grant.
SpentGranted == Receiving => Cardinality(Spent) <= host.granted

\* No report under way says more than the host can answer for.
ReportsFit ==
    Receiving =>
        \A i \in 1..Len(Answers) :
            Answers[i].id = host.id /\ Answers[i].type \in {"accept", "ack"} =>
                /\ host.start \subseteq Answers[i].held
                /\ Answers[i].held \subseteq host.held
                /\ Answers[i].credit <= host.granted

\* The client's account of the transfer agrees with the host's.
InStep ==
    Receiving /\ Busy /\ host.id = Head(queue) =>
        /\ host.start \subseteq client.held /\ client.held \subseteq host.held
        /\ client.outstanding \cap (Spent \cup host.start) = {}
        /\ \A c \in Spent : c < client.cursor
        /\ Cardinality(Spent \cup client.outstanding) <= client.issued
        /\ client.issued <= client.credit
        /\ client.credit <= host.granted

Counts == Reading /\ Consumed /\ ChunksApart /\ SpentGranted /\ ReportsFit /\ InStep

\* The inductive invariant.
BulkInv == Shape /\ Disk /\ Turns /\ Counts

-----------------------------------------------------------------------------

(***************************************************************************)
(* Of a set of naturals, those with fewer than k of the set below them are *)
(* at most k.                                                              *)
(***************************************************************************)
LEMMA FirstFew ==
  ASSUME NEW n \in Nat, NEW M \in SUBSET (0 .. (n - 1)), NEW k \in Int,
         NEW F, F = {i \in M : Cardinality({j \in M : j < i}) < k}
  PROVE  F # {} => Cardinality(F) <= k
<1> DEFINE R == [i \in F |-> Cardinality({j \in M : j < i}) + 1]
<1>0. IsFiniteSet(0 .. (n - 1)) /\ IsFiniteSet(M)
  <2>1. IsFiniteSet(0 .. (n - 1))
    BY FS_Interval
  <2> QED
    BY <2>1, FS_Subset
<1>1. \A i \in M : Cardinality({j \in M : j < i}) \in Nat
  <2> TAKE i \in M
  <2>1. {j \in M : j < i} \in SUBSET M
    OBVIOUS
  <2>2. IsFiniteSet({j \in M : j < i})
    BY <1>0, <2>1, FS_Subset
  <2> QED
    BY <2>2, FS_CardinalityType
<1>2. R \in [F -> 1 .. k]
  <2>1. \A i \in F : R[i] \in 1 .. k
    BY <1>1
  <2> QED
    BY <2>1
<1>3. ASSUME NEW a \in F, NEW b \in F, a < b
      PROVE  R[a] < R[b]
  <2> DEFINE A == {j \in M : j < a}
  <2> DEFINE B == {j \in M : j < b}
  <2>1. A \in SUBSET B /\ a \in B /\ a \notin A
    <3>1. a \in M /\ b \in M /\ M \subseteq Int /\ a \in Int /\ b \in Int
      OBVIOUS
    <3>2. \A j \in Int : j < a => j < b
      BY <1>3, <3>1
    <3>3. ~ (a < a)
      BY <3>1
    <3> HIDE DEF R
    <3>4. A \subseteq B
      BY <3>1, <3>2, Zenon
    <3>5. a \in B /\ a \notin A
      BY <1>3, <3>1, <3>3, Zenon
    <3> QED
      BY <3>4, <3>5
  <2>2. IsFiniteSet(B)
    <3>1. B \in SUBSET M
      OBVIOUS
    <3> QED
      BY <1>0, <3>1, FS_Subset
  <2>3. Cardinality(A) <= Cardinality(B)
          /\ (Cardinality(B) = Cardinality(A) => B = A)
    BY <2>1, <2>2, FS_Subset
  <2>4. Cardinality(A) \in Nat /\ Cardinality(B) \in Nat
    BY <1>1
  <2>5. Cardinality(A) < Cardinality(B)
    <3>1. B # A
      BY <2>1
    <3> HIDE DEF A, B
    <3> QED
      BY <2>3, <2>4, <3>1
  <2>6. R[a] = Cardinality(A) + 1 /\ R[b] = Cardinality(B) + 1
    OBVIOUS
  <2> HIDE DEF A, B, R
  <2> QED
    BY <2>4, <2>5, <2>6
<1>4. R \in Injection(F, 1 .. k)
  <2>1. \A a, b \in F : a # b => R[a] # R[b]
    <3> TAKE a, b \in F
    <3> HAVE a # b
    <3>1. a < b \/ b < a
      OBVIOUS
    <3>2. R[a] \in Int /\ R[b] \in Int
      BY <1>2
    <3> HIDE DEF R
    <3>3. CASE a < b
      BY <1>3, <3>2, <3>3
    <3>4. CASE b < a
      BY <1>3, <3>2, <3>4
    <3> QED
      BY <3>1, <3>3, <3>4
  <2> HIDE DEF R
  <2> QED
    BY <1>2, <2>1, Zenon DEF Injection, IsInjective
<1>5. ASSUME F # {} PROVE Cardinality(F) <= k
  <2>1. k >= 1
    <3>1. PICK x \in F : TRUE
      BY <1>5
    <3>2. R[x] \in 1 .. k
      BY <1>2, <3>1
    <3> HIDE DEF R
    <3> QED
      BY <3>2
  <2>2. IsFiniteSet(1 .. k) /\ Cardinality(1 .. k) = k
    BY <2>1, FS_Interval
  <2> HIDE DEF R
  <2> QED
    BY <1>4, <2>2, FS_Injection
<1> QED
  BY <1>5

(***************************************************************************)
(* What issueReads does: it takes chunks at or past the cursor that are    *)
(* not known to be held, as many as the credit lets it, and moves the      *)
(* cursor past them.                                                       *)
(***************************************************************************)
LEMMA IssueReadsTakes ==
  ASSUME NEW c \in ClientRecord
  PROVE  \E reads \in SUBSET Chunks :
            LET d == IssueReads(c) IN
            /\ d \in ClientRecord
            /\ d.state = c.state /\ d.held = c.held /\ d.credit = c.credit
            /\ d.outstanding = c.outstanding \cup reads
            /\ d.unconfirmed = (c.unconfirmed \ c.held) \cup reads
            /\ d.issued = c.issued + Cardinality(reads)
            /\ IsFiniteSet(reads) /\ Cardinality(reads) \in Nat
            /\ reads # {} => d.issued <= d.credit
            /\ d.cursor >= c.cursor
            /\ \A i \in reads : c.cursor <= i /\ i < d.cursor /\ i \notin c.held
            /\ Cardinality(reads) <= d.cursor - c.cursor
<1> USE BulkAssumption
<1> DEFINE waiting == c.unconfirmed \ c.held
           missing == {i \in Chunks : i >= c.cursor /\ i \notin c.held}
           room    == Smaller(c.credit - c.issued, ReadAhead - Cardinality(waiting))
           reads   == {i \in missing : Cardinality({j \in missing : j < i}) < room}
           d       == IssueReads(c)
<1>1. d = [c EXCEPT !.unconfirmed = waiting \cup reads,
                 !.outstanding = @ \cup reads,
                 !.issued = @ + Cardinality(reads),
                 !.cursor = CursorPast(@, reads)]
  BY DEF IssueReads
<1>2. N \in Nat /\ Chunks \subseteq Nat /\ missing \in SUBSET (0 .. (N - 1))
        /\ reads \in SUBSET Chunks
  BY DEF Chunks
<1>3. IsFiniteSet(Chunks)
  BY <1>2, FS_Interval DEF Chunks
<1>4. IsFiniteSet(reads) /\ Cardinality(reads) \in Nat
  BY <1>2, <1>3, FS_Subset, FS_CardinalityType
<1>5. IsFiniteSet(waiting) /\ Cardinality(waiting) \in Nat
        /\ waiting \in SUBSET Chunks
  <2>1. waiting \in SUBSET Chunks
    BY DEF ClientRecord
  <2> QED
    BY <2>1, <1>3, FS_Subset, FS_CardinalityType
<1>6. c.credit \in Nat /\ c.issued \in Nat /\ c.cursor \in 0 .. N
  BY DEF ClientRecord
<1>7. room \in Int /\ room <= c.credit - c.issued
  <2> HIDE DEF waiting
  <2> QED
    BY <1>5, <1>6 DEF Smaller
<1>8. reads # {} => Cardinality(reads) <= room
  <2> HIDE DEF missing, room
  <2> QED
    BY <1>2, <1>7, FirstFew
<1>9. \A i \in reads : c.cursor <= i /\ i \notin c.held
  OBVIOUS
<1> HIDE DEF waiting, missing, room, reads, d
<1>10. /\ CursorPast(c.cursor, reads) \in 0 .. N
          /\ CursorPast(c.cursor, reads) >= c.cursor
       /\ \A i \in reads : i < CursorPast(c.cursor, reads)
  <2>1. CASE reads = {}
    BY <1>6, <2>1 DEF CursorPast
  <2>2. CASE reads # {}
    <3> DEFINE m == CHOOSE i \in reads : \A j \in reads : j <= i
    <3>1. reads \subseteq Nat /\ \A i \in reads : i <= N
      BY <1>2 DEF Chunks
    <3>2. \E i \in reads : \A j \in reads : j <= i
      BY <1>2, <2>2, <3>1, GreatestElement
    <3>3. m \in reads /\ \A j \in reads : j <= m
      BY <3>2
    <3>4. CursorPast(c.cursor, reads) = 1 + m
      BY <2>2 DEF CursorPast
    <3>5. m \in 0 .. (N - 1) /\ m >= c.cursor
      BY <1>2, <1>9, <3>3 DEF Chunks
    <3> HIDE DEF m
    <3> QED
      BY <1>2, <1>6, <3>1, <3>3, <3>4, <3>5
  <2> QED
    BY <2>1, <2>2
<1>11. /\ d.state = c.state /\ d.held = c.held /\ d.credit = c.credit
       /\ d.outstanding = c.outstanding \cup reads
       /\ d.unconfirmed = waiting \cup reads
       /\ d.issued = c.issued + Cardinality(reads)
       /\ d.cursor = CursorPast(c.cursor, reads)
       /\ d \in ClientRecord
  <2>1. /\ d.state = c.state /\ d.held = c.held /\ d.credit = c.credit
        /\ d.outstanding = c.outstanding \cup reads
        /\ d.unconfirmed = waiting \cup reads
        /\ d.issued = c.issued + Cardinality(reads)
        /\ d.cursor = CursorPast(c.cursor, reads)
    BY <1>1 DEF ClientRecord
  <2>2. d.outstanding \in SUBSET Chunks /\ d.unconfirmed \in SUBSET Chunks
    BY <1>2, <1>5, <2>1 DEF ClientRecord
  <2>3. d.issued \in Nat /\ d.cursor \in 0 .. N
    BY <1>4, <1>6, <1>10, <2>1
  <2>4. d = [state |-> d.state, held |-> d.held, credit |-> d.credit,
          issued |-> d.issued,
             unconfirmed |-> d.unconfirmed, outstanding |-> d.outstanding,
                 cursor |-> d.cursor]
    BY <1>1 DEF ClientRecord
  <2>5. d.state = c.state /\ d.held \in SUBSET Chunks /\ d.credit \in Nat
    BY <2>1 DEF ClientRecord
  <2>6. d \in ClientRecord
    BY <2>2, <2>3, <2>4, <2>5 DEF ClientRecord
  <2> QED
    BY <2>1, <2>6
<1>12. reads # {} => d.issued <= d.credit
  BY <1>4, <1>6, <1>7, <1>8, <1>11
<1>13. Cardinality(reads) <= d.cursor - c.cursor
  <2>1. d.cursor \in Nat /\ d.cursor >= c.cursor
    BY <1>10, <1>11
  <2>2. reads \in SUBSET (c.cursor .. (d.cursor - 1))
    BY <1>2, <1>6, <1>9, <1>10, <1>11 DEF Chunks
  <2> DEFINE a == c.cursor
             b == d.cursor - 1
  <2>3. a \in Int /\ b \in Int /\ b - a + 1 = d.cursor - c.cursor /\ b - a + 1 >= 0
    BY <1>6, <2>1
  <2>4. reads \in SUBSET (a .. b)
    BY <2>2
  <2> HIDE DEF a, b
  <2>5. IsFiniteSet(a .. b) /\ Cardinality(a .. b) = IF a > b THEN 0 ELSE b - a + 1
    BY <2>3, FS_Interval
  <2>6. Cardinality(reads) <= Cardinality(a .. b)
    BY <2>4, <2>5, FS_Subset
  <2>7. Cardinality(a .. b) = b - a + 1
    BY <2>3, <2>5
  <2> QED
    BY <2>3, <2>6, <2>7
<1> QED
  BY <1>2, <1>4, <1>9, <1>10, <1>11, <1>12, <1>13 DEF waiting, d

(***************************************************************************)
(* What a report does to the sending engine.                               *)
(***************************************************************************)
LEMMA InformedTakes ==
  ASSUME NEW c \in ClientRecord, NEW m \in ReportMessage
  PROVE  \E reads \in SUBSET Chunks :
            LET d == Informed(c, m) IN
            /\ d \in ClientRecord
            /\ d.state \in {"transferring", "awaitingVerification"}
            /\ d.held = c.held \cup m.held /\ d.credit = Larger(c.credit, m.credit)
            /\ d.outstanding \subseteq c.outstanding \cup reads
            /\ c.outstanding \subseteq c.unconfirmed
                /\ c.outstanding \cap d.held = {} =>
                  d.outstanding \subseteq d.unconfirmed
            /\ d.issued = c.issued + Cardinality(reads)
            /\ IsFiniteSet(reads) /\ Cardinality(reads) \in Nat
            /\ reads # {} => d.issued <= d.credit
            /\ d.cursor >= c.cursor
            /\ \A i \in reads : c.cursor <= i /\ i < d.cursor /\ i \notin d.held
            /\ Cardinality(reads) <= d.cursor - c.cursor
<1> DEFINE known == [c EXCEPT !.held = @ \cup m.held,
           !.credit = Larger(@, m.credit)]
           d == Informed(c, m)
<1>1. m.held \in SUBSET Chunks /\ m.credit \in Nat
  BY DEF ReportMessage
<1>2. /\ known.state = c.state /\ known.held = c.held \cup m.held
      /\ known.credit = Larger(c.credit, m.credit) /\ known.issued = c.issued
      /\ known.unconfirmed = c.unconfirmed /\ known.outstanding = c.outstanding
      /\ known.cursor = c.cursor
  BY DEF ClientRecord
<1>3. c.held \in SUBSET Chunks /\ c.credit \in Nat /\ c.issued \in Nat
        /\ c.cursor \in 0 .. N /\ N \in Nat
  BY BulkAssumption DEF ClientRecord
<1>4. known.held \in SUBSET Chunks /\ known.credit \in Nat
  BY <1>1, <1>2, <1>3 DEF Larger
<1>5a. known = [c EXCEPT !.held = @ \cup m.held, !.credit = Larger(@, m.credit)]
  OBVIOUS
<1>5. known \in ClientRecord
  <2> HIDE DEF known
  <2>1. known = [state |-> known.state, held |-> known.held,
          credit |-> known.credit, issued |-> known.issued,
             unconfirmed |-> known.unconfirmed, outstanding |-> known.outstanding,
                 cursor |-> known.cursor]
    BY <1>5a DEF ClientRecord
  <2>2. /\ known.state \in {"idle", "offering", "transferring",
           "awaitingVerification"}
        /\ known.issued \in Nat /\ known.unconfirmed \in SUBSET Chunks
        /\ known.outstanding \in SUBSET Chunks /\ known.cursor \in 0 .. N
    BY <1>2 DEF ClientRecord
  <2> QED
    BY <1>4, <2>1, <2>2 DEF ClientRecord
<1>6. d = IF known.held = Chunks
          THEN [known EXCEPT !.state = "awaitingVerification", !.outstanding = {}]
          ELSE IF c.state = "awaitingVerification" THEN known
          ELSE IssueReads([known EXCEPT !.state = "transferring"])
  BY DEF Informed
<1>7. {} \in SUBSET Chunks /\ IsFiniteSet({}) /\ Cardinality({}) = 0
  BY FS_EmptySet
<1> HIDE DEF known, d
<1>8. CASE known.held = Chunks
  <2>1. /\ d.state = "awaitingVerification" /\ d.held = known.held
           /\ d.credit = known.credit
        /\ d.issued = known.issued /\ d.outstanding = {} /\ d.cursor = known.cursor
        /\ d \in ClientRecord
    BY <1>5, <1>6, <1>8 DEF ClientRecord
  <2> QED
    BY <1>2, <1>3, <1>7, <2>1 DEF d
<1>9. CASE known.held # Chunks /\ c.state = "awaitingVerification"
  <2>1. d = known
    BY <1>6, <1>9
  <2> QED
    BY <1>2, <1>3, <1>5, <1>7, <1>9, <2>1 DEF d
<1>10. CASE known.held # Chunks /\ c.state # "awaitingVerification"
  <2> DEFINE k == [known EXCEPT !.state = "transferring"]
  <2>1. /\ k.state = "transferring" /\ k.held = known.held
           /\ k.credit = known.credit
        /\ k.issued = known.issued /\ k.outstanding = known.outstanding
            /\ k.cursor = known.cursor
        /\ k.unconfirmed = known.unconfirmed
        /\ k \in ClientRecord
    BY <1>5 DEF ClientRecord
  <2>2. d = IssueReads(k)
    BY <1>6, <1>10
  <2> HIDE DEF k
  <2>3. PICK reads \in SUBSET Chunks :
            /\ d \in ClientRecord
            /\ d.state = k.state /\ d.held = k.held /\ d.credit = k.credit
            /\ d.outstanding = k.outstanding \cup reads
            /\ d.unconfirmed = (k.unconfirmed \ k.held) \cup reads
            /\ d.issued = k.issued + Cardinality(reads)
            /\ IsFiniteSet(reads) /\ Cardinality(reads) \in Nat
            /\ reads # {} => d.issued <= d.credit
            /\ d.cursor >= k.cursor
            /\ \A i \in reads : k.cursor <= i /\ i < d.cursor /\ i \notin k.held
            /\ Cardinality(reads) <= d.cursor - k.cursor
    BY <2>1, <2>2, IssueReadsTakes
  <2>4. /\ d.state = "transferring" /\ d.held = c.held \cup m.held
           /\ d.credit = Larger(c.credit, m.credit)
        /\ d.outstanding = c.outstanding \cup reads
        /\ d.issued = c.issued + Cardinality(reads)
        /\ d.cursor >= c.cursor
        /\ \A i \in reads : c.cursor <= i /\ i < d.cursor /\ i \notin d.held
        /\ Cardinality(reads) <= d.cursor - c.cursor
        /\ d.unconfirmed = (c.unconfirmed \ d.held) \cup reads
    BY <1>2, <2>1, <2>3
  <2>5. c.outstanding \subseteq c.unconfirmed /\ c.outstanding \cap d.held = {} =>
            d.outstanding \subseteq d.unconfirmed
    BY <2>4
  <2> QED
    BY <2>3, <2>4, <2>5 DEF d
<1> QED
  BY <1>8, <1>9, <1>10

(***************************************************************************)
(* The queue is the tail of the drops, in order.                           *)
(***************************************************************************)
LEMMA QueueFacts ==
  ASSUME QueueInOrder, queue # <<>>
  PROVE  /\ Len(queue) \in Nat /\ Len(queue) >= 1 /\ Len(queue) <= Files
         /\ Head(queue) \in Transfers /\ Head(queue) = Files - Len(queue) + 1
         /\ Tail(queue) \in Seq(Transfers) /\ Len(Tail(queue)) = Len(queue) - 1
         /\ \A j \in 1 .. Len(Tail(queue)) : Tail(queue)[j] = Files - Len(Tail(queue)) + j
<1>1. queue \in Seq(Transfers) /\ Len(queue) <= Files
      /\ \A j \in 1 .. Len(queue) : queue[j] = Files - Len(queue) + j
  BY DEF QueueInOrder
<1>2. Len(queue) \in Nat /\ Len(queue) >= 1 /\ Files \in Nat
  BY <1>1, EmptySeq, BulkAssumption
<1>3. Head(queue) = queue[1]
  BY <1>1
<1>4. Head(queue) = Files - Len(queue) + 1
  BY <1>1, <1>2, <1>3
<1>5. /\ Head(queue) \in Transfers /\ Tail(queue) \in Seq(Transfers)
         /\ Len(Tail(queue)) = Len(queue) - 1
      /\ \A i \in 1 .. Len(Tail(queue)) : Tail(queue)[i] = queue[i + 1]
  BY <1>1, HeadTailProperties
<1>6. ASSUME NEW j \in 1 .. Len(Tail(queue))
      PROVE  Tail(queue)[j] = Files - Len(Tail(queue)) + j
  <2>1. j + 1 \in 1 .. Len(queue) /\ j \in Nat
    BY <1>2, <1>5
  <2>2. queue[j + 1] = Files - Len(queue) + (j + 1)
    BY <1>1, <2>1
  <2> QED
    BY <1>2, <1>5, <2>1, <2>2
<1> QED
  BY <1>1, <1>2, <1>4, <1>5, <1>6

(* Taking the head of the queue leaves it in order: what is left still counts
   up to Files. *)
LEMMA QueueTail ==
  ASSUME QueueInOrder, queue # <<>>, queue' = Tail(queue)
  PROVE  QueueInOrder'
<1>1. Len(queue') <= Files
  BY QueueFacts, BulkAssumption
<1> QED
  BY <1>1, QueueFacts DEF QueueInOrder

(***************************************************************************)
(* The client's half of the shape is kept.                                 *)
(***************************************************************************)
LEMMA ClientShapeKept ==
  ASSUME Shape, BulkNext
  PROVE  ClientShape'
<1> USE DEF Shape
<1>0. NoShell \in ClientRecord /\ NoShell.state = "idle"
  BY BulkAssumption DEF NoShell, ClientRecord
<1>1. CASE UNCHANGED clientVars
  BY <1>1 DEF ClientShape, clientVars, QueueInOrder
<1>2. CASE Begin
  <2>1. /\ queue' = queue /\ sent' = sent /\ changed' = changed
           /\ sending' = sending
        /\ queue # <<>> /\ client' = [NoShell EXCEPT !.state = "offering"]
    BY <1>2 DEF Begin
  <2>2. client' \in ClientRecord /\ client'.state = "offering"
    BY <2>1, BulkAssumption DEF NoShell, ClientRecord
  <2> QED
    BY <2>1, <2>2 DEF ClientShape, QueueInOrder
<1>3. CASE ClientIngest
  <2> DEFINE m == Head(down)
  <2>1. m \in ToClient
    BY <1>3, HeadTailProperties DEF StreamShape, ClientIngest
  <2>2. sending' = sending /\ changed' = changed
    BY <1>3 DEF ClientIngest
  <2>3. CASE UNCHANGED <<queue, sent, client>>
    BY <2>2, <2>3 DEF ClientShape, QueueInOrder
  <2>4. CASE client.state # "idle" /\ Pop /\ sent' \in {sent, sent \cup {m.id}}
    <3>1. queue # <<>> /\ queue' = Tail(queue) /\ client' = NoShell
      BY <2>4 DEF ClientShape, Pop
    <3>2. QueueInOrder'
      BY <3>1, QueueTail DEF ClientShape
    <3>3. sent' \subseteq Transfers
      BY <2>1, <2>4 DEF ClientShape, ToClient, ReportMessage, CompleteMessage,
           AbortMessage
    <3> QED
      BY <1>0, <2>2, <3>1, <3>2, <3>3 DEF ClientShape
  <2>5. CASE /\ client.state # "idle" /\ m.type \in {"accept", "ack"}
             /\ client' = Informed(client, m) /\ UNCHANGED <<queue, sent>>
    <3>1. m \in ReportMessage
      BY <2>1, <2>5 DEF ToClient, ReportMessage, CompleteMessage, AbortMessage
    <3>2. client' \in ClientRecord
            /\ client'.state \in {"transferring", "awaitingVerification"}
      BY <2>5, <3>1, InformedTakes DEF ClientShape
    <3>3. queue # <<>>
      BY <2>5 DEF ClientShape
    <3> QED
      BY <2>2, <2>5, <3>2, <3>3 DEF ClientShape, QueueInOrder
  <2> QED
    BY <1>3, <2>3, <2>4, <2>5 DEF ClientIngest
<1>4. ASSUME NEW c \in Chunks, SupplyChunk(c)
      PROVE  ClientShape'
  <2>1. /\ client.state = "transferring" /\ UNCHANGED <<queue, sent, changed>>
        /\ client' = [client EXCEPT !.outstanding = @ \ {c}]
        /\ sending' = {[type |-> "chunk", id |-> Head(queue), chunk |-> c,
                    data |-> IF Head(queue) \in changed THEN "changed" ELSE "offered"]}
    BY <1>4 DEF SupplyChunk
  <2>2. queue # <<>> /\ Head(queue) \in Transfers
    BY <2>1, QueueFacts DEF ClientShape
  <2>3. \E m \in ChunkMessage : sending' = {m}
    <3> DEFINE m == [type |-> "chunk", id |-> Head(queue), chunk |-> c,
                    data |-> IF Head(queue) \in changed THEN "changed" ELSE "offered"]
    <3>1. m \in ChunkMessage
      BY <2>2 DEF ChunkMessage, Durable
    <3> QED
      BY <2>1, <3>1, Zenon
  <2>4. client' \in ClientRecord /\ client'.state = "transferring"
    BY <2>1 DEF ClientShape, ClientRecord
  <2> QED
    BY <2>1, <2>2, <2>3, <2>4 DEF ClientShape, QueueInOrder
<1>5. CASE SendChunk
  BY <1>5 DEF SendChunk, ClientShape, QueueInOrder
<1>6. ASSUME NEW c \in Chunks, ReadFails(c)
      PROVE  ClientShape'
  <2>1. queue # <<>> /\ queue' = Tail(queue) /\ client' = NoShell
          /\ UNCHANGED <<sent, sending, changed>>
    BY <1>6 DEF ClientShape, ReadFails, Pop
  <2>2. QueueInOrder'
    BY <2>1, QueueTail DEF ClientShape
  <2> QED
    BY <1>0, <2>1, <2>2 DEF ClientShape
<1>7. CASE CancelAll
  <2>1. queue' = <<>> /\ client' = NoShell /\ UNCHANGED <<sent, sending, changed>>
    BY <1>7 DEF CancelAll
  <2>2. QueueInOrder'
    BY <2>1, BulkAssumption DEF QueueInOrder
  <2> QED
    BY <1>0, <2>1, <2>2 DEF ClientShape
<1>8. CASE SourceChanges
  <2>1. UNCHANGED <<queue, sent, client, sending>> /\ queue # <<>>
          /\ changed' = changed \cup {Head(queue)}
    BY <1>8 DEF SourceChanges
  <2>2. Head(queue) \in Transfers
    BY <2>1, QueueFacts DEF ClientShape
  <2> QED
    BY <2>1, <2>2 DEF ClientShape, QueueInOrder
<1>9. CASE SessionEnds \/ HostCrashes
  <2>1. UNCHANGED <<queue, sent, changed>> /\ client' = NoShell /\ sending' = {}
    BY <1>9 DEF SessionEnds, HostCrashes, NextSession
  <2> QED
    BY <1>0, <2>1 DEF ClientShape, QueueInOrder
<1>10. CASE HostSteps
  BY <1>1, <1>10 DEF HostSteps, HostIngest, StoreChunk, Verify, Link, DropPart,
       DropRecord, SendReplies
<1> QED
  BY <1>2, <1>3, <1>4, <1>5, <1>6, <1>7, <1>8, <1>9, <1>10
  DEF BulkNext, ClientSteps, Disturbances

(***************************************************************************)
(* creditActions: a last chunk ends in verification and a report, a grant  *)
(* that moved enough is reported, and otherwise nothing is said.           *)
(***************************************************************************)
LEMMA CreditedCases ==
  ASSUME NEW h \in HostRecord, h.state = "receiving", h.id \in Transfers,
         replies \in Seq(ToClient), Credited(h)
  PROVE  /\ host' \in HostRecord
         /\ host'.id = h.id /\ host'.held = h.held /\ host'.start = h.start
         /\ host'.consumed = h.consumed /\ host'.book = h.book
         /\ host'.granted >= h.granted
         /\ \/ h.held = Chunks /\ host'.state = "verifying"
               /\ todo' = <<Do("verify", h.id)>>
            \/ h.held # Chunks /\ host'.state = "receiving" /\ todo' = <<>>
         /\ \/ h.held # Chunks /\ replies' = replies
            \/ /\ replies' = Append(replies, Answer(h.id, "ack", host'))
               /\ Answer(h.id, "ack", host') \in ReportMessage
<1> DEFINE candidate == h.consumed + ReceiveWindow
           v == [h EXCEPT !.state = "verifying", !.granted = Larger(@, candidate)]
           g == [h EXCEPT !.granted = candidate]
<1>1. /\ h.consumed \in Nat /\ h.granted \in Nat /\ ReceiveWindow \in Nat
      /\ h.held \in SUBSET Chunks /\ RefreshStep \in Nat
  BY BulkAssumption DEF HostRecord, RefreshStep, Larger
<1>2. candidate \in Nat /\ Larger(h.granted, candidate) \in Nat
        /\ Larger(h.granted, candidate) >= h.granted
  BY <1>1 DEF Larger
<1>3. \A k \in HostRecord : k.id \in Transfers
        => Answer(k.id, "ack", k) \in ReportMessage
  BY DEF HostRecord, Answer, ReportMessage
<1>4. \A x \in ReportMessage : replies \o <<x>> = Append(replies, x)
  <2> TAKE x \in ReportMessage
  <2>1. x \in ToClient
    BY DEF ToClient
  <2> QED
    BY <2>1, AppendIsConcat
<1>5. CASE h.held = Chunks
  <2> HIDE DEF candidate
  <2>1. /\ v.state = "verifying" /\ v.granted = Larger(h.granted, candidate)
        /\ v.id = h.id /\ v.held = h.held /\ v.start = h.start
            /\ v.consumed = h.consumed
        /\ v.book = h.book /\ v \in HostRecord
    BY <1>2 DEF HostRecord
  <2>2. /\ host' = v /\ todo' = <<Do("verify", h.id)>>
        /\ replies' = replies \o <<Answer(h.id, "ack", v)>>
    BY <1>5 DEF Credited, CreditActions, IsComplete, candidate
  <2> HIDE DEF v
  <2>3. Answer(h.id, "ack", host') \in ReportMessage
    BY <1>3, <2>1, <2>2
  <2> QED
    BY <1>2, <1>4, <1>5, <2>1, <2>2, <2>3
<1>6. CASE h.held # Chunks /\ candidate >= h.granted + RefreshStep
  <2>0. candidate >= h.granted
    BY <1>1, <1>2, <1>6
  <2> HIDE DEF candidate
  <2>1. /\ g.state = "receiving" /\ g.granted = candidate
        /\ g.id = h.id /\ g.held = h.held /\ g.start = h.start
            /\ g.consumed = h.consumed
        /\ g.book = h.book /\ g \in HostRecord
    BY <1>2 DEF HostRecord
  <2>2. /\ host' = g /\ todo' = <<>>
        /\ replies' = replies \o <<Answer(h.id, "ack", g)>>
    BY <1>6 DEF Credited, CreditActions, IsComplete, candidate
  <2> HIDE DEF g
  <2>3. Answer(h.id, "ack", host') \in ReportMessage
    BY <1>3, <2>1, <2>2
  <2> QED
    BY <2>0, <1>4, <1>6, <2>1, <2>2, <2>3
<1>7. CASE h.held # Chunks /\ ~ (candidate >= h.granted + RefreshStep)
  <2>1. host' = h /\ todo' = <<>> /\ replies' = replies \o <<>>
    BY <1>7 DEF Credited, CreditActions, IsComplete
  <2>2. replies' = replies
    BY <2>1, ConcatEmptySeq
  <2> QED
    BY <1>1, <1>7, <2>1, <2>2
<1> QED
  BY <1>5, <1>6, <1>7

(***************************************************************************)
(* A re-armed engine.                                                      *)
(***************************************************************************)
LEMMA RearmedFacts ==
  ASSUME NEW book \in Books
  PROVE  /\ Rearmed(book) \in HostRecord /\ Rearmed(book).state = "awaitingOffer"
         /\ Rearmed(book).book = book /\ Rearmed(book).start = {}
             /\ Rearmed(book).held = {}
         /\ Rearmed(book).consumed = 0
  BY DEF Rearmed, HostRecord

(* What removing, putting and restricting do to a resume book. *)
LEMMA BookFacts ==
  ASSUME NEW book \in Books
  PROVE  /\ DOMAIN book \subseteq Transfers
         /\ \A t \in DOMAIN book : book[t] \in SUBSET Chunks
         /\ \A t \in Transfers :
               /\ Removed(book, t) \in Books
                   /\ DOMAIN Removed(book, t) = DOMAIN book \ {t}
               /\ \A u \in DOMAIN book \ {t} : Removed(book, t)[u] = book[u]
         /\ \A t \in Transfers, held \in SUBSET Chunks :
               /\ Put(book, t, held) \in Books
                   /\ DOMAIN Put(book, t, held) = DOMAIN book \cup {t}
               /\ \A u \in DOMAIN book \cup {t} :
                     Put(book, t, held)[u] = IF u = t THEN held ELSE book[u]
         /\ \A D \in SUBSET DOMAIN book :
               /\ Restrict(book, D) \in Books /\ DOMAIN Restrict(book, D) = D
               /\ \A u \in D : Restrict(book, D)[u] = book[u]
<1>1. PICK E \in SUBSET Transfers : book \in [E -> SUBSET Chunks]
  BY DEF Books
<1>2. DOMAIN book = E /\ \A t \in E : book[t] \in SUBSET Chunks
  BY <1>1
<1>3. ASSUME NEW D \in SUBSET DOMAIN book
      PROVE  /\ Restrict(book, D) \in Books /\ DOMAIN Restrict(book, D) = D
             /\ \A u \in D : Restrict(book, D)[u] = book[u]
  <2>1. Restrict(book, D) = [u \in D |-> book[u]]
    BY DEF Restrict
  <2>2. D \in SUBSET Transfers /\ Restrict(book, D) \in [D -> SUBSET Chunks]
    BY <1>2, <2>1
  <2>3. Restrict(book, D) \in Books
    BY <2>2 DEF Books
  <2> QED
    BY <2>1, <2>3
<1>4. ASSUME NEW t \in Transfers
      PROVE  /\ Removed(book, t) \in Books
                /\ DOMAIN Removed(book, t) = DOMAIN book \ {t}
             /\ \A u \in DOMAIN book \ {t} : Removed(book, t)[u] = book[u]
  BY <1>3 DEF Removed
<1>5. ASSUME NEW t \in Transfers, NEW held \in SUBSET Chunks
      PROVE  /\ Put(book, t, held) \in Books
                /\ DOMAIN Put(book, t, held) = DOMAIN book \cup {t}
             /\ \A u \in DOMAIN book \cup {t} :
                   Put(book, t, held)[u] = IF u = t THEN held ELSE book[u]
  <2> DEFINE D == E \cup {t}
  <2>1. Put(book, t, held) = [u \in D |-> IF u = t THEN held ELSE book[u]]
    BY <1>2 DEF Put
  <2>2. D \in SUBSET Transfers /\ Put(book, t, held) \in [D -> SUBSET Chunks]
    BY <1>2, <2>1
  <2>3. Put(book, t, held) \in Books
    BY <2>2 DEF Books
  <2> QED
    BY <1>2, <2>1, <2>3
<1> QED
  BY <1>2, <1>3, <1>4, <1>5

(* The book after a put, under a name of its own. *)
LEMMA PutBook ==
  ASSUME NEW book \in Books, NEW t \in Transfers, NEW held \in SUBSET Chunks,
         NEW b, b = Put(book, t, held)
  PROVE  /\ DOMAIN b = DOMAIN book \cup {t}
         /\ \A u \in DOMAIN b : b[u] = IF u = t THEN held ELSE book[u]
<1>1. /\ DOMAIN Put(book, t, held) = DOMAIN book \cup {t}
      /\ \A u \in DOMAIN book \cup {t} : Put(book, t,
          held)[u] = IF u = t THEN held ELSE book[u]
  BY DEF Put
<1> QED
  BY <1>1, Zenon

(* Every message either end appends or takes is one the streams can carry. *)
LEMMA AppendShape ==
  ASSUME StreamShape
  PROVE  /\ \A m \in ToHost : Append(up, m) \in Seq(ToHost)
         /\ \A m \in ToClient : Append(replies, m) \in Seq(ToClient)
         /\ \A t \in Transfers : /\ Abort(t) \in ToHost /\ Abort(t) \in ToClient
                                /\ Offer(t) \in ToHost
                                /\ [type |-> "complete", id |-> t] \in ToClient
         /\ ReportMessage \subseteq ToClient
         /\ up # <<>> => Tail(up) \in Seq(ToHost) /\ Head(up) \in ToHost
         /\ down # <<>> => Tail(down) \in Seq(ToClient) /\ Head(down) \in ToClient
  BY HeadTailProperties, AppendProperties
  DEF StreamShape, ToHost, ToClient, Abort, Offer, AbortMessage, OfferMessage,
       CompleteMessage

(* A message is determined by its type, as far as the two ends look at it. *)
LEMMA MessageKinds ==
  /\ \A m \in ToHost : /\ m.type \in {"offer", "abort", "chunk"}
                          /\ m.id \in Transfers
                       /\ m.type = "offer" => m = Offer(m.id)
                       /\ m.type = "abort" => m = Abort(m.id)
                       /\ m.type = "chunk" => m \in ChunkMessage
  /\ \A m \in ToClient : /\ m.type \in {"accept", "ack", "complete", "abort"}
                            /\ m.id \in Transfers
                         /\ m.type \in {"accept", "ack"} => m \in ReportMessage
BY DEF ToHost, ToClient, OfferMessage, AbortMessage, ChunkMessage, ReportMessage,
     CompleteMessage,
       Offer, Abort

(***************************************************************************)
(* What the host does with a message.                                      *)
(***************************************************************************)
HeardNothing == UNCHANGED <<host, todo, replies, part>>

HeardBusy(m) ==
    /\ m.type = "offer" /\ host.state # "awaitingOffer"
    /\ replies' = Append(replies, Abort(m.id)) /\ UNCHANGED <<host, todo, part>>

HeardOffer(m) ==
    /\ m.type = "offer" /\ host.state = "awaitingOffer"
    /\ AcceptOffer(m.id) \/ RefuseOffer(m.id)

HeardEnd(m) ==
    /\ host.state # "awaitingOffer" /\ m.type \in {"chunk", "abort"}
    /\ Discard(host.id)
    /\ UNCHANGED part
    /\ \/ m = Abort(host.id) /\ replies' = replies
       \/ replies' = Append(replies, Abort(host.id))

HeardChunk(m) ==
    /\ host.state = "receiving" /\ IsChunk(m, host.id)
        /\ host.consumed < host.granted
    /\ UNCHANGED part
    /\ \/ m.chunk \notin host.held /\ todo' = <<Store(m)>>
          /\ UNCHANGED <<host, replies>>
       \/ m.chunk \in host.start /\ Credited([host EXCEPT !.consumed = @ + 1])

(* Taking the oldest message from the client is one of five ways of hearing it;
   each refusal it can add to the record has its own condition. *)
LEMMA HostIngestCases ==
  ASSUME Shape, HostIngest
  PROVE  LET m == Head(up) IN
         /\ up # <<>> /\ up' = Tail(up) /\ todo = <<>> /\ m \in ToHost
         /\ UNCHANGED <<clientVars, down, record, blocks, visible, lost, session>>
         /\ HeardNothing \/ HeardBusy(m) \/ HeardOffer(m) \/ HeardEnd(m)
             \/ HeardChunk(m)
         /\ faults' \in {faults, faults + 1} /\ faults' <= MaxFaults
         /\ HeardNothing => m.type # "offer" /\ host.state = "awaitingOffer"
         /\ \/ refused' \in {refused, refused \cup {"unexpected chunk"},
               refused \cup {"foreign transfer"}}
            \/ HeardBusy(m) /\ refused' = refused \cup {"busy"}
            \/ /\ refused' = refused \cup {"credit exceeded"}
               /\ host.state = "receiving" /\ IsChunk(m, host.id)
                   /\ host.consumed >= host.granted
            \/ /\ refused' = refused \cup {"duplicate chunk"}
               /\ host.state = "receiving" /\ IsChunk(m, host.id)
                   /\ m.chunk \in host.held \ host.start
<1> DEFINE m == Head(up)
<1>1. /\ up # <<>> /\ up' = Tail(up) /\ todo = <<>>
      /\ UNCHANGED <<clientVars, down, record, blocks, visible, lost, session>>
      /\ \/ m.type = "offer" /\ IngestOffer(m)
         \/ m.type = "chunk" /\ IngestChunk(m)
         \/ m.type = "abort" /\ IngestAbort(m)
  BY DEF HostIngest
<1>2. m \in ToHost /\ m.type \in {"offer", "abort", "chunk"}
        /\ (m.type = "abort" => m = Abort(m.id))
  BY <1>1, AppendShape, MessageKinds DEF Shape
<1>3. /\ host.state \in {"awaitingOffer", "receiving", "verifying"}
      /\ host.consumed \in Nat /\ host.granted \in Nat /\ faults \in 0 .. MaxFaults
          /\ MaxFaults \in Nat
  BY BulkAssumption DEF Shape, HostShape, HostRecord, DiskShape
<1> HIDE DEF m
<1> DEFINE G ==
         /\ HeardNothing \/ HeardBusy(m) \/ HeardOffer(m) \/ HeardEnd(m)
             \/ HeardChunk(m)
         /\ faults' \in {faults, faults + 1} /\ faults' <= MaxFaults
         /\ HeardNothing => m.type # "offer" /\ host.state = "awaitingOffer"
         /\ \/ refused' \in {refused, refused \cup {"unexpected chunk"},
               refused \cup {"foreign transfer"}}
            \/ HeardBusy(m) /\ refused' = refused \cup {"busy"}
            \/ /\ refused' = refused \cup {"credit exceeded"}
               /\ host.state = "receiving" /\ IsChunk(m, host.id)
                   /\ host.consumed >= host.granted
            \/ /\ refused' = refused \cup {"duplicate chunk"}
               /\ host.state = "receiving" /\ IsChunk(m, host.id)
                   /\ m.chunk \in host.held \ host.start
<1>3a. faults \in {faults, faults + 1} /\ faults <= MaxFaults
  BY <1>3
<1>3b. ASSUME faults' = faults PROVE faults' \in {faults, faults + 1}
              /\ faults' <= MaxFaults
  BY <1>3a, <1>3b
<1>4. ASSUME m.type = "offer", IngestOffer(m) PROVE G
  <2>1. CASE host.state # "awaitingOffer"
    <3>1. HeardBusy(m) /\ refused' = refused \cup {"busy"} /\ faults' = faults
      BY <1>4, <2>1 DEF IngestOffer, HeardBusy
    <3>2. ~ HeardNothing
      <4>1. Abort(m.id) \in ToClient /\ replies \in Seq(ToClient)
        BY <1>2, AppendShape, MessageKinds DEF Shape, StreamShape
      <4>2. Append(replies, Abort(m.id)) # replies
        BY <4>1, AppendProperties, LenProperties
      <4> QED
        BY <3>1, <4>2 DEF HeardBusy, HeardNothing
    <3> QED
      BY <1>3b, <3>1, <3>2
  <2>2. CASE host.state = "awaitingOffer"
    <3>1. HeardOffer(m) /\ refused' = refused
      BY <1>4, <2>2 DEF IngestOffer, HeardOffer
    <3>2. faults' \in {faults, faults + 1} /\ faults' <= MaxFaults
      <4>1. CASE AcceptOffer(m.id)
        <5>1. faults' = faults
          BY <4>1 DEF AcceptOffer
        <5> QED
          BY <1>3b, <5>1
      <4>2. CASE RefuseOffer(m.id)
        <5>1. faults < MaxFaults /\ faults' = faults + 1
          BY <4>2 DEF RefuseOffer, Fault
        <5> QED
          BY <1>3, <5>1
      <4> QED
        BY <3>1, <4>1, <4>2 DEF HeardOffer
    <3>3. ~ HeardNothing
      <4>1. SUFFICES ASSUME replies' = replies PROVE FALSE
        BY DEF HeardNothing
      <4>2. \E x \in ToClient : replies' = Append(replies, x)
        <5>1. CASE RefuseOffer(m.id)
          BY <1>2, <5>1, AppendShape, MessageKinds DEF RefuseOffer, Shape
        <5>2. CASE AcceptOffer(m.id)
          <6>1. m.id \in Transfers
            BY <1>2, MessageKinds
          <6>2. PICK g \in Nat, h \in SUBSET Chunks :
                    replies' = Append(replies,
                        [type |-> "accept", id |-> m.id, credit |-> g, held |-> h])
            <7> DEFINE known == IF m.id \in DOMAIN host.book THEN host.book[m.id] ELSE {}
                       opened == [host EXCEPT !.id = m.id, !.held = known,
                           !.start = known]
                       h == IF known = Chunks THEN [opened EXCEPT !.state = "verifying"]
                            ELSE [opened EXCEPT !.state = "receiving",
                                !.granted = ReceiveWindow]
            <7>1. host \in HostRecord /\ known \in SUBSET Chunks
              BY BookFacts DEF Shape, HostShape, HostRecord
            <7>2. h.held = known /\ h.granted \in Nat
              <8> HIDE DEF known
              <8> QED
                BY <7>1, BulkAssumption DEF HostRecord
            <7>3. replies' = Append(replies,
                    [type |-> "accept", id |-> m.id, credit |-> h.granted,
                        held |-> h.held])
              BY <5>2 DEF AcceptOffer, Answer
            <7> HIDE DEF known, h
            <7> QED
              BY <7>1, <7>2, <7>3
          <6>3. [type |-> "accept", id |-> m.id, credit |-> g,
                  held |-> h] \in ToClient
            BY <6>1 DEF ToClient, ReportMessage
          <6> QED
            BY <6>2, <6>3
        <5> QED
          BY <3>1, <5>1, <5>2 DEF HeardOffer
      <4>3. replies \in Seq(ToClient)
        BY DEF Shape, StreamShape
      <4> QED
        BY <4>1, <4>2, <4>3, AppendProperties, LenProperties
    <3> QED
      BY <3>1, <3>2, <3>3
  <2> QED
    BY <2>1, <2>2
<1>5. ASSUME NEW kind, Violate(kind), UNCHANGED <<part, faults>>,
             m.type \in {"chunk", "abort"}
      PROVE  /\ HeardNothing \/ HeardEnd(m)
             /\ refused' = refused \cup {kind}
             /\ HeardNothing => host.state = "awaitingOffer"
  <2>1. CASE host.state = "awaitingOffer"
    BY <1>5, <2>1 DEF Violate, HeardNothing
  <2>2. CASE host.state # "awaitingOffer"
    <3>1. HeardEnd(m) /\ refused' = refused \cup {kind}
      BY <1>5, <2>2 DEF Violate, HeardEnd
    <3>2. ~ HeardNothing
      <4>1. todo' = <<Do("drop part", host.id), Do("drop record", host.id)>>
        BY <3>1 DEF HeardEnd, Discard
      <4> QED
        BY <1>1, <4>1 DEF HeardNothing
    <3> QED
      BY <3>1, <3>2
  <2> QED
    BY <2>1, <2>2
<1>6. ASSUME m.type = "abort", IngestAbort(m) PROVE G
  <2>1. CASE host.state = "awaitingOffer"
    <3>1. HeardNothing /\ refused' = refused /\ faults' = faults /\ m.type # "offer"
      BY <1>6, <2>1 DEF IngestAbort, HeardNothing
    <3> QED
      BY <1>3b, <2>1, <3>1
  <2>2. CASE host.state # "awaitingOffer" /\ m.id # host.id
    <3>1. Violate("foreign transfer") /\ UNCHANGED <<part, faults>>
      BY <1>6, <2>2 DEF IngestAbort
    <3> QED
      <4>1. /\ HeardNothing \/ HeardEnd(m)
            /\ refused' = refused \cup {"foreign transfer"}
            /\ HeardNothing => host.state = "awaitingOffer"
            /\ faults' = faults /\ m.type # "offer"
        BY <1>5, <1>6, <3>1
      <4> QED
        BY <1>3b, <4>1
  <2>3. CASE host.state # "awaitingOffer" /\ m.id = host.id
    <3>1. HeardEnd(m) /\ refused' = refused /\ faults' = faults
      BY <1>2, <1>6, <2>3 DEF IngestAbort, HeardEnd
    <3>2. ~ HeardNothing
      <4>1. todo' = <<Do("drop part", host.id), Do("drop record", host.id)>>
        BY <3>1 DEF HeardEnd, Discard
      <4> QED
        BY <1>1, <4>1 DEF HeardNothing
    <3> QED
      BY <1>3b, <3>1, <3>2
  <2> QED
    BY <2>1, <2>2, <2>3
<1>7. ASSUME m.type = "chunk", IngestChunk(m) PROVE G
  <2>1. UNCHANGED <<part, faults>>
    BY <1>7 DEF IngestChunk
  <2>2. CASE host.state # "receiving"
    <3>1. Violate("unexpected chunk")
      BY <1>7, <2>2 DEF IngestChunk
    <3> QED
      <4>1. /\ HeardNothing \/ HeardEnd(m)
            /\ refused' = refused \cup {"unexpected chunk"}
            /\ HeardNothing => host.state = "awaitingOffer"
            /\ faults' = faults /\ m.type # "offer"
        BY <1>5, <1>7, <2>1, <3>1
      <4> QED
        BY <1>3b, <4>1
  <2>3. CASE host.state = "receiving" /\ m.id # host.id
    <3>1. Violate("foreign transfer")
      BY <1>7, <2>3 DEF IngestChunk
    <3> QED
      <4>1. /\ HeardNothing \/ HeardEnd(m)
            /\ refused' = refused \cup {"foreign transfer"}
            /\ HeardNothing => host.state = "awaitingOffer"
            /\ faults' = faults /\ m.type # "offer"
        BY <1>5, <1>7, <2>1, <3>1
      <4> QED
        BY <1>3b, <4>1
  <2>4. CASE host.state = "receiving" /\ m.id = host.id
               /\ host.consumed >= host.granted
    <3>1. Violate("credit exceeded")
      BY <1>7, <2>4 DEF IngestChunk, AdmissionDebt
    <3> QED
      <4>1. /\ HeardNothing \/ HeardEnd(m)
            /\ refused' = refused \cup {"credit exceeded"}
            /\ HeardNothing => host.state = "awaitingOffer"
            /\ faults' = faults /\ m.type # "offer"
        BY <1>5, <1>7, <2>1, <3>1
      <4> QED
        BY <1>3b, <4>1, <1>7, <2>4 DEF IsChunk
  <2>5. CASE /\ host.state = "receiving" /\ m.id = host.id
                /\ ~ (host.consumed >= host.granted)
             /\ m.chunk \in host.held \ host.start
    <3>1. Violate("duplicate chunk")
      BY <1>7, <2>5 DEF IngestChunk, AdmissionDebt
    <3> QED
      <4>1. /\ HeardNothing \/ HeardEnd(m)
            /\ refused' = refused \cup {"duplicate chunk"}
            /\ HeardNothing => host.state = "awaitingOffer"
            /\ faults' = faults /\ m.type # "offer"
        BY <1>5, <1>7, <2>1, <3>1
      <4> QED
        BY <1>3b, <4>1, <1>7, <2>5 DEF IsChunk
  <2>6. CASE /\ host.state = "receiving" /\ m.id = host.id
                /\ ~ (host.consumed >= host.granted)
             /\ m.chunk \notin host.held \ host.start
    <3>0. host.start \subseteq host.held
      BY DEF Shape, HostShape
    <3>1. refused' = refused /\ HeardChunk(m)
      <4>1. host.consumed < host.granted /\ ~ (AdmissionDebt >= host.granted)
        BY <1>3, <2>6 DEF AdmissionDebt
      <4>2. CASE m.chunk \in host.held
        <5>1. Credited([host EXCEPT !.consumed = @ + 1]) /\ UNCHANGED refused
                /\ m.chunk \in host.start
          BY <1>7, <2>6, <4>1, <4>2, Zenon DEF IngestChunk
        <5> QED
          BY <1>7, <2>1, <2>6, <4>1, <5>1, Zenon DEF HeardChunk, IsChunk
      <4>3. CASE m.chunk \notin host.held
        <5>1. todo' = <<Store(m)>> /\ UNCHANGED <<host, replies, refused>>
          BY <1>7, <2>6, <4>1, <4>3, Zenon DEF IngestChunk
        <5> QED
          BY <1>7, <2>1, <2>6, <4>1, <4>3, <5>1, Zenon DEF HeardChunk, IsChunk
      <4> QED
        BY <4>2, <4>3
    <3>2. HeardNothing => host.state = "awaitingOffer"
      <4>1. SUFFICES ASSUME HeardNothing PROVE FALSE
        OBVIOUS
      <4>2. HeardChunk(m) /\ todo' = <<>> /\ host' = host
        BY <1>1, <3>1, <4>1 DEF HeardNothing
      <4>3. todo' # <<Store(m)>>
        BY <4>2
      <4>4. Credited([host EXCEPT !.consumed = @ + 1])
        BY <4>2, <4>3 DEF HeardChunk
      <4>5. host \in HostRecord /\ host.id \in Transfers
              /\ replies \in Seq(ToClient)
        BY <2>6 DEF Shape, HostShape, StreamShape
      <4>6. /\ [host EXCEPT !.consumed = @ + 1] \in HostRecord
            /\ [host EXCEPT !.consumed = @ + 1].state = "receiving"
            /\ [host EXCEPT !.consumed = @ + 1].id = host.id
            /\ [host EXCEPT !.consumed = @ + 1].consumed = host.consumed + 1
        BY <2>6, <4>5 DEF HostRecord
      <4>7. host'.consumed = host.consumed + 1
        BY <4>4, <4>5, <4>6, CreditedCases
      <4> QED
        BY <1>3, <4>2, <4>7
    <3>3. m.type # "offer" /\ faults' = faults
      BY <1>7, <2>1
    <3> QED
      BY <1>3b, <3>1, <3>2, <3>3
  <2> QED
    BY <2>2, <2>3, <2>4, <2>5, <2>6
<1>8. G
  BY <1>1, <1>4, <1>6, <1>7
<1> QED
  BY <1>1, <1>2, <1>8 DEF m

(***************************************************************************)
(* What accepting an offer does.                                           *)
(***************************************************************************)
LEMMA AcceptFacts ==
  ASSUME Shape, NEW t \in Transfers, host.state = "awaitingOffer", AcceptOffer(t)
  PROVE  /\ host' \in HostRecord /\ host'.id = t /\ host'.consumed = 0
            /\ host'.book = host.book
         /\ host'.held = host'.start
         /\ host'.start = IF t \in DOMAIN host.book THEN host.book[t] ELSE {}
         /\ \/ host'.held = Chunks /\ host'.state = "verifying"
               /\ todo' = <<Do("verify", t)>>
            \/ host'.held # Chunks /\ host'.state = "receiving" /\ todo' = <<>>
         /\ replies' = Append(replies, Answer(t, "accept", host'))
         /\ Answer(t, "accept", host') \in ReportMessage
         /\ part' = IF t \in DOMAIN part THEN part ELSE Put(part, t, <<t, session>>)
         /\ faults' = faults
<1> DEFINE known == IF t \in DOMAIN host.book THEN host.book[t] ELSE {}
           opened == [host EXCEPT !.id = t, !.held = known, !.start = known]
           h == IF known = Chunks THEN [opened EXCEPT !.state = "verifying"]
                ELSE [opened EXCEPT !.state = "receiving",
                    !.granted = ReceiveWindow]
<1>1. host \in HostRecord /\ known \in SUBSET Chunks /\ host.consumed = 0
        /\ t \in Nat
  BY BookFacts, BulkAssumption DEF Shape, HostShape, HostRecord, Transfers
<1>2. /\ host' = h
      /\ todo' = IF known = Chunks THEN <<Do("verify", t)>> ELSE <<>>
      /\ replies' = Append(replies, Answer(t, "accept", h))
      /\ part' = IF t \in DOMAIN part THEN part ELSE Put(part, t, <<t, session>>)
      /\ faults' = faults
  BY DEF AcceptOffer
<1>3. /\ opened \in HostRecord /\ opened.id = t /\ opened.held = known
         /\ opened.start = known
      /\ opened.consumed = 0 /\ opened.book = host.book
  <2> HIDE DEF known
  <2> QED
    BY <1>1 DEF HostRecord
<1>4. /\ h \in HostRecord /\ h.id = t /\ h.held = known /\ h.start = known
      /\ h.consumed = 0 /\ h.book = host.book
      /\ known = Chunks => h.state = "verifying"
      /\ known # Chunks => h.state = "receiving"
  <2> HIDE DEF known, opened
  <2> QED
    BY <1>3, BulkAssumption DEF HostRecord
<1>5. Answer(t, "accept", h) \in ReportMessage
  <2> HIDE DEF known, opened, h
  <2> QED
    BY <1>4 DEF Answer, ReportMessage, HostRecord
<1>6. host'.start = known
  <2> HIDE DEF known, h
  <2> QED
    BY <1>2, <1>4
<1>7. /\ host' \in HostRecord /\ host'.id = t /\ host'.consumed = 0
         /\ host'.book = host.book
      /\ host'.held = host'.start
      /\ \/ host'.held = Chunks /\ host'.state = "verifying"
            /\ todo' = <<Do("verify", t)>>
         \/ host'.held # Chunks /\ host'.state = "receiving" /\ todo' = <<>>
      /\ replies' = Append(replies, Answer(t, "accept", host'))
      /\ Answer(t, "accept", host') \in ReportMessage
  <2> HIDE DEF known, opened, h
  <2> QED
    BY <1>2, <1>4, <1>5
<1> HIDE DEF opened, h
<1> QED
  BY <1>2, <1>6, <1>7

(***************************************************************************)
(* What storing a chunk, or answering one that was held, does.             *)
(***************************************************************************)
LEMMA SuccOfNat == \A n \in Nat : n + 1 \in Nat
OBVIOUS

(* Counting a stored chunk, new or already held, keeps the engine a receiving
   one. *)
LEMMA StoredFacts ==
  ASSUME Shape, host.state = "receiving", NEW h,
         h = [host EXCEPT !.consumed = @ + 1]
         \/ \E c \in Chunks : h = [host EXCEPT !.held = @ \cup {c},
             !.consumed = @ + 1]
  PROVE  /\ h \in HostRecord /\ h.state = "receiving" /\ h.id = host.id
            /\ h.id \in Transfers
         /\ h.start = host.start /\ h.granted = host.granted /\ h.book = host.book
         /\ h.consumed = host.consumed + 1 /\ host.held \subseteq h.held
<1>1. host \in HostRecord /\ host.id \in Transfers /\ host.consumed \in Nat
  BY DEF Shape, HostShape, HostRecord
<1> DEFINE n == host.consumed + 1
<1>1a. n \in Nat
  BY <1>1, Zenon, SuccOfNat
<1>2. CASE \E c \in Chunks : h = [host EXCEPT !.held = @ \cup {c},
             !.consumed = @ + 1]
  <2>1. PICK c \in Chunks : h = [host EXCEPT !.held = @ \cup {c},
               !.consumed = @ + 1]
    BY <1>2
  <2>2. host.held \cup {c} \in SUBSET Chunks /\ host.consumed + 1 \in Nat
    <3>1. host.held \in SUBSET Chunks
      BY <1>1 DEF HostRecord
    <3>2. host.consumed + 1 \in Nat
      BY <1>1a
    <3> QED
      BY <3>1, <3>2
  <2> QED
    BY <1>1, <2>1, <2>2 DEF HostRecord
<1>3. CASE h = [host EXCEPT !.consumed = @ + 1]
  <2>2. host.consumed + 1 \in Nat
    BY <1>1a
  <2> QED
    BY <1>1, <1>3, <2>2 DEF HostRecord
<1> QED
  BY <1>2, <1>3

(* Heads and tails of the one- and two-element work lists. *)
LEMMA ShortTails ==
  /\ \A x : Head(<<x>>) = x /\ Tail(<<x>>) = <<>>
  /\ \A x, y : Head(<<x, y>>) = x /\ Tail(<<x, y>>) = <<y>>
<1>1. ASSUME NEW x PROVE Head(<<x>>) = x /\ Tail(<<x>>) = <<>>
  <2>1. <<x>> \in Seq({x}) /\ <<x>> # <<>> /\ Len(<<x>>) = 1
    OBVIOUS
  <2>2. Tail(<<x>>) \in Seq({x}) /\ Len(Tail(<<x>>)) = 0
    BY <2>1, HeadTailProperties
  <2>3. Tail(<<x>>) = <<>>
    BY <2>2, EmptySeq
  <2> QED
    BY <2>3
<1>2. ASSUME NEW x, NEW y PROVE Head(<<x, y>>) = x /\ Tail(<<x, y>>) = <<y>>
  <2>1. <<x, y>> \in Seq({x, y}) /\ <<x, y>> # <<>> /\ Len(<<x, y>>) = 2
          /\ <<x, y>>[2] = y
    OBVIOUS
  <2>2. /\ Tail(<<x, y>>) \in Seq({x, y}) /\ Len(Tail(<<x, y>>)) = 1
        /\ \A i \in 1 .. Len(Tail(<<x, y>>)) : Tail(<<x, y>>)[i] = <<x, y>>[i + 1]
    BY <2>1, HeadTailProperties
  <2>3. Tail(<<x, y>>)[1] = y
    BY <2>1, <2>2
  <2>4. <<y>> \in Seq({x, y}) /\ Len(<<y>>) = 1 /\ <<y>>[1] = y
    OBVIOUS
  <2>5. Tail(<<x, y>>) = <<y>>
    BY <2>2, <2>3, <2>4, SeqEqual
  <2> QED
    BY <2>5
<1> QED
  BY <1>1, <1>2

(***************************************************************************)
(* Which disk operation is next says what the engine is doing.             *)
(***************************************************************************)
LEMMA OwedFacts ==
  ASSUME HostShape, todo # <<>>
  PROVE  /\ Head(todo).op = "store" =>
               /\ host.state = "receiving"
               /\ \E c \in Chunks \ host.held, d \in Durable :
                     LET w == [op |-> "store", id |-> host.id, chunk |-> c,
                         data |-> d]
                     IN  todo = <<w>> /\ Head(todo) = w
         /\ Head(todo).op = "verify" =>
               host.state = "verifying" /\ todo = <<Do("verify", host.id)>>
                   /\ Head(todo).id = host.id
         /\ Head(todo).op = "link" =>
               host.state = "verifying" /\ todo = <<Do("link", host.id)>>
                   /\ Head(todo).id = host.id
         /\ Head(todo).op = "drop part" =>
               /\ host.state = "awaitingOffer"
               /\ \E t \in Transfers : /\ Head(todo).id = t
                                      /\ \/ todo = <<Do("drop part", t),
                                            Do("drop record", t)>>
                                            /\ Tail(todo) = <<Do("drop record", t)>>
                                         \/ todo = <<Do("drop part", t)>>
                                             /\ Tail(todo) = <<>>
         /\ Head(todo).op = "drop record" =>
               /\ host.state = "awaitingOffer"
               /\ \E t \in Transfers : /\ Head(todo).id = t
                                      /\ todo = <<Do("drop record", t)>>
                                          /\ Tail(todo) = <<>>
<1>0. host.state \in {"awaitingOffer", "receiving", "verifying"} /\ TodoFits
  BY DEF HostShape, HostRecord
<1>1. CASE host.state = "receiving"
  <2>1. PICK c \in Chunks \ host.held, d \in Durable :
            todo = <<[op |-> "store", id |-> host.id, chunk |-> c, data |-> d]>>
    BY <1>0, <1>1 DEF TodoFits
  <2>2. Head(todo) = [op |-> "store", id |-> host.id, chunk |-> c, data |-> d]
          /\ Head(todo).op = "store"
    BY <2>1
  <2> QED
    BY <1>1, <2>1, <2>2
<1>2. CASE host.state = "verifying"
  <2>1. todo = <<Do("verify", host.id)>> \/ todo = <<Do("link", host.id)>>
    BY <1>0, <1>2 DEF TodoFits
  <2>2. CASE todo = <<Do("verify", host.id)>>
    <3>1. Head(todo).op = "verify" /\ Head(todo).id = host.id
      BY <2>2 DEF Do
    <3> QED
      BY <1>2, <2>2, <3>1
  <2>3. CASE todo = <<Do("link", host.id)>>
    <3>1. Head(todo).op = "link" /\ Head(todo).id = host.id
      BY <2>3 DEF Do
    <3> QED
      BY <1>2, <2>3, <3>1
  <2> QED
    BY <2>1, <2>2, <2>3
<1>3. CASE host.state = "awaitingOffer"
  <2>1. PICK t \in Transfers :
          todo \in {<<Do("drop part", t), Do("drop record", t)>>,
                   <<Do("drop part", t)>>, <<Do("drop record", t)>>}
    BY <1>0, <1>3 DEF TodoFits
  <2>2. CASE todo = <<Do("drop part", t), Do("drop record", t)>>
    <3>1. Head(todo).op = "drop part" /\ Head(todo).id = t
            /\ Tail(todo) = <<Do("drop record", t)>>
      <4>1. Head(todo) = Do("drop part", t) /\ Tail(todo) = <<Do("drop record", t)>>
        BY <2>2, ShortTails, Zenon
      <4>2. Do("drop part", t).op = "drop part" /\ Do("drop part", t).id = t
        BY DEF Do
      <4> QED
        BY <4>1, <4>2, Zenon
    <3> QED
      BY <1>3, <2>2, <3>1
  <2>3. CASE todo = <<Do("drop part", t)>>
    <3>1. Head(todo).op = "drop part" /\ Head(todo).id = t /\ Tail(todo) = <<>>
      <4>1. Head(todo) = Do("drop part", t) /\ Tail(todo) = <<>>
        BY <2>3, ShortTails, Zenon
      <4>2. Do("drop part", t).op = "drop part" /\ Do("drop part", t).id = t
        BY DEF Do
      <4> QED
        BY <4>1, <4>2, Zenon
    <3> QED
      BY <1>3, <2>3, <3>1
  <2>4. CASE todo = <<Do("drop record", t)>>
    <3>1. Head(todo).op = "drop record" /\ Head(todo).id = t /\ Tail(todo) = <<>>
      <4>1. Head(todo) = Do("drop record", t) /\ Tail(todo) = <<>>
        BY <2>4, ShortTails, Zenon
      <4>2. Do("drop record", t).op = "drop record" /\ Do("drop record", t).id = t
        BY DEF Do
      <4> QED
        BY <4>1, <4>2, Zenon
    <3> QED
      BY <1>3, <2>4, <3>1
  <2> QED
    BY <2>1, <2>2, <2>3, <2>4
<1> QED
  BY <1>0, <1>1, <1>2, <1>3

(* No step puts a foreign message on a stream. *)
LEMMA StreamShapeKept ==
  ASSUME Shape, BulkNext
  PROVE  StreamShape'
<1>1. StreamShape /\ (host.state # "awaitingOffer" => host.id \in Transfers)
  BY DEF Shape, HostShape
<1>2. CASE UNCHANGED <<up, down, replies>>
  BY <1>1, <1>2 DEF StreamShape
<1>3. CASE Begin
  <2>1. UNCHANGED <<down, replies>> /\ up' = Append(up, Offer(Head(queue)))
          /\ Head(queue) \in Transfers
    BY <1>3, QueueFacts DEF Begin, hostVars, Offer, Shape, ClientShape
  <2>2. Append(up, Offer(Head(queue))) \in Seq(ToHost)
    BY <1>1, <2>1, AppendShape
  <2> QED
    BY <1>1, <2>1, <2>2 DEF StreamShape
<1>4. CASE ClientIngest
  <2>1. down # <<>> /\ down' = Tail(down) /\ replies' = replies
    BY <1>4 DEF ClientIngest, hostVars
  <2>2. Head(down) \in ToClient
    BY <1>1, <2>1, AppendShape
  <2>3. up' = up \/ up' = Append(up, Abort(Head(down).id))
    BY <1>4 DEF ClientIngest, Abort
  <2>4. Append(up, Abort(Head(down).id)) \in Seq(ToHost)
    BY <1>1, <2>2, AppendShape, MessageKinds
  <2> QED
    BY <1>1, <2>1, <2>3, <2>4, AppendShape DEF StreamShape
<1>5. CASE SendChunk
  <2>1. PICK m \in sending : up' = Append(up, m) /\ UNCHANGED <<down, replies>>
    BY <1>5 DEF SendChunk, hostVars
  <2>2. m \in ToHost
    BY <2>1 DEF Shape, ClientShape, ToHost
  <2> QED
    BY <1>1, <2>1, <2>2, AppendShape DEF StreamShape
<1>6. ASSUME NEW c \in Chunks, ReadFails(c)
      PROVE  StreamShape'
  <2>1. UNCHANGED <<down, replies>> /\ up' = Append(up, Abort(Head(queue)))
          /\ client.state = "transferring"
    BY <1>6 DEF ReadFails, hostVars, Abort
  <2>2. Head(queue) \in Transfers
    BY <2>1, QueueFacts DEF Shape, ClientShape
  <2> QED
    BY <1>1, <2>1, <2>2, AppendShape DEF StreamShape
<1>7. CASE CancelAll
  <2>1. UNCHANGED <<down, replies>> /\ queue # <<>>
          /\ (up' = up \/ up' = Append(up, Abort(Head(queue))))
    BY <1>7 DEF CancelAll, hostVars, Abort
  <2>2. Head(queue) \in Transfers
    BY <2>1, QueueFacts DEF Shape, ClientShape
  <2> QED
    BY <1>1, <2>1, <2>2, AppendShape DEF StreamShape
<1>8. CASE SessionEnds \/ HostCrashes
  <2>1. up' = <<>> /\ down' = <<>> /\ replies' = <<>>
    BY <1>8 DEF SessionEnds, HostCrashes, NextSession
  <2> QED
    BY <2>1 DEF StreamShape
<1>9. CASE HostIngest
  <2> DEFINE m == Head(up)
  <2>1. /\ up # <<>> /\ up' = Tail(up) /\ m \in ToHost /\ down' = down
        /\ HeardNothing \/ HeardBusy(m) \/ HeardOffer(m) \/ HeardEnd(m)
            \/ HeardChunk(m)
    BY <1>9, HostIngestCases
  <2>2. m.id \in Transfers
    BY <2>1, MessageKinds
  <2> HIDE DEF m
  <2>3. replies' \in Seq(ToClient)
    <3>1. CASE HeardNothing
      BY <1>1, <3>1 DEF HeardNothing, StreamShape
    <3>2. CASE HeardBusy(m)
      BY <1>1, <2>2, <3>2, AppendShape DEF HeardBusy
    <3>3. CASE HeardOffer(m)
      <4>1. CASE RefuseOffer(m.id)
        BY <1>1, <2>2, <4>1, AppendShape DEF RefuseOffer
      <4>2. CASE AcceptOffer(m.id)
        BY <1>1, <2>2, <3>3, <4>2, AppendShape, AcceptFacts DEF HeardOffer
      <4> QED
        BY <3>3, <4>1, <4>2 DEF HeardOffer
    <3>4. CASE HeardEnd(m)
      BY <1>1, <3>4, AppendShape DEF HeardEnd, StreamShape
    <3>5. CASE HeardChunk(m)
      <4>1. CASE replies' = replies
        BY <1>1, <4>1 DEF StreamShape
      <4>2. CASE Credited([host EXCEPT !.consumed = @ + 1])
        <5> DEFINE h == [host EXCEPT !.consumed = @ + 1]
        <5>1. host.state = "receiving"
          BY <3>5 DEF HeardChunk
        <5>2. h \in HostRecord /\ h.state = "receiving" /\ h.id \in Transfers
          BY <5>1, StoredFacts
        <5>3. Credited(h) /\ replies \in Seq(ToClient)
          BY <1>1, <4>2 DEF StreamShape
        <5> HIDE DEF h
        <5> QED
          BY <1>1, <5>2, <5>3, CreditedCases, AppendShape
      <4> QED
        BY <3>5, <4>1, <4>2 DEF HeardChunk
    <3> QED
      BY <2>1, <3>1, <3>2, <3>3, <3>4, <3>5
  <2> QED
    BY <1>1, <2>1, <2>3, AppendShape DEF StreamShape
<1>10. CASE StoreChunk
  <2>0. UNCHANGED <<up, down>> /\ todo # <<>> /\ Head(todo).op = "store"
    BY <1>10 DEF StoreChunk
  <2>1. host.state = "receiving" /\ \E c \in Chunks : Head(todo).chunk = c
    <3>1. PICK c \in Chunks \ host.held, d \in Durable :
             Head(todo) = [op |-> "store", id |-> host.id, chunk |-> c, data |-> d]
      BY <2>0, OwedFacts DEF Shape
    <3>2. Head(todo).chunk = c
      BY <3>1
    <3>3. host.state = "receiving"
      BY <2>0, OwedFacts DEF Shape
    <3> QED
      BY <3>2, <3>3, Zenon
  <2>2. CASE FailStorage
    BY <1>1, <2>0, <2>1, <2>2, AppendShape DEF FailStorage, StreamShape
  <2>3. CASE Credited([host EXCEPT !.held = @ \cup {Head(todo).chunk},
               !.consumed = @ + 1])
    <3> DEFINE h == [host EXCEPT !.held = @ \cup {Head(todo).chunk},
               !.consumed = @ + 1]
    <3>1. h \in HostRecord /\ h.state = "receiving" /\ h.id \in Transfers
      BY <2>1, StoredFacts
    <3>2. Credited(h) /\ replies \in Seq(ToClient)
      BY <1>1, <2>3 DEF StreamShape
    <3> HIDE DEF h
    <3>3. replies' \in Seq(ToClient)
      BY <1>1, <3>1, <3>2, CreditedCases, AppendShape
    <3> QED
      BY <1>1, <2>0, <3>3 DEF StreamShape
  <2> QED
    BY <1>10, <2>2, <2>3 DEF StoreChunk
<1>11. CASE Verify
  <2>0. UNCHANGED <<up, down>> /\ todo # <<>> /\ Head(todo).op = "verify"
    BY <1>11 DEF Verify
  <2>1. host.state = "verifying" /\ Head(todo).id = host.id /\ host.id \in Transfers
    BY <2>0, OwedFacts DEF Shape, HostShape
  <2>2. \E x \in ToClient : replies' = Append(replies, x)
    BY <1>1, <1>11, <2>1, AppendShape DEF Verify, FailStorage
  <2> QED
    BY <1>1, <2>0, <2>2, AppendShape DEF StreamShape
<1>12. CASE Link \/ DropPart \/ DropRecord
  BY <1>2, <1>12 DEF Link, DropPart, DropRecord
<1>13. CASE SendReplies
  <2>1. up' = up /\ down' = down \o replies /\ replies' = <<>>
    BY <1>13 DEF SendReplies
  <2>2. down \o replies \in Seq(ToClient)
    BY <1>1, ConcatProperties DEF StreamShape
  <2> QED
    BY <1>1, <2>1, <2>2 DEF StreamShape
<1>14. CASE SourceChanges \/ \E c \in Chunks : SupplyChunk(c)
  BY <1>2, <1>14 DEF SourceChanges, SupplyChunk, hostVars
<1> QED
  BY <1>3, <1>4, <1>5, <1>6, <1>7, <1>8, <1>9, <1>10, <1>11, <1>12, <1>13, <1>14
  DEF BulkNext, ClientSteps, HostSteps, Disturbances

(***************************************************************************)
(* A discarded transfer, a failed one, and a new session: each leaves a    *)
(* re-armed engine.                                                        *)
(***************************************************************************)
LEMMA DiscardFacts ==
  ASSUME Shape, NEW t \in Transfers, Discard(t)
  PROVE  /\ host' \in HostRecord /\ host'.state = "awaitingOffer"
            /\ host'.consumed = 0
         /\ host'.start = {} /\ host'.held = {}
             /\ host'.book = Removed(host.book, t)
         /\ Removed(host.book, t) \in Books
         /\ todo' = <<Do("drop part", t), Do("drop record", t)>>
         /\ HostShape'
<1>1. host.book \in Books
  BY DEF Shape, HostShape, HostRecord
<1>2. Removed(host.book, t) \in Books
  BY <1>1, BookFacts
<1>3. /\ host' \in HostRecord /\ host'.state = "awaitingOffer" /\ host'.consumed = 0
      /\ host'.start = {} /\ host'.held = {} /\ host'.book = Removed(host.book, t)
      /\ todo' = <<Do("drop part", t), Do("drop record", t)>>
  BY <1>2, RearmedFacts DEF Discard
<1>4. TodoFits'
  BY <1>3, Zenon DEF TodoFits
<1> QED
  BY <1>2, <1>3, <1>4 DEF HostShape

(* A storage failure: the engine rearms with its book, the work is dropped, and
   an abort is appended. *)
LEMMA FailFacts ==
  ASSUME Shape, host.state # "awaitingOffer", FailStorage
  PROVE  /\ host' \in HostRecord /\ host'.state = "awaitingOffer"
            /\ host'.consumed = 0
         /\ host'.start = {} /\ host'.held = {}
             /\ host'.book = Put(host.book, host.id, host.held)
         /\ Put(host.book, host.id, host.held) \in Books
         /\ todo' = <<>> /\ replies' = Append(replies, Abort(host.id))
         /\ record' \in {record, Put(record, host.id, host.held)}
         /\ record' \in Books
         /\ faults' \in 0 .. MaxFaults
         /\ HostShape'
<1>1. /\ host.book \in Books /\ record \in Books /\ host.id \in Transfers
         /\ host.held \in SUBSET Chunks
      /\ faults \in 0 .. MaxFaults /\ MaxFaults \in Nat
  BY BulkAssumption DEF Shape, HostShape, HostRecord, DiskShape
<1>2. Put(host.book, host.id, host.held) \in Books
        /\ Put(record, host.id, host.held) \in Books
  BY <1>1, BookFacts
<1>3. /\ faults < MaxFaults /\ faults' = faults + 1
      /\ record' \in {record, Put(record, host.id, host.held)}
      /\ host' = Rearmed(Put(host.book, host.id, host.held))
      /\ todo' = <<>> /\ replies' = Append(replies, Abort(host.id))
  BY DEF FailStorage, Fault
<1>4. /\ host' \in HostRecord /\ host'.state = "awaitingOffer" /\ host'.consumed = 0
      /\ host'.start = {} /\ host'.held = {}
          /\ host'.book = Put(host.book, host.id, host.held)
  BY <1>2, <1>3, RearmedFacts
<1>5. TodoFits'
  BY <1>3, <1>4, Zenon DEF TodoFits
<1>6. faults' \in 0 .. MaxFaults /\ record' \in Books
  BY <1>1, <1>2, <1>3
<1> QED
  BY <1>2, <1>3, <1>4, <1>5, <1>6 DEF HostShape

(* The end of a session or a crash: the next engine starts from the book the
   host kept, restricted to the parts still on disk, and every stream is empty. *)
LEMMA NextSessionFacts ==
  ASSUME Shape, SessionEnds \/ HostCrashes
  PROVE  /\ \E left \in Books :
               /\ \/ left = record
                  \/ host.state # "awaitingOffer" /\ todo = <<>>
                      /\ left = Put(record, host.id, host.held)
               /\ record' = host'.book
               /\ DOMAIN record' = DOMAIN left \cap DOMAIN part
               /\ \A t \in DOMAIN record' : record'[t] = left[t]
         /\ record' \in Books
         /\ host' \in HostRecord /\ host'.state = "awaitingOffer"
             /\ host'.consumed = 0
         /\ host'.start = {} /\ host'.held = {}
         /\ HostShape'
         /\ client' = NoShell /\ sending' = {} /\ up' = <<>> /\ down' = <<>>
             /\ todo' = <<>> /\ replies' = <<>>
         /\ UNCHANGED <<queue, sent, changed, part, visible, refused, lost>>
         /\ faults' \in 0 .. MaxFaults /\ session' \in 1 .. MaxSessions
         /\ \/ blocks' = blocks
            \/ todo # <<>> /\ Head(todo).op = "store"
                /\ blocks' = CutShort(Head(todo))
<1>1. /\ host.book \in Books /\ record \in Books /\ host.held \in SUBSET Chunks
      /\ (host.state # "awaitingOffer" => host.id \in Transfers)
      /\ faults \in 0 .. MaxFaults /\ MaxFaults \in Nat
          /\ session \in 1 .. MaxSessions /\ MaxSessions \in Nat
  BY BulkAssumption DEF Shape, HostShape, HostRecord, DiskShape
<1>2. PICK left \in Books :
        /\ NextSession(left)
        /\ \/ left = record
           \/ host.state # "awaitingOffer" /\ todo = <<>>
               /\ left = Put(record, host.id, host.held)
  <2>1. CASE SessionEnds
    <3>1. host.state # "awaitingOffer" => Put(record, host.id, host.held) \in Books
      BY <1>1, BookFacts
    <3> QED
      BY <1>1, <2>1, <3>1 DEF SessionEnds
  <2>2. CASE HostCrashes
    BY <1>1, <2>2 DEF HostCrashes
  <2> QED
    BY <2>1, <2>2
<1>3. DOMAIN left \cap DOMAIN part \in SUBSET DOMAIN left
  OBVIOUS
<1> DEFINE loaded == Restrict(left, DOMAIN left \cap DOMAIN part)
<1>4. /\ loaded \in Books /\ DOMAIN loaded = DOMAIN left \cap DOMAIN part
      /\ \A t \in DOMAIN loaded : loaded[t] = left[t]
  BY <1>2, <1>3, BookFacts
<1>5. /\ record' = loaded /\ host' = Rearmed(loaded) /\ session < MaxSessions
         /\ session' = session + 1
      /\ client' = NoShell /\ sending' = {} /\ up' = <<>> /\ down' = <<>>
          /\ todo' = <<>> /\ replies' = <<>>
  BY <1>2 DEF NextSession
<1> HIDE DEF loaded
<1>6. /\ host' \in HostRecord /\ host'.state = "awaitingOffer" /\ host'.consumed = 0
      /\ host'.start = {} /\ host'.held = {} /\ host'.book = loaded
  BY <1>4, <1>5, RearmedFacts
<1>7. TodoFits'
  BY <1>5, <1>6, Zenon DEF TodoFits
<1>8. HostShape'
  BY <1>6, <1>7 DEF HostShape
<1>9. session' \in 1 .. MaxSessions
  BY <1>1, <1>5
<1>10. /\ UNCHANGED <<queue, sent, changed, part, visible, refused, lost>>
       /\ faults' \in 0 .. MaxFaults
       /\ \/ blocks' = blocks
          \/ todo # <<>> /\ Head(todo).op = "store"
              /\ blocks' = CutShort(Head(todo))
  <2>1. CASE SessionEnds
    BY <1>1, <2>1 DEF SessionEnds
  <2>2. CASE HostCrashes
    <3>1. /\ UNCHANGED <<queue, sent, changed, part, visible, refused, lost>>
          /\ faults < MaxFaults /\ faults' = faults + 1
          /\ \/ blocks' = blocks
             \/ todo # <<>> /\ Head(todo).op = "store"
                 /\ blocks' = CutShort(Head(todo))
      BY <2>2 DEF HostCrashes, Fault
    <3> QED
      BY <1>1, <3>1
  <2> QED
    BY <2>1, <2>2
<1>11. /\ record' = host'.book /\ DOMAIN record' = DOMAIN left \cap DOMAIN part
       /\ \A t \in DOMAIN record' : record'[t] = left[t]
       /\ record' \in Books
  BY <1>4, <1>5, <1>6
<1>12. \E l \in Books :
          /\ \/ l = record
             \/ host.state # "awaitingOffer" /\ todo = <<>>
                 /\ l = Put(record, host.id, host.held)
          /\ record' = host'.book
          /\ DOMAIN record' = DOMAIN l \cap DOMAIN part
          /\ \A t \in DOMAIN record' : record'[t] = l[t]
  BY <1>2, <1>11
<1> QED
  BY <1>5, <1>6, <1>8, <1>9, <1>10, <1>11, <1>12

(* No step breaks the shape of the host engine and its work list. *)
LEMMA HostShapeKept ==
  ASSUME Shape, BulkNext
  PROVE  HostShape'
<1>1. /\ HostShape /\ host \in HostRecord
         /\ (host.state # "awaitingOffer" => host.id \in Transfers)
      /\ host.start \subseteq host.held /\ TodoFits
      /\ replies \in Seq(ToClient)
  BY DEF Shape, HostShape, StreamShape
<1>2. CASE UNCHANGED <<host, todo>>
  BY <1>1, <1>2 DEF HostShape, TodoFits
<1>3. ASSUME NEW h \in HostRecord, h.state = "receiving", h.id \in Transfers,
             h.start \subseteq h.held,
             Credited(h)
      PROVE  HostShape'
  <2>1. /\ host' \in HostRecord
        /\ host'.id = h.id /\ host'.held = h.held /\ host'.start = h.start
        /\ \/ h.held = Chunks /\ host'.state = "verifying"
              /\ todo' = <<Do("verify", h.id)>>
           \/ h.held # Chunks /\ host'.state = "receiving" /\ todo' = <<>>
    BY <1>1, <1>3, CreditedCases
  <2>2. TodoFits'
    BY <2>1, Zenon DEF TodoFits
  <2> QED
    BY <1>3, <2>1, <2>2 DEF HostShape
<1>4. CASE HostIngest
  <2> DEFINE m == Head(up)
  <2>1. /\ m \in ToHost /\ todo = <<>>
        /\ HeardNothing \/ HeardBusy(m) \/ HeardOffer(m) \/ HeardEnd(m)
            \/ HeardChunk(m)
    BY <1>4, HostIngestCases
  <2>2. m.id \in Transfers
    BY <2>1, MessageKinds
  <2> HIDE DEF m
  <2>3. CASE HeardNothing \/ HeardBusy(m)
    BY <1>2, <2>3 DEF HeardNothing, HeardBusy
  <2>4. CASE HeardOffer(m)
    <3>1. CASE AcceptOffer(m.id)
      <4>1. /\ host' \in HostRecord /\ host'.id = m.id /\ host'.held = host'.start
            /\ \/ host'.held = Chunks /\ host'.state = "verifying"
                  /\ todo' = <<Do("verify", m.id)>>
               \/ host'.held # Chunks /\ host'.state = "receiving" /\ todo' = <<>>
        BY <2>2, <2>4, <3>1, AcceptFacts DEF HeardOffer
      <4>2. TodoFits'
        BY <4>1, Zenon DEF TodoFits
      <4> QED
        BY <2>2, <4>1, <4>2 DEF HostShape
    <3>2. CASE RefuseOffer(m.id)
      <4>1. host' = Rearmed(host.book) /\ host.book \in Books
        BY <1>1, <3>2 DEF RefuseOffer, HostRecord
      <4>2. todo' = <<>> \/ todo' = <<Do("drop part", m.id)>>
        BY <3>2 DEF RefuseOffer
      <4>3. /\ host' \in HostRecord /\ host'.state = "awaitingOffer"
               /\ host'.consumed = 0
            /\ host'.start = {} /\ host'.held = {}
        BY <4>1, RearmedFacts
      <4>4. TodoFits'
        BY <2>2, <4>2, <4>3, Zenon DEF TodoFits
      <4> QED
        BY <4>3, <4>4 DEF HostShape
    <3> QED
      BY <2>4, <3>1, <3>2 DEF HeardOffer
  <2>5. CASE HeardEnd(m)
    BY <1>1, <2>5, DiscardFacts DEF HeardEnd
  <2>6. CASE HeardChunk(m)
    <3>0. host.state = "receiving" /\ m \in ChunkMessage /\ m.id = host.id
      BY <2>1, <2>6, MessageKinds DEF HeardChunk, IsChunk
    <3>1. CASE m.chunk \notin host.held /\ todo' = <<Store(m)>>
                 /\ UNCHANGED <<host, replies>>
      <4>1. m.chunk \in Chunks \ host'.held /\ m.data \in Durable /\ host' = host
        BY <3>0, <3>1 DEF ChunkMessage
      <4>2. todo' = <<[op |-> "store", id |-> host'.id, chunk |-> m.chunk,
              data |-> m.data]>>
        BY <3>0, <3>1 DEF Store
      <4>3. TodoFits'
        BY <3>0, <4>1, <4>2 DEF TodoFits
      <4> QED
        BY <1>1, <4>1, <4>3 DEF HostShape
    <3>2. CASE Credited([host EXCEPT !.consumed = @ + 1])
      <4> DEFINE h == [host EXCEPT !.consumed = @ + 1]
      <4>1. h \in HostRecord /\ h.state = "receiving" /\ h.id \in Transfers
              /\ h.start \subseteq h.held
        BY <1>1, <3>0, StoredFacts
      <4>2. Credited(h)
        BY <3>2
      <4> HIDE DEF h
      <4> QED
        BY <1>3, <4>1, <4>2
    <3> QED
      BY <2>6, <3>1, <3>2 DEF HeardChunk
  <2> QED
    BY <2>1, <2>3, <2>4, <2>5, <2>6
<1>5. CASE StoreChunk
  <2>0. todo # <<>> /\ Head(todo).op = "store"
    BY <1>5 DEF StoreChunk
  <2>1. PICK c \in Chunks \ host.held, d \in Durable :
             Head(todo) = [op |-> "store", id |-> host.id, chunk |-> c, data |-> d]
    BY <1>1, <2>0, OwedFacts
  <2>2. Head(todo).chunk = c
    BY <2>1
  <2>3. host.state = "receiving"
    BY <1>1, <2>0, OwedFacts
  <2>4. CASE FailStorage
    BY <2>3, <2>4, FailFacts
  <2>5. CASE Credited([host EXCEPT !.held = @ \cup {Head(todo).chunk},
               !.consumed = @ + 1])
    <3> DEFINE h == [host EXCEPT !.held = @ \cup {c}, !.consumed = @ + 1]
    <3>1. h \in HostRecord /\ h.state = "receiving" /\ h.id \in Transfers
            /\ h.start \subseteq h.held
      BY <1>1, <2>3, StoredFacts
    <3>2. Credited(h)
      BY <2>2, <2>5
    <3> HIDE DEF h
    <3> QED
      BY <1>3, <3>1, <3>2
  <2> QED
    BY <1>5, <2>4, <2>5 DEF StoreChunk
<1>6. CASE Verify
  <2>0. todo # <<>> /\ Head(todo).op = "verify"
    BY <1>6 DEF Verify
  <2>1. host.state = "verifying" /\ Head(todo).id = host.id /\ host.id \in Transfers
    BY <1>1, <2>0, OwedFacts
  <2>2. CASE FailStorage
    BY <2>1, <2>2, FailFacts
  <2>3. CASE Discard(Head(todo).id)
    BY <2>1, <2>3, DiscardFacts
  <2>4. CASE todo' = <<Do("link", Head(todo).id)>> /\ host' = host
    <3>1. TodoFits'
      BY <2>1, <2>4, Zenon DEF TodoFits
    <3> QED
      BY <1>1, <2>1, <2>4, <3>1 DEF HostShape
  <2> QED
    BY <1>6, <2>2, <2>3, <2>4 DEF Verify
<1>7. CASE Link
  <2>0. todo # <<>> /\ Head(todo).op = "link" /\ Discard(Head(todo).id)
    BY <1>7 DEF Link
  <2> QED
    BY <1>1, <2>0, OwedFacts, DiscardFacts
<1>8. CASE DropPart
  <2>0. todo # <<>> /\ Head(todo).op = "drop part" /\ todo' = Tail(todo)
          /\ host' = host
    BY <1>8 DEF DropPart
  <2>1. PICK t \in Transfers : Tail(todo) = <<Do("drop record", t)>>
               \/ Tail(todo) = <<>>
    BY <1>1, <2>0, OwedFacts
  <2>2. host'.state = "awaitingOffer"
    BY <1>1, <2>0, OwedFacts
  <2>3. TodoFits'
    BY <2>0, <2>1, <2>2, Zenon DEF TodoFits
  <2> QED
    BY <1>1, <2>0, <2>3 DEF HostShape
<1>9. CASE DropRecord
  <2>0. todo # <<>> /\ Head(todo).op = "drop record" /\ todo' = Tail(todo)
          /\ host' = host
    BY <1>9 DEF DropRecord
  <2>1. Tail(todo) = <<>>
    BY <1>1, <2>0, OwedFacts
  <2>2. host'.state = "awaitingOffer"
    BY <1>1, <2>0, OwedFacts
  <2>3. TodoFits'
    BY <2>0, <2>1, <2>2, Zenon DEF TodoFits
  <2> QED
    BY <1>1, <2>0, <2>3 DEF HostShape
<1>10. CASE SessionEnds \/ HostCrashes
  BY <1>10, NextSessionFacts
<1>11. CASE ClientSteps \/ CancelAll \/ SourceChanges \/ SendReplies
              \/ \E c \in Chunks : ReadFails(c)
  BY <1>2, <1>11 DEF ClientSteps, Begin, ClientIngest, SendChunk, SupplyChunk,
       CancelAll, SourceChanges,
       SendReplies, ReadFails, hostVars
<1> QED
  BY <1>4, <1>5, <1>6, <1>7, <1>8, <1>9, <1>10, <1>11
  DEF BulkNext, HostSteps, Disturbances

(***************************************************************************)
(* Short lists of disk operations.                                         *)
(***************************************************************************)
LEMMA OwesFacts ==
  ASSUME NEW op, NEW t
  PROVE  /\ ~Owes(<<>>, op, t)
         /\ \A x : Owes(<<x>>, op, t) <=> x = Do(op, t)
         /\ \A x, y : Owes(<<x, y>>, op, t) <=> (x = Do(op, t) \/ y = Do(op, t))
<1>1. ~Owes(<<>>, op, t)
  BY DEF Owes
<1>2. ASSUME NEW x PROVE Owes(<<x>>, op, t) <=> x = Do(op, t)
  <2>1. Len(<<x>>) = 1 /\ <<x>>[1] = x /\ 1 .. 1 = {1}
    OBVIOUS
  <2> QED
    BY <2>1 DEF Owes
<1>3. ASSUME NEW x, NEW y PROVE Owes(<<x, y>>, op, t)
             <=> (x = Do(op, t) \/ y = Do(op, t))
  <2>1. Len(<<x, y>>) = 2 /\ <<x, y>>[1] = x /\ <<x, y>>[2] = y /\ 1 .. 2 = {1, 2}
    OBVIOUS
  <2> QED
    BY <2>1 DEF Owes
<1> QED
  BY <1>1, <1>2, <1>3

(* Two pieces of work are equal only when their operation and transfer are. *)
LEMMA OpsDiffer ==
  /\ \A op, t : Do(op, t).op = op /\ Do(op, t).id = t
  /\ \A o, p, t, u : Do(o, t) = Do(p, u) => o = p /\ t = u
<1>1. \A op, t : Do(op, t).op = op /\ Do(op, t).id = t
  BY DEF Do
<1> QED
  BY <1>1

(* What a work list of one element owes. *)
LEMMA OwesDo ==
  ASSUME NEW o, NEW u, NEW p, NEW t
  PROVE  /\ ~Owes(<<>>, p, t)
         /\ Owes(<<Do(o, u)>>, p, t) <=> (p = o /\ t = u)
         /\ \A w : w.op # p => ~Owes(<<w>>, p, t)
<1>1. \A q : Do(q, u) = Do(p, t) <=> (p = q /\ t = u)
  BY OpsDiffer
<1>2. Owes(<<Do(o, u)>>, p, t) <=> Do(o, u) = Do(p, t)
  BY OwesFacts
<1>4. \A w : w.op # p => ~Owes(<<w>>, p, t)
  <2> TAKE w
  <2>1. Owes(<<w>>, p, t) <=> w = Do(p, t)
    BY OwesFacts
  <2> QED
    BY <2>1, OpsDiffer
<1>5. ~Owes(<<>>, p, t)
  BY OwesFacts
<1> QED
  BY <1>1, <1>2, <1>4, <1>5

\* What the removal of a transfer's two names leaves owed.
LEMMA OwesRemoval ==
  ASSUME NEW u, NEW list, list = <<Do("drop part", u), Do("drop record", u)>>, NEW t
  PROVE  /\ Owes(list, "drop part", t) <=> t = u
         /\ Owes(list, "drop record", t) <=> t = u
         /\ ~Owes(list, "link", t)
<1>1. ASSUME NEW p
      PROVE  Owes(list, p, t)
             <=> (Do("drop part", u) = Do(p, t) \/ Do("drop record", u) = Do(p, t))
  <2>1. \A x, y : Owes(<<x, y>>, p, t) <=> (x = Do(p, t) \/ y = Do(p, t))
    BY OwesFacts, Zenon
  <2> QED
    BY <2>1, Zenon
<1>2. /\ \A o : Do(o, u) = Do(o, t) <=> t = u
      /\ \A o, p : o # p => Do(o, u) # Do(p, t)
  BY OpsDiffer
<1>3. "link" # "drop part" /\ "link" # "drop record" /\ "drop part" # "drop record"
  OBVIOUS
<1>4. /\ Do("drop part", u) = Do("drop part", t) <=> t = u
      /\ ~(Do("drop record", u) = Do("drop part", t))
      /\ Do("drop record", u) = Do("drop record", t) <=> t = u
      /\ ~(Do("drop part", u) = Do("drop record", t))
      /\ ~(Do("drop part", u) = Do("link", t))
          /\ ~(Do("drop record", u) = Do("link", t))
  BY <1>2, <1>3, Zenon
<1> QED
  BY <1>1, <1>4, Zenon

(***************************************************************************)
(* The answers under way, as the streams move.                             *)
(***************************************************************************)
LEMMA JoinFacts ==
  ASSUME NEW S, NEW d \in Seq(S), NEW r \in Seq(S)
  PROVE  /\ Len(d) \in Nat /\ Len(r) \in Nat /\ Len(d \o r) = Len(d) + Len(r)
         /\ \A i \in 1 .. Len(d \o r) : (d \o r)[i] \in S
         /\ \A i \in 1 .. Len(d \o r) :
               (d \o r)[i] = IF i <= Len(d) THEN d[i] ELSE r[i - Len(d)]
<1>1. Len(d) \in Nat /\ Len(r) \in Nat
  BY LenProperties
<1>2. /\ d \o r \in Seq(S) /\ Len(d \o r) = Len(d) + Len(r)
      /\ \A i \in 1 .. Len(d) + Len(r) : (d \o r)[i] = IF i <= Len(d) THEN d[i] ELSE r[i - Len(d)]
  BY ConcatProperties, Zenon
<1>3. \A i \in 1 .. Len(d \o r) : (d \o r)[i] \in S
  BY <1>2, ElementOfSeq, Zenon
<1> QED
  BY <1>1, <1>2, <1>3, Zenon

(* The answers are those on the way followed by those the host has not sent. *)
LEMMA AnswersAre ==
  ASSUME StreamShape
  PROVE  /\ Len(down) \in Nat /\ Len(replies) \in Nat
         /\ Len(Answers) = Len(down) + Len(replies) /\ Len(Answers) \in Nat
         /\ \A i \in 1 .. Len(Answers) : Answers[i] \in ToClient
         /\ \A i \in 1 .. Len(Answers) :
               Answers[i] = IF i <= Len(down) THEN down[i] ELSE replies[i - Len(down)]
<1>1. down \in Seq(ToClient) /\ replies \in Seq(ToClient)
  BY DEF StreamShape
<1>2. /\ Len(down) \in Nat /\ Len(replies) \in Nat
         /\ Len(Answers) = Len(down) + Len(replies)
      /\ \A i \in 1 .. Len(Answers) : Answers[i] \in ToClient
      /\ \A i \in 1 .. Len(Answers) :
            Answers[i] = IF i <= Len(down) THEN down[i] ELSE replies[i - Len(down)]
  BY <1>1, JoinFacts, Zenon DEF Answers
<1> QED
  BY <1>2

(* A reply is appended at the end of the answers. *)
LEMMA AnswersGrow ==
  ASSUME StreamShape, NEW m \in ToClient, down' = down,
         replies' = Append(replies, m)
  PROVE  /\ Len(Answers') = Len(Answers) + 1 /\ Len(Answers) \in Nat
         /\ \A i \in 1 .. Len(Answers) : Answers'[i] = Answers[i]
         /\ Answers'[Len(Answers) + 1] = m
<1>0. down \in Seq(ToClient) /\ replies \in Seq(ToClient)
  BY DEF StreamShape
<1>1. /\ Len(down) \in Nat /\ Len(replies) \in Nat
      /\ Len(Answers) = Len(down) + Len(replies)
      /\ \A i \in 1 .. Len(Answers) :
            Answers[i] = IF i <= Len(down) THEN down[i] ELSE replies[i - Len(down)]
  BY AnswersAre
<1>2. /\ Append(replies, m) \in Seq(ToClient)
         /\ Len(Append(replies, m)) = Len(replies) + 1
      /\ \A i \in 1 .. Len(replies) : Append(replies, m)[i] = replies[i]
      /\ Append(replies, m)[Len(replies) + 1] = m
  BY <1>0, AppendProperties
<1> DEFINE r == Append(replies, m)
<1>3. Answers' = down \o r
  BY DEF Answers
<1> HIDE DEF r
<1>4. /\ Len(Answers') = Len(down) + Len(r)
      /\ \A i \in 1 .. Len(Answers') :
            Answers'[i] = IF i <= Len(down) THEN down[i] ELSE r[i - Len(down)]
  BY <1>0, <1>2, <1>3, JoinFacts, Zenon DEF r
<1>5. ASSUME NEW i \in 1 .. Len(Answers) PROVE Answers'[i] = Answers[i]
  <2>1. i \in 1 .. Len(Answers')
    BY <1>1, <1>2, <1>4 DEF r
  <2>2. CASE i <= Len(down)
    BY <1>1, <1>4, <2>1, <2>2
  <2>3. CASE ~ (i <= Len(down))
    <3>1. i - Len(down) \in 1 .. Len(replies)
      BY <1>1, <2>3
    <3>2. r[i - Len(down)] = replies[i - Len(down)]
      BY <1>2, <3>1 DEF r
    <3> QED
      BY <1>1, <1>4, <2>1, <2>3, <3>2
  <2> QED
    BY <2>2, <2>3
<1>6. Answers'[Len(Answers) + 1] = m
  <2> DEFINE k == Len(Answers) + 1
  <2>1. k \in 1 .. Len(Answers') /\ ~ (k <= Len(down))
          /\ k - Len(down) = Len(replies) + 1
    BY <1>1, <1>2, <1>4 DEF r
  <2> HIDE DEF k
  <2>2. Answers'[k] = r[k - Len(down)]
    BY <1>4, <2>1
  <2> QED
    BY <1>2, <2>1, <2>2 DEF r, k
<1>7. Len(Answers') = Len(Answers) + 1 /\ Len(Answers) \in Nat
  BY <1>1, <1>2, <1>4 DEF r
<1> QED
  BY <1>5, <1>6, <1>7

(* The client takes the first answer. *)
LEMMA AnswersShift ==
  ASSUME StreamShape, down # <<>>, down' = Tail(down), replies' = replies
  PROVE  /\ Len(Answers') = Len(Answers) - 1 /\ Len(Answers) \in Nat
            /\ Len(Answers) >= 1
         /\ Len(down') = Len(down) - 1 /\ Len(down) \in Nat /\ Len(down) >= 1
         /\ \A i \in 1 .. Len(Answers') : Answers'[i] = Answers[i + 1]
         /\ Answers[1] = Head(down) /\ Head(down) \in ToClient
<1>0. down \in Seq(ToClient) /\ replies \in Seq(ToClient)
  BY DEF StreamShape
<1>1. /\ Len(down) \in Nat /\ Len(replies) \in Nat
      /\ Len(Answers) = Len(down) + Len(replies)
      /\ \A i \in 1 .. Len(Answers) :
            Answers[i] = IF i <= Len(down) THEN down[i] ELSE replies[i - Len(down)]
  BY AnswersAre
<1>2. /\ Tail(down) \in Seq(ToClient) /\ Len(Tail(down)) = Len(down) - 1
      /\ \A i \in 1 .. Len(Tail(down)) : Tail(down)[i] = down[i + 1]
      /\ Head(down) \in ToClient
  BY <1>0, HeadTailProperties
<1>3. Len(down) >= 1 /\ Head(down) = down[1]
  BY <1>0, EmptySeq
<1>4. Answers' = Tail(down) \o replies
  BY DEF Answers
<1>5. /\ Len(Answers') = Len(Tail(down)) + Len(replies)
      /\ \A i \in 1 .. Len(Answers') :
            Answers'[i] = IF i <= Len(Tail(down)) THEN Tail(down)[i] ELSE replies[i - Len(Tail(down))]
  BY <1>0, <1>2, <1>4, JoinFacts, Zenon
<1>6. ASSUME NEW i \in 1 .. Len(Answers') PROVE Answers'[i] = Answers[i + 1]
  <2>1. i \in Nat /\ i >= 1 /\ i + 1 \in 1 .. Len(Answers)
    BY <1>1, <1>2, <1>5
  <2>2. Answers[i + 1] = IF i + 1 <= Len(down) THEN down[i + 1] ELSE replies[(i + 1) - Len(down)]
    BY <1>1, <2>1
  <2>3. CASE i <= Len(down) - 1
    BY <1>1, <1>2, <1>5, <2>1, <2>2, <2>3
  <2>4. CASE i > Len(down) - 1
    <3>1. (i + 1) - Len(down) = i - Len(Tail(down)) /\ ~ (i <= Len(Tail(down)))
            /\ ~ (i + 1 <= Len(down))
      BY <1>1, <1>2, <2>1, <2>4
    <3> QED
      BY <1>5, <2>2, <3>1
  <2> QED
    BY <1>1, <2>1, <2>3, <2>4
<1>7. Answers[1] = Head(down)
  BY <1>1, <1>3
<1> QED
  BY <1>1, <1>2, <1>3, <1>5, <1>6, <1>7

(* Sending the replies moves them, and leaves the answers as they were. *)
LEMMA AnswersSent ==
  ASSUME StreamShape, down' = down \o replies, replies' = <<>>
  PROVE  Answers' = Answers /\ Len(down') = Len(down) + Len(replies)
<1>1. down \in Seq(ToClient) /\ replies \in Seq(ToClient)
  BY DEF StreamShape
<1>2. down \o replies \in Seq(ToClient)
        /\ Len(down \o replies) = Len(down) + Len(replies)
  BY <1>1, ConcatProperties
<1>3. (down \o replies) \o <<>> = down \o replies
  BY <1>2, ConcatEmptySeq
<1> QED
  BY <1>2, <1>3 DEF Answers

(***************************************************************************)
(* The messages on their way to the host, as the stream moves.             *)
(***************************************************************************)
LEMMA UpAre ==
  ASSUME StreamShape
  PROVE  /\ Len(up) \in Nat /\ \A i \in 1 .. Len(up) : up[i] \in ToHost
         /\ up # <<>> => Len(up) >= 1 /\ up[1] = Head(up)
<1>1. up \in Seq(ToHost)
  BY DEF StreamShape
<1> QED
  BY <1>1, LenProperties, ElementOfSeq, EmptySeq

(* A message is appended at the end of the stream to the host. *)
LEMMA UpGrow ==
  ASSUME StreamShape, NEW m \in ToHost, up' = Append(up, m)
  PROVE  /\ Len(up') = Len(up) + 1 /\ Len(up) \in Nat
         /\ \A i \in 1 .. Len(up) : up'[i] = up[i]
         /\ up'[Len(up) + 1] = m
<1>1. up \in Seq(ToHost)
  BY DEF StreamShape
<1> QED
  BY <1>1, AppendProperties, LenProperties

(* The host takes the first message of the stream. *)
LEMMA UpShift ==
  ASSUME StreamShape, up # <<>>, up' = Tail(up)
  PROVE  /\ Len(up') = Len(up) - 1 /\ Len(up) \in Nat /\ Len(up) >= 1
         /\ \A i \in 1 .. Len(up') : up'[i] = up[i + 1] /\ i + 1 \in 1 .. Len(up)
         /\ up[1] = Head(up) /\ Head(up) \in ToHost
<1>1. up \in Seq(ToHost)
  BY DEF StreamShape
<1>2. Len(up) \in Nat /\ Len(up) >= 1 /\ Head(up) = up[1]
  BY <1>1, EmptySeq, LenProperties
<1>3. /\ Head(up) \in ToHost /\ Len(Tail(up)) = Len(up) - 1
      /\ \A i \in 1 .. Len(Tail(up)) : Tail(up)[i] = up[i + 1]
  BY <1>1, HeadTailProperties
<1> QED
  BY <1>2, <1>3

-----------------------------------------------------------------------------
(* The disk.                                                               *)

(* What removing and putting do to the table of part names. *)
LEMMA PartFacts ==
  ASSUME DiskShape
  PROVE  /\ DOMAIN part \subseteq Transfers
         /\ \A t \in DOMAIN part : part[t] \in Inodes
         /\ \A t \in Transfers :
               /\ Removed(part,
                   t) \in UNION {[D -> Inodes] : D \in SUBSET Transfers}
               /\ DOMAIN Removed(part, t) = DOMAIN part \ {t}
               /\ \A u \in DOMAIN part \ {t} : Removed(part, t)[u] = part[u]
         /\ \A t \in Transfers, x \in Inodes :
               /\ Put(part, t, x) \in UNION {[D -> Inodes] : D \in SUBSET Transfers}
               /\ DOMAIN Put(part, t, x) = DOMAIN part \cup {t}
               /\ \A u \in DOMAIN part \cup {t} : Put(part, t,
                   x)[u] = IF u = t THEN x ELSE part[u]
<1>1. PICK E \in SUBSET Transfers : part \in [E -> Inodes]
  BY DEF DiskShape
<1>2. DOMAIN part = E /\ \A t \in E : part[t] \in Inodes
  BY <1>1
<1>3. ASSUME NEW t \in Transfers
      PROVE  /\ Removed(part, t) \in UNION {[D -> Inodes] : D \in SUBSET Transfers}
             /\ DOMAIN Removed(part, t) = DOMAIN part \ {t}
             /\ \A u \in DOMAIN part \ {t} : Removed(part, t)[u] = part[u]
  <2> DEFINE D == E \ {t}
  <2>1. Removed(part, t) = [u \in D |-> part[u]]
    BY <1>2 DEF Removed, Restrict
  <2>2. D \in SUBSET Transfers /\ Removed(part, t) \in [D -> Inodes]
    BY <1>2, <2>1
  <2> QED
    BY <1>2, <2>1, <2>2
<1>4. ASSUME NEW t \in Transfers, NEW x \in Inodes
      PROVE  /\ Put(part, t, x) \in UNION {[D -> Inodes] : D \in SUBSET Transfers}
             /\ DOMAIN Put(part, t, x) = DOMAIN part \cup {t}
             /\ \A u \in DOMAIN part \cup {t} : Put(part, t,
                 x)[u] = IF u = t THEN x ELSE part[u]
  <2> DEFINE D == E \cup {t}
  <2>1. Put(part, t, x) = [u \in D |-> IF u = t THEN x ELSE part[u]]
    BY <1>2 DEF Put
  <2>2. D \in SUBSET Transfers /\ Put(part, t, x) \in [D -> Inodes]
    BY <1>2, <2>1
  <2> QED
    BY <1>2, <2>1, <2>2
<1> QED
  BY <1>2, <1>3, <1>4

(***************************************************************************)
(* A write to the staging file changes one block of it, and not one the    *)
(* engine holds.                                                           *)
(***************************************************************************)
Wrote(c, v) ==
    \A y \in Inodes, d \in Chunks :
        blocks'[y][d] = IF y = part[host.id] /\ d = c THEN v ELSE blocks[y][d]

(* A write changes one block of one inode. *)
LEMMA BlockWrite ==
  ASSUME blocks \in [Inodes -> [Chunks -> Contents]], NEW x \in Inodes,
         NEW c \in Chunks,
         NEW v \in Contents, NEW b, b = [blocks EXCEPT ![x][c] = v]
  PROVE  /\ b \in [Inodes -> [Chunks -> Contents]]
         /\ \A y \in Inodes, d \in Chunks :
               b[y][d] = IF y = x /\ d = c THEN v ELSE blocks[y][d]
<1>1. blocks[x] \in [Chunks -> Contents]
  OBVIOUS
<1> DEFINE r == [blocks[x] EXCEPT ![c] = v]
<1>2. r \in [Chunks -> Contents]
        /\ \A d \in Chunks : r[d] = IF d = c THEN v ELSE blocks[x][d]
  BY <1>1
<1>3. b = [blocks EXCEPT ![x] = r]
  OBVIOUS
<1> HIDE DEF r
<1>4. b \in [Inodes -> [Chunks -> Contents]] /\ b[x] = r /\ \A y \in Inodes : y # x
        => b[y] = blocks[y]
  BY <1>2, <1>3
<1> QED
  BY <1>2, <1>4

(* The store writes one chunk the engine does not hold yet; unless the crash
   cut it short, durably. *)
LEMMA StoreWrites ==
  ASSUME Shape, EngineDurable, todo # <<>>, Head(todo).op = "store",
         \/ blocks' = [blocks EXCEPT ![part[Head(todo).id]][Head(todo).chunk] = Head(todo).data]
         \/ blocks' = CutShort(Head(todo))
  PROVE  /\ blocks' \in [Inodes -> [Chunks -> Contents]]
         /\ host.id \in DOMAIN part /\ host.state = "receiving"
         /\ \E c \in Chunks \ host.held, v \in Contents :
               /\ Wrote(c, v) /\ Head(todo).chunk = c
               /\ blocks' = [blocks EXCEPT ![part[Head(todo).id]][Head(todo).chunk] = Head(todo).data]
                     => v \in Durable
<1>1. PICK c \in Chunks \ host.held, d \in Durable :
         Head(todo) = [op |-> "store", id |-> host.id, chunk |-> c, data |-> d]
  BY OwedFacts DEF Shape
<1>2. host.state = "receiving"
  BY OwedFacts DEF Shape
<1>3. Head(todo).id = host.id /\ Head(todo).chunk = c /\ Head(todo).data = d
  BY <1>1
<1>4. host.id \in DOMAIN part
  BY <1>2 DEF EngineDurable, Has
<1> DEFINE x == part[host.id]
<1>5. x \in Inodes /\ blocks \in [Inodes -> [Chunks -> Contents]]
  BY <1>4, PartFacts DEF Shape, DiskShape
<1>6. d \in Contents /\ blocks[x][c] \in Contents /\ "torn" \in Contents
  BY <1>5 DEF Durable, Contents
<1> HIDE DEF x
<1>7. CASE blocks' = [blocks EXCEPT ![part[Head(todo).id]][Head(todo).chunk] = Head(todo).data]
  <2>1. blocks' = [blocks EXCEPT ![x][c] = d]
    BY <1>3, <1>7 DEF x
  <2>2. /\ blocks' \in [Inodes -> [Chunks -> Contents]]
        /\ \A y \in Inodes, e \in Chunks : blocks'[y][e] = IF y = x
            /\ e = c THEN d ELSE blocks[y][e]
    BY <1>5, <1>6, <2>1, BlockWrite
  <2>3. Wrote(c, d)
    BY <2>2 DEF Wrote, x
  <2> QED
    BY <1>2, <1>3, <1>4, <1>6, <2>2, <2>3
<1>8. CASE /\ blocks' = CutShort(Head(todo))
           /\ ~(blocks' = [blocks EXCEPT ![part[Head(todo).id]][Head(todo).chunk] = Head(todo).data])
  <2> DEFINE v == IF blocks[x][c] = d THEN blocks[x][c] ELSE "torn"
  <2>1. blocks' = [blocks EXCEPT ![x][c] = v]
    BY <1>3, <1>8 DEF CutShort, x
  <2>0. v \in Contents
    BY <1>6
  <2> HIDE DEF v
  <2>2. /\ blocks' \in [Inodes -> [Chunks -> Contents]]
        /\ \A y \in Inodes, e \in Chunks : blocks'[y][e] = IF y = x
            /\ e = c THEN v ELSE blocks[y][e]
    BY <1>5, <2>0, <2>1, BlockWrite
  <2>3. Wrote(c, v)
    BY <2>2 DEF Wrote, x
  <2> QED
    BY <1>2, <1>3, <1>4, <1>8, <2>0, <2>2, <2>3
<1> QED
  BY <1>7, <1>8

(* A write harms no claim that leaves out the chunk written, or that the write
   itself made durable. *)
LEMMA HasKept ==
  ASSUME Shape, NamesDistinct, host.id \in DOMAIN part, part' = part,
         NEW c \in Chunks, NEW v, Wrote(c, v)
  PROVE  \A t, claim :
            Has(t, claim) /\ claim \subseteq Chunks
                /\ (t = host.id => (c \notin claim \/ v \in Durable))
            => t \in DOMAIN part'
                /\ \A d \in claim : blocks'[part'[t]][d] \in Durable
<1> TAKE t, claim
<1> HAVE Has(t, claim) /\ claim \subseteq Chunks
      /\ (t = host.id => (c \notin claim \/ v \in Durable))
<1>1. t \in DOMAIN part /\ \A d \in claim : blocks[part[t]][d] \in Durable
  BY DEF Has
<1>2. part[t] \in Inodes /\ part[t][1] = t /\ part[host.id][1] = host.id
  BY <1>1, PartFacts DEF Shape, NamesDistinct
<1>3. ASSUME NEW d \in claim PROVE blocks'[part[t]][d] \in Durable
  <2>1. d \in Chunks
    OBVIOUS
  <2>2. blocks'[part[t]][d] = IF part[t] = part[host.id]
          /\ d = c THEN v ELSE blocks[part[t]][d]
    BY <1>2, <2>1 DEF Wrote
  <2>3. CASE part[t] = part[host.id] /\ d = c
    <3>1. t = host.id
      BY <1>2, <2>3
    <3> QED
      BY <2>2, <2>3, <3>1
  <2>4. CASE ~ (part[t] = part[host.id] /\ d = c)
    BY <1>1, <2>2, <2>4
  <2> QED
    BY <2>3, <2>4
<1> QED
  BY <1>1, <1>3

(* A step that adds no completion, and links what it promised, keeps every
   completion backed by a visible file. *)
LEMMA CompletesKept ==
  ASSUME Shape, CompletesShown, down' = down, lost \subseteq lost',
         visible \subseteq visible',
         replies' = replies \/ \E m \in ToClient : m.type # "complete"
             /\ replies' = Append(replies, m),
         \A t : todo = <<Do("link", t)>>
             => (todo' = todo \/ t \in lost' \/ \E x \in visible' : x[1] = t)
  PROVE  CompletesShown'
<1> DEFINE SN(t) == t \in lost' \/ \E x \in visible' : x[1] = t
           R(a, i) == SN(a[i].id)
               \/ (todo' = <<Do("link", a[i].id)>> /\ i > Len(down'))
<1>1. \A t : Shown(t) => SN(t)
  BY DEF Shown
<1>2. ASSUME NEW i \in 1 .. Len(Answers), Answers[i].type = "complete"
      PROVE  R(Answers, i)
  BY <1>1, <1>2 DEF CompletesShown
<1>0. (\A i \in 1 .. Len(Answers') : Answers'[i].type = "complete"
        => R(Answers', i)) => CompletesShown'
  BY DEF CompletesShown, Shown
<1> HIDE DEF R
<1>3. CASE replies' = replies
  <2>1. Answers' = Answers
    BY <1>3 DEF Answers
  <2> QED
    BY <1>0, <1>2, <2>1
<1>4. ASSUME NEW m \in ToClient, m.type # "complete", replies' = Append(replies, m)
      PROVE  CompletesShown'
  <2>1. /\ Len(Answers') = Len(Answers) + 1 /\ Len(Answers) \in Nat
        /\ \A i \in 1 .. Len(Answers) : Answers'[i] = Answers[i]
        /\ Answers'[Len(Answers) + 1] = m
    BY <1>4, AnswersGrow DEF Shape
  <2>2. ASSUME NEW i \in 1 .. Len(Answers'), Answers'[i].type = "complete"
        PROVE  R(Answers', i)
    <3>1. i \in 1 .. Len(Answers) \/ i = Len(Answers) + 1
      BY <2>1
    <3>2. i \in 1 .. Len(Answers)
      BY <1>4, <2>1, <2>2, <3>1
    <3>3. Answers'[i] = Answers[i]
      BY <2>1, <3>2
    <3>4. R(Answers, i)
      BY <1>2, <2>2, <3>2, <3>3
    <3> QED
      BY <3>3, <3>4 DEF R
  <2> QED
    BY <1>0, <2>2
<1> QED
  BY <1>3, <1>4

HasNow(t, claim) == t \in DOMAIN part'
    /\ \A d \in claim : blocks'[part'[t]][d] \in Durable

\* What was durable is, but perhaps for chunks the engine does not hold.
StillHas ==
    \A t, claim : Has(t, claim) /\ claim \subseteq Chunks
        /\ (t = host.id => claim \subseteq host.held)
        => HasNow(t, claim)

(* What the host can still owe, by the state of its engine. *)
LEMMA HostingOwes ==
  ASSUME HostShape, NEW t
  PROVE  /\ host.state # "awaitingOffer" =>
               /\ ~Owes(todo, "drop part", t) /\ ~Owes(todo, "drop record", t)
               /\ Owes(todo, "link", t) => todo = <<Do("link", host.id)>>
                   /\ t = host.id
         /\ host.state = "awaitingOffer" => ~Owes(todo, "link", t)
         /\ \A u : todo = <<Do("link", u)>> => host.state = "verifying"
             /\ u = host.id
<1>0. host.state \in {"awaitingOffer", "receiving", "verifying"} /\ TodoFits
  BY DEF HostShape, HostRecord
<1>1. CASE todo = <<>>
  <2>1. \A u : <<>> # <<Do("link", u)>>
    OBVIOUS
  <2> QED
    BY <1>1, <2>1, OwesFacts
<1>2. CASE todo # <<>> /\ host.state = "receiving"
  <2>1. PICK c \in Chunks \ host.held, d \in Durable :
            todo = <<[op |-> "store", id |-> host.id, chunk |-> c, data |-> d]>>
    BY <1>0, <1>2 DEF TodoFits
  <2> DEFINE w == [op |-> "store", id |-> host.id, chunk |-> c, data |-> d]
  <2>2. w.op = "store" /\ todo = <<w>>
    BY <2>1
  <2> HIDE DEF w
  <2>3. ~Owes(todo, "drop part", t) /\ ~Owes(todo, "drop record", t)
          /\ ~Owes(todo, "link", t)
    BY <2>2, OwesDo
  <2>4. \A u : todo # <<Do("link", u)>>
    <3> TAKE u
    <3>1. Head(todo) = w /\ Head(<<Do("link", u)>>) = Do("link", u)
      BY <2>2, ShortTails
    <3>2. Do("link", u).op = "link"
      BY OpsDiffer
    <3> QED
      BY <2>2, <3>1, <3>2
  <2> QED
    BY <1>2, <2>3, <2>4
<1>3. CASE todo # <<>> /\ host.state = "verifying"
  <2>1. PICK p \in {"verify", "link"} : todo = <<Do(p, host.id)>>
    BY <1>0, <1>3 DEF TodoFits
  <2>2. \A q : Owes(todo, q, t) <=> (q = p /\ t = host.id)
    BY <2>1, OwesDo
  <2>3. \A u : todo = <<Do("link", u)>> => p = "link" /\ u = host.id
    <3> TAKE u
    <3>1. Head(todo) = Do(p, host.id) /\ Head(<<Do("link", u)>>) = Do("link", u)
      BY <2>1, ShortTails
    <3> QED
      BY <3>1, OpsDiffer
  <2>4. ~Owes(todo, "drop part", t) /\ ~Owes(todo, "drop record", t)
    <3>1. /\ Owes(todo, "drop part", t) <=> ("drop part" = p /\ t = host.id)
          /\ Owes(todo, "drop record", t) <=> ("drop record" = p /\ t = host.id)
      BY <2>2, Zenon
    <3>2. p # "drop part" /\ p # "drop record"
      OBVIOUS
    <3> QED
      BY <3>1, <3>2
  <2>5. Owes(todo, "link", t) => todo = <<Do("link", host.id)>> /\ t = host.id
    BY <2>1, <2>2
  <2> QED
    BY <1>3, <2>3, <2>4, <2>5
<1>4. CASE todo # <<>> /\ host.state = "awaitingOffer"
  <2>1. PICK u \in Transfers :
          todo \in {<<Do("drop part", u), Do("drop record", u)>>,
                   <<Do("drop part", u)>>, <<Do("drop record", u)>>}
    BY <1>0, <1>4 DEF TodoFits
  <2>2. ~Owes(todo, "link", t)
    <3>1. ~Owes(<<Do("drop part", u), Do("drop record", u)>>, "link", t)
      BY OwesRemoval, Zenon
    <3>2. ~Owes(<<Do("drop part", u)>>, "link", t)
      BY OwesDo
    <3>3. ~Owes(<<Do("drop record", u)>>, "link", t)
      BY OwesDo
    <3> QED
      BY <2>1, <3>1, <3>2, <3>3
  <2>3. \A x : todo # <<Do("link", x)>>
    <3> TAKE x
    <3>1. Head(todo) \in {Do("drop part", u), Do("drop record", u)}
      BY <2>1, ShortTails
    <3>2. Head(<<Do("link", x)>>) = Do("link", x)
      BY ShortTails
    <3>3. Do("link", x) \notin {Do("drop part", u), Do("drop record", u)}
      BY OpsDiffer
    <3> QED
      BY <3>1, <3>2, <3>3
  <2> QED
    BY <1>4, <2>2, <2>3
<1> QED
  BY <1>0, <1>1, <1>2, <1>3, <1>4

(***************************************************************************)
(* Steps that only change what the engine owes.                            *)
(***************************************************************************)
DiskSame == UNCHANGED <<part, record, blocks, visible, lost, session>>

(* A step that changes nothing on disk and neither completes nor records keeps
   the disk in order. *)
LEMMA AskKeepsDisk ==
  ASSUME Shape, Disk, DiskSame, faults' \in 0 .. MaxFaults, sent' = sent,
         down' = down,
         replies' = replies \/ \E m \in ToClient : m.type # "complete"
             /\ replies' = Append(replies, m),
         \A t : ~Owes(todo, "drop record", t) /\ todo # <<Do("link", t)>>,
         \A t : ~Owes(todo', "drop part", t) /\ ~Owes(todo', "link", t),
         host'.book = host.book, host'.id = host.id, host'.held = host.held,
             host'.start = host.start,
         host'.state # "awaitingOffer" => host.state # "awaitingOffer"
  PROVE  DiskShape' /\ Disk'
<1>1. DiskShape' /\ NamesDistinct'
  BY DEF Shape, DiskShape, Disk, NamesDistinct, DiskSame
<1>2. EngineDurable'
  BY DEF Disk, EngineDurable, Has, DiskSame
<1>3. BookDurable'
  BY DEF Disk, BookDurable, Has, DiskSame, Hosting
<1>4. RecordDurable'
  BY DEF Disk, RecordDurable, Has, DiskSame
<1>5. LinkVerified'
  BY DEF LinkVerified
<1>6. CompletesShown'
  BY CompletesKept DEF DiskSame, Disk
<1>7. SentShown'
  BY DEF Disk, SentShown, Shown, DiskSame
<1> QED
  BY <1>1, <1>2, <1>3, <1>4, <1>5, <1>6, <1>7 DEF Disk

\* Nothing about the host moves.
LEMMA ClientKeepsDisk ==
  ASSUME Shape, Disk, UNCHANGED hostVars, UNCHANGED <<lost, session, sent, down>>,
         faults' \in 0 .. MaxFaults
  PROVE  DiskShape' /\ Disk'
<1> USE DEF hostVars, diskVars
<1>1. DiskShape' /\ NamesDistinct'
  BY DEF Shape, DiskShape, Disk, NamesDistinct
<1>2. EngineDurable'
  BY DEF Disk, EngineDurable, Has
<1>3. BookDurable'
  BY DEF Disk, BookDurable, Has, Hosting
<1>4. RecordDurable'
  BY DEF Disk, RecordDurable, Has
<1>5. LinkVerified'
  BY DEF Disk, LinkVerified, DigestMatches
<1>6. CompletesShown'
  BY DEF Disk, CompletesShown, Shown, Answers
<1>7. SentShown'
  BY DEF Disk, SentShown, Shown
<1> QED
  BY <1>1, <1>2, <1>3, <1>4, <1>5, <1>6, <1>7 DEF Disk

(***************************************************************************)
(* A transfer given up: its book entry goes at once, its names later.      *)
(***************************************************************************)
LEMMA DiscardKeepsDisk ==
  ASSUME Shape, Disk, host.state # "awaitingOffer", Discard(host.id),
         UNCHANGED <<part, record, blocks, session, sent>>,
             faults' \in 0 .. MaxFaults,
         visible' \subseteq Inodes, lost' \subseteq Transfers,
             visible \subseteq visible', lost \subseteq lost',
         CompletesShown'
  PROVE  DiskShape' /\ Disk'
<1> DEFINE id == host.id
<1>0. id \in Transfers /\ host.book \in Books
  BY DEF Shape, HostShape, HostRecord
<1>1. /\ host'.state = "awaitingOffer" /\ host'.book = Removed(host.book, id)
      /\ todo' = <<Do("drop part", id), Do("drop record", id)>>
  BY <1>0, DiscardFacts
<1>2. /\ DOMAIN host'.book = DOMAIN host.book \ {id}
      /\ \A u \in DOMAIN host.book \ {id} : host'.book[u] = host.book[u]
  <2> DEFINE book == host.book
  <2>0. book \in Books /\ host'.book = Removed(book, id) /\ id \in Transfers
    BY <1>0, <1>1
  <2> HIDE DEF id, book
  <2>1. /\ DOMAIN Removed(book, id) = DOMAIN book \ {id}
        /\ \A u \in DOMAIN book \ {id} : Removed(book, id)[u] = book[u]
    BY <2>0, BookFacts
  <2> QED
    BY <2>0, <2>1 DEF book
<1>3. \A t : /\ Owes(todo', "drop part", t) <=> t = id
             /\ Owes(todo', "drop record", t) <=> t = id
             /\ ~Owes(todo', "link", t)
  <2> HIDE DEF id
  <2> TAKE t
  <2>1. PICK list, u : list = <<Do("drop part", u), Do("drop record", u)>>
               /\ list = todo' /\ u = id
    BY <1>1
  <2>2. Owes(list, "drop part", t) <=> t = u
    BY <2>1, OwesRemoval, Zenon
  <2>3. Owes(list, "drop record", t) <=> t = u
    BY <2>1, OwesRemoval, Zenon
  <2>4. ~Owes(list, "link", t)
    BY <2>1, OwesRemoval, Zenon
  <2> QED
    BY <2>1, <2>2, <2>3, <2>4, Zenon
<1>4. \A t : ~Owes(todo, "drop record", t)
  BY HostingOwes DEF Shape
<1> HIDE DEF id
<1>5. DiskShape' /\ NamesDistinct'
  BY DEF Shape, DiskShape, Disk, NamesDistinct
<1>6. EngineDurable' /\ LinkVerified'
  BY <1>1, <1>3 DEF EngineDurable, LinkVerified
<1>7. BookDurable'
  BY <1>1, <1>2, <1>3 DEF Disk, BookDurable, Has, Hosting
<1>8. RecordDurable'
  <2> SUFFICES ASSUME NEW t \in DOMAIN record
               PROVE  /\ t \in DOMAIN part => HasNow(t, record[t])
                      /\ \/ t \in DOMAIN host'.book
                            /\ record[t] \subseteq host'.book[t]
                         \/ Owes(todo', "drop record", t)
    BY DEF RecordDurable, Has, HasNow
  <2>1. /\ t \in DOMAIN part => Has(t, record[t])
        /\ t \in DOMAIN host.book /\ record[t] \subseteq host.book[t]
    BY <1>4 DEF Disk, RecordDurable
  <2>2. t \in DOMAIN part => HasNow(t, record[t])
    BY <2>1 DEF Has, HasNow
  <2> QED
    BY <1>2, <1>3, <2>1, <2>2
<1>9. SentShown'
  BY DEF Disk, SentShown, Shown
<1> QED
  BY <1>5, <1>6, <1>7, <1>8, <1>9 DEF Disk

(***************************************************************************)
(* A storage failure keeps what the engine vouches for.                    *)
(***************************************************************************)
LEMMA FailKeepsDisk ==
  ASSUME Shape, Disk, host.state # "awaitingOffer", FailStorage, StillHas,
         blocks' \in [Inodes -> [Chunks -> Contents]],
         UNCHANGED <<part, visible, lost, session, sent, down>>,
         \A t : todo # <<Do("link", t)>>
  PROVE  DiskShape' /\ Disk'
<1> DEFINE id == host.id
<1>0. /\ id \in Transfers /\ host.book \in Books /\ record \in Books
      /\ host.held \in SUBSET Chunks /\ host.start \subseteq host.held
  BY DEF Shape, HostShape, HostRecord, DiskShape
<1>1. /\ host'.state = "awaitingOffer" /\ host'.book = Put(host.book, id, host.held)
      /\ todo' = <<>> /\ replies' = Append(replies, Abort(id))
      /\ record' \in {record, Put(record, id, host.held)} /\ record' \in Books
      /\ faults' \in 0 .. MaxFaults
  BY FailFacts
<1>2. /\ DOMAIN host'.book = DOMAIN host.book \cup {id}
      /\ \A u \in DOMAIN host'.book : host'.book[u] = IF u = id THEN host.held ELSE host.book[u]
  <2> DEFINE book == host.book
             held == host.held
  <2>0. book \in Books /\ held \in SUBSET Chunks
          /\ host'.book = Put(book, id, held) /\ id \in Transfers
    BY <1>0, <1>1
  <2> HIDE DEF id, book, held
  <2>1. /\ DOMAIN Put(book, id, held) = DOMAIN book \cup {id}
        /\ \A u \in DOMAIN Put(book, id, held) : Put(book, id,
            held)[u] = IF u = id THEN held ELSE book[u]
    BY <2>0, PutBook
  <2> QED
    BY <2>0, <2>1 DEF book, held
<1>12. record' = Put(record, id, host.held) =>
        /\ DOMAIN record' = DOMAIN record \cup {id}
        /\ \A u \in DOMAIN record' : record'[u] = IF u = id THEN host.held ELSE record[u]
  <2> HIDE DEF id
  <2> QED
    BY Zenon DEF Put
<1>3. \A op, t : ~Owes(todo', op, t)
  BY <1>1, OwesFacts
<1>4. \A t : ~Owes(todo, "drop record", t)
  BY HostingOwes DEF Shape
<1>5. DiskShape' /\ NamesDistinct'
  BY <1>1 DEF Shape, DiskShape, Disk, NamesDistinct
<1>6. EngineDurable' /\ LinkVerified'
  BY <1>1, <1>3 DEF EngineDurable, LinkVerified
<1>7. Has(id, host.held) /\ HasNow(id, host.held)
  BY <1>0 DEF Disk, EngineDurable, StillHas
<1>8. BookDurable'
  <2> SUFFICES ASSUME NEW t \in DOMAIN host'.book
               PROVE  HasNow(t, host'.book[t])
    BY <1>1, <1>3 DEF BookDurable, Has, HasNow, Hosting
  <2>1. CASE t = id
    BY <1>2, <1>7, <2>1
  <2>2. CASE t # id
    <3>1. t \in DOMAIN host.book /\ host'.book[t] = host.book[t]
      BY <1>2, <2>2
    <3>2. Has(t, host.book[t])
      BY <3>1 DEF Disk, BookDurable
    <3>3. host.book[t] \subseteq Chunks
      BY <1>0, <3>1, BookFacts
    <3> QED
      BY <2>2, <3>1, <3>2, <3>3 DEF StillHas
  <2> QED
    BY <2>1, <2>2
<1>9. RecordDurable'
  <2> SUFFICES ASSUME NEW t \in DOMAIN record'
               PROVE  /\ HasNow(t, record'[t])
                      /\ t \in DOMAIN host'.book
                          /\ record'[t] \subseteq host'.book[t]
    BY DEF RecordDurable, Has, HasNow
  <2>1. ASSUME t \in DOMAIN record, record'[t] = record[t]
        PROVE  /\ HasNow(t, record'[t])
               /\ t \in DOMAIN host'.book /\ record'[t] \subseteq host'.book[t]
    <3>0. /\ t \in DOMAIN part => Has(t, record[t])
          /\ t \in DOMAIN host.book /\ record[t] \subseteq host.book[t]
      BY <1>4, <2>1 DEF Disk, RecordDurable
    <3>1. Has(t, record[t]) /\ t \in DOMAIN host.book
            /\ record[t] \subseteq host.book[t]
      BY <3>0 DEF Disk, BookDurable, Has
    <3>2. record[t] \subseteq Chunks
      BY <1>0, <2>1, BookFacts
    <3>3. t = id => record[t] \subseteq host.held
      BY <1>0, <3>1 DEF Disk, BookDurable, Hosting
    <3>4. HasNow(t, record[t])
      BY <3>1, <3>2, <3>3 DEF StillHas
    <3> QED
      BY <1>2, <2>1, <3>1, <3>3, <3>4
  <2>2. CASE record' = record
    BY <2>1, <2>2
  <2>3. CASE record' = Put(record, id, host.held)
    <3>1. /\ DOMAIN record' = DOMAIN record \cup {id}
          /\ \A u \in DOMAIN record' : record'[u] = IF u = id THEN host.held ELSE record[u]
      BY <1>12, <2>3
    <3>2. CASE t = id
      <4>1. record'[t] = host.held /\ t \in DOMAIN host'.book
              /\ host'.book[t] = host.held
        BY <1>2, <3>1, <3>2
      <4> QED
        BY <1>7, <3>2, <4>1
    <3>3. CASE t # id
      BY <2>1, <3>1, <3>3
    <3> QED
      BY <3>2, <3>3
  <2> QED
    BY <1>1, <2>2, <2>3
<1>10. CompletesShown'
  <2>1. Abort(id) \in ToClient /\ Abort(id).type # "complete"
    BY <1>0, AppendShape DEF Shape, Abort
  <2> QED
    BY <1>1, <2>1, CompletesKept DEF Disk
<1>11. SentShown'
  BY DEF Disk, SentShown, Shown
<1> QED
  BY <1>5, <1>6, <1>8, <1>9, <1>10, <1>11 DEF Disk

\* An engine that is not re-armed owes no removal.
LEMMA VerifyOnly ==
  ASSUME NEW u, NEW list, list = <<>> \/ list = <<Do("verify", u)>>, NEW p,
         p # "verify", NEW t
  PROVE  ~Owes(list, p, t)
<1>1. ~Owes(<<>>, p, t)
  BY OwesFacts
<1>2. ~Owes(<<Do("verify", u)>>, p, t)
  <2>1. Do("verify", u) # Do(p, t)
    BY OpsDiffer
  <2>2. \A x : Owes(<<x>>, p, t) <=> x = Do(p, t)
    BY OwesFacts, Zenon
  <2> QED
    BY <2>1, <2>2, Zenon
<1> QED
  BY <1>1, <1>2, Zenon

(***************************************************************************)
(* A chunk written, and claimed only then.                                 *)
(***************************************************************************)
LEMMA StoredKeepsDisk ==
  ASSUME Shape, Disk, todo # <<>>, Head(todo).op = "store",
         blocks' = [blocks EXCEPT ![part[Head(todo).id]][Head(todo).chunk] = Head(todo).data],
         Credited([host EXCEPT !.held = @ \cup {Head(todo).chunk},
             !.consumed = @ + 1]),
         UNCHANGED <<record, faults, part, visible, lost, session, sent, down>>
  PROVE  DiskShape' /\ Disk'
<1>1. /\ blocks' \in [Inodes -> [Chunks -> Contents]]
      /\ host.id \in DOMAIN part /\ host.state = "receiving"
  BY StoreWrites DEF Disk
<1>2. PICK c \in Chunks \ host.held, v \in Contents :
         Wrote(c, v) /\ Head(todo).chunk = c /\ v \in Durable
  BY StoreWrites DEF Disk
<1> DEFINE h == [host EXCEPT !.held = @ \cup {Head(todo).chunk}, !.consumed = @ + 1]
<1>3. h = [host EXCEPT !.held = @ \cup {c}, !.consumed = @ + 1] /\ Credited(h)
  BY <1>2
<1>4. h.held = host.held \cup {c}
  BY <1>3 DEF Shape, HostShape, HostRecord
<1> HIDE DEF h
<1>5. /\ h \in HostRecord /\ h.state = "receiving" /\ h.id = host.id
         /\ h.id \in Transfers
      /\ h.start = host.start /\ h.book = host.book
  BY <1>1, <1>2, <1>3, StoredFacts
<1>6. replies \in Seq(ToClient)
  BY DEF Shape, StreamShape
<1>7. /\ host'.id = host.id /\ host'.held = host.held \cup {c}
         /\ host'.start = host.start
      /\ host'.book = host.book
      /\ todo' = <<>> \/ todo' = <<Do("verify", host.id)>>
      /\ \/ replies' = replies
         \/ /\ replies' = Append(replies, Answer(h.id, "ack", host'))
            /\ Answer(h.id, "ack", host') \in ReportMessage
  BY <1>3, <1>4, <1>5, <1>6, CreditedCases
<1>8. \A t : /\ ~Owes(todo', "drop part", t) /\ ~Owes(todo', "link", t)
             /\ ~Owes(todo, "drop record", t) /\ todo # <<Do("link", t)>>
  <2> TAKE t
  <2>1. ~Owes(todo', "drop part", t) /\ ~Owes(todo', "link", t)
    <3>1. ~Owes(todo', "drop part", t)
      BY <1>7, VerifyOnly, Zenon
    <3>2. ~Owes(todo', "link", t)
      BY <1>7, VerifyOnly, Zenon
    <3> QED
      BY <3>1, <3>2
  <2>2. ~Owes(todo, "drop record", t) /\ todo # <<Do("link", t)>>
    BY <1>1, HostingOwes DEF Shape
  <2> QED
    BY <2>1, <2>2
<1>9. \A t, claim : Has(t, claim) /\ claim \subseteq Chunks => HasNow(t, claim)
  BY <1>1, <1>2, HasKept DEF Disk, HasNow
<1>10. HasNow(host.id, host'.held)
  <2>1. Has(host.id, host.held) /\ host.held \subseteq Chunks
    BY <1>1 DEF Disk, EngineDurable, Shape, HostShape, HostRecord
  <2>2. HasNow(host.id, host.held)
    BY <1>9, <2>1
  <2>3. blocks'[part'[host.id]][c] \in Durable
    BY <1>1, <1>2, PartFacts DEF Wrote, Shape
  <2> QED
    BY <1>7, <2>2, <2>3 DEF HasNow
<1>11. DiskShape' /\ NamesDistinct'
  BY <1>1 DEF Shape, DiskShape, Disk, NamesDistinct
<1>12. EngineDurable'
  BY <1>7, <1>10 DEF EngineDurable, Has, HasNow
<1>13. \A b \in Books : \A t \in DOMAIN b : b[t] \subseteq Chunks
  BY BookFacts
<1>14. BookDurable'
  <2> SUFFICES ASSUME NEW t \in DOMAIN host.book
               PROVE  HasNow(t, host.book[t])
                      /\ (t = host.id => host.book[t] \subseteq host.start)
    BY <1>7, <1>8 DEF BookDurable, Has, HasNow, Hosting
  <2>1. Has(t, host.book[t]) /\ (t = host.id => host.book[t] \subseteq host.start)
    BY <1>1 DEF Disk, BookDurable, Hosting
  <2>2. host.book[t] \subseteq Chunks
    BY <1>13 DEF Shape, HostShape, HostRecord
  <2> QED
    BY <1>9, <2>1, <2>2
<1>15. RecordDurable'
  <2> SUFFICES ASSUME NEW t \in DOMAIN record
               PROVE  /\ t \in DOMAIN part => HasNow(t, record[t])
                      /\ t \in DOMAIN host.book /\ record[t] \subseteq host.book[t]
    BY <1>7 DEF RecordDurable, Has, HasNow
  <2>1. /\ t \in DOMAIN part => Has(t, record[t])
        /\ t \in DOMAIN host.book /\ record[t] \subseteq host.book[t]
    BY <1>8 DEF Disk, RecordDurable
  <2>2. record[t] \subseteq Chunks
    BY <1>13 DEF Shape, DiskShape
  <2> QED
    BY <1>9, <2>1, <2>2
<1>16. LinkVerified'
  BY <1>8 DEF LinkVerified
<1>17. CompletesShown'
  <2>1. replies' = replies \/ \E m \in ToClient : m.type # "complete"
          /\ replies' = Append(replies, m)
    <3>1. \A m \in ReportMessage : m \in ToClient /\ m.type # "complete"
      BY DEF ToClient, ReportMessage
    <3> QED
      BY <1>7, <3>1
  <2> QED
    BY <1>8, <2>1, CompletesKept DEF Disk
<1>18. SentShown'
  BY DEF Disk, SentShown, Shown
<1> QED
  BY <1>11, <1>12, <1>14, <1>15, <1>16, <1>17, <1>18 DEF Disk

(***************************************************************************)
(* An offer taken: the staging file is there, and what the book says of it *)
(* is what the engine starts from.                                         *)
(***************************************************************************)
LEMMA AcceptKeepsDisk ==
  ASSUME Shape, Disk, NEW t \in Transfers, host.state = "awaitingOffer",
         todo = <<>>,
         AcceptOffer(t),
             UNCHANGED <<record, blocks, visible, lost, session, sent, down>>
  PROVE  DiskShape' /\ Disk'
<1>1. /\ host'.id = t /\ host'.book = host.book
      /\ host'.held = host'.start
      /\ host'.start = IF t \in DOMAIN host.book THEN host.book[t] ELSE {}
      /\ todo' = <<>> \/ todo' = <<Do("verify", t)>>
      /\ replies' = Append(replies, Answer(t, "accept", host'))
      /\ Answer(t, "accept", host') \in ReportMessage
      /\ part' = IF t \in DOMAIN part THEN part ELSE Put(part, t, <<t, session>>)
      /\ faults' = faults
  BY AcceptFacts
<1>2. \A u : /\ ~Owes(todo', "drop part", u) /\ ~Owes(todo', "link", u)
             /\ ~Owes(todo, "drop record", u) /\ todo # <<Do("link", u)>>
  <2> TAKE u
  <2>1. ~Owes(todo', "drop part", u) /\ ~Owes(todo', "link", u)
    <3>1. CASE todo' = <<>>
      BY <3>1, OwesFacts
    <3>2. CASE todo' = <<Do("verify", t)>>
      BY <3>2, OwesDo
    <3> QED
      BY <1>1, <3>1, <3>2
  <2>2. ~Owes(todo, "drop record", u)
    BY OwesFacts
  <2>3. todo # <<Do("link", u)>>
    OBVIOUS
  <2> QED
    BY <2>1, <2>2, <2>3
<1>3. <<t, session>> \in Inodes /\ <<t, session>>[1] = t
  BY DEF Inodes, Shape, DiskShape
<1>4. /\ part' \in UNION {[D -> Inodes] : D \in SUBSET Transfers}
      /\ DOMAIN part' = DOMAIN part \cup {t}
      /\ \A u \in DOMAIN part : part'[u] = part[u]
      /\ t \notin DOMAIN part => part'[t] = <<t, session>>
  <2>1. CASE t \in DOMAIN part
    BY <1>1, <2>1 DEF Shape, DiskShape
  <2>2. CASE t \notin DOMAIN part
    <3>1. part' = Put(part, t, <<t, session>>)
      BY <1>1, <2>2
    <3>2. /\ Put(part, t,
             <<t, session>>) \in UNION {[D -> Inodes] : D \in SUBSET Transfers}
          /\ DOMAIN Put(part, t, <<t, session>>) = DOMAIN part \cup {t}
          /\ \A u \in DOMAIN part \cup {t} :
                Put(part, t, <<t, session>>)[u] = IF u = t THEN <<t,
                    session>> ELSE part[u]
      BY <1>3, PartFacts DEF Shape
    <3> QED
      BY <2>2, <3>1, <3>2, Zenon
  <2> QED
    BY <2>1, <2>2
<1>5. DiskShape'
  BY <1>1, <1>4 DEF Shape, DiskShape
<1>6. NamesDistinct'
  BY <1>3, <1>4 DEF Disk, NamesDistinct
<1>7. \A u, claim : Has(u, claim) => HasNow(u, claim)
  BY <1>4 DEF Has, HasNow
<1>8. HasNow(t, host'.held)
  <2>1. CASE t \in DOMAIN host.book
    <3>1. Has(t, host.book[t])
      BY <2>1 DEF Disk, BookDurable
    <3> QED
      BY <1>1, <1>7, <2>1, <3>1
  <2>2. CASE t \notin DOMAIN host.book
    BY <1>1, <1>4, <2>2 DEF HasNow
  <2> QED
    BY <2>1, <2>2
<1>9. EngineDurable'
  BY <1>1, <1>8 DEF EngineDurable, Has, HasNow
<1>10. BookDurable'
  <2> SUFFICES ASSUME NEW u \in DOMAIN host.book
               PROVE  HasNow(u, host.book[u])
                      /\ (u = t => host.book[u] \subseteq host'.start)
    BY <1>1, <1>2 DEF BookDurable, Has, HasNow, Hosting
  <2>1. Has(u, host.book[u])
    BY DEF Disk, BookDurable
  <2> QED
    BY <1>1, <1>7, <2>1
<1>11. RecordDurable'
  <2> SUFFICES ASSUME NEW u \in DOMAIN record
               PROVE  /\ HasNow(u, record[u])
                      /\ u \in DOMAIN host.book /\ record[u] \subseteq host.book[u]
    BY <1>1 DEF RecordDurable, Has, HasNow
  <2>1. /\ u \in DOMAIN part => Has(u, record[u])
        /\ u \in DOMAIN host.book /\ record[u] \subseteq host.book[u]
    BY <1>2 DEF Disk, RecordDurable
  <2>2. u \in DOMAIN part
    BY <2>1 DEF Disk, BookDurable, Has
  <2> QED
    BY <1>7, <2>1, <2>2
<1>12. LinkVerified'
  BY <1>2 DEF LinkVerified
<1>13. CompletesShown'
  <2>1. \E m \in ToClient : m.type # "complete" /\ replies' = Append(replies, m)
    <3>1. \A m \in ReportMessage : m \in ToClient /\ m.type # "complete"
      BY DEF ToClient, ReportMessage
    <3> QED
      BY <1>1, <3>1
  <2> QED
    BY <1>2, <2>1, CompletesKept DEF Disk
<1>14. SentShown'
  BY DEF Disk, SentShown, Shown
<1> QED
  BY <1>5, <1>6, <1>9, <1>10, <1>11, <1>12, <1>13, <1>14 DEF Disk

(***************************************************************************)
(* An offer the disk cannot take: the staging file goes only when no book  *)
(* vouches for it.                                                         *)
(***************************************************************************)
LEMMA RefuseKeepsDisk ==
  ASSUME Shape, Disk, NEW t \in Transfers, todo = <<>>,
         RefuseOffer(t),
             UNCHANGED <<record, blocks, visible, lost, session, sent, down>>
  PROVE  DiskShape' /\ Disk'
<1>0. host.book \in Books
  BY DEF Shape, HostShape, HostRecord
<1>1. /\ host'.state = "awaitingOffer" /\ host'.book = host.book
      /\ replies' = Append(replies, Abort(t)) /\ part' = part
      /\ todo' = IF t \in DOMAIN host.book THEN <<>> ELSE <<Do("drop part", t)>>
  BY <1>0, RearmedFacts DEF RefuseOffer
<1>2. \A u : /\ ~Owes(todo', "link", u)
                /\ (Owes(todo', "drop part", u) => u \notin DOMAIN host.book)
             /\ ~Owes(todo, "drop record", u) /\ todo # <<Do("link", u)>>
  <2> TAKE u
  <2>1. ~Owes(todo', "link", u)
          /\ (Owes(todo', "drop part", u) => u \notin DOMAIN host.book)
    <3>1. CASE t \in DOMAIN host.book
      BY <1>1, <3>1, OwesFacts
    <3>2. CASE t \notin DOMAIN host.book
      <4>1. todo' = <<Do("drop part", t)>>
        BY <1>1, <3>2
      <4>2. /\ ~Owes(<<Do("drop part", t)>>, "link", u)
            /\ Owes(<<Do("drop part", t)>>, "drop part", u) => u = t
        BY OwesDo
      <4> QED
        BY <3>2, <4>1, <4>2
    <3> QED
      BY <3>1, <3>2
  <2>2. ~Owes(todo, "drop record", u)
    BY OwesFacts
  <2>3. todo # <<Do("link", u)>>
    OBVIOUS
  <2> QED
    BY <2>1, <2>2, <2>3
<1>3. DiskShape' /\ NamesDistinct'
  <2>0. Fault
    BY DEF RefuseOffer
  <2>1. faults' \in 0 .. MaxFaults
    BY <2>0, BulkAssumption DEF Fault, Shape, DiskShape
  <2> QED
    BY <1>1, <2>1 DEF Shape, DiskShape, Disk, NamesDistinct
<1>4. EngineDurable'
  BY <1>1 DEF EngineDurable
<1>5. BookDurable'
  BY <1>1, <1>2 DEF Disk, BookDurable, Has, Hosting
<1>6. RecordDurable'
  BY <1>1, <1>2 DEF Disk, RecordDurable, Has
<1>7. LinkVerified'
  BY <1>2 DEF LinkVerified
<1>8. CompletesShown'
  <2>1. Abort(t) \in ToClient /\ Abort(t).type # "complete"
    BY AppendShape DEF Shape, Abort
  <2> QED
    BY <1>1, <1>2, <2>1, CompletesKept DEF Disk
<1>9. SentShown'
  BY DEF Disk, SentShown, Shown
<1> QED
  BY <1>3, <1>4, <1>5, <1>6, <1>7, <1>8, <1>9 DEF Disk

(* Taking a message from the client keeps the disk in order. *)
LEMMA HostIngestKeepsDisk ==
  ASSUME Shape, Disk, HostIngest
  PROVE  DiskShape' /\ Disk'
<1> DEFINE m == Head(up)
<1>1. /\ todo = <<>> /\ m \in ToHost
      /\ UNCHANGED <<clientVars, down, record, blocks, visible, lost, session>>
      /\ HeardNothing \/ HeardBusy(m) \/ HeardOffer(m) \/ HeardEnd(m)
          \/ HeardChunk(m)
      /\ faults' \in {faults, faults + 1} /\ faults' <= MaxFaults
  BY HostIngestCases
<1>2. m.type \in {"offer", "abort", "chunk"} /\ m.id \in Transfers
  BY <1>1, MessageKinds
<1> HIDE DEF m
<1>3. faults' \in 0 .. MaxFaults /\ sent' = sent /\ down' = down
  BY <1>1, BulkAssumption DEF Shape, DiskShape, clientVars
<1>4. \A t : /\ ~Owes(todo, "drop record", t) /\ todo # <<Do("link", t)>>
             /\ ~Owes(<<>>, "drop part", t) /\ ~Owes(<<>>, "link", t)
  <2> TAKE t
  <2>1. \A op : ~Owes(<<>>, op, t)
    BY OwesFacts
  <2>2. todo # <<Do("link", t)>>
    BY <1>1
  <2> QED
    BY <1>1, <2>1, <2>2
<1>5. \A t \in Transfers : Abort(t) \in ToClient /\ Abort(t).type # "complete"
  BY AppendShape DEF Shape, Abort
<1>6. CASE HeardNothing \/ HeardBusy(m)
  <2>1. /\ DiskSame /\ todo' = todo /\ host' = host
        /\ replies' = replies \/ \E n \in ToClient : n.type # "complete"
            /\ replies' = Append(replies, n)
    BY <1>1, <1>2, <1>5, <1>6 DEF HeardNothing, HeardBusy, DiskSame
  <2>2. \A t : ~Owes(todo', "drop part", t) /\ ~Owes(todo', "link", t)
    BY <1>1, <1>4, <2>1
  <2> QED
    BY <1>3, <1>4, <2>1, <2>2, AskKeepsDisk
<1>7. CASE HeardOffer(m)
  BY <1>1, <1>2, <1>3, <1>7, AcceptKeepsDisk, RefuseKeepsDisk DEF HeardOffer
<1>8. CASE HeardEnd(m)
  <2>0. /\ host.state # "awaitingOffer" /\ Discard(host.id)
        /\ UNCHANGED <<part, record, blocks, session, sent, visible, lost>>
        /\ replies' = replies \/ replies' = Append(replies, Abort(host.id))
    BY <1>1, <1>3, <1>8 DEF HeardEnd
  <2>1. host.id \in Transfers
    BY <2>0 DEF Shape, HostShape
  <2>2. replies' = replies \/ \E n \in ToClient : n.type # "complete"
          /\ replies' = Append(replies, n)
    BY <1>5, <2>0, <2>1
  <2>3. CompletesShown'
    BY <1>3, <1>4, <2>0, <2>2, CompletesKept DEF Disk
  <2> QED
    BY <1>3, <2>0, <2>3, DiscardKeepsDisk DEF Shape, DiskShape
<1>9. CASE HeardChunk(m)
  <2>0. /\ host.state = "receiving" /\ part' = part
        /\ \/ todo' = <<Store(m)>> /\ UNCHANGED <<host, replies>>
           \/ Credited([host EXCEPT !.consumed = @ + 1])
    BY <1>9 DEF HeardChunk
  <2>1. CASE todo' = <<Store(m)>> /\ UNCHANGED <<host, replies>>
    <3>1. \A t : ~Owes(todo', "drop part", t) /\ ~Owes(todo', "link", t)
      <4> TAKE t
      <4> DEFINE w == Store(m)
      <4>1. w.op = "store"
        BY DEF Store
      <4> HIDE DEF w
      <4>2. ~Owes(<<w>>, "drop part", t) /\ ~Owes(<<w>>, "link", t)
        BY <4>1, OwesDo
      <4>3. todo' = <<w>>
        BY <2>1 DEF w
      <4> QED
        BY <4>2, <4>3, Zenon
    <3>2. DiskSame
      BY <1>1, <2>0 DEF DiskSame
    <3> QED
      BY <1>3, <1>4, <2>0, <2>1, <3>1, <3>2, AskKeepsDisk
  <2>2. CASE Credited([host EXCEPT !.consumed = @ + 1])
    <3> DEFINE h == [host EXCEPT !.consumed = @ + 1]
    <3>1. /\ h \in HostRecord /\ h.state = "receiving" /\ h.id = host.id
             /\ h.id \in Transfers
          /\ h.start = host.start /\ h.book = host.book
      BY <2>0, StoredFacts
    <3>2. h.held = host.held
      BY DEF Shape, HostShape, HostRecord
    <3>3. replies \in Seq(ToClient) /\ Credited(h)
      BY <2>2 DEF Shape, StreamShape
    <3> HIDE DEF h
    <3>4. /\ host'.id = host.id /\ host'.held = host.held
             /\ host'.start = host.start
          /\ host'.book = host.book
          /\ todo' = <<>> \/ todo' = <<Do("verify", host.id)>>
          /\ \/ replies' = replies
             \/ /\ replies' = Append(replies, Answer(h.id, "ack", host'))
                /\ Answer(h.id, "ack", host') \in ReportMessage
      BY <3>1, <3>2, <3>3, CreditedCases
    <3>5. replies' = replies \/ \E n \in ToClient : n.type # "complete"
            /\ replies' = Append(replies, n)
      <4>1. \A n \in ReportMessage : n \in ToClient /\ n.type # "complete"
        BY DEF ToClient, ReportMessage
      <4> QED
        BY <3>4, <4>1
    <3>6. \A t : ~Owes(todo', "drop part", t) /\ ~Owes(todo', "link", t)
      <4> TAKE t
      <4>1. ~Owes(todo', "drop part", t)
        BY <3>4, VerifyOnly, Zenon
      <4>2. ~Owes(todo', "link", t)
        BY <3>4, VerifyOnly, Zenon
      <4> QED
        BY <4>1, <4>2
    <3>7. DiskSame
      BY <1>1, <2>0 DEF DiskSame
    <3> QED
      BY <1>3, <1>4, <2>0, <3>4, <3>5, <3>6, <3>7, AskKeepsDisk
  <2> QED
    BY <2>0, <2>1, <2>2
<1> QED
  BY <1>1, <1>6, <1>7, <1>8, <1>9

(* Storing a chunk, failing to, or crashing in the middle keeps the disk in
   order. *)
LEMMA StoreChunkKeepsDisk ==
  ASSUME Shape, Disk, StoreChunk
  PROVE  DiskShape' /\ Disk'
<1>1. /\ todo # <<>> /\ Head(todo).op = "store"
      /\ UNCHANGED <<sent, down, part, visible, lost, session>>
  BY DEF StoreChunk, clientVars
<1>2. CASE /\ blocks' = [blocks EXCEPT ![part[Head(todo).id]][Head(todo).chunk] = Head(todo).data]
           /\ Credited([host EXCEPT !.held = @ \cup {Head(todo).chunk},
               !.consumed = @ + 1])
           /\ UNCHANGED <<record, faults>>
  BY <1>1, <1>2, StoredKeepsDisk
<1>3. CASE blocks' = CutShort(Head(todo)) /\ FailStorage
  <2>1. /\ blocks' \in [Inodes -> [Chunks -> Contents]]
        /\ host.id \in DOMAIN part /\ host.state = "receiving"
    BY <1>1, <1>3, StoreWrites DEF Disk
  <2>2. PICK c \in Chunks \ host.held, v \in Contents : Wrote(c, v)
    BY <1>1, <1>3, StoreWrites DEF Disk
  <2>3. StillHas
    <3>1. \A t, claim :
             Has(t, claim) /\ claim \subseteq Chunks
                 /\ (t = host.id => (c \notin claim \/ v \in Durable))
             => HasNow(t, claim)
      BY <1>1, <2>1, <2>2, HasKept DEF Disk, HasNow
    <3> QED
      BY <2>2, <3>1 DEF StillHas
  <2>4. \A t : todo # <<Do("link", t)>>
    BY <2>1, HostingOwes DEF Shape
  <2> QED
    BY <1>1, <1>3, <2>1, <2>3, <2>4, FailKeepsDisk
<1> QED
  BY <1>2, <1>3 DEF StoreChunk

\* Nothing on disk moves.
LEMMA StillThere ==
  ASSUME UNCHANGED <<part, blocks>>
  PROVE  StillHas
BY DEF StillHas, Has, HasNow

(* Verifying the part against the offer keeps the disk in order. *)
LEMMA VerifyKeepsDisk ==
  ASSUME Shape, Disk, Verify
  PROVE  DiskShape' /\ Disk'
<1> DEFINE t == host.id
<1>1. /\ todo # <<>> /\ Head(todo).op = "verify"
      /\ UNCHANGED <<sent, down, part, blocks, visible, lost, session>>
  BY DEF Verify, clientVars
<1>2. host.state = "verifying" /\ todo = <<Do("verify", t)>> /\ Head(todo).id = t
        /\ t \in Transfers
  BY <1>1, OwedFacts DEF Shape, HostShape
<1>3. \A u : /\ todo # <<Do("link", u)>> /\ ~Owes(todo, "drop record", u)
             /\ ~Owes(todo, "drop part", u)
  <2> TAKE u
  <2>1. ~Owes(todo, "drop record", u) /\ ~Owes(todo, "drop part", u)
    BY <1>2, HostingOwes DEF Shape
  <2>2. todo # <<Do("link", u)>>
    <3>1. Head(<<Do("link", u)>>) = Do("link", u) /\ Do("link", u).op = "link"
      BY ShortTails, OpsDiffer
    <3> QED
      BY <1>1, <3>1
  <2> QED
    BY <2>1, <2>2
<1> HIDE DEF t
<1>4. CASE /\ DigestMatches(t)
           /\ replies' = Append(replies, [type |-> "complete", id |-> t])
           /\ todo' = <<Do("link", t)>>
           /\ UNCHANGED <<host, record, faults>>
  <2>1. \A u : /\ ~Owes(todo', "drop part", u) /\ ~Owes(todo', "drop record", u)
               /\ Owes(todo', "link", u) => u = t
    <3> TAKE u
    <3>1. ~Owes(<<Do("link", t)>>, "drop part", u)
            /\ ~Owes(<<Do("link", t)>>, "drop record", u)
      BY OwesDo
    <3>2. Owes(<<Do("link", t)>>, "link", u) => u = t
      BY OwesDo
    <3>3. todo' = <<Do("link", t)>>
      BY <1>4
    <3> QED
      BY <3>1, <3>2, <3>3, Zenon
  <2>2. DiskShape' /\ NamesDistinct'
    BY <1>1, <1>4 DEF Shape, DiskShape, Disk, NamesDistinct
  <2>3. EngineDurable'
    BY <1>1, <1>4 DEF Disk, EngineDurable, Has
  <2>4. BookDurable'
    BY <1>1, <1>4, <2>1 DEF Disk, BookDurable, Has, Hosting
  <2>5. RecordDurable'
    BY <1>1, <1>3, <1>4 DEF Disk, RecordDurable, Has
  <2>6. LinkVerified'
    BY <1>1, <1>4, <2>1 DEF LinkVerified, DigestMatches
  <2>7. CompletesShown'
    <3> DEFINE m == [type |-> "complete", id |-> t]
    <3>1. m \in ToClient /\ m.id = t
      BY <1>2, AppendShape DEF Shape
    <3>2. replies' = Append(replies, m)
      BY <1>4
    <3> HIDE DEF m
    <3>3. /\ Len(Answers') = Len(Answers) + 1 /\ Len(Answers) \in Nat
          /\ \A i \in 1 .. Len(Answers) : Answers'[i] = Answers[i]
          /\ Answers'[Len(Answers) + 1] = m
      BY <1>1, <3>1, <3>2, AnswersGrow DEF Shape
    <3>4. Len(down) \in Nat /\ Len(Answers) >= Len(down) /\ down' = down
      BY <1>1, AnswersAre DEF Shape
    <3>5. ASSUME NEW i \in 1 .. Len(Answers'), Answers'[i].type = "complete"
          PROVE  \/ Shown(Answers'[i].id)
                 \/ todo' = <<Do("link", Answers'[i].id)>> /\ i > Len(down')
      <4>1. CASE i \in 1 .. Len(Answers)
        BY <1>3, <3>3, <3>5, <4>1 DEF Disk, CompletesShown
      <4>2. CASE i = Len(Answers) + 1
        <5>1. Answers'[i].id = t
          BY <3>1, <3>3, <4>2
        <5>2. i > Len(down')
          BY <3>3, <3>4, <4>2
        <5> QED
          BY <1>4, <5>1, <5>2, Zenon
      <4> QED
        BY <3>3, <4>1, <4>2
    <3>6. \A u : Shown(u) => Shown(u)'
      BY <1>1 DEF Shown
    <3> QED
      BY <3>5, <3>6 DEF CompletesShown
  <2>8. SentShown'
    BY <1>1 DEF Disk, SentShown, Shown
  <2> QED
    BY <2>2, <2>3, <2>4, <2>5, <2>6, <2>7, <2>8 DEF Disk
<1>5. CASE replies' = Append(replies, Abort(t)) /\ Discard(t)
             /\ UNCHANGED <<record, faults>>
  <2>1. Abort(t) \in ToClient /\ Abort(t).type # "complete"
    BY <1>2, AppendShape DEF Shape, Abort
  <2>2. CompletesShown'
    BY <1>1, <1>3, <1>5, <2>1, CompletesKept DEF Disk
  <2>3. host.state # "awaitingOffer" /\ Discard(host.id)
    BY <1>2, <1>5 DEF t
  <2> QED
    BY <1>1, <1>5, <2>2, <2>3, DiscardKeepsDisk DEF Shape, DiskShape
<1>6. CASE FailStorage
  <2>1. StillHas
    BY <1>1, StillThere
  <2> QED
    BY <1>1, <1>2, <1>3, <1>6, <2>1, FailKeepsDisk DEF Shape, DiskShape
<1> QED
  BY <1>2, <1>4, <1>5, <1>6 DEF Verify

(* Promoting the part, or failing to, keeps the disk in order. *)
LEMMA LinkKeepsDisk ==
  ASSUME Shape, Disk, Link
  PROVE  DiskShape' /\ Disk'
<1> DEFINE t == host.id
<1>1. /\ todo # <<>> /\ Head(todo).op = "link"
      /\ UNCHANGED <<sent, down, replies, part, record, blocks, session>>
  BY DEF Link, clientVars
<1>2. host.state = "verifying" /\ todo = <<Do("link", t)>> /\ Head(todo).id = t
        /\ t \in Transfers
  BY <1>1, OwedFacts DEF Shape, HostShape
<1>3. part[t] \in Inodes /\ part[t][1] = t
  BY <1>2, PartFacts DEF Disk, EngineDurable, Has, NamesDistinct, Shape
<1>4. /\ \/ visible' = visible \cup {part[t]} /\ UNCHANGED <<lost, faults>>
         \/ Fault /\ lost' = lost \cup {t} /\ UNCHANGED visible
      /\ Discard(t)
  BY <1>2 DEF Link
<1>5. /\ visible' \subseteq Inodes /\ visible \subseteq visible'
      /\ lost' \subseteq Transfers /\ lost \subseteq lost'
      /\ t \in lost' \/ \E x \in visible' : x[1] = t
  BY <1>2, <1>3, <1>4 DEF Shape, DiskShape
<1>6. faults' \in 0 .. MaxFaults
  BY <1>4, BulkAssumption DEF Fault, Shape, DiskShape
<1>7. CompletesShown'
  <2>1. \A u : todo = <<Do("link", u)>> => u = t
    <3> TAKE u
    <3> HAVE todo = <<Do("link", u)>>
    <3>1. Head(<<Do("link", u)>>) = Do("link", u) /\ Do("link", u).id = u
      BY ShortTails, OpsDiffer
    <3> QED
      BY <1>2, <3>1
  <2>2. \A u : todo = <<Do("link", u)>>
          => (u \in lost' \/ \E x \in visible' : x[1] = u)
    BY <1>5, <2>1
  <2> QED
    BY <1>1, <1>5, <2>2, CompletesKept DEF Disk
<1> QED
  BY <1>1, <1>2, <1>4, <1>5, <1>6, <1>7, DiscardKeepsDisk

\* The disk operations a re-armed engine still owes.
LEMMA RemovalsOwed ==
  ASSUME HostShape, host.state = "awaitingOffer", todo # <<>>
  PROVE  \E t \in Transfers :
            /\ Head(todo).id = t
            /\ \A u : /\ Owes(todo, "drop part", u) => u = t
                      /\ Owes(todo, "drop record", u) => u = t
                      /\ ~Owes(todo, "link", u)
            /\ Head(todo).op = "drop part" =>
                  /\ Owes(todo, "drop part", t)
                  /\ \A u : /\ ~Owes(Tail(todo), "drop part", u)
                               /\ ~Owes(Tail(todo), "link", u)
                            /\ Owes(Tail(todo), "drop record", u)
                                <=> Owes(todo, "drop record", u)
            /\ Head(todo).op = "drop record" => Tail(todo) = <<>>
<1>1. PICK t \in Transfers :
        \/ todo = <<Do("drop part", t), Do("drop record", t)>>
        \/ todo = <<Do("drop part", t)>>
        \/ todo = <<Do("drop record", t)>>
  BY DEF HostShape, HostRecord, TodoFits
<1>2. /\ Do("drop part", t).op = "drop part" /\ Do("drop part", t).id = t
      /\ Do("drop record", t).op = "drop record" /\ Do("drop record", t).id = t
  BY OpsDiffer
<1>3. PICK a, b, ab : /\ a = <<Do("drop part", t)>> /\ b = <<Do("drop record", t)>>
                     /\ ab = <<Do("drop part", t), Do("drop record", t)>>
  OBVIOUS
<1>4. \A u : /\ Owes(a, "drop part", u) <=> u = t
             /\ ~Owes(a, "drop record", u) /\ ~Owes(a, "link", u)
             /\ Owes(b, "drop record", u) <=> u = t
             /\ ~Owes(b, "drop part", u) /\ ~Owes(b, "link", u)
             /\ Owes(ab, "drop part", u) <=> u = t
             /\ Owes(ab, "drop record", u) <=> u = t
             /\ ~Owes(ab, "link", u)
  <2> TAKE u
  <2>1. ASSUME NEW p
        PROVE  /\ Owes(a, p, u) <=> Do("drop part", t) = Do(p, u)
               /\ Owes(b, p, u) <=> Do("drop record", t) = Do(p, u)
               /\ Owes(ab, p, u)
                   <=> (Do("drop part", t) = Do(p, u)
                       \/ Do("drop record", t) = Do(p, u))
    <3>1. \A x : Owes(<<x>>, p, u) <=> x = Do(p, u)
      BY OwesFacts, Zenon
    <3>2. \A x, y : Owes(<<x, y>>, p, u) <=> (x = Do(p, u) \/ y = Do(p, u))
      BY OwesFacts, Zenon
    <3>3. Owes(a, p, u) <=> Do("drop part", t) = Do(p, u)
      BY <1>3, <3>1, Zenon
    <3>4. Owes(b, p, u) <=> Do("drop record", t) = Do(p, u)
      BY <1>3, <3>1, Zenon
    <3>5. Owes(ab, p, u)
            <=> (Do("drop part", t) = Do(p, u) \/ Do("drop record", t) = Do(p, u))
      BY <1>3, <3>2, Zenon
    <3> QED
      BY <3>3, <3>4, <3>5
  <2>2. /\ \A o : Do(o, t) = Do(o, u) <=> u = t
        /\ \A o, p : o # p => Do(o, t) # Do(p, u)
    BY OpsDiffer
  <2>3. "link" # "drop part" /\ "link" # "drop record"
          /\ "drop part" # "drop record"
    OBVIOUS
  <2>4. /\ Do("drop part", t) = Do("drop part", u) <=> u = t
        /\ ~(Do("drop record", t) = Do("drop part", u))
        /\ Do("drop record", t) = Do("drop record", u) <=> u = t
        /\ ~(Do("drop part", t) = Do("drop record", u))
        /\ ~(Do("drop part", t) = Do("link", u))
            /\ ~(Do("drop record", t) = Do("link", u))
    BY <2>2, <2>3, Zenon
  <2> QED
    BY <2>1, <2>4, Zenon
<1>5. \A op, u : ~Owes(<<>>, op, u)
  BY OwesFacts
<1>6. /\ Head(a) = Do("drop part", t) /\ Tail(a) = <<>>
      /\ Head(b) = Do("drop record", t) /\ Tail(b) = <<>>
      /\ Head(ab) = Do("drop part", t) /\ Tail(ab) = b
  BY <1>3, ShortTails
<1>7. todo = ab \/ todo = a \/ todo = b
  BY <1>1, <1>3
<1> QED
  BY <1>2, <1>4, <1>5, <1>6, <1>7

(* Unlinking an abandoned part keeps the disk in order. *)
LEMMA DropPartKeepsDisk ==
  ASSUME Shape, Disk, DropPart
  PROVE  DiskShape' /\ Disk'
<1>1. /\ todo # <<>> /\ Head(todo).op = "drop part" /\ todo' = Tail(todo)
      /\ part' = Removed(part, Head(todo).id)
      /\ UNCHANGED <<sent, down, host, replies, record, blocks, visible, lost,
          session, faults>>
  BY DEF DropPart, clientVars
<1>2. host.state = "awaitingOffer"
  BY <1>1, OwedFacts DEF Shape
<1>3. PICK t \in Transfers :
        /\ Head(todo).id = t /\ Owes(todo, "drop part", t)
        /\ \A u : /\ Owes(todo, "drop record", u) => u = t
                  /\ ~Owes(todo, "link", u)
                  /\ ~Owes(Tail(todo), "drop part", u)
                      /\ ~Owes(Tail(todo), "link", u)
                  /\ Owes(Tail(todo), "drop record", u)
                      <=> Owes(todo, "drop record", u)
  BY <1>1, <1>2, RemovalsOwed DEF Shape
<1>4. /\ part' \in UNION {[D -> Inodes] : D \in SUBSET Transfers}
      /\ DOMAIN part' = DOMAIN part \ {t}
      /\ \A u \in DOMAIN part \ {t} : part'[u] = part[u]
  BY <1>1, <1>3, PartFacts DEF Shape
<1>5. t \notin DOMAIN host.book
  BY <1>3 DEF Disk, BookDurable
<1>6. \A u, claim : u # t /\ Has(u, claim) => HasNow(u, claim)
  BY <1>1, <1>4 DEF Has, HasNow
<1>7. DiskShape' /\ NamesDistinct'
  BY <1>1, <1>4 DEF Shape, DiskShape, Disk, NamesDistinct
<1>8. EngineDurable'
  BY <1>1, <1>2 DEF EngineDurable
<1>9. BookDurable'
  <2> SUFFICES ASSUME NEW u \in DOMAIN host.book PROVE HasNow(u, host.book[u])
    BY <1>1, <1>2, <1>3 DEF BookDurable, Has, HasNow, Hosting
  <2>1. Has(u, host.book[u]) /\ u # t
    BY <1>5 DEF Disk, BookDurable
  <2> QED
    BY <1>6, <2>1
<1>10. RecordDurable'
  <2> SUFFICES ASSUME NEW u \in DOMAIN record
               PROVE  /\ u \in DOMAIN part' => HasNow(u, record[u])
                      /\ \/ u \in DOMAIN host.book
                            /\ record[u] \subseteq host.book[u]
                         \/ Owes(Tail(todo), "drop record", u)
    BY <1>1 DEF RecordDurable, Has, HasNow
  <2>1. /\ u \in DOMAIN part => Has(u, record[u])
        /\ \/ u \in DOMAIN host.book /\ record[u] \subseteq host.book[u]
           \/ Owes(todo, "drop record", u)
    BY DEF Disk, RecordDurable
  <2> QED
    BY <1>3, <1>4, <1>6, <2>1
<1>11. LinkVerified'
  BY <1>1, <1>3 DEF LinkVerified
<1>12. CompletesShown'
  <2>1. \A u : todo # <<Do("link", u)>>
    BY <1>2, HostingOwes DEF Shape
  <2> QED
    BY <1>1, <2>1, CompletesKept DEF Disk
<1>13. SentShown'
  BY <1>1 DEF Disk, SentShown, Shown
<1> QED
  BY <1>7, <1>8, <1>9, <1>10, <1>11, <1>12, <1>13 DEF Disk

(* Unlinking the record of a finished or abandoned transfer keeps the disk in
   order. *)
LEMMA DropRecordKeepsDisk ==
  ASSUME Shape, Disk, DropRecord
  PROVE  DiskShape' /\ Disk'
<1>1. /\ todo # <<>> /\ Head(todo).op = "drop record" /\ todo' = Tail(todo)
      /\ record' = Removed(record, Head(todo).id)
      /\ UNCHANGED <<sent, down, host, replies, part, blocks, visible, lost,
          session, faults>>
  BY DEF DropRecord, clientVars
<1>2. host.state = "awaitingOffer"
  BY <1>1, OwedFacts DEF Shape
<1>3. PICK t \in Transfers :
        /\ Head(todo).id = t /\ todo' = <<>>
        /\ \A u : Owes(todo, "drop record", u) => u = t
  BY <1>1, <1>2, RemovalsOwed DEF Shape
<1>4. /\ record' \in Books /\ DOMAIN record' = DOMAIN record \ {t}
      /\ \A u \in DOMAIN record \ {t} : record'[u] = record[u]
  <2>1. record' = Removed(record, t)
    BY <1>1, <1>3
  <2>2. DOMAIN record' = DOMAIN record \ {t}
    BY <2>1 DEF Removed, Restrict
  <2>3. \A u \in DOMAIN record \ {t} : record'[u] = record[u]
    BY <2>1 DEF Removed, Restrict
  <2>4. record' \in Books
    <3>1. record \in Books
      BY DEF Shape, DiskShape
    <3>2. \A book \in Books : Removed(book, t) \in Books
      BY BookFacts
    <3> QED
      BY <2>1, <3>1, <3>2
  <2> QED
    BY <2>2, <2>3, <2>4
<1>5. \A op, u : ~Owes(todo', op, u)
  BY <1>3, OwesFacts
<1>6. DiskShape' /\ NamesDistinct'
  BY <1>1, <1>4 DEF Shape, DiskShape, Disk, NamesDistinct
<1>7. EngineDurable'
  BY <1>1, <1>2 DEF EngineDurable
<1>8. BookDurable'
  BY <1>1, <1>2, <1>5 DEF Disk, BookDurable, Has, Hosting
<1>9. RecordDurable'
  BY <1>1, <1>3, <1>4 DEF Disk, RecordDurable, Has
<1>10. LinkVerified'
  BY <1>5 DEF LinkVerified
<1>11. CompletesShown'
  <2>1. \A u : todo # <<Do("link", u)>>
    BY <1>2, HostingOwes DEF Shape
  <2> QED
    BY <1>1, <2>1, CompletesKept DEF Disk
<1>12. SentShown'
  BY <1>1 DEF Disk, SentShown, Shown
<1> QED
  BY <1>6, <1>7, <1>8, <1>9, <1>10, <1>11, <1>12 DEF Disk

(* Sending the replies keeps the disk in order. *)
LEMMA SendRepliesKeepsDisk ==
  ASSUME Shape, Disk, SendReplies
  PROVE  DiskShape' /\ Disk'
<1>1. /\ todo = <<>> /\ down' = down \o replies /\ replies' = <<>>
      /\ UNCHANGED <<sent, host, todo, part, record, blocks, visible, lost,
          session, faults>>
  BY DEF SendReplies, clientVars, diskVars
<1>2. Answers' = Answers
  BY <1>1, AnswersSent DEF Shape
<1>3. DiskShape' /\ NamesDistinct'
  BY <1>1 DEF Shape, DiskShape, Disk, NamesDistinct
<1>4. EngineDurable'
  BY <1>1 DEF Disk, EngineDurable, Has
<1>5. BookDurable'
  BY <1>1 DEF Disk, BookDurable, Has, Hosting
<1>6. RecordDurable'
  BY <1>1 DEF Disk, RecordDurable, Has
<1>7. LinkVerified'
  BY <1>1 DEF Disk, LinkVerified, DigestMatches
<1>8. CompletesShown'
  <2>1. \A u : todo # <<Do("link", u)>>
    BY <1>1
  <2>2. \A i \in 1 .. Len(Answers) : Answers[i].type = "complete"
          => Shown(Answers[i].id)
    BY <2>1 DEF Disk, CompletesShown
  <2> QED
    BY <1>1, <1>2, <2>2 DEF CompletesShown, Shown
<1>9. SentShown'
  BY <1>1 DEF Disk, SentShown, Shown
<1> QED
  BY <1>3, <1>4, <1>5, <1>6, <1>7, <1>8, <1>9 DEF Disk

(* The client's reading of an answer keeps the disk in order: a completion it
   believes was one the host sent. *)
LEMMA ClientIngestKeepsDisk ==
  ASSUME Shape, Disk, ClientIngest
  PROVE  DiskShape' /\ Disk'
<1>1. /\ down # <<>> /\ down' = Tail(down)
      /\ sent' = sent
          \/ (Head(down).type = "complete" /\ sent' = sent \cup {Head(down).id})
      /\ UNCHANGED <<host, todo, replies, part, record, blocks, visible, lost,
          session, faults>>
  BY DEF ClientIngest, hostVars, diskVars
<1>2. /\ Len(Answers') = Len(Answers) - 1 /\ Len(Answers) \in Nat
         /\ Len(Answers) >= 1
      /\ Len(down') = Len(down) - 1 /\ Len(down) \in Nat /\ Len(down) >= 1
      /\ \A i \in 1 .. Len(Answers') : Answers'[i] = Answers[i + 1]
      /\ Answers[1] = Head(down)
  BY <1>1, AnswersShift DEF Shape
<1>3. DiskShape' /\ NamesDistinct'
  BY <1>1 DEF Shape, DiskShape, Disk, NamesDistinct
<1>4. EngineDurable'
  BY <1>1 DEF Disk, EngineDurable, Has
<1>5. BookDurable'
  BY <1>1 DEF Disk, BookDurable, Has, Hosting
<1>6. RecordDurable'
  BY <1>1 DEF Disk, RecordDurable, Has
<1>7. LinkVerified'
  BY <1>1 DEF Disk, LinkVerified, DigestMatches
<1>9. CompletesShown'
  <2> SUFFICES ASSUME NEW i \in 1 .. Len(Answers'), Answers'[i].type = "complete"
               PROVE  \/ Shown(Answers'[i].id)
                      \/ todo' = <<Do("link", Answers'[i].id)>> /\ i > Len(down')
    BY <1>1 DEF CompletesShown, Shown
  <2>1. i + 1 \in 1 .. Len(Answers) /\ Answers'[i] = Answers[i + 1]
    BY <1>2
  <2>2. \/ Shown(Answers[i + 1].id)
        \/ todo = <<Do("link", Answers[i + 1].id)>> /\ i + 1 > Len(down)
    BY <2>1 DEF Disk, CompletesShown
  <2>3. i + 1 > Len(down) => i > Len(down')
    BY <1>2
  <2> QED
    BY <1>1, <2>1, <2>2, <2>3
<1>10. SentShown'
  <2>1. Head(down).type = "complete" => Shown(Head(down).id)
    <3> HAVE Head(down).type = "complete"
    <3>1. 1 \in 1 .. Len(Answers) /\ ~(1 > Len(down))
      BY <1>2
    <3> QED
      BY <1>2, <3>1 DEF Disk, CompletesShown
  <2> QED
    BY <1>1, <2>1 DEF Disk, SentShown, Shown
<1> QED
  BY <1>3, <1>4, <1>5, <1>6, <1>7, <1>9, <1>10 DEF Disk

(***************************************************************************)
(* The next session's book is what the records claim of files still there. *)
(***************************************************************************)
LEMMA NextSessionKeepsDisk ==
  ASSUME Shape, Disk, SessionEnds \/ HostCrashes
  PROVE  DiskShape' /\ Disk'
<1>1. PICK left \in Books :
        /\ \/ left = record
           \/ host.state # "awaitingOffer" /\ todo = <<>>
               /\ left = Put(record, host.id, host.held)
        /\ record' = host'.book
        /\ DOMAIN record' = DOMAIN left \cap DOMAIN part
        /\ \A t \in DOMAIN record' : record'[t] = left[t]
  BY NextSessionFacts
<1>2. /\ record' \in Books /\ host'.state = "awaitingOffer"
      /\ down' = <<>> /\ todo' = <<>> /\ replies' = <<>>
      /\ UNCHANGED <<sent, part, visible, lost>>
      /\ faults' \in 0 .. MaxFaults /\ session' \in 1 .. MaxSessions
      /\ \/ blocks' = blocks
         \/ todo # <<>> /\ Head(todo).op = "store" /\ blocks' = CutShort(Head(todo))
  BY NextSessionFacts
<1>3. /\ StillHas /\ blocks' \in [Inodes -> [Chunks -> Contents]]
      /\ blocks' # blocks => host.state = "receiving" /\ todo # <<>>
  <2>1. CASE blocks' = blocks
    BY <1>2, <2>1, StillThere DEF Shape, DiskShape
  <2>2. CASE todo # <<>> /\ Head(todo).op = "store"
               /\ blocks' = CutShort(Head(todo))
    <3>1. /\ blocks' \in [Inodes -> [Chunks -> Contents]]
          /\ host.id \in DOMAIN part /\ host.state = "receiving"
      BY <2>2, StoreWrites DEF Disk
    <3>2. PICK c \in Chunks \ host.held, v \in Contents : Wrote(c, v)
      BY <2>2, StoreWrites DEF Disk
    <3>3. \A t, claim :
             Has(t, claim) /\ claim \subseteq Chunks
                 /\ (t = host.id => (c \notin claim \/ v \in Durable))
             => HasNow(t, claim)
      BY <1>2, <3>1, <3>2, HasKept DEF Disk, HasNow
    <3>4. StillHas
      BY <3>2, <3>3 DEF StillHas
    <3> QED
      BY <2>2, <3>1, <3>4
  <2> QED
    BY <1>2, <2>1, <2>2
<1>4. ASSUME NEW t \in DOMAIN record' PROVE HasNow(t, record'[t])
  <2>1. t \in DOMAIN left /\ t \in DOMAIN part /\ record'[t] = left[t]
          /\ left[t] \subseteq Chunks
    BY <1>1, BookFacts
  <2>2. CASE left = record
    <3>1. Has(t, record[t])
      BY <2>1, <2>2 DEF Disk, RecordDurable
    <3>2. CASE blocks' = blocks
      BY <1>2, <2>1, <2>2, <3>1, <3>2 DEF Has, HasNow
    <3>3. CASE blocks' # blocks
      <4>1. host.state = "receiving" /\ ~Owes(todo, "drop record", t)
        BY <1>3, <3>3, HostingOwes DEF Shape
      <4>2. t \in DOMAIN host.book /\ record[t] \subseteq host.book[t]
        BY <2>1, <2>2, <4>1 DEF Disk, RecordDurable
      <4>3. t = host.id => record[t] \subseteq host.held
        BY <4>1, <4>2 DEF Disk, BookDurable, Hosting, Shape, HostShape
      <4> QED
        BY <1>3, <2>1, <2>2, <3>1, <4>3 DEF StillHas
    <3> QED
      BY <3>2, <3>3
  <2>3. CASE host.state # "awaitingOffer" /\ todo = <<>>
               /\ left = Put(record, host.id, host.held)
    <3>1. blocks' = blocks
      BY <1>3, <2>3
    <3>2. left[t] = IF t = host.id THEN host.held ELSE record[t]
      BY <2>1, <2>3 DEF Put
    <3>3. t # host.id => t \in DOMAIN record
      BY <2>1, <2>3 DEF Put
    <3>4. CASE t = host.id
      <4>1. Has(t, host.held)
        BY <2>3, <3>4 DEF Disk, EngineDurable
      <4> QED
        BY <1>2, <2>1, <3>1, <3>2, <3>4, <4>1 DEF Has, HasNow
    <3>5. CASE t # host.id
      <4>1. Has(t, record[t])
        BY <2>1, <3>3, <3>5 DEF Disk, RecordDurable
      <4> QED
        BY <1>2, <2>1, <3>1, <3>2, <3>5, <4>1 DEF Has, HasNow
    <3> QED
      BY <3>4, <3>5
  <2> QED
    BY <1>1, <2>2, <2>3
<1>5. \A op, t : ~Owes(todo', op, t)
  BY <1>2, OwesFacts
<1>6. DiskShape' /\ NamesDistinct'
  BY <1>2, <1>3 DEF Shape, DiskShape, Disk, NamesDistinct
<1>7. EngineDurable' /\ LinkVerified'
  BY <1>2, <1>5 DEF EngineDurable, LinkVerified
<1>8. BookDurable'
  BY <1>1, <1>2, <1>4, <1>5 DEF BookDurable, Has, HasNow, Hosting
<1>9. RecordDurable'
  BY <1>1, <1>4 DEF RecordDurable, Has, HasNow
<1>10. CompletesShown'
  <2>1. Answers' = <<>>
    <3>1. Answers' = <<>> \o <<>>
      BY <1>2 DEF Answers
    <3>2. <<>> \o <<>> = <<>>
      BY ConcatEmptySeq
    <3> QED
      BY <3>1, <3>2
  <2> QED
    BY <2>1 DEF CompletesShown
<1>11. SentShown'
  BY <1>2 DEF Disk, SentShown, Shown
<1> QED
  BY <1>6, <1>7, <1>8, <1>9, <1>10, <1>11 DEF Disk

(***************************************************************************)
(* Every step keeps the disk in order.                                     *)
(***************************************************************************)
LEMMA DiskKept ==
  ASSUME Shape, Disk, BulkNext
  PROVE  DiskShape' /\ Disk'
<1>1. CASE \/ Begin \/ SendChunk \/ CancelAll \/ SourceChanges
           \/ \E c \in Chunks : SupplyChunk(c) \/ ReadFails(c)
  <2>1. UNCHANGED hostVars /\ UNCHANGED <<lost, session, sent, down>>
    BY <1>1 DEF Begin, SendChunk, SupplyChunk, ReadFails, CancelAll, SourceChanges
  <2>2. faults' = faults \/ Fault
    BY <1>1 DEF Begin, SendChunk, SupplyChunk, ReadFails, CancelAll, SourceChanges
  <2>3. faults' \in 0 .. MaxFaults
    BY <2>2, BulkAssumption DEF Fault, Shape, DiskShape
  <2> QED
    BY <2>1, <2>3, ClientKeepsDisk
<1> QED
  BY <1>1, ClientIngestKeepsDisk, HostIngestKeepsDisk, StoreChunkKeepsDisk,
       VerifyKeepsDisk,
     LinkKeepsDisk, DropPartKeepsDisk, DropRecordKeepsDisk, SendRepliesKeepsDisk,
         NextSessionKeepsDisk
  DEF BulkNext, ClientSteps, HostSteps, Disturbances

(***************************************************************************)
(* The turns the two ends take, as the order of their messages sees them.  *)
(***************************************************************************)
Longer(a, b, m) ==
    /\ Len(a) \in Nat /\ Len(b) = Len(a) + 1
    /\ \A i \in 1..Len(a) : b[i] = a[i]
    /\ b[Len(a) + 1] = m

Shorter(a, b) ==
    /\ Len(a) \in Nat /\ Len(a) >= 1 /\ Len(b) = Len(a) - 1
    /\ \A i \in 1..Len(b) : b[i] = a[i + 1]

AnswersStay == Answers' = Answers /\ down' = down
AnswersAdd(m) == Longer(Answers, Answers', m) /\ down' = down
AnswersPop == Shorter(Answers, Answers') /\ Shorter(down, down')

TurnBegin ==
    /\ client.state = "idle" /\ client'.state = "offering" /\ queue # <<>>
        /\ queue' = queue
    /\ Longer(up, up', Offer(Head(queue))) /\ AnswersStay /\ sending' = sending

TurnAccepted ==
    /\ client.state = "offering"
        /\ client'.state \in {"transferring", "awaitingVerification"}
    /\ AnswersPop /\ Answers[1].type = "accept" /\ Answers[1].id = Head(queue)
    /\ up' = up /\ queue' = queue /\ sending' = sending

TurnHear ==
    /\ \/ client'.state = client.state
       \/ /\ client.state \in {"transferring", "awaitingVerification"}
          /\ client'.state \in {"transferring", "awaitingVerification"}
    /\ client.state = "offering" => Answers[1].id # Head(queue)
    /\ AnswersPop /\ up' = up /\ queue' = queue /\ sending' = sending

TurnGiveUp ==
    /\ client.state # "idle" /\ client'.state = "idle"
        /\ queue' \in {Tail(queue), <<>>}
    /\ Longer(up, up', Abort(Head(queue))) /\ AnswersStay /\ sending' = sending

TurnDone ==
    /\ client.state # "idle" /\ client'.state = "idle" /\ queue' = Tail(queue)
    /\ AnswersPop /\ IsFinal(Answers[1]) /\ Answers[1].id = Head(queue)
    /\ up' = up /\ sending' = sending

TurnSupply ==
    /\ client.state = "transferring" /\ client'.state = client.state
        /\ queue' = queue
    /\ sending = {} /\ \E m \in ChunkMessage : sending' = {m} /\ m.id = Head(queue)
    /\ up' = up /\ AnswersStay

TurnSend ==
    /\ client' = client /\ queue' = queue /\ AnswersStay
    /\ \E m \in ChunkMessage : sending = {m} /\ Longer(up, up', m)
    /\ sending' = {}

TurnIdle ==
    /\ client'.state = client.state
        /\ (queue' = queue \/ (client.state = "idle" /\ queue' = <<>>))
    /\ up' = up /\ AnswersStay /\ sending' = sending

ClientTurn ==
    /\ host' = host /\ todo' = todo
    /\ \/ TurnBegin \/ TurnAccepted \/ TurnHear \/ TurnGiveUp \/ TurnDone
       \/ TurnSupply \/ TurnSend \/ TurnIdle

UpStays == up' = up
UpPops == Shorter(up, up')

TurnOpen ==
    /\ host.state = "awaitingOffer" /\ host'.state # "awaitingOffer"
    /\ UpPops /\ up[1] = Offer(host'.id)
    /\ host'.held = host'.start /\ (host'.state = "receiving" => todo' = <<>>)
    /\ \E a \in ReportMessage : a.type = "accept" /\ a.id = host'.id
        /\ AnswersAdd(a)

TurnRefuse ==
    /\ host.state = "awaitingOffer" /\ host'.state = "awaitingOffer"
    /\ UpPops /\ \E t \in Transfers : up[1] = Offer(t) /\ AnswersAdd(Abort(t))

TurnClose ==
    /\ host.state # "awaitingOffer" /\ host'.state = "awaitingOffer"
    /\ UpStays \/ UpPops
    /\ AnswersStay \/ AnswersAdd(Abort(host.id))

TurnReport ==
    /\ host.state # "awaitingOffer" /\ host'.state # "awaitingOffer"
        /\ host'.id = host.id
    /\ \A t : todo # <<Do("link", t)>>
    /\ client.state = "offering" => Head(queue) # host.id
    /\ UpStays \/ (UpPops /\ up[1].type = "chunk")
    /\ AnswersStay \/ \E a \in ReportMessage : a.type = "ack" /\ a.id = host.id
        /\ AnswersAdd(a)

TurnFinish ==
    /\ host.state = "verifying" /\ host' = host /\ \A t : todo # <<Do("link", t)>>
    /\ todo' = <<Do("link", host.id)>> /\ UpStays
    /\ AnswersAdd([type |-> "complete", id |-> host.id])

TurnRest ==
    /\ host.state = "awaitingOffer" /\ host'.state = "awaitingOffer"
    /\ UpStays \/ (UpPops /\ up[1].type # "offer")
    /\ AnswersStay

TurnDeliver ==
    /\ host' = host /\ todo = <<>> /\ todo' = <<>> /\ UpStays
    /\ Answers' = Answers

HostTurn ==
    /\ client' = client /\ queue' = queue /\ sending' = sending
    /\ \/ TurnOpen \/ TurnRefuse \/ TurnClose \/ TurnReport \/ TurnFinish
          \/ TurnRest \/ TurnDeliver

-----------------------------------------------------------------------------
(* An append makes the stream to the host longer. *)
LEMMA UpLonger ==
  ASSUME StreamShape, NEW m \in ToHost, up' = Append(up, m)
  PROVE  Longer(up, up', m)
BY UpGrow DEF Longer

(* Taking its head makes the stream to the host shorter. *)
LEMMA UpShorter ==
  ASSUME StreamShape, up # <<>>, up' = Tail(up)
  PROVE  Shorter(up, up') /\ up[1] = Head(up) /\ Head(up) \in ToHost
BY UpShift DEF Shorter

(* A reply lengthens the answers. *)
LEMMA AnswersAdded ==
  ASSUME StreamShape, NEW m \in ToClient, down' = down,
         replies' = Append(replies, m)
  PROVE  AnswersAdd(m)
BY AnswersGrow DEF Longer, AnswersAdd

(* Reading one shortens them. *)
LEMMA AnswersPopped ==
  ASSUME StreamShape, down # <<>>, down' = Tail(down), replies' = replies
  PROVE  AnswersPop /\ Answers[1] = Head(down) /\ Head(down) \in ToClient
<1>1. \A i \in 1 .. Len(down') : down'[i] = down[i + 1]
  BY HeadTailProperties DEF StreamShape
<1> QED
  BY <1>1, AnswersShift DEF Shorter, AnswersPop

(* The file on offer is the head of the queue; when nothing is, the next to
   offer is. *)
LEMMA OfferedFacts ==
  ASSUME ClientShape
  PROVE  /\ Offered \in Nat /\ Len(queue) \in Nat
         /\ client.state # "idle" => Head(queue) = Offered
             /\ Head(queue) \in Transfers
         /\ client.state = "idle" /\ queue # <<>> => Head(queue) = Offered + 1
             /\ Head(queue) \in Transfers
<1>1. Files \in Nat /\ Len(queue) \in Nat /\ Len(queue) <= Files
  BY BulkAssumption, LenProperties DEF ClientShape, QueueInOrder
<1>2. queue # <<>> => Head(queue) = (Files - Len(queue)) + 1
        /\ Head(queue) \in Transfers
  BY QueueFacts DEF ClientShape
<1>3. Offered = (Files - Len(queue)) + (IF client.state = "idle" THEN 0 ELSE 1)
  BY DEF Offered
<1> QED
  BY <1>1, <1>2, <1>3 DEF ClientShape

(* Every step of the client is one of the turns the argument distinguishes. *)
LEMMA ClientTurns ==
  ASSUME Shape, Turns,
         \/ Begin \/ ClientIngest \/ SendChunk \/ CancelAll \/ SourceChanges
         \/ \E c \in Chunks : SupplyChunk(c) \/ ReadFails(c)
  PROVE  ClientTurn /\ refused' = refused
<1>0. StreamShape /\ ClientShape
  BY DEF Shape
<1>1. host' = host /\ todo' = todo /\ replies' = replies
  BY DEF Begin, ClientIngest, SendChunk, CancelAll, SourceChanges, SupplyChunk,
       ReadFails, hostVars
<1>2. \A t \in Transfers : Offer(t) \in ToHost /\ Abort(t) \in ToHost
  BY <1>0, AppendShape
<1>3. client.state # "idle" => queue # <<>> /\ Head(queue) \in Transfers
  BY <1>0, OfferedFacts DEF ClientShape
<1>4. NoShell.state = "idle"
  BY DEF NoShell
<1>5. CASE Begin
  <2>1. /\ queue # <<>> /\ client.state = "idle" /\ client'.state = "offering"
        /\ up' = Append(up, Offer(Head(queue)))
            /\ UNCHANGED <<queue, sending, down, refused>>
    BY <1>5 DEF Begin, NoShell, Offer
  <2>2. Head(queue) \in Transfers
    BY <1>0, <2>1, OfferedFacts
  <2>3. Longer(up, up', Offer(Head(queue)))
    BY <1>0, <1>2, <2>1, <2>2, UpLonger
  <2>4. TurnBegin
    BY <1>1, <2>1, <2>3 DEF TurnBegin, AnswersStay, Answers
  <2> QED
    BY <1>1, <2>1, <2>4 DEF ClientTurn
<1>6. CASE SendChunk
  <2>1. PICK m \in sending : up' = Append(up, m) /\ sending' = {}
    BY <1>6 DEF SendChunk
  <2>2. UNCHANGED <<client, queue, down, refused>>
    BY <1>6 DEF SendChunk
  <2>3. m \in ChunkMessage /\ sending = {m} /\ m \in ToHost
    BY <1>0, <2>1 DEF ClientShape, ToHost
  <2>4. Longer(up, up', m)
    BY <1>0, <2>1, <2>3, UpLonger
  <2>5. TurnSend
    BY <1>1, <2>1, <2>2, <2>3, <2>4 DEF TurnSend, AnswersStay, Answers
  <2> QED
    BY <1>1, <2>2, <2>5 DEF ClientTurn
<1>7. ASSUME NEW c \in Chunks, SupplyChunk(c) PROVE ClientTurn /\ refused' = refused
  <2> DEFINE m == [type |-> "chunk", id |-> Head(queue), chunk |-> c,
                   data |-> IF Head(queue) \in changed THEN "changed" ELSE "offered"]
  <2>1. /\ client.state = "transferring" /\ sending = {} /\ sending' = {m}
        /\ UNCHANGED <<queue, up, down, refused>>
        /\ client' = [client EXCEPT !.outstanding = @ \ {c}]
    BY <1>7 DEF SupplyChunk
  <2>2. client'.state = client.state
    BY <1>0, <2>1 DEF ClientShape, ClientRecord
  <2>3. m \in ChunkMessage /\ m.id = Head(queue)
    BY <1>3, <2>1 DEF ChunkMessage, Durable
  <2> HIDE DEF m
  <2>4. TurnSupply
    BY <1>1, <2>1, <2>2, <2>3 DEF TurnSupply, AnswersStay, Answers
  <2> QED
    BY <1>1, <2>1, <2>4 DEF ClientTurn
<1>8. ASSUME client.state # "idle", client' = NoShell,
             queue' \in {Tail(queue), <<>>},
             up' = Append(up, Abort(Head(queue))),
                 UNCHANGED <<sending, down, refused>>
      PROVE  ClientTurn /\ refused' = refused
  <2>1. Longer(up, up', Abort(Head(queue)))
    BY <1>0, <1>2, <1>3, <1>8, UpLonger
  <2>2. TurnGiveUp
    BY <1>1, <1>4, <1>8, <2>1 DEF TurnGiveUp, AnswersStay, Answers
  <2> QED
    BY <1>1, <1>8, <2>2 DEF ClientTurn
<1>9. ASSUME NEW c \in Chunks, ReadFails(c) PROVE ClientTurn /\ refused' = refused
  <2>1. /\ client.state # "idle" /\ client' = NoShell
           /\ queue' \in {Tail(queue), <<>>}
        /\ up' = Append(up, Abort(Head(queue)))
            /\ UNCHANGED <<sending, down, refused>>
    BY <1>9 DEF ReadFails, Pop, Abort
  <2> QED
    BY <1>8, <2>1
<1>10. CASE CancelAll
  <2>1. CASE client.state = "idle"
    <3>1. TurnIdle /\ refused' = refused
      BY <1>1, <1>4, <1>10, <2>1 DEF CancelAll, TurnIdle, AnswersStay, Answers
    <3> QED
      BY <1>1, <3>1 DEF ClientTurn
  <2>2. CASE client.state # "idle"
    <3>1. /\ client' = NoShell /\ queue' \in {Tail(queue), <<>>}
          /\ up' = Append(up, Abort(Head(queue)))
              /\ UNCHANGED <<sending, down, refused>>
      BY <1>10, <2>2 DEF CancelAll, Abort
    <3> QED
      BY <1>8, <2>2, <3>1
  <2> QED
    BY <2>1, <2>2
<1>11. CASE SourceChanges
  <2>1. TurnIdle /\ refused' = refused
    BY <1>1, <1>11 DEF SourceChanges, TurnIdle, AnswersStay, Answers
  <2> QED
    BY <1>1, <2>1 DEF ClientTurn
<1>12. CASE ClientIngest
  <2> DEFINE m == Head(down)
             active == client.state # "idle" /\ m.id = Head(queue)
  <2>1. /\ down # <<>> /\ down' = Tail(down) /\ sending' = sending
        /\ \/ ~active /\ UNCHANGED <<queue, sent, client, up, refused>>
           \/ active /\ ~Expected(m)
           \/ /\ active /\ Expected(m) /\ UNCHANGED <<up, refused>>
              /\ \/ m.type \in {"accept", "ack"} /\ client' = Informed(client, m)
                    /\ queue' = queue
                 \/ m.type \in {"complete", "abort"} /\ queue' = Tail(queue)
                     /\ client' = NoShell
    BY <1>12 DEF ClientIngest, Pop
  <2>2. AnswersPop /\ Answers[1] = m /\ m \in ToClient
    BY <1>0, <1>1, <2>1, AnswersPopped
  <2>3. /\ m.type \in {"accept", "ack", "complete", "abort"}
        /\ m.type \in {"accept", "ack"} => m \in ReportMessage
    BY <2>2, MessageKinds
  <2>4. 1 \in 1 .. Len(Answers)
    BY <2>2 DEF AnswersPop, Shorter
  <2>5. Expected(m) <=> /\ m.type = "accept" => client.state = "offering"
                        /\ m.type \in {"ack", "complete"}
                            => client.state \in {"transferring",
                                "awaitingVerification"}
    BY <2>3 DEF Expected
  <2>6. client \in ClientRecord
    BY <1>0 DEF ClientShape
  <2>7. client.state \in {"idle", "offering", "transferring",
          "awaitingVerification"}
    BY <2>6 DEF ClientRecord
  <2> HIDE DEF m
  <2>8. active => Expected(m)
    <3> HAVE active
    <3>1. m.type = "accept" => client.state = "offering"
      BY <2>2, <2>4 DEF Turns, Accepts, AcceptsOnce, Active
    <3>2. client.state = "offering" => m.type # "ack" /\ m.type # "complete"
      BY <2>2, <2>4 DEF Turns, Accepts, OfferingQuiet
    <3> QED
      BY <2>5, <2>7, <3>1, <3>2
  <2>9. CASE ~active /\ UNCHANGED <<queue, sent, client, up, refused>>
    <3>1. client.state = "offering" => Answers[1].id # Head(queue)
      BY <2>2, <2>9
    <3>2. TurnHear
      BY <2>1, <2>2, <2>9, <3>1 DEF TurnHear
    <3> QED
      BY <1>1, <2>9, <3>2 DEF ClientTurn
  <2>10. CASE /\ active /\ Expected(m) /\ UNCHANGED <<up, refused>>
              /\ m.type \in {"accept", "ack"} /\ client' = Informed(client, m)
                  /\ queue' = queue
    <3>1. client'.state \in {"transferring", "awaitingVerification"}
      BY <2>3, <2>6, <2>10, InformedTakes
    <3>2. CASE client.state = "offering"
      <4>1. m.type = "accept"
        BY <2>5, <2>10, <3>2
      <4>2. TurnAccepted
        BY <2>1, <2>2, <2>10, <3>1, <3>2, <4>1 DEF TurnAccepted
      <4> QED
        BY <1>1, <2>10, <4>2 DEF ClientTurn
    <3>3. CASE client.state # "offering"
      <4>1. client.state \in {"transferring", "awaitingVerification"}
        BY <2>7, <2>10, <3>3
      <4>2. TurnHear
        BY <2>1, <2>2, <2>10, <3>1, <3>3, <4>1 DEF TurnHear
      <4> QED
        BY <1>1, <2>10, <4>2 DEF ClientTurn
    <3> QED
      BY <3>2, <3>3
  <2>11. CASE /\ active /\ Expected(m) /\ UNCHANGED <<up, refused>>
              /\ m.type \in {"complete", "abort"} /\ queue' = Tail(queue)
                  /\ client' = NoShell
    <3>1. TurnDone
      BY <1>4, <2>1, <2>2, <2>11 DEF TurnDone, IsFinal
    <3> QED
      BY <1>1, <2>11, <3>1 DEF ClientTurn
  <2> QED
    BY <2>1, <2>8, <2>9, <2>10, <2>11
<1> QED
  BY <1>5, <1>6, <1>7, <1>9, <1>10, <1>11, <1>12

\* A step that leaves the streams alone.
LEMMA HostQuiet ==
  ASSUME up' = up, down' = down, replies' = replies
  PROVE  UpStays /\ AnswersStay
BY DEF UpStays, AnswersStay, Answers

(* An offer never meets an engine that is hosting another transfer: the client
   withdraws one before it offers the next. *)
LEMMA NotBusy ==
  ASSUME Shape, Turns, up # <<>>, Head(up).type = "offer"
  PROVE  host.state = "awaitingOffer"
<1>1. Len(up) >= 1 /\ up[1] = Head(up) /\ Len(up) \in Nat
  BY UpAre DEF Shape
<1>2. 1 \in 1 .. Len(up)
  BY <1>1
<1>3. host.state # "awaitingOffer" => \E k \in 1 .. Len(up) : k < 1
  BY <1>1, <1>2 DEF Turns, Offers, OffersWait
<1> QED
  BY <1>1, <1>3

\* A chunk in flight is of a transfer the client no longer offers.
LEMMA ChunkOfAccepted ==
  ASSUME Shape, Turns, up # <<>>, IsChunk(Head(up), host.id),
         client.state = "offering"
  PROVE  Head(queue) # host.id
<1>1. 1 \in 1 .. Len(up) /\ up[1] = Head(up)
  BY UpAre DEF Shape
<1> QED
  BY <1>1 DEF Turns, Accepts, OfferingQuiet, NoChunk

(* A receiving engine's credit report is a turn the argument distinguishes. *)
LEMMA ReportTurn ==
  ASSUME Shape, host.state = "receiving", NEW h \in HostRecord,
         h.state = "receiving",
         h.id = host.id, Credited(h), down' = down,
         \A t : todo # <<Do("link", t)>>,
         client.state = "offering" => Head(queue) # host.id,
         UpStays \/ (UpPops /\ up[1].type = "chunk")
  PROVE  TurnReport
<1>1. h.id \in Transfers /\ replies \in Seq(ToClient)
  BY DEF Shape, HostShape, StreamShape
<1>2. /\ host'.id = host.id /\ host'.state # "awaitingOffer"
      /\ \/ replies' = replies
         \/ /\ replies' = Append(replies, Answer(h.id, "ack", host'))
            /\ Answer(h.id, "ack", host') \in ReportMessage
  BY <1>1, CreditedCases
<1>3. AnswersStay \/ \E a \in ReportMessage : a.type = "ack" /\ a.id = host.id
        /\ AnswersAdd(a)
  <2>1. CASE replies' = replies
    BY <2>1 DEF AnswersStay, Answers
  <2>2. CASE /\ replies' = Append(replies, Answer(h.id, "ack", host'))
             /\ Answer(h.id, "ack", host') \in ReportMessage
    <3> DEFINE a == Answer(h.id, "ack", host')
    <3>1. a \in ReportMessage /\ a.type = "ack" /\ a.id = host.id
            /\ replies' = Append(replies, a)
      BY <2>2 DEF Answer
    <3>2. a \in ToClient
      BY <3>1 DEF ToClient
    <3> HIDE DEF a
    <3>3. AnswersAdd(a)
      BY <3>1, <3>2, AnswersAdded DEF Shape
    <3> QED
      BY <3>1, <3>3
  <2> QED
    BY <1>2, <2>1, <2>2
<1> QED
  BY <1>2, <1>3 DEF TurnReport

(* A step that leaves the engine awaiting an offer closes the transfer. *)
LEMMA CloseTurn ==
  ASSUME Shape, host.state # "awaitingOffer", host'.state = "awaitingOffer",
         down' = down,
         replies' = replies \/ replies' = Append(replies, Abort(host.id)),
         UpStays \/ UpPops
  PROVE  TurnClose
<1>1. Abort(host.id) \in ToClient
  BY AppendShape DEF Shape, HostShape
<1>2. AnswersStay \/ AnswersAdd(Abort(host.id))
  <2>1. CASE replies' = replies
    BY <2>1 DEF AnswersStay, Answers
  <2>2. CASE replies' = Append(replies, Abort(host.id))
    BY <1>1, <2>2, AnswersAdded DEF Shape
  <2> QED
    BY <2>1, <2>2
<1> QED
  BY <1>2 DEF TurnClose

(* The host's reading of a message is one of the turns. *)
LEMMA HostIngestTurn ==
  ASSUME Shape, Turns, HostIngest
  PROVE  HostTurn
<1> DEFINE m == Head(up)
<1>0. StreamShape /\ HostShape
  BY DEF Shape
<1>1. /\ up # <<>> /\ up' = Tail(up) /\ todo = <<>> /\ m \in ToHost
      /\ UNCHANGED <<clientVars, down, record, blocks, visible, lost, session>>
      /\ HeardNothing \/ HeardBusy(m) \/ HeardOffer(m) \/ HeardEnd(m)
          \/ HeardChunk(m)
      /\ HeardNothing => m.type # "offer" /\ host.state = "awaitingOffer"
  BY HostIngestCases
<1>2. /\ m.type \in {"offer", "abort", "chunk"} /\ m.id \in Transfers
      /\ m.type = "offer" => m = Offer(m.id)
  BY <1>1, MessageKinds
<1>3. UpPops /\ up[1] = m
  BY <1>0, <1>1, UpShorter DEF UpPops
<1>4. client' = client /\ queue' = queue /\ sending' = sending /\ down' = down
  BY <1>1 DEF clientVars
<1>5. \A t : todo # <<Do("link", t)>>
  BY <1>1
<1>6. ~HeardBusy(m)
  BY <1>1, NotBusy DEF HeardBusy
<1>7. CASE HeardNothing
  <2>1. host' = host /\ replies' = replies /\ host.state = "awaitingOffer"
          /\ m.type # "offer"
    BY <1>1, <1>7 DEF HeardNothing
  <2>2. AnswersStay
    BY <1>4, <2>1 DEF AnswersStay, Answers
  <2>3. TurnRest
    BY <1>3, <2>1, <2>2 DEF TurnRest
  <2> QED
    BY <1>4, <2>3 DEF HostTurn
<1> HIDE DEF m
<1>8. CASE HeardOffer(m)
  <2>1. m = Offer(m.id) /\ host.state = "awaitingOffer"
    BY <1>2, <1>8 DEF HeardOffer
  <2>2. CASE AcceptOffer(m.id)
    <3>1. /\ host'.id = m.id /\ host'.held = host'.start
          /\ host'.state # "awaitingOffer"
              /\ (host'.state = "receiving" => todo' = <<>>)
          /\ replies' = Append(replies, Answer(m.id, "accept", host'))
          /\ Answer(m.id, "accept", host') \in ReportMessage
      BY <1>2, <2>1, <2>2, AcceptFacts
    <3> DEFINE a == Answer(m.id, "accept", host')
    <3>2. a \in ReportMessage /\ a.type = "accept" /\ a.id = m.id
            /\ replies' = Append(replies, a)
      BY <3>1 DEF Answer
    <3>3. a \in ToClient
      BY <3>2 DEF ToClient
    <3> HIDE DEF a
    <3>4. AnswersAdd(a)
      BY <1>0, <1>4, <3>2, <3>3, AnswersAdded
    <3>5. TurnOpen
      BY <1>3, <2>1, <3>1, <3>2, <3>4 DEF TurnOpen
    <3> QED
      BY <1>4, <3>5 DEF HostTurn
  <2>3. CASE RefuseOffer(m.id)
    <3>1. host'.state = "awaitingOffer" /\ replies' = Append(replies, Abort(m.id))
      BY <2>3 DEF RefuseOffer, Rearmed
    <3>2. Abort(m.id) \in ToClient
      BY <1>0, <1>2, AppendShape
    <3>3. AnswersAdd(Abort(m.id))
      BY <1>0, <1>4, <3>1, <3>2, AnswersAdded
    <3>4. TurnRefuse
      BY <1>2, <1>3, <2>1, <3>1, <3>3 DEF TurnRefuse
    <3> QED
      BY <1>4, <3>4 DEF HostTurn
  <2> QED
    BY <1>8, <2>2, <2>3 DEF HeardOffer
<1>9. CASE HeardEnd(m)
  <2>1. /\ host.state # "awaitingOffer" /\ Discard(host.id)
        /\ replies' = replies \/ replies' = Append(replies, Abort(host.id))
    BY <1>9 DEF HeardEnd
  <2>2. host'.state = "awaitingOffer"
    BY <2>1 DEF Discard, Rearmed
  <2>3. TurnClose
    BY <1>3, <1>4, <2>1, <2>2, CloseTurn
  <2> QED
    BY <1>4, <2>3 DEF HostTurn
<1>10. CASE HeardChunk(m)
  <2>1. /\ host.state = "receiving" /\ IsChunk(m, host.id)
        /\ \/ UNCHANGED <<host, replies>>
           \/ Credited([host EXCEPT !.consumed = @ + 1])
    BY <1>10 DEF HeardChunk
  <2>2. up[1].type = "chunk"
    BY <1>3, <2>1 DEF IsChunk
  <2>3. client.state = "offering" => Head(queue) # host.id
    BY <1>1, <2>1, ChunkOfAccepted DEF m
  <2>4. CASE UNCHANGED <<host, replies>>
    <3>1. AnswersStay
      BY <1>4, <2>4 DEF AnswersStay, Answers
    <3>2. TurnReport
      BY <1>3, <1>5, <2>1, <2>2, <2>3, <2>4, <3>1 DEF TurnReport
    <3> QED
      BY <1>4, <3>2 DEF HostTurn
  <2>5. CASE Credited([host EXCEPT !.consumed = @ + 1])
    <3> DEFINE h == [host EXCEPT !.consumed = @ + 1]
    <3>1. h \in HostRecord /\ h.state = "receiving" /\ h.id = host.id
      BY <2>1, StoredFacts
    <3>2. Credited(h)
      BY <2>5
    <3> HIDE DEF h
    <3>3. TurnReport
      BY <1>3, <1>4, <1>5, <2>1, <2>2, <2>3, <3>1, <3>2, ReportTurn
    <3> QED
      BY <1>4, <3>3 DEF HostTurn
  <2> QED
    BY <2>1, <2>4, <2>5
<1> QED
  BY <1>1, <1>6, <1>7, <1>8, <1>9, <1>10

(* A storage failure closes the transfer. *)
LEMMA FailTurn ==
  ASSUME Shape, host.state # "awaitingOffer", FailStorage, down' = down, up' = up
  PROVE  TurnClose
<1>1. host'.state = "awaitingOffer" /\ replies' = Append(replies, Abort(host.id))
  BY FailFacts
<1> QED
  BY <1>1, CloseTurn DEF UpStays

(* Storing a chunk is one of the turns. *)
LEMMA StoreTurn ==
  ASSUME Shape, Turns, StoreChunk
  PROVE  HostTurn
<1>1. /\ todo # <<>> /\ Head(todo).op = "store"
      /\ UNCHANGED <<client, queue, sending, up, down>>
  BY DEF StoreChunk, clientVars
<1>2. host.state = "receiving" /\ \E c \in Chunks : Head(todo).chunk = c
  <2>1. host.state = "receiving"
    BY <1>1, OwedFacts DEF Shape
  <2>2. PICK c \in Chunks \ host.held, d \in Durable :
           Head(todo) = [op |-> "store", id |-> host.id, chunk |-> c, data |-> d]
    BY <1>1, OwedFacts DEF Shape
  <2> QED
    BY <2>1, <2>2
<1>3. \A t : todo # <<Do("link", t)>>
  BY <1>2, HostingOwes DEF Shape
<1>4. client.state = "offering" => Head(queue) # host.id
  BY <1>1, <1>2 DEF Turns, Accepts, OfferingQuiet, Hosting
<1>5. CASE Credited([host EXCEPT !.held = @ \cup {Head(todo).chunk},
             !.consumed = @ + 1])
  <2> DEFINE h == [host EXCEPT !.held = @ \cup {Head(todo).chunk},
             !.consumed = @ + 1]
  <2>1. h \in HostRecord /\ h.state = "receiving" /\ h.id = host.id
    BY <1>2, StoredFacts
  <2>2. Credited(h)
    BY <1>5
  <2> HIDE DEF h
  <2>3. TurnReport
    BY <1>1, <1>2, <1>3, <1>4, <2>1, <2>2, ReportTurn DEF UpStays
  <2> QED
    BY <1>1, <2>3 DEF HostTurn
<1>6. CASE FailStorage
  BY <1>1, <1>2, <1>6, FailTurn DEF HostTurn
<1> QED
  BY <1>5, <1>6 DEF StoreChunk

(* Verifying is one of the turns. *)
LEMMA VerifyTurn ==
  ASSUME Shape, Verify
  PROVE  HostTurn
<1>1. /\ todo # <<>> /\ Head(todo).op = "verify"
      /\ UNCHANGED <<client, queue, sending, up, down>>
  BY DEF Verify, clientVars
<1>2. host.state = "verifying" /\ Head(todo).id = host.id /\ host.id \in Transfers
  BY <1>1, OwedFacts DEF Shape, HostShape
<1>3. \A t : todo # <<Do("link", t)>>
  <2> TAKE t
  <2>1. Head(<<Do("link", t)>>) = Do("link", t) /\ Do("link", t).op = "link"
    BY ShortTails, OpsDiffer
  <2> QED
    BY <1>1, <2>1
<1>4. CASE /\ replies' = Append(replies, [type |-> "complete", id |-> host.id])
           /\ todo' = <<Do("link", host.id)>>
           /\ UNCHANGED host
  <2> DEFINE m == [type |-> "complete", id |-> host.id]
  <2>1. m \in ToClient
    BY <1>2, AppendShape DEF Shape
  <2>2. AnswersAdd(m)
    BY <1>1, <1>4, <2>1, AnswersAdded DEF Shape
  <2>3. TurnFinish
    BY <1>1, <1>2, <1>3, <1>4, <2>2 DEF TurnFinish, UpStays
  <2> QED
    BY <1>1, <2>3 DEF HostTurn
<1>5. CASE replies' = Append(replies, Abort(host.id)) /\ Discard(host.id)
  <2>1. host'.state = "awaitingOffer"
    BY <1>5 DEF Discard, Rearmed
  <2>2. TurnClose
    BY <1>1, <1>2, <1>5, <2>1, CloseTurn DEF UpStays
  <2> QED
    BY <1>1, <2>2 DEF HostTurn
<1>6. CASE FailStorage
  BY <1>1, <1>2, <1>6, FailTurn DEF HostTurn
<1> QED
  BY <1>2, <1>4, <1>5, <1>6 DEF Verify

(* Promoting is one of the turns. *)
LEMMA LinkTurn ==
  ASSUME Shape, Link
  PROVE  HostTurn
<1>1. /\ todo # <<>> /\ Head(todo).op = "link" /\ Discard(Head(todo).id)
      /\ UNCHANGED <<client, queue, sending, up, down, replies>>
  BY DEF Link, clientVars
<1>2. host.state = "verifying"
  BY <1>1, OwedFacts DEF Shape
<1>3. host'.state = "awaitingOffer"
  BY <1>1 DEF Discard, Rearmed
<1>4. TurnClose
  BY <1>1, <1>2, <1>3, CloseTurn DEF UpStays
<1> QED
  BY <1>1, <1>4 DEF HostTurn

(* Removing a part or a record is one of the turns. *)
LEMMA RemovalTurn ==
  ASSUME Shape, DropPart \/ DropRecord
  PROVE  HostTurn
<1>1. /\ todo # <<>> /\ Head(todo).op \in {"drop part", "drop record"}
      /\ UNCHANGED <<client, queue, sending, up, down, replies, host>>
  BY DEF DropPart, DropRecord, clientVars
<1>2. host.state = "awaitingOffer"
  BY <1>1, OwedFacts DEF Shape
<1>3. TurnRest
  BY <1>1, <1>2, HostQuiet DEF TurnRest
<1> QED
  BY <1>1, <1>3 DEF HostTurn

(* Sending the replies is one of the turns. *)
LEMMA SendTurn ==
  ASSUME Shape, SendReplies
  PROVE  HostTurn
<1>1. /\ todo = <<>> /\ down' = down \o replies /\ replies' = <<>>
      /\ UNCHANGED <<client, queue, sending, up, host, todo>>
  BY DEF SendReplies, clientVars
<1>2. Answers' = Answers
  BY <1>1, AnswersSent DEF Shape
<1>3. TurnDeliver
  BY <1>1, <1>2 DEF TurnDeliver, UpStays
<1> QED
  BY <1>1, <1>3 DEF HostTurn

(* Every step of the host is one of the turns the argument distinguishes. *)
LEMMA HostTurns ==
  ASSUME Shape, Turns, HostSteps
  PROVE  HostTurn
BY HostIngestTurn, StoreTurn, VerifyTurn, LinkTurn, RemovalTurn, SendTurn
     DEF HostSteps

(***************************************************************************)
(* The transfer in play.                                                   *)
(***************************************************************************)
LEMMA ClientProgress ==
  ASSUME ClientShape, ClientTurn
  PROVE  /\ Offered \in Nat /\ Offered' \in Nat /\ Offered' >= Offered
         /\ client.state # "idle" => Head(queue) = Offered
         /\ TurnBegin => Head(queue) = Offered + 1 /\ Offered' = Offered + 1
             /\ Head(queue) \in Transfers
         /\ client'.state # "idle" => TurnBegin
             \/ (client.state # "idle" /\ queue' = queue)
         /\ client'.state = "offering" => TurnBegin
             \/ (client.state = "offering" /\ queue' = queue)
<1>1. Files \in Nat /\ Len(queue) \in Nat /\ Len(queue) <= Files
  BY BulkAssumption, LenProperties DEF ClientShape, QueueInOrder
<1>2. /\ Offered = (Files - Len(queue)) + (IF client.state = "idle" THEN 0 ELSE 1)
      /\ Offered' = (Files - Len(queue')) + (IF client'.state = "idle" THEN 0 ELSE 1)
  BY DEF Offered
<1>3. client.state # "idle" => Len(queue) >= 1 /\ Len(Tail(queue)) = Len(queue) - 1
  BY QueueFacts DEF ClientShape
<1>4. /\ Offered \in Nat
      /\ client.state # "idle" => Head(queue) = Offered
      /\ client.state = "idle" /\ queue # <<>> => Head(queue) = Offered + 1
          /\ Head(queue) \in Transfers
  BY OfferedFacts
<1>5. Len(<<>>) = 0
  OBVIOUS
<1>6. CASE TurnBegin
  BY <1>1, <1>2, <1>4, <1>6 DEF TurnBegin
<1>7. CASE TurnAccepted \/ TurnHear \/ TurnSupply \/ TurnSend
  <2>1. /\ queue' = queue /\ (client.state = "idle" <=> client'.state = "idle")
        /\ client'.state = "offering" => client.state = "offering"
    BY <1>7 DEF TurnAccepted, TurnHear, TurnSupply, TurnSend
  <2>2. ~TurnBegin
    BY <2>1 DEF TurnBegin
  <2> QED
    BY <1>1, <1>2, <1>3, <1>4, <2>1, <2>2
<1>8. CASE TurnGiveUp \/ TurnDone
  <2>1. /\ client.state # "idle" /\ client'.state = "idle"
           /\ queue' \in {Tail(queue), <<>>}
    BY <1>8 DEF TurnGiveUp, TurnDone
  <2>2. ~TurnBegin
    BY <2>1 DEF TurnBegin
  <2> QED
    BY <1>1, <1>2, <1>3, <1>4, <1>5, <2>1, <2>2
<1>9. CASE TurnIdle
  <2>1. client'.state = client.state
          /\ (queue' = queue \/ (client.state = "idle" /\ queue' = <<>>))
    BY <1>9 DEF TurnIdle
  <2>2. ~TurnBegin
    BY <2>1 DEF TurnBegin
  <2> QED
    BY <1>1, <1>2, <1>3, <1>4, <1>5, <2>1, <2>2
<1> QED
  BY <1>6, <1>7, <1>8, <1>9 DEF ClientTurn

(* A bound on the transfers named in a stream survives its growing by one below
   the bound, and its shrinking. *)
LEMMA KeptBelow ==
  ASSUME NEW a, NEW b, NEW n, \A i \in 1 .. Len(a) : a[i].id <= n,
         b = a \/ Shorter(a, b) \/ \E m : Longer(a, b, m) /\ m.id <= n
  PROVE  \A i \in 1 .. Len(b) : b[i].id <= n
<1>1. CASE b = a
  BY <1>1
<1>2. CASE Shorter(a, b)
  <2> TAKE i \in 1 .. Len(b)
  <2>1. i + 1 \in 1 .. Len(a) /\ b[i] = a[i + 1]
    BY <1>2 DEF Shorter
  <2> QED
    BY <2>1
<1>3. ASSUME NEW m, Longer(a, b, m), m.id <= n
      PROVE  \A i \in 1 .. Len(b) : b[i].id <= n
  <2> TAKE i \in 1 .. Len(b)
  <2>1. i \in 1 .. Len(a) \/ i = Len(a) + 1
    BY <1>3 DEF Longer
  <2> QED
    BY <1>3, <2>1 DEF Longer
<1> QED
  BY <1>1, <1>2, <1>3

(* Whatever names a transfer names it by a natural number. *)
LEMMA MessageIds ==
  ASSUME Shape
  PROVE  /\ \A i \in 1 .. Len(up) : up[i].id \in Nat
         /\ \A i \in 1 .. Len(Answers) : Answers[i].id \in Nat
         /\ \A m \in sending : m.id \in Nat
         /\ host.id \in Nat
<1>1. \A t \in Transfers : t \in Nat
  BY BulkAssumption DEF Transfers
<1>2. \A i \in 1 .. Len(up) : up[i].id \in Nat
  BY <1>1, UpAre, MessageKinds DEF Shape
<1>3. \A i \in 1 .. Len(Answers) : Answers[i].id \in Nat
  BY <1>1, AnswersAre, MessageKinds DEF Shape
<1>4. \A m \in sending : m.id \in Nat
  BY <1>1 DEF Shape, ClientShape, ChunkMessage
<1> QED
  BY <1>2, <1>3, <1>4 DEF Shape, HostShape, HostRecord

(* No turn of the client names a file beyond the one on offer. *)
LEMMA InPlayKeptByClient ==
  ASSUME Shape, Turns, ClientTurn
  PROVE  InPlay'
<1>1. /\ Offered \in Nat /\ Offered' \in Nat /\ Offered' >= Offered
      /\ client.state # "idle" => Head(queue) = Offered
      /\ TurnBegin => Head(queue) = Offered + 1 /\ Offered' = Offered + 1
  BY ClientProgress DEF Shape
<1>2. /\ \A i \in 1 .. Len(up) : up[i].id \in Nat
      /\ \A i \in 1 .. Len(Answers) : Answers[i].id \in Nat
      /\ \A m \in sending : m.id \in Nat
      /\ host.id \in Nat
  BY MessageIds
<1> DEFINE n == Offered'
<1>3. /\ \A i \in 1 .. Len(up) : up[i].id <= n
      /\ \A i \in 1 .. Len(Answers) : Answers[i].id <= n
      /\ \A m \in sending : m.id <= n
      /\ host.state # "awaitingOffer" => host.id <= n
  BY <1>1, <1>2 DEF Turns, InPlay
<1>4. n \in Nat /\ (client.state # "idle" => Head(queue) <= n)
        /\ (TurnBegin => Head(queue) <= n)
  BY <1>1
<1> HIDE DEF n
<1>5. up' = up \/ Shorter(up, up') \/ \E m : Longer(up, up', m) /\ m.id <= n
  <2>1. CASE TurnBegin
    <3>1. Offer(Head(queue)).id <= n
      BY <1>4, <2>1 DEF Offer
    <3> QED
      BY <2>1, <3>1 DEF TurnBegin
  <2>2. CASE TurnGiveUp
    <3>1. Abort(Head(queue)).id <= n
      BY <1>4, <2>2 DEF Abort, TurnGiveUp
    <3> QED
      BY <2>2, <3>1 DEF TurnGiveUp
  <2>3. CASE TurnSend
    BY <1>3, <2>3 DEF TurnSend
  <2> QED
    BY <2>1, <2>2, <2>3 DEF ClientTurn, TurnAccepted, TurnHear, TurnDone,
         TurnSupply, TurnIdle
<1>6. Answers' = Answers \/ Shorter(Answers, Answers')
  BY DEF ClientTurn, TurnBegin, TurnAccepted, TurnHear, TurnGiveUp, TurnDone,
       TurnSupply, TurnSend,
         TurnIdle, AnswersStay, AnswersPop
<1>7. \A m \in sending' : m.id <= n
  <2>1. CASE TurnSupply
    BY <1>4, <2>1 DEF TurnSupply
  <2> QED
    BY <1>3, <2>1 DEF ClientTurn, TurnBegin, TurnAccepted, TurnHear, TurnGiveUp,
         TurnDone, TurnSend, TurnIdle
<1>8. host'.state # "awaitingOffer" => host'.id <= n
  BY <1>3 DEF ClientTurn
<1>9. \A i \in 1 .. Len(up') : up'[i].id <= n
  BY <1>3, <1>5, KeptBelow
<1>10. \A i \in 1 .. Len(Answers') : Answers'[i].id <= n
  BY <1>3, <1>6, KeptBelow
<1> QED
  BY <1>7, <1>8, <1>9, <1>10 DEF InPlay, n

(* Nor does a turn of the host. *)
LEMMA InPlayKeptByHost ==
  ASSUME Shape, Turns, HostTurn
  PROVE  InPlay'
<1>1. Offered' = Offered
  BY DEF HostTurn, Offered
<1> DEFINE n == Offered
<1>2. /\ \A i \in 1 .. Len(up) : up[i].id <= n
      /\ \A i \in 1 .. Len(Answers) : Answers[i].id <= n
      /\ \A m \in sending : m.id <= n
      /\ host.state # "awaitingOffer" => host.id <= n
  BY DEF Turns, InPlay
<1> HIDE DEF n
<1>3. up' = up \/ Shorter(up, up')
  BY DEF HostTurn, TurnOpen, TurnRefuse, TurnClose, TurnReport, TurnFinish,
       TurnRest, TurnDeliver,
         UpStays, UpPops
<1>4. UpPops => 1 \in 1 .. Len(up)
  BY DEF UpPops, Shorter
<1>5. \A t : Offer(t).id = t /\ Abort(t).id = t
  BY DEF Offer, Abort
<1>6. /\ host'.state # "awaitingOffer" => host'.id <= n
      /\ Answers' = Answers \/ \E m : Longer(Answers, Answers', m) /\ m.id <= n
  <2>1. CASE TurnOpen
    <3>1. host'.id <= n
      BY <1>2, <1>4, <1>5, <2>1 DEF TurnOpen
    <3> QED
      BY <2>1, <3>1 DEF TurnOpen, AnswersAdd
  <2>2. CASE TurnRefuse
    BY <1>2, <1>4, <1>5, <2>2 DEF TurnRefuse, AnswersAdd
  <2>3. CASE TurnClose
    BY <1>2, <1>5, <2>3 DEF TurnClose, AnswersAdd, AnswersStay
  <2>4. CASE TurnReport
    BY <1>2, <2>4 DEF TurnReport, AnswersAdd, AnswersStay
  <2>5. CASE TurnFinish
    <3>1. host.state # "awaitingOffer" /\ host' = host
      BY <2>5 DEF TurnFinish
    <3>2. Longer(Answers, Answers', [type |-> "complete", id |-> host.id])
      BY <2>5 DEF TurnFinish, AnswersAdd
    <3> QED
      BY <1>2, <3>1, <3>2
  <2>6. CASE TurnRest \/ TurnDeliver
    BY <1>2, <2>6 DEF TurnRest, TurnDeliver, AnswersStay
  <2> QED
    BY <2>1, <2>2, <2>3, <2>4, <2>5, <2>6 DEF HostTurn
<1>7. \A m \in sending' : m.id <= n
  BY <1>2 DEF HostTurn
<1>8. \A i \in 1 .. Len(up') : up'[i].id <= n
  BY <1>2, <1>3, KeptBelow
<1>9. \A i \in 1 .. Len(Answers') : Answers'[i].id <= n
  BY <1>2, <1>6, KeptBelow
<1> QED
  BY <1>1, <1>6, <1>7, <1>8, <1>9 DEF InPlay, n

(***************************************************************************)
(* Offers.                                                                 *)
(***************************************************************************)
LEMMA ApartPopped ==
  ASSUME OffersApart, Shorter(up, up')
  PROVE  OffersApart'
<1> SUFFICES ASSUME NEW i \in 1 .. Len(up'), NEW j \in 1 .. Len(up'), i < j,
                    up'[i].type = "offer", up'[j].type = "offer"
             PROVE  /\ up'[i].id # up'[j].id
                    /\ \E k \in 1 .. Len(up') : i < k /\ k < j
                        /\ up'[k] = Abort(up'[i].id)
  BY DEF OffersApart, Abort
<1>1. /\ i + 1 \in 1 .. Len(up) /\ j + 1 \in 1 .. Len(up) /\ i + 1 < j + 1
      /\ up'[i] = up[i + 1] /\ up'[j] = up[j + 1]
  BY DEF Shorter
<1>2. /\ up[i + 1].id # up[j + 1].id
      /\ \E k \in 1 .. Len(up) : i + 1 < k /\ k < j + 1
          /\ up[k] = Abort(up[i + 1].id)
  BY <1>1 DEF OffersApart
<1>3. PICK k \in 1 .. Len(up) : i + 1 < k /\ k < j + 1
             /\ up[k] = Abort(up[i + 1].id)
  BY <1>2
<1>4. k - 1 \in 1 .. Len(up') /\ i < k - 1 /\ k - 1 < j /\ up'[k - 1] = up[k]
  BY <1>3 DEF Shorter
<1> QED
  BY <1>1, <1>2, <1>3, <1>4

(* A new offer whose predecessors have been withdrawn stays apart from them. *)
LEMMA ApartAppended ==
  ASSUME OffersApart, NEW m, Longer(up, up', m),
         m.type = "offer" => \A i \in 1 .. Len(up) : up[i].type = "offer" =>
            up[i].id # m.id /\ \E k \in 1 .. Len(up) : i < k
                /\ up[k] = Abort(up[i].id)
  PROVE  OffersApart'
<1> SUFFICES ASSUME NEW i \in 1 .. Len(up'), NEW j \in 1 .. Len(up'), i < j,
                    up'[i].type = "offer", up'[j].type = "offer"
             PROVE  /\ up'[i].id # up'[j].id
                    /\ \E k \in 1 .. Len(up') : i < k /\ k < j
                        /\ up'[k] = Abort(up'[i].id)
  BY DEF OffersApart, Abort
<1>1. i \in 1 .. Len(up) /\ up'[i] = up[i]
  BY DEF Longer
<1>2. \A k \in 1 .. Len(up) : k \in 1 .. Len(up') /\ up'[k] = up[k]
        /\ k < Len(up) + 1
  BY DEF Longer
<1>3. CASE j \in 1 .. Len(up)
  <2>0. up'[j] = up[j]
    BY <1>2, <1>3
  <2>1. /\ up[i].id # up[j].id
        /\ \E k \in 1 .. Len(up) : i < k /\ k < j /\ up[k] = Abort(up[i].id)
    BY <1>1, <1>3, <2>0 DEF OffersApart
  <2> QED
    BY <1>1, <1>2, <1>3, <2>1
<1>4. CASE j = Len(up) + 1
  <2>1. up'[j] = m
    BY <1>4 DEF Longer
  <2>2. /\ up[i].id # m.id
        /\ \E k \in 1 .. Len(up) : i < k /\ up[k] = Abort(up[i].id)
    BY <1>1, <2>1
  <2> QED
    BY <1>1, <1>2, <1>4, <2>1, <2>2
<1> QED
  BY <1>3, <1>4 DEF Longer

(* Every turn keeps the offers in the stream apart. *)
LEMMA OffersApartKept ==
  ASSUME Shape, Turns, ClientTurn \/ HostTurn
  PROVE  OffersApart'
<1>0. OffersApart
  BY DEF Turns, Offers
<1>1. CASE TurnBegin /\ ClientTurn
  <2>1. Longer(up, up', Offer(Head(queue))) /\ Offer(Head(queue)).id = Head(queue)
    BY <1>1 DEF TurnBegin, Offer
  <2>2. Offered \in Nat /\ Head(queue) = Offered + 1
    BY <1>1, ClientProgress DEF Shape
  <2>3. \A i \in 1 .. Len(up) : up[i].id # Head(queue)
    BY <2>2, MessageIds DEF Turns, InPlay
  <2>4. \A i \in 1 .. Len(up) : up[i].type = "offer" =>
           \E k \in 1 .. Len(up) : i < k /\ up[k] = Abort(up[i].id)
    BY <1>1 DEF Turns, Offers, OffersOpen, Active, TurnBegin
  <2> QED
    BY <1>0, <2>1, <2>3, <2>4, ApartAppended
<1>2. CASE TurnGiveUp
  <2>1. Abort(Head(queue)).type # "offer"
    BY DEF Abort
  <2> QED
    BY <1>0, <1>2, <2>1, ApartAppended DEF TurnGiveUp
<1>3. CASE TurnSend
  <2>1. \A m \in ChunkMessage : m.type # "offer"
    BY DEF ChunkMessage
  <2> QED
    BY <1>0, <1>3, <2>1, ApartAppended DEF TurnSend
<1>4. CASE Shorter(up, up')
  BY <1>0, <1>4, ApartPopped
<1>5. CASE up' = up
  BY <1>0, <1>5 DEF OffersApart
<1> QED
  BY <1>1, <1>2, <1>3, <1>4, <1>5
  DEF ClientTurn, HostTurn, TurnAccepted, TurnHear, TurnDone, TurnSupply, TurnIdle,
      TurnOpen, TurnRefuse, TurnClose, TurnReport, TurnFinish, TurnRest,
          TurnDeliver, UpStays, UpPops

(* A turn of the client keeps every offer in the stream open or withdrawn. *)
LEMMA OffersOpenKeptByClient ==
  ASSUME Shape, Turns, ClientTurn
  PROVE  OffersOpen'
<1>0. /\ OffersOpen
      /\ \A i \in 1 .. Len(up) : up[i].type = "offer"
          => \A k \in 1 .. Len(Answers) : Answers[k].id # up[i].id
  BY DEF Turns, Offers, OffersFresh
<1> DEFINE Open(i) == \/ Active(up[i].id) /\ client.state = "offering"
                      \/ ~Active(up[i].id) /\ \E k \in 1 .. Len(up) : i < k
                          /\ up[k] = Abort(up[i].id)
           act(t) == client'.state # "idle" /\ t = Head(queue')
           Goal(i) == \/ act(up'[i].id) /\ client'.state = "offering"
                      \/ ~act(up'[i].id) /\ \E k \in 1 .. Len(up') : i < k
                          /\ up'[k] = Abort(up'[i].id)
<1>1. (\A i \in 1 .. Len(up') : up'[i].type = "offer" => Goal(i)) => OffersOpen'
  BY DEF OffersOpen, Active, Abort
<1>2. \A i \in 1 .. Len(up) : up[i].type = "offer" =>
         \/ client.state = "offering" /\ up[i].id = Head(queue)
         \/ /\ ~(client.state # "idle" /\ up[i].id = Head(queue))
            /\ \E k \in 1 .. Len(up) : i < k /\ up[k] = Abort(up[i].id)
  BY <1>0 DEF OffersOpen, Active
<1>3. ASSUME NEW m, Longer(up, up', m), NEW i \in 1 .. Len(up'),
             up'[i].type = "offer"
      PROVE  \/ i = Len(up) + 1 /\ up'[i] = m
             \/ /\ i \in 1 .. Len(up) /\ up'[i] = up[i] /\ up[i].type = "offer"
                /\ (\E k \in 1 .. Len(up) : i < k /\ up[k] = Abort(up[i].id)) =>
                      \E k \in 1 .. Len(up') : i < k /\ up'[k] = Abort(up'[i].id)
                /\ m = Abort(up[i].id) => \E k \in 1 .. Len(up') : i < k
                    /\ up'[k] = Abort(up'[i].id)
  BY <1>3 DEF Longer
<1>4. CASE TurnBegin
  <2>1. Head(queue) = Offered + 1 /\ Offered \in Nat
    BY <1>4, ClientProgress DEF Shape
  <2>2. \A i \in 1 .. Len(up) : up[i].id # Head(queue)
    BY <2>1, MessageIds DEF Turns, InPlay
  <2>3. /\ client'.state = "offering" /\ queue' = queue /\ client.state = "idle"
        /\ Longer(up, up', Offer(Head(queue)))
            /\ Offer(Head(queue)).id = Head(queue)
    BY <1>4 DEF TurnBegin, Offer
  <2>4. \A i \in 1 .. Len(up') : up'[i].type = "offer" => Goal(i)
    <3> TAKE i \in 1 .. Len(up')
    <3> HAVE up'[i].type = "offer"
    <3>1. CASE i = Len(up) + 1 /\ up'[i] = Offer(Head(queue))
      BY <2>3, <3>1
    <3>2. CASE /\ i \in 1 .. Len(up) /\ up'[i] = up[i] /\ up[i].type = "offer"
               /\ (\E k \in 1 .. Len(up) : i < k /\ up[k] = Abort(up[i].id)) =>
                     \E k \in 1 .. Len(up') : i < k /\ up'[k] = Abort(up'[i].id)
      BY <1>2, <2>2, <2>3, <3>2
    <3> QED
      BY <1>3, <2>3, <3>1, <3>2
  <2> QED
    BY <1>1, <2>4
<1>5. CASE TurnAccepted \/ TurnDone
  <2>1. up' = up /\ Answers[1].id = Head(queue) /\ 1 \in 1 .. Len(Answers)
    BY <1>5 DEF TurnAccepted, TurnDone, AnswersPop, Shorter
  <2>2. client'.state # "idle" => client.state # "idle" /\ queue' = queue
    BY <1>5 DEF TurnAccepted, TurnDone
  <2>3. \A i \in 1 .. Len(up) : up[i].type = "offer" => Goal(i)
    BY <1>0, <1>2, <2>1, <2>2
  <2> QED
    BY <1>1, <2>1, <2>3
<1>6. CASE TurnHear \/ TurnSupply \/ TurnIdle
  <2>1. up' = up
    BY <1>6 DEF TurnHear, TurnSupply, TurnIdle
  <2>2. /\ client'.state # "idle" <=> client.state # "idle"
        /\ client.state # "idle" => queue' = queue
        /\ client.state = "offering" => client'.state = "offering"
    BY <1>6 DEF TurnHear, TurnSupply, TurnIdle
  <2>3. \A i \in 1 .. Len(up) : up[i].type = "offer" => Goal(i)
    BY <1>2, <2>1, <2>2
  <2> QED
    BY <1>1, <2>1, <2>3
<1>7. CASE TurnGiveUp
  <2>1. client'.state = "idle" /\ Longer(up, up', Abort(Head(queue)))
          /\ Abort(Head(queue)).type # "offer"
    BY <1>7 DEF TurnGiveUp, Abort
  <2>2. \A i \in 1 .. Len(up') : up'[i].type = "offer" => Goal(i)
    BY <1>2, <1>3, <2>1
  <2> QED
    BY <1>1, <2>2
<1>8. CASE TurnSend
  <2>1. PICK m \in ChunkMessage : Longer(up, up', m)
    BY <1>8 DEF TurnSend
  <2>2. m.type # "offer" /\ client' = client /\ queue' = queue
    BY <1>8 DEF TurnSend, ChunkMessage
  <2>3. \A i \in 1 .. Len(up') : up'[i].type = "offer" => Goal(i)
    BY <1>2, <1>3, <2>1, <2>2
  <2> QED
    BY <1>1, <2>3
<1> QED
  BY <1>4, <1>5, <1>6, <1>7, <1>8 DEF ClientTurn

(* So does a turn of the host. *)
LEMMA OffersOpenKeptByHost ==
  ASSUME OffersOpen, HostTurn
  PROVE  OffersOpen'
<1>1. client' = client /\ queue' = queue /\ (up' = up \/ Shorter(up, up'))
  BY DEF HostTurn, TurnOpen, TurnRefuse, TurnClose, TurnReport, TurnFinish,
       TurnRest, TurnDeliver,
         UpStays, UpPops
<1>2. CASE up' = up
  BY <1>1, <1>2 DEF OffersOpen, Active
<1>3. CASE Shorter(up, up')
  <2>1. ASSUME NEW i \in 1 .. Len(up'), up'[i].type = "offer"
        PROVE  \/ Active(up'[i].id) /\ client.state = "offering"
               \/ ~Active(up'[i].id) /\ \E k \in 1 .. Len(up') : i < k
                   /\ up'[k] = Abort(up'[i].id)
    <3>1. i + 1 \in 1 .. Len(up) /\ up'[i] = up[i + 1]
      BY <1>3 DEF Shorter
    <3>2. \/ Active(up[i + 1].id) /\ client.state = "offering"
          \/ ~Active(up[i + 1].id) /\ \E k \in 1 .. Len(up) : i + 1 < k
              /\ up[k] = Abort(up[i + 1].id)
      BY <2>1, <3>1 DEF OffersOpen
    <3>3. \A k \in 1 .. Len(up) : i + 1 < k => k - 1 \in 1 .. Len(up') /\ i < k - 1
            /\ up'[k - 1] = up[k]
      BY <1>3 DEF Shorter
    <3> QED
      BY <3>1, <3>2, <3>3
  <2> QED
    BY <1>1, <2>1 DEF OffersOpen, Active
<1> QED
  BY <1>1, <1>2, <1>3

(* Every turn keeps the offers in the stream unheard and unanswered. *)
LEMMA OffersFreshKept ==
  ASSUME Shape, Turns, ClientTurn \/ HostTurn
  PROVE  OffersFresh'
<1> DEFINE New(t) == /\ \A i \in 1 .. Len(up') : ~IsChunk(up'[i], t)
                     /\ \A m \in sending' : m.id # t
                     /\ \A k \in 1 .. Len(Answers') : Answers'[k].id # t
<1>1. (\A i \in 1 .. Len(up') : up'[i].type = "offer" => New(up'[i].id))
        => OffersFresh'
  BY DEF OffersFresh, NoChunk, IsChunk
<1>2. \A i \in 1 .. Len(up) : up[i].type = "offer" =>
         /\ \A j \in 1 .. Len(up) : ~IsChunk(up[j], up[i].id)
         /\ \A m \in sending : m.id # up[i].id
         /\ \A k \in 1 .. Len(Answers) : Answers[k].id # up[i].id
  BY DEF Turns, Offers, OffersFresh, NoChunk
\* What neither sends nor answers anything new of an offered transfer.
<1>3. ASSUME up' = up \/ Shorter(up, up') \/ \E m : Longer(up, up', m)
             /\ m.type # "offer" /\ m.type # "chunk",
             sending' = sending,
             Answers' = Answers \/ Shorter(Answers, Answers')
               \/ \E m : /\ Longer(Answers, Answers', m)
                         /\ \A i \in 1 .. Len(up') : up'[i].type = "offer"
                             => m.id # up'[i].id
      PROVE  OffersFresh'
  <2> SUFFICES ASSUME NEW i \in 1 .. Len(up'), up'[i].type = "offer"
                      PROVE New(up'[i].id)
    BY <1>1
  <2>1. PICK j \in 1 .. Len(up) : up'[i] = up[j]
    BY <1>3 DEF Shorter, Longer
  <2>2. \A k \in 1 .. Len(up') : ~IsChunk(up'[k], up'[i].id)
    <3> TAKE k \in 1 .. Len(up')
    <3>1. (\E l \in 1 .. Len(up) : up'[k] = up[l]) \/ up'[k].type # "chunk"
      BY <1>3 DEF Shorter, Longer
    <3> QED
      BY <1>2, <2>1, <3>1 DEF IsChunk
  <2>3. \A m \in sending' : m.id # up'[i].id
    BY <1>2, <1>3, <2>1
  <2>4. \A k \in 1 .. Len(Answers') : Answers'[k].id # up'[i].id
    <3> TAKE k \in 1 .. Len(Answers')
    <3>1. (\E l \in 1 .. Len(Answers) : Answers'[k] = Answers[l])
            \/ Answers'[k].id # up'[i].id
      BY <1>3 DEF Shorter, Longer
    <3> QED
      BY <1>2, <2>1, <3>1
  <2> QED
    BY <2>2, <2>3, <2>4
<1>4. CASE ClientTurn
  <2>1. CASE TurnBegin
    <3>1. Head(queue) = Offered + 1 /\ Offered \in Nat
      BY <1>4, <2>1, ClientProgress DEF Shape
    <3>2. /\ \A i \in 1 .. Len(up) : up[i].id # Head(queue)
          /\ \A i \in 1 .. Len(Answers) : Answers[i].id # Head(queue)
          /\ \A m \in sending : m.id # Head(queue)
      BY <3>1, MessageIds DEF Turns, InPlay
    <3> DEFINE o == Offer(Head(queue))
    <3>3. /\ Longer(up, up', o) /\ o.id = Head(queue) /\ o.type = "offer"
          /\ Answers' = Answers /\ sending' = sending
      BY <2>1 DEF TurnBegin, AnswersStay, Offer
    <3> HIDE DEF o
    <3>4. ASSUME NEW i \in 1 .. Len(up'), up'[i].type = "offer" PROVE New(up'[i].id)
      <4>1. \A k \in 1 .. Len(up') : (k \in 1 .. Len(up) /\ up'[k] = up[k])
              \/ up'[k] = o
        BY <3>3 DEF Longer
      <4>2. CASE up'[i] = o
        BY <3>2, <3>3, <4>1, <4>2 DEF IsChunk
      <4>3. CASE i \in 1 .. Len(up) /\ up'[i] = up[i]
        BY <1>2, <3>3, <3>4, <4>1, <4>3 DEF IsChunk
      <4> QED
        BY <4>1, <4>2, <4>3
    <3> QED
      BY <1>1, <3>4
  <2>2. CASE TurnAccepted \/ TurnHear \/ TurnDone \/ TurnIdle
    BY <1>3, <2>2 DEF TurnAccepted, TurnHear, TurnDone, TurnIdle, AnswersPop,
         AnswersStay
  <2>3. CASE TurnGiveUp
    <3>1. Abort(Head(queue)).type = "abort"
      BY DEF Abort
    <3> QED
      BY <1>3, <2>3, <3>1 DEF TurnGiveUp, AnswersStay
  <2>4. CASE TurnSupply
    <3>1. /\ up' = up /\ Answers' = Answers /\ client.state = "transferring"
          /\ \A m \in sending' : m.id = Head(queue)
      BY <2>4 DEF TurnSupply, AnswersStay
    <3>2. \A i \in 1 .. Len(up) : up[i].type = "offer" => up[i].id # Head(queue)
      BY <3>1 DEF Turns, Offers, OffersOpen, Active
    <3>3. \A i \in 1 .. Len(up) : up[i].type = "offer" => New(up[i].id)
      BY <1>2, <3>1, <3>2
    <3> QED
      BY <1>1, <3>1, <3>3
  <2>5. CASE TurnSend
    <3>1. PICK m \in ChunkMessage : sending = {m} /\ Longer(up, up', m)
      BY <2>5 DEF TurnSend
    <3>2. sending' = {} /\ Answers' = Answers /\ m.type = "chunk"
      BY <2>5 DEF TurnSend, AnswersStay, ChunkMessage
    <3>3. ASSUME NEW i \in 1 .. Len(up'), up'[i].type = "offer" PROVE New(up'[i].id)
      <4>1. \A k \in 1 .. Len(up') : (k \in 1 .. Len(up) /\ up'[k] = up[k])
              \/ up'[k] = m
        BY <3>1 DEF Longer
      <4>2. i \in 1 .. Len(up) /\ up'[i] = up[i]
        BY <3>2, <3>3, <4>1
      <4> QED
        BY <1>2, <3>1, <3>2, <3>3, <4>1, <4>2 DEF IsChunk
    <3> QED
      BY <1>1, <3>3
  <2> QED
    BY <1>4, <2>1, <2>2, <2>3, <2>4, <2>5 DEF ClientTurn
<1>5. CASE HostTurn
  <2>1. sending' = sending /\ (up' = up \/ Shorter(up, up'))
    BY <1>5 DEF HostTurn, TurnOpen, TurnRefuse, TurnClose, TurnReport, TurnFinish,
         TurnRest, TurnDeliver,
         UpStays, UpPops
  <2>2. ASSUME NEW t, UpPops, up[1] = Offer(t), NEW i \in 1 .. Len(up'),
               up'[i].type = "offer"
        PROVE  t # up'[i].id
    <3>1. 1 \in 1 .. Len(up) /\ i + 1 \in 1 .. Len(up) /\ up'[i] = up[i + 1]
            /\ 1 < i + 1
      BY <2>2 DEF UpPops, Shorter
    <3>2. up[1].type = "offer" /\ up[1].id = t
      BY <2>2 DEF Offer
    <3> QED
      BY <2>2, <3>1, <3>2 DEF Turns, Offers, OffersApart
  <2>3. host.state # "awaitingOffer" =>
           \A i \in 1 .. Len(up') : up'[i].type = "offer" => host.id # up'[i].id
    <3> SUFFICES ASSUME host.state # "awaitingOffer", NEW i \in 1 .. Len(up'),
                        up'[i].type = "offer"
                 PROVE  host.id # up'[i].id
      OBVIOUS
    <3>1. \E j \in 1 .. Len(up) : up'[i] = up[j]
      BY <2>1 DEF Shorter
    <3>2. \A j \in 1 .. Len(up) : up[j].type = "offer" => up[j].id # host.id
      BY DEF Turns, Offers, OffersWait
    <3> QED
      BY <3>1, <3>2
  <2>4. \A t : Abort(t).id = t
    BY DEF Abort
  <2>5. Answers' = Answers \/ \E m : /\ Longer(Answers, Answers', m)
                                     /\ \A i \in 1 .. Len(up') : up'[i].type = "offer" => m.id # up'[i].id
    <3>1. CASE TurnOpen
      BY <2>2, <3>1 DEF TurnOpen, AnswersAdd
    <3>2. CASE TurnRefuse
      BY <2>2, <2>4, <3>2 DEF TurnRefuse, AnswersAdd
    <3>3. CASE TurnClose
      BY <2>3, <2>4, <3>3 DEF TurnClose, AnswersAdd, AnswersStay
    <3>4. CASE TurnReport
      BY <2>3, <3>4 DEF TurnReport, AnswersAdd, AnswersStay
    <3>5. CASE TurnFinish
      <4>1. /\ host.state # "awaitingOffer"
            /\ Longer(Answers, Answers', [type |-> "complete", id |-> host.id])
        BY <3>5 DEF TurnFinish, AnswersAdd
      <4> QED
        BY <2>3, <4>1
    <3>6. CASE TurnRest \/ TurnDeliver
      BY <3>6 DEF TurnRest, TurnDeliver, AnswersStay
    <3> QED
      BY <1>5, <3>1, <3>2, <3>3, <3>4, <3>5, <3>6 DEF HostTurn
  <2> QED
    BY <1>3, <2>1, <2>5
<1> QED
  BY <1>4, <1>5

(* Every turn keeps an offer waiting behind the withdrawal of what the host
   still receives. *)
LEMMA OffersWaitKept ==
  ASSUME Shape, Turns, ClientTurn \/ HostTurn
  PROVE  OffersWait'
<1> SUFFICES ASSUME host'.state # "awaitingOffer", NEW i \in 1 .. Len(up'),
                    up'[i].type = "offer"
             PROVE  /\ up'[i].id # host'.id
                    /\ \E k \in 1 .. Len(up') : k < i /\ up'[k] = Abort(host'.id)
  BY DEF OffersWait, Abort
<1>1. ASSUME host.state # "awaitingOffer", NEW j \in 1 .. Len(up),
             up[j].type = "offer"
      PROVE  up[j].id # host.id /\ \E k \in 1 .. Len(up) : k < j
             /\ up[k] = Abort(host.id)
  BY <1>1 DEF Turns, Offers, OffersWait
\* Nothing leaves the head of the stream, and no offer joins it.
<1>2. ASSUME host.state # "awaitingOffer", host'.id = host.id,
             up' = up \/ \E m : Longer(up, up', m) /\ m.type # "offer"
      PROVE  /\ up'[i].id # host'.id
             /\ \E k \in 1 .. Len(up') : k < i /\ up'[k] = Abort(host'.id)
  <2>1. i \in 1 .. Len(up) /\ up'[i] = up[i]
          /\ \A k \in 1 .. Len(up) : k \in 1 .. Len(up') /\ up'[k] = up[k]
    BY <1>2 DEF Longer
  <2> QED
    BY <1>1, <1>2, <2>1
<1>3. CASE ClientTurn
  <2>0. host' = host /\ host.state # "awaitingOffer"
    BY <1>3 DEF ClientTurn
  <2>1. CASE TurnBegin
    <3>1. Head(queue) = Offered + 1 /\ Offered \in Nat
      BY <1>3, <2>1, ClientProgress DEF Shape
    <3>2. host.id # Head(queue)
      BY <2>0, <3>1, MessageIds DEF Turns, InPlay
    <3>3. \E k \in 1 .. Len(up) : up[k] = Abort(host.id)
      BY <2>0, <2>1 DEF Turns, Verdicts, HostWanted, Active, TurnBegin
    <3>4. Longer(up, up', Offer(Head(queue))) /\ Offer(Head(queue)).id = Head(queue)
      BY <2>1 DEF TurnBegin, Offer
    <3>5. \A k \in 1 .. Len(up) : k \in 1 .. Len(up') /\ up'[k] = up[k]
            /\ k < Len(up) + 1
      BY <3>4 DEF Longer
    <3>6. CASE i \in 1 .. Len(up)
      BY <1>1, <2>0, <3>5, <3>6
    <3>7. CASE i = Len(up) + 1
      <4>1. up'[i] = Offer(Head(queue))
        BY <3>4, <3>7 DEF Longer
      <4> QED
        BY <2>0, <3>2, <3>3, <3>4, <3>5, <3>7, <4>1
    <3> QED
      BY <3>4, <3>6, <3>7 DEF Longer
  <2>2. CASE TurnGiveUp
    <3>1. Abort(Head(queue)).type # "offer"
      BY DEF Abort
    <3> QED
      BY <1>2, <2>0, <2>2, <3>1 DEF TurnGiveUp
  <2>3. CASE TurnSend
    <3>1. \A m \in ChunkMessage : m.type # "offer"
      BY DEF ChunkMessage
    <3> QED
      BY <1>2, <2>0, <2>3, <3>1 DEF TurnSend
  <2> QED
    BY <1>2, <1>3, <2>0, <2>1, <2>2, <2>3 DEF ClientTurn, TurnAccepted, TurnHear,
         TurnDone, TurnSupply, TurnIdle
<1>4. CASE HostTurn
  <2>1. CASE TurnOpen
    <3>1. /\ 1 \in 1 .. Len(up) /\ i + 1 \in 1 .. Len(up) /\ 1 < i + 1
             /\ up'[i] = up[i + 1]
          /\ up[1].type = "offer" /\ up[1].id = host'.id
      BY <2>1 DEF TurnOpen, UpPops, Shorter, Offer
    <3>2. /\ up[1].id # up[i + 1].id
          /\ \E k \in 1 .. Len(up) : 1 < k /\ k < i + 1 /\ up[k] = Abort(up[1].id)
      BY <3>1 DEF Turns, Offers, OffersApart
    <3>3. \A k \in 1 .. Len(up) : 1 < k => k - 1 \in 1 .. Len(up')
            /\ up'[k - 1] = up[k]
      BY <2>1 DEF TurnOpen, UpPops, Shorter
    <3> QED
      BY <3>1, <3>2, <3>3
  <2>2. CASE TurnReport
    <3>1. host.state # "awaitingOffer" /\ host'.id = host.id
            /\ (up' = up \/ (UpPops /\ up[1].type = "chunk"))
      BY <2>2 DEF TurnReport, UpStays
    <3>2. CASE UpPops /\ up[1].type = "chunk"
      <4>1. i + 1 \in 1 .. Len(up) /\ up'[i] = up[i + 1]
        BY <3>2 DEF UpPops, Shorter
      <4>2. up[i + 1].id # host.id /\ \E k \in 1 .. Len(up) : k < i + 1
              /\ up[k] = Abort(host.id)
        BY <1>1, <3>1, <4>1
      <4>3. PICK k \in 1 .. Len(up) : k < i + 1 /\ up[k] = Abort(host.id)
        BY <4>2
      <4>4. k # 1
        BY <3>2, <4>3 DEF Abort
      <4>5. k - 1 \in 1 .. Len(up') /\ up'[k - 1] = up[k] /\ k - 1 < i
        BY <3>2, <4>3, <4>4 DEF UpPops, Shorter
      <4> QED
        BY <3>1, <4>1, <4>2, <4>3, <4>5
    <3> QED
      BY <1>2, <3>1, <3>2
  <2>3. CASE TurnFinish \/ TurnDeliver
    BY <1>2, <2>3 DEF TurnFinish, TurnDeliver, UpStays
  <2> QED
    BY <1>4, <2>1, <2>2, <2>3 DEF HostTurn, TurnRefuse, TurnClose, TurnRest
<1> QED
  BY <1>3, <1>4

(* Every turn keeps the host on the file the client offers, or its withdrawal
   on the way. *)
LEMMA HostWantedKept ==
  ASSUME Shape, Turns, ClientTurn \/ HostTurn
  PROVE  HostWanted'
<1> SUFFICES ASSUME host'.state # "awaitingOffer"
             PROVE  \/ client'.state # "idle" /\ host'.id = Head(queue')
                    \/ \E k \in 1 .. Len(up') : up'[k] = Abort(host'.id)
  BY DEF HostWanted, Active, Abort
<1>1. host.state # "awaitingOffer" =>
         \/ client.state # "idle" /\ host.id = Head(queue)
         \/ \E k \in 1 .. Len(up) : up[k] = Abort(host.id)
  BY DEF Turns, Verdicts, HostWanted, Active
<1>2. CASE ClientTurn
  <2>0. host' = host /\ host.state # "awaitingOffer"
    BY <1>2 DEF ClientTurn
  <2>1. (up' = up \/ \E m : Longer(up, up', m)) =>
           \A k \in 1 .. Len(up) : k \in 1 .. Len(up') /\ up'[k] = up[k]
    BY DEF Longer
  <2>2. CASE TurnGiveUp
    <3>1. Len(up) + 1 \in 1 .. Len(up') /\ up'[Len(up) + 1] = Abort(Head(queue))
      BY <2>2 DEF TurnGiveUp, Longer
    <3>2. \E m : Longer(up, up', m)
      BY <2>2 DEF TurnGiveUp
    <3> QED
      BY <1>1, <2>0, <2>1, <3>1, <3>2
  <2>3. CASE TurnDone
    <3>1. /\ up' = up /\ Answers[1].id = Head(queue) /\ IsFinal(Answers[1])
          /\ 1 \in 1 .. Len(Answers) /\ ~(1 > Len(down))
      BY <2>3 DEF TurnDone, AnswersPop, Shorter
    <3>2. host.id # Head(queue)
      BY <2>0, <3>1 DEF Turns, Verdicts, VerdictsLast, Hosting
    <3> QED
      BY <1>1, <2>0, <3>1, <3>2
  <2>4. CASE TurnBegin \/ TurnAccepted \/ TurnHear \/ TurnSupply \/ TurnSend
               \/ TurnIdle
    <3>1. up' = up \/ \E m : Longer(up, up', m)
      BY <2>4 DEF TurnBegin, TurnAccepted, TurnHear, TurnSupply, TurnSend, TurnIdle
    <3>2. client.state # "idle" => client'.state # "idle" /\ queue' = queue
      BY <2>4 DEF TurnBegin, TurnAccepted, TurnHear, TurnSupply, TurnSend, TurnIdle
    <3> QED
      BY <1>1, <2>0, <2>1, <3>1, <3>2
  <2> QED
    BY <1>2, <2>2, <2>3, <2>4 DEF ClientTurn
<1>3. CASE HostTurn
  <2>0. client' = client /\ queue' = queue
    BY <1>3 DEF HostTurn
  <2>1. CASE TurnOpen
    <3>1. /\ 1 \in 1 .. Len(up) /\ up[1].type = "offer" /\ up[1].id = host'.id
          /\ \A k \in 1 .. Len(up) : 1 < k => k - 1 \in 1 .. Len(up')
              /\ up'[k - 1] = up[k]
      BY <2>1 DEF TurnOpen, UpPops, Shorter, Offer
    <3>2. \/ client.state # "idle" /\ host'.id = Head(queue)
          \/ \E k \in 1 .. Len(up) : 1 < k /\ up[k] = Abort(host'.id)
      BY <3>1 DEF Turns, Offers, OffersOpen, Active
    <3> QED
      BY <2>0, <3>1, <3>2
  <2>2. CASE TurnReport
    <3>1. host.state # "awaitingOffer" /\ host'.id = host.id
            /\ (up' = up \/ (UpPops /\ up[1].type = "chunk"))
      BY <2>2 DEF TurnReport, UpStays
    <3>2. UpPops => \A k \in 1 .. Len(up) : 1 # k => k - 1 \in 1 .. Len(up')
            /\ up'[k - 1] = up[k]
      BY DEF UpPops, Shorter
    <3>3. Abort(host.id).type = "abort"
      BY DEF Abort
    <3> QED
      BY <1>1, <2>0, <3>1, <3>2, <3>3
  <2>3. CASE TurnFinish \/ TurnDeliver
    BY <1>1, <2>0, <2>3 DEF TurnFinish, TurnDeliver, UpStays
  <2> QED
    BY <1>3, <2>1, <2>2, <2>3 DEF HostTurn, TurnRefuse, TurnClose, TurnRest
<1> QED
  BY <1>2, <1>3

(* Every turn keeps a verdict the last word on its transfer. *)
LEMMA VerdictsLastKept ==
  ASSUME Shape, Turns, ClientTurn \/ HostTurn
  PROVE  VerdictsLast'
<1> SUFFICES ASSUME NEW i \in 1 .. Len(Answers'), IsFinal(Answers'[i]),
                    host'.state # "awaitingOffer", host'.id = Answers'[i].id
             PROVE  todo' = <<Do("link", Answers'[i].id)>> /\ i > Len(down')
  BY DEF VerdictsLast, Hosting, IsFinal, Do
<1>1. ASSUME NEW j \in 1 .. Len(Answers), IsFinal(Answers[j]),
             host.state # "awaitingOffer", host.id = Answers[j].id
      PROVE  todo = <<Do("link", Answers[j].id)>> /\ j > Len(down)
  BY <1>1 DEF Turns, Verdicts, VerdictsLast, Hosting
<1>2. CASE ClientTurn
  <2>1. host' = host /\ todo' = todo /\ (AnswersStay \/ AnswersPop)
    BY <1>2 DEF ClientTurn, TurnBegin, TurnAccepted, TurnHear, TurnGiveUp,
         TurnDone, TurnSupply, TurnSend, TurnIdle
  <2>2. CASE AnswersStay
    BY <1>1, <2>1, <2>2 DEF AnswersStay
  <2>3. CASE AnswersPop
    <3>1. /\ i + 1 \in 1 .. Len(Answers) /\ Answers'[i] = Answers[i + 1]
          /\ Len(down) \in Nat /\ Len(down') = Len(down) - 1 /\ i \in Nat
      BY <2>3 DEF AnswersPop, Shorter
    <3>2. todo = <<Do("link", Answers[i + 1].id)>> /\ i + 1 > Len(down)
      BY <1>1, <2>1, <3>1
    <3> QED
      BY <2>1, <3>1, <3>2
  <2> QED
    BY <2>1, <2>2, <2>3
<1>3. CASE HostTurn
  <2>1. CASE TurnOpen
    <3>1. /\ 1 \in 1 .. Len(up) /\ up[1].type = "offer" /\ up[1].id = host'.id
      BY <2>1 DEF TurnOpen, UpPops, Shorter, Offer
    <3>2. \A k \in 1 .. Len(Answers) : Answers[k].id # host'.id
      BY <3>1 DEF Turns, Offers, OffersFresh
    <3>3. PICK a : a.type = "accept" /\ Longer(Answers, Answers', a)
      BY <2>1 DEF TurnOpen, AnswersAdd
    <3> QED
      BY <3>2, <3>3 DEF Longer, IsFinal
  <2>2. CASE TurnReport
    <3>1. /\ host.state # "awaitingOffer" /\ host'.id = host.id
             /\ \A t : todo # <<Do("link", t)>>
          /\ Answers' = Answers \/ \E a : a.type = "ack"
              /\ Longer(Answers, Answers', a)
      BY <2>2 DEF TurnReport, AnswersAdd, AnswersStay
    <3>2. i \in 1 .. Len(Answers) /\ Answers'[i] = Answers[i]
      BY <3>1 DEF Longer, IsFinal
    <3> QED
      BY <1>1, <3>1, <3>2
  <2>3. CASE TurnFinish
    <3> DEFINE f == [type |-> "complete", id |-> host.id]
    <3>1. /\ host.state # "awaitingOffer" /\ host' = host
             /\ \A t : todo # <<Do("link", t)>>
          /\ todo' = <<Do("link", host.id)>> /\ down' = down
              /\ Longer(Answers, Answers', f) /\ f.id = host.id
      BY <2>3 DEF TurnFinish, AnswersAdd
    <3> HIDE DEF f
    <3>2. Len(Answers) >= Len(down) /\ Len(Answers) \in Nat /\ Len(down) \in Nat
      BY AnswersAre DEF Shape
    <3>3. CASE i = Len(Answers) + 1
      BY <3>1, <3>2, <3>3 DEF Longer
    <3>4. CASE i \in 1 .. Len(Answers)
      BY <1>1, <3>1, <3>4 DEF Longer
    <3> QED
      BY <3>1, <3>3, <3>4 DEF Longer
  <2>4. CASE TurnDeliver
    <3>1. host' = host /\ Answers' = Answers /\ todo = <<>>
      BY <2>4 DEF TurnDeliver
    <3>2. todo # <<Do("link", Answers[i].id)>>
      BY <3>1
    <3> QED
      BY <1>1, <3>1, <3>2
  <2> QED
    BY <1>3, <2>1, <2>2, <2>3, <2>4 DEF HostTurn, TurnRefuse, TurnClose, TurnRest
<1> QED
  BY <1>2, <1>3

(* Every turn keeps the acceptance of a transfer single. *)
LEMMA AcceptsOnceKept ==
  ASSUME Shape, Turns, ClientTurn \/ HostTurn
  PROVE  AcceptsOnce'
<1> DEFINE Accept(m, t) == m.type = "accept" /\ m.id = t
<1> SUFFICES ASSUME NEW i \in 1 .. Len(Answers'), NEW t, Accept(Answers'[i], t)
             PROVE  /\ client'.state # "idle" /\ t = Head(queue')
                       => client'.state = "offering"
                    /\ \A j \in 1 .. Len(Answers') : Accept(Answers'[j], t) => j = i
  BY DEF AcceptsOnce, Active
<1>1. ASSUME NEW j \in 1 .. Len(Answers), Accept(Answers[j], t)
      PROVE  /\ client.state # "idle" /\ t = Head(queue)
                => client.state = "offering"
             /\ \A k \in 1 .. Len(Answers) : Accept(Answers[k], t) => k = j
  BY <1>1 DEF Turns, Accepts, AcceptsOnce, Active
<1> HIDE DEF Accept
\* Each acceptance still under way was, and no two have become one.
<1>2. ASSUME \/ Answers' = Answers \/ Shorter(Answers, Answers')
             \/ \E m : Longer(Answers, Answers', m) /\ ~Accept(m, t)
      PROVE  /\ \E j \in 1 .. Len(Answers) : Accept(Answers[j], t)
                /\ (Shorter(Answers, Answers') => j # 1)
             /\ \A j \in 1 .. Len(Answers') : Accept(Answers'[j], t) => j = i
  <2>1. CASE Answers' = Answers
    <3>1. ~Shorter(Answers, Answers')
      BY <2>1 DEF Shorter
    <3> QED
      BY <1>1, <2>1, <3>1
  <2>2. CASE Shorter(Answers, Answers')
    <3>1. \A j \in 1 .. Len(Answers') : j + 1 \in 1 .. Len(Answers)
            /\ Answers'[j] = Answers[j + 1] /\ j + 1 # 1 /\ j \in Int
      BY <2>2 DEF Shorter
    <3>2. i + 1 \in 1 .. Len(Answers) /\ Accept(Answers[i + 1], t) /\ i + 1 # 1
            /\ i \in Int
      BY <3>1
    <3>3. \A j \in 1 .. Len(Answers') : Accept(Answers'[j], t) => j + 1 = i + 1
      BY <1>1, <3>1, <3>2
    <3>4. \A j \in 1 .. Len(Answers') : Accept(Answers'[j], t) => j = i
      BY <3>1, <3>2, <3>3
    <3> QED
      BY <3>2, <3>4
  <2>3. ASSUME NEW m, Longer(Answers, Answers', m), ~Accept(m, t)
        PROVE  /\ \E j \in 1 .. Len(Answers) : Accept(Answers[j], t)
                  /\ (Shorter(Answers, Answers') => j # 1)
               /\ \A j \in 1 .. Len(Answers') : Accept(Answers'[j], t) => j = i
    <3>1. \A j \in 1 .. Len(Answers') : Accept(Answers'[j], t)
            => j \in 1 .. Len(Answers) /\ Answers'[j] = Answers[j]
      BY <2>3 DEF Longer
    <3>2. ~Shorter(Answers, Answers')
      BY <2>3 DEF Longer, Shorter
    <3> QED
      BY <1>1, <3>1, <3>2
  <2> QED
    BY <1>2, <2>1, <2>2, <2>3
<1>3. CASE ClientTurn
  <2>0. \/ Answers' = Answers \/ Shorter(Answers, Answers')
    BY <1>3 DEF ClientTurn, TurnBegin, TurnAccepted, TurnHear, TurnGiveUp,
         TurnDone, TurnSupply, TurnSend,
           TurnIdle, AnswersStay, AnswersPop
  <2>1. PICK j \in 1 .. Len(Answers) : Accept(Answers[j], t)
               /\ (Shorter(Answers, Answers') => j # 1)
    BY <1>2, <2>0
  <2>2. client.state # "idle" /\ t = Head(queue) => client.state = "offering"
    BY <1>1, <2>1
  <2>3. client'.state # "idle" /\ t = Head(queue') => client'.state = "offering"
    <3>1. CASE TurnAccepted
      <4>1. t = Head(queue) => Accept(Answers[1], t)
        BY <3>1 DEF TurnAccepted, Accept
      <4>2. Shorter(Answers, Answers') /\ queue' = queue
        BY <3>1 DEF TurnAccepted, AnswersPop
      <4>3. 1 \in 1 .. Len(Answers)
        BY <4>2 DEF Shorter
      <4>4. t # Head(queue)
        BY <1>1, <2>1, <4>1, <4>2, <4>3
      <4> QED
        BY <4>2, <4>4
    <3>2. CASE TurnHear
      BY <2>2, <3>2 DEF TurnHear
    <3> QED
      BY <1>3, <2>2, <3>1, <3>2 DEF ClientTurn, TurnBegin, TurnGiveUp, TurnDone,
           TurnSupply, TurnSend, TurnIdle
  <2> QED
    BY <1>2, <2>0, <2>3
<1>4. CASE HostTurn
  <2>0. client' = client /\ queue' = queue
    BY <1>4 DEF HostTurn
  <2>1. CASE TurnOpen
    <3>1. PICK a : a.type = "accept" /\ a.id = host'.id
                 /\ Longer(Answers, Answers', a)
      BY <2>1 DEF TurnOpen, AnswersAdd
    <3>2. CASE t = host'.id
      <4>1. /\ 1 \in 1 .. Len(up) /\ up[1].type = "offer" /\ up[1].id = t
        BY <2>1, <3>2 DEF TurnOpen, UpPops, Shorter, Offer
      <4>2. \A k \in 1 .. Len(Answers) : Answers[k].id # t
        BY <4>1 DEF Turns, Offers, OffersFresh
      <4>3. client.state # "idle" /\ t = Head(queue) => client.state = "offering"
        BY <4>1 DEF Turns, Offers, OffersOpen, Active
      <4>4. \A k \in 1 .. Len(Answers) : Answers'[k] = Answers[k]
        BY <3>1 DEF Longer
      <4>5. \A j \in 1 .. Len(Answers') : Accept(Answers'[j], t)
              => j = Len(Answers) + 1
        <5> TAKE j \in 1 .. Len(Answers')
        <5>1. j \in 1 .. Len(Answers) \/ j = Len(Answers) + 1
          BY <3>1 DEF Longer
        <5> QED
          BY <4>2, <4>4, <5>1 DEF Accept
      <4> QED
        BY <2>0, <4>3, <4>5
    <3>3. CASE t # host'.id
      <4>1. ~Accept(a, t)
        BY <3>1, <3>3 DEF Accept
      <4> QED
        BY <1>1, <1>2, <2>0, <3>1, <4>1
    <3> QED
      BY <3>2, <3>3
  <2>2. CASE TurnRefuse \/ TurnClose \/ TurnReport \/ TurnFinish \/ TurnRest
               \/ TurnDeliver
    <3>0. \A x : Abort(x).type # "accept"
            /\ [type |-> "complete", id |-> x].type # "accept"
      BY DEF Abort
    <3>1. Answers' = Answers \/ \E m : Longer(Answers, Answers', m)
            /\ m.type # "accept"
      <4>1. CASE TurnRefuse \/ TurnClose
        BY <3>0, <4>1 DEF TurnRefuse, TurnClose, AnswersStay, AnswersAdd
      <4>2. CASE TurnReport
        BY <4>2 DEF TurnReport, AnswersStay, AnswersAdd
      <4>3. CASE TurnFinish
        BY <3>0, <4>3, Zenon DEF TurnFinish, AnswersAdd
      <4>4. CASE TurnRest \/ TurnDeliver
        BY <4>4 DEF TurnRest, TurnDeliver, AnswersStay
      <4> QED
        BY <2>2, <4>1, <4>2, <4>3, <4>4
    <3>2. Answers' = Answers \/ \E m : Longer(Answers, Answers', m) /\ ~Accept(m, t)
      BY <3>1 DEF Accept
    <3> QED
      BY <1>1, <1>2, <2>0, <3>2
  <2> QED
    BY <1>4, <2>1, <2>2 DEF HostTurn
<1> QED
  BY <1>3, <1>4

(***************************************************************************)
(* The host's answers to the transfer the client offers: what it has said  *)
(* since began with an accept, and reported nothing yet.                   *)
(***************************************************************************)
LEMMA OfferingQuietKept ==
  ASSUME Shape, Turns, ClientTurn \/ HostTurn
  PROVE  OfferingQuiet'
<1> DEFINE t == Head(queue')
           Accept(m) == m.type = "accept" /\ m.id = t
           Quiet(a) == \A i \in 1 .. Len(a) : a[i].id = t =>
                          /\ a[i].type # "ack"
                          /\ a[i].type = "complete" => \E j \in 1 .. Len(a) : j < i
                              /\ Accept(a[j])
           Clear(u, s) == (\A i \in 1 .. Len(u) : ~IsChunk(u[i], t))
               /\ \A m \in s : m.id # t
           Mine(h, d, a) == h.state # "awaitingOffer" /\ h.id = t =>
                               /\ h.held = h.start
                               /\ h.state = "receiving" => d = <<>>
                               /\ \E j \in 1 .. Len(a) : Accept(a[j])
<1>1. Clear(up', sending') /\ Mine(host', todo', Answers') /\ Quiet(Answers')
        => OfferingQuiet'
  BY DEF OfferingQuiet, NoChunk, Hosting, IsChunk
<1>2. client.state = "offering" /\ queue' = queue =>
         Clear(up, sending) /\ Mine(host, todo, Answers) /\ Quiet(Answers)
  BY DEF Turns, Accepts, OfferingQuiet, NoChunk, Hosting, IsChunk
<1>3. ASSUME NEW a, NEW b, NEW m, Quiet(a), Longer(a, b, m),
             m.id = t => /\ m.type # "ack"
                         /\ m.type = "complete"
                             => \E j \in 1 .. Len(a) : Accept(a[j])
      PROVE  Quiet(b)
  <2> SUFFICES ASSUME NEW i \in 1 .. Len(b), b[i].id = t
               PROVE  /\ b[i].type # "ack"
                      /\ b[i].type = "complete" => \E j \in 1 .. Len(b) : j < i
                          /\ Accept(b[j])
    OBVIOUS
  <2>1. \A j \in 1 .. Len(a) : j \in 1 .. Len(b) /\ b[j] = a[j] /\ j < Len(a) + 1
    BY <1>3 DEF Longer
  <2>2. CASE i \in 1 .. Len(a)
    BY <1>3, <2>1, <2>2
  <2>3. CASE i = Len(a) + 1
    <3>1. b[i] = m
      BY <1>3, <2>3 DEF Longer
    <3> QED
      BY <1>3, <2>1, <2>3, <3>1
  <2> QED
    BY <1>3, <2>2, <2>3 DEF Longer
<1>4. ASSUME NEW a, NEW b, NEW m, Longer(a, b, m),
             \E j \in 1 .. Len(a) : Accept(a[j])
      PROVE  \E j \in 1 .. Len(b) : Accept(b[j])
  BY <1>4 DEF Longer
<1>5. ASSUME NEW u, NEW s, Clear(u, s), up' = u \/ Shorter(u, up')
             \/ \E m : Longer(u, up', m) /\ ~IsChunk(m, t),
             \A m \in sending' : m \in s \/ m.id # t
      PROVE  Clear(up', sending')
  <2>1. \A i \in 1 .. Len(up') : ~IsChunk(up'[i], t)
    <3> TAKE i \in 1 .. Len(up')
    <3>1. (\E l \in 1 .. Len(u) : up'[i] = u[l]) \/ ~IsChunk(up'[i], t)
      BY <1>5 DEF Shorter, Longer
    <3> QED
      BY <1>5, <3>1
  <2> QED
    BY <1>5, <2>1
<1>6. CASE client'.state # "offering"
  BY <1>6 DEF OfferingQuiet
<1>7. CASE ClientTurn /\ client'.state = "offering"
  <2>0. host' = host /\ todo' = todo
          /\ (TurnBegin \/ (client.state = "offering" /\ queue' = queue))
    BY <1>7, ClientProgress DEF Shape, ClientTurn
  <2>1. CASE TurnBegin
    <3>1. Head(queue) = Offered + 1 /\ Offered \in Nat /\ queue' = queue
      BY <1>7, <2>1, ClientProgress DEF Shape, TurnBegin
    <3>2. /\ \A i \in 1 .. Len(up) : up[i].id # t
          /\ \A i \in 1 .. Len(Answers) : Answers[i].id # t
          /\ \A m \in sending : m.id # t
          /\ host.state # "awaitingOffer" => host.id # t
      BY <3>1, MessageIds DEF Turns, InPlay
    <3>3. Clear(up, sending) /\ Mine(host, todo, Answers) /\ Quiet(Answers)
      BY <3>2 DEF IsChunk
    <3>4. Offer(Head(queue)).type # "chunk"
      BY DEF Offer
    <3>5. Longer(up, up', Offer(Head(queue))) /\ sending' = sending
            /\ Answers' = Answers
      BY <2>1 DEF TurnBegin, AnswersStay
    <3>6. ~IsChunk(Offer(Head(queue)), t)
      BY <3>4 DEF IsChunk
    <3> HIDE DEF Mine, Quiet, Clear
    <3>7. Clear(up', sending')
      BY <1>5, <3>3, <3>5, <3>6
    <3> QED
      BY <1>1, <2>0, <3>3, <3>5, <3>7
  <2>2. CASE ~TurnBegin
    <3>1. client.state = "offering" /\ queue' = queue /\ Clear(up, sending)
            /\ Mine(host, todo, Answers) /\ Quiet(Answers)
      BY <1>2, <2>0, <2>2
    <3>2. TurnHear \/ TurnSend \/ TurnIdle
      BY <1>7, <2>2, <3>1 DEF ClientTurn, TurnAccepted, TurnGiveUp, TurnDone,
           TurnSupply
    <3>3. Clear(up', sending')
      <4>1. \A m \in sending : ~IsChunk(m, t)
        BY <3>1 DEF IsChunk
      <4>2. up' = up \/ Shorter(up, up') \/ \E m : Longer(up, up', m)
              /\ ~IsChunk(m, t)
        BY <3>2, <4>1 DEF TurnHear, TurnSend, TurnIdle
      <4>3. \A m \in sending' : m \in sending
        BY <3>2 DEF TurnHear, TurnSend, TurnIdle
      <4> QED
        BY <1>5, <3>1, <4>2, <4>3
    <3>4. CASE TurnHear
      <4>1. Answers[1].id # t /\ Shorter(Answers, Answers')
        BY <3>1, <3>4 DEF TurnHear, AnswersPop
      <4>2. \A j \in 1 .. Len(Answers) : Answers[j].id = t
              => j - 1 \in 1 .. Len(Answers') /\ Answers'[j - 1] = Answers[j]
        BY <4>1 DEF Shorter
      <4>3. Mine(host', todo', Answers')
        BY <2>0, <3>1, <4>2
      <4>4. Quiet(Answers')
        <5> SUFFICES ASSUME NEW i \in 1 .. Len(Answers'), Answers'[i].id = t
                     PROVE  /\ Answers'[i].type # "ack"
                            /\ Answers'[i].type = "complete" =>
                                  \E j \in 1 .. Len(Answers') : j < i
                                      /\ Accept(Answers'[j])
          OBVIOUS
        <5>1. i + 1 \in 1 .. Len(Answers) /\ Answers'[i] = Answers[i + 1]
          BY <4>1 DEF Shorter
        <5>2. /\ Answers[i + 1].type # "ack"
              /\ Answers[i + 1].type = "complete" =>
                    \E j \in 1 .. Len(Answers) : j < i + 1 /\ Accept(Answers[j])
          BY <3>1, <5>1
        <5> QED
          BY <4>2, <5>1, <5>2
      <4> QED
        BY <1>1, <3>3, <4>3, <4>4
    <3>5. CASE TurnSend \/ TurnIdle
      <4>1. Answers' = Answers
        BY <3>5 DEF TurnSend, TurnIdle, AnswersStay
      <4> QED
        BY <1>1, <2>0, <3>1, <3>3, <4>1
    <3> QED
      BY <3>2, <3>4, <3>5
  <2> QED
    BY <2>1, <2>2
<1>8. CASE HostTurn /\ client'.state = "offering"
  <2>0. client.state = "offering" /\ queue' = queue /\ sending' = sending
    BY <1>8 DEF HostTurn
  <2>1. Clear(up, sending) /\ Mine(host, todo, Answers) /\ Quiet(Answers)
    BY <1>2, <2>0
  <2>2. up' = up \/ Shorter(up, up')
    BY <1>8 DEF HostTurn, TurnOpen, TurnRefuse, TurnClose, TurnReport, TurnFinish,
         TurnRest, TurnDeliver,
           UpStays, UpPops
  <2>3. Clear(up', sending')
    BY <1>5, <2>0, <2>1, <2>2
  <2> HIDE DEF Clear, Quiet
  <2>4. CASE TurnOpen
    <3>1. PICK a : a.type = "accept" /\ a.id = host'.id
                 /\ Longer(Answers, Answers', a)
      BY <2>4 DEF TurnOpen, AnswersAdd
    <3>2. Quiet(Answers')
      BY <1>3, <2>1, <3>1
    <3>3. Len(Answers) + 1 \in 1 .. Len(Answers') /\ Answers'[Len(Answers) + 1] = a
      BY <3>1 DEF Longer
    <3>4. Mine(host', todo', Answers')
      BY <2>4, <3>1, <3>3 DEF TurnOpen
    <3> QED
      BY <1>1, <2>3, <3>2, <3>4
  <2>5. CASE TurnRefuse \/ TurnClose \/ TurnRest
    <3>1. Mine(host', todo', Answers')
      BY <2>5 DEF TurnRefuse, TurnClose, TurnRest
    <3>0. \A x : Abort(x).type = "abort"
      BY DEF Abort
    <3>2. Answers' = Answers \/ \E m : Longer(Answers, Answers', m)
            /\ m.type = "abort"
      BY <2>5, <3>0 DEF TurnRefuse, TurnClose, TurnRest, AnswersAdd, AnswersStay
    <3>3. Quiet(Answers')
      BY <1>3, <2>1, <3>2
    <3> QED
      BY <1>1, <2>3, <3>1, <3>3
  <2>6. CASE TurnReport
    <3>1. host'.id # t /\ host.id # t
      BY <2>0, <2>6 DEF TurnReport
    <3>2. Answers' = Answers \/ \E m : Longer(Answers, Answers', m)
            /\ m.id = host.id
      BY <2>6 DEF TurnReport, AnswersAdd, AnswersStay
    <3>3. Quiet(Answers')
      BY <1>3, <2>1, <3>1, <3>2
    <3> QED
      BY <1>1, <2>3, <3>1, <3>3
  <2>7. CASE TurnFinish
    <3> DEFINE f == [type |-> "complete", id |-> host.id]
    <3>1. /\ host.state = "verifying" /\ host' = host
             /\ Longer(Answers, Answers', f) /\ f.id = host.id
                 /\ f.type = "complete"
      BY <2>7 DEF TurnFinish, AnswersAdd
    <3> HIDE DEF f
    <3>2. f.id = t => \E j \in 1 .. Len(Answers) : Accept(Answers[j])
      BY <2>1, <3>1
    <3>3. Quiet(Answers')
      BY <1>3, <2>1, <3>1, <3>2
    <3>4. Mine(host', todo', Answers')
      BY <1>4, <2>1, <3>1
    <3> QED
      BY <1>1, <2>3, <3>3, <3>4
  <2>8. CASE TurnDeliver
    <3>1. host' = host /\ todo' = todo /\ Answers' = Answers
      BY <2>8 DEF TurnDeliver
    <3> QED
      BY <1>1, <2>1, <2>3, <3>1
  <2> QED
    BY <1>8, <2>4, <2>5, <2>6, <2>7, <2>8 DEF HostTurn
<1> QED
  BY <1>6, <1>7, <1>8

(* The end of a session empties the streams, and nothing is left to order. *)
LEMMA SessionTurns ==
  ASSUME up' = <<>>, down' = <<>>, replies' = <<>>, sending' = {},
         client'.state = "idle",
         host'.state = "awaitingOffer", todo' = <<>>
  PROVE  Turns'
<1>1. Answers' = <<>> /\ Len(Answers') = 0 /\ Len(up') = 0
  BY DEF Answers
<1>2. InPlay'
  BY <1>1 DEF InPlay
<1>3. Offers'
  BY <1>1 DEF Offers, OffersApart, OffersOpen, OffersFresh, OffersWait
<1>4. Verdicts'
  BY <1>1 DEF Verdicts, HostWanted, VerdictsLast
<1>5. Accepts'
  BY <1>1 DEF Accepts, AcceptsOnce, OfferingQuiet
<1> QED
  BY <1>2, <1>3, <1>4, <1>5 DEF Turns

(* Every step keeps the turns of the conversation. *)
LEMMA TurnsKept ==
  ASSUME Shape, Turns, BulkNext
  PROVE  Turns'
<1>1. CASE SessionEnds \/ HostCrashes
  <2>1. \E left : NextSession(left)
    BY <1>1 DEF SessionEnds, HostCrashes
  <2>2. /\ up' = <<>> /\ down' = <<>> /\ replies' = <<>> /\ sending' = {}
           /\ client'.state = "idle"
        /\ host'.state = "awaitingOffer" /\ todo' = <<>>
    BY <2>1 DEF NextSession, NoShell, Rearmed
  <2> QED
    BY <2>2, SessionTurns
<1>2. CASE ~(SessionEnds \/ HostCrashes)
  <2>1. ClientTurn \/ HostTurn
    BY <1>2, ClientTurns, HostTurns DEF BulkNext, ClientSteps, Disturbances
  <2>2. InPlay'
    BY <2>1, InPlayKeptByClient, InPlayKeptByHost
  <2>3. OffersOpen'
    BY <2>1, OffersOpenKeptByClient, OffersOpenKeptByHost DEF Turns, Offers
  <2>4. OffersApart' /\ OffersFresh' /\ OffersWait'
    BY <2>1, OffersApartKept, OffersFreshKept, OffersWaitKept
  <2>5. HostWanted' /\ VerdictsLast'
    BY <2>1, HostWantedKept, VerdictsLastKept
  <2>6. AcceptsOnce' /\ OfferingQuiet'
    BY <2>1, AcceptsOnceKept, OfferingQuietKept
  <2> QED
    BY <2>2, <2>3, <2>4, <2>5, <2>6 DEF Turns, Offers, Verdicts, Accepts
<1> QED
  BY <1>1, <1>2

(***************************************************************************)
(* Sets of chunks.                                                         *)
(***************************************************************************)
LEMMA ChunkSets ==
  /\ IsFiniteSet(Chunks)
  /\ \A S \in SUBSET Chunks : IsFiniteSet(S) /\ Cardinality(S) \in Nat
  /\ \A S \in SUBSET Chunks : \A T \in SUBSET S : Cardinality(T) <= Cardinality(S)
<1>1. N \in Nat
  BY BulkAssumption
<1>2. IsFiniteSet(Chunks)
  BY <1>1, FS_Interval DEF Chunks
<1>3. \A S \in SUBSET Chunks : IsFiniteSet(S) /\ Cardinality(S) \in Nat
  BY <1>2, FS_Subset, FS_CardinalityType
<1>4. ASSUME NEW S \in SUBSET Chunks, NEW T \in SUBSET S
             PROVE Cardinality(T) <= Cardinality(S)
  BY <1>3, FS_Subset
<1> QED
  BY <1>2, <1>3, <1>4

(* A set of chunks with a new one has one more. *)
LEMMA OneMoreChunk ==
  ASSUME NEW S \in SUBSET Chunks, NEW c \in Chunks, c \notin S
  PROVE  Cardinality(S \cup {c}) = Cardinality(S) + 1 /\ S
         \cup {c} \in SUBSET Chunks
BY ChunkSets, FS_AddElement

(* Two sets of chunks together have no more than the sum. *)
LEMMA MoreChunks ==
  ASSUME NEW S \in SUBSET Chunks, NEW T \in SUBSET Chunks
  PROVE  S \cup T \in SUBSET Chunks
         /\ Cardinality(S \cup T) <= Cardinality(S) + Cardinality(T)
<1>1. /\ IsFiniteSet(S) /\ IsFiniteSet(T) /\ Cardinality(S) \in Nat
         /\ Cardinality(T) \in Nat
      /\ Cardinality(S \cap T) \in Nat
  BY ChunkSets
<1>2. Cardinality(S \cup T) = (Cardinality(S) + Cardinality(T)) - Cardinality(S \cap T)
  BY <1>1, FS_Union
<1> QED
  BY <1>1, <1>2

(***************************************************************************)
(* The chunks under way, as messages join the stream and leave it.         *)
(***************************************************************************)
LEMMA OtherJoins ==
  ASSUME NEW u, NEW v, NEW s, NEW t, NEW m, Longer(u, v, m), ~IsChunk(m, t)
  PROVE  ChunksOf(v, s, t) = ChunksOf(u, s, t) /\ (Once(u, s, t) => Once(v, s, t))
<1>1. \A i \in 1 .. Len(v) : IsChunk(v[i], t) => i \in 1 .. Len(u) /\ v[i] = u[i]
  BY DEF Longer
<1>2. \A i \in 1 .. Len(u) : i \in 1 .. Len(v) /\ v[i] = u[i]
  BY DEF Longer
<1>3. {v[i].chunk : i \in {j \in 1 .. Len(v) : IsChunk(v[j], t)}}
        = {u[i].chunk : i \in {j \in 1 .. Len(u) : IsChunk(u[j], t)}}
  BY <1>1, <1>2
<1>4. ChunksOf(v, s, t) = ChunksOf(u, s, t)
  BY <1>3 DEF ChunksOf
<1>5. Once(u, s, t) => Once(v, s, t)
  BY <1>1 DEF Once
<1> QED
  BY <1>4, <1>5

(* A chunk supplied and then appended counts as on the way before and after. *)
LEMMA ChunkJoins ==
  ASSUME NEW u, NEW v, NEW t, NEW m \in ChunkMessage, Longer(u, v, m)
  PROVE  ChunksOf(v, {}, t) = ChunksOf(u, {m}, t)
         /\ (Once(u, {m}, t) => Once(v, {}, t))
<1>0. m.type = "chunk" /\ (IsChunk(m, t) <=> m.id = t)
  BY DEF ChunkMessage, IsChunk
<1>1. \A i \in 1 .. Len(u) : i \in 1 .. Len(v) /\ v[i] = u[i] /\ i # Len(u) + 1
  BY DEF Longer
<1>2. Len(u) + 1 \in 1 .. Len(v) /\ v[Len(u) + 1] = m
  BY DEF Longer
<1>3. \A i \in 1 .. Len(v) : i \in 1 .. Len(u) \/ i = Len(u) + 1
  BY DEF Longer
<1>4. \A x : x \in ChunksOf(v, {}, t) <=> \E i \in 1 .. Len(v) : IsChunk(v[i], t)
        /\ x = v[i].chunk
  BY DEF ChunksOf
<1>5. \A x : x \in ChunksOf(u, {m}, t) <=>
         (\E i \in 1 .. Len(u) : IsChunk(u[i], t) /\ x = u[i].chunk)
             \/ (m.id = t /\ x = m.chunk)
  BY DEF ChunksOf
<1>6. \A x : x \in ChunksOf(v, {}, t) <=> x \in ChunksOf(u, {m}, t)
  <2> TAKE x
  <2>1. ASSUME NEW i \in 1 .. Len(v), IsChunk(v[i], t), x = v[i].chunk
               PROVE x \in ChunksOf(u, {m}, t)
    <3>1. CASE i \in 1 .. Len(u)
      BY <1>1, <1>5, <2>1, <3>1
    <3>2. CASE i = Len(u) + 1
      BY <1>0, <1>2, <1>5, <2>1, <3>2
    <3> QED
      BY <1>3, <3>1, <3>2
  <2>2. ASSUME NEW i \in 1 .. Len(u), IsChunk(u[i], t), x = u[i].chunk
               PROVE x \in ChunksOf(v, {}, t)
    BY <1>1, <1>4, <2>2
  <2>3. ASSUME m.id = t, x = m.chunk PROVE x \in ChunksOf(v, {}, t)
    BY <1>0, <1>2, <1>4, <2>3
  <2> QED
    BY <1>4, <1>5, <2>1, <2>2, <2>3
<1>7. ASSUME Once(u, {m}, t) PROVE Once(v, {}, t)
  <2> SUFFICES ASSUME NEW i \in 1 .. Len(v), NEW j \in 1 .. Len(v), i # j,
                      IsChunk(v[i], t), IsChunk(v[j], t)
               PROVE  v[i].chunk # v[j].chunk
    BY DEF Once
  <2>1. \A k, l \in 1 .. Len(u) : k # l /\ IsChunk(u[k], t) /\ IsChunk(u[l], t)
          => u[k].chunk # u[l].chunk
    BY <1>7 DEF Once
  <2>2. \A k \in 1 .. Len(u) : IsChunk(u[k], t) /\ m.id = t => u[k].chunk # m.chunk
    BY <1>7 DEF Once
  <2>3. CASE i \in 1 .. Len(u) /\ j \in 1 .. Len(u)
    BY <1>1, <2>1, <2>3
  <2>4. CASE i = Len(u) + 1
    BY <1>0, <1>1, <1>2, <1>3, <2>2, <2>4
  <2>5. CASE j = Len(u) + 1
    BY <1>0, <1>1, <1>2, <1>3, <2>2, <2>5
  <2> QED
    BY <1>3, <2>3, <2>4, <2>5
<1> QED
  BY <1>6, <1>7

(* A chunk supplied joins the chunks on the way, once. *)
LEMMA ChunkSupplied ==
  ASSUME NEW u, NEW t, NEW m
  PROVE  /\ ChunksOf(u, {m}, t) = ChunksOf(u, {}, t)
            \cup (IF m.id = t THEN {m.chunk} ELSE {})
         /\ Once(u, {}, t) /\ (m.id = t => m.chunk \notin ChunksOf(u, {}, t))
             => Once(u, {m}, t)
<1>1. {x.chunk : x \in {n \in {m} : n.id = t}} = IF m.id = t THEN {m.chunk} ELSE {}
  OBVIOUS
<1>2. ChunksOf(u, {m}, t) = ChunksOf(u, {}, t)
        \cup (IF m.id = t THEN {m.chunk} ELSE {})
  BY <1>1 DEF ChunksOf
<1>3. \A i \in 1 .. Len(u) : IsChunk(u[i], t) => u[i].chunk \in ChunksOf(u, {}, t)
  BY DEF ChunksOf
<1>4. Once(u, {}, t) /\ (m.id = t => m.chunk \notin ChunksOf(u, {}, t))
        => Once(u, {m}, t)
  BY <1>3 DEF Once
<1> QED
  BY <1>2, <1>4

(* Taking a chunk of the transfer takes it, and only it, from the way. *)
LEMMA ChunkLeaves ==
  ASSUME NEW u, NEW v, NEW s, NEW t, Shorter(u, v), IsChunk(u[1], t), Once(u, s, t)
  PROVE  /\ u[1].chunk \in ChunksOf(u, s, t) /\ u[1].chunk \notin ChunksOf(v, s, t)
         /\ ChunksOf(u, s, t) = ChunksOf(v, s, t) \cup {u[1].chunk}
         /\ Once(v, s, t)
<1>1. \A i \in 1 .. Len(v) : i + 1 \in 1 .. Len(u) /\ v[i] = u[i + 1] /\ i + 1 # 1
        /\ i \in Int
  BY DEF Shorter
<1>2. \A i \in 1 .. Len(u) : i # 1 => i - 1 \in 1 .. Len(v) /\ v[i - 1] = u[i]
  BY DEF Shorter
<1>3. 1 \in 1 .. Len(u)
  BY DEF Shorter
<1>4. \A x : x \in ChunksOf(u, s, t) <=>
         (\E i \in 1 .. Len(u) : IsChunk(u[i], t) /\ x = u[i].chunk)
             \/ \E m \in s : m.id = t /\ x = m.chunk
  BY DEF ChunksOf
<1>5. \A x : x \in ChunksOf(v, s, t) <=>
         (\E i \in 1 .. Len(v) : IsChunk(v[i], t) /\ x = v[i].chunk)
             \/ \E m \in s : m.id = t /\ x = m.chunk
  BY DEF ChunksOf
<1>6. /\ \A i, j \in 1 .. Len(u) : i # j /\ IsChunk(u[i], t) /\ IsChunk(u[j], t)
         => u[i].chunk # u[j].chunk
      /\ \A i \in 1 .. Len(u), m \in s : IsChunk(u[i], t) /\ m.id = t
          => u[i].chunk # m.chunk
  BY DEF Once
<1>7. u[1].chunk \in ChunksOf(u, s, t)
  BY <1>3, <1>4
<1>8. u[1].chunk \notin ChunksOf(v, s, t)
  BY <1>1, <1>3, <1>5, <1>6
<1>9. \A x : x \in ChunksOf(u, s, t) <=> x \in ChunksOf(v, s, t) \/ x = u[1].chunk
  <2> TAKE x
  <2>1. ASSUME NEW i \in 1 .. Len(u), IsChunk(u[i], t), x = u[i].chunk
        PROVE  x \in ChunksOf(v, s, t) \/ x = u[1].chunk
    BY <1>2, <1>5, <2>1
  <2>2. ASSUME NEW i \in 1 .. Len(v), IsChunk(v[i], t), x = v[i].chunk
               PROVE x \in ChunksOf(u, s, t)
    BY <1>1, <1>4, <2>2
  <2> QED
    BY <1>4, <1>5, <1>7, <2>1, <2>2
<1>10. \A i, j \in 1 .. Len(v) : i # j => i + 1 # j + 1
  BY <1>1
<1>11. Once(v, s, t)
  BY <1>1, <1>6, <1>10 DEF Once
<1> QED
  BY <1>7, <1>8, <1>9, <1>11

(* Where nothing of a transfer is on the way, its chunks are none. *)
LEMMA NoneUnderWay ==
  ASSUME NEW u, NEW s, NEW t, \A i \in 1 .. Len(u) : ~IsChunk(u[i], t),
         \A m \in s : m.id # t
  PROVE  ChunksOf(u, s, t) = {} /\ Once(u, s, t)
BY DEF ChunksOf, Once

(* The chunks on the way and those being stored are chunks. *)
LEMMA SpentFacts ==
  ASSUME Shape
  PROVE  /\ Flying \in SUBSET Chunks /\ Storing \in SUBSET Chunks
            /\ Spent \in SUBSET Chunks
         /\ todo = <<>> => Storing = {}
         /\ \A w : todo = <<w>> /\ w.op = "store" => Storing = {w.chunk}
<1>1. \A i \in 1 .. Len(up) : up[i].type = "chunk" => up[i].chunk \in Chunks
  BY UpAre, MessageKinds DEF Shape, ChunkMessage
<1>2. \A m \in sending : m.chunk \in Chunks
  BY DEF Shape, ClientShape, ChunkMessage
<1>3. Flying \in SUBSET Chunks
  BY <1>1, <1>2 DEF Flying, ChunksOf, IsChunk
<1>4. todo = <<>> => Storing = {}
  BY DEF Storing
<1>5. \A w : todo = <<w>> /\ w.op = "store" => Storing = {w.chunk}
  <2> TAKE w
  <2> HAVE todo = <<w>> /\ w.op = "store"
  <2>1. Len(todo) = 1 /\ todo[1] = w
    OBVIOUS
  <2>2. {j \in 1 .. Len(todo) : todo[j].op = "store"} = {1}
    BY <2>1
  <2> QED
    BY <2>1, <2>2 DEF Storing
<1>6. Storing \in SUBSET Chunks
  <2> SUFFICES ASSUME NEW i \in 1 .. Len(todo), todo[i].op = "store"
                      PROVE todo[i].chunk \in Chunks
    BY DEF Storing
  <2>1. CASE host.state = "receiving"
    <3>1. PICK c \in Chunks, d \in Durable :
             todo = <<[op |-> "store", id |-> host.id, chunk |-> c, data |-> d]>>
      BY <2>1 DEF Shape, HostShape, TodoFits
    <3>2. i = 1
      BY <3>1
    <3> QED
      BY <3>1, <3>2
  <2>2. CASE host.state # "receiving"
    <3>1. \A t : /\ Do("verify", t).op # "store" /\ Do("link", t).op # "store"
                 /\ Do("drop part", t).op # "store"
                     /\ Do("drop record", t).op # "store"
      BY DEF Do
    <3>2. \/ todo = <<>> \/ \E x : todo = <<x>> /\ x.op # "store"
          \/ \E x, y : todo = <<x, y>> /\ x.op # "store" /\ y.op # "store"
      <4>1. host.state \in {"awaitingOffer", "receiving", "verifying"}
        BY DEF Shape, HostShape, HostRecord
      <4>2. CASE host.state = "verifying"
        BY <3>1, <4>2 DEF Shape, HostShape, TodoFits
      <4>3. CASE host.state = "awaitingOffer"
        <5>1. todo = <<>> \/ \E t \in Transfers :
                todo \in {<<Do("drop part", t), Do("drop record", t)>>,
                          <<Do("drop part", t)>>, <<Do("drop record", t)>>}
          BY <4>3 DEF Shape, HostShape, TodoFits
        <5> QED
          BY <3>1, <5>1
      <4> QED
        BY <2>2, <4>1, <4>2, <4>3
    <3>3. CASE \E x : todo = <<x>> /\ x.op # "store"
      BY <3>3
    <3>4. CASE \E x, y : todo = <<x, y>> /\ x.op # "store" /\ y.op # "store"
      <4>1. PICK x, y : todo = <<x, y>> /\ x.op # "store" /\ y.op # "store"
        BY <3>4
      <4>2. i = 1 \/ i = 2
        BY <4>1
      <4> QED
        BY <4>1, <4>2
    <3> QED
      BY <3>2, <3>3, <3>4
  <2> QED
    BY <2>1, <2>2
<1>7. host.held \in SUBSET Chunks
  BY DEF Shape, HostShape, HostRecord
<1>8. Spent \in SUBSET Chunks
  BY <1>3, <1>6, <1>7 DEF Spent
<1> QED
  BY <1>3, <1>4, <1>5, <1>6, <1>8

(***************************************************************************)
(* A step of the client that neither reads nor sends a chunk.              *)
(***************************************************************************)
LEMMA QuietKeepsCounts ==
  ASSUME Counts, host' = host, todo' = todo, sending' = sending,
         up' = up \/ \E m : Longer(up, up', m) /\ m.type # "chunk",
         Answers' = Answers \/ Shorter(Answers, Answers'),
         ~Busy' \/ (client' = client /\ queue' = queue)
  PROVE  Counts'
<1>1. /\ ChunksOf(up', sending, host.id) = ChunksOf(up, sending, host.id)
      /\ Once(up, sending, host.id) => Once(up', sending, host.id)
  BY OtherJoins DEF IsChunk
<1>2. Flying' = Flying /\ Storing' = Storing /\ Spent' = Spent
  BY <1>1 DEF Flying, Storing, Spent
<1>3. \A i \in 1 .. Len(Answers') : \E j \in 1 .. Len(Answers) : Answers'[i] = Answers[j]
  BY DEF Shorter
<1>4. Reading'
  BY <1>3 DEF Counts, Reading, Busy
<1>5. Consumed'
  BY DEF Counts, Consumed
<1>6. ChunksApart'
  BY <1>1, <1>2 DEF Counts, ChunksApart, Receiving
<1>7. SpentGranted'
  BY <1>2 DEF Counts, SpentGranted, Receiving
<1>8. ReportsFit'
  BY <1>3 DEF Counts, ReportsFit, Receiving
<1>9. InStep'
  BY <1>2 DEF Counts, InStep, Receiving, Busy
<1> QED
  BY <1>4, <1>5, <1>6, <1>7, <1>8, <1>9 DEF Counts

(***************************************************************************)
(* The client takes an accept or a report.                                 *)
(***************************************************************************)
LEMMA ReportKeepsCounts ==
  ASSUME Shape, Turns, Counts, NEW m \in ReportMessage, Answers[1] = m,
         m.id = Head(queue),
         Shorter(Answers, Answers'), client' = Informed(client, m),
         queue' = queue, up' = up, sending' = sending, host' = host, todo' = todo,
         (client.state = "offering" /\ m.type = "accept")
             \/ (Busy /\ m.type = "ack")
  PROVE  Counts'
<1>0. 1 \in 1 .. Len(Answers)
        /\ \A i \in 1 .. Len(Answers') : i + 1 \in 1 .. Len(Answers)
            /\ Answers'[i] = Answers[i + 1]
  BY DEF Shorter
<1>1. client \in ClientRecord
  BY DEF Shape, ClientShape
<1>2. PICK reads \in SUBSET Chunks :
        /\ client' \in ClientRecord
        /\ client'.state \in {"transferring", "awaitingVerification"}
        /\ client'.held = client.held \cup m.held
            /\ client'.credit = Larger(client.credit, m.credit)
        /\ client'.outstanding \subseteq client.outstanding \cup reads
        /\ client.outstanding \subseteq client.unconfirmed
            /\ client.outstanding \cap client'.held = {} =>
              client'.outstanding \subseteq client'.unconfirmed
        /\ client'.issued = client.issued + Cardinality(reads)
        /\ IsFiniteSet(reads) /\ Cardinality(reads) \in Nat
        /\ reads # {} => client'.issued <= client'.credit
        /\ client'.cursor >= client.cursor
        /\ \A i \in reads : client.cursor <= i /\ i < client'.cursor
            /\ i \notin client'.held
        /\ Cardinality(reads) <= client'.cursor - client.cursor
  BY <1>1, InformedTakes
<1>3. /\ client.issued \in Nat /\ client.credit \in Nat /\ client.cursor \in Nat
      /\ client'.issued \in Nat /\ client'.credit \in Nat /\ client'.cursor \in Nat
      /\ client.outstanding \in SUBSET Chunks
          /\ client'.outstanding \in SUBSET Chunks
      /\ m.credit \in Nat /\ m.held \in SUBSET Chunks
  BY <1>1, <1>2, BulkAssumption DEF ClientRecord, ReportMessage
<1>4. client.state = "offering" =>
         /\ client.outstanding = {} /\ client.unconfirmed = {} /\ client.held = {}
         /\ client.issued = 0 /\ client.cursor = 0 /\ client.credit = 0
  BY DEF Shape, ClientShape, NoShell
<1>5. Chunks \subseteq Int
  BY BulkAssumption DEF Chunks
\* What the client was reading, and what it will still hear.
<1>6. /\ client.outstanding \subseteq client.unconfirmed
      /\ \A c \in client.outstanding : c < client.cursor /\ c \notin client.held
          /\ c \notin m.held
      /\ client.issued <= client.cursor
      /\ \A i \in 1 .. Len(Answers) : Answers[i].type = "ack"
          /\ Answers[i].id = Head(queue) =>
            /\ Answers[i].held \cap client.outstanding = {}
            /\ \A c \in Answers[i].held : c < client.cursor \/ c \in client.held
  <2>1. CASE client.state = "offering"
    <3>1. \A i \in 1 .. Len(Answers) : Answers[i].type = "ack"
            => Answers[i].id # Head(queue)
      BY <2>1 DEF Turns, Accepts, OfferingQuiet
    <3> QED
      BY <1>3, <1>4, <2>1, <3>1
  <2>2. CASE Busy /\ m.type = "ack"
    <3>1. /\ client.outstanding \subseteq client.unconfirmed
          /\ \A c \in client.outstanding : c < client.cursor /\ c \notin client.held
          /\ client.issued <= client.cursor
          /\ \A i \in 1 .. Len(Answers) : Answers[i].type = "ack"
              /\ Answers[i].id = Head(queue) =>
                /\ Answers[i].held \cap client.outstanding = {}
                /\ \A c \in Answers[i].held : c < client.cursor \/ c \in client.held
      BY <2>2 DEF Counts, Reading
    <3>2. m.held \cap client.outstanding = {}
      BY <1>0, <2>2, <3>1
    <3> QED
      BY <3>1, <3>2
  <2> QED
    BY <2>1, <2>2
<1>7. Reading'
  <2>1. client'.outstanding \subseteq client'.unconfirmed
    BY <1>2, <1>6
  <2>2. \A c \in client'.outstanding : c < client'.cursor /\ c \notin client'.held
    <3> TAKE c \in client'.outstanding
    <3>1. CASE c \in reads
      BY <1>2, <3>1
    <3>2. CASE c \in client.outstanding
      <4>1. c < client.cursor /\ c \notin client'.held /\ c \in Int
        BY <1>2, <1>3, <1>5, <1>6, <3>2
      <4> QED
        BY <1>2, <1>3, <4>1
    <3> QED
      BY <1>2, <3>1, <3>2
  <2>3. client'.issued <= client'.cursor
    BY <1>2, <1>3, <1>6
  <2>4. ASSUME NEW i \in 1 .. Len(Answers'), Answers'[i].type = "ack",
               Answers'[i].id = Head(queue')
        PROVE  /\ Answers'[i].held \cap client'.outstanding = {}
               /\ \A c \in Answers'[i].held : c < client'.cursor
                   \/ c \in client'.held
    <3>1. PICK a : a = Answers'[i]
      OBVIOUS
    <3>2. a.held \cap client.outstanding = {}
            /\ \A c \in a.held : c < client.cursor \/ c \in client.held
      BY <1>0, <1>6, <2>4, <3>1
    <3>3. a.held \in SUBSET Chunks
      <4>1. i + 1 \in 1 .. Len(Answers) /\ a = Answers[i + 1] /\ a.type = "ack"
        BY <1>0, <2>4, <3>1
      <4>2. Answers[i + 1] \in ToClient
        BY <4>1, AnswersAre DEF Shape
      <4>3. a \in ReportMessage
        BY <4>1, <4>2, MessageKinds
      <4> QED
        BY <4>3 DEF ReportMessage
    <3>4. \A c \in a.held : c < client'.cursor \/ c \in client'.held
      <4> TAKE c \in a.held
      <4>1. c \in Int /\ (c < client.cursor \/ c \in client.held)
        BY <1>5, <3>2, <3>3
      <4> QED
        BY <1>2, <1>3, <4>1
    <3>5. \A c \in a.held : c \notin reads
      <4> TAKE c \in a.held
      <4>1. c \in Int /\ (c < client.cursor \/ c \in client.held)
        BY <1>5, <3>2, <3>3
      <4> QED
        BY <1>2, <1>3, <4>1
    <3> QED
      BY <1>2, <3>1, <3>2, <3>4, <3>5
  <2> QED
    BY <2>1, <2>2, <2>3, <2>4 DEF Reading
<1>8. Flying' = Flying /\ Storing' = Storing /\ Spent' = Spent
  BY DEF Flying, Storing, Spent
<1>9. InStep'
  <2> SUFFICES ASSUME Receiving, host.id = Head(queue)
               PROVE  /\ host.start \subseteq client'.held
                         /\ client'.held \subseteq host.held
                      /\ client'.outstanding \cap (Spent \cup host.start) = {}
                      /\ \A c \in Spent : c < client'.cursor
                      /\ Cardinality(Spent \cup client'.outstanding) <= client'.issued
                      /\ client'.issued <= client'.credit
                      /\ client'.credit <= host.granted
    BY <1>8 DEF InStep, Receiving
  <2>0. Spent \in SUBSET Chunks /\ host.granted \in Nat
    BY SpentFacts DEF Shape, HostShape, HostRecord
  <2>1. host.start \subseteq m.held /\ m.held \subseteq host.held
          /\ m.credit <= host.granted
    BY <1>0 DEF Counts, ReportsFit
  <2>2. /\ client.held \subseteq host.held
        /\ client.outstanding \cap (Spent \cup host.start) = {}
        /\ \A c \in Spent : c < client.cursor
        /\ Cardinality(Spent \cup client.outstanding) <= client.issued
        /\ client.issued <= client.credit
        /\ client.credit <= host.granted
    <3>1. CASE client.state = "offering"
      <4>1. NoChunk(host.id) /\ host.held = host.start /\ todo = <<>>
        BY <3>1 DEF Turns, Accepts, OfferingQuiet, Hosting, Receiving
      <4>2. Spent = {}
        BY <4>1, NoneUnderWay, SpentFacts DEF Spent, Flying, NoChunk
      <4>3. Spent \cup client.outstanding = {}
        BY <1>4, <3>1, <4>2
      <4>4. Cardinality(Spent \cup client.outstanding) = 0
        BY <4>3, FS_EmptySet
      <4> QED
        BY <1>4, <2>0, <3>1, <4>2, <4>4
    <3>2. CASE Busy
      BY <3>2 DEF Counts, InStep
    <3> QED
      BY <3>1, <3>2
  <2>3. client'.outstanding \cap (Spent \cup host.start) = {}
    <3>1. \A c \in reads : c \notin Spent /\ c \notin host.start
      <4> TAKE c \in reads
      <4>1. c \in Int /\ client.cursor <= c /\ c \notin client'.held
        BY <1>2, <1>5
      <4> QED
        BY <1>2, <1>3, <2>1, <2>2, <4>1
    <3> QED
      BY <1>2, <2>2, <3>1
  <2>4. \A c \in Spent : c < client'.cursor
    <3> TAKE c \in Spent
    <3>1. c \in Int /\ c < client.cursor
      BY <1>5, <2>0, <2>2
    <3> QED
      BY <1>2, <1>3, <3>1
  <2>5. Cardinality(Spent \cup client'.outstanding) <= client'.issued
    <3> DEFINE S == Spent \cup client.outstanding
               T == Spent \cup client'.outstanding
    <3>1. S \in SUBSET Chunks /\ T \in SUBSET (S \cup reads)
      BY <1>2, <1>3, <2>0
    <3>2. S \cup reads \in SUBSET Chunks
            /\ Cardinality(S \cup reads) <= Cardinality(S) + Cardinality(reads)
      BY <3>1, MoreChunks
    <3>3. Cardinality(T) <= Cardinality(S \cup reads)
      BY <3>1, <3>2, ChunkSets
    <3>4. Cardinality(S) <= client.issued
      BY <2>2
    <3>5. Cardinality(S) \in Nat /\ Cardinality(S \cup reads) \in Nat
            /\ Cardinality(T) \in Nat
      BY <3>1, <3>2, ChunkSets
    <3> HIDE DEF S, T
    <3>6. Cardinality(T) <= client'.issued
      BY <1>2, <1>3, <3>2, <3>3, <3>4, <3>5
    <3> QED
      BY <3>6 DEF T
  <2>6. client'.issued <= client'.credit
    <3>1. CASE reads = {}
      <4>1. client'.issued = client.issued
        BY <1>2, <1>3, <3>1, FS_EmptySet
      <4> QED
        BY <1>2, <1>3, <2>2, <4>1 DEF Larger
    <3> QED
      BY <1>2, <3>1
  <2>7. client'.credit <= host.granted
    BY <1>2, <2>1, <2>2 DEF Larger
  <2> QED
    BY <1>2, <2>1, <2>2, <2>3, <2>4, <2>5, <2>6, <2>7
<1>10. Consumed' /\ ChunksApart' /\ SpentGranted'
  BY <1>8 DEF Counts, Consumed, ChunksApart, SpentGranted, Receiving
<1>11. ReportsFit'
  BY <1>0 DEF Counts, ReportsFit, Receiving
<1> QED
  BY <1>7, <1>9, <1>10, <1>11 DEF Counts

(***************************************************************************)
(* The client hands a chunk it has read to the stream.                     *)
(***************************************************************************)
LEMMA SupplyKeepsCounts ==
  ASSUME Shape, Counts, NEW c \in Chunks, SupplyChunk(c)
  PROVE  Counts'
<1>1. /\ client.state = "transferring" /\ c \in client.outstanding /\ sending = {}
      /\ client' = [client EXCEPT !.outstanding = @ \ {c}]
      /\ queue' = queue /\ up' = up /\ down' = down /\ replies' = replies
          /\ host' = host /\ todo' = todo
  BY DEF SupplyChunk, hostVars
<1>2. PICK m : sending' = {m} /\ m.id = Head(queue) /\ m.chunk = c
  <2> DEFINE n == [type |-> "chunk", id |-> Head(queue), chunk |-> c,
                   data |-> IF Head(queue) \in changed THEN "changed" ELSE "offered"]
  <2>1. sending' = {n} /\ n.id = Head(queue) /\ n.chunk = c
    BY DEF SupplyChunk
  <2> QED
    BY <2>1
<1>3. client \in ClientRecord
  BY DEF Shape, ClientShape
<1>4. /\ client'.state = client.state
         /\ client'.outstanding = client.outstanding \ {c}
      /\ client'.held = client.held /\ client'.credit = client.credit
          /\ client'.issued = client.issued
      /\ client'.unconfirmed = client.unconfirmed /\ client'.cursor = client.cursor
  BY <1>1, <1>3 DEF ClientRecord
<1>5. Answers' = Answers /\ Storing' = Storing
  BY <1>1 DEF Answers, Storing
<1>6. Busy /\ Busy'
  BY <1>1, <1>4 DEF Busy
<1>7. Reading'
  BY <1>1, <1>4, <1>5, <1>6 DEF Counts, Reading
<1>8. Consumed' /\ ReportsFit'
  BY <1>1, <1>5 DEF Counts, Consumed, ReportsFit, Receiving
<1>9. /\ Flying' = ChunksOf(up, {m}, host.id) /\ Flying = ChunksOf(up, {}, host.id)
      /\ Once(up', sending', host'.id) <=> Once(up, {m}, host.id)
  BY <1>1, <1>2 DEF Flying
<1>10. CASE host.id # Head(queue)
  <2>0. m.id # host.id
    BY <1>2, <1>10
  <2>0a. /\ ChunksOf(up, {m}, host.id) = ChunksOf(up, {}, host.id)
            \cup (IF m.id = host.id THEN {m.chunk} ELSE {})
         /\ Once(up, {}, host.id)
             /\ (m.id = host.id => m.chunk \notin ChunksOf(up, {}, host.id))
                 => Once(up, {m}, host.id)
    BY ChunkSupplied, Zenon
  <2>1. Flying' = Flying /\ (Once(up, {}, host.id) => Once(up, {m}, host.id))
    BY <1>9, <2>0, <2>0a
  <2>2. Spent' = Spent
    BY <1>1, <1>5, <2>1 DEF Spent
  <2>3. ChunksApart'
    BY <1>1, <1>5, <1>9, <2>1 DEF Counts, ChunksApart, Receiving
  <2>4. SpentGranted' /\ InStep'
    BY <1>1, <1>10, <2>2 DEF Counts, SpentGranted, InStep, Receiving
  <2> QED
    BY <1>7, <1>8, <2>3, <2>4 DEF Counts
<1>11. CASE host.id = Head(queue) /\ Receiving
  <2>1. /\ host.start \subseteq client.held /\ client.held \subseteq host.held
        /\ client.outstanding \cap (Spent \cup host.start) = {}
        /\ \A d \in Spent : d < client.cursor
        /\ Cardinality(Spent \cup client.outstanding) <= client.issued
        /\ client.issued <= client.credit
        /\ client.credit <= host.granted
    BY <1>6, <1>11 DEF Counts, InStep
  <2>2. c \notin Flying /\ c \notin Storing /\ c \notin host.held
    BY <1>1, <2>1 DEF Spent
  <2>3. Flying' = Flying \cup {c}
          /\ (Once(up, {}, host.id) => Once(up, {m}, host.id))
    BY <1>2, <1>9, <1>11, <2>2, ChunkSupplied
  <2>4. Spent' = Spent \cup {c}
    BY <1>1, <1>5, <2>3 DEF Spent
  <2>5. Spent' \cup client'.outstanding = Spent \cup client.outstanding
    BY <1>1, <1>4, <2>4
  <2>6. ChunksApart'
    BY <1>1, <1>5, <1>9, <1>11, <2>2, <2>3 DEF Counts, ChunksApart, Receiving
  <2>7. SpentGranted'
    <3>1. Spent \cup client.outstanding \in SUBSET Chunks
            /\ Spent' \in SUBSET (Spent \cup client.outstanding)
      BY <1>1, <1>3, <2>4, SpentFacts DEF ClientRecord
    <3>2. /\ Cardinality(Spent') <= Cardinality(Spent \cup client.outstanding)
          /\ Cardinality(Spent') \in Nat
              /\ Cardinality(Spent \cup client.outstanding) \in Nat
      BY <3>1, ChunkSets
    <3>3. client.issued \in Nat /\ client.credit \in Nat /\ host.granted \in Nat
      BY <1>3 DEF ClientRecord, Shape, HostShape, HostRecord
    <3>4. Cardinality(Spent') <= host.granted
      BY <2>1, <3>2, <3>3
    <3> QED
      BY <1>1, <3>4 DEF SpentGranted
  <2>8. InStep'
    <3>1. \A d \in Spent' : d < client'.cursor
      BY <1>1, <1>4, <1>6, <2>1, <2>4 DEF Counts, Reading
    <3>2. client'.outstanding \cap (Spent' \cup host.start) = {}
      BY <1>4, <2>1, <2>4
    <3> QED
      BY <1>1, <1>4, <2>1, <2>5, <3>1, <3>2 DEF InStep
  <2> QED
    BY <1>7, <1>8, <2>6, <2>7, <2>8 DEF Counts
<1>12. CASE ~Receiving
  BY <1>1, <1>7, <1>8, <1>12 DEF Counts, ChunksApart, SpentGranted, InStep,
       Receiving
<1> QED
  BY <1>10, <1>11, <1>12

(* Appending a read chunk to the stream keeps the account of the credit. *)
LEMMA SendKeepsCounts ==
  ASSUME Shape, Counts, SendChunk
  PROVE  Counts'
<1>1. PICK m \in sending : up' = Append(up, m) /\ sending' = {}
  BY DEF SendChunk
<1>2. /\ queue' = queue /\ client' = client /\ down' = down /\ replies' = replies
         /\ host' = host /\ todo' = todo
  BY DEF SendChunk, hostVars
<1>3. sending = {m} /\ m \in ChunkMessage /\ m \in ToHost
  BY <1>1 DEF Shape, ClientShape, ToHost
<1>4. Longer(up, up', m)
  BY <1>1, <1>3, UpLonger DEF Shape
<1>5. /\ ChunksOf(up', {}, host.id) = ChunksOf(up, {m}, host.id)
      /\ Once(up, {m}, host.id) => Once(up', {}, host.id)
  BY <1>3, <1>4, ChunkJoins
<1>6. Answers' = Answers /\ Storing' = Storing /\ Flying' = Flying /\ Spent' = Spent
  BY <1>1, <1>2, <1>3, <1>5 DEF Answers, Storing, Flying, Spent
<1>7. Reading' /\ Consumed' /\ SpentGranted' /\ ReportsFit' /\ InStep'
  BY <1>2, <1>6 DEF Counts, Reading, Consumed, SpentGranted, ReportsFit, InStep,
       Receiving, Busy
<1>8. ChunksApart'
  BY <1>1, <1>2, <1>3, <1>5, <1>6 DEF Counts, ChunksApart, Receiving
<1> QED
  BY <1>7, <1>8 DEF Counts

(* Every step of the client keeps the account of the credit. *)
LEMMA ClientKeepsCounts ==
  ASSUME Shape, Turns, Counts,
         \/ Begin \/ ClientIngest \/ SendChunk \/ CancelAll \/ SourceChanges
         \/ \E c \in Chunks : SupplyChunk(c) \/ ReadFails(c)
  PROVE  Counts'
<1>0. StreamShape /\ ClientShape
  BY DEF Shape
<1>1. host' = host /\ todo' = todo /\ replies' = replies
  BY DEF Begin, ClientIngest, SendChunk, CancelAll, SourceChanges, SupplyChunk,
       ReadFails, hostVars
<1>2. \A t \in Transfers : Offer(t) \in ToHost /\ Abort(t) \in ToHost
  BY <1>0, AppendShape
<1>3. \A t : Offer(t).type # "chunk" /\ Abort(t).type # "chunk"
  BY DEF Offer, Abort
<1>4. client.state # "idle" => queue # <<>> /\ Head(queue) \in Transfers
  BY <1>0, OfferedFacts DEF ClientShape
\* The client stops, or has not begun to read.
<1>5. ASSUME ~Busy', sending' = sending,
             up' = up \/ \E t \in Transfers : up' = Append(up, Offer(t))
                 \/ up' = Append(up, Abort(t)),
             Answers' = Answers \/ Shorter(Answers, Answers')
      PROVE  Counts'
  <2>1. up' = up \/ \E m : Longer(up, up', m) /\ m.type # "chunk"
    BY <1>0, <1>2, <1>3, <1>5, UpLonger
  <2> QED
    BY <1>1, <1>5, <2>1, QuietKeepsCounts
<1>6. down' = down => Answers' = Answers
  BY <1>1 DEF Answers
<1>7. client' = NoShell => ~Busy'
  BY DEF Busy, NoShell
<1>8. CASE Begin
  <2>1. /\ queue # <<>> /\ client.state = "idle"
           /\ client' = [NoShell EXCEPT !.state = "offering"]
        /\ up' = Append(up, Offer(Head(queue))) /\ sending' = sending
            /\ down' = down
    BY <1>8 DEF Begin, Offer
  <2>2. Head(queue) \in Transfers
    BY <1>0, <2>1, OfferedFacts
  <2>3. ~Busy'
    BY <2>1 DEF Busy, NoShell
  <2> QED
    BY <1>5, <1>6, <2>1, <2>2, <2>3
<1>9. CASE \E c \in Chunks : SupplyChunk(c)
  BY <1>9, SupplyKeepsCounts
<1>10. CASE SendChunk
  BY <1>10, SendKeepsCounts
<1>11. CASE (\E c \in Chunks : ReadFails(c)) \/ CancelAll
  <2>1. /\ client' = NoShell /\ sending' = sending /\ down' = down
        /\ up' = up
            \/ (client.state # "idle" /\ up' = Append(up, Abort(Head(queue))))
    BY <1>11 DEF ReadFails, CancelAll, Pop, Abort
  <2> QED
    BY <1>4, <1>5, <1>6, <1>7, <2>1
<1>12. CASE SourceChanges
  <2>1. client' = client /\ queue' = queue /\ sending' = sending /\ up' = up
          /\ down' = down
    BY <1>12 DEF SourceChanges
  <2> QED
    BY <1>1, <1>6, <2>1, QuietKeepsCounts
<1>13. CASE ClientIngest
  <2> DEFINE m == Head(down)
             active == client.state # "idle" /\ m.id = Head(queue)
  <2>1. /\ down # <<>> /\ down' = Tail(down) /\ sending' = sending
        /\ \/ UNCHANGED <<queue, client, up>>
           \/ active /\ client' = NoShell /\ up' = Append(up, Abort(m.id))
           \/ /\ active /\ Expected(m) /\ up' = up
              /\ \/ m.type \in {"accept", "ack"} /\ client' = Informed(client, m)
                    /\ queue' = queue
                 \/ client' = NoShell
    BY <1>13 DEF ClientIngest, Pop, Abort
  <2>2. Shorter(Answers, Answers') /\ Answers[1] = m /\ m \in ToClient
    BY <1>0, <1>1, <2>1, AnswersPopped DEF AnswersPop
  <2>3. m.id \in Transfers /\ (m.type \in {"accept", "ack"} => m \in ReportMessage)
    BY <2>2, MessageKinds
  <2> HIDE DEF m
  <2>4. CASE UNCHANGED <<queue, client, up>>
    BY <1>1, <2>1, <2>2, <2>4, QuietKeepsCounts
  <2>5. CASE active /\ client' = NoShell /\ up' = Append(up, Abort(m.id))
    BY <1>5, <1>7, <2>1, <2>2, <2>3, <2>5
  <2>6. CASE client' = NoShell /\ up' = up
    BY <1>5, <1>7, <2>1, <2>2, <2>6
  <2>7. CASE /\ active /\ Expected(m) /\ up' = up
             /\ m.type \in {"accept", "ack"} /\ client' = Informed(client, m)
                 /\ queue' = queue
    <3>1. (client.state = "offering" /\ m.type = "accept")
            \/ (Busy /\ m.type = "ack")
      BY <2>7 DEF Expected, Busy
    <3> QED
      BY <1>1, <2>1, <2>2, <2>3, <2>7, <3>1, ReportKeepsCounts
  <2> QED
    BY <2>1, <2>4, <2>5, <2>6, <2>7
<1> QED
  BY <1>8, <1>9, <1>10, <1>11, <1>12, <1>13

(***************************************************************************)
(* The host stops receiving, or was not.                                   *)
(***************************************************************************)
LEMMA PauseKeepsCounts ==
  ASSUME Counts, HostTurn, host'.state # "receiving", Consumed',
         Answers' = Answers \/ \E m : Longer(Answers, Answers', m) /\ m.type # "ack"
  PROVE  Counts'
<1>1. client' = client /\ queue' = queue
  BY DEF HostTurn
<1>2. \A i \in 1 .. Len(Answers') : Answers'[i].type = "ack"
        => i \in 1 .. Len(Answers) /\ Answers'[i] = Answers[i]
  BY DEF Longer
<1>3. Reading'
  BY <1>1, <1>2 DEF Counts, Reading, Busy
<1> QED
  BY <1>3 DEF Counts, ChunksApart, SpentGranted, ReportsFit, InStep, Receiving

(* An engine that stops receiving leaves nothing to account for. *)
LEMMA RearmKeepsCounts ==
  ASSUME Counts, HostTurn, host'.state = "awaitingOffer"
  PROVE  Counts'
<1>1. TurnRefuse \/ TurnClose \/ TurnRest \/ TurnDeliver
  BY DEF HostTurn, TurnOpen, TurnReport, TurnFinish
<1>2. \A t : Abort(t).type # "ack"
  BY DEF Abort
<1>3. Answers' = Answers \/ \E m : Longer(Answers, Answers', m) /\ m.type # "ack"
  <2>1. CASE TurnRefuse \/ TurnClose
    BY <1>2, <2>1 DEF TurnRefuse, TurnClose, AnswersStay, AnswersAdd
  <2>2. CASE TurnRest \/ TurnDeliver
    BY <2>2 DEF TurnRest, TurnDeliver, AnswersStay
  <2> QED
    BY <1>1, <2>1, <2>2
<1>4. Consumed'
  BY DEF Consumed
<1> QED
  BY <1>3, <1>4, PauseKeepsCounts

(***************************************************************************)
(* The host accepts an offer.                                              *)
(***************************************************************************)
LEMMA OpenKeepsCounts ==
  ASSUME Shape, Turns, Counts, HostTurn, UpPops, NEW t \in Transfers,
         up[1] = Offer(t),
         host.state = "awaitingOffer", AcceptOffer(t), down' = down
  PROVE  Counts'
<1>1. /\ host' \in HostRecord /\ host'.id = t /\ host'.consumed = 0
         /\ host'.held = host'.start
      /\ host'.state = "receiving" => todo' = <<>>
      /\ replies' = Append(replies, Answer(t, "accept", host'))
      /\ Answer(t, "accept", host') \in ReportMessage
  BY AcceptFacts
<1>2. PICK a : a = Answer(t, "accept", host')
  OBVIOUS
<1>3. a.type = "accept" /\ a.id = t /\ a.held = host'.held
        /\ a.credit = host'.granted /\ host'.granted \in Nat
  BY <1>1, <1>2 DEF Answer, HostRecord
<1>4. Longer(Answers, Answers', a)
  BY <1>1, <1>2, AnswersAdded DEF Shape, ToClient, AnswersAdd
<1>5. client' = client /\ queue' = queue /\ sending' = sending
  BY DEF HostTurn
<1>6. /\ 1 \in 1 .. Len(up) /\ up[1].type = "offer" /\ up[1].id = t
      /\ \A i \in 1 .. Len(up') : \E j \in 1 .. Len(up) : up'[i] = up[j]
  BY DEF UpPops, Shorter, Offer
<1>7. /\ \A i \in 1 .. Len(up) : ~IsChunk(up[i], t)
      /\ \A m \in sending : m.id # t
      /\ \A i \in 1 .. Len(Answers) : Answers[i].id # t
      /\ client.state # "idle" /\ t = Head(queue) => client.state = "offering"
  BY <1>6 DEF Turns, Offers, OffersFresh, OffersOpen, NoChunk, Active
<1>8. ChunksOf(up', sending', t) = {} /\ Once(up', sending', t)
  BY <1>5, <1>6, <1>7, NoneUnderWay
<1>9. Reading'
  <2>1. \A i \in 1 .. Len(Answers') : Answers'[i].type = "ack"
          => i \in 1 .. Len(Answers) /\ Answers'[i] = Answers[i]
    BY <1>3, <1>4 DEF Longer
  <2> QED
    BY <1>5, <2>1 DEF Counts, Reading, Busy
<1>10. host'.held \ host'.start = {} /\ Cardinality({}) = 0
  BY <1>1, FS_EmptySet
<1>11. Consumed'
  BY <1>1, <1>10 DEF Consumed
<1>12. Flying' = {}
  BY <1>1, <1>8 DEF Flying
<1>13. host'.state = "receiving" => Storing' = {}
  <2> HAVE host'.state = "receiving"
  <2>1. todo' = <<>> /\ Len(todo') = 0
    BY <1>1
  <2> QED
    BY <2>1 DEF Storing
<1>14. host'.state = "receiving" => Spent' = {}
  BY <1>10, <1>12, <1>13 DEF Spent
<1>15. ChunksApart' /\ SpentGranted'
  <2>1. ChunksApart'
    BY <1>1, <1>8, <1>12 DEF ChunksApart
  <2>2. host'.state = "receiving" => Cardinality(Spent') = 0
    BY <1>10, <1>14
  <2> QED
    BY <1>3, <2>1, <2>2 DEF SpentGranted, Receiving
<1>16. ReportsFit'
  <2>1. \A i \in 1 .. Len(Answers') : Answers'[i].id = t => Answers'[i] = a
    BY <1>4, <1>7 DEF Longer
  <2>2. host'.start \subseteq a.held /\ a.held \subseteq host'.held
          /\ a.credit <= host'.granted
    BY <1>1, <1>3
  <2> QED
    BY <1>1, <2>1, <2>2 DEF ReportsFit
<1>17. InStep'
  BY <1>1, <1>5, <1>7 DEF InStep, Busy
<1> QED
  BY <1>9, <1>11, <1>15, <1>16, <1>17 DEF Counts

(***************************************************************************)
(* A chunk reaches the host that receives its transfer.                    *)
(***************************************************************************)
LEMMA ArrivingChunk ==
  ASSUME Shape, Counts, up # <<>>, up' = Tail(up), host.state = "receiving",
         IsChunk(Head(up), host.id), todo = <<>>
  PROVE  /\ Shorter(up, up') /\ up[1] = Head(up) /\ Head(up).chunk \in Chunks
         /\ Head(up).chunk \in Flying /\ Head(up).chunk \notin host.held
         /\ host.consumed < host.granted
<1>1. Shorter(up, up') /\ up[1] = Head(up) /\ Head(up) \in ToHost
  BY UpShorter DEF Shape
<1> DEFINE c == Head(up).chunk
<1>2. c \in Chunks
  BY <1>1, MessageKinds DEF IsChunk, ChunkMessage
<1>3. Once(up, sending, host.id) /\ Flying \cap (host.held \cup Storing) = {}
  BY DEF Counts, ChunksApart, Receiving
<1>4. c \in Flying
  <2>1. IsChunk(up[1], host.id) /\ up[1].chunk = c
    BY <1>1
  <2>2. c \in ChunksOf(up, sending, host.id)
    BY <1>1, <1>3, <2>1, ChunkLeaves, Zenon
  <2> QED
    BY <2>2 DEF Flying
<1>5. c \notin host.held
  BY <1>3, <1>4
<1>6. host.consumed < host.granted
  <2> DEFINE S == host.held \ host.start
  <2>1. S \in SUBSET Chunks /\ c \notin S /\ S \cup {c} \in SUBSET Spent
          /\ Spent \in SUBSET Chunks
    BY <1>4, <1>5, SpentFacts DEF Shape, HostShape, HostRecord, Spent
  <2>2. Cardinality(S \cup {c}) = Cardinality(S) + 1
    BY <1>2, <2>1, OneMoreChunk
  <2>3. Cardinality(S \cup {c}) <= Cardinality(Spent)
    BY <2>1, ChunkSets
  <2>4. Cardinality(Spent) <= host.granted /\ host.consumed = Cardinality(S)
    BY DEF Counts, SpentGranted, Receiving, Consumed
  <2>5. host.consumed \in Nat /\ host.granted \in Nat /\ Cardinality(Spent) \in Nat
    BY <2>1, ChunkSets DEF Shape, HostShape, HostRecord
  <2> QED
    BY <2>2, <2>3, <2>4, <2>5
<1> QED
  BY <1>1, <1>2, <1>4, <1>5, <1>6

(* The host taking a chunk within its credit keeps the account. *)
LEMMA TakeKeepsCounts ==
  ASSUME Shape, Turns, Counts, HostTurn, up # <<>>, up' = Tail(up), todo = <<>>,
         HeardChunk(Head(up)), down' = down
  PROVE  Counts'
<1> DEFINE m == Head(up)
<1>1. host.state = "receiving" /\ IsChunk(m, host.id)
  BY DEF HeardChunk
<1>2. Shorter(up, up') /\ up[1] = m /\ m.chunk \in Flying
        /\ m.chunk \notin host.held
  BY <1>1, ArrivingChunk
<1>3. host.start \subseteq host.held
  BY DEF Shape, HostShape
<1>4. todo' = <<Store(m)>> /\ host' = host /\ replies' = replies
  BY <1>2, <1>3 DEF HeardChunk
<1> HIDE DEF m
<1>5. client' = client /\ queue' = queue /\ sending' = sending
  BY DEF HostTurn
<1>6. Answers' = Answers
  BY <1>4 DEF Answers
<1>7. Storing = {} /\ Storing' = {m.chunk}
  <2>1. Storing = {}
    BY SpentFacts
  <2>2. Len(todo') = 1 /\ todo'[1].op = "store" /\ todo'[1].chunk = m.chunk
    BY <1>4 DEF Store
  <2>3. {j \in 1 .. Len(todo') : todo'[j].op = "store"} = {1}
    BY <2>2
  <2> QED
    BY <2>1, <2>2, <2>3 DEF Storing
<1>8. Once(up, sending, host.id) /\ Flying \cap (host.held \cup Storing) = {}
  BY <1>1 DEF Counts, ChunksApart, Receiving
<1>9. /\ m.chunk \notin Flying' /\ Flying = Flying' \cup {m.chunk}
      /\ Once(up', sending', host'.id)
  <2>0. IsChunk(up[1], host.id) /\ up[1].chunk = m.chunk
    BY <1>1, <1>2
  <2>1. /\ m.chunk \notin ChunksOf(up', sending, host.id)
        /\ ChunksOf(up, sending, host.id) = ChunksOf(up', sending, host.id)
            \cup {m.chunk}
        /\ Once(up', sending, host.id)
    BY <1>2, <1>8, <2>0, ChunkLeaves, Zenon
  <2> QED
    BY <1>4, <1>5, <2>1 DEF Flying
<1>10. Spent' = Spent
  BY <1>4, <1>7, <1>9 DEF Spent
<1>11. ChunksApart'
  BY <1>4, <1>7, <1>8, <1>9 DEF ChunksApart
<1>12. Reading' /\ Consumed' /\ SpentGranted' /\ ReportsFit' /\ InStep'
  BY <1>4, <1>5, <1>6, <1>10 DEF Counts, Reading, Consumed, SpentGranted,
       ReportsFit, InStep, Receiving, Busy
<1> QED
  BY <1>11, <1>12 DEF Counts

(***************************************************************************)
(* The host has stored a chunk.                                            *)
(***************************************************************************)
LEMMA StoreKeepsCounts ==
  ASSUME Shape, Turns, Counts, HostTurn, todo # <<>>, Head(todo).op = "store",
         up' = up, down' = down,
         Credited([host EXCEPT !.held = @ \cup {Head(todo).chunk},
             !.consumed = @ + 1])
  PROVE  Counts'
<1> DEFINE h == [host EXCEPT !.held = @ \cup {Head(todo).chunk}, !.consumed = @ + 1]
<1>0. PICK c \in Chunks \ host.held, d \in Durable :
         LET w == [op |-> "store", id |-> host.id, chunk |-> c, data |-> d]
         IN  todo = <<w>> /\ Head(todo) = w
  BY OwedFacts DEF Shape
<1>1. PICK w : todo = <<w>> /\ w.op = "store" /\ w.chunk = c /\ Head(todo).chunk = c
  BY <1>0
<1>2. /\ host.state = "receiving" /\ host \in HostRecord /\ host.id \in Transfers
         /\ host.start \subseteq host.held
      /\ replies \in Seq(ToClient)
  BY OwedFacts DEF Shape, HostShape, StreamShape
<1>3. /\ h \in HostRecord /\ h.state = "receiving" /\ h.id = host.id
         /\ h.start = host.start
      /\ h.granted = host.granted /\ h.consumed = host.consumed + 1
  BY <1>1, <1>2, StoredFacts
<1>4. h.held = host.held \cup {c}
  BY <1>1, <1>2 DEF HostRecord
<1>5. Credited(h)
  OBVIOUS
<1> HIDE DEF h
<1>6. /\ host' \in HostRecord
      /\ host'.id = host.id /\ host'.held = host.held \cup {c}
          /\ host'.start = host.start
      /\ host'.consumed = host.consumed + 1 /\ host'.granted >= host.granted
      /\ host'.state = "receiving" => todo' = <<>>
      /\ \/ replies' = replies
         \/ /\ replies' = Append(replies, Answer(h.id, "ack", host'))
            /\ Answer(h.id, "ack", host') \in ReportMessage
  <2>1. /\ host' \in HostRecord
        /\ host'.id = h.id /\ host'.held = h.held /\ host'.start = h.start
        /\ host'.consumed = h.consumed /\ host'.granted >= h.granted
        /\ \/ h.held = Chunks /\ host'.state = "verifying"
           \/ h.held # Chunks /\ host'.state = "receiving" /\ todo' = <<>>
        /\ \/ h.held # Chunks /\ replies' = replies
           \/ /\ replies' = Append(replies, Answer(h.id, "ack", host'))
              /\ Answer(h.id, "ack", host') \in ReportMessage
    BY <1>2, <1>3, <1>5, CreditedCases
  <2> QED
    BY <1>3, <1>4, <2>1
<1>7. client' = client /\ queue' = queue /\ sending' = sending
  BY DEF HostTurn
\* What the host reports now is all it holds.
<1>8. Answers' = Answers
      \/ \E a : /\ Longer(Answers, Answers', a) /\ a.type = "ack" /\ a.id = host.id
                /\ a.held = host'.held /\ a.credit = host'.granted
  <2>1. CASE replies' = replies
    BY <2>1 DEF Answers
  <2>2. CASE /\ replies' = Append(replies, Answer(h.id, "ack", host'))
             /\ Answer(h.id, "ack", host') \in ReportMessage
    <3> DEFINE a == Answer(h.id, "ack", host')
    <3>1. /\ a \in ReportMessage /\ a.type = "ack" /\ a.id = host.id
             /\ replies' = Append(replies, a)
          /\ a.held = host'.held /\ a.credit = host'.granted
      BY <1>3, <2>2 DEF Answer
    <3>2. a \in ToClient
      BY <3>1 DEF ToClient
    <3> HIDE DEF a
    <3>3. Longer(Answers, Answers', a)
      BY <3>1, <3>2, AnswersAdded DEF Shape, AnswersAdd
    <3> QED
      BY <3>1, <3>3
  <2> QED
    BY <1>6, <2>1, <2>2
<1>9. \A i \in 1 .. Len(Answers') :
         \/ i \in 1 .. Len(Answers) /\ Answers'[i] = Answers[i]
         \/ Answers'[i].type = "ack" /\ Answers'[i].id = host.id
            /\ Answers'[i].held = host'.held /\ Answers'[i].credit = host'.granted
  BY <1>8 DEF Longer
<1>10. Flying' = Flying /\ Storing = {c} /\ c \in Spent /\ c \notin host.start
  <2>1. Storing = {c}
    BY <1>1, SpentFacts
  <2> QED
    BY <1>1, <1>2, <1>6, <1>7, <2>1 DEF Flying, Spent
<1>11. host'.state = "receiving" => Storing' = {}
  <2> HAVE host'.state = "receiving"
  <2>1. todo' = <<>> /\ Len(todo') = 0
    BY <1>6
  <2> QED
    BY <2>1 DEF Storing
<1>12. host'.state = "receiving" => Spent' = Spent
  BY <1>6, <1>10, <1>11 DEF Spent
\* All the host holds is spent, or was held when it opened.
<1>13. \A x \in host'.held : x \in Spent \/ x \in host.start
  BY <1>6, <1>10 DEF Spent
<1>14. Busy /\ host.id = Head(queue) =>
          /\ host.start \subseteq client.held /\ client.held \subseteq host.held
          /\ client.outstanding \cap (Spent \cup host.start) = {}
          /\ \A x \in Spent : x < client.cursor
          /\ Cardinality(Spent \cup client.outstanding) <= client.issued
          /\ client.issued <= client.credit
          /\ client.credit <= host.granted
  BY <1>2 DEF Counts, InStep, Receiving
<1>15. Reading'
  <2> SUFFICES ASSUME Busy, NEW i \in 1 .. Len(Answers'), Answers'[i].type = "ack",
                      Answers'[i].id = Head(queue)
               PROVE  /\ Answers'[i].held \cap client.outstanding = {}
                      /\ \A x \in Answers'[i].held : x < client.cursor
                          \/ x \in client.held
    BY <1>7 DEF Counts, Reading, Busy
  <2>1. CASE i \in 1 .. Len(Answers) /\ Answers'[i] = Answers[i]
    BY <2>1 DEF Counts, Reading
  <2>2. CASE Answers'[i].id = host.id /\ Answers'[i].held = host'.held
    BY <1>13, <1>14, <2>2
  <2> QED
    BY <1>9, <2>1, <2>2
<1>16. Consumed'
  <2> DEFINE S == host.held \ host.start
  <2>1. host'.held \ host'.start = S \cup {c}
    BY <1>6, <1>10
  <2>2. S \in SUBSET Chunks /\ c \notin S
    BY <1>1, <1>2 DEF HostRecord
  <2>3. Cardinality(S \cup {c}) = Cardinality(S) + 1
    BY <2>2, OneMoreChunk
  <2>4. host.consumed = Cardinality(S)
    BY <1>2 DEF Counts, Consumed
  <2> QED
    BY <1>6, <2>1, <2>3, <2>4 DEF Consumed
<1>17. CASE host'.state # "receiving"
  BY <1>15, <1>16, <1>17 DEF Counts, ChunksApart, SpentGranted, ReportsFit, InStep,
       Receiving
<1>18. CASE host'.state = "receiving"
  <2>0. host.granted \in Nat /\ host'.granted \in Nat
    BY <1>2, <1>6 DEF HostRecord
  <2>1. ChunksApart'
    <3>1. Once(up, sending, host.id) /\ Flying \cap (host.held \cup Storing) = {}
      BY <1>2 DEF Counts, ChunksApart, Receiving
    <3> QED
      BY <1>6, <1>7, <1>10, <1>11, <1>18, <3>1 DEF ChunksApart
  <2>2. SpentGranted'
    <3>1. Cardinality(Spent) <= host.granted /\ Cardinality(Spent) \in Nat
      BY <1>2, SpentFacts, ChunkSets DEF Counts, SpentGranted, Receiving
    <3>2. Cardinality(Spent') <= host'.granted
      BY <1>6, <1>12, <1>18, <2>0, <3>1
    <3> QED
      BY <3>2 DEF SpentGranted
  <2>3. ReportsFit'
    <3> SUFFICES ASSUME NEW i \in 1 .. Len(Answers'), Answers'[i].id = host.id,
                        Answers'[i].type \in {"accept", "ack"}
                 PROVE  /\ host.start \subseteq Answers'[i].held
                        /\ Answers'[i].held \subseteq host'.held
                        /\ Answers'[i].credit <= host'.granted
      BY <1>6 DEF ReportsFit
    <3>1. CASE i \in 1 .. Len(Answers) /\ Answers'[i] = Answers[i]
      <4>1. /\ host.start \subseteq Answers[i].held
            /\ Answers[i].held \subseteq host.held
            /\ Answers[i].credit <= host.granted
        BY <1>2, <3>1 DEF Counts, ReportsFit, Receiving
      <4>2. Answers[i].credit \in Nat
        <5>1. Answers[i] \in ToClient
          BY <3>1, AnswersAre DEF Shape
        <5>2. Answers[i] \in ReportMessage
          BY <3>1, <5>1, MessageKinds
        <5> QED
          BY <5>2 DEF ReportMessage
      <4> QED
        BY <1>6, <2>0, <3>1, <4>1, <4>2
    <3>2. CASE Answers'[i].held = host'.held /\ Answers'[i].credit = host'.granted
      BY <1>2, <1>6, <2>0, <3>2
    <3> QED
      BY <1>9, <3>1, <3>2
  <2>4. InStep'
    <3> SUFFICES ASSUME Busy, host.id = Head(queue)
                 PROVE  /\ host.start \subseteq client.held
                           /\ client.held \subseteq host'.held
                        /\ client.outstanding \cap (Spent \cup host.start) = {}
                        /\ \A x \in Spent : x < client.cursor
                        /\ Cardinality(Spent \cup client.outstanding) <= client.issued
                        /\ client.issued <= client.credit
                        /\ client.credit <= host'.granted
      BY <1>6, <1>7, <1>12, <1>18 DEF InStep, Busy
    <3>1. client.credit \in Nat
      BY DEF Shape, ClientShape, ClientRecord
    <3> QED
      BY <1>6, <1>14, <2>0, <3>1
  <2> QED
    BY <1>15, <1>16, <2>1, <2>2, <2>3, <2>4 DEF Counts
<1> QED
  BY <1>17, <1>18

(***************************************************************************)
(* The counts hold at every step.                                          *)
(***************************************************************************)
LEMMA HostKeepsCounts ==
  ASSUME Shape, Turns, Counts, HostSteps
  PROVE  Counts'
<1>0. HostTurn
  BY HostTurns
<1>1. CASE HostIngest
  <2> DEFINE m == Head(up)
  <2>1. /\ up # <<>> /\ up' = Tail(up) /\ todo = <<>> /\ m \in ToHost
           /\ down' = down
        /\ HeardNothing \/ HeardBusy(m) \/ HeardOffer(m) \/ HeardEnd(m)
            \/ HeardChunk(m)
        /\ HeardNothing => host.state = "awaitingOffer"
    BY <1>1, HostIngestCases
  <2>2. CASE HeardNothing
    BY <1>0, <2>1, <2>2, RearmKeepsCounts DEF HeardNothing
  <2>3. ~HeardBusy(m)
    BY <2>1, NotBusy DEF HeardBusy
  <2>4. CASE HeardOffer(m)
    <3>1. m.id \in Transfers /\ m = Offer(m.id) /\ host.state = "awaitingOffer"
      BY <2>1, <2>4, MessageKinds DEF HeardOffer
    <3>2. UpPops /\ up[1] = m
      BY <2>1, UpShorter DEF Shape, UpPops
    <3> HIDE DEF m
    <3>3. CASE AcceptOffer(m.id)
      <4>1. up[1] = Offer(m.id)
        BY <3>1, <3>2
      <4> QED
        BY <1>0, <2>1, <3>1, <3>2, <3>3, <4>1, OpenKeepsCounts
    <3>4. CASE RefuseOffer(m.id)
      <4>1. host'.state = "awaitingOffer"
        BY <3>4 DEF RefuseOffer, Rearmed
      <4> QED
        BY <1>0, <4>1, RearmKeepsCounts
    <3> QED
      BY <2>4, <3>3, <3>4 DEF HeardOffer
  <2>5. CASE HeardEnd(m)
    <3>1. host'.state = "awaitingOffer"
      BY <2>5 DEF HeardEnd, Discard, Rearmed
    <3> QED
      BY <1>0, <3>1, RearmKeepsCounts
  <2>6. CASE HeardChunk(m)
    BY <1>0, <2>1, <2>6, TakeKeepsCounts
  <2> QED
    BY <2>1, <2>2, <2>3, <2>4, <2>5, <2>6
<1>2. CASE StoreChunk
  <2>1. todo # <<>> /\ Head(todo).op = "store" /\ up' = up /\ down' = down
    BY <1>2 DEF StoreChunk
  <2>2. CASE Credited([host EXCEPT !.held = @ \cup {Head(todo).chunk},
               !.consumed = @ + 1])
    BY <1>0, <2>1, <2>2, StoreKeepsCounts
  <2>3. CASE FailStorage
    <3>1. host'.state = "awaitingOffer"
      BY <2>3 DEF FailStorage, Rearmed
    <3> QED
      BY <1>0, <3>1, RearmKeepsCounts
  <2> QED
    BY <1>2, <2>2, <2>3 DEF StoreChunk
<1>3. CASE Verify
  <2>1. todo # <<>> /\ Head(todo).op = "verify" /\ down' = down
    BY <1>3 DEF Verify
  <2>2. host.state = "verifying" /\ Head(todo).id = host.id /\ host.id \in Transfers
    BY <2>1, OwedFacts DEF Shape, HostShape
  <2>3. CASE host' = host
               /\ replies' = Append(replies,
                   [type |-> "complete", id |-> Head(todo).id])
    <3> DEFINE f == [type |-> "complete", id |-> host.id]
    <3>1. f \in ToClient /\ f.type # "ack"
      BY <2>2, AppendShape DEF Shape
    <3>2. replies' = Append(replies, f)
      BY <2>2, <2>3
    <3> HIDE DEF f
    <3>3. Longer(Answers, Answers', f)
      BY <2>1, <3>1, <3>2, AnswersAdded DEF Shape, AnswersAdd
    <3>4. Consumed'
      BY <2>3 DEF Counts, Consumed
    <3> QED
      BY <1>0, <2>2, <2>3, <3>1, <3>3, <3>4, PauseKeepsCounts
  <2>4. CASE host'.state = "awaitingOffer"
    BY <1>0, <2>4, RearmKeepsCounts
  <2>5. \/ host' = host
           /\ replies' = Append(replies,
               [type |-> "complete", id |-> Head(todo).id])
        \/ Discard(Head(todo).id) \/ FailStorage
    BY <1>3 DEF Verify
  <2>6. Discard(Head(todo).id) \/ FailStorage => host'.state = "awaitingOffer"
    <3>1. \A b : Rearmed(b).state = "awaitingOffer"
      BY DEF Rearmed
    <3> QED
      BY <3>1 DEF FailStorage, Discard
  <2> QED
    BY <2>3, <2>4, <2>5, <2>6
<1>4. CASE Link
  <2>1. host'.state = "awaitingOffer"
    BY <1>4 DEF Link, Discard, Rearmed
  <2> QED
    BY <1>0, <2>1, RearmKeepsCounts
<1>5. CASE DropPart \/ DropRecord
  <2>1. host.state = "awaitingOffer" /\ host' = host
    BY <1>5, OwedFacts DEF DropPart, DropRecord, Shape
  <2> QED
    BY <1>0, <2>1, RearmKeepsCounts
<1>6. CASE SendReplies
  <2>1. /\ down' = down \o replies /\ replies' = <<>>
        /\ UNCHANGED <<client, queue, sending, up, host, todo>>
    BY <1>6 DEF SendReplies, clientVars
  <2>2. Answers' = Answers
    BY <2>1, AnswersSent DEF Shape
  <2> QED
    BY <2>1, <2>2, QuietKeepsCounts
<1> QED
  BY <1>1, <1>2, <1>3, <1>4, <1>5, <1>6 DEF HostSteps

(* Every step keeps the account of the credit. *)
LEMMA CountsKept ==
  ASSUME Shape, Turns, Counts, BulkNext
  PROVE  Counts'
<1>1. CASE SessionEnds \/ HostCrashes
  <2>1. \E left : NextSession(left)
    BY <1>1 DEF SessionEnds, HostCrashes
  <2>2. client'.state = "idle" /\ host'.state = "awaitingOffer"
    BY <2>1 DEF NextSession, NoShell, Rearmed
  <2> QED
    BY <2>2 DEF Counts, Reading, Consumed, ChunksApart, SpentGranted, ReportsFit,
         InStep, Busy, Receiving
<1>2. CASE HostSteps
  BY <1>2, HostKeepsCounts
<1>3. CASE \/ Begin \/ ClientIngest \/ SendChunk \/ CancelAll \/ SourceChanges
           \/ \E c \in Chunks : SupplyChunk(c) \/ ReadFails(c)
  BY <1>3, ClientKeepsCounts
<1> QED
  BY <1>1, <1>2, <1>3 DEF BulkNext, ClientSteps, Disturbances

(* The invariant holds of the initial states. *)
LEMMA BulkStarts ==
  ASSUME BulkInit
  PROVE  BulkInv
<1>0. {N, Files, MaxSessions} \subseteq Nat \ {0} /\ MaxFaults \in Nat
  BY BulkAssumption
<1>1. /\ Len(up) = 0 /\ Len(todo) = 0 /\ Len(Answers) = 0 /\ Answers = <<>>
      /\ client.state = "idle" /\ sending = {} /\ host.state = "awaitingOffer"
      /\ up = <<>> /\ down = <<>> /\ replies = <<>> /\ todo = <<>>
  BY DEF BulkInit, Answers, NoShell
<1>2. ClientShape
  <2>1. queue = [i \in 1 .. Files |-> i]
    BY DEF BulkInit
  <2>2. queue \in Seq(Transfers) /\ Len(queue) = Files
    BY <1>0, <2>1 DEF Transfers
  <2>3. QueueInOrder
    BY <1>0, <2>1, <2>2 DEF QueueInOrder
  <2>4. client = NoShell /\ client \in ClientRecord
    BY <1>0 DEF BulkInit, NoShell, ClientRecord
  <2>5. client.state # "offering" /\ sent \subseteq Transfers
          /\ changed \subseteq Transfers
    BY <1>1 DEF BulkInit
  <2> QED
    BY <1>1, <2>3, <2>4, <2>5 DEF ClientShape
<1>3. \A D : DOMAIN <<>> = {} /\ <<>> \in [{} -> D]
  OBVIOUS
<1>4. <<>> \in Books
  <2>1. <<>> \in [{} -> SUBSET Chunks] /\ {} \in SUBSET Transfers
    BY <1>3
  <2> QED
    BY <2>1 DEF Books
<1>5. StreamShape
  BY <1>1, EmptySeq DEF StreamShape
<1>6. HostShape
  <2>1. host \in HostRecord /\ host.start \subseteq host.held /\ host.consumed = 0
    BY <1>4 DEF BulkInit, HostRecord
  <2>2. TodoFits
    BY <1>1 DEF TodoFits
  <2> QED
    BY <1>1, <2>1, <2>2 DEF HostShape
<1>7. DiskShape
  <2>1. part \in UNION {[D -> Inodes] : D \in SUBSET Transfers}
    <3>1. part \in [{} -> Inodes] /\ {} \in SUBSET Transfers
      BY <1>3 DEF BulkInit
    <3> QED
      BY <3>1
  <2>2. record \in Books
    BY <1>4 DEF BulkInit
  <2>3. blocks \in [Inodes -> [Chunks -> Contents]]
    BY DEF BulkInit, Contents
  <2>4. visible \subseteq Inodes /\ lost \subseteq Transfers
          /\ session \in 1 .. MaxSessions /\ faults \in 0 .. MaxFaults
    BY <1>0 DEF BulkInit
  <2> QED
    BY <2>1, <2>2, <2>3, <2>4 DEF DiskShape
<1>8. Disk
  <2>1. DOMAIN part = {} /\ DOMAIN record = {} /\ DOMAIN host.book = {} /\ sent = {}
    BY DEF BulkInit
  <2>2. NamesDistinct /\ EngineDurable /\ BookDurable /\ RecordDurable /\ SentShown
    BY <1>1, <2>1 DEF NamesDistinct, EngineDurable, BookDurable, RecordDurable,
         SentShown
  <2>3. LinkVerified
    BY <1>1 DEF LinkVerified, Owes
  <2>4. CompletesShown
    BY <1>1 DEF CompletesShown
  <2> QED
    BY <2>2, <2>3, <2>4 DEF Disk
<1>9. Turns
  <2>1. InPlay
    BY <1>1 DEF InPlay
  <2>2. Offers
    BY <1>1 DEF Offers, OffersApart, OffersOpen, OffersFresh, OffersWait
  <2>3. Verdicts
    BY <1>1 DEF Verdicts, HostWanted, VerdictsLast
  <2>4. Accepts
    BY <1>1 DEF Accepts, AcceptsOnce, OfferingQuiet
  <2> QED
    BY <2>1, <2>2, <2>3, <2>4 DEF Turns
<1>10. Counts
  BY <1>1 DEF Counts, Reading, Consumed, ChunksApart, SpentGranted, ReportsFit,
       InStep, Busy, Receiving
<1> QED
  BY <1>2, <1>5, <1>6, <1>7, <1>8, <1>9, <1>10 DEF BulkInv, Shape

(* It survives a step that changes nothing. *)
LEMMA BulkStutters ==
  ASSUME BulkInv, UNCHANGED bulkVars
  PROVE  BulkInv'
<1>1. /\ UNCHANGED <<queue, sent, client, sending, changed, up, down, host, todo,
         replies>>
      /\ UNCHANGED <<part, record, blocks, visible, lost, session, faults>>
  BY DEF bulkVars, clientVars, hostVars, diskVars
<1>2. Answers' = Answers
  BY <1>1 DEF Answers
<1>3. Shape'
  BY <1>1 DEF BulkInv, Shape, ClientShape, QueueInOrder, StreamShape, HostShape,
       TodoFits, DiskShape
<1>4. Disk'
  BY <1>1, <1>2 DEF BulkInv, Disk, NamesDistinct, EngineDurable, BookDurable,
       RecordDurable, LinkVerified,
       CompletesShown, SentShown, Has, Hosting, Owes, Shown, DigestMatches
<1>5. Turns'
  <2>1. InPlay'
    BY <1>1, <1>2 DEF BulkInv, Turns, InPlay, Offered
  <2>2. Offers'
    BY <1>1, <1>2 DEF BulkInv, Turns, Offers, OffersApart, OffersOpen, OffersFresh,
         OffersWait, Active, NoChunk
  <2>3. Verdicts'
    BY <1>1, <1>2 DEF BulkInv, Turns, Verdicts, HostWanted, VerdictsLast, Active,
         Hosting
  <2>4. Accepts'
    BY <1>1, <1>2 DEF BulkInv, Turns, Accepts, AcceptsOnce, OfferingQuiet, Active,
         Hosting, NoChunk
  <2> QED
    BY <2>1, <2>2, <2>3, <2>4 DEF Turns
<1>6. Counts'
  BY <1>1, <1>2 DEF BulkInv, Counts, Reading, Consumed, ChunksApart, SpentGranted,
       ReportsFit, InStep,
       Busy, Receiving, Spent, Flying, Storing
<1> QED
  BY <1>3, <1>4, <1>5, <1>6 DEF BulkInv

(* It survives every step. *)
LEMMA BulkKept ==
  ASSUME BulkInv, BulkNext
  PROVE  BulkInv'
<1>1. Shape /\ Disk /\ Turns /\ Counts
  BY DEF BulkInv
<1>2. DiskShape' /\ Disk'
  BY <1>1, DiskKept
<1>3. ClientShape' /\ StreamShape' /\ HostShape'
  BY <1>1, ClientShapeKept, StreamShapeKept, HostShapeKept
<1>4. Turns'
  BY <1>1, TurnsKept
<1>5. Counts'
  BY <1>1, CountsKept
<1> QED
  BY <1>2, <1>3, <1>4, <1>5 DEF BulkInv, Shape

(***************************************************************************)
(* The two engines, the streams and the disk agree in every state.         *)
(***************************************************************************)
THEOREM BulkInvariance == BulkSpec => []BulkInv
<1>1. BulkInit => BulkInv
  BY BulkStarts
<1>2. BulkInv /\ [BulkNext]_bulkVars => BulkInv'
  BY BulkKept, BulkStutters
<1> QED
  BY <1>1, <1>2, PTL DEF BulkSpec

(***************************************************************************)
(* Everything the host says it has is on its disk: what the engine, its    *)
(* book and its records claim of a part is durable, the client counts a    *)
(* chunk as held only if the host holds it, and a file the client was told *)
(* is complete is visible in the inbox, whatever failed or crashed and     *)
(* however often the transfer was resumed.                                 *)
(***************************************************************************)
THEOREM SaidStored == BulkSpec => []SaidIsStored
<1>1. ASSUME BulkInv PROVE SaidIsStored
  <2>1. Shape /\ Disk /\ Turns /\ Counts
    BY <1>1 DEF BulkInv
  <2>2. SentIsVisible
    BY <2>1 DEF Disk, SentShown, Shown, SentIsVisible
  <2>3. host.state # "awaitingOffer" => Has(host.id, host.held)
    BY <2>1 DEF Disk, EngineDurable
  <2>4. \A t \in DOMAIN host.book : Has(t, host.book[t])
    BY <2>1 DEF Disk, BookDurable
  <2>5. \A t \in DOMAIN record \cap DOMAIN part : Has(t, record[t])
    BY <2>1 DEF Disk, RecordDurable
  <2>6. host.state = "receiving" /\ client.state # "idle" /\ host.id = Head(queue)
            => client.held \subseteq host.held
    <3>1. CASE Busy
      BY <2>1, <3>1 DEF Counts, InStep, Receiving
    <3>2. CASE ~Busy /\ client.state # "idle"
      <4>1. client.state = "offering"
        BY <2>1, <3>2 DEF Shape, ClientShape, ClientRecord, Busy
      <4>2. client.held = {}
        BY <2>1, <4>1 DEF Shape, ClientShape, NoShell
      <4> QED
        BY <4>2
    <3> QED
      BY <3>1, <3>2
  <2>7. PossessionDurable
    BY <2>3, <2>4, <2>5, <2>6 DEF PossessionDurable, Has
  <2> QED
    BY <2>2, <2>7 DEF SaidIsStored
<1> QED
  BY <1>1, BulkInvariance, PTL

(***************************************************************************)
(* The promotion makes visible only a part whose every chunk is the        *)
(* offered content: no chunk cut short by a crash, none of a file that     *)
(* changed under the sender, and nothing written after the verification.   *)
(***************************************************************************)
THEOREM PromotesVerified == BulkSpec => PromotedVerified
<1>1. ASSUME BulkInv, BulkNext, NEW x \in visible' \ visible, NEW c \in Chunks
      PROVE  blocks'[x][c] = "offered"
  <2>1. Shape /\ Disk
    BY <1>1 DEF BulkInv
  <2>2. Link
    BY <1>1 DEF BulkNext, ClientSteps, HostSteps, Disturbances, Begin,
         ClientIngest, SendChunk, SupplyChunk,
         ReadFails, CancelAll, SourceChanges, SessionEnds, HostCrashes, HostIngest,
             StoreChunk, Verify,
         DropPart, DropRecord, SendReplies, hostVars, diskVars
  <2>3. todo # <<>> /\ Head(todo).op = "link" /\ blocks' = blocks
          /\ x = part[Head(todo).id]
    BY <1>1, <2>2 DEF Link
  <2>4. host.id \in Transfers /\ todo = <<Do("link", host.id)>>
          /\ Head(todo).id = host.id
    BY <2>1, <2>3, OwedFacts DEF Shape, HostShape
  <2>5. Owes(todo, "link", host.id)
    BY <2>4 DEF Owes
  <2>6. DigestMatches(host.id)
    BY <2>1, <2>4, <2>5 DEF Disk, LinkVerified
  <2> QED
    BY <2>3, <2>4, <2>6 DEF DigestMatches
<1>2. BulkInv /\ [BulkNext]_bulkVars =>
        [\A x \in visible' \ visible : \A c \in Chunks : blocks'[x][c] = "offered"]_bulkVars
  BY <1>1
<1> QED
  BY <1>2, BulkInvariance, PTL DEF BulkSpec, PromotedVerified

(***************************************************************************)
(* Every step of the two engines keeps the record of refusals free of the  *)
(* three the client must never earn.                                       *)
(***************************************************************************)
LEMMA HonestKept ==
  ASSUME BulkInv, HonestNeverRefused, BulkNext
  PROVE  HonestNeverRefused'
<1>1. Shape /\ Turns /\ Counts
  BY DEF BulkInv
<1>2. CASE \/ Begin \/ ClientIngest \/ SendChunk \/ CancelAll \/ SourceChanges
           \/ \E c \in Chunks : SupplyChunk(c) \/ ReadFails(c)
  <2>1. refused' = refused
    BY <1>1, <1>2, ClientTurns
  <2> QED
    BY <2>1 DEF HonestNeverRefused
<1>3. CASE HostIngest
  <2> DEFINE m == Head(up)
  <2>1. /\ up # <<>> /\ up' = Tail(up) /\ todo = <<>>
        /\ \/ refused' \in {refused, refused \cup {"unexpected chunk"},
              refused \cup {"foreign transfer"}}
           \/ HeardBusy(m)
           \/ host.state = "receiving" /\ IsChunk(m, host.id)
               /\ host.consumed >= host.granted
           \/ host.state = "receiving" /\ IsChunk(m, host.id)
               /\ m.chunk \in host.held \ host.start
    BY <1>1, <1>3, HostIngestCases
  <2>2. ~HeardBusy(m)
    BY <1>1, <2>1, NotBusy DEF HeardBusy
  <2>3. host.state = "receiving" /\ IsChunk(m, host.id) => m.chunk \notin host.held
          /\ host.consumed < host.granted
    BY <1>1, <2>1, ArrivingChunk
  <2>4. host.consumed \in Nat /\ host.granted \in Nat
    BY <1>1 DEF Shape, HostShape, HostRecord
  <2>5. refused' \in {refused, refused \cup {"unexpected chunk"},
          refused \cup {"foreign transfer"}}
    <3>1. ~(host.state = "receiving" /\ IsChunk(m, host.id)
            /\ host.consumed >= host.granted)
      BY <2>3, <2>4
    <3>2. ~(host.state = "receiving" /\ IsChunk(m, host.id)
            /\ m.chunk \in host.held \ host.start)
      BY <2>3
    <3> QED
      BY <2>1, <2>2, <3>1, <3>2, Zenon
  <2> QED
    BY <2>5 DEF HonestNeverRefused
<1>4. CASE \/ StoreChunk \/ Verify \/ Link \/ DropPart \/ DropRecord \/ SendReplies
           \/ SessionEnds \/ HostCrashes
  <2>1. refused' = refused
    BY <1>4 DEF StoreChunk, Verify, Link, DropPart, DropRecord, SendReplies,
         SessionEnds, HostCrashes
  <2> QED
    BY <2>1 DEF HonestNeverRefused
<1> QED
  BY <1>2, <1>3, <1>4 DEF BulkNext, ClientSteps, HostSteps, Disturbances

(***************************************************************************)
(* The host's engine never refuses the client of this program: no offer    *)
(* finds it busy, no chunk finds its credit exhausted, and no chunk is one *)
(* the host took since the offer.                                          *)
(***************************************************************************)
THEOREM NeverRefused == BulkSpec => []HonestNeverRefused
<1>1. BulkInit => HonestNeverRefused
  BY DEF BulkInit, HonestNeverRefused
<1>2. BulkInv /\ HonestNeverRefused /\ [BulkNext]_bulkVars => HonestNeverRefused'
  BY HonestKept DEF HonestNeverRefused, bulkVars
<1> QED
  BY <1>1, <1>2, BulkInvariance, PTL DEF BulkSpec

(***************************************************************************)
(* The type invariant, for every number of files, chunks and sessions and  *)
(* every credit.                                                           *)
(***************************************************************************)
THEOREM BulkTyped == BulkSpec => []BulkTypeOK
<1>1. ASSUME BulkInv PROVE BulkTypeOK
  <2>0. N \in Nat /\ Files \in Nat
    BY BulkAssumption
  <2>1. ClientShape /\ HostShape /\ DiskShape /\ Disk /\ Counts
    BY <1>1 DEF BulkInv, Shape
  <2>2. \E i \in 0 .. Files : queue = [j \in 1 .. (Files - i) |-> i + j]
    <3>1. /\ queue \in Seq(Transfers) /\ Len(queue) \in Nat /\ Len(queue) <= Files
          /\ \A j \in 1 .. Len(queue) : queue[j] = Files - Len(queue) + j
      BY <2>1, LenProperties DEF ClientShape, QueueInOrder
    <3>2. PICK i \in 0 .. Files : i = Files - Len(queue)
      BY <2>0, <3>1
    <3>3. Files - i = Len(queue)
      BY <2>0, <3>1, <3>2
    <3>4. \A j \in 1 .. Len(queue) : queue[j] = i + j
      BY <3>1, <3>2
    <3>5. queue = [j \in 1 .. Len(queue) |-> queue[j]]
      BY <3>1
    <3>6. queue = [j \in 1 .. (Files - i) |-> i + j]
      BY <3>3, <3>4, <3>5
    <3> QED
      BY <3>6
  <2>3. {sent, changed, lost, DOMAIN part, DOMAIN record,
          DOMAIN host.book} \subseteq SUBSET Transfers
    BY <2>1 DEF ClientShape, DiskShape, HostShape, HostRecord, Books
  <2>4. /\ client.state \in {"idle", "offering", "transferring",
           "awaitingVerification"}
        /\ client.unconfirmed \subseteq Chunks /\ client.held \subseteq Chunks
        /\ client.cursor \in 0 .. N
    BY <2>1 DEF ClientShape, ClientRecord
  <2>5. client.outstanding \subseteq client.unconfirmed /\ client.issued <= N
    <3>1. CASE Busy
      <4>1. client.outstanding \subseteq client.unconfirmed
              /\ client.issued <= client.cursor
        BY <2>1, <3>1 DEF Counts, Reading
      <4>2. client.issued \in Nat
        BY <2>1 DEF ClientShape, ClientRecord
      <4> QED
        BY <2>0, <2>4, <4>1, <4>2
    <3>2. CASE ~Busy
      <4>1. client.state = "idle" \/ client.state = "offering"
        BY <2>4, <3>2 DEF Busy
      <4>2. client.outstanding = {} /\ client.issued = 0
        BY <2>1, <4>1 DEF ClientShape, NoShell
      <4> QED
        BY <2>0, <4>2
    <3> QED
      BY <3>1, <3>2
  <2>6. /\ host.state \in {"awaitingOffer", "receiving", "verifying"}
        /\ host.state = "receiving" => host.id \in DOMAIN part /\ host.held # Chunks
        /\ host.start \subseteq host.held
    BY <2>1 DEF HostShape, HostRecord, Disk, EngineDurable, Has
  <2>7. host.consumed \in 0 .. N
    <3>1. CASE host.state = "awaitingOffer"
      BY <2>0, <2>1, <3>1 DEF HostShape
    <3>2. CASE host.state # "awaitingOffer"
      <4>1. host.held \ host.start \in SUBSET Chunks
        BY <2>1 DEF HostShape, HostRecord
      <4>2. /\ Cardinality(host.held \ host.start) \in Nat
            /\ Cardinality(host.held \ host.start) <= Cardinality(Chunks)
        BY <4>1, ChunkSets
      <4>3. Cardinality(Chunks) = N
        BY <2>0, FS_Interval DEF Chunks
      <4> QED
        BY <2>0, <2>1, <3>2, <4>2, <4>3 DEF Counts, Consumed
    <3> QED
      BY <3>1, <3>2
  <2>8. /\ \A x \in Inodes, c \in Chunks : blocks[x][c] \in Contents
        /\ visible \subseteq Inodes
        /\ session \in 1 .. MaxSessions /\ faults \in 0 .. MaxFaults
    BY <2>1 DEF DiskShape
  <2> QED
    BY <2>2, <2>3, <2>4, <2>5, <2>6, <2>7, <2>8 DEF BulkTypeOK
<1> QED
  BY <1>1, BulkInvariance, PTL

=============================================================================
