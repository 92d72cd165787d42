-------------------------- MODULE ArqReceiveGroups --------------------------
(***************************************************************************)
(* The one-shot receive groups of ArqEndpoint.swift: admission under the   *)
(* two caps, reassembly, poisoning past the message ceiling, reclaim of    *)
(* abandoned groups, tombstones and the eviction watermark behind them.    *)
(* The peer is authenticated but otherwise free: any segment of any group, *)
(* any number of times, in any order.                                      *)
(*                                                                         *)
(* A segment body is one unit; a group's segments number from 1 (wire v1   *)
(* pins the first seq) and stay far below the seq space, whose arithmetic  *)
(* ArqStream has.  Group ids are raw 16-bit values compared serially.      *)
(***************************************************************************)
EXTENDS SerialNumbers, SequencesExt

CONSTANTS
  GroupSpace,     \* values of a group id on the wire (65,536); 0 is the stream
  Groups,         \* the one-shot ids the peer uses
  Persistent,     \* those whose segments it repeats until acknowledged
  Length,         \* segments of each group's message
  MaxActive,      \* ArqConfig.maxActiveReceiveGroups
  MaxOpenOneShot, \* maxOneShotReceiveByteCount / maxMessageByteCount
  MaxTombstones,  \* ArqConfig.maxClosedGroupTombstones
  Ceiling,        \* ArqConfig.maxMessageByteCount, in units
  Window,         \* ArqConfig.receiveWindowSegments
  Lifetime        \* ArqConfig.receiveGroupLifetimeMicroseconds, in ticks

\* The ids in use lie within half the space from some id on, as an ascending
\* sender's do until it has sent 32,767 more.
ASSUME ReceiveGroupsAssumption ==
  /\ GroupSpace \in Nat \ {0} /\ Groups \subseteq 1 .. GroupSpace - 1
  /\ Persistent \subseteq Groups
  /\ \E first \in 0 .. GroupSpace - 1 :
       \A g \in Groups : 2 * ((g - first) % GroupSpace) < GroupSpace
  /\ Length \in [Groups -> Nat \ {0}]
  /\ MaxActive \in Nat \ {0} /\ MaxOpenOneShot \in Nat \ {0}
  /\ MaxTombstones \in Nat /\ Ceiling \in Nat \ {0}
  /\ Window \in Nat \ {0} /\ Lifetime \in Nat \ {0}

VARIABLES
  table,      \* the group tables of the endpoint, a record:
              \*   open     recvGroups but for the stream: id -> group
              \*   closed   closedRecvGroups: id -> final cumulative
              \*   order    closedRecvOrder from its head on
              \*   evicted  evictedThrough, NoGroup when nil
              \*   owed     ackNeeded
  streamOpen, \* recvGroups holds the ordered stream
  delivered,  \* history: id -> times its message was delivered
  reached,    \* history: id -> cumulative at which it was given up, or -1
  got,        \* history: id -> segments ever taken in
  acked       \* history: id -> segments ever acknowledged

groupsVars == <<table, streamOpen, delivered, reached, got, acked>>

NoGroup == 0

GroupsInit ==
  /\ table = [open |-> << >>, closed |-> << >>, order |-> << >>,
              evicted |-> NoGroup, owed |-> {}]
  /\ streamOpen = FALSE
  /\ delivered = [g \in Groups |-> 0] /\ reached = [g \in Groups |-> -1]
  /\ got = [g \in Groups |-> {}] /\ acked = [g \in Groups |-> {}]

-----------------------------------------------------------------------------
(* The tables.                                                             *)

Without(f, k) == [x \in DOMAIN f \ {k} |-> f[x]]
With(f, k, v) == [x \in DOMAIN f \cup {k} |-> IF x = k THEN v ELSE f[x]]

Ahead(g, h) == SerialDistance(GroupSpace, h, g) > 0

\* isClosedOneShot: a tombstone, or an id at or behind the watermark.
IsClosed(t, g) ==
  \/ g \in DOMAIN t.closed
  \/ g \notin DOMAIN t.open /\ t.evicted # NoGroup /\ ~Ahead(g, t.evicted)

\* Fault: the watermark is the id evicted last, not the serially highest.
MarkLast(mark, victim) == victim

\* evictedThrough after one more eviction.
Mark(mark, victim) ==
  IF mark = NoGroup \/ Ahead(victim, mark) THEN victim ELSE mark

\* rememberClosed: a new tombstone, the oldest evicted past the limit.
RememberClosed(t, g, cumulative) ==
  LET order == Append(t.order, g)
      closed == With(t.closed, g, cumulative)
  IN IF g \in DOMAIN t.closed
       THEN [t EXCEPT !.closed[g] = IF cumulative > @ THEN cumulative ELSE @]
     ELSE IF Len(order) > MaxTombstones
       THEN [t EXCEPT !.closed = Without(closed, Head(order)),
                      !.order = Tail(order),
                      !.evicted = Mark(@, Head(order))]
     ELSE [t EXCEPT !.closed = closed, !.order = order]

\* closeRecvGroup.
Close(t, g) ==
  RememberClosed([t EXCEPT !.open = Without(@, g)], g, t.open[g].cumulative)

\* Fault: a group that never closes holds its slot for good.
NeverAbandoned(t) == {}

\* The groups open past their lifetime.
Abandoned(t) == {g \in DOMAIN t.open : t.open[g].age >= Lifetime}

\* Fault: an abandoned group is dropped without a tombstone.
ReclaimForgetting(t, g) ==
  [t EXCEPT !.open = Without(@, g), !.owed = @ \ {g}]

\* One abandoned group, closed where it stands and owed no acknowledgement.
Reclaim(t, g) == [Close(t, g) EXCEPT !.owed = @ \ {g}]

\* reclaimAbandonedReceiveGroups, closing them in the given order (that of
\* the dictionary, so any).
Reclaimed(t, order) ==
  LET after[i \in 0 .. Len(order)] ==
        IF i = 0 THEN t ELSE Reclaim(after[i - 1], order[i])
  IN after[Len(order)]

GivenUp(t) ==
  [g \in Groups |-> IF g \in Abandoned(t) THEN t.open[g].cumulative
                    ELSE reached[g]]

-----------------------------------------------------------------------------
(* Ingest.                                                                 *)

\* The two admission caps; the stream counts toward the first only.
AdmitsAnother(t) ==
  /\ Cardinality(DOMAIN t.open) + (IF streamOpen THEN 1 ELSE 0) < MaxActive
  /\ Cardinality(DOMAIN t.open) < MaxOpenOneShot

\* RecvGroup.heldByteCount: assembled and buffered units.
Held(group) == group.cumulative + Cardinality(group.buffered)

\* The segment would take the group's message past the ceiling.
Overflows(group) == Held(group) + 1 > Ceiling

\* The group after taking in segment s and draining the in-order run.
Drained(group, s) ==
  LET held == group.buffered \cup {s}
      end == CHOOSE e \in {group.cumulative} \cup held :
               /\ \A q \in group.cumulative + 1 .. e : q \in held
               /\ e + 1 \notin held
  IN [group EXCEPT !.cumulative = end, !.buffered = {q \in held : q > end}]

Owe(t, g) == [t EXCEPT !.owed = @ \cup {g}]

\* A segment of a closed group is re-acknowledged: at the tombstone's
\* cumulative, or, the tombstone evicted, at the segment itself.
OnClosedGroup(t, g, s) ==
  /\ IsClosed(t, g)
  /\ table' = Owe(IF g \in DOMAIN t.closed THEN t
                  ELSE RememberClosed(t, g, s), g)
  /\ reached' = GivenUp(table)
  /\ UNCHANGED <<delivered, got>>

\* A segment that would open a group past either cap is refused,
\* unacknowledged.
Refused(t, g) ==
  /\ ~IsClosed(t, g) /\ g \notin DOMAIN t.open /\ ~AdmitsAnother(t)
  /\ table' = t
  /\ reached' = GivenUp(table)
  /\ UNCHANGED <<delivered, got>>

\* Any other segment: accept on its group, opened if need be.
OnOpenGroup(t, g, s) ==
  LET group == IF g \in DOMAIN t.open THEN t.open[g]
               ELSE [cumulative |-> 0, buffered |-> {}, age |-> 0]
      holding(state) == [t EXCEPT !.open = With(@, g, state)]
      duplicate == s <= group.cumulative \/ s \in group.buffered
      beyond == s > group.cumulative + Window
      after == Drained(group, s)
  IN /\ ~IsClosed(t, g)
     /\ g \in DOMAIN t.open \/ AdmitsAnother(t)
     /\ \/ /\ beyond
           /\ table' = holding(group)
           /\ reached' = GivenUp(table)
           /\ UNCHANGED <<delivered, got>>
        \/ /\ duplicate
           /\ table' = Owe(holding(group), g)
           /\ reached' = GivenUp(table)
           /\ UNCHANGED <<delivered, got>>
        \/ /\ ~duplicate /\ ~beyond /\ Overflows(group)
           /\ table' = Owe(Close(holding(group), g), g)
           /\ reached' = [GivenUp(table) EXCEPT ![g] = group.cumulative]
           /\ UNCHANGED <<delivered, got>>
        \/ /\ ~duplicate /\ ~beyond /\ ~Overflows(group)
           /\ got' = [got EXCEPT ![g] = @ \cup {s}]
           /\ reached' = GivenUp(table)
           /\ IF after.cumulative = Length[g]
                THEN /\ table' = Owe(Close(holding(after), g), g)
                     /\ delivered' = [delivered EXCEPT ![g] = @ + 1]
                ELSE /\ table' = Owe(holding(after), g)
                     /\ UNCHANGED delivered

\* ingest of one segment of a one-shot group.
IngestSegment(g, s) ==
  /\ \E order \in SetToSeqs(Abandoned(table)) :
       LET t == Reclaimed(table, order)
       IN OnClosedGroup(t, g, s) \/ Refused(t, g) \/ OnOpenGroup(t, g, s)
  /\ UNCHANGED <<streamOpen, acked>>

\* ingest of a segment of the ordered stream: always admitted.
IngestStream ==
  /\ \E order \in SetToSeqs(Abandoned(table)) :
       table' = Reclaimed(table, order)
  /\ reached' = GivenUp(table)
  /\ streamOpen' = TRUE
  /\ UNCHANGED <<delivered, got, acked>>

-----------------------------------------------------------------------------
(* Poll and time.                                                          *)

\* What an ACK block for g reports.
Reported(t, g) ==
  IF g \in DOMAIN t.closed THEN 1 .. t.closed[g]
  ELSE IF g \in DOMAIN t.open
    THEN 1 .. t.open[g].cumulative \cup t.open[g].buffered
  ELSE {}

\* poll: appendAckFrames.
Poll ==
  \E order \in SetToSeqs(Abandoned(table)) :
    LET t == Reclaimed(table, order)
    IN /\ t.owed # {} \/ order # << >>
       /\ acked' = [g \in Groups |-> IF g \in t.owed
                                     THEN acked[g] \cup Reported(t, g)
                                     ELSE acked[g]]
       /\ table' = [t EXCEPT !.owed = {}]
       /\ reached' = GivenUp(table)
       /\ UNCHANGED <<streamOpen, delivered, got>>

\* Time passes for the open groups, up to the lifetime.
Aged(group) ==
  [group EXCEPT !.age = IF @ < Lifetime THEN @ + 1 ELSE @]

Tick ==
  /\ \E g \in DOMAIN table.open : table.open[g].age < Lifetime
  /\ table' = [table EXCEPT !.open = [g \in DOMAIN @ |-> Aged(@[g])]]
  /\ UNCHANGED <<streamOpen, delivered, reached, got, acked>>

GroupsNext ==
  \/ \E g \in Groups : \E s \in 1 .. Length[g] : IngestSegment(g, s)
  \/ IngestStream
  \/ Poll
  \/ Tick

GroupsSpec == GroupsInit /\ [][GroupsNext]_groupsVars

\* The shell polls while there is work, time passes, and of the groups it
\* does not abandon the peer repeats each segment until it is acknowledged.
Repeat(g, s) == s \notin acked[g] /\ IngestSegment(g, s)
GroupsFairSpec ==
  /\ GroupsSpec /\ WF_groupsVars(Tick) /\ WF_groupsVars(Poll)
  /\ \A g \in Persistent : \A s \in 1 .. Length[g] : WF_groupsVars(Repeat(g, s))

-----------------------------------------------------------------------------
(* Properties.                                                             *)

Group == [cumulative : Nat, buffered : SUBSET (Nat \ {0}), age : 0 .. Lifetime]

\* The tombstones are the ids in the eviction order, each once, at most
\* MaxTombstones; no id is open and closed at once.
GroupsTypeOK ==
  /\ DOMAIN table.open \subseteq Groups
  /\ \A g \in DOMAIN table.open : table.open[g] \in Group
  /\ DOMAIN table.closed = ToSet(table.order) /\ IsInjective(table.order)
  /\ Len(table.order) <= MaxTombstones
  /\ DOMAIN table.open \cap DOMAIN table.closed = {}
  /\ table.owed \subseteq Groups /\ streamOpen \in BOOLEAN

\* Delivery is at most once, across eviction of tombstones and late
\* retransmits (maxClosedGroupTombstones, isClosedOneShot).
AtMostOnce == \A g \in Groups : delivered[g] <= 1

\* A group given up, poisoned or past its lifetime, is never delivered after
\* all: a late retransmit does not reopen it (closedRecvGroups).
GivenUpStaysClosed == \A g \in Groups : reached[g] >= 0 => delivered[g] = 0

\* A group's fate is settled once: late retransmits neither repeat a delivery
\* nor bring back what was given up, whichever tombstones are left.
SettledOnce == AtMostOnce /\ GivenUpStaysClosed

\* However the peer sprays groups, the open one-shot groups together hold no
\* more than the budget, because none outgrows the share admission reserved
\* for it (maxOneShotReceiveByteCount).
HeldWithinBudget ==
  /\ Cardinality(DOMAIN table.open) <= MaxOpenOneShot
  /\ \A g \in DOMAIN table.open : Held(table.open[g]) <= Ceiling

\* Until the watermark covers a group, an ACK reports only segments that
\* were received (appendAckFrames, rememberClosed).
AckedWasReceived ==
  \A g \in Groups :
    acked[g] \subseteq got[g]
      \/ (table.evicted # NoGroup /\ ~Ahead(g, table.evicted))

\* The same without the exception, for the groups given up: PROTOCOL.md says
\* such a group "closes at the cumulative point it reached, so late
\* retransmits are acknowledged truthfully".
GivenUpAckedTruthfully ==
  \A g \in Groups : reached[g] >= 0 => acked[g] \subseteq got[g]

\* Abandoned groups never starve the table: each group whose segments the
\* peer keeps repeating ends delivered or closed, whatever it opened and left.
EveryGroupSettles ==
  \A g \in Persistent :
    <>(delivered[g] = 1 \/ reached[g] >= 0 \/ IsClosed(table, g))
=============================================================================
