---------------------------- MODULE SessionProofs ----------------------------
(***************************************************************************)
(* Theorems about the session's two shells.                                *)
(*                                                                         *)
(* ClientLifecycleEdges: LyteUdpSessionCore's three threads decide under a *)
(* lock and execute after releasing it, in any order.  The invariant says  *)
(* who still has the news: the newest ticket carries the state reported    *)
(* last and is delivered or pending on one thread, and a close that        *)
(* happened is told or pending on one thread.                              *)
(*                                                                         *)
(* SessionLifecycle: the host's lane.  The invariant dates the clock that  *)
(* may freeze it: its timer, the send that started it, its recovery.  For  *)
(* both ends together, the mode words on the host's stream lead from the   *)
(* mode the client is in to the one the host is in.                        *)
(***************************************************************************)
EXTENDS ClientLifecycleEdges, SessionLifecycle, BasicLemmas

USE EdgesAssumption

(* The machine is a receiver's, under one of its two policies, and FROZEN is *)
(* the only state that covers a wire mode.                                   *)
Receivers ==
  [role : {"mediaReceiver"}, config : {Config, TightConfig},
   state : States \ {"recovery"}, wireMode : WireModes, preArmed : BOOLEAN,
   awaiting : BOOLEAN, clean : Nat, mediaAge : Nat, peerAge : Nat,
   owedAge : Nat \cup {None}]
Receiver(m) == m \in Receivers /\ (m.state \in WireModes => m.wireMode = m.state)

(* Only the first audio datagram and an announced quiet change the machine   *)
(* apart from a decision, and what they leave unreported is a thaw their own *)
(* route will report.                                                        *)
Reports ==
  /\ reported \in [state : States \ {"recovery"}, wireMode : {machine.wireMode}]
  /\ frozen = (reported.state = "frozen")
  /\ reported.state # machine.state =>
       frozen /\ thread["receive"].next \in {"stamp", "route"}

(* What the threads hold is well formed; what they took was stamped.         *)
Steps == {"rest", "execute", "stamp", "route", "compare", "feed", "poll"}
Takings == [number : 0 .. stamp.number, age : Nat]
Threading ==
  /\ thread \in [Threads -> [next : Steps, then : Steps, decision : Decisions,
                             took : Takings, now : Nat]]
  /\ stamp \in [number : Nat, age : Nat] /\ fed \in 0 .. stamp.number
  /\ issued \in Nat /\ delivered \in 0 .. issued
  /\ owner \in [state : States, wireMode : WireModes, closes : Nat]

(* A thread holds a decision only while it executes it; one that took a      *)
(* ticket carries a state, and no two took the same.                         *)
Pending(t) == thread[t].decision.ticket
Deciding ==
  /\ \A t \in Threads :
       /\ thread[t].next # "execute" => thread[t].decision = NoDecision
       /\ Pending(t) > 0 => thread[t].decision.state # "none"
  /\ \A t, u \in Threads : t # u /\ Pending(t) > 0 => Pending(t) # Pending(u)

(* The newest ticket tells the state reported last: it is delivered, and the *)
(* owner knows, or some thread is about to execute it.                       *)
NewestTells ==
  IF delivered = issued THEN owner.state = reported.state
  ELSE \E t \in Threads : /\ Pending(t) = issued
                          /\ thread[t].decision.state = reported.state

(* The close is heard of once it happens, once.                              *)
Closing(t) == thread[t].decision.closes
ClosesOnce ==
  /\ owner.closes \in {0, 1}
  /\ \A t \in Threads : Closing(t) => machine.state = "closed" /\ owner.closes = 0
  /\ \A t, u \in Threads : Closing(t) /\ Closing(u) => t = u
  /\ machine.state = "closed" =>
       owner.closes = 1 \/ \E t \in Threads : Closing(t)
  /\ owner.closes = 1 => machine.state = "closed"

IInv == /\ Receiver(machine) /\ Reports /\ Threading /\ Deciding /\ NewestTells
        /\ ClosesOnce

-----------------------------------------------------------------------------
(* The machine's operators.                                                  *)

Says == {"closed", "teardown"}
Closes(actions) == \E i \in DOMAIN actions : actions[i] = "closed"

(* What an input or a poll makes of a receiver m: a receiver, that says      *)
(* "closed" when it closes and then only.                                    *)
Heard(m, o) ==
  /\ Receiver(o.machine) /\ o.actions \in Seq(Says)
  /\ Closes(o.actions) <=> o.machine.state = "closed" /\ m.state # "closed"
  /\ m.state = "closed" => o.machine.state = "closed"

LEMMA ClosesConcat ==
  ASSUME NEW s \in Seq(Says), NEW t \in Seq(Says)
  PROVE  /\ s \o t \in Seq(Says)
         /\ Closes(s \o t) <=> Closes(s) \/ Closes(t)
<1>1. /\ Len(s) \in Nat /\ Len(t) \in Nat /\ s \o t \in Seq(Says)
      /\ Len(s \o t) = Len(s) + Len(t)
      /\ \A i \in 1 .. Len(s) + Len(t) :
           (s \o t)[i] = IF i <= Len(s) THEN s[i] ELSE t[i - Len(s)]
  BY ConcatProperties
<1>2. /\ DOMAIN s = 1 .. Len(s) /\ DOMAIN t = 1 .. Len(t)
      /\ DOMAIN (s \o t) = 1 .. Len(s) + Len(t)
  BY <1>1
<1>3. ASSUME Closes(s) PROVE Closes(s \o t)
  <2>1. PICK i \in 1 .. Len(s) : s[i] = "closed"
    BY <1>2, <1>3 DEF Closes
  <2>2. i \in 1 .. Len(s) + Len(t) /\ (s \o t)[i] = "closed"
    BY <1>1, <2>1
  <2> QED BY <1>2, <2>2 DEF Closes
<1>4. ASSUME Closes(t) PROVE Closes(s \o t)
  <2>1. PICK i \in 1 .. Len(t) : t[i] = "closed"
    BY <1>2, <1>4 DEF Closes
  <2>2. Len(s) + i \in 1 .. Len(s) + Len(t) /\ (s \o t)[Len(s) + i] = "closed"
    BY <1>1, <2>1
  <2> QED BY <1>2, <2>2 DEF Closes
<1>5. ASSUME Closes(s \o t) PROVE Closes(s) \/ Closes(t)
  <2>1. PICK i \in 1 .. Len(s) + Len(t) : (s \o t)[i] = "closed"
    BY <1>2, <1>5 DEF Closes
  <2>2. CASE i <= Len(s)
    <3>1. i \in 1 .. Len(s) /\ s[i] = "closed"
      BY <1>1, <2>1, <2>2
    <3> QED BY <1>2, <3>1 DEF Closes
  <2>3. CASE i > Len(s)
    <3>1. i - Len(s) \in 1 .. Len(t) /\ t[i - Len(s)] = "closed"
      BY <1>1, <2>1, <2>3
    <3> QED BY <1>2, <3>1 DEF Closes
  <2> QED BY <1>1, <2>1, <2>2, <2>3
<1> QED BY <1>1, <1>3, <1>4, <1>5

LEMMA ClosesOne == /\ << >> \in Seq(Says) /\ ~Closes(<< >>)
                   /\ <<"closed">> \in Seq(Says) /\ Closes(<<"closed">>)
                   /\ <<"teardown">> \in Seq(Says) /\ ~Closes(<<"teardown">>)
<1>1. DOMAIN << >> = {} /\ DOMAIN <<"closed">> = {1} /\ DOMAIN <<"teardown">> = {1}
  OBVIOUS
<1>2. <<"closed">>[1] = "closed" /\ <<"teardown">>[1] = "teardown"
  OBVIOUS
<1>3. /\ << >> \in Seq(Says) /\ <<"closed">> \in Seq(Says)
      /\ <<"teardown">> \in Seq(Says)
  BY DEF Says
<1> QED BY <1>1, <1>2, <1>3 DEF Closes

LEMMA ConfigsAre ==
  \A c \in {Config, TightConfig} :
    c.blackout \in Nat \ {0} /\ c.liveness \in Nat \ {0}
BY DEF Configs, TightConfig

LEMMA IgnoredHeard ==
  ASSUME NEW m, Receiver(m), NEW n, Receiver(n), n.state = m.state
  PROVE  Heard(m, Ignored(n))
BY ClosesOne DEF Heard, Ignored, Outcome

LEMMA CloseHeard ==
  ASSUME NEW m, Receiver(m), m.state # "closed",
         NEW actions \in Seq(Says), ~Closes(actions)
  PROVE  /\ Heard(m, Close(m, actions))
         /\ Close(m, actions).machine.wireMode = m.wireMode
         /\ Close(m, actions).machine.state = "closed"
<1>1. /\ Close(m, actions).machine = [m EXCEPT !.state = "closed"]
      /\ Close(m, actions).actions = actions \o <<"closed">>
  BY DEF Close, Outcome
<1>2. /\ [m EXCEPT !.state = "closed"] \in Receivers
      /\ [m EXCEPT !.state = "closed"].state = "closed"
      /\ [m EXCEPT !.state = "closed"].wireMode = m.wireMode
  BY DEF Receiver, Receivers, States
<1>3. actions \o <<"closed">> \in Seq(Says) /\ Closes(actions \o <<"closed">>)
  BY ClosesConcat, ClosesOne
<1> QED BY <1>1, <1>2, <1>3 DEF Heard, Receiver, WireModes

LEMMA PollHeard ==
  ASSUME NEW m, Receiver(m), NEW behind \in Nat
  PROVE  Heard(m, Poll(m, behind)) /\ Poll(m, behind).machine.wireMode = m.wireMode
<1>1. CASE m.state = "closed" \/ ~(LivenessDue(m, behind) \/ SilenceDue(m, behind))
  BY <1>1, IgnoredHeard DEF Poll, Ignored, Outcome
<1>2. CASE m.state # "closed" /\ LivenessDue(m, behind)
  BY <1>2, CloseHeard, ClosesOne DEF Poll
<1>3. CASE m.state # "closed" /\ ~LivenessDue(m, behind) /\ SilenceDue(m, behind)
  <2> DEFINE n == [m EXCEPT !.awaiting = FALSE, !.state = "frozen"]
  <2>1. n \in Receivers /\ n.state = "frozen" /\ n.wireMode = m.wireMode
    BY DEF Receiver, Receivers, States
  <2>2. Poll(m, behind) = Outcome(n, << >>)
    BY <1>3 DEF Poll, IsSender, Receiver, Receivers
  <2> HIDE DEF n
  <2> QED BY <1>3, <2>1, <2>2, ClosesOne DEF Heard, Outcome, Receiver, WireModes
<1> QED BY <1>1, <1>2, <1>3

LEMMA AdvanceHeard ==
  ASSUME NEW m, NEW o, Heard(m, o), NEW behind \in Nat
  PROVE  /\ Heard(m, Advance(o, behind))
         /\ Advance(o, behind).machine.wireMode = o.machine.wireMode
<1> DEFINE p == Poll(o.machine, behind)
<1>1. Heard(o.machine, p) /\ p.machine.wireMode = o.machine.wireMode
  BY PollHeard DEF Heard
<1>2. /\ Advance(o, behind).machine = p.machine
      /\ Advance(o, behind).actions = o.actions \o p.actions
  BY DEF Advance, Outcome
<1> HIDE DEF p
<1> QED BY <1>1, <1>2, ClosesConcat DEF Heard

LEMMA EvidenceHeard ==
  ASSUME NEW m, Receiver(m), NEW behind \in Nat
  PROVE  /\ Heard(m, MediaPathEvidence(m, behind))
         /\ MediaPathEvidence(m, behind).machine.wireMode = m.wireMode
<1>1. CASE m.state = "closed"
  BY <1>1, IgnoredHeard DEF MediaPathEvidence, Where, Ignored, Outcome
<1>2. CASE m.state # "closed"
  <2> DEFINE n == [m EXCEPT !.mediaAge = behind, !.peerAge = behind,
                            !.owedAge = None]
             k == [n EXCEPT !.mediaAge = behind, !.owedAge = None,
                            !.state = n.wireMode]
  <2>1. /\ n \in Receivers /\ n.state = m.state /\ n.wireMode = m.wireMode
        /\ n.role = "mediaReceiver"
    BY DEF Receiver, Receivers
  <2>2. MediaPathEvidence(m, behind) = ExitFrozen(n, behind)
    BY <1>2 DEF MediaPathEvidence, Where
  <2>3. CASE m.state # "frozen"
    <3>1. ExitFrozen(n, behind) = Ignored(n)
      BY <2>1, <2>3 DEF ExitFrozen
    <3>2. Receiver(n)
      BY <2>1 DEF Receiver
    <3> HIDE DEF n
    <3> QED BY <2>1, <2>2, <3>1, <3>2, IgnoredHeard DEF Ignored, Outcome
  <2>4. CASE m.state = "frozen"
    <3>1. ExitFrozen(n, behind) = Outcome(k, << >>)
      BY <2>1, <2>4 DEF ExitFrozen, IsSender
    <3> HIDE DEF n
    <3>2. k \in Receivers /\ k.state = n.wireMode /\ k.wireMode = n.wireMode
      BY <2>1 DEF Receivers, WireModes, States
    <3> HIDE DEF k
    <3>3. Receiver(k) /\ k.state # "closed"
      BY <2>1, <3>2 DEF Receiver, Receivers, WireModes
    <3> QED BY <2>1, <2>2, <2>4, <3>1, <3>2, <3>3, ClosesOne DEF Heard, Outcome
  <2> QED BY <2>3, <2>4
<1> QED BY <1>1, <1>2

(* A word moves the state to its mode, so the mode never changes under a     *)
(* state that stays: a frozen machine that hears it starts its clock anew.   *)
LEMMA WordHeard ==
  ASSUME NEW m, Receiver(m), NEW mode \in WireModes
  PROVE  LET o == Advance(ModeMessage(m, mode), 0)
         IN Heard(m, o)
             /\ (o.machine.state = m.state => o.machine.wireMode = m.wireMode)
<1> DEFINE n == [m EXCEPT !.peerAge = 0, !.wireMode = mode, !.state = mode,
                          !.mediaAge = IF m.state = "frozen" THEN 0 ELSE @]
           w == ModeMessage(m, mode)
           o == Advance(w, 0)
<1>1. CASE m.state = "closed"
  <2>1. w = Ignored(m)
    BY <1>1 DEF ModeMessage, Where
  <2>2. Heard(m, w) /\ w.machine = m
    BY <2>1, IgnoredHeard DEF Ignored, Outcome
  <2> HIDE DEF w
  <2>3. Heard(m, o) /\ o.machine.wireMode = m.wireMode
    BY <2>2, AdvanceHeard
  <2> QED BY <2>3 DEF w
<1>2. CASE m.state # "closed"
  <2>1. /\ n \in Receivers /\ n.state = mode /\ n.wireMode = mode
        /\ m.state = "frozen" => n.mediaAge = 0
    BY DEF Receiver, Receivers, WireModes, States
  <2>2. w = Ignored(n)
    BY <1>2 DEF ModeMessage, Where, IsSender, Receiver, Receivers
  <2> HIDE DEF n, w
  <2>3. w.machine = n /\ w.actions = << >> /\ Receiver(n)
    BY <2>1, <2>2 DEF Ignored, Outcome, Receiver
  <2>4. Heard(m, w)
    BY <1>2, <2>1, <2>3, ClosesOne DEF Heard, WireModes
  <2>5. Heard(m, o) /\ o.machine.wireMode = mode
    BY <2>1, <2>3, <2>4, AdvanceHeard
  <2>6. ASSUME o.machine.state = m.state PROVE m.wireMode = mode
    <3>1. CASE m.state \in WireModes
      BY <2>5, <2>6, <3>1 DEF Heard, Receiver
    <3>2. CASE m.state = "frozen"
      <4>1. ~SilenceDue(n, 0)
        BY <2>1, <3>2, ConfigsAre
           DEF SilenceDue, SilenceLimit, SilenceAge, IsSender, Receivers, None
      <4>2. Poll(n, 0).machine.state # "frozen"
        BY <2>1, <4>1 DEF Poll, Close, Ignored, Outcome, Receivers, WireModes
      <4> QED BY <2>3, <2>6, <3>2, <4>2 DEF Advance, Outcome
    <3> QED BY <1>2, <3>1, <3>2 DEF Receiver, Receivers, States, WireModes
  <2> QED BY <2>5, <2>6 DEF w
<1> QED BY <1>1, <1>2

LEMMA TeardownsHeard ==
  ASSUME NEW m, Receiver(m)
  PROVE  /\ Heard(m, TeardownMessage(m)) /\ Heard(m, TeardownRequest(m))
         /\ TeardownMessage(m).machine.wireMode = m.wireMode
         /\ TeardownRequest(m).machine.wireMode = m.wireMode
<1>1. CASE m.state = "closed"
  BY <1>1, IgnoredHeard DEF TeardownMessage, TeardownRequest, Where, Ignored,
       Outcome
<1>2. CASE m.state # "closed"
  BY <1>2, CloseHeard, ClosesOne DEF TeardownMessage, TeardownRequest, Where
<1> QED BY <1>1, <1>2

LEMMA ReconfiguredIs ==
  ASSUME NEW m, Receiver(m), NEW config \in {Config, TightConfig}
  PROVE  LET r == Reconfigured(m, config)
         IN /\ Receiver(r) /\ r.wireMode = m.wireMode
            /\ r.state # m.state => m.state = "frozen" /\ r.state # "closed"
            /\ m.state = "closed" => r = m
<1>1. CASE m.state = "closed"
  BY <1>1 DEF Reconfigured
<1>2. CASE m.state # "closed"
  <2> DEFINE f == Machine(m.role, config)
             n == [f EXCEPT !.peerAge = 0, !.wireMode = m.wireMode,
                            !.state = m.wireMode,
                                !.mediaAge = IF f.state = "frozen" THEN 0 ELSE @]
  <2>1. f \in Receivers /\ f.role = "mediaReceiver" /\ f.state = "active"
    BY DEF Machine, Receiver, Receivers, States, WireModes, None
  <2>2. Reconfigured(m, config) = n
    BY <1>2, <2>1 DEF Reconfigured, ModeMessage, Where, IsSender, Ignored, Outcome
  <2>3. m.wireMode \in WireModes
    BY DEF Receiver, Receivers
  <2> HIDE DEF f
  <2>4. n \in Receivers /\ n.state = m.wireMode /\ n.wireMode = m.wireMode
    BY <2>1, <2>3 DEF Receivers, States, WireModes
  <2> HIDE DEF n
  <2> QED BY <1>2, <2>2, <2>3, <2>4 DEF Receiver, Receivers, States, WireModes
<1> QED BY <1>1, <1>2

-----------------------------------------------------------------------------
(* Every action keeps the invariant.                                         *)

LEMMA InitHolds == EdgesInit => IInv
<1> SUFFICES ASSUME EdgesInit PROVE IInv
  OBVIOUS
<1>1. Receiver(machine) /\ machine.state = "active" /\ machine.wireMode = "active"
  BY DEF EdgesInit, Machine, Receiver, Receivers, States, WireModes, None
<1>2. /\ stamp \in [number : Nat, age : Nat] /\ stamp.number = 0 /\ issued = 0
      /\ fed = 0 /\ delivered = 0
  BY DEF EdgesInit
<1>3. NoDecision \in Decisions
  BY <1>2 DEF NoDecision, Decisions
<1>4. Resting.took \in Takings
  BY <1>2 DEF Resting, Takings
<1>5. Threading
  BY <1>1, <1>2, <1>3, <1>4
     DEF EdgesInit, Threading, Resting, Steps, States, WireModes
<1>6. Reports
  BY <1>1 DEF EdgesInit, Reports, View, States
<1>7. \A t \in Threads : /\ thread[t].next = "rest"
                            /\ thread[t].decision = NoDecision
                          /\ Pending(t) = 0 /\ ~Closing(t)
  BY DEF EdgesInit, Pending, Closing, Resting, NoDecision
<1>8. owner.state = reported.state /\ owner.closes = 0
  BY DEF EdgesInit, View
<1>9. Deciding /\ NewestTells /\ ClosesOnce
  BY <1>1, <1>2, <1>7, <1>8 DEF Deciding, NewestTells, ClosesOnce
<1> QED BY <1>1, <1>5, <1>6, <1>9 DEF IInv

LEMMA DecideKeeps ==
  ASSUME IInv, NEW t \in Threads, thread[t].next # "execute",
         NEW o, Heard(machine, o), NEW then \in Steps, Decide(t, o, then),
         o.machine.state = reported.state => o.machine.wireMode = reported.wireMode,
         UNCHANGED <<stamp, fed, delivered, owner>>
  PROVE  IInv'
<1> DEFINE state == Changed(reported.state, o.machine.state)
           mode == Changed(reported.wireMode, o.machine.wireMode)
           edge == state # "none" \/ mode # "none"
           d == [ticket |-> IF edge THEN Issued(edge) ELSE 0,
                 state |-> state, wireMode |-> mode,
                 closes |-> \E i \in DOMAIN o.actions : o.actions[i] = "closed"]
<1>1. /\ machine' = o.machine /\ reported' = View(o.machine)
      /\ frozen' = (o.machine.state = "frozen") /\ issued' = Issued(edge)
      /\ thread' = [thread EXCEPT ![t].next = "execute", ![t].then = then,
                                  ![t].decision = d]
  BY DEF Decide
<1>2. /\ Receiver(o.machine) /\ o.machine.state \in States \ {"recovery"}
      /\ o.machine.wireMode \in WireModes
  BY DEF Heard, Receiver, Receivers
<1>3. /\ reported.state \in States \ {"recovery"} /\ reported.wireMode \in WireModes
      /\ issued \in Nat /\ delivered \in 0 .. issued
  BY DEF IInv, Reports, Threading, Receiver, Receivers
<1>4. edge <=> o.machine.state # reported.state
  BY <1>2, <1>3 DEF Changed, States, WireModes
<1>5. /\ issued' \in Nat /\ delivered' \in 0 .. issued' /\ delivered' = delivered
      /\ issued' = IF edge THEN issued + 1 ELSE issued
  BY <1>1, <1>3 DEF Issued
<1>6. /\ d \in Decisions'
      /\ d.ticket = IF edge THEN issued' ELSE 0
      /\ edge => d.state = o.machine.state
      /\ d.closes <=> Closes(o.actions)
  <2>1. /\ state \in States \cup {"none"} /\ mode \in WireModes \cup {"none"}
        /\ edge => state = o.machine.state
    BY <1>2, <1>4 DEF Changed
  <2>2. (IF edge THEN Issued(edge) ELSE 0) \in 0 .. issued'
    BY <1>1, <1>5 DEF Issued
  <2>3. (\E i \in DOMAIN o.actions : o.actions[i] = "closed") = Closes(o.actions)
    BY DEF Closes
  <2> HIDE DEF state, mode
  <2>4. Closes(o.actions) \in BOOLEAN
    BY DEF Closes
  <2> QED BY <1>1, <2>1, <2>2, <2>3, <2>4 DEF Decisions
<1> HIDE DEF d, edge
<1>7. /\ thread[t].decision = NoDecision
      /\ \A u \in Threads : thread[u] \in [next : Steps, then : Steps,
          decision : Decisions,
                                           took : Takings, now : Nat]
  BY DEF IInv, Deciding, Threading
<1>8. /\ \A u \in Threads \ {t} : thread'[u] = thread[u]
      /\ thread'[t].next = "execute" /\ thread'[t].decision = d
      /\ thread'[t] \in [next : Steps, then : Steps, decision : Decisions',
                          took : Takings, now : Nat]
  BY <1>1, <1>6, <1>7 DEF IInv, Threading, Steps
<1>9. \A x \in Decisions : x \in Decisions'
  BY <1>3, <1>5 DEF Decisions
<1>10. Takings' = Takings /\ owner' = owner /\ stamp' = stamp /\ fed' = fed
  BY DEF Takings
<1>11. \A u \in Threads \ {t} : Pending(u)' = Pending(u) /\ Closing(u)' = Closing(u)
  BY <1>8 DEF Pending, Closing
<1>12. /\ Pending(t)' = d.ticket /\ (Closing(t)' <=> Closes(o.actions))
       /\ Pending(t) = 0 /\ ~Closing(t)
  BY <1>6, <1>7, <1>8 DEF Pending, Closing, NoDecision
<1>13. \A u \in Threads : Pending(u) \in 0 .. issued
  BY <1>7 DEF Pending, Decisions
<1>14. Threading'
  <2>1. \A u \in Threads :
          thread'[u] \in [next : Steps, then : Steps, decision : Decisions',
                          took : Takings, now : Nat]
    <3> TAKE u \in Threads
    <3>1. CASE u = t
      BY <1>8, <3>1
    <3>2. CASE u # t
      BY <1>7, <1>8, <1>9, <3>2
    <3> QED BY <3>1, <3>2
  <2>2. thread' = [u \in Threads |-> thread'[u]]
    BY <1>1 DEF IInv, Threading
  <2>3. thread' \in [Threads -> [next : Steps, then : Steps, decision : Decisions',
                                 took : Takings, now : Nat]]
    BY <2>1, <2>2
  <2> QED BY <1>5, <1>10, <2>3 DEF IInv, Threading
<1>15. Receiver(machine)' /\ Reports'
  BY <1>1, <1>2 DEF Reports, View, Receiver, Receivers
<1>16. Deciding'
  <2>1. ASSUME NEW u \in Threads
        PROVE  /\ (thread[u].next # "execute" => thread[u].decision = NoDecision)'
               /\ (Pending(u) > 0 => thread[u].decision.state # "none")'
    <3>1. CASE u = t
      BY <1>2, <1>6, <1>8, <1>12, <3>1 DEF States
    <3>2. CASE u # t
      BY <1>8, <1>11, <3>2 DEF IInv, Deciding
    <3> QED BY <3>1, <3>2
  <2>2. ASSUME NEW u \in Threads, NEW w \in Threads, u # w, Pending(u)' > 0
        PROVE  Pending(u)' # Pending(w)'
    <3>1. CASE u # t /\ w # t
      BY <1>11, <2>2, <3>1 DEF IInv, Deciding
    <3>2. CASE u = t \/ w = t
      BY <1>3, <1>5, <1>6, <1>11, <1>12, <1>13, <2>2, <3>2
    <3> QED BY <3>1, <3>2
  <2> QED BY <2>1, <2>2 DEF Deciding
<1>17. NewestTells'
  <2>1. CASE edge
    <3>1. /\ delivered' # issued' /\ Pending(t)' = issued'
          /\ reported'.state = o.machine.state
      BY <1>1, <1>3, <1>5, <1>6, <1>12, <2>1 DEF View
    <3>2. thread'[t].decision.state = reported'.state
      BY <1>6, <1>8, <2>1, <3>1
    <3> QED BY <3>1, <3>2 DEF NewestTells
  <2>2. CASE ~edge
    <3>1. reported'.state = reported.state /\ issued' = issued
      BY <1>1, <1>4, <1>5, <2>2 DEF View
    <3>2. CASE delivered = issued
      BY <1>5, <1>10, <3>1, <3>2 DEF IInv, NewestTells
    <3>3. CASE delivered # issued
      <4>1. PICK u \in Threads : Pending(u) = issued
                   /\ thread[u].decision.state = reported.state
        BY <3>3 DEF IInv, NewestTells
      <4>2. u # t
        BY <1>3, <1>12, <3>3, <4>1
      <4> QED BY <1>5, <1>8, <1>11, <3>1, <3>3, <4>1, <4>2 DEF NewestTells
    <3> QED BY <3>2, <3>3
  <2> QED BY <2>1, <2>2
<1>18. ClosesOnce'
  <2>1. CASE Closes(o.actions)
    BY <1>1, <1>10, <1>11, <1>12, <2>1 DEF IInv, ClosesOnce, Heard
  <2>2. CASE ~Closes(o.actions)
    <3>1. machine'.state = "closed" <=> machine.state = "closed"
      BY <1>1, <2>2 DEF Heard
    <3> QED BY <1>10, <1>11, <1>12, <2>2, <3>1 DEF IInv, ClosesOnce
  <2> QED BY <2>1, <2>2
<1> QED BY <1>14, <1>15, <1>16, <1>17, <1>18 DEF IInv

(* A step that decides and delivers nothing.                                 *)
LEMMA StepKeeps ==
  ASSUME IInv, Receiver(machine)', Reports', Threading', reported' = reported,
         machine'.state = "closed" <=> machine.state = "closed",
         UNCHANGED <<issued, delivered, owner>>,
         \A t \in Threads : /\ thread'[t].decision = thread[t].decision
                            /\ thread[t].next = "execute"
                                => thread'[t].next = "execute"
  PROVE  IInv'
<1>1. \A t \in Threads : Pending(t)' = Pending(t) /\ Closing(t)' = Closing(t)
  BY DEF Pending, Closing
<1>2. Deciding'
  BY <1>1 DEF IInv, Deciding
<1>3. NewestTells' /\ ClosesOnce'
  BY <1>1 DEF IInv, NewestTells, ClosesOnce
<1> QED BY <1>2, <1>3 DEF IInv

(* A thread with nothing to execute goes on to another step.                 *)
LEMMA GoesIs ==
  ASSUME IInv, NEW t \in Threads, thread[t].next # "execute", NEW step \in Steps,
         Goes(t, step), UNCHANGED <<issued, stamp>>
  PROVE  /\ thread' \in [Threads -> [next : Steps, then : Steps,
            decision : Decisions',
                                    took : Takings', now : Nat]]
         /\ thread'[t].next = step
         /\ \A u \in Threads \ {t} : thread'[u] = thread[u]
         /\ \A u \in Threads : /\ thread'[u].decision = thread[u].decision
                               /\ thread[u].next = "execute"
                                   => thread'[u].next = "execute"
<1> DEFINE x == IF step = "rest" THEN Resting
                ELSE [thread[t] EXCEPT !.next = step, !.then = "rest",
                                       !.decision = NoDecision]
<1>1. thread' = [thread EXCEPT ![t] = x]
  BY DEF Goes
<1>2. /\ thread \in [Threads -> [next : Steps, then : Steps, decision : Decisions,
                                took : Takings, now : Nat]]
      /\ thread[t].decision = NoDecision /\ stamp.number \in Nat /\ issued \in Nat
  BY DEF IInv, Threading, Deciding
<1>3. NoDecision \in Decisions
  BY <1>2 DEF NoDecision, Decisions
<1>4. Resting.took \in Takings
  BY <1>2 DEF Resting, Takings
<1>5. /\ x \in [next : Steps, then : Steps, decision : Decisions, took : Takings,
         now : Nat]
      /\ x.next = step /\ x.decision = NoDecision
  BY <1>2, <1>3, <1>4 DEF Resting, Steps
<1>6. Decisions' = Decisions /\ Takings' = Takings
  BY DEF Decisions, Takings
<1> HIDE DEF x
<1> QED BY <1>1, <1>2, <1>5, <1>6

LEMMA ReceiveKeeps == ASSUME IInv, NEW kind \in Kinds, Receive(kind) PROVE IInv'
<1>1. /\ thread["receive"].next = "rest" /\ "receive" \in Threads
      /\ UNCHANGED <<stamp, fed, delivered, owner>>
  BY DEF Receive, Threads
<1>2. /\ Receiver(machine) /\ machine.state = reported.state
      /\ machine.wireMode = reported.wireMode
  BY <1>1 DEF IInv, Reports
<1>3. CASE kind \in WireModes
             /\ Decide("receive", Advance(ModeMessage(machine, kind), 0), "stamp")
  <2> DEFINE o == Advance(ModeMessage(machine, kind), 0)
  <2>1. /\ Heard(machine, o)
        /\ o.machine.state = machine.state => o.machine.wireMode = machine.wireMode
    BY <1>2, <1>3, WordHeard
  <2>2. Decide("receive", o, "stamp") /\ "stamp" \in Steps
    BY <1>3 DEF Steps
  <2> HIDE DEF o
  <2> QED BY <1>1, <1>2, <2>1, <2>2, DecideKeeps
<1>4. CASE kind = "teardown"
             /\ Decide("receive", Advance(TeardownMessage(machine), 0), "stamp")
  <2> DEFINE o == Advance(TeardownMessage(machine), 0)
  <2>0. Heard(machine, TeardownMessage(machine)) /\ 0 \in Nat
    BY <1>2, TeardownsHeard
  <2>1. Heard(machine, o) /\ o.machine.wireMode = machine.wireMode
    BY <1>2, <2>0, TeardownsHeard, AdvanceHeard
  <2>2. Decide("receive", o, "stamp") /\ "stamp" \in Steps
    BY <1>4 DEF Steps
  <2> HIDE DEF o
  <2> QED BY <1>1, <1>2, <2>1, <2>2, DecideKeeps
<1>5. CASE /\ kind \in {"audio", "quiet", "other"} /\ Goes("receive", "stamp")
           /\ machine' = Redetected(machine, kind, Config, TightConfig)
           /\ UNCHANGED <<reported, frozen, issued>>
  <2>1. /\ Receiver(machine') /\ machine'.wireMode = machine.wireMode
        /\ machine'.state # machine.state => machine.state = "frozen"
            /\ machine'.state # "closed"
        /\ machine.state = "closed" => machine' = machine
    BY <1>2, <1>5, ReconfiguredIs DEF Redetected
  <2>2. "stamp" \in Steps
    BY DEF Steps
  <2>3. /\ thread' \in [Threads -> [next : Steps, then : Steps,
           decision : Decisions',
                                    took : Takings', now : Nat]]
        /\ thread'["receive"].next = "stamp"
        /\ \A u \in Threads : /\ thread'[u].decision = thread[u].decision
                              /\ thread[u].next = "execute"
                                  => thread'[u].next = "execute"
    BY <1>1, <1>5, <2>2, GoesIs
  <2>4. Threading'
    BY <1>1, <1>5, <2>3 DEF IInv, Threading
  <2>5. Reports'
    BY <1>2, <1>5, <2>1, <2>3 DEF IInv, Reports
  <2> QED BY <1>1, <1>5, <2>1, <2>3, <2>4, <2>5, StepKeeps DEF Receiver
<1> QED BY <1>3, <1>4, <1>5 DEF Receive

LEMMA StampKeeps == ASSUME IInv, Stamp PROVE IInv'
<1> DEFINE x == [thread["receive"] EXCEPT !.next = "route", !.then = "rest",
                                         !.decision = NoDecision]
<1>1. /\ thread["receive"].next = "stamp" /\ "receive" \in Threads
      /\ stamp' = [number |-> stamp.number + 1, age |-> thread["receive"].now]
      /\ thread' = [thread EXCEPT !["receive"] = x]
      /\ UNCHANGED <<machine, reported, frozen, fed, issued, delivered, owner>>
  BY DEF Stamp, Goes, Threads
<1>2. /\ thread \in [Threads -> [next : Steps, then : Steps, decision : Decisions,
                                took : Takings, now : Nat]]
      /\ stamp \in [number : Nat, age : Nat] /\ fed \in 0 .. stamp.number
      /\ thread["receive"].decision = NoDecision
  BY <1>1 DEF IInv, Threading, Deciding
<1>3. stamp' \in [number : Nat, age : Nat] /\ fed' \in 0 .. stamp'.number
  BY <1>1, <1>2
<1>4. Takings \subseteq Takings' /\ Decisions' = Decisions
  BY <1>1, <1>2 DEF Takings, Decisions
<1>5. /\ x \in [next : Steps, then : Steps, decision : Decisions, took : Takings,
         now : Nat]
      /\ x.next = "route" /\ x.decision = NoDecision
  BY <1>1, <1>2 DEF Steps
<1> HIDE DEF x
<1>6. thread' \in [Threads -> [next : Steps, then : Steps, decision : Decisions',
                              took : Takings', now : Nat]]
  <2>1. thread' \in [Threads -> [next : Steps, then : Steps, decision : Decisions,
                                took : Takings, now : Nat]]
    BY <1>1, <1>2, <1>5
  <2>2. \A r \in [next : Steps, then : Steps, decision : Decisions, took : Takings,
          now : Nat] :
           r \in [next : Steps, then : Steps, decision : Decisions',
               took : Takings', now : Nat]
    BY <1>4
  <2> QED BY <2>1, <2>2
<1>7. Threading'
  BY <1>1, <1>3, <1>6 DEF IInv, Threading
<1>8. Reports' /\ Receiver(machine)'
  BY <1>1, <1>2, <1>5 DEF IInv, Reports, Receiver, Receivers
<1>9. \A u \in Threads : /\ thread'[u].decision = thread[u].decision
                         /\ thread[u].next = "execute"
                             => thread'[u].next = "execute"
  BY <1>1, <1>2, <1>5
<1>10. /\ reported' = reported /\ UNCHANGED <<issued, delivered, owner>>
       /\ machine'.state = "closed" <=> machine.state = "closed"
  BY <1>1
<1> QED BY <1>7, <1>8, <1>9, <1>10, StepKeeps

LEMMA RouteKeeps == ASSUME IInv, Route PROVE IInv'
<1> DEFINE behind == thread["receive"].now
           o == Advance(MediaPathEvidence(machine, behind), behind)
<1>1. /\ thread["receive"].next = "route" /\ "receive" \in Threads
      /\ UNCHANGED <<stamp, fed, delivered, owner>> /\ "rest" \in Steps
      /\ behind \in Nat
  BY DEF Route, Threads, Steps, IInv, Threading
<1>2. CASE frozen
  <2>1. Decide("receive", o, "rest")
    BY <1>2 DEF Route
  <2>2. Heard(machine, o) /\ o.machine.wireMode = machine.wireMode
    BY <1>1, EvidenceHeard, AdvanceHeard DEF IInv
  <2>3. machine.wireMode = reported.wireMode
    BY DEF IInv, Reports
  <2> HIDE DEF o
  <2> QED BY <1>1, <2>1, <2>2, <2>3, DecideKeeps
<1>3. CASE ~frozen
  <2>1. Goes("receive", "rest") /\ UNCHANGED <<machine, reported, frozen, issued>>
    BY <1>3 DEF Route
  <2>3. /\ thread' \in [Threads -> [next : Steps, then : Steps,
           decision : Decisions',
                                    took : Takings', now : Nat]]
        /\ \A u \in Threads : /\ thread'[u].decision = thread[u].decision
                              /\ thread[u].next = "execute"
                                  => thread'[u].next = "execute"
    BY <1>1, <2>1, GoesIs
  <2>4. Threading'
    BY <1>1, <2>1, <2>3 DEF IInv, Threading
  <2>5. Reports' /\ Receiver(machine)'
    BY <1>3, <2>1 DEF IInv, Reports, Receiver, Receivers
  <2> QED BY <1>1, <2>1, <2>3, <2>4, <2>5, StepKeeps
<1> QED BY <1>2, <1>3

LEMMA BeatKeeps == ASSUME IInv, Beat PROVE IInv'
<1> DEFINE x == [thread["beat"] EXCEPT !.next = "compare", !.took = stamp,
           !.now = 0]
<1>1. /\ thread["beat"].next = "rest" /\ "beat" \in Threads
      /\ thread' = [thread EXCEPT !["beat"] = x]
      /\ UNCHANGED <<machine, reported, frozen, stamp, fed, issued, delivered,
          owner>>
  BY DEF Beat, Threads
<1>2. /\ thread \in [Threads -> [next : Steps, then : Steps, decision : Decisions,
                                took : Takings, now : Nat]]
      /\ stamp \in [number : Nat, age : Nat]
  BY DEF IInv, Threading
<1>3. Takings' = Takings /\ Decisions' = Decisions /\ stamp \in Takings
  BY <1>1, <1>2 DEF Takings, Decisions
<1>4. /\ x \in [next : Steps, then : Steps, decision : Decisions, took : Takings,
         now : Nat]
      /\ x.decision = thread["beat"].decision
  BY <1>1, <1>2, <1>3 DEF Steps
<1> HIDE DEF x
<1>5. thread' \in [Threads -> [next : Steps, then : Steps, decision : Decisions',
                              took : Takings', now : Nat]]
  BY <1>1, <1>2, <1>3, <1>4
<1>6. Threading'
  BY <1>1, <1>5 DEF IInv, Threading
<1>7. thread'["receive"] = thread["receive"]
  BY <1>1, <1>2
<1>8. Reports' /\ Receiver(machine)'
  BY <1>1, <1>7 DEF IInv, Reports, Receiver, Receivers
<1>9. \A u \in Threads : /\ thread'[u].decision = thread[u].decision
                         /\ thread[u].next = "execute"
                             => thread'[u].next = "execute"
  BY <1>1, <1>2, <1>4
<1>10. /\ reported' = reported /\ UNCHANGED <<issued, delivered, owner>>
       /\ machine'.state = "closed" <=> machine.state = "closed"
  BY <1>1
<1> QED BY <1>6, <1>8, <1>9, <1>10, StepKeeps

LEMMA CompareKeeps == ASSUME IInv, Compare PROVE IInv'
<1>1. /\ thread["beat"].next = "compare" /\ "beat" \in Threads
      /\ UNCHANGED <<machine, reported, frozen, stamp, issued, delivered, owner>>
  BY DEF Compare, Threads
<1>2. PICK step \in {"feed", "poll"} : Goes("beat", step)
  BY DEF Compare
<1>3. step \in Steps
  BY <1>2 DEF Steps
<1>4. fed' \in 0 .. stamp.number
  BY <1>1 DEF Compare, IInv, Threading, Takings
<1>5. /\ thread' \in [Threads -> [next : Steps, then : Steps, decision : Decisions',
                                 took : Takings', now : Nat]]
      /\ \A u \in Threads \ {"beat"} : thread'[u] = thread[u]
      /\ \A u \in Threads : /\ thread'[u].decision = thread[u].decision
                            /\ thread[u].next = "execute"
                                => thread'[u].next = "execute"
  BY <1>1, <1>2, <1>3, GoesIs
<1>6. Threading'
  BY <1>1, <1>4, <1>5 DEF IInv, Threading
<1>7. thread'["receive"] = thread["receive"]
  BY <1>5 DEF Threads
<1>8. Reports' /\ Receiver(machine)'
  BY <1>1, <1>7 DEF IInv, Reports, Receiver, Receivers
<1>9. /\ reported' = reported /\ UNCHANGED <<issued, delivered, owner>>
      /\ machine'.state = "closed" <=> machine.state = "closed"
  BY <1>1
<1> QED BY <1>5, <1>6, <1>8, <1>9, StepKeeps

LEMMA FeedKeeps == ASSUME IInv, Feed PROVE IInv'
<1> DEFINE behind == thread["beat"].took.age
           o == Advance(MediaPathEvidence(machine, behind), behind)
<1>1. /\ thread["beat"].next = "feed" /\ "beat" \in Threads
      /\ UNCHANGED <<stamp, fed, delivered, owner>> /\ "poll" \in Steps
      /\ Decide("beat", o, "poll")
  BY DEF Feed, Threads, Steps
<1>2. behind \in Nat
  BY <1>1 DEF IInv, Threading, Takings
<1>3. Heard(machine, o) /\ o.machine.wireMode = machine.wireMode
  <2> DEFINE e == MediaPathEvidence(machine, behind)
  <2>1. Heard(machine, e) /\ e.machine.wireMode = machine.wireMode
    BY <1>2, EvidenceHeard DEF IInv
  <2> HIDE DEF e
  <2>2. /\ Heard(machine, Advance(e, behind))
        /\ Advance(e, behind).machine.wireMode = machine.wireMode
    BY <1>2, <2>1, AdvanceHeard
  <2> QED BY <2>2 DEF e
<1>4. machine.wireMode = reported.wireMode
  BY DEF IInv, Reports
<1> HIDE DEF o
<1> QED BY <1>1, <1>3, <1>4, DecideKeeps

LEMMA PollTimersKeeps == ASSUME IInv, PollTimers PROVE IInv'
<1> DEFINE now == thread["beat"].now
           o == Poll(machine, now)
<1>1. /\ thread["beat"].next = "poll" /\ "beat" \in Threads
      /\ UNCHANGED <<stamp, fed, delivered, owner>> /\ "rest" \in Steps
      /\ Decide("beat", o, "rest")
  BY DEF PollTimers, Threads, Steps
<1>2. now \in Nat
  BY <1>1 DEF IInv, Threading
<1>3. Heard(machine, o) /\ o.machine.wireMode = machine.wireMode
  BY <1>2, PollHeard DEF IInv
<1>4. machine.wireMode = reported.wireMode
  BY DEF IInv, Reports
<1> HIDE DEF o
<1> QED BY <1>1, <1>3, <1>4, DecideKeeps

LEMMA TeardownKeeps == ASSUME IInv, Teardown PROVE IInv'
<1> DEFINE o == Advance(TeardownRequest(machine), 0)
<1>1. /\ thread["owner"].next = "rest" /\ "owner" \in Threads
      /\ UNCHANGED <<stamp, fed, delivered, owner>> /\ "rest" \in Steps
      /\ Decide("owner", o, "rest")
  BY DEF Teardown, Threads, Steps
<1>2. /\ Heard(machine, TeardownRequest(machine)) /\ 0 \in Nat
      /\ TeardownRequest(machine).machine.wireMode = machine.wireMode
  BY TeardownsHeard DEF IInv
<1>3. Heard(machine, o) /\ o.machine.wireMode = machine.wireMode
  BY <1>2, AdvanceHeard
<1>4. machine.wireMode = reported.wireMode
  BY DEF IInv, Reports
<1> HIDE DEF o
<1> QED BY <1>1, <1>3, <1>4, DecideKeeps

LEMMA OlderIs ==
  ASSUME NEW m, Receiver(m)
  PROVE  Receiver(Older(m)) /\ Older(m).state = m.state
         /\ Older(m).wireMode = m.wireMode
<1> DEFINE grown(age) == IF age = None
           \/ age >= m.config.liveness THEN age ELSE age + 1
<1>1. \A age \in Nat : grown(age) \in Nat
  BY ConfigsAre DEF Receiver, Receivers, None
<1>2. grown(m.owedAge) \in Nat \cup {None}
  BY <1>1 DEF Receiver, Receivers
<1>3. Older(m) = [m EXCEPT !.mediaAge = grown(@), !.peerAge = grown(@),
        !.owedAge = grown(@)]
  BY DEF Older
<1>4. grown(m.mediaAge) \in Nat /\ grown(m.peerAge) \in Nat
  BY <1>1 DEF Receiver, Receivers
<1> HIDE DEF grown
<1>5. Older(m) = [m EXCEPT !.mediaAge = grown(m.mediaAge),
        !.peerAge = grown(m.peerAge),
                           !.owedAge = grown(m.owedAge)]
  BY <1>3 DEF Receiver, Receivers
<1> QED BY <1>2, <1>4, <1>5 DEF Receiver, Receivers

LEMMA TickKeeps == ASSUME IInv, EdgesTick PROVE IInv'
<1> DEFINE grown(age) == IF age >= Config.liveness THEN age ELSE age + 1
           aged(r) == [r EXCEPT !.took.age = grown(@), !.now = grown(@)]
<1>1. /\ machine' = Older(machine) /\ stamp' = [stamp EXCEPT !.age = grown(@)]
      /\ thread' = [t \in Threads |-> IF thread[t].next = "rest" THEN thread[t]
                                      ELSE aged(thread[t])]
      /\ UNCHANGED <<reported, frozen, fed, issued, delivered, owner>>
  BY DEF EdgesTick
<1>2. \A age \in Nat : grown(age) \in Nat
  BY ConfigsAre
<1> HIDE DEF grown
<1>3. /\ stamp \in [number : Nat, age : Nat]
      /\ thread \in [Threads -> [next : Steps, then : Steps, decision : Decisions,
                                took : Takings, now : Nat]]
  BY DEF IInv, Threading
<1>4. stamp' \in [number : Nat, age : Nat] /\ stamp'.number = stamp.number
  BY <1>1, <1>2, <1>3
<1>5. Takings' = Takings /\ Decisions' = Decisions
  BY <1>1, <1>4 DEF Takings, Decisions
<1>6. ASSUME NEW r \in [next : Steps, then : Steps, decision : Decisions,
                        took : Takings, now : Nat]
      PROVE  /\ aged(r) \in [next : Steps, then : Steps, decision : Decisions,
                             took : Takings, now : Nat]
             /\ aged(r).next = r.next /\ aged(r).decision = r.decision
  <2>1. [r.took EXCEPT !.age = grown(@)] \in Takings
    BY <1>2 DEF Takings
  <2>2. grown(r.now) \in Nat
    BY <1>2
  <2>3. aged(r) = [r EXCEPT !.took = [r.took EXCEPT !.age = grown(@)],
          !.now = grown(r.now)]
    OBVIOUS
  <2> QED BY <2>1, <2>2, <2>3
<1> HIDE DEF aged
<1>7. \A t \in Threads :
        /\ thread'[t] \in [next : Steps, then : Steps, decision : Decisions,
                           took : Takings, now : Nat]
        /\ thread'[t].next = thread[t].next
            /\ thread'[t].decision = thread[t].decision
  BY <1>1, <1>3, <1>6
<1>8. thread' \in [Threads -> [next : Steps, then : Steps, decision : Decisions',
                              took : Takings', now : Nat]]
  BY <1>1, <1>5, <1>7
<1>9. Threading'
  BY <1>1, <1>4, <1>8 DEF IInv, Threading
<1>10. /\ Receiver(machine)' /\ machine'.state = machine.state
       /\ machine'.wireMode = machine.wireMode
  BY <1>1, OlderIs DEF IInv, Receiver, Receivers
<1>11. "receive" \in Threads
  BY DEF Threads
<1>12. Reports'
  BY <1>1, <1>7, <1>10, <1>11 DEF IInv, Reports
<1>13. reported' = reported /\ UNCHANGED <<issued, delivered, owner>>
  BY <1>1
<1> QED BY <1>7, <1>9, <1>10, <1>12, <1>13, StepKeeps

(* Executing the newest decision tells the owner; an older one tells nothing *)
(* once a newer was delivered.                                               *)
LEMMA ExecuteKeeps == ASSUME IInv, NEW t \in Threads, Execute(t) PROVE IInv'
<1> DEFINE d == thread[t].decision
           told(old, new) == IF Tells(d) /\ new # "none" THEN new ELSE old
           x == IF thread[t].then = "rest" THEN Resting
                ELSE [thread[t] EXCEPT !.next = thread[t].then, !.then = "rest",
                                       !.decision = NoDecision]
<1>1. /\ thread[t].next = "execute"
      /\ owner' = [state |-> told(owner.state, d.state),
                   wireMode |-> told(owner.wireMode, d.wireMode),
                   closes |-> owner.closes + (IF d.closes THEN 1 ELSE 0)]
      /\ delivered' = IF Tells(d) THEN d.ticket ELSE delivered
      /\ thread' = [thread EXCEPT ![t] = x]
      /\ UNCHANGED <<machine, reported, frozen, stamp, fed, issued>>
  BY DEF Execute, Goes
<1>2. /\ thread \in [Threads -> [next : Steps, then : Steps, decision : Decisions,
                                took : Takings, now : Nat]]
      /\ stamp.number \in Nat /\ issued \in Nat /\ delivered \in 0 .. issued
      /\ owner \in [state : States, wireMode : WireModes, closes : Nat]
  BY DEF IInv, Threading
<1>3. NoDecision \in Decisions
  BY <1>2 DEF NoDecision, Decisions
<1>4. Resting.took \in Takings
  BY <1>2 DEF Resting, Takings
<1>5. /\ x \in [next : Steps, then : Steps, decision : Decisions, took : Takings,
         now : Nat]
      /\ x.decision = NoDecision
      /\ x.next = thread[t].then
  BY <1>2, <1>3, <1>4 DEF Resting, Steps
<1> HIDE DEF x
<1>6. /\ Decisions' = Decisions /\ Takings' = Takings
  BY <1>1 DEF Decisions, Takings
<1>7. thread' \in [Threads -> [next : Steps, then : Steps, decision : Decisions',
                              took : Takings', now : Nat]]
  BY <1>1, <1>2, <1>5, <1>6
<1>8. /\ d \in Decisions /\ Pending(t) = d.ticket /\ d.ticket \in 0 .. issued
      /\ d.closes \in BOOLEAN
  BY <1>2 DEF Pending, Decisions
<1>9. /\ delivered' \in 0 .. issued' /\ issued' = issued
      /\ owner' \in [state : States, wireMode : WireModes, closes : Nat]
  BY <1>1, <1>2, <1>8 DEF Decisions, Tells
<1>10. Threading'
  BY <1>1, <1>7, <1>9 DEF IInv, Threading
<1>11. /\ \A u \in Threads \ {t} : thread'[u] = thread[u]
       /\ thread'[t].decision = NoDecision
  BY <1>1, <1>2, <1>5
<1>12. /\ \A u \in Threads \ {t} : Pending(u)' = Pending(u)
          /\ Closing(u)' = Closing(u)
       /\ Pending(t)' = 0 /\ ~Closing(t)'
  BY <1>11 DEF Pending, Closing, NoDecision
<1>13. Deciding'
  BY <1>11, <1>12 DEF IInv, Deciding
<1>14. Receiver(machine)' /\ Reports'
  <2>1. reported.state # machine.state => t # "receive"
    BY <1>1 DEF IInv, Reports
  <2>2. "receive" \in Threads
    BY DEF Threads
  <2>3. reported.state # machine.state => thread'["receive"] = thread["receive"]
    BY <1>11, <2>1, <2>2
  <2> QED BY <1>1, <2>3 DEF IInv, Reports, Receiver, Receivers
<1>15. NewestTells'
  <2>1. CASE d.ticket = issued /\ delivered # issued
    <3>1. d.state = reported.state
      <4>1. PICK u \in Threads : Pending(u) = issued
                   /\ thread[u].decision.state = reported.state
        BY <2>1 DEF IInv, NewestTells
      <4>2. u = t
        BY <1>2, <1>8, <2>1, <4>1 DEF IInv, Deciding
      <4> QED BY <4>1, <4>2
    <3>2. Tells(d) /\ d.state # "none"
      BY <1>2, <1>8, <2>1 DEF Tells, IInv, Deciding
    <3> QED BY <1>1, <2>1, <3>1, <3>2 DEF NewestTells
  <2>2. CASE delivered = issued
    <3>1. ~Tells(d)
      BY <1>2, <1>8, <2>2 DEF Tells
    <3> QED BY <1>1, <2>2, <3>1 DEF IInv, NewestTells
  <2>3. CASE d.ticket # issued /\ delivered # issued
    <3>1. PICK u \in Threads : Pending(u) = issued
                 /\ thread[u].decision.state = reported.state
      BY <2>3 DEF IInv, NewestTells
    <3>2. u # t
      BY <1>8, <2>3, <3>1
    <3>3. delivered' # issued'
      BY <1>1, <1>9, <2>3
    <3> QED BY <1>1, <1>11, <1>12, <3>1, <3>2, <3>3 DEF NewestTells
  <2> QED BY <2>1, <2>2, <2>3
<1>16. ClosesOnce'
  <2>1. Closing(t) <=> d.closes
    BY DEF Closing
  <2>2. CASE d.closes
    <3>1. owner.closes = 0 /\ machine.state = "closed" /\ owner'.closes = 1
      BY <1>1, <2>1, <2>2 DEF IInv, ClosesOnce
    <3>2. \A u \in Threads : ~Closing(u)'
      BY <1>12, <2>1, <2>2 DEF IInv, ClosesOnce
    <3> QED BY <1>1, <3>1, <3>2 DEF ClosesOnce
  <2>3. CASE ~d.closes
    <3>1. owner'.closes = owner.closes
      BY <1>1, <1>2, <2>3
    <3>2. \A u \in Threads : Closing(u)' <=> Closing(u)
      BY <1>12, <2>1, <2>3
    <3> QED BY <1>1, <3>1, <3>2 DEF IInv, ClosesOnce
  <2> QED BY <2>2, <2>3
<1> QED BY <1>10, <1>13, <1>14, <1>15, <1>16 DEF IInv

LEMMA NextHolds == IInv /\ [EdgesNext]_edgesVars => IInv'
<1> SUFFICES ASSUME IInv, [EdgesNext]_edgesVars PROVE IInv'
  OBVIOUS
<1>1. ASSUME NEW kind \in Kinds, Receive(kind) PROVE IInv'
  BY <1>1, ReceiveKeeps
<1>2. CASE Stamp
  BY <1>2, StampKeeps
<1>3. CASE Route
  BY <1>3, RouteKeeps
<1>4. CASE Beat
  BY <1>4, BeatKeeps
<1>5. CASE Compare
  BY <1>5, CompareKeeps
<1>6. CASE Feed
  BY <1>6, FeedKeeps
<1>7. CASE PollTimers
  BY <1>7, PollTimersKeeps
<1>8. CASE Teardown
  BY <1>8, TeardownKeeps
<1>9. CASE EdgesTick
  BY <1>9, TickKeeps
<1>10. ASSUME NEW t \in Threads, Execute(t) PROVE IInv'
  BY <1>10, ExecuteKeeps
<1>11. CASE UNCHANGED edgesVars
  BY <1>11 DEF edgesVars, IInv, Receiver, Reports, Threading, Deciding, NewestTells,
       ClosesOnce, Pending, Closing, Takings, Decisions
<1> QED BY <1>1, <1>2, <1>3, <1>4, <1>5, <1>6, <1>7, <1>8, <1>9, <1>10, <1>11
     DEF EdgesNext, ReceiveStep, BeatStep

(* However the three threads interleave their decisions and executions, the  *)
(* invariant holds.                                                          *)
THEOREM EdgesInvariance == EdgesSpec => []IInv
<1> QED BY InitHolds, NextHolds, PTL DEF EdgesSpec

(* LyteUdpSessionCore's fields keep their types and no two pending decisions *)
(* carry the same ticket.                                                    *)
THEOREM EdgesTyped == EdgesSpec => []EdgesTypeOK
<1>1. IInv => EdgesTypeOK
  <2> SUFFICES ASSUME IInv PROVE EdgesTypeOK
    OBVIOUS
  <2>1. /\ machine.state \in States /\ reported.state \in States
        /\ frozen \in BOOLEAN
    BY DEF IInv, Receiver, Receivers, Reports
  <2>2. \A t \in Threads : thread[t].decision \in Decisions
    BY DEF IInv, Threading
  <2> QED BY <2>1, <2>2 DEF IInv, Threading, Deciding, Pending, EdgesTypeOK
<1> QED BY <1>1, EdgesInvariance, PTL

(* Once every decision was executed, the owner knows the state the last one  *)
(* left: executeLifecycle drops an edge only when a newer one was delivered. *)
THEOREM OwnerLearns == EdgesSpec => []OwnerSeesState
<1>1. IInv => OwnerSeesState
  <2> SUFFICES ASSUME IInv, Settled PROVE owner.state = reported.state
    BY DEF OwnerSeesState
  <2>1. \A t \in Threads : Pending(t) = 0
    BY DEF Settled, Pending, NoDecision
  <2>2. delivered = issued
    BY <2>1 DEF IInv, Threading, NewestTells
  <2> QED BY <2>2 DEF IInv, NewestTells
<1> QED BY <1>1, EdgesInvariance, PTL

(* The owner hears of the close once, after the machine closed.              *)
THEOREM CloseToldOnce == EdgesSpec => []ClosedOnce
<1>1. IInv => ClosedOnce
  <2> SUFFICES ASSUME IInv PROVE ClosedOnce
    OBVIOUS
  <2>1. owner.closes <= 1
    BY DEF IInv, ClosesOnce
  <2>2. ASSUME Settled, machine.state = "closed" PROVE owner.closes = 1
    <3>1. \A t \in Threads : ~Closing(t)
      BY <2>2 DEF Settled, Closing, NoDecision
    <3> QED BY <2>2, <3>1 DEF IInv, ClosesOnce
  <2> QED BY <2>1, <2>2 DEF ClosedOnce
<1> QED BY <1>1, EdgesInvariance, PTL

-----------------------------------------------------------------------------
(* The host's lifecycle lane and its timer.                                 *)

HIDE EdgesAssumption

(* The lane's machine is a sender's under one configuration.                 *)
Senders ==
  [role : {"mediaSender"}, config : {HostConfig} \cap Configs(Nat \ {0}),
   state : States, wireMode : WireModes, preArmed : BOOLEAN,
   awaiting : BOOLEAN, clean : Nat, mediaAge : Nat,
   peerAge : Nat, owedAge : Nat \cup {None}]

(* The timer was armed for no later than the clocks now owe; it may be       *)
(* earlier, because an input restarts a clock before the timer is set anew.  *)
TimerArmed ==
  \/ deadline = None
  \/ deadline \in Nat /\ (host.state # "closed" => deadline <= NextDeadline(host))

(* A clock that runs from a send was started by one since the last media     *)
(* evidence.                                                                 *)
OwedForASend ==
  host.state # "closed" /\ host.owedAge # None => trace.owed = TRUE

(* In RECOVERY the silence began no earlier than the recovery itself.        *)
SilenceWithin ==
  host.state = "recovery" =>
    \/ SilenceAge(host) = None
    \/ SilenceAge(host) <= trace.recovering
    \/ trace.recovering >= HostConfig.recovery

LaneInv ==
  /\ host \in Senders
  /\ trace \in [recovering : Nat \cup {None}, owed : BOOLEAN]
  /\ host.state = "recovery" => trace.recovering \in Nat
  /\ TimerArmed /\ OwedForASend /\ SilenceWithin

-----------------------------------------------------------------------------
(* The machine's operators, for a sender.                                    *)

(* Media evidence was just heard: no clock can freeze it before time passes. *)
Fresh(m) ==
  m \in Senders /\ m.mediaAge = 0 /\ m.owedAge = None /\ m.state # "frozen"

SameClocks(m, n) == n.mediaAge = m.mediaAge /\ n.owedAge = m.owedAge

(* What CTRL evidence and a poll make of m.                                  *)
CtrlGoes(m, n) ==
  /\ n \in Senders
  /\ \/ n.state = "closed"
     \/ Fresh(n)
     \/ /\ m.state # "closed" /\ SameClocks(m, n) /\ n.wireMode = m.wireMode
        /\ n.state = m.state \/ (n.state = "frozen" /\ SilenceDue(m, 0))

(* What one more input makes of it, before its poll.                         *)
Taken(m, n) ==
  /\ n \in Senders
  /\ \/ n.state = "closed"
     \/ /\ m.state # "closed" /\ SameClocks(m, n)
        /\ \/ n.state = m.state /\ n.wireMode = m.wireMode
           \/ n.state = "active" /\ m.state = "idle"
           \/ n.state = "idle" /\ n.wireMode = "idle" /\ m.state # "frozen"

(* What a whole handler makes of m: it freezes m only on a silence that m    *)
(* itself had.                                                               *)
LaneGoes(m, n) ==
  /\ n \in Senders
  /\ \/ n.state = "closed"
     \/ Fresh(n)
     \/ /\ m.state # "closed" /\ SameClocks(m, n)
        /\ n.state = "recovery" => m.state = "recovery"
        /\ n.state = "frozen" /\ m.state # "frozen" => SilenceAge(m) # None
        /\ n.state = "frozen" /\ m.state = "recovery" /\ n.wireMode = "active" =>
             SilenceAge(m) # None /\ SilenceAge(m) >= HostConfig.recovery

LEMMA HostConfigIs ==
  ASSUME NEW m \in Senders
  PROVE  /\ HostConfig.blackout \in Nat \ {0} /\ HostConfig.recovery \in Nat \ {0}
         /\ HostConfig.liveness \in Nat \ {0} /\ HostConfig.fromSend \in BOOLEAN
         /\ m.config = HostConfig
BY DEF Senders, Configs

LEMMA PollIs ==
  ASSUME NEW m \in Senders
  PROVE  LET n == Poll(m, 0).machine
         IN /\ n \in Senders
            /\ \/ n.state = "closed"
               \/ n = m
               \/ /\ SilenceDue(m, 0) /\ m.state # "closed" /\ n.state = "frozen"
                  /\ SameClocks(m, n) /\ n.wireMode = m.wireMode
<1>1. CASE m.state = "closed"
  BY <1>1 DEF Poll, Ignored, Outcome
<1>2. CASE m.state # "closed" /\ LivenessDue(m, 0)
  <2>1. Poll(m, 0).machine = [m EXCEPT !.state = "closed"]
    BY <1>2 DEF Poll, Close, Outcome
  <2> QED BY <2>1 DEF Senders, States
<1>3. CASE m.state # "closed" /\ ~LivenessDue(m, 0) /\ SilenceDue(m, 0)
  <2>1. Poll(m, 0).machine = [m EXCEPT !.awaiting = FALSE, !.state = "frozen"]
    BY <1>3 DEF Poll, Outcome
  <2> QED BY <1>3, <2>1 DEF Senders, States, SameClocks
<1>4. CASE m.state # "closed" /\ ~LivenessDue(m, 0) /\ ~SilenceDue(m, 0)
  BY <1>4 DEF Poll, Ignored, Outcome
<1> QED BY <1>1, <1>2, <1>3, <1>4

LEMMA FreshIsNotDue ==
  ASSUME NEW m, Fresh(m)
  PROVE  ~SilenceDue(m, 0)
BY HostConfigIs
   DEF Fresh, Senders, SilenceDue, SilenceAge, SilenceLimit,
       IsSender, None, States

LEMMA FreshPolled ==
  ASSUME NEW m \in Senders, m.state = "closed" \/ Fresh(m)
  PROVE  LET n == Poll(m, 0).machine
         IN n \in Senders /\ (n.state = "closed" \/ Fresh(n))
<1>1. CASE m.state = "closed"
  BY <1>1 DEF Poll, Ignored, Outcome
<1>2. CASE Fresh(m)
  BY <1>2, PollIs, FreshIsNotDue
<1> QED BY <1>1, <1>2

LEMMA ExitIs ==
  ASSUME NEW m \in Senders, m.state # "closed"
  PROVE  LET n == ExitFrozen(m, 0).machine
         IN IF m.state = "frozen" THEN Fresh(n) ELSE n = m
<1>1. CASE m.state # "frozen"
  BY <1>1 DEF ExitFrozen, Ignored, Outcome
<1>2. CASE m.state = "frozen"
  <2> DEFINE k == [m EXCEPT !.mediaAge = 0, !.owedAge = None,
                            !.state = "recovery", !.wireMode = "active",
                            !.clean = 0, !.preArmed = FALSE]
  <2>1. ExitFrozen(m, 0).machine = k
    BY <1>2 DEF ExitFrozen, IsSender, Senders, Outcome
  <2>2. /\ k \in Senders /\ k.mediaAge = 0 /\ k.owedAge = None
        /\ k.state = "recovery"
    BY DEF Senders, States, WireModes
  <2> HIDE DEF k
  <2> QED BY <1>2, <2>1, <2>2 DEF Fresh
<1> QED BY <1>1, <1>2

LEMMA MediaEvidenceIs ==
  ASSUME NEW m \in Senders
  PROVE  LET n == MediaPathEvidence(m, 0).machine
         IN n \in Senders /\ (n.state = "closed" \/ Fresh(n))
<1>1. CASE m.state = "closed"
  BY <1>1 DEF MediaPathEvidence, Where, Ignored, Outcome
<1>2. CASE m.state # "closed"
  <2> DEFINE k == [m EXCEPT !.mediaAge = 0, !.peerAge = 0, !.owedAge = None]
  <2>1. /\ k \in Senders /\ k.state = m.state /\ k.mediaAge = 0
        /\ k.owedAge = None
    BY DEF Senders
  <2>2. MediaPathEvidence(m, 0) = ExitFrozen(k, 0)
    BY <1>2 DEF MediaPathEvidence, Where
  <2> HIDE DEF k
  <2> QED BY <1>2, <2>1, <2>2, ExitIs DEF Fresh
<1> QED BY <1>1, <1>2

LEMMA CtrlHeard ==
  ASSUME NEW m \in Senders
  PROVE  CtrlGoes(m, Advance(CtrlEvidence(m), 0).machine)
<1> DEFINE k == [m EXCEPT !.peerAge = 0]
           e == CtrlEvidence(m).machine
<1>1. Advance(CtrlEvidence(m), 0).machine = Poll(e, 0).machine
  BY DEF Advance, Outcome
<1>2. CASE m.state = "closed"
  <2>1. e = m
    BY <1>2 DEF CtrlEvidence, Where, Ignored, Outcome
  <2> HIDE DEF e
  <2> QED BY <1>1, <1>2, <2>1
    DEF Poll, Ignored, Outcome, CtrlGoes
<1>3. CASE m.state # "closed"
  <2>1. /\ k \in Senders /\ k.state = m.state /\ k.wireMode = m.wireMode
        /\ SameClocks(m, k) /\ k.config = m.config /\ k.role = m.role
    BY DEF Senders, SameClocks
  <2>2. e = ExitFrozen(k, 0).machine
    BY <1>3 DEF CtrlEvidence, Where
  <2>3. SilenceDue(k, 0) <=> SilenceDue(m, 0)
    BY <2>1
       DEF SilenceDue, SilenceLimit, SilenceAge, IsSender,
           SameClocks
  <2> HIDE DEF k, e
  <2>4. IF m.state = "frozen" THEN Fresh(e) ELSE e = k
    BY <1>3, <2>1, <2>2, ExitIs
  <2>5. CASE m.state = "frozen"
    BY <1>1, <2>4, <2>5, FreshPolled DEF CtrlGoes, Fresh
  <2>6. CASE m.state # "frozen"
    BY <1>1, <1>3, <2>1, <2>3, <2>4, <2>6, PollIs DEF CtrlGoes, SameClocks
  <2> QED BY <2>5, <2>6
<1> QED BY <1>2, <1>3

LEMMA SameHeard ==
  ASSUME NEW m \in Senders
  PROVE  CtrlGoes(m, m)
BY DEF CtrlGoes, SameClocks

(* One more input and its poll.                                              *)
LEMMA TakenGoes ==
  ASSUME NEW m \in Senders, NEW y, CtrlGoes(m, y), NEW x, Taken(y, x)
  PROVE  LaneGoes(m, Poll(x, 0).machine)
<1> DEFINE z == Poll(x, 0).machine
<1>1. /\ z \in Senders
      /\ \/ z.state = "closed"
         \/ z = x
         \/ /\ SilenceDue(x, 0) /\ x.state # "closed" /\ z.state = "frozen"
            /\ SameClocks(x, z) /\ z.wireMode = x.wireMode
  BY PollIs DEF Taken
<1> SUFFICES LaneGoes(m, z)
  OBVIOUS
<1> HIDE DEF z
<1>2. CASE x.state = "closed" \/ z.state = "closed"
  BY <1>1, <1>2 DEF LaneGoes
<1>3. CASE Fresh(y) /\ x.state # "closed" /\ z.state # "closed"
  <2>1. Fresh(x)
    BY <1>3 DEF Taken, Fresh, SameClocks
  <2> QED BY <1>1, <1>3, <2>1, FreshIsNotDue DEF LaneGoes
<1>4. CASE ~Fresh(y) /\ x.state # "closed" /\ z.state # "closed"
  <2>1. /\ y \in Senders /\ m.state # "closed" /\ y.state # "closed"
        /\ SameClocks(m, y) /\ y.wireMode = m.wireMode
        /\ y.state = m.state \/ (y.state = "frozen" /\ SilenceDue(m, 0))
    BY <1>4 DEF CtrlGoes, Taken
  <2>2. /\ x \in Senders /\ SameClocks(y, x)
        /\ \/ x.state = y.state /\ x.wireMode = y.wireMode
           \/ x.state = "active" /\ y.state = "idle"
           \/ x.state = "idle" /\ x.wireMode = "idle" /\ y.state # "frozen"
    BY <1>4 DEF Taken
  <2>3. SameClocks(m, z) /\ SilenceAge(x) = SilenceAge(m)
    BY <1>1, <1>4, <2>1, <2>2
       DEF SameClocks, SilenceAge, Senders, IsSender
  <2>4. /\ SilenceDue(m, 0) =>
             /\ SilenceAge(m) # None
             /\ m.state = "recovery" => SilenceAge(m) >= HostConfig.recovery
        /\ SilenceDue(x, 0) =>
             /\ SilenceAge(m) # None
             /\ x.state = "recovery" => SilenceAge(m) >= HostConfig.recovery
    BY <2>2, <2>3, HostConfigIs
       DEF SilenceDue, SilenceLimit, SilenceAge, Senders,
           IsSender, WireModes, None
  <2>5. z.state = "recovery" => m.state = "recovery"
    BY <1>1, <2>1, <2>2
  <2>6. z.state = "frozen" /\ m.state # "frozen" => SilenceAge(m) # None
    BY <1>1, <2>1, <2>2, <2>4
  <2>7. z.state = "frozen" /\ m.state = "recovery" /\ z.wireMode = "active" =>
          SilenceAge(m) # None /\ SilenceAge(m) >= HostConfig.recovery
    BY <1>1, <2>1, <2>2, <2>4
  <2> QED BY <1>1, <2>1, <2>3, <2>5, <2>6, <2>7 DEF LaneGoes
<1> QED BY <1>2, <1>3, <1>4

LEMMA PreArmTaken ==
  ASSUME NEW m \in Senders
  PROVE  Taken(m, PreArmInput(m).machine)
<1> DEFINE n == PreArmInput(m).machine
           w == [m EXCEPT !.state = "active", !.wireMode = "active"]
           k == [m EXCEPT !.preArmed = TRUE]
<1>1. n = m \/ n = k \/ (n = w /\ m.state = "idle")
  BY DEF PreArmInput, Where, Wake, Ignored, Outcome
<1>2. /\ w \in Senders /\ w.state = "active" /\ SameClocks(m, w)
      /\ k \in Senders /\ k.state = m.state /\ k.wireMode = m.wireMode
      /\ SameClocks(m, k)
  BY DEF Senders, States, WireModes, SameClocks
<1> HIDE DEF w, k, n
<1>3. Taken(m, n)
  BY <1>1, <1>2 DEF Taken, SameClocks
<1> QED BY <1>3 DEF n

LEMMA TeardownTaken ==
  ASSUME NEW m \in Senders
  PROVE  /\ Taken(m, TeardownMessage(m).machine)
         /\ Taken(m, TeardownRequest(m).machine)
<1> DEFINE k == [m EXCEPT !.state = "closed"]
<1>1. /\ TeardownMessage(m).machine = IF m.state = "closed" THEN m ELSE k
      /\ TeardownRequest(m).machine = IF m.state = "closed" THEN m ELSE k
  BY
     DEF TeardownMessage, TeardownRequest, Where, Close,
         Ignored, Outcome
<1>2. k \in Senders /\ k.state = "closed"
  BY DEF Senders, States
<1> HIDE DEF k
<1> QED BY <1>1, <1>2 DEF Taken

LEMMA DamageTaken ==
  ASSUME NEW m \in Senders
  PROVE  Taken(m, Damage(m).machine)
<1> DEFINE n == Damage(m).machine
           w == [m EXCEPT !.state = "active", !.wireMode = "active"]
           k == [m EXCEPT !.awaiting = FALSE]
<1>1. n = m \/ n = k \/ (n = w /\ m.state = "idle")
  BY DEF Damage, Where, Wake, Ignored, Outcome
<1>2. /\ w \in Senders /\ w.state = "active" /\ SameClocks(m, w)
      /\ k \in Senders /\ k.state = m.state /\ k.wireMode = m.wireMode
      /\ SameClocks(m, k)
  BY DEF Senders, States, WireModes, SameClocks
<1> HIDE DEF w, k, n
<1>3. Taken(m, n)
  BY <1>1, <1>2 DEF Taken, SameClocks
<1> QED BY <1>3 DEF n

LEMMA ConvergedTaken ==
  ASSUME NEW m \in Senders
  PROVE  Taken(m, RatchetConverged(m).machine)
<1> DEFINE n == RatchetConverged(m).machine
           k == [m EXCEPT !.awaiting = TRUE]
<1>1. n \in {m, k}
  BY DEF RatchetConverged, Where, Ignored, Outcome
<1>2. /\ k \in Senders /\ k.state = m.state /\ k.wireMode = m.wireMode
      /\ SameClocks(m, k)
  BY DEF Senders, SameClocks
<1> HIDE DEF k, n
<1>3. Taken(m, n)
  BY <1>1, <1>2 DEF Taken, SameClocks
<1> QED BY <1>3 DEF n

LEMMA FrameAckedTaken ==
  ASSUME NEW m \in Senders
  PROVE  Taken(m, FinalFrameAcknowledged(m).machine)
<1> DEFINE n == FinalFrameAcknowledged(m).machine
           k == [m EXCEPT !.awaiting = FALSE, !.state = "idle",
                          !.wireMode = "idle", !.clean = 0]
<1>1. n = m \/ (n = k /\ m.state \in {"active", "recovery"})
  BY DEF FinalFrameAcknowledged, Where, Ignored, Outcome
<1>2. /\ k \in Senders /\ k.state = "idle" /\ k.wireMode = "idle"
      /\ SameClocks(m, k)
  BY DEF Senders, States, WireModes, SameClocks
<1> HIDE DEF k, n
<1>3. Taken(m, n)
  BY <1>1, <1>2 DEF Taken, SameClocks
<1> QED BY <1>3 DEF n

LEMMA SameTaken ==
  ASSUME NEW m \in Senders
  PROVE  Taken(m, m)
BY DEF Taken, SameClocks

(* A window is judged in RECOVERY alone, and never touches a clock.          *)
LEMMA WindowIs ==
  ASSUME NEW m \in Senders, m.state = "closed" \/ Fresh(m), NEW clean \in BOOLEAN
  PROVE  LET n == FeedbackWindow(m, clean).machine
         IN n \in Senders /\ (n.state = "closed" \/ Fresh(n))
<1> DEFINE n == FeedbackWindow(m, clean).machine
           a == [m EXCEPT !.clean = 0]
           b == [m EXCEPT !.state = "active", !.clean = 0]
           c == [m EXCEPT !.clean = @ + 1]
<1>1. n = m \/ (n \in {a, b, c} /\ m.state = "recovery")
  BY DEF FeedbackWindow, Where, Ignored, Outcome
<1>2. /\ a \in Senders /\ b \in Senders /\ c \in Senders
      /\ a.state = m.state /\ b.state = "active" /\ c.state = m.state
      /\ SameClocks(m, a) /\ SameClocks(m, b) /\ SameClocks(m, c)
  <2>1. m.clean \in Nat /\ m.clean + 1 \in Nat
    BY DEF Senders
  <2>2. a \in Senders /\ a.state = m.state /\ SameClocks(m, a)
    BY DEF Senders, SameClocks
  <2>3. b \in Senders /\ b.state = "active" /\ SameClocks(m, b)
    BY DEF Senders, States, SameClocks
  <2>4. c \in Senders /\ c.state = m.state /\ SameClocks(m, c)
    BY <2>1 DEF Senders, SameClocks
  <2> QED BY <2>2, <2>3, <2>4
<1> HIDE DEF n, a, b, c
<1>3. n \in Senders /\ (n.state = "closed" \/ Fresh(n))
  BY <1>1, <1>2 DEF Fresh, SameClocks
<1> QED BY <1>3 DEF n

LEMMA JudgedIs ==
  ASSUME NEW o, o.machine \in Senders, o.machine.state = "closed"
         \/ Fresh(o.machine),
         NEW clean \in BOOLEAN
  PROVE  LET n == Judged(o, clean).machine
         IN n \in Senders /\ (n.state = "closed" \/ Fresh(n))
<1> DEFINE p == Poll(o.machine, 0).machine
<1>1. p \in Senders /\ (p.state = "closed" \/ Fresh(p))
  BY FreshPolled
<1>2. Judged(o, clean).machine = FeedbackWindow(p, clean).machine
  BY DEF Judged, Then, Advance, Outcome
<1> HIDE DEF p
<1> QED BY <1>1, <1>2, WindowIs

LEMMA JudgedInTurnIs ==
  ASSUME NEW o, o.machine \in Senders, o.machine.state = "closed"
         \/ Fresh(o.machine),
         NEW windows \in BoundedSeq(BOOLEAN, 2)
  PROVE  LET n == JudgedInTurn(o, windows).machine
         IN n \in Senders /\ (n.state = "closed" \/ Fresh(n))
<1>1. PICK k \in 0 .. 2 : windows \in [1 .. k -> BOOLEAN]
  BY DEF BoundedSeq, SeqOf
<1>2. Len(windows) = k
  BY <1>1
<1>3. \A i \in 1 .. k : windows[i] \in BOOLEAN
  BY <1>1
<1>4. CASE k = 0
  BY <1>2, <1>4 DEF JudgedInTurn
<1>5. CASE k = 1
  <2>1. windows[1] \in BOOLEAN
    BY <1>3, <1>5
  <2> QED BY <1>2, <1>5, <2>1, JudgedIs DEF JudgedInTurn
<1>6. CASE k = 2
  <2> DEFINE j == Judged(o, windows[1])
  <2>1. windows[1] \in BOOLEAN /\ windows[2] \in BOOLEAN
    BY <1>3, <1>6
  <2>2. j.machine \in Senders /\ (j.machine.state = "closed" \/ Fresh(j.machine))
    BY <2>1, JudgedIs
  <2>3. JudgedInTurn(o, windows) = Judged(j, windows[2])
    BY <1>2, <1>6 DEF JudgedInTurn
  <2> HIDE DEF j
  <2> QED BY <2>1, <2>2, <2>3, JudgedIs
<1> QED BY <1>1, <1>4, <1>5, <1>6

LEMMA DeadlineIs ==
  ASSUME NEW m \in Senders
  PROVE  /\ NextDeadline(m) \in Nat \cup {None}
         /\ m.state # "closed" => NextDeadline(m) \in Nat
         /\ m.state # "closed" /\ (LivenessDue(m, 0) \/ SilenceDue(m, 0)) =>
              NextDeadline(m) = 0
<1>1. SilenceLimit(m) \in Nat \cup {None} /\ SilenceAge(m) \in Nat \cup {None}
  BY HostConfigIs DEF Senders, SilenceLimit, SilenceAge, None
<1>2. m.config.liveness \in Nat /\ m.peerAge \in Nat
  BY HostConfigIs DEF Senders
<1> QED BY <1>1, <1>2
  DEF NextDeadline, LivenessDue, SilenceDue, None

-----------------------------------------------------------------------------
(* Every action keeps the invariant, and freezes justly.                     *)

JustStep ==
  /\ host.state = "recovery" /\ host'.state = "frozen" /\ host'.wireMode = "active"
       => trace.recovering >= HostConfig.recovery
  /\ HostConfig.fromSend /\ host.state # "frozen" /\ host'.state = "frozen"
       => trace.owed

LEMMA LaneInit ==
  ASSUME Init
  PROVE  LaneInv
<1>1. host \in Senders /\ host.state = "active" /\ host.owedAge = None
  BY SessionAssumption
     DEF SessionAssumption, Init, Machine, Senders, States,
         WireModes, None
<1>2. trace \in [recovering : Nat \cup {None}, owed : BOOLEAN]
  BY DEF Init
<1>3. deadline = None
  BY DEF Init
<1> QED BY <1>1, <1>2, <1>3 DEF LaneInv, TimerArmed, OwedForASend, SilenceWithin

(* A drive of the lane that goes where LaneGoes says.                        *)
LEMMA DriveKeeps ==
  ASSUME LaneInv, NEW o, NEW owed \in BOOLEAN, HostHears(o, owed),
         LET n == Poll(o.machine, 0).machine
         IN /\ LaneGoes(host, n)
            /\ n.state = "closed" \/ n.owedAge = None \/ owed = trace.owed
  PROVE  LaneInv' /\ JustStep
<1> DEFINE n == Poll(o.machine, 0).machine
           since == IF n.state # "recovery" THEN None
                    ELSE IF host.state # "recovery" THEN 0 ELSE trace.recovering
<1>1. /\ host' = n /\ deadline' = NextDeadline(n)
      /\ trace' = [trace EXCEPT !.recovering = since, !.owed = owed]
  <2>1. Advance(o, 0).machine = n
    BY DEF Advance, Outcome
  <2> HIDE DEF n
  <2> QED BY <2>1 DEF HostHears
<1>2. LaneGoes(host, n)
        /\ (n.state = "closed" \/ n.owedAge = None \/ owed = trace.owed)
  OBVIOUS
<1> HIDE DEF n
<1>3. n \in Senders
  BY <1>2 DEF LaneGoes
<1>4. since \in Nat \cup {None} /\ (n.state = "recovery" => since \in Nat)
  BY DEF LaneInv
<1>5. /\ trace' \in [recovering : Nat \cup {None}, owed : BOOLEAN]
      /\ trace'.recovering = since /\ trace'.owed = owed
  BY <1>1, <1>4 DEF LaneInv
<1>6. TimerArmed'
  BY <1>1, <1>3, DeadlineIs DEF TimerArmed
<1>7. OwedForASend'
  BY <1>1, <1>2, <1>5 DEF OwedForASend, LaneInv, LaneGoes, Fresh, SameClocks
<1>8. SilenceWithin'
  <2> SUFFICES ASSUME n.state = "recovery"
               PROVE  \/ SilenceAge(n) = None
                      \/ SilenceAge(n) <= since
                      \/ since >= HostConfig.recovery
    BY <1>1, <1>5 DEF SilenceWithin
  <2>1. CASE Fresh(n)
    BY <1>4, <2>1 DEF Fresh, Senders, SilenceAge, None
  <2>2. CASE ~Fresh(n)
    <3>1. host.state = "recovery" /\ SameClocks(host, n)
      BY <1>2, <2>2 DEF LaneGoes
    <3>2. SilenceAge(n) = SilenceAge(host) /\ since = trace.recovering
      BY <1>3, <3>1
         DEF SameClocks, SilenceAge, Senders, IsSender, LaneInv
    <3> QED BY <3>1, <3>2 DEF LaneInv, SilenceWithin
  <2> QED BY <2>1, <2>2
<1>9. LaneInv'
  BY <1>1, <1>3, <1>4, <1>5, <1>6, <1>7, <1>8 DEF LaneInv
<1>10. JustStep
  <2>1. ASSUME host.state = "recovery", n.state = "frozen", n.wireMode = "active"
        PROVE  trace.recovering >= HostConfig.recovery
    <3>1. SilenceAge(host) # None /\ SilenceAge(host) >= HostConfig.recovery
      BY <1>2, <2>1 DEF LaneGoes, Fresh
    <3>2. SilenceAge(host) \in Nat \cup {None} /\ trace.recovering \in Nat
      BY <2>1 DEF LaneInv, SilenceAge, Senders
    <3> QED BY <2>1, <3>1, <3>2, HostConfigIs
      DEF LaneInv, SilenceWithin, None
  <2>2. ASSUME HostConfig.fromSend, host.state # "frozen", n.state = "frozen"
        PROVE  trace.owed
    <3>1. SilenceAge(host) # None /\ host.state # "closed"
      BY <1>2, <2>2 DEF LaneGoes, Fresh
    <3>2. SilenceAge(host) = host.owedAge
      BY <2>2 DEF LaneInv, SilenceAge, Senders, IsSender
    <3> QED BY <3>1, <3>2 DEF LaneInv, OwedForASend
  <2> QED BY <1>1, <2>1, <2>2 DEF JustStep
<1> QED BY <1>9, <1>10

LEMMA TimerKeeps == LaneInv /\ HostTimer => LaneInv' /\ JustStep
<1> SUFFICES ASSUME LaneInv, HostTimer PROVE LaneInv' /\ JustStep
  OBVIOUS
<1>1. HostHears(Ignored(host), trace.owed) /\ Ignored(host).machine = host
  BY DEF HostTimer, HostRuns, Ignored, Outcome
<1>2. host \in Senders /\ trace.owed \in BOOLEAN
  BY DEF LaneInv
<1>3. LaneGoes(host, Poll(host, 0).machine)
  BY <1>2, SameHeard, SameTaken, TakenGoes
<1> QED BY <1>1, <1>2, <1>3, DriveKeeps

(* A single input that Taken describes: the timers follow it.                *)
LEMMA InputKeeps ==
  ASSUME LaneInv, NEW o, HostRuns(o), Taken(host, o.machine)
  PROVE  LaneInv' /\ JustStep
<1>1. host \in Senders /\ trace.owed \in BOOLEAN
  BY DEF LaneInv
<1>2. LaneGoes(host, Poll(o.machine, 0).machine)
  BY <1>1, SameHeard, TakenGoes
<1> QED BY <1>1, <1>2, DriveKeeps DEF HostRuns

LEMMA FeedbackKeeps ==
  ASSUME LaneInv, NEW windows \in BoundedSeq(BOOLEAN, 2), HostFeedback(windows)
  PROVE  LaneInv' /\ JustStep
<1> DEFINE e == MediaPathEvidence(host, 0)
           o == JudgedInTurn(e, windows)
           n == Poll(o.machine, 0).machine
<1>1. HostHears(o, FALSE)
  BY DEF HostFeedback
<1>2. host \in Senders
  BY DEF LaneInv
<1>3. e.machine \in Senders /\ (e.machine.state = "closed" \/ Fresh(e.machine))
  BY <1>2, MediaEvidenceIs
<1> HIDE DEF e
<1>4. o.machine \in Senders /\ (o.machine.state = "closed" \/ Fresh(o.machine))
  BY <1>3, JudgedInTurnIs
<1> HIDE DEF o
<1>5. n \in Senders /\ (n.state = "closed" \/ Fresh(n))
  BY <1>4, FreshPolled
<1>6. LaneGoes(host, n) /\ (n.state = "closed" \/ n.owedAge = None)
  BY <1>5 DEF LaneGoes, Fresh
<1> QED BY <1>1, <1>6, DriveKeeps

LEMMA CtrlKeeps == LaneInv /\ HostCtrl => LaneInv' /\ JustStep
<1> SUFFICES ASSUME LaneInv, HostCtrl PROVE LaneInv' /\ JustStep
  OBVIOUS
<1> DEFINE n == Poll(CtrlEvidence(host).machine, 0).machine
<1>1. HostHears(CtrlEvidence(host), trace.owed)
  BY DEF HostCtrl, HostRuns
<1>2. host \in Senders /\ trace.owed \in BOOLEAN
  BY DEF LaneInv
<1>3. CtrlGoes(host, n)
  <2>1. Advance(CtrlEvidence(host), 0).machine = n
    BY DEF Advance, Outcome
  <2> HIDE DEF n
  <2> QED BY <1>2, <2>1, CtrlHeard
<1>4. LaneGoes(host, n)
  <2> HIDE DEF n
  <2>1. SilenceDue(host, 0) =>
          /\ SilenceAge(host) # None
          /\ host.state = "recovery" => SilenceAge(host) >= HostConfig.recovery
    BY <1>2, HostConfigIs
       DEF SilenceDue, SilenceLimit, SilenceAge, Senders,
           IsSender, WireModes, None
  <2> QED BY <1>3, <2>1 DEF CtrlGoes, LaneGoes
<1> QED BY <1>1, <1>2, <1>4, DriveKeeps

(* CTRL evidence, its poll, one more input and its poll.                     *)
LEMMA SecondInputKeeps ==
  ASSUME LaneInv, NEW o, HostRuns(o),
         Taken(Advance(CtrlEvidence(host), 0).machine, o.machine)
  PROVE  LaneInv' /\ JustStep
<1>1. host \in Senders /\ trace.owed \in BOOLEAN
  BY DEF LaneInv
<1>2. CtrlGoes(host, Advance(CtrlEvidence(host), 0).machine)
  BY <1>1, CtrlHeard
<1>3. LaneGoes(host, Poll(o.machine, 0).machine)
  BY <1>1, <1>2, TakenGoes
<1> QED BY <1>1, <1>3, DriveKeeps DEF HostRuns

LEMMA WordKeeps == LaneInv /\ HostWord => LaneInv' /\ JustStep
<1> SUFFICES ASSUME LaneInv, HostWord PROVE LaneInv' /\ JustStep
  OBVIOUS
<1> DEFINE y == Advance(CtrlEvidence(host), 0).machine
           word(m) == IF Head(toHost) = "input" THEN PreArmInput(m)
                      ELSE TeardownMessage(m)
           o == Then(CtrlEvidence(host), word)
<1>1. HostRuns(o)
  BY DEF HostWord
<1>2. o.machine = word(y).machine
  BY DEF Then, Outcome
<1>3. y \in Senders
  BY CtrlHeard DEF LaneInv, CtrlGoes
<1> HIDE DEF y, o
<1>4. Taken(y, o.machine)
  BY <1>2, <1>3, PreArmTaken, TeardownTaken
<1> QED BY <1>1, <1>4, SecondInputKeeps DEF y

LEMMA FrameAckedKeeps ==
  ASSUME LaneInv, NEW f, HostFrameAcked(f)
  PROVE  LaneInv' /\ JustStep
<1> DEFINE y == Advance(CtrlEvidence(host), 0).machine
           o == Then(CtrlEvidence(host), FinalFrameAcknowledged)
<1>1. HostRuns(o)
  BY DEF HostFrameAcked
<1>2. o.machine = FinalFrameAcknowledged(y).machine
  BY DEF Then, Outcome
<1>3. y \in Senders
  BY CtrlHeard DEF LaneInv, CtrlGoes
<1> HIDE DEF y, o
<1>4. Taken(y, o.machine)
  BY <1>2, <1>3, FrameAckedTaken
<1> QED BY <1>1, <1>4, SecondInputKeeps DEF y

LEMMA SendsKeep ==
  ASSUME LaneInv, NEW media, HostSends(media)
  PROVE  LaneInv' /\ JustStep
<1> DEFINE k == [host EXCEPT !.owedAge = 0]
<1>1. host \in Senders /\ trace \in [recovering : Nat \cup {None}, owed : BOOLEAN]
  BY DEF LaneInv
<1>2. /\ host' = MediaSent(host).machine /\ deadline' = NextDeadline(host')
      /\ trace' = [trace EXCEPT !.owed = TRUE]
  BY DEF HostSends
<1>3. host' = host \/ (host' = k /\ host.config.fromSend)
  BY <1>2 DEF MediaSent, Where, Ignored, Outcome
<1>4. /\ k \in Senders /\ k.state = host.state /\ k.owedAge = 0
      /\ k.role = host.role /\ k.config = host.config
  BY <1>1 DEF Senders
<1>5. /\ trace' \in [recovering : Nat \cup {None}, owed : BOOLEAN]
      /\ trace'.recovering = trace.recovering /\ trace'.owed = TRUE
  BY <1>1, <1>2
<1> HIDE DEF k
<1>6. host' \in Senders /\ host'.state = host.state
  BY <1>1, <1>3, <1>4
<1>7. TimerArmed'
  BY <1>2, <1>6, DeadlineIs DEF TimerArmed
<1>8. SilenceWithin'
  <2>1. CASE host' = host
    BY <1>5, <2>1 DEF LaneInv, SilenceWithin
  <2>2. CASE host' = k /\ host.config.fromSend
    <3>1. SilenceAge(k) = 0
      BY <1>1, <1>4, <2>2 DEF SilenceAge, IsSender, Senders
    <3>2. host.state = "recovery" => trace.recovering \in Nat
      BY DEF LaneInv
    <3> QED BY <1>4, <1>5, <2>2, <3>1, <3>2 DEF SilenceWithin
  <2> QED BY <1>3, <2>1, <2>2
<1> QED BY <1>5, <1>6, <1>7, <1>8 DEF LaneInv, OwedForASend, JustStep

LEMMA LaneTickKeeps == LaneInv /\ Tick => LaneInv' /\ JustStep
<1> SUFFICES ASSUME LaneInv, Tick PROVE LaneInv' /\ JustStep
  OBVIOUS
<1> DEFINE grown(age) == IF age = None
           \/ age >= HostConfig.liveness THEN age ELSE age + 1
<1>1. host \in Senders /\ trace \in [recovering : Nat \cup {None}, owed : BOOLEAN]
  BY DEF LaneInv
<1>2. \A age \in Nat \cup {None} :
        /\ grown(age) \in Nat \cup {None} /\ (age \in Nat => grown(age) \in Nat)
        /\ age = None <=> grown(age) = None
        /\ grown(age) \in {age, age + 1}
  BY HostConfigIs DEF None
<1>3. /\ host' \in Senders /\ host'.state = host.state
      /\ host'.mediaAge = grown(host.mediaAge)
          /\ host'.peerAge = grown(host.peerAge)
      /\ host'.owedAge = grown(host.owedAge)
  <2>1. host' = [host EXCEPT !.mediaAge = grown(@), !.peerAge = grown(@),
                             !.owedAge = grown(@)]
    BY <1>1 DEF Tick, Older, Senders
  <2> HIDE DEF grown
  <2> QED BY <1>1, <1>2, <2>1 DEF Senders
<1>4. /\ trace' \in [recovering : Nat \cup {None}, owed : BOOLEAN]
      /\ trace'.owed = trace.owed
      /\ trace.recovering = None => trace'.recovering = None
      /\ trace.recovering \in Nat =>
           /\ trace'.recovering \in Nat
           /\ \/ trace'.recovering = trace.recovering + 1
              \/ trace'.recovering >= HostConfig.recovery
  BY <1>1, HostConfigIs DEF Tick, None
<1> HIDE DEF grown
<1>5. /\ SilenceAge(host) \in Nat \cup {None}
      /\ SilenceAge(host') = grown(SilenceAge(host))
      /\ SilenceLimit(host') = SilenceLimit(host)
      /\ SilenceLimit(host) \in Nat \cup {None}
  BY <1>1, <1>3, HostConfigIs
     DEF SilenceAge, SilenceLimit, IsSender, Senders, None
<1>6. SilenceWithin'
  <2> SUFFICES ASSUME host.state = "recovery", SilenceAge(host') # None
               PROVE  \/ SilenceAge(host') <= trace'.recovering
                      \/ trace'.recovering >= HostConfig.recovery
    BY <1>3 DEF SilenceWithin
  <2>1. /\ SilenceAge(host) \in Nat
        /\ SilenceAge(host') \in {SilenceAge(host), SilenceAge(host) + 1}
    BY <1>2, <1>5
  <2>2. /\ trace.recovering \in Nat
        /\ \/ SilenceAge(host) <= trace.recovering
           \/ trace.recovering >= HostConfig.recovery
    BY <2>1 DEF LaneInv, SilenceWithin, None
  <2>3. CASE trace'.recovering >= HostConfig.recovery
    BY <2>3
  <2>4. CASE trace'.recovering = trace.recovering + 1
    BY <1>1, <2>1, <2>2, <2>4, HostConfigIs
  <2> QED BY <1>4, <2>2, <2>3, <2>4
<1>7. OwedForASend'
  BY <1>1, <1>2, <1>3, <1>4 DEF LaneInv, OwedForASend, Senders
<1>8. host.state # "closed" => NextDeadline(host') >= NextDeadline(host) - 1
  <2>1. /\ host.config.liveness \in Nat
           /\ host'.config.liveness = host.config.liveness
        /\ host.peerAge \in Nat
            /\ host'.peerAge \in {host.peerAge, host.peerAge + 1}
    BY <1>1, <1>2, <1>3, HostConfigIs DEF Senders
  <2> QED BY <1>2, <1>3, <1>5, <2>1 DEF NextDeadline, None
<1>9. TimerArmed'
  BY <1>1, <1>3, <1>8, DeadlineIs DEF Tick, LaneInv, TimerArmed, None
<1> QED BY <1>3, <1>4, <1>6, <1>7, <1>9 DEF LaneInv, JustStep

LEMMA LaneNext == LaneInv /\ [Next]_vars => LaneInv' /\ JustStep
<1> SUFFICES ASSUME LaneInv, [Next]_vars PROVE LaneInv' /\ JustStep
  OBVIOUS
<1>1. host \in Senders
  BY DEF LaneInv
<1>2. ASSUME UNCHANGED <<host, deadline, trace>> PROVE LaneInv' /\ JustStep
  BY <1>2 DEF LaneInv, TimerArmed, OwedForASend, SilenceWithin, JustStep
<1>3. CASE Evidence
  BY <1>2, <1>3, FeedbackKeeps, CtrlKeeps DEF Evidence, ClientDatagram
<1>4. CASE HostWord
  BY <1>4, WordKeeps
<1>5. CASE HostTimer
  BY <1>5, TimerKeeps
<1>6. ASSUME NEW media \in {"video", "audio"}, HostSends(media)
      PROVE  LaneInv' /\ JustStep
  BY <1>6, SendsKeep
<1>7. CASE HostTeardown
  BY <1>1, <1>7, TeardownTaken, InputKeeps DEF HostTeardown
<1>8. CASE HostDamage
  BY <1>1, <1>8, DamageTaken, InputKeeps DEF HostDamage
<1>9. CASE HostConverges
  BY <1>1, <1>9, ConvergedTaken, InputKeeps DEF HostConverges
<1>10. ASSUME NEW f \in 1 .. MaxFrames, HostFrameAcked(f) PROVE LaneInv' /\ JustStep
  BY <1>10, FrameAckedKeeps
<1>11. CASE ClientWord \/ ClientBeat \/ ClientInput \/ ClientTeardown \/ PathChanges
             \/ \E f \in 1 .. MaxFrames : ClientFrame(f)
  BY <1>2, <1>11
     DEF ClientWord, ClientBeat, ClientInput,
         ClientTeardown, PathChanges, ClientFrame
<1>12. CASE Tick
  BY <1>12, LaneTickKeeps
<1>13. CASE UNCHANGED vars
  BY <1>2, <1>13 DEF vars
<1> QED BY <1>3, <1>4, <1>5, <1>6, <1>7, <1>8, <1>9, <1>10, <1>11, <1>12, <1>13
     DEF Next

(* Whatever the two ends send, hear and lose, the lane's invariant holds.    *)
THEOREM LaneInvariance == Spec => []LaneInv
<1> QED BY LaneInit, LaneNext, PTL DEF Spec

(* A poll that would freeze or close is a poll the lane's timer runs.        *)
THEOREM TimerNeverLate == Spec => []DeadlineNeverLate
<1>1. LaneInv => DeadlineNeverLate
  <2> SUFFICES ASSUME LaneInv, host.state # "closed",
                      LivenessDue(host, 0) \/ SilenceDue(host, 0)
               PROVE  deadline \in {None, 0}
    BY DEF DeadlineNeverLate, ShouldService
  <2>1. NextDeadline(host) = 0
    BY DeadlineIs DEF LaneInv
  <2> QED BY <2>1 DEF LaneInv, TimerArmed
<1> QED BY <1>1, LaneInvariance, PTL

(* The host freezes on a silence that was owed an answer, and out of         *)
(* RECOVERY only once its forced IDR had its grace.                          *)
THEOREM HostFreezesJustly == Spec => FreezesJustly
<1> DEFINE Grace == host.state = "recovery" /\ host'.state = "frozen"
                      /\ host'.wireMode = "active"
                        => trace.recovering >= HostConfig.recovery
           Owed == HostConfig.fromSend /\ host.state # "frozen"
               /\ host'.state = "frozen"
                      => trace.owed
<1>1. LaneInv /\ [Next]_vars => [Grace]_vars /\ [Owed]_vars
  BY LaneNext DEF JustStep
<1>2. Spec => [][Grace]_vars /\ [][Owed]_vars
  BY <1>1, LaneInvariance, PTL DEF Spec
<1> QED BY <1>2
  DEF FreezesJustly, RecoveryGrace, StillScreenNeverFreezes

-----------------------------------------------------------------------------
(* The words of the ordered stream, and the mode they leave their reader in. *)

(* What the host puts on its stream, and what its machine asks for.          *)
Spoken == {"modeActive", "modeIdle", "teardown"}
Asked == Spoken
    \cup {"armIdr", "resume", "forceIdr", "finalFrame", "freeze", "closed"}

LEMMA ModeWords == DOMAIN ModeOf = {"modeActive", "modeIdle"}
                   /\ ModeOf["modeActive"] = "active" /\ ModeOf["modeIdle"] = "idle"
BY DEF ModeOf

(* The last mode word of s stands at i.                                      *)
LastMode(s, i) ==
  /\ s[i] \in DOMAIN ModeOf
  /\ \A j \in 1 .. Len(s) : s[j] \in DOMAIN ModeOf => j <= i

(* The last mode word decides; without one the mode stays.                   *)
LEMMA LastRules ==
  ASSUME NEW s \in Seq(Asked), NEW mode
  PROVE  /\ (\A i \in 1 .. Len(s) : s[i] \notin DOMAIN ModeOf)
            => ModeAfter(s, mode) = mode
         /\ \A i \in 1 .. Len(s) : LastMode(s, i)
             => ModeAfter(s, mode) = ModeOf[s[i]]
         /\ \/ \A i \in 1 .. Len(s) : s[i] \notin DOMAIN ModeOf
            \/ \E i \in 1 .. Len(s) : LastMode(s, i)
<1> DEFINE modes == {i \in DOMAIN s : s[i] \in DOMAIN ModeOf}
<1>1. DOMAIN s = 1 .. Len(s) /\ Len(s) \in Nat
  OBVIOUS
<1>2. ModeAfter(s, mode) = IF modes = {} THEN mode ELSE ModeOf[s[Max(modes)]]
  BY DEF ModeAfter
<1>3. \A i : i \in modes <=> i \in 1 .. Len(s) /\ s[i] \in DOMAIN ModeOf
  BY <1>1
<1> HIDE DEF modes
<1>4. modes \subseteq Nat /\ \A j \in modes : j <= Len(s)
  BY <1>1, <1>3
<1>5. ASSUME NEW i \in modes, \A j \in modes : j <= i PROVE Max(modes) = i
  <2> DEFINE x == Max(modes)
  <2>1. x \in modes /\ \A y \in modes : y <= x
    BY <1>4, <1>5 DEF Max
  <2> HIDE DEF x
  <2>2. i <= x /\ x <= i /\ i \in Nat /\ x \in Nat
    BY <1>4, <1>5, <2>1
  <2>3. x = i
    BY <2>2
  <2> QED BY <2>3 DEF x
<1>6. modes = {} \/ \E i \in modes : \A j \in modes : j <= i
  BY <1>1, <1>4, GreatestElement
<1>7. (\A i \in 1 .. Len(s) : s[i] \notin DOMAIN ModeOf) => modes = {}
  BY <1>3
<1>8. ASSUME NEW i \in 1 .. Len(s), LastMode(s, i)
      PROVE  ModeAfter(s, mode) = ModeOf[s[i]]
  <2>1. i \in modes /\ \A j \in modes : j <= i
    BY <1>3, <1>8 DEF LastMode
  <2>2. Max(modes) = i
    BY <1>5, <2>1
  <2> QED BY <1>2, <2>1, <2>2
<1>9. \/ \A i \in 1 .. Len(s) : s[i] \notin DOMAIN ModeOf
      \/ \E i \in 1 .. Len(s) : LastMode(s, i)
  BY <1>3, <1>6 DEF LastMode
<1> QED BY <1>2, <1>7, <1>8, <1>9

(* What is appended is read after what was there.                            *)
LEMMA ConcatAfter ==
  ASSUME NEW s \in Seq(Asked), NEW t \in Seq(Asked), NEW mode
  PROVE  /\ s \o t \in Seq(Asked)
         /\ ModeAfter(s \o t, mode) = ModeAfter(t, ModeAfter(s, mode))
<1> DEFINE u == s \o t
           m == ModeAfter(s, mode)
<1>1. /\ Len(s) \in Nat /\ Len(t) \in Nat /\ u \in Seq(Asked)
      /\ Len(u) = Len(s) + Len(t)
      /\ \A i \in 1 .. Len(s) + Len(t) :
           u[i] = IF i <= Len(s) THEN s[i] ELSE t[i - Len(s)]
  BY ConcatProperties
<1> HIDE DEF u
<1>2. CASE \A i \in 1 .. Len(t) : t[i] \notin DOMAIN ModeOf
  <2>1. ModeAfter(t, m) = m
    BY <1>2, LastRules
  <2>2. \A i \in 1 .. Len(u) : u[i] \in DOMAIN ModeOf => i \in 1 .. Len(s)
          /\ u[i] = s[i]
    <3> TAKE i \in 1 .. Len(u)
    <3> HAVE u[i] \in DOMAIN ModeOf
    <3>1. CASE i <= Len(s)
      BY <1>1, <3>1
    <3>2. CASE i > Len(s)
      <4>1. i - Len(s) \in 1 .. Len(t) /\ u[i] = t[i - Len(s)]
        BY <1>1, <3>2
      <4> QED BY <1>2, <4>1
    <3> QED BY <1>1, <3>1, <3>2
  <2>3. CASE \A i \in 1 .. Len(s) : s[i] \notin DOMAIN ModeOf
    <3>1. \A i \in 1 .. Len(u) : u[i] \notin DOMAIN ModeOf
      BY <2>2, <2>3
    <3>2. m = mode /\ ModeAfter(u, mode) = mode
      BY <1>1, <2>3, <3>1, LastRules
    <3> QED BY <1>1, <2>1, <3>2 DEF u
  <2>4. CASE \E i \in 1 .. Len(s) : LastMode(s, i)
    <3>1. PICK i \in 1 .. Len(s) : LastMode(s, i)
      BY <2>4
    <3>2. i \in 1 .. Len(u) /\ u[i] = s[i]
      BY <1>1
    <3>3. LastMode(u, i)
      BY <2>2, <3>1, <3>2 DEF LastMode
    <3>4. m = ModeOf[s[i]] /\ ModeAfter(u, mode) = ModeOf[u[i]]
      BY <1>1, <3>1, <3>2, <3>3, LastRules
    <3> QED BY <1>1, <2>1, <3>2, <3>4 DEF u
  <2> QED BY <2>3, <2>4, LastRules
<1>3. CASE \E i \in 1 .. Len(t) : LastMode(t, i)
  <2>1. PICK i \in 1 .. Len(t) : LastMode(t, i)
    BY <1>3
  <2> DEFINE k == Len(s) + i
  <2>2. k \in 1 .. Len(u) /\ u[k] = t[i]
    <3>1. k \in 1 .. Len(s) + Len(t) /\ ~ (k <= Len(s)) /\ k - Len(s) = i
      BY <1>1
    <3> HIDE DEF k
    <3> QED BY <1>1, <3>1
  <2>3. ASSUME NEW j \in 1 .. Len(u), u[j] \in DOMAIN ModeOf PROVE j <= k
    <3>1. CASE j <= Len(s)
      BY <1>1, <3>1
    <3>2. CASE j > Len(s)
      <4>1. j - Len(s) \in 1 .. Len(t) /\ u[j] = t[j - Len(s)]
        BY <1>1, <3>2
      <4>2. j - Len(s) <= i
        BY <2>1, <2>3, <4>1 DEF LastMode
      <4> QED BY <1>1, <4>2
    <3> QED BY <1>1, <3>1, <3>2
  <2> HIDE DEF k
  <2>4. LastMode(u, k)
    BY <2>1, <2>2, <2>3 DEF LastMode
  <2> HIDE DEF m
  <2>5. ModeAfter(t, m) = ModeOf[t[i]]
    BY <2>1, LastRules
  <2>6. ModeAfter(u, mode) = ModeOf[u[k]]
    <3>1. u \in Seq(Asked) /\ k \in 1 .. Len(u)
      BY <1>1, <2>2
    <3> QED BY <2>4, <3>1, LastRules
  <2> QED BY <1>1, <2>2, <2>5, <2>6 DEF u, m
<1> QED BY <1>2, <1>3, LastRules

(* A single word is the last one.                                            *)
LEMMA OneAfter ==
  ASSUME NEW x \in Asked, NEW mode
  PROVE  /\ <<x>> \in Seq(Asked)
         /\ ModeAfter(<<x>>, mode) = IF x \in DOMAIN ModeOf THEN ModeOf[x] ELSE mode
<1> DEFINE s == <<x>>
<1>1. s \in Seq(Asked) /\ Len(s) = 1 /\ s[1] = x
  OBVIOUS
<1> HIDE DEF s
<1>2. CASE x \notin DOMAIN ModeOf
  <2>1. \A i \in 1 .. Len(s) : s[i] \notin DOMAIN ModeOf
    BY <1>1, <1>2
  <2> QED BY <1>1, <1>2, <2>1, LastRules DEF s
<1>3. CASE x \in DOMAIN ModeOf
  <2>1. 1 \in 1 .. Len(s) /\ LastMode(s, 1)
    BY <1>1, <1>3 DEF LastMode
  <2> QED BY <1>1, <1>3, <2>1, LastRules DEF s
<1> QED BY <1>2, <1>3

(* No words, no change.                                                      *)
LEMMA NoneAfter ==
  ASSUME NEW mode
  PROVE  << >> \in Seq(Asked) /\ ModeAfter(<< >>, mode) = mode
<1> DEFINE s == << >>
<1>1. s \in Seq(Asked) /\ Len(s) = 0
  OBVIOUS
<1> HIDE DEF s
<1>2. \A i \in 1 .. Len(s) : s[i] \notin DOMAIN ModeOf
  BY <1>1
<1>3. ModeAfter(s, mode) = mode
  BY <1>1, <1>2, LastRules
<1> QED BY <1>1, <1>3 DEF s

LEMMA PushAfter ==
  ASSUME NEW s \in Seq(Asked), NEW x \in Asked, NEW mode
  PROVE  /\ s \o <<x>> \in Seq(Asked)
         /\ ModeAfter(s \o <<x>>, mode) =
              IF x \in DOMAIN ModeOf THEN ModeOf[x] ELSE ModeAfter(s, mode)
<1> DEFINE t == <<x>>
           m == ModeAfter(s, mode)
<1>1. t \in Seq(Asked)
        /\ ModeAfter(t, m) = IF x \in DOMAIN ModeOf THEN ModeOf[x] ELSE m
  <2> HIDE DEF m
  <2> QED BY OneAfter
<1> HIDE DEF t
<1>2. s \o t \in Seq(Asked) /\ ModeAfter(s \o t, mode) = ModeAfter(t, m)
  BY <1>1, ConcatAfter
<1> QED BY <1>1, <1>2 DEF t

(* A stream is read from its head.                                           *)
LEMMA HeadAfter ==
  ASSUME NEW s \in Seq(Asked), s # << >>, NEW mode
  PROVE  /\ Head(s) \in Asked /\ Tail(s) \in Seq(Asked)
         /\ ModeAfter(s, mode) =
              ModeAfter(Tail(s), IF Head(s) \in DOMAIN ModeOf THEN ModeOf[Head(s)]
                                 ELSE mode)
<1>1. /\ Head(s) \in Asked /\ Tail(s) \in Seq(Asked) /\ Len(s) \in Nat \ {0}
      /\ Len(Tail(s)) = Len(s) - 1
      /\ \A i \in 1 .. Len(Tail(s)) : Tail(s)[i] = s[i + 1]
      /\ Head(s) = s[1]
  BY HeadTailProperties, EmptySeq, LenProperties
<1>2. s = <<Head(s)>> \o Tail(s)
  <2> DEFINE h == <<Head(s)>>
             u == h \o Tail(s)
  <2>1. h \in Seq(Asked) /\ Len(h) = 1 /\ h[1] = s[1]
    BY <1>1
  <2> DEFINE t == Tail(s)
  <2>a. t \in Seq(Asked) /\ Len(t) = Len(s) - 1 /\ u = h \o t
    BY <1>1
  <2> HIDE DEF h, u, t
  <2>b. /\ h \o t \in Seq(Asked) /\ Len(h \o t) = Len(h) + Len(t)
        /\ \A i \in 1 .. Len(h) + Len(t) :
             (h \o t)[i] = IF i <= Len(h) THEN h[i] ELSE t[i - Len(h)]
    BY <2>1, <2>a, ConcatProperties
  <2>2. /\ u \in Seq(Asked) /\ Len(u) = Len(s)
        /\ \A i \in 1 .. Len(s) : u[i] = IF i <= 1 THEN h[i] ELSE Tail(s)[i - 1]
    BY <1>1, <2>1, <2>a, <2>b DEF t
  <2>3. \A i \in 1 .. Len(s) : u[i] = s[i]
    <3> TAKE i \in 1 .. Len(s)
    <3>1. CASE i = 1
      BY <2>1, <2>2, <3>1
    <3>2. CASE i # 1
      <4>1. i - 1 \in 1 .. Len(Tail(s)) /\ (i - 1) + 1 = i
        BY <1>1, <3>2
      <4>2. Tail(s)[i - 1] = s[i]
        BY <1>1, <4>1
      <4> QED BY <2>2, <3>2, <4>2
    <3> QED BY <3>1, <3>2
  <2>4. s = u
    BY <1>1, <2>2, <2>3, SeqEqual
  <2> QED BY <2>4 DEF u, h
<1>3. /\ <<Head(s)>> \in Seq(Asked)
      /\ ModeAfter(<<Head(s)>>, mode) =
           IF Head(s) \in DOMAIN ModeOf THEN ModeOf[Head(s)] ELSE mode
  BY <1>1, OneAfter
<1>4. ModeAfter(<<Head(s)>> \o Tail(s), mode) =
        ModeAfter(Tail(s), ModeAfter(<<Head(s)>>, mode))
  BY <1>1, <1>3, ConcatAfter
<1> QED BY <1>1, <1>2, <1>3, <1>4

(* The loop over the actions: what it has sent after n of them.              *)
SentIs(s, sent, last) ==
  sent = [n \in 0 .. last |->
            IF n = 0 THEN << >>
            ELSE IF s[n] \in DOMAIN ModeOf \cup {"teardown"}
              THEN Append(sent[n - 1], s[n])
            ELSE sent[n - 1]]

(* The loop is defined on every sequence: by the least length it is not.     *)
LEMMA LoopRuns ==
  ASSUME NEW s, NEW last \in Nat
  PROVE  \E sent : SentIs(s, sent, last)
<1> DEFINE Bad == {n \in Nat : ~ \E sent : SentIs(s, sent, n)}
<1> SUFFICES ASSUME Bad # {} PROVE FALSE
  OBVIOUS
<1>1. PICK n \in Bad : \A k \in Bad : n <= k
  BY LeastElement
<1>2. n # 0
  <2> DEFINE first == [k \in 0 .. 0 |-> << >>]
  <2>1. SentIs(s, first, 0)
    <3>1. \A k \in 0 .. 0 : k = 0
      OBVIOUS
    <3> QED BY <3>1 DEF SentIs
  <2> QED BY <1>1, <2>1
<1>3. n - 1 \in Nat /\ n - 1 \notin Bad
  BY <1>1, <1>2
<1>4. PICK sent : SentIs(s, sent, n - 1)
  BY <1>3
<1> DEFINE word == s[n] \in DOMAIN ModeOf \cup {"teardown"}
           more == [k \in 0 .. n |->
                      IF k < n THEN sent[k]
                      ELSE IF word THEN Append(sent[n - 1], s[n]) ELSE sent[n - 1]]
           loop == [k \in 0 .. n |->
                     IF k = 0 THEN << >>
                     ELSE IF s[k] \in DOMAIN ModeOf \cup {"teardown"}
                       THEN Append(more[k - 1], s[k])
                     ELSE more[k - 1]]
<1>5. \A k \in 0 .. n : more[k] = loop[k]
  <2> TAKE k \in 0 .. n
  <2>1. CASE k = 0
    BY <1>2, <1>3, <1>4, <2>1 DEF SentIs
  <2>2. CASE k # 0 /\ k < n
    <3>1. k \in 0 .. n - 1 /\ k - 1 \in 0 .. n /\ k - 1 < n
      BY <1>1, <1>3, <2>2
    <3>2. more[k] = sent[k] /\ more[k - 1] = sent[k - 1]
      BY <2>2, <3>1
    <3>3. sent[k] = IF s[k] \in DOMAIN ModeOf \cup {"teardown"}
                    THEN Append(sent[k - 1], s[k]) ELSE sent[k - 1]
      BY <1>4, <2>2, <3>1 DEF SentIs
    <3> QED BY <2>2, <3>2, <3>3
  <2>3. CASE k = n
    <3>1. n - 1 \in 0 .. n /\ n - 1 < n /\ n \in 0 .. n
      BY <1>1, <1>3
    <3>2. more[n - 1] = sent[n - 1]
      BY <3>1
    <3> QED BY <1>2, <2>3, <3>1, <3>2
  <2> QED BY <2>1, <2>2, <2>3
<1>6. more = loop
  <2> HIDE DEF word
  <2>1. more = [k \in 0 .. n |-> more[k]] /\ loop = [k \in 0 .. n |-> loop[k]]
    OBVIOUS
  <2> HIDE DEF more, loop
  <2> QED BY <1>5, <2>1
<1>7. SentIs(s, more, n)
  BY <1>6 DEF SentIs
<1> QED BY <1>1, <1>7

(* The words leave their reader in the mode the actions mean.                *)
LEMMA WordsAfter ==
  ASSUME NEW s \in Seq(Asked), NEW mode
  PROVE  /\ Words(s) \in Seq(Spoken)
         /\ ModeAfter(Words(s), mode) = ModeAfter(s, mode)
<1>1. Len(s) \in Nat
  OBVIOUS
<1>2. PICK sent : SentIs(s, sent, Len(s)) /\ Words(s) = sent[Len(s)]
  <2> DEFINE w == CHOOSE sent : SentIs(s, sent, Len(s))
  <2>1. SentIs(s, w, Len(s))
    BY <1>1, LoopRuns
  <2>2. Words(s) = w[Len(s)]
    BY DEF Words, SentIs
  <2> QED BY <2>1, <2>2
<1>3. /\ sent[0] = << >>
      /\ \A n \in 1 .. Len(s) :
           sent[n] = IF s[n] \in DOMAIN ModeOf \cup {"teardown"}
                     THEN Append(sent[n - 1], s[n]) ELSE sent[n - 1]
  <2>1. /\ 0 \in 0 .. Len(s)
        /\ \A n \in 1 .. Len(s) : n \in 0 .. Len(s) /\ n # 0
    BY <1>1
  <2>2. \A n \in 0 .. Len(s) :
          sent[n] = IF n = 0 THEN << >>
                    ELSE IF s[n] \in DOMAIN ModeOf \cup {"teardown"}
                      THEN Append(sent[n - 1], s[n])
                    ELSE sent[n - 1]
    BY <1>2 DEF SentIs
  <2> QED BY <2>1, <2>2
<1> DEFINE Good(n) == /\ sent[n] \in Seq(Spoken)
                      /\ ModeAfter(sent[n], mode) = ModeAfter(SubSeq(s, 1, n), mode)
           Bad == {n \in 0 .. Len(s) : ~Good(n)}
<1>4. Good(0)
  <2>1. SubSeq(s, 1, 0) = << >>
    BY SubSeqEmpty
  <2>2. << >> \in Seq(Spoken)
    OBVIOUS
  <2> QED BY <1>3, <2>1, <2>2
<1>5. ASSUME NEW n \in 1 .. Len(s), Good(n - 1) PROVE Good(n)
  <2>1. n - 1 \in 0 .. Len(s) /\ s[n] \in Asked
    BY <1>1
  <2>2. SubSeq(s, 1, n) = SubSeq(s, 1, n - 1) \o <<s[n]>>
    BY <1>1, SubSeqRecursiveSecond
  <2> DEFINE p == SubSeq(s, 1, n - 1)
             q == sent[n - 1]
             x == s[n]
  <2>3. p \in Seq(Asked)
    BY <1>1, SubSeqProperties
  <2>4. /\ q \in Seq(Spoken) /\ ModeAfter(q, mode) = ModeAfter(p, mode)
        /\ sent[n] = IF x \in DOMAIN ModeOf
            \cup {"teardown"} THEN Append(q, x) ELSE q
        /\ SubSeq(s, 1, n) = p \o <<x>> /\ x \in Asked
    BY <1>3, <1>5, <2>1, <2>2
  <2> HIDE DEF p, q, x
  <2>5. ModeAfter(p \o <<x>>, mode) =
          IF x \in DOMAIN ModeOf THEN ModeOf[x] ELSE ModeAfter(p, mode)
    BY <2>3, <2>4, PushAfter
  <2>6. CASE x \in DOMAIN ModeOf \cup {"teardown"}
    <3>1. x \in Spoken
      BY <2>6, ModeWords DEF Spoken
    <3>2. Append(q, x) \in Seq(Spoken) /\ Append(q, x) = q \o <<x>>
      BY <2>4, <3>1, AppendProperties, AppendIsConcat
    <3>3. q \in Seq(Asked)
      BY <2>4, SeqMonotonic DEF Asked
    <3>4. ModeAfter(q \o <<x>>, mode) =
            IF x \in DOMAIN ModeOf THEN ModeOf[x] ELSE ModeAfter(q, mode)
      BY <2>4, <3>3, PushAfter
    <3> QED BY <2>4, <2>5, <2>6, <3>2, <3>4
  <2>7. CASE x \notin DOMAIN ModeOf \cup {"teardown"}
    BY <2>4, <2>5, <2>7
  <2> QED BY <2>6, <2>7
<1>6. Bad = {}
  <2> SUFFICES ASSUME Bad # {} PROVE FALSE
    OBVIOUS
  <2>1. Bad \subseteq Nat
    BY <1>1
  <2>2. PICK n \in Bad : \A k \in Bad : n <= k
    BY <2>1, LeastElement
  <2>3. n # 0
    BY <1>4, <2>2
  <2>4. n \in 1 .. Len(s) /\ n - 1 \in 0 .. Len(s) /\ n - 1 \notin Bad
    BY <1>1, <2>2, <2>3
  <2>5. Good(n - 1)
    BY <2>4
  <2> HIDE DEF Good
  <2> QED BY <1>5, <2>2, <2>4, <2>5
<1>7. Good(Len(s))
  BY <1>1, <1>6
<1>8. SubSeq(s, 1, Len(s)) = s
  BY SubSeqFull
<1> QED BY <1>2, <1>7, <1>8

-----------------------------------------------------------------------------
(* The two ends' wire modes: the host.                                       *)

(* The client's machine is a receiver's, under one of its two policies.      *)
Policies == {ClientConfig, [ClientConfig EXCEPT !.blackout = Tightened]}
Listeners ==
  [role : {"mediaReceiver"}, config : Policies,
   state : States, wireMode : WireModes, preArmed : BOOLEAN,
   awaiting : BOOLEAN, clean : Nat, mediaAge : Nat, peerAge : Nat,
   owedAge : Nat \cup {None}]

ModesInv == client \in Listeners /\ toClient \in Seq(Spoken) /\ ModesAgree

(* What an input makes of a sender m: the mode words among its actions, and  *)
(* nothing else, tell the mode it leaves m in.                               *)
Speaks(m, o) ==
  /\ o.machine \in Senders /\ o.actions \in Seq(Asked)
  /\ ModeAfter(o.actions, m.wireMode) = o.machine.wireMode

(* An input that is ignored says nothing.                                    *)
LEMMA IgnoredSpeaks ==
  ASSUME NEW m, NEW n \in Senders, n.wireMode = m.wireMode
  PROVE  Speaks(m, Ignored(n))
BY NoneAfter DEF Speaks, Ignored, Outcome

(* A single action that is no mode word.                                     *)
LEMMA QuietSpeaks ==
  ASSUME NEW m, NEW n \in Senders, n.wireMode = m.wireMode,
         NEW x \in Asked, x \notin DOMAIN ModeOf
  PROVE  Speaks(m, Outcome(n, <<x>>))
<1>1. <<x>> \in Seq(Asked) /\ ModeAfter(<<x>>, m.wireMode) = m.wireMode
  BY OneAfter
<1> QED BY <1>1 DEF Speaks, Outcome

(* One outcome after another.                                               *)
LEMMA JoinSpeaks ==
  ASSUME NEW m, NEW o, Speaks(m, o), NEW p, Speaks(o.machine, p)
  PROVE  Speaks(m, Outcome(p.machine, o.actions \o p.actions))
<1>1. /\ o.actions \in Seq(Asked) /\ p.actions \in Seq(Asked)
      /\ ModeAfter(o.actions, m.wireMode) = o.machine.wireMode
      /\ ModeAfter(p.actions, o.machine.wireMode) = p.machine.wireMode
      /\ p.machine \in Senders
  BY DEF Speaks
<1>2. /\ o.actions \o p.actions \in Seq(Asked)
      /\ ModeAfter(o.actions \o p.actions, m.wireMode) =
           ModeAfter(p.actions, ModeAfter(o.actions, m.wireMode))
  BY <1>1, ConcatAfter
<1> QED BY <1>1, <1>2 DEF Speaks, Outcome

(* A close says no mode word, and leaves the mode as it was.                 *)
LEMMA CloseSpeaks ==
  ASSUME NEW m \in Senders
  PROVE  Speaks(m, Close(m, << >>)) /\ Speaks(m, Close(m, <<"teardown">>))
<1> DEFINE n == [m EXCEPT !.state = "closed"]
<1>1. n \in Senders /\ n.wireMode = m.wireMode
  BY DEF Senders, States
<1> HIDE DEF n
<1>2. /\ "closed" \in Asked /\ "closed" \notin DOMAIN ModeOf
      /\ "teardown" \in Asked /\ "teardown" \notin DOMAIN ModeOf
  BY ModeWords DEF Asked, Spoken
<1>3. Speaks(n, Outcome(n, <<"closed">>))
  BY <1>1, <1>2, QuietSpeaks
<1>4. Speaks(m, Outcome(n, << >>)) /\ Speaks(m, Outcome(n, <<"teardown">>))
  BY <1>1, <1>2, QuietSpeaks, IgnoredSpeaks DEF Ignored
<1>5. ASSUME NEW s, Speaks(m, Outcome(n, s)) PROVE Speaks(m, Close(m, s))
  <2>1. Close(m, s) = Outcome(n, s \o <<"closed">>)
    BY DEF Close, n
  <2>2. Speaks(m, Outcome(Outcome(n, <<"closed">>).machine,
                          Outcome(n, s).actions \o Outcome(n,
                              <<"closed">>).actions))
    <3>1. Outcome(n, s).machine = n
      BY DEF Outcome
    <3> QED BY <1>3, <1>5, <3>1, JoinSpeaks
  <2> QED BY <2>1, <2>2 DEF Outcome
<1> QED BY <1>4, <1>5

(* A poll freezes or closes, under either of which the mode stays.           *)
LEMMA PollSpeaks ==
  ASSUME NEW m \in Senders
  PROVE  Speaks(m, Poll(m, 0))
<1>1. CASE m.state # "closed" /\ LivenessDue(m, 0)
  BY <1>1, CloseSpeaks DEF Poll
<1>2. CASE m.state # "closed" /\ ~LivenessDue(m, 0) /\ SilenceDue(m, 0)
  <2> DEFINE n == [m EXCEPT !.awaiting = FALSE, !.state = "frozen"]
  <2>1. n \in Senders /\ n.wireMode = m.wireMode
    BY DEF Senders, States
  <2>2. Poll(m, 0) = Outcome(n, <<"freeze">>)
    BY <1>2 DEF Poll, IsSender, Senders
  <2>3. "freeze" \in Asked /\ "freeze" \notin DOMAIN ModeOf
    BY ModeWords DEF Asked, Spoken
  <2> HIDE DEF n
  <2> QED BY <2>1, <2>2, <2>3, QuietSpeaks
<1>3. CASE m.state = "closed" \/ ~(LivenessDue(m, 0) \/ SilenceDue(m, 0))
  BY <1>3, IgnoredSpeaks DEF Poll
<1> QED BY <1>1, <1>2, <1>3

(* An input behind its poll says what the input says.                        *)
LEMMA AdvanceSpeaks ==
  ASSUME NEW m, NEW o, Speaks(m, o)
  PROVE  Speaks(m, Advance(o, 0))
<1>1. Speaks(o.machine, Poll(o.machine, 0))
  BY PollSpeaks DEF Speaks
<1> QED BY <1>1, JoinSpeaks DEF Advance

(* Only a sender that was IDLE under its blackout has a mode word to say.    *)
LEMMA ExitSpeaks ==
  ASSUME NEW m \in Senders, NEW l, m.wireMode = l.wireMode
  PROVE  Speaks(l, ExitFrozen(m, 0))
<1>1. CASE m.state # "frozen"
  BY <1>1, IgnoredSpeaks DEF ExitFrozen
<1>2. CASE m.state = "frozen"
  <2> DEFINE n == [m EXCEPT !.mediaAge = 0, !.owedAge = None,
                            !.state = "recovery", !.wireMode = "active",
                            !.clean = 0, !.preArmed = FALSE]
             said == IF m.wireMode = "idle" THEN <<"modeActive">> ELSE << >>
             first == <<"resume">>
             s == first \o said
             t == s \o <<"forceIdr">>
  <2>1. n \in Senders /\ n.wireMode = "active" /\ l.wireMode \in {"active", "idle"}
    BY DEF Senders, States, WireModes
  <2>2. ExitFrozen(m, 0) = Outcome(n, t)
    BY <1>2 DEF ExitFrozen, IsSender, Senders
  <2>3. /\ "resume" \in Asked /\ "resume" \notin DOMAIN ModeOf
        /\ "forceIdr" \in Asked /\ "forceIdr" \notin DOMAIN ModeOf
        /\ "modeActive" \in Asked /\ "modeActive" \in DOMAIN ModeOf
        /\ ModeOf["modeActive"] = "active"
    BY ModeWords DEF Asked, Spoken
  <2>4. said \in Seq(Asked) /\ ModeAfter(said, l.wireMode) = "active"
    BY <2>1, <2>3, OneAfter, NoneAfter
  <2>5. first \in Seq(Asked) /\ ModeAfter(first, l.wireMode) = l.wireMode
    BY <2>3, OneAfter
  <2> HIDE DEF n, said, first
  <2>6. s \in Seq(Asked) /\ ModeAfter(s, l.wireMode) = "active"
    BY <2>4, <2>5, ConcatAfter
  <2> HIDE DEF s
  <2>7. t \in Seq(Asked) /\ ModeAfter(t, l.wireMode) = "active"
    BY <2>3, <2>6, PushAfter
  <2> HIDE DEF t
  <2> QED BY <2>1, <2>2, <2>7 DEF Speaks, Outcome
<1> QED BY <1>1, <1>2

(* Evidence of the media path or of the peer.                                *)
LEMMA EvidenceSpeaks ==
  ASSUME NEW m \in Senders
  PROVE  Speaks(m, MediaPathEvidence(m, 0)) /\ Speaks(m, CtrlEvidence(m))
<1>1. CASE m.state = "closed"
  BY <1>1, IgnoredSpeaks DEF MediaPathEvidence, CtrlEvidence, Where
<1>2. CASE m.state # "closed"
  <2> DEFINE k == [m EXCEPT !.mediaAge = 0, !.peerAge = 0, !.owedAge = None]
             c == [m EXCEPT !.peerAge = 0]
  <2>1. /\ k \in Senders /\ k.wireMode = m.wireMode
        /\ c \in Senders /\ c.wireMode = m.wireMode
    BY DEF Senders
  <2>2. /\ MediaPathEvidence(m, 0) = ExitFrozen(k, 0)
        /\ CtrlEvidence(m) = ExitFrozen(c, 0)
    BY <1>2 DEF MediaPathEvidence, CtrlEvidence, Where
  <2> HIDE DEF k, c
  <2> QED BY <2>1, <2>2, ExitSpeaks
<1> QED BY <1>1, <1>2

(* Input to an IDLE host: the word and the mode move together.               *)
LEMMA WakeSpeaks ==
  ASSUME NEW m \in Senders
  PROVE  Speaks(m, Wake(m))
<1> DEFINE n == [m EXCEPT !.state = "active", !.wireMode = "active"]
           s == <<"modeActive">>
<1>1. n \in Senders /\ n.wireMode = "active"
  BY DEF Senders, States, WireModes
<1>2. /\ "modeActive" \in Asked /\ "modeActive" \in DOMAIN ModeOf
      /\ "armIdr" \in Asked /\ "armIdr" \notin DOMAIN ModeOf
      /\ ModeOf["modeActive"] = "active"
  BY ModeWords DEF Asked, Spoken
<1>3. s \in Seq(Asked) /\ ModeAfter(s, m.wireMode) = "active"
  BY <1>2, OneAfter
<1>4. <<"modeActive", "armIdr">> = s \o <<"armIdr">>
  OBVIOUS
<1> HIDE DEF n, s
<1>5. /\ s \o <<"armIdr">> \in Seq(Asked)
      /\ ModeAfter(s \o <<"armIdr">>, m.wireMode) = "active"
  BY <1>2, <1>3, PushAfter
<1>6. Wake(m) = Outcome(n, s \o <<"armIdr">>)
  BY <1>4 DEF Wake, n
<1> QED BY <1>1, <1>5, <1>6 DEF Speaks, Outcome

(* Each input that the session feeds its sender.                             *)
LEMMA InputsSpeak ==
  ASSUME NEW m \in Senders
  PROVE  /\ Speaks(m, PreArmInput(m)) /\ Speaks(m, Damage(m))
         /\ Speaks(m, RatchetConverged(m)) /\ Speaks(m, FinalFrameAcknowledged(m))
         /\ Speaks(m, TeardownMessage(m)) /\ Speaks(m, TeardownRequest(m))
<1>1. Speaks(m, Ignored(m))
  BY IgnoredSpeaks
<1>2. Speaks(m, PreArmInput(m))
  <2> DEFINE n == [m EXCEPT !.preArmed = TRUE]
  <2>1. n \in Senders /\ n.wireMode = m.wireMode
    BY DEF Senders
  <2>2. PreArmInput(m) \in {Ignored(m), Wake(m), Ignored(n)}
    BY DEF PreArmInput, Where
  <2> HIDE DEF n
  <2> QED BY <1>1, <2>1, <2>2, WakeSpeaks, IgnoredSpeaks
<1>3. Speaks(m, Damage(m))
  <2> DEFINE n == [m EXCEPT !.awaiting = FALSE]
  <2>1. n \in Senders /\ n.wireMode = m.wireMode
    BY DEF Senders
  <2>2. Damage(m) \in {Ignored(m), Wake(m), Ignored(n)}
    BY DEF Damage, Where
  <2> HIDE DEF n
  <2> QED BY <1>1, <2>1, <2>2, WakeSpeaks, IgnoredSpeaks
<1>4. Speaks(m, RatchetConverged(m))
  <2> DEFINE n == [m EXCEPT !.awaiting = TRUE]
  <2>1. n \in Senders /\ n.wireMode = m.wireMode
    BY DEF Senders
  <2>2. RatchetConverged(m) \in {Ignored(m), Outcome(n, <<"finalFrame">>)}
    BY DEF RatchetConverged, Where
  <2>3. "finalFrame" \in Asked /\ "finalFrame" \notin DOMAIN ModeOf
    BY ModeWords DEF Asked
  <2> HIDE DEF n
  <2> QED BY <1>1, <2>1, <2>2, <2>3, QuietSpeaks
<1>5. Speaks(m, FinalFrameAcknowledged(m))
  <2> DEFINE n == [m EXCEPT !.awaiting = FALSE, !.state = "idle",
                            !.wireMode = "idle", !.clean = 0]
             s == <<"modeIdle">>
  <2>1. n \in Senders /\ n.wireMode = "idle"
    BY DEF Senders, States, WireModes
  <2>2. FinalFrameAcknowledged(m) \in {Ignored(m), Outcome(n, s)}
    BY DEF FinalFrameAcknowledged, Where
  <2>3. /\ "modeIdle" \in Asked /\ "modeIdle" \in DOMAIN ModeOf
        /\ ModeOf["modeIdle"] = "idle"
    BY ModeWords DEF Asked, Spoken
  <2>4. s \in Seq(Asked) /\ ModeAfter(s, m.wireMode) = "idle"
    BY <2>3, OneAfter
  <2> HIDE DEF n, s
  <2>5. Speaks(m, Outcome(n, s))
    BY <2>1, <2>4 DEF Speaks, Outcome
  <2> QED BY <1>1, <2>2, <2>5
<1>6. Speaks(m, TeardownMessage(m)) /\ Speaks(m, TeardownRequest(m))
  BY <1>1, CloseSpeaks DEF TeardownMessage, TeardownRequest, Where
<1> QED BY <1>2, <1>3, <1>4, <1>5, <1>6

(* The window between two encodes.                                           *)
LEMMA WindowSpeaks ==
  ASSUME NEW m \in Senders, NEW clean
  PROVE  Speaks(m, FeedbackWindow(m, clean))
<1> DEFINE a == [m EXCEPT !.clean = 0]
           b == [m EXCEPT !.state = "active", !.clean = 0]
           c == [m EXCEPT !.clean = @ + 1]
<1>1. FeedbackWindow(m, clean) \in {Ignored(m), Ignored(a), Ignored(b), Ignored(c)}
  BY DEF FeedbackWindow, Where
<1>2. a \in Senders /\ a.wireMode = m.wireMode
  BY DEF Senders
<1>3. b \in Senders /\ b.wireMode = m.wireMode
  BY DEF Senders, States
<1>4. c \in Senders /\ c.wireMode = m.wireMode
  <2>1. m.clean + 1 \in Nat
    BY DEF Senders
  <2> QED BY <2>1 DEF Senders
<1> HIDE DEF a, b, c
<1> QED BY <1>1, <1>2, <1>3, <1>4, IgnoredSpeaks

(* A judged frame, and a poll that stands in for one.                        *)
LEMMA JudgedSpeaks ==
  ASSUME NEW m, NEW o, Speaks(m, o), NEW clean
  PROVE  Speaks(m, Judged(o, clean))
<1> DEFINE p == Advance(o, 0)
           w == FeedbackWindow(p.machine, clean)
<1>1. Speaks(m, p)
  BY AdvanceSpeaks
<1>2. Judged(o, clean) = Outcome(w.machine, p.actions \o w.actions)
  BY DEF Judged, Then
<1> HIDE DEF p
<1>3. Speaks(p.machine, w)
  BY <1>1, WindowSpeaks DEF Speaks
<1> HIDE DEF w
<1> QED BY <1>1, <1>2, <1>3, JoinSpeaks

LEMMA JudgedInTurnSpeaks ==
  ASSUME NEW m, NEW o, Speaks(m, o), NEW windows
  PROVE  Speaks(m, JudgedInTurn(o, windows))
<1> DEFINE j == Judged(o, windows[1])
<1>1. Speaks(m, j)
  BY JudgedSpeaks
<1>2. JudgedInTurn(o, windows) \in {o, j, Judged(j, windows[2])}
  BY DEF JudgedInTurn
<1> HIDE DEF j
<1>3. Speaks(m, Judged(j, windows[2]))
  BY <1>1, JudgedSpeaks
<1> QED BY <1>1, <1>2, <1>3

(* A drive of the lane that Speaks describes.                                *)
LEMMA DriveAgrees ==
  ASSUME ModesInv, NEW o, Speaks(host, o), NEW owed, HostHears(o, owed),
         UNCHANGED client
  PROVE  ModesInv'
<1> DEFINE p == Advance(o, 0)
           words == Words(p.actions)
<1>1. host' = p.machine /\ toClient' = toClient \o words
  BY DEF HostHears
<1>2. Speaks(host, p)
  BY AdvanceSpeaks
<1> HIDE DEF p
<1>3. /\ words \in Seq(Spoken)
      /\ ModeAfter(words, host.wireMode) = p.machine.wireMode
  BY <1>2, WordsAfter DEF Speaks
<1> HIDE DEF words
<1>4. toClient' \in Seq(Spoken)
  BY <1>1, <1>3, ConcatProperties DEF ModesInv
<1>5. toClient \in Seq(Asked) /\ words \in Seq(Asked)
  BY <1>3, SeqMonotonic DEF ModesInv, Asked
<1>6. ModeAfter(toClient', client.wireMode) =
        ModeAfter(words, ModeAfter(toClient, client.wireMode))
  BY <1>1, <1>5, ConcatAfter
<1>7. ModesAgree'
  BY <1>1, <1>3, <1>6 DEF ModesInv, ModesAgree
<1> QED BY <1>4, <1>7 DEF ModesInv

(* What follows on the same lane.                                            *)
LEMMA ThenSpeaks ==
  ASSUME NEW m, NEW o, Speaks(m, o), NEW next,
         Speaks(Advance(o, 0).machine, next)
  PROVE  Speaks(m, Outcome(next.machine, Advance(o, 0).actions \o next.actions))
BY AdvanceSpeaks, JoinSpeaks

(* Every action of the host keeps the agreement.                             *)
LEMMA HostAgrees ==
  ASSUME host \in Senders, ModesInv,
         \/ HostWord \/ HostTimer \/ HostCtrl \/ HostTeardown \/ HostDamage
         \/ HostConverges
         \/ \E windows \in BoundedSeq(BOOLEAN, 2) : HostFeedback(windows)
         \/ \E media \in {"video", "audio"} : HostSends(media)
         \/ \E f \in 1 .. MaxFrames : HostFrameAcked(f)
  PROVE  ModesInv'
<1> DEFINE e == CtrlEvidence(host)
           y == Advance(e, 0).machine
<1>1. Speaks(host, e)
  BY EvidenceSpeaks
<1>2. y \in Senders
  BY <1>1, AdvanceSpeaks DEF Speaks
<1>3. CASE HostTimer
  BY <1>3, IgnoredSpeaks, DriveAgrees DEF HostTimer, HostRuns
<1>4. CASE HostCtrl
  BY <1>1, <1>4, DriveAgrees DEF HostCtrl, HostRuns
<1>5. CASE HostTeardown \/ HostDamage \/ HostConverges
  BY <1>5, InputsSpeak, DriveAgrees
     DEF HostTeardown, HostDamage, HostConverges, HostRuns
<1>6. CASE HostWord
  <2> DEFINE word(m) == IF Head(toHost) = "input" THEN PreArmInput(m)
                        ELSE TeardownMessage(m)
             o == Then(e, word)
  <2>1. HostHears(o, trace.owed) /\ UNCHANGED client
    BY <1>6 DEF HostWord, HostRuns
  <2>2. o = Outcome(word(y).machine, Advance(e, 0).actions \o word(y).actions)
    BY DEF Then
  <2> HIDE DEF e, o
  <2>3. Speaks(y, word(y))
    BY <1>2, InputsSpeak
  <2>4. Speaks(host, o)
    BY <1>1, <2>2, <2>3, ThenSpeaks
  <2> QED BY <2>1, <2>4, DriveAgrees
<1>7. ASSUME NEW f, HostFrameAcked(f) PROVE ModesInv'
  <2> DEFINE o == Then(e, FinalFrameAcknowledged)
  <2>1. HostHears(o, trace.owed) /\ UNCHANGED client
    BY <1>7 DEF HostFrameAcked, HostRuns
  <2>2. o = Outcome(FinalFrameAcknowledged(y).machine,
                    Advance(e, 0).actions \o FinalFrameAcknowledged(y).actions)
    BY DEF Then
  <2> HIDE DEF e, o
  <2>3. Speaks(y, FinalFrameAcknowledged(y))
    BY <1>2, InputsSpeak
  <2>4. Speaks(host, o)
    BY <1>1, <2>2, <2>3, ThenSpeaks
  <2> QED BY <2>1, <2>4, DriveAgrees
<1>8. ASSUME NEW windows, HostFeedback(windows) PROVE ModesInv'
  <2> DEFINE h == MediaPathEvidence(host, 0)
             o == JudgedInTurn(h, windows)
  <2>1. HostHears(o, FALSE) /\ UNCHANGED client
    BY <1>8 DEF HostFeedback
  <2>2. Speaks(host, h)
    BY EvidenceSpeaks
  <2> HIDE DEF h
  <2>3. Speaks(host, o)
    BY <2>2, JudgedInTurnSpeaks
  <2> QED BY <2>1, <2>3, DriveAgrees
<1>9. ASSUME NEW media, HostSends(media) PROVE ModesInv'
  <2>1. host'.wireMode = host.wireMode
    <3> DEFINE k == [host EXCEPT !.owedAge = 0]
    <3>1. k.wireMode = host.wireMode
      BY DEF Senders
    <3>2. host' \in {host, k}
      BY <1>9 DEF HostSends, MediaSent, Where, Ignored, Outcome
    <3> QED BY <3>1, <3>2
  <2>2. UNCHANGED <<client, toClient>>
    BY <1>9 DEF HostSends
  <2> QED BY <2>1, <2>2 DEF ModesInv, ModesAgree
<1> QED BY <1>3, <1>4, <1>5, <1>6, <1>7, <1>8, <1>9

-----------------------------------------------------------------------------
(* The client: only a word of the host's changes its wire mode.              *)

KeepsMode(m, n) ==
  /\ n \in Listeners /\ n.wireMode = m.wireMode
  /\ m.state = "closed" => n.state = "closed"

(* The client does not change its mode by itself: neither in a poll,         *)
LEMMA PollKeepsMode ==
  ASSUME NEW m \in Listeners
  PROVE  KeepsMode(m, Poll(m, 0).machine)
<1> DEFINE n == Poll(m, 0).machine
           c == [m EXCEPT !.state = "closed"]
           f == [m EXCEPT !.awaiting = FALSE, !.state = "frozen"]
<1>1. n = m \/ (m.state # "closed" /\ n \in {c, f})
  BY DEF Poll, Close, Ignored, Outcome
<1>2. /\ c \in Listeners /\ c.wireMode = m.wireMode
      /\ f \in Listeners /\ f.wireMode = m.wireMode
  BY DEF Listeners, States
<1> HIDE DEF n, c, f
<1>3. KeepsMode(m, n)
  BY <1>1, <1>2 DEF KeepsMode
<1> QED BY <1>3 DEF n

(* nor in the poll before an input,                                          *)
LEMMA AdvanceKeepsMode ==
  ASSUME NEW m, NEW o, KeepsMode(m, o.machine)
  PROVE  KeepsMode(m, Advance(o, 0).machine)
<1>1. Advance(o, 0).machine = Poll(o.machine, 0).machine
  BY DEF Advance, Outcome
<1>2. KeepsMode(o.machine, Poll(o.machine, 0).machine)
  BY PollKeepsMode DEF KeepsMode
<1> QED BY <1>1, <1>2 DEF KeepsMode

(* nor on evidence of the media path or of a frame,                          *)
LEMMA EvidenceKeepsMode ==
  ASSUME NEW m \in Listeners
  PROVE  KeepsMode(m, MediaPathEvidence(m, 0).machine)
<1> DEFINE k == [m EXCEPT !.mediaAge = 0, !.peerAge = 0, !.owedAge = None]
           x == [k EXCEPT !.mediaAge = 0, !.owedAge = None, !.state = k.wireMode]
           n == MediaPathEvidence(m, 0).machine
<1>1. /\ k \in Listeners /\ k.state = m.state /\ k.wireMode = m.wireMode
      /\ k.role = "mediaReceiver" /\ k.wireMode \in States
  BY DEF Listeners, States, WireModes
<1>2. n = m \/ (m.state # "closed" /\ n = ExitFrozen(k, 0).machine)
  BY DEF MediaPathEvidence, Where, Ignored, Outcome
<1> HIDE DEF k, n
<1>3. ExitFrozen(k, 0).machine \in {k, x}
  BY <1>1 DEF ExitFrozen, IsSender, Ignored, Outcome
<1>4. x \in Listeners /\ x.wireMode = k.wireMode
  BY <1>1 DEF Listeners
<1> HIDE DEF x
<1>5. KeepsMode(m, n)
  BY <1>1, <1>2, <1>3, <1>4 DEF KeepsMode
<1> QED BY <1>5 DEF n

(* nor under another policy,                                                 *)
LEMMA ReconfiguredKeepsMode ==
  ASSUME NEW m \in Listeners, NEW c \in Policies
  PROVE  KeepsMode(m, Reconfigured(m, c))
<1> DEFINE f == Machine(m.role, c)
           n == [f EXCEPT !.peerAge = 0, !.wireMode = m.wireMode,
               !.state = m.wireMode,
                          !.mediaAge = IF f.state = "frozen" THEN 0 ELSE @]
<1>1. CASE m.state = "closed"
  BY <1>1 DEF Reconfigured, KeepsMode
<1>2. CASE m.state # "closed"
  <2>1. m.role = "mediaReceiver" /\ m.wireMode \in WireModes
          /\ m.wireMode \in States
    BY DEF Listeners, WireModes, States
  <2>2. f \in Listeners /\ f.role = "mediaReceiver" /\ f.state = "active"
    BY <2>1 DEF Machine, Listeners, States, WireModes, None
  <2> HIDE DEF f
  <2>3. n \in Listeners /\ n.wireMode = m.wireMode
    BY <2>1, <2>2 DEF Listeners
  <2>4. Reconfigured(m, c) = n
    BY <1>2, <2>2 DEF Reconfigured, ModeMessage, Where, IsSender, Ignored, Outcome,
         f
  <2> HIDE DEF n
  <2> QED BY <1>2, <2>3, <2>4 DEF KeepsMode
<1> QED BY <1>1, <1>2

(* nor in closing.                                                           *)
LEMMA CloseKeepsMode ==
  ASSUME NEW m \in Listeners
  PROVE  /\ KeepsMode(m, TeardownRequest(m).machine)
         /\ KeepsMode(m, TeardownMessage(m).machine)
         /\ TeardownMessage(m).machine.state = "closed"
<1> DEFINE c == [m EXCEPT !.state = "closed"]
<1>1. /\ TeardownRequest(m).machine = IF m.state = "closed" THEN m ELSE c
      /\ TeardownMessage(m).machine = IF m.state = "closed" THEN m ELSE c
  BY DEF TeardownRequest, TeardownMessage, Where, Close, Ignored, Outcome
<1>2. c \in Listeners /\ c.wireMode = m.wireMode /\ c.state = "closed"
  BY DEF Listeners, States
<1> HIDE DEF c
<1> QED BY <1>1, <1>2 DEF KeepsMode

(* The client goes on in the mode it was in, or has closed.                  *)
LEMMA SameModeAgrees ==
  ASSUME ModesInv, KeepsMode(client, client'), UNCHANGED <<host, toClient>>
  PROVE  ModesInv'
<1>1. client' \in Listeners /\ toClient' \in Seq(Spoken)
  BY DEF ModesInv, KeepsMode
<1>2. ASSUME client'.state # "closed"
      PROVE  host'.wireMode = ModeAfter(toClient', client'.wireMode)
  <2>1. client.state # "closed" /\ client'.wireMode = client.wireMode
    BY <1>2 DEF KeepsMode
  <2> QED BY <2>1 DEF ModesInv, ModesAgree
<1> QED BY <1>1, <1>2 DEF ModesInv, ModesAgree

(* What the shell does of it is the machine or its close.                    *)
LEMMA ClientRunsKeepsMode ==
  ASSUME NEW o, KeepsMode(client, o.machine), ClientRuns(o)
  PROVE  KeepsMode(client, client')
<1>1. client' = Advance(o, 0).machine
  BY DEF ClientRuns
<1> QED BY <1>1, AdvanceKeepsMode

(* A word is taken off the stream and applied: what is left of the stream    *)
(* leads to the same mode from there.                                        *)
LEMMA ClientWordAgrees == ASSUME ModesInv, ClientWord PROVE ModesInv'
<1> DEFINE word == Head(toClient)
           w == WordApplied(client, word)
           y == Advance(w, 0).machine
           e == MediaPathEvidence(y, 0)
           o == Then(w, LAMBDA m : MediaPathEvidence(m, 0))
           mode == IF word \in DOMAIN ModeOf THEN ModeOf[word] ELSE client.wireMode
<1>1. /\ toClient # << >> /\ toClient' = Tail(toClient) /\ host' = host
      /\ client' = Advance(o, 0).machine
  BY DEF ClientWord, ClientRuns
<1>2. toClient \in Seq(Asked) /\ client \in Listeners
  BY SeqMonotonic DEF ModesInv, Asked
<1>3. /\ word \in Spoken /\ Tail(toClient) \in Seq(Spoken)
      /\ ModeAfter(toClient, client.wireMode) = ModeAfter(Tail(toClient), mode)
  <2>1. Head(toClient) \in Spoken /\ Tail(toClient) \in Seq(Spoken)
    BY <1>1, HeadTailProperties DEF ModesInv
  <2> QED BY <1>1, <1>2, <2>1, HeadAfter
<1>4. o.machine = e.machine
  BY DEF Then, Outcome
<1> HIDE DEF o
<1>5. /\ w.machine \in Listeners
      /\ w.machine.state # "closed" =>
           client.state # "closed" /\ w.machine.wireMode = mode
  <2>1. CASE word = "teardown"
    <3>1. w = TeardownMessage(client)
      BY <2>1 DEF WordApplied
    <3> HIDE DEF w
    <3> QED BY <1>2, <3>1, CloseKeepsMode DEF KeepsMode
  <2>2. CASE word # "teardown"
    <3>1. word \in DOMAIN ModeOf /\ mode \in WireModes /\ mode \in States
      BY <1>3, <2>2, ModeWords DEF Spoken, WireModes, States
    <3>2. w = ModeMessage(client, mode)
      BY <2>2, <3>1 DEF WordApplied
    <3> HIDE DEF w, mode
    <3> DEFINE n == [client EXCEPT !.peerAge = 0, !.wireMode = mode, !.state = mode,
                       !.mediaAge = IF client.state = "frozen" THEN 0 ELSE @]
    <3>3. n \in Listeners /\ n.wireMode = mode
      BY <1>2, <3>1 DEF Listeners
    <3>4. w.machine = IF client.state = "closed" THEN client ELSE n
      BY <1>2, <3>2 DEF ModeMessage, Where, IsSender, Ignored, Outcome, Listeners
    <3> HIDE DEF n
    <3> QED BY <1>2, <3>3, <3>4
  <2> QED BY <2>1, <2>2
<1> HIDE DEF w, mode
<1>6. KeepsMode(w.machine, y)
  <2>1. KeepsMode(w.machine, w.machine)
    BY <1>5 DEF KeepsMode
  <2> QED BY <2>1, AdvanceKeepsMode
<1> HIDE DEF y
<1>7. KeepsMode(y, e.machine)
  BY <1>6, EvidenceKeepsMode DEF KeepsMode
<1> HIDE DEF e
<1>8. KeepsMode(e.machine, client')
  <2>1. KeepsMode(o.machine, o.machine)
    BY <1>4, <1>7 DEF KeepsMode
  <2> QED BY <1>1, <1>4, <2>1, AdvanceKeepsMode
<1>9. /\ client' \in Listeners
      /\ client'.state # "closed" => client.state # "closed"
          /\ client'.wireMode = mode
  BY <1>5, <1>6, <1>7, <1>8 DEF KeepsMode
<1>10. ModesAgree'
  BY <1>1, <1>3, <1>9 DEF ModesInv, ModesAgree
<1> QED BY <1>1, <1>3, <1>9, <1>10 DEF ModesInv

(* Every action of the client keeps the agreement.                           *)
LEMMA ClientAgrees ==
  ASSUME ModesInv,
         \/ ClientWord \/ ClientBeat \/ ClientInput \/ ClientTeardown
         \/ \E carried \in Carried : ClientDatagram(carried)
         \/ \E f \in 1 .. MaxFrames : ClientFrame(f)
  PROVE  ModesInv'
<1>1. client \in Listeners /\ KeepsMode(client, client)
  BY DEF ModesInv, KeepsMode
<1>2. CASE ClientWord
  BY <1>2, ClientWordAgrees
<1>3. CASE ClientBeat
  <2>1. Ignored(client).machine = client
    BY DEF Ignored, Outcome
  <2>2. KeepsMode(client, client')
    BY <1>1, <1>3, <2>1, ClientRunsKeepsMode DEF ClientBeat
  <2> QED BY <1>3, <2>2, SameModeAgrees DEF ClientBeat
<1>4. CASE ClientInput
  BY <1>1, <1>4, SameModeAgrees DEF ClientInput
<1>5. CASE ClientTeardown
  <2>1. KeepsMode(client, client')
    BY <1>1, <1>5, CloseKeepsMode, ClientRunsKeepsMode DEF ClientTeardown
  <2> QED BY <1>5, <2>1, SameModeAgrees DEF ClientTeardown
<1>6. ASSUME NEW carried, ClientDatagram(carried) PROVE ModesInv'
  <2> DEFINE tight == [ClientConfig EXCEPT !.blackout = Tightened]
             heard == Redetected(client, carried, ClientConfig, tight)
             o == MediaPathEvidence(heard, 0)
  <2>1. ClientRuns(o) /\ UNCHANGED <<host, toClient>>
    BY <1>6 DEF ClientDatagram
  <2>2. KeepsMode(client, heard)
    <3>1. ClientConfig \in Policies /\ tight \in Policies
      BY DEF Policies
    <3> QED BY <1>1, <3>1, ReconfiguredKeepsMode DEF Redetected
  <2> HIDE DEF heard
  <2>3. KeepsMode(heard, o.machine)
    BY <2>2, EvidenceKeepsMode DEF KeepsMode
  <2> HIDE DEF o
  <2>4. KeepsMode(client, client')
    BY <2>1, <2>2, <2>3, ClientRunsKeepsMode DEF KeepsMode
  <2> QED BY <2>1, <2>4, SameModeAgrees
<1>7. ASSUME NEW f, ClientFrame(f) PROVE ModesInv'
  <2>1. KeepsMode(client, client')
    BY <1>1, <1>7, EvidenceKeepsMode, ClientRunsKeepsMode DEF ClientFrame
  <2> QED BY <1>7, <2>1, SameModeAgrees DEF ClientFrame
<1> QED BY <1>2, <1>3, <1>4, <1>5, <1>6, <1>7

(* It starts in the mode its host starts in.                                 *)
LEMMA ModesInit == Init => ModesInv
<1> SUFFICES ASSUME Init PROVE ModesInv
  OBVIOUS
<1>1. client \in Listeners /\ client.wireMode = "active" /\ host.wireMode = "active"
  BY DEF Init, Machine, Listeners, Policies, States, WireModes, None
<1>2. toClient = << >>
  BY DEF Init
<1> QED BY <1>1, <1>2, NoneAfter DEF ModesInv, ModesAgree

(* The clock and the path change no mode.                                    *)
LEMMA ModesNext == LaneInv /\ ModesInv /\ [Next]_vars => ModesInv'
<1> SUFFICES ASSUME LaneInv, ModesInv, [Next]_vars PROVE ModesInv'
  OBVIOUS
<1>1. host \in Senders
  BY DEF LaneInv
<1>2. CASE Tick
  <2> DEFINE grown(m, age) == IF age = None \/ age >= m.config.liveness
                              THEN age ELSE age + 1
  <2>1. host'.wireMode = host.wireMode
    BY <1>1, <1>2 DEF Tick, Older, Senders
  <2>2. client' = [client EXCEPT !.mediaAge = grown(client, @),
                                 !.peerAge = grown(client, @),
                                 !.owedAge = grown(client, @)]
    BY <1>2 DEF Tick, Older, ModesInv, Listeners
  <2>3. client \in Listeners
    BY DEF ModesInv
  <2>4. /\ grown(client, client.mediaAge) \in Nat
        /\ grown(client, client.peerAge) \in Nat
        /\ grown(client, client.owedAge) \in Nat \cup {None}
    BY <2>3 DEF Listeners, None
  <2> HIDE DEF grown
  <2>5. /\ client' \in Listeners /\ client'.wireMode = client.wireMode
        /\ client'.state = client.state
    BY <2>2, <2>3, <2>4 DEF Listeners
  <2>6. toClient' = toClient
    BY <1>2 DEF Tick
  <2> QED BY <2>1, <2>5, <2>6 DEF ModesInv, ModesAgree
<1>3. CASE PathChanges \/ UNCHANGED vars
  BY <1>3 DEF PathChanges, vars, ModesInv, ModesAgree
<1> QED BY <1>1, <1>2, <1>3, HostAgrees, ClientAgrees DEF Next, Evidence

(* Whatever freezes, thaws and flips happen at either end, the mode words on *)
(* their way lead the client to the mode its host is in.                     *)
THEOREM WireModesAgree == Spec => []ModesAgree
<1>1. ModesInv => ModesAgree
  BY DEF ModesInv
<1> QED BY <1>1, ModesInit, ModesNext, LaneInvariance, PTL DEF Spec
=============================================================================
