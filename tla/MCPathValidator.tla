--------------------------- MODULE MCPathValidator ---------------------------
(* PathValidator on a small instance.  The client sends for ever, so the     *)
(* seqs that still matter are renumbered after every step, their order on    *)
(* each channel kept: PathValidator only ever compares them.  So are tokens: *)
(* one that is no longer the probe's never is again while it is in use.      *)
EXTENDS PathValidator

Alive(c) == {since[c]} \cup {d.seq : d \in {e \in net : e.channel = c}}
            \cup {o[c] : o \in {v.primaryOrder, v.fallbackOrder, v.probe.order}}

Rank(c, n) == Cardinality({m \in Alive(c) : 0 < m /\ m <= n})
Ranked(o) == [c \in Channels |-> Rank(c, o[c])]
Newer == [c \in Channels |-> Cardinality(Alive(c) \ {0})]

Live == CHOOSE token \in Tokens : TRUE
Dead == CHOOSE token \in Tokens \ {Live} : TRUE
Renamed(token) == CASE token = None -> None
                    [] token = v.probe.token /\ token # None -> Live
                    [] OTHER -> Dead

Compact ==
    /\ sent = Newer
    /\ \A c \in Channels : \A n \in Alive(c) : Rank(c, n) = n
    /\ \A x \in net \cup challenges \cup {v.probe} : x.token = Renamed(x.token)

Renumber ==
    /\ ~Compact
    /\ v' = [v EXCEPT !.primaryOrder = Ranked(@), !.fallbackOrder = Ranked(@),
                      !.probe.order = Ranked(@), !.probe.token = Renamed(@)]
    /\ sent' = Newer /\ since' = Ranked(since)
    /\ net' = {[d EXCEPT !.seq = Rank(d.channel, @), !.token = Renamed(@)] :
                d \in net}
    /\ challenges' = {[c EXCEPT !.token = Renamed(@)] : c \in challenges}
    /\ UNCHANGED <<at, moves, proofAge>>

MCNext == Renumber \/ (Compact /\ Next)

(* Fairness: the client keeps sending on every channel, and a network that   *)
(* keeps being offered datagrams of a kind delivers one in time; sometimes a *)
(* challenge, its answer and the answer's delivery all fit in one probe's    *)
(* timeout; a challenge to a place the client has left is lost; the clock    *)
(* runs.                                                                     *)

Sends(channel) == \E size \in Sizes: ClientSends(channel, size)
Newest(channel) ==
    \E d \in net: /\ d.channel = channel /\ d.from = at /\ d.seq > since[channel]
                  /\ Receive(d)
NewestAsks == \E channel \in Channels: Newest(channel) /\ challenges' # challenges
AnswerLeaves ==
    /\ v.probe.left > 0
    /\ \E c \in challenges, size \in Sizes:
            c = [to |-> at, token |-> v.probe.token] /\ ClientAnswers(c, size)
AnswerLands ==
    /\ v.probe.left > 0
    /\ \E d \in net: d.from = at /\ Answers(v, d) /\ Receive(d)
Drains == \E c \in challenges: NetLosesChallenge(c)

MCSpec ==
    /\ Init /\ [][MCNext]_vars
    /\ WF_vars(Renumber)
    /\ SF_vars(Compact /\ Tick) /\ SF_vars(Compact /\ Drains)
    /\ SF_vars(Compact /\ NewestAsks)
    /\ SF_vars(Compact /\ AnswerLeaves) /\ SF_vars(Compact /\ AnswerLands)
    /\ \A channel \in Channels: /\ SF_vars(Compact /\ Sends(channel))
                                /\ SF_vars(Compact /\ Newest(channel))
=============================================================================
