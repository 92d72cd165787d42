------------------------------ MODULE InputPath ------------------------------
(* A key from the Mac's keyboard to the host's virtual devices: the client's *)
(* forwarding policy (InputForwardingPolicy, driven by LyteInputCapture),    *)
(* the session's reliable stream, the host's book of held keys               *)
(* (HeldInputBook, UinputInjector) and the devices, which outlive the        *)
(* session.  Three views of what is down - the Mac's, the policy's, the      *)
(* host's - are kept in step by events alone, some of which the Mac's menus  *)
(* swallow.                                                                  *)
(* Key repeats are swallowed or passed to AppKit without a change of state   *)
(* and are left out, as are motion and scroll; Shift and Option behave as    *)
(* Control does outside a chord.                                             *)
EXTENDS Naturals, Sequences, SequencesExt, FiniteSets

CONSTANTS
    Keys,      \* the Mac's keys
    CodesOf,   \* per key, the evdev codes the key map may give it
    Button,    \* a pointer button, as itself
    WireBound, \* sends not yet injected when the user acts again
    Missed,    \* events swallowed by menu tracking or a title-bar drag
    Sessions   \* sessions of one host process

LeftCtrl == "KEY_LEFTCTRL"
Meta == "KEY_LEFTMETA"
CapsLock == "KEY_CAPSLOCK"
Modifiers == {LeftCtrl, Meta}
modifierKeyCodes == Modifiers \cup {CapsLock}
Codes == UNION {CodesOf[k] : k \in Keys}

ASSUME CodesApart ==
    /\ \A k \in Keys : CodesOf[k] # {}
    /\ \A j, k \in Keys : j # k => CodesOf[j] \cap CodesOf[k] = {}
    /\ (Codes \cup {Button}) \cap modifierKeyCodes = {} /\ Button \notin Codes
    /\ Missed \in Nat /\ Sessions \in Nat

VARIABLES
    mac,    \* what is physically down, Caps Lock, and the window's focus
    policy, \* InputForwardingPolicy
    wire,   \* events on the reliable stream, in order
    desk,   \* codes the virtual devices hold down
    book,   \* HeldInputBook's keys and buttons
    lock,   \* the host desktop's Caps Lock
    phase,  \* "up", "closing" (the close ran, threads still serve), "down"
    budget, \* swallowed events and sessions left
    unlifted, \* history: a release was swallowed
    twice   \* history: a Control the policy believes down was pressed twice,
            \* for the user and for a chord

history == <<unlifted, twice>>
inputVars == <<mac, policy, wire, desk, book, lock, phase, budget, history>>
host == <<desk, book, lock, phase>>

FreshPolicy == [heldKeys |-> {}, heldButtons |-> {}, pendingCommandKeys |-> {},
                pressedAs |-> [k \in {} |-> {}], controlChordKeys |-> {},
                hostCapsLock |-> FALSE]

InputInit ==
    /\ mac \in [keys : {{}}, mods : {{}}, buttons : {{}}, caps : BOOLEAN,
                focused : {TRUE}]
    /\ policy = FreshPolicy /\ wire = <<>>
    /\ desk = {} /\ book = {} /\ lock = FALSE /\ phase = "up"
    /\ budget = [missed |-> Missed, sessions |-> Sessions - 1]
    /\ unlifted = FALSE /\ twice = FALSE

------------------------------------------------------------------------------
(* The policy's steps.  A verdict v carries the policy and the sends so far. *)

Down(code) == [code |-> code, pressed |-> TRUE]
Up(code) == [code |-> code, pressed |-> FALSE]
Edges(codes, Edge(_)) ==
    LET order == SetToSeq(codes) IN [i \in DOMAIN order |-> Edge(order[i])]

Verdict == [p |-> policy, sends |-> <<>>]
Say(v, events) == [v EXCEPT !.sends = @ \o events]

ReleaseChordControl(v) ==
    IF v.p.controlChordKeys = {} THEN v
    ELSE Say([v EXCEPT !.p.controlChordKeys = {}], <<Up(LeftCtrl)>>)

SyncCapsLock(v, on) ==
    IF on = v.p.hostCapsLock THEN v
    ELSE Say([v EXCEPT !.p.hostCapsLock = on], <<Down(CapsLock), Up(CapsLock)>>)

ResyncModifiers(v, down) ==
    LET held == v.p.heldKeys \cap {LeftCtrl} IN
    Say([v EXCEPT !.p.heldKeys = (@ \ held) \cup down],
        Edges(held \ down, Up) \o Edges(down \ held, Down))

HoldBackCommand(v) ==
    LET forwarded == v.p.heldKeys \cap {Meta} IN
    Say([v EXCEPT !.p.heldKeys = @ \ forwarded,
                  !.p.pendingCommandKeys = @ \cup forwarded],
        Edges(forwarded, Up))

\* Mutant: a forwarded Command stays down on the host when the Mac's is up.
KeepsStaleCommand(v, held) ==
    Say([v EXCEPT !.p.pendingCommandKeys = {},
                  !.p.heldKeys = IF held THEN @ \cup v.p.pendingCommandKeys
                                         ELSE @],
        IF held THEN Edges(v.p.pendingCommandKeys, Down) ELSE <<>>)
ResyncCommand(v, held) ==
    LET pending == v.p.pendingCommandKeys
        stale == v.p.heldKeys \cap {Meta}
        w == [v EXCEPT !.p.pendingCommandKeys = {}]
    IN IF held
       THEN Say([w EXCEPT !.p.heldKeys = @ \cup pending], Edges(pending, Down))
       ELSE Say([w EXCEPT !.p.heldKeys = @ \ stale], Edges(stale, Up))

\* A physical Control already makes the chord.
JoinControlChord(v, code) ==
    LET adds == v.p.controlChordKeys = {} /\ LeftCtrl \notin v.p.heldKeys
        joins == adds \/ v.p.controlChordKeys # {}
    IN Say([v EXCEPT !.p.controlChordKeys = IF joins THEN @ \cup {code} ELSE @],
           IF adds THEN <<Down(LeftCtrl)>> ELSE <<>>)

Press(v, key, code) ==
    Say([v EXCEPT !.p.heldKeys = @ \cup {code},
                  !.p.pressedAs = [k \in DOMAIN @ \cup {key} |->
                                     IF k = key THEN code ELSE @[k]]],
        <<Down(code)>>)

PressedAs(key, mapped) == IF key \in DOMAIN policy.pressedAs
                          THEN policy.pressedAs[key] ELSE mapped

Command == Meta \in mac.mods
ModifiersDown == mac.mods \cap {LeftCtrl}

keyDown(key, mapped, typesLetter) ==
    LET code == PressedAs(key, mapped)
        chord == Command /\ typesLetter
        v0 == IF chord THEN Verdict ELSE ReleaseChordControl(Verdict)
        v1 == ResyncModifiers(SyncCapsLock(v0, mac.caps), ModifiersDown)
        v2 == IF chord THEN JoinControlChord(HoldBackCommand(v1), code)
                       ELSE ResyncCommand(v1, Command)
    IN Press(v2, key, code)

\* Mutant: the release goes out as the key map has it now.
ReleasedAsMapped(key, mapped) == mapped
ReleasedAs(key, mapped) == PressedAs(key, mapped)

keyUp(key, mapped) ==
    LET code == ReleasedAs(key, mapped)
        v == [Verdict EXCEPT !.p.pressedAs =
                 [k \in DOMAIN @ \ {key} |-> @[k]]]
        left == v.p.controlChordKeys \ {code}
    IN IF code \notin v.p.heldKeys THEN v
       ELSE Say([v EXCEPT !.p.heldKeys = @ \ {code},
                          !.p.controlChordKeys = left],
                <<Up(code)>> \o
                IF code \in v.p.controlChordKeys /\ left = {}
                THEN <<Up(LeftCtrl)>> ELSE <<>>)

modifierDown(code) ==
    IF code = Meta
    THEN IF Meta \in policy.heldKeys THEN Verdict
         ELSE [Verdict EXCEPT !.p.pendingCommandKeys = @ \cup {code}]
    ELSE IF policy.controlChordKeys # {}
    THEN [Verdict EXCEPT !.p.controlChordKeys = {},
                         !.p.heldKeys = @ \cup {code}]
    ELSE Say([Verdict EXCEPT !.p.heldKeys = @ \cup {code}], <<Down(code)>>)

modifierUp(code) ==
    IF code \in policy.pendingCommandKeys
    THEN [Verdict EXCEPT !.p.pendingCommandKeys = @ \ {code}]
    ELSE IF code \in policy.heldKeys
    THEN Say([Verdict EXCEPT !.p.heldKeys = @ \ {code}], <<Up(code)>>)
    ELSE Verdict

buttonDown ==
    LET v == ResyncCommand(ResyncModifiers(ReleaseChordControl(Verdict),
                                           ModifiersDown), Command)
    IN Say([v EXCEPT !.p.heldButtons = {Button}], <<Down(Button)>>)

buttonUp ==
    IF policy.heldButtons = {} THEN Verdict
    ELSE Say([Verdict EXCEPT !.p.heldButtons = {}], <<Up(Button)>>)

releaseAll ==
    LET chord == ReleaseChordControl(Verdict).sends IN
    Say([Verdict EXCEPT !.p = [FreshPolicy EXCEPT
                                 !.hostCapsLock = policy.hostCapsLock]],
        Edges(policy.heldKeys, Up) \o chord \o Edges(policy.heldButtons, Up))

------------------------------------------------------------------------------
(* The Mac.  Events reach the policy while the window has the focus.         *)

UserActs == phase # "down" /\ Len(wire) <= WireBound

BelievedOf(p) == p.heldKeys \cup p.heldButtons
                 \cup (IF p.controlChordKeys = {} THEN {} ELSE {LeftCtrl})
HoldsTwice(p) == p.controlChordKeys # {} /\ LeftCtrl \in p.heldKeys

Execute(v) == /\ policy' = v.p /\ wire' = wire \o v.sends
              /\ twice' = (LeftCtrl \in BelievedOf(v.p) /\ (twice \/ HoldsTwice(v.p)))
              /\ UNCHANGED <<host, budget, unlifted>>
Unseen == UNCHANGED <<policy, wire, host, budget, history>>
Seen(v) == IF mac.focused THEN Execute(v) ELSE Unseen

\* Menu tracking and title-bar drags take an event from the view.
Swallowed == /\ mac.focused /\ budget.missed > 0
             /\ budget' = [budget EXCEPT !.missed = @ - 1]
             /\ UNCHANGED <<policy, wire, host, twice>>
PressSwallowed == Swallowed /\ UNCHANGED unlifted
ReleaseSwallowed == Swallowed /\ unlifted' = TRUE

KeyDown(key, mapped, typesLetter) ==
    /\ UserActs /\ key \notin mac.keys
    /\ mac' = [mac EXCEPT !.keys = @ \cup {key}]
    /\ Seen(keyDown(key, mapped, typesLetter)) \/ PressSwallowed

\* An app shortcut owns this Command chord: AppKit has the key.
LocalShortcut(key) ==
    /\ UserActs /\ key \notin mac.keys /\ Command
    /\ mac' = [mac EXCEPT !.keys = @ \cup {key}]
    /\ Unseen

KeyUp(key, mapped) ==
    /\ UserActs /\ key \in mac.keys
    /\ mac' = [mac EXCEPT !.keys = @ \ {key}]
    /\ Seen(keyUp(key, mapped)) \/ ReleaseSwallowed

ModifierDown(code) ==
    /\ UserActs /\ code \notin mac.mods
    /\ mac' = [mac EXCEPT !.mods = @ \cup {code}]
    /\ Seen(modifierDown(code)) \/ PressSwallowed

ModifierUp(code) ==
    /\ UserActs /\ code \in mac.mods
    /\ mac' = [mac EXCEPT !.mods = @ \ {code}]
    /\ Seen(modifierUp(code)) \/ ReleaseSwallowed

CapsLockFlips ==
    /\ UserActs /\ mac' = [mac EXCEPT !.caps = ~@]
    /\ Seen(SyncCapsLock(Verdict, ~mac.caps)) \/ PressSwallowed

\* The point is the video's, or AppKit has the click: an overlay's, a menu's.
ButtonDown ==
    /\ UserActs /\ mac.focused /\ mac.buttons = {}
    /\ mac' = [mac EXCEPT !.buttons = {Button}]
    /\ Execute(buttonDown) \/ Unseen

ButtonUp ==
    /\ UserActs /\ mac.buttons # {}
    /\ mac' = [mac EXCEPT !.buttons = {}]
    /\ Seen(buttonUp) \/ ReleaseSwallowed

FocusLost ==
    /\ UserActs /\ mac.focused
    /\ mac' = [mac EXCEPT !.focused = FALSE]
    /\ Execute(releaseAll)

FocusReturns ==
    /\ UserActs /\ ~mac.focused
    /\ mac' = [mac EXCEPT !.focused = TRUE]
    /\ Unseen

------------------------------------------------------------------------------
(* The host, under the session's lock until its threads have stopped.        *)

Written(codes, event) == IF event.pressed THEN codes \cup {event.code}
                                          ELSE codes \ {event.code}

Inject ==
    /\ phase # "down" /\ wire # <<>>
    /\ LET event == Head(wire) IN
         /\ desk' = Written(desk, event) /\ book' = Written(book, event)
         /\ lock' = IF event = Down(CapsLock) THEN ~lock ELSE lock
    /\ wire' = Tail(wire)
    /\ UNCHANGED <<mac, policy, phase, budget, history>>

\* Mutant: modifiers are released with the keys that repeat.
ReleasesModifiers == book \ {Button}
Autorepeating == book \ (modifierKeyCodes \cup {Button})

\* Two seconds without word from the client.
InputSilence ==
    /\ phase = "up"
    /\ desk' = desk \ Autorepeating /\ book' = book \ Autorepeating
    /\ UNCHANGED <<mac, policy, wire, lock, phase, budget, history>>

\* The session closes; its threads go on serving until they are stopped.
SessionClosed ==
    /\ phase = "up" /\ phase' = "closing"
    /\ desk' = desk \ book /\ book' = {}
    /\ UNCHANGED <<mac, policy, wire, lock, budget, history>>

\* Mutant: the close has already released everything.
RetiredAsClosed == UNCHANGED <<desk, book>>
RetiredReleased == desk' = desk \ book /\ book' = {}

\* After shutdown everything still held is released; what was on the wire is
\* lost, and the client's capture stops with its session.
SessionRetired ==
    /\ phase = "closing" /\ phase' = "down"
    /\ RetiredReleased
    /\ wire' = <<>> /\ policy' = FreshPolicy /\ twice' = FALSE
    /\ UNCHANGED <<mac, lock, budget, unlifted>>

\* The same host process serves the next session, on the same devices.
NextSession ==
    /\ phase = "down" /\ budget.sessions > 0
    /\ budget' = [budget EXCEPT !.sessions = @ - 1]
    /\ phase' = "up"
    /\ UNCHANGED <<mac, policy, wire, desk, book, lock, history>>

------------------------------------------------------------------------------
InputNext ==
    \/ \E key \in Keys : \E mapped \in CodesOf[key] :
         \/ \E typesLetter \in BOOLEAN : KeyDown(key, mapped, typesLetter)
         \/ KeyUp(key, mapped)
    \/ \E key \in Keys : LocalShortcut(key)
    \/ \E code \in Modifiers : ModifierDown(code) \/ ModifierUp(code)
    \/ CapsLockFlips \/ ButtonDown \/ ButtonUp \/ FocusLost \/ FocusReturns
    \/ Inject \/ InputSilence \/ SessionClosed \/ SessionRetired \/ NextSession

InputSpec == InputInit /\ [][InputNext]_inputVars

------------------------------------------------------------------------------
(* What is held once the events were written, each code as its last event    *)
(* left it: on the devices once the wire has drained, against what the       *)
(* policy believes.                                                          *)
LastSays(code, events) ==
    \E i \in DOMAIN events :
      /\ events[i] = Down(code)
      /\ \A j \in DOMAIN events : j > i => events[j].code # code
Untouched(code, events) == \A i \in DOMAIN events : events[i].code # code
After(codes, events) ==
    {code \in codes \cup {events[i].code : i \in DOMAIN events} :
       LastSays(code, events) \/ (code \in codes /\ Untouched(code, events))}

Landing == After(desk, wire)
Believed == BelievedOf(policy)

\* A Control pressed twice: the chord's release or the user's, whichever is
\* first, lifts it on the host, and the policy goes on believing the other.
Unsure == IF twice THEN {LeftCtrl} ELSE {}

(* The host's view of what is held stays balanced: nothing is down that the  *)
(* policy has forgotten, and no silence takes a modifier or a drag away.     *)
(* The exception is a Control pressed twice (ControlPressedOnce), which may  *)
(* be up while the policy believes it down.                                  *)
Balanced ==
    phase = "up" =>
      /\ Landing \subseteq Believed
      /\ (Believed \cap (Modifiers \cup {Button})) \ Unsure \subseteq Landing

(* Every release reaches the host: until one is swallowed, nothing is down   *)
(* there that is not down on the Mac, whatever Command, the hit test, a      *)
(* swallowed press, a change of the key map or of focus came between.        *)
NothingStuck ==
    phase = "up" /\ ~unlifted =>
      /\ Landing \cap Codes \subseteq UNION {CodesOf[k] : k \in mac.keys}
      /\ Landing \cap {Button} \subseteq mac.buttons

(* The three views of what is held agree, up to what the Mac itself hid: the *)
(* host against the policy, and the host against the user's fingers.         *)
HeldAgrees == Balanced /\ NothingStuck

(* A key the policy sees reaches the host under the modifiers it was pressed *)
(* under: Control alone for a Command letter, Control as the Mac has it for  *)
(* any other key, and Super only while Command is down, whatever was held    *)
(* back before and whichever press or release of a modifier was swallowed.   *)
(* The exception is Control, and Control only, from when it was pressed      *)
(* twice (ControlPressedOnce) until the policy believes it up.               *)
UnderTheRightModifiers ==
    [][\A k \in Keys, typesLetter \in BOOLEAN :
         \A mapped \in CodesOf[k] :
           /\ KeyDown(k, mapped, typesLetter) /\ mac.focused /\ phase = "up"
           /\ UNCHANGED budget
           => IF Command /\ typesLetter
              THEN (Landing' \cap Modifiers) \ Unsure = {LeftCtrl} \ Unsure
              ELSE /\ (Landing' \cap {LeftCtrl}) \ Unsure = ModifiersDown \ Unsure
                   /\ Meta \in Landing' => Command]_inputVars

(* Nothing a session's client held stays pressed after the session.          *)
NothingStranded == phase = "down" => desk = {}

(* The host's Caps Lock follows the Mac's at every key                       *)
(* (InputForwardingPolicy.swift:34).                                         *)
Flips == Len(SelectSeq(wire, LAMBDA event : event = Down(CapsLock)))
LockLanding == lock = (Flips % 2 = 0)
CapsLockFollows ==
    [][\A key \in Keys, typesLetter \in BOOLEAN :
         \A mapped \in CodesOf[key] :
           KeyDown(key, mapped, typesLetter) /\ mac.focused /\ UNCHANGED budget
             => LockLanding' = mac.caps]_inputVars

(* A physical Control pressed during a chord takes the chord's over, so the  *)
(* host sees one press and one release (InputForwardingPolicy.swift:20-22):  *)
(* the two are never both held.                                              *)
ControlPressedOnce == ~HoldsTwice(policy)

(* A key or click's own flags are the truth about every modifier             *)
(* (InputForwardingPolicy.swift:26-31): under them every key lands, whatever *)
(* was swallowed before.                                                     *)
FlagsAreTheTruth ==
    [][\A key \in Keys, typesLetter \in BOOLEAN :
         \A mapped \in CodesOf[key] :
           /\ KeyDown(key, mapped, typesLetter) /\ mac.focused /\ phase = "up"
           /\ UNCHANGED budget
           => LeftCtrl \in Landing' <=>
                LeftCtrl \in mac.mods \/ (Command /\ typesLetter)]_inputVars
==============================================================================
