--------------------------- MODULE KeyboardHelper ---------------------------
(***************************************************************************)
(* gsr-global-hotkeys (src/tools/gsr-global-hotkeys/keyboard_event.c): it  *)
(* reads the input devices, grabs the keyboards and passes what is not a   *)
(* hotkey on to the system through a virtual keyboard of its own.          *)
(*                                                                         *)
(* The kernel's part is modelled as the program relies on it: a device     *)
(* knows which keys are down, its events wait in a queue, a grabbed device *)
(* is heard by the program alone, and the virtual keyboard ignores the     *)
(* press of a key that is down on it and the release of one that is not.   *)
(* Only keys of the keyboard are keys here; every event of a mouse is      *)
(* Motion.                                                                 *)
(***************************************************************************)
EXTENDS Integers, SequencesExt

CONSTANTS
    Devices,     \* /dev/input/eventN with the keys of a keyboard
    Suspicious,  \* those with the keys of a mouse, joystick or wheel as well
    Scanning,    \* those that send MSC_SCAN with each press and release
    Keys,        \* key codes
    Modifiers,   \* the codes keycode_to_modifier_bit knows
    Hotkeys,     \* what gsr-ui may bind: [key, modifiers]
    MaxHotkeys,  \* MAX_GLOBAL_HOTKEYS
    MaxDevices,  \* MAX_EVENT_POLLS without the program's own descriptors
    QueueSize,   \* events the kernel keeps for a reader
    Faults       \* what the environment does besides typing

ASSUME KeyboardAssumption ==
    /\ Suspicious \subseteq Devices /\ Scanning \subseteq Devices
    /\ Keys \subseteq Nat /\ Modifiers \subseteq Keys
    /\ Hotkeys \subseteq [key : Keys \ Modifiers, modifiers : SUBSET Modifiers]
    /\ MaxHotkeys \in Nat /\ MaxDevices \in Nat /\ QueueSize \in Nat \ {0}
    /\ Faults \subseteq {"unplug", "overflow", "refuse", "steal", "nouinput"}

VARIABLES
    (* the kernel *)
    plugged,    \* the devices that exist
    down,       \* the keys that are down on each
    seen,       \* and those the applications hold for it
    queue,      \* events of each that are not yet read
    added,      \* devices whose appearance is not yet handled
    virtual,    \* the keys that are down on the virtual keyboard
    repeating,  \* it repeats the last of them
    echo,       \* it has an event for its creator to read
    stolen,     \* another program has grabbed it
    (* the program *)
    running,
    uinput,     \* uinput_fd > 0
    polled,     \* event_polls: each device is in it or not, or was unplugged
    extra,      \* event_extra_data
    modifiers,  \* modifier_button_states
    hotkeys,    \* global_hotkeys
    checkGrab,  \* check_grab_lock
    reported    \* gsr-ui-virtual-keyboard-grabbed was printed

devVars    == <<plugged, down, seen>>
readVars   == <<queue, polled, extra, modifiers>>
virtVars   == <<virtual, repeating, echo, checkGrab>>
ctlVars    == <<running, uinput, hotkeys>>
vars == <<devVars, readVars, virtVars, ctlVars, added, stolen, reported>>

Release == 0
Press   == 1
Repeat  == 2

KeyEvent(k, v) == [type |-> "key", code |-> k, value |-> v]
Motion  == [type |-> "motion"]
Dropped == [type |-> "dropped"]  \* SYN_DROPPED

\* key_presses_grabbed is a bit field; a bit is <<byte, bit>>.
Bits == {<<k \div 8, b>> : k \in Keys, b \in 0 .. 7}

NewExtraData == [grabbed |-> FALSE, nonKeyboard |-> FALSE, keyStates |-> {},
                 num |-> 0, pressesGrabbed |-> {}]

Init ==
    /\ plugged \in SUBSET Devices
    /\ down = [d \in Devices |-> {}]
    /\ seen = [d \in Devices |-> {}]
    /\ queue = [d \in Devices |-> <<>>]
    /\ added = plugged
    /\ virtual = {} /\ repeating = FALSE /\ echo = FALSE /\ stolen = FALSE
    /\ running = TRUE
    /\ uinput \in IF "nouinput" \in Faults THEN {FALSE} ELSE {TRUE}
    /\ polled = [d \in Devices |-> "no"]
    /\ extra = [d \in Devices |-> NewExtraData]
    /\ modifiers = {} /\ hotkeys = {}
    /\ checkGrab = FALSE /\ reported = FALSE

-----------------------------------------------------------------------------
(* The user and the kernel. *)

KeysAfter(held, e) ==
    IF e.type # "key" THEN held
    ELSE IF e.value = Release THEN held \ {e.code} ELSE held \cup {e.code}

\* A bound of the model: the count of a grabbed device, which nothing reads any more,
\* drifts away with each overflow.
NumBound == -1 .. Cardinality(Keys) + 1

\* An event goes to the applications unless the device is grabbed, and to the
\* program if it has opened the device.  A full queue is replaced.
Emit(d, e) ==
    /\ d \in plugged
    /\ Len(queue[d]) < QueueSize \/ ("overflow" \in Faults /\ extra[d].num \in NumBound)
    /\ down' = [down EXCEPT ![d] = KeysAfter(@, e)]
    /\ seen' = IF extra[d].grabbed THEN seen ELSE [seen EXCEPT ![d] = KeysAfter(@, e)]
    /\ queue' = IF polled[d] # "open" THEN queue
                ELSE [queue EXCEPT ![d] = IF Len(@) < QueueSize THEN Append(@, e)
                                          ELSE <<Dropped, e>>]
    /\ UNCHANGED <<plugged, added, stolen, reported, polled, extra, modifiers, virtVars, ctlVars>>

PressKey(d, k)   == k \notin down[d] /\ Emit(d, KeyEvent(k, Press))
RepeatKey(d, k)  == k \in down[d] /\ Emit(d, KeyEvent(k, Repeat))
ReleaseKey(d, k) == k \in down[d] /\ Emit(d, KeyEvent(k, Release))
Move(d)          == d \in Suspicious /\ Emit(d, Motion)

\* The kernel releases the keys of a device that goes; what is not yet read from it
\* can no longer be read.
Unplug(d) ==
    /\ "unplug" \in Faults /\ d \in plugged
    /\ plugged' = plugged \ {d}
    /\ down' = [down EXCEPT ![d] = {}]
    /\ seen' = [seen EXCEPT ![d] = {}]
    /\ queue' = [queue EXCEPT ![d] = <<>>]
    /\ polled' = [polled EXCEPT ![d] = IF @ = "open" THEN "hung" ELSE @]
    /\ UNCHANGED <<added, stolen, reported, extra, modifiers, virtVars, ctlVars>>

\* A device that comes back may get the number it had.
Plug(d) ==
    /\ d \notin plugged
    /\ plugged' = plugged \cup {d}
    /\ added' = IF running THEN added \cup {d} ELSE added
    /\ UNCHANGED <<down, seen, readVars, virtVars, ctlVars, stolen, reported>>

\* Another program, for instance a remapper, grabs the virtual keyboard.
Steal ==
    /\ "steal" \in Faults /\ uinput
    /\ stolen' = TRUE
    /\ UNCHANGED <<devVars, readVars, virtVars, ctlVars, added, reported>>

-----------------------------------------------------------------------------
(* A device's keys and its grab. *)

GrabResults == IF "refuse" \in Faults THEN BOOLEAN ELSE {TRUE}

\* Grabs the device if none of its keys is pressed and it is not yet grabbed.
TryGrab(x, grab) ==
    IF uinput /\ ~x.grabbed /\ ~x.nonKeyboard /\ x.num = 0
    THEN [x EXCEPT !.grabbed = grab] ELSE x

\* Faulty variant: leaves the grab to the next event.
FetchKeyStates(d, x, grab) ==
    [x EXCEPT !.keyStates = down[d], !.num = Cardinality(down[d])]

FetchUpdateKeyStates(d, x, grab) ==
    LET fetched == [x EXCEPT !.keyStates = down[d]]
    IN  IF ~uinput \/ x.grabbed \/ x.nonKeyboard THEN fetched
        ELSE TryGrab([fetched EXCEPT !.num = Cardinality(down[d])], grab)

ProcessKeyStateChange(x, e, grab) ==
    LET prev == e.code \in x.keyStates
        n == IF e.value = Release THEN (IF prev THEN x.num - 1 ELSE x.num)
             ELSE IF prev THEN x.num ELSE x.num + 1
    IN  TryGrab([x EXCEPT !.keyStates = KeysAfter(@, e), !.num = n], grab)

\* keyboard_event_try_add_device_if_keyboard for a keyboard.
TryAdd(d) ==
    /\ running /\ d \in added
    /\ added' = added \ {d}
    /\ IF d \in plugged /\ polled[d] = "no"
          /\ Cardinality({o \in Devices : polled[o] # "no"}) < MaxDevices
       THEN /\ polled' = [polled EXCEPT ![d] = "open"]
            /\ \E grab \in GrabResults :
                 extra' = [extra EXCEPT ![d] =
                     IF d \in Suspicious THEN [NewExtraData EXCEPT !.keyStates = down[d]]
                     ELSE FetchUpdateKeyStates(d, NewExtraData, grab)]
       ELSE UNCHANGED <<polled, extra>>
    /\ UNCHANGED <<devVars, queue, modifiers, virtVars, ctlVars, stolen, reported>>

\* keyboard_event_remove_event, after POLLHUP.
RemoveEvent(d) ==
    /\ running /\ polled[d] = "hung"
    /\ polled' = [polled EXCEPT ![d] = "no"]
    /\ extra' = [extra EXCEPT ![d] = NewExtraData]
    /\ UNCHANGED <<devVars, queue, modifiers, virtVars, ctlVars, added, stolen, reported>>

-----------------------------------------------------------------------------
(* An event that is read. *)

\* set_bit takes a mask, but is given the number of the bit: these bits change.
BitsOf(b) == {i \in 0 .. 2 : (b \div 2^i) % 2 = 1}

\* The press is recorded as kept from the system.
PressGrabbed(x, k) == <<k \div 8, k % 8>> \in x.pressesGrabbed

SetKeyPressesGrabbed(x, e) ==
    LET bits == {<<e.code \div 8, b>> : b \in BitsOf(e.code % 8)}
    IN  [x EXCEPT !.pressesGrabbed = IF e.value = Release THEN @ \ bits ELSE @ \cup bits]

\* Faulty variant: every release is kept.
StateChangedByRelease(x, e) == e.value # Press \/ ~PressGrabbed(x, e.code)

StateChanged(x, e) ==
    IF e.value = Press THEN ~PressGrabbed(x, e.code) ELSE PressGrabbed(x, e.code)

OnKeyPressed(e) == [key |-> e.code, modifiers |-> modifiers] \in hotkeys

\* A hotkey, or the release of what may have been one, is kept from the system.
Tracked(e)   == e.code \notin Modifiers /\ (OnKeyPressed(e) \/ e.value = Release)
Kept(x, e)   == Tracked(e) /\ StateChanged(x, e)

\* The virtual keyboard takes an event that changes its state, and every repeat.
Accepts(e) ==
    CASE e.value = Press   -> e.code \notin virtual
      [] e.value = Release -> e.code \in virtual
      [] OTHER             -> TRUE

\* What is written for an event e: its scan code, if it has one, and the key.
WriteKey(d, x, e, key) ==
    LET scan == extra[d].grabbed /\ d \in Scanning /\ e.value # Repeat
    IN  /\ virtual' = IF key THEN KeysAfter(virtual, e) ELSE virtual
        /\ repeating' = IF key /\ e.value # Repeat /\ Accepts(e)
                        THEN e.value = Press ELSE repeating
        /\ echo' = (echo \/ (~stolen /\ (scan \/ (key /\ Accepts(e)))))
        /\ checkGrab' = (checkGrab \/ (extra[d].grabbed /\ (scan \/ key)))

\* Faulty variant: only presses are looked at.
ModifiersAfterPress(e) ==
    IF e.code \in Modifiers /\ e.value = Press THEN modifiers \cup {e.code} ELSE modifiers

ModifiersAfter(e) ==
    IF e.code \in Modifiers THEN KeysAfter(modifiers, e) ELSE modifiers

ProcessKey(d) ==
    LET e == Head(queue[d]) IN
    /\ e.type = "key"
    /\ \E grab \in GrabResults :
         LET x == ProcessKeyStateChange(extra[d], e, grab) IN
         /\ extra' = [extra EXCEPT ![d] = IF Tracked(e) THEN SetKeyPressesGrabbed(x, e) ELSE x]
         /\ WriteKey(d, x, e, x.grabbed /\ ~Kept(x, e))
    /\ modifiers' = ModifiersAfter(e)
    /\ queue' = [queue EXCEPT ![d] = Tail(@)]

\* The events before SYN_DROPPED are lost; the kernel also drops the keys that wait
\* behind it when their state is asked for.
ProcessDropped(d) ==
    /\ Head(queue[d]).type = "dropped"
    /\ \E grab \in GrabResults :
         extra' = [extra EXCEPT ![d] = FetchUpdateKeyStates(d, @, grab)]
    /\ queue' = [queue EXCEPT ![d] = SelectSeq(Tail(@), LAMBDA e : e.type # "key")]
    /\ UNCHANGED <<modifiers, virtVars>>

\* The device is none to grab after all.
ProcessMotion(d) ==
    /\ Head(queue[d]).type = "motion"
    /\ extra' = [extra EXCEPT ![d].nonKeyboard = TRUE, ![d].grabbed = FALSE]
    /\ queue' = [queue EXCEPT ![d] = Tail(@)]
    /\ UNCHANGED <<modifiers, virtVars>>

ProcessInputEventData(d) ==
    /\ running /\ polled[d] = "open" /\ queue[d] # <<>>
    /\ ProcessKey(d) \/ ProcessDropped(d) \/ ProcessMotion(d)
    /\ UNCHANGED <<devVars, polled, ctlVars, added, stolen, reported>>

-----------------------------------------------------------------------------
(* The virtual keyboard, the timer and the commands of gsr-ui. *)

ReadVirtualKeyboard ==
    /\ running /\ echo
    /\ echo' = FALSE /\ checkGrab' = FALSE
    /\ UNCHANGED <<devVars, readVars, ctlVars, added, virtual, repeating, stolen, reported>>

\* Faulty variant: waits until no key is held.
TimerReleased ==
    /\ running /\ uinput /\ checkGrab /\ virtual = {}
    /\ ~echo /\ (stolen \/ ~repeating)
    /\ checkGrab' = FALSE /\ reported' = TRUE
    /\ UNCHANGED <<devVars, readVars, ctlVars, added, virtual, repeating, echo, stolen>>

\* 1.5 seconds are long: what can be read from the virtual keyboard has been read.
Timer ==
    /\ running /\ uinput /\ checkGrab
    /\ ~echo /\ (stolen \/ ~repeating)
    /\ checkGrab' = FALSE /\ reported' = TRUE
    /\ UNCHANGED <<devVars, readVars, ctlVars, added, virtual, repeating, echo, stolen>>

IsAlphaNumerical(k) == k \in (2 .. 11) \cup (16 .. 25) \cup (30 .. 38) \cup (44 .. 50)

Bind(h) ==
    /\ running /\ h \notin hotkeys
    /\ Cardinality(hotkeys) < MaxHotkeys
    /\ h.modifiers # {} \/ ~IsAlphaNumerical(h.key)
    /\ hotkeys' = hotkeys \cup {h}
    /\ UNCHANGED <<devVars, readVars, virtVars, running, uinput, added, stolen, reported>>

UnbindAll ==
    /\ running /\ hotkeys # {}
    /\ hotkeys' = {}
    /\ UNCHANGED <<devVars, readVars, virtVars, running, uinput, added, stolen, reported>>

\* exit, or the end of gsr-ui: keyboard_event_deinit.
Exit ==
    /\ running
    /\ running' = FALSE /\ uinput' = FALSE /\ hotkeys' = {}
    /\ virtual' = {} /\ repeating' = FALSE /\ echo' = FALSE /\ checkGrab' = FALSE
    /\ polled' = [d \in Devices |-> "no"]
    /\ extra' = [d \in Devices |-> NewExtraData]
    /\ queue' = [d \in Devices |-> <<>>]
    /\ added' = {}
    /\ UNCHANGED <<devVars, modifiers, stolen, reported>>

Typing == \E d \in Devices :
    \/ \E k \in Keys : PressKey(d, k) \/ RepeatKey(d, k) \/ ReleaseKey(d, k)
    \/ Move(d) \/ Unplug(d) \/ Plug(d)

Helper ==
    \/ \E d \in Devices : TryAdd(d) \/ RemoveEvent(d) \/ ProcessInputEventData(d)
    \/ ReadVirtualKeyboard
    \/ Timer

Commands == (\E h \in Hotkeys : Bind(h)) \/ UnbindAll \/ Exit

Next == Typing \/ Steal \/ Helper \/ Commands

\* Every descriptor that is ready is looked at in each round of poll.
Fairness ==
    /\ \A d \in Devices :
         WF_vars(TryAdd(d)) /\ WF_vars(RemoveEvent(d)) /\ WF_vars(ProcessInputEventData(d))
    /\ WF_vars(ReadVirtualKeyboard)
    /\ WF_vars(Timer)

Spec == Init /\ [][Next]_vars
FairSpec == Spec /\ Fairness

-----------------------------------------------------------------------------
(* Properties. *)

\* A key that is down on the virtual keyboard is down on a device, or the event that
\* will release it is waiting.
NoStuckKey ==
    \A k \in virtual : \E d \in Devices :
        /\ polled[d] = "open"
        /\ \/ k \in down[d]
           \/ \E n \in DOMAIN queue[d] : queue[d][n].type = "key" /\ queue[d][n].code = k

\* No modifier is taken to be held that no keyboard holds: a plain key must not act as
\* a hotkey.
ModifiersAreHeld ==
    running => modifiers \subseteq UNION {extra[d].keyStates : d \in Devices}

\* While another program holds it, a key that went there is noticed.
StolenIsReported ==
    (running /\ stolen /\ checkGrab /\ ~echo) ~> (reported \/ ~running)

\* A keyboard that is being read, and then left alone, is grabbed in the end.
QuietKeyboardIsGrabbed ==
    \A d \in Devices \ Suspicious :
        <>[](running /\ polled[d] = "open" /\ down[d] = {}) => <>[](extra[d].grabbed)
=============================================================================
