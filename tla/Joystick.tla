------------------------------ MODULE Joystick ------------------------------
(***************************************************************************)
(* The controller hotkeys: a thread that polls the controllers and the     *)
(* hotplug socket, a thread that closes descriptors because that is slow,  *)
(* and the main thread that calls the actions, and ends the other two in   *)
(* the destructor.                                                         *)
(*                                                                         *)
(* One button and one direction of the hat stand for the others: a button  *)
(* acts on its press alone, a direction on its change.                     *)
(***************************************************************************)
EXTENDS Naturals, Sequences, FiniteSets, SequencesExt

CONSTANTS Devices,      \* the numbers of /dev/input/eventN
          Controllers,  \* those that have the buttons of a controller
          MaxEntries,   \* max_js_poll_fd
          MaxOpened,    \* bound on the descriptors of a behaviour
          MaxChanges,   \* bound on buttons moved, plugging and unplugging
          MaxPlugs      \* bound on those up to the last plugging or unplugging

\* 0 stands for no device, where the code has -1.
ASSUME JoystickAssumption == IsFiniteSet(Devices) /\ 0 \notin Devices /\ Controllers \subseteq Devices

VARIABLES plugged, changes,
          messages,       \* the hotplug socket
          overrun,        \* the kernel has dropped a message
          polled,         \* poll_fd and extra_data, in their order
          reader, at,     \* the reading thread, and its index
          opened,         \* the last descriptor so far, numbered from EventFd
          toClose,        \* fds_to_close
          closing,        \* current_fds_to_close
          closed,
          closer,         \* the closing thread
          owner,          \* the main thread: "polls", or where its destructor is
          eventFd,        \* event_fd is open
          exitWritten,
          held,           \* what is held down on each device
          seen,           \* what was held after the events that were read
          modeHeld, upHeld,  \* playstation_button_pressed, up_pressed
          flags,          \* the actions the main thread shall call
          calling,        \* the action whose flag was cleared, or NoAction
          owed            \* actions asked for since their last call began

joystickVars == <<plugged, changes, messages, overrun, polled, reader, at, opened, toClose, closing,
                  closed, closer, owner, eventFd, exitWritten, held, seen, modeHeld, upHeld,
                  flags, calling, owed>>
kernelVars == <<plugged, changes, messages, overrun, held>>
tableVars == <<polled, at, opened>>
closeVars == <<toClose, closing, closed, closer>>
ownerVars == <<owner, eventFd, exitWritten>>
actionVars == <<seen, modeHeld, upHeld, flags, calling, owed>>

ControllerActions == {"save_1_min_replay", "take_screenshot"}
Calm == "none"
EventIndex == 1
HotplugIndex == 2
EventFd == 0

PollEntry(kind, fd, dev) == [kind |-> kind, fd |-> fd, dev |-> dev, gone |-> FALSE, events |-> <<>>, revents |-> {}]

\* Entries with the numbers of the devices that are there at the start.
Found == SetToSeq(Controllers \cap plugged)

-----------------------------------------------------------------------------
JoystickInit ==
    /\ plugged \in {{}, Controllers} /\ changes = 0 /\ messages = <<>> /\ overrun = FALSE
    /\ opened = 1 + Len(Found)
    /\ polled = <<PollEntry("event", EventFd, 0), PollEntry("hotplug", 1, 0)>> \o
                [n \in 1..Len(Found) |-> PollEntry("device", n + 1, Found[n])]
    /\ reader = "polls" /\ at = 1
    /\ toClose = <<>> /\ closing = <<>> /\ closed = <<>> /\ closer = "tests"
    /\ owner = "polls" /\ eventFd = TRUE /\ exitWritten = FALSE
    /\ held = [d \in Devices |-> {}] /\ seen = held
    /\ modeHeld = FALSE /\ upHeld = FALSE
    /\ flags = [a \in ControllerActions |-> FALSE] /\ calling = Calm /\ owed = {}

(* The kernel and the player. *)

Plug(d) ==
    /\ d \notin plugged /\ changes < MaxPlugs /\ changes' = changes + 1
    /\ plugged' = plugged \cup {d}
    /\ messages' = Append(messages, [add |-> TRUE, dev |-> d])
    /\ held' = [held EXCEPT ![d] = {}] /\ seen' = [seen EXCEPT ![d] = {}]
    /\ UNCHANGED <<overrun, tableVars, reader, closeVars, ownerVars, modeHeld, upHeld, flags, calling, owed>>

\* Its descriptors report a hang-up; the message comes from udev.
Unplug(d) ==
    /\ d \in plugged /\ changes < MaxPlugs /\ changes' = changes + 1
    /\ plugged' = plugged \ {d}
    /\ messages' = Append(messages, [add |-> FALSE, dev |-> d])
    /\ polled' = [n \in DOMAIN polled |->
                    IF polled[n].dev = d THEN [polled[n] EXCEPT !.gone = TRUE, !.events = <<>>] ELSE polled[n]]
    /\ UNCHANGED <<overrun, held, at, opened, reader, closeVars, ownerVars, actionVars>>

\* The socket's queue is full: the message is lost and the socket has an error.
Overrun ==
    /\ messages # <<>> /\ ~overrun /\ overrun' = TRUE
    /\ messages' = Tail(messages)
    /\ UNCHANGED <<plugged, changes, held, tableVars, reader, closeVars, ownerVars, actionVars>>

\* A button or the hat moves; every descriptor of the device gets the event.
MoveButton(d, b) ==
    /\ d \in plugged \cap Controllers /\ changes < MaxChanges /\ changes' = changes + 1
    /\ LET down == b \notin held[d]
       IN  /\ held' = [held EXCEPT ![d] = IF down THEN @ \cup {b} ELSE @ \ {b}]
           /\ polled' = [n \in DOMAIN polled |->
                           IF polled[n].dev = d /\ ~polled[n].gone
                             THEN [polled[n] EXCEPT !.events = Append(@, [button |-> b, down |-> down])]
                             ELSE polled[n]]
    /\ UNCHANGED <<plugged, messages, overrun, at, opened, reader, closeVars, ownerVars, actionVars>>

-----------------------------------------------------------------------------
(* The reading thread: read_events. *)

Ready(e) ==
    CASE e.kind = "event"   -> IF exitWritten THEN {"in"} ELSE {}
      [] e.kind = "hotplug" -> (IF messages # <<>> THEN {"in"} ELSE {}) \cup (IF overrun THEN {"err"} ELSE {})
      [] OTHER              -> (IF e.events # <<>> THEN {"in"} ELSE {}) \cup (IF e.gone THEN {"err"} ELSE {})

PollFds ==
    /\ reader = "polls" /\ \E n \in DOMAIN polled : Ready(polled[n]) # {}
    /\ polled' = [n \in DOMAIN polled |-> [polled[n] EXCEPT !.revents = Ready(polled[n])]]
    /\ reader' = "walks" /\ at' = 1
    /\ UNCHANGED <<kernelVars, opened, closeVars, ownerVars, actionVars>>

Walks == reader = "walks" /\ at <= Len(polled)
Step(index) == at' = index /\ UNCHANGED <<reader, kernelVars, ownerVars, actionVars>>
Cleared(table, n) == [table EXCEPT ![n].revents = {}]

EndWalk ==
    /\ reader = "walks" /\ at > Len(polled)
    /\ reader' = "polls"
    /\ UNCHANGED <<kernelVars, tableVars, closeVars, ownerVars, actionVars>>

Quiet ==
    /\ Walks /\ polled[at].revents = {} /\ Step(at + 1)
    /\ UNCHANGED <<polled, opened, closeVars>>

\* A descriptor is handed to the closing thread, with its lock.
LockFree == closer # "tested"
Woken == IF closer = "waits" THEN "locks" ELSE closer
HandOver(fd) ==
    /\ LockFree
    /\ toClose' = Append(toClose, fd) /\ closer' = Woken
    /\ UNCHANGED <<closing, closed>>

\* remove_poll_fd for an error: the next entry has this index now. The
\* hotplug socket goes the same way, but HotplugIndex stays.
DropEntry ==
    /\ Walks /\ "err" \in polled[at].revents
    /\ HandOver(polled[at].fd)
    /\ polled' = RemoveAt(polled, at)
    /\ Step(at) /\ UNCHANGED opened

\* The exit event ends the thread, whatever else is ready.
ReadExit ==
    /\ Walks /\ at = EventIndex /\ "in" \in polled[at].revents
    /\ reader' = "done"
    /\ UNCHANGED <<kernelVars, tableVars, closeVars, ownerVars, actionVars>>

\* add_device: a device that is no controller was opened in vain.
AddDevice(d) ==
    CASE Len(polled) >= MaxEntries \/ d \notin plugged ->
           polled' = Cleared(polled, at) /\ UNCHANGED <<opened, closeVars>>
      [] d \in Controllers ->
           /\ polled' = Append(Cleared(polled, at), PollEntry("device", opened + 1, d))
           /\ opened' = opened + 1 /\ UNCHANGED closeVars
      [] OTHER ->
           /\ polled' = Cleared(polled, at)
           /\ opened' = opened + 1 /\ HandOver(opened')

\* remove_device: the walk then takes the hotplug entry once more, and its
\* read waits if no message is left.
IndexOf(d) == SelectInSeq(polled, LAMBDA e : e.dev = d)
RemoveDevice(d) ==
    IF IndexOf(d) = 0
      THEN polled' = Cleared(polled, at) /\ at' = at + 1 /\ UNCHANGED closeVars
      ELSE /\ HandOver(polled[IndexOf(d)].fd)
           /\ polled' = RemoveAt(Cleared(polled, at - 1), IndexOf(d))
           /\ at' = at

ReadHotplug ==
    /\ Walks /\ at = HotplugIndex /\ polled[at].kind = "hotplug"
    /\ "in" \in polled[at].revents /\ "err" \notin polled[at].revents
    /\ messages # <<>> /\ messages' = Tail(messages)
    /\ LET message == Head(messages)
       IN  IF message.add THEN AddDevice(message.dev) /\ at' = at + 1
           ELSE RemoveDevice(message.dev) /\ UNCHANGED opened
    /\ opened' <= MaxOpened
    /\ UNCHANGED <<plugged, changes, overrun, held, reader, ownerVars, actionVars>>

\* After the hotplug socket was removed, a controller has its index, and its
\* events are read as messages.
ReadAsHotplug ==
    /\ Walks /\ at = HotplugIndex /\ polled[at].kind = "device"
    /\ "in" \in polled[at].revents /\ "err" \notin polled[at].revents
    /\ polled' = [polled EXCEPT ![at].events = <<>>, ![at].revents = {}]
    /\ Step(at + 1) /\ UNCHANGED <<opened, closeVars>>

\* process_input_event: the state of the buttons is one for all controllers,
\* and the hat's is followed only while the home button is held.
Asks(event) ==
    CASE event.button = "south" /\ event.down /\ modeHeld           -> {"save_1_min_replay"}
      [] event.button = "up" /\ event.down /\ modeHeld /\ ~upHeld   -> {"take_screenshot"}
      [] OTHER                                                      -> {}
ReadInput ==
    /\ Walks /\ at > HotplugIndex /\ "in" \in polled[at].revents /\ "err" \notin polled[at].revents
    /\ LET entry == polled[at]
           event == Head(entry.events)
       IN  IF entry.events = <<>>  \* the device went after the poll
             THEN UNCHANGED <<seen, modeHeld, upHeld, flags, owed>> /\ polled' = Cleared(polled, at)
             ELSE /\ polled' = [polled EXCEPT ![at].events = Tail(@), ![at].revents = {}]
                  /\ modeHeld' = IF event.button = "mode" THEN event.down ELSE modeHeld
                  /\ upHeld' = IF event.button = "up" /\ modeHeld THEN event.down ELSE upHeld
                  /\ flags' = [a \in ControllerActions |-> flags[a] \/ a \in Asks(event)]
                  /\ owed' = owed \cup Asks(event)
                  /\ seen' = [seen EXCEPT ![entry.dev] =
                                IF event.down THEN @ \cup {event.button} ELSE @ \ {event.button}]
    /\ at' = at + 1
    /\ UNCHANGED <<kernelVars, opened, reader, closeVars, ownerVars, calling>>

ReaderNext == PollFds \/ EndWalk \/ Quiet \/ DropEntry \/ ReadExit \/ ReadHotplug \/ ReadAsHotplug \/ ReadInput

-----------------------------------------------------------------------------
(* The closing thread: close_fds. *)

CloserStep(from, to) ==
    /\ closer = from /\ closer' = to
    /\ UNCHANGED <<kernelVars, tableVars, reader, ownerVars, actionVars>>

TestEvent == CloserStep("tests", IF eventFd THEN "locks" ELSE "done") /\ UNCHANGED <<toClose, closing, closed>>

\* The condition is tested with the lock; then the thread waits.
TestCondition ==
    /\ CloserStep("locks", IF toClose # <<>> \/ ~eventFd THEN "takes" ELSE "tested")
    /\ UNCHANGED <<toClose, closing, closed>>
StartWait == CloserStep("tested", "waits") /\ UNCHANGED <<toClose, closing, closed>>

\* Faulty variant: the descriptors are copied, not moved.
TakeFdsCopied ==
    /\ CloserStep("takes", "closes")
    /\ closing' = toClose /\ UNCHANGED <<toClose, closed>>

TakeFds ==
    /\ CloserStep("takes", "closes")
    /\ closing' = toClose /\ toClose' = <<>> /\ UNCHANGED closed
CloseFds ==
    /\ CloserStep("closes", "tests")
    /\ closed' = closed \o closing /\ closing' = <<>> /\ UNCHANGED toClose

CloserNext == TestEvent \/ TestCondition \/ StartWait \/ TakeFds \/ CloseFds

-----------------------------------------------------------------------------
(* The main thread. *)

\* Faulty variant: the flag is cleared only when the action has returned.
TakeActionLate(a) ==
    /\ owner = "polls"
    /\ \/ calling = Calm /\ flags[a] /\ calling' = a /\ UNCHANGED <<flags, owed>>
       \/ calling = a /\ a \in owed /\ owed' = owed \ {a} /\ UNCHANGED <<flags, calling>>
       \/ calling = a /\ calling' = Calm /\ flags' = [flags EXCEPT ![a] = FALSE] /\ UNCHANGED owed
    /\ UNCHANGED <<kernelVars, tableVars, reader, closeVars, ownerVars, seen, modeHeld, upHeld>>

\* poll_events: a flag is cleared before its action is called.
TakeAction(a) ==
    /\ owner = "polls"
    /\ \/ calling = Calm /\ flags[a] /\ calling' = a /\ flags' = [flags EXCEPT ![a] = FALSE] /\ UNCHANGED owed
       \/ calling = a /\ calling' = Calm /\ owed' = owed \ {a} /\ UNCHANGED flags
    /\ UNCHANGED <<kernelVars, tableVars, reader, closeVars, ownerVars, seen, modeHeld, upHeld>>

\* ~GlobalHotkeysJoystick: the reader ends first, then the closer, which is
\* told without its lock; then what is left is closed.
OwnerStep(from, to) ==
    /\ owner = from /\ owner' = to
    /\ UNCHANGED <<kernelVars, tableVars, reader, actionVars>>
WriteExit == OwnerStep("polls", "joinsReader") /\ calling = Calm /\ exitWritten' = TRUE /\ UNCHANGED <<eventFd, closeVars>>
JoinReader ==
    /\ OwnerStep("joinsReader", "notifies") /\ reader = "done"
    /\ eventFd' = FALSE /\ closed' = Append(closed, EventFd)
    /\ UNCHANGED <<exitWritten, toClose, closing, closer>>
NotifyCloser ==
    /\ OwnerStep("notifies", "joinsCloser") /\ closer' = Woken
    /\ UNCHANGED <<eventFd, exitWritten, toClose, closing, closed>>

\* What poll_fd still has, the event among it, which was closed before.
PolledFds == {polled[n].fd : n \in DOMAIN polled}
JoinCloser ==
    /\ OwnerStep("joinsCloser", "gone") /\ closer = "done"
    /\ closed' = closed \o toClose \o SetToSeq(PolledFds) /\ toClose' = <<>>
    /\ UNCHANGED <<eventFd, exitWritten, closing, closer>>

OwnerNext == (\E a \in ControllerActions : TakeAction(a)) \/ WriteExit \/ JoinReader \/ NotifyCloser \/ JoinCloser

JoystickNext ==
    \/ \E d \in Devices : Plug(d) \/ Unplug(d) \/ \E b \in {"mode", "south", "up"} : MoveButton(d, b)
    \/ Overrun \/ ReaderNext \/ CloserNext \/ OwnerNext

JoystickSpec == JoystickInit /\ [][JoystickNext]_joystickVars

JoystickFairness == WF_joystickVars(\E a \in ControllerActions : TakeAction(a))

-----------------------------------------------------------------------------
\* However devices come and go, and whenever the program ends, a descriptor is
\* polled, handed over or closed, in one of these places, and those of the devices
\* and of the hotplug socket are closed once when the object is gone. The event's
\* alone is closed while it is still polled, and then a second time with what is
\* polled (src/src/GlobalHotkeys/GlobalHotkeysJoystick.cpp, close_fds,
\* remove_poll_fd and the destructor).
Repeated(s) == {s[n] : n \in {n \in DOMAIN s : \E m \in DOMAIN s \ {n} : s[m] = s[n]}}
DevicesClosedOnce ==
    LET places == toClose \o closing \o closed
    IN  /\ Repeated(places) = IF owner = "gone" THEN {EventFd} ELSE {}
        /\ owner # "gone" => /\ PolledFds \cap ToSet(places) = IF eventFd THEN {} ELSE {EventFd}
                             /\ PolledFds \cup ToSet(places) = 0..opened
        /\ owner = "gone" => ToSet(closed) = 0..opened

\* A combination that was read is answered by a call that begins after it, also
\* when it is pressed again while its action is called, unless the program ends
\* (GlobalHotkeysJoystick.cpp, poll_events).
PressIsServed ==
    \A a \in ControllerActions : a \in owed ~> a \notin owed \/ owner # "polls"
=============================================================================
