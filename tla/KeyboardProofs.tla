---------------------------- MODULE KeyboardProofs ----------------------------
(***************************************************************************)
(* Proofs about KeyboardHelper, for every set of keyboards, keys and       *)
(* hotkeys and every length of the queues.                                 *)
(*                                                                         *)
(* They hold of what the user types and of every order in which keyboards  *)
(* come, are read and grabbed or not.  What they leave out is what breaks  *)
(* them: a keyboard that is unplugged, a queue that overflows, a keyboard  *)
(* that turns out to be a mouse, and two keys of which one sets the bit of *)
(* the other in key_presses_grabbed.                                       *)
(***************************************************************************)
EXTENDS KeyboardHelper, SequenceLemmas

NothingIsLost == Faults \cap {"unplug", "overflow"} = {}
OnlyKeyboards == Suspicious = {}
BitsDoNotMeet == \A k, l \in Keys : k \div 8 = l \div 8 => k % 8 \notin BitsOf(l % 8)

KeyEvents   == [type : {"key"}, code : Keys, value : {Release, Press, Repeat}]
EventsOf(d) == IF d \in Suspicious THEN KeyEvents \cup {Motion} ELSE KeyEvents

IsExtra(x) ==
    /\ DOMAIN x = {"grabbed", "nonKeyboard", "keyStates", "num", "pressesGrabbed"}
    /\ x.grabbed \in BOOLEAN /\ x.keyStates \subseteq Keys

\* What the variables are while nothing is lost.
TypeInv ==
    /\ DOMAIN down = Devices /\ DOMAIN queue = Devices /\ DOMAIN polled = Devices /\ DOMAIN extra = Devices
    /\ \A d \in Devices :
         /\ down[d] \subseteq Keys /\ queue[d] \in Seq(EventsOf(d)) /\ IsExtra(extra[d])
         /\ \/ polled[d] = "open"
            \/ polled[d] = "no" /\ queue[d] = <<>> /\ extra[d] = NewExtraData

\* A modifier that is taken to be held is held on a device.
ModifiersInv ==
    /\ modifiers \subseteq Modifiers
    /\ \A k \in modifiers : \E d \in Devices : k \in extra[d].keyStates

-----------------------------------------------------------------------------
(* A device's state. *)

LEMMA NewIsExtra == IsExtra(NewExtraData) /\ NewExtraData.keyStates = {} /\ NewExtraData.pressesGrabbed = {}
BY DEF IsExtra, NewExtraData

LEMMA GrabIsBoolean == GrabResults \subseteq BOOLEAN
BY DEF GrabResults

LEMMA TryGrabKeeps ==
  ASSUME NEW x, IsExtra(x), NEW grab \in BOOLEAN
  PROVE  LET y == TryGrab(x, grab)
         IN  /\ IsExtra(y) /\ y.keyStates = x.keyStates /\ y.pressesGrabbed = x.pressesGrabbed
             /\ x.grabbed => y.grabbed
<1>1. CASE uinput /\ ~x.grabbed /\ ~x.nonKeyboard /\ x.num = 0
  BY <1>1 DEF TryGrab, IsExtra
<1>2. CASE ~(uinput /\ ~x.grabbed /\ ~x.nonKeyboard /\ x.num = 0)
  <2>1. TryGrab(x, grab) = x
    BY <1>2 DEF TryGrab
  <2> QED BY <2>1
<1> QED BY <1>1, <1>2

LEMMA KeysAfterKey ==
  ASSUME NEW held, NEW e \in KeyEvents
  PROVE  /\ KeysAfter(held, e) = IF e.value = Release THEN held \ {e.code} ELSE held \cup {e.code}
         /\ e.code \in Keys /\ e.type = "key"
BY DEF KeysAfter, KeyEvents

LEMMA StateChangeKeeps ==
  ASSUME NEW x, IsExtra(x), NEW e \in KeyEvents, NEW grab \in BOOLEAN
  PROVE  LET y == ProcessKeyStateChange(x, e, grab)
         IN  /\ IsExtra(y) /\ y.keyStates = KeysAfter(x.keyStates, e) /\ y.pressesGrabbed = x.pressesGrabbed
             /\ x.grabbed => y.grabbed
<1> DEFINE prev == e.code \in x.keyStates
           n == IF e.value = Release THEN (IF prev THEN x.num - 1 ELSE x.num)
                ELSE IF prev THEN x.num ELSE x.num + 1
           z == [x EXCEPT !.keyStates = KeysAfter(@, e), !.num = n]
<1>1. ProcessKeyStateChange(x, e, grab) = TryGrab(z, grab)
  BY DEF ProcessKeyStateChange
<1> HIDE DEF n
<1>2. /\ DOMAIN z = DOMAIN x /\ z.keyStates = KeysAfter(x.keyStates, e)
      /\ z.pressesGrabbed = x.pressesGrabbed /\ z.grabbed = x.grabbed
  BY DEF IsExtra
<1> HIDE DEF z
<1>3. KeysAfter(x.keyStates, e) \subseteq Keys
  BY KeysAfterKey DEF IsExtra
<1>4. IsExtra(z)
  BY <1>2, <1>3 DEF IsExtra
<1> QED BY <1>1, <1>2, <1>4, TryGrabKeeps

LEMMA FetchGives ==
  ASSUME NEW d \in Devices, down[d] \subseteq Keys, NEW x, IsExtra(x), NEW grab \in BOOLEAN
  PROVE  LET y == FetchUpdateKeyStates(d, x, grab)
         IN  IsExtra(y) /\ y.keyStates = down[d] /\ y.pressesGrabbed = x.pressesGrabbed
<1> DEFINE f == [x EXCEPT !.keyStates = down[d]]
           g == [f EXCEPT !.num = Cardinality(down[d])]
<1>1. IsExtra(f) /\ f.keyStates = down[d] /\ f.pressesGrabbed = x.pressesGrabbed
  BY DEF IsExtra
<1>2. FetchUpdateKeyStates(d, x, grab) = IF ~uinput \/ x.grabbed \/ x.nonKeyboard THEN f ELSE TryGrab(g, grab)
  BY DEF FetchUpdateKeyStates
<1> HIDE DEF f
<1>3. IsExtra(g) /\ g.keyStates = down[d] /\ g.pressesGrabbed = x.pressesGrabbed
  BY <1>1 DEF IsExtra
<1> HIDE DEF g
<1> QED BY <1>1, <1>2, <1>3, TryGrabKeeps

LEMMA SetGrabbedKeeps ==
  ASSUME NEW x, IsExtra(x), NEW e
  PROVE  LET y == SetKeyPressesGrabbed(x, e)
         IN  IsExtra(y) /\ y.keyStates = x.keyStates /\ y.grabbed = x.grabbed
BY DEF SetKeyPressesGrabbed, IsExtra

\* The keys' bits stay clear.
LEMMA BitsStayClear ==
  ASSUME NEW x, IsExtra(x), NEW e \in KeyEvents, BitsDoNotMeet, \A k \in Keys : ~PressGrabbed(x, k)
  PROVE  \A k \in Keys : ~PressGrabbed(SetKeyPressesGrabbed(x, e), k)
<1> DEFINE bits == {<<e.code \div 8, b>> : b \in BitsOf(e.code % 8)}
           y == SetKeyPressesGrabbed(x, e)
<1>1. y.pressesGrabbed \subseteq x.pressesGrabbed \cup bits
  BY DEF SetKeyPressesGrabbed, IsExtra
<1> SUFFICES ASSUME NEW k \in Keys PROVE <<k \div 8, k % 8>> \notin y.pressesGrabbed
  BY DEF PressGrabbed
<1>2. <<k \div 8, k % 8>> \notin x.pressesGrabbed
  BY DEF PressGrabbed
<1>3. <<k \div 8, k % 8>> \notin bits
  <2>1. e.code \in Keys
    BY KeysAfterKey
  <2>2. ASSUME NEW b \in BitsOf(e.code % 8), <<k \div 8, k % 8>> = <<e.code \div 8, b>> PROVE FALSE
    BY <2>1, <2>2 DEF BitsDoNotMeet
  <2> QED BY <2>2
<1> QED BY <1>1, <1>2, <1>3

-----------------------------------------------------------------------------
(* The events of the devices. *)

\* One event of a device, when no queue overflows.
LEMMA EmitAppends ==
  ASSUME NothingIsLost, TypeInv, NEW d \in Devices, NEW e \in EventsOf(d), Emit(d, e)
  PROVE  /\ TypeInv'
         /\ UNCHANGED <<extra, polled, modifiers, virtual, running>>
         /\ \A o \in Devices \ {d} : down'[o] = down[o] /\ queue'[o] = queue[o]
         /\ down'[d] = KeysAfter(down[d], e)
         /\ polled[d] = "open" => queue'[d] = Append(queue[d], e)
<1>1. "overflow" \notin Faults
  BY DEF NothingIsLost
<1>2. /\ Len(queue[d]) < QueueSize
      /\ down' = [down EXCEPT ![d] = KeysAfter(@, e)]
      /\ queue' = IF polled[d] # "open" THEN queue
                  ELSE [queue EXCEPT ![d] = IF Len(@) < QueueSize THEN Append(@, e) ELSE <<Dropped, e>>]
      /\ UNCHANGED <<extra, polled, modifiers, virtual, running>>
  BY <1>1 DEF Emit, virtVars, ctlVars
<1>3. /\ \A o \in Devices \ {d} : down'[o] = down[o] /\ queue'[o] = queue[o]
      /\ DOMAIN down' = Devices /\ DOMAIN queue' = Devices
      /\ down'[d] = KeysAfter(down[d], e)
      /\ polled[d] = "open" => queue'[d] = Append(queue[d], e)
      /\ polled[d] # "open" => queue'[d] = queue[d]
  BY <1>2 DEF TypeInv
<1>4. KeysAfter(down[d], e) \subseteq Keys
  <2>1. CASE e \in KeyEvents
    BY <2>1, KeysAfterKey DEF TypeInv
  <2>2. CASE e = Motion
    BY <2>2 DEF TypeInv, KeysAfter, Motion
  <2> QED BY <2>1, <2>2 DEF EventsOf
<1>5. Append(queue[d], e) \in Seq(EventsOf(d))
  BY DEF TypeInv
<1>6. ASSUME NEW o \in Devices
      PROVE  /\ down'[o] \subseteq Keys /\ queue'[o] \in Seq(EventsOf(o)) /\ IsExtra(extra'[o])
             /\ polled'[o] = "open" \/ (polled'[o] = "no" /\ queue'[o] = <<>> /\ extra'[o] = NewExtraData)
  <2>1. CASE o = d
    BY <1>2, <1>3, <1>4, <1>5, <2>1 DEF TypeInv
  <2>2. CASE o # d
    BY <1>2, <1>3, <2>2 DEF TypeInv
  <2> QED BY <2>1, <2>2
<1>7. DOMAIN polled' = Devices /\ DOMAIN extra' = Devices
  BY <1>2 DEF TypeInv
<1> HIDE DEF NothingIsLost
<1>8. TypeInv'
  BY <1>3, <1>6, <1>7 DEF TypeInv
<1> QED BY <1>2, <1>3, <1>8

\* What a device emits.
LEMMA EmittedIsOfDevice ==
  ASSUME NEW d \in Devices,
         (\E k \in Keys : PressKey(d, k) \/ RepeatKey(d, k) \/ ReleaseKey(d, k)) \/ Move(d)
  PROVE  \E e \in EventsOf(d) : Emit(d, e) /\ (e \in KeyEvents \/ e = Motion)
<1>1. ASSUME NEW k \in Keys, NEW v \in {Press, Repeat, Release}, Emit(d, KeyEvent(k, v))
      PROVE  \E e \in EventsOf(d) : Emit(d, e) /\ (e \in KeyEvents \/ e = Motion)
  <2>1. KeyEvent(k, v) \in KeyEvents
    BY DEF KeyEvent, KeyEvents
  <2>2. KeyEvent(k, v) \in EventsOf(d)
    BY <2>1 DEF EventsOf
  <2> QED BY <1>1, <2>1, <2>2
<1>2. CASE Move(d)
  <2>1. Motion \in EventsOf(d) /\ Emit(d, Motion)
    BY <1>2 DEF Move, EventsOf
  <2> QED BY <2>1
<1>3. ASSUME NEW k \in Keys, PressKey(d, k) \/ RepeatKey(d, k) \/ ReleaseKey(d, k)
      PROVE  \E v \in {Press, Repeat, Release} : Emit(d, KeyEvent(k, v))
  BY <1>3 DEF PressKey, RepeatKey, ReleaseKey
<1> QED BY <1>1, <1>2, <1>3

-----------------------------------------------------------------------------
(* The steps of the program. *)

LEMMA AddedIsRead ==
  ASSUME TypeInv, NEW d \in Devices, TryAdd(d)
  PROVE  /\ TypeInv'
         /\ UNCHANGED <<down, queue, modifiers, virtual, running>>
         /\ \A o \in Devices : \/ polled'[o] = polled[o] /\ extra'[o] = extra[o]
                               \/ /\ polled[o] = "no" /\ extra[o] = NewExtraData /\ queue[o] = <<>>
                                  /\ extra'[o].keyStates = down[o] /\ extra'[o].pressesGrabbed = {}
<1>1. UNCHANGED <<down, queue, modifiers, virtual, running>>
  BY DEF TryAdd, devVars, virtVars, ctlVars
<1>2. CASE UNCHANGED <<polled, extra>>
  <2>1. TypeInv'
    BY <1>1, <1>2 DEF TypeInv
  <2> QED BY <1>1, <1>2, <2>1
<1>3. CASE /\ polled[d] = "no" /\ polled' = [polled EXCEPT ![d] = "open"]
           /\ \E grab \in GrabResults :
                extra' = [extra EXCEPT ![d] =
                    IF d \in Suspicious THEN [NewExtraData EXCEPT !.keyStates = down[d]]
                    ELSE FetchUpdateKeyStates(d, NewExtraData, grab)]
  <2>1. PICK grab \in BOOLEAN :
          extra' = [extra EXCEPT ![d] = IF d \in Suspicious THEN [NewExtraData EXCEPT !.keyStates = down[d]]
                                        ELSE FetchUpdateKeyStates(d, NewExtraData, grab)]
    BY <1>3, GrabIsBoolean
  <2> DEFINE x == IF d \in Suspicious THEN [NewExtraData EXCEPT !.keyStates = down[d]]
                  ELSE FetchUpdateKeyStates(d, NewExtraData, grab)
  <2>2. down[d] \subseteq Keys
    BY DEF TypeInv
  <2>3. IsExtra(x) /\ x.keyStates = down[d] /\ x.pressesGrabbed = {}
    <3>1. CASE d \in Suspicious
      BY <2>2, <3>1 DEF NewExtraData, IsExtra
    <3>2. CASE d \notin Suspicious
      <4> DEFINE y == FetchUpdateKeyStates(d, NewExtraData, grab)
      <4>1. IsExtra(y) /\ y.keyStates = down[d] /\ y.pressesGrabbed = {}
        BY <2>2, NewIsExtra, FetchGives
      <4> HIDE DEF y
      <4> QED BY <3>2, <4>1 DEF y
    <3> QED BY <3>1, <3>2
  <2>4. extra' = [extra EXCEPT ![d] = x]
    BY <2>1
  <2> HIDE DEF x
  <2>5. /\ \A o \in Devices \ {d} : extra'[o] = extra[o] /\ polled'[o] = polled[o]
        /\ extra'[d] = x /\ polled'[d] = "open" /\ DOMAIN extra' = Devices /\ DOMAIN polled' = Devices
    BY <1>3, <2>4 DEF TypeInv
  <2>6. extra[d] = NewExtraData /\ queue[d] = <<>>
    BY <1>3 DEF TypeInv
  <2>7. ASSUME NEW o \in Devices
        PROVE  /\ down'[o] \subseteq Keys /\ queue'[o] \in Seq(EventsOf(o)) /\ IsExtra(extra'[o])
               /\ polled'[o] = "open" \/ (polled'[o] = "no" /\ queue'[o] = <<>> /\ extra'[o] = NewExtraData)
    <3>1. CASE o = d
      BY <1>1, <2>3, <2>5, <3>1 DEF TypeInv
    <3>2. CASE o # d
      BY <1>1, <2>5, <3>2 DEF TypeInv
    <3> QED BY <3>1, <3>2
  <2>8. TypeInv'
    BY <1>1, <2>5, <2>7 DEF TypeInv
  <2>9. ASSUME NEW o \in Devices
        PROVE  \/ polled'[o] = polled[o] /\ extra'[o] = extra[o]
               \/ /\ polled[o] = "no" /\ extra[o] = NewExtraData /\ queue[o] = <<>>
                  /\ extra'[o].keyStates = down[o] /\ extra'[o].pressesGrabbed = {}
    <3>1. CASE o = d
      BY <1>3, <2>3, <2>5, <2>6, <3>1
    <3>2. CASE o # d
      BY <2>5, <3>2
    <3> QED BY <3>1, <3>2
  <2> QED BY <1>1, <2>8, <2>9
<1> QED BY <1>2, <1>3 DEF TryAdd

\* The events that are read, without one that tells of others that were lost.
LEMMA ReadIsOne ==
  ASSUME TypeInv, NEW d \in Devices, ProcessInputEventData(d)
  PROVE  /\ polled[d] = "open" /\ queue[d] # <<>> /\ running
         /\ UNCHANGED <<down, polled, running>>
         /\ \/ Head(queue[d]) \in KeyEvents /\ ProcessKey(d)
            \/ d \in Suspicious /\ ProcessMotion(d)
<1>1. polled[d] = "open" /\ queue[d] # <<>> /\ running /\ UNCHANGED <<down, polled, running>>
  BY DEF ProcessInputEventData, devVars, ctlVars
<1>2. queue[d] \in Seq(EventsOf(d)) /\ Head(queue[d]) \in EventsOf(d)
  BY <1>1 DEF TypeInv
<1>3. Head(queue[d]) \in KeyEvents \/ (Head(queue[d]) = Motion /\ d \in Suspicious)
  BY <1>2 DEF EventsOf
<1>4. Head(queue[d]) \in KeyEvents => Head(queue[d]).type = "key"
  BY DEF KeyEvents
<1>5. Motion.type = "motion"
  BY DEF Motion
<1>6. ProcessKey(d) => Head(queue[d]).type = "key"
  BY DEF ProcessKey
<1>7. ProcessDropped(d) => Head(queue[d]).type = "dropped"
  BY DEF ProcessDropped
<1>8. ProcessMotion(d) => Head(queue[d]).type = "motion"
  BY DEF ProcessMotion
<1>9. ProcessKey(d) \/ ProcessDropped(d) \/ ProcessMotion(d)
  BY DEF ProcessInputEventData
<1> HIDE DEF ProcessKey, ProcessDropped, ProcessMotion
<1> QED BY <1>1, <1>3, <1>4, <1>5, <1>6, <1>7, <1>8, <1>9

\* A device and its queue change.
LEMMA ReadKeepsTypes ==
  ASSUME TypeInv, NEW d \in Devices, polled[d] = "open", queue[d] # <<>>,
         NEW x, IsExtra(x), extra' = [extra EXCEPT ![d] = x],
         queue' = [queue EXCEPT ![d] = Tail(@)], UNCHANGED <<down, polled>>
  PROVE  /\ TypeInv'
         /\ extra'[d] = x /\ queue'[d] = Tail(queue[d])
         /\ \A o \in Devices \ {d} : extra'[o] = extra[o] /\ queue'[o] = queue[o]
<1>1. Tail(queue[d]) \in Seq(EventsOf(d))
  BY DEF TypeInv
<1>2. /\ extra'[d] = x /\ queue'[d] = Tail(queue[d])
      /\ DOMAIN extra' = Devices /\ DOMAIN queue' = Devices
      /\ \A o \in Devices \ {d} : extra'[o] = extra[o] /\ queue'[o] = queue[o]
  BY DEF TypeInv
<1>3. ASSUME NEW o \in Devices
      PROVE  /\ down'[o] \subseteq Keys /\ queue'[o] \in Seq(EventsOf(o)) /\ IsExtra(extra'[o])
             /\ polled'[o] = "open" \/ (polled'[o] = "no" /\ queue'[o] = <<>> /\ extra'[o] = NewExtraData)
  <2>1. CASE o = d
    BY <1>1, <1>2, <2>1 DEF TypeInv
  <2>2. CASE o # d
    BY <1>2, <2>2 DEF TypeInv
  <2> QED BY <2>1, <2>2
<1>4. DOMAIN down' = Devices /\ DOMAIN polled' = Devices
  BY DEF TypeInv
<1>5. TypeInv'
  BY <1>2, <1>3, <1>4 DEF TypeInv
<1> QED BY <1>2, <1>5

LEMMA KeyIsRead ==
  ASSUME TypeInv, NEW d \in Devices, polled[d] = "open", queue[d] # <<>>, UNCHANGED <<down, polled>>,
         Head(queue[d]) \in KeyEvents, ProcessKey(d)
  PROVE  LET e == Head(queue[d])
         IN  \E x : /\ IsExtra(x) /\ x.keyStates = KeysAfter(extra[d].keyStates, e)
                    /\ x.pressesGrabbed = extra[d].pressesGrabbed /\ (extra[d].grabbed => x.grabbed)
                    /\ extra'[d] \in {x, SetKeyPressesGrabbed(x, e)}
                    /\ virtual' = IF x.grabbed /\ ~Kept(x, e) THEN KeysAfter(virtual, e) ELSE virtual
                    /\ IsExtra(extra'[d]) /\ extra'[d].keyStates = x.keyStates /\ extra'[d].grabbed = x.grabbed
                    /\ modifiers' = ModifiersAfter(e)
                    /\ TypeInv' /\ queue'[d] = Tail(queue[d])
                    /\ \A o \in Devices \ {d} : extra'[o] = extra[o] /\ queue'[o] = queue[o]
<1> DEFINE e == Head(queue[d])
<1>1. PICK grab \in GrabResults :
        /\ extra' = [extra EXCEPT ![d] = IF Tracked(e)
                       THEN SetKeyPressesGrabbed(ProcessKeyStateChange(extra[d], e, grab), e)
                       ELSE ProcessKeyStateChange(extra[d], e, grab)]
        /\ WriteKey(d, ProcessKeyStateChange(extra[d], e, grab), e,
                    /\ ProcessKeyStateChange(extra[d], e, grab).grabbed
                    /\ ~Kept(ProcessKeyStateChange(extra[d], e, grab), e))
  BY DEF ProcessKey
<1>2. queue' = [queue EXCEPT ![d] = Tail(@)] /\ modifiers' = ModifiersAfter(e)
  BY DEF ProcessKey
<1> HIDE DEF e
<1> DEFINE x == ProcessKeyStateChange(extra[d], e, grab)
           y == IF Tracked(e) THEN SetKeyPressesGrabbed(x, e) ELSE x
<1>3. grab \in BOOLEAN /\ e \in KeyEvents /\ IsExtra(extra[d])
  BY GrabIsBoolean DEF TypeInv, e
<1>4. /\ IsExtra(x) /\ x.keyStates = KeysAfter(extra[d].keyStates, e)
      /\ x.pressesGrabbed = extra[d].pressesGrabbed /\ (extra[d].grabbed => x.grabbed)
  BY <1>3, StateChangeKeeps
<1>5. virtual' = IF x.grabbed /\ ~Kept(x, e) THEN KeysAfter(virtual, e) ELSE virtual
  BY <1>1, Zenon DEF WriteKey
<1>6. extra' = [extra EXCEPT ![d] = y]
  BY <1>1
<1> HIDE DEF x
<1>7. IsExtra(y) /\ y.keyStates = x.keyStates /\ y.grabbed = x.grabbed /\ y \in {x, SetKeyPressesGrabbed(x, e)}
  <2>1. CASE Tracked(e)
    <3>1. y = SetKeyPressesGrabbed(x, e)
      BY <2>1
    <3> HIDE DEF y
    <3> QED BY <1>4, <3>1, SetGrabbedKeeps
  <2>2. CASE ~Tracked(e)
    BY <1>4, <2>2
  <2> QED BY <2>1, <2>2
<1> HIDE DEF y
<1>8. /\ TypeInv' /\ extra'[d] = y /\ queue'[d] = Tail(queue[d])
      /\ \A o \in Devices \ {d} : extra'[o] = extra[o] /\ queue'[o] = queue[o]
  BY <1>2, <1>6, <1>7, ReadKeepsTypes
<1>9. /\ IsExtra(extra'[d]) /\ extra'[d].keyStates = x.keyStates /\ extra'[d].grabbed = x.grabbed
      /\ extra'[d] \in {x, SetKeyPressesGrabbed(x, e)}
  BY <1>7, <1>8
<1> QED BY <1>2, <1>4, <1>5, <1>8, <1>9, Zenon DEF e

LEMMA MotionIsRead ==
  ASSUME TypeInv, NEW d \in Devices, polled[d] = "open", queue[d] # <<>>, UNCHANGED <<down, polled>>,
         ProcessMotion(d)
  PROVE  /\ TypeInv' /\ extra'[d].keyStates = extra[d].keyStates
         /\ \A o \in Devices \ {d} : extra'[o] = extra[o]
         /\ UNCHANGED <<modifiers, virtual>>
<1> DEFINE x == [extra[d] EXCEPT !.nonKeyboard = TRUE, !.grabbed = FALSE]
<1>1. IsExtra(x) /\ x.keyStates = extra[d].keyStates
  BY DEF TypeInv, IsExtra
<1>2. extra' = [extra EXCEPT ![d] = x]
  BY DEF ProcessMotion
<1>3. queue' = [queue EXCEPT ![d] = Tail(@)] /\ UNCHANGED <<modifiers, virtual>>
  BY DEF ProcessMotion, virtVars
<1> HIDE DEF x
<1>4. TypeInv' /\ extra'[d] = x /\ \A o \in Devices \ {d} : extra'[o] = extra[o]
  BY <1>1, <1>2, <1>3, ReadKeepsTypes
<1> QED BY <1>1, <1>3, <1>4

LEMMA ExitClears ==
  ASSUME TypeInv, Exit
  PROVE  TypeInv' /\ running' = FALSE /\ virtual' = {} /\ extra' = [d \in Devices |-> NewExtraData]
         /\ down' = down /\ queue' = [d \in Devices |-> <<>>] /\ polled' = [d \in Devices |-> "no"]
<1>1. /\ polled' = [d \in Devices |-> "no"] /\ extra' = [d \in Devices |-> NewExtraData]
      /\ queue' = [d \in Devices |-> <<>>] /\ down' = down /\ running' = FALSE /\ virtual' = {}
  BY DEF Exit, devVars
<1>2. \A d \in Devices : <<>> \in Seq(EventsOf(d))
  OBVIOUS
<1>3. TypeInv'
  BY <1>1, <1>2, NewIsExtra DEF TypeInv
<1> QED BY <1>1, <1>3

\* The steps that no key is part of.
OtherStep ==
    \/ \E d \in Devices : Plug(d)
    \/ Steal \/ ReadVirtualKeyboard \/ Timer \/ UnbindAll
    \/ \E h \in Hotkeys : Bind(h)
    \/ UNCHANGED vars

LEMMA OtherStepKeeps ==
  OtherStep => UNCHANGED <<down, queue, polled, extra, virtual, modifiers, running>>
BY DEF OtherStep, Plug, Steal, ReadVirtualKeyboard, Timer, UnbindAll, Bind, vars,
   devVars, readVars, virtVars, ctlVars

\* What a step is while nothing is lost.
LEMMA StepCases ==
  ASSUME NothingIsLost, TypeInv, [Next]_vars
  PROVE  \/ OtherStep \/ Exit
         \/ \E d \in Devices : \E e \in EventsOf(d) : Emit(d, e) /\ (e \in KeyEvents \/ e = Motion)
         \/ \E d \in Devices : TryAdd(d) \/ ProcessInputEventData(d)
<1>1. \A d \in Devices : ~Unplug(d)
  BY DEF Unplug, NothingIsLost
<1>2. \A d \in Devices : ~RemoveEvent(d)
  BY DEF RemoveEvent, TypeInv
<1>3. CASE Typing
  <2>1. PICK d \in Devices : \/ \E k \in Keys : PressKey(d, k) \/ RepeatKey(d, k) \/ ReleaseKey(d, k)
                             \/ Move(d) \/ Plug(d)
    BY <1>1, <1>3, Zenon DEF Typing
  <2>2. CASE Plug(d)
    BY <2>2 DEF OtherStep
  <2>3. CASE (\E k \in Keys : PressKey(d, k) \/ RepeatKey(d, k) \/ ReleaseKey(d, k)) \/ Move(d)
    BY <2>3, EmittedIsOfDevice, Zenon
  <2> QED BY <2>1, <2>2, <2>3
<1>4. CASE Helper
  BY <1>2, <1>4, Zenon DEF Helper, OtherStep
<1>5. CASE Commands \/ Steal \/ UNCHANGED vars
  BY <1>5, Zenon DEF Commands, OtherStep
<1> QED BY <1>3, <1>4, <1>5, Zenon DEF Next

-----------------------------------------------------------------------------
(* The modifiers. *)

LEMMA HeldInit == Init => TypeInv /\ ModifiersInv
<1> SUFFICES ASSUME Init PROVE TypeInv /\ ModifiersInv
  OBVIOUS
<1>1. \A d \in Devices : <<>> \in Seq(EventsOf(d))
  OBVIOUS
<1>2. TypeInv
  BY <1>1, NewIsExtra DEF Init, TypeInv
<1> QED BY <1>2 DEF Init, ModifiersInv

LEMMA HeldNext ==
  ASSUME NothingIsLost, TypeInv, running => ModifiersInv, [Next]_vars
  PROVE  TypeInv' /\ (running => ModifiersInv)'
<1>1. CASE OtherStep
  BY <1>1, OtherStepKeeps DEF TypeInv, ModifiersInv
<1>2. CASE Exit
  BY <1>2, ExitClears
<1>3. ASSUME NEW d \in Devices, NEW e \in EventsOf(d), Emit(d, e) PROVE TypeInv' /\ (running => ModifiersInv)'
  <2>1. TypeInv' /\ UNCHANGED <<extra, modifiers, running>>
    BY <1>3, EmitAppends
  <2> QED BY <2>1 DEF ModifiersInv
<1>4. ASSUME NEW d \in Devices, TryAdd(d) PROVE TypeInv' /\ (running => ModifiersInv)'
  <2>1. /\ TypeInv' /\ UNCHANGED <<modifiers, running>>
        /\ \A o \in Devices : extra'[o] = extra[o] \/ extra[o] = NewExtraData
    BY <1>4, AddedIsRead
  <2>2. \A o \in Devices : extra[o].keyStates \subseteq extra'[o].keyStates
    BY <2>1, NewIsExtra
  <2> QED BY <2>1, <2>2 DEF ModifiersInv
<1>5. ASSUME NEW d \in Devices, ProcessInputEventData(d) PROVE TypeInv' /\ (running => ModifiersInv)'
  <2>1. /\ polled[d] = "open" /\ queue[d] # <<>> /\ running /\ UNCHANGED <<down, polled, running>>
        /\ (Head(queue[d]) \in KeyEvents /\ ProcessKey(d)) \/ ProcessMotion(d)
    BY <1>5, ReadIsOne
  <2>2. CASE Head(queue[d]) \in KeyEvents /\ ProcessKey(d)
    <3> DEFINE e == Head(queue[d])
    <3>1. /\ TypeInv' /\ extra'[d].keyStates = KeysAfter(extra[d].keyStates, e)
          /\ \A o \in Devices \ {d} : extra'[o] = extra[o]
          /\ modifiers' = ModifiersAfter(e)
      BY <2>1, <2>2, KeyIsRead
    <3>2. e \in KeyEvents
      BY <2>2
    <3> HIDE DEF e
    <3>3. ASSUME NEW k \in modifiers' PROVE \E o \in Devices : k \in extra'[o].keyStates
      <4>1. CASE k = e.code
        <5>1. e.value # Release \/ k \notin Modifiers
          BY <3>1, <3>2, <3>3, <4>1, KeysAfterKey DEF ModifiersAfter
        <5>2. CASE e.value # Release
          <6>1. k \in extra'[d].keyStates
            BY <3>1, <3>2, <4>1, <5>2, KeysAfterKey
          <6> QED BY <6>1
        <5>3. CASE k \notin Modifiers
          <6>1. k \in modifiers /\ modifiers \subseteq Modifiers
            BY <2>1, <3>1, <3>3, <4>1, <5>3 DEF ModifiersAfter, ModifiersInv
          <6> QED BY <5>3, <6>1
        <5> QED BY <5>1, <5>2, <5>3
      <4>2. CASE k # e.code
        <5>1. k \in modifiers
          BY <3>1, <3>2, <3>3, <4>2, KeysAfterKey DEF ModifiersAfter
        <5>2. PICK o \in Devices : k \in extra[o].keyStates
          BY <2>1, <5>1 DEF ModifiersInv
        <5>3. k \in extra'[o].keyStates
          BY <3>1, <3>2, <4>2, <5>2, KeysAfterKey
        <5> QED BY <5>3
      <4> QED BY <4>1, <4>2
    <3>4. modifiers' \subseteq Modifiers
      BY <2>1, <3>1, <3>2, KeysAfterKey DEF ModifiersAfter, ModifiersInv
    <3> QED BY <3>1, <3>3, <3>4 DEF ModifiersInv
  <2>3. CASE ProcessMotion(d)
    <3>1. /\ TypeInv' /\ extra'[d].keyStates = extra[d].keyStates
          /\ \A o \in Devices \ {d} : extra'[o] = extra[o]
          /\ modifiers' = modifiers
      BY <2>1, <2>3, MotionIsRead
    <3>2. \A o \in Devices : extra'[o].keyStates = extra[o].keyStates
      BY <3>1
    <3> QED BY <2>1, <3>1, <3>2 DEF ModifiersInv
  <2> QED BY <2>1, <2>2, <2>3
<1> QED BY <1>1, <1>2, <1>3, <1>4, <1>5, StepCases

\* While no keyboard is unplugged and no queue overflows, a modifier that the
\* helper believes to be held is held on a keyboard, whatever is typed on how
\* many of them: no plain key acts as a hotkey
\* (src/tools/gsr-global-hotkeys/keyboard_event.c, modifier_button_states).
THEOREM ModifiersAreAlwaysHeld ==
  ASSUME NothingIsLost
  PROVE  Spec => []ModifiersAreHeld
<1>1. Init => TypeInv /\ (running => ModifiersInv)
  BY HeldInit
<1>2. TypeInv /\ (running => ModifiersInv) /\ [Next]_vars => (TypeInv /\ (running => ModifiersInv))'
  BY HeldNext
<1>3. TypeInv /\ (running => ModifiersInv) => ModifiersAreHeld
  BY DEF ModifiersInv, ModifiersAreHeld
<1> QED BY <1>1, <1>2, <1>3, PTL DEF Spec

-----------------------------------------------------------------------------
(* The keys of the virtual keyboard. *)

ReleaseOf(e, k) == e.type = "key" /\ e.code = k /\ e.value = Release

\* Every key that is up was released by the last of its events.
ReleasedLast(d) ==
    \A k \in Keys \ down[d] :
        /\ k \in extra[d].keyStates => \E n \in 1..Len(queue[d]) : ReleaseOf(queue[d][n], k)
        /\ \A n \in 1..Len(queue[d]) :
             queue[d][n].type = "key" /\ queue[d][n].code = k /\ ~ReleaseOf(queue[d][n], k) =>
               \E m \in 1..Len(queue[d]) : n < m /\ ReleaseOf(queue[d][m], k)

\* A key is down on the virtual keyboard because a grabbed keyboard holds it.
VirtualInv ==
    /\ virtual \subseteq Keys
    /\ \A k \in virtual : \E d \in Devices :
         polled[d] = "open" /\ extra[d].grabbed /\ k \in extra[d].keyStates
    /\ \A d \in Devices : polled[d] = "open" => ReleasedLast(d)
    /\ \A d \in Devices : \A k \in Keys : ~PressGrabbed(extra[d], k)

LEMMA VirtualInit == Init => VirtualInv
BY NewIsExtra DEF Init, VirtualInv, PressGrabbed

\* The queue gets an event, and the state of the device follows it.
LEMMA EmittedIsReleasedLast ==
  ASSUME TypeInv, NEW d \in Devices, NEW e \in KeyEvents, ReleasedLast(d),
         extra'[d] = extra[d], down'[d] = KeysAfter(down[d], e), queue'[d] = Append(queue[d], e),
         queue[d] \in Seq(EventsOf(d)), e \in EventsOf(d)
  PROVE  ReleasedLast(d)'
<1> DEFINE q == queue[d]
           n == Len(q)
<1>1. /\ n \in Nat /\ Len(Append(q, e)) = n + 1 /\ Append(q, e)[n + 1] = e
      /\ \A i \in 1..n : Append(q, e)[i] = q[i]
  OBVIOUS
<1> DEFINE r == Append(q, e)
<1>2. queue'[d] = r /\ queue[d] = q
  OBVIOUS
<1>3. n \in Nat /\ n = Len(q) /\ Len(r) = n + 1 /\ r[n + 1] = e /\ \A i \in 1..n : r[i] = q[i]
  BY <1>1
<1> HIDE DEF r, q, n
<1> SUFFICES ASSUME NEW k \in Keys \ down'[d]
             PROVE  /\ k \in extra[d].keyStates => \E i \in 1..n + 1 : ReleaseOf(r[i], k)
                    /\ \A i \in 1..n + 1 :
                         r[i].type = "key" /\ r[i].code = k /\ ~ReleaseOf(r[i], k) =>
                           \E m \in 1..n + 1 : i < m /\ ReleaseOf(r[m], k)
  BY <1>2, <1>3 DEF ReleasedLast, ReleaseOf
<1>4. CASE e.code = k
  <2>1. ReleaseOf(e, k)
    BY <1>4, KeysAfterKey DEF ReleaseOf, KeyEvents
  <2> QED BY <1>3, <2>1
<1>5. CASE e.code # k
  <2>1. k \notin down[d]
    BY <1>5, KeysAfterKey
  <2>2. k \in extra[d].keyStates => \E i \in 1..n : ReleaseOf(q[i], k)
    BY <1>2, <1>3, <2>1 DEF ReleasedLast
  <2>3. \A i \in 1..n : q[i].type = "key" /\ q[i].code = k /\ ~ReleaseOf(q[i], k) =>
                          \E m \in 1..n : i < m /\ ReleaseOf(q[m], k)
    BY <1>2, <1>3, <2>1 DEF ReleasedLast
  <2>4. k \in extra[d].keyStates => \E i \in 1..n + 1 : ReleaseOf(r[i], k)
    BY <1>3, <2>2
  <2>5. ASSUME NEW i \in 1..n + 1, r[i].type = "key", r[i].code = k, ~ReleaseOf(r[i], k)
        PROVE  \E m \in 1..n + 1 : i < m /\ ReleaseOf(r[m], k)
    <3>1. i # n + 1
      BY <1>3, <1>5, <2>5
    <3>2. i \in 1..n /\ r[i] = q[i]
      BY <1>3, <3>1
    <3>3. PICK m \in 1..n : i < m /\ ReleaseOf(q[m], k)
      BY <2>3, <2>5, <3>2
    <3> QED BY <1>3, <3>3
  <2> QED BY <2>4, <2>5
<1> QED BY <1>4, <1>5

LEMMA ReadIsReleasedLast ==
  ASSUME TypeInv, NEW d \in Devices, ReleasedLast(d), queue[d] # <<>>, Head(queue[d]) \in KeyEvents,
         down'[d] = down[d], queue'[d] = Tail(queue[d]),
         extra'[d].keyStates = KeysAfter(extra[d].keyStates, Head(queue[d]))
  PROVE  ReleasedLast(d)'
<1> DEFINE q == queue[d]
           n == Len(q)
           e == Head(q)
           r == Tail(q)
<1>1. /\ queue[d] = q /\ queue'[d] = r /\ n \in Nat /\ n = Len(q) /\ n # 0
      /\ e = q[1] /\ Len(r) = n - 1 /\ \A i \in 1..n - 1 : r[i] = q[i + 1]
  BY DEF TypeInv
<1>2. e \in KeyEvents /\ extra'[d].keyStates = KeysAfter(extra[d].keyStates, e)
  OBVIOUS
<1> HIDE DEF q, n, e, r
<1>8. SUFFICES ASSUME NEW k \in Keys \ down[d]
         PROVE  /\ k \in extra'[d].keyStates => \E i \in 1..n - 1 : ReleaseOf(r[i], k)
                /\ \A i \in 1..n - 1 :
                     r[i].type = "key" /\ r[i].code = k /\ ~ReleaseOf(r[i], k) =>
                       \E m \in 1..n - 1 : i < m /\ ReleaseOf(r[m], k)
  <2> DEFINE t == queue'[d]
             x == extra'[d].keyStates
  <2>1. t = r /\ 1..Len(t) = 1..n - 1 /\ down'[d] = down[d]
    BY <1>1
  <2>2. ReleasedLast(d)' <=>
          \A k \in Keys \ down'[d] :
            /\ k \in x => \E i \in 1..Len(t) : ReleaseOf(t[i], k)
            /\ \A i \in 1..Len(t) :
                 t[i].type = "key" /\ t[i].code = k /\ ~ReleaseOf(t[i], k) =>
                   \E m \in 1..Len(t) : i < m /\ ReleaseOf(t[m], k)
    BY Zenon DEF ReleasedLast, ReleaseOf
  <2> HIDE DEF t
  <2> QED BY <2>1, <2>2, Zenon
<1>3. k \in extra[d].keyStates => \E i \in 1..n : ReleaseOf(q[i], k)
  BY <1>1 DEF ReleasedLast
<1>4. \A i \in 1..n : q[i].type = "key" /\ q[i].code = k /\ ~ReleaseOf(q[i], k) =>
                        \E m \in 1..n : i < m /\ ReleaseOf(q[m], k)
  BY <1>1 DEF ReleasedLast
<1>5. ASSUME NEW m \in 1..n, m > 1, ReleaseOf(q[m], k) PROVE m - 1 \in 1..n - 1 /\ ReleaseOf(r[m - 1], k)
  <2>1. m - 1 \in 1..n - 1 /\ (m - 1) + 1 = m
    BY <1>1, <1>5
  <2>2. r[m - 1] = q[m]
    BY <1>1, <2>1
  <2> QED BY <1>5, <2>1, <2>2
<1>6. ASSUME k \in extra'[d].keyStates PROVE \E i \in 1..n - 1 : ReleaseOf(r[i], k)
  <2>1. CASE e.code = k /\ e.value # Release
    <3>1. q[1].type = "key" /\ q[1].code = k /\ ~ReleaseOf(q[1], k) /\ 1 \in 1..n
      BY <1>1, <1>2, <2>1, KeysAfterKey DEF ReleaseOf
    <3>2. PICK m \in 1..n : 1 < m /\ ReleaseOf(q[m], k)
      BY <1>4, <3>1
    <3> QED BY <1>5, <3>2
  <2>2. CASE e.code = k /\ e.value = Release
    BY <1>2, <1>6, <2>2, KeysAfterKey
  <2>3. CASE e.code # k
    <3>1. k \in extra[d].keyStates
      BY <1>2, <1>6, <2>3, KeysAfterKey
    <3>2. PICK m \in 1..n : ReleaseOf(q[m], k)
      BY <1>3, <3>1
    <3>3. m # 1
      BY <1>1, <2>3, <3>2 DEF ReleaseOf
    <3> QED BY <1>5, <3>2, <3>3
  <2> QED BY <2>1, <2>2, <2>3
<1>7. ASSUME NEW i \in 1..n - 1, r[i].type = "key", r[i].code = k, ~ReleaseOf(r[i], k)
      PROVE  \E m \in 1..n - 1 : i < m /\ ReleaseOf(r[m], k)
  <2>1. i + 1 \in 1..n /\ r[i] = q[i + 1]
    BY <1>1
  <2>2. PICK m \in 1..n : i + 1 < m /\ ReleaseOf(q[m], k)
    BY <1>4, <1>7, <2>1
  <2>3. m - 1 \in 1..n - 1 /\ ReleaseOf(r[m - 1], k) /\ i < m - 1
    BY <1>5, <2>2
  <2> QED BY <2>3
<1> QED BY <1>6, <1>7

LEMMA VirtualNext ==
  ASSUME NothingIsLost, OnlyKeyboards, BitsDoNotMeet, TypeInv, VirtualInv, [Next]_vars
  PROVE  VirtualInv'
<1>1. CASE OtherStep
  BY <1>1, OtherStepKeeps DEF VirtualInv, ReleasedLast, ReleaseOf, PressGrabbed
<1>2. CASE Exit
  BY <1>2, ExitClears, NewIsExtra DEF VirtualInv, PressGrabbed
<1>3. ASSUME NEW d \in Devices, NEW e \in EventsOf(d), Emit(d, e) PROVE VirtualInv'
  <2>1. e \in KeyEvents
    BY DEF EventsOf, OnlyKeyboards
  <2>2. /\ UNCHANGED <<extra, polled, virtual>>
        /\ \A o \in Devices \ {d} : down'[o] = down[o] /\ queue'[o] = queue[o]
        /\ down'[d] = KeysAfter(down[d], e)
        /\ polled[d] = "open" => queue'[d] = Append(queue[d], e)
    BY <1>3, EmitAppends
  <2>3. ASSUME NEW o \in Devices, polled'[o] = "open" PROVE ReleasedLast(o)'
    <3>1. ReleasedLast(o)
      BY <2>2, <2>3 DEF VirtualInv
    <3>2. CASE o = d
      <4>1. queue[d] \in Seq(EventsOf(d)) /\ extra'[d] = extra[d] /\ queue'[d] = Append(queue[d], e)
        BY <2>2, <2>3, <3>2 DEF TypeInv
      <4> QED BY <2>1, <2>2, <3>1, <3>2, <4>1, EmittedIsReleasedLast
    <3>3. CASE o # d
      BY <2>2, <3>1, <3>3 DEF ReleasedLast, ReleaseOf
    <3> QED BY <3>2, <3>3
  <2> QED BY <2>2, <2>3 DEF VirtualInv, PressGrabbed
<1>4. ASSUME NEW d \in Devices, TryAdd(d) PROVE VirtualInv'
  <2>1. /\ UNCHANGED <<down, queue, virtual>>
        /\ \A o \in Devices : \/ polled'[o] = polled[o] /\ extra'[o] = extra[o]
                              \/ /\ polled[o] = "no" /\ extra[o] = NewExtraData /\ queue[o] = <<>>
                                 /\ extra'[o].keyStates = down[o] /\ extra'[o].pressesGrabbed = {}
    BY <1>4, AddedIsRead
  <2>2. ASSUME NEW o \in Devices, polled'[o] = "open" PROVE ReleasedLast(o)'
    <3>1. CASE polled'[o] = polled[o] /\ extra'[o] = extra[o]
      BY <2>1, <2>2, <3>1 DEF VirtualInv, ReleasedLast, ReleaseOf
    <3>2. CASE queue[o] = <<>> /\ extra'[o].keyStates = down[o]
      <4>1. queue'[o] = <<>> /\ down'[o] = down[o] /\ 1..Len(<<>>) = {}
        BY <2>1, <3>2
      <4> QED BY <3>2, <4>1 DEF ReleasedLast
    <3> QED BY <2>1, <3>1, <3>2
  <2>3. ASSUME NEW o \in Devices, NEW k \in Keys PROVE ~PressGrabbed(extra'[o], k)
    BY <2>1 DEF VirtualInv, PressGrabbed
  <2>4. ASSUME NEW k \in virtual
        PROVE  \E o \in Devices : polled'[o] = "open" /\ extra'[o].grabbed /\ k \in extra'[o].keyStates
    <3>1. PICK o \in Devices : polled[o] = "open" /\ extra[o].grabbed /\ k \in extra[o].keyStates
      BY DEF VirtualInv
    <3>2. polled'[o] = polled[o] /\ extra'[o] = extra[o]
      BY <2>1, <3>1
    <3> QED BY <3>1, <3>2
  <2> QED BY <2>1, <2>2, <2>3, <2>4 DEF VirtualInv, PressGrabbed
<1>5. ASSUME NEW d \in Devices, ProcessInputEventData(d) PROVE VirtualInv'
  <2> DEFINE e == Head(queue[d])
  <2>1. /\ polled[d] = "open" /\ queue[d] # <<>> /\ UNCHANGED <<down, polled>>
        /\ e \in KeyEvents /\ ProcessKey(d)
    BY <1>5, ReadIsOne DEF OnlyKeyboards
  <2>2. PICK x : /\ IsExtra(x) /\ x.keyStates = KeysAfter(extra[d].keyStates, e)
                 /\ x.pressesGrabbed = extra[d].pressesGrabbed /\ (extra[d].grabbed => x.grabbed)
                 /\ extra'[d] \in {x, SetKeyPressesGrabbed(x, e)}
                 /\ virtual' = IF x.grabbed /\ ~Kept(x, e) THEN KeysAfter(virtual, e) ELSE virtual
                 /\ IsExtra(extra'[d]) /\ extra'[d].keyStates = x.keyStates /\ extra'[d].grabbed = x.grabbed
                 /\ queue'[d] = Tail(queue[d])
                 /\ \A o \in Devices \ {d} : extra'[o] = extra[o] /\ queue'[o] = queue[o]
    BY <2>1, KeyIsRead
  <2>3. ASSUME NEW o \in Devices, polled'[o] = "open" PROVE ReleasedLast(o)'
    <3>1. ReleasedLast(o)
      BY <2>1, <2>3 DEF VirtualInv
    <3>2. CASE o = d
      <4>1. down'[d] = down[d] /\ extra'[d].keyStates = KeysAfter(extra[d].keyStates, e)
        BY <2>1, <2>2
      <4> QED BY <2>1, <2>2, <3>1, <3>2, <4>1, ReadIsReleasedLast
    <3>3. CASE o # d
      BY <2>1, <2>2, <3>1, <3>3 DEF ReleasedLast, ReleaseOf
    <3> QED BY <3>2, <3>3
  <2> HIDE DEF e
  <2>4. \A k \in Keys : ~PressGrabbed(x, k)
    BY <2>2 DEF VirtualInv, PressGrabbed
  <2>5. ASSUME NEW o \in Devices PROVE \A k \in Keys : ~PressGrabbed(extra'[o], k)
    <3>1. CASE o = d
      BY <2>1, <2>2, <2>4, <3>1, BitsStayClear
    <3>2. CASE o # d
      BY <2>2, <3>2 DEF VirtualInv, PressGrabbed
    <3> QED BY <3>1, <3>2
  <2>6. e.code \in Keys
    BY <2>1, KeysAfterKey
  <2>7. virtual' \subseteq Keys
    BY <2>1, <2>2, <2>6, KeysAfterKey DEF VirtualInv
  <2>8. ASSUME NEW k \in virtual'
        PROVE  \E o \in Devices : polled'[o] = "open" /\ extra'[o].grabbed /\ k \in extra'[o].keyStates
    <3>1. CASE k \in virtual
      <4>1. PICK o \in Devices : polled[o] = "open" /\ extra[o].grabbed /\ k \in extra[o].keyStates
        BY <3>1 DEF VirtualInv
      <4>2. CASE o # d
        BY <2>1, <2>2, <4>1, <4>2
      <4>3. CASE o = d
        <5>1. x.grabbed
          BY <2>2, <4>1, <4>3
        <5>2. CASE e.code = k /\ e.value = Release
          <6>1. ~Kept(x, e)
            <7>1. ~StateChanged(x, e)
              BY <2>4, <2>6, <5>2 DEF StateChanged, Release, Press
            <7> QED BY <7>1 DEF Kept
          <6>2. virtual' = virtual \ {k}
            BY <2>1, <2>2, <5>1, <5>2, <6>1, KeysAfterKey
          <6> QED BY <2>8, <6>2
        <5>3. CASE ~(e.code = k /\ e.value = Release)
          <6>1. k \in x.keyStates
            BY <2>1, <2>2, <4>1, <4>3, <5>3, KeysAfterKey
          <6> QED BY <2>1, <2>2, <5>1, <6>1
        <5> QED BY <5>2, <5>3
      <4> QED BY <4>2, <4>3
    <3>2. CASE k \notin virtual
      <4>1. x.grabbed /\ virtual' = KeysAfter(virtual, e)
        BY <2>2, <2>8, <3>2
      <4>2. k = e.code /\ e.value # Release
        BY <2>1, <2>8, <3>2, <4>1, KeysAfterKey
      <4>3. k \in x.keyStates
        BY <2>1, <2>2, <4>2, KeysAfterKey
      <4> QED BY <2>1, <2>2, <4>1, <4>3
    <3> QED BY <3>1, <3>2
  <2> QED BY <2>3, <2>5, <2>7, <2>8 DEF VirtualInv
<1> QED BY <1>1, <1>2, <1>3, <1>4, <1>5, StepCases

LEMMA VirtualIsHeld == TypeInv /\ VirtualInv => NoStuckKey
<1> SUFFICES ASSUME TypeInv, VirtualInv, NEW k \in virtual
             PROVE  \E d \in Devices :
                      /\ polled[d] = "open"
                      /\ \/ k \in down[d]
                         \/ \E n \in DOMAIN queue[d] : queue[d][n].type = "key" /\ queue[d][n].code = k
  BY DEF NoStuckKey
<1>1. PICK d \in Devices : polled[d] = "open" /\ k \in extra[d].keyStates /\ ReleasedLast(d)
  BY DEF VirtualInv
<1>2. CASE k \in down[d]
  BY <1>1, <1>2
<1>3. CASE k \notin down[d]
  <2>1. PICK n \in 1..Len(queue[d]) : ReleaseOf(queue[d][n], k)
    BY <1>1, <1>3 DEF ReleasedLast, VirtualInv
  <2>2. n \in DOMAIN queue[d]
    BY DEF TypeInv
  <2> QED BY <1>1, <2>1, <2>2 DEF ReleaseOf
<1> QED BY <1>2, <1>3

\* While nothing is lost, no keyboard is a mouse, and no key sets the bit of
\* another, every key that is down for the applications is held on a keyboard or
\* about to be released, in whatever order keyboards are read, grabbed or refused
\* and hotkeys bound (src/tools/gsr-global-hotkeys/keyboard_event.c,
\* keyboard_event_process_input_event_data and keyboard_event_process_key_state_change).
THEOREM OnlyLossesStickKeys ==
  ASSUME NothingIsLost, OnlyKeyboards, BitsDoNotMeet
  PROVE  Spec => []NoStuckKey
<1>1. Init => TypeInv /\ (running => ModifiersInv) /\ VirtualInv
  BY HeldInit, VirtualInit
<1>2. TypeInv /\ (running => ModifiersInv) /\ VirtualInv /\ [Next]_vars
      => (TypeInv /\ (running => ModifiersInv) /\ VirtualInv)'
  BY HeldNext, VirtualNext
<1>3. TypeInv /\ VirtualInv => NoStuckKey
  BY VirtualIsHeld
<1> QED BY <1>1, <1>2, <1>3, PTL DEF Spec
=============================================================================
