--------------------------- MODULE HotkeySettings ---------------------------
(***************************************************************************)
(* The keyboard hotkeys: the configuration, the buttons of the settings    *)
(* page that show and change them, and the table of the helper             *)
(* gsr-global-hotkeys, which is filled through a pipe.                     *)
(*                                                                         *)
(* While a hotkey is chosen every hotkey is unbound, so that its keys      *)
(* reach the page; each way out of that must bind what is configured.      *)
(* The two hotkeys that cannot be configured are left out.                 *)
(***************************************************************************)
EXTENDS Sequences, SequencesExt, FiniteSets

CONSTANTS Actions,       \* ConfigureHotkeyType
          NoAction,      \* ConfigureHotkeyType::NONE
          Keys,          \* the keys that are not modifiers
          NoKey,         \* mgl::Keyboard::Unknown
          AlphaNumeric,  \* the keys that need a modifier
          Modifiers,
          DefaultHotkeys,
          MaxCommands    \* bound on the commands the helper has not read

VARIABLES hotkeys,       \* the hotkeys of the configuration
          texts,         \* the texts of the buttons
          pageShown,     \* the settings page is open
          configuring,   \* configure_hotkey_type
          candidate,     \* configure_config_hotkey
          running,       \* the helper was started
          boundIds,      \* bound_actions_by_id is not empty, and holds these
          commands,      \* the pipe to the helper
          helper         \* the helper's table

hotkeyVars == <<hotkeys, texts, pageShown, configuring, candidate, running, boundIds, commands, helper>>

Hotkey == [key : Keys \cup {NoKey}, modifiers : SUBSET Modifiers]
NoHotkey == [key |-> NoKey, modifiers |-> {}]

\* Two actions never share a hotkey.
Unique(h) == \A a, b \in Actions : a # b /\ h[a].key # NoKey => h[a] # h[b]

ASSUME HotkeyAssumption ==
    /\ IsFiniteSet(Actions) /\ NoAction \notin Actions /\ NoKey \notin Keys
    /\ DefaultHotkeys \in [Actions -> Hotkey] /\ Unique(DefaultHotkeys)

-----------------------------------------------------------------------------
\* bind_key_press: what can be bound.
Bindable(hotkey) ==
    hotkey.key # NoKey /\ (hotkey.key \in AlphaNumeric => hotkey.modifiers # {})
BindableActions(h) == {a \in Actions : Bindable(h[a])}

UnbindAll == [action |-> NoAction, hotkey |-> NoHotkey]
BindCommand(h, a) == [action |-> a, hotkey |-> h[a]]
BindCommands(h) == SetToSeq({BindCommand(h, a) : a \in BindableActions(h)})
Entries(h) == {BindCommand(h, a) : a \in BindableActions(h)}

\* unbind_all_keyboard_hotkeys: nothing is sent when nothing is bound.
Unbound == IF running /\ boundIds # {} THEN Append(commands, UnbindAll) ELSE commands

Unbind == commands' = Unbound /\ boundIds' = IF running THEN {} ELSE boundIds

\* rebind_all_keyboard_hotkeys, bind_linux_hotkeys: to the hotkeys h.
Rebind(h) ==
    IF running THEN commands' = Unbound \o BindCommands(h) /\ boundIds' = BindableActions(h)
    ELSE UNCHANGED <<commands, boundIds>>

CanSend == Len(commands) + Cardinality(Actions) < MaxCommands

-----------------------------------------------------------------------------
HotkeyInit ==
    /\ hotkeys = DefaultHotkeys
    /\ texts = [a \in Actions |-> NoHotkey]
    /\ pageShown = FALSE /\ configuring = NoAction /\ candidate = NoHotkey
    /\ running \in BOOLEAN
    /\ boundIds = IF running THEN BindableActions(hotkeys) ELSE {}
    /\ commands = IF running THEN BindCommands(hotkeys) ELSE <<>>
    /\ helper = {}

\* The page is created and load_hotkeys fills its buttons.
OpenHotkeys ==
    /\ ~pageShown /\ pageShown' = TRUE
    /\ texts' = hotkeys
    /\ configuring' = NoAction /\ candidate' = NoHotkey
    /\ UNCHANGED <<hotkeys, running, boundIds, commands, helper>>

\* configure_hotkey_start: the other buttons are hidden until it ends.
ConfigureStart(action) ==
    /\ pageShown /\ configuring = NoAction /\ CanSend
    /\ configuring' = action /\ candidate' = NoHotkey
    /\ texts' = [texts EXCEPT ![action] = NoHotkey]
    /\ Unbind
    /\ UNCHANGED <<hotkeys, pageShown, running, helper>>

RestoredTexts == IF configuring = NoAction THEN texts
                 ELSE [texts EXCEPT ![configuring] = hotkeys[configuring]]

\* Faulty variant: cancelling forgets that the hotkeys were unbound.
ConfigureCancelUnbound ==
    /\ texts' = RestoredTexts
    /\ configuring' = NoAction /\ candidate' = NoHotkey
    /\ UNCHANGED <<commands, boundIds>>

\* configure_hotkey_cancel: also when nothing is configured.
ConfigureCancel ==
    /\ texts' = RestoredTexts
    /\ configuring' = NoAction /\ candidate' = NoHotkey
    /\ Rebind(hotkeys)

UsedByAnother(hotkey) ==
    hotkey.key # NoKey /\ \E a \in Actions \ {configuring} : hotkeys[a] = hotkey

\* configure_hotkey_stop_and_save: a hotkey in use leaves the page waiting
\* for another one, with nothing bound.
StopAndSave(hotkey) ==
    IF UsedByAnother(hotkey)
      THEN /\ texts' = RestoredTexts /\ candidate' = NoHotkey
           /\ UNCHANGED <<hotkeys, configuring, commands, boundIds>>
      ELSE /\ hotkeys' = [hotkeys EXCEPT ![configuring] = hotkey]
           /\ texts' = [texts EXCEPT ![configuring] = hotkey]
           /\ configuring' = NoAction /\ candidate' = NoHotkey
           /\ Rebind(hotkeys')

\* on_event: Backspace, then a key, then the modifiers.
PressBackspace ==
    /\ configuring # NoAction /\ CanSend
    /\ StopAndSave(NoHotkey)
    /\ UNCHANGED <<pageShown, running, helper>>

PressKey(key) ==
    /\ configuring # NoAction /\ CanSend
    /\ candidate.modifiers # {} \/ key \notin AlphaNumeric
    /\ StopAndSave([candidate EXCEPT !.key = key])
    /\ UNCHANGED <<pageShown, running, helper>>

HoldModifiers(modifiers) ==
    /\ configuring # NoAction /\ modifiers # candidate.modifiers
    /\ candidate' = [candidate EXCEPT !.modifiers = modifiers]
    /\ texts' = [texts EXCEPT ![configuring] = candidate']
    /\ UNCHANGED <<hotkeys, pageShown, configuring, running, boundIds, commands, helper>>

PressModifier(m) == HoldModifiers(candidate.modifiers \cup {m})
ReleaseModifier(m) == HoldModifiers(candidate.modifiers \ {m})

ReleaseEscape ==
    /\ configuring # NoAction /\ CanSend
    /\ ConfigureCancel
    /\ UNCHANGED <<hotkeys, pageShown, running, helper>>

\* save: the page is left, by its button or because the overlay is hidden.
CloseHotkeys ==
    /\ pageShown /\ pageShown' = FALSE /\ CanSend
    /\ ConfigureCancel
    /\ UNCHANGED <<hotkeys, running, helper>>

\* The buttons that clear all hotkeys and set them to their defaults.
SetHotkeys(h) ==
    /\ pageShown /\ configuring = NoAction /\ CanSend
    /\ hotkeys' = h /\ texts' = h
    /\ Rebind(h)
    /\ UNCHANGED <<pageShown, configuring, candidate, running, helper>>

\* recreate_global_hotkeys, by the page's buttons, or with a helper that
\* grabs nothing when another program has grabbed the helper's keyboard.
\* The new helper may not start.
Recreate(started) ==
    /\ running \/ (pageShown /\ configuring = NoAction)
    /\ running' = started
    /\ helper' = {}
    /\ commands' = IF started THEN BindCommands(hotkeys) ELSE <<>>
    /\ boundIds' = IF started THEN BindableActions(hotkeys) ELSE {}
    /\ UNCHANGED <<hotkeys, texts, pageShown, configuring, candidate>>

\* MappingNotify: the key codes changed.
MappingChanged ==
    /\ CanSend /\ Rebind(hotkeys)
    /\ UNCHANGED <<hotkeys, texts, pageShown, configuring, candidate, running, helper>>

\* The helper reads a command.
HelperReads ==
    /\ commands # <<>>
    /\ commands' = Tail(commands)
    /\ helper' = IF Head(commands) = UnbindAll THEN {} ELSE helper \cup {Head(commands)}
    /\ UNCHANGED <<hotkeys, texts, pageShown, configuring, candidate, running, boundIds>>

HotkeyNext ==
    \/ OpenHotkeys \/ CloseHotkeys
    \/ \E a \in Actions : ConfigureStart(a)
    \/ \E m \in Modifiers : PressModifier(m) \/ ReleaseModifier(m)
    \/ \E key \in Keys : PressKey(key)
    \/ PressBackspace \/ ReleaseEscape
    \/ SetHotkeys(DefaultHotkeys) \/ SetHotkeys([a \in Actions |-> NoHotkey])
    \/ \E started \in BOOLEAN : Recreate(started)
    \/ MappingChanged \/ HelperReads

HotkeySpec == HotkeyInit /\ [][HotkeyNext]_hotkeyVars

-----------------------------------------------------------------------------
\* However a choice ends, is refused or is overtaken by a new helper or a new
\* keyboard layout, the buttons show the configuration, and the helper that
\* has read its pipe has bound it (GlobalSettingsPage.cpp and
\* src/src/GlobalHotkeys/GlobalHotkeysLinux.cpp).
HotkeysAgree ==
    /\ pageShown => \A a \in Actions \ {configuring} : texts[a] = hotkeys[a]
    /\ running /\ configuring = NoAction /\ commands = <<>> => helper = Entries(hotkeys)
    /\ running /\ commands = <<>> => helper \subseteq Entries(hotkeys)
=============================================================================
