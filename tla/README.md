# gsr-ui in TLA+

A model of GPU Screen Recorder UI (`gsr-ui`), the overlay that starts, stops and
configures `gpu-screen-recorder`.  The modules are translated from the C++ and C
sources; paths below are relative to the repository.

## 1. The system

`gsr-ui` is one process with a single-threaded main loop (`src/main.cpp`:
`rpc->poll()`, `overlay->handle_events()`, `overlay->draw()`), a few helper
threads, and a number of child processes.

| component | state | operations | hard behaviour |
| --- | --- | --- | --- |
| Overlay (`Overlay.cpp`) | recording status, two `gpu-screen-recorder` pids, paused, replay_recording, request flags, window, pages | commands and hotkeys (`on_press_...`), a fixed sequence of steps per frame | children end between any two steps; one line of output per frame; flags set in one step and used in a later frame |
| Region selector (`RegionSelector/`) | started, type, selected, canceled | start, events, take | grabs the input; a selection outlives the command that asked for it |
| Command server (`Rpc.cpp`), `gsr-ui-cli` | listening socket, 9 poll slots, a buffer per slot | accept, read a line, close | connections that come and go between two `poll` calls; slots that move |
| Recent videos (`RecentVideos.cpp`) | a file of paths, thumbnails on disk, the list shown | add, load in a thread, purge | a loader thread and the main loop share the file, the list and three flags |
| Hotkeys (`GlobalHotkeys/`, `tools/gsr-global-hotkeys`) | bindings on both sides of a pipe, grabbed keyboards, a virtual keyboard, modifiers | bind, unbind, grab, key events, hotplug | a key swallowed on press but not on release, keyboards that vanish while grabbed |
| Joystick hotkeys (`GlobalHotkeysJoystick.cpp`) | polled descriptors, a flag per action, a thread that polls and one that closes | read, plug, unplug, call the action, destroy | three threads hand descriptors and flags to one another, and the destructor may come between any two steps |
| LED indicator | the keyboard led's helper child and blink timer | set, blink, update | a helper per change, which may still run when the next is due |
| Trimmer (`TimelineWidget`, `TrimmerPage`, `FullscreenVideoPreviewPage`) | chunks of the video, a saved file per video, a preview that is to be restarted, scrubs | cut, join, toggle, scrub, preview, load, save | mpv's position is late when the page acts on it; two pages share one player; a kill while the file is written |
| Trim export (`TrimmerExport`, `ExportPage`) | the choices of a page, a script and a list of chunks per export | choose, type, export | a choice changes others; what a container, the host and the encoder support; scripts that run detached and remove files that are named by the second |
| Timeline thumbnails (`TimelineWidget.cpp`) | a worker thread, a generation, locked cache directories | request, generate, draw, purge | several programs lock the same directory; an exchange of a lock gives it up first |
| Video player (`VideoPlayer.cpp`, `Libmpv.cpp`) | mpv handle, playback state, a scrub, a proxy worker thread, the locks of proxies | load, seek, play, scrub, encode, purge | seeks overlap; a lock passes from the worker to the page; an encoder outlives its program |
| Clipboards | an image, a transfer per requestor | set, request, chunk | a new image while an old one is being sent |
| Game tracker (`tools/gsr-game-tracker`) | a table of running games, a count | scan, process events, sweep | the kernel drops events; a process changes its program; the count and the table part |
| Replay autostart (`Overlay.cpp`) | startup mode, the power supply, the last line of the tracker, who started the replay | one look per frame | a change is taken note of before it is acted on; a selection or another session is in the way |
| Settings pages, `Config.cpp` | options in a file, in memory and in widgets | load, edit, save, choose a hotkey, drag the camera's box | a control keeps only what it offers; loading runs the handlers of a choice; a helper is replaced while a hotkey is chosen; a save is cut short |
| Widgets, `SafeVector.hpp` | children of a page | add, remove while iterating | removal from a callback of the iteration |
| Helpers (desktop environments, window queries, cursor trackers), theme, translations, capabilities | last values | read | nothing that decides what the program does |

How they interact: commands and hotkeys are callbacks that run in the main loop
before the frame's own steps; the region selector is polled by the overlay; the
children are known by pids and pipes; helper threads leave their results in
variables guarded by a mutex or an atomic flag that a later frame looks at.

What makes each part correct:

* Overlay: status, pids and children agree; no child is lost; nothing starts
  behind a running selection; the input is never held by two windows; a session
  ends only by the user's stop or its child's end; exit ends everything.
* Command server: a command is executed once or its sender was refused; the
  documented number of connections is served.
* Recent videos: the list shown is one that the file held; no thumbnail of the
  list is purged; a saved video appears.
* Hotkeys: what the applications see of a key is balanced, a keyboard that is left
  alone is grabbed in the end, the helper's table is that of the settings.
* Joystick: every device's descriptor is closed once, no press is lost.
* Replay autostart: a replay that turned itself on ends with its reason.
* Trimmer: the chunks partition the video, saved edits are not lost, the preview
  shows what is kept, a scrub ends with its page.
* Trim export: what is encoded is what the page shows; a finished export stays.
* Caches: what is shown stays, one encoder writes a file at a time, a request ends.
* Settings: a visit without an edit changes nothing; a page shows the controls that
  apply; a start reads what was saved.

## 2. Plan

The order follows how much depends on a part: the overlay's sessions first, then what
reaches them from outside, then the parts with threads, files and locks, then the pages.

1. `Overlay`, with `Capture` as what it promises and `OverlayCapture` as the
   refinement mapping.
2. `Rpc`, where other processes reach the main loop, and `RecentVideos`, where a
   thread does.
3. `KeyboardHelper`, the keys a user types while hotkeys are bound; `HotkeySettings`,
   the other end of its pipe; `Joystick`.
4. `Trimmer`, the timeline, its page, the preview and the player; `VideoProxy`,
   `Thumbnails` and `Export`.
5. `ReplayAutostart` with the game tracker and the power supply.
6. `Settings`, `ConfigFile` and `WebcamBox`.

All of these are written and checked, and the safety properties of each are proved
(section 5).  What could follow in the model: clipboard transfers, the region selector's
pointer, `SafeVector`.

## 3. The modules

Two conventions hold everywhere.  A definition whose comment begins with *Faulty
variant* is the same step with a mistake in it; no specification uses it, and a
property of a passing run fails when it stands in for the step.  Variables marked
*history* record the past for a property and are read by no action.

### Overlay, Capture, OverlayCapture

The main loop is one process, so a frame is a sequence of phases in `pc`, in the
order of `handle_events` and `draw`; every handler of a command, hotkey or click is
one action at the phase in which the code can call it.  `ToggleReplay`,
`ToggleRecord(force)`, `ToggleStream`, `TakeScreenshot(force)`, `TogglePause` and
`SaveReplay` are the `on_press_...` functions with all they call; `Press` decides
between starting now and asking for a selection first (`start_region`,
`start_window`, `on_region_selected`), and `TakeSelection` runs the request the
selection was made for.  `ProcessGsrOutput`, `UpdateGsrProcessStatus` and
`UpdateScreenshotProcessStatus` are the frame's looks at the children.
gpu-screen-recorder is external: a record with its state, the `SIGRTMIN` and
`SIGUSR1` it has not handled and whether a recording runs inside the session; it
handles signals, writes lines and ends at any time.

`Capture` is what the program promises in five variables: one session at a time,
begun unpaused, never replaced without having ended, nothing started during a
selection.  `OverlayCapture` maps the overlay to it: the session is the status while
a process is known, its life is the child's.

### Rpc

`polls` is the array of descriptors and `i` the index of the walk over it, so that
clients connect, write and close between any two slots, as they do between two
system calls.  `Poll` fixes `revents` for the round; `Accept` and `HandleClient` act
on what was seen then, at the state of now, which is what makes the walk
interesting.  `RemoveSlot` moves the last slot over the removed one and looks at the
same index again.  A command fits in one read; its name does not matter here, only
how often it was executed.

### RecentVideos

Two processes, `main` and `loader`, with a program counter each and the lock of the
file between them.  `RecentInit` is the constructor of `Overlay`, which starts the first
load.  The file may fail to be opened or read, and a write may be cut short, either
unnoticed, when it is closed, or with a report, after which the code starts no load.
`shown` is the front page, with which entries had a thumbnail when it was built.

### KeyboardHelper

Three parties: the user and the kernel (`Emit`, `Plug`, `Unplug`, `Steal`), the
helper (one action per kind of event that is read), and gsr-ui's commands.  The
kernel's rules are those the helper relies on, and are external: a queue per reader
that is replaced by `SYN_DROPPED` when it is full, a grab that hides a device from
everyone else, a virtual keyboard that ignores a press of a key that is down.
Because events wait in the queue, all that the helper knows is late, and the grab it
takes may be too.  `key_presses_grabbed` is modelled bit by bit, since `set_bit` is
given a bit's number where it takes a mask (`BitsOf`).  `Timer` is the check after
1.5 seconds; its guard says that the helper has by then read what there was to read.

### Trimmer

One thread runs the pages and the player, so a handler of an event or a frame is one
step; `Now` is the player's part of the state as a record, and the calls (`SeekTo`,
`PlayOn`, `SkipDisabledChunks`, `BegunScrub`, ...) are operators from a record to a
record, composed in the order in which the code calls them and written back by
`Become`.  `Notified` is the callback that tells the page of a changed state, and the
page's answer, `SkipDisabledChunks`, is part of the same step.  mpv is external: it
plays, does a seek at a time of its own (`MpvSeekDone`) and pauses at the end.
`Libmpv` sends one seek at a time and remembers the latest other (`pending`).  The
page's copy of the playback state is that of the player after each notification and
so is the same variable.

`CloseTrimmer` saves the chunks, and is also what hiding the overlay does; `Crash` may
leave the old file or one that was cut short.  `Durations` has more than one value
since the preview may be of a proxy whose length is another than at the last visit.

### VideoProxy

A page has a main thread (`OpenPage`, `Frame`, `ClosePage`, `JoinWorker`) and a worker
with a program counter, and each page may be of a program of its own: pages share only
the files of the cache and the `flock`s on them.  Locks are not variables but read off
from who holds a descriptor (`Sharers`, `Exclusive`): a worker, a page's map, or an
ffmpeg, which inherits the descriptor of the worker that started it and keeps the lock
when that program is killed.  The guard file's lock makes each operation on a proxy's
lock one step.  `ffmpeg` and mpv are external: the one ends with or without a file, of
which a part may remain, the other loads a file some frames after it was told to.

### Thumbnails

The same for the timeline, but a directory is locked without a guard and an exchange of
the lock's mode gives up the mode it has (`Upgrade`, `UpgradeFails`), so the second look
(`Recheck`) counts.  What `thumbnail_mutex` protects is the record `timeline`; the
worker's own variables are `painter`.  All timelines are of one video, so a directory
goes by the duration, and durations grow, as they do while mpv learns them.  Where another
timeline's purge has removed the directory that a worker is about to clear, the program
of the worker ends (`ProgramEnds`): the directory is walked by an iterator that throws.

### Joystick

The thread that polls is `reader` with the index `at` into `polled`, the thread that
closes is `closer`, and the main thread is `owner`, which either takes flags and calls
actions or is at a step of the destructor.  Descriptors are numbered as they are opened,
the event's first.  The destructor closes the event's while its entry is still in
`polled`, whose descriptors `JoinReader` hands on to be closed, so this one is closed again.
`owed` is a history: what was asked for since the last call of its action began.
The lost wakeup of the destructor is in the model, where the thread that closes
waits for good; that is why no property asks for the end of the program.

### Settings, WebcamBox, HotkeySettings, ConfigFile

`Settings` follows one of the four pages.  What the system offers (`env`) may be another
at each visit; `Open` builds the page, loads the configuration with all handlers it
sets off, in the order of `load_common`, and `Close` saves it.  Selecting an item
that a control does not have leaves it as it is, which is how `set_selected_item` works and
what makes a saved choice go away.  Options with the same rules are one option.  An entry
keeps what is typed within its limit, `Most`.  A new page selects a capture source by name
(`SelectsArea`), or else runs the handler with no name (`NamedArea`), whatever its box
shows; a camera's setup is its rank in the list
that `sort_camera_setup` sorts, and the lowest one is the first.

`WebcamBox` is one axis of the camera's box: events change what is dragged, each frame
moves and clamps, saving turns pixels to per cent.  `HotkeySettings` is the choice of a
hotkey, with the hotkeys unbound while it lasts, and the pipe to the helper, which is
replaced and reads late.  `ConfigFile` is a start's reading of a file of the old format
or of JSON, the upgrade, and a save that is cut short; an option stands for each kind
of value and for each option with an upgrade of its own.

### Export

The page's controls are a record, and each choice is an operator on it that does what the
handlers do to the other controls; `StartExport` is `start_export` with
`start_trimmer_export`, its refusals in their order.  A job is a script that runs in the
background: it makes a part of the output, finishes or fails, removes its files, and
announces the result, with other jobs in between.  Files are named by the second.
Encoders, containers and ffmpeg are external: a host is what they support.  A size is its
two sides; `TargetSize` rounds each and makes it even, and is applied once for the page
(`EstimatedBitrate`) and twice for the encoder (`RateControl`), as in the code.

### ReplayAutostart

Processes start programs and end; the kernel queues their events and may drop some,
which `overrun` tells the tracker, as `ENOBUFS` does.  `ScanProcess`, `ReceiveEvent` and
`SweepDeadGames` are the tracker with its table and count; `remove_game_by_slot` is
called with a process number in a sweep, as the code does.  `Frame` is what a frame
does: it reads a line, looks at the child, the power supply and the last action, and
begins a selection.  Of the overlay's session its kind is kept, and who started it.
`swept` and `excused` are histories: the exceptions of the properties.

### MC modules that join components

`MCPages`, `MCCaches`, `MCServices` and `MCFrames` each join components that share no
variable.  A behaviour follows one of them, chosen in the first state (`part`), and the
others rest; the reachable states are the sum, not the product, of the components'.
Fairness of a component that rests is that of steps that are not enabled.

## 4. What the runs check

| run | module | shows |
| --- | --- | --- |
| `overlay_session` | `MCOverlay` | status, pids and children agree; no child is lost; `Overlay` implements `Capture`; a dead child is reaped, a closed overlay disappears, exit ends everything |
| `overlay_select` | `MCOverlay` | with selections: the input has one owner, Escape is bound exactly while a request waits, nothing is requested meanwhile |
| `services` | `MCServices` | what must be served is: a controller's press, by a call that begins after it, a client's command, the main loop's waits for the loader; every descriptor of the joystick thread but the event's is closed exactly once, slots and connections correspond, a connection is closed after its command was executed |
| `frames` | `MCFrames` | what a frame takes from threads and helpers: the file, the list, the thumbnails and the page agree; a replay that turned itself on for a game or with the power supply does not outlast its reason |
| `keyboard_safe` | `MCKeyboardHelper` | keys that share no byte: none is stuck, no modifier is remembered that nobody holds |
| `keyboard_live` | `MCKeyboardHelper` | with devices that vanish and overflow: a quiet keyboard is grabbed in the end; a stolen virtual keyboard is noticed |
| `trimmer` | `MCTrimmer` | the chunks partition the video; saved edits are refused only when they do not fit; a scrub ends with its page; the preview skips what is not kept |
| `caches` | `MCCaches` | what is played or drawn stays, an encoder has its file to itself, each request for a proxy or for thumbnails ends |
| `pages` | `MCPages` | a visit without an edit keeps the configuration, the controls shown are those that apply, the camera's box stays inside, buttons, configuration and helper have the same hotkeys, a start reads the last complete save, an export is made as shown and stays |

Each of the other runs checks one sentence of the repository and finds a behaviour
of the code against it:

| run | the sentence | what happens |
| --- | --- | --- |
| `phantom_stream` | the branch at `Overlay.cpp:3060` | the line that a recording inside a stream has ended is read, and the recording still counts as running |
| `keyboard_stuck` | `gsr-global-hotkeys/README.md:2` | the release of a key is withheld because a hotkey of the same byte is held |
| `game_exited` | `gsr-game-tracker/main.c:37` and the comment on lost events | after a sweep the count of games is too low, and the last game is said to have exited while one runs |

Other differences between what the code does and what is written, or what its author
seems to want, were met on the way and have no run of their own.

* Overlay: `record_area_option` is read again after a selection and may have changed,
  against the assertions at `RegionSelectorX11.cpp:509` and `:517`; `replay_recording`
  survives a session that ended while the overlay was hidden (`gsr-ui-cli/main.c:69`);
  the line of an ended recording also ends, for the overlay, one begun after it
  (`main.c:71`); a language change in the frame of the close builds the pages again
  (`Overlay.cpp:2009`); stopping a session drops the lines its child has written.
* Command server: a failed `accept4` takes a slot that is never freed, so that a client
  may be refused while no other is connected (`Rpc.hpp:9`).
* Keyboard helper: the release of a hotkey may be written, ignored by the kernel, missed
  and reported as a grab (`gsr-global-hotkeys/README.md:30`); the count of pressed keys
  is late by the events that wait and leaves out a device that came with a key held
  (`keyboard_event.c:466`); a device that reuses a number before the old descriptor hung
  up is taken for the one that is gone (`keyboard_event.h:4`).
* Joystick: the destructor closes the event's descriptor and then, with those of `poll_fd`, the
  same number again, which may by then be another file's
  (`GlobalHotkeysJoystick.cpp:57` to 60 and 70 to 73); a combination acts on the state of all
  controllers together, and a button that was held when its controller was unplugged stays held,
  so what `GlobalSettingsPage.cpp:500` tells the user is not all that acts; a removal while the
  descriptors are walked shifts the events of the next; the destructor may wait for good
  (`GlobalHotkeysJoystick.cpp:59`).
* Replay autostart: a session that ends by itself counts as ended by hand, after which
  games do not start the replay until it is toggled (`Overlay.cpp:2921`); a line of the
  tracker that comes during a selection is forgotten.
* Recent videos: a write that is cut short and reported leaves a list that is not the file's
  until something else starts a load (`Utils.cpp:308`, `Overlay.cpp:2726` and 3052), and a file
  that cannot be opened is taken for an empty one and overwritten (`RecentVideos.cpp:88`).
* Settings: where neither a monitor nor the portal nor a window can be recorded, a new page
  shows the focused window as selected but not the size of its area, and shows the
  resolution's box instead (`SettingsPage.cpp:1141`), which `ShownIsCurrent` excepts; a saved
  item that is not offered is replaced by the first one when the page
  is left; a camera's format is written before the old configuration is copied, so
  `on_config_changed` misses it; a box saved in mid-drag may lie outside 0 to 100
  (`Config.hpp`, at `webcam_x`).  While a host has inputs but no output, a row with an
  output is saved as `device:`, and the next visit shows it as the first microphone
  (`SettingsPage.cpp:1971` and 1811): `UneditedVisitKeepsConfig` fails on such a host, and
  the theorem about it assumes that there is none.
* Configuration file: an empty file is taken for one of the old format and loses the
  audio tracks; a file cut short gives the defaults.
* Export: the size that was scaled to a preset is scaled to itself once more for a hardware
  encoder (`ExportPage.cpp:795` to 798, `TrimmerExport.cpp:402` to 409), and since each side is
  made even, it may shrink: 1920x1080 at 854x480 is shown and encoded as 852x480 with the
  bitrate of 852x478, which is never more than the one of the page's estimate; two exports
  within a second share path, script and list; for a host whose
  capabilities are unknown VAAPI is offered without a device.
* Caches: a directory that another program purges while a worker waits for it ends the
  worker's program, by an exception that nobody catches (`TimelineWidget.cpp:217` to 222,
  called at 782 and 806); a part of a proxy is taken for a proxy; a failed exchange of a
  lock may leave a worker that fills a directory without one.
* Trimmer: a page that is closed in the frame between the length becoming known and
  `load_state` saves one whole chunk over the edits of an earlier visit.

### Bounds

* `Overlay`: `Commands` chooses the commands of a run; `overlay_session` has all that
  concern sessions, `overlay_select` those that select.  `Areas` are the values of
  `record_area_option` that differ in what they do: a monitor, a region, a window,
  the portal.  `MaxOut` and `MaxToggles` bound the lines a child has written and the
  signals it has not handled; two of each let a line of one recording meet a press
  for the next.  `pages` is bounded by the depth the code reaches.
* `Rpc`: three clients for two slots, so that slots move, run out and are reused; a
  client that is done comes back as a new one.
* `RecentVideos`: two videos and a list of two in `frames`, so that a video is listed
  again or moves; one video in `services`, whose question is who waits for whom.
* `KeyboardHelper`: two keyboards, in `keyboard_live` for one descriptor; two keys, of
  one or of two bytes; `QueueSize` events per queue; `Faults` chooses what goes wrong
  in a run: a device is unplugged, refuses a grab, overflows, or the virtual keyboard
  is taken.  `NumBound` stops a counter that drifts while nothing reads it.
* `Trimmer`: a preview of one or of two frames (`Durations`, `FrameMs`), so that a
  chunk may begin between frames, hold none, or hold the last one only; `MaxChunks`
  two, since a cut makes two of one and what is skipped is one of them, before or
  behind; two positions to scrub to, one within a frame.  Seeks to the start of the
  chunks and to their last millisecond come from the preview itself.  For more cuts,
  longer videos and all frame rates there are the proofs.
* `VideoProxy` and `Thumbnails`: two pages of two videos and a cache for one proxy, two
  timelines of two durations and a cache for one directory, so that each purge has a
  victim that another may hold; `MaxPages` and `MaxTimelines` let one be opened again
  after another closed; `MaxCrashes` is one killed program.
* `Joystick`: two devices, one of them a controller; four descriptors, the event's, the
  hotplug socket's and two that are opened for devices, so that a controller returns; four
  changes of buttons or plugs (`MaxChanges`): the home button, a press, a release and a press
  again are the least for a press during the call of the press before.  Devices are plugged
  and unplugged among the first two of them (`MaxPlugs`).
* `ReplayAutostart`: two processes, since a second game is what keeps the first one's end
  from being the last; a table of two; three changes and one lost event.  `frames`
  starts with the replay set to turn itself on and with the power supply connected.
* `Settings`: a host that offers everything, one that offers little, one whose devices
  are gone and one that offers only the focused window and a region, two configurations per
  page, two edits per behaviour and two tracks; a number is typed as
  nothing, below what is allowed or above what the entries of time, size and frame rate
  keep.  No host has inputs without an output, where `UneditedVisitKeepsConfig` does not
  hold (section 4).
* `WebcamBox`: a screen of ten, a camera of fifteen, percentages in fifths, pointers left
  of, on and right of the screen.  `HotkeySettings`: two actions, two keys of which one
  needs a modifier, and a pipe of seven commands, which is more than one rebinding.
* `ConfigFile`: files that are absent, empty, of the old format with bad values or without
  most options, and of JSON; four new values and three saves.
* `Export`: five hosts (one without capabilities, one that refuses an audio codec), three
  videos (one without a frame rate, one without a size and a bitrate), three choices of which
  exports are one each, two exports, two seconds.  The videos are of 1920x1080, and the
  preset is 854x480, at which the second scaling changes the size.

### Fairness

All of it is weak fairness, and none is assumed where only safety is checked.

* `overlay_session`: the main loop goes on, and gpu-screen-recorder handles its signals;
  nothing is assumed of the user, of selections or of the child's exit.
* `services`: the server's loop goes on, nothing of the clients; the main loop and the
  loader thread go on, whose children `ffprobe` and `ffmpeg` end; the main loop takes the
  flags of the joystick, and nothing is assumed of the other two threads, which
  `PressIsServed` does not need.
* `caches`: worker threads are scheduled, frames are drawn, a closed page joins its worker,
  and an encoder ends.  `PreviewIsDecided` and `RequestEnds` hold under these although a
  worker polls for a lock, since whoever holds it ends; the one exception, a timeline
  whose ffmpeg failed and which keeps its lock, is named in `RequestEnds`.  A request
  also ends with its program, when another's purge ends that.
* `keyboard_live`: each descriptor that is ready is handled, which the loop over all of
  them in `keyboard_event_poll_events` provides, and the timer runs;
  `QuietKeyboardIsGrabbed` only speaks of keyboards that are left alone.

`CHECK_DEADLOCK FALSE` stands where the program can end or rest: `Overlay` after the exit
command, the caches after their last page or timeline, which `MaxPages` and
`MaxTimelines` bound.

## 5. What is proved

Every invariant of the passing runs is a theorem for every value of the constants, and so
are the refinement of `Capture` and the action properties `NoEditsRejected`,
`SkipsDisabled`, `RestartIsWhole`, `ReleasedBoxIsInside` and `UneditedVisitKeepsConfig`.
Each proof has an inductive invariant, one step per action, and lemmas about the operators
the actions are composed of.

* `OverlayProofs`: `IInv == SessionInv /\ UiInv` is inductive.  `SessionInv` adds to
  the agreement of status, pids and children what makes it survive a step: a child
  that is not there has no signals, the number of children is that of the pids, and a
  paused flag belongs to a recording.  From it follow `TypeOK`, `SessionHasItsChild`,
  `NoOrphanedChild` and `OnlyRecordingIsPaused`.  `SelectInv`, on top of it, is about
  the input and Escape.  Last, every step of `Overlay` is a step of `Capture` or leaves
  its variables alone, hence `Spec => ImplementsCapture`.
* `ServicesProofs`, the command server: `IInv` joins the slots, the backlog and what was
  seen of a slot.  `SeenIsTrue` is the part that is not obvious: a hang-up that `Poll`
  saw is still one when the slot is reached, and what is unread then was there to be
  read; without it nothing forbids closing a connection whose command was not executed.
  The controllers: `FdInv` says that each descriptor that was opened is in exactly one
  place: in the table of the reading thread, on its way to the thread that closes, or
  closed.  The event's alone is in the table and closed from the moment the destructor has
  closed it.  So no other is closed twice, although two threads and a destructor close them.
* `TrimmerProofs`: the first half is lemmas about operators: a cut and a join keep
  chunks contiguous with the same end (`SplitIsContiguous`, `JoinIsContiguous`), and
  every call of the player keeps `Sound`, which ties the position to the length, the
  length to mpv's, and a scrub to a known length.  `IInv` joins `Sound` with the
  chunks, the page's copy of the length, and a file that is empty, torn or contiguous.
  The argument is that a length is learnt once (`Learns`): chunks that are within the
  video stay so, and chunks from a file were compared with the length before they were
  taken.  From it follow `TypeOK`, `ChunksPartition`, the action property
  `NoEditsRejected` and, since every way to leave a page ends its scrub,
  `ScrubHasItsPage`.  `PreviewInv`, on top of it, is about what the preview shows:
  `Steady` says that mpv is at the end only where no later frame is, that a player which
  is scrubbed is paused, and that a seek waits only behind another; `PlaysKept` that a
  player which plays, in the preview, is taken to be at a chunk that is kept.  So a frame
  that hears nothing new needs to skip nothing, and one that does either seeks or, at
  the end of the video, plays on from its start: then a chunk that is kept begins after
  the last frame, the exception that `SkipsDisabled` names.
* `CachesProofs`: for proxies, `ProxyInv` says of every encoder and every page that the
  encoder writes for the page's worker or else keeps it from looking (`KeepsOut`), also
  when the program that started it was killed; and of a page that its lock lasts as long
  as its proxy is published (`Sound`).  For thumbnails, `ThumbnailsInv` says what each
  step of the painter holds (`TimelineOK`) and that an exclusive lock excludes
  (`LocksExclude`), also where an exchange of modes has failed and a lock is "lost".
* `FramesProofs`: of the recent videos, `ReadInv` says that what the thread has read, and
  the list it published, have their thumbnails, and `ListInv` where the list is the file
  and where it may lag behind: while a load works, when none was started for what the file
  became, or when it could not read it.  `PowerInv` is about the battery alone; `TableInv` (the
  tracker's count is the size of its table, its last line is what the table says) and
  `LinesInv` (what the overlay has done is what the last line it read says) together
  carry the end of the last game from the kernel to the overlay.
* `KeyboardProofs`: `TypeInv` and `ModifiersInv`, then `VirtualInv`, whose part
  `ReleasedLast` says that a key which is up again has its release as the last of its
  events in the queue; so whatever is pressed on the virtual keyboard is released.  The
  theorems state what they need.  `NothingIsLost`: no keyboard is unplugged and no queue
  overflows, after which what is held is not known (a hazard without a property).
  `OnlyKeyboards`: no device that is suspected to be a mouse, since one that moves is
  given up with its keys.  `BitsDoNotMeet`: no key sets the bit of another, which two
  keys of one byte may do; `keyboard_stuck` shows that it is needed.
* `PagesProofs`:
  * settings: `SettingsInv` says that a page is `Good`: each part of what is shown follows
    from the choice it depends on, and each track's warning from its rows.  The lemmas say
    which controls and which fields a handler touches (`Touches`, `SameBut`), since
    loading is a chain of handlers of which each must leave alone what the earlier ones
    have settled.  On a system where no source is selected by name the size of the area may
    stay hidden, and the theorem says no more there than that it is not shown in vain.
  * visits: `VisitInv` says that what was saved is `Settled`, so that a page of the same
    system offers each choice in it and keeps each number, and that an open page
    `WillSettle`, whatever is edited.  Loading a settled configuration and saving it is
    shown to give the same one part by part: choices, numbers, tracks and their rows, and
    the camera, whose handlers write format and setup back as they read them.  Loading
    any configuration, and each edit, gives a page that will settle, and saving such a
    page gives a settled configuration.  The hypothesis of `UneditedVisits`,
    `InputsNeedOutputs`, excludes the one corner where it is false (section 4).
  * hotkeys: what the helper's table will be once it has read its pipe, `Outcome`, is
    defined without recursion: the last command that unbinds decides which entries last.
    Lemmas say what appending an unbinding, appending bindings and reading a command do
    to it.  `HotkeyInv` says that the outcome is the entries of `boundIds`; that is what
    makes it safe to send nothing when `boundIds` is empty, and with it that `boundIds`
    is complete whenever no hotkey is being chosen.
  * the camera's box: it is never both longer than the screen and begun inside it, and
    the same is true of what is saved of it in per cent (`BoxInv`).  The second half is
    the part to prove: rounding treats the length that is too much as it treats the
    beginning that is missing (`ToPercentsNotBeyond`), so a box that is saved in the
    middle of a drag and loaded again comes back into the screen with the first frame.
  * the configuration file: `FileInv` says what the file is after a save and after one
    that was cut short; the step to prove is that reading a current file upgrades
    nothing in it.
  * exports: `PageInv` says that the bitrate the page shows is the one last typed or the
    one its other choices imply.  For a preset of quality the encoder's bitrate is that of
    the size scaled twice: a size with even sides that is fitted into itself does not grow
    (`FittedAgain`), and rounding and products keep the order, so it is at most the
    estimate's, and the same where the size stays (`QualityAgain`).  `FilesInv` says that a job
    which was alone with its path still is, and that names outnumber exports,
    so that one is always free.
* `SequenceLemmas`: what the operators of the community modules do to a sequence: which
  elements it has after `RemoveAt`, `RemoveFirst`, `Append` or a concatenation, and that
  it still lists each once.  The other modules cite them.

The assumptions are named in the modules, and are what the code gives.
`OverlayAssumption`: the bounds are positive.  `RpcAssumption`, `ClientsAssumption`: there
is a slot, and a client is neither the listener nor no descriptor.  `RecentAssumption`: the
list has room.  `KeyboardAssumption`: keys are numbers, a hotkey is a key with modifiers.
`TrimmerAssumption`: lengths, frames and distances are positive.  `ProxyAssumption`,
`ThumbnailsAssumption`: no recording is the missing one, and durations are bounded by a
number.  `JoystickAssumption`: finitely many devices, 0 standing for none.
`HotkeyAssumption`: finitely many actions, whose default hotkeys differ.
`WebcamBoxAssumption`: lengths are positive.  `ConfigAssumption`: a file is of a format
that was ever written, and the pages set every option, none to a value that only an
upgrade reads.  `SettingsAssumption`: a configuration has its parts, its lists are lists
and its numbers are integers.  `SystemAssumption`: a device is an output or an input, and
a camera's setup has a rank.  `ExportAssumption`: what a video says of itself
and what is typed are natural numbers, and sizes, the presets' too, pairs of them.

Only model-checked are

* liveness, for which the prover has no rule: `ClosedOverlayHides`, `DeadChildIsReaped`,
  `ExitEnds`, `PressIsServed`, `EveryClientIsServed`, `MainProceeds`,
  `PreviewIsDecided`, `RequestEnds`, `QuietKeyboardIsGrabbed`, `StolenIsReported`;
* the runs that find a violation.

## 6. What is not modelled

`PROJECT.json` lists every part with its status.  Not modelled: widgets, drawing and
layout; the vendored JSON parser; capabilities, theme and translations, which are read
once; queries of windows and cursors, which only choose where a window is shown; the X11
variant of the hotkeys; the notification child and the LED indicator, on which nothing
depends; the launch of a second instance, which is told apart by the socket; the
clipboards, whose transfers are ordered by the display server and the requestors; and the
containers of widgets, of which one thread removes and iterates.

Within the modelled parts, the text of commands, file formats, and what a session records
are left out; the thread that closes descriptors in the keyboard helper only delays
`close`.  Of the trimmer, zoom and scrolling other than as a scrub are left out, and so is
that the preview ends: its state space is too large for the liveness check, which needs
fair seeks and frames.  Of the game tracker, what makes a program a game is one bit of
the process.  Of the export, the parsing of ffprobe's answers and the quoting of arguments
are left out.
