------------------------------ MODULE Settings ------------------------------
(***************************************************************************)
(* The settings pages of the overlay: replay, record, livestream and       *)
(* screenshot.  A page is built from what the system offers at that moment *)
(* (capture options, codecs, cameras, audio devices), loads the            *)
(* configuration into its controls, and saves the controls back when it is *)
(* left.  A control keeps only what it offers, and some handlers write to  *)
(* the configuration while the page is still loading.                      *)
(*                                                                         *)
(* A behaviour follows the page of one type.  Widths and heights have the  *)
(* same rules, so one number stands for both; the checkboxes that no other *)
(* control depends on are one, "option"; a camera setup is its rank in the *)
(* list, which is sorted by area and rate, and 0 when none was chosen.     *)
(***************************************************************************)
EXTENDS Integers, Sequences, SequencesExt

CONSTANTS Types,            \* the types of page followed
          Environments,     \* what the system can offer when a page is opened
          Configs(_),       \* the configurations a page of a type starts with
          Outputs,          \* the audio devices that are outputs
          Numbers,          \* what is typed into a number entry; 0: emptied
          MaxTracks,        \* bound on the audio tracks of a page
          MaxEdits          \* bound on the edits of a behaviour

NoPage == [none |-> TRUE]
NoEnvironment == [none |-> TRUE]

\* The most that the entry of a number keeps.
Most == [area_size |-> 32768, resolution |-> 32768, fps |-> 500, bitrate |-> 500000,
         replay_time |-> 86400]

\* A configuration has the flag that decides what is shown, and lists.
ASSUME SettingsAssumption ==
    /\ Types \subseteq {"replay", "record", "stream", "screenshot"}
    /\ \A t \in Types : \A c \in Configs(t) :
         /\ DOMAIN c = {"sel", "num", "flags", "tracks", "camera"}
         /\ "change_resolution" \in DOMAIN c.flags
         /\ c.tracks \in Seq(ToSet(c.tracks))
         /\ \A track \in ToSet(c.tracks) : track.inputs \in Seq(ToSet(track.inputs))
         /\ DOMAIN c.num \subseteq DOMAIN Most /\ \A field \in DOMAIN c.num : c.num[field] \in Int
         /\ DOMAIN c.camera = {"source", "format", "setup"}

\* A device is an output or an input, and a setup has a rank.
ASSUME SystemAssumption ==
    /\ Numbers \subseteq Int /\ "" \notin Outputs
    /\ \A e \in Environments :
         /\ e # NoEnvironment
         /\ e.outputs \in Seq(Outputs)
         /\ e.inputs \in Seq(ToSet(e.inputs)) /\ ToSet(e.inputs) \cap Outputs = {}
         /\ \A camera \in DOMAIN e.cameras :
              e.cameras[camera].yuyv \cup e.cameras[camera].mjpeg \subseteq Nat

VARIABLES type,             \* the page this behaviour follows
          env,              \* what the system offers now
          config,           \* the page's part of the configuration
          page,             \* the open page, or NoPage
          edited,           \* a control was changed since the page was opened
          edits,            \* edits so far
          savedIn           \* what the system offered at the last save

settingsVars == <<type, env, config, page, edited, edits, savedIn>>

First(items) == IF items = <<>> THEN "" ELSE items[1]
Offers(items, id) == id \in ToSet(items)
Some(condition, items) == IF condition THEN items ELSE <<>>

-----------------------------------------------------------------------------
(* What the controls offer.                                                *)

\* create_record_area_box: what the system can capture, in its order.
AreaItems(e) ==
    Some("window" \in e.capture, <<"window">>)
    \o Some("focused" \in e.capture /\ type # "screenshot", <<"focused">>)
    \o Some("region" \in e.capture, <<"region">>)
    \o Some(e.monitors # <<>>, <<"focused_monitor">>) \o e.monitors
    \o Some("portal" \in e.capture, <<"portal">>)

\* add_widgets: whether a capture source is selected for a new page, its name,
\* and the source that the page shows before it loads.
SelectsArea(e) == e.monitors # <<>> \/ "portal" \in e.capture \/ "window" \in e.capture
NamedArea(e) ==
    IF e.monitors # <<>> THEN "focused_monitor"
    ELSE IF "portal" \in e.capture THEN "portal"
    ELSE IF "window" \in e.capture THEN "window"
    ELSE ""
DefaultArea(e) == IF SelectsArea(e) THEN NamedArea(e) ELSE First(AreaItems(e))

VideoCodecItems(e) ==
    <<"auto">> \o SelectSeq(<<"h264", "hevc", "hevc_10bit", "hevc_hdr", "av1", "av1_10bit",
                              "av1_hdr", "vp8", "vp9", "h264_software">>,
                            LAMBDA c : c \in e.codecs)

QualityItems == <<"custom", "medium", "high", "very_high", "ultra">>
ImageQualityItems == <<"medium", "high", "very_high", "ultra">>
ImageFormatItems(e) == SelectSeq(<<"jpg", "png">>, LAMBDA f : f \in e.images)
ContainerItems == <<"mp4", "matroska", "flv", "mov">>
StreamContainerItems == <<"mp4", "flv", "mpegts", "hls">>
ServiceItems(e) ==
    <<"twitch", "youtube", "rumble", "kick">> \o Some(e.whip, <<"whip">>) \o <<"custom">>
StartupItems == <<"dont_turn_on_automatically", "turn_on_at_system_startup", "turn_on_at_game_launch">>
OrganizeItems == <<"no", "yes", "yes_only_games">>

\* add_replay_widgets, add_record_widgets, add_stream_widgets and
\* ScreenshotSettingsPage::create_settings: the boxes of each page.
CommonBoxes == {"area", "quality", "codec", "audio_codec", "range", "framerate", "view"}
ReplayBoxes == CommonBoxes \cup {"container", "storage", "startup", "folders"}
RecordBoxes == CommonBoxes \cup {"container", "folders"}
StreamBoxes == CommonBoxes \cup {"container", "service"}
ScreenshotBoxes == {"area", "quality", "format", "folders"}

Boxes == CASE type = "replay"     -> ReplayBoxes
           [] type = "record"     -> RecordBoxes
           [] type = "stream"     -> StreamBoxes
           [] type = "screenshot" -> ScreenshotBoxes

BoxItems(e, box) ==
    CASE box = "area"        -> AreaItems(e)
      [] box = "quality"     -> IF type = "screenshot" THEN ImageQualityItems ELSE QualityItems
      [] box = "codec"       -> VideoCodecItems(e)
      [] box = "audio_codec" -> <<"opus", "aac">>
      [] box = "range"       -> <<"limited", "full">>
      [] box = "framerate"   -> <<"auto", "cfr", "vfr", "content">>
      [] box = "view"        -> <<"simple", "advanced">>
      [] box = "container"   -> IF type = "stream" THEN StreamContainerItems ELSE ContainerItems
      [] box = "storage"     -> <<"ram", "disk">>
      [] box = "startup"     -> StartupItems
      [] box = "folders"     -> OrganizeItems
      [] box = "service"     -> ServiceItems(e)
      [] box = "format"      -> ImageFormatItems(e)

DefaultQuality == IF type \in {"replay", "stream"} THEN "custom" ELSE "very_high"

-----------------------------------------------------------------------------
(* Numbers.                                                                *)

Sized(n) == IF n = 0 THEN 1920 ELSE IF n < 32 THEN 32 ELSE n
AtLeast(low, n) == IF n < low THEN low ELSE n

\* What load makes of a number of the configuration before it shows it.
LoadedNumber(field, n) ==
    CASE field \in {"area_size", "resolution"} -> Sized(n)
      [] field \in {"fps", "bitrate"} -> AtLeast(1, n)
      [] field = "replay_time" -> IF n > 86400 THEN 86400 ELSE AtLeast(2, n)

\* What save makes of the number in an entry.
SavedNumber(field, n) ==
    CASE field \in {"area_size", "resolution"} -> Sized(n)
      [] field \in {"fps", "bitrate"} -> AtLeast(1, n)
      [] field = "replay_time" -> AtLeast(5, n)

-----------------------------------------------------------------------------
(* Handlers.  A handler takes the page p and the configuration c, in one   *)
(* record s, because the handlers of the camera change both.               *)

Show(p, controls, on) == [p EXCEPT !.shown = IF on THEN @ \cup controls ELSE @ \ controls]

\* Faulty variant: the handler of the source ignores the checkbox.
AreaPickedUnchecked(p, id) ==
    LET q == Show(Show(p, {"portal"}, id = "portal"), {"resolution"}, id # "focused")
    IN  IF type = "screenshot" THEN q
        ELSE Show(Show(q, {"area_size"}, id = "focused"), {"change_resolution"}, id # "focused")

\* record_area_box_ptr->on_selection_changed.
AreaPicked(p, id) ==
    LET q == Show(p, {"portal"}, id = "portal")
    IN  IF type = "screenshot"
          THEN Show(q, {"resolution"}, q.flags.change_resolution)
          ELSE Show(Show(Show(q, {"area_size"}, id = "focused"),
                         {"resolution"}, id # "focused" /\ q.flags.change_resolution),
                    {"change_resolution"}, id # "focused")

\* change_video_resolution_checkbox_ptr->on_changed.
ResolutionChecked(p, checked) ==
    Show(p, {"resolution"}, checked /\ (type = "screenshot" \/ p.sel.area # "focused"))

\* video_quality_box_ptr->on_selection_changed.
QualityPicked(p, id) ==
    Show(p, {"bitrate"} \cup (IF type \in {"replay", "record"} THEN {"file_size"} ELSE {}),
         id = "custom")

\* streaming_service_box_ptr->on_selection_changed.
ServicePicked(p, id) ==
    LET keyed == {"twitch", "youtube", "rumble"}
        other == {"kick", "whip", "custom"}
        shown == {id} \cup (IF id \in keyed THEN {"key_list"} ELSE {})
    IN  Show(Show(p, keyed \cup other \cup {"key_list"}, FALSE), shown, TRUE)

\* view_changed, with set_application_audio_options_visible for every track.
ViewPicked(p, id) ==
    LET q == Show(p, {"color_range", "audio_codec", "codec", "framerate"}, id = "advanced")
    IN  [q EXCEPT !.tracks = [i \in DOMAIN @ |->
            [@[i] EXCEPT !.app_options = id = "advanced" /\ env.app_audio]]]

Kinds(track) == {track.rows[j].kind : j \in DOMAIN track.rows}

\* update_application_audio_warning_visibility.
WarningsUpdated(p) ==
    [p EXCEPT !.tracks = [i \in DOMAIN @ |->
        [@[i] EXCEPT !.warning = /\ "output" \in Kinds(p.tracks[i])
                                 /\ \/ Kinds(p.tracks[i]) \cap {"app", "custom"} # {}
                                    \/ p.tracks[i].invert]]]

\* webcam_video_setup_box_ptr->on_selection_changed.
SetupPicked(s, setup) ==
    [s EXCEPT !.p.setup = setup, !.p.camera_setup = setup, !.c.camera.setup = setup]

\* The setups of a camera for a format; the lowest rank is the first of them.
SetupsOf(camera, format) ==
    CASE format = "yuyv"  -> env.cameras[camera].yuyv
      [] format = "mjpeg" -> env.cameras[camera].mjpeg
      [] format = "auto"  -> env.cameras[camera].yuyv \cup env.cameras[camera].mjpeg

\* A box of setups that is filled selects the first, which writes it to the
\* configuration.
SetupsFilled(s, setups) ==
    LET listed == [s EXCEPT !.p.setups = setups, !.p.setup = 0]
    IN  IF setups = {} THEN listed ELSE SetupPicked(listed, Min(setups))

\* webcam_video_format_box_ptr->on_selection_changed: the setups of the format
\* are offered, and the one that was configured is selected when it is one.
FormatPicked(s, format) ==
    LET t      == [s EXCEPT !.p.format = format, !.c.camera.format = format]
        setups == SetupsOf(s.p.source, format)
        first  == SetupsFilled(t, setups)
    IN  IF s.p.source \notin DOMAIN env.cameras THEN t
        ELSE IF s.c.camera.setup \in setups THEN SetupPicked(first, s.c.camera.setup)
        ELSE first

\* webcam_sources_box_ptr->on_selection_changed: "auto" is selected first,
\* then the format that was configured, when the camera has it.
SourcePicked(s, source) ==
    LET t == [s EXCEPT !.p.source = source, !.p.camera = "", !.p.camera_setup = 0,
                       !.p.formats = <<>>, !.p.format = ""]
        formats == <<"auto">> \o Some(env.cameras[source].yuyv # {}, <<"yuyv">>)
                              \o Some(env.cameras[source].mjpeg # {}, <<"mjpeg">>)
        auto == FormatPicked([t EXCEPT !.p = Show([@ EXCEPT !.formats = formats],
                                                  {"webcam_body"}, TRUE)], "auto")
        restored == IF Offers(formats, s.c.camera.format)
                      THEN FormatPicked(auto, s.c.camera.format) ELSE auto
    IN  IF source = "" THEN [t EXCEPT !.p = Show(@, {"webcam_body"}, FALSE)]
        ELSE [restored EXCEPT !.p.camera = source]

-----------------------------------------------------------------------------
(* Audio tracks.                                                           *)

DeviceItems(kind) == IF kind = "output" THEN env.outputs ELSE env.inputs
DeviceKind(device) == IF device \in Outputs THEN "output" ELSE "input"

\* create_audio_device: a row shows the first device of its kind.
DeviceRow(kind) == [kind |-> kind, id |-> First(DeviceItems(kind))]

\* create_application_audio, create_custom_application_audio.
AppRow == IF env.apps = <<>> THEN [kind |-> "custom", id |-> ""]
          ELSE [kind |-> "app", id |-> env.apps[1]]

\* create_audio_track_section.
NewTrack(p) == [rows |-> <<>>, invert |-> FALSE, warning |-> FALSE,
                app_options |-> p.sel.view = "advanced" /\ env.app_audio]

\* load_audio_tracks, one input: the row that shows it.
LoadedRow(input) ==
    IF input.kind = "app"
      THEN [kind |-> IF Offers(env.apps, input.id) THEN "app" ELSE "custom", id |-> input.id]
      ELSE LET row == DeviceRow(DeviceKind(input.id))
           IN  [row EXCEPT !.id = IF Offers(DeviceItems(row.kind), input.id) THEN input.id ELSE @]

\* An application is left out when the system cannot record it.
LoadedTrack(p, track) ==
    LET rows  == {j \in DOMAIN track.inputs : track.inputs[j].kind = "app" => env.app_audio}
        at(n) == CHOOSE j \in rows : Cardinality({i \in rows : i <= j}) = n
    IN  [NewTrack(p) EXCEPT !.rows = [n \in 1 .. Cardinality(rows) |-> LoadedRow(track.inputs[at(n)])],
                            !.invert = track.invert]

\* load_audio_tracks: a livestream has exactly one track.
TracksLoaded(p, tracks) ==
    LET all    == [i \in DOMAIN tracks |-> LoadedTrack(p, tracks[i])]
        stream == IF all = <<>> THEN <<NewTrack(p)>> ELSE <<all[1]>>
    IN  WarningsUpdated([p EXCEPT !.tracks = IF type = "stream" THEN stream ELSE all])

\* Faulty variant: an application that is not running is forgotten.
SavedTracksRunning(p) ==
    [i \in DOMAIN p.tracks |->
        [invert |-> p.tracks[i].invert,
         inputs |-> [j \in DOMAIN p.tracks[i].rows |->
            LET row == p.tracks[i].rows[j]
            IN  [kind |-> IF row.kind = "app" THEN "app" ELSE "device", id |-> row.id]]]]

\* save_audio_tracks.
SavedTracks(p) ==
    [i \in DOMAIN p.tracks |->
        [invert |-> p.tracks[i].invert,
         inputs |-> [j \in DOMAIN p.tracks[i].rows |->
            LET row == p.tracks[i].rows[j]
            IN  [kind |-> IF row.kind \in {"app", "custom"} THEN "app" ELSE "device",
                 id |-> row.id]]]]

-----------------------------------------------------------------------------
(* The page.                                                               *)

\* add_widgets and add_replay_widgets, add_record_widgets or
\* add_stream_widgets: the controls before the configuration is loaded.  Where
\* no source is selected, the handler is called with no name, and the box shows
\* its first item.
NewPage(c) ==
    LET sel   == [box \in Boxes |->
                    CASE box = "area"    -> DefaultArea(env)
                      [] box = "quality" -> DefaultQuality
                      [] OTHER           -> First(BoxItems(env, box))]
        p     == [sel |-> sel, num |-> c.num, flags |-> [c.flags EXCEPT !.change_resolution = FALSE],
                  tracks |-> <<>>, source |-> "", camera |-> "", camera_setup |-> 0,
                  formats |-> <<>>, format |-> "", setups |-> {}, setup |-> 0,
                  shown |-> {"change_resolution"}]
        area  == AreaPicked(p, NamedArea(env))
    IN  IF type = "screenshot" THEN area
        ELSE ViewPicked(IF type = "stream" THEN ServicePicked(QualityPicked(area, sel.quality), "twitch")
                        ELSE QualityPicked(area, sel.quality), "simple")

\* set_selected_item of every box: one that does not offer the item stays as it
\* was; the handlers run in the order of load_common.
Kept(c, box) == Offers(BoxItems(env, box), c.sel[box])
SelectionsLoaded(p, c) ==
    [p EXCEPT !.sel = [box \in Boxes |-> IF Kept(c, box) THEN c.sel[box] ELSE p.sel[box]]]
AreaLoaded(p, c) == IF Kept(c, "area") THEN AreaPicked(p, c.sel.area) ELSE p
FlagsLoaded(p, c) == ResolutionChecked([p EXCEPT !.flags = c.flags], c.flags.change_resolution)
QualityLoaded(p, c) == IF Kept(c, "quality") THEN QualityPicked(p, c.sel.quality) ELSE p
ViewLoaded(p) == ViewPicked(p, p.sel.view)
ServiceLoaded(p, c) ==
    IF type = "stream" /\ Kept(c, "service") THEN ServicePicked(p, c.sel.service) ELSE p

BoxesLoaded(p, c) ==
    LET chosen == FlagsLoaded(AreaLoaded(SelectionsLoaded(p, c), c), c)
    IN  IF type = "screenshot" THEN chosen
        ELSE ServiceLoaded(ViewLoaded(TracksLoaded(QualityLoaded(chosen, c), c.tracks)), c)

\* ScreenshotSettingsPage::load, and load_common without the camera.
LoadedScreenshot(c) ==
    LET num == [f \in DOMAIN c.num |-> LoadedNumber(f, c.num[f])]
    IN  [p |-> [BoxesLoaded(NewPage(c), c) EXCEPT !.num = num], c |-> [c EXCEPT !.num = num]]

\* The boxes of the camera; the handlers of one set the next before it is loaded.
SourceLoaded(s) ==
    IF s.c.camera.source \in {""} \cup DOMAIN env.cameras THEN SourcePicked(s, s.c.camera.source) ELSE s
FormatLoaded(s) ==
    IF Offers(s.p.formats, s.c.camera.format) THEN FormatPicked(s, s.c.camera.format) ELSE s
SetupLoaded(s, setup) == IF setup \in s.p.setups THEN SetupPicked(s, setup) ELSE s

\* load_common and load_replay, load_record or load_stream: the page and the
\* configuration after it is loaded.
LoadedVideo(c) ==
    SetupLoaded(FormatLoaded(SourceLoaded(LoadedScreenshot(c))), c.camera.setup)

\* load_stream: a service that is not offered is replaced before its box is loaded.
OfferedService(c) ==
    IF type = "stream" /\ c.sel.service = "whip" /\ ~env.whip
      THEN [c EXCEPT !.sel.service = "twitch"] ELSE c

Loaded(c) == IF type = "screenshot" THEN LoadedScreenshot(c) ELSE LoadedVideo(OfferedService(c))

\* ScreenshotSettingsPage::save: the configuration the controls stand for.
SavedScreenshot(p, c) ==
    [c EXCEPT !.sel = p.sel, !.flags = p.flags,
              !.num = [f \in DOMAIN p.num |-> SavedNumber(f, p.num[f])]]

\* save_common and save_replay, save_record or save_stream.
SavedVideo(p, c) ==
    [SavedScreenshot(p, c) EXCEPT !.tracks = SavedTracks(p), !.camera.source = p.source]

Saved(p, c) == IF type = "screenshot" THEN SavedScreenshot(p, c) ELSE SavedVideo(p, c)

-----------------------------------------------------------------------------
SettingsInit ==
    /\ type \in Types
    /\ config \in Configs(type)
    /\ env \in Environments
    /\ page = NoPage /\ edited = FALSE /\ edits = 0 /\ savedIn = NoEnvironment

\* Monitors, cameras, devices and applications come and go between visits.
SystemChanges ==
    /\ page = NoPage
    /\ env' \in Environments \ {env}
    /\ UNCHANGED <<type, config, page, edited, edits, savedIn>>

Open ==
    /\ page = NoPage
    /\ \E s \in {Loaded(config)} : page' = s.p /\ config' = s.c
    /\ edited' = FALSE
    /\ UNCHANGED <<type, env, edits, savedIn>>

\* The user changes a control of the open page; s is the page and the
\* configuration after the control's handlers.
Edited(s) ==
    /\ edits < MaxEdits
    /\ edits' = edits + 1 /\ edited' = TRUE
    /\ page' = s.p /\ config' = s.c
    /\ UNCHANGED <<type, env, savedIn>>

Current == [p |-> page, c |-> config]
EditedPage(p) == Edited([Current EXCEPT !.p = p])

\* An item of a box is selected.
Pick(box, id) ==
    /\ page # NoPage /\ page.sel[box] # id
    /\ LET p == [page EXCEPT !.sel[box] = id]
       IN  EditedPage(CASE box = "area"    -> AreaPicked(p, id)
                        [] box = "quality" /\ type # "screenshot" -> QualityPicked(p, id)
                        [] box = "service" -> ServicePicked(p, id)
                        [] box = "view"    -> ViewPicked(p, id)
                        [] OTHER -> p)

Toggle(flag) ==
    /\ page # NoPage
    /\ LET p == [page EXCEPT !.flags[flag] = ~@]
       IN  EditedPage(IF flag = "change_resolution"
                        THEN ResolutionChecked(p, p.flags[flag]) ELSE p)

\* A number is typed, and its entry keeps it within its limit.
TypeNumber(field, n) ==
    /\ page # NoPage
    /\ EditedPage([page EXCEPT !.num[field] = IF n > Most[field] THEN Most[field] ELSE n])

\* create_add_audio_track_button: not on the livestream page.
AddTrack ==
    /\ page # NoPage /\ type \in {"replay", "record"} /\ Len(page.tracks) < MaxTracks
    /\ EditedPage([page EXCEPT !.tracks = Append(@, NewTrack(page))])

RemoveTrack(i) ==
    /\ type # "stream"
    /\ EditedPage([page EXCEPT !.tracks = RemoveAt(@, i)])

WithRows(i, rows) == [page EXCEPT !.tracks[i].rows = rows]

\* The buttons of a track; adding an input device leaves the warnings alone.
AddOutput(i) == EditedPage(WarningsUpdated(WithRows(i, Append(page.tracks[i].rows, DeviceRow("output")))))
AddInput(i) == EditedPage(WithRows(i, Append(page.tracks[i].rows, DeviceRow("input"))))
AddApp(i) ==
    /\ page.tracks[i].app_options
    /\ EditedPage(WarningsUpdated(WithRows(i, Append(page.tracks[i].rows, AppRow))))
RemoveRow(i, j) == EditedPage(WarningsUpdated(WithRows(i, RemoveAt(page.tracks[i].rows, j))))
Invert(i) ==
    /\ page.tracks[i].app_options
    /\ EditedPage(WarningsUpdated([page EXCEPT !.tracks[i].invert = ~@]))

\* Another device or application is selected in a row; "Custom..." turns
\* the row into an entry.
PickDevice(i, j, id) ==
    LET row == page.tracks[i].rows[j]
    IN  /\ row.kind \in {"output", "input"} /\ Offers(DeviceItems(row.kind), id) /\ id # row.id
        /\ EditedPage(WithRows(i, [page.tracks[i].rows EXCEPT ![j].id = id]))
PickCustom(i, j) ==
    /\ page.tracks[i].rows[j].kind = "app"
    /\ EditedPage(WithRows(i, [page.tracks[i].rows EXCEPT ![j] = [kind |-> "custom", id |-> ""]]))

EditTracks ==
    \/ AddTrack
    \/ /\ page # NoPage
       /\ \E i \in DOMAIN page.tracks :
            \/ RemoveTrack(i) \/ AddOutput(i) \/ AddInput(i) \/ AddApp(i) \/ Invert(i)
            \/ \E j \in DOMAIN page.tracks[i].rows :
                 \/ RemoveRow(i, j) \/ PickCustom(i, j)
                 \/ \E id \in ToSet(env.outputs) \cup ToSet(env.inputs) : PickDevice(i, j, id)

PickSource(source) ==
    /\ page.source # source
    /\ Edited(SourcePicked(Current, source))
PickFormat(format) ==
    /\ Offers(page.formats, format) /\ page.format # format
    /\ Edited(FormatPicked(Current, format))
PickSetup(setup) ==
    /\ page.setup # setup
    /\ Edited(SetupPicked(Current, setup))

EditCamera ==
    /\ page # NoPage /\ type # "screenshot"
    /\ \/ \E source \in DOMAIN env.cameras \cup {""} : PickSource(source)
       \/ \E format \in {"auto", "yuyv", "mjpeg"} : PickFormat(format)
       \/ \E setup \in page.setups : PickSetup(setup)

\* on_navigate_away_from_page: the page is left and the file written.
Close ==
    /\ page # NoPage
    /\ config' = Saved(page, config)
    /\ page' = NoPage /\ savedIn' = env /\ edited' = FALSE
    /\ UNCHANGED <<type, env, edits>>

SettingsNext ==
    \/ SystemChanges \/ Open \/ Close \/ EditTracks \/ EditCamera
    \/ \E box \in Boxes : \E id \in ToSet(BoxItems(env, box)) : Pick(box, id)
    \/ \E flag \in DOMAIN config.flags : Toggle(flag)
    \/ \E field \in DOMAIN config.num, n \in Numbers : TypeNumber(field, n)

SettingsSpec == SettingsInit /\ [][SettingsNext]_settingsVars

-----------------------------------------------------------------------------
\* A visit without an edit changes nothing that a visit saved before while
\* the system offered the same, although loading selects items, and the
\* handlers of the camera write to the configuration while it loads
\* (src/src/gui/SettingsPage.cpp, load_common and save_common).
UneditedVisitKeepsConfig ==
    [][/\ page # NoPage => (page' = NoPage /\ ~edited /\ savedIn = env => config' = config)
       /\ page = NoPage /\ savedIn = env => config' = config]_settingsVars

\* What the page shows for a track.
TrackIsCurrent(track) ==
    /\ track.warning <=> /\ \E j \in DOMAIN track.rows : track.rows[j].kind = "output"
                         /\ \/ \E j \in DOMAIN track.rows : track.rows[j].kind \in {"app", "custom"}
                            \/ track.invert
    /\ track.app_options <=> page.sel.view = "advanced" /\ env.app_audio

\* A control is shown exactly while the choices it depends on apply, and the
\* warning about recording an application twice exactly while a track mixes
\* the two, in whatever order the page was loaded and edited.  One exception:
\* the size of the area may be hidden although the focused window is selected,
\* where a page selects no capture source by name (SettingsPage.cpp, add_widgets).
ShownIsCurrent ==
    page # NoPage =>
        /\ "resolution" \in page.shown <=>
             page.flags.change_resolution /\ (type = "screenshot" \/ page.sel.area # "focused")
        /\ "portal" \in page.shown <=> page.sel.area = "portal"
        /\ type # "screenshot" =>
             /\ "area_size" \in page.shown => page.sel.area = "focused"
             /\ page.sel.area = "focused" /\ SelectsArea(env) => "area_size" \in page.shown
             /\ "bitrate" \in page.shown <=> page.sel.quality = "custom"
             /\ "codec" \in page.shown <=> page.sel.view = "advanced"
             /\ "webcam_body" \in page.shown <=> page.source # ""
             /\ \A i \in DOMAIN page.tracks : TrackIsCurrent(page.tracks[i])
        /\ type = "stream" =>
             \A service \in ToSet(ServiceItems(env)) : service \in page.shown <=> page.sel.service = service
=============================================================================
