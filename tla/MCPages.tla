------------------------------- MODULE MCPages -------------------------------
(***************************************************************************)
(* The pages that change the configuration or write files, in one run: a   *)
(* behaviour follows one of them, and the others rest as they started.     *)
(* They share no variable.                                                 *)
(***************************************************************************)
EXTENDS Settings, WebcamBox, HotkeySettings, ConfigFile, Export

VARIABLE part  \* the module this behaviour follows

pagesVars == <<part, settingsVars, boxVars, hotkeyVars, configVars, exportVars>>

-----------------------------------------------------------------------------
(* What the system offers, and the configurations. *)

Full == [capture |-> {"window", "focused", "region", "portal"}, monitors |-> <<"DP-1">>,
         codecs |-> {"h264", "hevc"}, images |-> {"jpg", "png"}, whip |-> TRUE, app_audio |-> TRUE,
         cameras |-> [video0 |-> [yuyv |-> {3}, mjpeg |-> {1, 2}]],
         outputs |-> <<"default_output", "hdmi">>, inputs |-> <<"default_input">>, apps |-> <<"firefox">>]
Less == [capture |-> {"window"}, monitors |-> <<>>, codecs |-> {"h264"}, images |-> {"jpg"}, whip |-> FALSE,
         app_audio |-> FALSE, cameras |-> [none \in {} |-> {}],
         outputs |-> <<"default_output">>, inputs |-> <<"default_input">>, apps |-> <<>>]
Down == [Full EXCEPT !.monitors = <<>>, !.outputs = <<>>, !.inputs = <<>>, !.apps = <<>>]
Focused == [Less EXCEPT !.capture = {"focused", "region"}]

Common == [area |-> "focused_monitor", quality |-> "custom", codec |-> "hevc", audio_codec |-> "opus",
           range |-> "limited", framerate |-> "auto", view |-> "advanced"]
Sel(t) == CASE t = "replay" -> Common @@ [container |-> "mp4", storage |-> "ram", startup |-> "turn_on_at_game_launch", folders |-> "no"]
            [] t = "record" -> Common @@ [container |-> "mp4", folders |-> "no"]
            [] t = "stream" -> Common @@ [container |-> "flv", service |-> "whip"]
            [] t = "screenshot" -> [area |-> "portal", quality |-> "high", format |-> "png", folders |-> "no"]
Num(t) == CASE t = "replay" -> [area_size |-> 0, resolution |-> 3, fps |-> 60, bitrate |-> 0, replay_time |-> 3]
            [] t = "screenshot" -> [resolution |-> 0]
            [] OTHER -> [area_size |-> 0, resolution |-> 3, fps |-> 60, bitrate |-> 0]
Base(t) == [sel |-> Sel(t), num |-> Num(t), flags |-> [change_resolution |-> TRUE, option |-> FALSE],
            tracks |-> <<[invert |-> FALSE, inputs |-> <<[kind |-> "plain", id |-> "default_output"]>>]>>,
            camera |-> [source |-> "", format |-> "auto", setup |-> 0]]
Used(t) == [Base(t) EXCEPT
            !.sel.area = "focused",
            !.tracks = <<[invert |-> FALSE, inputs |-> <<[kind |-> "device", id |-> "hdmi"], [kind |-> "app", id |-> "firefox"]>>],
                         [invert |-> TRUE, inputs |-> <<[kind |-> "device", id |-> "default_input"]>>]>>,
            !.camera = [source |-> "video0", format |-> "mjpeg", setup |-> 2]]
MCConfigs(t) == IF t = "screenshot" THEN {Base(t)} ELSE {Base(t), Used(t)}
MCEnvironments == {Full, Less, Down, Focused}

MCPointers == {-3, 4, 9, 17}

MCDefaults == ("record" :> [key |-> "F9", modifiers |-> {"alt"}]) @@ ("show" :> [key |-> "Z", modifiers |-> {"alt"}])

Old == [Default(TRUE) EXCEPT !.version = 2, !.in_folder = TRUE, !.startup = "turn_on_at_fullscreen", !.area = "window"]
MCOldFiles == {File("absent", Old, {}, {}), File("empty", Old, {}, {}),
               File("lines", Old, Options, {"fps", "hotkey"}), File("lines", Old, {"version", "in_folder"}, {}),
               File("json", Old, Options \ {"area"}, {"tracks"})}
MCNewValues == {[Default(TRUE) EXCEPT !.fps = 30, !.organize = o, !.in_folder = TRUE, !.tracks = t] :
                  o \in {"no", "yes_only_games"}, t \in {<<>>, <<"mic">>}}

-----------------------------------------------------------------------------
(* Hosts and videos of the export. *)

Soft == {<<c, "software">> : c \in Codecs}
Vaapi == {<<c, "vaapi">> : c \in Codecs} \cup {<<c, "vulkan">> : c \in {"h264", "hevc", "av1"}}
Fits == ({"mp4", "matroska"} \X {"aac", "opus"}) \cup {<<"mov", "aac">>, <<"webm", "opus">>}
Host(vendor, card, standard, vulkan, enc) ==
    [vendor |-> vendor, card |-> card, render |-> card, standard |-> standard, vulkan |-> vulkan,
     encoders |-> Soft \cup enc, audio |-> {"aac", "opus"}, fits |-> Fits]
MCHosts == {Host("amd", TRUE, {"h264", "hevc"}, {"av1"}, Vaapi), Host("nvidia", TRUE, {"h264"}, {}, {<<"h264", "nvenc">>}),
            Host("intel", FALSE, {"vp9"}, {}, Vaapi),
            Host("amd", TRUE, {"vp9"}, {}, Vaapi), [Host("other", FALSE, {}, {}, {}) EXCEPT !.audio = {"aac"}]}
Video(container, codec, audio, fps, bitrate) ==
    [container |-> container, codec |-> codec, audio |-> audio, fps |-> fps, bitrate |-> bitrate,
     size |-> <<1920, 1080>>, selected |-> TRUE]
MCVideos == {Video("matroska", "h264", "opus", 60, 500), Video("mp4", "vp9", "aac", 0, 8),
             [Video("webm", "", "", 30, 0) EXCEPT !.size = <<0, 0>>]}
MCResolutions == {<<0, 0>>, <<854, 480>>}

-----------------------------------------------------------------------------
\* What is chosen for a part that rests.
PagesInit ==
    /\ part \in {"settings", "box", "hotkeys", "file", "export"}
    /\ SettingsInit
    /\ part # "settings" => type = "replay" /\ config = Base("replay") /\ env = Full
    /\ BoxInit
    /\ part # "box" => pointer = 4 /\ savedBox = [pos |-> 0, size |-> 0]
    /\ HotkeyInit
    /\ part # "hotkeys" => running
    /\ ConfigInit
    /\ part # "file" => configFile = File("empty", Old, {}, {})
    /\ ExportInit
    /\ part # "export" => host.vendor = "nvidia" /\ video.container = "webm"

PagesNext ==
    \/ part = "settings" /\ SettingsNext
       /\ UNCHANGED <<part, boxVars, hotkeyVars, configVars, exportVars>>
    \/ part = "box" /\ BoxNext
       /\ UNCHANGED <<part, settingsVars, hotkeyVars, configVars, exportVars>>
    \/ part = "hotkeys" /\ HotkeyNext
       /\ UNCHANGED <<part, settingsVars, boxVars, configVars, exportVars>>
    \/ part = "file" /\ ConfigNext
       /\ UNCHANGED <<part, settingsVars, boxVars, hotkeyVars, exportVars>>
    \/ part = "export" /\ ExportNext
       /\ UNCHANGED <<part, settingsVars, boxVars, hotkeyVars, configVars>>

PagesSpec == PagesInit /\ [][PagesNext]_pagesVars

=============================================================================
