------------------------------- MODULE Export -------------------------------
(***************************************************************************)
(* The export page of the trimmer and the exports it starts: which         *)
(* encoders the host offers, how the page's choices follow one another,    *)
(* which requests are refused, and the shell scripts that run ffmpeg in    *)
(* the background, several of them at a time, on files that are named by   *)
(* the second.                                                             *)
(*                                                                         *)
(* A size is its width and its height, and what C++ computes in doubles is *)
(* computed exactly; scripts and lists are their names.                    *)
(***************************************************************************)
EXTENDS Integers, FiniteSets, Sequences, SequencesExt, FiniteSetsExt

CONSTANTS Hosts,        \* what the host can encode
          ExportVideos,       \* the videos that are exported
          Resolutions,  \* the presets, as sizes; <<0, 0>>: the size of the source
          Bitrates,     \* what is typed as a bitrate; 0: emptied
          Framerates,   \* what is typed as a frame rate; 0: not a number
          MaxChoices,   \* bound on the choices of a behaviour; an export counts as one
          MaxExports,   \* bound on the exports of a behaviour
          MaxSecond     \* bound on the clock

VARIABLES host, video,
          exportPage,   \* the boxes and entries of the page, or NoExport
          choices,
          second,       \* the clock that names files
          jobs,         \* the exports that were started
          lists, scripts,
          outputs,      \* path -> "part" or "whole"
          announced     \* the paths gsr-notify has called exported

ASSUME ExportAssumption ==
    /\ MaxExports \in Nat /\ MaxSecond \in Nat
    /\ Bitrates \subseteq Nat /\ Framerates \subseteq Nat
    /\ Resolutions \subseteq Nat \X Nat
    /\ \A v \in ExportVideos : v.size \in Nat \X Nat /\ v.fps \in Nat /\ v.bitrate \in Nat

exportVars == <<host, video, exportPage, choices, second, jobs, lists, scripts, outputs, announced>>

NoExport == [none |-> TRUE]
Codecs == {"h264", "hevc", "av1", "vp9", "vp8"}

-----------------------------------------------------------------------------
(* What can be encoded. *)

VulkanUsable(codec) == host.render /\ codec \in host.vulkan

\* request_has_video_codec_capabilities.
HasCapabilities == host.standard # {} \/ host.vulkan # {}

\* get_video_encoder_candidates: the backends for a codec, best first.
Hardware(codec) ==
    Append(CASE host.vendor = "nvidia" /\ codec \in {"h264", "hevc", "av1"} -> <<"nvenc">>
             [] host.vendor \in {"amd", "intel"}                            -> <<"vaapi">>
             [] OTHER                                                       -> <<>>,
           "vulkan")
Candidates(codec) ==
    IF codec = "h264_software" THEN <<"software">>
    ELSE SelectSeq(Hardware(codec), LAMBDA b : b # "vulkan" \/ VulkanUsable(codec)) \o <<"software">>

Family(codec) == IF codec = "h264_software" THEN "h264" ELSE codec

\* candidate_is_usable, with or without what the encoder needs to run.
Usable(codec, backend, runtime) ==
    /\ <<Family(codec), backend>> \in host.encoders
    /\ HasCapabilities =>
         /\ backend = "vulkan" => VulkanUsable(codec)
         /\ backend \in {"nvenc", "vaapi"} => codec \in host.standard
    /\ runtime /\ backend = "vaapi" => host.card

\* resolve_video_encoder: the first candidate that can be used.
UsableCandidates(codec, software, runtime) ==
    SelectSeq(Candidates(codec),
              LAMBDA b : (software \/ b # "software") /\ Usable(codec, b, runtime))
Encodes(codec, software, runtime) == UsableCandidates(codec, software, runtime) # <<>>

\* host_supports_video_codec, host_supports_hardware_video_codec.
HostEncodes(codec) == Encodes(codec, TRUE, HasCapabilities)
HardwareEncodes(codec) == Encodes(codec, FALSE, HasCapabilities)

SupportsVideo(container, codec) ==
    CASE container = "webm" -> codec \in {"vp8", "vp9", "av1"}
      [] container = "mp4"  -> codec \in {"h264", "hevc", "av1"}
      [] container = "mov"  -> codec \in {"h264", "hevc"}
      [] OTHER              -> TRUE

\* host_supports_audio_codec_in_container: ffmpeg is tried.
ProbesAudio(container, codec) == codec \in host.audio /\ <<container, codec>> \in host.fits

SupportsAudio(container, codec) ==
    CASE container = "webm" -> codec = "opus"
      [] container = "mov"  -> codec = "aac"
      [] OTHER              -> ProbesAudio(container, codec)

SupportsAudioReencode(container, codec) ==
    IF container = "webm" THEN codec = "opus" ELSE ProbesAudio(container, codec)

\* The first that is wanted, "" when there is none.
FirstIn(items, wanted) ==
    LET found == SelectSeq(items, LAMBDA i : i \in wanted) IN IF found = <<>> THEN "" ELSE Head(found)

\* get_default_audio_codec_for_container.
DefaultAudio(container) ==
    CASE container = "webm" -> IF "opus" \in host.audio THEN "opus" ELSE ""
      [] container = "mov"  -> FirstIn(<<"aac", "opus">>, {c \in {"aac", "opus"} : SupportsAudioReencode(container, c)})
      [] OTHER              -> FirstIn(<<"opus", "aac">>, {c \in {"aac", "opus"} : SupportsAudioReencode(container, c)})

\* choose_default_video_codec for "auto" with re-encoding: hardware first.
Preferred(container) ==
    CASE container = "webm" -> <<<<"av1", FALSE>>, <<"vp9", FALSE>>, <<"vp8", FALSE>>,
                                 <<"vp9", TRUE>>, <<"vp8", TRUE>>, <<"av1", TRUE>>>>
      [] OTHER -> LET order == SelectSeq(<<"h264", "hevc", "av1", "vp9", "vp8">>,
                                         LAMBDA c : container # "mov" \/ c # "av1")
                  IN  [i \in 1..Len(order) |-> <<order[i], FALSE>>] \o [i \in 1..Len(order) |-> <<order[i], TRUE>>]
AutoCodec(container) ==
    LET usable == SelectSeq(Preferred(container), LAMBDA o : Encodes(o[1], o[2], HasCapabilities))
    IN  IF usable = <<>> THEN "" ELSE Head(usable)[1]

ChosenCodec(container, codec, reencode) ==
    CASE codec = "auto" /\ ~reencode /\ video.codec # "" -> video.codec
      [] codec = "auto"                                  -> AutoCodec(container)
      [] codec = "h264_software"                         -> "h264"
      [] OTHER                                           -> codec

-----------------------------------------------------------------------------
(* The choices of the page. *)

\* create_video_codec_box, create_audio_codec_box.
VideoItems ==
    {"auto"} \cup {c \in Codecs : HostEncodes(c)} \cup
    {c \in {"h264_software"} : HardwareEncodes("h264") /\ HostEncodes(c)}
AudioItems == host.audio

ReencodesVideo(p) == p.reencodeVideo \/ ~SupportsVideo(p.container, video.codec)
ForcesAudio(p) == ~p.reencodeAudio /\ video.audio # "" /\ ~SupportsAudio(p.container, video.audio)
ReencodesAudio(p) == video.audio # "" /\ (p.reencodeAudio \/ ~SupportsAudio(p.container, video.audio))

\* update_reencode_options_visibility: a codec that does not fit is replaced.
VideoRefreshed(p) ==
    LET codec == AutoCodec(p.container)
    IN  IF /\ ReencodesVideo(p) /\ ~SupportsVideo(p.container, p.video)
           /\ codec # "" /\ SupportsVideo(p.container, codec) /\ codec \in VideoItems
          THEN [p EXCEPT !.video = codec] ELSE p
AudioRefreshed(p) ==
    LET codec == DefaultAudio(p.container)
    IN  IF /\ ReencodesAudio(p) /\ codec \in AudioItems
           /\ ForcesAudio(p) \/ ~SupportsAudioReencode(p.container, p.audio)
          THEN [p EXCEPT !.audio = codec] ELSE p
Refreshed(p) == AudioRefreshed(VideoRefreshed(p))

AtLeastOne(n) == Max({1, n})
Rounded(n, d) == (2 * n + d) \div (2 * d)
Known(size) == size[1] > 0 /\ size[2] > 0
Pixels(size) == size[1] * size[2]

\* get_scaled_video_size: into the preset without changing the shape, each
\* side rounded and then made even.
EvenSide(n) == Max({2, n - (n % 2)})
Fitted(size, preset) ==
    LET wide == preset[1] * size[2] <= preset[2] * size[1]
        Side(n) == EvenSide(IF wide THEN Rounded(n * preset[1], size[1])
                                    ELSE Rounded(n * preset[2], size[2]))
    IN  <<Side(size[1]), Side(size[2])>>
TargetSize(preset) ==
    IF \/ ~Known(preset) \/ ~Known(video.size)
       \/ preset[1] >= video.size[1] /\ preset[2] >= video.size[2]
      THEN video.size ELSE Fitted(video.size, preset)

\* scale_bitrate_for_resolution, scale_bitrate_for_fps: a size or a frame rate
\* that is not known scales nothing.
ForResolution(bitrate, resolution) ==
    IF ~Known(video.size) THEN bitrate
    ELSE AtLeastOne(Rounded(bitrate * Pixels(TargetSize(resolution)), Pixels(video.size)))
ForFramerate(bitrate, framerate) ==
    IF video.fps = 0 THEN bitrate
    ELSE AtLeastOne(Rounded(bitrate * Min({framerate, video.fps}), video.fps))
ScaledBitrate(resolution, framerate) ==
    ForFramerate(ForResolution(AtLeastOne(video.bitrate), resolution), framerate)

\* apply_selected_resolution_preset(false).
ResolutionApplied(p) ==
    IF p.quality # "custom" \/ p.manual \/ p.framerate = 0 THEN p
    ELSE [p EXCEPT !.bitrate = ScaledBitrate(p.resolution, p.framerate)]

\* apply_video_quality_preset(false).
QualityApplied(p) ==
    CASE p.quality # "custom" -> p
      [] p.quality = "custom" /\ p.manual /\ p.lastManual # 0 -> [p EXCEPT !.bitrate = p.lastManual]
      [] OTHER -> ResolutionApplied(p)

\* Faulty variant: the bitrate is not applied when the quality is "custom" again.
QualityChosenOnly(p, quality) == Refreshed([p EXCEPT !.quality = quality])

QualityChosen(p, quality) ==
    LET chosen == [p EXCEPT !.quality = quality]
    IN  Refreshed(IF quality = "custom" THEN QualityApplied(chosen) ELSE chosen)

\* apply_source_defaults, and the first look at the containers.
Selected(items, id, otherwise) == IF id \in items THEN id ELSE otherwise
SourceRate == IF video.fps > 0 THEN video.fps ELSE 60
NewExport ==
    Refreshed([container |-> video.container, resolution |-> <<0, 0>>, quality |-> "custom",
               video |-> Selected(VideoItems, video.codec, "auto"),
               audio |-> Selected(AudioItems, IF video.audio = "opus" THEN "opus" ELSE "aac",
                                  FirstIn(<<"aac", "opus">>, AudioItems)),
               reencodeVideo |-> FALSE, reencodeAudio |-> FALSE, advanced |-> FALSE,
               framerate |-> SourceRate, modified |-> video.fps = 0,
               bitrate |-> AtLeastOne(video.bitrate), manual |-> FALSE, lastManual |-> 0])

-----------------------------------------------------------------------------
ExportInit ==
    /\ host \in Hosts /\ video \in ExportVideos
    /\ exportPage = NoExport /\ choices = 0 /\ second = 0
    /\ jobs = <<>> /\ lists = {} /\ scripts = {}
    /\ outputs = [path \in {} |-> "part"] /\ announced = {}

\* The page is pushed by the trimmer, and popped by Cancel.
OpenExport ==
    /\ exportPage = NoExport /\ exportPage' = NewExport
    /\ UNCHANGED <<host, video, choices, second, jobs, lists, scripts, outputs, announced>>
CancelExport ==
    /\ exportPage # NoExport /\ exportPage' = NoExport
    /\ UNCHANGED <<host, video, choices, second, jobs, lists, scripts, outputs, announced>>

Choose(p) ==
    /\ choices + Len(jobs) < MaxChoices /\ choices' = choices + 1
    /\ exportPage' = p
    /\ UNCHANGED <<host, video, second, jobs, lists, scripts, outputs, announced>>

ChangeView ==
    /\ exportPage # NoExport
    /\ Choose(Refreshed([exportPage EXCEPT !.advanced = ~@]))

ChooseContainer(container) ==
    /\ exportPage # NoExport /\ exportPage.advanced
    /\ Choose(Refreshed([exportPage EXCEPT !.container = container]))

\* The check box is hidden while the container asks for it.
CheckVideo ==
    /\ exportPage # NoExport /\ SupportsVideo(exportPage.container, video.codec)
    /\ Choose(Refreshed([exportPage EXCEPT !.reencodeVideo = ~@]))
CheckAudio ==
    /\ exportPage # NoExport
    /\ Choose(Refreshed([exportPage EXCEPT !.reencodeAudio = ~@]))

ChooseQuality(quality) ==
    /\ exportPage # NoExport /\ ReencodesVideo(exportPage)
    /\ Choose(QualityChosen(exportPage, quality))

ChooseResolution(resolution) ==
    /\ exportPage # NoExport /\ ReencodesVideo(exportPage)
    /\ Choose(ResolutionApplied([exportPage EXCEPT !.resolution = resolution]))

ChooseVideoCodec(codec) ==
    /\ exportPage # NoExport /\ exportPage.advanced /\ ReencodesVideo(exportPage)
    /\ Choose([exportPage EXCEPT !.video = codec])
ChooseAudioCodec(codec) ==
    /\ exportPage # NoExport /\ exportPage.advanced /\ exportPage.reencodeAudio
    /\ Choose([exportPage EXCEPT !.audio = codec])

TypeBitrate(n) ==
    /\ exportPage # NoExport /\ ReencodesVideo(exportPage) /\ exportPage.quality = "custom"
    /\ Choose([exportPage EXCEPT !.bitrate = n, !.manual = TRUE, !.lastManual = n])

TypeFramerate(n) ==
    /\ exportPage # NoExport /\ exportPage.advanced /\ ReencodesVideo(exportPage)
    /\ Choose(QualityApplied([exportPage EXCEPT !.framerate = n, !.modified = n # SourceRate]))

-----------------------------------------------------------------------------
(* The export. *)

\* start_trimmer_export: the requests it refuses.
VideoRefused(p) ==
    LET codec == ChosenCodec(p.container, p.video, ReencodesVideo(p))
    IN  /\ ReencodesVideo(p)
        /\ \/ p.framerate = 0 \/ codec = "" \/ ~SupportsVideo(p.container, codec)
           \/ ~Encodes(IF p.video = "h264_software" THEN p.video ELSE codec, TRUE, TRUE)
AudioRefused(p) ==
    LET codec == IF p.audio = "" THEN DefaultAudio(p.container) ELSE p.audio
    IN  /\ ReencodesAudio(p)
        /\ codec \notin host.audio \/ ~SupportsAudioReencode(p.container, codec)

\* resolve_video_encoder of the request, when it is not refused.
Encoder(p) ==
    Head(UsableCandidates(IF p.video = "h264_software" THEN p.video
                          ELSE ChosenCodec(p.container, p.video, TRUE), TRUE, TRUE))

\* get_codec_efficiency_factor and get_quality_preset_multiplier_percent, in per cent.
Efficiency(codec) ==
    CASE codec = "av1" -> 62 [] codec = "hevc" -> 74 [] codec = "vp9" -> 82 [] codec = "vp8" -> 108
      [] OTHER -> 100
Multiplier(quality) ==
    CASE quality = "high" -> 140 [] quality = "very_high" -> 200 [] quality = "ultra" -> 280
      [] OTHER -> 100

\* estimate_quality_preset_video_bitrate_kbps.
QualityBitrate(codec, p, resolution) ==
    LET same == ScaledBitrate(resolution, p.framerate)
        recoded == AtLeastOne(Rounded(same * Efficiency(codec), Efficiency(video.codec)))
    IN  AtLeastOne((recoded * Multiplier(p.quality)) \div 100)

\* update_estimated_file_size: the bitrate of the size that the page shows.
EstimatedBitrate(p) ==
    CASE ~ReencodesVideo(p) -> video.bitrate
      [] ReencodesVideo(p) /\ p.quality = "custom" -> AtLeastOne(p.bitrate)
      [] OTHER -> QualityBitrate(ChosenCodec(p.container, p.video, TRUE), p, p.resolution)

\* append_video_rate_control_args: what the encoder is given.  A bitrate for
\* software is the text of the entry.  The request holds the size that was
\* scaled already, and it is scaled again.
RateControl(p) ==
    CASE Encoder(p) = "software" /\ p.quality = "custom" -> [mode |-> "bitrate", value |-> p.bitrate]
      [] Encoder(p) = "software" /\ p.quality # "custom" -> [mode |-> "quality", value |-> p.quality]
      [] Encoder(p) # "software" /\ p.quality = "custom" -> [mode |-> "bitrate", value |-> AtLeastOne(p.bitrate)]
      [] OTHER -> [mode |-> "bitrate",
                   value |-> QualityBitrate(ChosenCodec(p.container, p.video, ReencodesVideo(p)), p,
                                            TargetSize(p.resolution))]

\* should_override_fps.
EncodedRate(p) == IF p.modified /\ p.framerate # video.fps THEN p.framerate ELSE video.fps

\* start_export: the first name of this second that is not a file.
Path(suffix) == [second |-> second, suffix |-> suffix, container |-> exportPage.container]

\* Faulty variant: the files that exist are not looked at.
OutputPathFirst == Path(0)
OutputPath == Path(CHOOSE n \in 0..MaxExports :
                     /\ Path(n) \notin DOMAIN outputs
                     /\ \A k \in 0..(n - 1) : Path(k) \in DOMAIN outputs)

\* The list and the script are written under one name, and sh is started.
Job(path, now) ==
    [path |-> path, id |-> <<path, now>>, phase |-> "spawned",
     alone |-> \A j \in DOMAIN jobs : jobs[j].path # path \/ jobs[j].phase = "ended"]

StartExport ==
    /\ exportPage # NoExport /\ Len(jobs) < MaxExports
    /\ video.selected /\ ~VideoRefused(exportPage) /\ ~AudioRefused(exportPage)
    /\ \E now \in second..MaxSecond :
         LET job == Job(OutputPath, now)
         IN  /\ now <= second + 1
             /\ second' = now
             /\ jobs' = Append(jobs, job)
             /\ lists' = lists \cup {job.id} /\ scripts' = scripts \cup {job.id}
    /\ exportPage' = NoExport
    /\ UNCHANGED <<host, video, choices, outputs, announced>>

\* A file that cannot be written, or a process that does not start: what was
\* written is removed, also when it has the name of another export.
FailToStart ==
    /\ exportPage # NoExport
    /\ video.selected /\ ~VideoRefused(exportPage) /\ ~AudioRefused(exportPage)
    /\ LET id == Job(OutputPath, second).id
       IN  \E part \in {{}, {"list"}, {"list", "script"}} :
             /\ lists' = IF "list" \in part THEN lists \ {id} ELSE lists
             /\ scripts' = IF "script" \in part THEN scripts \ {id} ELSE scripts
    /\ UNCHANGED <<host, video, exportPage, choices, second, jobs, outputs, announced>>

\* sh opens the script, and its ffmpeg opens the list and the output.
RunScript(j) ==
    /\ jobs[j].phase = "spawned"
    /\ LET job == jobs[j]
           phase == CASE job.id \notin scripts -> "ended"
                      [] job.id \notin lists   -> "failing"
                      [] OTHER                 -> "encoding"
       IN  /\ jobs' = [jobs EXCEPT ![j].phase = phase]
           /\ outputs' = [path \in DOMAIN outputs \cup (IF phase = "encoding" THEN {job.path} ELSE {}) |->
                            IF path = job.path /\ phase = "encoding" THEN "part" ELSE outputs[path]]
    /\ UNCHANGED <<host, video, exportPage, choices, second, lists, scripts, announced>>

\* ffmpeg ends, and the script removes the list, says how it went and removes
\* itself; the output of a failure is removed.
EndScript(j, succeeded) ==
    /\ jobs[j].phase = "encoding" \/ (jobs[j].phase = "failing" /\ ~succeeded)
    /\ LET job == jobs[j]
       IN  /\ jobs' = [jobs EXCEPT ![j].phase = "ended"]
           /\ lists' = lists \ {job.id} /\ scripts' = scripts \ {job.id}
           /\ outputs' = IF succeeded
                           THEN [path \in DOMAIN outputs \cup {job.path} |->
                                    IF path = job.path THEN "whole" ELSE outputs[path]]
                           ELSE [path \in DOMAIN outputs \ {job.path} |-> outputs[path]]
           /\ announced' = IF succeeded THEN announced \cup {job.path} ELSE announced
    /\ UNCHANGED <<host, video, exportPage, choices, second>>

NextSecond ==
    /\ second < MaxSecond /\ second' = second + 1
    /\ UNCHANGED <<host, video, exportPage, choices, jobs, lists, scripts, outputs, announced>>

ExportNext ==
    \/ OpenExport \/ CancelExport \/ ChangeView \/ CheckVideo \/ CheckAudio
    \/ \E container \in {"mp4", "matroska", "webm", "mov"} : ChooseContainer(container)
    \/ \E quality \in {"custom", "high"} : ChooseQuality(quality)
    \/ \E resolution \in Resolutions : ChooseResolution(resolution)
    \/ \E codec \in VideoItems : ChooseVideoCodec(codec)
    \/ \E codec \in AudioItems : ChooseAudioCodec(codec)
    \/ \E n \in Bitrates : TypeBitrate(n)
    \/ \E n \in Framerates : TypeFramerate(n)
    \/ StartExport \/ FailToStart
    \/ \E j \in DOMAIN jobs : RunScript(j) \/ \E succeeded \in BOOLEAN : EndScript(j, succeeded)
    \/ NextSecond

ExportSpec == ExportInit /\ [][ExportNext]_exportVars

-----------------------------------------------------------------------------
\* However container, codec, quality, resolution, frame rate and bitrate were
\* changed, a bitrate that is used is the last one the user typed, or, if none
\* was, the source's scaled to the resolution and the frame rate that are shown;
\* and an export that is not refused is made at the shown frame rate and, unless
\* the entry was emptied, with the bitrate that the shown size is computed from,
\* or, for a quality preset, with less where making the scaled size even changes
\* it when it is scaled again, and never with more.
\* A source without a known frame rate may keep its own
\* (src/src/gui/ExportPage.cpp, apply_video_quality_preset and
\* update_estimated_file_size; src/src/TrimmerExport.cpp, start_trimmer_export).
BitrateFollows(p) ==
    p.quality = "custom" =>
        IF p.manual THEN p.bitrate = p.lastManual
        ELSE p.framerate # 0 => p.bitrate = ScaledBitrate(p.resolution, p.framerate)
EncodedAsShown(p) ==
    ReencodesVideo(p) /\ ~VideoRefused(p) =>
        /\ video.fps # 0 => EncodedRate(p) = p.framerate
        /\ RateControl(p).mode = "bitrate" /\ p.bitrate # 0 =>
             /\ RateControl(p).value <= EstimatedBitrate(p)
             /\ p.quality = "custom" \/ TargetSize(TargetSize(p.resolution)) = TargetSize(p.resolution) =>
                  RateControl(p).value = EstimatedBitrate(p)
ExportFollowsChoices ==
    exportPage # NoExport => BitrateFollows(exportPage) /\ EncodedAsShown(exportPage)

\* The file of an export that was announced stays whole while other exports
\* start, fail and clean up, unless one was started in the second before the
\* first had made its file (src/src/TrimmerExport.cpp, start_trimmer_export).
AnnouncedIsKept ==
    \A path \in announced :
        \/ path \in DOMAIN outputs /\ outputs[path] = "whole"
        \/ \E j \in DOMAIN jobs : jobs[j].path = path /\ ~jobs[j].alone
=============================================================================
