------------------------------- MODULE Trimmer -------------------------------
(***************************************************************************)
(* The video trimmer: the timeline's chunks (src/gui/TimelineWidget.cpp),  *)
(* the page that loads and saves them and lets a fullscreen preview skip   *)
(* the disabled ones (src/gui/TrimmerPage.cpp), and the player they use    *)
(* (src/gui/VideoPlayer.cpp).                                              *)
(*                                                                         *)
(* One thread runs all of it: a handler of an event or a frame is a step.  *)
(* mpv plays and seeks by itself; it shows frames, one every FrameMs, and  *)
(* an exact seek shows the first frame that is not before the target. That *)
(* mpv knows the length and has announced the file is one step here, and   *)
(* every seek is exact.                                                    *)
(***************************************************************************)
EXTENDS Integers, Sequences

CONSTANTS
    Durations,    \* what mpv may say of the preview's length, in ms
    FrameMs,      \* time between two frames
    Proximities,  \* distances at which a cut point is hit, by zoom
    MaxChunks,    \* bound of the model on cut points
    ScrubTo       \* bound of the model on where the user scrubs to

ASSUME TrimmerAssumption ==
    /\ Durations \subseteq Nat \ {0}
    /\ FrameMs \in Nat \ {0}
    /\ Proximities \subseteq Nat \ {0}
    /\ MaxChunks \in Nat \ {0}
    /\ ScrubTo \subseteq Nat

VARIABLES
    page,         \* the trimmer's page on top: None, "trimmer" or "preview"
    chunks,       \* TimelineWidget::chunks
    duration,     \* TimelineWidget::duration_ms
    position,     \* TimelineWidget::position_ms
    state_loaded,
    playback,     \* playback_state, of the player and, after it is notified, of the page
    restart,      \* fullscreen_preview_restart_pending
    scrub,        \* the player's scrub session and the page that holds it
    mpv,          \* mpv and the seeks it is given
    file          \* the saved chunks of this video, <<>> if there are none

editVars == <<chunks, duration, position, state_loaded>>
playVars == <<playback, restart, scrub, mpv>>
vars == <<page, editVars, playVars, file>>

None == "none"
NoSeek == -1

Chunk == [start : Nat, end : Nat, enabled : BOOLEAN]
NewChunk(s, e, on) == [start |-> s, end |-> e, enabled |-> on]

\* What a write that was cut short leaves: a file that load_state refuses.
TornFile == <<NewChunk(0, 0, FALSE)>>

NoScrub == [owner |-> None, position |-> 0, resume |-> FALSE]
NoPlayback == [position |-> 0, duration |-> 0, paused |-> FALSE, eof |-> FALSE]

\* busy: a seek has been sent and its reply not read. seek: where to, until it is done.
NoMpv == [position |-> 0, duration |-> 0, paused |-> FALSE, eof |-> FALSE,
          busy |-> FALSE, seek |-> NoSeek, pending |-> NoSeek]

Init ==
    /\ page = None
    /\ chunks = <<>> /\ duration = 0 /\ position = 0 /\ state_loaded = FALSE
    /\ playback = NoPlayback /\ restart = FALSE /\ scrub = NoScrub /\ mpv = NoMpv
    /\ file = <<>>

Max2(a, b) == IF a < b THEN b ELSE a
Clamp(x, lo, hi) == IF x < lo THEN lo ELSE IF x > hi THEN hi ELSE x

-----------------------------------------------------------------------------
(* The chunks of the timeline. *)

EnsuredChunks ==
    IF chunks = <<>> /\ duration > 0 THEN <<NewChunk(0, duration, TRUE)>> ELSE chunks

\* The chunk that holds ms: at most one does.
Holds(c, ms) == c.start <= ms /\ ms < c.end

\* Chunk i cut in two at ms.
SplitAt(cs, i, ms) ==
    [k \in 1 .. Len(cs) + 1 |->
        IF k < i THEN cs[k]
        ELSE IF k = i THEN [cs[i] EXCEPT !.end = ms]
        ELSE IF k = i + 1 THEN [cs[i] EXCEPT !.start = ms]
        ELSE cs[k - 1]]

\* Chunk i and the one after it made one.
JoinAt(cs, i) ==
    [k \in 1 .. Len(cs) - 1 |->
        IF k < i THEN cs[k]
        ELSE IF k = i THEN NewChunk(cs[i].start, cs[i + 1].end, cs[i].enabled \/ cs[i + 1].enabled)
        ELSE cs[k + 1]]

\* Faulty variant: a cut at the start of a chunk is one.
SplitChunkAtStart(cs, ms) ==
    {SplitAt(cs, i, ms) : i \in {k \in 1 .. Len(cs) : Holds(cs[k], ms)}}

\* The results of split_chunk_at, none if it does nothing.
SplitChunk(cs, ms) ==
    {SplitAt(cs, i, ms) : i \in {k \in 1 .. Len(cs) : Holds(cs[k], ms) /\ ms # cs[k].start}}

Distance(a, b) == IF a < b THEN b - a ELSE a - b

\* The cut points that are near enough, of which the last of the nearest is removed.
Hit(cs, ms, near) == {i \in 1 .. Len(cs) - 1 : Distance(cs[i].end, ms) <= near}

RemoveCutPoint(cs, ms, near) ==
    {JoinAt(cs, i) : i \in {k \in Hit(cs, ms, near) :
        \A j \in Hit(cs, ms, near) :
            \/ Distance(cs[k].end, ms) < Distance(cs[j].end, ms)
            \/ Distance(cs[k].end, ms) = Distance(cs[j].end, ms) /\ j <= k}}

\* A click on chunk i.
LeftClick(i) ==
    /\ page = "trimmer" /\ i \in 1 .. Len(EnsuredChunks)
    /\ chunks' = [EnsuredChunks EXCEPT ![i].enabled = ~@]
    /\ UNCHANGED <<page, duration, position, state_loaded, playVars, file>>

RightClick(near) ==
    LET cs == EnsuredChunks
        removed == RemoveCutPoint(cs, position, near)
        split == SplitChunk(cs, position)
    IN  /\ page = "trimmer" /\ cs # <<>>
        /\ IF removed # {} THEN chunks' \in removed
           ELSE IF split # {} THEN Len(cs) < MaxChunks /\ chunks' \in split
           ELSE chunks' = cs
        /\ UNCHANGED <<page, duration, position, state_loaded, playVars, file>>

-----------------------------------------------------------------------------
(* Looking at the chunks. *)

EffectiveChunks(d) == IF chunks # <<>> THEN chunks ELSE <<NewChunk(0, d, TRUE)>>

Enabled(cs) == {i \in 1 .. Len(cs) : cs[i].enabled}
EnabledAt(cs, ms) == {i \in Enabled(cs) : Holds(cs[i], ms)}
FirstOf(S) == CHOOSE i \in S : \A j \in S : i <= j
LastOf(S)  == CHOOSE i \in S : \A j \in S : j <= i
NextEnabled(cs, ms) == {i \in Enabled(cs) : cs[i].end > ms}

\* Where the preview stops: on the last millisecond of the last enabled chunk.
FinalPosition(c) == Max2(c.start, c.end - 1)

-----------------------------------------------------------------------------
(* The player. Its part of the state as a record, that each call changes.  *)

Now == [playback |-> playback, restart |-> restart, scrub |-> scrub, mpv |-> mpv]
Become(p) ==
    playback' = p.playback /\ restart' = p.restart /\ scrub' = p.scrub /\ mpv' = p.mpv

ClampToDuration(b, ms) == IF b.duration > 0 THEN Clamp(ms, 0, b.duration - 1) ELSE Max2(0, ms)

\* Faulty variant: a seek during another is forgotten.
MpvSeekOnce(m, ms) == IF m.busy THEN m ELSE [m EXCEPT !.busy = TRUE, !.seek = ms]

\* Libmpv::seek_to_ms: one seek at a time is sent, the latest of the others waits.
MpvSeek(m, ms) ==
    IF m.busy THEN [m EXCEPT !.pending = ms] ELSE [m EXCEPT !.busy = TRUE, !.seek = ms]

Paused(p, b) == [p EXCEPT !.mpv.paused = b]

SeekTo(p, ms) ==
    LET to == ClampToDuration(p.playback, ms)
    IN  [p EXCEPT !.playback.position = to, !.mpv = MpvSeek(@, to)]

\* play without the callback of the preview.
PlayOn(p) ==
    Paused([p EXCEPT !.mpv = IF p.playback.eof /\ p.scrub.owner = None THEN MpvSeek(@, 0) ELSE @],
           FALSE)

\* skip_disabled_chunks_if_needed, with the preview on.
SkipDisabledChunks(p) ==
    LET cs == EffectiveChunks(p.playback.duration)
        at == p.playback.position
        here == EnabledAt(cs, at)
        next == NextEnabled(cs, at)
        last == LastOf(Enabled(cs))
        stopped == /\ p.playback.paused /\ last \in here /\ at >= FinalPosition(cs[last])
        skipped == SeekTo([p EXCEPT !.restart = FALSE], cs[FirstOf(next)].start)
        ended == Paused([p EXCEPT !.restart = TRUE], TRUE)
    IN  IF p.playback.duration = 0 THEN p
        ELSE IF p.scrub.owner # None THEN [p EXCEPT !.restart = FALSE]
        ELSE IF here # {} THEN [p EXCEPT !.restart = stopped /\ (@ \/ p.playback.eof)]
        ELSE IF next # {} THEN IF p.playback.paused THEN skipped ELSE PlayOn(skipped)
        ELSE IF Enabled(cs) # {} THEN SeekTo(ended, FinalPosition(cs[last]))
        ELSE ended

\* The page hears of q when it differs from what it heard last.
Notified(q, before) ==
    IF page = "preview" /\ q.playback # before THEN SkipDisabledChunks(q) ELSE q

\* restart_fullscreen_preview_playback_if_needed.
Restarts(p) ==
    /\ page = "preview" /\ p.restart /\ p.scrub.owner = None
    /\ p.playback.paused /\ p.playback.duration > 0
    /\ Enabled(EffectiveChunks(p.playback.duration)) # {}

Restarted(p) ==
    LET cs == EffectiveChunks(p.playback.duration)
        q == SeekTo(p, cs[FirstOf(Enabled(cs))].start)
    IN  [Paused(q, FALSE) EXCEPT !.playback.eof = FALSE, !.playback.paused = FALSE, !.restart = FALSE]

Play(p) == IF Restarts(p) THEN Restarted(p) ELSE PlayOn(p)

BegunScrub(p, who) ==
    LET q == [p EXCEPT !.scrub = [owner |-> who, position |-> p.playback.position,
                                  resume |-> ~p.playback.paused],
                       !.playback.paused = TRUE, !.mpv.paused = TRUE]
    IN  Notified(q, p.playback)

UpdatedScrub(p, ms) ==
    Notified([SeekTo(p, ms) EXCEPT !.scrub.position = ms], p.playback)

\* The seek changes nothing of the state: the player is at the scrub's position.
EndedScrub(p) ==
    LET q == SeekTo([p EXCEPT !.scrub = NoScrub], p.scrub.position)
    IN  IF p.scrub.resume THEN Play(q) ELSE q

\* process_events: the reply to a seek is read, and the one that waited is sent.
Replied(m) ==
    IF ~m.busy \/ m.seek # NoSeek THEN m
    ELSE IF m.pending # NoSeek THEN [m EXCEPT !.seek = m.pending, !.pending = NoSeek]
    ELSE [m EXCEPT !.busy = FALSE]

BackendState(m) ==
    [position |-> IF m.duration > 0 THEN Clamp(m.position, 0, m.duration - 1) ELSE m.position,
     duration |-> m.duration, paused |-> m.paused, eof |-> m.eof]

\* VideoPlayer::draw.
DrawnPlayer(p) ==
    LET m == Replied(p.mpv)
        b == IF p.scrub.owner = None THEN BackendState(m)
             ELSE [p.playback EXCEPT !.paused = TRUE,
                                     !.position = ClampToDuration(p.playback, p.scrub.position)]
    IN  Notified([p EXCEPT !.playback = b, !.mpv = m], p.playback)

-----------------------------------------------------------------------------
(* The page: loading and saving, its frames and its events. *)

\* Faulty variant: chunks up to the end of the video are refused.
LoadedStateShort(f, d) ==
    /\ f # <<>>
    /\ f[1].start = 0 /\ f[Len(f)].end < d
    /\ \A i \in 1 .. Len(f) : f[i].start < f[i].end
    /\ \A i \in 1 .. Len(f) - 1 : f[i].end = f[i + 1].start

LoadedState(f, d) ==
    /\ f # <<>>
    /\ f[1].start = 0 /\ f[Len(f)].end <= d
    /\ \A i \in 1 .. Len(f) : f[i].start < f[i].end
    /\ \A i \in 1 .. Len(f) - 1 : f[i].end = f[i + 1].start

SavedState == IF playback.duration > 0 THEN EffectiveChunks(playback.duration) ELSE file

OpenTrimmer ==
    /\ page = None /\ page' = "trimmer"
    /\ UNCHANGED <<editVars, playVars, file>>

\* The page is destroyed, and the player with it.
Gone ==
    /\ page # None /\ page' = None
    /\ chunks' = <<>> /\ duration' = 0 /\ position' = 0 /\ state_loaded' = FALSE
    /\ playback' = NoPlayback /\ restart' = FALSE /\ scrub' = NoScrub /\ mpv' = NoMpv

LoadState ==
    IF ~state_loaded /\ playback.duration > 0
    THEN /\ state_loaded' = TRUE
         /\ chunks' = IF LoadedState(file, playback.duration) THEN file ELSE chunks
         /\ file' = IF LoadedState(file, playback.duration) THEN file ELSE <<>>
    ELSE UNCHANGED <<state_loaded, chunks, file>>

\* settle: the scrolled timeline has been at rest for long enough.
DrawTrimmer(settle) ==
    LET visible == IF scrub.owner # None THEN scrub.position ELSE playback.position
        p == IF settle THEN EndedScrub(Now) ELSE Now
    IN  /\ page = "trimmer" /\ (settle => scrub.owner # None)
        /\ LoadState
        /\ duration' = playback.duration
        /\ position' = Clamp(visible, 0, playback.duration)
        /\ Become(DrawnPlayer(p))
        /\ UNCHANGED page

DrawPreview ==
    /\ page = "preview"
    /\ Become(DrawnPlayer(Now))
    /\ UNCHANGED <<page, editVars, file>>

Draw == DrawPreview \/ \E settle \in BOOLEAN : DrawTrimmer(settle)

Space ==
    /\ page = "trimmer" \/ (page = "preview" /\ scrub.owner = None)
    /\ Become(IF playback.paused THEN Play(Now) ELSE Paused(Now, TRUE))
    /\ UNCHANGED <<page, editVars, file>>

ScrubTimeline(ms) ==
    LET p == IF scrub.owner = None THEN BegunScrub(Now, "trimmer") ELSE Now
    IN  /\ page = "trimmer" /\ duration > 0 /\ ms <= duration
        /\ Become(IF ms = p.scrub.position THEN p ELSE UpdatedScrub(p, ms))
        /\ UNCHANGED <<page, editVars, file>>

\* The seek bar of the preview has the enabled chunks only.
ScrubPreview(ms) ==
    LET cs == EffectiveChunks(playback.duration)
        p == IF scrub.owner = None THEN BegunScrub(Now, "preview") ELSE Now
    IN  /\ page = "preview" /\ playback.duration > 0 /\ EnabledAt(cs, ms) # {}
        /\ Become(UpdatedScrub(p, ms))
        /\ UNCHANGED <<page, editVars, file>>

EndPreviewScrub ==
    /\ page = "preview" /\ scrub.owner # None
    /\ Become(EndedScrub(Now))
    /\ UNCHANGED <<page, editVars, file>>

\* Faulty variant: a scrub of the timeline goes on.
OpenPreviewScrubbing ==
    /\ page = "trimmer" /\ page' = "preview"
    /\ Become(SkipDisabledChunks(Now))
    /\ UNCHANGED <<editVars, file>>

OpenPreview ==
    LET p == IF scrub.owner # None THEN EndedScrub(Now) ELSE Now
    IN  /\ page = "trimmer" /\ page' = "preview"
        /\ Become(SkipDisabledChunks(p))
        /\ UNCHANGED <<editVars, file>>

ClosePreview ==
    LET p == IF scrub.owner # None THEN EndedScrub(Now) ELSE Now
    IN  /\ page = "preview" /\ page' = "trimmer"
        /\ Become([p EXCEPT !.restart = FALSE])
        /\ UNCHANGED <<editVars, file>>

\* The back button, or the overlay hides and takes every page with it.
CloseTrimmer ==
    /\ Gone
    /\ file' = SavedState

\* The program is killed, maybe while the chunks are written.
Crash ==
    /\ Gone
    /\ file' \in {file, TornFile}

-----------------------------------------------------------------------------
(* mpv, as the player uses it: keep-open, so it pauses at the end. *)

Frames(d) == {ms \in 0 .. d - 1 : ms % FrameMs = 0}
LastFrame(d) == CHOOSE f \in Frames(d) : \A g \in Frames(d) : g <= f

MpvOpen(d) ==
    /\ page # None /\ mpv.duration = 0
    /\ mpv' = [mpv EXCEPT !.duration = d]
    /\ UNCHANGED <<page, editVars, playback, restart, scrub, file>>

\* The time at the end is that of the last frame, or of the end of the sound.
MpvPlay ==
    /\ page # None /\ mpv.duration > 0 /\ ~mpv.paused
    /\ IF mpv.position + FrameMs < mpv.duration
       THEN mpv' = [mpv EXCEPT !.position = @ + FrameMs]
       ELSE \E at \in {LastFrame(mpv.duration), mpv.duration} :
              mpv' = [mpv EXCEPT !.position = at, !.paused = TRUE, !.eof = TRUE]
    /\ UNCHANGED <<page, editVars, playback, restart, scrub, file>>

\* An exact seek shows the first frame that is not before its target.
MpvSeekDone ==
    LET frames == {f \in Frames(mpv.duration) : f >= mpv.seek}
    IN  /\ page # None /\ mpv.duration > 0 /\ mpv.seek # NoSeek
        /\ mpv' = IF frames = {}
                  THEN [mpv EXCEPT !.seek = NoSeek, !.position = LastFrame(mpv.duration),
                                   !.eof = TRUE, !.paused = TRUE]
                  ELSE [mpv EXCEPT !.seek = NoSeek, !.eof = FALSE,
                                   !.position = CHOOSE f \in frames : \A g \in frames : f <= g]
        /\ UNCHANGED <<page, editVars, playback, restart, scrub, file>>

User ==
    \/ OpenTrimmer \/ Space \/ EndPreviewScrub \/ OpenPreview \/ ClosePreview
    \/ CloseTrimmer \/ Crash
    \/ \E i \in 1 .. MaxChunks : LeftClick(i)
    \/ \E ms \in ScrubTo : ScrubTimeline(ms) \/ ScrubPreview(ms)
    \/ \E near \in Proximities : RightClick(near)

Mpv == MpvPlay \/ MpvSeekDone \/ \E d \in Durations : MpvOpen(d)

Next == User \/ Mpv \/ Draw

Spec == Init /\ [][Next]_vars

-----------------------------------------------------------------------------
(* Properties. *)

TypeOK ==
    /\ page \in {None, "trimmer", "preview"}
    /\ chunks \in Seq(Chunk) /\ file \in Seq(Chunk)
    /\ playback.duration \in {0} \union Durations /\ duration \in {0, playback.duration}
    /\ position \in 0 .. duration
    /\ playback.position \in 0 .. Max2(0, playback.duration - 1)
    /\ state_loaded \in BOOLEAN /\ restart \in BOOLEAN

Contiguous(cs) ==
    /\ cs[1].start = 0
    /\ \A i \in 1 .. Len(cs) : cs[i].start < cs[i].end
    /\ \A i \in 1 .. Len(cs) - 1 : cs[i].end = cs[i + 1].start

\* However the user cuts, toggles and rejoins, and whatever the saved file says,
\* the chunks follow one another from the start and stay within the video.
ChunksPartition ==
    chunks # <<>> => Contiguous(chunks) /\ chunks[Len(chunks)].end <= playback.duration

\* What a page saved is refused by a later one only if the preview got shorter.
NoEditsRejected ==
    [][file \notin {<<>>, TornFile} /\ file' = <<>> => file[Len(file)].end > playback.duration]_vars

\* A scrub does not outlive the page that began it: the other one cannot end it.
ScrubHasItsPage ==
    /\ scrub.owner = "trimmer" => page = "trimmer"
    /\ scrub.owner = "preview" => page = "preview"

\* A frame of the preview that finds mpv playing a disabled chunk leaves it on its
\* way to an enabled one, or stopped, if every enabled chunk has a frame to show.
LastTarget(m) == IF m.pending # NoSeek THEN m.pending ELSE m.seek

SkipsDisabled ==
    [][LET cs == EffectiveChunks(mpv.duration)
       IN  /\ DrawPreview /\ ~mpv'.paused /\ mpv.duration > 0 /\ scrub.owner = None
           => \/ EnabledAt(cs, BackendState(mpv).position) # {}
              \/ EnabledAt(cs, LastTarget(mpv')) # {}
              \/ \E i \in Enabled(cs) : \A f \in Frames(mpv.duration) : ~Holds(cs[i], f)]_vars
=============================================================================
