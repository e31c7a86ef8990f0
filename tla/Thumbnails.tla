------------------------------ MODULE Thumbnails ------------------------------
(***************************************************************************)
(* The pictures along a timeline: each TimelineWidget has a worker thread  *)
(* that fills a directory of the cache with ffmpeg unless it is complete,  *)
(* and purges old ones; the main thread asks for them when it learns the   *)
(* video's duration and takes the result when it draws                     *)
(* (src/gui/TimelineWidget.cpp).                                           *)
(*                                                                         *)
(* All timelines here are of one video, so a directory goes by the         *)
(* duration.  Their programs share nothing but the cache and its flocks.   *)
(* An exchange of a lock's mode first gives up the mode it has, as flock   *)
(* does: one that fails leaves an open descriptor without a lock.          *)
(***************************************************************************)
EXTENDS Naturals, Sequences, FiniteSets, SequencesExt

CONSTANTS Timelines,
          MaxDuration,
          MaxDirs,       \* max_cached_timeline_thumbnail_dirs
          MaxTimelines   \* bound on the timelines opened in a behaviour

ASSUME ThumbnailsAssumption == MaxDuration \in Nat

Dirs == 1..MaxDuration
NoDir == 0

VARIABLES cached,    \* the directories, the one touched last at the end
          complete,  \* those with all their pictures
          timeline,  \* per timeline: what thumbnail_mutex protects, and what is drawn
          painter,   \* per timeline: its worker thread
          started    \* timelines so far

thumbnailVars == <<cached, complete, timeline, painter, started>>
cacheVars == <<cached, complete>>

\* An entry of the lock map is absent, lost, shared or exclusive.
ClosedTimeline ==
    [open |-> FALSE, stop |-> FALSE, source |-> FALSE, duration |-> 0, generation |-> 0, request |-> FALSE,
     pending |-> NoDir, generating |-> NoDir, drawn |-> NoDir, ready |-> FALSE, result |-> NoDir,
     locks |-> [d \in Dirs |-> "absent"]]
AbsentPainter == [at |-> "gone", generation |-> 0, dir |-> NoDir, filled |-> FALSE]

ThumbnailsInit ==
    /\ cached = <<>> /\ complete = {} /\ started = 0
    /\ timeline = [t \in Timelines |-> ClosedTimeline]
    /\ painter = [t \in Timelines |-> AbsentPainter]

-----------------------------------------------------------------------------
Locked(d, modes, except) == \E u \in Timelines \ {except} : timeline[u].locks[d] \in modes

\* refresh_thumbnail_cache_locks, for timeline t in state s: entries that are
\* not needed go, and missing ones are tried for.
Refreshed(t, s) ==
    LET needed == {s.pending, s.generating, s.drawn} \cup (IF s.ready THEN {s.result} ELSE {})
    IN  [s EXCEPT !.locks = [d \in Dirs |->
           IF d \notin needed THEN "absent"
           ELSE IF s.locks[d] = "absent" /\ ~Locked(d, {"exclusive"}, t) THEN "shared"
           ELSE s.locks[d]]]

\* A change of what thumbnail_mutex protects, followed by the refresh.
Update(t, s) == timeline' = [timeline EXCEPT ![t] = Refreshed(t, s)]

PainterGoes(t, place) == painter' = [painter EXCEPT ![t].at = place]

-----------------------------------------------------------------------------
OpenTimeline(t) ==
    /\ ~timeline[t].open /\ started < MaxTimelines
    /\ started' = started + 1
    /\ timeline' = [timeline EXCEPT ![t].open = TRUE]
    /\ painter' = [painter EXCEPT ![t].at = "waits"]
    /\ UNCHANGED cacheVars

\* Faulty variant: a result that is ready stays so.
QueuedKeepingResult(s) ==
    LET asked == s.source /\ s.duration > 0
    IN  [s EXCEPT !.generation = @ + 1, !.request = asked, !.drawn = NoDir,
                  !.pending = IF asked THEN s.duration ELSE NoDir,
                  !.result = IF asked THEN @ ELSE NoDir]

\* queue_thumbnail_generation
Queued(s) ==
    LET asked == s.source /\ s.duration > 0
    IN  [s EXCEPT !.generation = @ + 1, !.request = asked, !.drawn = NoDir, !.ready = FALSE,
                  !.pending = IF asked THEN s.duration ELSE NoDir,
                  !.result = IF asked THEN @ ELSE NoDir]

\* set_source_video_path
SetSource(t) ==
    /\ timeline[t].open /\ ~timeline[t].stop /\ ~timeline[t].source
    /\ Update(t, Queued([timeline[t] EXCEPT !.source = TRUE]))
    /\ UNCHANGED <<cacheVars, painter, started>>

\* set_duration_ms, of what mpv says; its estimate may grow.
SetDuration(t, d) ==
    /\ timeline[t].open /\ ~timeline[t].stop /\ timeline[t].duration < d
    /\ Update(t, Queued([timeline[t] EXCEPT !.duration = d]))
    /\ UNCHANGED <<cacheVars, painter, started>>

\* process_thumbnail_generation_result: publication is of the last generation.
Draw(t) ==
    /\ timeline[t].open /\ ~timeline[t].stop /\ timeline[t].ready
    /\ Update(t, [timeline[t] EXCEPT !.drawn = timeline[t].result, !.ready = FALSE])
    /\ UNCHANGED <<cacheVars, painter, started>>

\* TimelineWidget::~TimelineWidget
CloseTimeline(t) ==
    /\ timeline[t].open /\ ~timeline[t].stop
    /\ timeline' = [timeline EXCEPT ![t].stop = TRUE]
    /\ UNCHANGED <<cacheVars, painter, started>>

JoinPainter(t) ==
    /\ timeline[t].stop /\ painter[t].at = "gone"
    /\ timeline' = [timeline EXCEPT ![t] = ClosedTimeline]
    /\ UNCHANGED <<cacheVars, painter, started>>

-----------------------------------------------------------------------------
\* thumbnail_worker_loop
TakeThumbnailRequest(t) ==
    LET s == timeline[t]
    IN  /\ painter[t].at = "waits" /\ ~s.stop /\ s.request
        /\ painter' = [painter EXCEPT ![t] = [at |-> "lock", generation |-> s.generation, dir |-> s.pending, filled |-> FALSE]]
        /\ Update(t, [s EXCEPT !.request = FALSE, !.generating = s.pending])
        /\ UNCHANGED <<cacheVars, started>>

StopPainter(t) ==
    /\ painter[t].at = "waits" /\ timeline[t].stop
    /\ painter' = [painter EXCEPT ![t] = AbsentPainter]
    /\ UNCHANGED <<cacheVars, timeline, started>>

Outdated(t) == timeline[t].stop \/ painter[t].generation # timeline[t].generation

\* Faulty variant: the upgrade is tried on whether it is wanted or not.
GiveUpFirstLock(t) ==
    /\ Outdated(t) /\ painter[t].at = "lock" /\ timeline[t].locks[painter[t].dir] = "absent"
    /\ Locked(painter[t].dir, {"exclusive"}, t)
    /\ PainterGoes(t, "waits")
    /\ Update(t, [timeline[t] EXCEPT !.generating = NoDir])
    /\ UNCHANGED <<cacheVars, started>>

\* A wait for a lock ends when nobody wants the result.
GiveUp(t) ==
    /\ Outdated(t)
    /\ \/ painter[t].at = "lock" /\ timeline[t].locks[painter[t].dir] = "absent"
          /\ Locked(painter[t].dir, {"exclusive"}, t)
       \/ painter[t].at = "upgrade" /\ timeline[t].locks[painter[t].dir] = "lost"
          /\ painter[t].dir \notin complete
    /\ PainterGoes(t, "waits")
    /\ Update(t, [timeline[t] EXCEPT !.generating = NoDir])
    /\ UNCHANGED <<cacheVars, started>>

\* The entry of the refresh, or one of its own.
LockDirectory(t) ==
    LET d == painter[t].dir
    IN  /\ painter[t].at = "lock"
        /\ timeline[t].locks[d] # "absent" \/ ~Locked(d, {"exclusive"}, t)
        /\ timeline' = [timeline EXCEPT ![t].locks[d] = IF @ = "absent" THEN "shared" ELSE @]
        /\ PainterGoes(t, "look")
        /\ UNCHANGED <<cacheVars, started>>

LookAtDirectory(t) ==
    LET d == painter[t].dir
    IN  /\ painter[t].at = "look"
        /\ cached' = IF d \in ToSet(cached) THEN cached ELSE Append(cached, d)
        /\ PainterGoes(t, IF d \in complete THEN "touch" ELSE "upgrade")
        /\ UNCHANGED <<complete, timeline, started>>

\* Faulty variant: a shared lock is enough.
UpgradeShared(t) ==
    LET d == painter[t].dir
    IN  /\ painter[t].at = "upgrade" /\ ~Locked(d, {"exclusive"}, t)
        /\ timeline' = [timeline EXCEPT ![t].locks[d] = "shared"]
        /\ PainterGoes(t, "recheck")
        /\ UNCHANGED <<cacheVars, started>>

Upgrade(t) ==
    LET d == painter[t].dir
    IN  /\ painter[t].at = "upgrade" /\ ~Locked(d, {"shared", "exclusive"}, t)
        /\ timeline' = [timeline EXCEPT ![t].locks[d] = "exclusive"]
        /\ PainterGoes(t, "recheck")
        /\ UNCHANGED <<cacheVars, started>>

\* The shared lock is given up; the pictures may have been made by another.
UpgradeFails(t) ==
    LET d == painter[t].dir
    IN  /\ painter[t].at = "upgrade" /\ Locked(d, {"shared", "exclusive"}, t)
        /\ timeline' = [timeline EXCEPT ![t].locks[d] = "lost"]
        /\ PainterGoes(t, IF d \in complete THEN "recheck" ELSE "upgrade")
        /\ UNCHANGED <<cacheVars, started>>

\* What is complete now is taken under a shared lock, for which the worker
\* waits; else the directory is cleared and ffmpeg is started.
Recheck(t) ==
    LET d == painter[t].dir
    IN  /\ painter[t].at = "recheck"
        /\ IF d \in complete
           THEN /\ ~Locked(d, {"exclusive"}, t)
                /\ timeline' = [timeline EXCEPT ![t].locks[d] = "shared"]
                /\ PainterGoes(t, "touch")
           ELSE /\ d \in ToSet(cached)
                /\ PainterGoes(t, "encode") /\ UNCHANGED timeline
        /\ UNCHANGED <<cacheVars, started>>

-----------------------------------------------------------------------------
\* ffmpeg makes all pictures: a shared lock.
Encoded(t) ==
    LET d == painter[t].dir
    IN  /\ painter[t].at = "encode" /\ d \in ToSet(cached) /\ ~Locked(d, {"exclusive"}, t)
        /\ complete' = complete \cup {d}
        /\ timeline' = [timeline EXCEPT ![t].locks[d] = "shared"]
        /\ PainterGoes(t, "touch")
        /\ UNCHANGED <<cached, started>>

\* ffmpeg fails: no pictures, and a shared lock, since none are missing.
EncodingFails(t) ==
    LET d == painter[t].dir
    IN  /\ painter[t].at = "encode" /\ ~Locked(d, {"exclusive"}, t)
        /\ timeline' = [timeline EXCEPT ![t].locks[d] = "shared"]
        /\ PainterGoes(t, "purge")
        /\ UNCHANGED <<cacheVars, started>>

\* ffmpeg makes fewer pictures than expected: they are removed, and the lock
\* stays as it is.
EncodedTooFew(t) ==
    /\ painter[t].at = "encode" /\ painter[t].dir \in ToSet(cached)
    /\ PainterGoes(t, "purge")
    /\ UNCHANGED <<cacheVars, timeline, started>>

\* clear_regular_files_from_directory, of a directory that another program's
\* purge removed: its exception ends the program, with all its locks.
ProgramEnds(t) ==
    LET d == painter[t].dir
    IN  /\ painter[t].at \in {"recheck", "encode"} /\ d \notin complete /\ d \notin ToSet(cached)
        /\ timeline' = [timeline EXCEPT ![t] = ClosedTimeline]
        /\ painter' = [painter EXCEPT ![t] = AbsentPainter]
        /\ UNCHANGED <<cacheVars, started>>

TouchDirectory(t) ==
    LET d == painter[t].dir
    IN  /\ painter[t].at = "touch"
        /\ painter' = [painter EXCEPT ![t].at = "purge", ![t].filled = d \in complete]
        /\ cached' = IF d \in complete THEN Append(Remove(cached, d), d) ELSE cached
        /\ UNCHANGED <<complete, timeline, started>>

\* purge_timeline_thumbnail_cache: beyond the newest, what nobody has locked.
PurgeDirectories(t) ==
    LET old == {cached[i] : i \in 1..(IF Len(cached) > MaxDirs THEN Len(cached) - MaxDirs ELSE 0)}
        removed == {d \in old : ~\E u \in Timelines : timeline[u].locks[d] \in {"shared", "exclusive"}}
    IN  /\ painter[t].at = "purge"
        /\ cached' = SelectSeq(cached, LAMBDA d : d \notin removed)
        /\ complete' = complete \ removed
        /\ PainterGoes(t, "publish")
        /\ UNCHANGED <<timeline, started>>

PublishThumbnails(t) ==
    LET s == timeline[t]
        w == painter[t]
        done == [s EXCEPT !.generating = NoDir]
    IN  /\ w.at = "publish"
        /\ Update(t, IF w.generation = s.generation
                     THEN [done EXCEPT !.ready = TRUE,
                                       !.result = IF w.filled /\ w.dir \in complete THEN w.dir ELSE NoDir]
                     ELSE done)
        /\ PainterGoes(t, "waits")
        /\ UNCHANGED <<cacheVars, started>>

PainterStep(t) ==
    \/ TakeThumbnailRequest(t) \/ StopPainter(t) \/ GiveUp(t) \/ LockDirectory(t) \/ LookAtDirectory(t)
    \/ Upgrade(t) \/ UpgradeFails(t) \/ Recheck(t) \/ Encoded(t) \/ EncodingFails(t) \/ EncodedTooFew(t)
    \/ ProgramEnds(t) \/ TouchDirectory(t) \/ PurgeDirectories(t) \/ PublishThumbnails(t)

ThumbnailsNext ==
    \E t \in Timelines :
      \/ OpenTimeline(t) \/ SetSource(t) \/ Draw(t) \/ CloseTimeline(t) \/ JoinPainter(t) \/ PainterStep(t)
      \/ \E d \in Dirs : SetDuration(t, d)

ThumbnailsSpec == ThumbnailsInit /\ [][ThumbnailsNext]_thumbnailVars

ThumbnailsFairness ==
    \A t \in Timelines : WF_thumbnailVars(PainterStep(t)) /\ WF_thumbnailVars(Draw(t)) /\ WF_thumbnailVars(JoinPainter(t))

-----------------------------------------------------------------------------
\* The pictures that are drawn are there, and of the duration the timeline has
\* now (TimelineWidget.cpp, process_thumbnail_generation_result and
\* remove_timeline_thumbnail_cache_dir_if_unlocked).
DrawnIsKept ==
    \A t \in Timelines :
      timeline[t].drawn # NoDir => timeline[t].drawn \in complete /\ timeline[t].drawn = timeline[t].duration

\* One ffmpeg at most fills a directory, and nobody draws it meanwhile, but for
\* a worker whose exchange of the lock failed and whose second look at the
\* directory differs from the first: it fills it without a lock
\* (TimelineWidget.cpp, thumbnail_worker_loop).
PainterIsAlone ==
    \A t, u \in Timelines :
      LET d == painter[t].dir
      IN  t # u /\ painter[t].at = "encode" /\ timeline[t].locks[d] # "lost" =>
            /\ painter[u].at = "encode" /\ painter[u].dir = d => timeline[u].locks[d] = "lost"
            /\ timeline[u].drawn # d

\* A timeline whose ffmpeg failed or made too few pictures keeps a lock on the
\* directory for as long as it is open and of that duration.
IsKeptOut(t) ==
    LET d == timeline[t].generating
    IN  /\ d # NoDir /\ d \notin complete
        /\ \E u \in Timelines \ {t} : timeline[u].generating = NoDir /\ timeline[u].locks[d] \in {"shared", "exclusive"}

\* A request for thumbnails ends: with a result, replaced by a later request, or
\* with the program, where another's purge takes the directory from under the
\* worker.  Otherwise the result is wanted and the directory is kept locked as
\* above (TimelineWidget.cpp, thumbnail_worker_loop).
RequestEnds ==
    \A t \in Timelines :
      timeline[t].request ~> \/ ~timeline[t].request /\ timeline[t].generating = NoDir
                             \/ IsKeptOut(t) /\ ~Outdated(t)
=============================================================================
