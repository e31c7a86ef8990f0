----------------------------- MODULE RecentVideos -----------------------------
(***************************************************************************)
(* The recently saved videos (src/RecentVideos.cpp and the parts of        *)
(* src/Overlay.cpp that use it).  The main loop adds a saved video to a    *)
(* file and starts a thread that reads the file, makes a thumbnail of each *)
(* video, purges the other thumbnails and publishes the list; the front    *)
(* page is built from the list.                                            *)
(*                                                                         *)
(* A video has one thumbnail; the variants that are kept for a video that  *)
(* was changed or removed are not told apart.                              *)
(***************************************************************************)
EXTENDS Naturals, SequencesExt

CONSTANTS
    Videos,
    MaxRecent  \* max_recent_videos

ASSUME RecentAssumption == MaxRecent \in Nat \ {0}

VARIABLES
    file,              \* the state file: paths, newest first
    thumbs,            \* videos with a thumbnail in the cache directory
    mutex,             \* recent_videos_mutex of RecentVideos.cpp
    \* the main loop
    main,              \* what it is doing
    saved,             \* {v} while the saved video v is to be added, else {}
    front,             \* the overlay is visible with the front page on top
    shown,             \* the front page's list, and which entries have a picture
    dirty,             \* recent_videos_ui_dirty
    \* the loader thread
    loader,            \* where it is; "none": not joinable
    purge_cache,
    loaded,            \* what get_recent_videos returned: {list}, or {} if it failed
    \* shared
    recent_videos,
    loading,           \* recent_videos_loading
    callback_pending,  \* recent_videos_callback_pending
    behind,            \* history: since the last load began a request was dropped, or
                       \* a write failed; or the file could not be opened for it
    failed             \* history: the last load failed

mainVars   == <<main, saved, front, shown, dirty>>
loaderVars == <<loader, purge_cache, loaded>>
history    == <<behind, failed>>
recentVars == <<file, thumbs, mutex, mainVars, loaderVars, recent_videos, loading,
          callback_pending, history>>

RecentInit ==
    /\ \E v \in Videos : file \in {<<>>, <<v>>}
    /\ thumbs \in {{}, Videos}
    /\ mutex = "free"
    /\ main = "idle" /\ saved = {} /\ front = FALSE
    /\ shown = <<>> /\ dirty = FALSE
    /\ loader = "started" /\ purge_cache = FALSE /\ loaded = {}
    /\ recent_videos = <<>> /\ loading = TRUE
    /\ callback_pending = FALSE /\ behind = FALSE /\ failed = FALSE

-----------------------------------------------------------------------------
(* The main loop. *)

\* The child's line names a saved video.
VideoSaved ==
    /\ main = "idle"
    /\ main' = "add"
    /\ \E v \in Videos : saved' = {v}
    /\ UNCHANGED <<file, thumbs, mutex, front, shown, dirty, loaderVars, recent_videos,
                   loading, callback_pending, history>>

\* The video in front, without its older entry, cut to the maximum.
Added(f, v) ==
    LET others == SelectSeq(f, LAMBDA w : w # v)
        kept == IF Len(others) < MaxRecent THEN Len(others) + 1 ELSE MaxRecent
    IN  [k \in 1..kept |-> IF k = 1 THEN v ELSE others[k - 1]]

\* Faulty variant: the lock is not given back.
AddRecentVideoLocked ==
    /\ main = "add" /\ mutex = "free"
    /\ mutex' = "main"
    /\ \E v \in saved : file' = Added(file, v)
    /\ main' = "load" /\ saved' = {}
    /\ UNCHANGED <<thumbs, front, shown, dirty, loaderVars, recent_videos,
                   loading, callback_pending, history>>

\* What is in the file after a write: it is emptied first, and the write may be short.
\* A path that is cut short names no video, and is left out.
Cut(list) == {[k \in 1..n |-> list[k]] : n \in 0..Len(list)}

\* The file cannot be read, or not be opened again; or it is written. A file that
\* cannot be opened at first is taken for an empty one. fwrite reports a write
\* that is short, and then no load is started; fclose tells nobody.
AddRecentVideo ==
    /\ main = "add" /\ mutex = "free"
    /\ \/ main' = "idle" /\ UNCHANGED <<file, behind>>
       \/ \E v \in saved, read \in {file, <<>>} :
            /\ file' \in Cut(Added(read, v))
            /\ \/ main' = "load" /\ UNCHANGED behind
               \/ main' = "idle" /\ behind' = TRUE
    /\ saved' = {}
    /\ UNCHANGED <<thumbs, mutex, front, shown, dirty, loaderVars, recent_videos,
                   loading, callback_pending, failed>>

\* load_recent_videos_async: nothing while a load is under way; otherwise the last
\* thread is waited for and a new one started.
LoadDropped ==
    /\ main = "load" /\ loading
    /\ main' = "idle"
    /\ behind' = TRUE
    /\ UNCHANGED <<file, thumbs, mutex, saved, front, shown, dirty, loaderVars,
                   recent_videos, loading, callback_pending, failed>>

LoadRecentVideosAsync ==
    /\ main = "load" /\ ~loading
    /\ loader \in {"none", "ended"}
    /\ main' = "idle"
    /\ loader' = "started" /\ purge_cache' = TRUE /\ loaded' = {}
    /\ loading' = TRUE /\ behind' = FALSE
    /\ UNCHANGED <<file, thumbs, mutex, saved, front, shown, dirty, recent_videos,
                   callback_pending, failed>>

\* recreate_frontpage_ui_components: a thumbnail that cannot be loaded is replaced
\* by the play icon.
FrontPage == [k \in DOMAIN recent_videos |->
                [video |-> recent_videos[k].video,
                 picture |-> recent_videos[k].thumb /\ recent_videos[k].video \in thumbs]]

HandleEvents ==
    /\ main = "idle"
    /\ callback_pending \/ (front /\ dirty)
    /\ callback_pending' = FALSE
    /\ LET rebuild == front /\ (dirty \/ callback_pending) IN
       /\ dirty' = ((dirty \/ callback_pending) /\ ~rebuild)
       /\ shown' = IF rebuild THEN FrontPage ELSE shown
    /\ UNCHANGED <<file, thumbs, mutex, main, saved, front, loaderVars, recent_videos,
                   loading, history>>

ShowFrontPage ==
    /\ main = "idle" /\ ~front
    /\ front' = TRUE
    /\ shown' = FrontPage
    /\ UNCHANGED <<file, thumbs, mutex, main, saved, dirty, loaderVars, recent_videos,
                   loading, callback_pending, history>>

\* Another page is on top, or the overlay is hidden.  A page on top of the front
\* page keeps the front page as it is.
LeaveFrontPage ==
    /\ main = "idle" /\ front
    /\ front' = FALSE
    /\ UNCHANGED <<file, thumbs, mutex, main, saved, shown, dirty, loaderVars,
                   recent_videos, loading, callback_pending, history>>

ReturnToFrontPage ==
    /\ main = "idle" /\ ~front
    /\ front' = TRUE
    /\ UNCHANGED <<file, thumbs, mutex, main, saved, shown, dirty, loaderVars,
                   recent_videos, loading, callback_pending, history>>

Exit ==
    /\ main = "idle"
    /\ main' = "join"
    /\ UNCHANGED <<file, thumbs, mutex, saved, front, shown, dirty, loaderVars,
                   recent_videos, loading, callback_pending, history>>

Join ==
    /\ main = "join" /\ loader \in {"none", "ended"}
    /\ main' = "done" /\ loader' = "none"
    /\ UNCHANGED <<file, thumbs, mutex, saved, front, shown, dirty, purge_cache, loaded,
                   recent_videos, loading, callback_pending, history>>

-----------------------------------------------------------------------------
(* The loader thread. *)

GetRecentVideos ==
    /\ loader = "started" /\ mutex = "free"
    /\ loader' = "reading" /\ mutex' = "loader"
    /\ UNCHANGED <<file, thumbs, mainVars, purge_cache, loaded, recent_videos, loading,
                   callback_pending, history>>

\* Faulty variant: purges while it reads, and keeps what the previous list shows.
ReadVideosPurged ==
    /\ loader = "reading"
    /\ loader' = "publish"
    /\ mutex' = "free"
    /\ \/ loaded' = {} /\ UNCHANGED thumbs
       \/ /\ thumbs' \in {thumbs, thumbs \cap {e.video : e \in ToSet(recent_videos)}}
          /\ loaded' = {[k \in DOMAIN file |-> [video |-> file[k], thumb |-> file[k] \in thumbs]]}
    /\ UNCHANGED <<file, mainVars, purge_cache, recent_videos, loading, callback_pending,
                   history>>

\* Reading fails, or the file cannot be opened, which is an empty list; or every
\* video is probed and gets a thumbnail if it has none and one can be made.
ReadVideos ==
    /\ loader = "reading"
    /\ loader' = IF purge_cache THEN "purge" ELSE "publish"
    /\ mutex' = "free"
    /\ \/ loaded' = {} /\ UNCHANGED <<thumbs, behind>>
       \/ loaded' = {<<>>} /\ behind' = TRUE /\ UNCHANGED thumbs
       \/ \E made \in {{}, ToSet(file)} :
            /\ thumbs' = thumbs \cup made
            /\ loaded' = {[k \in DOMAIN file |->
                             [video |-> file[k], thumb |-> file[k] \in thumbs']]}
            /\ UNCHANGED behind
    /\ UNCHANGED <<file, mainVars, purge_cache, recent_videos, loading, callback_pending, failed>>

LoadedThumbs == {e.video : e \in {f \in UNION {ToSet(l) : l \in loaded} : f.thumb}}

\* What the file lists now and what was just loaded keeps its thumbnail; a file that
\* cannot be opened lists nothing.
PurgeCache ==
    /\ loader = "purge" /\ mutex = "free"
    /\ loader' = "publish"
    /\ \E listed \in {ToSet(file), {}} : thumbs' \in {thumbs, thumbs \cap (listed \cup LoadedThumbs)}
    /\ UNCHANGED <<file, mutex, mainVars, purge_cache, loaded, recent_videos, loading,
                   callback_pending, history>>

PublishList ==
    /\ loader = "publish"
    /\ loader' = "loaded"
    /\ recent_videos' \in IF loaded = {} THEN {recent_videos} ELSE loaded
    /\ failed' = (loaded = {})
    /\ loaded' = {}
    /\ UNCHANGED <<file, thumbs, mutex, mainVars, purge_cache, loading,
                   callback_pending, behind>>

EndLoading ==
    /\ loader = "loaded"
    /\ loader' = "notify"
    /\ loading' = FALSE
    /\ UNCHANGED <<file, thumbs, mutex, mainVars, purge_cache, loaded, recent_videos,
                   callback_pending, history>>

\* Faulty variant: a load without a purge does not ask for a new front page.
NotifyPurged ==
    /\ loader = "notify"
    /\ loader' = "ended"
    /\ callback_pending' = (callback_pending \/ purge_cache)
    /\ UNCHANGED <<file, thumbs, mutex, mainVars, purge_cache, loaded, recent_videos,
                   loading, history>>

Notify ==
    /\ loader = "notify"
    /\ loader' = "ended"
    /\ callback_pending' = TRUE
    /\ UNCHANGED <<file, thumbs, mutex, mainVars, purge_cache, loaded, recent_videos,
                   loading, history>>

-----------------------------------------------------------------------------
MainLoop == AddRecentVideo \/ LoadDropped \/ LoadRecentVideosAsync \/ HandleEvents \/ Join
User     == VideoSaved \/ ShowFrontPage \/ LeaveFrontPage \/ ReturnToFrontPage \/ Exit
Loader   == GetRecentVideos \/ ReadVideos \/ PurgeCache \/ PublishList \/ EndLoading \/ Notify

RecentNext == MainLoop \/ User \/ Loader

RecentSpec == RecentInit /\ [][RecentNext]_recentVars

-----------------------------------------------------------------------------
(* Properties. *)

\* A video saved while the thread is between reading and purging does not cost a
\* listed video its thumbnail.  The previous list's may go while the new one is
\* about to replace it, and when a load failed there is no list to keep them for.
ListedThumbnailsExist ==
    loader # "publish" /\ ~failed =>
        \A e \in ToSet(recent_videos) : e.thumb => e.video \in thumbs

AtRest == loader \in {"none", "ended"} /\ main \in {"idle", "done"}

\* Once the thread has ended the list is the file, unless no load was started for
\* it (a request came during a load, or a write was reported as failed although it
\* had changed the file), or the load could not read it; and a front page that
\* nothing waits to rebuild shows that list and its thumbnails, whenever the thread
\* published it relative to the frame, also when the page was covered or built
\* while thumbnails were purged (Overlay.cpp, load_recent_videos_async).
ShownIsFile ==
    AtRest =>
      /\ ~behind /\ ~failed => [k \in DOMAIN recent_videos |-> recent_videos[k].video] = file
      /\ front /\ ~callback_pending /\ ~dirty => shown = FrontPage

\* The main loop waits for the lock and for the thread, and never for good.
MainProceeds == (main \in {"add", "load", "join"}) ~> (main \in {"idle", "done"})
=============================================================================
