---------------------------- MODULE FramesProofs ----------------------------
(***************************************************************************)
(* Proofs about what the frames of the overlay take from other threads.    *)
(***************************************************************************)
EXTENDS RecentVideos, ReplayAutostart, FiniteSetTheorems, TLAPS

-----------------------------------------------------------------------------
(* RecentVideos, for every set of videos and every length of the list,     *)
(* whenever the thread's steps and the frames' fall.                       *)

VideosOf(list) == [k \in DOMAIN list |-> list[k].video]

\* What the thread is about to publish lists thumbnails that exist.
Pictured(list) == \A k \in DOMAIN list : list[k].thumb => list[k].video \in thumbs

\* The file is not newer than what was read, and a load was started for it.
Current == main # "load" /\ ~behind

ReadInv ==
    /\ loader \in {"purge", "publish"} => \A l \in loaded : Pictured(l)
    /\ loader # "publish" /\ ~failed => Pictured(recent_videos)

\* Where the thread has published, the list is the file; where it has not, what
\* it read is.  The page is stale only while the thread works or a rebuild waits.
ListInv ==
    /\ file = [k \in DOMAIN file |-> file[k]]
    /\ Current /\ loader \in {"purge", "publish"} => \A l \in loaded : VideosOf(l) = file
    /\ Current /\ loader \in {"loaded", "notify", "ended", "none"} /\ ~failed => VideosOf(recent_videos) = file
    /\ ~callback_pending /\ ~dirty /\ loader \in {"none", "ended", "started", "reading"} => shown = FrontPage

-----------------------------------------------------------------------------
LEMMA CutIsFunction ==
  ASSUME NEW list, NEW f \in Cut(list)
  PROVE  f = [k \in DOMAIN f |-> f[k]]
BY DEF Cut

\* The front page that is built shows the list of now and the thumbnails of now.
LEMMA FrontPageKept ==
  ASSUME UNCHANGED <<recent_videos, thumbs>>
  PROVE  FrontPage' = FrontPage
BY DEF FrontPage

LEMMA PicturedKept ==
  ASSUME NEW list, Pictured(list), \A k \in DOMAIN list : list[k].video \in thumbs => list[k].video \in thumbs'
  PROVE  Pictured(list)'
BY DEF Pictured

-----------------------------------------------------------------------------
(* The thumbnails. *)

LEMMA ReadInit == RecentInit => ReadInv
BY DEF RecentInit, ReadInv, Pictured

\* A purge keeps what was read.
LEMMA PurgeKeeps ==
  ASSUME NEW l \in loaded, Pictured(l), PurgeCache
  PROVE  Pictured(l)'
<1>1. ASSUME NEW k \in DOMAIN l, l[k].thumb
      PROVE  l[k].video \in LoadedThumbs
  <2>1. l[k] \in UNION {ToSet(m) : m \in loaded}
    BY DEF ToSet
  <2> QED BY <1>1, <2>1 DEF LoadedThumbs
<1>2. \A k \in DOMAIN l : l[k].thumb => l[k].video \in thumbs'
  BY <1>1 DEF PurgeCache, Pictured
<1> QED BY <1>2 DEF Pictured

LEMMA ReadNext ==
  ASSUME ReadInv, [RecentNext]_recentVars
  PROVE  ReadInv'
<1>1. CASE UNCHANGED <<thumbs, loader, loaded, recent_videos, failed>>
  BY <1>1 DEF ReadInv, Pictured
<1>2. CASE LoadRecentVideosAsync
  BY <1>2 DEF LoadRecentVideosAsync, history, ReadInv, Pictured
<1>3. CASE Join
  BY <1>3 DEF Join, history, ReadInv, Pictured
<1>4. CASE GetRecentVideos
  BY <1>4 DEF GetRecentVideos, history, ReadInv, Pictured
<1>5. CASE ReadVideos
  <2>1. /\ loader = "reading" /\ loader' \in {"purge", "publish"} /\ thumbs \subseteq thumbs'
        /\ UNCHANGED <<recent_videos, failed>>
    BY <1>5 DEF ReadVideos, history
  <2>2. ASSUME NEW l \in loaded' PROVE Pictured(l)'
    <3>1. CASE loaded' = {<<>>}
      BY <2>2, <3>1 DEF Pictured
    <3>2. CASE loaded' = {[k \in DOMAIN file |-> [video |-> file[k], thumb |-> file[k] \in thumbs']]}
      <4>1. \A k \in DOMAIN l : l[k].video = file[k] /\ l[k].thumb = (file[k] \in thumbs')
        BY <2>2, <3>2
      <4> QED BY <4>1 DEF Pictured
    <3> QED BY <1>5, <2>2, <3>1, <3>2 DEF ReadVideos
  <2>3. Pictured(recent_videos) => Pictured(recent_videos)'
    BY <2>1 DEF Pictured
  <2> QED BY <2>1, <2>2, <2>3 DEF ReadInv
<1>6. CASE PurgeCache
  <2>1. loader = "purge" /\ loader' = "publish" /\ loaded' = loaded
    BY <1>6 DEF PurgeCache
  <2>2. \A l \in loaded : Pictured(l)'
    BY <1>6, <2>1, PurgeKeeps DEF ReadInv
  <2> QED BY <2>1, <2>2 DEF ReadInv
<1>7. CASE PublishList
  <2>1. /\ loader = "publish" /\ loader' = "loaded" /\ thumbs' = thumbs
        /\ ~failed' => recent_videos' \in loaded
    BY <1>7 DEF PublishList
  <2>2. ~failed' => Pictured(recent_videos')
    BY <2>1 DEF ReadInv
  <2> QED BY <2>1, <2>2 DEF ReadInv, Pictured
<1>8. CASE EndLoading \/ Notify
  BY <1>8 DEF EndLoading, Notify, history, ReadInv, Pictured
<1>9. CASE UNCHANGED recentVars
  BY <1>1, <1>9 DEF recentVars, loaderVars, history
<1>10. CASE AddRecentVideo \/ LoadDropped \/ HandleEvents \/ User
  BY <1>1, <1>10 DEF AddRecentVideo, LoadDropped, HandleEvents, User, VideoSaved, ShowFrontPage, LeaveFrontPage,
     ReturnToFrontPage, Exit, loaderVars, history
<1> QED BY <1>2, <1>3, <1>4, <1>5, <1>6, <1>7, <1>8, <1>9, <1>10 DEF RecentNext, MainLoop, Loader

\* A video saved while the thread is between reading and purging does not cost a
\* listed video its thumbnail, whatever is saved, loaded, dropped or has failed
\* before (src/src/RecentVideos.cpp, purge_recent_video_cache, and
\* src/src/Overlay.cpp, load_recent_videos_async).
THEOREM RecentSpec_ListedThumbnailsExist == RecentSpec => []ListedThumbnailsExist
<1>1. ReadInv => ListedThumbnailsExist
  BY DEF ReadInv, ListedThumbnailsExist, Pictured, ToSet
<1> QED BY <1>1, ReadInit, ReadNext, PTL DEF RecentSpec

-----------------------------------------------------------------------------
(* The list. *)

LEMMA ListInit == RecentInit => ListInv
<1> SUFFICES ASSUME RecentInit PROVE ListInv
  OBVIOUS
<1>1. file = [k \in DOMAIN file |-> file[k]]
  <2>1. PICK v \in Videos : file \in {<<>>, <<v>>}
    BY DEF RecentInit
  <2>2. file \in Seq({v})
    <3>1. <<>> \in Seq({v}) /\ <<v>> \in Seq({v})
      OBVIOUS
    <3> QED BY <2>1, <3>1
  <2>3. file \in [1..Len(file) -> {v}]
    BY <2>2
  <2> QED BY <2>3
<1>2. recent_videos = <<>> /\ shown = <<>> /\ loader = "started"
  BY DEF RecentInit
<1>3. FrontPage = <<>>
  BY <1>2 DEF FrontPage
<1> QED BY <1>1, <1>2, <1>3 DEF ListInv

LEMMA ListNext ==
  ASSUME ListInv, [RecentNext]_recentVars
  PROVE  ListInv'
<1> USE DEF ListInv, Current, VideosOf
<1>1. CASE UNCHANGED recentVars
  BY <1>1, FrontPageKept DEF recentVars, mainVars, loaderVars, history
<1>2. CASE AddRecentVideo
  <2>1. file' = file \/ \E list : file' \in Cut(list)
    BY <1>2 DEF AddRecentVideo
  <2>2. file' = [k \in DOMAIN file' |-> file'[k]]
    BY <2>1, CutIsFunction
  <2>3. UNCHANGED <<thumbs, shown, dirty, loader, loaded, recent_videos, callback_pending, failed>>
    BY <1>2 DEF AddRecentVideo, loaderVars
  <2>4. main = "add" /\ (Current' => Current /\ file' = file)
    BY <1>2 DEF AddRecentVideo
  <2> HIDE DEF ListInv
  <2>5. FrontPage' = FrontPage
    BY <2>3, FrontPageKept
  <2> QED BY <2>2, <2>3, <2>4, <2>5 DEF ListInv
<1>3. CASE LoadDropped
  BY <1>3, FrontPageKept DEF LoadDropped, loaderVars, history
<1>4. CASE LoadRecentVideosAsync
  BY <1>4, FrontPageKept DEF LoadRecentVideosAsync, history
<1>5. CASE HandleEvents
  <2>1. UNCHANGED <<file, thumbs, main, loader, loaded, recent_videos, behind, failed>>
    BY <1>5 DEF HandleEvents, loaderVars, history
  <2>2. ~callback_pending' /\ ~dirty' => shown' = FrontPage
    BY <1>5 DEF HandleEvents
  <2>3. FrontPage' = FrontPage
    BY <2>1, FrontPageKept
  <2> QED BY <2>1, <2>2, <2>3
<1>6. CASE ShowFrontPage
  BY <1>6, FrontPageKept DEF ShowFrontPage, loaderVars, history
<1>7. CASE VideoSaved \/ LeaveFrontPage \/ ReturnToFrontPage \/ Exit
  BY <1>7, FrontPageKept DEF VideoSaved, LeaveFrontPage, ReturnToFrontPage, Exit, loaderVars, history
<1>8. CASE Join
  BY <1>8, FrontPageKept DEF Join, history
<1>9. CASE GetRecentVideos
  BY <1>9, FrontPageKept DEF GetRecentVideos, mainVars, history
<1>10. CASE ReadVideos
  <2>1. loader' \in {"purge", "publish"} /\ UNCHANGED <<file, recent_videos, main>>
    BY <1>10 DEF ReadVideos, mainVars
  <2>2. ~behind' => \A l \in loaded' : VideosOf(l) = file
    BY <1>10 DEF ReadVideos
  <2> QED BY <2>1, <2>2
<1>11. CASE PurgeCache
  BY <1>11 DEF PurgeCache, mainVars, history
<1>12. CASE PublishList
  <2>1. /\ loader = "publish" /\ loader' = "loaded" /\ loaded' = {} /\ UNCHANGED <<file, main, behind>>
        /\ ~failed' => recent_videos' \in loaded
    BY <1>12 DEF PublishList, mainVars
  <2> QED BY <2>1
<1>13. CASE EndLoading
  BY <1>13 DEF EndLoading, mainVars, history
<1>14. CASE Notify
  BY <1>14 DEF Notify, mainVars, history
<1> QED BY <1>1, <1>2, <1>3, <1>4, <1>5, <1>6, <1>7, <1>8, <1>9, <1>10, <1>11, <1>12, <1>13, <1>14
        DEF RecentNext, MainLoop, User, Loader

\* Once the thread has ended the list is the file, unless no load was started for
\* it (a request came during a load, or a write was reported as failed although it
\* had changed the file), or the load could not read it; and a front page that
\* nothing waits to rebuild shows that list and its thumbnails (src/src/Overlay.cpp,
\* load_recent_videos_async, handle_events and recreate_frontpage_ui_components;
\* src/src/RecentVideos.cpp, add_recent_video).
THEOREM RecentSpec_ShownIsFile == RecentSpec => []ShownIsFile
<1>1. ListInv => ShownIsFile
  BY DEF ListInv, ShownIsFile, AtRest, Current, VideosOf
<1> QED BY <1>1, ListInit, ListNext, PTL DEF RecentSpec

-----------------------------------------------------------------------------
(* ReplayAutostart, for every set of processes, every size of the          *)
(* tracker's table and any number of changes and lost events.              *)

Overlays ==
    [mode : {"off", "startup", "game"}, only_power : BOOLEAN, area : Areas, available : BOOLEAN,
     status : {"none", "replay", "other"}, once : BOOLEAN, manually : BOOLEAN, action : {"idle", "start", "stop"},
     connected : BOOLEAN, startup_connected : BOOLEAN, request : {"no", "manual", "automatic"},
     selecting : {"no", "manual", "automatic", "screenshot"}, checked : BOOLEAN, excused : BOOLEAN]

-----------------------------------------------------------------------------
(* What the handlers of a frame make of an overlay o. *)

\* The fields that only the settings, a selection or the end of a frame change.
SameSettings(o, r) ==
    /\ r \in Overlays
    /\ r.mode = o.mode /\ r.only_power = o.only_power /\ r.excused = o.excused

SameInputs(o, r) ==
    /\ SameSettings(o, r)
    /\ r.selecting = o.selecting /\ r.connected = o.connected

\* A hotkey or an edge starts a replay or ends it, unless a region is selected.
Pressed(o, manually, r) ==
    /\ SameInputs(o, r) /\ r.action = o.action /\ r.startup_connected = o.startup_connected
    /\ o.selecting # "no" \/ o.status = "other" => r = o
    /\ o.selecting = "no" /\ o.status = "replay" => r.status = "none"
    /\ o.selecting = "no" /\ o.status = "none" /\ r.status = "replay" => r.manually = manually

LEMMA PressReplayResult ==
  ASSUME NEW o \in Overlays, NEW finished \in BOOLEAN, NEW manually \in BOOLEAN, NEW works \in BOOLEAN
  PROVE  Pressed(o, manually, PressReplay(o, finished, manually, works))
<1> DEFINE r == PressReplay(o, finished, manually, works)
           begun == [o EXCEPT !.manually = manually, !.once = TRUE]
<1>1. /\ begun \in Overlays /\ SameInputs(o, begun) /\ begun.action = o.action
      /\ begun.startup_connected = o.startup_connected /\ begun.manually = manually /\ begun.status = o.status
  BY DEF Overlays, SameInputs, SameSettings
<1> SUFFICES Pressed(o, manually, r)
  OBVIOUS
<1> HIDE DEF r, begun
<1>2. CASE o.selecting # "no" \/ o.status = "other"
  <2>1. r = o
    BY <1>2 DEF PressReplay, r
  <2> QED BY <1>2, <2>1 DEF Pressed, SameInputs, SameSettings
<1>3. CASE o.selecting = "no" /\ o.status = "replay"
  <2>1. r = [begun EXCEPT !.status = "none", !.manually = FALSE]
    BY <1>3 DEF PressReplay, r, begun
  <2>a. r \in Overlays
    BY <1>1, <2>1 DEF Overlays
  <2>b. DOMAIN begun = {"mode", "only_power", "area", "available", "status", "once", "manually", "action",
                        "connected", "startup_connected", "request", "selecting", "checked", "excused"}
    BY <1>1 DEF Overlays
  <2>c. r.status = "none" /\ \A f \in DOMAIN begun : f \notin {"status", "manually"} => r[f] = begun[f]
    BY <2>1, <2>b
  <2>2. r.status = "none" /\ SameInputs(begun, r)
        /\ r.action = begun.action /\ r.startup_connected = begun.startup_connected
    BY <2>a, <2>b, <2>c DEF SameInputs, SameSettings
  <2>3. SameInputs(o, r) /\ r.action = o.action /\ r.startup_connected = o.startup_connected
    BY <1>1, <2>2 DEF SameInputs, SameSettings
  <2> QED BY <1>3, <2>2, <2>3 DEF Pressed
<1>4. CASE o.selecting = "no" /\ o.status = "none"
  <2>1. CASE r = [begun EXCEPT !.request = IF manually THEN "manual" ELSE "automatic"]
    <3>1. /\ SameInputs(o, r) /\ r.action = o.action /\ r.startup_connected = o.startup_connected
          /\ r.manually = manually
      BY <1>1, <2>1 DEF SameInputs, SameSettings, Overlays
    <3> QED BY <1>4, <3>1 DEF Pressed
  <2>2. CASE r = [begun EXCEPT !.status = IF works THEN "replay" ELSE "none"]
    <3>1. /\ SameInputs(o, r) /\ r.action = o.action /\ r.startup_connected = o.startup_connected
          /\ r.manually = manually
      BY <1>1, <2>2 DEF SameInputs, SameSettings, Overlays
    <3> QED BY <1>4, <3>1 DEF Pressed
  <2> QED BY <1>4, <2>1, <2>2 DEF PressReplay, r, begun
<1>5. o.status \in {"none", "replay", "other"}
  BY DEF Overlays
<1> QED BY <1>2, <1>3, <1>4, <1>5

\* What runs by itself at startup and needs the power supply was noted with it.
Noted(o) ==
    o.mode = "startup" /\ o.only_power /\ o.status = "replay" /\ ~o.manually => o.startup_connected

Updated(o, r) ==
    /\ SameInputs(o, r) /\ r.action = o.action
    /\ o.mode # "startup" => r = o
    /\ o.selecting = "no" /\ Noted(o) => Noted(r)
    /\ /\ o.mode = "startup" /\ o.only_power /\ o.selecting = "no" /\ Noted(o)
       /\ r.status = "replay" /\ ~r.manually
       => r.connected

LEMMA FollowPowerResult ==
  ASSUME NEW o \in Overlays, NEW works \in BOOLEAN, o.mode = "startup", o.only_power
  PROVE  Updated(o, FollowPower(o, works))
<1> DEFINE r == FollowPower(o, works)
           noted == [o EXCEPT !.startup_connected = o.connected]
           looks == o.status = "replay" \/ (o.status = "none" /\ (o.available \/ o.once))
           changed == o.connected # o.startup_connected
           starts == o.status = "none" /\ o.connected
           stops == o.status = "replay" /\ ~o.connected /\ ~o.manually
           pressed == PressReplay(noted, FALSE, FALSE, works)
<1>1. /\ noted \in Overlays /\ SameInputs(o, noted) /\ noted.action = o.action /\ noted.status = o.status
      /\ noted.startup_connected = o.connected /\ noted.manually = o.manually
  BY DEF Overlays, SameInputs, SameSettings
<1>2. Pressed(noted, FALSE, pressed)
  BY <1>1, PressReplayResult
<1> SUFFICES Updated(o, r)
  OBVIOUS
<1> HIDE DEF r, noted, pressed
<1>3. CASE ~looks
  <2>1. r = o
    BY <1>3 DEF FollowPower, r
  <2> QED BY <1>3, <2>1 DEF Updated, SameInputs, SameSettings
<1>4. CASE looks /\ changed /\ (starts \/ stops)
  <2>1. r = pressed
    BY <1>4 DEF FollowPower, r, noted, pressed
  <2>2. SameInputs(o, r) /\ r.action = o.action /\ r.startup_connected = o.connected /\ r.connected = o.connected
    BY <1>1, <1>2, <2>1 DEF Pressed, SameInputs, SameSettings
  <2>3. o.selecting = "no" /\ r.status = "replay" => o.connected
    BY <1>1, <1>2, <1>4, <2>1 DEF Pressed, SameInputs
  <2> QED BY <2>2, <2>3 DEF Updated, Noted, SameInputs, SameSettings
<1>5. CASE looks /\ ~(changed /\ (starts \/ stops))
  <2>1. r = noted
    BY <1>5 DEF FollowPower, r, noted
  <2>2. SameInputs(o, r) /\ r.action = o.action
    BY <1>1, <2>1
  <2>3. /\ r.status = o.status /\ r.manually = o.manually /\ r.mode = o.mode /\ r.only_power = o.only_power
        /\ r.startup_connected = o.connected /\ r.connected = o.connected
    BY <1>1, <2>1 DEF SameInputs, SameSettings
  <2>4. o.connected \in BOOLEAN /\ o.startup_connected \in BOOLEAN
    BY DEF Overlays
  <2>5. Noted(o) /\ r.status = "replay" /\ ~r.manually => o.connected
    BY <1>5, <2>3, <2>4 DEF Noted
  <2> QED BY <2>2, <2>3, <2>5 DEF Updated, Noted
<1> QED BY <1>3, <1>4, <1>5

LEMMA UpdateProgramResult ==
  ASSUME NEW o \in Overlays, NEW works \in BOOLEAN
  PROVE  Updated(o, UpdateProgram(o, works))
<1> DEFINE r == UpdateProgram(o, works)
<1> SUFFICES Updated(o, r)
  OBVIOUS
<1> HIDE DEF r
<1>1. CASE o.mode # "startup"
  <2>1. r = o
    BY <1>1 DEF UpdateProgram, r
  <2> QED BY <1>1, <2>1 DEF Updated, SameInputs, SameSettings
<1>2. CASE o.mode = "startup" /\ ~o.only_power
  <2>1. r = o \/ r = PressReplay(o, FALSE, FALSE, works)
    BY <1>2 DEF UpdateProgram, StartOnce, r
  <2>2. SameInputs(o, r) /\ r.action = o.action
    <3>1. CASE r = o
      BY <3>1 DEF SameInputs, SameSettings
    <3>2. CASE r = PressReplay(o, FALSE, FALSE, works)
      BY <3>2, PressReplayResult DEF Pressed
    <3> QED BY <2>1, <3>1, <3>2
  <2> QED BY <1>2, <2>2 DEF Updated, Noted, SameInputs, SameSettings
<1>3. CASE o.mode = "startup" /\ o.only_power
  <2>1. r = FollowPower(o, works)
    BY <1>3 DEF UpdateProgram, r
  <2> QED BY <1>3, <2>1, FollowPowerResult
<1>4. o.only_power \in BOOLEAN
  BY DEF Overlays
<1> QED BY <1>1, <1>2, <1>3, <1>4

\* An update: what needs the power supply runs with it.
LEMMA UpdateStatusResult ==
  ASSUME NEW o \in Overlays, NEW works \in BOOLEAN, power \in BOOLEAN,
         NEW r, r = UpdateStatus(o, works)
  PROVE  /\ SameSettings(o, r) /\ r.selecting = o.selecting /\ r.action = o.action
         /\ o.mode # "off" => r.connected = power
         /\ o.mode # "startup" => r.status = o.status /\ r.manually = o.manually
         /\ o.selecting = "no" /\ Noted(o) => Noted(r)
         /\ /\ o.mode = "startup" /\ o.only_power /\ o.selecting = "no" /\ Noted(o)
            /\ r.status = "replay" /\ ~r.manually
            => power
<1> DEFINE c == IF o.mode = "off" THEN o ELSE [o EXCEPT !.connected = power]
<1>1. /\ SameSettings(o, c) /\ c.selecting = o.selecting /\ c.action = o.action
      /\ (o.mode # "off" => c.connected = power) /\ c.status = o.status /\ c.manually = o.manually
      /\ c.startup_connected = o.startup_connected
  <2>1. CASE o.mode = "off"
    BY <2>1 DEF SameSettings
  <2>2. CASE o.mode # "off"
    BY <2>2 DEF SameSettings, Overlays
  <2> QED BY <2>1, <2>2
<1>2. r = UpdateProgram(c, works)
  BY DEF UpdateStatus
<1> HIDE DEF c
<1>3. Updated(c, r)
  BY <1>1, <1>2, UpdateProgramResult DEF SameSettings
<1>4. Noted(o) => Noted(c)
  BY <1>1 DEF Noted, SameSettings
<1> QED BY <1>1, <1>3, <1>4 DEF Updated, SameInputs, SameSettings

\* The tracker's word starts a replay or ends it, once.
LEMMA UpdateGameResult ==
  ASSUME NEW o \in Overlays, NEW works \in BOOLEAN, NEW r, r = UpdateGame(o, works)
  PROVE  /\ SameInputs(o, r)
         /\ o.mode # "game" => r = o
         /\ o.mode = "game" => r.action = "idle"
         /\ o.mode = "game" /\ o.selecting = "no" /\ r.status = "replay" /\ ~r.manually
            => /\ o.only_power => r.connected
               /\ \/ o.status = "replay" /\ ~o.manually /\ o.action # "stop"
                  \/ o.status = "none" /\ o.action = "start"
<1> DEFINE action == IF o.manually THEN "idle" ELSE o.action
           starts == o.status = "none" /\ action = "start" /\ (o.only_power => o.connected)
           stops == o.status = "replay" /\ (action = "stop" \/ (o.only_power /\ ~o.connected))
           pressed == PressReplay(o, FALSE, FALSE, works)
           acted == IF starts \/ stops THEN pressed ELSE o
<1>1. CASE o.mode # "game"
  <2>1. r = o
    BY <1>1 DEF UpdateGame
  <2> QED BY <1>1, <2>1 DEF SameInputs, SameSettings
<1>2. CASE o.mode = "game"
  <2>1. r = [acted EXCEPT !.action = "idle"]
    BY <1>2 DEF UpdateGame
  <2>2. Pressed(o, FALSE, pressed)
    BY PressReplayResult
  <2> HIDE DEF pressed
  <2>3. SameInputs(o, acted) /\ acted \in Overlays
    BY <2>2 DEF Pressed, SameInputs, SameSettings
  <2>4. o.selecting = "no" /\ acted.status = "replay" /\ ~acted.manually
        => /\ o.only_power => o.connected
           /\ \/ o.status = "replay" /\ ~o.manually /\ o.action # "stop"
              \/ o.status = "none" /\ o.action = "start"
    <3>1. CASE starts
      BY <3>1
    <3>2. CASE stops
      BY <2>2, <3>2 DEF Pressed
    <3>3. CASE ~starts /\ ~stops
      BY <3>3
    <3> QED BY <3>1, <3>2, <3>3
  <2> HIDE DEF acted
  <2>5. /\ SameInputs(o, r) /\ r.action = "idle" /\ r.status = acted.status /\ r.manually = acted.manually
    BY <2>1, <2>3 DEF SameInputs, SameSettings, Overlays
  <2> QED BY <1>2, <2>4, <2>5 DEF SameInputs
<1> QED BY <1>1, <1>2

LEMMA EndFrameResult ==
  ASSUME NEW o \in Overlays, NEW r, r = EndFrame(o)
  PROVE  /\ SameSettings(o, r) /\ r.action = o.action
         /\ r.selecting = "no" => r = o
BY DEF EndFrame, SameSettings, Overlays

-----------------------------------------------------------------------------
(* The frame. *)

Automatic(o) == o.status = "replay" /\ ~o.manually /\ ~o.excused

LEMMA FrameResult ==
  ASSUME ui \in Overlays, power \in BOOLEAN,
         NEW died \in BOOLEAN, NEW elapsed \in BOOLEAN, NEW works \in BOOLEAN, Frame(died, elapsed, works),
         NEW heard, heard = ReadTracker(ui).action
  PROVE  /\ ui' \in Overlays /\ ui'.mode = ui.mode /\ ui'.only_power = ui.only_power /\ ui'.checked = elapsed
         /\ ui'.action = IF ui.mode = "game" THEN "idle" ELSE heard
         /\ Automatic(ui') /\ ui.status = "replay" => ~ui.excused
         /\ Automatic(ui') /\ ui.mode = "startup" /\ ui.only_power /\ Noted(ui)
            => ui'.startup_connected /\ (elapsed => power)
         /\ Automatic(ui') /\ ui.mode = "game"
            => /\ ui.only_power /\ elapsed => power
               /\ (Automatic(ui) /\ heard # "stop") \/ heard = "start"
<1> DEFINE read == ReadTracker(ui)
           polled == IF died THEN SessionDied(read) ELSE read
           updated == IF elapsed THEN UpdateStatus(polled, works) ELSE polled
           game == UpdateGame(updated, works)
           ended == EndFrame(game)
           excused == (ui.excused /\ ~Resting(ui)) \/ ui.selecting # "no" \/ ended.selecting # "no"
<1>1. /\ SameInputs(ui, read) /\ read.status = ui.status /\ read.manually = ui.manually
      /\ read.startup_connected = ui.startup_connected /\ read.action = heard
  BY DEF ReadTracker, SameInputs, SameSettings, Overlays
<1>2. ui' = [ended EXCEPT !.checked = elapsed, !.excused = excused]
  BY DEF Frame
<1> HIDE DEF read, polled, updated
<1>3. /\ SameInputs(ui, polled) /\ polled.action = heard
      /\ polled.startup_connected = ui.startup_connected
      /\ \/ polled.status = ui.status /\ polled.manually = ui.manually
         \/ polled.status = "none" /\ polled.manually
  <2>1. CASE died
    <3>1. polled = [read EXCEPT !.status = "none", !.manually = TRUE]
      BY <2>1 DEF SessionDied, polled
    <3> QED BY <1>1, <3>1 DEF SameInputs, SameSettings, Overlays
  <2>2. CASE ~died
    BY <1>1, <2>2 DEF polled
  <2> QED BY <2>1, <2>2
<1>4. Noted(ui) => Noted(polled)
  BY <1>3 DEF Noted, SameInputs, SameSettings
<1>5. /\ SameSettings(ui, updated) /\ updated.selecting = ui.selecting /\ updated.action = heard
      /\ elapsed /\ ui.mode # "off" => updated.connected = power
      /\ ui.mode # "startup" => updated.status = polled.status /\ updated.manually = polled.manually
      /\ ui.selecting = "no" /\ Noted(ui) => Noted(updated)
      /\ /\ elapsed /\ ui.mode = "startup" /\ ui.only_power /\ ui.selecting = "no" /\ Noted(ui)
         /\ updated.status = "replay" /\ ~updated.manually
         => power
  <2>1. CASE elapsed
    <3>1. updated = UpdateStatus(polled, works) /\ polled \in Overlays
      BY <1>3, <2>1 DEF SameInputs, SameSettings, updated
    <3>2. /\ SameSettings(polled, updated) /\ updated.selecting = polled.selecting /\ updated.action = polled.action
          /\ polled.mode # "off" => updated.connected = power
          /\ polled.mode # "startup" => updated.status = polled.status /\ updated.manually = polled.manually
          /\ polled.selecting = "no" /\ Noted(polled) => Noted(updated)
          /\ /\ polled.mode = "startup" /\ polled.only_power /\ polled.selecting = "no" /\ Noted(polled)
             /\ updated.status = "replay" /\ ~updated.manually
             => power
      BY <3>1, UpdateStatusResult
    <3> QED BY <1>3, <1>4, <3>2 DEF SameInputs, SameSettings
  <2>2. CASE ~elapsed
    <3>1. updated = polled
      BY <2>2 DEF updated
    <3> QED BY <1>3, <1>4, <2>2, <3>1 DEF SameInputs
  <2> QED BY <2>1, <2>2
<1>6. updated \in Overlays
  BY <1>5 DEF SameSettings
<1>7. /\ SameInputs(updated, game)
      /\ updated.mode # "game" => game = updated
      /\ updated.mode = "game" => game.action = "idle"
      /\ updated.mode = "game" /\ updated.selecting = "no" /\ game.status = "replay" /\ ~game.manually
         => /\ updated.only_power => game.connected
            /\ \/ updated.status = "replay" /\ ~updated.manually /\ updated.action # "stop"
               \/ updated.status = "none" /\ updated.action = "start"
  BY <1>6, UpdateGameResult
<1> HIDE DEF game
<1>8. /\ SameSettings(game, ended) /\ ended.action = game.action
      /\ ended.selecting = "no" => ended = game
  BY <1>7, EndFrameResult DEF SameInputs, SameSettings
<1> HIDE DEF ended
<1>9. excused \in BOOLEAN
  BY DEF Resting, Overlays
<1> HIDE DEF excused
<1>10. /\ ui' \in Overlays /\ ui'.mode = ended.mode /\ ui'.only_power = ended.only_power /\ ui'.checked = elapsed
       /\ ui'.action = ended.action /\ ui'.excused = excused /\ ui'.status = ended.status
       /\ ui'.manually = ended.manually /\ ui'.startup_connected = ended.startup_connected
  <2>1. ended \in Overlays /\ ui' = [ended EXCEPT !.checked = elapsed, !.excused = excused]
    BY <1>2, <1>8 DEF SameSettings
  <2>2. elapsed \in BOOLEAN
    OBVIOUS
  <2>3. ui' \in Overlays
    BY <1>9, <2>1, <2>2 DEF Overlays
  <2>4. DOMAIN ended = {"mode", "only_power", "area", "available", "status", "once", "manually", "action",
                        "connected", "startup_connected", "request", "selecting", "checked", "excused"}
    BY <2>1 DEF Overlays
  <2>5. /\ ui'.checked = elapsed /\ ui'.excused = excused
        /\ \A f \in DOMAIN ended : f \notin {"checked", "excused"} => ui'[f] = ended[f]
    BY <2>1, <2>4
  <2> QED BY <2>3, <2>4, <2>5
<1>11. /\ ui'.mode = ui.mode /\ ui'.only_power = ui.only_power
       /\ ui'.action = IF ui.mode = "game" THEN "idle" ELSE heard
  BY <1>5, <1>7, <1>8, <1>10 DEF SameInputs, SameSettings
<1>12. ASSUME Automatic(ui')
       PROVE  /\ ended = game /\ ui.selecting = "no" /\ game.status = "replay" /\ ~game.manually
              /\ ui.status = "replay" => ~ui.excused
  BY <1>8, <1>10, <1>12 DEF Automatic, excused, Resting
<1>13. ASSUME Automatic(ui'), ui.mode = "startup", ui.only_power, Noted(ui)
       PROVE  ui'.startup_connected /\ (elapsed => power)
  <2>1. game = updated
    BY <1>5, <1>7, <1>13 DEF SameSettings
  <2> QED BY <1>5, <1>10, <1>12, <1>13, <2>1 DEF Noted, SameSettings
<1>14. ASSUME Automatic(ui'), ui.mode = "game"
       PROVE  /\ ui.only_power /\ elapsed => power
              /\ (Automatic(ui) /\ heard # "stop") \/ heard = "start"
  <2>1. /\ updated.only_power => game.connected
        /\ \/ updated.status = "replay" /\ ~updated.manually /\ heard # "stop"
           \/ updated.status = "none" /\ heard = "start"
    BY <1>5, <1>7, <1>12, <1>14 DEF SameSettings
  <2>2. game.connected = updated.connected /\ updated.only_power = ui.only_power
    BY <1>5, <1>7 DEF SameInputs, SameSettings
  <2>3. updated.status = polled.status /\ updated.manually = polled.manually
    BY <1>5, <1>14
  <2> QED BY <1>3, <1>5, <1>12, <1>14, <2>1, <2>2, <2>3 DEF Automatic
<1> QED BY <1>10, <1>11, <1>12, <1>13, <1>14

-----------------------------------------------------------------------------
(* The user. *)

UserStep ==
    \/ \E works \in BOOLEAN : PressHotkey(works) \/ \E done \in BOOLEAN : EndSelection(works, done)
    \/ OtherSession \/ SelectForScreenshot \/ PlugPower \/ ChangeDevices
    \/ \E mode \in {"off", "startup", "game"}, only_power \in BOOLEAN : ChangeSettings(mode, only_power)

\* Nothing but a frame lets a replay turn itself on.
LEMMA UserStepResult ==
  ASSUME ui \in Overlays, UserStep
  PROVE  /\ ui' \in Overlays /\ ~ui'.checked /\ ui'.action = ui.action
         /\ Automatic(ui') => /\ Automatic(ui) /\ ui'.mode = ui.mode /\ ui'.only_power = ui.only_power
                              /\ ui'.startup_connected = ui.startup_connected
<1>1. ASSUME NEW works \in BOOLEAN, PressHotkey(works)
      PROVE  /\ ui' \in Overlays /\ ~ui'.checked /\ ui'.action = ui.action
             /\ Automatic(ui') => /\ Automatic(ui) /\ ui'.mode = ui.mode /\ ui'.only_power = ui.only_power
                                  /\ ui'.startup_connected = ui.startup_connected
  <2> DEFINE r == PressReplay(ui, FALSE, TRUE, works)
  <2>1. Pressed(ui, TRUE, r)
    BY PressReplayResult
  <2>2. ui' = [r EXCEPT !.checked = FALSE]
    BY <1>1 DEF PressHotkey, UserDoes
  <2> HIDE DEF r
  <2>3. r \in Overlays
    BY <2>1 DEF Pressed, SameInputs, SameSettings
  <2>4. /\ ui' \in Overlays /\ ~ui'.checked /\ ui'.action = r.action /\ ui'.status = r.status
        /\ ui'.manually = r.manually /\ ui'.excused = r.excused /\ ui'.mode = r.mode
        /\ ui'.only_power = r.only_power /\ ui'.startup_connected = r.startup_connected
    BY <2>2, <2>3 DEF Overlays
  <2>5. Automatic(ui') => r = ui
    <3>1. ui.selecting # "no" \/ ui.status \in {"none", "replay", "other"}
      BY DEF Overlays
    <3> QED BY <2>1, <2>4, <3>1 DEF Pressed, Automatic
  <2> QED BY <2>1, <2>4, <2>5 DEF Pressed, SameInputs, SameSettings, Automatic
<1>2. ASSUME NEW works \in BOOLEAN, NEW done \in BOOLEAN, EndSelection(works, done)
      PROVE  ui' \in Overlays /\ ~ui'.checked /\ ui'.action = ui.action /\ ui'.excused
  <2> DEFINE o == [ui EXCEPT !.selecting = "no"]
             manually == ui.selecting = "manual"
             r == IF done /\ ui.selecting # "screenshot" THEN PressReplay(o, TRUE, manually, works) ELSE o
  <2>1. o \in Overlays /\ o.action = ui.action
    BY DEF Overlays
  <2>2. ui' = [r EXCEPT !.checked = FALSE, !.excused = TRUE]
    BY <1>2 DEF EndSelection
  <2> HIDE DEF o
  <2>3. Pressed(o, manually, PressReplay(o, TRUE, manually, works))
    BY <2>1, PressReplayResult
  <2>4. r \in Overlays /\ r.action = ui.action
    BY <2>1, <2>3 DEF Pressed, SameInputs, SameSettings
  <2> HIDE DEF r
  <2> QED BY <2>2, <2>4 DEF Overlays
<1>3. CASE OtherSession \/ SelectForScreenshot \/ PlugPower \/ ChangeDevices
  <2>1. CASE OtherSession
    BY <2>1 DEF OtherSession, UserDoes, Overlays, Automatic
  <2>2. CASE SelectForScreenshot
    BY <2>2 DEF SelectForScreenshot, UserDoes, Overlays, Automatic
  <2>3. CASE PlugPower
    BY <2>3 DEF PlugPower, Overlays, Automatic
  <2>4. CASE ChangeDevices
    BY <2>4 DEF ChangeDevices, UserDoes, Overlays, Automatic
  <2> QED BY <1>3, <2>1, <2>2, <2>3, <2>4
<1>4. ASSUME NEW mode \in {"off", "startup", "game"}, NEW only_power \in BOOLEAN, ChangeSettings(mode, only_power)
      PROVE  ui' \in Overlays /\ ~ui'.checked /\ ui'.action = ui.action /\ ui'.excused
  BY <1>4 DEF ChangeSettings, UserDoes, Overlays
<1> QED BY <1>1, <1>2, <1>3, <1>4 DEF UserStep, Automatic

-----------------------------------------------------------------------------
(* The power supply. *)

\* The steps of the processes and the tracker, which leave the overlay alone.
TrackerStep ==
    \/ \E p \in Pids : Ends(p) \/ ScanProcess(p) \/ \E program \in {"game", "other"} : Exec(p, program)
    \/ ReceiveEvent \/ SweepDeadGames

LEMMA Steps ==
  ASSUME AutostartNext
  PROVE  \/ TrackerStep /\ ui' = ui /\ power' = power
         \/ \E works, died, elapsed \in BOOLEAN : Frame(died, elapsed, works)
         \/ UserStep
<1>1. TrackerStep => ui' = ui /\ power' = power
  BY DEF TrackerStep, Ends, ScanProcess, Exec, ReceiveEvent, SweepDeadGames, overlayVars
<1> QED BY <1>1 DEF AutostartNext, TrackerStep, UserStep

PowerInv ==
    /\ ui \in Overlays /\ power \in BOOLEAN
    /\ ui.excused \/ Noted(ui)
    /\ BatteryStopsReplay

LEMMA PowerInit == AutostartInit => PowerInv
BY DEF AutostartInit, PowerInv, Overlays, Noted, BatteryStopsReplay

LEMMA PowerNext ==
  ASSUME PowerInv, [AutostartNext]_autostartVars
  PROVE  PowerInv'
<1> USE DEF PowerInv
<1>1. CASE ui' = ui /\ power' = power
  BY <1>1 DEF Noted, BatteryStopsReplay
<1>2. ASSUME NEW works \in BOOLEAN, NEW died \in BOOLEAN, NEW elapsed \in BOOLEAN, Frame(died, elapsed, works)
      PROVE  PowerInv'
  <2> DEFINE heard == ReadTracker(ui).action
  <2>1. /\ ui' \in Overlays /\ ui'.mode = ui.mode /\ ui'.only_power = ui.only_power /\ ui'.checked = elapsed
        /\ Automatic(ui') /\ ui.status = "replay" => ~ui.excused
        /\ Automatic(ui') /\ ui.mode = "startup" /\ ui.only_power /\ Noted(ui)
           => ui'.startup_connected /\ (elapsed => power)
        /\ Automatic(ui') /\ ui.mode = "game" /\ ui.only_power /\ elapsed => power
    BY <1>2, FrameResult
  <2>2. power' = power
    BY <1>2 DEF Frame
  <2>3. Automatic(ui') => Noted(ui)
    BY <2>1 DEF Noted
  <2>4. (ui.excused \/ Noted(ui))'
    BY <2>1, <2>3 DEF Noted, Automatic
  <2>5. ui.mode \in {"off", "startup", "game"}
    BY DEF Overlays
  <2>6. BatteryStopsReplay'
    BY <2>1, <2>2, <2>3, <2>5 DEF BatteryStopsReplay, Automatic
  <2> QED BY <2>1, <2>2, <2>4, <2>6
<1>3. CASE UserStep
  <2>1. power' \in BOOLEAN
    BY <1>3 DEF UserStep, PressHotkey, EndSelection, OtherSession, SelectForScreenshot, PlugPower, ChangeDevices,
                ChangeSettings, UserDoes
  <2> QED BY <1>3, <2>1, UserStepResult DEF Noted, Automatic, BatteryStopsReplay
<1> QED BY <1>1, <1>2, <1>3, Steps DEF autostartVars

\* A replay that turned itself on and needs the power supply is off after the
\* first update without it, whatever the user, the tracker and the sessions do
\* meanwhile (src/src/Overlay.cpp, update_replay_program_startup_status and
\* update_gsr_game_tracker_replay_status).
THEOREM AutostartSpec_BatteryStopsReplay == AutostartSpec => []BatteryStopsReplay
<1>1. PowerInv => BatteryStopsReplay
  BY DEF PowerInv
<1> QED BY <1>1, PowerInit, PowerNext, PTL DEF AutostartSpec

-----------------------------------------------------------------------------
(* The tracker's table. *)

Lines == {"launched", "exited"}
Events == [pid : Pids, what : {"exec", "exit"}]

\* The exit of p waits to be received.
Leaves(p) == \E i \in 1..Len(events) : events[i] = [pid |-> p, what |-> "exit"]

TrackerTypeOK ==
    /\ runs \in [Pids -> {"no", "game", "other"}] /\ events \in Seq(Events)
    /\ overrun \in BOOLEAN /\ swept \in BOOLEAN
    /\ games \in SUBSET Pids /\ IsFiniteSet(games) /\ game_count \in Int
    /\ lines \in Seq(Lines) /\ said \in Lines \cup {"nothing"}

\* Until a sweep met a dead game, the count is that of the table, the last word
\* tells whether it is empty, and a game that has ended is about to be removed
\* unless events were lost.
TableInv ==
    /\ TrackerTypeOK
    /\ ~swept => game_count = Cardinality(games) /\ (said = "launched" <=> games # {})
    /\ ~swept /\ ~overrun => \A p \in games : runs[p] = "no" => Leaves(p)

\* What a process does to the table, when it is added or removed.
LEMMA CheckProcessResult ==
  ASSUME TrackerTypeOK, NEW p \in Pids, CheckProcess(p)
  PROVE  /\ games' \in SUBSET Pids /\ IsFiniteSet(games') /\ game_count' \in Int
         /\ Silent \/ Says("launched")
         /\ \A q \in games' : q \in games \/ (q = p /\ runs[p] = "game")
         /\ game_count = Cardinality(games) /\ (said = "launched" <=> games # {})
            => game_count' = Cardinality(games') /\ (said' = "launched" <=> games' # {})
<1>1. CASE p \in games \/ runs[p] # "game" \/ Cardinality(games) = MaxGames
  BY <1>1 DEF CheckProcess, Silent, TrackerTypeOK
<1>2. CASE ~(p \in games \/ runs[p] # "game" \/ Cardinality(games) = MaxGames)
  <2>1. /\ games' = games \cup {p} /\ game_count' = game_count + 1
        /\ IF game_count = 0 THEN Says("launched") ELSE Silent
    BY <1>2 DEF CheckProcess
  <2>2. IsFiniteSet(games') /\ Cardinality(games') = Cardinality(games) + 1
    BY <1>2, <2>1, FS_AddElement DEF TrackerTypeOK
  <2>3. Cardinality(games) = 0 <=> games = {}
    BY FS_EmptySet DEF TrackerTypeOK
  <2> QED BY <1>2, <2>1, <2>2, <2>3 DEF Says, Silent, TrackerTypeOK
<1> QED BY <1>1, <1>2

LEMMA RemoveGameResult ==
  ASSUME TrackerTypeOK, NEW p \in Pids, RemoveGame(p)
  PROVE  /\ games' = games \ {p} /\ IsFiniteSet(games') /\ game_count' \in Int
         /\ Silent \/ Says("exited")
         /\ game_count = Cardinality(games) /\ (said = "launched" <=> games # {})
            => game_count' = Cardinality(games') /\ (said' = "launched" <=> games' # {})
<1>1. CASE p \notin games
  BY <1>1 DEF RemoveGame, Silent, TrackerTypeOK
<1>2. CASE p \in games
  <2>1. /\ games' = games \ {p} /\ game_count' = game_count - 1
        /\ IF game_count = 1 THEN Says("exited") ELSE Silent
    BY <1>2 DEF RemoveGame
  <2>2. IsFiniteSet(games') /\ Cardinality(games') = Cardinality(games) - 1
    BY <1>2, <2>1, FS_RemoveElement DEF TrackerTypeOK
  <2>3. Cardinality(games') = 0 <=> games' = {}
    BY <2>2, FS_EmptySet
  <2>4. Cardinality(games) \in Nat
    BY FS_CardinalityType DEF TrackerTypeOK
  <2> QED BY <1>2, <2>1, <2>2, <2>3, <2>4 DEF Says, Silent, TrackerTypeOK
<1> QED BY <1>1, <1>2

LEMMA TableInit == AutostartInit => TableInv
<1> SUFFICES ASSUME AutostartInit PROVE TableInv
  OBVIOUS
<1>1. IsFiniteSet({}) /\ Cardinality({}) = 0
  BY FS_EmptySet
<1>2. TrackerTypeOK
  <2>1. runs \in [Pids -> {"no", "game", "other"}]
    <3>1. runs \in [Pids -> {"no", "game"}]
      BY DEF AutostartInit
    <3> QED BY <3>1
  <2>2. events = <<>> /\ lines = <<>> /\ overrun = FALSE /\ swept = FALSE /\ games = {} /\ game_count = 0
        /\ said = "nothing"
    BY DEF AutostartInit
  <2>3. events \in Seq(Events) /\ lines \in Seq(Lines)
    BY <2>2
  <2>4. games \in SUBSET Pids /\ IsFiniteSet(games)
    BY <1>1, <2>2
  <2>5. said \in Lines \cup {"nothing"}
    BY <2>2
  <2>6. game_count \in Int
    BY <2>2
  <2>7. overrun \in BOOLEAN /\ swept \in BOOLEAN
    BY <2>2, Zenon
  <2> QED BY <2>1, <2>3, <2>4, <2>5, <2>6, <2>7 DEF TrackerTypeOK
<1>3. swept = FALSE /\ game_count = Cardinality(games) /\ games = {} /\ said = "nothing"
  BY <1>1 DEF AutostartInit
<1> QED BY <1>2, <1>3 DEF TableInv

\* An event that is reported or lost does not take another from the socket.
LEMMA ReportedResult ==
  ASSUME TrackerTypeOK, NEW event \in Events, Reported(event)
  PROVE  /\ events' \in Seq(Events) /\ overrun' \in BOOLEAN /\ (overrun => overrun')
         /\ \A p \in Pids : Leaves(p) => Leaves(p)'
         /\ ~overrun' => \A p \in Pids : event = [pid |-> p, what |-> "exit"] => Leaves(p)'
<1>1. CASE events' = Append(events, event) /\ UNCHANGED <<overrun, losses>>
  <2>1. /\ events' \in Seq(Events) /\ Len(events') = Len(events) + 1 /\ events'[Len(events) + 1] = event
        /\ \A i \in 1..Len(events) : events'[i] = events[i]
    BY <1>1 DEF TrackerTypeOK
  <2>2. Len(events) \in Nat
    BY DEF TrackerTypeOK
  <2>3. \A p \in Pids : Leaves(p) => Leaves(p)'
    BY <2>1, <2>2 DEF Leaves
  <2>4. ASSUME NEW p \in Pids, event = [pid |-> p, what |-> "exit"] PROVE Leaves(p)'
    <3>1. Len(events) + 1 \in 1..Len(events') /\ events'[Len(events) + 1] = [pid |-> p, what |-> "exit"]
      BY <2>1, <2>2, <2>4
    <3> QED BY <3>1 DEF Leaves
  <2> QED BY <1>1, <2>1, <2>3, <2>4 DEF TrackerTypeOK
<1>2. CASE overrun' = TRUE /\ UNCHANGED events
  BY <1>2 DEF TrackerTypeOK, Leaves
<1> QED BY <1>1, <1>2 DEF Reported

LEMMA ProcessSteps ==
  ASSUME TableInv, NEW p \in Pids, Ends(p) \/ \E program \in {"game", "other"} : Exec(p, program)
  PROVE  TableInv'
<1>1. UNCHANGED <<games, game_count, said, swept, lines>>
  BY DEF Ends, Exec, trackerVars
<1>2. CASE Ends(p)
  <2> DEFINE event == [pid |-> p, what |-> "exit"]
  <2>1. event \in Events /\ Reported(event) /\ runs' = [runs EXCEPT ![p] = "no"]
    BY <1>2 DEF Ends, Events
  <2>2. /\ events' \in Seq(Events) /\ overrun' \in BOOLEAN /\ (overrun => overrun')
        /\ \A q \in Pids : Leaves(q) => Leaves(q)'
        /\ ~overrun' => \A q \in Pids : event = [pid |-> q, what |-> "exit"] => Leaves(q)'
    BY <2>1, ReportedResult DEF TableInv
  <2>3. TrackerTypeOK'
    BY <1>1, <2>1, <2>2 DEF TableInv, TrackerTypeOK
  <2>4. ~overrun' => Leaves(p)'
    BY <2>2
  <2> QED BY <1>1, <2>1, <2>2, <2>3, <2>4 DEF TableInv, TrackerTypeOK
<1>3. ASSUME NEW program \in {"game", "other"}, Exec(p, program)
      PROVE  TableInv'
  <2> DEFINE event == [pid |-> p, what |-> "exec"]
  <2>1. event \in Events /\ Reported(event) /\ runs' = [runs EXCEPT ![p] = program]
    BY <1>3 DEF Exec, Events
  <2>2. /\ events' \in Seq(Events) /\ overrun' \in BOOLEAN /\ (overrun => overrun')
        /\ \A q \in Pids : Leaves(q) => Leaves(q)'
    BY <2>1, ReportedResult DEF TableInv
  <2>3. TrackerTypeOK'
    BY <1>1, <2>1, <2>2 DEF TableInv, TrackerTypeOK
  <2> QED BY <1>1, <2>1, <2>2, <2>3 DEF TableInv, TrackerTypeOK
<1> QED BY <1>2, <1>3

\* A line that is written is the last one.
LEMMA SaysTypes ==
  ASSUME TrackerTypeOK, NEW line \in Lines, Silent \/ Says(line)
  PROVE  lines' \in Seq(Lines) /\ said' \in Lines \cup {"nothing"}
<1>1. lines \in Seq(Lines) /\ said \in Lines \cup {"nothing"}
  BY DEF TrackerTypeOK
<1>2. CASE Silent
  BY <1>1, <1>2 DEF Silent
<1>3. CASE Says(line)
  BY <1>1, <1>3 DEF Says
<1> QED BY <1>2, <1>3

LEMMA ScanStep ==
  ASSUME TableInv, NEW p \in Pids, ScanProcess(p)
  PROVE  TableInv'
<1>1. CheckProcess(p) /\ UNCHANGED <<runs, events, overrun, swept>>
  BY DEF ScanProcess, processVars
<1>2. /\ games' \in SUBSET Pids /\ IsFiniteSet(games') /\ game_count' \in Int
      /\ Silent \/ Says("launched")
      /\ \A q \in games' : q \in games \/ (q = p /\ runs[p] = "game")
      /\ game_count = Cardinality(games) /\ (said = "launched" <=> games # {})
         => game_count' = Cardinality(games') /\ (said' = "launched" <=> games' # {})
  BY <1>1, CheckProcessResult DEF TableInv
<1>3. lines' \in Seq(Lines) /\ said' \in Lines \cup {"nothing"}
  BY <1>2, SaysTypes DEF TableInv, Lines
<1>4. TrackerTypeOK'
  BY <1>1, <1>2, <1>3 DEF TableInv, TrackerTypeOK
<1> QED BY <1>1, <1>2, <1>4 DEF TableInv, Leaves

\* The exit of a process takes it from the table; a process that is added runs.
LEMMA ReceiveStep ==
  ASSUME TableInv, ReceiveEvent
  PROVE  TableInv'
<1> DEFINE event == Head(events)
<1>1. /\ events \in Seq(Events) /\ events # <<>> /\ events' = Tail(events)
      /\ UNCHANGED <<runs, overrun, swept>>
      /\ IF event.what = "exec" THEN CheckProcess(event.pid) ELSE RemoveGame(event.pid)
  BY DEF ReceiveEvent, TableInv, TrackerTypeOK
<1>2. /\ event \in Events /\ event = events[1] /\ events' \in Seq(Events) /\ Len(events') = Len(events) - 1
      /\ \A i \in 1..Len(events) - 1 : events'[i] = events[i + 1]
  BY <1>1
<1> HIDE DEF event
<1>3. event.pid \in Pids /\ event.what \in {"exec", "exit"}
  BY <1>2 DEF Events
<1>4. ASSUME NEW q \in Pids, Leaves(q), event # [pid |-> q, what |-> "exit"]
      PROVE  Leaves(q)'
  <2>1. PICK i \in 1..Len(events) : events[i] = [pid |-> q, what |-> "exit"]
    BY <1>4 DEF Leaves
  <2>2. i # 1
    BY <1>2, <1>4, <2>1
  <2>3. i - 1 \in 1..Len(events') /\ events'[i - 1] = events[i]
    BY <1>1, <1>2, <2>2
  <2> QED BY <2>1, <2>3 DEF Leaves
<1>5. CASE event.what = "exec"
  <2>1. /\ games' \in SUBSET Pids /\ IsFiniteSet(games') /\ game_count' \in Int
        /\ Silent \/ Says("launched")
        /\ \A q \in games' : q \in games \/ (q = event.pid /\ runs[event.pid] = "game")
        /\ game_count = Cardinality(games) /\ (said = "launched" <=> games # {})
           => game_count' = Cardinality(games') /\ (said' = "launched" <=> games' # {})
    BY <1>1, <1>3, <1>5, CheckProcessResult DEF TableInv
  <2>2. lines' \in Seq(Lines) /\ said' \in Lines \cup {"nothing"}
    BY <2>1, SaysTypes DEF TableInv, Lines
  <2>3. TrackerTypeOK'
    BY <1>1, <1>2, <2>1, <2>2 DEF TableInv, TrackerTypeOK
  <2>4. \A q \in Pids : event # [pid |-> q, what |-> "exit"]
    BY <1>5
  <2> QED BY <1>1, <1>4, <2>1, <2>3, <2>4 DEF TableInv
<1>6. CASE event.what = "exit"
  <2>1. /\ games' = games \ {event.pid} /\ IsFiniteSet(games') /\ game_count' \in Int
        /\ Silent \/ Says("exited")
        /\ game_count = Cardinality(games) /\ (said = "launched" <=> games # {})
           => game_count' = Cardinality(games') /\ (said' = "launched" <=> games' # {})
    BY <1>1, <1>3, <1>6, RemoveGameResult DEF TableInv
  <2>2. lines' \in Seq(Lines) /\ said' \in Lines \cup {"nothing"}
    BY <2>1, SaysTypes DEF TableInv, Lines
  <2>3. TrackerTypeOK'
    BY <1>1, <1>2, <2>1, <2>2 DEF TableInv, TrackerTypeOK
  <2>4. \A q \in games' : event # [pid |-> q, what |-> "exit"]
    BY <2>1
  <2> QED BY <1>1, <1>4, <2>1, <2>3, <2>4 DEF TableInv, TrackerTypeOK
<1> QED BY <1>3, <1>5, <1>6

\* The sweep changes nothing if no game is dead.
LEMMA SweepStep ==
  ASSUME TableInv, SweepDeadGames
  PROVE  TableInv'
<1> DEFINE dead == {p \in games : runs[p] = "no"}
           counted == game_count - Cardinality(dead)
<1>1. /\ overrun' = FALSE /\ game_count' = counted /\ swept' = (swept \/ dead # {})
      /\ IF game_count > 0 /\ counted <= 0 THEN Says("exited") ELSE Silent
      /\ UNCHANGED <<runs, events, games>>
  BY DEF SweepDeadGames
<1>2. Cardinality(dead) \in Nat
  <2>1. IsFiniteSet(dead)
    BY FS_Subset DEF TableInv, TrackerTypeOK
  <2> QED BY <2>1, FS_CardinalityType
<1>3. dead = {} => Cardinality(dead) = 0
  BY FS_EmptySet
<1>4. lines' \in Seq(Lines) /\ said' \in Lines \cup {"nothing"}
  BY <1>1, SaysTypes DEF TableInv, Lines
<1>5. TrackerTypeOK'
  <2>1. game_count \in Int /\ swept \in BOOLEAN
    BY DEF TableInv, TrackerTypeOK
  <2>2. counted \in Int
    BY <1>2, <2>1
  <2>3. swept' \in BOOLEAN
    BY <1>1, <2>1
  <2> HIDE DEF counted, dead
  <2> QED BY <1>1, <1>4, <2>2, <2>3 DEF TableInv, TrackerTypeOK
<1>6. ~swept' => dead = {} /\ ~swept
  BY <1>1 DEF TableInv, TrackerTypeOK
<1>7. dead = {} => game_count' = game_count /\ Silent
  BY <1>1, <1>3 DEF TableInv, TrackerTypeOK
<1> HIDE DEF counted
<1>8. dead = {} => \A p \in games : runs[p] # "no"
  OBVIOUS
<1> HIDE DEF dead
<1> QED BY <1>1, <1>5, <1>6, <1>7, <1>8 DEF TableInv, Silent

\* The overlay reads the lines and touches nothing else of the tracker.
LEMMA OtherSteps ==
  ASSUME TableInv, UNCHANGED <<runs, events, overrun, swept, games, game_count, said>>,
         lines' = IF lines = <<>> THEN lines ELSE Tail(lines)
  PROVE  TableInv'
<1>1. lines' \in Seq(Lines)
  BY DEF TableInv, TrackerTypeOK
<1> QED BY <1>1 DEF TableInv, TrackerTypeOK, Leaves

LEMMA TableNext ==
  ASSUME TableInv, [AutostartNext]_autostartVars
  PROVE  TableInv'
<1>1. CASE UNCHANGED autostartVars
  BY <1>1 DEF autostartVars, TableInv, TrackerTypeOK, Leaves
<1>2. CASE TrackerStep
  BY <1>2, ProcessSteps, ScanStep, ReceiveStep, SweepStep DEF TrackerStep
<1>3. ASSUME NEW works \in BOOLEAN, NEW died \in BOOLEAN, NEW elapsed \in BOOLEAN, Frame(died, elapsed, works)
      PROVE  TableInv'
  BY <1>3, OtherSteps DEF Frame, processVars, trackerVars
<1>4. CASE UserStep
  <2>1. UNCHANGED <<runs, events, overrun, swept, games, game_count, said, lines>>
    BY <1>4 DEF UserStep, PressHotkey, EndSelection, OtherSession, SelectForScreenshot, PlugPower, ChangeDevices,
                ChangeSettings, UserDoes, processVars, trackerVars
  <2> QED BY <2>1 DEF TableInv, TrackerTypeOK, Leaves
<1> QED BY <1>1, <1>2, <1>3, <1>4, Steps

-----------------------------------------------------------------------------
(* The tracker's lines and what the overlay makes of them. *)

\* What the overlay has read last is the tracker's last word once the pipe is
\* empty, and a replay that turned itself on for a game was told of one.
LinesInv ==
    /\ ui \in Overlays /\ power \in BOOLEAN /\ lines \in Seq(Lines)
    /\ lines # <<>> => said = lines[Len(lines)]
    /\ lines = <<>> /\ ui.action = "start" => said = "launched"
    /\ lines = <<>> /\ ui.action = "stop" => said = "exited"
    /\ lines = <<>> /\ ui.action = "idle" /\ ui.mode = "game" /\ Automatic(ui) => said = "launched"

LEMMA LinesInit == AutostartInit => LinesInv
<1> SUFFICES ASSUME AutostartInit PROVE LinesInv
  OBVIOUS
<1>1. ui \in Overlays /\ power \in BOOLEAN /\ ui.action = "idle" /\ ui.status = "none"
  BY DEF AutostartInit, Overlays
<1>2. lines = <<>> /\ lines \in Seq(Lines)
  BY DEF AutostartInit
<1> QED BY <1>1, <1>2 DEF LinesInv, Automatic

LEMMA WrittenLines ==
  ASSUME LinesInv, ui' = ui, power' = power, NEW line \in Lines, Silent \/ Says(line)
  PROVE  LinesInv'
<1>1. CASE Silent
  BY <1>1 DEF Silent, LinesInv, Automatic
<1>2. CASE Says(line)
  <2>1. lines' = Append(lines, line) /\ said' = line /\ lines \in Seq(Lines)
    BY <1>2 DEF Says, LinesInv
  <2>2. lines' \in Seq(Lines) /\ lines' # <<>> /\ lines'[Len(lines')] = line
    BY <2>1
  <2> QED BY <2>1, <2>2 DEF LinesInv
<1> QED BY <1>1, <1>2

LEMMA TrackerLines ==
  ASSUME LinesInv, TrackerStep, ui' = ui, power' = power
  PROVE  LinesInv'
<1>1. \E line \in Lines : Silent \/ Says(line)
  BY DEF TrackerStep, Ends, Exec, ScanProcess, CheckProcess, ReceiveEvent, RemoveGame, SweepDeadGames, trackerVars,
         Silent, Lines
<1> QED BY <1>1, WrittenLines

LEMMA FrameLines ==
  ASSUME LinesInv, NEW died \in BOOLEAN, NEW elapsed \in BOOLEAN, NEW works \in BOOLEAN, Frame(died, elapsed, works)
  PROVE  LinesInv'
<1> DEFINE heard == ReadTracker(ui).action
<1>1. ui \in Overlays /\ power \in BOOLEAN /\ lines \in Seq(Lines)
  BY DEF LinesInv
<1>2. /\ ui' \in Overlays /\ ui'.mode = ui.mode
      /\ ui'.action = IF ui.mode = "game" THEN "idle" ELSE heard
      /\ Automatic(ui') /\ ui.mode = "game" => (Automatic(ui) /\ heard # "stop") \/ heard = "start"
  BY <1>1, FrameResult
<1>3. power' = power /\ said' = said /\ lines' = IF lines = <<>> THEN lines ELSE Tail(lines)
  BY DEF Frame, trackerVars
<1>4. CASE lines = <<>>
  <2>1. heard = ui.action /\ lines' = <<>> /\ lines' \in Seq(Lines)
    BY <1>3, <1>4 DEF ReadTracker
  <2>2. ui.action \in {"idle", "start", "stop"}
    BY <1>1 DEF Overlays
  <2> HIDE DEF heard
  <2> QED BY <1>2, <1>3, <1>4, <2>1, <2>2 DEF LinesInv
<1>5. CASE lines # <<>>
  <2>1. heard = IF lines[1] = "launched" THEN "start" ELSE "stop"
    BY <1>1, <1>5 DEF ReadTracker, Overlays
  <2>2. /\ lines' \in Seq(Lines) /\ Len(lines') = Len(lines) - 1 /\ Len(lines) \in Nat /\ Len(lines) > 0
        /\ \A i \in 1..Len(lines) - 1 : lines'[i] = lines[i + 1]
    BY <1>1, <1>3, <1>5
  <2>3. said = lines[Len(lines)]
    BY <1>5 DEF LinesInv
  <2>4. lines' # <<>> => said' = lines'[Len(lines')]
    <3>1. lines' # <<>> => Len(lines') \in 1..Len(lines) - 1 /\ Len(lines') + 1 = Len(lines)
      BY <2>2
    <3> QED BY <1>3, <2>2, <2>3, <3>1
  <2>5. lines' = <<>> => said' = lines[1]
    <3>1. lines' = <<>> => Len(lines) = 1
      BY <2>2
    <3> QED BY <1>3, <2>3, <3>1
  <2>6. lines[1] \in Lines
    BY <1>1, <2>2
  <2> HIDE DEF heard
  <2> QED BY <1>1, <1>2, <1>3, <2>1, <2>2, <2>4, <2>5, <2>6 DEF LinesInv, Lines
<1> QED BY <1>4, <1>5

LEMMA LinesNext ==
  ASSUME LinesInv, [AutostartNext]_autostartVars
  PROVE  LinesInv'
<1>1. CASE UNCHANGED autostartVars
  BY <1>1 DEF autostartVars, LinesInv, Automatic
<1>2. CASE TrackerStep /\ ui' = ui /\ power' = power
  BY <1>2, TrackerLines
<1>3. CASE \E works, died, elapsed \in BOOLEAN : Frame(died, elapsed, works)
  BY <1>3, FrameLines
<1>4. CASE UserStep
  <2>1. UNCHANGED <<lines, said>> /\ power' \in BOOLEAN
    BY <1>4 DEF UserStep, PressHotkey, EndSelection, OtherSession, SelectForScreenshot, PlugPower, ChangeDevices,
                ChangeSettings, UserDoes, trackerVars, LinesInv
  <2>2. /\ ui' \in Overlays /\ ui'.action = ui.action
        /\ Automatic(ui') => Automatic(ui) /\ ui'.mode = ui.mode
    BY <1>4, UserStepResult DEF LinesInv
  <2> QED BY <2>1, <2>2 DEF LinesInv
<1> QED BY <1>1, <1>2, <1>3, <1>4, Steps

\* A replay that turned itself on for a game does not outlast the games, whatever
\* order they start and end in and whichever events were lost, unless a sweep met
\* a dead game, a region was being selected or the settings were changed
\* meanwhile (src/src/Overlay.cpp, update_gsr_game_tracker_replay_status;
\* tools/gsr-game-tracker/main.c, scan_existing_processes).
THEOREM AutostartSpec_GameReplayHasAGame == AutostartSpec => []GameReplayHasAGame
<1>1. TableInv /\ LinesInv => GameReplayHasAGame
  <2> SUFFICES ASSUME TableInv, LinesInv, CaughtUp, ~swept, lines = <<>>, ui.action = "idle", ui.mode = "game",
                      Automatic(ui)
               PROVE  \E p \in games : runs[p] # "no"
    BY DEF GameReplayHasAGame, Automatic
  <2>1. games # {}
    BY DEF LinesInv, TableInv
  <2>2. \A p \in games : runs[p] = "no" => Leaves(p)
    BY DEF TableInv, CaughtUp
  <2>3. games \subseteq Pids /\ \A p \in Pids : ~Leaves(p)
    BY DEF TableInv, TrackerTypeOK, CaughtUp, Leaves
  <2> QED BY <2>1, <2>2, <2>3
<1> QED BY <1>1, TableInit, TableNext, LinesInit, LinesNext, PTL DEF AutostartSpec
=============================================================================
