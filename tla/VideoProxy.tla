------------------------------ MODULE VideoProxy ------------------------------
(***************************************************************************)
(* The small copies ("proxies") that the trimmer page plays instead of a   *)
(* video: a page's worker thread makes one with ffmpeg unless the cache    *)
(* has it, purges old ones, and hands its lock over to the page, whose     *)
(* frames load the proxy into mpv (src/gui/VideoPlayer.cpp).               *)
(*                                                                         *)
(* The pages share nothing but the files of the cache and their flocks, so *)
(* each may be of a program of its own.  Every operation on a proxy's lock *)
(* holds the guard file's lock, and a removal holds it exclusively: each   *)
(* is one step.  A page plays one video; set_video_path has no caller.     *)
(***************************************************************************)
EXTENDS Naturals, Sequences, FiniteSets, SequencesExt

CONSTANTS Pages,
          Recordings,   \* videos; a video's proxy goes by the video's name
          NoProxy,
          MaxProxies,   \* max_cached_proxy_videos
          MaxPages,     \* bound on the pages opened in a behaviour
          MaxCrashes

ASSUME ProxyAssumption == NoProxy \notin Recordings /\ MaxProxies \in Nat

VARIABLES proxies,   \* the proxy files, oldest first
          partial,   \* those an encoder did not finish
          player,    \* per page: the main thread's state of its VideoPlayer
          worker,    \* per page: its worker thread
          encoders,  \* running ffmpegs: the proxy, and the page that waits for it
          opens, crashes

proxyVars == <<proxies, partial, player, worker, encoders, opens, crashes>>
fileVars == <<proxies, partial>>
countVars == <<opens, crashes>>

ClosedPlayer == [open |-> FALSE, stop |-> FALSE, video |-> NoProxy, proxy |-> NoProxy, pending |-> NoProxy,
                 loaded |-> NoProxy, mpv |-> "idle", shared |-> {}]
AbsentWorker == [at |-> "gone", lock |-> "none", request |-> FALSE, ready |-> FALSE, failed |-> FALSE, victims |-> {}]

ProxyInit ==
    /\ proxies \in {<<>>} \cup {<<v>> : v \in Recordings} /\ partial = {}
    /\ player = [p \in Pages |-> ClosedPlayer]
    /\ worker = [p \in Pages |-> AbsentWorker]
    /\ encoders = {} /\ opens = 0 /\ crashes = 0

-----------------------------------------------------------------------------
\* The locks of proxy v: a worker holds its own, a page those of its map, and
\* ffmpeg inherits the descriptor of the worker that started it.
Sharers(v) == {p \in Pages : v \in player[p].shared \/ (player[p].video = v /\ worker[p].lock = "shared")}
\* Faulty variant: the descriptor of a lock is not inherited.
ExclusiveOfPages(v) == \E p \in Pages : player[p].video = v /\ worker[p].lock = "exclusive"
Exclusive(v) == \/ \E p \in Pages : player[p].video = v /\ worker[p].lock = "exclusive"
                \/ \E e \in encoders : e.proxy = v
CanShare(v) == ~Exclusive(v)
CanExclude(v) == Sharers(v) = {} /\ ~Exclusive(v)

InCache(v) == v \in ToSet(proxies)

\* A file counts as a proxy if it is not empty.
IsReady(v) == InCache(v)

-----------------------------------------------------------------------------
\* VideoPlayer::VideoPlayer, with queue_proxy_generation.
OpenPage(p, v) ==
    /\ ~player[p].open /\ opens < MaxPages
    /\ player' = [player EXCEPT ![p] = [ClosedPlayer EXCEPT !.open = TRUE, !.video = v]]
    /\ worker' = [worker EXCEPT ![p] = [AbsentWorker EXCEPT !.at = "waits", !.request = TRUE]]
    /\ opens' = opens + 1
    /\ UNCHANGED <<fileVars, encoders, crashes>>

\* proxy_worker_loop, until it has a request or is told to stop.
TakeRequest(p) ==
    /\ worker[p].at = "waits" /\ ~player[p].stop /\ worker[p].request
    /\ worker' = [worker EXCEPT ![p].at = "share", ![p].request = FALSE]
    /\ UNCHANGED <<fileVars, player, encoders, countVars>>

Stop(p) ==
    /\ player[p].stop
    /\ \/ worker[p].at = "waits"
       \/ worker[p].at = "share" /\ ~CanShare(player[p].video)
       \/ worker[p].at = "exclude" /\ ~CanExclude(player[p].video)
    /\ worker' = [worker EXCEPT ![p].at = "gone"]
    /\ UNCHANGED <<fileVars, player, encoders, countVars>>

\* The shared lock, and a look at the file; without one the lock is let go.
LockShared(p) ==
    LET v == player[p].video
    IN  /\ worker[p].at = "share" /\ CanShare(v)
        /\ worker' = [worker EXCEPT ![p] =
             IF IsReady(v) THEN [@ EXCEPT !.at = "look", !.lock = "shared"]
                           ELSE [@ EXCEPT !.at = "exclude"]]
        /\ UNCHANGED <<fileVars, player, encoders, countVars>>

\* The exclusive lock: what another page made meanwhile is taken as it is, and
\* else ffmpeg is started, which overwrites.
LockExclusive(p) ==
    LET v == player[p].video
    IN  /\ worker[p].at = "exclude" /\ CanExclude(v)
        /\ worker' = [worker EXCEPT ![p].at = IF IsReady(v) THEN "look" ELSE "encode", ![p].lock = "exclusive"]
        /\ encoders' = IF IsReady(v) THEN encoders ELSE encoders \cup {[proxy |-> v, page |-> {p}]}
        /\ UNCHANGED <<fileVars, player, countVars>>

\* While another has it, the worker also tries for a shared lock on a file
\* that is there.
LockSharedInstead(p) ==
    LET v == player[p].video
    IN  /\ worker[p].at = "exclude" /\ ~CanExclude(v) /\ ~player[p].stop
        /\ CanShare(v) /\ IsReady(v)
        /\ worker' = [worker EXCEPT ![p].at = "look", ![p].lock = "shared"]
        /\ UNCHANGED <<fileVars, player, encoders, countVars>>

-----------------------------------------------------------------------------
EncoderWrites(e) ==
    /\ ~InCache(e.proxy)
    /\ proxies' = Append(proxies, e.proxy) /\ partial' = partial \cup {e.proxy}
    /\ UNCHANGED <<player, worker, encoders, countVars>>

\* ffmpeg ends; one that was left by a crash is told to by its parent's death
\* and completes the file's index.
EncoderEnds(e, success) ==
    /\ success => InCache(e.proxy)
    /\ encoders' = encoders \ {e}
    /\ partial' = IF success THEN partial \ {e.proxy} ELSE partial
    /\ proxies' = IF InCache(e.proxy) THEN Append(RemoveFirst(proxies, e.proxy), e.proxy) ELSE proxies
    /\ worker' = [p \in Pages |-> IF p \in e.page
                                  THEN [worker[p] EXCEPT !.at = IF success THEN "look" ELSE "failed"]
                                  ELSE worker[p]]
    /\ UNCHANGED <<player, countVars>>

-----------------------------------------------------------------------------
Older(w) == {proxies[i] : i \in 1..SelectInSeq(proxies, LAMBDA x : x = w) - 1}

\* add_locked_proxy_paths_to_keep and purge_regular_files_from_cache_dir: all
\* but the newest of the files that nobody has locked are to be removed.
Purge(p) ==
    LET others == {w \in ToSet(proxies) : w # player[p].video /\ CanExclude(w)}
    IN  /\ worker[p].at = "look"
        /\ worker' = [worker EXCEPT ![p].at = "purge",
                        ![p].victims = {w \in others : Cardinality(Older(w) \cap others) + MaxProxies < Len(proxies)}]
        /\ UNCHANGED <<fileVars, player, encoders, countVars>>

\* Faulty variant: the file is removed without a try for its lock.
RemovableAlways(w) == TRUE
\* remove_proxy_cache_file_if_unlocked
Removable(w) == CanExclude(w)

RemoveVictim(p, w) ==
    /\ worker[p].at = "purge" /\ w \in worker[p].victims
    /\ worker' = [worker EXCEPT ![p].victims = @ \ {w}]
    /\ proxies' = IF Removable(w) THEN RemoveFirst(proxies, w) ELSE proxies
    /\ partial' = partial \cap ToSet(proxies')
    /\ UNCHANGED <<player, encoders, countVars>>

\* The result is published under proxy_mutex, and the lock becomes a shared
\* one of the page.
Publish(p) ==
    /\ worker[p].at = "purge" /\ worker[p].victims = {}
    /\ worker' = [worker EXCEPT ![p] = [@ EXCEPT !.at = "waits", !.lock = "none", !.ready = TRUE]]
    /\ player' = [player EXCEPT ![p].shared = @ \cup {player[p].video}]
    /\ UNCHANGED <<fileVars, encoders, countVars>>

\* Faulty variant: a failure returns without the release.
PublishFailureLocked(p) ==
    /\ worker[p].at = "failed"
    /\ worker' = [worker EXCEPT ![p] = [@ EXCEPT !.at = "waits", !.failed = TRUE]]
    /\ UNCHANGED <<fileVars, player, encoders, countVars>>
PublishFailure(p) ==
    /\ worker[p].at = "failed"
    /\ worker' = [worker EXCEPT ![p] = [@ EXCEPT !.at = "waits", !.lock = "none", !.failed = TRUE]]
    /\ UNCHANGED <<fileVars, player, encoders, countVars>>

-----------------------------------------------------------------------------
\* get_active_proxy_paths
Active(s) == {s.loaded, s.pending, s.proxy} \ {NoProxy}

\* ensure_video_loaded: the published proxy is taken, what mpv has loaded or
\* refused is noted, the proxy is given to mpv, and the locks are refreshed.
Frame(p) ==
    LET s == player[p]
        published == IF worker[p].ready THEN s.video ELSE NoProxy
        answered == CASE s.mpv = "loaded" -> [s EXCEPT !.proxy = published, !.loaded = s.pending, !.pending = NoProxy, !.mpv = "plays"]
                      [] s.mpv = "error"  -> [s EXCEPT !.proxy = published, !.pending = NoProxy, !.mpv = "idle"]
                      [] OTHER            -> [s EXCEPT !.proxy = published]
        next == IF published \in {NoProxy, answered.loaded, answered.pending} THEN answered
                ELSE [answered EXCEPT !.pending = published, !.mpv = "loading"]
    IN  /\ s.open /\ ~s.stop
        /\ \A v \in Active(next) \ s.shared : CanShare(v)
        /\ player' = [player EXCEPT ![p] = [next EXCEPT !.shared = Active(next)]]
        /\ player' # player
        /\ UNCHANGED <<fileVars, worker, encoders, countVars>>

\* mpv loads a whole file, and may load a part of one.
MpvAnswers(p, answer) ==
    /\ player[p].mpv = "loading"
    /\ answer = "loaded" => InCache(player[p].pending)
    /\ answer = "error" => player[p].pending \notin ToSet(proxies) \ partial
    /\ player' = [player EXCEPT ![p].mpv = answer]
    /\ UNCHANGED <<fileVars, worker, encoders, countVars>>

\* VideoPlayer::~VideoPlayer
ClosePage(p) ==
    /\ player[p].open /\ ~player[p].stop
    /\ player' = [player EXCEPT ![p].stop = TRUE]
    /\ UNCHANGED <<fileVars, worker, encoders, countVars>>

JoinWorker(p) ==
    /\ player[p].stop /\ worker[p].at = "gone"
    /\ player' = [player EXCEPT ![p] = ClosedPlayer]
    /\ worker' = [worker EXCEPT ![p] = AbsentWorker]
    /\ UNCHANGED <<fileVars, encoders, countVars>>

\* The program is killed: its locks go, except for the one ffmpeg has.
Crash(p) ==
    /\ player[p].open /\ crashes < MaxCrashes
    /\ crashes' = crashes + 1
    /\ player' = [player EXCEPT ![p] = ClosedPlayer]
    /\ worker' = [worker EXCEPT ![p] = AbsentWorker]
    /\ encoders' = {[e EXCEPT !.page = @ \ {p}] : e \in encoders}
    /\ UNCHANGED <<fileVars, opens>>

WorkerStep(p) ==
    \/ TakeRequest(p) \/ Stop(p) \/ LockShared(p) \/ LockExclusive(p) \/ LockSharedInstead(p) \/ Purge(p)
    \/ (\E w \in Recordings : RemoveVictim(p, w)) \/ Publish(p) \/ PublishFailure(p)
EncoderStep == \E e \in encoders : EncoderWrites(e) \/ \E success \in BOOLEAN : EncoderEnds(e, success)

ProxyNext ==
    \/ \E p \in Pages :
         \/ WorkerStep(p) \/ Frame(p) \/ ClosePage(p) \/ JoinWorker(p) \/ Crash(p)
         \/ \E v \in Recordings : OpenPage(p, v)
         \/ \E answer \in {"loaded", "error"} : MpvAnswers(p, answer)
    \/ EncoderStep

ProxySpec == ProxyInit /\ [][ProxyNext]_proxyVars

\* The workers and ffmpeg are scheduled, and open pages are drawn.
ProxyFairness ==
    /\ \A p \in Pages : WF_proxyVars(WorkerStep(p)) /\ WF_proxyVars(Frame(p)) /\ WF_proxyVars(JoinWorker(p))
    /\ WF_proxyVars(\E e \in encoders, success \in BOOLEAN : EncoderEnds(e, success))

-----------------------------------------------------------------------------
\* What a page plays or gives to mpv is in the cache for as long as it does,
\* whatever others purge (VideoPlayer.cpp, remove_proxy_cache_file_if_unlocked
\* and proxy_worker_loop).
PlayedProxyIsKept ==
    \A p \in Pages : player[p].open => \A v \in Active(player[p]) : InCache(v)

\* One ffmpeg at most writes a proxy, and no page reads it meanwhile, also when
\* the program that started it is gone (VideoPlayer.cpp, proxy_worker_loop).
EncoderIsAlone ==
    \A e \in encoders :
      /\ \A f \in encoders : f.proxy = e.proxy => f = e
      /\ \A p \in Pages : player[p].open => e.proxy \notin Active(player[p])

\* A page that stays open learns whether it has a proxy, and one that is closed
\* ends, whatever other pages and lost encoders do (VideoPlayer.cpp,
\* proxy_worker_loop).
PreviewIsDecided ==
    \A p \in Pages : player[p].open ~> \/ ~player[p].open
                                       \/ ~player[p].stop /\ (worker[p].failed \/ player[p].proxy # NoProxy)
=============================================================================
