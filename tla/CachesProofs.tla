---------------------------- MODULE CachesProofs ----------------------------
(***************************************************************************)
(* Proofs about the caches of the trimmer page.                            *)
(***************************************************************************)
EXTENDS VideoProxy, Thumbnails, SequenceLemmas

-----------------------------------------------------------------------------
(* VideoProxy, for every set of pages and of recordings and every number   *)
(* of cached proxies.                                                      *)

-----------------------------------------------------------------------------
(* Types. *)

Named == Recordings \cup {NoProxy}
MpvStates == {"idle", "loading", "loaded", "error", "plays"}
Places == {"gone", "waits", "share", "exclude", "look", "encode", "purge", "failed"}
Players == [open : BOOLEAN, stop : BOOLEAN, video : Named, proxy : Named, pending : Named, loaded : Named,
            mpv : MpvStates, shared : SUBSET Recordings]
Workers == [at : Places, lock : {"none", "shared", "exclusive"}, request : BOOLEAN, ready : BOOLEAN,
            failed : BOOLEAN, victims : SUBSET Recordings]

ProxyTypeOK ==
    /\ proxies \in Seq(Recordings)
    /\ player \in [Pages -> Players]
    /\ worker \in [Pages -> Workers]
    /\ encoders \subseteq [proxy : Recordings, page : SUBSET Pages]

LEMMA ClosedTypes == ClosedPlayer \in Players /\ AbsentWorker \in Workers
BY DEF ClosedPlayer, AbsentWorker, Players, Workers, Named, MpvStates, Places

LEMMA ActiveTypes ==
  ASSUME NEW s \in Players
  PROVE  Active(s) \in SUBSET Recordings
BY ProxyAssumption DEF Active, Players, Named

-----------------------------------------------------------------------------
(* The inductive invariant. *)

\* What holds of a page's player s and its worker w: the page has a lock on its
\* proxy from the moment the worker's result is published, and only then is the
\* proxy active; the worker has a lock where it works on the file; and a proxy
\* that is published or looked at is in the cache.
Sound(s, w) ==
    /\ ~s.open => s = ClosedPlayer /\ w = AbsentWorker
    /\ s.open => s.video \in Recordings
    /\ Active(s) \subseteq (IF w.ready THEN {s.video} ELSE {})
    /\ s.shared = IF w.ready THEN {s.video} ELSE {}
    /\ w.ready => w.at \in {"waits", "gone"}
    /\ w.request => w.at \in {"waits", "gone"} /\ ~w.ready
    /\ (w.lock = "none") <=> (w.at \in {"waits", "share", "exclude", "gone"})
    /\ w.at \in {"encode", "failed"} => w.lock = "exclusive"
    /\ w.ready \/ w.at \in {"look", "purge"} => InCache(s.video)

\* What an encoder e is to page p: either it writes for its worker, or it keeps
\* the worker from looking at the proxy.
KeepsOut(e, p, s, w) ==
    /\ p \in e.page => s.open /\ s.video = e.proxy /\ w.at = "encode"
    /\ s.open /\ s.video = e.proxy => ~w.ready /\ w.at \notin {"look", "purge"}

ProxyInv ==
    /\ ProxyTypeOK
    /\ \A p \in Pages : Sound(player[p], worker[p])
    /\ \A e, f \in encoders : f.proxy = e.proxy => f = e
    /\ \A e \in encoders, p \in Pages : KeepsOut(e, p, player[p], worker[p])

LEMMA ClosedIsSound == Sound(ClosedPlayer, AbsentWorker)
BY DEF Sound, ClosedPlayer, AbsentWorker, Active

LEMMA ProxyInit_Inv == ProxyInit => ProxyInv
<1> SUFFICES ASSUME ProxyInit PROVE ProxyInv
  OBVIOUS
<1>1. proxies \in Seq(Recordings)
  <2>1. CASE proxies = <<>>
    BY <2>1
  <2>2. ASSUME NEW v \in Recordings, proxies = <<v>> PROVE proxies \in Seq(Recordings)
    BY <2>2
  <2> QED BY <2>1, <2>2 DEF ProxyInit
<1> QED BY <1>1, ClosedTypes, ClosedIsSound DEF ProxyInit, ProxyInv, ProxyTypeOK

\* What is sound stays so while the files stay in the cache.
LEMMA SoundIsKept ==
  ASSUME NEW q, Sound(player'[q], worker'[q]), \A v : InCache(v) => InCache(v)'
  PROVE  Sound(player[q], worker[q])'
BY DEF Sound

\* A step of one page that leaves the files and the encoders alone.
LEMMA PageStep ==
  ASSUME ProxyInv, NEW p \in Pages,
         player' \in [Pages -> Players], worker' \in [Pages -> Workers],
         \A q \in Pages : q # p => player'[q] = player[q] /\ worker'[q] = worker[q],
         proxies' = proxies, encoders' = encoders,
         Sound(player'[p], worker'[p]),
         \A e \in encoders : KeepsOut(e, p, player'[p], worker'[p])
  PROVE  ProxyInv'
<1>1. ProxyTypeOK'
  BY DEF ProxyInv, ProxyTypeOK
<1>2. ASSUME NEW q \in Pages PROVE Sound(player[q], worker[q])'
  <2>1. Sound(player'[q], worker'[q])
    BY DEF ProxyInv
  <2>2. \A v : InCache(v) => InCache(v)'
    BY DEF InCache
  <2> QED BY <2>1, <2>2, SoundIsKept
<1>3. ASSUME NEW e \in encoders', NEW q \in Pages PROVE KeepsOut(e, q, player'[q], worker'[q])
  BY DEF ProxyInv
<1>4. (\A e, f \in encoders : f.proxy = e.proxy => f = e)'
  BY DEF ProxyInv
<1> QED BY <1>1, <1>2, <1>3, <1>4 DEF ProxyInv

\* The steps of a worker between its waits, which leave its page's state alone.
LEMMA WorkerStep_Inv ==
  ASSUME ProxyInv, NEW p \in Pages,
         TakeRequest(p) \/ Stop(p) \/ LockShared(p) \/ LockSharedInstead(p) \/ Purge(p) \/ PublishFailure(p)
  PROVE  ProxyInv'
<1> DEFINE s == player[p]
           w == worker[p]
           x == worker'[p]
<1>1. /\ s \in Players /\ w \in Workers /\ Sound(s, w)
      /\ \A e \in encoders : KeepsOut(e, p, s, w)
      /\ player' = player /\ proxies' = proxies /\ encoders' = encoders
  BY DEF ProxyInv, ProxyTypeOK, TakeRequest, Stop, LockShared, LockSharedInstead, Purge, PublishFailure, fileVars
<1>2. CASE TakeRequest(p)
  <2>1. /\ worker' \in [Pages -> Workers] /\ \A q \in Pages : q # p => worker'[q] = worker[q]
        /\ w.at = "waits" /\ w.request /\ x = [w EXCEPT !.at = "share", !.request = FALSE]
    BY <1>1, <1>2 DEF TakeRequest, ProxyInv, ProxyTypeOK, Workers, Places
  <2>2. Sound(s, x) /\ \A e \in encoders : KeepsOut(e, p, s, x)
    BY <1>1, <2>1 DEF Sound, KeepsOut, Workers, AbsentWorker
  <2> QED BY <1>1, <2>1, <2>2, PageStep DEF ProxyInv, ProxyTypeOK
<1>3. CASE Stop(p)
  <2>1. /\ worker' \in [Pages -> Workers] /\ \A q \in Pages : q # p => worker'[q] = worker[q]
        /\ w.at \in {"waits", "share", "exclude"} /\ x = [w EXCEPT !.at = "gone"]
    BY <1>1, <1>3 DEF Stop, ProxyInv, ProxyTypeOK, Workers, Places
  <2>2. Sound(s, x) /\ \A e \in encoders : KeepsOut(e, p, s, x)
    BY <1>1, <2>1 DEF Sound, KeepsOut, Workers, AbsentWorker
  <2> QED BY <1>1, <2>1, <2>2, PageStep DEF ProxyInv, ProxyTypeOK
<1>4. CASE LockShared(p)
  <2>1. /\ worker' \in [Pages -> Workers] /\ \A q \in Pages : q # p => worker'[q] = worker[q]
        /\ w.at = "share" /\ \A e \in encoders : e.proxy # s.video
        /\ \/ x = [w EXCEPT !.at = "look", !.lock = "shared"] /\ InCache(s.video)
           \/ x = [w EXCEPT !.at = "exclude"]
    BY <1>1, <1>4 DEF LockShared, CanShare, Exclusive, IsReady, ProxyInv, ProxyTypeOK, Workers, Places
  <2>2. Sound(s, x) /\ \A e \in encoders : KeepsOut(e, p, s, x)
    <3>1. CASE x = [w EXCEPT !.at = "look", !.lock = "shared"] /\ InCache(s.video)
      BY <1>1, <2>1, <3>1 DEF Sound, KeepsOut, Workers, AbsentWorker
    <3>2. CASE x = [w EXCEPT !.at = "exclude"]
      BY <1>1, <2>1, <3>2 DEF Sound, KeepsOut, Workers, AbsentWorker
    <3> QED BY <2>1, <3>1, <3>2
  <2> QED BY <1>1, <2>1, <2>2, PageStep DEF ProxyInv, ProxyTypeOK
<1>5. CASE LockSharedInstead(p)
  <2>1. /\ worker' \in [Pages -> Workers] /\ \A q \in Pages : q # p => worker'[q] = worker[q]
        /\ w.at = "exclude" /\ \A e \in encoders : e.proxy # s.video
        /\ x = [w EXCEPT !.at = "look", !.lock = "shared"] /\ InCache(s.video)
    BY <1>1, <1>5 DEF LockSharedInstead, CanShare, Exclusive, IsReady, ProxyInv, ProxyTypeOK, Workers, Places
  <2>2. Sound(s, x) /\ \A e \in encoders : KeepsOut(e, p, s, x)
    BY <1>1, <2>1 DEF Sound, KeepsOut, Workers, AbsentWorker
  <2> QED BY <1>1, <2>1, <2>2, PageStep DEF ProxyInv, ProxyTypeOK
<1>6. CASE Purge(p)
  <2>1. PICK V \in SUBSET Recordings : worker' = [worker EXCEPT ![p].at = "purge", ![p].victims = V]
    <3> DEFINE others == {v \in ToSet(proxies) : v # player[p].video /\ CanExclude(v)}
               V == {v \in others : Cardinality(Older(v) \cap others) + MaxProxies < Len(proxies)}
    <3>1. ToSet(proxies) \subseteq Recordings
      BY DEF ProxyInv, ProxyTypeOK, ToSet
    <3>2. V \in SUBSET Recordings
      BY <3>1
    <3>3. worker' = [worker EXCEPT ![p].at = "purge", ![p].victims = V]
      BY <1>6 DEF Purge
    <3> QED BY <3>2, <3>3
  <2>2. /\ worker' \in [Pages -> Workers] /\ \A q \in Pages : q # p => worker'[q] = worker[q]
        /\ w.at = "look" /\ x = [w EXCEPT !.at = "purge", !.victims = V]
    <3>1. x = [w EXCEPT !.at = "purge", !.victims = V] /\ x \in Workers
      BY <1>1, <2>1 DEF ProxyInv, ProxyTypeOK, Workers, Places
    <3>2. worker' \in [Pages -> Workers] /\ \A q \in Pages : q # p => worker'[q] = worker[q]
      BY <2>1, <3>1 DEF ProxyInv, ProxyTypeOK
    <3> QED BY <1>6, <3>1, <3>2 DEF Purge
  <2>3. Sound(s, x) /\ \A e \in encoders : KeepsOut(e, p, s, x)
    BY <1>1, <2>2 DEF Sound, KeepsOut, Workers, AbsentWorker
  <2> QED BY <1>1, <2>2, <2>3, PageStep DEF ProxyInv, ProxyTypeOK
<1>7. CASE PublishFailure(p)
  <2>1. /\ worker' \in [Pages -> Workers] /\ \A q \in Pages : q # p => worker'[q] = worker[q]
        /\ w.at = "failed" /\ x = [w EXCEPT !.at = "waits", !.lock = "none", !.failed = TRUE]
    BY <1>1, <1>7 DEF PublishFailure, ProxyInv, ProxyTypeOK, Workers, Places
  <2>2. Sound(s, x) /\ \A e \in encoders : KeepsOut(e, p, s, x)
    BY <1>1, <2>1 DEF Sound, KeepsOut, Workers, AbsentWorker
  <2> QED BY <1>1, <2>1, <2>2, PageStep DEF ProxyInv, ProxyTypeOK
<1> QED BY <1>2, <1>3, <1>4, <1>5, <1>6, <1>7

\* The result is published: the page takes over the lock of a proxy that is
\* there and that no encoder writes.
LEMMA Publish_Inv ==
  ASSUME ProxyInv, NEW p \in Pages, Publish(p)
  PROVE  ProxyInv'
<1> DEFINE s == player[p]
           w == worker[p]
           t == player'[p]
           x == worker'[p]
<1>1. /\ s \in Players /\ w \in Workers /\ Sound(s, w)
      /\ \A e \in encoders : KeepsOut(e, p, s, w)
      /\ proxies' = proxies /\ encoders' = encoders /\ w.at = "purge"
  BY DEF ProxyInv, ProxyTypeOK, Publish, fileVars
<1>2. s.open /\ s.video \in Recordings /\ InCache(s.video) /\ ~w.ready /\ s.shared = {} /\ Active(s) = {}
  BY <1>1 DEF Sound, AbsentWorker, Workers
<1>3. /\ worker' \in [Pages -> Workers] /\ \A q \in Pages : q # p => worker'[q] = worker[q]
      /\ x = [w EXCEPT !.at = "waits", !.lock = "none", !.ready = TRUE]
  BY <1>1 DEF Publish, ProxyInv, ProxyTypeOK, Workers, Places
<1>4. /\ player' \in [Pages -> Players] /\ \A q \in Pages : q # p => player'[q] = player[q]
      /\ t = [s EXCEPT !.shared = {s.video}]
  BY <1>1, <1>2 DEF Publish, ProxyInv, ProxyTypeOK, Players
<1>5. /\ t.open /\ t.video = s.video /\ t.shared = {s.video} /\ Active(t) = {}
      /\ x.at = "waits" /\ x.lock = "none" /\ x.ready /\ x.request = w.request
  BY <1>1, <1>2, <1>3, <1>4 DEF Workers, Players, Active
<1>6. Sound(t, x)
  BY <1>1, <1>2, <1>5 DEF Sound
<1>7. \A e \in encoders : KeepsOut(e, p, t, x)
  BY <1>1, <1>2, <1>5 DEF KeepsOut
<1> QED BY <1>1, <1>3, <1>4, <1>6, <1>7, PageStep

-----------------------------------------------------------------------------
\* The page opens, closes, or hears from mpv.
LEMMA OpenPage_Inv ==
  ASSUME ProxyInv, NEW p \in Pages, NEW v \in Recordings, OpenPage(p, v)
  PROVE  ProxyInv'
<1> DEFINE t == [ClosedPlayer EXCEPT !.open = TRUE, !.video = v]
           x == [AbsentWorker EXCEPT !.at = "waits", !.request = TRUE]
<1>1. /\ player[p] \in Players /\ ~player[p].open /\ Sound(player[p], worker[p])
      /\ \A e \in encoders : KeepsOut(e, p, player[p], worker[p])
  BY DEF ProxyInv, ProxyTypeOK, OpenPage
<1>2. t \in Players /\ x \in Workers
  BY DEF ClosedPlayer, AbsentWorker, Players, Workers, Named, MpvStates, Places
<1>3. /\ t.open /\ t.video = v /\ t.shared = {} /\ Active(t) = {}
      /\ x.at = "waits" /\ x.lock = "none" /\ x.request /\ ~x.ready
  BY DEF ClosedPlayer, AbsentWorker, Active
<1> HIDE DEF t, x
<1>4. Sound(t, x) /\ \A e \in encoders : KeepsOut(e, p, t, x)
  BY <1>1, <1>3 DEF Sound, KeepsOut
<1>5. player' = [player EXCEPT ![p] = t] /\ worker' = [worker EXCEPT ![p] = x] /\ proxies' = proxies /\ encoders' = encoders
  BY DEF OpenPage, t, x, fileVars
<1>6. /\ player' \in [Pages -> Players] /\ worker' \in [Pages -> Workers] /\ player'[p] = t /\ worker'[p] = x
      /\ \A q \in Pages : q # p => player'[q] = player[q] /\ worker'[q] = worker[q]
  BY <1>2, <1>5 DEF ProxyInv, ProxyTypeOK
<1> QED BY <1>4, <1>5, <1>6, PageStep

LEMMA ClosePage_Inv ==
  ASSUME ProxyInv, NEW p \in Pages, ClosePage(p)
  PROVE  ProxyInv'
<1> DEFINE s == player[p]
           w == worker[p]
           t == player'[p]
<1>1. /\ s \in Players /\ w \in Workers /\ Sound(s, w) /\ s.open
      /\ \A e \in encoders : KeepsOut(e, p, s, w)
      /\ proxies' = proxies /\ encoders' = encoders /\ worker' = worker
  BY DEF ProxyInv, ProxyTypeOK, ClosePage, fileVars
<1>2. /\ player' \in [Pages -> Players] /\ \A q \in Pages : q # p => player'[q] = player[q]
      /\ t = [s EXCEPT !.stop = TRUE]
  BY <1>1 DEF ClosePage, ProxyInv, ProxyTypeOK, Players
<1>3. t.open /\ t.video = s.video /\ t.shared = s.shared /\ Active(t) = Active(s)
  BY <1>1, <1>2 DEF Players, Active
<1>4. Sound(t, w) /\ \A e \in encoders : KeepsOut(e, p, t, w)
  BY <1>1, <1>3 DEF Sound, KeepsOut
<1> QED BY <1>1, <1>2, <1>4, PageStep DEF ProxyInv, ProxyTypeOK

LEMMA MpvAnswers_Inv ==
  ASSUME ProxyInv, NEW p \in Pages, NEW answer \in {"loaded", "error"}, MpvAnswers(p, answer)
  PROVE  ProxyInv'
<1> DEFINE s == player[p]
           w == worker[p]
           t == player'[p]
<1>1. /\ s \in Players /\ w \in Workers /\ Sound(s, w) /\ s.mpv = "loading"
      /\ \A e \in encoders : KeepsOut(e, p, s, w)
      /\ proxies' = proxies /\ encoders' = encoders /\ worker' = worker
  BY DEF ProxyInv, ProxyTypeOK, MpvAnswers, fileVars
<1>2. s.open
  BY <1>1 DEF Sound, ClosedPlayer
<1>3. /\ player' \in [Pages -> Players] /\ \A q \in Pages : q # p => player'[q] = player[q]
      /\ t = [s EXCEPT !.mpv = answer]
  BY <1>1 DEF MpvAnswers, ProxyInv, ProxyTypeOK, Players, MpvStates
<1>4. t.open /\ t.video = s.video /\ t.shared = s.shared /\ Active(t) = Active(s)
  BY <1>1, <1>2, <1>3 DEF Players, Active
<1>5. Sound(t, w) /\ \A e \in encoders : KeepsOut(e, p, t, w)
  BY <1>1, <1>2, <1>4 DEF Sound, KeepsOut
<1> QED BY <1>1, <1>3, <1>5, PageStep DEF ProxyInv, ProxyTypeOK

LEMMA JoinWorker_Inv ==
  ASSUME ProxyInv, NEW p \in Pages, JoinWorker(p)
  PROVE  ProxyInv'
<1>1. /\ worker[p].at = "gone" /\ \A e \in encoders : KeepsOut(e, p, player[p], worker[p])
      /\ proxies' = proxies /\ encoders' = encoders
  BY DEF ProxyInv, JoinWorker, fileVars
<1>2. /\ player' \in [Pages -> Players] /\ worker' \in [Pages -> Workers]
      /\ player'[p] = ClosedPlayer /\ worker'[p] = AbsentWorker
      /\ \A q \in Pages : q # p => player'[q] = player[q] /\ worker'[q] = worker[q]
  BY ClosedTypes DEF JoinWorker, ProxyInv, ProxyTypeOK
<1>3. \A e \in encoders : KeepsOut(e, p, ClosedPlayer, AbsentWorker)
  BY <1>1 DEF KeepsOut, ClosedPlayer
<1> QED BY <1>1, <1>2, <1>3, ClosedIsSound, PageStep

\* A frame activates nothing but the published proxy, and keeps its lock.
LEMMA Frame_Inv ==
  ASSUME ProxyInv, NEW p \in Pages, Frame(p)
  PROVE  ProxyInv'
<1> DEFINE s == player[p]
           w == worker[p]
           published == IF w.ready THEN s.video ELSE NoProxy
           answered == CASE s.mpv = "loaded" -> [s EXCEPT !.proxy = published, !.loaded = s.pending, !.pending = NoProxy, !.mpv = "plays"]
                         [] s.mpv = "error"  -> [s EXCEPT !.proxy = published, !.pending = NoProxy, !.mpv = "idle"]
                         [] OTHER            -> [s EXCEPT !.proxy = published]
           next == IF published \in {NoProxy, answered.loaded, answered.pending} THEN answered
                   ELSE [answered EXCEPT !.pending = published, !.mpv = "loading"]
           t == [next EXCEPT !.shared = Active(next)]
<1>1. /\ s \in Players /\ w \in Workers /\ Sound(s, w) /\ s.open
      /\ \A e \in encoders : KeepsOut(e, p, s, w)
      /\ proxies' = proxies /\ encoders' = encoders /\ worker' = worker
      /\ player' = [player EXCEPT ![p] = t]
  BY DEF ProxyInv, ProxyTypeOK, Frame, fileVars
<1>2. s.video \in Recordings /\ published \in Named /\ {s.proxy, s.pending, s.loaded} \subseteq {NoProxy, published}
  BY <1>1, ProxyAssumption DEF Sound, Active, Named
<1> HIDE DEF published
<1>3. /\ answered \in Players /\ answered.open /\ answered.video = s.video
      /\ answered.proxy = published /\ {answered.pending, answered.loaded} \subseteq {NoProxy, published}
  <2>1. CASE s.mpv = "loaded"
    BY <1>1, <1>2, <2>1 DEF Players, Named, MpvStates
  <2>2. CASE s.mpv = "error"
    BY <1>1, <1>2, <2>2 DEF Players, Named, MpvStates
  <2>3. CASE s.mpv # "loaded" /\ s.mpv # "error"
    BY <1>1, <1>2, <2>3 DEF Players, Named, MpvStates
  <2> QED BY <2>1, <2>2, <2>3
<1> HIDE DEF answered
<1>4. /\ next \in Players /\ next.open /\ next.video = s.video
      /\ next.proxy = published /\ {next.pending, next.loaded} \subseteq {NoProxy, published}
  BY <1>2, <1>3 DEF Players, Named, MpvStates
<1> HIDE DEF next
<1>5. Active(next) = {published} \ {NoProxy}
  BY <1>4 DEF Active
<1>6. /\ t \in Players /\ t.open /\ t.video = s.video
      /\ t.shared = {published} \ {NoProxy} /\ Active(t) = {published} \ {NoProxy}
  BY <1>2, <1>4, <1>5 DEF Players, Named, Active
<1> HIDE DEF t
<1>7. {published} \ {NoProxy} = IF w.ready THEN {s.video} ELSE {}
  BY <1>2, ProxyAssumption DEF published
<1>8. Sound(t, w) /\ \A e \in encoders : KeepsOut(e, p, t, w)
  BY <1>1, <1>6, <1>7 DEF Sound, KeepsOut
<1>9. player' \in [Pages -> Players] /\ player'[p] = t /\ \A q \in Pages : q # p => player'[q] = player[q]
  BY <1>1, <1>6 DEF ProxyInv, ProxyTypeOK
<1> QED BY <1>1, <1>8, <1>9, PageStep DEF ProxyInv, ProxyTypeOK

-----------------------------------------------------------------------------
\* The exclusive lock is free of encoders, so the one that is started is alone.
LEMMA LockExclusive_Inv ==
  ASSUME ProxyInv, NEW p \in Pages, LockExclusive(p)
  PROVE  ProxyInv'
<1> DEFINE s == player[p]
           w == worker[p]
           x == worker'[p]
           mine == [proxy |-> s.video, page |-> {p}]
<1>1. /\ s \in Players /\ w \in Workers /\ Sound(s, w) /\ w.at = "exclude"
      /\ \A e \in encoders : KeepsOut(e, p, s, w)
      /\ proxies' = proxies /\ player' = player
  BY DEF ProxyInv, ProxyTypeOK, LockExclusive, fileVars
<1>2. s.open /\ s.video \in Recordings /\ ~w.ready /\ ~w.request
  BY <1>1 DEF Sound, AbsentWorker
<1>3. Sharers(s.video) = {} /\ ~Exclusive(s.video)
  BY DEF LockExclusive, CanExclude
<1>4. \A e \in encoders : e.proxy # s.video
  BY <1>3 DEF Exclusive
<1>5. CASE InCache(s.video)
  <2>1. /\ worker' \in [Pages -> Workers] /\ \A q \in Pages : q # p => worker'[q] = worker[q]
        /\ x = [w EXCEPT !.at = "look", !.lock = "exclusive"] /\ encoders' = encoders
    BY <1>1, <1>5 DEF LockExclusive, IsReady, ProxyInv, ProxyTypeOK, Workers, Places
  <2>2. Sound(s, x) /\ \A e \in encoders : KeepsOut(e, p, s, x)
    BY <1>1, <1>2, <1>4, <1>5, <2>1 DEF Sound, KeepsOut, Workers
  <2> QED BY <1>1, <2>1, <2>2, PageStep DEF ProxyInv, ProxyTypeOK
<1>6. CASE ~InCache(s.video)
  <2>1. /\ worker' \in [Pages -> Workers] /\ \A q \in Pages : q # p => worker'[q] = worker[q]
        /\ x = [w EXCEPT !.at = "encode", !.lock = "exclusive"] /\ encoders' = encoders \cup {mine}
    BY <1>1, <1>6 DEF LockExclusive, IsReady, ProxyInv, ProxyTypeOK, Workers, Places
  <2>2. Sound(s, x) /\ \A e \in encoders : KeepsOut(e, p, s, x)
    BY <1>1, <1>2, <1>4, <2>1 DEF Sound, KeepsOut, Workers
  <2>3. ASSUME NEW q \in Pages PROVE KeepsOut(mine, q, player[q], worker'[q])
    <3>1. CASE q = p
      <4>1. x.at = "encode" /\ ~x.ready
        BY <1>1, <1>2, <2>1 DEF Workers
      <4> QED BY <1>2, <3>1, <4>1 DEF KeepsOut
    <3>2. CASE q # p
      <4>1. player[q].video = s.video => s.video \notin player[q].shared /\ worker[q].lock = "none"
        BY <1>3, <3>2 DEF Sharers, Exclusive, ProxyInv, ProxyTypeOK, Workers
      <4>2. player[q].video = s.video => ~worker[q].ready /\ worker[q].at \notin {"look", "purge"}
        BY <4>1 DEF ProxyInv, Sound
      <4> QED BY <2>1, <3>2, <4>2 DEF KeepsOut
    <3> QED BY <3>1, <3>2
  <2>4. ProxyTypeOK'
    BY <1>1, <1>2, <2>1 DEF ProxyInv, ProxyTypeOK
  <2>5. (\A q \in Pages : Sound(player[q], worker[q]))'
    <3>1. \A q \in Pages : Sound(player'[q], worker'[q])
      BY <1>1, <2>1, <2>2 DEF ProxyInv
    <3>2. \A v : InCache(v) => InCache(v)'
      BY <1>1 DEF InCache
    <3> QED BY <3>1, <3>2, SoundIsKept
  <2>6. (\A e, f \in encoders : f.proxy = e.proxy => f = e)'
    BY <1>4, <2>1 DEF ProxyInv
  <2>7. (\A e \in encoders, q \in Pages : KeepsOut(e, q, player[q], worker[q]))'
    <3> SUFFICES ASSUME NEW e \in encoders', NEW q \in Pages
                 PROVE  KeepsOut(e, q, player'[q], worker'[q])
      BY DEF KeepsOut
    <3>1. CASE e \in encoders
      BY <1>1, <2>1, <2>2, <3>1 DEF ProxyInv
    <3>2. CASE e = mine
      BY <1>1, <2>3, <3>2
    <3> QED BY <2>1, <3>1, <3>2
  <2> QED BY <2>4, <2>5, <2>6, <2>7 DEF ProxyInv
<1> QED BY <1>5, <1>6

\* A victim goes only if nobody has its lock, so it is nobody's proxy.
LEMMA RemoveVictim_Inv ==
  ASSUME ProxyInv, NEW p \in Pages, NEW v \in Recordings, RemoveVictim(p, v)
  PROVE  ProxyInv'
<1> DEFINE w == worker[p]
           x == worker'[p]
<1>1. /\ w \in Workers /\ w.at = "purge" /\ player' = player /\ encoders' = encoders
      /\ proxies \in Seq(Recordings) /\ proxies' = IF Removable(v) THEN RemoveFirst(proxies, v) ELSE proxies
  BY DEF ProxyInv, ProxyTypeOK, RemoveVictim
<1>2. /\ worker' \in [Pages -> Workers] /\ \A q \in Pages : q # p => worker'[q] = worker[q]
      /\ x = [w EXCEPT !.victims = @ \ {v}]
  BY <1>1 DEF RemoveVictim, ProxyInv, ProxyTypeOK, Workers
<1>3. x.at = w.at /\ x.lock = w.lock /\ x.ready = w.ready /\ x.request = w.request /\ x # AbsentWorker /\ w # AbsentWorker
  BY <1>1, <1>2 DEF Workers, AbsentWorker
<1>4. ProxyTypeOK'
  BY <1>1, <1>2, RemoveFirstIsSeq DEF ProxyInv, ProxyTypeOK
<1>5. ASSUME NEW q \in Pages, worker[q].ready \/ worker[q].at \in {"look", "purge"}
      PROVE  InCache(player[q].video)'
  <2>1. InCache(player[q].video)
    BY <1>5 DEF ProxyInv, Sound
  <2>2. CASE Removable(v)
    <3>1. Sharers(v) = {} /\ ~Exclusive(v)
      BY <2>2 DEF Removable, CanExclude
    <3>2. player[q].video # v
      <4> SUFFICES ASSUME player[q].video = v PROVE FALSE
        OBVIOUS
      <4>1. v \notin player[q].shared /\ worker[q].lock = "none"
        BY <3>1 DEF Sharers, Exclusive, ProxyInv, ProxyTypeOK, Workers
      <4> QED BY <1>5, <4>1 DEF ProxyInv, Sound
    <3> QED BY <1>1, <2>1, <2>2, <3>2, RemoveFirstKeepsOthers DEF InCache
  <2>3. CASE ~Removable(v)
    BY <1>1, <2>1, <2>3 DEF InCache
  <2> QED BY <2>2, <2>3
<1>6. (\A q \in Pages : Sound(player[q], worker[q]))'
  <2> SUFFICES ASSUME NEW q \in Pages PROVE Sound(player[q], worker[q])'
    OBVIOUS
  <2>1. Sound(player[q], worker[q])
    BY DEF ProxyInv
  <2>2. CASE q = p
    BY <1>1, <1>3, <1>5, <2>1, <2>2 DEF Sound
  <2>3. CASE q # p
    BY <1>1, <1>2, <1>5, <2>1, <2>3 DEF Sound
  <2> QED BY <2>2, <2>3
<1>7. (\A e \in encoders, q \in Pages : KeepsOut(e, q, player[q], worker[q]))'
  BY <1>1, <1>2, <1>3 DEF ProxyInv, KeepsOut
<1>8. (\A e, f \in encoders : f.proxy = e.proxy => f = e)'
  BY <1>1 DEF ProxyInv
<1> QED BY <1>4, <1>6, <1>7, <1>8 DEF ProxyInv

\* A killed program leaves its encoder behind, which waits for nobody.
LEMMA Crash_Inv ==
  ASSUME ProxyInv, NEW p \in Pages, Crash(p)
  PROVE  ProxyInv'
<1> DEFINE Left(e) == [e EXCEPT !.page = @ \ {p}]
<1>1. /\ encoders \subseteq [proxy : Recordings, page : SUBSET Pages]
      /\ proxies' = proxies /\ encoders' = {Left(e) : e \in encoders}
      /\ \A e, f \in encoders : f.proxy = e.proxy => f = e
  BY DEF ProxyInv, ProxyTypeOK, Crash, fileVars
<1>2. /\ player' \in [Pages -> Players] /\ worker' \in [Pages -> Workers]
      /\ player'[p] = ClosedPlayer /\ worker'[p] = AbsentWorker
      /\ \A q \in Pages : q # p => player'[q] = player[q] /\ worker'[q] = worker[q]
  BY ClosedTypes DEF Crash, ProxyInv, ProxyTypeOK
<1>3. ASSUME NEW e \in encoders
      PROVE  Left(e) \in [proxy : Recordings, page : SUBSET Pages] /\ Left(e).proxy = e.proxy /\ Left(e).page = e.page \ {p}
  BY <1>1
<1> HIDE DEF Left
<1>4. ProxyTypeOK'
  BY <1>1, <1>2, <1>3 DEF ProxyInv, ProxyTypeOK
<1>5. (\A q \in Pages : Sound(player[q], worker[q]))'
  <2> SUFFICES ASSUME NEW q \in Pages PROVE Sound(player[q], worker[q])'
    OBVIOUS
  <2>1. CASE q = p
    BY <1>2, <2>1, ClosedIsSound DEF Sound, ClosedPlayer, AbsentWorker
  <2>2. CASE q # p
    BY <1>1, <1>2, <2>2 DEF ProxyInv, Sound, InCache
  <2> QED BY <2>1, <2>2
<1>6. (\A e, f \in encoders : f.proxy = e.proxy => f = e)'
  BY <1>1, <1>3
<1>7. (\A e \in encoders, q \in Pages : KeepsOut(e, q, player[q], worker[q]))'
  <2> SUFFICES ASSUME NEW e \in encoders, NEW q \in Pages
               PROVE  KeepsOut(Left(e), q, player'[q], worker'[q])
    BY <1>1 DEF KeepsOut
  <2>1. KeepsOut(e, q, player[q], worker[q])
    BY DEF ProxyInv
  <2>2. CASE q = p
    BY <1>2, <1>3, <2>2 DEF KeepsOut, ClosedPlayer
  <2>3. CASE q # p
    BY <1>2, <1>3, <2>1, <2>3 DEF KeepsOut
  <2> QED BY <2>2, <2>3
<1> QED BY <1>4, <1>5, <1>6, <1>7 DEF ProxyInv

LEMMA EncoderWrites_Inv ==
  ASSUME ProxyInv, NEW e \in encoders, EncoderWrites(e)
  PROVE  ProxyInv'
<1>1. /\ e.proxy \in Recordings /\ proxies \in Seq(Recordings) /\ proxies' = Append(proxies, e.proxy)
      /\ player' = player /\ worker' = worker /\ encoders' = encoders
  BY DEF ProxyInv, ProxyTypeOK, EncoderWrites
<1>2. proxies' \in Seq(Recordings) /\ ToSet(proxies') = ToSet(proxies) \cup {e.proxy}
  BY <1>1, AppendKeeps
<1>3. ProxyTypeOK'
  BY <1>1, <1>2 DEF ProxyInv, ProxyTypeOK
<1>4. (\A q \in Pages : Sound(player[q], worker[q]))'
  BY <1>1, <1>2 DEF ProxyInv, Sound, InCache
<1>5. (\A d \in encoders, q \in Pages : KeepsOut(d, q, player[q], worker[q]))'
  BY <1>1 DEF ProxyInv, KeepsOut
<1>6. (\A d, f \in encoders : f.proxy = d.proxy => f = d)'
  BY <1>1 DEF ProxyInv
<1> QED BY <1>3, <1>4, <1>5, <1>6 DEF ProxyInv

\* A worker that moves keeps the rest.
LEMMA PlaceIsSet ==
  ASSUME NEW w \in Workers, NEW place \in Places
  PROVE  LET x == [w EXCEPT !.at = place]
         IN  /\ x \in Workers /\ x.at = place /\ x.lock = w.lock
             /\ x.ready = w.ready /\ x.request = w.request
BY DEF Workers

\* The worker that waits for the encoder has the only one of its proxy, and looks
\* at a file that is there.
LEMMA EncoderEnds_Inv ==
  ASSUME ProxyInv, NEW e \in encoders, NEW success \in BOOLEAN, EncoderEnds(e, success)
  PROVE  ProxyInv'
<1>1. /\ e.proxy \in Recordings /\ proxies \in Seq(Recordings)
      /\ proxies' = IF InCache(e.proxy) THEN Append(RemoveFirst(proxies, e.proxy), e.proxy) ELSE proxies
      /\ player' = player /\ encoders' = encoders \ {e} /\ (success => InCache(e.proxy))
  BY DEF ProxyInv, ProxyTypeOK, EncoderEnds
<1>2. proxies' \in Seq(Recordings) /\ \A v : InCache(v) => InCache(v)'
  <2>1. CASE InCache(e.proxy)
    <3>1. RemoveFirst(proxies, e.proxy) \in Seq(Recordings)
      BY <1>1, RemoveFirstIsSeq
    <3>2. proxies' \in Seq(Recordings) /\ ToSet(proxies') = ToSet(RemoveFirst(proxies, e.proxy)) \cup {e.proxy}
      BY <1>1, <2>1, <3>1, AppendKeeps
    <3>3. ASSUME NEW v, InCache(v) PROVE InCache(v)'
      BY <1>1, <3>2, <3>3, RemoveFirstKeepsOthers DEF InCache
    <3> QED BY <3>2, <3>3
  <2>2. CASE ~InCache(e.proxy)
    BY <1>1, <2>2 DEF InCache
  <2> QED BY <2>1, <2>2
<1>3. ASSUME NEW q \in Pages
      PROVE  /\ worker[q] \in Workers /\ worker'[q] \in Workers
             /\ q \in e.page => /\ worker[q].at = "encode" /\ player[q].open /\ player[q].video = e.proxy
                                /\ worker'[q] = [worker[q] EXCEPT !.at = IF success THEN "look" ELSE "failed"]
             /\ q \notin e.page => worker'[q] = worker[q]
  <2>1. worker[q] \in Workers /\ KeepsOut(e, q, player[q], worker[q])
    BY DEF ProxyInv, ProxyTypeOK
  <2>2. worker'[q] = IF q \in e.page THEN [worker[q] EXCEPT !.at = IF success THEN "look" ELSE "failed"]
                     ELSE worker[q]
    BY DEF EncoderEnds
  <2>3. [worker[q] EXCEPT !.at = IF success THEN "look" ELSE "failed"] \in Workers
    BY <2>1, PlaceIsSet DEF Places
  <2> QED BY <2>1, <2>2, <2>3 DEF KeepsOut
<1>4. ProxyTypeOK'
  BY <1>1, <1>2, <1>3 DEF ProxyInv, ProxyTypeOK, EncoderEnds
<1>5. (\A q \in Pages : Sound(player[q], worker[q]))'
  <2> SUFFICES ASSUME NEW q \in Pages PROVE Sound(player[q], worker[q])'
    OBVIOUS
  <2>1. Sound(player[q], worker[q])
    BY DEF ProxyInv
  <2>2. CASE q \in e.page
    <3> DEFINE x     == worker'[q]
               place == IF success THEN "look" ELSE "failed"
    <3>a. x = [worker[q] EXCEPT !.at = place] /\ worker[q] \in Workers /\ place \in Places
      BY <1>3, <2>2 DEF Places
    <3>b. /\ x.at = place /\ x.lock = worker[q].lock
          /\ x.ready = worker[q].ready /\ x.request = worker[q].request
      BY <3>a, PlaceIsSet
    <3>1. x.at \in {"look", "failed"} /\ (x.at = "look" => success)
      BY <3>b
    <3>2. x.lock = worker[q].lock /\ x.ready = worker[q].ready /\ x.request = worker[q].request
      BY <3>b
    <3>3. worker[q].lock = "exclusive" /\ ~worker[q].ready /\ ~worker[q].request
      BY <1>3, <2>1, <2>2 DEF Sound, Workers
    <3>4. x.at = "look" => InCache(player[q].video)'
      BY <1>1, <1>2, <1>3, <2>2, <3>1
    <3> QED BY <1>1, <1>3, <2>1, <2>2, <3>1, <3>2, <3>3, <3>4 DEF Sound
  <2>3. CASE q \notin e.page
    BY <1>1, <1>2, <1>3, <2>1, <2>3 DEF Sound
  <2> QED BY <2>2, <2>3
<1>6. (\A d, f \in encoders : f.proxy = d.proxy => f = d)'
  BY <1>1 DEF ProxyInv
<1>7. (\A d \in encoders, q \in Pages : KeepsOut(d, q, player[q], worker[q]))'
  <2> SUFFICES ASSUME NEW d \in encoders \ {e}, NEW q \in Pages
               PROVE  KeepsOut(d, q, player[q], worker'[q])
    BY <1>1 DEF KeepsOut
  <2>1. KeepsOut(d, q, player[q], worker[q]) /\ d.proxy # e.proxy
    BY DEF ProxyInv
  <2> QED BY <1>3, <2>1 DEF KeepsOut
<1> QED BY <1>4, <1>5, <1>6, <1>7 DEF ProxyInv

-----------------------------------------------------------------------------
LEMMA ProxyNext_Inv ==
  ASSUME ProxyInv, [ProxyNext]_proxyVars
  PROVE  ProxyInv'
<1>1. ASSUME NEW p \in Pages, WorkerStep(p) PROVE ProxyInv'
  BY <1>1, WorkerStep_Inv, LockExclusive_Inv, RemoveVictim_Inv, Publish_Inv DEF WorkerStep
<1>2. ASSUME NEW p \in Pages, Frame(p) \/ ClosePage(p) \/ JoinWorker(p) \/ Crash(p) PROVE ProxyInv'
  BY <1>2, Frame_Inv, ClosePage_Inv, JoinWorker_Inv, Crash_Inv
<1>3. ASSUME NEW p \in Pages, NEW v \in Recordings, OpenPage(p, v) PROVE ProxyInv'
  BY <1>3, OpenPage_Inv
<1>4. ASSUME NEW p \in Pages, NEW answer \in {"loaded", "error"}, MpvAnswers(p, answer) PROVE ProxyInv'
  BY <1>4, MpvAnswers_Inv
<1>5. CASE EncoderStep
  BY <1>5, EncoderWrites_Inv, EncoderEnds_Inv DEF EncoderStep
<1>6. CASE UNCHANGED proxyVars
  <2>1. /\ player' = player /\ worker' = worker /\ proxies' = proxies /\ encoders' = encoders
        /\ \A v : InCache(v) => InCache(v)'
    BY <1>6 DEF proxyVars, InCache
  <2>2. (\A p \in Pages : Sound(player[p], worker[p]))'
    <3>1. \A p \in Pages : Sound(player'[p], worker'[p])
      BY <2>1 DEF ProxyInv
    <3> QED BY <2>1, <3>1, SoundIsKept
  <2>3. (\A e \in encoders, p \in Pages : KeepsOut(e, p, player[p], worker[p]))'
    BY <2>1 DEF ProxyInv, KeepsOut
  <2>4. ProxyTypeOK' /\ (\A e, f \in encoders : f.proxy = e.proxy => f = e)'
    BY <2>1 DEF ProxyInv, ProxyTypeOK
  <2> QED BY <2>2, <2>3, <2>4 DEF ProxyInv
<1> QED BY <1>1, <1>2, <1>3, <1>4, <1>5, <1>6 DEF ProxyNext

\* However the pages, the purges of other programs, ffmpeg and crashes are
\* interleaved, what a page plays or gives to mpv stays in the cache
\* (VideoPlayer.cpp, remove_proxy_cache_file_if_unlocked).
THEOREM ProxySpec_PlayedProxyIsKept == ProxySpec => []PlayedProxyIsKept
<1>1. ProxyInv => PlayedProxyIsKept
  BY DEF ProxyInv, Sound, PlayedProxyIsKept
<1> QED BY <1>1, ProxyInit_Inv, ProxyNext_Inv, PTL DEF ProxySpec

\* One ffmpeg at most writes a proxy and no page reads it meanwhile, whoever
\* started it and whether that program still runs (VideoPlayer.cpp,
\* proxy_worker_loop).
THEOREM ProxySpec_EncoderIsAlone == ProxySpec => []EncoderIsAlone
<1>1. ProxyInv => EncoderIsAlone
  <2> SUFFICES ASSUME ProxyInv, NEW e \in encoders, NEW p \in Pages, player[p].open, e.proxy \in Active(player[p])
               PROVE  FALSE
    BY DEF ProxyInv, EncoderIsAlone
  <2>1. Sound(player[p], worker[p]) /\ KeepsOut(e, p, player[p], worker[p])
    BY DEF ProxyInv
  <2> QED BY <2>1 DEF Sound, KeepsOut
<1> QED BY <1>1, ProxyInit_Inv, ProxyNext_Inv, PTL DEF ProxySpec

-----------------------------------------------------------------------------
(* Thumbnails, for any number of timelines, every length of the video and  *)
(* every size of the cache.                                                *)

Durations == 0..MaxDuration
Modes == {"absent", "lost", "shared", "exclusive"}
PainterPlaces == {"gone", "waits", "lock", "look", "upgrade", "recheck", "encode", "touch", "purge", "publish"}

TimelineStates ==
    [open : BOOLEAN, stop : BOOLEAN, source : BOOLEAN, duration : Durations, generation : Nat, request : BOOLEAN,
     pending : Durations, generating : Durations, drawn : Durations, ready : BOOLEAN, result : Durations,
     locks : [Dirs -> Modes]]
PainterStates == [at : PainterPlaces, generation : Nat, dir : Durations, filled : BOOLEAN]

Paints(w) == w.at \notin {"waits", "gone"}

\* The modes the lock on the painter's directory can have where the painter is.
ModesAt(place) ==
    IF place = "lock" THEN {"absent", "shared"}
    ELSE IF place \in {"look", "touch"} THEN {"shared"}
    ELSE IF place = "upgrade" THEN {"shared", "lost"}
    ELSE IF place \in {"recheck", "encode"} THEN {"exclusive", "lost"}
    ELSE {"shared", "exclusive", "lost"}

\* Pictures that are ready or drawn are of the duration the timeline has, and
\* complete for as long as it has its lock.
Kept(s, d, c) == d # NoDir => d \in c /\ d = s.duration /\ s.locks[d] = "shared"

\* A request is for the duration of now, with nothing ready or drawn, and its
\* directory is not yet fought for.
RequestOK(s, w) ==
    s.request => /\ s.pending # NoDir /\ w.generation < s.generation
                 /\ ~s.ready /\ s.drawn = NoDir /\ s.locks[s.pending] \in {"absent", "shared"}

\* The painter's directory is the one its timeline keeps locked, and is of the
\* duration of now only for the last request.
PainterOK(s, w, c) ==
    Paints(w) => /\ s.source /\ w.dir # NoDir /\ s.locks[w.dir] \in ModesAt(w.at)
                 /\ w.at = "touch" => w.dir \in c
                 /\ w.filled => w.at \in {"purge", "publish"} /\ w.dir \in c /\ s.locks[w.dir] = "shared"
                 /\ w.generation = s.generation => w.dir = s.duration /\ ~s.ready /\ s.drawn = NoDir
                 /\ w.generation # s.generation => w.dir < s.duration

TimelineOK(s, w, c) ==
    /\ s.pending = IF s.source THEN s.duration ELSE NoDir
    /\ s.generating = IF Paints(w) THEN w.dir ELSE NoDir
    /\ w.generation <= s.generation
    /\ RequestOK(s, w) /\ PainterOK(s, w, c)
    /\ s.ready => Kept(s, s.result, c)
    /\ Kept(s, s.drawn, c)
    /\ \A d \in Dirs : s.locks[d] # "absent" => s.source /\ d <= s.duration
    /\ w.at = "gone" => w = AbsentPainter
    /\ ~s.open => s = ClosedTimeline /\ w = AbsentPainter

\* One holder of an exclusive lock, and then no other.
LocksExclude ==
    \A t, u \in Timelines : t # u =>
        \A d \in Dirs : timeline[t].locks[d] = "exclusive" => timeline[u].locks[d] \in {"absent", "lost"}

ThumbnailsInv ==
    /\ timeline \in [Timelines -> TimelineStates] /\ painter \in [Timelines -> PainterStates]
    /\ \A t \in Timelines : TimelineOK(timeline[t], painter[t], complete)
    /\ LocksExclude

LEMMA ThumbnailsInvImplies == ThumbnailsInv => DrawnIsKept /\ PainterIsAlone
<1> SUFFICES ASSUME ThumbnailsInv PROVE DrawnIsKept /\ PainterIsAlone
  OBVIOUS
<1>1. DrawnIsKept
  BY DEF ThumbnailsInv, TimelineOK, Kept, DrawnIsKept
<1>2. ASSUME NEW t \in Timelines, NEW u \in Timelines, t # u, painter[t].at = "encode",
             timeline[t].locks[painter[t].dir] # "lost"
      PROVE  /\ painter[u].at = "encode" /\ painter[u].dir = painter[t].dir => timeline[u].locks[painter[t].dir] = "lost"
             /\ timeline[u].drawn # painter[t].dir
  <2> DEFINE d == painter[t].dir
  <2>1. d \in Dirs /\ timeline[t].locks[d] = "exclusive"
    BY <1>2 DEF ThumbnailsInv, TimelineOK, PainterOK, Paints, ModesAt, PainterStates, Durations, Dirs, NoDir
  <2>2. timeline[u].locks[d] \in {"absent", "lost"}
    BY <1>2, <2>1 DEF ThumbnailsInv, LocksExclude
  <2>3. painter[u].at = "encode" /\ painter[u].dir = d => timeline[u].locks[d] \in {"exclusive", "lost"}
    BY DEF ThumbnailsInv, TimelineOK, PainterOK, Paints, ModesAt
  <2>4. timeline[u].drawn = d => timeline[u].locks[d] = "shared"
    BY <2>1 DEF ThumbnailsInv, TimelineOK, Kept, Dirs, NoDir
  <2> QED BY <2>2, <2>3, <2>4
<1> QED BY <1>1, <1>2 DEF PainterIsAlone

-----------------------------------------------------------------------------
\* A state is as good after others' directories went, if those it has locked stay.
LEMMA StillOK ==
  ASSUME NEW s \in TimelineStates, NEW w \in PainterStates, NEW c, NEW e, TimelineOK(s, w, c),
         \A d \in Dirs : d \in c /\ s.locks[d] = "shared" => d \in e
  PROVE  TimelineOK(s, w, e)
<1>1. \A d \in Durations : Kept(s, d, c) => Kept(s, d, e)
  BY ThumbnailsAssumption DEF Kept, Durations, Dirs, NoDir
<1>2. PainterOK(s, w, e)
  BY ThumbnailsAssumption DEF TimelineOK, PainterOK, ModesAt, PainterStates, Durations, Dirs, NoDir
<1> QED BY <1>1, <1>2 DEF TimelineOK, TimelineStates

\* The locks s that timeline t may have after a step.
MayLock(t, s) ==
    \A d \in Dirs : \/ s.locks[d] = timeline[t].locks[d] \/ s.locks[d] \in {"absent", "lost"}
                    \/ s.locks[d] = "shared" /\ ~Locked(d, {"exclusive"}, t)
                    \/ ~Locked(d, {"shared", "exclusive"}, t)

\* A step of one timeline and its painter.
LEMMA OneTimeline ==
  ASSUME ThumbnailsInv, NEW t \in Timelines, NEW s \in TimelineStates, NEW w \in PainterStates,
         timeline' = [timeline EXCEPT ![t] = s], painter' = [painter EXCEPT ![t] = w],
         TimelineOK(s, w, complete'), MayLock(t, s),
         \A u \in Timelines \ {t}, d \in Dirs : d \in complete /\ timeline[u].locks[d] = "shared" => d \in complete'
  PROVE  ThumbnailsInv'
<1>1. /\ timeline' \in [Timelines -> TimelineStates] /\ painter' \in [Timelines -> PainterStates]
      /\ timeline'[t] = s /\ painter'[t] = w
      /\ \A u \in Timelines \ {t} : timeline'[u] = timeline[u] /\ painter'[u] = painter[u]
  BY DEF ThumbnailsInv
<1>2. ASSUME NEW u \in Timelines PROVE TimelineOK(timeline'[u], painter'[u], complete')
  <2>1. CASE u = t
    BY <1>1, <2>1
  <2>2. CASE u # t
    <3>1. timeline[u] \in TimelineStates /\ painter[u] \in PainterStates /\ TimelineOK(timeline[u], painter[u], complete)
      BY DEF ThumbnailsInv
    <3>2. TimelineOK(timeline[u], painter[u], complete')
      BY <2>2, <3>1, StillOK
    <3> QED BY <1>1, <2>2, <3>2
  <2> QED BY <2>1, <2>2
<1>3. ASSUME NEW u \in Timelines \ {t}, NEW d \in Dirs
      PROVE  /\ s.locks[d] = "exclusive" => timeline[u].locks[d] \in {"absent", "lost"}
             /\ timeline[u].locks[d] = "exclusive" => s.locks[d] \in {"absent", "lost"}
  <2>1. timeline[u].locks[d] \in Modes /\ s.locks[d] \in Modes
    BY DEF ThumbnailsInv, TimelineStates
  <2>2. /\ timeline[t].locks[d] = "exclusive" => timeline[u].locks[d] \in {"absent", "lost"}
        /\ timeline[u].locks[d] = "exclusive" => timeline[t].locks[d] \in {"absent", "lost"}
    BY DEF ThumbnailsInv, LocksExclude
  <2>3. /\ timeline[u].locks[d] = "exclusive" => Locked(d, {"exclusive"}, t) /\ Locked(d, {"shared", "exclusive"}, t)
        /\ timeline[u].locks[d] = "shared" => Locked(d, {"shared", "exclusive"}, t)
    BY DEF Locked
  <2> QED BY <2>1, <2>2, <2>3 DEF MayLock, Modes
<1>4. LocksExclude'
  <2> SUFFICES ASSUME NEW x \in Timelines, NEW y \in Timelines, x # y, NEW d \in Dirs, timeline'[x].locks[d] = "exclusive"
               PROVE  timeline'[y].locks[d] \in {"absent", "lost"}
    BY DEF LocksExclude
  <2>1. CASE x = t
    BY <1>1, <1>3, <2>1
  <2>2. CASE y = t
    BY <1>1, <1>3, <2>2
  <2>3. CASE x # t /\ y # t
    BY <1>1, <2>3 DEF ThumbnailsInv, LocksExclude
  <2> QED BY <2>1, <2>2, <2>3
<1> QED BY <1>1, <1>2, <1>4 DEF ThumbnailsInv

-----------------------------------------------------------------------------
Needed(s) == {s.pending, s.generating, s.drawn} \cup (IF s.ready THEN {s.result} ELSE {})

\* r is s after the refresh of its locks.
IsRefreshed(t, s, r) ==
    /\ r \in TimelineStates
    /\ r.open = s.open /\ r.stop = s.stop /\ r.source = s.source /\ r.duration = s.duration
    /\ r.generation = s.generation /\ r.request = s.request /\ r.pending = s.pending
    /\ r.generating = s.generating /\ r.drawn = s.drawn /\ r.ready = s.ready /\ r.result = s.result
    /\ \A d \in Dirs :
         /\ r.locks[d] # "absent" => d \in Needed(s)
         /\ \/ r.locks[d] \in {s.locks[d], "absent"}
            \/ s.locks[d] = "absent" /\ r.locks[d] = "shared" /\ ~Locked(d, {"exclusive"}, t)
         /\ d \in Needed(s) /\ s.locks[d] # "absent" => r.locks[d] = s.locks[d]

LEMMA RefreshedIs ==
  ASSUME NEW t \in Timelines, NEW s \in TimelineStates
  PROVE  IsRefreshed(t, s, Refreshed(t, s))
<1> DEFINE f(d) == IF d \notin Needed(s) THEN "absent"
                   ELSE IF s.locks[d] = "absent" /\ ~Locked(d, {"exclusive"}, t) THEN "shared"
                   ELSE s.locks[d]
           l == [d \in Dirs |-> f(d)]
           r == [s EXCEPT !.locks = l]
<1>1. Refreshed(t, s) = r
  BY DEF Refreshed, Needed
<1>2. \A d \in Dirs :
         /\ f(d) \in Modes
         /\ f(d) # "absent" => d \in Needed(s)
         /\ \/ f(d) \in {s.locks[d], "absent"}
            \/ s.locks[d] = "absent" /\ f(d) = "shared" /\ ~Locked(d, {"exclusive"}, t)
         /\ d \in Needed(s) /\ s.locks[d] # "absent" => f(d) = s.locks[d]
  <2>1. \A d \in Dirs : s.locks[d] \in Modes
    BY DEF TimelineStates
  <2> TAKE d \in Dirs
  <2> DEFINE m == s.locks[d]
             n == Needed(s)
  <2>2. m \in Modes
    BY <2>1
  <2> HIDE DEF m, n
  <2>3. f(d) = IF d \notin n THEN "absent" ELSE IF m = "absent" /\ ~Locked(d, {"exclusive"}, t) THEN "shared" ELSE m
    BY DEF m, n
  <2> QED BY <2>2, <2>3 DEF m, n, Modes
<1> HIDE DEF f
<1>3. l \in [Dirs -> Modes] /\ \A d \in Dirs : l[d] = f(d)
  BY <1>2
<1> HIDE DEF l
<1>4. /\ r \in TimelineStates /\ r.locks = l
      /\ r.open = s.open /\ r.stop = s.stop /\ r.source = s.source /\ r.duration = s.duration
      /\ r.generation = s.generation /\ r.request = s.request /\ r.pending = s.pending
      /\ r.generating = s.generating /\ r.drawn = s.drawn /\ r.ready = s.ready /\ r.result = s.result
  BY <1>3 DEF TimelineStates
<1> HIDE DEF r
<1> QED BY <1>1, <1>2, <1>3, <1>4 DEF IsRefreshed

\* A step that changes no lock but by the refresh.
LEMMA RefreshKeepsInv ==
  ASSUME ThumbnailsInv, NEW t \in Timelines, NEW s \in TimelineStates, NEW w \in PainterStates,
         s.locks = timeline[t].locks, Update(t, s), painter' = [painter EXCEPT ![t] = w], complete' = complete,
         \A r : IsRefreshed(t, s, r) => TimelineOK(r, w, complete)
  PROVE  ThumbnailsInv'
<1> DEFINE r == Refreshed(t, s)
<1>1. IsRefreshed(t, s, r)
  BY RefreshedIs
<1>2. timeline' = [timeline EXCEPT ![t] = r]
  BY DEF Update
<1> HIDE DEF r
<1>3. MayLock(t, r)
  BY <1>1 DEF IsRefreshed, MayLock
<1>4. r \in TimelineStates /\ TimelineOK(r, w, complete')
  BY <1>1 DEF IsRefreshed
<1> QED BY <1>2, <1>3, <1>4, OneTimeline

-----------------------------------------------------------------------------
\* What queue_thumbnail_generation makes of a timeline whose source or duration
\* is new.
LEMMA QueueingStep ==
  ASSUME ThumbnailsInv, NEW t \in Timelines, NEW s \in TimelineStates,
         s.locks = timeline[t].locks, s.generation = timeline[t].generation, s.generating = timeline[t].generating,
         s.open = TRUE, s.source = TRUE \/ s.source = timeline[t].source,
         s.duration > timeline[t].duration \/ (s.duration = timeline[t].duration /\ timeline[t].source = FALSE),
         timeline[t].open, Update(t, Queued(s)), UNCHANGED <<complete, painter>>
  PROVE  ThumbnailsInv'
<1> DEFINE o == timeline[t]
           w == painter[t]
           q == Queued(s)
<1>1. o \in TimelineStates /\ w \in PainterStates /\ TimelineOK(o, w, complete)
  BY DEF ThumbnailsInv
<1>2. /\ q \in TimelineStates /\ q.locks = o.locks /\ q.generation = o.generation + 1 /\ q.generating = o.generating
      /\ q.open = TRUE /\ q.source = s.source /\ q.duration = s.duration
      /\ q.drawn = NoDir /\ q.ready = FALSE
      /\ q.request = (s.source /\ s.duration > 0)
      /\ q.pending = IF s.source THEN s.duration ELSE NoDir
  <2>1. /\ s.duration \in Durations /\ s.generation + 1 \in Nat /\ s.pending \in Durations /\ s.result \in Durations
        /\ s.source \in BOOLEAN /\ NoDir \in Durations
    BY ThumbnailsAssumption DEF TimelineStates, Durations, NoDir
  <2>2. q \in TimelineStates
    BY <2>1 DEF Queued, TimelineStates
  <2>3. /\ q.locks = o.locks /\ q.generation = o.generation + 1 /\ q.generating = o.generating
        /\ q.open = TRUE /\ q.source = s.source /\ q.duration = s.duration
        /\ q.drawn = NoDir /\ q.ready = FALSE
    BY DEF Queued, TimelineStates
  <2>4. q.request = (s.source /\ s.duration > 0)
    BY DEF Queued, TimelineStates
  <2>5. q.pending = IF s.source THEN s.duration ELSE NoDir
    BY <2>1 DEF Queued, TimelineStates, Durations, NoDir
  <2> QED BY <2>2, <2>3, <2>4, <2>5
<1> HIDE DEF q
<1>3. /\ \A d \in Dirs : o.locks[d] # "absent" => o.source /\ d <= o.duration
      /\ o.duration \in Durations /\ s.duration \in Durations /\ w.dir \in Durations /\ w.filled \in BOOLEAN
      /\ o.source \in BOOLEAN /\ s.source \in BOOLEAN
      /\ w.generation \in Nat /\ o.generation \in Nat
      /\ \A d \in Dirs : o.locks[d] \in Modes
  BY <1>1 DEF TimelineOK, TimelineStates, PainterStates
<1>4. SUFFICES ASSUME NEW r, IsRefreshed(t, q, r) PROVE TimelineOK(r, w, complete)
  <2>1. painter' = [painter EXCEPT ![t] = w]
    BY DEF ThumbnailsInv
  <2> QED BY <1>1, <1>2, <2>1, RefreshKeepsInv DEF q
<1>5. /\ r.open = TRUE /\ r.source = s.source /\ r.duration = s.duration /\ r.generation = o.generation + 1
      /\ r.generating = o.generating /\ r.drawn = NoDir /\ r.ready = FALSE
      /\ r.request = (s.source /\ s.duration > 0) /\ r.pending = IF s.source THEN s.duration ELSE NoDir
      /\ \A d \in Dirs : r.locks[d] # "absent" => d \in {r.pending, r.generating, NoDir}
      /\ \A d \in Dirs : /\ r.locks[d] \in {o.locks[d], "absent", "shared"}
                         /\ o.locks[d] = "absent" => r.locks[d] \in {"absent", "shared"}
                         /\ d = r.generating /\ o.locks[d] # "absent" => r.locks[d] = o.locks[d]
  BY <1>2, <1>4 DEF IsRefreshed, Needed
<1>6. /\ o.generating = IF Paints(w) THEN w.dir ELSE NoDir
      /\ w.generation <= o.generation /\ (w.at = "gone" => w = AbsentPainter)
      /\ PainterOK(o, w, complete)
  BY <1>1 DEF TimelineOK
<1>7. RequestOK(r, w)
  <2> SUFFICES ASSUME r.request PROVE RequestOK(r, w)
    BY DEF RequestOK
  <2>1. s.source /\ s.duration > 0 /\ r.pending = s.duration
    BY <1>5
  <2>2. s.duration \in Dirs /\ r.pending # NoDir
    BY <1>3, <2>1 DEF Durations, Dirs, NoDir
  <2>3. o.locks[s.duration] = "absent"
    BY <1>3, <2>2 DEF Durations
  <2> QED BY <1>3, <1>5, <1>6, <2>1, <2>2, <2>3 DEF RequestOK
<1>8. PainterOK(r, w, complete)
  <2> SUFFICES ASSUME Paints(w) PROVE PainterOK(r, w, complete)
    BY DEF PainterOK
  <2>1. /\ o.source /\ w.dir # NoDir /\ o.locks[w.dir] \in ModesAt(w.at)
        /\ w.at = "touch" => w.dir \in complete
        /\ w.filled => w.at \in {"purge", "publish"} /\ w.dir \in complete /\ o.locks[w.dir] = "shared"
        /\ w.generation = o.generation => w.dir = o.duration
        /\ w.generation # o.generation => w.dir < o.duration
    BY <1>6 DEF PainterOK
  <2>2. w.dir \in Dirs /\ w.dir <= o.duration /\ r.generating = w.dir
    BY <1>3, <1>5, <1>6, <2>1 DEF Durations, Dirs, NoDir
  <2>3. r.locks[w.dir] \in ModesAt(w.at)
    <3>1. CASE o.locks[w.dir] = "absent"
      <4>1. w.at = "lock"
        BY <2>1, <3>1 DEF ModesAt
      <4> QED BY <1>5, <2>2, <3>1, <4>1 DEF ModesAt
    <3>2. CASE o.locks[w.dir] # "absent"
      BY <1>5, <2>1, <2>2, <3>2
    <3> QED BY <3>1, <3>2
  <2>4. o.locks[w.dir] = "shared" => r.locks[w.dir] = "shared"
    BY <1>5, <2>2
  <2>5. r.source /\ w.generation # r.generation /\ w.dir < r.duration
    <3>1. r.source
      BY <1>5, <2>1
    <3>2. w.generation # r.generation
      BY <1>3, <1>5, <1>6
    <3>3. w.dir < r.duration
      BY <1>3, <1>5, <2>1, <2>2 DEF Durations
    <3> QED BY <3>1, <3>2, <3>3
  <2> QED BY <2>1, <2>3, <2>4, <2>5 DEF PainterOK
<1>9. \A d \in Dirs : r.locks[d] # "absent" => r.source /\ d <= r.duration
  <2> SUFFICES ASSUME NEW d \in Dirs, r.locks[d] # "absent" PROVE r.source /\ d <= r.duration
    OBVIOUS
  <2>1. d # NoDir
    BY DEF Dirs, NoDir
  <2>2. CASE d = r.pending
    BY <1>3, <1>5, <2>1, <2>2 DEF Durations
  <2>3. CASE d = r.generating
    <3>1. Paints(w) /\ d = w.dir
      BY <1>5, <1>6, <2>1, <2>3
    <3> QED BY <1>3, <1>5, <1>8, <3>1 DEF PainterOK, Durations
  <2> QED BY <1>5, <2>1, <2>2, <2>3
<1> QED BY <1>3, <1>5, <1>6, <1>7, <1>8, <1>9 DEF TimelineOK, Kept

LEMMA SetSourceStep ==
  ASSUME ThumbnailsInv, NEW t \in Timelines, SetSource(t)
  PROVE  ThumbnailsInv'
<1> DEFINE s == [timeline[t] EXCEPT !.source = TRUE]
<1>1. timeline[t] \in TimelineStates /\ timeline[t].open
  BY DEF ThumbnailsInv, SetSource
<1>2. /\ s \in TimelineStates /\ s.locks = timeline[t].locks /\ s.generation = timeline[t].generation
      /\ s.generating = timeline[t].generating /\ s.source = TRUE /\ s.duration = timeline[t].duration
  BY <1>1 DEF TimelineStates
<1>3. s.open = TRUE /\ timeline[t].source = FALSE
  BY <1>1 DEF TimelineStates, SetSource
<1>4. Update(t, Queued(s)) /\ UNCHANGED <<complete, painter>>
  BY DEF SetSource, cacheVars
<1> HIDE DEF s
<1> QED BY <1>1, <1>2, <1>3, <1>4, QueueingStep

LEMMA SetDurationStep ==
  ASSUME ThumbnailsInv, NEW t \in Timelines, NEW d \in Dirs, SetDuration(t, d)
  PROVE  ThumbnailsInv'
<1> DEFINE s == [timeline[t] EXCEPT !.duration = d]
<1>1. timeline[t] \in TimelineStates /\ timeline[t].open /\ timeline[t].duration < d
  BY DEF ThumbnailsInv, SetDuration
<1>2. /\ s \in TimelineStates /\ s.locks = timeline[t].locks /\ s.generation = timeline[t].generation
      /\ s.generating = timeline[t].generating /\ s.source = timeline[t].source /\ s.duration = d
  <2>1. d \in Durations
    BY ThumbnailsAssumption DEF Durations, Dirs
  <2> QED BY <1>1, <2>1 DEF TimelineStates
<1>3. s.open = TRUE /\ s.duration > timeline[t].duration
  BY <1>1, <1>2 DEF TimelineStates, Durations, Dirs
<1>4. Update(t, Queued(s)) /\ UNCHANGED <<complete, painter>>
  BY DEF SetDuration, cacheVars
<1>5. /\ s.source = TRUE \/ s.source = timeline[t].source
      /\ s.duration > timeline[t].duration \/ (s.duration = timeline[t].duration /\ timeline[t].source = FALSE)
  BY <1>2, <1>3
<1> HIDE DEF s
<1> QED BY <1>1, <1>2, <1>3, <1>4, <1>5, QueueingStep

-----------------------------------------------------------------------------
\* A step that asks for nothing new.
LEMMA RefreshStep ==
  ASSUME ThumbnailsInv, NEW t \in Timelines, NEW s \in TimelineStates, NEW w \in PainterStates,
         s.open = TRUE, s.source = timeline[t].source, s.duration = timeline[t].duration,
         s.generation = timeline[t].generation, s.pending = timeline[t].pending, s.locks = timeline[t].locks,
         s.generating = IF Paints(w) THEN w.dir ELSE NoDir,
         w.generation <= s.generation, w.at = "gone" => w = AbsentPainter,
         RequestOK(s, w), PainterOK(s, w, complete), s.ready => Kept(s, s.result, complete), Kept(s, s.drawn, complete),
         Update(t, s), painter' = [painter EXCEPT ![t] = w], UNCHANGED complete
  PROVE  ThumbnailsInv'
<1>1. /\ s.pending = IF s.source THEN s.duration ELSE NoDir
      /\ \A d \in Dirs : s.locks[d] # "absent" => s.source /\ d <= s.duration
  BY DEF ThumbnailsInv, TimelineOK
<1>2. /\ s.duration \in Durations /\ s.drawn \in Durations /\ s.result \in Durations /\ s.pending \in Durations
      /\ w.dir \in Durations /\ s.source \in BOOLEAN /\ \A d \in Dirs : s.locks[d] \in Modes
      /\ \A d \in Durations : d # NoDir => d \in Dirs
  BY ThumbnailsAssumption DEF TimelineStates, PainterStates, Durations, Dirs, NoDir
<1> SUFFICES ASSUME NEW r, IsRefreshed(t, s, r) PROVE TimelineOK(r, w, complete)
  BY RefreshKeepsInv
<1>3. /\ r.open = s.open /\ r.source = s.source /\ r.duration = s.duration
      /\ r.generation = s.generation /\ r.request = s.request /\ r.pending = s.pending
      /\ r.generating = s.generating /\ r.drawn = s.drawn /\ r.ready = s.ready /\ r.result = s.result
      /\ \A d \in Dirs : /\ r.locks[d] # "absent" => d \in Needed(s)
                         /\ r.locks[d] \in {s.locks[d], "absent", "shared"}
                         /\ s.locks[d] = "absent" => r.locks[d] \in {"absent", "shared"}
                         /\ d \in Needed(s) /\ s.locks[d] # "absent" => r.locks[d] = s.locks[d]
  BY DEF IsRefreshed
<1>4. RequestOK(r, w)
  <2> SUFFICES ASSUME s.request PROVE RequestOK(r, w)
    BY <1>3 DEF RequestOK
  <2>1. s.pending \in Dirs /\ s.locks[s.pending] \in {"absent", "shared"}
    BY <1>2 DEF RequestOK
  <2>2. r.locks[s.pending] \in {"absent", "shared"}
    BY <1>3, <2>1
  <2> QED BY <1>3, <2>2 DEF RequestOK
<1>5. PainterOK(r, w, complete)
  <2> SUFFICES ASSUME Paints(w) PROVE PainterOK(r, w, complete)
    BY DEF PainterOK
  <2>1. w.dir \in Dirs /\ w.dir \in Needed(s)
    BY <1>2 DEF PainterOK, Needed
  <2>2. r.locks[w.dir] \in ModesAt(w.at)
    <3>1. CASE s.locks[w.dir] = "absent"
      <4>1. w.at = "lock"
        BY <3>1 DEF PainterOK, ModesAt
      <4> QED BY <1>3, <2>1, <3>1, <4>1 DEF ModesAt
    <3>2. CASE s.locks[w.dir] # "absent"
      BY <1>3, <2>1, <3>2 DEF PainterOK
    <3> QED BY <3>1, <3>2
  <2>3. s.locks[w.dir] = "shared" => r.locks[w.dir] = "shared"
    BY <1>3, <2>1
  <2> QED BY <1>3, <2>2, <2>3 DEF PainterOK
<1>6. ASSUME NEW d \in Durations, d \in Needed(s), Kept(s, d, complete) PROVE Kept(r, d, complete)
  BY <1>2, <1>3, <1>6 DEF Kept
<1>7. (r.ready => Kept(r, r.result, complete)) /\ Kept(r, r.drawn, complete)
  BY <1>2, <1>3, <1>6 DEF Needed
<1>8. ASSUME NEW d \in Dirs, r.locks[d] # "absent" PROVE r.source /\ d <= r.duration
  <2>1. (s.source /\ d <= s.duration) \/ (s.locks[d] = "absent" /\ d \in Needed(s))
    BY <1>1, <1>2, <1>3, <1>8
  <2>2. CASE s.source /\ d <= s.duration
    BY <1>3, <2>2
  <2>3. CASE s.locks[d] = "absent" /\ d \in Needed(s)
    <3>1. d # NoDir
      BY DEF Dirs, NoDir
    <3>2. d # s.drawn /\ (s.ready => d # s.result)
      BY <2>3, <3>1 DEF Kept
    <3>3. CASE d = s.pending
      BY <1>1, <1>2, <1>3, <3>1, <3>3 DEF Durations
    <3>4. CASE d = s.generating
      <4>1. Paints(w) /\ d = w.dir
        BY <3>1, <3>4
      <4> QED BY <1>2, <1>3, <4>1 DEF PainterOK, Durations, Dirs
    <3> QED BY <2>3, <3>2, <3>3, <3>4 DEF Needed
  <2> QED BY <2>1, <2>2, <2>3
<1> QED BY <1>1, <1>3, <1>4, <1>5, <1>7, <1>8 DEF TimelineOK

LEMMA DrawStep ==
  ASSUME ThumbnailsInv, NEW t \in Timelines, Draw(t)
  PROVE  ThumbnailsInv'
<1> DEFINE o == timeline[t]
           w == painter[t]
           s == [o EXCEPT !.drawn = o.result, !.ready = FALSE]
<1>1. o \in TimelineStates /\ w \in PainterStates /\ TimelineOK(o, w, complete) /\ o.open /\ o.ready
  BY DEF ThumbnailsInv, Draw
<1>2. /\ s \in TimelineStates /\ s.source = o.source /\ s.duration = o.duration
      /\ s.generation = o.generation /\ s.pending = o.pending /\ s.locks = o.locks /\ s.generating = o.generating
      /\ s.drawn = o.result /\ s.ready = FALSE /\ s.request = o.request
  BY <1>1 DEF TimelineStates
<1>3. s.open = TRUE
  BY <1>1 DEF TimelineStates
<1>4. Update(t, s) /\ painter' = [painter EXCEPT ![t] = w] /\ UNCHANGED complete
  BY DEF Draw, cacheVars, ThumbnailsInv
<1> HIDE DEF s
<1>5. RequestOK(s, w)
  BY <1>1, <1>2 DEF TimelineOK, RequestOK
<1>6. PainterOK(s, w, complete)
  BY <1>1, <1>2 DEF TimelineOK, PainterOK
<1>7. Kept(s, s.drawn, complete)
  BY <1>1, <1>2 DEF TimelineOK, Kept
<1>8. /\ s.generating = IF Paints(w) THEN w.dir ELSE NoDir
      /\ w.generation <= s.generation /\ (w.at = "gone" => w = AbsentPainter)
  BY <1>1, <1>2 DEF TimelineOK
<1> QED BY <1>1, <1>2, <1>3, <1>4, <1>5, <1>6, <1>7, <1>8, RefreshStep

LEMMA TakeRequestStep ==
  ASSUME ThumbnailsInv, NEW t \in Timelines, TakeThumbnailRequest(t)
  PROVE  ThumbnailsInv'
<1> DEFINE o == timeline[t]
           w == [at |-> "lock", generation |-> o.generation, dir |-> o.pending, filled |-> FALSE]
           s == [o EXCEPT !.request = FALSE, !.generating = o.pending]
<1>1. o \in TimelineStates /\ TimelineOK(o, painter[t], complete) /\ o.request /\ painter[t].at = "waits"
  BY DEF ThumbnailsInv, TakeThumbnailRequest
<1>2. /\ s \in TimelineStates /\ s.open = o.open /\ s.source = o.source /\ s.duration = o.duration
      /\ s.generation = o.generation /\ s.pending = o.pending /\ s.locks = o.locks /\ s.generating = o.pending
      /\ s.drawn = o.drawn /\ s.ready = o.ready /\ s.result = o.result /\ s.request = FALSE
  BY <1>1 DEF TimelineStates
<1>3. s.open = TRUE
  <2>1. o.open
    BY <1>1 DEF TimelineOK, AbsentPainter
  <2> QED BY <1>1, <1>2, <2>1 DEF TimelineStates
<1>4. Update(t, s) /\ painter' = [painter EXCEPT ![t] = w] /\ UNCHANGED complete
  BY DEF TakeThumbnailRequest, cacheVars
<1>5. w \in PainterStates /\ w.at = "lock" /\ w.generation = o.generation /\ w.dir = o.pending /\ w.filled = FALSE
  BY <1>1 DEF PainterStates, TimelineStates, PainterPlaces
<1> HIDE DEF s, w
<1>6. RequestOK(s, w)
  BY <1>2 DEF RequestOK
<1>7. PainterOK(s, w, complete)
  <2>1. /\ o.pending # NoDir /\ ~o.ready /\ o.drawn = NoDir /\ o.locks[o.pending] \in {"absent", "shared"}
        /\ o.pending = IF o.source THEN o.duration ELSE NoDir
    BY <1>1 DEF TimelineOK, RequestOK
  <2> QED BY <1>2, <1>5, <2>1 DEF PainterOK, ModesAt
<1>8. (s.ready => Kept(s, s.result, complete)) /\ Kept(s, s.drawn, complete)
  BY <1>1, <1>2 DEF TimelineOK, Kept
<1>9. /\ s.generating = IF Paints(w) THEN w.dir ELSE NoDir
      /\ w.generation <= s.generation
  BY <1>1, <1>2, <1>5 DEF Paints, TimelineStates
<1> QED BY <1>2, <1>3, <1>4, <1>5, <1>6, <1>7, <1>8, <1>9, RefreshStep

\* The painter ends its work, with or without a result.
LEMMA EndStep ==
  ASSUME ThumbnailsInv, NEW t \in Timelines, Paints(painter[t]), PainterGoes(t, "waits"), UNCHANGED complete,
         NEW s \in TimelineStates, Update(t, s),
         s.open = timeline[t].open, s.source = timeline[t].source, s.duration = timeline[t].duration,
         s.generation = timeline[t].generation, s.pending = timeline[t].pending, s.locks = timeline[t].locks,
         s.request = timeline[t].request, s.drawn = timeline[t].drawn, s.generating = NoDir,
         \/ s.ready = timeline[t].ready /\ s.result = timeline[t].result
         \/ painter[t].generation = timeline[t].generation /\ Kept(s, s.result, complete)
  PROVE  ThumbnailsInv'
<1> DEFINE o == timeline[t]
           v == painter[t]
           w == [v EXCEPT !.at = "waits"]
<1>1. o \in TimelineStates /\ v \in PainterStates /\ TimelineOK(o, v, complete)
  BY DEF ThumbnailsInv
<1>2. painter' = [painter EXCEPT ![t] = w]
  BY DEF PainterGoes
<1>3. w \in PainterStates /\ w.at = "waits" /\ w.generation = v.generation
  BY <1>1 DEF PainterStates, PainterPlaces
<1> HIDE DEF w
<1>4. s.open = TRUE
  BY <1>1 DEF TimelineOK, TimelineStates, Paints, AbsentPainter
<1>5. RequestOK(s, w)
  BY <1>1, <1>3 DEF TimelineOK, RequestOK, TimelineStates
<1>6. PainterOK(s, w, complete)
  BY <1>3 DEF PainterOK, Paints
<1>7. (s.ready => Kept(s, s.result, complete)) /\ Kept(s, s.drawn, complete)
  BY <1>1 DEF TimelineOK, Kept
<1>8. /\ s.generating = IF Paints(w) THEN w.dir ELSE NoDir
      /\ w.generation <= s.generation /\ (w.at = "gone" => w = AbsentPainter)
  BY <1>1, <1>3 DEF TimelineOK, Paints
<1> QED BY <1>2, <1>3, <1>4, <1>5, <1>6, <1>7, <1>8, RefreshStep

LEMMA GiveUpStep ==
  ASSUME ThumbnailsInv, NEW t \in Timelines, GiveUp(t)
  PROVE  ThumbnailsInv'
<1> DEFINE s == [timeline[t] EXCEPT !.generating = NoDir]
<1>1. timeline[t] \in TimelineStates
  BY DEF ThumbnailsInv
<1>2. /\ s \in TimelineStates /\ s.open = timeline[t].open /\ s.source = timeline[t].source
      /\ s.duration = timeline[t].duration /\ s.generation = timeline[t].generation
      /\ s.pending = timeline[t].pending /\ s.locks = timeline[t].locks
      /\ s.request = timeline[t].request /\ s.drawn = timeline[t].drawn /\ s.generating = NoDir
      /\ s.ready = timeline[t].ready /\ s.result = timeline[t].result
  BY <1>1, ThumbnailsAssumption DEF TimelineStates, Durations, NoDir
<1>3. Paints(painter[t]) /\ PainterGoes(t, "waits") /\ UNCHANGED complete /\ Update(t, s)
  BY DEF GiveUp, cacheVars, Paints
<1> HIDE DEF s
<1> QED BY <1>2, <1>3, EndStep

LEMMA PublishStep ==
  ASSUME ThumbnailsInv, NEW t \in Timelines, PublishThumbnails(t)
  PROVE  ThumbnailsInv'
<1> DEFINE o == timeline[t]
           w == painter[t]
           e == IF w.filled /\ w.dir \in complete THEN w.dir ELSE NoDir
           done == [o EXCEPT !.generating = NoDir]
           s == IF w.generation = o.generation THEN [done EXCEPT !.ready = TRUE, !.result = e] ELSE done
<1>1. o \in TimelineStates /\ w \in PainterStates /\ TimelineOK(o, w, complete) /\ w.at = "publish"
  BY DEF ThumbnailsInv, PublishThumbnails
<1>2. e \in Durations /\ NoDir \in Durations
  BY <1>1, ThumbnailsAssumption DEF PainterStates, Durations, NoDir
<1>3. Update(t, s)
  BY DEF PublishThumbnails
<1>4. Paints(w) /\ PainterGoes(t, "waits") /\ UNCHANGED complete
  BY DEF PublishThumbnails, cacheVars, Paints
<1>5. w.generation = o.generation => Kept(o, e, complete)
  BY <1>1, <1>4 DEF TimelineOK, PainterOK, Kept
<1> HIDE DEF e
<1>6. /\ s \in TimelineStates /\ s.open = o.open /\ s.source = o.source
      /\ s.duration = o.duration /\ s.generation = o.generation
      /\ s.pending = o.pending /\ s.locks = o.locks
      /\ s.request = o.request /\ s.drawn = o.drawn /\ s.generating = NoDir
      /\ IF w.generation = o.generation THEN s.result = e ELSE s.ready = o.ready /\ s.result = o.result
  BY <1>1, <1>2 DEF TimelineStates
<1> HIDE DEF s
<1>7. w.generation = o.generation => Kept(s, s.result, complete)
  BY <1>5, <1>6 DEF Kept
<1> QED BY <1>3, <1>4, <1>6, <1>7, EndStep

-----------------------------------------------------------------------------
Works == PainterPlaces \ {"gone", "waits"}

\* A step of a painter at work, which may change the lock on its directory and
\* what is complete.
LEMMA WorkStep ==
  ASSUME ThumbnailsInv, NEW t \in Timelines, Paints(painter[t]), NEW mode \in Modes, NEW w \in PainterStates,
         painter' = [painter EXCEPT ![t] = w],
         timeline' = [timeline EXCEPT ![t].locks[painter[t].dir] = mode],
         w.at \in Works, mode \in ModesAt(w.at), w.dir = painter[t].dir, w.generation = painter[t].generation,
         w.at = "touch" => w.dir \in complete',
         w.filled => w.at \in {"purge", "publish"} /\ w.dir \in complete' /\ mode = "shared",
         \A u \in Timelines, d \in Dirs : d \in complete /\ timeline[u].locks[d] = "shared" => d \in complete',
         \/ mode = timeline[t].locks[painter[t].dir] \/ mode = "lost"
         \/ mode = "shared" /\ ~Locked(painter[t].dir, {"exclusive"}, t)
         \/ ~Locked(painter[t].dir, {"shared", "exclusive"}, t)
  PROVE  ThumbnailsInv'
<1> DEFINE o == timeline[t]
           v == painter[t]
           l == [o.locks EXCEPT ![v.dir] = mode]
           s == [o EXCEPT !.locks = l]
<1>1. o \in TimelineStates /\ v \in PainterStates /\ TimelineOK(o, v, complete)
  BY DEF ThumbnailsInv
<1>2. timeline' = [timeline EXCEPT ![t] = s]
  BY DEF ThumbnailsInv
<1>3. /\ v.dir \in Dirs /\ v.dir # NoDir /\ o.source /\ v.generation <= o.generation
      /\ v.generation = o.generation => v.dir = o.duration /\ ~o.ready /\ o.drawn = NoDir
      /\ v.generation # o.generation => v.dir < o.duration
  BY <1>1, ThumbnailsAssumption DEF TimelineOK, PainterOK, PainterStates, Durations, Dirs, NoDir
<1>4. l \in [Dirs -> Modes] /\ l[v.dir] = mode /\ \A d \in Dirs : d # v.dir => l[d] = o.locks[d]
  BY <1>1, <1>3 DEF TimelineStates
<1> HIDE DEF l
<1>5. /\ s \in TimelineStates /\ s.locks = l /\ s.open = o.open /\ s.source = o.source
      /\ s.duration = o.duration /\ s.generation = o.generation /\ s.request = o.request
      /\ s.pending = o.pending /\ s.generating = o.generating /\ s.drawn = o.drawn
      /\ s.ready = o.ready /\ s.result = o.result
  BY <1>1, <1>4 DEF TimelineStates
<1> HIDE DEF s
<1>6. /\ o.duration \in Durations /\ o.drawn \in Durations /\ o.result \in Durations /\ o.pending \in Durations
      /\ \A d \in Durations : d # NoDir => d \in Dirs
  BY <1>1 DEF TimelineStates, Durations, Dirs, NoDir
<1>7. RequestOK(s, w)
  <2> SUFFICES ASSUME o.request PROVE RequestOK(s, w)
    BY <1>5 DEF RequestOK
  <2>1. /\ o.pending # NoDir /\ v.generation < o.generation /\ ~o.ready /\ o.drawn = NoDir
        /\ o.locks[o.pending] \in {"absent", "shared"} /\ o.pending = o.duration
    BY <1>1, <1>3 DEF TimelineOK, RequestOK
  <2>2. o.pending \in Dirs /\ o.pending # v.dir
    BY <1>1, <1>3, <1>6, <2>1 DEF PainterStates, TimelineStates, Durations, Dirs
  <2> QED BY <1>4, <1>5, <2>1, <2>2 DEF RequestOK
<1>8. PainterOK(s, w, complete')
  BY <1>3, <1>4, <1>5 DEF PainterOK
<1>9. ASSUME NEW d \in Durations, Kept(o, d, complete), d = v.dir => v.generation # o.generation
      PROVE  Kept(s, d, complete')
  <2> SUFFICES ASSUME d # NoDir PROVE Kept(s, d, complete')
    BY DEF Kept
  <2>1. d \in Dirs /\ d \in complete /\ d = o.duration /\ o.locks[d] = "shared"
    BY <1>6, <1>9 DEF Kept
  <2>2. d # v.dir
    BY <1>3, <1>9, <2>1 DEF Dirs
  <2>3. d \in complete'
    BY <2>1
  <2> QED BY <1>4, <1>5, <2>1, <2>2, <2>3 DEF Kept
<1>10. s.ready => Kept(s, s.result, complete')
  BY <1>1, <1>3, <1>5, <1>6, <1>9 DEF TimelineOK
<1>11. Kept(s, s.drawn, complete')
  BY <1>1, <1>3, <1>5, <1>6, <1>9 DEF TimelineOK
<1>12. \A d \in Dirs : s.locks[d] # "absent" => s.source /\ d <= s.duration
  <2>1. v.dir <= o.duration
    BY <1>3, <1>6 DEF Dirs, Durations
  <2> QED BY <1>1, <1>3, <1>4, <1>5, <2>1 DEF TimelineOK
<1>13. o.open
  BY <1>1 DEF TimelineOK, Paints, AbsentPainter
<1>14. TimelineOK(s, w, complete')
  BY <1>1, <1>5, <1>7, <1>8, <1>10, <1>11, <1>12, <1>13 DEF TimelineOK, Paints, Works
<1>15. MayLock(t, s)
  BY <1>4, <1>5 DEF MayLock
<1> QED BY <1>2, <1>5, <1>14, <1>15, OneTimeline

\* One that only moves.
LEMMA MoveStep ==
  ASSUME ThumbnailsInv, NEW t \in Timelines, painter[t].at \in Works \ {"purge", "publish"}, NEW mode \in Modes,
         NEW place \in Works, PainterGoes(t, place), timeline' = [timeline EXCEPT ![t].locks[painter[t].dir] = mode],
         mode \in ModesAt(place), place = "touch" => painter[t].dir \in complete', complete \subseteq complete',
         \/ mode = timeline[t].locks[painter[t].dir] \/ mode = "lost"
         \/ mode = "shared" /\ ~Locked(painter[t].dir, {"exclusive"}, t)
         \/ ~Locked(painter[t].dir, {"shared", "exclusive"}, t)
  PROVE  ThumbnailsInv'
<1> DEFINE v == painter[t]
           w == [v EXCEPT !.at = place]
<1>1. v \in PainterStates /\ Paints(v) /\ ~v.filled
  BY DEF ThumbnailsInv, TimelineOK, PainterOK, Paints, Works
<1>2. painter' = [painter EXCEPT ![t] = w]
  BY DEF PainterGoes
<1>3. w \in PainterStates /\ w.at = place /\ w.dir = v.dir /\ w.generation = v.generation /\ w.filled = v.filled
  BY <1>1 DEF PainterStates, Works
<1> HIDE DEF w
<1> QED BY <1>1, <1>2, <1>3, WorkStep

\* One that changes no lock.
LEMMA SameLocks ==
  ASSUME ThumbnailsInv, NEW t \in Timelines, painter[t].dir \in Dirs, timeline' = timeline
  PROVE  /\ timeline[t].locks[painter[t].dir] \in Modes
         /\ timeline' = [timeline EXCEPT ![t].locks[painter[t].dir] = timeline[t].locks[painter[t].dir]]
<1>1. timeline[t] \in TimelineStates /\ timeline \in [Timelines -> TimelineStates]
  BY DEF ThumbnailsInv
<1>2. timeline[t].locks \in [Dirs -> Modes]
  BY <1>1 DEF TimelineStates
<1>3. [timeline[t].locks EXCEPT ![painter[t].dir] = timeline[t].locks[painter[t].dir]] = timeline[t].locks
  BY <1>2
<1>4. [timeline[t] EXCEPT !.locks = timeline[t].locks] = timeline[t]
  BY <1>1 DEF TimelineStates
<1> QED BY <1>1, <1>2, <1>3, <1>4

\* Where the painter is, and how its directory is locked.
LEMMA AtWork ==
  ASSUME ThumbnailsInv, NEW t \in Timelines, painter[t].at \in Works
  PROVE  /\ painter[t].dir \in Dirs /\ timeline[t].locks[painter[t].dir] \in ModesAt(painter[t].at)
         /\ painter[t].at = "touch" => painter[t].dir \in complete
         /\ painter[t].filled => painter[t].dir \in complete /\ timeline[t].locks[painter[t].dir] = "shared"
<1>1. Paints(painter[t]) /\ painter[t].dir \in Durations
  BY DEF ThumbnailsInv, Paints, Works, PainterStates
<1> QED BY <1>1, ThumbnailsAssumption DEF ThumbnailsInv, TimelineOK, PainterOK, Durations, Dirs, NoDir

LEMMA LockDirectoryStep ==
  ASSUME ThumbnailsInv, NEW t \in Timelines, LockDirectory(t)
  PROVE  ThumbnailsInv'
<1> DEFINE m == timeline[t].locks[painter[t].dir]
<1>1. painter[t].at = "lock" /\ PainterGoes(t, "look") /\ complete' = complete
  BY DEF LockDirectory, cacheVars
<1>2. m \in {"absent", "shared"}
  BY <1>1, AtWork DEF Works, PainterPlaces, ModesAt
<1>3. timeline' = [timeline EXCEPT ![t].locks[painter[t].dir] = "shared"]
  BY <1>2 DEF LockDirectory
<1>4. m = "shared" \/ ~Locked(painter[t].dir, {"exclusive"}, t)
  BY <1>2 DEF LockDirectory
<1> QED BY <1>1, <1>3, <1>4, MoveStep DEF Works, PainterPlaces, ModesAt, Modes

LEMMA LookStep ==
  ASSUME ThumbnailsInv, NEW t \in Timelines, LookAtDirectory(t)
  PROVE  ThumbnailsInv'
<1> DEFINE place == IF painter[t].dir \in complete THEN "touch" ELSE "upgrade"
<1>1. painter[t].at = "look" /\ PainterGoes(t, place) /\ complete' = complete /\ timeline' = timeline
  BY DEF LookAtDirectory
<1>2. timeline[t].locks[painter[t].dir] = "shared" /\ painter[t].dir \in Dirs
  BY <1>1, AtWork DEF Works, PainterPlaces, ModesAt
<1>3. timeline' = [timeline EXCEPT ![t].locks[painter[t].dir] = "shared"]
  BY <1>1, <1>2, SameLocks
<1>4. place \in Works /\ "shared" \in ModesAt(place) /\ (place = "touch" => painter[t].dir \in complete')
  BY <1>1 DEF Works, PainterPlaces, ModesAt
<1> HIDE DEF place
<1> QED BY <1>1, <1>2, <1>3, <1>4, MoveStep DEF Works, PainterPlaces, Modes

LEMMA UpgradeStep ==
  ASSUME ThumbnailsInv, NEW t \in Timelines, Upgrade(t)
  PROVE  ThumbnailsInv'
<1>1. /\ painter[t].at = "upgrade" /\ PainterGoes(t, "recheck") /\ complete' = complete
      /\ timeline' = [timeline EXCEPT ![t].locks[painter[t].dir] = "exclusive"]
      /\ ~Locked(painter[t].dir, {"shared", "exclusive"}, t)
  BY DEF Upgrade, cacheVars
<1> QED BY <1>1, MoveStep DEF Works, PainterPlaces, ModesAt, Modes

LEMMA UpgradeFailsStep ==
  ASSUME ThumbnailsInv, NEW t \in Timelines, UpgradeFails(t)
  PROVE  ThumbnailsInv'
<1> DEFINE place == IF painter[t].dir \in complete THEN "recheck" ELSE "upgrade"
<1>1. /\ painter[t].at = "upgrade" /\ PainterGoes(t, place) /\ complete' = complete
      /\ timeline' = [timeline EXCEPT ![t].locks[painter[t].dir] = "lost"]
  BY DEF UpgradeFails, cacheVars
<1>2. place \in Works /\ "lost" \in ModesAt(place) /\ place # "touch"
  BY DEF Works, PainterPlaces, ModesAt
<1> HIDE DEF place
<1> QED BY <1>1, <1>2, MoveStep DEF Works, PainterPlaces, Modes

LEMMA RecheckStep ==
  ASSUME ThumbnailsInv, NEW t \in Timelines, Recheck(t)
  PROVE  ThumbnailsInv'
<1>1. painter[t].at = "recheck" /\ complete' = complete
  BY DEF Recheck, cacheVars
<1>2. CASE painter[t].dir \in complete
  <2>1. /\ timeline' = [timeline EXCEPT ![t].locks[painter[t].dir] = "shared"] /\ PainterGoes(t, "touch")
        /\ ~Locked(painter[t].dir, {"exclusive"}, t)
    BY <1>2 DEF Recheck
  <2> QED BY <1>1, <1>2, <2>1, MoveStep DEF Works, PainterPlaces, ModesAt, Modes
<1>3. CASE painter[t].dir \notin complete
  <2> DEFINE m == timeline[t].locks[painter[t].dir]
  <2>1. PainterGoes(t, "encode") /\ timeline' = timeline
    BY <1>3 DEF Recheck
  <2>2. m \in ModesAt("encode") /\ painter[t].dir \in Dirs
    BY <1>1, AtWork DEF Works, PainterPlaces, ModesAt
  <2>3. m \in Modes /\ timeline' = [timeline EXCEPT ![t].locks[painter[t].dir] = m]
    BY <2>1, <2>2, SameLocks
  <2> QED BY <1>1, <2>1, <2>2, <2>3, MoveStep DEF Works, PainterPlaces
<1> QED BY <1>2, <1>3

LEMMA EncodedStep ==
  ASSUME ThumbnailsInv, NEW t \in Timelines, Encoded(t) \/ EncodingFails(t)
  PROVE  ThumbnailsInv'
<1>1. /\ painter[t].at = "encode" /\ ~Locked(painter[t].dir, {"exclusive"}, t)
      /\ timeline' = [timeline EXCEPT ![t].locks[painter[t].dir] = "shared"]
  BY DEF Encoded, EncodingFails
<1>2. CASE Encoded(t)
  <2>1. PainterGoes(t, "touch") /\ complete \subseteq complete' /\ painter[t].dir \in complete'
    BY <1>2 DEF Encoded
  <2> QED BY <1>1, <2>1, MoveStep DEF Works, PainterPlaces, ModesAt, Modes
<1>3. CASE EncodingFails(t)
  <2>1. PainterGoes(t, "purge") /\ complete' = complete
    BY <1>3 DEF EncodingFails, cacheVars
  <2> QED BY <1>1, <2>1, MoveStep DEF Works, PainterPlaces, ModesAt, Modes
<1> QED BY <1>2, <1>3

LEMMA TooFewStep ==
  ASSUME ThumbnailsInv, NEW t \in Timelines, EncodedTooFew(t)
  PROVE  ThumbnailsInv'
<1> DEFINE m == timeline[t].locks[painter[t].dir]
<1>1. painter[t].at = "encode" /\ PainterGoes(t, "purge") /\ complete' = complete /\ timeline' = timeline
  BY DEF EncodedTooFew, cacheVars
<1>2. m \in ModesAt("purge") /\ painter[t].dir \in Dirs
  BY <1>1, AtWork DEF Works, PainterPlaces, ModesAt
<1>3. m \in Modes /\ timeline' = [timeline EXCEPT ![t].locks[painter[t].dir] = m]
  BY <1>1, <1>2, SameLocks
<1> QED BY <1>1, <1>2, <1>3, MoveStep DEF Works, PainterPlaces

LEMMA TouchStep ==
  ASSUME ThumbnailsInv, NEW t \in Timelines, TouchDirectory(t)
  PROVE  ThumbnailsInv'
<1> DEFINE v == painter[t]
           w == [v EXCEPT !.at = "purge", !.filled = TRUE]
<1>1. v.at = "touch" /\ complete' = complete /\ timeline' = timeline /\ v \in PainterStates
  BY DEF TouchDirectory, ThumbnailsInv
<1>2. v.dir \in complete /\ v.dir \in Dirs /\ timeline[t].locks[v.dir] = "shared" /\ Paints(v)
  BY <1>1, AtWork DEF Works, PainterPlaces, ModesAt, Paints
<1>3. painter' = [painter EXCEPT ![t] = w]
  BY <1>2 DEF TouchDirectory, ThumbnailsInv
<1>4. timeline' = [timeline EXCEPT ![t].locks[v.dir] = "shared"]
  BY <1>1, <1>2, SameLocks
<1>5. w \in PainterStates /\ w.at = "purge" /\ w.dir = v.dir /\ w.generation = v.generation
  BY <1>1 DEF PainterStates, PainterPlaces
<1> HIDE DEF w
<1> QED BY <1>1, <1>2, <1>3, <1>4, <1>5, WorkStep DEF Works, PainterPlaces, ModesAt, Modes

LEMMA PurgeStep ==
  ASSUME ThumbnailsInv, NEW t \in Timelines, PurgeDirectories(t)
  PROVE  ThumbnailsInv'
<1> DEFINE v == painter[t]
           w == [v EXCEPT !.at = "publish"]
           m == timeline[t].locks[v.dir]
<1>1. v.at = "purge" /\ timeline' = timeline /\ v \in PainterStates /\ painter' = [painter EXCEPT ![t] = w]
  BY DEF PurgeDirectories, PainterGoes, ThumbnailsInv
<1>2. \A u \in Timelines, d \in Dirs : d \in complete /\ timeline[u].locks[d] = "shared" => d \in complete'
  BY DEF PurgeDirectories
<1>3. /\ v.dir \in Dirs /\ m \in ModesAt("purge") /\ Paints(v)
      /\ v.filled => v.dir \in complete /\ m = "shared"
  BY <1>1, AtWork DEF Works, PainterPlaces, Paints
<1>4. m \in Modes /\ timeline' = [timeline EXCEPT ![t].locks[v.dir] = m]
  BY <1>1, <1>3, SameLocks
<1>5. w \in PainterStates /\ w.at = "publish" /\ w.dir = v.dir /\ w.generation = v.generation /\ w.filled = v.filled
  BY <1>1 DEF PainterStates, PainterPlaces
<1> HIDE DEF w
<1>6. w.at \in Works /\ m \in ModesAt(w.at)
  BY <1>3, <1>5 DEF Works, PainterPlaces, ModesAt
<1>7. w.filled => w.at \in {"purge", "publish"} /\ w.dir \in complete' /\ m = "shared"
  BY <1>2, <1>3, <1>5
<1> QED BY <1>1, <1>2, <1>3, <1>4, <1>5, <1>6, <1>7, WorkStep

-----------------------------------------------------------------------------
\* The steps that touch neither locks nor directories.
LEMMA QuietStep ==
  ASSUME ThumbnailsInv, NEW t \in Timelines, NEW s \in TimelineStates, NEW w \in PainterStates,
         timeline' = [timeline EXCEPT ![t] = s], painter' = [painter EXCEPT ![t] = w], complete' = complete,
         \A d \in Dirs : s.locks[d] \in {timeline[t].locks[d], "absent"}, TimelineOK(s, w, complete)
  PROVE  ThumbnailsInv'
<1>1. MayLock(t, s)
  BY DEF MayLock
<1> QED BY <1>1, OneTimeline

LEMMA NothingPainted ==
    ClosedTimeline \in TimelineStates /\ AbsentPainter \in PainterStates /\ TimelineOK(ClosedTimeline, AbsentPainter, {})
<1> DEFINE l == [d \in Dirs |-> "absent"]
<1>1. l \in [Dirs -> Modes] /\ \A d \in Dirs : l[d] = "absent"
  BY DEF Modes
<1> HIDE DEF l
<1>2. /\ ClosedTimeline.open = FALSE /\ ClosedTimeline.pending = NoDir /\ ClosedTimeline.source = FALSE
      /\ ClosedTimeline.generating = NoDir /\ ClosedTimeline.generation = 0 /\ ClosedTimeline.request = FALSE
      /\ ClosedTimeline.ready = FALSE /\ ClosedTimeline.drawn = NoDir /\ ClosedTimeline.locks = l
  BY DEF ClosedTimeline, l
<1>3. ClosedTimeline \in TimelineStates
  BY <1>1, ThumbnailsAssumption DEF ClosedTimeline, TimelineStates, Durations, NoDir, l
<1>4. AbsentPainter \in PainterStates /\ AbsentPainter.at = "gone" /\ AbsentPainter.generation = 0
  BY ThumbnailsAssumption DEF AbsentPainter, PainterStates, PainterPlaces, Durations, NoDir
<1>5. ~Paints(AbsentPainter)
  BY <1>4 DEF Paints
<1>6. RequestOK(ClosedTimeline, AbsentPainter) /\ PainterOK(ClosedTimeline, AbsentPainter, {})
  BY <1>2, <1>5 DEF RequestOK, PainterOK
<1>7. Kept(ClosedTimeline, NoDir, {})
  BY DEF Kept
<1> QED BY <1>1, <1>2, <1>3, <1>4, <1>5, <1>6, <1>7 DEF TimelineOK

LEMMA OpenStep ==
  ASSUME ThumbnailsInv, NEW t \in Timelines, OpenTimeline(t)
  PROVE  ThumbnailsInv'
<1> DEFINE o == timeline[t]
           s == [o EXCEPT !.open = TRUE]
           w == [painter[t] EXCEPT !.at = "waits"]
<1>1. /\ o \in TimelineStates /\ painter[t] \in PainterStates /\ TimelineOK(o, painter[t], complete)
      /\ o = ClosedTimeline /\ painter[t] = AbsentPainter
  BY DEF ThumbnailsInv, OpenTimeline, TimelineOK
<1>2. timeline' = [timeline EXCEPT ![t] = s] /\ painter' = [painter EXCEPT ![t] = w] /\ complete' = complete
  BY DEF OpenTimeline, cacheVars
<1>3. /\ s \in TimelineStates /\ s.open = TRUE /\ s.source = o.source /\ s.duration = o.duration
      /\ s.generation = o.generation /\ s.request = o.request /\ s.pending = o.pending
      /\ s.generating = o.generating /\ s.drawn = o.drawn /\ s.ready = o.ready /\ s.result = o.result
      /\ s.locks = o.locks
  BY <1>1 DEF TimelineStates
<1>4. w \in PainterStates /\ w.at = "waits" /\ w.generation = painter[t].generation
  BY <1>1 DEF PainterStates, PainterPlaces
<1> HIDE DEF s, w
<1>5. o.request = FALSE
  BY <1>1 DEF ClosedTimeline
<1>6. RequestOK(s, w) /\ PainterOK(s, w, complete)
  BY <1>3, <1>4, <1>5 DEF RequestOK, PainterOK, Paints
<1>7. (s.ready => Kept(s, s.result, complete)) /\ Kept(s, s.drawn, complete)
  BY <1>1, <1>3 DEF TimelineOK, Kept
<1>8. o.generating = NoDir
  BY <1>1 DEF ClosedTimeline
<1>9. TimelineOK(s, w, complete)
  BY <1>1, <1>3, <1>4, <1>6, <1>7, <1>8 DEF TimelineOK, Paints
<1> QED BY <1>2, <1>3, <1>4, <1>9, QuietStep

LEMMA CloseStep ==
  ASSUME ThumbnailsInv, NEW t \in Timelines, CloseTimeline(t)
  PROVE  ThumbnailsInv'
<1> DEFINE o == timeline[t]
           w == painter[t]
           s == [o EXCEPT !.stop = TRUE]
<1>1. o \in TimelineStates /\ w \in PainterStates /\ TimelineOK(o, w, complete) /\ o.open
  BY DEF ThumbnailsInv, CloseTimeline
<1>2. timeline' = [timeline EXCEPT ![t] = s] /\ painter' = [painter EXCEPT ![t] = w] /\ complete' = complete
  BY DEF CloseTimeline, cacheVars, ThumbnailsInv
<1>3. /\ s \in TimelineStates /\ s.open = o.open /\ s.source = o.source /\ s.duration = o.duration
      /\ s.generation = o.generation /\ s.request = o.request /\ s.pending = o.pending
      /\ s.generating = o.generating /\ s.drawn = o.drawn /\ s.ready = o.ready /\ s.result = o.result
      /\ s.locks = o.locks
  BY <1>1 DEF TimelineStates
<1> HIDE DEF s
<1>4. RequestOK(s, w) /\ PainterOK(s, w, complete)
  BY <1>1, <1>3 DEF TimelineOK, RequestOK, PainterOK
<1>5. (s.ready => Kept(s, s.result, complete)) /\ Kept(s, s.drawn, complete)
  BY <1>1, <1>3 DEF TimelineOK, Kept
<1>6. TimelineOK(s, w, complete)
  BY <1>1, <1>3, <1>4, <1>5 DEF TimelineOK
<1> QED BY <1>1, <1>2, <1>3, <1>6, QuietStep

LEMMA JoinStep ==
  ASSUME ThumbnailsInv, NEW t \in Timelines, JoinPainter(t)
  PROVE  ThumbnailsInv'
<1>1. painter[t] = AbsentPainter
  BY DEF ThumbnailsInv, TimelineOK, JoinPainter
<1>2. timeline' = [timeline EXCEPT ![t] = ClosedTimeline] /\ painter' = [painter EXCEPT ![t] = AbsentPainter] /\ complete' = complete
  BY <1>1 DEF JoinPainter, cacheVars, ThumbnailsInv
<1>3. ClosedTimeline \in TimelineStates /\ AbsentPainter \in PainterStates /\ TimelineOK(ClosedTimeline, AbsentPainter, complete)
  BY NothingPainted, StillOK
<1>4. \A d \in Dirs : ClosedTimeline.locks[d] \in {timeline[t].locks[d], "absent"}
  BY DEF ClosedTimeline
<1> QED BY <1>2, <1>3, <1>4, QuietStep

LEMMA ProgramEndsStep ==
  ASSUME ThumbnailsInv, NEW t \in Timelines, ProgramEnds(t)
  PROVE  ThumbnailsInv'
<1>1. /\ timeline' = [timeline EXCEPT ![t] = ClosedTimeline] /\ painter' = [painter EXCEPT ![t] = AbsentPainter]
      /\ complete' = complete
  BY DEF ProgramEnds, cacheVars
<1>2. ClosedTimeline \in TimelineStates /\ AbsentPainter \in PainterStates /\ TimelineOK(ClosedTimeline, AbsentPainter, complete)
  BY NothingPainted, StillOK
<1>3. \A d \in Dirs : ClosedTimeline.locks[d] \in {timeline[t].locks[d], "absent"}
  BY DEF ClosedTimeline
<1> QED BY <1>1, <1>2, <1>3, QuietStep

LEMMA StopPainterStep ==
  ASSUME ThumbnailsInv, NEW t \in Timelines, StopPainter(t)
  PROVE  ThumbnailsInv'
<1> DEFINE s == timeline[t]
           w == painter[t]
<1>1. s \in TimelineStates /\ w \in PainterStates /\ TimelineOK(s, w, complete) /\ w.at = "waits"
  BY DEF ThumbnailsInv, StopPainter
<1>2. timeline' = [timeline EXCEPT ![t] = s] /\ painter' = [painter EXCEPT ![t] = AbsentPainter] /\ complete' = complete
  BY DEF StopPainter, cacheVars, ThumbnailsInv
<1>3. AbsentPainter \in PainterStates /\ AbsentPainter.at = "gone" /\ AbsentPainter.generation = 0
  BY NothingPainted DEF AbsentPainter
<1>4. s.generation \in Nat /\ w.generation \in Nat
  BY <1>1 DEF TimelineStates, PainterStates
<1>5. RequestOK(s, AbsentPainter) /\ PainterOK(s, AbsentPainter, complete)
  BY <1>1, <1>3, <1>4 DEF TimelineOK, RequestOK, PainterOK, Paints
<1>6. TimelineOK(s, AbsentPainter, complete)
  BY <1>1, <1>3, <1>4, <1>5 DEF TimelineOK, Paints
<1> QED BY <1>1, <1>2, <1>3, <1>6, QuietStep

-----------------------------------------------------------------------------
LEMMA ThumbnailsInvInit == ThumbnailsInit => ThumbnailsInv
<1> SUFFICES ASSUME ThumbnailsInit PROVE ThumbnailsInv
  OBVIOUS
<1>1. timeline \in [Timelines -> TimelineStates] /\ painter \in [Timelines -> PainterStates]
  BY NothingPainted DEF ThumbnailsInit
<1>2. \A t \in Timelines : TimelineOK(timeline[t], painter[t], complete)
  BY NothingPainted DEF ThumbnailsInit
<1>3. \A t \in Timelines, d \in Dirs : timeline[t].locks[d] = "absent"
  BY DEF ThumbnailsInit, ClosedTimeline
<1> QED BY <1>1, <1>2, <1>3 DEF ThumbnailsInv, LocksExclude

LEMMA ThumbnailsInvNext == ThumbnailsInv /\ [ThumbnailsNext]_thumbnailVars => ThumbnailsInv'
<1> SUFFICES ASSUME ThumbnailsInv, [ThumbnailsNext]_thumbnailVars PROVE ThumbnailsInv'
  OBVIOUS
<1>1. CASE UNCHANGED thumbnailVars
  BY <1>1 DEF thumbnailVars, ThumbnailsInv, LocksExclude
<1>2. ASSUME NEW t \in Timelines, PainterStep(t)
      PROVE  ThumbnailsInv'
  BY <1>2, TakeRequestStep, StopPainterStep, GiveUpStep, LockDirectoryStep, LookStep, UpgradeStep, UpgradeFailsStep,
     RecheckStep, EncodedStep, TooFewStep, ProgramEndsStep, TouchStep, PurgeStep, PublishStep DEF PainterStep
<1>3. CASE ThumbnailsNext
  BY <1>2, <1>3, OpenStep, SetSourceStep, SetDurationStep, DrawStep, CloseStep, JoinStep DEF ThumbnailsNext
<1> QED BY <1>1, <1>3

\* The pictures a timeline draws are on disk, all of them, and of the duration
\* the timeline has now: no purge by another window, and no request that came
\* later, takes them away (TimelineWidget.cpp, refresh_thumbnail_cache_locks and
\* process_thumbnail_generation_result).
THEOREM ThumbnailsSpec_DrawnIsKept == ThumbnailsSpec => []DrawnIsKept
<1>1. ThumbnailsInit => ThumbnailsInv
  BY ThumbnailsInvInit
<1>2. ThumbnailsInv /\ [ThumbnailsNext]_thumbnailVars => ThumbnailsInv'
  BY ThumbnailsInvNext
<1>3. ThumbnailsInv => DrawnIsKept
  BY ThumbnailsInvImplies
<1> QED BY <1>1, <1>2, <1>3, PTL DEF ThumbnailsSpec

\* Two workers that fill one directory both do so without a lock, and a
\* directory that is filled under a lock is drawn by nobody
\* (TimelineWidget.cpp, thumbnail_worker_loop).
THEOREM ThumbnailsSpec_PainterIsAlone == ThumbnailsSpec => []PainterIsAlone
<1>1. ThumbnailsInit => ThumbnailsInv
  BY ThumbnailsInvInit
<1>2. ThumbnailsInv /\ [ThumbnailsNext]_thumbnailVars => ThumbnailsInv'
  BY ThumbnailsInvNext
<1>3. ThumbnailsInv => PainterIsAlone
  BY ThumbnailsInvImplies
<1> QED BY <1>1, <1>2, <1>3, PTL DEF ThumbnailsSpec
=============================================================================
