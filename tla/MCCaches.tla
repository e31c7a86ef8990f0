------------------------------- MODULE MCCaches -------------------------------
(***************************************************************************)
(* The caches of the trimmer page, proxies and thumbnails, in one run: a   *)
(* behaviour follows one of them, and the other rests as it started, with  *)
(* nothing for its workers to do.  They share no variable.                 *)
(***************************************************************************)
EXTENDS VideoProxy, Thumbnails

VARIABLE part  \* the module this behaviour follows

cachesVars == <<part, proxyVars, thumbnailVars>>

CachesInit ==
    /\ part \in {"proxies", "thumbnails"}
    /\ ProxyInit
    /\ part # "proxies" => proxies = <<>>
    /\ ThumbnailsInit

CachesNext ==
    \/ part = "proxies" /\ ProxyNext /\ UNCHANGED <<part, thumbnailVars>>
    \/ part = "thumbnails" /\ ThumbnailsNext /\ UNCHANGED <<part, proxyVars>>

CachesSpec == CachesInit /\ [][CachesNext]_cachesVars /\ ProxyFairness /\ ThumbnailsFairness
=============================================================================
