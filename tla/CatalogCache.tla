----------------------------- MODULE CatalogCache -----------------------------
(***************************************************************************)
(* CatalogCacheMiddleware and make_data_version                            *)
(* (backend/catalog_cache.py) over the syncs of TarkovSync: a catalog GET  *)
(* carries the data version its client knows (?dv=), its handler reads     *)
(* tarkov.db with several statements, each of which sees the database of   *)
(* its moment, and the answer may be kept for a day under that URL only if *)
(* the version was the requested one before and after the handler.         *)
(***************************************************************************)
EXTENDS TarkovSync

VARIABLES get,          \* the catalog GET being answered
          cached        \* the last answer, if it was given a cache lifetime

catalogVars == <<syncVars, get, cached>>

NoVersion == <<>>
Versions  == (0..MaxSyncs) \X (0..Commits)

(* The version a worker computes: the epoch and the mtime of the database, *)
(* which any commit moves; none while it believes a sync to be running.    *)
(* (The stamp of the code and of the image builder change with a restart   *)
(* only.)                                                                  *)
DataVersion(w) == IF IsSyncRunning(w) THEN NoVersion ELSE <<epoch, writes>>

Quiet     == [phase |-> "none"]
Keeps(dv, itemsAt, linksAt) == [dv |-> dv, itemsAt |-> itemsAt, linksAt |-> linksAt]
NotCached == Keeps(NoVersion, 0, 0)

CatalogTypeOK ==
  /\ SyncTypeOK
  /\ get \in {Quiet} \cup
       [phase : {"items", "links", "respond"}, worker : Workers,
        dv : Versions \cup {NoVersion}, before : Versions \cup {NoVersion},
        itemsAt : 0..Commits, linksAt : 0..Commits]
  /\ cached \in [dv : Versions \cup {NoVersion}, itemsAt : 0..Commits, linksAt : 0..Commits]

CatalogInit == SyncInit /\ get = Quiet /\ cached = NotCached

--------------------------------------------------------------------------------
(* A request, with no version, the one of now or the oldest one: all that  *)
(* differ from the version of now are refused alike.                       *)
Request(w, dv) ==
  /\ get = Quiet /\ Up(w)
  /\ get' = [phase |-> "items", worker |-> w, dv |-> dv, before |-> DataVersion(w),
             itemsAt |-> 0, linksAt |-> 0]
  /\ cached' = NotCached
  /\ UNCHANGED syncVars

ReadItems ==
  /\ get.phase = "items"
  /\ get' = [get EXCEPT !.phase = "links", !.itemsAt = writes]
  /\ UNCHANGED <<syncVars, cached>>

ReadLinks ==
  /\ get.phase = "links"
  /\ get' = [get EXCEPT !.phase = "respond", !.linksAt = writes]
  /\ UNCHANGED <<syncVars, cached>>

(* Mutant: the version is not computed again after the handler.            *)
CacheableBefore(after) == get.dv # NoVersion /\ get.dv = get.before

(* requested == before == after, none of them missing.                     *)
Cacheable(after) ==
  get.dv # NoVersion /\ get.before # NoVersion /\ get.dv = get.before /\ get.before = after

(* http.response.start with status 200: public, or else no-store.          *)
Respond ==
  /\ get.phase = "respond"
  /\ cached' = IF Cacheable(DataVersion(get.worker))
                 THEN Keeps(get.dv, get.itemsAt, get.linksAt) ELSE NotCached
  /\ get' = Quiet
  /\ UNCHANGED syncVars

(* Any other status: no-store.                                             *)
RespondError ==
  /\ get.phase \in {"items", "links"}
  /\ get' = Quiet
  /\ UNCHANGED <<syncVars, cached>>

(* The steps of the syncs; a killed worker takes its request with it.      *)
CrashWithRequest(w) ==
  /\ Crash(w)
  /\ get' = IF get # Quiet /\ get.worker = w THEN Quiet ELSE get
  /\ UNCHANGED cached

SyncStep ==
  /\ \/ \E w \in Workers : LoopStep(w) \/ \E enabled \in BOOLEAN : AdminSet(w, enabled)
     \/ \E j \in Syncs : JobStep(j)
  /\ UNCHANGED <<get, cached>>

CatalogNext ==
  \/ SyncStep
  \/ \E w \in Workers : CrashWithRequest(w)
  \/ \E w \in Workers, dv \in {NoVersion, <<epoch, writes>>, <<0, 0>>} : Request(w, dv)
  \/ ReadItems \/ ReadLinks \/ Respond \/ RespondError

CatalogSpec == CatalogInit /\ [][CatalogNext]_catalogVars

--------------------------------------------------------------------------------
(* Properties.                                                             *)

(* What a CDN keeps under a version is what the database held at that      *)
(* version, in all its parts: no answer mixes rows from before and after a *)
(* commit, whatever syncs start, end, fail or are orphaned meanwhile and   *)
(* whether or not the worker knows of them.                                *)
CachedIsCoherent ==
  cached # NotCached => cached.itemsAt = cached.dv[2] /\ cached.linksAt = cached.dv[2]
================================================================================
