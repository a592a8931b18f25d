------------------------------ MODULE SolverCache ------------------------------
(***************************************************************************)
(* The result caches of the optimizer and the combo recommender            *)
(* (backend/services/solver_cache.py, build_optimize in                    *)
(* backend/routers/optimizer.py, the combo route in                        *)
(* backend/routers/combo.py) over the data of CatalogData.  Each worker    *)
(* keeps a cache of its own; the generation published by a sync is part of *)
(* the key and a worker that sees a new one drops everything it kept.      *)
(***************************************************************************)
EXTENDS CatalogData, Sequences

CONSTANTS Workers,      \* gunicorn workers
          Requests,     \* requests in flight
          Queries,      \* the questions asked (the rest of the key)
          MaxEntries,   \* _OPTIMIZE_CACHE_MAX
          MaxWrites     \* bound on the commits

\* with one entry, halving would drop nothing
ASSUME CacheBounds == MaxEntries \in Nat \ {0, 1} /\ MaxWrites \in Nat

VARIABLES up,           \* the workers that live
          tracker,      \* SolverCacheEpochTracker.value of a worker
          cache,        \* the dict of a worker, oldest entry first
          ask,          \* the requests
          published     \* commits done when a generation was published

cacheVars  == <<tracker, cache, ask>>
solverVars == <<dataVars, up, cacheVars, published>>
world      == <<dataVars, up, published>>    \* what a request leaves alone

Idling == [phase |-> "idle"]
Generations == Tokens \cup {0}
Entry   == [gen : Generations, q : Queries, readAt : 0..MaxWrites]
Ongoing == [phase : {"key", "lookup", "solve", "insert", "answered"}, worker : Workers,
            q : Queries, since : Generations, gen : Generations, readAt : 0..MaxWrites]

SolverTypeOK ==
  /\ writes \in 0..MaxWrites /\ epoch \in Generations /\ used \subseteq Tokens
  /\ up \subseteq Workers
  /\ tracker \in [Workers -> Generations]
  /\ cache \in [Workers -> Seq(Entry)]
  /\ \A w \in Workers : Len(cache[w]) <= MaxEntries
  /\ ask \in [Requests -> Ongoing \cup {Idling}]
  /\ published \in [Generations -> 0..MaxWrites]

SolverInit ==
  /\ DataInit
  /\ up = Workers
  /\ tracker = [w \in Workers |-> epoch]
  /\ cache = [w \in Workers |-> <<>>]
  /\ ask = [r \in Requests |-> Idling]
  /\ published = [g \in Generations |-> 0]

--------------------------------------------------------------------------------
(* A request.                                                              *)

Ask(r, w, q) ==
  /\ ask[r] = Idling /\ w \in up
  /\ ask' = [ask EXCEPT ![r] = [phase |-> "key", worker |-> w, q |-> q, since |-> epoch,
                                gen |-> 0, readAt |-> 0]]
  /\ UNCHANGED <<world, tracker, cache>>

(* solver_cache_generation: refresh() and clear_solver_caches() under one  *)
(* lock.  The key is complete before anything is looked up or solved.      *)
MakeKey(r) ==
  /\ ask[r].phase = "key"
  /\ LET w == ask[r].worker IN
       /\ tracker' = [tracker EXCEPT ![w] = epoch]
       /\ cache' = IF epoch # tracker[w] THEN [cache EXCEPT ![w] = <<>>] ELSE cache
  /\ ask' = [ask EXCEPT ![r].phase = "lookup", ![r].gen = epoch]
  /\ UNCHANGED world

HasKey(e, r) == e.gen = ask[r].gen /\ e.q = ask[r].q

Hit(r) ==
  /\ ask[r].phase = "lookup"
  /\ LET c == cache[ask[r].worker] IN
       \E i \in 1..Len(c) :
         /\ HasKey(c[i], r)
         /\ ask' = [ask EXCEPT ![r].phase = "answered", ![r].readAt = c[i].readAt]
  /\ UNCHANGED <<world, tracker, cache>>

Miss(r) ==
  /\ ask[r].phase = "lookup"
  /\ \A i \in 1..Len(cache[ask[r].worker]) : ~HasKey(cache[ask[r].worker][i], r)
  /\ ask' = [ask EXCEPT ![r].phase = "solve"]
  /\ UNCHANGED <<world, tracker, cache>>

(* The solve, from its first read of the database.                         *)
Solve(r) ==
  /\ ask[r].phase = "solve"
  /\ ask' = [ask EXCEPT ![r].phase = "insert", ![r].readAt = writes]
  /\ UNCHANGED <<world, tracker, cache>>

(* Mutant: a full cache is left as it is.                                  *)
EvictNothing(c) == c

(* A full cache loses its older half.                                      *)
Evict(c) == IF Len(c) >= MaxEntries THEN SubSeq(c, (Len(c) \div 2) + 1, Len(c)) ELSE c

(* Assignment of a dict: a key that is there keeps its place.              *)
Put(c, e) ==
  IF \E i \in 1..Len(c) : c[i].gen = e.gen /\ c[i].q = e.q
    THEN [i \in 1..Len(c) |-> IF c[i].gen = e.gen /\ c[i].q = e.q THEN e ELSE c[i]]
    ELSE Append(c, e)

(* Mutant: the key is made when the result is there.                       *)
InsertUnderNewKey(r) ==
  /\ ask[r].phase = "insert"
  /\ LET w == ask[r].worker IN
       cache' = [cache EXCEPT ![w] =
                   Put(Evict(@), [gen |-> epoch, q |-> ask[r].q, readAt |-> ask[r].readAt])]
  /\ ask' = [ask EXCEPT ![r].phase = "answered"]
  /\ UNCHANGED <<world, tracker>>

(* The result is kept under the key of the request, whatever generation it *)
(* is by now.                                                              *)
Insert(r) ==
  /\ ask[r].phase = "insert"
  /\ LET w == ask[r].worker IN
       cache' = [cache EXCEPT ![w] =
                   Put(Evict(@), [gen |-> ask[r].gen, q |-> ask[r].q, readAt |-> ask[r].readAt])]
  /\ ask' = [ask EXCEPT ![r].phase = "answered"]
  /\ UNCHANGED <<world, tracker>>

(* A timeout is answered and not kept; a refused or failed solve ends the  *)
(* request.                                                                *)
SolveTimesOut(r) ==
  /\ ask[r].phase = "insert"
  /\ ask' = [ask EXCEPT ![r].phase = "answered"]
  /\ UNCHANGED <<world, tracker, cache>>

EndRequest(r) ==
  /\ ask[r].phase \in {"solve", "insert", "answered"}
  /\ ask' = [ask EXCEPT ![r] = Idling]
  /\ UNCHANGED <<world, tracker, cache>>

RequestStep(r) ==
  \/ \E w \in Workers, q \in Queries : Ask(r, w, q)
  \/ MakeKey(r) \/ Hit(r) \/ Miss(r) \/ Solve(r) \/ Insert(r) \/ SolveTimesOut(r) \/ EndRequest(r)

--------------------------------------------------------------------------------
(* The workers and the data.                                               *)

(* A worker whose own sync succeeded clears its caches.                    *)
ClearCaches(w) ==
  /\ w \in up /\ cache[w] # <<>>
  /\ cache' = [cache EXCEPT ![w] = <<>>]
  /\ UNCHANGED <<world, tracker, ask>>

(* Memory and requests die with the worker.                                *)
Crash(w) ==
  /\ w \in up
  /\ up' = up \ {w}
  /\ cache' = [cache EXCEPT ![w] = <<>>]
  /\ ask' = [r \in Requests |-> IF ask[r] # Idling /\ ask[r].worker = w THEN Idling ELSE ask[r]]
  /\ UNCHANGED <<dataVars, tracker, published>>

(* The tracker is made when the module is imported.                        *)
Restart(w) ==
  /\ w \in Workers \ up
  /\ up' = up \cup {w}
  /\ tracker' = [tracker EXCEPT ![w] = epoch]
  /\ UNCHANGED <<dataVars, cache, ask, published>>

SyncCommits ==
  /\ writes < MaxWrites /\ Commit
  /\ UNCHANGED <<up, cacheVars, published>>

SyncPublishes(t) ==
  /\ Publish(t)
  /\ published' = [published EXCEPT ![t] = writes]
  /\ UNCHANGED <<up, cacheVars>>

SolverNext ==
  \/ \E r \in Requests : RequestStep(r)
  \/ \E w \in Workers : ClearCaches(w) \/ Crash(w) \/ Restart(w)
  \/ SyncCommits
  \/ \E t \in Tokens : SyncPublishes(t)

SolverSpec == SolverInit /\ [][SolverNext]_solverVars

--------------------------------------------------------------------------------
(* Properties.                                                             *)

(* A request that came in after a sync had been published is never         *)
(* answered, from a cache or not, with a result solved on data from before *)
(* it: whichever worker ran the sync, and however long the solve that      *)
(* filled the cache took.                                                  *)
NoStaleAnswer ==
  \A r \in Requests :
    ask[r].phase = "answered" => ask[r].readAt >= published[ask[r].since]

(* Why: the published commits grow with the generations, a request's key   *)
(* is at least as new as the request, and a result at least as new as its  *)
(* key, wherever it is kept.                                               *)
Known == used \cup {0}

SoundEntry(e) == e.gen \in Known /\ published[e.gen] <= e.readAt

SoundRequest(a) ==
  a # Idling =>
    /\ a.since \in Known
    /\ a.phase # "key" => a.gen \in Known /\ published[a.since] <= published[a.gen]
    /\ a.phase \in {"insert", "answered"} => published[a.gen] <= a.readAt

PublicationsGrow ==
  /\ epoch \in Known
  /\ \A g \in Generations : published[g] <= writes
  /\ \A g \in Known : published[g] <= published[epoch]

KeysAreSound ==
  /\ PublicationsGrow
  /\ \A r \in Requests : SoundRequest(ask[r])
  /\ \A w \in Workers : \A i \in 1..Len(cache[w]) : SoundEntry(cache[w][i])
================================================================================
