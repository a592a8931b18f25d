----------------------------- MODULE SolverProofs ------------------------------
(***************************************************************************)
(* Proofs about one solver job, for every deadline, number of points and of*)
(* permits, and about the result caches, for every number of workers,      *)
(* requests, queries and generations and for caches of every size.         *)
(***************************************************************************)
EXTENDS SolverCache, SolverJob, SequenceTheorems, FiniteSetTheorems, TLAPS

--------------------------------------------------------------------------------
(* SolverCache: the result caches.  First, the cache as a sequence.        *)

(* Evicting keeps the entries it does not drop, and makes room for one.    *)
LEMMA EvictKeeps ==
  ASSUME NEW c \in Seq(Entry), Len(c) <= MaxEntries
  PROVE  /\ Evict(c) \in Seq(Entry)
         /\ Len(Evict(c)) < MaxEntries
         /\ \A i \in 1..Len(Evict(c)) : \E j \in 1..Len(c) : Evict(c)[i] = c[j]
  <1>0. Len(c) \in Nat
    BY LenProperties
  <1>1. CASE Len(c) < MaxEntries
    BY <1>0, <1>1, CacheBounds DEF Evict
  <1>2. CASE Len(c) >= MaxEntries
    <2> DEFINE m == (Len(c) \div 2) + 1
    <2>1. Len(c) \in Nat /\ Len(c) = MaxEntries /\ Len(c) >= 2
      BY <1>0, <1>2, CacheBounds
    <2>2. m \in Int /\ 2 <= m /\ m <= Len(c)
      BY <2>1
    <2>3. Evict(c) = SubSeq(c, m, Len(c))
      BY <1>2 DEF Evict
    <2> HIDE DEF m
    <2>4. \A i \in m..Len(c) : c[i] \in Entry
      BY <2>1, <2>2, ElementOfSeq
    <2>5. /\ Evict(c) \in Seq(Entry)
          /\ Len(Evict(c)) = Len(c) - m + 1
          /\ \A i \in 1..(Len(c) - m + 1) : Evict(c)[i] = c[m + i - 1]
      BY <2>1, <2>2, <2>3, <2>4, SubSeqProperties
    <2>6. \A i \in 1..(Len(c) - m + 1) : m + i - 1 \in 1..Len(c)
      BY <2>1, <2>2
    <2>7. QED  BY <2>1, <2>2, <2>5, <2>6
  <1>3. QED  BY <1>0, <1>1, <1>2, CacheBounds

(* Storing an entry adds nothing but that entry.                           *)
LEMMA PutAdds ==
  ASSUME NEW c \in Seq(Entry), NEW e \in Entry
  PROVE  /\ Put(c, e) \in Seq(Entry)
         /\ Len(Put(c, e)) <= Len(c) + 1
         /\ \A i \in 1..Len(Put(c, e)) :
              Put(c, e)[i] = e \/ \E j \in 1..Len(c) : Put(c, e)[i] = c[j]
  <1>0. Len(c) \in Nat /\ \A i \in 1..Len(c) : c[i] \in Entry
    BY LenProperties, ElementOfSeq
  <1>1. CASE \E i \in 1..Len(c) : c[i].gen = e.gen /\ c[i].q = e.q
    <2> DEFINE d == [i \in 1..Len(c) |-> IF c[i].gen = e.gen /\ c[i].q = e.q THEN e ELSE c[i]]
    <2>1. Put(c, e) = d
      BY <1>1 DEF Put
    <2>2. d \in [1..Len(c) -> Entry]
      BY <1>0
    <2>3. d \in Seq(Entry) /\ Len(d) = Len(c)
      BY <1>0, <2>2
    <2>4. \A i \in 1..Len(c) : d[i] = e \/ d[i] = c[i]
      OBVIOUS
    <2> HIDE DEF d
    <2>5. QED  BY <1>0, <2>1, <2>3, <2>4
  <1>2. CASE ~ \E i \in 1..Len(c) : c[i].gen = e.gen /\ c[i].q = e.q
    <2>1. Put(c, e) = Append(c, e)
      BY <1>2 DEF Put
    <2>2. QED  BY <1>0, <2>1, AppendProperties
  <1>3. QED  BY <1>1, <1>2

--------------------------------------------------------------------------------
(* The inductive invariant: types, and keys that do not lie.               *)

IInv == SolverTypeOK /\ KeysAreSound

LEMMA InitIInv == SolverInit => IInv
  <1> SUFFICES ASSUME SolverInit PROVE IInv
    OBVIOUS
  <1>1. \A w \in Workers : cache[w] = <<>> /\ Len(cache[w]) = 0 /\ cache[w] \in Seq(Entry)
    BY EmptySeq DEF SolverInit
  <1>2. cache \in [Workers -> Seq(Entry)]
    BY <1>1 DEF SolverInit
  <1>3. SolverTypeOK
    BY <1>1, <1>2, CacheBounds DEF SolverInit, DataInit, SolverTypeOK, Generations
  <1>4. KeysAreSound
    BY <1>1 DEF SolverInit, DataInit, KeysAreSound, PublicationsGrow, SoundRequest,
                Known, Generations, Idling
  <1>5. QED  BY <1>3, <1>4 DEF IInv

(* What the requests and the caches rely on.                               *)
LEMMA WorldTypes ==
  ASSUME IInv
  PROVE  /\ epoch \in Known /\ Known \subseteq Generations
         /\ writes \in Nat /\ writes \in 0..MaxWrites
         /\ \A g \in Generations : published[g] \in Nat /\ published[g] <= writes
         /\ \A g \in Known : published[g] <= published[epoch]
  BY CacheBounds DEF IInv, SolverTypeOK, KeysAreSound, PublicationsGrow, Known, Generations

(* A step that only moves one request, leaving what is cached.             *)
LEMMA RequestMoves ==
  ASSUME IInv, NEW r \in Requests, NEW a \in Ongoing \cup {Idling}, SoundRequest(a),
         ask' = [ask EXCEPT ![r] = a], UNCHANGED <<world, tracker, cache>>
  PROVE  IInv'
  <1>1. SolverTypeOK'
    BY DEF IInv, SolverTypeOK, world, dataVars
  <1>2. PublicationsGrow'
    BY DEF IInv, KeysAreSound, PublicationsGrow, Known, world, dataVars
  <1>3. \A s \in Requests : SoundRequest(ask[s])'
    BY DEF IInv, SolverTypeOK, KeysAreSound, SoundRequest, Known, world, dataVars
  <1>4. \A w \in Workers : \A i \in 1..Len(cache'[w]) : SoundEntry(cache[w][i])'
    BY DEF IInv, KeysAreSound, SoundEntry, Known, world, dataVars
  <1>5. QED  BY <1>1, <1>2, <1>3, <1>4 DEF IInv, KeysAreSound

(* A step that only changes the cache of one worker, into sound entries.   *)
LEMMA CacheMoves ==
  ASSUME IInv, NEW w \in Workers, NEW c \in Seq(Entry), Len(c) <= MaxEntries,
         \A i \in 1..Len(c) : SoundEntry(c[i]),
         cache' = [cache EXCEPT ![w] = c]
  PROVE  /\ cache' \in [Workers -> Seq(Entry)]
         /\ \A v \in Workers : Len(cache'[v]) <= MaxEntries
         /\ \A v \in Workers : \A i \in 1..Len(cache'[v]) : SoundEntry(cache'[v][i])
  <1>1. \A v \in Workers : cache'[v] = IF v = w THEN c ELSE cache[v]
    BY DEF IInv, SolverTypeOK
  <1>2. QED  BY <1>1 DEF IInv, SolverTypeOK, KeysAreSound

LEMMA EmptyCacheMoves ==
  ASSUME IInv, NEW w \in Workers, cache' = [cache EXCEPT ![w] = <<>>]
  PROVE  /\ cache' \in [Workers -> Seq(Entry)]
         /\ \A v \in Workers : Len(cache'[v]) <= MaxEntries
         /\ \A v \in Workers : \A i \in 1..Len(cache'[v]) : SoundEntry(cache'[v][i])
  <1>1. <<>> \in Seq(Entry) /\ Len(<<>>) = 0
    BY EmptySeq
  <1>2. Len(<<>>) <= MaxEntries /\ \A i \in 1..Len(<<>>) : SoundEntry(<<>>[i])
    BY <1>1, CacheBounds
  <1>3. QED  BY <1>1, <1>2, CacheMoves

--------------------------------------------------------------------------------
(* The steps of a request.                                                 *)

LEMMA RequestPreserves ==
  ASSUME IInv, NEW r \in Requests, RequestStep(r)
  PROVE  IInv'
  <1> DEFINE a == ask[r]
  <1>0. /\ a \in Ongoing \cup {Idling} /\ SoundRequest(a)
        /\ a.phase # "idle" => a \in Ongoing /\ a # Idling
        /\ 0 \in Generations /\ 0 \in 0..MaxWrites
        /\ epoch \in Generations /\ epoch \in Known
    BY WorldTypes, CacheBounds DEF IInv, SolverTypeOK, KeysAreSound, Idling, Generations
  <1>1. ASSUME NEW w \in Workers, NEW q \in Queries, Ask(r, w, q) PROVE IInv'
    <2> DEFINE b == [phase |-> "key", worker |-> w, q |-> q, since |-> epoch,
                     gen |-> 0, readAt |-> 0]
    <2>1. b \in Ongoing /\ SoundRequest(b)
      BY <1>0 DEF Ongoing, SoundRequest
    <2>2. QED  BY <1>1, <2>1, RequestMoves DEF Ask
  <1>2. CASE MakeKey(r)
    <2> DEFINE b == [a EXCEPT !.phase = "lookup", !.gen = epoch]
    <2> DEFINE w == a.worker
    <2>1. a \in Ongoing /\ a # Idling /\ w \in Workers
      BY <1>0, <1>2 DEF MakeKey, Ongoing
    <2>2. b \in Ongoing
      BY <1>0, <2>1 DEF Ongoing
    <2>3. b.since = a.since /\ b.gen = epoch /\ b.phase = "lookup" /\ b # Idling
      BY <2>1 DEF Ongoing, Idling
    <2>4. SoundRequest(b)
      BY <1>0, <2>1, <2>3, WorldTypes DEF SoundRequest
    <2>5. ask' = [ask EXCEPT ![r] = b]
      BY <1>2 DEF MakeKey
    <2>6. UNCHANGED world
      BY <1>2 DEF MakeKey
    <2>7. tracker' \in [Workers -> Generations]
      BY <1>0, <1>2, <2>1 DEF MakeKey, IInv, SolverTypeOK
    <2>8. /\ cache' \in [Workers -> Seq(Entry)]
          /\ \A v \in Workers : Len(cache'[v]) <= MaxEntries
          /\ \A v \in Workers : \A i \in 1..Len(cache'[v]) : SoundEntry(cache'[v][i])
      <3>1. CASE epoch # tracker[w]
        BY <1>2, <2>1, <3>1, EmptyCacheMoves DEF MakeKey
      <3>2. CASE epoch = tracker[w]
        BY <1>2, <3>2 DEF MakeKey, IInv, SolverTypeOK, KeysAreSound
      <3>3. QED  BY <3>1, <3>2
    <2> HIDE DEF b, w
    <2>9. QED
      BY <2>2, <2>4, <2>5, <2>6, <2>7, <2>8
         DEF IInv, SolverTypeOK, KeysAreSound, PublicationsGrow, SoundRequest, SoundEntry,
             Known, world, dataVars
  <1>3. CASE Hit(r)
    <2>1. a \in Ongoing /\ a # Idling /\ a.phase = "lookup"
      BY <1>0, <1>3 DEF Hit
    <2>2. PICK i \in 1..Len(cache[a.worker]) :
            /\ cache[a.worker][i].gen = a.gen
            /\ ask' = [ask EXCEPT ![r].phase = "answered",
                                  ![r].readAt = cache[a.worker][i].readAt]
      BY <1>3 DEF Hit, HasKey
    <2> DEFINE e == cache[a.worker][i]
    <2> DEFINE b == [a EXCEPT !.phase = "answered", !.readAt = e.readAt]
    <2>3. a.worker \in Workers
      BY <2>1 DEF Ongoing
    <2>4. e \in Entry /\ SoundEntry(e)
      BY <2>3, ElementOfSeq DEF IInv, SolverTypeOK, KeysAreSound
    <2>5. e.readAt \in 0..MaxWrites
      BY <2>4 DEF Entry
    <2>6. e.gen = a.gen /\ ask' = [ask EXCEPT ![r] = b]
      BY <2>2
    <2> HIDE DEF e
    <2>7. b \in Ongoing /\ b # Idling /\ b.since = a.since /\ b.gen = a.gen /\ b.readAt = e.readAt
      BY <2>1, <2>5 DEF Ongoing, Idling
    <2>8. SoundRequest(b)
      BY <1>0, <2>1, <2>4, <2>6, <2>7 DEF SoundRequest, SoundEntry
    <2> HIDE DEF b
    <2>9. QED  BY <1>3, <2>6, <2>7, <2>8, RequestMoves DEF Hit
  <1>4. CASE Miss(r)
    <2> DEFINE b == [a EXCEPT !.phase = "solve"]
    <2>1. a \in Ongoing /\ a # Idling /\ a.phase = "lookup"
      BY <1>0, <1>4 DEF Miss
    <2>2. b \in Ongoing /\ b.since = a.since /\ b.gen = a.gen /\ b.phase = "solve"
      BY <2>1 DEF Ongoing
    <2>3. SoundRequest(b)
      BY <1>0, <2>1, <2>2 DEF SoundRequest
    <2>4. QED  BY <1>4, <2>2, <2>3, RequestMoves DEF Miss
  <1>5. CASE Solve(r)
    <2> DEFINE b == [a EXCEPT !.phase = "insert", !.readAt = writes]
    <2>1. a \in Ongoing /\ a # Idling /\ a.phase = "solve"
      BY <1>0, <1>5 DEF Solve
    <2>2. b \in Ongoing /\ b.since = a.since /\ b.gen = a.gen /\ b.readAt = writes
      BY <2>1, WorldTypes DEF Ongoing
    <2>3. SoundRequest(b)
      BY <1>0, <2>1, <2>2, WorldTypes DEF SoundRequest
    <2>4. QED  BY <1>5, <2>2, <2>3, RequestMoves DEF Solve
  <1>6. CASE Insert(r)
    <2> DEFINE b == [a EXCEPT !.phase = "answered"]
    <2> DEFINE e == [gen |-> a.gen, q |-> a.q, readAt |-> a.readAt]
    <2> DEFINE w == a.worker
    <2> DEFINE c == Evict(cache[w])
    <2>1. a \in Ongoing /\ a # Idling /\ a.phase = "insert" /\ w \in Workers
      BY <1>0, <1>6 DEF Insert, Ongoing
    <2>2. e \in Entry /\ SoundEntry(e)
      BY <1>0, <2>1 DEF Entry, Ongoing, SoundEntry, SoundRequest
    <2>3. b \in Ongoing /\ b # Idling /\ b.since = a.since /\ b.gen = a.gen /\ b.readAt = a.readAt
      BY <2>1 DEF Ongoing, Idling
    <2>4. SoundRequest(b)
      BY <1>0, <2>1, <2>3 DEF SoundRequest
    <2>5. /\ cache[w] \in Seq(Entry) /\ Len(cache[w]) <= MaxEntries
          /\ \A i \in 1..Len(cache[w]) : SoundEntry(cache[w][i])
      BY <2>1 DEF IInv, SolverTypeOK, KeysAreSound
    <2>6. ask' = [ask EXCEPT ![r] = b] /\ cache' = [cache EXCEPT ![w] = Put(c, e)]
      BY <1>6 DEF Insert
    <2> HIDE DEF e, w, b
    <2>7. /\ c \in Seq(Entry) /\ Len(c) < MaxEntries
          /\ \A i \in 1..Len(c) : SoundEntry(c[i])
      BY <2>5, EvictKeeps
    <2> HIDE DEF c
    <2>8. /\ Put(c, e) \in Seq(Entry) /\ Len(Put(c, e)) <= Len(c) + 1
          /\ \A i \in 1..Len(Put(c, e)) : SoundEntry(Put(c, e)[i])
      BY <2>2, <2>7, PutAdds
    <2>9. Len(Put(c, e)) <= MaxEntries
      BY <2>7, <2>8, LenProperties, CacheBounds
    <2>10. /\ cache' \in [Workers -> Seq(Entry)]
           /\ \A v \in Workers : Len(cache'[v]) <= MaxEntries
           /\ \A v \in Workers : \A i \in 1..Len(cache'[v]) : SoundEntry(cache'[v][i])
      BY <2>1, <2>6, <2>8, <2>9, CacheMoves DEF w
    <2>11. UNCHANGED <<world, tracker>>
      BY <1>6 DEF Insert
    <2>12. QED
      BY <2>3, <2>4, <2>6, <2>10, <2>11
         DEF IInv, SolverTypeOK, KeysAreSound, PublicationsGrow, SoundRequest, SoundEntry,
             Known, world, dataVars
  <1>7. CASE SolveTimesOut(r)
    <2> DEFINE b == [a EXCEPT !.phase = "answered"]
    <2>1. a \in Ongoing /\ a # Idling /\ a.phase = "insert"
      BY <1>0, <1>7 DEF SolveTimesOut
    <2>2. b \in Ongoing /\ b.since = a.since /\ b.gen = a.gen /\ b.readAt = a.readAt
      BY <2>1 DEF Ongoing
    <2>3. SoundRequest(b)
      BY <1>0, <2>1, <2>2 DEF SoundRequest
    <2>4. QED  BY <1>7, <2>2, <2>3, RequestMoves DEF SolveTimesOut
  <1>8. CASE EndRequest(r)
    <2>1. SoundRequest(Idling)
      BY DEF SoundRequest
    <2>2. QED  BY <1>8, <2>1, RequestMoves DEF EndRequest
  <1>9. QED
    BY <1>1, <1>2, <1>3, <1>4, <1>5, <1>6, <1>7, <1>8 DEF RequestStep

--------------------------------------------------------------------------------
(* The steps of the workers and of the syncs.                              *)

LEMMA ClearCachesPreserves ==
  ASSUME IInv, NEW w \in Workers, ClearCaches(w)
  PROVE  IInv'
  <1>1. /\ cache' \in [Workers -> Seq(Entry)]
        /\ \A v \in Workers : Len(cache'[v]) <= MaxEntries
        /\ \A v \in Workers : \A i \in 1..Len(cache'[v]) : SoundEntry(cache'[v][i])
    BY EmptyCacheMoves DEF ClearCaches
  <1>2. UNCHANGED <<world, tracker, ask>>
    BY DEF ClearCaches
  <1>3. QED
    BY <1>1, <1>2 DEF IInv, SolverTypeOK, KeysAreSound, PublicationsGrow, SoundRequest,
                      SoundEntry, Known, world, dataVars

LEMMA CrashPreserves ==
  ASSUME IInv, NEW w \in Workers, Crash(w)
  PROVE  IInv'
  <1>1. /\ cache' \in [Workers -> Seq(Entry)]
        /\ \A v \in Workers : Len(cache'[v]) <= MaxEntries
        /\ \A v \in Workers : \A i \in 1..Len(cache'[v]) : SoundEntry(cache'[v][i])
    BY EmptyCacheMoves DEF Crash
  <1>2. UNCHANGED <<dataVars, tracker, published>> /\ up' \subseteq Workers
    BY DEF Crash, IInv, SolverTypeOK
  <1>3. \A r \in Requests : ask'[r] = Idling \/ ask'[r] = ask[r]
    BY DEF Crash
  <1>4. ask' \in [Requests -> Ongoing \cup {Idling}]
    BY DEF Crash, IInv, SolverTypeOK
  <1>5. \A r \in Requests : SoundRequest(ask[r])'
    BY <1>2, <1>3 DEF IInv, KeysAreSound, SoundRequest, Known, dataVars
  <1>6. QED
    BY <1>1, <1>2, <1>4, <1>5 DEF IInv, SolverTypeOK, KeysAreSound, PublicationsGrow,
                                  SoundEntry, Known, dataVars

LEMMA RestartPreserves ==
  ASSUME IInv, NEW w \in Workers, Restart(w)
  PROVE  IInv'
  BY WorldTypes DEF Restart, IInv, SolverTypeOK, KeysAreSound, PublicationsGrow, SoundRequest,
                    SoundEntry, Known, dataVars

LEMMA CommitPreserves ==
  ASSUME IInv, SyncCommits
  PROVE  IInv'
  <1>1. /\ writes' = writes + 1 /\ writes' \in 0..MaxWrites
        /\ UNCHANGED <<epoch, used, up, tracker, cache, ask, published>>
    BY WorldTypes, CacheBounds DEF SyncCommits, Commit, cacheVars
  <1>2. SolverTypeOK'
    BY <1>1 DEF IInv, SolverTypeOK
  <1>3. PublicationsGrow'
    BY <1>1, WorldTypes DEF PublicationsGrow, Known
  <1>4. QED
    BY <1>1, <1>2, <1>3 DEF IInv, KeysAreSound, SoundRequest, SoundEntry, Known

(* A generation nobody published before is in no key yet.                  *)
LEMMA PublishPreserves ==
  ASSUME IInv, NEW t \in Tokens, SyncPublishes(t)
  PROVE  IInv'
  <1>1. /\ t \notin Known /\ t \in Generations
        /\ epoch' = t /\ Known' = Known \cup {t} /\ used' \subseteq Tokens
        /\ UNCHANGED <<writes, up, tracker, cache, ask>>
    BY TokensType DEF SyncPublishes, Publish, cacheVars, Known, Generations, IInv, SolverTypeOK
  <1>2. /\ published' \in [Generations -> 0..MaxWrites]
        /\ \A g \in Generations : published'[g] = IF g = t THEN writes ELSE published[g]
    BY <1>1, WorldTypes DEF SyncPublishes, IInv, SolverTypeOK
  <1>3. \A g \in Known : published'[g] = published[g]
    BY <1>1, <1>2, WorldTypes
  <1>4. SolverTypeOK'
    BY <1>1, <1>2 DEF IInv, SolverTypeOK
  <1>5. PublicationsGrow'
    BY <1>1, <1>2, WorldTypes DEF PublicationsGrow
  <1>6. \A r \in Requests : SoundRequest(ask[r])'
    BY <1>1, <1>3 DEF IInv, KeysAreSound, SoundRequest
  <1>7. \A w \in Workers : \A i \in 1..Len(cache'[w]) : SoundEntry(cache[w][i])'
    BY <1>1, <1>3 DEF IInv, KeysAreSound, SoundEntry
  <1>8. QED  BY <1>4, <1>5, <1>6, <1>7 DEF IInv, KeysAreSound

LEMMA NextPreserves == IInv /\ [SolverNext]_solverVars => IInv'
  <1> SUFFICES ASSUME IInv, [SolverNext]_solverVars PROVE IInv'
    OBVIOUS
  <1>1. ASSUME NEW r \in Requests, RequestStep(r) PROVE IInv'
    BY <1>1, RequestPreserves
  <1>2. ASSUME NEW w \in Workers, ClearCaches(w) PROVE IInv'
    BY <1>2, ClearCachesPreserves
  <1>3. ASSUME NEW w \in Workers, Crash(w) PROVE IInv'
    BY <1>3, CrashPreserves
  <1>4. ASSUME NEW w \in Workers, Restart(w) PROVE IInv'
    BY <1>4, RestartPreserves
  <1>5. CASE SyncCommits
    BY <1>5, CommitPreserves
  <1>6. ASSUME NEW t \in Tokens, SyncPublishes(t) PROVE IInv'
    BY <1>6, PublishPreserves
  <1>7. CASE UNCHANGED solverVars
    BY <1>7 DEF IInv, SolverTypeOK, KeysAreSound, PublicationsGrow, SoundRequest, SoundEntry,
                Known, solverVars, cacheVars, dataVars
  <1>8. QED
    BY <1>1, <1>2, <1>3, <1>4, <1>5, <1>6, <1>7 DEF SolverNext

(* The types of SolverCache, the bound of the caches among them: putting   *)
(* an entry into a full cache evicts enough, whatever its size.            *)
THEOREM SolverTypeCorrect == SolverSpec => []SolverTypeOK
  <1>1. IInv => SolverTypeOK
    BY DEF IInv
  <1>2. QED  BY InitIInv, NextPreserves, <1>1, PTL DEF SolverSpec

(* No request that came in after a publication is answered with a result   *)
(* solved on older data (build_optimize, the combo route and               *)
(* solver_cache_generation), for any number of workers and requests.       *)
THEOREM NeverStale == SolverSpec => []NoStaleAnswer
  <1>1. IInv => NoStaleAnswer
    <2> SUFFICES ASSUME IInv, NEW r \in Requests, ask[r].phase = "answered"
                 PROVE  ask[r].readAt >= published[ask[r].since]
      BY DEF NoStaleAnswer
    <2>1. ask[r] \in Ongoing /\ ask[r] # Idling
      BY DEF IInv, SolverTypeOK, Idling
    <2>2. /\ ask[r].since \in Generations /\ ask[r].gen \in Generations
          /\ ask[r].readAt \in Nat
      BY <2>1 DEF Ongoing
    <2>3. /\ published[ask[r].since] <= published[ask[r].gen]
          /\ published[ask[r].gen] <= ask[r].readAt
      BY <2>1 DEF IInv, KeysAreSound, SoundRequest
    <2>4. QED  BY <2>2, <2>3, WorldTypes
  <1>2. QED  BY InitIInv, NextPreserves, <1>1, PTL DEF SolverSpec

--------------------------------------------------------------------------------
(* SolverJob: one job and its child.  The invariant has three parts: what  *)
(* the pipe holds in terms of the points computed, where the child and the *)
(* slot are when the thread is at a place, and what the client has been    *)
(* told by then.                                                           *)

Early == {"start", "spawn", "poll", "recv", "check"}
Stops == {"stop", "term", "kill", "finally"}

(* The events of the points come first, and count no point twice.           *)
PipeInOrder ==
  /\ child = None => pipe = <<>>
  /\ points <= made
  /\ \A i \in 1..Len(pipe) : pipe[i] = "progress" =>
       kind = "explore" /\ points + i <= made
  /\ \A i, j \in 1..Len(pipe) : pipe[i] = "progress" /\ j <= i => pipe[j] = "progress"
  /\ child = "solving" => \A i \in 1..Len(pipe) : pipe[i] = "progress"

(* The slot is given back only past the finally block, which the thread     *)
(* reaches without a child.                                                 *)
SlotWithChild ==
  /\ pc \in {"start", "spawn"} => child = None
  /\ pc \in {"finally", "cleanup", "done"} => child \notin Alive
  /\ exits = IF released THEN 1 ELSE 0
  /\ released => pc \in {"cleanup", "done", "crashed"} /\ child \notin Alive
  /\ pc = "done" => released

(* An event waits for the client only while it is sent; what it was told    *)
(* ends with the only final event.                                          *)
LastIsFinal == received # <<>> /\ received[Len(received)] \in Finals

ToldSoFar ==
  /\ connected => ~cancelled /\ pc # "crashed"
  /\ pc \in Early => pending = None
  /\ pc = "send" => kind = "explore" /\ pending \in {"progress", "result", "partial"}
  /\ pending = "partial" => pc \in {"send", "crashed"}
  /\ pc = "cleanup" => kind = "explore"
  /\ kind = "job" /\ pc # "done" => received = <<>>
  /\ kind = "job" /\ pc \in Stops => pending \in Finals
  /\ pc \in Early \cup {"send"} => \A i \in 1..Len(received) : received[i] \notin Finals
  /\ \A i \in 1..Len(received) : received[i] \in Finals => i = Len(received)
  /\ (connected /\ kind = "explore" /\ pc \in Stops \cup {"cleanup", "done"}) =>
       LastIsFinal \/ pending = "error"
  /\ (connected /\ kind = "job" /\ pc = "done") => LastIsFinal

PointsTold ==
  /\ pc \in {"start", "spawn"} => points = 0 /\ received = <<>>
  /\ (connected /\ kind = "explore") =>
       /\ pc \in Early => points = Len(received)
       /\ (pc = "send" /\ pending = "progress") => points = Len(received) + 1
       /\ (pc = "send" /\ pending = "partial") => points = Len(received)

JobInv == TypeOK /\ PipeInOrder /\ SlotWithChild /\ ToldSoFar /\ PointsTold

--------------------------------------------------------------------------------
(* What Append and Tail do to the pipe and to what the client received.     *)

LEMMA NothingYet ==
  ASSUME NEW S
  PROVE  <<>> \in Seq(S) /\ Len(<<>>) = 0 /\ \A i \in 1..Len(<<>>) : FALSE
  OBVIOUS

LEMMA AppendFacts ==
  ASSUME NEW S, NEW s \in Seq(S), NEW e \in S
  PROVE  /\ Append(s, e) \in Seq(S)
         /\ Append(s, e) # <<>>
         /\ Len(Append(s, e)) = Len(s) + 1
         /\ \A i \in 1..Len(s) : Append(s, e)[i] = s[i]
         /\ Append(s, e)[Len(s) + 1] = e
  OBVIOUS

LEMMA TailFacts ==
  ASSUME NEW S, NEW s \in Seq(S), s # <<>>
  PROVE  /\ Tail(s) \in Seq(S)
         /\ Len(s) \in Nat \ {0}
         /\ Len(Tail(s)) = Len(s) - 1
         /\ Head(s) = s[1] /\ Head(s) \in S
         /\ \A i \in 1..Len(Tail(s)) : Tail(s)[i] = s[i + 1]
  OBVIOUS

--------------------------------------------------------------------------------
(* The invariant holds at the start.                                        *)
LEMMA InitInv ==
  ASSUME Init PROVE JobInv
  <1>1. TypeOK
    <2>1. pipe \in Seq(Events) /\ Len(pipe) <= PipeCap
      BY NothingYet, BoundsType DEF Init
    <2>2. received \in Seq({"progress"} \cup Finals)
      BY NothingYet DEF Init
    <2>3. made \in 0..MaxPoints /\ points \in 0..MaxPoints /\ elapsed \in 0..Deadline
      BY BoundsType DEF Init
    <2>4. /\ kind \in {"job", "explore"} /\ pc = "start" /\ child = None
          /\ pending = None /\ exits = 0
      BY DEF Init
    <2>5. finished = FALSE /\ connected = TRUE /\ cancelled = FALSE /\ released = FALSE
      BY DEF Init
    <2>6. QED  BY <2>1, <2>2, <2>3, <2>4, <2>5 DEF TypeOK
  <1>2. PipeInOrder
    BY DEF Init, PipeInOrder, None
  <1>3. SlotWithChild
    BY DEF Init, SlotWithChild, Alive, None
  <1>4. ToldSoFar
    BY DEF Init, ToldSoFar, Early, Stops, LastIsFinal, None
  <1>5. PointsTold
    BY DEF Init, PointsTold, Early
  <1>6. QED  BY <1>1, <1>2, <1>3, <1>4, <1>5 DEF JobInv

(* Every step keeps it: one lemma per action, one step per conjunct.        *)

LEMMA StartKeeps ==
  ASSUME JobInv, Start PROVE JobInv'
  <1>1. TypeOK'
    BY DEF JobInv, TypeOK, Start, Goto, childVars, clientVars, slotVars, Events,
       Finals, Alive, None
  <1>2. PipeInOrder'
    BY DEF JobInv, TypeOK, PipeInOrder, Start, Goto, childVars, clientVars,
       slotVars, Events, Finals, Alive, None
  <1>3. SlotWithChild'
    BY DEF JobInv, TypeOK, SlotWithChild, Start, Goto, childVars, clientVars,
       slotVars, Events, Finals, Alive, None
  <1>4. ToldSoFar'
    BY DEF JobInv, TypeOK, SlotWithChild, ToldSoFar, Early, Stops, LastIsFinal,
       Start, Goto, childVars, clientVars, slotVars, Events, Finals, Alive, None
  <1>5. PointsTold'
    BY DEF JobInv, TypeOK, ToldSoFar, PointsTold, Early, Start, Goto, childVars,
       clientVars, slotVars, Events, Finals, Alive, None
  <1>6. QED  BY <1>1, <1>2, <1>3, <1>4, <1>5 DEF JobInv

LEMMA SpawnKeeps ==
  ASSUME JobInv, Spawn PROVE JobInv'
  <1>1. TypeOK'
    BY DEF JobInv, TypeOK, Spawn, Goto, childVars, clientVars, slotVars, Events,
       Finals, Alive, None
  <1>2. PipeInOrder'
    BY DEF JobInv, TypeOK, PipeInOrder, SlotWithChild, Spawn, Goto, childVars,
       clientVars, slotVars, Events, Finals, Alive, None
  <1>3. SlotWithChild'
    BY DEF JobInv, TypeOK, SlotWithChild, Spawn, Goto, childVars, clientVars,
       slotVars, Events, Finals, Alive, None
  <1>4. ToldSoFar'
    BY DEF JobInv, TypeOK, SlotWithChild, ToldSoFar, Early, Stops, LastIsFinal,
       Spawn, Goto, childVars, clientVars, slotVars, Events, Finals, Alive, None
  <1>5. PointsTold'
    BY DEF JobInv, TypeOK, ToldSoFar, PointsTold, Early, Spawn, Goto, childVars,
       clientVars, slotVars, Events, Finals, Alive, None
  <1>6. QED  BY <1>1, <1>2, <1>3, <1>4, <1>5 DEF JobInv

LEMMA SpawnFailsKeeps ==
  ASSUME JobInv, SpawnFails PROVE JobInv'
  <1>1. TypeOK'
    BY DEF JobInv, TypeOK, SpawnFails, Goto, childVars, clientVars, slotVars,
       Events, Finals, Alive, None
  <1>2. PipeInOrder'
    BY DEF JobInv, TypeOK, PipeInOrder, SpawnFails, Goto, childVars, clientVars,
       slotVars, Events, Finals, Alive, None
  <1>3. SlotWithChild'
    BY DEF JobInv, TypeOK, SlotWithChild, SpawnFails, Goto, childVars, clientVars,
       slotVars, Events, Finals, Alive, None
  <1>4. ToldSoFar'
    BY DEF JobInv, TypeOK, SlotWithChild, ToldSoFar, Early, Stops, LastIsFinal,
       SpawnFails, Goto, childVars, clientVars, slotVars, Events, Finals, Alive,
       None
  <1>5. PointsTold'
    BY DEF JobInv, TypeOK, ToldSoFar, PointsTold, Early, SpawnFails, Goto,
       childVars, clientVars, slotVars, Events, Finals, Alive, None
  <1>6. QED  BY <1>1, <1>2, <1>3, <1>4, <1>5 DEF JobInv

LEMMA DeadlineReachedKeeps ==
  ASSUME JobInv, DeadlineReached PROVE JobInv'
  <1>1. TypeOK'
    BY DEF JobInv, TypeOK, DeadlineReached, GiveUp, Goto, childVars, clientVars,
       slotVars, Events, Finals, Alive, None
  <1>2. PipeInOrder'
    BY DEF JobInv, TypeOK, PipeInOrder, DeadlineReached, GiveUp, Goto, childVars,
       clientVars, slotVars, Events, Finals, Alive, None
  <1>3. SlotWithChild'
    BY DEF JobInv, TypeOK, SlotWithChild, DeadlineReached, GiveUp, Goto, childVars,
       clientVars, slotVars, Events, Finals, Alive, None
  <1>4. ToldSoFar'
    BY DEF JobInv, TypeOK, SlotWithChild, ToldSoFar, Early, Stops, LastIsFinal,
       DeadlineReached, GiveUp, Goto, childVars, clientVars, slotVars, Events,
       Finals, Alive, None
  <1>5. PointsTold'
    BY DEF JobInv, TypeOK, ToldSoFar, PointsTold, Early, DeadlineReached, GiveUp,
       Goto, childVars, clientVars, slotVars, Events, Finals, Alive, None
  <1>6. QED  BY <1>1, <1>2, <1>3, <1>4, <1>5 DEF JobInv

LEMMA CancelSeenKeeps ==
  ASSUME JobInv, CancelSeen PROVE JobInv'
  <1>1. TypeOK'
    BY DEF JobInv, TypeOK, CancelSeen, Goto, childVars, clientVars, slotVars,
       Events, Finals, Alive, None
  <1>2. PipeInOrder'
    BY DEF JobInv, TypeOK, PipeInOrder, CancelSeen, Goto, childVars, clientVars,
       slotVars, Events, Finals, Alive, None
  <1>3. SlotWithChild'
    BY DEF JobInv, TypeOK, SlotWithChild, CancelSeen, Goto, childVars, clientVars,
       slotVars, Events, Finals, Alive, None
  <1>4. ToldSoFar'
    BY DEF JobInv, TypeOK, SlotWithChild, ToldSoFar, Early, Stops, LastIsFinal,
       CancelSeen, Goto, childVars, clientVars, slotVars, Events, Finals, Alive,
       None
  <1>5. PointsTold'
    BY DEF JobInv, TypeOK, ToldSoFar, PointsTold, Early, CancelSeen, Goto,
       childVars, clientVars, slotVars, Events, Finals, Alive, None
  <1>6. QED  BY <1>1, <1>2, <1>3, <1>4, <1>5 DEF JobInv

LEMMA PollKeeps ==
  ASSUME JobInv, Poll PROVE JobInv'
  <1>1. TypeOK'
    BY DEF JobInv, TypeOK, Poll, Goto, childVars, clientVars, slotVars, Events,
       Finals, Alive, None
  <1>2. PipeInOrder'
    BY DEF JobInv, TypeOK, PipeInOrder, Poll, Goto, childVars, clientVars, slotVars,
       Events, Finals, Alive, None
  <1>3. SlotWithChild'
    BY DEF JobInv, TypeOK, SlotWithChild, Poll, Goto, childVars, clientVars,
       slotVars, Events, Finals, Alive, None
  <1>4. ToldSoFar'
    BY DEF JobInv, TypeOK, SlotWithChild, ToldSoFar, Early, Stops, LastIsFinal,
       Poll, Goto, childVars, clientVars, slotVars, Events, Finals, Alive, None
  <1>5. PointsTold'
    BY DEF JobInv, TypeOK, ToldSoFar, PointsTold, Early, Poll, Goto, childVars,
       clientVars, slotVars, Events, Finals, Alive, None
  <1>6. QED  BY <1>1, <1>2, <1>3, <1>4, <1>5 DEF JobInv

LEMMA RecvEOFKeeps ==
  ASSUME JobInv, RecvEOF PROVE JobInv'
  <1>1. TypeOK'
    BY DEF JobInv, TypeOK, RecvEOF, GiveUp, Goto, childVars, clientVars, slotVars,
       Events, Finals, Alive, None
  <1>2. PipeInOrder'
    BY DEF JobInv, TypeOK, PipeInOrder, RecvEOF, GiveUp, Goto, childVars,
       clientVars, slotVars, Events, Finals, Alive, None
  <1>3. SlotWithChild'
    BY DEF JobInv, TypeOK, SlotWithChild, RecvEOF, GiveUp, Goto, childVars,
       clientVars, slotVars, Events, Finals, Alive, None
  <1>4. ToldSoFar'
    BY DEF JobInv, TypeOK, SlotWithChild, ToldSoFar, Early, Stops, LastIsFinal,
       RecvEOF, GiveUp, Goto, childVars, clientVars, slotVars, Events, Finals,
       Alive, None
  <1>5. PointsTold'
    BY DEF JobInv, TypeOK, ToldSoFar, PointsTold, Early, RecvEOF, GiveUp, Goto,
       childVars, clientVars, slotVars, Events, Finals, Alive, None
  <1>6. QED  BY <1>1, <1>2, <1>3, <1>4, <1>5 DEF JobInv

LEMMA RecvCutKeeps ==
  ASSUME JobInv, RecvCut PROVE JobInv'
  <1>1. pipe \in Seq(Events) /\ pipe # <<>>
    BY DEF JobInv, TypeOK, RecvCut
  <1>2. /\ Tail(pipe) \in Seq(Events)
        /\ Len(pipe) \in Nat \ {0}
        /\ Len(Tail(pipe)) = Len(pipe) - 1
        /\ Head(pipe) = pipe[1] /\ Head(pipe) \in Events
        /\ \A i \in 1..Len(Tail(pipe)) : Tail(pipe)[i] = pipe[i + 1]
    BY <1>1, TailFacts
  <1>3. TypeOK'
    <2>1. pipe' \in Seq(Events) /\ Len(pipe') <= PipeCap
      BY <1>1, <1>2, BoundsType DEF JobInv, TypeOK, RecvCut
    <2>2. pc' = "stop" /\ pending' = "error" /\ points' = points
      BY DEF RecvCut, Goto
    <2>4. /\ kind' = kind /\ child' = child /\ made' = made /\ finished' = finished
          /\ elapsed' = elapsed /\ connected' = connected /\ cancelled' = cancelled
          /\ received' = received /\ released' = released /\ exits' = exits
      BY DEF RecvCut, childVars, clientVars, slotVars
    <2>5. QED  BY <2>1, <2>2, <2>4 DEF JobInv, TypeOK, Finals
  <1>4. PipeInOrder'
    BY <1>1, <1>2 DEF JobInv, TypeOK, PipeInOrder, RecvCut, Goto, childVars,
       clientVars, slotVars, Events, Finals, Alive, None
  <1>5. SlotWithChild'
    BY <1>1, <1>2 DEF JobInv, TypeOK, SlotWithChild, RecvCut, Goto, childVars,
       clientVars, slotVars, Events, Finals, Alive, None
  <1>6. ToldSoFar'
    BY <1>1, <1>2 DEF JobInv, TypeOK, SlotWithChild, ToldSoFar, Early, Stops,
       LastIsFinal, RecvCut, Goto, childVars, clientVars, slotVars, Events, Finals,
       Alive, None
  <1>7. PointsTold'
    BY <1>1, <1>2 DEF JobInv, TypeOK, ToldSoFar, PointsTold, Early, RecvCut, Goto,
       childVars, clientVars, slotVars, Events, Finals, Alive, None
  <1>8. QED  BY <1>3, <1>4, <1>5, <1>6, <1>7 DEF JobInv

LEMMA RecvKeeps ==
  ASSUME JobInv, Recv PROVE JobInv'
  <1>1. pipe \in Seq(Events) /\ pipe # <<>>
    BY DEF JobInv, TypeOK, Recv
  <1>2. /\ Tail(pipe) \in Seq(Events)
        /\ Len(pipe) \in Nat \ {0}
        /\ Len(Tail(pipe)) = Len(pipe) - 1
        /\ Head(pipe) = pipe[1] /\ Head(pipe) \in Events
        /\ \A i \in 1..Len(Tail(pipe)) : Tail(pipe)[i] = pipe[i + 1]
    BY <1>1, TailFacts
  <1>3. TypeOK'
    <2>1. pipe' \in Seq(Events) /\ Len(pipe') <= PipeCap
      BY <1>1, <1>2, BoundsType DEF JobInv, TypeOK, Recv
    <2>2. /\ pc' \in {"stop", "send"}
          /\ pending' \in {None, "progress"} \cup Finals
      BY <1>2 DEF Recv, Goto, Events, Finals
    <2>3. points' \in 0..MaxPoints
      <3>1. pipe[1] = "progress" => points + 1 <= made
        BY <1>2 DEF JobInv, PipeInOrder
      <3>2. points \in 0..MaxPoints /\ made \in 0..MaxPoints
        BY DEF JobInv, TypeOK
      <3>3. \/ points' = points
            \/ Head(pipe) = "progress" /\ points' = points + 1
        BY DEF Recv
      <3>4. QED  BY <1>2, <3>1, <3>2, <3>3, BoundsType
    <2>4. /\ kind' = kind /\ child' = child /\ made' = made /\ finished' = finished
          /\ elapsed' = elapsed /\ connected' = connected /\ cancelled' = cancelled
          /\ received' = received /\ released' = released /\ exits' = exits
      BY DEF Recv, childVars, clientVars, slotVars
    <2>5. QED  BY <2>1, <2>2, <2>3, <2>4 DEF JobInv, TypeOK
  <1>4. PipeInOrder'
    BY <1>1, <1>2 DEF JobInv, TypeOK, PipeInOrder, Recv, Goto, childVars,
       clientVars, slotVars, Events, Finals, Alive, None
  <1>5. SlotWithChild'
    BY <1>1, <1>2 DEF JobInv, TypeOK, SlotWithChild, Recv, Goto, childVars,
       clientVars, slotVars, Events, Finals, Alive, None
  <1>6. ToldSoFar'
    BY <1>1, <1>2 DEF JobInv, TypeOK, SlotWithChild, ToldSoFar, Early, Stops,
       LastIsFinal, PipeInOrder, Recv, Goto, childVars, clientVars, slotVars,
       Events, Finals, Alive, None
  <1>7. PointsTold'
    BY <1>1, <1>2 DEF JobInv, TypeOK, ToldSoFar, PointsTold, Early, Recv, Goto,
       childVars, clientVars, slotVars, Events, Finals, Alive, None
  <1>8. QED  BY <1>3, <1>4, <1>5, <1>6, <1>7 DEF JobInv

LEMMA AliveCheckKeeps ==
  ASSUME JobInv, AliveCheck PROVE JobInv'
  <1>1. TypeOK'
    BY DEF JobInv, TypeOK, AliveCheck, GiveUp, Goto, childVars, clientVars,
       slotVars, Events, Finals, Alive, None
  <1>2. PipeInOrder'
    BY DEF JobInv, TypeOK, PipeInOrder, AliveCheck, GiveUp, Goto, childVars,
       clientVars, slotVars, Events, Finals, Alive, None
  <1>3. SlotWithChild'
    BY DEF JobInv, TypeOK, SlotWithChild, AliveCheck, GiveUp, Goto, childVars,
       clientVars, slotVars, Events, Finals, Alive, None
  <1>4. ToldSoFar'
    BY DEF JobInv, TypeOK, SlotWithChild, ToldSoFar, Early, Stops, LastIsFinal,
       AliveCheck, GiveUp, Goto, childVars, clientVars, slotVars, Events, Finals,
       Alive, None
  <1>5. PointsTold'
    BY DEF JobInv, TypeOK, ToldSoFar, PointsTold, Early, AliveCheck, GiveUp, Goto,
       childVars, clientVars, slotVars, Events, Finals, Alive, None
  <1>6. QED  BY <1>1, <1>2, <1>3, <1>4, <1>5 DEF JobInv

LEMMA SendLostKeeps ==
  ASSUME JobInv, SendLost PROVE JobInv'
  <1>1. TypeOK'
    BY DEF JobInv, TypeOK, SendLost, Goto, childVars, clientVars, slotVars, Events,
       Finals, Alive, None
  <1>2. PipeInOrder'
    BY DEF JobInv, TypeOK, PipeInOrder, SendLost, Goto, childVars, clientVars,
       slotVars, Events, Finals, Alive, None
  <1>3. SlotWithChild'
    BY DEF JobInv, TypeOK, SlotWithChild, SendLost, Goto, childVars, clientVars,
       slotVars, Events, Finals, Alive, None
  <1>4. ToldSoFar'
    BY DEF JobInv, TypeOK, SlotWithChild, ToldSoFar, Early, Stops, LastIsFinal,
       SendLost, Goto, childVars, clientVars, slotVars, Events, Finals, Alive, None
  <1>5. PointsTold'
    BY DEF JobInv, TypeOK, ToldSoFar, PointsTold, Early, SendLost, Goto, childVars,
       clientVars, slotVars, Events, Finals, Alive, None
  <1>6. QED  BY <1>1, <1>2, <1>3, <1>4, <1>5 DEF JobInv

LEMMA JoinedKeeps ==
  ASSUME JobInv, Joined PROVE JobInv'
  <1>1. TypeOK'
    BY BoundsType, NothingYet DEF JobInv, TypeOK, Joined, Goto, childVars,
       clientVars, slotVars, Events, Finals, Alive, None
  <1>2. PipeInOrder'
    BY DEF JobInv, TypeOK, PipeInOrder, Joined, Goto, childVars, clientVars,
       slotVars, Events, Finals, Alive, None
  <1>3. SlotWithChild'
    BY DEF JobInv, TypeOK, SlotWithChild, Joined, Goto, childVars, clientVars,
       slotVars, Events, Finals, Alive, None
  <1>4. ToldSoFar'
    BY DEF JobInv, TypeOK, SlotWithChild, ToldSoFar, Early, Stops, LastIsFinal,
       Joined, Goto, childVars, clientVars, slotVars, Events, Finals, Alive, None
  <1>5. PointsTold'
    BY DEF JobInv, TypeOK, ToldSoFar, PointsTold, Early, Joined, Goto, childVars,
       clientVars, slotVars, Events, Finals, Alive, None
  <1>6. QED  BY <1>1, <1>2, <1>3, <1>4, <1>5 DEF JobInv

LEMMA TerminateKeeps ==
  ASSUME JobInv, Terminate PROVE JobInv'
  <1>1. TypeOK'
    BY DEF JobInv, TypeOK, Terminate, Goto, childVars, clientVars, slotVars, Events,
       Finals, Alive, None
  <1>2. PipeInOrder'
    BY DEF JobInv, TypeOK, PipeInOrder, Terminate, Goto, childVars, clientVars,
       slotVars, Events, Finals, Alive, None
  <1>3. SlotWithChild'
    BY DEF JobInv, TypeOK, SlotWithChild, Terminate, Goto, childVars, clientVars,
       slotVars, Events, Finals, Alive, None
  <1>4. ToldSoFar'
    BY DEF JobInv, TypeOK, SlotWithChild, ToldSoFar, Early, Stops, LastIsFinal,
       Terminate, Goto, childVars, clientVars, slotVars, Events, Finals, Alive, None
  <1>5. PointsTold'
    BY DEF JobInv, TypeOK, ToldSoFar, PointsTold, Early, Terminate, Goto, childVars,
       clientVars, slotVars, Events, Finals, Alive, None
  <1>6. QED  BY <1>1, <1>2, <1>3, <1>4, <1>5 DEF JobInv

LEMMA KillKeeps ==
  ASSUME JobInv, Kill PROVE JobInv'
  <1>1. TypeOK'
    BY DEF JobInv, TypeOK, Kill, Goto, childVars, clientVars, slotVars, Events,
       Finals, Alive, None
  <1>2. PipeInOrder'
    BY DEF JobInv, TypeOK, PipeInOrder, Kill, Goto, childVars, clientVars, slotVars,
       Events, Finals, Alive, None
  <1>3. SlotWithChild'
    BY DEF JobInv, TypeOK, SlotWithChild, Kill, Goto, childVars, clientVars,
       slotVars, Events, Finals, Alive, None
  <1>4. ToldSoFar'
    BY DEF JobInv, TypeOK, SlotWithChild, ToldSoFar, Early, Stops, LastIsFinal,
       Kill, Goto, childVars, clientVars, slotVars, Events, Finals, Alive, None
  <1>5. PointsTold'
    BY DEF JobInv, TypeOK, ToldSoFar, PointsTold, Early, Kill, Goto, childVars,
       clientVars, slotVars, Events, Finals, Alive, None
  <1>6. QED  BY <1>1, <1>2, <1>3, <1>4, <1>5 DEF JobInv

LEMMA FinallyKeeps ==
  ASSUME JobInv, Finally PROVE JobInv'
  <1>1. /\ received \in Seq({"progress"} \cup Finals)
        /\ kind = "job" => pending \in Finals
    BY DEF JobInv, TypeOK, ToldSoFar, Stops, Finally
  <1>2. kind = "job" =>
        /\ Append(received, pending) \in Seq({"progress"} \cup Finals)
        /\ Append(received, pending) # <<>>
        /\ Len(Append(received, pending)) = Len(received) + 1
        /\ \A i \in 1..Len(received) : Append(received, pending)[i] = received[i]
        /\ Append(received, pending)[Len(received) + 1] = pending
    BY <1>1, AppendFacts
  <1>3. TypeOK'
    BY <1>1, <1>2 DEF JobInv, TypeOK, Finally, ReleaseSlot, Goto, childVars,
       clientVars, slotVars, Events, Finals, Alive, None
  <1>4. PipeInOrder'
    BY <1>1, <1>2 DEF JobInv, TypeOK, PipeInOrder, Finally, ReleaseSlot, Goto,
       childVars, clientVars, slotVars, Events, Finals, Alive, None
  <1>5. SlotWithChild'
    BY <1>1, <1>2 DEF JobInv, TypeOK, SlotWithChild, Finally, ReleaseSlot, Goto,
       childVars, clientVars, slotVars, Events, Finals, Alive, None
  <1>6. ToldSoFar'
    BY <1>1, <1>2 DEF JobInv, TypeOK, SlotWithChild, ToldSoFar, Early, Stops,
       LastIsFinal, Finally, ReleaseSlot, Goto, childVars, clientVars, slotVars,
       Events, Finals, Alive, None
  <1>7. PointsTold'
    BY <1>1, <1>2 DEF JobInv, TypeOK, ToldSoFar, PointsTold, Early, Finally,
       ReleaseSlot, Goto, childVars, clientVars, slotVars, Events, Finals, Alive,
       None
  <1>8. QED  BY <1>3, <1>4, <1>5, <1>6, <1>7 DEF JobInv

LEMMA CleanupKeeps ==
  ASSUME JobInv, Cleanup PROVE JobInv'
  <1>1. TypeOK'
    BY DEF JobInv, TypeOK, Cleanup, ReleaseSlot, Goto, childVars, clientVars,
       slotVars, Events, Finals, Alive, None
  <1>2. PipeInOrder'
    BY DEF JobInv, TypeOK, PipeInOrder, Cleanup, ReleaseSlot, Goto, childVars,
       clientVars, slotVars, Events, Finals, Alive, None
  <1>3. SlotWithChild'
    BY DEF JobInv, TypeOK, SlotWithChild, Cleanup, ReleaseSlot, Goto, childVars,
       clientVars, slotVars, Events, Finals, Alive, None
  <1>4. ToldSoFar'
    BY DEF JobInv, TypeOK, SlotWithChild, ToldSoFar, Early, Stops, LastIsFinal,
       Cleanup, ReleaseSlot, Goto, childVars, clientVars, slotVars, Events, Finals,
       Alive, None
  <1>5. PointsTold'
    BY DEF JobInv, TypeOK, ToldSoFar, PointsTold, Early, Cleanup, ReleaseSlot, Goto,
       childVars, clientVars, slotVars, Events, Finals, Alive, None
  <1>6. QED  BY <1>1, <1>2, <1>3, <1>4, <1>5 DEF JobInv

LEMMA ChildProgressKeeps ==
  ASSUME JobInv, ChildProgress PROVE JobInv'
  <1>1. pipe \in Seq(Events) /\ "progress" \in Events
    BY DEF JobInv, TypeOK, Events
  <1>2. /\ Append(pipe, "progress") \in Seq(Events)
        /\ Append(pipe, "progress") # <<>>
        /\ Len(Append(pipe, "progress")) = Len(pipe) + 1
        /\ \A i \in 1..Len(pipe) : Append(pipe, "progress")[i] = pipe[i]
        /\ Append(pipe, "progress")[Len(pipe) + 1] = "progress"
    BY <1>1, AppendFacts
  <1>3. TypeOK'
    BY BoundsType, <1>1, <1>2 DEF JobInv, TypeOK, ChildProgress, ChildSends,
       ReaderOpen, Goto, childVars, clientVars, slotVars, Events, Finals, Alive,
       None
  <1>4. PipeInOrder'
    <2>1. CASE ReaderOpen
      <3>1. pipe' = Append(pipe, "progress") /\ kind' = kind /\ points' = points
        BY <2>1 DEF ChildProgress, ChildSends
      <3>2. \A i \in 1..Len(pipe) : pipe[i] = "progress" /\ points + i <= made
        BY DEF JobInv, PipeInOrder, ChildProgress
      <3>3. child # None /\ child' # None
        BY DEF ChildProgress, None
      <3>4. made' = made + 1 /\ kind = "explore" /\ child' = child
        BY DEF ChildProgress
      <3>5. points <= made /\ points \in Nat /\ made \in Nat
        BY BoundsType DEF JobInv, TypeOK, PipeInOrder
      <3>6. points + Len(pipe) + 1 <= made + 1
        BY <1>1, <3>2, <3>5
      <3>7. QED
        BY <1>1, <1>2, <3>1, <3>2, <3>3, <3>4, <3>5, <3>6 DEF PipeInOrder
    <2>2. CASE ~ReaderOpen
      BY <2>2, <1>1, <1>2 DEF JobInv, TypeOK, PipeInOrder, SlotWithChild, ChildProgress,
         ChildSends, Goto, childVars, clientVars, slotVars, Events, Finals, Alive,
         None
    <2>3. QED  BY <2>1, <2>2
  <1>5. SlotWithChild'
    BY <1>1, <1>2 DEF JobInv, TypeOK, SlotWithChild, ChildProgress, ChildSends,
       ReaderOpen, Goto, childVars, clientVars, slotVars, Events, Finals, Alive,
       None
  <1>6. ToldSoFar'
    BY <1>1, <1>2 DEF JobInv, TypeOK, SlotWithChild, ToldSoFar, Early, Stops,
       LastIsFinal, ChildProgress, ChildSends, ReaderOpen, Goto, childVars,
       clientVars, slotVars, Events, Finals, Alive, None
  <1>7. PointsTold'
    BY <1>1, <1>2 DEF JobInv, TypeOK, ToldSoFar, PointsTold, Early, ChildProgress,
       ChildSends, ReaderOpen, Goto, childVars, clientVars, slotVars, Events,
       Finals, Alive, None
  <1>8. QED  BY <1>3, <1>4, <1>5, <1>6, <1>7 DEF JobInv

LEMMA ChildEndsKeeps ==
  ASSUME JobInv, NEW e \in {"result", "error"}, ChildEnds(e) PROVE JobInv'
  <1>1. pipe \in Seq(Events) /\ e \in Events
    BY DEF JobInv, TypeOK, Events
  <1>2. /\ Append(pipe, e) \in Seq(Events)
        /\ Append(pipe, e) # <<>>
        /\ Len(Append(pipe, e)) = Len(pipe) + 1
        /\ \A i \in 1..Len(pipe) : Append(pipe, e)[i] = pipe[i]
        /\ Append(pipe, e)[Len(pipe) + 1] = e
    BY <1>1, AppendFacts
  <1>3. TypeOK'
    BY BoundsType, <1>1, <1>2 DEF JobInv, TypeOK, ChildEnds, ChildSends, ReaderOpen,
       Goto, childVars, clientVars, slotVars, Events, Finals, Alive, None
  <1>4. PipeInOrder'
    <2>1. CASE ReaderOpen
      <3>1. pipe' = Append(pipe, e) /\ kind' = kind /\ points' = points
        BY <2>1 DEF ChildEnds, ChildSends
      <3>2. \A i \in 1..Len(pipe) : pipe[i] = "progress" /\ points + i <= made
        BY DEF JobInv, PipeInOrder, ChildEnds
      <3>3. child # None /\ child' # None
        BY DEF ChildEnds, None
      <3>4. made' = made /\ child' = "closing" /\ e # "progress"
        BY DEF ChildEnds
      <3>5. points <= made /\ points \in Nat /\ made \in Nat
        BY BoundsType DEF JobInv, TypeOK, PipeInOrder
      <3>6. \A i \in 1..Len(pipe) : pipe[i] = "progress" => kind = "explore"
        BY DEF JobInv, PipeInOrder
      <3>7. QED
        BY <1>1, <1>2, <3>1, <3>2, <3>3, <3>4, <3>5, <3>6 DEF PipeInOrder
    <2>2. CASE ~ReaderOpen
      BY <2>2, <1>1, <1>2 DEF JobInv, TypeOK, PipeInOrder, SlotWithChild, ChildEnds,
         ChildSends, Goto, childVars, clientVars, slotVars, Events, Finals, Alive,
         None
    <2>3. QED  BY <2>1, <2>2
  <1>5. SlotWithChild'
    BY <1>1, <1>2 DEF JobInv, TypeOK, SlotWithChild, ChildEnds, ChildSends,
       ReaderOpen, Goto, childVars, clientVars, slotVars, Events, Finals, Alive,
       None
  <1>6. ToldSoFar'
    BY <1>1, <1>2 DEF JobInv, TypeOK, SlotWithChild, ToldSoFar, Early, Stops,
       LastIsFinal, ChildEnds, ChildSends, ReaderOpen, Goto, childVars, clientVars,
       slotVars, Events, Finals, Alive, None
  <1>7. PointsTold'
    BY <1>1, <1>2 DEF JobInv, TypeOK, ToldSoFar, PointsTold, Early, ChildEnds,
       ChildSends, ReaderOpen, Goto, childVars, clientVars, slotVars, Events,
       Finals, Alive, None
  <1>8. QED  BY <1>3, <1>4, <1>5, <1>6, <1>7 DEF JobInv

LEMMA ChildExitsKeeps ==
  ASSUME JobInv, ChildExits PROVE JobInv'
  <1>1. pipe \in Seq(Events) /\ "cut" \in Events
    BY DEF JobInv, TypeOK, Events
  <1>2. /\ Append(pipe, "cut") \in Seq(Events)
        /\ Append(pipe, "cut") # <<>>
        /\ Len(Append(pipe, "cut")) = Len(pipe) + 1
        /\ \A i \in 1..Len(pipe) : Append(pipe, "cut")[i] = pipe[i]
        /\ Append(pipe, "cut")[Len(pipe) + 1] = "cut"
    BY <1>1, AppendFacts
  <1>3. TypeOK'
    BY BoundsType, <1>1, <1>2 DEF JobInv, TypeOK, ChildExits, ReaderOpen, Goto,
       childVars, clientVars, slotVars, Events, Finals, Alive, None
  <1>4. PipeInOrder'
    <2>1. CASE pipe' = Append(pipe, "cut")
      BY <2>1, <1>1, <1>2 DEF JobInv, TypeOK, PipeInOrder, SlotWithChild, ChildExits, Goto,
         childVars, clientVars, slotVars, Events, Finals, Alive, None
    <2>2. CASE ~(pipe' = Append(pipe, "cut"))
      BY <2>2, <1>1, <1>2 DEF JobInv, TypeOK, PipeInOrder, SlotWithChild, ChildExits, Goto,
         childVars, clientVars, slotVars, Events, Finals, Alive, None
    <2>3. QED  BY <2>1, <2>2
  <1>5. SlotWithChild'
    BY <1>1, <1>2 DEF JobInv, TypeOK, SlotWithChild, ChildExits, ReaderOpen, Goto,
       childVars, clientVars, slotVars, Events, Finals, Alive, None
  <1>6. ToldSoFar'
    BY <1>1, <1>2 DEF JobInv, TypeOK, SlotWithChild, ToldSoFar, Early, Stops,
       LastIsFinal, ChildExits, ReaderOpen, Goto, childVars, clientVars, slotVars,
       Events, Finals, Alive, None
  <1>7. PointsTold'
    BY <1>1, <1>2 DEF JobInv, TypeOK, ToldSoFar, PointsTold, Early, ChildExits,
       ReaderOpen, Goto, childVars, clientVars, slotVars, Events, Finals, Alive,
       None
  <1>8. QED  BY <1>3, <1>4, <1>5, <1>6, <1>7 DEF JobInv

LEMMA SendDoneKeeps ==
  ASSUME JobInv, SendDone PROVE JobInv'
  <1>1. /\ received \in Seq({"progress"} \cup Finals)
        /\ pending \in {"progress"} \cup Finals
    BY DEF JobInv, TypeOK, ToldSoFar, SendDone, Finals
  <1>2. /\ Append(received, pending) \in Seq({"progress"} \cup Finals)
        /\ Append(received, pending) # <<>>
        /\ Len(Append(received, pending)) = Len(received) + 1
        /\ \A i \in 1..Len(received) : Append(received, pending)[i] = received[i]
        /\ Append(received, pending)[Len(received) + 1] = pending
    BY <1>1, AppendFacts
  <1>3. TypeOK'
    BY <1>1, <1>2 DEF JobInv, TypeOK, SendDone, Goto, childVars, clientVars,
       slotVars, Events, Finals, Alive, None
  <1>4. PipeInOrder'
    BY <1>1, <1>2 DEF JobInv, TypeOK, PipeInOrder, SendDone, Goto, childVars,
       clientVars, slotVars, Events, Finals, Alive, None
  <1>5. SlotWithChild'
    BY <1>1, <1>2 DEF JobInv, TypeOK, SlotWithChild, SendDone, Goto, childVars,
       clientVars, slotVars, Events, Finals, Alive, None
  <1>6. ToldSoFar'
    BY <1>1, <1>2 DEF JobInv, TypeOK, SlotWithChild, ToldSoFar, Early, Stops,
       LastIsFinal, SendDone, Goto, childVars, clientVars, slotVars, Events, Finals,
       Alive, None
  <1>7. PointsTold'
    BY <1>1, <1>2 DEF JobInv, TypeOK, ToldSoFar, PointsTold, Early, SendDone, Goto,
       childVars, clientVars, slotVars, Events, Finals, Alive, None
  <1>8. QED  BY <1>3, <1>4, <1>5, <1>6, <1>7 DEF JobInv

LEMMA DisconnectKeeps ==
  ASSUME JobInv, Disconnect PROVE JobInv'
  <1>1. TypeOK'
    BY DEF JobInv, TypeOK, Disconnect, Goto, childVars, clientVars, slotVars,
       Events, Finals, Alive, None
  <1>2. PipeInOrder'
    BY DEF JobInv, TypeOK, PipeInOrder, Disconnect, Goto, childVars, clientVars,
       slotVars, Events, Finals, Alive, None
  <1>3. SlotWithChild'
    BY DEF JobInv, TypeOK, SlotWithChild, Disconnect, Goto, childVars, clientVars,
       slotVars, Events, Finals, Alive, None
  <1>4. ToldSoFar'
    BY DEF JobInv, TypeOK, SlotWithChild, ToldSoFar, Early, Stops, LastIsFinal,
       Disconnect, Goto, childVars, clientVars, slotVars, Events, Finals, Alive,
       None
  <1>5. PointsTold'
    BY DEF JobInv, TypeOK, ToldSoFar, PointsTold, Early, Disconnect, Goto,
       childVars, clientVars, slotVars, Events, Finals, Alive, None
  <1>6. QED  BY <1>1, <1>2, <1>3, <1>4, <1>5 DEF JobInv

LEMMA CrashKeeps ==
  ASSUME JobInv, WorkerDies PROVE JobInv'
  <1>1. TypeOK'
    <2>1. pipe' \in Seq(Events) /\ Len(pipe') <= PipeCap
      BY NothingYet, BoundsType DEF WorkerDies
    <2>2. /\ kind' = kind /\ child' = child /\ made' = made /\ finished' = finished
          /\ elapsed' = elapsed /\ points' = points /\ pending' = pending
          /\ received' = received /\ released' = released /\ exits' = exits
      BY DEF WorkerDies, childVars, slotVars
    <2>3. pc' = "crashed" /\ connected' \in BOOLEAN /\ cancelled' = cancelled
      BY DEF WorkerDies, Goto
    <2>4. QED  BY <2>1, <2>2, <2>3 DEF JobInv, TypeOK
  <1>2. PipeInOrder'
    BY DEF JobInv, TypeOK, PipeInOrder, WorkerDies, Goto, childVars, clientVars,
       slotVars, Events, Finals, Alive, None
  <1>3. SlotWithChild'
    BY DEF JobInv, TypeOK, SlotWithChild, WorkerDies, Goto, childVars, clientVars,
       slotVars, Events, Finals, Alive, None
  <1>4. ToldSoFar'
    BY DEF JobInv, TypeOK, SlotWithChild, ToldSoFar, Early, Stops, LastIsFinal,
       WorkerDies, Goto, childVars, clientVars, slotVars, Events, Finals, Alive, None
  <1>5. PointsTold'
    BY DEF JobInv, TypeOK, ToldSoFar, PointsTold, Early, WorkerDies, Goto, childVars,
       clientVars, slotVars, Events, Finals, Alive, None
  <1>6. QED  BY <1>1, <1>2, <1>3, <1>4, <1>5 DEF JobInv

LEMMA TickKeeps ==
  ASSUME JobInv, Tick PROVE JobInv'
  <1>1. TypeOK'
    BY BoundsType DEF JobInv, TypeOK, Tick, Goto, childVars, clientVars, slotVars,
       Events, Finals, Alive, None
  <1>2. PipeInOrder'
    BY DEF JobInv, TypeOK, PipeInOrder, Tick, Goto, childVars, clientVars, slotVars,
       Events, Finals, Alive, None
  <1>3. SlotWithChild'
    BY DEF JobInv, TypeOK, SlotWithChild, Tick, Goto, childVars, clientVars,
       slotVars, Events, Finals, Alive, None
  <1>4. ToldSoFar'
    BY DEF JobInv, TypeOK, SlotWithChild, ToldSoFar, Early, Stops, LastIsFinal,
       Tick, Goto, childVars, clientVars, slotVars, Events, Finals, Alive, None
  <1>5. PointsTold'
    BY DEF JobInv, TypeOK, ToldSoFar, PointsTold, Early, Tick, Goto, childVars,
       clientVars, slotVars, Events, Finals, Alive, None
  <1>6. QED  BY <1>1, <1>2, <1>3, <1>4, <1>5 DEF JobInv

LEMMA StutterKeeps ==
  ASSUME JobInv, UNCHANGED vars PROVE JobInv'
  BY DEF JobInv, TypeOK, PipeInOrder, SlotWithChild, ToldSoFar, PointsTold, LastIsFinal,
     vars

LEMMA NextKeeps == JobInv /\ [Next]_vars => JobInv'
  <1> SUFFICES ASSUME JobInv, [Next]_vars PROVE JobInv'
    OBVIOUS
  <1>1. CASE Parent
    BY <1>1, StartKeeps, SpawnKeeps, SpawnFailsKeeps, DeadlineReachedKeeps,
       CancelSeenKeeps, PollKeeps, RecvEOFKeeps, RecvCutKeeps, RecvKeeps,
       AliveCheckKeeps, SendLostKeeps, JoinedKeeps, TerminateKeeps, KillKeeps,
       FinallyKeeps, CleanupKeeps DEF Parent
  <1>2. CASE Child
    BY <1>2, ChildProgressKeeps, ChildEndsKeeps, ChildExitsKeeps DEF Child
  <1>3. CASE SendDone \/ Disconnect \/ WorkerDies \/ Tick
    BY <1>3, SendDoneKeeps, DisconnectKeeps, CrashKeeps, TickKeeps
  <1>4. CASE Ended \/ UNCHANGED vars
    BY <1>4, StutterKeeps DEF Ended
  <1>5. QED  BY <1>1, <1>2, <1>3, <1>4 DEF Next

(* The invariant holds throughout: every event of the pipe, every place of  *)
(* the thread and every message to the client stays as described above.     *)
THEOREM JobInvHolds == Spec => []JobInv
  <1>1. Init => JobInv
    BY InitInv
  <1>2. QED  BY <1>1, NextKeeps, PTL DEF Spec

--------------------------------------------------------------------------------
(* The properties of the runs.                                              *)

(* Every variable keeps its type: the pipe never holds more than fits and   *)
(* the points of an explore never exceed what the child computed.           *)
THEOREM JobTypeCorrect == Spec => []TypeOK
  <1>1. JobInv => TypeOK
    BY DEF JobInv
  <1>2. QED  BY <1>1, JobInvHolds, PTL

(* No slot is given back while the solver process it stands for is alive    *)
(* (_stop_process before the finally block that releases).                  *)
THEOREM ChildStopsFirst == Spec => []ReleasedAfterChildStops
  <1>1. JobInv => ReleasedAfterChildStops
    BY DEF JobInv, SlotWithChild, ReleasedAfterChildStops
  <1>2. QED  BY <1>1, JobInvHolds, PTL

(* However the finally block and the response's cleanup follow each other,  *)
(* slot.__exit__ runs once (release_slot).                                  *)
THEOREM SlotLeftOnce == Spec => []SlotReleasedOnce
  <1>1. JobInv => SlotReleasedOnce
    BY DEF JobInv, SlotWithChild, SlotReleasedOnce
  <1>2. QED  BY <1>1, JobInvHolds, PTL

(* A client that stays connected is told one final event, the last one      *)
(* (the return after a result of stream_explore).                           *)
THEOREM OneAnswer == Spec => []AnsweredOnce
  <1>1. JobInv => AnsweredOnce
    BY DEF JobInv, TypeOK, ToldSoFar, LastIsFinal, AnsweredOnce
  <1>2. QED  BY <1>1, JobInvHolds, PTL

(* The partial result of an explore that ran out of time counts the points  *)
(* the client was sent.                                                     *)
THEOREM PartialIsWhatWasSent == Spec => []PartialMatchesStream
  <1>1. JobInv => PartialMatchesStream
    <2> SUFFICES ASSUME JobInv, pending = "partial", connected
                 PROVE  points = Len(received)
      BY DEF PartialMatchesStream
    <2>1. pc = "send" /\ kind = "explore"
      BY DEF JobInv, ToldSoFar
    <2>2. QED  BY <2>1 DEF JobInv, PointsTold
  <1>2. QED  BY <1>1, JobInvHolds, PTL
================================================================================
