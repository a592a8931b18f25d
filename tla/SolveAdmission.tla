----------------------------- MODULE SolveAdmission -----------------------------
(***************************************************************************)
(* Admission to the native solver (backend/services/solve_limits.py and    *)
(* backend/server_semaphore.py).  Every Gunicorn worker is a process with  *)
(* several request threads.  A thread first wins the lock file of its      *)
(* client's address, then one of the server-wide flock permits, solves,    *)
(* gives the permit back and removes the lock file.  A worker may die      *)
(* anywhere in between: the kernel then drops its flocks, its lock files   *)
(* stay and are removed by whoever finds them stale.                       *)
(*                                                                         *)
(* Time is counted in ticks.  A lock file carries its age (now - mtime),   *)
(* which stops counting once it is past StaleAfter.                        *)
(***************************************************************************)
EXTENDS Naturals, FiniteSets

CONSTANTS Workers,      \* Gunicorn worker processes
          Threads,      \* request threads of all the workers
          WorkerOf,     \* WorkerOf[t]: the process thread t runs in
          IPs,          \* client addresses
          MaxSolves,    \* OPTIMIZER_MAX_SOLVES, the number of slot files
          StaleAfter,   \* _SOLVE_LOCK_STALE_SECONDS, in ticks
          HoldLimit,    \* hard deadline and clean-up of a solver job, in ticks
          MaxCrashes,   \* bound on worker deaths
          NoIP, Free, NoFile, Gone   \* none of the above

ASSUME ThreadsFinite   == IsFiniteSet(Threads)
ASSUME WorkerOfType    == WorkerOf \in [Threads -> Workers]
ASSUME MaxSolvesType   == MaxSolves \in Nat \ {0}
ASSUME TimesType       == StaleAfter \in Nat /\ HoldLimit \in Nat
(* 30 s solve + 5 s start-up grace + at most 4.2 s of joins, against 60 s. *)
ASSUME HoldBelowStale  == HoldLimit < StaleAfter
ASSUME MaxCrashesType  == MaxCrashes \in Nat
ASSUME NoneDistinct    == NoIP \notin IPs /\ Free \notin Workers

VARIABLES pc,           \* pc[t]: where thread t is in its request
          ip,           \* ip[t]: the address its request comes from
          kind,         \* "job" (bounded by the hard timeout) or "stream"
          pass,         \* pass[t]: which of the two passes of the acquire loop
          next,         \* next[t]: the slot file tried next
          lock,         \* lock[i]: the lock file of address i, or NoFile
          flock,        \* flock[s]: the process that holds slot file s, or Free
          held,         \* held[t]: ticks since job t created its lock file
          doubted,      \* ghost: addresses whose lock was judged stale
          crashes

vars == <<pc, ip, kind, pass, next, lock, flock, held, doubted, crashes>>

Slots == 1..MaxSolves
Age   == 0..(StaleAfter + 1)
PCs   == {"idle", "create", "stat", "unlink", "permit", "solving", "release", "unlock"}

(* "by" is a ghost: nothing in the file names its creator.                 *)
LockFile == [age : Age, by : Threads \cup {Gone}]

ASSUME NoFileDistinct == NoFile \notin LockFile

TypeOK ==
  /\ pc \in [Threads -> PCs]
  /\ ip \in [Threads -> IPs \cup {NoIP}]
  /\ kind \in [Threads -> {"job", "stream"}]
  /\ pass \in [Threads -> {1, 2}]
  /\ next \in [Threads -> 1..(MaxSolves + 1)]
  /\ lock \in [IPs -> LockFile \cup {NoFile}]
  /\ flock \in [Slots -> Workers \cup {Free}]
  /\ held \in [Threads -> Nat]
  /\ doubted \in SUBSET IPs
  /\ crashes \in 0..MaxCrashes
  /\ \A t \in Threads : pc[t] # "idle" => ip[t] \in IPs

Init ==
  /\ pc = [t \in Threads |-> "idle"]
  /\ ip = [t \in Threads |-> NoIP]
  /\ kind = [t \in Threads |-> "job"]
  /\ pass = [t \in Threads |-> 1]
  /\ next = [t \in Threads |-> 1]
  /\ lock = [i \in IPs |-> NoFile]
  /\ flock = [s \in Slots |-> Free]
  /\ held = [t \in Threads |-> 0]
  /\ doubted = {}
  /\ crashes = 0

HasLock   == {"permit", "solving", "release", "unlock"}
HasPermit == {"solving", "release"}

Goto(t, to) == pc' = [pc EXCEPT ![t] = to]

--------------------------------------------------------------------------------
(* _acquire_ip_solve_lock: at most two passes of create, stat, unlink.     *)

(* A solve endpoint enters solve_slot.                                     *)
Request(t, i, k) ==
  /\ pc[t] = "idle"
  /\ Goto(t, "create")
  /\ ip' = [ip EXCEPT ![t] = i]
  /\ kind' = [kind EXCEPT ![t] = k]
  /\ UNCHANGED <<pass, next, lock, flock, held, doubted, crashes>>

(* The requests of the threads in T are over; their locals are forgotten.  *)
EndRequests(T) ==
  /\ pc' = [t \in Threads |-> IF t \in T THEN "idle" ELSE pc[t]]
  /\ ip' = [t \in Threads |-> IF t \in T THEN NoIP ELSE ip[t]]
  /\ kind' = [t \in Threads |-> IF t \in T THEN "job" ELSE kind[t]]
  /\ pass' = [t \in Threads |-> IF t \in T THEN 1 ELSE pass[t]]
  /\ next' = [t \in Threads |-> IF t \in T THEN 1 ELSE next[t]]
  /\ held' = [t \in Threads |-> IF t \in T THEN 0 ELSE held[t]]

(* Mutant: the file is opened without O_EXCL.                              *)
CreateLockNoExcl(t) ==
  /\ pc[t] = "create"
  /\ lock' = [lock EXCEPT ![ip[t]] = [age |-> 0, by |-> t]]
  /\ Goto(t, "permit")
  /\ pass' = [pass EXCEPT ![t] = 1]
  /\ UNCHANGED <<ip, kind, next, flock, held, doubted, crashes>>

(* os.open(O_CREAT | O_EXCL): the only atomic test of the protocol.        *)
CreateLock(t) ==
  /\ pc[t] = "create"
  /\ IF lock[ip[t]] = NoFile
       THEN /\ lock' = [lock EXCEPT ![ip[t]] = [age |-> 0, by |-> t]]
            /\ Goto(t, "permit")
            /\ pass' = [pass EXCEPT ![t] = 1]
       ELSE /\ Goto(t, "stat")
            /\ UNCHANGED <<pass, lock>>
  /\ UNCHANGED <<ip, kind, next, flock, held, doubted, crashes>>

(* Mutant: "while True" instead of two passes.                             *)
NextPassForever(t) ==
  /\ Goto(t, "create")
  /\ pass' = [pass EXCEPT ![t] = @ + 1]
  /\ UNCHANGED <<ip, kind, next, held>>

(* The loop goes round once more, or gives up with 429 alreadySolving.     *)
NextPass(t) ==
  IF pass[t] = 1
    THEN /\ Goto(t, "create")
         /\ pass' = [pass EXCEPT ![t] = 2]
         /\ UNCHANGED <<ip, kind, next, held>>
    ELSE EndRequests({t})

(* Mutant: the threshold is below what a job may take.                     *)
IsStaleEarly(f) == f.age >= HoldLimit

IsStale(f) == f.age > StaleAfter

(* os.getmtime on whatever file has the path now; it may have vanished.    *)
StatLock(t) ==
  /\ pc[t] = "stat"
  /\ \/ /\ lock[ip[t]] = NoFile
        /\ NextPass(t)
        /\ UNCHANGED doubted
     \/ /\ lock[ip[t]] # NoFile
        /\ IsStale(lock[ip[t]])
        /\ Goto(t, "unlink")
        /\ doubted' = doubted \cup {ip[t]}
        /\ UNCHANGED <<ip, kind, pass, next, held>>
     \/ /\ lock[ip[t]] # NoFile
        /\ ~IsStale(lock[ip[t]])
        /\ EndRequests({t})
        /\ UNCHANGED doubted
  /\ UNCHANGED <<lock, flock, crashes>>

(* Mutant: the removal fails and the failure is swallowed.                 *)
UnlinkStaleFails(t) ==
  /\ pc[t] = "unlink"
  /\ NextPass(t)
  /\ UNCHANGED <<lock, flock, doubted, crashes>>

(* os.remove by path: the file need no longer be the one judged stale.     *)
UnlinkStale(t) ==
  /\ pc[t] = "unlink"
  /\ lock' = [lock EXCEPT ![ip[t]] = NoFile]
  /\ NextPass(t)
  /\ UNCHANGED <<flock, doubted, crashes>>

--------------------------------------------------------------------------------
(* ServerSemaphore.acquire tries the slot files one by one.                *)

(* Mutant: the answer of flock is not looked at.                           *)
TakeSlotAnyway(t) ==
  /\ pc[t] = "permit"
  /\ next[t] <= MaxSolves
  /\ flock' = [flock EXCEPT ![next[t]] = WorkerOf[t]]
  /\ next' = [next EXCEPT ![t] = 1]
  /\ Goto(t, "solving")
  /\ UNCHANGED <<ip, kind, pass, lock, held, doubted, crashes>>

TakeSlot(t) ==
  /\ pc[t] = "permit"
  /\ next[t] <= MaxSolves
  /\ flock[next[t]] = Free
  /\ flock' = [flock EXCEPT ![next[t]] = WorkerOf[t]]
  /\ next' = [next EXCEPT ![t] = 1]
  /\ Goto(t, "solving")
  /\ UNCHANGED <<ip, kind, pass, lock, held, doubted, crashes>>

SlotBusy(t) ==
  /\ pc[t] = "permit"
  /\ next[t] <= MaxSolves
  /\ flock[next[t]] # Free
  /\ next' = [next EXCEPT ![t] = @ + 1]
  /\ UNCHANGED <<pc, ip, kind, pass, lock, flock, held, doubted, crashes>>

(* Mutant: the acquire moved inside the try block of the release.          *)
ServerBusyReleases(t) ==
  /\ pc[t] = "permit"
  /\ next[t] > MaxSolves
  /\ next' = [next EXCEPT ![t] = 1]
  /\ Goto(t, "release")
  /\ UNCHANGED <<ip, kind, pass, lock, flock, held, doubted, crashes>>

(* Every slot file was busy: 429 serverBusy, on the way out of the outer   *)
(* try block.                                                              *)
ServerBusy(t) ==
  /\ pc[t] = "permit"
  /\ next[t] > MaxSolves
  /\ next' = [next EXCEPT ![t] = 1]
  /\ Goto(t, "unlock")
  /\ UNCHANGED <<ip, kind, pass, lock, flock, held, doubted, crashes>>

--------------------------------------------------------------------------------
(* The body of solve_slot and its two finally blocks.                      *)

SolveEnds(t) ==
  /\ pc[t] = "solving"
  /\ Goto(t, "release")
  /\ UNCHANGED <<ip, kind, pass, next, lock, flock, held, doubted, crashes>>

(* Mutant: release only knows the first slot file.                         *)
ReleaseFirstSlot(t) ==
  /\ pc[t] = "release"
  /\ flock[1] = WorkerOf[t]
  /\ flock' = [flock EXCEPT ![1] = Free]
  /\ Goto(t, "unlock")
  /\ UNCHANGED <<ip, kind, pass, next, lock, held, doubted, crashes>>

(* ServerSemaphore.release closes any descriptor this process holds.       *)
ReleasePermit(t) ==
  /\ pc[t] = "release"
  /\ \E s \in Slots : /\ flock[s] = WorkerOf[t]
                      /\ flock' = [flock EXCEPT ![s] = Free]
  /\ Goto(t, "unlock")
  /\ UNCHANGED <<ip, kind, pass, next, lock, held, doubted, crashes>>

(* _release_ip_solve_lock removes the path, whoever created the file.      *)
ReleaseLock(t) ==
  /\ pc[t] = "unlock"
  /\ lock' = [lock EXCEPT ![ip[t]] = NoFile]
  /\ EndRequests({t})
  /\ UNCHANGED <<flock, doubted, crashes>>

--------------------------------------------------------------------------------
(* The environment.                                                        *)

OfWorker(w) == {t \in Threads : WorkerOf[t] = w}

(* A worker is killed and restarted: its flocks go, its lock files stay.   *)
Crash(w) ==
  /\ crashes < MaxCrashes
  /\ crashes' = crashes + 1
  /\ EndRequests(OfWorker(w))
  /\ flock' = [s \in Slots |-> IF flock[s] = w THEN Free ELSE flock[s]]
  /\ lock' = [i \in IPs |-> IF lock[i] # NoFile /\ lock[i].by \in OfWorker(w)
                              THEN [lock[i] EXCEPT !.by = Gone]
                              ELSE lock[i]]
  /\ UNCHANGED doubted

JobWithLock(t) == pc[t] \in HasLock /\ kind[t] = "job"

Older(n) == IF n > StaleAfter THEN n ELSE n + 1

(* Time passes.  A job that has its lock ends within HoldLimit ticks: the  *)
(* hard timeout of process_runner.run_job.  A stream waits for its client. *)
Tick ==
  /\ \A t \in Threads : JobWithLock(t) => held[t] < HoldLimit
  /\ lock' = [i \in IPs |-> IF lock[i] = NoFile THEN NoFile
                              ELSE [lock[i] EXCEPT !.age = Older(@)]]
  /\ held' = [t \in Threads |-> IF JobWithLock(t) THEN held[t] + 1 ELSE held[t]]
  /\ UNCHANGED <<pc, ip, kind, pass, next, flock, doubted, crashes>>

Step(t) ==
  \/ CreateLock(t) \/ StatLock(t) \/ UnlinkStale(t)
  \/ TakeSlot(t) \/ SlotBusy(t) \/ ServerBusy(t)
  \/ ReleasePermit(t) \/ ReleaseLock(t)

Next ==
  \/ \E t \in Threads, i \in IPs, k \in {"job", "stream"} : Request(t, i, k)
  \/ \E t \in Threads : Step(t) \/ SolveEnds(t)
  \/ \E w \in Workers : Crash(w)
  \/ Tick

Spec == Init /\ [][Next]_vars

(* A thread that is running goes on; a job ends by its deadline.  Nothing  *)
(* makes a client read its stream, and nobody has to send a request.       *)
Fairness ==
  /\ \A t \in Threads : WF_vars(Step(t))
  /\ \A t \in Threads : WF_vars(kind[t] = "job" /\ SolveEnds(t))
  /\ WF_vars(Tick)

FairSpec == Spec /\ Fairness

--------------------------------------------------------------------------------
(* Properties.                                                             *)

Solving(t)       == pc[t] \in HasPermit
SolversOf(w)     == {t \in OfWorker(w) : Solving(t)}
SlotsOf(w)       == {s \in Slots : flock[s] = w}

(* Every process holds exactly one slot file per request it is solving, so *)
(* release() always finds a descriptor to close (server_semaphore.py:43)   *)
(* and neither a refused request nor a dead worker keeps a permit.         *)
PermitAccounting ==
  \A w \in Workers : Cardinality(SlotsOf(w)) = Cardinality(SolversOf(w))

(* Until a lock of an address is judged stale, a request that passed the   *)
(* first guard owns the file of its address: O_EXCL lets nobody else in    *)
(* and no release removes it under the owner (solve_limits.py:43-70).      *)
LockOwnership ==
  \A t \in Threads : pc[t] \in HasLock /\ ip[t] \notin doubted =>
    /\ lock[ip[t]] # NoFile
    /\ lock[ip[t]].by = t

(* Only a lock left by a dead worker, or that of a stream whose client     *)
(* stopped reading, is ever judged stale: 60 s are longer than any job     *)
(* (solve_limits.py:32, process_runner.py:23).                             *)
OnlyAbandonedJudged ==
  \A i \in doubted' \ doubted : \/ lock[i].by = Gone
                                \/ kind[lock[i].by] = "stream"
StaleVerdictsJustified == [][OnlyAbandonedJudged]_vars

(* The docstring of _acquire_ip_solve_lock (solve_limits.py:44): two       *)
(* workers racing on the same address cannot both win.                     *)
OneSolvePerIP ==
  \A t, u \in Threads : Solving(t) /\ Solving(u) /\ ip[t] = ip[u] => t = u

(* Both guards together keep what Admission promises.                      *)
Promise == INSTANCE Admission
  WITH solving <- [t \in Threads |-> IF Solving(t) THEN ip[t] ELSE NoIP]

RefinesAdmission == Promise!Spec

(* A job that was admitted gives everything back, whatever the other       *)
(* requests and the crashes do.                                            *)
JobsEnd ==
  \A t \in Threads : (Solving(t) /\ kind[t] = "job") ~> pc[t] = "idle"

(* "A lock left behind by a worker that crashed mid-solve self-heals once  *)
(* it goes stale" (solve_limits.py:45): while requests from the address    *)
(* keep coming, the orphaned file does not stay.                           *)
Orphaned(i) == lock[i] # NoFile /\ lock[i].by = Gone
SelfHeals ==
  \A i \in IPs :
    []<>(\E t \in Threads : ip[t] = i /\ pc[t] = "create") => []<>~Orphaned(i)
================================================================================
