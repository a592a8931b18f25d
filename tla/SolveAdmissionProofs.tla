--------------------------- MODULE SolveAdmissionProofs ---------------------------
(***************************************************************************)
(* Proofs about SolveAdmission for every number of workers, threads,       *)
(* addresses, permits and crashes.                                         *)
(***************************************************************************)
EXTENDS SolveAdmission, FiniteSetTheorems, TLAPS

USE DEF PCs, HasLock, HasPermit, Slots

--------------------------------------------------------------------------------
(* Type correctness.                                                       *)

(* Ending requests resets every local of their threads to a legal value.   *)
LEMMA EndRequestsType ==
  ASSUME TypeOK, NEW T \in SUBSET Threads, EndRequests(T)
  PROVE  /\ pc' \in [Threads -> PCs]
         /\ ip' \in [Threads -> IPs \cup {NoIP}]
         /\ kind' \in [Threads -> {"job", "stream"}]
         /\ pass' \in [Threads -> {1, 2}]
         /\ next' \in [Threads -> 1..(MaxSolves + 1)]
         /\ held' \in [Threads -> Nat]
         /\ \A t \in Threads : pc'[t] # "idle" => ip'[t] \in IPs
  BY MaxSolvesType DEF TypeOK, EndRequests

LEMMA NextPassType ==
  ASSUME TypeOK, NEW t \in Threads, pc[t] # "idle", NextPass(t)
  PROVE  /\ pc' \in [Threads -> PCs]
         /\ ip' \in [Threads -> IPs \cup {NoIP}]
         /\ kind' \in [Threads -> {"job", "stream"}]
         /\ pass' \in [Threads -> {1, 2}]
         /\ next' \in [Threads -> 1..(MaxSolves + 1)]
         /\ held' \in [Threads -> Nat]
         /\ \A u \in Threads : pc'[u] # "idle" => ip'[u] \in IPs
  <1>1. CASE pass[t] = 1
    BY <1>1 DEF NextPass, Goto, TypeOK
  <1>2. CASE pass[t] # 1
    BY <1>2, EndRequestsType DEF NextPass
  <1>3. QED  BY <1>1, <1>2

LEMMA OlderType == \A n \in Age : Older(n) \in Age
  BY TimesType DEF Older, Age

(* A step of a request thread keeps the types.                             *)
LEMMA StepType ==
  ASSUME TypeOK, NEW t \in Threads, Step(t) \/ SolveEnds(t)
  PROVE  TypeOK'
  <1>0. ip[t] \in IPs \/ pc[t] = "idle"
    BY DEF TypeOK
  <1>1. CASE CreateLock(t)
    <2>1. [age |-> 0, by |-> t] \in LockFile
      BY TimesType DEF LockFile, Age
    <2>2. lock' \in [IPs -> LockFile \cup {NoFile}]
      BY <1>0, <1>1, <2>1 DEF CreateLock, TypeOK
    <2>3. QED  BY <1>1, <2>2 DEF CreateLock, TypeOK, Goto
  <1>2. CASE StatLock(t)
    <2>1. CASE /\ pc[t] # "idle" /\ NextPass(t)
               /\ UNCHANGED <<doubted, lock, flock, crashes>>
      BY <2>1, NextPassType DEF TypeOK
    <2>2. CASE EndRequests({t}) /\ UNCHANGED <<doubted, lock, flock, crashes>>
      BY <2>2, EndRequestsType DEF TypeOK
    <2>3. CASE /\ pc[t] = "stat" /\ Goto(t, "unlink")
               /\ doubted' = doubted \cup {ip[t]}
               /\ UNCHANGED <<ip, kind, pass, next, held, lock, flock, crashes>>
      BY <2>3, <1>0 DEF TypeOK, Goto
    <2>4. QED  BY <1>2, <2>1, <2>2, <2>3 DEF StatLock
  <1>3. CASE UnlinkStale(t)
    <2>1. lock' \in [IPs -> LockFile \cup {NoFile}]
      BY <1>3 DEF UnlinkStale, TypeOK
    <2>2. QED  BY <1>3, <2>1, NextPassType DEF UnlinkStale, TypeOK
  <1>4. CASE TakeSlot(t)
    <2>1. flock' \in [Slots -> Workers \cup {Free}]
      BY <1>4, WorkerOfType DEF TakeSlot, TypeOK
    <2>2. next' \in [Threads -> 1..(MaxSolves + 1)]
      BY <1>4, MaxSolvesType DEF TakeSlot, TypeOK
    <2>3. QED  BY <1>4, <2>1, <2>2 DEF TakeSlot, TypeOK, Goto
  <1>5. CASE SlotBusy(t)
    BY <1>5, MaxSolvesType DEF SlotBusy, TypeOK
  <1>6. CASE ServerBusy(t)
    BY <1>6, MaxSolvesType DEF ServerBusy, TypeOK, Goto
  <1>7. CASE ReleasePermit(t)
    BY <1>7 DEF ReleasePermit, TypeOK, Goto
  <1>8. CASE ReleaseLock(t)
    <2>1. lock' \in [IPs -> LockFile \cup {NoFile}]
      BY <1>8 DEF ReleaseLock, TypeOK
    <2>2. QED  BY <1>8, <2>1, EndRequestsType DEF ReleaseLock, TypeOK
  <1>9. CASE SolveEnds(t)
    BY <1>9 DEF SolveEnds, TypeOK, Goto
  <1>10. QED
    BY <1>1, <1>2, <1>3, <1>4, <1>5, <1>6, <1>7, <1>8, <1>9 DEF Step

LEMMA CrashType ==
  ASSUME TypeOK, NEW w \in Workers, Crash(w)
  PROVE  TypeOK'
  <1>1. ASSUME NEW i \in IPs, lock[i] # NoFile
        PROVE  [lock[i] EXCEPT !.by = Gone] \in LockFile
    BY <1>1 DEF TypeOK, LockFile
  <1>2. lock' \in [IPs -> LockFile \cup {NoFile}]
    BY <1>1 DEF Crash, TypeOK
  <1>3. OfWorker(w) \in SUBSET Threads
    BY DEF OfWorker
  <1>4. crashes' \in 0..MaxCrashes
    BY MaxCrashesType DEF Crash, TypeOK
  <1>5. QED  BY <1>2, <1>3, <1>4, EndRequestsType DEF Crash, TypeOK

LEMMA TickType ==
  ASSUME TypeOK, Tick
  PROVE  TypeOK'
  <1>1. ASSUME NEW i \in IPs, lock[i] # NoFile
        PROVE  [lock[i] EXCEPT !.age = Older(@)] \in LockFile
    BY <1>1, OlderType DEF TypeOK, LockFile
  <1>2. lock' \in [IPs -> LockFile \cup {NoFile}]
    BY <1>1 DEF Tick, TypeOK
  <1>3. held' \in [Threads -> Nat]
    BY DEF Tick, TypeOK
  <1>4. QED  BY <1>2, <1>3 DEF Tick, TypeOK

LEMMA RequestType ==
  ASSUME TypeOK, NEW t \in Threads, NEW i \in IPs,
         NEW k \in {"job", "stream"}, Request(t, i, k)
  PROVE  TypeOK'
  BY DEF Request, TypeOK, Goto

(* Every reachable state is well typed; in particular a thread never looks *)
(* past the last slot file and always knows whose lock it is working on.   *)
THEOREM TypeCorrect == Spec => []TypeOK
  <1>1. Init => TypeOK
    BY MaxSolvesType, MaxCrashesType DEF Init, TypeOK
  <1>2. TypeOK /\ [Next]_vars => TypeOK'
    <2> SUFFICES ASSUME TypeOK, [Next]_vars PROVE TypeOK'
      OBVIOUS
    <2>1. CASE UNCHANGED vars
      BY <2>1 DEF vars, TypeOK
    <2>2. QED
      BY <2>1, RequestType, StepType, CrashType, TickType DEF Next
  <1>3. QED  BY <1>1, <1>2, PTL DEF Spec

--------------------------------------------------------------------------------
(* Lock files.  LockOwnership alone is not inductive: the files have to    *)
(* name a request that is still there, and only the ages of job locks keep *)
(* a verdict from falling on a live job.                                   *)

OwnerAlive ==
  \A i \in IPs : lock[i] # NoFile /\ i \notin doubted =>
    \/ lock[i].by = Gone
    \/ /\ lock[i].by \in Threads
       /\ pc[lock[i].by] \in HasLock
       /\ ip[lock[i].by] = i

JobAges ==
  \A t \in Threads :
    /\ pc[t] \notin HasLock => held[t] = 0
    /\ JobWithLock(t) => held[t] <= HoldLimit
    /\ JobWithLock(t) /\ ip[t] \notin doubted => lock[ip[t]].age <= held[t]

UnlinkOnlyDoubted == \A t \in Threads : pc[t] = "unlink" => ip[t] \in doubted

LockInv == LockOwnership /\ OwnerAlive /\ JobAges /\ UnlinkOnlyDoubted

(* What the end of a request leaves behind when its thread owns no file.   *)
LEMMA NoLockEnds ==
  ASSUME TypeOK, LockInv, NEW t \in Threads, pc[t] \notin HasLock,
         EndRequests({t}), UNCHANGED <<lock, doubted>>
  PROVE  LockInv'
  BY DEF TypeOK, LockInv, LockOwnership, OwnerAlive, JobAges,
         UnlinkOnlyDoubted, EndRequests, JobWithLock

(* A step inside one request that touches neither files nor verdicts and   *)
(* keeps the lock it has (or goes on having none).                         *)
LEMMA MoveKeepsLockInv ==
  ASSUME TypeOK, LockInv, NEW t \in Threads, NEW p \in PCs \ {"unlink"},
         p \in HasLock <=> pc[t] \in HasLock, Goto(t, p),
         UNCHANGED <<ip, kind, lock, held, doubted>>
  PROVE  LockInv'
  BY DEF TypeOK, LockInv, LockOwnership, OwnerAlive, JobAges,
         UnlinkOnlyDoubted, Goto, JobWithLock

LEMMA NextPassLockInv ==
  ASSUME TypeOK, LockInv, NEW t \in Threads, pc[t] \in {"stat", "unlink"},
         NextPass(t), UNCHANGED <<lock, doubted>>
  PROVE  LockInv'
  <1>1. CASE pass[t] = 1
    BY <1>1, MoveKeepsLockInv DEF NextPass
  <1>2. CASE pass[t] # 1
    BY <1>2, NoLockEnds DEF NextPass
  <1>3. QED  BY <1>1, <1>2

LEMMA CreateLockInv ==
  ASSUME TypeOK, LockInv, NEW t \in Threads, CreateLock(t)
  PROVE  LockInv'
  <1>1. CASE lock[ip[t]] # NoFile
    BY <1>1, MoveKeepsLockInv DEF CreateLock
  <1>2. CASE lock[ip[t]] = NoFile
    <2>1. ip[t] \in IPs
      BY DEF CreateLock, TypeOK
    <2>2. /\ lock' = [lock EXCEPT ![ip[t]] = [age |-> 0, by |-> t]]
          /\ pc' = [pc EXCEPT ![t] = "permit"]
          /\ UNCHANGED <<ip, kind, held, doubted>>
      BY <1>2 DEF CreateLock, Goto
    <2>3. [age |-> 0, by |-> t] \in LockFile
      BY TimesType DEF LockFile, Age
    <2>4. LockOwnership'
      BY <1>2, <2>1, <2>2, <2>3, NoFileDistinct
      DEF TypeOK, LockInv, LockOwnership
    <2>5. OwnerAlive'
      BY <2>1, <2>2 DEF TypeOK, LockInv, OwnerAlive
    <2>6. JobAges'
      <3> SUFFICES ASSUME NEW u \in Threads
                   PROVE  /\ pc'[u] \notin HasLock => held'[u] = 0
                          /\ JobWithLock(u)' => held'[u] <= HoldLimit
                          /\ JobWithLock(u)' /\ ip'[u] \notin doubted'
                               => lock'[ip'[u]].age <= held'[u]
        BY DEF JobAges
      <3>1. CASE u = t
        <4>1. held[t] = 0
          BY DEF CreateLock, LockInv, JobAges
        <4>2. lock'[ip'[t]].age = 0
          BY <2>1, <2>2 DEF TypeOK
        <4>3. QED  BY <3>1, <2>2, <4>1, <4>2, TimesType DEF TypeOK, JobWithLock
      <3>2. CASE u # t
        <4>1. JobWithLock(u)' <=> JobWithLock(u)
          BY <2>2, <3>2 DEF TypeOK, JobWithLock
        <4>2. ASSUME JobWithLock(u), ip[u] \notin doubted
              PROVE  ip[u] # ip[t]
          BY <4>2, <1>2 DEF LockInv, LockOwnership, JobWithLock
        <4>3. QED  BY <2>2, <3>2, <4>1, <4>2 DEF TypeOK, LockInv, JobAges, JobWithLock
      <3>3. QED  BY <3>1, <3>2
    <2>7. UnlinkOnlyDoubted'
      BY <2>2 DEF TypeOK, LockInv, UnlinkOnlyDoubted
    <2>8. QED  BY <2>4, <2>5, <2>6, <2>7 DEF LockInv
  <1>3. QED  BY <1>1, <1>2

LEMMA StatLockInv ==
  ASSUME TypeOK, LockInv, NEW t \in Threads, StatLock(t)
  PROVE  LockInv'
  <1>1. CASE NextPass(t) /\ UNCHANGED <<lock, doubted>>
    BY <1>1, NextPassLockInv DEF StatLock
  <1>2. CASE EndRequests({t}) /\ UNCHANGED <<lock, doubted>>
    BY <1>2, NoLockEnds DEF StatLock
  <1>3. CASE /\ Goto(t, "unlink")
             /\ doubted' = doubted \cup {ip[t]}
             /\ UNCHANGED <<ip, kind, held, lock>>
    BY <1>3 DEF StatLock, TypeOK, LockInv, LockOwnership, OwnerAlive, JobAges,
                UnlinkOnlyDoubted, Goto, JobWithLock
  <1>4. QED  BY <1>1, <1>2, <1>3 DEF StatLock

(* Removing the file of an address in doubt disturbs no owner.             *)
LEMMA UnlinkStaleInv ==
  ASSUME TypeOK, LockInv, NEW t \in Threads, UnlinkStale(t)
  PROVE  LockInv'
  <1>1. ip[t] \in doubted /\ ip[t] \in IPs
    BY DEF UnlinkStale, LockInv, UnlinkOnlyDoubted, TypeOK
  <1>2. lock' = [lock EXCEPT ![ip[t]] = NoFile] /\ doubted' = doubted
    BY DEF UnlinkStale
  <1>3. /\ \A u \in Threads \ {t} : /\ pc'[u] = pc[u] /\ ip'[u] = ip[u]
                                    /\ kind'[u] = kind[u] /\ held'[u] = held[u]
        /\ pc'[t] \in {"create", "idle"} /\ held'[t] = 0
    <2>1. NextPass(t) /\ held[t] = 0
      BY DEF UnlinkStale, LockInv, JobAges
    <2>2. CASE pass[t] = 1
      BY <2>1, <2>2 DEF NextPass, Goto, TypeOK
    <2>3. CASE pass[t] # 1
      BY <2>1, <2>3 DEF NextPass, EndRequests
    <2>4. QED  BY <2>2, <2>3
  <1>4. \A i \in IPs : i \notin doubted => lock'[i] = lock[i]
    BY <1>1, <1>2 DEF TypeOK
  <1>5. \A u \in Threads : pc[u] \in HasLock => u # t /\ ip[u] \in IPs
    BY DEF UnlinkStale, TypeOK
  <1>6. LockOwnership' /\ OwnerAlive'
    BY <1>2, <1>3, <1>4, <1>5 DEF LockInv, LockOwnership, OwnerAlive
  <1>7. JobAges' /\ UnlinkOnlyDoubted'
    BY <1>2, <1>3, <1>4, <1>5 DEF LockInv, JobAges, UnlinkOnlyDoubted, JobWithLock
  <1>8. QED  BY <1>6, <1>7 DEF LockInv

(* A release removes the file of its own address: of an address that is    *)
(* not in doubt nobody else is the owner.                                  *)
LEMMA ReleaseLockInv ==
  ASSUME TypeOK, LockInv, NEW t \in Threads, ReleaseLock(t)
  PROVE  LockInv'
  <1>1. ip[t] \in IPs
    BY DEF ReleaseLock, TypeOK
  <1>2. lock' = [lock EXCEPT ![ip[t]] = NoFile] /\ doubted' = doubted
    BY DEF ReleaseLock
  <1>3. /\ \A u \in Threads \ {t} : /\ pc'[u] = pc[u] /\ ip'[u] = ip[u]
                                    /\ kind'[u] = kind[u] /\ held'[u] = held[u]
        /\ pc'[t] = "idle" /\ held'[t] = 0
    BY DEF ReleaseLock, EndRequests
  <1>4. \A u \in Threads \ {t} :
          pc[u] \in HasLock /\ ip[u] \notin doubted => ip[u] # ip[t]
    BY DEF ReleaseLock, LockInv, LockOwnership
  <1>5. \A i \in IPs : i # ip[t] => lock'[i] = lock[i]
    BY <1>2 DEF TypeOK
  <1>6. \A u \in Threads : pc[u] \in HasLock => ip[u] \in IPs
    BY DEF TypeOK
  <1>7. LockOwnership'
    BY <1>2, <1>3, <1>4, <1>5, <1>6 DEF LockInv, LockOwnership
  <1>8. OwnerAlive'
    BY <1>1, <1>2, <1>3, <1>5 DEF LockInv, OwnerAlive, TypeOK
  <1>9. JobAges' /\ UnlinkOnlyDoubted'
    BY <1>2, <1>3, <1>4, <1>5, <1>6
    DEF LockInv, JobAges, UnlinkOnlyDoubted, JobWithLock
  <1>10. QED  BY <1>7, <1>8, <1>9 DEF LockInv

LEMMA CrashInv ==
  ASSUME TypeOK, LockInv, NEW w \in Workers, Crash(w)
  PROVE  LockInv'
  <1>1. /\ \A u \in Threads \ OfWorker(w) :
             /\ pc'[u] = pc[u] /\ ip'[u] = ip[u]
             /\ kind'[u] = kind[u] /\ held'[u] = held[u]
        /\ \A u \in OfWorker(w) : pc'[u] = "idle" /\ held'[u] = 0
        /\ OfWorker(w) \subseteq Threads
        /\ doubted' = doubted
    BY DEF Crash, EndRequests, OfWorker
  <1>2. ASSUME NEW i \in IPs, lock[i] # NoFile
        PROVE  /\ lock[i].by \in OfWorker(w) => lock'[i].by = Gone
               /\ lock[i].by \notin OfWorker(w) => lock'[i] = lock[i]
               /\ lock'[i].age = lock[i].age
    BY <1>2 DEF Crash, TypeOK, LockFile
  <1>3. \A i \in IPs : lock[i] = NoFile => lock'[i] = NoFile
    BY DEF Crash
  <1>4. \A u \in Threads : pc[u] \in HasLock => ip[u] \in IPs
    BY DEF TypeOK
  <1>5. LockOwnership'
    BY <1>1, <1>2, <1>4 DEF LockInv, LockOwnership
  <1>6. OwnerAlive'
    BY <1>1, <1>2, <1>3 DEF LockInv, OwnerAlive
  <1>7. JobAges' /\ UnlinkOnlyDoubted'
    BY <1>1, <1>2, <1>4
    DEF LockInv, LockOwnership, JobAges, UnlinkOnlyDoubted, JobWithLock
  <1>8. QED  BY <1>5, <1>6, <1>7 DEF LockInv

LEMMA TickInv ==
  ASSUME TypeOK, LockInv, Tick
  PROVE  LockInv'
  <1>1. UNCHANGED <<pc, ip, kind, doubted>>
    BY DEF Tick
  <1>2. ASSUME NEW i \in IPs, lock[i] # NoFile
        PROVE  /\ lock'[i] # NoFile
               /\ lock'[i].by = lock[i].by
               /\ lock'[i].age <= lock[i].age + 1
    <2>1. lock[i] \in LockFile /\ lock'[i] = [lock[i] EXCEPT !.age = Older(@)]
      BY <1>2 DEF Tick, TypeOK
    <2>2. lock'[i] \in LockFile /\ Older(lock[i].age) <= lock[i].age + 1
      BY <2>1, OlderType, TimesType DEF LockFile, Older, Age
    <2>3. QED  BY <2>1, <2>2, NoFileDistinct DEF LockFile
  <1>3. \A i \in IPs : lock[i] = NoFile => lock'[i] = NoFile
    BY DEF Tick
  <1>4. \A u \in Threads : pc[u] \in HasLock => ip[u] \in IPs
    BY DEF TypeOK
  <1>5. LockOwnership' /\ OwnerAlive' /\ UnlinkOnlyDoubted'
    BY <1>1, <1>2, <1>3, <1>4
    DEF LockInv, LockOwnership, OwnerAlive, UnlinkOnlyDoubted
  <1>6. ASSUME NEW u \in Threads
        PROVE  /\ JobWithLock(u) => /\ held'[u] = held[u] + 1
                                    /\ held[u] < HoldLimit
               /\ ~JobWithLock(u) => held'[u] = held[u]
    BY DEF Tick, TypeOK
  <1>7. ASSUME NEW u \in Threads, JobWithLock(u), ip[u] \notin doubted
        PROVE  lock'[ip[u]].age <= held'[u]
    <2>1. lock[ip[u]] # NoFile /\ lock[ip[u]].age <= held[u] /\ ip[u] \in IPs
      BY <1>4, <1>7 DEF LockInv, LockOwnership, JobAges, JobWithLock
    <2>2. lock[ip[u]] \in LockFile /\ held[u] \in Nat
      BY <2>1 DEF TypeOK
    <2>3. lock[ip[u]].age \in Nat
      BY <2>2, TimesType DEF LockFile, Age
    <2>4. lock'[ip[u]] \in LockFile
      <3>1. lock'[ip[u]] = [lock[ip[u]] EXCEPT !.age = Older(@)]
        BY <2>1 DEF Tick
      <3>2. QED  BY <2>2, <3>1, OlderType DEF LockFile
    <2>5. lock'[ip[u]].age \in Nat
      BY <2>4, TimesType DEF LockFile, Age
    <2>6. lock'[ip[u]].age <= lock[ip[u]].age + 1
      BY <1>2, <2>1
    <2>7. QED  BY <1>6, <1>7, <2>1, <2>2, <2>3, <2>5, <2>6
  <1>8. JobAges'
    <2> SUFFICES ASSUME NEW u \in Threads
                 PROVE  /\ pc'[u] \notin HasLock => held'[u] = 0
                        /\ JobWithLock(u)' => held'[u] <= HoldLimit
                        /\ JobWithLock(u)' /\ ip'[u] \notin doubted'
                             => lock'[ip'[u]].age <= held'[u]
      BY DEF JobAges
    <2>1. JobWithLock(u)' <=> JobWithLock(u)
      BY <1>1 DEF JobWithLock
    <2>2. held[u] \in Nat
      BY DEF TypeOK
    <2>3. pc'[u] \notin HasLock => held'[u] = 0
      BY <1>1, <1>6 DEF LockInv, JobAges, JobWithLock
    <2>4. JobWithLock(u)' => held'[u] <= HoldLimit
      BY <1>6, <2>1, <2>2, TimesType
    <2>5. QED  BY <1>1, <1>7, <2>1, <2>3, <2>4
  <1>9. QED  BY <1>5, <1>8 DEF LockInv

LEMMA RequestInv ==
  ASSUME TypeOK, LockInv, NEW t \in Threads, NEW i \in IPs,
         NEW k \in {"job", "stream"}, Request(t, i, k)
  PROVE  LockInv'
  BY DEF TypeOK, LockInv, LockOwnership, OwnerAlive, JobAges,
         UnlinkOnlyDoubted, Request, Goto, JobWithLock

LEMMA LockInvInductive == TypeOK /\ LockInv /\ [Next]_vars => LockInv'
  <1> SUFFICES ASSUME TypeOK, LockInv, [Next]_vars PROVE LockInv'
    OBVIOUS
  <1>1. CASE UNCHANGED vars
    BY <1>1 DEF vars, LockInv, LockOwnership, OwnerAlive, JobAges,
                UnlinkOnlyDoubted, JobWithLock
  <1>2. ASSUME NEW t \in Threads, Step(t) \/ SolveEnds(t)
        PROVE  LockInv'
    <2>1. CASE TakeSlot(t)
      BY <2>1, MoveKeepsLockInv DEF TakeSlot
    <2>2. CASE SlotBusy(t)
      BY <2>2 DEF SlotBusy, LockInv, LockOwnership, OwnerAlive, JobAges,
                  UnlinkOnlyDoubted, JobWithLock
    <2>3. CASE ServerBusy(t)
      BY <2>3, MoveKeepsLockInv DEF ServerBusy
    <2>4. CASE ReleasePermit(t)
      BY <2>4, MoveKeepsLockInv DEF ReleasePermit
    <2>5. CASE SolveEnds(t)
      BY <2>5, MoveKeepsLockInv DEF SolveEnds
    <2>6. QED
      BY <1>2, <2>1, <2>2, <2>3, <2>4, <2>5, CreateLockInv, StatLockInv,
         UnlinkStaleInv, ReleaseLockInv DEF Step
  <1>3. QED
    BY <1>1, <1>2, RequestInv, CrashInv, TickInv DEF Next

LEMMA LockInvHolds == Spec => []LockInv
  <1>1. Init => LockInv
    BY TimesType DEF Init, LockInv, LockOwnership, OwnerAlive, JobAges,
                     UnlinkOnlyDoubted, JobWithLock
  <1>2. QED  BY <1>1, LockInvInductive, TypeCorrect, PTL DEF Spec

(* As long as no lock of an address was judged stale, every request past   *)
(* the first guard owns the lock file of its address, through crashes of   *)
(* other workers and races on the file (solve_limits.py:43-70).            *)
THEOREM LocksOwned == Spec => []LockOwnership
  BY LockInvHolds, PTL DEF LockInv

(* A verdict "stale" only ever falls on a lock whose worker died or whose  *)
(* stream is stuck, never on a running job (solve_limits.py:32).           *)
THEOREM OnlyAbandonedDoubted == Spec => StaleVerdictsJustified
  <1>1. ASSUME TypeOK, LockInv, [Next]_vars, NEW i \in doubted' \ doubted
        PROVE  lock[i].by = Gone \/ kind[lock[i].by] = "stream"
    <2>1. PICK t \in Threads : StatLock(t) /\ ip[t] = i
      BY <1>1 DEF Next, vars, Step, Request, CreateLock, StatLock, UnlinkStale,
                  TakeSlot, SlotBusy, ServerBusy, ReleasePermit, ReleaseLock,
                  SolveEnds, Crash, Tick
    <2>2. i \in IPs /\ lock[i] # NoFile /\ IsStale(lock[i])
      BY <1>1, <2>1 DEF StatLock, TypeOK
    <2>3. SUFFICES ASSUME lock[i].by # Gone, kind[lock[i].by] # "stream"
                   PROVE  FALSE
      OBVIOUS
    <2>4. PICK u \in Threads : u = lock[i].by /\ pc[u] \in HasLock /\ ip[u] = i
      BY <1>1, <2>2, <2>3 DEF LockInv, OwnerAlive
    <2>5. JobWithLock(u)
      BY <1>1, <2>3, <2>4 DEF TypeOK, JobWithLock
    <2>6. lock[i].age <= held[u] /\ held[u] <= HoldLimit
      BY <1>1, <2>4, <2>5 DEF LockInv, JobAges
    <2>7. lock[i].age \in Nat /\ held[u] \in Nat
      <3>1. lock[i] \in LockFile
        BY <1>1, <2>2 DEF TypeOK
      <3>2. QED  BY <1>1, <3>1, TimesType DEF TypeOK, LockFile, Age
    <2>8. QED  BY <2>2, <2>6, <2>7, HoldBelowStale, TimesType DEF IsStale
  <1>2. TypeOK /\ LockInv /\ [Next]_vars => [OnlyAbandonedJudged]_vars
    BY <1>1 DEF OnlyAbandonedJudged
  <1>3. QED
    BY <1>2, TypeCorrect, LockInvHolds, PTL DEF Spec, StaleVerdictsJustified

--------------------------------------------------------------------------------
(* Permits.  A process can only be asked to give back a slot it has when   *)
(* its slots and its solving requests are counted one against the other;   *)
(* the server-wide cap needs the same count over all processes.            *)

Solvers    == {t \in Threads : Solving(t)}
TakenSlots == {s \in Slots : flock[s] # Free}

PermitInv == /\ PermitAccounting
             /\ Cardinality(TakenSlots) = Cardinality(Solvers)

LEMMA FiniteParts ==
  /\ IsFiniteSet(Slots) /\ Cardinality(Slots) = MaxSolves
  /\ IsFiniteSet(Solvers) /\ IsFiniteSet(TakenSlots)
  /\ \A w \in Workers : IsFiniteSet(SolversOf(w)) /\ IsFiniteSet(SlotsOf(w))
  <1>1. IsFiniteSet(Slots) /\ Cardinality(Slots) = MaxSolves
    BY FS_Interval, MaxSolvesType
  <1>2. Solvers \in SUBSET Threads /\ TakenSlots \in SUBSET Slots
    BY DEF Solvers, TakenSlots
  <1>3. \A w \in Workers : /\ SolversOf(w) \in SUBSET Threads
                           /\ SlotsOf(w) \in SUBSET Slots
    BY DEF SolversOf, OfWorker, SlotsOf
  <1>4. QED
    BY <1>1, <1>2, <1>3, ThreadsFinite, FS_Subset

(* Two sets of the same size stay so when each gains or loses one element. *)
LEMMA SameGrowth ==
  ASSUME NEW A, NEW B, IsFiniteSet(A), IsFiniteSet(B),
         Cardinality(A) = Cardinality(B), NEW a, NEW b, a \notin A, b \notin B
  PROVE  Cardinality(A \cup {a}) = Cardinality(B \cup {b})
  <1>1. Cardinality(A \cup {a}) = Cardinality(A) + 1
    BY FS_AddElement
  <1>2. Cardinality(B \cup {b}) = Cardinality(B) + 1
    BY FS_AddElement
  <1>3. QED  BY <1>1, <1>2

LEMMA SameShrink ==
  ASSUME NEW A, NEW B, IsFiniteSet(A), IsFiniteSet(B),
         Cardinality(A) = Cardinality(B), NEW a \in A, NEW b \in B
  PROVE  Cardinality(A \ {a}) = Cardinality(B \ {b})
  <1>1. Cardinality(A \ {a}) = Cardinality(A) - 1
    BY FS_RemoveElement
  <1>2. Cardinality(B \ {b}) = Cardinality(B) - 1
    BY FS_RemoveElement
  <1>3. QED  BY <1>1, <1>2

LEMMA SameLoss ==
  ASSUME NEW A, NEW B, IsFiniteSet(A), IsFiniteSet(B),
         Cardinality(A) = Cardinality(B), NEW C, NEW D,
         A \cap C = C, B \cap D = D, Cardinality(C) = Cardinality(D)
  PROVE  Cardinality(A \ C) = Cardinality(B \ D)
  <1>1. Cardinality(A \ C) = Cardinality(A) - Cardinality(A \cap C)
    BY FS_Difference
  <1>2. Cardinality(B \ D) = Cardinality(B) - Cardinality(B \cap D)
    BY FS_Difference
  <1>3. QED  BY <1>1, <1>2

(* A step that neither takes nor drops a permit.                           *)
LEMMA SamePermits ==
  ASSUME PermitInv, UNCHANGED flock,
         \A t \in Threads : Solving(t)' <=> Solving(t)
  PROVE  PermitInv'
  <1>1. Solvers' = Solvers /\ TakenSlots' = TakenSlots
    BY DEF Solvers, TakenSlots
  <1>2. \A w \in Workers : SolversOf(w)' = SolversOf(w) /\ SlotsOf(w)' = SlotsOf(w)
    BY DEF SolversOf, OfWorker, SlotsOf
  <1>3. QED  BY <1>1, <1>2 DEF PermitInv, PermitAccounting

LEMMA TakeSlotInv ==
  ASSUME TypeOK, PermitInv, NEW t \in Threads, TakeSlot(t)
  PROVE  PermitInv'
  <1> DEFINE s == next[t]
             w == WorkerOf[t]
  <1>1. s \in Slots /\ flock[s] = Free /\ w \in Workers /\ ~Solving(t)
    <2>1. next[t] \in 1..MaxSolves /\ flock[next[t]] = Free /\ pc[t] = "permit"
      BY MaxSolvesType DEF TakeSlot, TypeOK
    <2>2. WorkerOf[t] \in Workers
      BY WorkerOfType
    <2>3. QED  BY <2>1, <2>2 DEF Solving
  <1>2. flock' = [flock EXCEPT ![s] = w] /\ pc' = [pc EXCEPT ![t] = "solving"]
    BY DEF TakeSlot, Goto
  <1>3. \A u \in Threads : Solving(u)' <=> (u = t \/ Solving(u))
    BY <1>2 DEF Solving, TypeOK
  <1>4. \A r \in Slots : flock'[r] = IF r = s THEN w ELSE flock[r]
    BY <1>2 DEF TypeOK
  <1>5. /\ Solvers' = Solvers \cup {t} /\ t \notin Solvers
        /\ TakenSlots' = TakenSlots \cup {s} /\ s \notin TakenSlots
    BY <1>1, <1>3, <1>4, NoneDistinct DEF Solvers, TakenSlots
  <1>6. Cardinality(TakenSlots') = Cardinality(Solvers')
    BY <1>5, FiniteParts, SameGrowth DEF PermitInv
  <1>7. ASSUME NEW v \in Workers
        PROVE  Cardinality(SlotsOf(v)') = Cardinality(SolversOf(v)')
    <2>1. CASE v = w
      <3>1. /\ SolversOf(v)' = SolversOf(v) \cup {t} /\ t \notin SolversOf(v)
            /\ SlotsOf(v)' = SlotsOf(v) \cup {s} /\ s \notin SlotsOf(v)
        BY <1>1, <1>3, <1>4, <2>1, NoneDistinct DEF SolversOf, OfWorker, SlotsOf
      <3>2. QED
        BY <3>1, FiniteParts, SameGrowth DEF PermitInv, PermitAccounting
    <2>2. CASE v # w
      <3>1. SolversOf(v)' = SolversOf(v) /\ SlotsOf(v)' = SlotsOf(v)
        BY <1>1, <1>3, <1>4, <2>2, NoneDistinct DEF SolversOf, OfWorker, SlotsOf
      <3>2. QED  BY <3>1 DEF PermitInv, PermitAccounting
    <2>3. QED  BY <2>1, <2>2
  <1>8. QED  BY <1>6, <1>7 DEF PermitInv, PermitAccounting

LEMMA ReleasePermitInv ==
  ASSUME TypeOK, PermitInv, NEW t \in Threads, ReleasePermit(t)
  PROVE  PermitInv'
  <1> DEFINE w == WorkerOf[t]
  <1>1. PICK s \in Slots : flock[s] = w /\ flock' = [flock EXCEPT ![s] = Free]
    BY DEF ReleasePermit
  <1>2. w \in Workers /\ Solving(t) /\ pc' = [pc EXCEPT ![t] = "unlock"]
    BY WorkerOfType DEF ReleasePermit, Goto, Solving
  <1>3. \A u \in Threads : Solving(u)' <=> (u # t /\ Solving(u))
    BY <1>2 DEF Solving, TypeOK
  <1>4. \A r \in Slots : flock'[r] = IF r = s THEN Free ELSE flock[r]
    BY <1>1 DEF TypeOK
  <1>5. /\ Solvers' = Solvers \ {t} /\ t \in Solvers
        /\ TakenSlots' = TakenSlots \ {s} /\ s \in TakenSlots
    BY <1>1, <1>2, <1>3, <1>4, NoneDistinct DEF Solvers, TakenSlots
  <1>6. Cardinality(TakenSlots') = Cardinality(Solvers')
    BY <1>5, FiniteParts, SameShrink DEF PermitInv
  <1>7. ASSUME NEW v \in Workers
        PROVE  Cardinality(SlotsOf(v)') = Cardinality(SolversOf(v)')
    <2>1. CASE v = w
      <3>1. /\ SolversOf(v)' = SolversOf(v) \ {t} /\ t \in SolversOf(v)
            /\ SlotsOf(v)' = SlotsOf(v) \ {s} /\ s \in SlotsOf(v)
        BY <1>1, <1>2, <1>3, <1>4, <2>1, NoneDistinct
        DEF SolversOf, OfWorker, SlotsOf
      <3>2. QED
        BY <3>1, FiniteParts, SameShrink DEF PermitInv, PermitAccounting
    <2>2. CASE v # w
      <3>1. SolversOf(v)' = SolversOf(v) /\ SlotsOf(v)' = SlotsOf(v)
        BY <1>1, <1>3, <1>4, <2>2, NoneDistinct DEF SolversOf, OfWorker, SlotsOf
      <3>2. QED  BY <3>1 DEF PermitInv, PermitAccounting
    <2>3. QED  BY <2>1, <2>2
  <1>8. QED  BY <1>6, <1>7 DEF PermitInv, PermitAccounting

(* The kernel drops the flocks of a dead process, and its requests go with *)
(* it: both counts lose the same number.                                   *)
LEMMA CrashPermitInv ==
  ASSUME TypeOK, PermitInv, NEW w \in Workers, Crash(w)
  PROVE  PermitInv'
  <1>1. \A u \in Threads : Solving(u)' <=> (u \notin OfWorker(w) /\ Solving(u))
    BY DEF Crash, EndRequests, Solving
  <1>2. \A r \in Slots : flock'[r] = IF flock[r] = w THEN Free ELSE flock[r]
    BY DEF Crash
  <1>3. /\ Solvers' = Solvers \ SolversOf(w)
        /\ Solvers \cap SolversOf(w) = SolversOf(w)
        /\ TakenSlots' = TakenSlots \ SlotsOf(w)
        /\ TakenSlots \cap SlotsOf(w) = SlotsOf(w)
    BY <1>1, <1>2, NoneDistinct
    DEF Solvers, TakenSlots, SolversOf, OfWorker, SlotsOf
  <1>4. Cardinality(TakenSlots') = Cardinality(Solvers')
    BY <1>3, FiniteParts, SameLoss DEF PermitInv, PermitAccounting
  <1>5. ASSUME NEW v \in Workers
        PROVE  Cardinality(SlotsOf(v)') = Cardinality(SolversOf(v)')
    <2>1. CASE v = w
      <3>1. SolversOf(v)' = {} /\ SlotsOf(v)' = {}
        BY <1>1, <1>2, <2>1, NoneDistinct DEF SolversOf, OfWorker, SlotsOf
      <3>2. QED  BY <3>1
    <2>2. CASE v # w
      <3>1. SolversOf(v)' = SolversOf(v) /\ SlotsOf(v)' = SlotsOf(v)
        BY <1>1, <1>2, <2>2, NoneDistinct DEF SolversOf, OfWorker, SlotsOf
      <3>2. QED  BY <3>1 DEF PermitInv, PermitAccounting
    <2>3. QED  BY <2>1, <2>2
  <1>6. QED  BY <1>4, <1>5 DEF PermitInv, PermitAccounting

(* Every other step of a request leaves the permits and their users alone. *)
LEMMA OtherStepsKeepSolving ==
  ASSUME TypeOK, NEW t \in Threads,
         \/ CreateLock(t) \/ StatLock(t) \/ UnlinkStale(t) \/ SlotBusy(t)
         \/ ServerBusy(t) \/ SolveEnds(t) \/ ReleaseLock(t)
         \/ \E i \in IPs, k \in {"job", "stream"} : Request(t, i, k)
  PROVE  /\ flock' = flock
         /\ \A u \in Threads : /\ Solving(u)' <=> Solving(u)
                               /\ Solving(u) => ip'[u] = ip[u]
  BY DEF TypeOK, CreateLock, StatLock, UnlinkStale, SlotBusy, ServerBusy, SolveEnds,
         ReleaseLock, Request, NextPass, EndRequests, Goto, Solving

LEMMA PermitInvInductive == TypeOK /\ PermitInv /\ [Next]_vars => PermitInv'
  <1> SUFFICES ASSUME TypeOK, PermitInv, [Next]_vars PROVE PermitInv'
    OBVIOUS
  <1>1. CASE UNCHANGED vars
    BY <1>1, SamePermits DEF vars, Solving
  <1>2. CASE Tick
    BY <1>2, SamePermits DEF Tick, Solving
  <1>3. QED
    BY <1>1, <1>2, SamePermits, OtherStepsKeepSolving, TakeSlotInv,
       ReleasePermitInv, CrashPermitInv DEF Next, Step

LEMMA PermitInvHolds == Spec => []PermitInv
  <1>1. Init => PermitInv
    <2> SUFFICES ASSUME Init PROVE PermitInv
      OBVIOUS
    <2>1. Solvers = {} /\ TakenSlots = {}
      BY DEF Init, Solvers, Solving, TakenSlots
    <2>2. \A w \in Workers : SolversOf(w) = {} /\ SlotsOf(w) = {}
      BY NoneDistinct DEF Init, SolversOf, OfWorker, Solving, SlotsOf
    <2>3. QED  BY <2>1, <2>2 DEF PermitInv, PermitAccounting
  <1>2. QED  BY <1>1, PermitInvInductive, TypeCorrect, PTL DEF Spec

(* Each process holds one slot file per request it is solving, after any   *)
(* number of refusals and worker deaths (server_semaphore.py:26-46).       *)
THEOREM PermitsAccounted == Spec => []PermitAccounting
  BY PermitInvHolds, PTL DEF PermitInv

--------------------------------------------------------------------------------
(* SolveAdmission implements Admission.                                    *)

Bar == [t \in Threads |-> IF Solving(t) THEN ip[t] ELSE NoIP]

LEMMA BarFacts ==
  ASSUME TypeOK
  PROVE  \A t \in Threads : /\ Solving(t) => Bar[t] = ip[t] /\ ip[t] \in IPs
                            /\ ~Solving(t) => Bar[t] = NoIP
                            /\ Bar[t] # NoIP <=> Solving(t)
  BY NoneDistinct DEF TypeOK, Bar, Solving

(* The instance of FiniteSets inside Promise counts like our own.          *)
LEMMA SameCardinality == \A S : Promise!Cardinality(S) = Cardinality(S)
  BY DEF Promise!Cardinality, Cardinality

(* A free slot file means that the server is below its cap.                *)
LEMMA RoomForOne ==
  ASSUME PermitInv, NEW s \in Slots, flock[s] = Free
  PROVE  Cardinality(Solvers) < MaxSolves
  <1>1. TakenSlots \in SUBSET Slots /\ TakenSlots # Slots
    BY DEF TakenSlots
  <1>2. Cardinality(TakenSlots) <= MaxSolves /\ Cardinality(TakenSlots) # MaxSolves
    BY <1>1, FiniteParts, FS_Subset
  <1>3. Cardinality(TakenSlots) \in Nat
    BY FiniteParts, FS_CardinalityType
  <1>4. QED  BY <1>2, <1>3, MaxSolvesType DEF PermitInv

LEMMA TakeSlotEnters ==
  ASSUME TypeOK, LockInv, PermitInv, NEW t \in Threads, TakeSlot(t),
         NEW i \in IPs, ip[t] = i
  PROVE  Promise!Enter(t, i)
  <1>1. /\ next[t] \in Slots /\ flock[next[t]] = Free
        /\ pc[t] = "permit" /\ pc' = [pc EXCEPT ![t] = "solving"]
        /\ UNCHANGED <<ip, doubted>>
    BY MaxSolvesType DEF TakeSlot, TypeOK, Goto
  <1>2. Bar[t] = NoIP
    BY <1>1, BarFacts DEF Solving
  <1>3. Cardinality(Promise!Solvers(Bar)) < MaxSolves
    <2>1. Promise!Solvers(Bar) = Solvers
      BY BarFacts DEF Promise!Solvers, Solvers
    <2>2. QED  BY <1>1, <2>1, RoomForOne
  <1>4. ASSUME i \notin doubted, NEW u \in Threads, Bar[u] = i
        PROVE  FALSE
    <2>1. Solving(u) /\ ip[u] = i
      BY <1>4, BarFacts, NoneDistinct
    <2>2. lock[i].by = u /\ lock[i].by = t
      BY <1>1, <1>4, <2>1 DEF LockInv, LockOwnership, Solving
    <2>3. QED  BY <1>1, <2>1, <2>2 DEF Solving
  <1>5. Bar' = [Bar EXCEPT ![t] = i]
    BY <1>1 DEF Bar, Solving, TypeOK
  <1>6. QED
    BY <1>1, <1>2, <1>3, <1>4, <1>5, SameCardinality DEF Promise!Enter, Bar

LEMMA OthersKeepBar ==
  ASSUME TypeOK, \A u \in Threads : /\ Solving(u)' <=> Solving(u)
                                    /\ Solving(u) => ip'[u] = ip[u]
  PROVE  Bar' = Bar
  BY DEF Bar

LEMMA StepSimulation ==
  TypeOK /\ LockInv /\ PermitInv /\ [Next]_vars => [Promise!Next]_(Promise!vars)
  <1> SUFFICES ASSUME TypeOK, LockInv, PermitInv, [Next]_vars
               PROVE  Promise!Next \/ (Bar' = Bar /\ doubted' = doubted)
    BY DEF Promise!vars, Bar
  <1>1. CASE UNCHANGED vars
    BY <1>1, OthersKeepBar DEF vars, Solving
  <1>2. CASE Tick
    BY <1>2, OthersKeepBar DEF Tick, Solving
  <1>3. ASSUME NEW t \in Threads, ReleasePermit(t)
        PROVE  Promise!Next
    <2>1. Bar' = [u \in Threads |-> IF u \in {t} THEN NoIP ELSE Bar[u]]
      BY <1>3 DEF ReleasePermit, Goto, Bar, Solving, TypeOK
    <2>2. doubted' = doubted
      BY <1>3 DEF ReleasePermit
    <2>3. Promise!Leave({t})
      BY <2>1, <2>2 DEF Promise!Leave, Bar
    <2>4. QED  BY <2>3 DEF Promise!Next
  <1>4. ASSUME NEW w \in Workers, Crash(w)
        PROVE  Promise!Next
    <2>1. Bar' = [u \in Threads |-> IF u \in OfWorker(w) THEN NoIP ELSE Bar[u]]
      BY <1>4 DEF Crash, EndRequests, Bar, Solving
    <2>2. doubted' = doubted /\ OfWorker(w) \in SUBSET Threads
      BY <1>4 DEF Crash, OfWorker
    <2>3. Promise!Leave(OfWorker(w))
      BY <2>1, <2>2 DEF Promise!Leave, Bar
    <2>4. QED  BY <2>2, <2>3 DEF Promise!Next
  <1>5. ASSUME NEW t \in Threads, TakeSlot(t)
        PROVE  Promise!Next
    <2>1. PICK i \in IPs : ip[t] = i
      BY <1>5 DEF TakeSlot, TypeOK
    <2>2. Promise!Enter(t, i)
      BY <1>5, <2>1, TakeSlotEnters
    <2>3. QED  BY <2>1, <2>2 DEF Promise!Next
  <1>6. ASSUME NEW t \in Threads,
               \/ CreateLock(t) \/ StatLock(t) \/ UnlinkStale(t) \/ SlotBusy(t)
               \/ ServerBusy(t) \/ SolveEnds(t) \/ ReleaseLock(t)
               \/ \E i \in IPs, k \in {"job", "stream"} : Request(t, i, k)
        PROVE  Promise!Next \/ (Bar' = Bar /\ doubted' = doubted)
    <2>1. Bar' = Bar
      BY <1>6, OtherStepsKeepSolving, OthersKeepBar
    <2>2. \/ doubted' = doubted
          \/ \E i \in IPs : doubted' = doubted \cup {i}
      BY <1>6 DEF CreateLock, StatLock, UnlinkStale, SlotBusy, ServerBusy,
                  SolveEnds, ReleaseLock, Request, TypeOK
    <2>3. ASSUME NEW i \in IPs, doubted' = doubted \cup {i}
          PROVE  Promise!Next
      BY <2>1, <2>3 DEF Promise!Next, Promise!Doubt, Bar
    <2>4. QED  BY <2>1, <2>2, <2>3
  <1>7. QED
    BY <1>1, <1>2, <1>3, <1>4, <1>5, <1>6 DEF Next, Step

(* The files and flocks of the workers implement the two guards: never     *)
(* more solves than permits on the whole server, and one per address until *)
(* a lock of that address was given up as abandoned.                       *)
THEOREM ImplementsAdmission == Spec => RefinesAdmission
  <1>1. Init => Promise!Init
    <2> SUFFICES ASSUME Init PROVE Promise!Init
      OBVIOUS
    <2>1. Bar = [t \in Threads |-> NoIP]
      BY DEF Init, Bar, Solving
    <2>2. QED  BY <2>1 DEF Init, Promise!Init, Bar
  <1>2. QED
    BY <1>1, StepSimulation, TypeCorrect, LockInvHolds, PermitInvHolds, PTL
    DEF Spec, RefinesAdmission, Promise!Spec
================================================================================
