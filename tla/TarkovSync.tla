------------------------------ MODULE TarkovSync ------------------------------
(***************************************************************************)
(* Hyperactive sync: the background loop of every gunicorn worker          *)
(* (backend/services/sync.py), the admin switch (backend/routers/system.py) *)
(* and the subprocess that rewrites tarkov.db in place, one commit after   *)
(* the other, and publishes a new cache generation at its end              *)
(* (backend/sync_tarkov_dev.py, backend/solver_cache_epoch.py).            *)
(* The mode, the trigger and sync_running live in each worker's memory;    *)
(* hyperactive.lock, sync_in_progress.lock, the database and the epoch     *)
(* file are shared.                                                        *)
(***************************************************************************)
EXTENDS Naturals

CONSTANTS Workers,      \* gunicorn workers
          MaxSyncs,     \* bound on the syncs started
          MaxCrashes    \* bound on the workers killed

ASSUME SyncBounds == MaxSyncs \in Nat /\ MaxCrashes \in Nat

VARIABLES lockFile,     \* hyperactive.lock exists
          flagFile,     \* sync_in_progress.lock exists
          mode,         \* hyperactive_mode of a worker
          trigger,      \* sync_trigger of a worker
          loop,         \* where _bg_hyperactive_sync of a worker is
          runs,         \* the sync _run_sync_once of a worker waits for, or 0
          job,          \* the next step of each sync subprocess
          started,      \* syncs started
          items, links, \* whose rows these tables hold: a sync, 0 or Empty
          writes,       \* commits to tarkov.db: its mtime
          epoch,        \* the sync that published the generation
          crashes

workerVars == <<mode, trigger, loop, runs>>
dbVars     == <<items, links, writes>>
syncVars   == <<lockFile, flagFile, workerVars, job, started, dbVars, epoch, crashes>>

Syncs    == 1..MaxSyncs
Empty    == MaxSyncs + 1        \* no rows
Steps    == {"clear", "items", "links", "prices", "publish"}
Ended    == {"ok", "failed"}
Commits  == 4 * MaxSyncs        \* at most four per sync

SyncTypeOK ==
  /\ lockFile \in BOOLEAN /\ flagFile \in BOOLEAN
  /\ mode \in [Workers -> BOOLEAN]
  /\ trigger \in [Workers -> BOOLEAN]
  /\ loop \in [Workers -> {"top", "idle", "syncing", "pause", "down"}]
  /\ runs \in [Workers -> 0..MaxSyncs]
  /\ job \in [Syncs -> {"none"} \cup Steps \cup Ended]
  /\ started \in 0..MaxSyncs
  /\ items \in 0..Empty /\ links \in 0..Empty
  /\ writes \in 0..Commits
  /\ epoch \in 0..MaxSyncs
  /\ crashes \in 0..MaxCrashes

(* All workers come up together; hyperactive.lock survives a restart.      *)
SyncInit ==
  /\ lockFile \in BOOLEAN /\ flagFile = FALSE
  /\ mode = [w \in Workers |-> lockFile]
  /\ trigger = [w \in Workers |-> FALSE]
  /\ loop = [w \in Workers |-> "top"]
  /\ runs = [w \in Workers |-> 0]
  /\ job = [j \in Syncs |-> "none"] /\ started = 0
  /\ items = 0 /\ links = 0 /\ writes = 0 /\ epoch = 0
  /\ crashes = 0

Up(w) == loop[w] # "down"

IsSyncRunning(w) == runs[w] # 0 \/ flagFile

--------------------------------------------------------------------------------
(* The workers.                                                            *)

(* Mutant: the loop is not woken.                                          *)
AdminSetSilently(w, enabled) ==
  /\ Up(w)
  /\ mode' = [mode EXCEPT ![w] = enabled]
  /\ lockFile' = enabled
  /\ UNCHANGED <<flagFile, trigger, loop, runs, job, started, dbVars, epoch, crashes>>

(* POST /admin/hyperactive-mode, handled by whichever worker gets it.      *)
AdminSet(w, enabled) ==
  /\ Up(w)
  /\ mode' = [mode EXCEPT ![w] = enabled]
  /\ lockFile' = enabled
  /\ trigger' = [trigger EXCEPT ![w] = TRUE]
  /\ UNCHANGED <<flagFile, loop, runs, job, started, dbVars, epoch, crashes>>

(* The top of the loop with the mode off: wait for the trigger.            *)
Idle(w) ==
  /\ loop[w] = "top" /\ ~mode[w]
  /\ loop' = [loop EXCEPT ![w] = "idle"]
  /\ UNCHANGED <<lockFile, flagFile, mode, trigger, runs, job, started, dbVars, epoch,
                 crashes>>

(* The top of the loop with the mode on: the first half of _run_sync_once. *)
(* The file is written, never looked at.                                   *)
StartSync(w) ==
  /\ loop[w] = "top" /\ mode[w] /\ started < MaxSyncs
  /\ flagFile' = TRUE
  /\ started' = started + 1
  /\ runs' = [runs EXCEPT ![w] = started']
  /\ job' = [job EXCEPT ![started'] = "clear"]
  /\ loop' = [loop EXCEPT ![w] = "syncing"]
  /\ UNCHANGED <<lockFile, mode, trigger, dbVars, epoch, crashes>>

(* The subprocess returned: the finally block removes the file, whoever    *)
(* wrote it.  (A worker that succeeded also clears its caches.)            *)
SyncReturns(w) ==
  /\ loop[w] = "syncing" /\ job[runs[w]] \in Ended
  /\ flagFile' = FALSE
  /\ runs' = [runs EXCEPT ![w] = 0]
  /\ loop' = [loop EXCEPT ![w] = "pause"]
  /\ UNCHANGED <<lockFile, mode, trigger, job, started, dbVars, epoch, crashes>>

(* sync_trigger.wait() returns, and the trigger is cleared.                *)
Triggered(w) ==
  /\ loop[w] \in {"idle", "pause"} /\ trigger[w]
  /\ trigger' = [trigger EXCEPT ![w] = FALSE]
  /\ loop' = [loop EXCEPT ![w] = "top"]
  /\ UNCHANGED <<lockFile, flagFile, mode, runs, job, started, dbVars, epoch, crashes>>

(* The half hour is over.                                                  *)
IntervalEnds(w) ==
  /\ loop[w] = "pause" /\ ~trigger[w]
  /\ loop' = [loop EXCEPT ![w] = "top"]
  /\ UNCHANGED <<lockFile, flagFile, mode, trigger, runs, job, started, dbVars, epoch,
                 crashes>>

(* A worker is killed; the subprocess it waits for goes on by itself.      *)
Crash(w) ==
  /\ Up(w) /\ crashes < MaxCrashes
  /\ crashes' = crashes + 1
  /\ loop' = [loop EXCEPT ![w] = "down"]
  /\ runs' = [runs EXCEPT ![w] = 0]
  /\ UNCHANGED <<lockFile, flagFile, mode, trigger, job, started, dbVars, epoch>>

(* The master starts a new one: the mode is what the file says, and        *)
(* start_background_sync removes a sync_in_progress.lock it finds.         *)
Restart(w) ==
  /\ loop[w] = "down"
  /\ mode' = [mode EXCEPT ![w] = lockFile]
  /\ trigger' = [trigger EXCEPT ![w] = FALSE]
  /\ flagFile' = FALSE
  /\ loop' = [loop EXCEPT ![w] = "top"]
  /\ UNCHANGED <<lockFile, runs, job, started, dbVars, epoch, crashes>>

--------------------------------------------------------------------------------
(* The subprocess: sync_items, commit by commit.  Rows are inserted with   *)
(* their upstream ids, so a table that is not empty refuses them.          *)

Then(j, next) == job' = [job EXCEPT ![j] = next]
Commit        == writes' = writes + 1
InSync        == <<lockFile, flagFile, workerVars, started, crashes>>

(* Mutant: the two deletes are committed one by one.                       *)
ClearTablesTwice(j) ==
  /\ job[j] = "clear"
  /\ items' = Empty /\ links' = Empty /\ writes' = writes + 2
  /\ Then(j, "items")
  /\ UNCHANGED <<InSync, epoch>>

(* One transaction empties them all.                                      *)
ClearTables(j) ==
  /\ job[j] = "clear"
  /\ items' = Empty /\ links' = Empty /\ Commit
  /\ Then(j, "items")
  /\ UNCHANGED <<InSync, epoch>>

FillItems(j) ==
  /\ job[j] = "items" /\ items = Empty
  /\ items' = j /\ Commit
  /\ Then(j, "links")
  /\ UNCHANGED <<InSync, links, epoch>>

FillLinks(j) ==
  /\ job[j] = "links" /\ links = Empty
  /\ links' = j /\ Commit
  /\ Then(j, "prices")
  /\ UNCHANGED <<InSync, items, epoch>>

(* Traders, prices and the hidden stats: the rows stay, their columns do   *)
(* not.                                                                    *)
UpdatePrices(j) ==
  /\ job[j] = "prices"
  /\ Commit
  /\ Then(j, "publish")
  /\ UNCHANGED <<InSync, items, links, epoch>>

(* Mutant: a token that is the same each time.                             *)
PublishSameToken(j) ==
  /\ job[j] = "publish"
  /\ epoch' = 1
  /\ Then(j, "ok")
  /\ UNCHANGED <<InSync, dbVars>>

(* bump_solver_cache_epoch: os.replace of a file with a fresh token.       *)
Publish(j) ==
  /\ job[j] = "publish"
  /\ epoch' = j
  /\ Then(j, "ok")
  /\ UNCHANGED <<InSync, dbVars>>

(* No answer from tarkov.dev, a duplicate key, a locked database, or the   *)
(* 600 seconds are over.                                                   *)
JobFails(j) ==
  /\ job[j] \in Steps
  /\ Then(j, "failed")
  /\ UNCHANGED <<InSync, dbVars, epoch>>

JobStep(j) ==
  \/ ClearTables(j) \/ FillItems(j) \/ FillLinks(j) \/ UpdatePrices(j) \/ Publish(j)
  \/ JobFails(j)

LoopStep(w) ==
  Idle(w) \/ StartSync(w) \/ SyncReturns(w) \/ Triggered(w) \/ IntervalEnds(w) \/ Restart(w)

SyncNext ==
  \/ \E w \in Workers : \/ LoopStep(w) \/ Crash(w)
                        \/ \E enabled \in BOOLEAN : AdminSet(w, enabled)
  \/ \E j \in Syncs : JobStep(j)

SyncSpec == SyncInit /\ [][SyncNext]_syncVars

(* The event loops run, the subprocesses end (they are killed after 600    *)
(* seconds) and the master restarts workers.                               *)
SyncFairness ==
  /\ \A w \in Workers : WF_syncVars(LoopStep(w))
  /\ \A j \in Syncs : WF_syncVars(JobStep(j))

SyncFairSpec == SyncSpec /\ SyncFairness

--------------------------------------------------------------------------------
(* Properties.                                                             *)

(* Over all overlaps, failures and orphans of syncs, the database and the  *)
(* epoch file behave as CatalogData: no commit without a new mtime, no     *)
(* generation twice.                                                       *)
Data == INSTANCE CatalogData WITH Tokens <- Syncs, used <- {j \in Syncs : job[j] = "ok"}
RefinesCatalogData == Data!DataSpec

(* is_sync_running: "True while this worker or any other one is running a  *)
(* sync."                                                                  *)
FlagCoversEverySync ==
  \A w, v \in Workers : Up(w) /\ runs[v] # 0 => IsSyncRunning(w)

(* No wake-up is lost: a worker that was switched on starts a sync, unless *)
(* it is switched off or killed before (or the model is out of syncs).     *)
SwitchedOnSyncs ==
  \A w \in Workers :
    mode[w] ~> (runs[w] # 0 \/ ~mode[w] \/ ~Up(w) \/ started = MaxSyncs)
================================================================================
