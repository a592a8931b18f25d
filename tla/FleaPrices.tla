------------------------------ MODULE FleaPrices ------------------------------
(* The flea market prices of the client: the memoized downloads of         *)
(* modules/api.js, the caches of modules/stats-panel.js filled by calls    *)
(* that may outlive a refetch, and the copy in localStorage.               *)
(*                                                                         *)
(* A refetch begins an epoch.  The caches of a mode hold the epoch in      *)
(* which the download they were filled from began, or 0 while they are     *)
(* empty: the ids a call asks for are the same for every call.             *)
EXTENDS Naturals, Sequences, FiniteSets

CONSTANTS Modes, MaxEpoch, MaxDownloads, MaxCalls   \* the Max bound what is tried
ASSUME FleaConstants == {MaxEpoch, MaxDownloads, MaxCalls} \subseteq Nat

VARIABLES
  fpEpoch,      \* refetches begun, from 1
  fpMode,       \* state.priceMode
  fpMemo,       \* _fleaMapPromises: the download of each mode, or 0
  fpDownloads,  \* every download: its mode, epoch and status
  fpPrices,     \* fleaCachePvp, fleaCachePve, fleaCacheSeasonal
  fpLevels,     \* fleaMinLevelPvp, ...
  fpMarked,     \* _fleaLevelsLoaded
  fpPromise,    \* _fleaLevelPromises: the download waited for, or 0
  fpCalls,      \* the calls of ensureFleaPrices under way
  fpFetching,   \* _fleaFetching
  fpStamp,      \* fleaLastFetched: the epoch stamped, or 0
  fpStored,     \* localStorage
  fpHollow      \* ghost: modes marked by restoring a level map never filled

fpVars == <<fpEpoch, fpMode, fpMemo, fpDownloads, fpPrices, fpLevels, fpMarked,
            fpPromise, fpCalls, fpFetching, fpStamp, fpStored, fpHollow>>

NoneYet == [m \in Modes |-> 0]
NothingStored == [prices |-> NoneYet, levels |-> NoneYet, saved |-> FALSE, stamp |-> 0]

FleaInit ==
  /\ fpEpoch = 1 /\ fpMode \in Modes /\ fpMemo = NoneYet /\ fpDownloads = <<>>
  /\ fpPrices = NoneYet /\ fpLevels = NoneYet /\ fpMarked = {} /\ fpPromise = NoneYet
  /\ fpCalls = {} /\ fpFetching = FALSE /\ fpStamp = 0 /\ fpStored = NothingStored
  /\ fpHollow = {}

-------------------------------------------------------------------------------
(* _loadFleaMap: the memoized download of a mode, or a new one.            *)
Memoized(mode) ==
  IF fpMemo[mode] # 0 THEN fpMemo[mode] ELSE Len(fpDownloads) + 1

LoadFleaMap(mode) ==
  /\ fpMemo' = [fpMemo EXCEPT ![mode] = Memoized(mode)]
  /\ fpDownloads' = IF fpMemo[mode] # 0 THEN fpDownloads
                    ELSE Append(fpDownloads, [mode |-> mode, epoch |-> fpEpoch,
                                              status |-> "loading"])
  /\ Len(fpDownloads') <= MaxDownloads

Call(mode, stage, download, refetch) ==
  [mode |-> mode, object |-> fpEpoch, stage |-> stage,
   download |-> download, refetch |-> refetch, filled |-> FALSE]

(* _saveFleaCache. *)
Save(prices, levels, stamp) ==
  fpStored' = [prices |-> prices, levels |-> levels, saved |-> TRUE, stamp |-> stamp]

(* The end of ensureFleaPrices: true for refetchFleaPrices, which stamps.  *)
Finish(call, prices, levels, added) ==
  /\ fpStamp' = IF call.refetch THEN fpEpoch ELSE fpStamp
  /\ IF call.filled \/ added \/ call.refetch THEN Save(prices, levels, fpStamp')
     ELSE UNCHANGED fpStored
  /\ fpFetching' = (fpFetching /\ ~call.refetch)

(* _ensureFleaLevels over the calls left: marked modes are complete,       *)
(* others wait for the one request under way or begin it.                  *)
EnsureLevels(call, calls, prices) ==
  IF call.mode \in fpMarked
  THEN /\ fpCalls' = calls
       /\ Finish(call, prices, fpLevels, FALSE)
       /\ UNCHANGED <<fpMemo, fpDownloads, fpPromise>>
  ELSE /\ IF fpPromise[call.mode] # 0 THEN UNCHANGED <<fpMemo, fpDownloads, fpPromise>>
          ELSE /\ LoadFleaMap(call.mode)
               /\ fpPromise' = [fpPromise EXCEPT ![call.mode] = Memoized(call.mode)]
       /\ fpCalls' = calls \cup
            {[call EXCEPT !.stage = "levels", !.download = fpPromise'[call.mode]]}
       /\ UNCHANGED <<fpStamp, fpStored, fpFetching>>

(* ensureFleaPrices of all ids or, with all = FALSE, of none.              *)
Ensure(mode, all, refetch, calls) ==
  /\ IF all /\ fpPrices[mode] = 0
     THEN /\ LoadFleaMap(mode)
          /\ fpCalls' = calls \cup {Call(mode, "prices", Memoized(mode), refetch)}
          /\ UNCHANGED <<fpPromise, fpStamp, fpStored, fpFetching>>
     ELSE EnsureLevels(Call(mode, "levels", 0, refetch), calls, fpPrices)
  /\ Cardinality(fpCalls') <= MaxCalls
  /\ UNCHANGED <<fpEpoch, fpPrices, fpLevels, fpMarked, fpHollow>>

(* A slot is opened, the prices are drawn, or the page was loaded.         *)
AskPrices == Ensure(fpMode, TRUE, FALSE, fpCalls) /\ UNCHANGED fpMode

(* The mode is changed, then loadFleaPricesForActiveMode.                  *)
SwitchPriceMode ==
  \E mode \in Modes \ {fpMode} :
    /\ fpMode' = mode
    /\ Ensure(mode, \E m \in Modes : fpPrices[m] # 0, FALSE, fpCalls)

(* refetchFleaPrices: every cache is replaced, the memos and the stored    *)
(* copies go, and the ids are asked for.                                   *)
Refetch ==
  /\ ~fpFetching /\ fpEpoch < MaxEpoch
  /\ fpFetching' = TRUE
  /\ fpEpoch' = fpEpoch + 1
  /\ fpPrices' = NoneYet /\ fpLevels' = NoneYet /\ fpMarked' = {} /\ fpMemo' = NoneYet
  /\ fpStamp' = 0 /\ fpStored' = NothingStored /\ fpHollow' = {}
  /\ fpCalls' = fpCalls \cup {Call(fpMode, "ids", 0, TRUE)}
  /\ UNCHANGED <<fpMode, fpDownloads, fpPromise>>

IdsArrive ==
  \E call \in fpCalls :
    /\ call.stage = "ids"
    /\ \/ Ensure(fpMode, TRUE, TRUE, fpCalls \ {call}) /\ UNCHANGED fpMode
       \/ /\ fpCalls' = fpCalls \ {call} /\ fpFetching' = FALSE
          /\ UNCHANGED <<fpEpoch, fpMode, fpMemo, fpDownloads, fpPrices, fpLevels,
                         fpMarked, fpPromise, fpStamp, fpStored, fpHollow>>

(* A download ends.  A failed one takes its mode's memo away, whichever    *)
(* download that is; either way the level request it served is over.       *)
DownloadEnds ==
  \E d \in DOMAIN fpDownloads, ok \in BOOLEAN :
    /\ fpDownloads[d].status = "loading"
    /\ fpDownloads' = [fpDownloads EXCEPT ![d].status = IF ok THEN "loaded" ELSE "failed"]
    /\ fpMemo' = IF ok THEN fpMemo ELSE [fpMemo EXCEPT ![fpDownloads[d].mode] = 0]
    /\ fpPromise' = [m \in Modes |-> IF fpPromise[m] = d THEN 0 ELSE fpPromise[m]]
    /\ UNCHANGED <<fpEpoch, fpMode, fpPrices, fpLevels, fpMarked, fpCalls, fpFetching,
                   fpStamp, fpStored, fpHollow>>

Status(call) ==
  IF call.download = 0 THEN "loading" ELSE fpDownloads[call.download].status

(* Mutant: the answer goes into the cache of its mode, whichever that is.  *)
PricesGoAnywhere ==
  \E call \in fpCalls :
    /\ call.stage = "prices" /\ Status(call) = "loaded"
    /\ fpPrices' = [fpPrices EXCEPT ![call.mode] = fpDownloads[call.download].epoch]
    /\ EnsureLevels([call EXCEPT !.filled = TRUE], fpCalls \ {call}, fpPrices')
    /\ UNCHANGED <<fpEpoch, fpMode, fpLevels, fpMarked, fpHollow>>

(* The awaited prices go into the cache object the call began with.        *)
PricesArrive ==
  \E call \in fpCalls :
    /\ call.stage = "prices" /\ Status(call) = "loaded"
    /\ fpPrices' = IF call.object # fpEpoch THEN fpPrices
                   ELSE [fpPrices EXCEPT ![call.mode] = fpDownloads[call.download].epoch]
    /\ EnsureLevels([call EXCEPT !.filled = TRUE], fpCalls \ {call}, fpPrices')
    /\ UNCHANGED <<fpEpoch, fpMode, fpLevels, fpMarked, fpHollow>>

(* The awaited levels go into the map of the mode, whichever that is now,  *)
(* unless another call already stored them.                                *)
LevelsArrive ==
  \E call \in fpCalls :
    /\ call.stage = "levels" /\ Status(call) = "loaded"
    /\ LET added == call.mode \notin fpMarked
           levels == IF ~added THEN fpLevels
                     ELSE [fpLevels EXCEPT ![call.mode] = fpDownloads[call.download].epoch]
       IN /\ fpLevels' = levels
          /\ fpMarked' = fpMarked \cup {call.mode}
          /\ Finish(call, fpPrices, levels, added)
    /\ fpCalls' = fpCalls \ {call}
    /\ UNCHANGED <<fpEpoch, fpMode, fpMemo, fpDownloads, fpPrices, fpPromise, fpHollow>>

CallFails ==
  \E call \in fpCalls :
    /\ Status(call) = "failed"
    /\ fpCalls' = fpCalls \ {call}
    /\ fpFetching' = (fpFetching /\ ~call.refetch)
    /\ UNCHANGED <<fpEpoch, fpMode, fpMemo, fpDownloads, fpPrices, fpLevels, fpMarked,
                   fpPromise, fpStamp, fpStored, fpHollow>>

(* The page is loaded again: restoreFleaCache.  Every saved level map      *)
(* marks its mode, the ones saved before they were downloaded too.         *)
ReloadPrices ==
  /\ fpPrices' = fpStored.prices /\ fpLevels' = fpStored.levels
  /\ fpMarked' = IF fpStored.saved THEN Modes ELSE {}
  /\ fpHollow' = {m \in fpMarked' : fpStored.levels[m] = 0}
  /\ fpStamp' = fpStored.stamp
  /\ fpMemo' = NoneYet /\ fpPromise' = NoneYet /\ fpCalls' = {} /\ fpFetching' = FALSE
  /\ UNCHANGED <<fpEpoch, fpMode, fpDownloads, fpStored>>

FleaNext ==
  \/ AskPrices \/ SwitchPriceMode \/ Refetch \/ IdsArrive \/ DownloadEnds
  \/ PricesArrive \/ LevelsArrive \/ CallFails \/ ReloadPrices

-------------------------------------------------------------------------------
(* No price shown or stored was asked for before the last refetch, however *)
(* long a call begun before it takes, and so none is older than the stamp  *)
(* that decides when they are fetched again.                               *)
PricesAreOfThisRefetch ==
  \A m \in Modes :
    /\ fpPrices[m] \in {0, fpEpoch}
    /\ fpStored.prices[m] \in {0, fpEpoch}
    /\ fpStamp \in {0, fpEpoch}

(* A mode marked as having its levels has them, so no item that needs a    *)
(* higher account level reads as unlocked.  Excepted are the modes marked  *)
(* from a map saved before it was ever downloaded.                         *)
MarkedLevelsAreLoaded == \A m \in fpMarked : fpLevels[m] # 0 \/ m \in fpHollow

(* What the flea cache says of prices and of levels.                       *)
FleaPricesAreRight == PricesAreOfThisRefetch /\ MarkedLevelsAreLoaded
===============================================================================
