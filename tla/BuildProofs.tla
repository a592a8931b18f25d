------------------------------ MODULE BuildProofs ------------------------------
(***************************************************************************)
(* Proofs about the panels of a build: flea prices, the cost overview, the *)
(* build's statistics, the 3D view, the slot selector, the saved builds,   *)
(* the strip of tabs with its preview, the picture of the build, and its   *)
(* slots, as a grid and as a tree.                                         *)
(***************************************************************************)
EXTENDS FleaPrices, BuildCost, StatsPanel, Builder3D, SlotTable, SavedBuilds, TabPreview,
        BuildPreview, GridLayout, TreeRender, DataLemmas, SequenceTheorems

--------------------------------------------------------------------------------
(* FleaPrices, for every set of modes and however many refetches,          *)
(* downloads and calls overlap.                                            *)

FleaSpec == FleaInit /\ [][FleaNext]_fpVars

--------------------------------------------------------------------------------
(* The invariant.                                                          *)

Epochs    == Nat \ {0}
FleaDownload  == [mode : Modes, epoch : Epochs, status : {"loading", "loaded", "failed"}]
CallOfOne == [mode : Modes, object : Nat, stage : {"ids", "prices", "levels"},
              download : Nat, refetch : BOOLEAN, filled : BOOLEAN]
StoredCopy      == [prices : [Modes -> Nat], levels : [Modes -> Nat], saved : BOOLEAN, stamp : Nat]

FleaTypes ==
  /\ fpEpoch \in Epochs /\ fpMode \in Modes
  /\ fpMemo \in [Modes -> Nat] /\ fpPromise \in [Modes -> Nat]
  /\ fpPrices \in [Modes -> Nat] /\ fpLevels \in [Modes -> Nat]
  /\ fpDownloads \in Seq(FleaDownload)
  /\ fpCalls \subseteq CallOfOne
  /\ fpStamp \in Nat /\ fpStored \in StoredCopy

(* A memo is of this refetch; what is waited for was begun.                *)
MemosAreNew ==
  \A m \in Modes :
    /\ fpMemo[m] # 0 => /\ fpMemo[m] \in DOMAIN fpDownloads
                        /\ fpDownloads[fpMemo[m]].epoch = fpEpoch
    /\ fpPromise[m] # 0 => fpPromise[m] \in DOMAIN fpDownloads

(* A call for prices waits for a download of the refetch it began in.      *)
CallWaits(c, downloads) ==
  /\ c.download # 0 => c.download \in DOMAIN downloads
  /\ c.stage = "prices" => c.download # 0 /\ downloads[c.download].epoch = c.object

CallsWait == \A c \in fpCalls : CallWaits(c, fpDownloads)

StampsAreNew == fpStored.stamp \in {0, fpEpoch}

FleaInv ==
  FleaTypes /\ MemosAreNew /\ CallsWait /\ StampsAreNew /\ FleaPricesAreRight

(* The page starts with the prices it stored, or with none.                 *)
LEMMA FleaInitInv == FleaInit => FleaInv
  <1> SUFFICES ASSUME FleaInit PROVE FleaInv
    OBVIOUS
  <1>1. NoneYet \in [Modes -> Nat] /\ \A m \in Modes : NoneYet[m] = 0
    BY DEF NoneYet
  <1>2. NothingStored \in StoredCopy /\ NothingStored.prices = NoneYet /\ NothingStored.stamp = 0
    BY <1>1 DEF NothingStored, StoredCopy
  <1>3. <<>> \in Seq(FleaDownload)
    OBVIOUS
  <1>4. FleaTypes
    BY <1>1, <1>2, <1>3 DEF FleaInit, FleaTypes, Epochs
  <1>5. MemosAreNew /\ CallsWait /\ StampsAreNew
    BY <1>1, <1>2 DEF FleaInit, MemosAreNew, CallsWait, StampsAreNew
  <1>6. FleaPricesAreRight
    BY <1>1, <1>2 DEF FleaInit, FleaPricesAreRight, PricesAreOfThisRefetch,
       MarkedLevelsAreLoaded
  <1>7. QED  BY <1>4, <1>5, <1>6 DEF FleaInv

--------------------------------------------------------------------------------
(* Downloads are only ever added and keep their epoch, so a call that      *)
(* waits goes on waiting for the same.                                     *)

PricesKept(before, after) ==
  /\ DOMAIN before \subseteq DOMAIN after
  /\ \A d \in DOMAIN before : after[d].epoch = before[d].epoch

(* A call that waits for a download goes on waiting when downloads are      *)
(* added.                                                                   *)
LEMMA WaitsOn ==
  ASSUME NEW before, NEW after, PricesKept(before, after), NEW c, CallWaits(c, before)
  PROVE  CallWaits(c, after)
  BY DEF PricesKept, CallWaits

LEMMA KeptAsItIs ==
  ASSUME NEW s PROVE PricesKept(s, s)
  BY DEF PricesKept

(* A download that is added is at the end.                                  *)
LEMMA AppendKeeps ==
  ASSUME NEW S, NEW s \in Seq(S), NEW e \in S
  PROVE  /\ Append(s, e) \in Seq(S) /\ PricesKept(s, Append(s, e))
         /\ Len(s) + 1 \in DOMAIN Append(s, e) /\ Append(s, e)[Len(s) + 1] = e
         /\ Len(s) + 1 \in Nat \ {0}
  <1>1. Len(s) \in Nat /\ DOMAIN s = 1..Len(s) /\ Len(Append(s, e)) = Len(s) + 1
    OBVIOUS
  <1>2. Append(s, e) \in Seq(S) /\ DOMAIN Append(s, e) = 1..(Len(s) + 1)
    BY <1>1
  <1>3. \A d \in DOMAIN s : Append(s, e)[d] = s[d]
    BY <1>1
  <1>4. Append(s, e)[Len(s) + 1] = e
    BY <1>1
  <1>5. QED  BY <1>1, <1>2, <1>3, <1>4 DEF PricesKept

(* _loadFleaMap: the download of a mode is the one that is memoized, of     *)
(* these prices, whether it is new or was out before.                       *)
LEMMA MapLoads ==
  ASSUME FleaInv, NEW mode \in Modes, LoadFleaMap(mode)
  PROVE  /\ fpDownloads' \in Seq(FleaDownload) /\ PricesKept(fpDownloads, fpDownloads')
         /\ Memoized(mode) \in Nat \ {0} /\ Memoized(mode) \in DOMAIN fpDownloads'
         /\ fpDownloads'[Memoized(mode)].epoch = fpEpoch
         /\ fpMemo' = [fpMemo EXCEPT ![mode] = Memoized(mode)]
  <1> USE DEF FleaInv
  <1> DEFINE new == [mode |-> mode, epoch |-> fpEpoch, status |-> "loading"]
  <1>1. fpMemo' = [fpMemo EXCEPT ![mode] = Memoized(mode)]
    BY DEF LoadFleaMap
  <1>2. CASE fpMemo[mode] # 0
    <2>1. Memoized(mode) = fpMemo[mode] /\ fpDownloads' = fpDownloads
      BY <1>2 DEF LoadFleaMap, Memoized
    <2>2. fpMemo[mode] \in Nat \ {0} /\ fpMemo[mode] \in DOMAIN fpDownloads
          /\ fpDownloads[fpMemo[mode]].epoch = fpEpoch
      BY <1>2 DEF FleaTypes, MemosAreNew
    <2>3. QED  BY <1>1, <2>1, <2>2, KeptAsItIs DEF FleaTypes
  <1>3. CASE fpMemo[mode] = 0
    <2>1. Memoized(mode) = Len(fpDownloads) + 1 /\ fpDownloads' = Append(fpDownloads, new)
      BY <1>3 DEF LoadFleaMap, Memoized
    <2>2. new \in FleaDownload /\ new.epoch = fpEpoch /\ fpDownloads \in Seq(FleaDownload)
      BY DEF FleaTypes, FleaDownload
    <2>3. /\ Append(fpDownloads, new) \in Seq(FleaDownload)
          /\ PricesKept(fpDownloads, Append(fpDownloads, new))
          /\ Len(fpDownloads) + 1 \in DOMAIN Append(fpDownloads, new)
          /\ Append(fpDownloads, new)[Len(fpDownloads) + 1] = new
          /\ Len(fpDownloads) + 1 \in Nat \ {0}
      BY <2>2, AppendKeeps
    <2>4. QED  BY <1>1, <2>1, <2>2, <2>3
  <1>4. QED  BY <1>2, <1>3

(* The memo of a mode never leads to a download of earlier prices.          *)
LEMMA MemosStayNew ==
  ASSUME FleaInv, NEW mode \in Modes, LoadFleaMap(mode), fpEpoch' = fpEpoch,
         \/ fpPromise' = fpPromise
         \/ fpPromise' = [fpPromise EXCEPT ![mode] = Memoized(mode)]
  PROVE  /\ MemosAreNew' /\ fpMemo' \in [Modes -> Nat] /\ fpPromise' \in [Modes -> Nat]
  <1> USE DEF FleaInv
  <1>1. /\ PricesKept(fpDownloads, fpDownloads')
        /\ Memoized(mode) \in Nat \ {0} /\ Memoized(mode) \in DOMAIN fpDownloads'
        /\ fpDownloads'[Memoized(mode)].epoch = fpEpoch
        /\ fpMemo' = [fpMemo EXCEPT ![mode] = Memoized(mode)]
    BY MapLoads
  <1>2. fpMemo' \in [Modes -> Nat] /\ fpPromise' \in [Modes -> Nat]
    BY <1>1 DEF FleaTypes
  <1>3. ASSUME NEW m \in Modes
        PROVE  /\ fpMemo'[m] # 0 => /\ fpMemo'[m] \in DOMAIN fpDownloads'
                                    /\ fpDownloads'[fpMemo'[m]].epoch = fpEpoch
               /\ fpPromise'[m] # 0 => fpPromise'[m] \in DOMAIN fpDownloads'
    <2>1. fpMemo'[m] = IF m = mode THEN Memoized(mode) ELSE fpMemo[m]
      BY <1>1 DEF FleaTypes
    <2>2. fpPromise'[m] = fpPromise[m] \/ fpPromise'[m] = Memoized(mode)
      BY DEF FleaTypes
    <2>3. QED  BY <1>1, <2>1, <2>2 DEF MemosAreNew, PricesKept
  <1>4. QED  BY <1>2, <1>3 DEF MemosAreNew

--------------------------------------------------------------------------------
(* What calls do.                                                          *)

NewPrices(prices) == \A m \in Modes : prices[m] \in {0, fpEpoch}

StoredIsNew ==
  /\ fpStamp \in {0, fpEpoch} /\ fpStored \in StoredCopy
  /\ fpStored.stamp \in {0, fpEpoch} /\ NewPrices(fpStored.prices)

DownloadsAreRight ==
  /\ fpDownloads \in Seq(FleaDownload)
  /\ fpMemo \in [Modes -> Nat] /\ fpPromise \in [Modes -> Nat]
  /\ MemosAreNew
  /\ fpCalls \subseteq CallOfOne /\ CallsWait

(* The invariant by what an action may disturb.                            *)
FleaParts ==
  /\ fpEpoch \in Epochs /\ fpMode \in Modes
  /\ fpPrices \in [Modes -> Nat] /\ fpLevels \in [Modes -> Nat]
  /\ DownloadsAreRight /\ StoredIsNew
  /\ NewPrices(fpPrices) /\ MarkedLevelsAreLoaded

(* The invariant, cut into the parts a step may disturb.                    *)
LEMMA FleaInvIsParts == FleaInv <=> FleaParts
  <1>1. fpEpoch \in Epochs => (fpStamp \in {0, fpEpoch} => fpStamp \in Nat)
    BY DEF Epochs
  <1>2. fpMode \in Modes =>
          (PricesAreOfThisRefetch <=>
             NewPrices(fpPrices) /\ NewPrices(fpStored.prices) /\ fpStamp \in {0, fpEpoch})
    BY DEF PricesAreOfThisRefetch, NewPrices
  <1>3. QED
    BY <1>1, <1>2 DEF FleaInv, FleaTypes, DownloadsAreRight, StoredIsNew, StampsAreNew,
       FleaPricesAreRight, FleaParts

(* The same, now and after a step.                                          *)
LEMMA FleaInvParts == (FleaInv <=> FleaParts) /\ (FleaInv' <=> FleaParts')
  BY FleaInvIsParts, PTL

(* A call that ends stores prices that are new.                             *)
LEMMA CallEnds ==
  ASSUME FleaInv, fpEpoch' = fpEpoch, NEW call \in CallOfOne, NEW added,
         NEW prices \in [Modes -> Nat], NewPrices(prices), NEW levels \in [Modes -> Nat],
         Finish(call, prices, levels, added)
  PROVE  StoredIsNew'
  <1>1. fpEpoch \in Nat /\ StoredIsNew
    BY FleaInvParts DEF FleaParts, Epochs
  <1>2. fpStamp' \in {0, fpEpoch}
    BY <1>1 DEF Finish, StoredIsNew
  <1>3. CASE fpStored' = fpStored
    BY <1>1, <1>2, <1>3 DEF StoredIsNew, NewPrices
  <1>4. CASE Save(prices, levels, fpStamp')
    <2>1. /\ fpStored' = [prices |-> prices, levels |-> levels, saved |-> TRUE,
                          stamp |-> fpStamp']
      BY <1>4 DEF Save
    <2>2. fpStored' \in StoredCopy
      BY <1>1, <1>2, <2>1 DEF StoredCopy
    <2>3. fpStored'.stamp = fpStamp' /\ fpStored'.prices = prices
      BY <2>1
    <2>4. QED  BY <1>2, <2>2, <2>3 DEF StoredIsNew, NewPrices
  <1>5. QED  BY <1>3, <1>4 DEF Finish

(* Calls go on over a step that adds downloads and at most one call.        *)
LEMMA CallsGoOn ==
  ASSUME FleaInv, PricesKept(fpDownloads, fpDownloads'), NEW calls \in SUBSET fpCalls,
         NEW call \in CallOfOne, CallWaits(call, fpDownloads'),
         fpCalls' = calls \/ fpCalls' = calls \cup {call}
  PROVE  fpCalls' \subseteq CallOfOne /\ CallsWait'
  <1>1. \A c \in fpCalls : c \in CallOfOne /\ CallWaits(c, fpDownloads)
    BY DEF FleaInv, FleaTypes, CallsWait
  <1>2. \A c \in fpCalls : CallWaits(c, fpDownloads')
    BY <1>1, WaitsOn
  <1>3. QED  BY <1>1, <1>2 DEF CallsWait

(* The levels: the call ends, or waits for a download that was begun.      *)
LEMMA LevelsEnsured ==
  ASSUME FleaInv, fpEpoch' = fpEpoch, NEW call \in CallOfOne, CallWaits(call, fpDownloads),
         NEW calls \in SUBSET fpCalls, NEW prices \in [Modes -> Nat], NewPrices(prices),
         EnsureLevels(call, calls, prices)
  PROVE  DownloadsAreRight' /\ StoredIsNew'
  <1>0. /\ DownloadsAreRight /\ StoredIsNew /\ fpLevels \in [Modes -> Nat]
        /\ call.mode \in Modes
    BY FleaInvParts DEF FleaParts, CallOfOne
  <1>1. CASE call.mode \in fpMarked
    <2>1. /\ fpCalls' = calls /\ Finish(call, prices, fpLevels, FALSE)
          /\ UNCHANGED <<fpMemo, fpDownloads, fpPromise>>
      BY <1>1 DEF EnsureLevels
    <2>2. StoredIsNew'
      BY <1>0, <2>1, CallEnds
    <2>3. fpCalls' \subseteq CallOfOne /\ CallsWait'
      BY <2>1, KeptAsItIs, CallsGoOn
    <2>4. MemosAreNew'
      BY <2>1 DEF FleaInv, MemosAreNew
    <2>5. QED  BY <1>0, <2>1, <2>2, <2>3, <2>4 DEF DownloadsAreRight
  <1>2. CASE call.mode \notin fpMarked
    <2> DEFINE to == [call EXCEPT !.stage = "levels", !.download = fpPromise'[call.mode]]
    <2>1. /\ fpCalls' = calls \cup {to}
          /\ UNCHANGED <<fpStamp, fpStored>>
      BY <1>2 DEF EnsureLevels
    <2>2. StoredIsNew'
      BY <1>0, <2>1 DEF StoredIsNew, NewPrices
    <2>3. /\ fpDownloads' \in Seq(FleaDownload) /\ PricesKept(fpDownloads, fpDownloads')
          /\ fpMemo' \in [Modes -> Nat] /\ fpPromise' \in [Modes -> Nat] /\ MemosAreNew'
      <3>1. CASE fpPromise[call.mode] # 0
        <4>1. UNCHANGED <<fpMemo, fpDownloads, fpPromise>>
          BY <1>2, <3>1 DEF EnsureLevels
        <4>2. MemosAreNew'
          BY <4>1 DEF FleaInv, MemosAreNew
        <4>3. QED  BY <1>0, <4>1, <4>2, KeptAsItIs DEF DownloadsAreRight
      <3>2. CASE fpPromise[call.mode] = 0
        <4>1. /\ LoadFleaMap(call.mode)
              /\ fpPromise' = [fpPromise EXCEPT ![call.mode] = Memoized(call.mode)]
          BY <1>2, <3>2 DEF EnsureLevels
        <4>2. QED  BY <1>0, <4>1, MapLoads, MemosStayNew
      <3>3. QED  BY <3>1, <3>2
    <2>4. fpPromise'[call.mode] \in Nat
      BY <1>0, <2>3
    <2>5. to \in CallOfOne /\ to.stage = "levels" /\ to.download = fpPromise'[call.mode]
      BY <2>4 DEF CallOfOne
    <2>6. CallWaits(to, fpDownloads')
      BY <1>0, <2>3, <2>5 DEF CallWaits, MemosAreNew
    <2>7. fpCalls' \subseteq CallOfOne /\ CallsWait'
      BY <2>1, <2>3, <2>5, <2>6, CallsGoOn
    <2>8. QED  BY <2>2, <2>3, <2>7 DEF DownloadsAreRight
  <1>3. QED  BY <1>1, <1>2

(* The prices first, unless they are there.                                *)
LEMMA CallBegins ==
  ASSUME FleaInv, NEW mode \in Modes, NEW stage \in {"ids", "prices", "levels"},
         NEW download \in Nat, NEW refetch \in BOOLEAN
  PROVE  /\ Call(mode, stage, download, refetch) \in CallOfOne
         /\ Call(mode, stage, download, refetch).stage = stage
         /\ Call(mode, stage, download, refetch).download = download
         /\ Call(mode, stage, download, refetch).object = fpEpoch
  BY FleaInvParts DEF FleaParts, Call, CallOfOne, Epochs

(* The call that a refetch starts.                                          *)
LEMMA RefetchBegins ==
  ASSUME FleaInv, fpMode \in Modes
  PROVE  /\ Call(fpMode, "ids", 0, TRUE) \in CallOfOne
         /\ Call(fpMode, "ids", 0, TRUE).stage = "ids"
         /\ Call(fpMode, "ids", 0, TRUE).download = 0
  BY FleaInvParts DEF FleaParts, Call, CallOfOne, Epochs

(* _ensurePrices: whatever is missing is asked for, and nothing else        *)
(* changes.                                                                 *)
LEMMA Ensured ==
  ASSUME FleaInv, NEW mode \in Modes, NEW all, NEW refetch \in BOOLEAN,
         NEW calls \in SUBSET fpCalls, Ensure(mode, all, refetch, calls), fpMode' \in Modes
  PROVE  FleaInv'
  <1>0. /\ UNCHANGED <<fpEpoch, fpPrices, fpLevels, fpMarked, fpHollow>>
        /\ fpEpoch \in Nat
    BY FleaInvParts DEF FleaParts, Ensure, Epochs
  <1>1. CASE all /\ fpPrices[mode] = 0
    <2> DEFINE new == Call(mode, "prices", Memoized(mode), refetch)
    <2>1. /\ LoadFleaMap(mode) /\ fpCalls' = calls \cup {new}
          /\ UNCHANGED <<fpPromise, fpStamp, fpStored>>
      BY <1>1 DEF Ensure
    <2>2. /\ fpDownloads' \in Seq(FleaDownload) /\ PricesKept(fpDownloads, fpDownloads')
          /\ Memoized(mode) \in Nat \ {0} /\ Memoized(mode) \in DOMAIN fpDownloads'
          /\ fpDownloads'[Memoized(mode)].epoch = fpEpoch
      BY <2>1, MapLoads
    <2>3. MemosAreNew' /\ fpMemo' \in [Modes -> Nat] /\ fpPromise' \in [Modes -> Nat]
      BY <1>0, <2>1, MemosStayNew
    <2>4. /\ new \in CallOfOne /\ new.stage = "prices" /\ new.object = fpEpoch
          /\ new.download = Memoized(mode)
      BY <2>2, CallBegins
    <2>5. CallWaits(new, fpDownloads')
      BY <2>2, <2>4 DEF CallWaits
    <2>6. fpCalls' \subseteq CallOfOne /\ CallsWait'
      BY <2>1, <2>2, <2>4, <2>5, CallsGoOn
    <2>7. DownloadsAreRight'
      BY <2>2, <2>3, <2>6 DEF DownloadsAreRight
    <2>8. StoredIsNew'
      BY <1>0, <2>1, FleaInvParts DEF FleaParts, StoredIsNew, NewPrices
    <2>9. QED  BY <1>0, <2>7, <2>8, FleaInvParts DEF FleaParts, NewPrices, MarkedLevelsAreLoaded
  <1>2. CASE ~(all /\ fpPrices[mode] = 0)
    <2> DEFINE new == Call(mode, "levels", 0, refetch)
    <2>1. EnsureLevels(new, calls, fpPrices)
      BY <1>2 DEF Ensure
    <2>2. new \in CallOfOne /\ new.stage = "levels" /\ new.download = 0
      BY CallBegins
    <2>3. CallWaits(new, fpDownloads)
      BY <2>2 DEF CallWaits
    <2>4. fpPrices \in [Modes -> Nat] /\ NewPrices(fpPrices)
      BY FleaInvParts DEF FleaParts
    <2>5. DownloadsAreRight' /\ StoredIsNew'
      BY <1>0, <2>1, <2>2, <2>3, <2>4, LevelsEnsured
    <2>6. QED  BY <1>0, <2>5, FleaInvParts DEF FleaParts, NewPrices, MarkedLevelsAreLoaded
  <1>3. QED  BY <1>1, <1>2

--------------------------------------------------------------------------------
(* The other steps.                                                        *)

(* Everything is replaced; calls and level requests of before remain, but  *)
(* none of them waits for what the new caches are filled from.             *)
LEMMA RefetchKeeps ==
  ASSUME FleaInv, Refetch PROVE FleaInv'
  <1>0. FleaParts /\ fpEpoch \in Nat /\ fpMode \in Modes
    BY FleaInvParts DEF FleaParts, Epochs
  <1>1. /\ fpEpoch' = fpEpoch + 1 /\ fpPrices' = NoneYet /\ fpLevels' = NoneYet
        /\ fpMarked' = {} /\ fpMemo' = NoneYet /\ fpStamp' = 0
        /\ fpStored' = NothingStored
        /\ fpCalls' = fpCalls \cup {Call(fpMode, "ids", 0, TRUE)}
        /\ UNCHANGED <<fpMode, fpDownloads, fpPromise>>
    BY DEF Refetch
  <1>2. NoneYet \in [Modes -> Nat] /\ \A m \in Modes : NoneYet[m] = 0
    BY DEF NoneYet
  <1>3. NothingStored \in StoredCopy /\ NothingStored.prices = NoneYet /\ NothingStored.stamp = 0
    BY <1>2 DEF NothingStored, StoredCopy
  <1>4. fpCalls' \subseteq CallOfOne /\ CallsWait'
    <2> DEFINE new == Call(fpMode, "ids", 0, TRUE)
    <2>1. new \in CallOfOne /\ new.stage = "ids" /\ new.download = 0
      BY <1>0, RefetchBegins
    <2>2. CallWaits(new, fpDownloads')
      BY <2>1 DEF CallWaits
    <2>3. PricesKept(fpDownloads, fpDownloads')
      BY <1>1, KeptAsItIs
    <2>4. QED  BY <1>1, <2>1, <2>2, <2>3, CallsGoOn
  <1>5. DownloadsAreRight'
    BY <1>0, <1>1, <1>2, <1>4 DEF FleaParts, DownloadsAreRight, MemosAreNew
  <1>6. StoredIsNew' /\ NewPrices(fpPrices)' /\ MarkedLevelsAreLoaded'
    BY <1>1, <1>2, <1>3 DEF StoredIsNew, NewPrices, MarkedLevelsAreLoaded
  <1>7. FleaParts'
    BY <1>0, <1>1, <1>2, <1>5, <1>6 DEF FleaParts, Epochs
  <1>8. QED  BY <1>7, FleaInvParts

(* A call that is taken away leaves the others as they were.               *)
LEMMA CallGone ==
  ASSUME FleaInv, NEW call \in fpCalls, fpCalls' = fpCalls \ {call},
         UNCHANGED <<fpMemo, fpDownloads, fpPromise, fpEpoch>>
  PROVE  DownloadsAreRight'
  <1>1. FleaParts
    BY FleaInvParts
  <1>2. QED  BY <1>1 DEF FleaParts, DownloadsAreRight, MemosAreNew, CallsWait

LEMMA IdsArriveKeeps ==
  ASSUME FleaInv, IdsArrive PROVE FleaInv'
  <1>0. FleaParts
    BY FleaInvParts
  <1>1. PICK call \in fpCalls :
          \/ Ensure(fpMode, TRUE, TRUE, fpCalls \ {call}) /\ UNCHANGED fpMode
          \/ /\ fpCalls' = fpCalls \ {call}
             /\ UNCHANGED <<fpEpoch, fpMode, fpMemo, fpDownloads, fpPrices, fpLevels,
                            fpMarked, fpPromise, fpStamp, fpStored, fpHollow>>
    BY DEF IdsArrive
  <1>2. CASE Ensure(fpMode, TRUE, TRUE, fpCalls \ {call}) /\ UNCHANGED fpMode
    BY <1>0, <1>2, Ensured DEF FleaParts
  <1>3. CASE /\ fpCalls' = fpCalls \ {call}
             /\ UNCHANGED <<fpEpoch, fpMode, fpMemo, fpDownloads, fpPrices, fpLevels,
                            fpMarked, fpPromise, fpStamp, fpStored, fpHollow>>
    <2>1. DownloadsAreRight'
      BY <1>3, CallGone
    <2>2. FleaParts'
      BY <1>0, <1>3, <2>1 DEF FleaParts, StoredIsNew, NewPrices, MarkedLevelsAreLoaded
    <2>3. QED  BY <2>2, FleaInvParts
  <1>4. QED  BY <1>1, <1>2, <1>3

LEMMA DownloadEndsKeeps ==
  ASSUME FleaInv, DownloadEnds PROVE FleaInv'
  <1>0. FleaParts /\ DownloadsAreRight
    BY FleaInvParts DEF FleaParts
  <1>1. PICK d \in DOMAIN fpDownloads, ok \in BOOLEAN :
          /\ fpDownloads' = [fpDownloads EXCEPT
                               ![d].status = IF ok THEN "loaded" ELSE "failed"]
          /\ fpMemo' = IF ok THEN fpMemo ELSE [fpMemo EXCEPT ![fpDownloads[d].mode] = 0]
          /\ fpPromise' = [m \in Modes |-> IF fpPromise[m] = d THEN 0 ELSE fpPromise[m]]
          /\ UNCHANGED <<fpEpoch, fpMode, fpPrices, fpLevels, fpMarked, fpCalls, fpFetching,
                         fpStamp, fpStored, fpHollow>>
    BY DEF DownloadEnds
  <1>2. fpDownloads \in Seq(FleaDownload) /\ fpDownloads[d] \in FleaDownload
    BY <1>0 DEF DownloadsAreRight
  <1>3. /\ fpDownloads' \in Seq(FleaDownload) /\ DOMAIN fpDownloads' = DOMAIN fpDownloads
        /\ \A i \in DOMAIN fpDownloads : fpDownloads'[i].epoch = fpDownloads[i].epoch
    <2> DEFINE end == [fpDownloads[d] EXCEPT !.status = IF ok THEN "loaded" ELSE "failed"]
    <2>1. end \in FleaDownload /\ end.epoch = fpDownloads[d].epoch
      BY <1>2 DEF FleaDownload
    <2>2. fpDownloads' = [fpDownloads EXCEPT ![d] = end]
      BY <1>1
    <2>3. QED  BY <1>2, <2>1, <2>2
  <1>4. fpMemo' \in [Modes -> Nat] /\ \A m \in Modes : fpMemo'[m] \in {0, fpMemo[m]}
    BY <1>0, <1>1 DEF DownloadsAreRight
  <1>5. fpPromise' \in [Modes -> Nat] /\ \A m \in Modes : fpPromise'[m] \in {0, fpPromise[m]}
    BY <1>0, <1>1 DEF DownloadsAreRight
  <1>6. MemosAreNew'
    BY <1>0, <1>1, <1>3, <1>4, <1>5 DEF DownloadsAreRight, MemosAreNew
  <1>7. CallsWait'
    BY <1>0, <1>1, <1>3 DEF DownloadsAreRight, CallsWait, CallWaits
  <1>8. DownloadsAreRight'
    BY <1>0, <1>1, <1>3, <1>4, <1>5, <1>6, <1>7 DEF DownloadsAreRight
  <1>9. FleaParts'
    BY <1>0, <1>1, <1>8 DEF FleaParts, StoredIsNew, NewPrices, MarkedLevelsAreLoaded
  <1>10. QED  BY <1>9, FleaInvParts

(* A cache is filled only by a call that began with it, whose download is  *)
(* of the same refetch.                                                    *)
LEMMA PricesArriveKeeps ==
  ASSUME FleaInv, PricesArrive PROVE FleaInv'
  <1>0. FleaParts /\ DownloadsAreRight /\ fpEpoch \in Nat
    BY FleaInvParts DEF FleaParts, Epochs
  <1>1. PICK call \in fpCalls :
          /\ call.stage = "prices"
          /\ fpPrices' = IF call.object # fpEpoch THEN fpPrices
                         ELSE [fpPrices EXCEPT
                                 ![call.mode] = fpDownloads[call.download].epoch]
          /\ EnsureLevels([call EXCEPT !.filled = TRUE], fpCalls \ {call}, fpPrices')
          /\ UNCHANGED <<fpEpoch, fpMode, fpLevels, fpMarked, fpHollow>>
    BY DEF PricesArrive
  <1>2. call \in CallOfOne /\ CallWaits(call, fpDownloads)
    BY <1>0 DEF DownloadsAreRight, CallsWait
  <1>3. fpPrices' \in [Modes -> Nat] /\ NewPrices(fpPrices')
    <2>1. CASE call.object # fpEpoch
      BY <1>0, <1>1, <2>1 DEF FleaParts
    <2>2. CASE call.object = fpEpoch
      <3>1. fpDownloads[call.download].epoch = fpEpoch
        BY <1>1, <1>2, <2>2 DEF CallWaits
      <3>2. fpPrices' = [fpPrices EXCEPT ![call.mode] = fpEpoch]
        BY <1>1, <2>2, <3>1
      <3>3. QED  BY <1>0, <3>2 DEF FleaParts, NewPrices
    <2>3. QED  BY <2>1, <2>2
  <1>4. /\ [call EXCEPT !.filled = TRUE] \in CallOfOne
        /\ CallWaits([call EXCEPT !.filled = TRUE], fpDownloads)
    BY <1>2 DEF CallOfOne, CallWaits
  <1>5. DownloadsAreRight' /\ StoredIsNew'
    BY <1>1, <1>3, <1>4, LevelsEnsured
  <1>6. MarkedLevelsAreLoaded' /\ NewPrices(fpPrices)'
    BY <1>0, <1>1, <1>3 DEF FleaParts, MarkedLevelsAreLoaded, NewPrices
  <1>7. FleaParts'
    BY <1>0, <1>1, <1>3, <1>5, <1>6 DEF FleaParts
  <1>8. QED  BY <1>7, FleaInvParts

LEMMA LevelsArriveKeeps ==
  ASSUME FleaInv, LevelsArrive PROVE FleaInv'
  <1>0. FleaParts /\ DownloadsAreRight
    BY FleaInvParts DEF FleaParts
  <1>1. PICK call \in fpCalls :
          /\ call.stage = "levels" /\ Status(call) = "loaded"
          /\ fpLevels' = IF call.mode \in fpMarked THEN fpLevels
                         ELSE [fpLevels EXCEPT
                                 ![call.mode] = fpDownloads[call.download].epoch]
          /\ fpMarked' = fpMarked \cup {call.mode}
          /\ Finish(call, fpPrices, fpLevels', call.mode \notin fpMarked)
          /\ fpCalls' = fpCalls \ {call}
          /\ UNCHANGED <<fpEpoch, fpMode, fpMemo, fpDownloads, fpPrices, fpPromise, fpHollow>>
    BY DEF LevelsArrive
  <1>2. call \in CallOfOne /\ call.mode \in Modes /\ CallWaits(call, fpDownloads)
    BY <1>0 DEF DownloadsAreRight, CallsWait, CallOfOne
  <1>3. fpDownloads[call.download].epoch \in Nat \ {0}
    <2>1. call.download # 0
      BY <1>1 DEF Status
    <2>2. call.download \in DOMAIN fpDownloads
      BY <1>2, <2>1 DEF CallWaits
    <2>3. fpDownloads[call.download] \in FleaDownload
      BY <1>0, <2>2 DEF DownloadsAreRight
    <2>4. QED  BY <2>3 DEF FleaDownload, Epochs
  <1>4. fpLevels' \in [Modes -> Nat] /\ MarkedLevelsAreLoaded'
    BY <1>0, <1>1, <1>2, <1>3 DEF FleaParts, MarkedLevelsAreLoaded
  <1>5. StoredIsNew'
    BY <1>0, <1>1, <1>2, <1>4, CallEnds DEF FleaParts
  <1>6. DownloadsAreRight'
    BY <1>1, CallGone
  <1>7. FleaParts'
    BY <1>0, <1>1, <1>4, <1>5, <1>6 DEF FleaParts, NewPrices
  <1>8. QED  BY <1>7, FleaInvParts

LEMMA CallFailsKeeps ==
  ASSUME FleaInv, CallFails PROVE FleaInv'
  <1>0. FleaParts
    BY FleaInvParts
  <1>1. PICK call \in fpCalls :
          /\ fpCalls' = fpCalls \ {call}
          /\ UNCHANGED <<fpEpoch, fpMode, fpMemo, fpDownloads, fpPrices, fpLevels,
                         fpMarked, fpPromise, fpStamp, fpStored, fpHollow>>
    BY DEF CallFails
  <1>2. DownloadsAreRight'
    BY <1>1, CallGone
  <1>3. FleaParts'
    BY <1>0, <1>1, <1>2 DEF FleaParts, StoredIsNew, NewPrices, MarkedLevelsAreLoaded
  <1>4. QED  BY <1>3, FleaInvParts

LEMMA ReloadPricesKeeps ==
  ASSUME FleaInv, ReloadPrices PROVE FleaInv'
  <1>0. FleaParts /\ DownloadsAreRight /\ StoredIsNew
    BY FleaInvParts DEF FleaParts
  <1>1. /\ fpPrices' = fpStored.prices /\ fpLevels' = fpStored.levels
        /\ fpMarked' = (IF fpStored.saved THEN Modes ELSE {})
        /\ fpHollow' = {m \in fpMarked' : fpStored.levels[m] = 0}
        /\ fpStamp' = fpStored.stamp /\ fpMemo' = NoneYet /\ fpPromise' = NoneYet
        /\ fpCalls' = {}
        /\ UNCHANGED <<fpEpoch, fpMode, fpDownloads, fpStored>>
    BY DEF ReloadPrices
  <1>2. fpPrices' \in [Modes -> Nat] /\ fpLevels' \in [Modes -> Nat]
    BY <1>0, <1>1 DEF StoredIsNew, StoredCopy
  <1>3. DownloadsAreRight'
    BY <1>0, <1>1 DEF DownloadsAreRight, MemosAreNew, CallsWait, NoneYet
  <1>4. StoredIsNew' /\ NewPrices(fpPrices)'
    BY <1>0, <1>1 DEF StoredIsNew, NewPrices
  <1>5. MarkedLevelsAreLoaded'
    BY <1>1 DEF MarkedLevelsAreLoaded
  <1>6. FleaParts'
    BY <1>0, <1>1, <1>2, <1>3, <1>4, <1>5 DEF FleaParts
  <1>7. QED  BY <1>6, FleaInvParts

(* One step per operation on the caches.                                    *)
LEMMA FleaInvKept == FleaInv /\ [FleaNext]_fpVars => FleaInv'
  <1> SUFFICES ASSUME FleaInv, [FleaNext]_fpVars PROVE FleaInv'
    OBVIOUS
  <1>0. fpMode \in Modes
    BY FleaInvParts DEF FleaParts
  <1>1. CASE AskPrices
    BY <1>0, <1>1, Ensured DEF AskPrices
  <1>2. CASE SwitchPriceMode
    <2>1. PICK mode \in Modes \ {fpMode} :
            /\ fpMode' = mode
            /\ Ensure(mode, \E m \in Modes : fpPrices[m] # 0, FALSE, fpCalls)
      BY <1>2 DEF SwitchPriceMode
    <2>2. QED  BY <2>1, Ensured
  <1>3. CASE UNCHANGED fpVars
    <2>1. FleaParts'
      BY <1>3, FleaInvParts DEF FleaParts, fpVars, DownloadsAreRight, StoredIsNew, NewPrices,
         MarkedLevelsAreLoaded, MemosAreNew, CallsWait
    <2>2. QED  BY <2>1, FleaInvParts
  <1>4. QED
    BY <1>1, <1>2, <1>3, RefetchKeeps, IdsArriveKeeps, DownloadEndsKeeps, PricesArriveKeeps,
       LevelsArriveKeeps, CallFailsKeeps, ReloadPricesKeeps DEF FleaNext

(* No price shown or stored is older than the last refetch, and a mode     *)
(* marked as having its levels has them, whichever answers of              *)
(* ensureFleaPrices and _ensureFleaLevels come late (stats-panel.js).      *)
THEOREM FleaPricesStayNew == FleaSpec => []FleaPricesAreRight
  <1>1. FleaInv => FleaPricesAreRight
    BY DEF FleaInv
  <1>2. QED  BY <1>1, FleaInitInv, FleaInvKept, PTL DEF FleaSpec

--------------------------------------------------------------------------------
(* BuildCost, for every set of parts and every price of each.              *)

(* f adds up the prices of the things in each part of U, in any order.     *)
AddsUp(f, price, U) ==
  /\ f \in [SUBSET U -> Nat] /\ f[{}] = 0
  /\ \A T \in SUBSET U : \A x \in T : f[T] = price[x] + f[T \ {x}]

(* Sums of natural numbers over a finite set exist.                         *)
LEMMA SumsExist ==
  ASSUME NEW U, IsFiniteSet(U), NEW price, \A x \in U : price[x] \in Nat
  PROVE  \E f : AddsUp(f, price, U)
  <1> DEFINE F == {V \in SUBSET U : ~\E f : AddsUp(f, price, V)}
  <1> SUFFICES ASSUME F # {} PROVE FALSE
    OBVIOUS
  <1>0. F # {} /\ \A V : V \in F <=> V \in SUBSET U /\ ~\E f : AddsUp(f, price, V)
    OBVIOUS
  <1> HIDE DEF F
  <1>1. \A V \in F : IsFiniteSet(V)
    BY <1>0, FS_Subset
  <1>2. PICK V \in F : \A W \in F : W \subseteq V => W = V
    BY <1>0, <1>1, LeastFiniteSet
  <1>3. V # {}
    <2> DEFINE f == [T \in SUBSET {} |-> 0]
    <2>1. AddsUp(f, price, {})
      BY DEF AddsUp
    <2>2. QED  BY <2>1, <1>0
  <1>4. PICK x \in V : TRUE
    BY <1>3
  <1>5. PICK g : AddsUp(g, price, V \ {x})
    <2>1. V \ {x} \in SUBSET U /\ V \ {x} \subseteq V /\ V \ {x} # V
      BY <1>0, <1>4
    <2>2. V \ {x} \notin F
      BY <1>2, <2>1
    <2>3. QED  BY <1>0, <2>1, <2>2
  <1> DEFINE f == [T \in SUBSET V |-> IF x \in T THEN price[x] + g[T \ {x}] ELSE g[T]]
  <1>6. price[x] \in Nat /\ \A y \in V : price[y] \in Nat
    BY <1>0, <1>4
  <1> DEFINE R == V \ {x}
  <1>7. /\ g \in [SUBSET R -> Nat] /\ g[{}] = 0
        /\ \A T \in SUBSET R : \A y \in T : g[T] = price[y] + g[T \ {y}]
    BY <1>5 DEF AddsUp
  <1>8. \A T \in SUBSET V : T \ {x} \in SUBSET R /\ (x \notin T => T \in SUBSET R)
    OBVIOUS
  <1> HIDE DEF R
  <1>9. f \in [SUBSET V -> Nat] /\ f[{}] = 0
    BY <1>6, <1>7, <1>8
  <1>10. ASSUME NEW T \in SUBSET V, NEW y \in T PROVE f[T] = price[y] + f[T \ {y}]
    <2>0. price[y] \in Nat /\ T \ {y} \in SUBSET V /\ T \ {x} \in SUBSET R
      BY <1>6, <1>8
    <2>1. CASE x \notin T
      <3>1. T \in SUBSET R /\ f[T] = g[T] /\ f[T \ {y}] = g[T \ {y}]
        BY <1>8, <2>1, <2>0
      <3>2. QED  BY <1>7, <3>1
    <2>2. CASE x \in T /\ y = x
      <3>1. f[T] = price[x] + g[T \ {x}] /\ f[T \ {y}] = g[T \ {x}]
        BY <2>2, <2>0
      <3>2. QED  BY <2>2, <3>1
    <2>3. CASE x \in T /\ y # x
      <3>1. f[T] = price[x] + g[T \ {x}] /\ f[T \ {y}] = price[x] + g[(T \ {y}) \ {x}]
        BY <2>3, <2>0
      <3>2. y \in T \ {x} /\ (T \ {x}) \ {y} = (T \ {y}) \ {x}
        BY <2>3
      <3>3. g[T \ {x}] = price[y] + g[(T \ {y}) \ {x}]
        BY <1>7, <2>0, <3>2
      <3>4. (T \ {y}) \ {x} \in SUBSET R
        BY <1>8, <2>0
      <3>5. g[(T \ {y}) \ {x}] \in Nat
        BY <1>7, <3>4
      <3> HIDE DEF f
      <3>6. QED  BY <1>6, <2>0, <3>1, <3>3, <3>5
    <2>4. QED  BY <2>1, <2>2, <2>3
  <1>11. AddsUp(f, price, V)
    BY <1>9, <1>10 DEF AddsUp
  <1>12. QED  BY <1>11, <1>0

(* SumOf, whatever order it chooses.                                       *)
LEMMA SumIsTheSum ==
  ASSUME NEW U, IsFiniteSet(U), NEW price, NEW f, AddsUp(f, price, U), NEW S \in SUBSET U
  PROVE  SumOf(price, S) = f[S]
  <1> DEFINE One(T) == CHOOSE y \in T : TRUE
             sum == CHOOSE g : g = [T \in SUBSET S |->
                       IF T = {} THEN 0 ELSE LET x == CHOOSE y \in T : TRUE IN price[x] + g[T \ {x}]]
  <1>1. SumOf(price, S) = sum[S]
    BY DEF SumOf
  <1>2. \A T \in SUBSET S : T # {} => One(T) \in T
    OBVIOUS
  <1>3. [T \in SUBSET S |-> f[T]] = [T \in SUBSET S |->
          IF T = {} THEN 0 ELSE price[One(T)] + [W \in SUBSET S |-> f[W]][T \ {One(T)}]]
    BY <1>2 DEF AddsUp
  <1>4. sum = [T \in SUBSET S |-> IF T = {} THEN 0 ELSE price[One(T)] + sum[T \ {One(T)}]]
    BY <1>3
  <1> HIDE DEF sum
  <1>5. ASSUME NEW T \in SUBSET S PROVE sum[T] = f[T]
    <2> DEFINE F == {V \in SUBSET S : sum[V] # f[V]}
    <2> SUFFICES ASSUME F # {} PROVE FALSE
      OBVIOUS
    <2>0. F # {} /\ \A V : V \in F <=> V \in SUBSET S /\ sum[V] # f[V]
      OBVIOUS
    <2> HIDE DEF F
    <2>1. \A V \in F : IsFiniteSet(V)
      BY <2>0, FS_Subset
    <2>2. PICK V \in F : \A W \in F : W \subseteq V => W = V
      BY <2>0, <2>1, LeastFiniteSet
    <2>3. V # {}
      BY <1>4, <2>0 DEF AddsUp
    <2>4. One(V) \in V
      BY <1>2, <2>0, <2>3
    <2> DEFINE x == One(V)
    <2>5. sum[V] = price[x] + sum[V \ {x}] /\ f[V] = price[x] + f[V \ {x}]
      BY <1>4, <2>0, <2>3, <2>4 DEF AddsUp
    <2>6. V \ {x} \notin F /\ V \ {x} \in SUBSET S
      BY <2>0, <2>2, <2>4
    <2>7. QED  BY <2>0, <2>5, <2>6
  <1>6. QED  BY <1>1, <1>5
--------------------------------------------------------------------------------

(* The parts and the two bases are finitely many.                           *)
LEMMA ThingsAreFinite ==
  ASSUME CostAssumption
  PROVE  IsFiniteSet(Things)
  <1> DEFINE A == {"receiver"}  B == {"preset"}
  <1>1. IsFiniteSet(A) /\ IsFiniteSet(B) /\ IsFiniteSet(GunParts)
    BY FS_Singleton DEF CostAssumption
  <1>2. Things = GunParts \union (A \union B)
    BY DEF Things
  <1> HIDE DEF A, B
  <1>3. IsFiniteSet(A \union B)
    BY <1>1, FS_Union
  <1>4. QED  BY <1>1, <1>2, <1>3, FS_Union

(* LeastOf is the least element, once there is one.                         *)
LEMMA LeastIsChosen ==
  ASSUME NEW S, NEW v \in S, v \in Nat, \A u \in S : u \in Nat /\ v <= u
  PROVE  LeastOf(S) = v
  <1> DEFINE LeastIn(u) == u \in S /\ \A w \in S : u <= w
  <1>1. LeastIn(v) /\ \A u : LeastIn(u) => u = v
    <2>1. LeastIn(v)
      OBVIOUS
    <2>2. ASSUME NEW u, LeastIn(u) PROVE u = v
      <3>1. u <= v /\ v <= u /\ u \in Nat
        BY <2>2
      <3>2. QED  BY <3>1
    <2>3. QED  BY <2>1, <2>2
  <1>2. LeastOf(S) = CHOOSE u : LeastIn(u)
    BY DEF LeastOf
  <1> HIDE DEF LeastIn
  <1>3. QED  BY <1>1, <1>2

PlanSums(price, f, parts) ==
  /\ SumOf(price, parts) = f[parts] /\ f[parts] \in Nat
  /\ SumOf(price, parts \ FactoryParts) = f[parts \ FactoryParts]
  /\ f[parts \ FactoryParts] \in Nat
  /\ SumOf(price, {"receiver"} \union parts) = price["receiver"] + f[parts]
  /\ SumOf(price, {"preset"} \union (parts \ FactoryParts))
       = price["preset"] + f[parts \ FactoryParts]

(* What SumOf says of every set of parts.                                   *)
LEMMA PlanTotals ==
  ASSUME CostAssumption, NEW price \in [Things -> Nat], NEW f, AddsUp(f, price, Things),
         NEW parts \in SUBSET GunParts
  PROVE  PlanSums(price, f, parts)
  <1>1. IsFiniteSet(Things)
    BY ThingsAreFinite
  <1> DEFINE R == {"receiver"} \union parts  P == {"preset"} \union (parts \ FactoryParts)
  <1>2. /\ parts \in SUBSET Things /\ parts \ FactoryParts \in SUBSET Things
        /\ R \in SUBSET Things /\ P \in SUBSET Things
        /\ "receiver" \in R /\ "preset" \in P
        /\ R \ {"receiver"} = parts /\ P \ {"preset"} = parts \ FactoryParts
    BY DEF CostAssumption, Things
  <1>3. /\ f[R] = price["receiver"] + f[parts]
        /\ f[P] = price["preset"] + f[parts \ FactoryParts]
    BY <1>2 DEF AddsUp
  <1>4. \A S \in SUBSET Things : SumOf(price, S) = f[S]
    BY <1>1, SumIsTheSum
  <1>5. f[parts] \in Nat /\ f[parts \ FactoryParts] \in Nat
    BY <1>2 DEF AddsUp
  <1> HIDE DEF R, P
  <1>6. QED  BY <1>2, <1>3, <1>4, <1>5 DEF R, P, PlanSums

(* The price of the cheaper base with its rest is the least of the plans.   *)
LEMMA BoughtIsLeast ==
  ASSUME CostAssumption, NEW price \in [Things -> Nat], NEW parts \in SUBSET GunParts,
         NEW plans,
         plans = {price[b] + SumOf(price, IF b = "receiver" THEN parts ELSE parts \ FactoryParts)
                    : b \in {d \in {"receiver", "preset"} : price[d] # 0}},
         plans # {}
  PROVE  SumOf(price, Bought(price, parts)) = LeastOf(plans)
  <1>1. IsFiniteSet(Things)
    BY ThingsAreFinite
  <1>2. PICK f : AddsUp(f, price, Things)
    BY <1>1, SumsExist
  <1> DEFINE w == f[parts]  z == f[parts \ FactoryParts]
             r == price["receiver"]  p == price["preset"]
  <1>3. /\ SumOf(price, parts) = w /\ w \in Nat
        /\ SumOf(price, parts \ FactoryParts) = z /\ z \in Nat
        /\ SumOf(price, {"receiver"} \union parts) = r + w
        /\ SumOf(price, {"preset"} \union (parts \ FactoryParts)) = p + z
    <2>1. PlanSums(price, f, parts)
      BY <1>2, PlanTotals
    <2>2. QED  BY <2>1 DEF PlanSums
  <1>4. r \in Nat /\ p \in Nat
    BY DEF Things
  <1> HIDE DEF r, p, w, z
  <1>5. \A u : u \in plans <=> (r # 0 /\ u = r + w) \/ (p # 0 /\ u = p + z)
    BY <1>3 DEF r, p
  <1>6. CASE UsesPreset(price, parts)
    <2>1. p # 0 /\ (r = 0 \/ p + z < r + w)
      BY <1>6, <1>3 DEF UsesPreset, r, p
    <2>2. SumOf(price, Bought(price, parts)) = p + z
      BY <1>6, <1>3 DEF Bought
    <2>3. p + z \in plans /\ p + z \in Nat /\ \A u \in plans : u \in Nat /\ p + z <= u
      BY <1>3, <1>4, <1>5, <2>1
    <2>4. QED  BY <2>2, <2>3, LeastIsChosen
  <1>7. CASE ~UsesPreset(price, parts)
    <2>1. p = 0 \/ (r # 0 /\ ~(p + z < r + w))
      BY <1>7, <1>3 DEF UsesPreset, r, p
    <2>2. SumOf(price, Bought(price, parts)) = r + w
      BY <1>7, <1>3 DEF Bought
    <2>3. r # 0
      BY <1>5, <2>1
    <2>a. r + w \in Nat /\ p + z \in Nat /\ (p # 0 => r + w <= p + z)
      BY <1>3, <1>4, <2>1
    <2>4. r + w \in plans
      BY <1>5, <2>3
    <2>b. ASSUME NEW u \in plans PROVE u \in Nat /\ r + w <= u
      <3>1. u = r + w \/ (p # 0 /\ u = p + z)
        BY <1>5
      <3>2. QED  BY <3>1, <2>a
    <2>5. QED  BY <2>2, <2>4, <2>a, <2>b, LeastIsChosen
  <1>8. QED  BY <1>6, <1>7

--------------------------------------------------------------------------------
CostWaiting == [n : 1 .. MaxOverviews, parts : SUBSET GunParts, mode : CostModes \union {"delayed"}]
Drawings == [parts : SUBSET GunParts, mode : CostModes, level : 1 .. TopLevel,
             loaded : BOOLEAN, base : {"receiver", "preset", "nothing drawn"}, total : Nat]

CostInv ==
  /\ CostTypeOK /\ CostIsTheLeast
  /\ ctMarket \in Markets /\ IsFiniteSet(ctOverviews) /\ ctOverviews \subseteq CostWaiting
  /\ ctOverviews = {} => ctShown.mode = ctMode /\ ctShown.level = ctLevel
  /\ ctOverviews = {} /\ ctMode \in ctLoaded /\ ~ctShown.loaded => ctMode \in ctLoading
  /\ ctMode \in ctAsked => \/ ctMode \in ctLoading
                           \/ \E o \in ctOverviews : o.mode \in {ctMode, "delayed"}

(* renderPriceOverview: the price of each thing is the least offer open to  *)
(* the player.                                                              *)
LEMMA OverviewPrices ==
  ASSUME CostAssumption, CostInv, NEW s, s.level = ctLevel, s.mode = ctMode,
         s.loaded = (ctMode \in ctLoaded),
         ctMode' = ctMode, ctLevel' = ctLevel, ctLoaded' = ctLoaded, NEW x \in Things
  PROVE  PriceOf(x) = LeastOf(Offers(x, s)) /\ PriceOf(x) \in Nat
  <1> DEFINE t == ctMarket.trader[x]  v == ctMarket.flea[ctMode][x]
             open == ctMarket.level[x] <= ctLevel  known == ctMode \in ctLoaded
  <1>1. t \in Nat /\ v \in Nat /\ open \in BOOLEAN /\ known \in BOOLEAN
    <2>1. ctMarket \in [trader : [Things -> Nat], level : [Things -> Nat],
                        flea : [CostModes -> [Things -> Nat]]]
      BY DEF CostAssumption, CostInv
    <2>2. ctMode \in CostModes
      BY DEF CostInv, CostTypeOK
    <2>3. QED  BY <2>1, <2>2
  <1>2. PriceOf(x) = Cheaper(IF open THEN t ELSE 0, IF known THEN v ELSE 0)
    BY DEF PriceOf, TraderPrice, FleaPrice
  <1>3. Offers(x, s) = (IF t # 0 /\ open THEN {t} ELSE {}) \union
                       (IF known /\ v # 0 THEN {v} ELSE {})
    BY DEF Offers
  <1> HIDE DEF t, v, open, known
  <1>4. PriceOf(x) \in Nat
    BY <1>1, <1>2 DEF Cheaper
  <1>5. CASE Offers(x, s) = {}
    <2>1. ~(t # 0 /\ open) /\ ~(known /\ v # 0)
      BY <1>3, <1>5
    <2>2. PriceOf(x) = 0
      BY <1>1, <1>2, <2>1 DEF Cheaper
    <2>3. QED  BY <1>4, <1>5, <2>2 DEF LeastOf
  <1>6. CASE Offers(x, s) # {}
    <2>1. /\ PriceOf(x) \in Offers(x, s)
          /\ \A u \in Offers(x, s) : u \in Nat /\ PriceOf(x) <= u
      BY <1>1, <1>2, <1>3, <1>6 DEF Cheaper
    <2>2. QED  BY <1>4, <2>1, LeastIsChosen
  <1>7. QED  BY <1>4, <1>5, <1>6

(* While there is room an overview has a number.                            *)
LEMMA NumberedIsFree ==
  ASSUME CostAssumption, NEW os, IsFiniteSet(os), os \subseteq CostWaiting, RoomFor(os)
  PROVE  Numbered(os) \in 1 .. MaxOverviews
  <1> DEFINE N == 1 .. MaxOverviews  f == [o \in os |-> o.n]
  <1>1. MaxOverviews \in Nat /\ MaxOverviews > 0
    BY DEF CostAssumption
  <1>2. IsFiniteSet(N) /\ Cardinality(N) = MaxOverviews
    BY <1>1, FS_Interval
  <1>3. Cardinality(os) \in Nat /\ Cardinality(os) < MaxOverviews
    BY FS_CardinalityType DEF RoomFor
  <1>4. f \in [os -> N]
    BY DEF CostWaiting
  <1>5. ASSUME \A n \in N : \E o \in os : o.n = n PROVE FALSE
    <2>1. \A n \in N : \E o \in os : f[o] = n
      BY <1>5
    <2> HIDE DEF f, N
    <2>2. f \in Surjection(os, N)
      BY <1>4, <2>1 DEF Surjection
    <2>3. Cardinality(N) <= Cardinality(os)
      BY <2>2, FS_Surjection
    <2>4. QED  BY <1>1, <1>2, <1>3, <2>3
  <1>6. QED  BY <1>5 DEF Numbered

(* The overview's total is the least of its plans.                          *)
LEMMA CostOfIsLeast ==
  ASSUME CostAssumption, CostInv, NEW parts \in SUBSET GunParts, NEW s, s = CostOf(parts),
         ctMode' = ctMode, ctLevel' = ctLevel, ctLoaded' = ctLoaded
  PROVE  /\ s.parts = parts /\ s.mode = ctMode /\ s.level = ctLevel
         /\ s.loaded = (ctMode \in ctLoaded) /\ s.base \in {"receiver", "preset"}
         /\ PlanCosts(s) # {} => s.total = LeastOf(PlanCosts(s))
  <1> DEFINE price == [x \in Things |-> PriceOf(x)]
  <1>1. /\ s.parts = parts /\ s.mode = ctMode /\ s.level = ctLevel
        /\ s.loaded = (ctMode \in ctLoaded) /\ s.base \in {"receiver", "preset"}
        /\ s.total = SumOf(price, Bought(price, parts))
    BY DEF CostOf
  <1>2. \A x \in Things : PriceOf(x) = LeastOf(Offers(x, s)) /\ PriceOf(x) \in Nat
    BY <1>1, OverviewPrices
  <1>3. price \in [Things -> Nat] /\ price = [x \in Things |-> LeastOf(Offers(x, s))]
    BY <1>2
  <1> DEFINE rest == [receiver |-> s.parts, preset |-> s.parts \ FactoryParts]
  <1>4. PlanCosts(s) = {price[b] + SumOf(price, rest[b]) : b \in {d \in DOMAIN rest : price[d] # 0}}
    BY <1>3 DEF PlanCosts
  <1>5. /\ DOMAIN rest = {"receiver", "preset"}
        /\ \A b \in DOMAIN rest : rest[b] = IF b = "receiver" THEN parts ELSE parts \ FactoryParts
    <2>1. rest = [receiver |-> parts, preset |-> parts \ FactoryParts]
      BY <1>1
    <2>2. DOMAIN rest = {"receiver", "preset"}
      BY <2>1
    <2>3. rest["receiver"] = parts /\ rest["preset"] = parts \ FactoryParts
      BY <2>1
    <2> HIDE DEF rest
    <2>4. QED  BY <2>2, <2>3
  <1> HIDE DEF price, rest
  <1>6. PlanCosts(s) = {price[b] + SumOf(price, IF b = "receiver" THEN parts ELSE parts \ FactoryParts)
                          : b \in {d \in {"receiver", "preset"} : price[d] # 0}}
    BY <1>4, <1>5
  <1>7. PlanCosts(s) # {} => SumOf(price, Bought(price, parts)) = LeastOf(PlanCosts(s))
    BY <1>3, <1>6, BoughtIsLeast
  <1>8. QED  BY <1>1, <1>7

(* A step that draws nothing keeps the total the least.                     *)
LEMMA LeastKept ==
  ASSUME CostIsTheLeast, ctMarket' = ctMarket, ctShown' = ctShown
  PROVE  CostIsTheLeast'
  <1>1. \A x : Offers(x, ctShown)' = Offers(x, ctShown)
    BY DEF Offers
  <1>2. PlanCosts(ctShown)' = PlanCosts(ctShown)
    BY <1>1 DEF PlanCosts
  <1>3. QED  BY <1>2 DEF CostIsTheLeast

(* The user's acts are counted within their bound.                          *)
LEMMA CostActs ==
  ASSUME CostAssumption, CostInv, CostAct
  PROVE  ctActs' \in 0 .. MaxCostActs
  <1>1. ctActs \in 0 .. MaxCostActs /\ MaxCostActs \in Nat
    BY DEF CostAssumption, CostInv, CostTypeOK
  <1>2. QED  BY <1>1 DEF CostAct

(* One step per operation on cost and overviews.                            *)
LEMMA CostStep ==
  ASSUME CostAssumption, CostInv, [CostNext]_ctVars
  PROVE  CostInv'
  <1> USE CostAssumption
  <1>t. /\ ctParts \in SUBSET GunParts /\ ctMode \in CostModes /\ ctOverviews \subseteq CostWaiting
        /\ IsFiniteSet(ctOverviews) /\ ctLevel \in 1 .. TopLevel
        /\ "delayed" \notin CostModes
    BY DEF CostInv, CostTypeOK, CostAssumption
  \* One more overview on the way.
  <1>o. ASSUME NEW mode \in CostModes \union {"delayed"}, Overview(mode), ctParts' \in SUBSET GunParts
        PROVE  \E n \in 1 .. MaxOverviews : LET o == [n |-> n, parts |-> ctParts', mode |-> mode] IN
                 /\ ctOverviews' = ctOverviews \union {o} /\ o \in CostWaiting
                 /\ IsFiniteSet(ctOverviews') /\ o.mode = mode
                 /\ ctOverviews' \subseteq CostWaiting /\ ctOverviews' # {}
    <2> DEFINE n == Numbered(ctOverviews)  o == [n |-> n, parts |-> ctParts', mode |-> mode]
    <2>1. n \in 1 .. MaxOverviews
      BY <1>o, <1>t, NumberedIsFree DEF Overview
    <2>2. ctOverviews' = ctOverviews \union {o} /\ o \in CostWaiting /\ o.mode = mode
      BY <1>o, <2>1 DEF Overview, CostWaiting
    <2>3. IsFiniteSet(ctOverviews \union {o})
      BY <1>t, FS_AddElement
    <2>4. QED  BY <1>t, <2>1, <2>2, <2>3
  <1>w. \A o \in CostWaiting : o.n \in 1 .. MaxOverviews /\ o.parts \subseteq GunParts
                           /\ o.mode \in CostModes \union {"delayed"}
    BY DEF CostWaiting
  <1>1. ASSUME NEW parts \in SUBSET GunParts, ChangeBuild(parts) PROVE CostInv'
    <2>1. PICK n \in 1 .. MaxOverviews : LET o == [n |-> n, parts |-> ctParts', mode |-> ctMode] IN
                 /\ ctOverviews' = ctOverviews \union {o} /\ o \in CostWaiting
                 /\ IsFiniteSet(ctOverviews') /\ o.mode = ctMode
                 /\ ctOverviews' \subseteq CostWaiting /\ ctOverviews' # {}
      BY <1>1, <1>t, <1>o DEF ChangeBuild
    <2>a. ctActs' \in 0 .. MaxCostActs
      BY <1>1, CostActs DEF ChangeBuild
    <2>2. CostTypeOK'
      BY <1>1, <1>t, <1>w, <2>1, <2>a DEF CostInv, CostTypeOK, ChangeBuild, Download
    <2>3. CostIsTheLeast'
      BY <1>1, LeastKept DEF CostInv, ChangeBuild
    <2>4. QED  BY <1>1, <2>1, <2>2, <2>3 DEF CostInv, ChangeBuild
  <1>2. ASSUME NEW v \in 1 .. TopLevel, SetTraderLevel(v) PROVE CostInv'
    <2>1. PICK n \in 1 .. MaxOverviews : LET o == [n |-> n, parts |-> ctParts', mode |-> ctMode] IN
                 /\ ctOverviews' = ctOverviews \union {o} /\ o \in CostWaiting
                 /\ IsFiniteSet(ctOverviews') /\ o.mode = ctMode
                 /\ ctOverviews' \subseteq CostWaiting /\ ctOverviews' # {}
      BY <1>2, <1>t, <1>o DEF SetTraderLevel
    <2>a. ctActs' \in 0 .. MaxCostActs
      BY <1>2, CostActs DEF SetTraderLevel
    <2>2. CostTypeOK'
      BY <1>2, <1>t, <1>w, <2>1, <2>a DEF CostInv, CostTypeOK, SetTraderLevel, Download
    <2>3. CostIsTheLeast'
      BY <1>2, LeastKept DEF CostInv, SetTraderLevel
    <2>4. QED  BY <1>2, <2>1, <2>2, <2>3 DEF CostInv, SetTraderLevel
  <1>3. ASSUME NEW mode \in CostModes, SetPriceMode(mode) PROVE CostInv'
    <2>1. PICK n \in 1 .. MaxOverviews : LET o == [n |-> n, parts |-> ctParts', mode |-> "delayed"] IN
                 /\ ctOverviews' = ctOverviews \union {o} /\ o \in CostWaiting
                 /\ IsFiniteSet(ctOverviews') /\ o.mode = "delayed"
                 /\ ctOverviews' \subseteq CostWaiting /\ ctOverviews' # {}
      BY <1>3, <1>t, <1>o DEF SetPriceMode
    <2>a. ctActs' \in 0 .. MaxCostActs
      BY <1>3, CostActs DEF SetPriceMode
    <2>2. CostTypeOK'
      BY <1>3, <1>t, <1>w, <2>1, <2>a DEF CostInv, CostTypeOK, SetPriceMode, Download
    <2>3. CostIsTheLeast'
      BY <1>3, LeastKept DEF CostInv, SetPriceMode
    <2>4. QED  BY <1>3, <2>1, <2>2, <2>3 DEF CostInv, SetPriceMode
  <1>4. ASSUME NEW mode \in CostModes, PricesLoaded(mode) PROVE CostInv'
    <2>2. CostIsTheLeast'
      BY <1>4, LeastKept DEF CostInv, PricesLoaded
    <2>3. CASE mode \in ctLoaded /\ mode = ctMode
      <3>1. PICK n \in 1 .. MaxOverviews : LET o == [n |-> n, parts |-> ctParts', mode |-> mode] IN
                 /\ ctOverviews' = ctOverviews \union {o} /\ o \in CostWaiting
                 /\ IsFiniteSet(ctOverviews') /\ o.mode = mode
                 /\ ctOverviews' \subseteq CostWaiting /\ ctOverviews' # {}
        BY <1>4, <1>t, <1>o, <2>3 DEF PricesLoaded
      <3>2. CostTypeOK'
        BY <1>4, <1>t, <1>w, <3>1, <2>3 DEF CostInv, CostTypeOK, PricesLoaded, Download
      <3>3. QED  BY <1>4, <2>2, <2>3, <3>1, <3>2 DEF CostInv, PricesLoaded
    <2>4. CASE ~(mode \in ctLoaded /\ mode = ctMode)
      <3>1. UNCHANGED <<ctOverviews, ctAsked>>
        BY <1>4, <2>4 DEF PricesLoaded
      <3>2. CostTypeOK'
        BY <1>4, <3>1 DEF CostInv, CostTypeOK, PricesLoaded
      <3>3. QED  BY <1>4, <2>2, <2>4, <3>1, <3>2 DEF CostInv, PricesLoaded
    <2>5. QED  BY <2>3, <2>4
  <1>5. ASSUME NEW mode \in CostModes, NEW ok \in BOOLEAN, DownloadDone(mode, ok) PROVE CostInv'
    <2>2. CostTypeOK'
      BY <1>5 DEF CostInv, CostTypeOK, DownloadDone
    <2>3. CostIsTheLeast'
      BY <1>5, LeastKept DEF CostInv, DownloadDone
    <2>4. QED  BY <1>5, <2>2, <2>3 DEF CostInv, DownloadDone
  <1>6. ASSUME NEW o \in ctOverviews, DelayedOverview(o) PROVE CostInv'
    <2> DEFINE new == [o EXCEPT !.mode = ctMode, !.parts = ctParts]
    <2>1. new \in CostWaiting /\ new.mode = ctMode /\ ctOverviews' = (ctOverviews \ {o}) \union {new}
      BY <1>6, <1>t DEF DelayedOverview, CostWaiting
    <2> HIDE DEF new
    <2>2. IsFiniteSet(ctOverviews') /\ ctOverviews' \subseteq CostWaiting /\ ctOverviews' # {}
      BY <1>t, <2>1, FS_AddElement, FS_RemoveElement
    <2>3. CostTypeOK'
      BY <1>6, <1>t, <1>w, <2>2 DEF CostInv, CostTypeOK, DelayedOverview, Download
    <2>4. CostIsTheLeast'
      BY <1>6, LeastKept DEF CostInv, DelayedOverview
    <2>5. QED  BY <1>6, <2>1, <2>2, <2>3, <2>4 DEF CostInv, DelayedOverview
  <1>7. ASSUME NEW o \in ctOverviews, ShowOverview(o) PROVE CostInv'
    <2>0. o.parts \in SUBSET GunParts /\ ctMode' = ctMode /\ ctLevel' = ctLevel
          /\ ctLoaded' = ctLoaded /\ ctMarket' = ctMarket /\ ctShown' = CostOf(o.parts)
      BY <1>7, <1>t, <1>w DEF ShowOverview, ctPrices
    <2>1. /\ ctShown'.parts = o.parts /\ ctShown'.mode = ctMode /\ ctShown'.level = ctLevel
          /\ ctShown'.loaded = (ctMode \in ctLoaded) /\ ctShown'.base \in {"receiver", "preset"}
          /\ PlanCosts(ctShown') # {} => ctShown'.total = LeastOf(PlanCosts(ctShown'))
      BY <2>0, CostOfIsLeast
    <2>2. CostIsTheLeast'
      <3>1. PlanCosts(ctShown)' = PlanCosts(ctShown')
        BY <2>0 DEF PlanCosts, Offers
      <3>2. QED  BY <2>1, <3>1 DEF CostIsTheLeast
    <2>3. IsFiniteSet(ctOverviews') /\ ctOverviews' \subseteq CostWaiting
      BY <1>7, <1>t, FS_RemoveElement DEF ShowOverview
    <2>4. CostTypeOK'
      BY <1>7, <1>t, <1>w, <2>0, <2>1, <2>3 DEF CostInv, CostTypeOK, ShowOverview, ctPrices
    <2>5. QED  BY <1>7, <2>0, <2>1, <2>2, <2>3, <2>4 DEF CostInv, ShowOverview, ctPrices
  <1>8. ASSUME RefetchPrices PROVE CostInv'
    <2>a. ctActs' \in 0 .. MaxCostActs
      BY <1>8, CostActs DEF RefetchPrices
    <2>2. CostTypeOK'
      BY <1>8, <1>t, <2>a DEF CostInv, CostTypeOK, RefetchPrices
    <2>3. CostIsTheLeast'
      BY <1>8, LeastKept DEF CostInv, RefetchPrices
    <2>4. QED  BY <1>8, <2>2, <2>3 DEF CostInv, RefetchPrices
  <1>9. ASSUME UNCHANGED ctVars PROVE CostInv'
    <2>1. CostTypeOK'
      BY <1>9 DEF CostInv, CostTypeOK, ctVars
    <2>2. CostIsTheLeast'
      BY <1>9, LeastKept DEF CostInv, ctVars
    <2>3. QED  BY <1>9, <2>1, <2>2 DEF CostInv, ctVars
  <1>10. QED
    BY <1>1, <1>2, <1>3, <1>4, <1>5, <1>6, <1>7, <1>8, <1>9 DEF CostNext

(* The page starts with no overview drawn.                                  *)
LEMMA CostInitInv ==
  ASSUME CostAssumption, CostInit PROVE CostInv
  <1> DEFINE o == [n |-> 1, parts |-> {}, mode |-> FirstMode]
  <1>0. TopLevel \in Nat /\ TopLevel > 0 /\ MaxOverviews \in Nat /\ MaxOverviews > 0
    BY DEF CostAssumption
  <1>1. o \in CostWaiting /\ ctOverviews = {o} /\ o.mode = FirstMode
    <2>1. 1 \in 1 .. MaxOverviews /\ FirstMode \in CostModes
      BY <1>0 DEF CostAssumption
    <2>2. QED  BY <2>1 DEF CostInit, CostWaiting
  <1>2. IsFiniteSet({o})
    BY FS_Singleton
  <1>3. CostTypeOK
    <2>1. TopLevel \in 1 .. TopLevel /\ 1 \in 1 .. MaxOverviews /\ 0 \in 0 .. MaxCostActs
      BY <1>0 DEF CostAssumption
    <2>2. FirstMode \in CostModes
      BY DEF CostAssumption
    <2>a. o.n = 1 /\ o.parts = {} /\ o.mode = FirstMode
      OBVIOUS
    <2> HIDE DEF o
    <2>3. \A w \in ctOverviews : w.n = 1 /\ w.parts = {} /\ w.mode = FirstMode
      BY <1>1, <2>a
    <2>4. ctShown.parts = {} /\ ctShown.base = "nothing drawn"
      BY DEF CostInit
    <2>5. QED  BY <2>1, <2>2, <2>3, <2>4 DEF CostInit, CostTypeOK
  <1>4. CostIsTheLeast
    BY DEF CostInit, CostIsTheLeast
  <1>5. QED  BY <1>1, <1>2, <1>3, <1>4 DEF CostInit, CostInv

(* The invariant says what the run checks.                                  *)
LEMMA CostInvImplies ==
  ASSUME CostInv PROVE CostIsRight
  BY DEF CostInv, CostIsRight, CostIsOfTheMarket

(* The cost overview (renderPriceOverview and its callers): in every        *)
(* behaviour of CostSpec, for any market, parts, modes and levels, the      *)
(* total shown is the least any way of buying the parts costs, and with     *)
(* nothing on the way it is that of the mode and the levels chosen.         *)
THEOREM CostStaysRight == CostSpec => []CostIsRight
  <1>1. CostInit => CostInv
    BY CostInitInv, CostAssumption
  <1>2. CostInv /\ [CostNext]_ctVars => CostInv'
    BY CostStep, CostAssumption
  <1>3. CostInv => CostIsRight
    BY CostInvImplies
  <1>4. QED  BY <1>1, <1>2, <1>3, PTL DEF CostSpec

--------------------------------------------------------------------------------
(* StatsPanel, for every set of values of its settings.                    *)

StatCalls == [n : 1 .. MaxRefreshes, at : {"grenades", "stats"}, fitted : Grenades,
              grenade : Grenades, full : BOOLEAN, set : [Settings -> StatLevels]]
(* A refresh waits for grenades when there is a launcher.                  *)
CallsAreOut(out) ==
  out \subseteq StatCalls /\ \A r \in out : r.at = "grenades" => r.fitted \in Calibers

StatsInv == StatsAreShown /\ CallsAreOut(spOut)

(* The least setting is a setting.                                          *)
LEMMA LeastIsALevel == Least \in StatLevels
  <1>1. PICK v \in StatLevels : \A u \in StatLevels : v <= u
    BY LeastNumber, StatAssumption
  <1>2. QED  BY <1>1 DEF Least

(* The panel starts closed with nothing asked.                              *)
LEMMA StatsStart == StatsInit => StatsInv
  <1> SUFFICES ASSUME StatsInit PROVE StatsInv
    OBVIOUS
  <1> USE DEF StatsInit
  <1>1. Initially \in Totals /\ Initially.set \in [Settings -> StatLevels]
    BY LeastIsALevel DEF Initially, Totals, Grenades
  <1>2. StatsTypeOK
    <2>1. NoGrenade \in Grenades /\ <<>> \in Seq(Calibers)
      BY DEF Grenades
    <2>2. spWired \in [Settings -> 0 .. MaxWired] /\ 0 \in 0 .. MaxStatActs
      BY StatAssumption
    <2>3. spPanel \in [Settings -> {"closed", "open", "closing"}]
      OBVIOUS
    <2>4. QED  BY <1>1, <2>1, <2>2, <2>3 DEF StatsTypeOK
  <1>3. PopoverIsOfTheStats /\ FieldsAgree /\ CallsAreOut(spOut)
    BY DEF PopoverIsOfTheStats, FieldsAgree, CallsAreOut
  <1>4. QED  BY <1>2, <1>3 DEF StatsInv, StatsAreShown

(* Everything but the selector and what is out.                            *)
Panel ==
  /\ spFitted \in Grenades /\ spFull \in BOOLEAN /\ spView \in {"build", "price"}
  /\ spLast \in Totals /\ spPopOf \in Totals
  /\ spSet \in [Settings -> StatLevels]
  /\ spPanel \in [Settings -> {"closed", "open", "closing"}]
  /\ spSlider \in [Settings -> StatLevels]
  /\ spBox \in [Settings -> StatLevels \union {EmptyField}]
  /\ spWired \in [Settings -> 0 .. MaxWired]
  /\ spPop \in {"none", "on", "closing"} /\ spPopOpen \in BOOLEAN
  /\ spActs \in 0 .. MaxStatActs
  /\ PopoverIsOfTheStats /\ FieldsAgree

Selector ==
  /\ spCaliber \in Grenades /\ spGrenade \in Grenades /\ spMap \in Grenades
  /\ spOptions \in Seq(Calibers) /\ spRow \in BOOLEAN /\ spPrefs \subseteq Calibers

(* The invariant, cut into the parts a step may disturb.                    *)
LEMMA StatsParts == StatsInv <=> Panel /\ Selector /\ CallsAreOut(spOut)
  <1>1. CallsAreOut(spOut) => \A r \in spOut : r.n \in 1 .. MaxRefreshes
                                  /\ r.at \in {"grenades", "stats"}
    BY DEF CallsAreOut, StatCalls
  <1>2. QED  BY <1>1 DEF StatsInv, StatsAreShown, StatsTypeOK, Panel, Selector

(* Calls that go on with their numbers ask for the next ones.               *)
LEMMA ProceedKeeps ==
  ASSUME NEW rs, NEW grenade \in Grenades, NEW map, NEW out, CallsAreOut(out),
         rs \subseteq StatCalls, spSet' \in [Settings -> StatLevels],
         Proceed(rs, grenade, map, out)
  PROVE  CallsAreOut(spOut')
  <1>1. CASE spView = "price"
    BY <1>1 DEF Proceed
  <1>2. CASE spView # "price"
    <2> DEFINE new == {[r EXCEPT !.at = "stats", !.grenade = grenade,
                                 !.set.equip = spSet'.equip] : r \in rs}
    <2>1. ASSUME NEW r \in StatCalls
          PROVE  LET d == [r EXCEPT !.at = "stats", !.grenade = grenade,
                                    !.set.equip = spSet'.equip]
                 IN d \in StatCalls /\ d.at = "stats"
      <3>1. spSet'.equip \in StatLevels
        BY DEF Settings
      <3>2. [r.set EXCEPT !.equip = spSet'.equip] \in [Settings -> StatLevels]
        BY <3>1 DEF StatCalls
      <3>3. QED  BY <3>2 DEF StatCalls
    <2>2. \A d \in new : d \in StatCalls /\ d.at = "stats"
      BY <2>1
    <2>3. spOut' = out \union new
      BY <1>2 DEF Proceed
    <2>4. QED  BY <2>2, <2>3 DEF CallsAreOut
  <1>3. QED  BY <1>1, <1>2

(* A refresh asks anew, whatever is out.                                    *)
LEMMA RefreshKeeps ==
  ASSUME Selector, CallsAreOut(spOut), spFitted' \in Grenades, spFull' \in BOOLEAN,
         spSet' \in [Settings -> StatLevels], NEW k \in Nat, Refresh(k)
  PROVE  Selector' /\ CallsAreOut(spOut')
  <1> DEFINE ns == {m \in Numbers(spOut) : Cardinality({i \in Numbers(spOut) : i <= m}) <= k}
             rs == {[n |-> n, at |-> "grenades", fitted |-> spFitted',
                     grenade |-> NoGrenade, full |-> spFull', set |-> spSet'] : n \in ns}
  <1>1. rs \subseteq StatCalls /\ \A r \in rs : r.fitted = spFitted'
    <2>1. NoGrenade \in Grenades
      BY DEF Grenades
    <2>2. \A n \in ns : n \in 1 .. MaxRefreshes
      BY DEF Numbers
    <2> HIDE DEF ns
    <2>3. QED  BY <2>1, <2>2 DEF StatCalls
  <1> HIDE DEF rs
  <1>2. CASE spFitted' = NoGrenade
    <2>1. Proceed(rs, spGrenade, NoGrenade, spOut)
      BY <1>2 DEF Refresh, rs
    <2>2. CallsAreOut(spOut')
      BY <1>1, <2>1, ProceedKeeps DEF Selector
    <2>3. Selector'
      BY <1>2 DEF Refresh, Selector, Grenades
    <2>4. QED  BY <2>2, <2>3
  <1>3. CASE spFitted' # NoGrenade /\ NeedsList(spFitted')
    <2>1. spFitted' \in Calibers
      BY <1>3 DEF Grenades
    <2>2. spOut' = spOut \union rs
      BY <1>3 DEF Refresh, rs
    <2>3. CallsAreOut(spOut')
      BY <1>1, <2>1, <2>2 DEF CallsAreOut
    <2>4. Selector'
      BY <1>3 DEF Refresh, Selector, Grenades
    <2>5. QED  BY <2>3, <2>4
  <1>4. CASE spFitted' # NoGrenade /\ ~NeedsList(spFitted')
    <2>1. Proceed(rs, spGrenade, spMap, spOut)
      BY <1>4 DEF Refresh, rs
    <2>2. CallsAreOut(spOut')
      BY <1>1, <2>1, ProceedKeeps DEF Selector
    <2>3. Selector'
      BY <1>4 DEF Refresh, Selector
    <2>4. QED  BY <2>2, <2>3
  <1>5. QED  BY <1>2, <1>3, <1>4

(* A click outside closes the popover and nothing else.                     *)
LEMMA ClickAwayKeeps ==
  ASSUME Panel, ClickAway,
         UNCHANGED <<spLast, spSet, spPanel, spSlider, spBox, spWired>>,
         spFitted' \in Grenades, spFull' \in BOOLEAN, spView' \in {"build", "price"},
         spActs' \in 0 .. MaxStatActs
  PROVE  Panel'
  BY DEF Panel, ClickAway, spPopover, PopoverIsOfTheStats, FieldsAgree

(* The user's acts are counted within their bound.                          *)
LEMMA ActCounts == Panel /\ StatAct => spActs' \in 0 .. MaxStatActs
  BY StatAssumption DEF Panel, StatAct

(* One step per operation on the panel.                                     *)
LEMMA StatsSteps == StatsInv /\ [StatsNext]_spVars => StatsInv'
  <1> SUFFICES ASSUME Panel, Selector, CallsAreOut(spOut), [StatsNext]_spVars
               PROVE  Panel' /\ Selector' /\ CallsAreOut(spOut')
    BY StatsParts DEF StatsInv, StatsAreShown, StatsTypeOK, Panel, Selector, CallsAreOut, StatCalls
  <1> USE DEF spControls, spSelector, spRequests, spPopover
  <1>1. ASSUME NEW r \in spOut, GrenadesArrive(r) PROVE Panel' /\ Selector' /\ CallsAreOut(spOut')
    <2>1. r \in StatCalls /\ r.fitted \in Calibers /\ CallsAreOut(spOut \ {r})
      BY <1>1 DEF CallsAreOut, GrenadesArrive
    <2>2. Selector'
      BY <1>1, <2>1 DEF GrenadesArrive, Selector, Grenades
    <2>3. CallsAreOut(spOut')
      BY <1>1, <2>1, <2>2, ProceedKeeps DEF GrenadesArrive, Selector, Panel
    <2>4. Panel'
      BY <1>1 DEF GrenadesArrive, Panel, PopoverIsOfTheStats, FieldsAgree
    <2>5. QED  BY <2>2, <2>3, <2>4
  <1>2. ASSUME NEW r \in spOut, GrenadesFail(r) PROVE Panel' /\ Selector' /\ CallsAreOut(spOut')
    <2>1. r \in StatCalls /\ CallsAreOut(spOut \ {r})
      BY <1>2 DEF CallsAreOut, GrenadesFail
    <2>2. Selector'
      BY <1>2 DEF GrenadesFail, Selector
    <2>3. CallsAreOut(spOut')
      BY <1>2, <2>1, ProceedKeeps DEF GrenadesFail, Selector, Panel
    <2>4. Panel'
      BY <1>2 DEF GrenadesFail, Panel, PopoverIsOfTheStats, FieldsAgree
    <2>5. QED  BY <2>2, <2>3, <2>4
  <1>3. ASSUME NEW r \in spOut, StatsArrive(r) PROVE Panel' /\ Selector' /\ CallsAreOut(spOut')
    <2>1. r \in StatCalls
      BY DEF CallsAreOut
    <2>2. Answer(r) \in Totals
      BY <2>1 DEF Answer, Totals, StatCalls, Grenades
    <2>3. spWired' \in [Settings -> 0 .. MaxWired]
      BY <1>3, StatAssumption DEF StatsArrive, Panel
    <2>4. Selector' /\ CallsAreOut(spOut')
      BY <1>3 DEF StatsArrive, Selector, CallsAreOut
    <2>5. Panel'
      BY <1>3, <2>2, <2>3 DEF StatsArrive, Panel, PopoverIsOfTheStats, FieldsAgree
    <2>6. QED  BY <2>4, <2>5
  <1>4. ASSUME NEW r \in spOut, StatsFail(r) PROVE Panel' /\ Selector' /\ CallsAreOut(spOut')
    BY <1>4 DEF StatsFail, Selector, CallsAreOut, Panel, PopoverIsOfTheStats, FieldsAgree
  <1>5. ASSUME NEW p \in spPricing, PricesShown(p) PROVE Panel' /\ Selector' /\ CallsAreOut(spOut')
    BY <1>5 DEF PricesShown, Selector, CallsAreOut, Panel, PopoverIsOfTheStats, FieldsAgree
  <1>6. ASSUME NEW c \in Grenades, Fit(c) PROVE Panel' /\ Selector' /\ CallsAreOut(spOut')
    BY <1>6, RefreshKeeps, ClickAwayKeeps, ActCounts DEF Fit, Panel
  <1>7. ASSUME NEW g \in Grenades, ChooseGrenade(g) PROVE Panel' /\ Selector' /\ CallsAreOut(spOut')
    <2> DEFINE r == [n |-> CHOOSE n \in Numbers(spOut) : TRUE, at |-> "stats",
                     fitted |-> spFitted, grenade |-> g, full |-> spFull, set |-> spSet]
    <2>1. r \in StatCalls
      <3>1. (CHOOSE n \in Numbers(spOut) : TRUE) \in 1 .. MaxRefreshes
        BY <1>7 DEF ChooseGrenade, Numbers
      <3>2. QED  BY <3>1 DEF StatCalls, Panel
    <2>2. Proceed({r}, g, spMap, spOut)
      BY <1>7 DEF ChooseGrenade
    <2> HIDE DEF r
    <2>3. CallsAreOut(spOut')
      BY <1>7, <2>1, <2>2, ProceedKeeps DEF ChooseGrenade, Panel
    <2>4. Selector'
      BY <1>7 DEF ChooseGrenade, Selector, Panel, Grenades
    <2>5. Panel'
      BY <1>7, ClickAwayKeeps, ActCounts DEF ChooseGrenade, Panel
    <2>6. QED  BY <2>3, <2>4, <2>5
  <1>8. CASE ToggleFullMag
    BY <1>8, RefreshKeeps, ClickAwayKeeps, ActCounts DEF ToggleFullMag, Panel
  <1>9. CASE ShowBuildView
    <2> DEFINE r == [n |-> CHOOSE n \in Numbers(spOut) : TRUE,
                     at |-> IF NeedsList(spFitted) THEN "grenades" ELSE "stats",
                     fitted |-> spFitted, grenade |-> spGrenade, full |-> spFull, set |-> spSet]
    <2>1. r \in StatCalls /\ (r.at = "grenades" => r.fitted \in Calibers)
      <3>1. (CHOOSE n \in Numbers(spOut) : TRUE) \in 1 .. MaxRefreshes
        BY <1>9 DEF ShowBuildView, Numbers
      <3>2. QED  BY <3>1 DEF StatCalls, Panel, Selector, NeedsList, Grenades
    <2>2. spOut' = spOut \union {r}
      BY <1>9 DEF ShowBuildView
    <2> HIDE DEF r
    <2>3. CallsAreOut(spOut')
      BY <2>1, <2>2 DEF CallsAreOut
    <2>4. Selector'
      BY <1>9 DEF ShowBuildView, Selector
    <2>5. Panel'
      BY <1>9, ClickAwayKeeps, ActCounts DEF ShowBuildView, Panel
    <2>6. QED  BY <2>3, <2>4, <2>5
  <1>10. CASE ShowPriceView
    <2>1. Panel'
      BY <1>10, ClickAwayKeeps, ActCounts DEF ShowPriceView, Panel
    <2>2. QED  BY <1>10, <2>1 DEF ShowPriceView, Selector, CallsAreOut
  <1>11. CASE ClickSlots
    <2>1. Panel'
      BY <1>11, ActCounts DEF ClickSlots, ClickAway, Panel, PopoverIsOfTheStats, FieldsAgree
    <2>2. QED  BY <1>11, <2>1 DEF ClickSlots, Selector, CallsAreOut
  <1>12. ASSUME NEW c \in Settings, ToggleSettings(c) PROVE Panel' /\ Selector' /\ CallsAreOut(spOut')
    <2>1. spActs' \in 0 .. MaxStatActs /\ MaxWired \in Nat \ {0}
      BY <1>12, ActCounts, StatAssumption DEF ToggleSettings
    <2>2. spPanel[c] = "closed" => Panel'
      <3>1. PopoverIsOfTheStats' /\ spPop' \in {"none", "on", "closing"} /\ spPopOpen' \in BOOLEAN
        BY <1>12 DEF ToggleSettings, ClickAway, Panel, PopoverIsOfTheStats
      <3>2. UNCHANGED <<spPopOf, spFitted, spFull, spView, spLast, spSet>>
        BY <1>12 DEF ToggleSettings, ClickAway
      <3>3. spPanel[c] = "closed" =>
              /\ spPanel' = [spPanel EXCEPT ![c] = "open"]
              /\ spSlider' = [spSlider EXCEPT ![c] = spSet[c]]
              /\ spBox' = [spBox EXCEPT ![c] = spSet[c]]
              /\ spWired' = [spWired EXCEPT ![c] = 1]
        BY <1>12 DEF ToggleSettings
      <3>4. QED  BY <2>1, <3>1, <3>2, <3>3 DEF Panel, FieldsAgree
    <2>3. spPanel[c] # "closed" => Panel'
      <3>1. PopoverIsOfTheStats' /\ spPop' \in {"none", "on", "closing"} /\ spPopOpen' \in BOOLEAN
        BY <1>12 DEF ToggleSettings, ClickAway, Panel, PopoverIsOfTheStats
      <3>2. UNCHANGED <<spPopOf, spFitted, spFull, spView, spLast, spSet>>
        BY <1>12 DEF ToggleSettings, ClickAway
      <3>3. spPanel[c] # "closed" => /\ UNCHANGED <<spSlider, spBox, spWired>>
                                     /\ spPanel' = [spPanel EXCEPT ![c] = "closing"]
        BY <1>12 DEF ToggleSettings
      <3>4. QED  BY <2>1, <3>1, <3>2, <3>3 DEF Panel, FieldsAgree
    <2>4. Panel'
      BY <2>2, <2>3
    <2>5. QED  BY <1>12, <2>4 DEF ToggleSettings, Selector, CallsAreOut
  <1>13. ASSUME NEW c \in Settings, PanelRemoved(c) PROVE Panel' /\ Selector' /\ CallsAreOut(spOut')
    BY <1>13, StatAssumption
       DEF PanelRemoved, Panel, PopoverIsOfTheStats, FieldsAgree, Selector, CallsAreOut
  <1>14. ASSUME NEW c \in Settings, EmptyBox(c) PROVE Panel' /\ Selector' /\ CallsAreOut(spOut')
    BY <1>14, ActCounts
       DEF EmptyBox, Panel, PopoverIsOfTheStats, FieldsAgree, Selector, CallsAreOut
  <1>15. ASSUME NEW c \in Settings, LeaveBox(c) PROVE Panel' /\ Selector' /\ CallsAreOut(spOut')
    <2>1. Panel' /\ spWired[c] \in Nat
      BY <1>15, ActCounts, LeastIsALevel, StatAssumption
         DEF LeaveBox, Panel, PopoverIsOfTheStats, FieldsAgree
    <2>2. QED  BY <1>15, <2>1, RefreshKeeps DEF LeaveBox, Panel
  <1>16. ASSUME NEW c \in Settings, NEW v \in StatLevels, Adjust(c, v)
         PROVE  Panel' /\ Selector' /\ CallsAreOut(spOut')
    <2>1. Panel'
      BY <1>16, ActCounts DEF Adjust, PutSetting, ClickAway, Panel, PopoverIsOfTheStats, FieldsAgree
    <2>2. QED  BY <1>16, <2>1 DEF Adjust, Selector, CallsAreOut
  <1>17. ASSUME NEW v \in StatLevels, SetStrengthLevel(v)
         PROVE  Panel' /\ Selector' /\ CallsAreOut(spOut')
    <2>1. Panel'
      BY <1>17, ActCounts
         DEF SetStrengthLevel, PutSetting, Panel, PopoverIsOfTheStats, FieldsAgree, Settings
    <2>2. QED  BY <1>17, <2>1 DEF SetStrengthLevel, Selector, CallsAreOut
  <1>18. CASE PopButton
    BY <1>18, ActCounts DEF PopButton, Panel, PopoverIsOfTheStats, FieldsAgree, Selector, CallsAreOut
  <1>19. CASE PopDismissed
    <2>1. Panel'
      BY <1>19, ClickAwayKeeps, ActCounts DEF PopDismissed, Panel
    <2>2. QED  BY <1>19, <2>1 DEF PopDismissed, Selector, CallsAreOut
  <1>20. CASE PopoverGone
    BY <1>20 DEF PopoverGone, Panel, PopoverIsOfTheStats, FieldsAgree, Selector, CallsAreOut
  <1>21. CASE UNCHANGED spVars
    BY <1>21 DEF spVars, Panel, PopoverIsOfTheStats, FieldsAgree, Selector, CallsAreOut
  <1>22. QED
    BY <1>1, <1>2, <1>3, <1>4, <1>5, <1>6, <1>7, <1>8, <1>9, <1>10, <1>11, <1>12, <1>13, <1>14,
       <1>15, <1>16, <1>17, <1>18, <1>19, <1>20, <1>21 DEF StatsNext

(* The statistics panel (refreshStats and its panels): in every behaviour   *)
(* of StatsSpec, whatever refreshes overlap, the advanced stats are open    *)
(* exactly while their popover is, with the last totals, and an open        *)
(* settings panel shows the setting in force in both its fields.            *)
THEOREM StatsStayShown == StatsSpec => []StatsAreShown
  BY StatsStart, StatsSteps, PTL DEF StatsSpec, StatsInv

--------------------------------------------------------------------------------
(* Builder3D.                                                               *)

Builder3DSpec == Builder3DInit /\ [][Builder3DNext]_b3vars

SentBuilds == [build : Builds3D, slot : Keys3D, newGun : BOOLEAN]

ViewTypes ==
  /\ b3Build \in Builds3D \cup {NoBuild}
  /\ b3Active \in BOOLEAN /\ b3Ready \in BOOLEAN /\ b3Drawing \in BOOLEAN
  /\ b3Veil \in BOOLEAN /\ b3Scheduled \in BOOLEAN /\ b3Lost \in BOOLEAN
  /\ b3Holds \in Nat /\ b3Releases \in Nat
  /\ b3Draws \in Seq(SentBuilds)
  /\ b3Fetches \subseteq [slot : Slots3D, wanted : BOOLEAN]
  /\ b3Table \in Keys3D /\ b3Native \in Keys3D /\ b3LoadingKey \in Keys3D
  /\ b3InstallKey \in Keys3D /\ b3Spin \in Keys3D

(* The viewer works for a build only, and draws once it is ready.          *)
ViewIsOfABuild ==
  /\ b3Ready => b3Active
  /\ b3Active => b3Build # NoBuild
  /\ b3Draws # <<>> => b3Ready
  /\ b3Active /\ ~b3Ready => b3Shown = NoBuild /\ b3Synced = NoBuild /\ b3Drawing

(* What was sent last is drawn last, and is the page's build unless it is   *)
(* about to be sent.                                                        *)
LastSent ==
  /\ b3Active /\ b3Draws # <<>> => b3Draws[Len(b3Draws)].build = b3Synced
  /\ b3Active /\ b3Draws = <<>> /\ ~b3Lost => b3Shown = b3Synced
  /\ b3Ready /\ ~b3Scheduled /\ b3Edits = {} => b3Synced = b3Build
  /\ b3Ready /\ b3Synced = NoBuild => b3Scheduled

(* The reasons a veil has.                                                  *)
VeilHasAReason ==
  /\ b3Veil => ~b3Ready \/ b3Drawing \/ b3Holds > 0
  /\ b3Active /\ b3Drawing => b3Draws # <<>> \/ b3Synced = NoBuild
  /\ b3Active /\ b3Holds > 0 => b3Veil
  /\ b3Holds <= b3Releases

(* The reasons a slot's box has to spin.                                    *)
SpinHasAReason ==
  /\ b3LoadingKey # NoSlot3D => \E f \in b3Fetches : f.slot = b3LoadingKey
  /\ b3Spin # NoSlot3D =>
       /\ b3Ready
       /\ b3Fetches # {} \/ b3InstallKey # NoSlot3D
          \/ \E i \in DOMAIN b3Draws : b3Draws[i].slot # NoSlot3D
  /\ b3Ready /\ b3InstallKey # NoSlot3D => b3Edits # {} \/ b3Scheduled

ViewInv == ViewTypes /\ ViewIsOfABuild /\ LastSent /\ VeilHasAReason /\ SpinHasAReason

(* The view is closed at first.                                             *)
LEMMA ViewStarts == Builder3DInit => ViewInv
  <1>1. <<>> \in Seq(SentBuilds)
    OBVIOUS
  <1>2. ASSUME Builder3DInit PROVE ViewTypes
    <2>1. b3Draws = <<>>
      BY <1>2 DEF Builder3DInit
    <2>2. b3Draws \in Seq(SentBuilds)
      BY <2>1, <1>1, Zenon
    <2>3. QED  BY <1>2, <2>2 DEF Builder3DInit, ViewTypes, Keys3D
  <1>3. Builder3DInit => ViewIsOfABuild /\ LastSent /\ VeilHasAReason /\ SpinHasAReason
    BY DEF Builder3DInit, ViewIsOfABuild, LastSent, VeilHasAReason, SpinHasAReason
  <1>4. QED  BY <1>2, <1>3 DEF ViewInv

(* The invariant says what the run checks.                                  *)
LEMMA ViewHolds == ViewInv => ViewerCatchesUp
  <1> SUFFICES ASSUME ViewInv PROVE ViewerCatchesUp
    OBVIOUS
  <1>1. ViewShowsTheBuild
    BY DEF ViewInv, ViewIsOfABuild, LastSent, ViewShowsTheBuild
  <1>2. CoversEnd
    <2>1. (\E i \in DOMAIN b3Draws : b3Draws[i].slot # NoSlot3D) => b3Draws # <<>>
      BY DEF ViewInv, ViewTypes
    <2>2. QED
      BY <2>1 DEF ViewInv, ViewTypes, ViewIsOfABuild, LastSent, VeilHasAReason, SpinHasAReason, CoversEnd
  <1>3. QED  BY <1>1, <1>2 DEF ViewerCatchesUp

(* Lists that are dropped are as many, of the same slots.                   *)
LEMMA DroppedFetches ==
  ASSUME ViewInv
  PROVE  /\ Dropped \subseteq [slot : Slots3D, wanted : BOOLEAN]
         /\ (Dropped = {}) <=> (b3Fetches = {})
         /\ \A key : (\E f \in Dropped : f.slot = key) <=> (\E f \in b3Fetches : f.slot = key)
  <1>1. \A f \in b3Fetches : [f EXCEPT !.wanted = FALSE] \in [slot : Slots3D, wanted : BOOLEAN]
                             /\ [f EXCEPT !.wanted = FALSE].slot = f.slot
    BY DEF ViewInv, ViewTypes
  <1>2. Dropped \subseteq [slot : Slots3D, wanted : BOOLEAN]
    BY <1>1 DEF Dropped
  <1>3. ASSUME NEW key
        PROVE  (\E f \in Dropped : f.slot = key) <=> (\E f \in b3Fetches : f.slot = key)
    BY <1>1 DEF Dropped
  <1>4. (Dropped = {}) <=> (b3Fetches = {})
    BY DEF Dropped
  <1>5. QED  BY <1>2, <1>3, <1>4

(* The view opens, or stays as it is, over a build that is sent anew if it  *)
(* changed.                                                                 *)
LEMMA EnterKeeps ==
  ASSUME ViewInv, Enter3D, b3Build' \in Builds3D, UNCHANGED <<b3InstallKey, b3Edits>>,
         b3Scheduled' = TRUE \/ UNCHANGED <<b3Build, b3Scheduled>>
  PROVE  ViewInv'
  <1>1. b3Build' # NoBuild /\ b3Scheduled' \in BOOLEAN
    BY Builder3DConstants DEF Builds3D, ViewInv, ViewTypes
  <1>2. CASE b3Active
    <2>1. UNCHANGED <<b3Active, b3Ready, b3Veiled, b3Synced, b3Draws, b3Shown, b3Lost, b3Spin, b3Lists>>
      BY <1>2 DEF Enter3D
    <2>2. QED
      BY <1>1, <1>2, <2>1 DEF ViewInv, ViewTypes, ViewIsOfABuild, LastSent, VeilHasAReason,
         SpinHasAReason, b3Veiled, b3Lists
  <1>3. CASE ~b3Active
    <2>1. <<>> \in Seq(SentBuilds)
      OBVIOUS
    <2>2. ViewTypes'
      <3>1. b3Draws' = <<>>
        BY <1>3 DEF Enter3D
      <3>2. b3Draws' \in Seq(SentBuilds)
        BY <3>1, <2>1, Zenon
      <3>3. /\ b3Active' = TRUE /\ b3Ready' = FALSE /\ b3Drawing' = TRUE /\ b3Holds' = 0
            /\ b3Veil' = TRUE /\ b3Lost' = FALSE /\ b3Spin' = NoSlot3D /\ b3Table' = NoSlot3D
            /\ UNCHANGED <<b3Releases, b3Native, b3Fetches, b3LoadingKey>>
        BY <1>3 DEF Enter3D
      <3>4. QED  BY <1>1, <3>2, <3>3 DEF ViewInv, ViewTypes, Keys3D
    <2>3. ViewIsOfABuild' /\ LastSent' /\ VeilHasAReason' /\ SpinHasAReason'
      BY <1>1, <1>3 DEF Enter3D, ViewInv, ViewTypes, ViewIsOfABuild, LastSent, VeilHasAReason,
         SpinHasAReason
    <2>4. QED  BY <2>2, <2>3 DEF ViewInv
  <1>4. QED  BY <1>2, <1>3

(* The view closes, or is closed.                                           *)
LEMMA LeaveKeeps ==
  ASSUME ViewInv, Leave3D, b3Build' \in Builds3D \cup {NoBuild}, UNCHANGED <<b3InstallKey, b3Edits>>,
         b3Scheduled' \in BOOLEAN
  PROVE  ViewInv'
  <1>1. CASE b3Active
    <2>1. <<>> \in Seq(SentBuilds)
      OBVIOUS
    <2>2. ViewTypes'
      BY <1>1, <2>1, DroppedFetches DEF Leave3D, ClosePicker, ViewInv, ViewTypes, Keys3D
    <2>3. ViewIsOfABuild' /\ LastSent' /\ VeilHasAReason' /\ SpinHasAReason'
      BY <1>1 DEF Leave3D, ClosePicker, ViewInv, ViewTypes, ViewIsOfABuild, LastSent,
         VeilHasAReason, SpinHasAReason
    <2>4. QED  BY <2>2, <2>3 DEF ViewInv
  <1>2. CASE ~b3Active
    <2>1. UNCHANGED <<b3Active, b3Ready, b3Veiled, b3Synced, b3Draws, b3Shown, b3Lost, b3Spin, b3Lists>>
      BY <1>2 DEF Leave3D
    <2>2. QED
      BY <1>2, <2>1 DEF ViewInv, ViewTypes, ViewIsOfABuild, LastSent, VeilHasAReason,
         SpinHasAReason, b3Veiled, b3Lists
  <1>3. QED  BY <1>1, <1>2

(* What the viewer was sent, after its oldest drawing was answered.         *)
LEMMA OldestAnswered ==
  ASSUME ViewInv, b3Draws # <<>>
  PROVE  /\ Tail(b3Draws) \in Seq(SentBuilds) /\ Head(b3Draws) \in SentBuilds
         /\ b3Active /\ b3Ready
         /\ Tail(b3Draws) = <<>> => IsLatest(Head(b3Draws))
         /\ Tail(b3Draws) # <<>> => Tail(b3Draws)[Len(Tail(b3Draws))].build = b3Synced
         /\ (\E i \in DOMAIN b3Draws : b3Draws[i].slot # NoSlot3D) =>
              \/ Head(b3Draws).slot # NoSlot3D
              \/ \E i \in DOMAIN Tail(b3Draws) : Tail(b3Draws)[i].slot # NoSlot3D
  <1>1. b3Draws \in Seq(SentBuilds) /\ b3Active /\ b3Ready /\ b3Draws[Len(b3Draws)].build = b3Synced
    BY DEF ViewInv, ViewTypes, ViewIsOfABuild, LastSent
  <1>2. /\ Tail(b3Draws) \in Seq(SentBuilds) /\ Head(b3Draws) \in SentBuilds
        /\ Len(Tail(b3Draws)) = Len(b3Draws) - 1 /\ Head(b3Draws) = b3Draws[1]
        /\ \A j \in DOMAIN Tail(b3Draws) : Tail(b3Draws)[j] = b3Draws[j + 1]
    BY <1>1, HeadAndTail
  <1>3. Tail(b3Draws) = <<>> => IsLatest(Head(b3Draws))
    <2>0. Len(<<>>) = 0
      OBVIOUS
    <2>1. Tail(b3Draws) = <<>> => Len(Tail(b3Draws)) = 0
      BY <2>0, Zenon
    <2>3. Tail(b3Draws) = <<>> => Len(b3Draws) = 1
      BY <1>1, <1>2, <2>1
    <2>2. QED  BY <1>1, <1>2, <2>3 DEF IsLatest
  <1>4. Tail(b3Draws) # <<>> => Tail(b3Draws)[Len(Tail(b3Draws))].build = b3Synced
    BY <1>1, <1>2
  <1>5. ASSUME NEW i \in DOMAIN b3Draws, b3Draws[i].slot # NoSlot3D
        PROVE  \/ Head(b3Draws).slot # NoSlot3D
               \/ \E j \in DOMAIN Tail(b3Draws) : Tail(b3Draws)[j].slot # NoSlot3D
    <2>1. CASE i = 1
      BY <2>1, <1>2, <1>5
    <2>2. CASE i # 1
      <3>1. i - 1 \in DOMAIN Tail(b3Draws) /\ (i - 1) + 1 = i
        BY <2>2, <1>1, <1>2
      <3>2. QED  BY <3>1, <1>2, <1>5
    <2>3. QED  BY <2>1, <2>2
  <1>6. QED  BY <1>1, <1>2, <1>3, <1>4, <1>5

(* The build is sent, or found to be the one that was sent.                 *)
LEMMA SyncKeeps ==
  ASSUME ViewInv, Sync3D
  PROVE  ViewInv'
  <1> USE DEF ViewInv, ViewTypes, ViewIsOfABuild, LastSent, VeilHasAReason, SpinHasAReason
  <1>0. UNCHANGED <<b3Build, b3Active, b3Ready, b3Holds, b3Releases, b3Shown, b3Lost, b3Table,
                    b3LoadingKey, b3Edits>>
    BY DEF Sync3D, b3Page, b3Looks
  <1>1. CASE CanSync /\ IsNews(b3Build)
    <2> DEFINE sent == [build |-> b3Build, slot |-> b3InstallKey, newGun |-> NewGun(b3Build)]
    <2>1. /\ b3Draws' = Append(b3Draws, sent) /\ b3Synced' = b3Build /\ b3Drawing' = TRUE
          /\ b3Veil' = (b3Veil \/ b3InstallKey = NoSlot3D \/ NewGun(b3Build))
          /\ b3Native' = NoSlot3D /\ b3Fetches' = Dropped /\ b3Spin' = b3Spin
          /\ b3InstallKey' = NoSlot3D /\ b3Scheduled' = FALSE
      BY <1>1 DEF Sync3D, SendBuild
    <2>2. sent \in SentBuilds /\ sent.build = b3Build /\ sent.slot = b3InstallKey /\ b3Ready /\ b3Active
          /\ b3Build # NoBuild
      BY <1>1 DEF CanSync, SentBuilds, NewGun, Keys3D
    <2> HIDE DEF sent
    <2>3. /\ Append(b3Draws, sent) \in Seq(SentBuilds) /\ Append(b3Draws, sent) # <<>>
          /\ Len(Append(b3Draws, sent)) = Len(b3Draws) + 1
          /\ \A j \in DOMAIN b3Draws : Append(b3Draws, sent)[j] = b3Draws[j]
          /\ Append(b3Draws, sent)[Len(b3Draws) + 1] = sent
      BY <2>2, AppendLast
    <2>4. ViewTypes' /\ ViewIsOfABuild' /\ VeilHasAReason'
      BY <1>0, <2>1, <2>2, <2>3, DroppedFetches DEF Keys3D
    <2>5. LastSent'
      BY <1>0, <2>1, <2>2, <2>3
    <2>6. SpinHasAReason'
      <3>1. \A i \in DOMAIN b3Draws : i \in DOMAIN b3Draws' /\ b3Draws'[i] = b3Draws[i]
        BY <2>1, <2>3
      <3>2. Len(b3Draws) + 1 \in DOMAIN b3Draws' /\ b3Draws'[Len(b3Draws) + 1].slot = b3InstallKey
        BY <2>1, <2>2, <2>3
      <3>3. b3Spin # NoSlot3D => b3Fetches' # {} \/ \E i \in DOMAIN b3Draws' : b3Draws'[i].slot # NoSlot3D
        BY <3>1, <3>2, <2>1, DroppedFetches
      <3>4. QED  BY <1>0, <2>1, <2>2, <3>3, DroppedFetches
    <2>7. QED  BY <2>4, <2>5, <2>6
  <1>2. CASE CanSync /\ ~IsNews(b3Build)
    <2>1. /\ UNCHANGED <<b3Draws, b3Synced, b3Drawing, b3Veil, b3Native, b3Fetches>>
          /\ b3Spin' = IF b3InstallKey # NoSlot3D THEN NoSlot3D ELSE b3Spin
          /\ b3InstallKey' = NoSlot3D /\ b3Scheduled' = FALSE /\ b3Synced = b3Build
      BY <1>2 DEF Sync3D, NothingToDraw, IsNews
    <2>2. QED  BY <1>0, <1>2, <2>1 DEF CanSync, Keys3D
  <1>3. CASE ~CanSync
    <2>1. /\ UNCHANGED <<b3Draws, b3Synced, b3Drawing, b3Veil, b3Native, b3Fetches, b3Spin,
                         b3InstallKey>>
          /\ b3Scheduled' = FALSE /\ ~b3Ready
      BY <1>3 DEF Sync3D, CanSync
    <2>2. QED  BY <1>0, <2>1
  <1>4. QED  BY <1>1, <1>2, <1>3

(* A drawing is answered, or fails.                                         *)
LEMMA DrawnKeeps ==
  ASSUME ViewInv, BuildDrawn \/ BuildFails
  PROVE  ViewInv'
  <1> USE DEF ViewInv, ViewTypes, ViewIsOfABuild, LastSent, VeilHasAReason, SpinHasAReason
  <1>1. b3Draws # <<>> /\ b3Draws' = Tail(b3Draws)
    BY DEF BuildDrawn, BuildFails
  <1>2. PICK draw : draw = Head(b3Draws)
    OBVIOUS
  <1>3. UNCHANGED <<b3Build, b3Active, b3Ready, b3Holds, b3Releases, b3Synced, b3Scheduled,
                    b3Table, b3Native, b3Fetches, b3LoadingKey, b3InstallKey, b3Edits>>
    BY DEF BuildDrawn, BuildFails, b3Page, b3Lists, b3Picks
  <1>4. /\ b3Drawing' = (b3Drawing /\ ~IsLatest(draw))
        /\ b3Veil' = IF IsLatest(draw) THEN Lifted(b3Ready, FALSE, b3Holds) ELSE b3Veil
        /\ \/ b3Shown' = draw.build /\ b3Lost' = FALSE /\ b3Spin' = NoSlot3D
           \/ /\ b3Shown' = b3Shown /\ b3Lost' = TRUE
              /\ b3Spin' = IF draw.slot # NoSlot3D THEN NoSlot3D ELSE b3Spin
    BY <1>2 DEF BuildDrawn, BuildFails
  <1>5. /\ b3Draws' \in Seq(SentBuilds) /\ draw \in SentBuilds /\ b3Active /\ b3Ready
        /\ b3Draws' = <<>> => IsLatest(draw)
        /\ b3Draws' # <<>> => b3Draws'[Len(b3Draws')].build = b3Synced
        /\ (\E i \in DOMAIN b3Draws : b3Draws[i].slot # NoSlot3D) =>
              \/ draw.slot # NoSlot3D
              \/ \E i \in DOMAIN b3Draws' : b3Draws'[i].slot # NoSlot3D
    BY <1>1, <1>2, OldestAnswered
  <1>6. ViewTypes' /\ ViewIsOfABuild'
    BY <1>3, <1>4, <1>5 DEF Keys3D, Lifted, IsLatest
  <1>7. LastSent'
    BY <1>3, <1>4, <1>5 DEF IsLatest
  <1>8. VeilHasAReason'
    BY <1>3, <1>4, <1>5 DEF Lifted
  <1>9. SpinHasAReason'
    BY <1>3, <1>4, <1>5
  <1>10. QED  BY <1>6, <1>7, <1>8, <1>9

(* One step per operation on the view.                                      *)
LEMMA ViewSteps ==
  ASSUME ViewInv, [Builder3DNext]_b3vars
  PROVE  ViewInv'
  <1> USE DEF ViewInv, ViewTypes, ViewIsOfABuild, LastSent, VeilHasAReason, SpinHasAReason,
              b3Page, b3Veiled, b3Sync, b3Lists, b3Picks, b3Looks
  <1>1. CASE OpenGun
    BY <1>1, EnterKeeps, LeaveKeeps DEF OpenGun, OnGunOpen
  <1>2. CASE BackToGuns
    BY <1>2, LeaveKeeps DEF BackToGuns
  <1>3. CASE SetMode
    BY <1>3, EnterKeeps, LeaveKeeps DEF SetMode
  <1>4. CASE TogglePublish
    BY <1>4, EnterKeeps, LeaveKeeps DEF TogglePublish, OnGunOpen
  <1>5. CASE EditBuild
    <2>1. b3Build' \in Builds3D
      BY <1>5 DEF EditBuild, Builds3D
    <2>2. b3Build' # NoBuild
      BY <2>1, Builder3DConstants DEF Builds3D
    <2>3. QED  BY <1>5, <2>1, <2>2 DEF EditBuild
  <1>6. CASE HoldLoading
    BY <1>6 DEF HoldLoading
  <1>7. CASE SlotClick
    <2>1. PICK key \in Slots3D :
            \/ key \in {b3Table, b3Native} /\ ClosePicker /\ UNCHANGED b3Spin
            \/ /\ key \notin {b3Table, b3Native, b3LoadingKey} /\ b3Table' = key
               /\ IF b3Native = NoSlot3D THEN UNCHANGED <<b3Native, b3Fetches, b3LoadingKey>>
                  ELSE b3Native' = NoSlot3D /\ b3Fetches' = Dropped /\ b3LoadingKey' = NoSlot3D
               /\ UNCHANGED b3Spin
            \/ /\ key \notin {b3Table, b3Native, b3LoadingKey}
               /\ b3Fetches' = Dropped \cup {[slot |-> key, wanted |-> TRUE]}
               /\ b3LoadingKey' = key /\ b3Spin' = key /\ b3Table' = NoSlot3D
               /\ UNCHANGED b3Native
      BY <1>7 DEF SlotClick
    <2>2. b3Active /\ b3Ready
          /\ UNCHANGED <<b3Page, b3Active, b3Ready, b3Veiled, b3Sync, b3Picks, b3Looks>>
      BY <1>7 DEF SlotClick
    <2>3. CASE ~(b3Fetches' = Dropped \cup {[slot |-> key, wanted |-> TRUE]} /\ b3LoadingKey' = key)
      <3>1. /\ b3Spin' = b3Spin /\ b3Table' \in Keys3D /\ b3Native' \in Keys3D
            /\ \/ b3LoadingKey' = NoSlot3D /\ b3Fetches' = Dropped
               \/ b3LoadingKey' = b3LoadingKey /\ b3Fetches' = b3Fetches
        BY <2>1, <2>3 DEF ClosePicker, Keys3D
      <3>2. QED  BY <2>2, <3>1, DroppedFetches DEF Keys3D
    <2>4. CASE b3Fetches' = Dropped \cup {[slot |-> key, wanted |-> TRUE]} /\ b3LoadingKey' = key
      <3>1. /\ b3Fetches' \subseteq [slot : Slots3D, wanted : BOOLEAN]
            /\ \E f \in b3Fetches' : f.slot = b3LoadingKey'
        <4> DEFINE new == [slot |-> key, wanted |-> TRUE]
        <4>1. new \in [slot : Slots3D, wanted : BOOLEAN] /\ new.slot = key
          OBVIOUS
        <4> HIDE DEF new
        <4>2. b3Fetches' = Dropped \cup {new} /\ b3LoadingKey' = key
          BY <2>4 DEF new
        <4>3. QED  BY <4>1, <4>2, DroppedFetches
      <3>2. b3Table' \in Keys3D /\ b3Native' \in Keys3D /\ b3LoadingKey' \in Keys3D /\ b3Spin' \in Keys3D
        BY <2>1, <2>4 DEF ClosePicker, Keys3D
      <3>3. QED  BY <2>2, <3>1, <3>2
    <2>5. QED  BY <2>3, <2>4
  <1>8. CASE PartPick
    <2>1. b3Build' \in Builds3D
      BY <1>8 DEF PartPick, Builds3D
    <2>2. b3Build' # NoBuild
      BY <2>1, Builder3DConstants DEF Builds3D
    <2>3. QED  BY <1>8, <2>1, <2>2 DEF PartPick, Keys3D
  <1>9. CASE DismissPicker
    BY <1>9, DroppedFetches DEF DismissPicker, ClosePicker, Keys3D
  <1>10. CASE ModeEvent
    BY <1>10, DroppedFetches DEF ModeEvent, ClosePicker, Keys3D
  <1>11. CASE ViewerReady
    BY <1>11 DEF ViewerReady
  <1>12. CASE ViewerFails
    BY <1>12, LeaveKeeps DEF ViewerFails
  <1>13. CASE EditRendered
    BY <1>13 DEF EditRendered
  <1>14. CASE Sync3D
    BY <1>14, SyncKeeps
  <1>15. CASE BuildDrawn \/ BuildFails
    BY <1>15, DrawnKeeps
  <1>16. CASE ReleaseLoading
    BY <1>16 DEF ReleaseLoading, Lifted
  <1>17. CASE PartListArrives
    <2>1. PICK f \in b3Fetches : \E loaded \in {f.wanted, FALSE} :
            /\ b3Fetches' = b3Fetches \ {f}
            /\ b3LoadingKey' = IF b3LoadingKey = f.slot THEN NoSlot3D ELSE b3LoadingKey
            /\ IF loaded /\ b3Active
               THEN b3Native' = f.slot /\ b3Spin' = NoSlot3D
               ELSE b3Spin' = SpinAfterDrop(b3LoadingKey') /\ UNCHANGED b3Native
            /\ UNCHANGED <<b3Page, b3Active, b3Ready, b3Veiled, b3Sync, b3Table, b3Picks, b3Looks>>
      BY <1>17 DEF PartListArrives
    <2>2. /\ b3LoadingKey' # NoSlot3D => b3LoadingKey' = b3LoadingKey /\ b3LoadingKey # f.slot
          /\ b3Spin' \in {NoSlot3D, b3Spin}
          /\ b3Spin' # NoSlot3D => ~b3Ready \/ b3LoadingKey' # NoSlot3D
          /\ b3Native' \in Keys3D
      BY <2>1 DEF SpinAfterDrop, Keys3D
    <2>3. b3LoadingKey' # NoSlot3D => \E g \in b3Fetches' : g.slot = b3LoadingKey'
      BY <2>1, <2>2
    <2>4. QED  BY <2>1, <2>2, <2>3 DEF Keys3D
  <1>18. CASE ListClosed
    BY <1>18 DEF ListClosed, Keys3D
  <1>19. CASE UNCHANGED b3vars
    BY <1>19 DEF b3vars
  <1>20. QED
    BY <1>1, <1>2, <1>3, <1>4, <1>5, <1>6, <1>7, <1>8, <1>9, <1>10, <1>11, <1>12, <1>13, <1>14,
       <1>15, <1>16, <1>17, <1>18, <1>19 DEF Builder3DNext, Act3D, Answer3D

(* The 3D view (builder-3d.js): in every behaviour of Builder3DSpec, for    *)
(* any guns, slots, drawings and loads, a viewer that has drawn all it was  *)
(* sent shows the page's build, and veil and spinning box end with what     *)
(* they cover.                                                              *)
THEOREM ViewerAlwaysCatchesUp == Builder3DSpec => []ViewerCatchesUp
  <1>1. ViewInv /\ [Builder3DNext]_b3vars => ViewInv'
    BY ViewSteps
  <1>2. QED  BY ViewStarts, ViewHolds, <1>1, PTL DEF Builder3DSpec

--------------------------------------------------------------------------------
(* SlotTable, for any tree of slots, any preset and all bounds.             *)

SlotTableSpec == SlotTableInit /\ [][SlotTableNext]_stVars

(* The way to a slot, one slot at a time.                                   *)
LEMMA PathParts ==
  ASSUME NEW s \in Slots
  PROVE  /\ Path[s] \in Seq(Slots) /\ Len(Path[s]) \in Nat \ {0} /\ Path[s][Len(Path[s])] = s
         /\ \A n \in 1..Len(Path[s]) :
              /\ Path[s][n] \in Slots /\ Len(Path[Path[s][n]]) = n
              /\ \A i \in 1..n : Path[Path[s][n]][i] = Path[s][i]
  <1>1. Path \in [Slots -> Seq(Slots)] /\ Path[s] # <<>> /\ Last(Path[s]) = s
    BY SlotConstants
  <1>2. Path[s] \in Seq(Slots) /\ Len(Path[s]) \in Nat \ {0} /\ DOMAIN Path[s] = 1..Len(Path[s])
    BY <1>1
  <1>3. Path[s][Len(Path[s])] = s
    BY <1>1 DEF Last
  <1>4. ASSUME NEW n \in 1..Len(Path[s])
        PROVE  /\ Path[s][n] \in Slots /\ Len(Path[Path[s][n]]) = n
               /\ \A i \in 1..n : Path[Path[s][n]][i] = Path[s][i]
    <2>1. Path[Path[s][n]] = SubSeq(Path[s], 1, n)
      BY <1>2, SlotConstants
    <2>2. Path[s][n] \in Slots
      BY <1>2
    <2> DEFINE p == Path[s]
    <2>3. p \in Seq(Slots) /\ n \in 1..Len(p)
      BY <1>2
    <2> HIDE DEF p
    <2>4. Len(SubSeq(p, 1, n)) = n /\ \A i \in 1..n : SubSeq(p, 1, n)[i] = p[i]
      BY <2>3
    <2>5. QED  BY <2>1, <2>2, <2>4 DEF p
  <1>5. QED  BY <1>2, <1>3, <1>4

(* s is above t, or t itself.                                               *)
LEMMA BelowParts ==
  ASSUME NEW s \in Slots, NEW t \in Slots
  PROVE  Below(s, t) <=> /\ Len(Path[s]) <= Len(Path[t])
                         /\ \A i \in 1..Len(Path[s]) : Path[s][i] = Path[t][i]
  <1> DEFINE p == Path[s]  q == Path[t]
  <1>1. p \in Seq(Slots) /\ q \in Seq(Slots) /\ Len(p) \in Nat /\ Len(q) \in Nat
    BY PathParts
  <1> HIDE DEF p, q
  <1>2. SubSeq(p, 1, Len(p)) \in Seq(Slots) /\ Len(SubSeq(p, 1, Len(p))) = Len(p)
        /\ \A i \in 1..Len(p) : SubSeq(p, 1, Len(p))[i] = p[i]
    BY <1>1
  <1>3. CASE Len(p) <= Len(q)
    <2>1. SubSeq(q, 1, Len(p)) \in Seq(Slots) /\ Len(SubSeq(q, 1, Len(p))) = Len(p)
          /\ \A i \in 1..Len(p) : SubSeq(q, 1, Len(p))[i] = q[i]
      BY <1>1, <1>3
    <2>2. SubSeq(p, 1, Len(p)) = SubSeq(q, 1, Len(p)) <=> \A i \in 1..Len(p) : p[i] = q[i]
      BY <1>2, <2>1
    <2>3. QED  BY <2>2, <1>3 DEF Below, IsPrefix, p, q
  <1>4. CASE ~(Len(p) <= Len(q))
    BY <1>4 DEF Below, IsPrefix, p, q
  <1>5. QED  BY <1>3, <1>4

(* A slot is in the tree below itself.                                      *)
LEMMA BelowItself ==
  ASSUME NEW s \in Slots
  PROVE  Below(s, s)
  BY BelowParts, PathParts

(* The slot under the gun.                                                  *)
LEMMA UnderTheGun ==
  ASSUME NEW s \in Slots
  PROVE  /\ Head(Path[s]) \in Slots /\ Below(Head(Path[s]), s)
         /\ Len(Path[s]) = 1 => Head(Path[s]) = s
         /\ Len(Path[s]) # 1 =>
              /\ Path[s][Len(Path[s]) - 1] \in Slots
              /\ Below(Head(Path[s]), Path[s][Len(Path[s]) - 1])
  <1> DEFINE h == Path[s][1]  n == Len(Path[s]) - 1  p == Path[s][n]
  <1>1. Path[s] \in Seq(Slots) /\ Len(Path[s]) \in Nat \ {0} /\ Path[s][Len(Path[s])] = s
    BY PathParts
  <1>2. Head(Path[s]) = h
    BY <1>1
  <1>3. h \in Slots /\ Len(Path[h]) = 1 /\ Path[h][1] = Path[s][1]
    <2>1. 1 \in 1..Len(Path[s])
      BY <1>1
    <2>2. /\ Path[s][1] \in Slots /\ Len(Path[Path[s][1]]) = 1
          /\ \A i \in 1..1 : Path[Path[s][1]][i] = Path[s][i]
      BY <2>1, PathParts
    <2>3. 1 \in 1..1
      OBVIOUS
    <2>4. QED  BY <2>2, <2>3
  <1>4. Below(h, s)
    BY <1>1, <1>3, BelowParts
  <1>5. ASSUME Len(Path[s]) # 1
        PROVE  p \in Slots /\ Below(h, p)
    <2>1. n \in 1..Len(Path[s]) /\ 1 \in 1..n
      <3>1. \A k \in Nat \ {0} : k # 1 => k - 1 \in 1..k /\ 1 \in 1..(k - 1)
        OBVIOUS
      <3>2. QED  BY <1>1, <1>5, <3>1
    <2>2. p \in Slots /\ Len(Path[p]) = n /\ \A i \in 1..n : Path[p][i] = Path[s][i]
      BY <2>1, PathParts
    <2>3. Path[p][1] = Path[s][1]
      BY <2>1, <2>2
    <2>4. Path[h][1] = Path[p][1]
      BY <1>3, <2>3
    <2> HIDE DEF p, h, n
    <2>5. QED  BY <1>3, <2>1, <2>2, <2>4, BelowParts
  <1>6. QED  BY <1>1, <1>2, <1>3, <1>4, <1>5

--------------------------------------------------------------------------------
(* The node that slot s is in, when born tells the nodes apart.             *)
NodeIn(born, s) ==
  IF Len(Path[s]) = 1 THEN born["root"] ELSE born[Path[s][Len(Path[s]) - 1]]

TreeShapes == [Slots -> BOOLEAN]
SlotPlaces == [slot : Slots \cup {NoSlot}, node : Nat]
SlotLoads  == [slot : Slots, node : Nat, stage : {"allowed", "batch"}, base : TreeShapes]
ComboCalls == [gen : Nat, last : SlotPlaces, root : Nat, settings : Nat]

SlotTypes ==
  /\ stEdits \in Nat /\ stBuild \in TreeShapes
  /\ stBorn \in [Slots \cup {"root"} -> Nat]
  /\ stTable \in [slot : Slots \cup {NoSlot}, view : {"list", "combo"}, rows : BOOLEAN]
  /\ stLast \in SlotPlaces
  /\ stItems \in [slot : Slots \cup {NoSlot}, base : TreeShapes]
  /\ stLoads \subseteq SlotLoads
  /\ stRedo \subseteq [last : SlotPlaces, slot : Slots, base : TreeShapes]
  /\ stCombo \in [gen : Nat, busy : BOOLEAN, items : SlotPlaces]
  /\ stComboCalls \subseteq ComboCalls
  /\ stSettings \in Nat /\ stMissed \in BOOLEAN

(* An edit makes nodes that nobody has seen before.                         *)
NodesAreOld ==
  /\ \A n \in Slots \cup {"root"} : stBorn[n] <= stEdits
  /\ stLast.node <= stEdits
  /\ \A l \in stLoads : l.node <= stEdits

(* A load is the only one, for the table on the page or none, and for       *)
(* another node than the last slot's; unless it was overtaken it brings the *)
(* candidates of the build as it is, and no other request is for its slot.  *)
LoadsFit(loads, table, last, born, build, redo, missed) ==
  /\ \A l \in loads : \A m \in loads : l = m
  /\ \A l \in loads :
       /\ table.slot \in {l.slot, NoSlot}
       /\ ~(last.slot = l.slot /\ last.node = NodeIn(born, l.slot))
       /\ ~missed => /\ \A r \in redo : r.last.slot # l.slot
                     /\ l.stage = "batch" => l.base = Emptied(build, l.slot)

(* The table of the last slot is on the page, and the slot in the build.    *)
Kept(last, table, born, missed) ==
  table.slot = last.slot /\ last.slot # NoSlot /\ last.node = NodeIn(born, last.slot) /\ ~missed

(* The last slot's items are those of the build as it is, or the request    *)
(* that is out brings them.                                                 *)
ItemsFit(items, last, redo, table, born, build, missed) ==
  /\ last.slot # NoSlot => items.slot = last.slot
  /\ \A r \in redo : r.slot = r.last.slot /\ \A q \in redo : q = r
  /\ Kept(last, table, born, missed) =>
       /\ \A r \in redo : r.last = last => r.base = Emptied(build, last.slot)
       /\ (\A r \in redo : r.last # last) => items.base = Emptied(build, last.slot)

(* Combinations are of the last slot, or a request for them is out.         *)
CombosFit(table, last, loads, calls, combo, root, missed) ==
  /\ \A c \in calls : c.gen = combo.gen /\ \A d \in calls : d = c
  /\ table.view = "combo" =>
       /\ table.slot # NoSlot /\ last.slot # NoSlot
       /\ \A c \in calls : c.root = root
       /\ ~missed => /\ loads = {} /\ \A c \in calls : c.last = last
                     /\ IF combo.items = NoCombos THEN combo.busy /\ calls # {}
                        ELSE combo.items = last

SlotInv ==
  /\ SlotTypes /\ NodesAreOld
  /\ LoadsFit(stLoads, stTable, stLast, stBorn, stBuild, stRedo, stMissed)
  /\ ItemsFit(stItems, stLast, stRedo, stTable, stBorn, stBuild, stMissed)
  /\ CombosFit(stTable, stLast, stLoads, stComboCalls, stCombo, stBorn["root"], stMissed)

(* Slots emptied and filled.                                                *)
LEMMA EmptiedParts ==
  ASSUME NEW build \in TreeShapes, NEW s \in Slots
  PROVE  /\ Emptied(build, s) \in TreeShapes /\ WithPart(build, s) \in TreeShapes
         /\ Emptied(WithPart(build, s), s) = Emptied(build, s)
  <1>1. Emptied(build, s) \in TreeShapes
    BY DEF Emptied, TreeShapes, Below, IsPrefix
  <1>2. WithPart(build, s) \in TreeShapes
    BY <1>1 DEF WithPart, TreeShapes
  <1>3. \A t \in Slots : WithPart(build, s)[t] = IF t = s THEN TRUE ELSE Emptied(build, s)[t]
    BY <1>1 DEF WithPart, TreeShapes
  <1>4. ASSUME NEW t \in Slots
        PROVE  (WithPart(build, s)[t] /\ ~Below(s, t)) = (build[t] /\ ~Below(s, t))
    <2>1. Emptied(build, s)[t] = (build[t] /\ ~Below(s, t))
      BY DEF Emptied
    <2>2. t = s => Below(s, t)
      BY BelowItself
    <2>3. build[t] \in BOOLEAN /\ WithPart(build, s)[t] \in BOOLEAN /\ Below(s, t) \in BOOLEAN
      BY <1>2 DEF TreeShapes, Below, IsPrefix
    <2>4. QED  BY <1>3, <2>1, <2>2, <2>3
  <1>5. Emptied(WithPart(build, s), s) = Emptied(build, s)
    <2>1. [t \in Slots |-> WithPart(build, s)[t] /\ ~Below(s, t)] = [t \in Slots |-> build[t] /\ ~Below(s, t)]
      BY <1>4, Zenon
    <2>2. QED  BY <2>1, Zenon DEF Emptied
  <1>6. QED  BY <1>1, <1>2, <1>5

(* The tree starts as the preset, nothing is open.                          *)
LEMMA SlotStarts == SlotTableInit => SlotInv
  <1> SUFFICES ASSUME SlotTableInit PROVE SlotInv
    OBVIOUS
  <1>1. Stock \in TreeShapes
    BY SlotConstants DEF TreeBuilds, TreeShapes
  <1>2. SlotTypes
    BY <1>1 DEF SlotTableInit, SlotTypes, TreeShapes, SlotPlaces, NoTable, NoLast, NoItems, NoCombos
  <1>3. NodesAreOld
    BY DEF SlotTableInit, NodesAreOld, NoLast
  <1>4. LoadsFit(stLoads, stTable, stLast, stBorn, stBuild, stRedo, stMissed)
    BY DEF SlotTableInit, LoadsFit
  <1>5. ItemsFit(stItems, stLast, stRedo, stTable, stBorn, stBuild, stMissed)
    BY DEF SlotTableInit, ItemsFit, Kept, NoLast
  <1>6. CombosFit(stTable, stLast, stLoads, stComboCalls, stCombo, stBorn["root"], stMissed)
    BY DEF SlotTableInit, CombosFit, NoTable
  <1>7. QED  BY <1>2, <1>3, <1>4, <1>5, <1>6 DEF SlotInv

(* The invariant says what the run checks.                                  *)
LEMMA SlotHolds == SlotInv => SlotTableIsRight
  <1> SUFFICES ASSUME SlotInv PROVE SlotTableIsRight
    OBVIOUS
  <1>1. /\ SlotTypes
        /\ ItemsFit(stItems, stLast, stRedo, stTable, stBorn, stBuild, stMissed)
        /\ CombosFit(stTable, stLast, stLoads, stComboCalls, stCombo, stBorn["root"], stMissed)
    BY DEF SlotInv
  <1>2. ASSUME Settled, ~stMissed, Rows, stTable.slot = stLast.slot, Attached
        PROVE  stItems = [slot |-> stLast.slot, base |-> Emptied(stBuild, stLast.slot)]
    <2>1. stLast.slot # NoSlot /\ stLast.node = NodeIn(stBorn, stLast.slot)
      BY <1>2 DEF Rows, Attached, ParentNode, NodeIn
    <2>2. Kept(stLast, stTable, stBorn, stMissed)
      BY <1>2, <2>1 DEF Kept
    <2>3. stItems.slot = stLast.slot /\ stItems.base = Emptied(stBuild, stLast.slot)
      BY <1>1, <1>2, <2>1, <2>2 DEF ItemsFit, Settled
    <2>4. stItems = [slot |-> stItems.slot, base |-> stItems.base]
      BY <1>1 DEF SlotTypes
    <2>5. QED  BY <2>3, <2>4, Zenon
  <1>3. ListedStatsMatchTheBuild
    BY <1>2 DEF ListedStatsMatchTheBuild
  <1>4. CombosAreOfTheOpenSlot
    BY <1>1 DEF CombosAreOfTheOpenSlot, CombosFit
  <1>5. QED  BY <1>3, <1>4 DEF SlotTableIsRight

(* What an edit at slot s does: the build has its type, what is in s or     *)
(* below gets new nodes, and everything else keeps its node.                *)
LEMMA EditMakesNodes ==
  ASSUME SlotTypes, NodesAreOld, NEW s \in Slots, NEW build \in TreeShapes, Edited(build, s)
  PROVE  /\ stEdits' \in Nat /\ stEdits' = stEdits + 1 /\ stBuild' \in TreeShapes
         /\ stBorn' \in [Slots \cup {"root"} -> Nat] /\ stBorn'["root"] = stBorn["root"]
         /\ \A n \in Slots \cup {"root"} : stBorn'[n] <= stEdits'
         /\ \A n \in Slots : stBorn'[n] = IF Below(s, n) THEN stEdits' ELSE stBorn[n]
         /\ \A u \in Slots : NodeIn(stBorn', u) \in {NodeIn(stBorn, u), stEdits'}
  <1>1. /\ stEdits' = stEdits + 1 /\ stBuild' = build
        /\ stBorn' = [n \in DOMAIN stBorn |->
                        IF n # "root" /\ Below(s, n) THEN stEdits' ELSE stBorn[n]]
    BY DEF Edited
  <1>2. stEdits \in Nat /\ stBorn \in [Slots \cup {"root"} -> Nat] /\ DOMAIN stBorn = Slots \cup {"root"}
    BY DEF SlotTypes
  <1>3. stBorn' \in [Slots \cup {"root"} -> Nat]
    BY <1>1, <1>2
  <1>4. "root" \notin Slots
    BY SlotConstants
  <1>5. stBorn'["root"] = stBorn["root"]
    BY <1>1, <1>2
  <1>6. \A n \in Slots : stBorn'[n] = IF Below(s, n) THEN stEdits' ELSE stBorn[n]
    BY <1>1, <1>2, <1>4
  <1>7. \A n \in Slots \cup {"root"} : stBorn'[n] <= stEdits'
    BY <1>1, <1>2, <1>5, <1>6 DEF NodesAreOld
  <1>8. \A u \in Slots : NodeIn(stBorn', u) \in {NodeIn(stBorn, u), stEdits'}
    BY <1>5, <1>6, UnderTheGun DEF NodeIn
  <1>9. QED  BY <1>1, <1>2, <1>3, <1>5, <1>6, <1>7, <1>8

(* An edit that leaves the table open: the last slot's own place is not     *)
(* changed, or it has another node now.                                     *)
LEMMA EditKeepsSlots ==
  ASSUME SlotInv, NEW s \in Slots, NEW build \in TreeShapes, Edited(build, s),
         stMissed' = (stMissed \/ Loading1), UNCHANGED <<stTable, stLast, stItems, stRedo, stCombo>>,
         stLast.node = NodeIn(stBorn, stLast.slot), stLast.slot \in Slots,
         NodeIn(stBorn', stLast.slot) # stEdits' =>
           Emptied(build, stLast.slot) = Emptied(stBuild, stLast.slot)
  PROVE  SlotInv'
  <1>1. /\ SlotTypes /\ NodesAreOld
        /\ LoadsFit(stLoads, stTable, stLast, stBorn, stBuild, stRedo, stMissed)
        /\ ItemsFit(stItems, stLast, stRedo, stTable, stBorn, stBuild, stMissed)
        /\ CombosFit(stTable, stLast, stLoads, stComboCalls, stCombo, stBorn["root"], stMissed)
    BY DEF SlotInv
  <1>2. /\ stEdits' \in Nat /\ stEdits' = stEdits + 1 /\ stBuild' \in TreeShapes
        /\ stBorn' \in [Slots \cup {"root"} -> Nat] /\ stBorn'["root"] = stBorn["root"]
        /\ \A n \in Slots \cup {"root"} : stBorn'[n] <= stEdits'
        /\ \A u \in Slots : NodeIn(stBorn', u) \in {NodeIn(stBorn, u), stEdits'}
    BY <1>1, EditMakesNodes, Zenon
  <1>3. /\ stBuild' = build /\ UNCHANGED <<stLoads, stComboCalls, stSettings>>
        /\ UNCHANGED <<stTable, stLast, stItems, stRedo, stCombo>>
    BY DEF Edited
  <1>4. stMissed' \in BOOLEAN /\ (stMissed => stMissed') /\ (stLoads # {} => stMissed')
    BY <1>1 DEF SlotTypes, Loading1
  <1>5. stLast.node <= stEdits /\ stEdits \in Nat /\ stLast.node \in Nat
    BY <1>1 DEF NodesAreOld, SlotTypes, SlotPlaces
  <1>6. stLast.node # stEdits'
    BY <1>2, <1>5
  <1>7. SlotTypes'
    BY <1>1, <1>2, <1>3, <1>4 DEF SlotTypes
  <1>8. NodesAreOld'
    <2>1. \A l \in stLoads : l.node <= stEdits'
      BY <1>1, <1>2 DEF NodesAreOld, SlotTypes, SlotLoads
    <2>2. QED  BY <1>2, <1>3, <1>5, <2>1 DEF NodesAreOld
  <1>9. LoadsFit(stLoads', stTable', stLast', stBorn', stBuild', stRedo', stMissed')
    BY <1>1, <1>2, <1>3, <1>4, <1>6 DEF LoadsFit, SlotTypes, SlotLoads
  <1>10. ItemsFit(stItems', stLast', stRedo', stTable', stBorn', stBuild', stMissed')
    BY <1>1, <1>2, <1>3, <1>4, <1>6 DEF ItemsFit, Kept
  <1>11. CombosFit(stTable', stLast', stLoads', stComboCalls', stCombo', stBorn'["root"], stMissed')
    BY <1>1, <1>2, <1>3, <1>4 DEF CombosFit
  <1>12. QED  BY <1>7, <1>8, <1>9, <1>10, <1>11 DEF SlotInv

(* A removed part: the table is closed, or its items are asked for again.   *)
LEMMA SlotRemovals ==
  ASSUME SlotInv, NEW s \in Slots, NEW keep \in BOOLEAN, RemoveFromSlot(s, keep)
  PROVE  SlotInv'
  <1>1. /\ SlotTypes /\ NodesAreOld
        /\ LoadsFit(stLoads, stTable, stLast, stBorn, stBuild, stRedo, stMissed)
        /\ ItemsFit(stItems, stLast, stRedo, stTable, stBorn, stBuild, stMissed)
        /\ CombosFit(stTable, stLast, stLoads, stComboCalls, stCombo, stBorn["root"], stMissed)
    BY DEF SlotInv
  <1> DEFINE inside == stLast.slot # NoSlot /\ Below(s, stLast.slot)
             closes == inside /\ ~keep
             redo == stLast.slot # NoSlot /\ ~closes /\ stItems.slot # NoSlot
             asked == [last |-> stLast, slot |-> stItems.slot, base |-> Emptied(stBuild', stLast.slot)]
  <1>2. /\ Edited(Emptied(stBuild, s), s)
        /\ stTable' = IF closes THEN NoTable ELSE stTable
        /\ stLast' = IF closes THEN NoLast ELSE stLast
        /\ stRedo' = IF redo THEN {asked} ELSE stRedo
        /\ stMissed' = (stMissed \/ Loading1) /\ UNCHANGED <<stItems, stCombo>>
    BY DEF RemoveFromSlot
  <1>3. Emptied(stBuild, s) \in TreeShapes
    BY <1>1, EmptiedParts DEF SlotTypes
  <1>4. /\ stEdits' \in Nat /\ stEdits' = stEdits + 1 /\ stBuild' \in TreeShapes
        /\ stBorn' \in [Slots \cup {"root"} -> Nat] /\ stBorn'["root"] = stBorn["root"]
        /\ \A n \in Slots \cup {"root"} : stBorn'[n] <= stEdits'
        /\ \A u \in Slots : NodeIn(stBorn', u) \in {NodeIn(stBorn, u), stEdits'}
    BY <1>1, <1>2, <1>3, EditMakesNodes
  <1>5. UNCHANGED <<stLoads, stComboCalls, stSettings>>
    BY <1>2 DEF Edited
  <1>6. stMissed' \in BOOLEAN /\ (stMissed => stMissed') /\ (stLoads # {} => stMissed')
    BY <1>1, <1>2 DEF SlotTypes, Loading1
  <1>7. stLast.node <= stEdits /\ stEdits \in Nat /\ stLast.node \in Nat /\ stLast \in SlotPlaces
    BY <1>1 DEF NodesAreOld, SlotTypes, SlotPlaces
  <1>8. stLast.node # stEdits' /\ \A l \in stLoads' : l.node <= stEdits'
    BY <1>1, <1>4, <1>5, <1>7 DEF NodesAreOld, SlotTypes, SlotLoads
  <1>9. CASE closes
    <2>1. stTable' = NoTable /\ stLast' = NoLast /\ stRedo' = stRedo /\ stItems' = stItems
          /\ stCombo' = stCombo
      BY <1>2, <1>9
    <2>2. NoLast \in SlotPlaces /\ NoLast.slot = NoSlot /\ NoLast.node = 0
      BY DEF NoLast, SlotPlaces
    <2>3. NoTable \in [slot : Slots \cup {NoSlot}, view : {"list", "combo"}, rows : BOOLEAN]
          /\ NoTable.slot = NoSlot /\ NoTable.view = "list"
      BY DEF NoTable
    <2> HIDE DEF closes, redo, asked, inside
    <2>4. SlotTypes'
      BY <1>1, <1>4, <1>5, <1>6, <2>1, <2>2, <2>3 DEF SlotTypes
    <2>5. NodesAreOld'
      BY <1>4, <1>8, <2>1, <2>2 DEF NodesAreOld
    <2>6. NoSlot \notin Slots
      BY SlotConstants
    <2>7. \A l \in stLoads : l.slot # NoSlot
      BY <1>1, <2>6 DEF SlotTypes, SlotLoads
    <2>8. LoadsFit(stLoads', stTable', stLast', stBorn', stBuild', stRedo', stMissed')
      BY <1>1, <1>5, <1>6, <2>1, <2>2, <2>3, <2>7 DEF LoadsFit
    <2>9. ItemsFit(stItems', stLast', stRedo', stTable', stBorn', stBuild', stMissed')
      BY <1>1, <2>1, <2>2 DEF ItemsFit, Kept
    <2>10. CombosFit(stTable', stLast', stLoads', stComboCalls', stCombo', stBorn'["root"], stMissed')
      BY <1>1, <1>5, <2>1, <2>3 DEF CombosFit
    <2>11. QED  BY <2>4, <2>5, <2>8, <2>9, <2>10 DEF SlotInv
  <1>10. CASE ~closes /\ stLast.slot = NoSlot
    <2>1. stTable' = stTable /\ stLast' = stLast /\ stRedo' = stRedo /\ stItems' = stItems
          /\ stCombo' = stCombo
      BY <1>2, <1>10
    <2> HIDE DEF closes, redo, asked, inside
    <2>2. SlotTypes'
      BY <1>1, <1>4, <1>5, <1>6, <2>1 DEF SlotTypes
    <2>3. NodesAreOld'
      BY <1>4, <1>7, <1>8, <2>1 DEF NodesAreOld
    <2>4. LoadsFit(stLoads', stTable', stLast', stBorn', stBuild', stRedo', stMissed')
      BY <1>1, <1>4, <1>5, <1>6, <1>8, <2>1 DEF LoadsFit, SlotTypes, SlotLoads
    <2>5. ItemsFit(stItems', stLast', stRedo', stTable', stBorn', stBuild', stMissed')
      BY <1>1, <1>10, <2>1 DEF ItemsFit, Kept
    <2>6. CombosFit(stTable', stLast', stLoads', stComboCalls', stCombo', stBorn'["root"], stMissed')
      BY <1>1, <1>4, <1>5, <1>6, <2>1 DEF CombosFit
    <2>7. QED  BY <2>2, <2>3, <2>4, <2>5, <2>6 DEF SlotInv
  <1>11. CASE ~closes /\ stLast.slot # NoSlot
    <2>1. stItems.slot = stLast.slot /\ stLast.slot \in Slots
      BY <1>1, <1>7, <1>11 DEF ItemsFit, SlotPlaces
    <2>2. stTable' = stTable /\ stLast' = stLast /\ stItems' = stItems /\ stCombo' = stCombo
      BY <1>2, <1>11
    <2>3. stRedo' = {asked}
      BY <1>2, <1>11, <2>1, SlotConstants
    <2>4. asked.last = stLast /\ asked.slot = stLast.slot
          /\ asked.base = Emptied(stBuild', stLast.slot) /\ asked.base \in TreeShapes
          /\ asked \in [last : SlotPlaces, slot : Slots, base : TreeShapes]
      BY <1>4, <1>7, <2>1, EmptiedParts
    <2> HIDE DEF closes, redo, asked, inside
    <2>5. SlotTypes'
      BY <1>1, <1>4, <1>5, <1>6, <2>2, <2>3, <2>4 DEF SlotTypes
    <2>6. NodesAreOld'
      BY <1>4, <1>7, <1>8, <2>2 DEF NodesAreOld
    <2>7. LoadsFit(stLoads', stTable', stLast', stBorn', stBuild', stRedo', stMissed')
      BY <1>1, <1>4, <1>5, <1>6, <1>8, <2>2 DEF LoadsFit, SlotTypes, SlotLoads
    <2>8. ItemsFit(stItems', stLast', stRedo', stTable', stBorn', stBuild', stMissed')
      BY <2>1, <2>2, <2>3, <2>4 DEF ItemsFit, Kept
    <2>9. CombosFit(stTable', stLast', stLoads', stComboCalls', stCombo', stBorn'["root"], stMissed')
      BY <1>1, <1>4, <1>5, <1>6, <2>2 DEF CombosFit
    <2>10. QED  BY <2>5, <2>6, <2>7, <2>8, <2>9 DEF SlotInv
  <1>12. QED  BY <1>9, <1>10, <1>11

(* A row installed: what the slot itself holds does not count.              *)
LEMMA RowInstalled == SlotInv /\ InstallRow => SlotInv'
  <1> SUFFICES ASSUME SlotInv, InstallRow PROVE SlotInv'
    OBVIOUS
  <1>1. /\ SlotTypes /\ NodesAreOld
        /\ LoadsFit(stLoads, stTable, stLast, stBorn, stBuild, stRedo, stMissed)
        /\ ItemsFit(stItems, stLast, stRedo, stTable, stBorn, stBuild, stMissed)
        /\ CombosFit(stTable, stLast, stLoads, stComboCalls, stCombo, stBorn["root"], stMissed)
    BY DEF SlotInv
  <1>2. stLast.slot \in Slots /\ stBuild \in TreeShapes
    BY <1>1 DEF InstallRow, Rows, SlotTypes, SlotPlaces
  <1>3. CASE Attached
    <2>1. /\ Edited(WithPart(stBuild, stLast.slot), stLast.slot)
          /\ stMissed' = (stMissed \/ Loading1) /\ UNCHANGED <<stTable, stLast, stItems, stRedo, stCombo>>
      BY <1>3 DEF InstallRow
    <2>2. stLast.node = NodeIn(stBorn, stLast.slot)
      BY <1>3 DEF Attached, ParentNode, NodeIn
    <2>3. WithPart(stBuild, stLast.slot) \in TreeShapes
          /\ Emptied(WithPart(stBuild, stLast.slot), stLast.slot) = Emptied(stBuild, stLast.slot)
      BY <1>2, EmptiedParts
    <2>4. QED  BY <1>2, <2>1, <2>2, <2>3, EditKeepsSlots
  <1>4. CASE ~Attached
    <2>1. /\ UNCHANGED <<stBuild, stBorn, stEdits, stLoads, stComboCalls, stSettings>>
          /\ stMissed' = (stMissed \/ Loading1) /\ UNCHANGED <<stTable, stLast, stItems, stRedo, stCombo>>
      BY <1>4 DEF InstallRow
    <2>2. stMissed' \in BOOLEAN /\ (stMissed => stMissed') /\ (stLoads # {} => stMissed')
      BY <1>1, <2>1 DEF SlotTypes, Loading1
    <2>3. SlotTypes' /\ NodesAreOld'
      BY <1>1, <2>1, <2>2 DEF SlotTypes, NodesAreOld
    <2>4. LoadsFit(stLoads', stTable', stLast', stBorn', stBuild', stRedo', stMissed')
      BY <1>1, <2>1, <2>2 DEF LoadsFit
    <2>5. ItemsFit(stItems', stLast', stRedo', stTable', stBorn', stBuild', stMissed')
      BY <1>1, <2>1, <2>2 DEF ItemsFit, Kept
    <2>6. CombosFit(stTable', stLast', stLoads', stComboCalls', stCombo', stBorn'["root"], stMissed')
      BY <1>1, <2>1, <2>2 DEF CombosFit
    <2>7. QED  BY <2>3, <2>4, <2>5, <2>6 DEF SlotInv
  <1>5. QED  BY <1>3, <1>4

(* A combination installed: the last slot is the one under the gun, or it   *)
(* has a new parent.                                                        *)
LEMMA ComboInstalled == SlotInv /\ InstallCombo => SlotInv'
  <1> SUFFICES ASSUME SlotInv, InstallCombo PROVE SlotInv'
    OBVIOUS
  <1>1. /\ SlotTypes /\ NodesAreOld
        /\ LoadsFit(stLoads, stTable, stLast, stBorn, stBuild, stRedo, stMissed)
        /\ ItemsFit(stItems, stLast, stRedo, stTable, stBorn, stBuild, stMissed)
        /\ CombosFit(stTable, stLast, stLoads, stComboCalls, stCombo, stBorn["root"], stMissed)
    BY DEF SlotInv
  <1>2. stLast.slot \in Slots /\ stBuild \in TreeShapes
    BY <1>1 DEF InstallCombo, Rows, SlotTypes, SlotPlaces
  <1> DEFINE s == Head(Path[stLast.slot])
  <1>3. PICK b \in TreeBuilds : b[s] /\ Emptied(b, s) = Emptied(stBuild, s) /\ Edited(b, s)
    BY DEF InstallCombo
  <1>4. b \in TreeShapes
    BY DEF TreeBuilds, TreeShapes
  <1>5. s \in Slots
    BY <1>2, UnderTheGun
  <1>6. stLast.node = NodeIn(stBorn, stLast.slot)
    BY DEF InstallCombo, Attached, ParentNode, NodeIn
  <1>7. /\ stBorn'["root"] = stBorn["root"]
        /\ \A n \in Slots : stBorn'[n] = IF Below(s, n) THEN stEdits' ELSE stBorn[n]
    BY <1>1, <1>3, <1>4, <1>5, EditMakesNodes
  <1>8. ASSUME NodeIn(stBorn', stLast.slot) # stEdits'
        PROVE  Emptied(b, stLast.slot) = Emptied(stBuild, stLast.slot)
    <2>1. Len(Path[stLast.slot]) = 1
      BY <1>2, <1>7, <1>8, UnderTheGun DEF NodeIn
    <2>2. s = stLast.slot
      BY <1>2, <2>1, UnderTheGun
    <2>3. QED  BY <1>3, <2>2
  <1>9. stMissed' = (stMissed \/ Loading1) /\ UNCHANGED <<stTable, stLast, stItems, stRedo, stCombo>>
    BY DEF InstallCombo
  <1> HIDE DEF s
  <1>10. QED  BY <1>2, <1>3, <1>4, <1>5, <1>6, <1>8, <1>9, EditKeepsSlots

(* What a step of the slot table preserves, action by action.               *)
LEMMA SlotSteps == SlotInv /\ [SlotTableNext]_stVars => SlotInv'
  <1> SUFFICES ASSUME SlotInv, [SlotTableNext]_stVars PROVE SlotInv'
    OBVIOUS
  <1>1. /\ SlotTypes /\ NodesAreOld
        /\ LoadsFit(stLoads, stTable, stLast, stBorn, stBuild, stRedo, stMissed)
        /\ ItemsFit(stItems, stLast, stRedo, stTable, stBorn, stBuild, stMissed)
        /\ CombosFit(stTable, stLast, stLoads, stComboCalls, stCombo, stBorn["root"], stMissed)
    BY DEF SlotInv
  <1>2. NoLast \in SlotPlaces /\ NoLast.slot = NoSlot /\ NoLast.node = 0 /\ NoLast = NoCombos
    BY DEF NoLast, SlotPlaces, NoCombos
  <1>3. NoTable \in [slot : Slots \cup {NoSlot}, view : {"list", "combo"}, rows : BOOLEAN]
        /\ NoTable.slot = NoSlot /\ NoTable.view = "list"
    BY DEF NoTable
  <1>4. NoSlot \notin Slots /\ \A l \in stLoads : l.slot # NoSlot
    BY <1>1, SlotConstants DEF SlotTypes, SlotLoads
  <1>5. stMissed \in BOOLEAN /\ (Loading1 <=> stLoads # {})
    BY <1>1 DEF SlotTypes, Loading1
  <1>6. /\ stTable = [slot |-> stTable.slot, view |-> stTable.view, rows |-> stTable.rows]
        /\ stCombo = [gen |-> stCombo.gen, busy |-> stCombo.busy, items |-> stCombo.items]
        /\ stLast = [slot |-> stLast.slot, node |-> stLast.node]
    BY <1>1 DEF SlotTypes, SlotPlaces
  <1>7. ASSUME stVars' = stVars PROVE SlotInv'
    <2>1. UNCHANGED <<stBuild, stBorn, stEdits, stTable, stLast, stItems, stLoads, stRedo, stCombo,
                      stComboCalls, stSettings, stMissed>>
      BY <1>7 DEF stVars
    <2>2. SlotTypes' /\ NodesAreOld'
      BY <1>1, <2>1 DEF SlotTypes, NodesAreOld
    <2>3. QED  BY <1>1, <2>1, <2>2 DEF SlotInv, LoadsFit, ItemsFit, CombosFit, Kept
  <1>8. ASSUME NEW s \in Slots, OpenSlot(s) PROVE SlotInv'
    <2>1. UNCHANGED <<stBuild, stBorn, stEdits, stLast, stItems, stRedo, stSettings>>
      BY <1>8 DEF OpenSlot
    <2>2. ParentNode(s) = NodeIn(stBorn, s)
      BY DEF ParentNode, NodeIn
    <2>3. CASE stLast = [slot |-> s, node |-> ParentNode(s)]
      <3>1. stLoads' = {} /\ UNCHANGED <<stTable, stCombo, stComboCalls, stMissed>>
        BY <1>8, <2>3 DEF OpenSlot
      <3>2. SlotTypes' /\ NodesAreOld'
        BY <1>1, <2>1, <3>1 DEF SlotTypes, NodesAreOld
      <3>3. QED  BY <1>1, <2>1, <3>1, <3>2 DEF SlotInv, LoadsFit, ItemsFit, CombosFit, Kept
    <2>4. CASE stLast # [slot |-> s, node |-> ParentNode(s)]
      <3> DEFINE load == [slot |-> s, node |-> ParentNode(s), stage |-> "allowed", base |-> NoItems.base]
      <3>1. /\ stTable' = [slot |-> s, view |-> "list", rows |-> FALSE]
            /\ stCombo' = AbortedCombo /\ stComboCalls' = {} /\ stLoads' = {load}
            /\ stMissed' = \E r \in stRedo : r.last.slot = s
        BY <1>8, <2>4 DEF OpenSlot
      <3>2. NodeIn(stBorn, s) \in Nat
        BY <1>1, UnderTheGun DEF SlotTypes, NodeIn
      <3>3. load \in SlotLoads /\ load.slot = s /\ load.stage = "allowed"
        BY <2>2, <3>2 DEF SlotLoads, NoItems, TreeShapes
      <3> HIDE DEF load
      <3>4. ~(stLast.slot = s /\ stLast.node = NodeIn(stBorn, s))
        BY <1>6, <2>2, <2>4
      <3>5. stCombo' \in [gen : Nat, busy : BOOLEAN, items : SlotPlaces]
        BY <1>1, <1>2, <3>1 DEF SlotTypes, AbortedCombo
      <3>6. SlotTypes'
        BY <1>1, <2>1, <3>1, <3>3, <3>5 DEF SlotTypes
      <3>7. NodesAreOld'
        <4>1. NodeIn(stBorn, s) <= stEdits
          BY <1>1, UnderTheGun DEF NodesAreOld, NodeIn
        <4>2. load.node = NodeIn(stBorn, s)
          BY <2>2 DEF load
        <4>3. QED  BY <1>1, <2>1, <3>1, <4>1, <4>2 DEF NodesAreOld
      <3>8. LoadsFit(stLoads', stTable', stLast', stBorn', stBuild', stRedo', stMissed')
        BY <2>1, <3>1, <3>3, <3>4 DEF LoadsFit
      <3>9. ItemsFit(stItems', stLast', stRedo', stTable', stBorn', stBuild', stMissed')
        BY <1>1, <2>1, <3>1, <3>4 DEF ItemsFit, Kept
      <3>10. CombosFit(stTable', stLast', stLoads', stComboCalls', stCombo', stBorn'["root"], stMissed')
        BY <3>1 DEF CombosFit
      <3>11. QED  BY <3>6, <3>7, <3>8, <3>9, <3>10 DEF SlotInv
    <2>5. QED  BY <2>3, <2>4
  <1>9. ASSUME AllowedArrive PROVE SlotInv'
    <2>1. PICK l \in stLoads :
            /\ stLoads' = {[l EXCEPT !.stage = "batch", !.base = Emptied(stBuild, l.slot)]}
            /\ UNCHANGED <<stBuild, stBorn, stEdits, stTable, stLast, stItems, stRedo, stCombo,
                           stComboCalls, stSettings, stMissed>>
      BY <1>9 DEF AllowedArrive
    <2> DEFINE load == [l EXCEPT !.stage = "batch", !.base = Emptied(stBuild, l.slot)]
    <2>2. l \in SlotLoads /\ Emptied(stBuild, l.slot) \in TreeShapes
      BY <1>1, EmptiedParts DEF SlotTypes, SlotLoads
    <2>3. load \in SlotLoads /\ load.slot = l.slot /\ load.node = l.node /\ load.base = Emptied(stBuild, l.slot)
      BY <2>2 DEF SlotLoads
    <2>4. stLoads' = {load}
      BY <2>1
    <2> HIDE DEF load
    <2>5. SlotTypes' /\ NodesAreOld'
      BY <1>1, <2>1, <2>3, <2>4 DEF SlotTypes, NodesAreOld
    <2>6. LoadsFit(stLoads', stTable', stLast', stBorn', stBuild', stRedo', stMissed')
      BY <1>1, <2>1, <2>3, <2>4 DEF LoadsFit
    <2>7. ItemsFit(stItems', stLast', stRedo', stTable', stBorn', stBuild', stMissed')
      BY <1>1, <2>1 DEF ItemsFit, Kept
    <2>8. CombosFit(stTable', stLast', stLoads', stComboCalls', stCombo', stBorn'["root"], stMissed')
      BY <1>1, <2>1 DEF CombosFit
    <2>9. QED  BY <2>5, <2>6, <2>7, <2>8 DEF SlotInv
  <1>10. ASSUME CandidatesArrive PROVE SlotInv'
    <2>1. PICK l \in stLoads :
            /\ l.stage = "batch" /\ stLoads' = {}
            /\ stItems' = [slot |-> l.slot, base |-> l.base]
            /\ stLast' = [slot |-> l.slot, node |-> l.node]
            /\ stTable' = [stTable EXCEPT !.rows = stTable.slot # NoSlot]
            /\ UNCHANGED <<stBuild, stBorn, stEdits, stRedo, stCombo, stComboCalls, stSettings, stMissed>>
      BY <1>10 DEF CandidatesArrive
    <2>2. l \in SlotLoads /\ l.slot # NoSlot
      BY <1>1, <1>4 DEF SlotTypes
    <2>3. stItems'.slot = l.slot /\ stItems'.base = l.base /\ stLast'.slot = l.slot /\ stLast'.node = l.node
      BY <2>1
    <2>4. stTable'.slot = stTable.slot /\ stTable'.view = stTable.view
          /\ stTable' \in [slot : Slots \cup {NoSlot}, view : {"list", "combo"}, rows : BOOLEAN]
      BY <1>1, <2>1 DEF SlotTypes
    <2>5. SlotTypes'
      BY <1>1, <2>1, <2>2, <2>4 DEF SlotTypes, SlotLoads, SlotPlaces
    <2>6. l.node <= stEdits
      BY <1>1 DEF NodesAreOld
    <2>7. NodesAreOld'
      BY <1>1, <2>1, <2>3, <2>6 DEF NodesAreOld
    <2>8. LoadsFit(stLoads', stTable', stLast', stBorn', stBuild', stRedo', stMissed')
      BY <2>1 DEF LoadsFit
    <2>9. ItemsFit(stItems', stLast', stRedo', stTable', stBorn', stBuild', stMissed')
      BY <1>1, <2>1, <2>3 DEF ItemsFit, Kept, LoadsFit
    <2>10. CombosFit(stTable', stLast', stLoads', stComboCalls', stCombo', stBorn'["root"], stMissed')
      BY <1>1, <2>1, <2>2, <2>3, <2>4 DEF CombosFit
    <2>11. QED  BY <2>5, <2>7, <2>8, <2>9, <2>10 DEF SlotInv
  <1>11. ASSUME LoadFails PROVE SlotInv'
    <2>1. stLoads' = {} /\ UNCHANGED <<stBuild, stBorn, stEdits, stTable, stLast, stItems, stRedo, stCombo,
                                       stComboCalls, stSettings, stMissed>>
      BY <1>11 DEF LoadFails
    <2>2. SlotTypes' /\ NodesAreOld'
      BY <1>1, <2>1 DEF SlotTypes, NodesAreOld
    <2>3. QED  BY <1>1, <2>1, <2>2 DEF SlotInv, LoadsFit, ItemsFit, CombosFit, Kept
  <1>12. ASSUME CloseTable PROVE SlotInv'
    <2>1. /\ stTable' = NoTable /\ stLast' = NoLast
          /\ UNCHANGED <<stBuild, stBorn, stEdits, stItems, stLoads, stRedo, stCombo,
                         stComboCalls, stSettings, stMissed>>
      BY <1>12 DEF CloseTable
    <2>2. SlotTypes'
      BY <1>1, <1>2, <1>3, <2>1 DEF SlotTypes
    <2>3. NodesAreOld'
      BY <1>1, <1>2, <2>1 DEF NodesAreOld, SlotTypes
    <2>4. LoadsFit(stLoads', stTable', stLast', stBorn', stBuild', stRedo', stMissed')
      BY <1>1, <1>2, <1>3, <1>4, <2>1 DEF LoadsFit
    <2>5. ItemsFit(stItems', stLast', stRedo', stTable', stBorn', stBuild', stMissed')
      BY <1>1, <1>2, <2>1 DEF ItemsFit, Kept
    <2>6. CombosFit(stTable', stLast', stLoads', stComboCalls', stCombo', stBorn'["root"], stMissed')
      BY <1>1, <1>3, <2>1 DEF CombosFit
    <2>7. QED  BY <2>2, <2>3, <2>4, <2>5, <2>6 DEF SlotInv
  <1>13. ASSUME RedrawTable PROVE SlotInv'
    <2>1. /\ stTable' = [stTable EXCEPT !.rows = TRUE]
          /\ UNCHANGED <<stBuild, stBorn, stEdits, stLast, stItems, stLoads, stRedo, stCombo,
                         stComboCalls, stSettings, stMissed>>
      BY <1>13 DEF RedrawTable
    <2>2. stTable'.slot = stTable.slot /\ stTable'.view = stTable.view
          /\ stTable' \in [slot : Slots \cup {NoSlot}, view : {"list", "combo"}, rows : BOOLEAN]
      BY <1>1, <2>1 DEF SlotTypes
    <2>3. SlotTypes' /\ NodesAreOld'
      BY <1>1, <2>1, <2>2 DEF SlotTypes, NodesAreOld
    <2>4. QED  BY <1>1, <2>1, <2>2, <2>3 DEF SlotInv, LoadsFit, ItemsFit, CombosFit, Kept
  <1>14. ASSUME ReprocessArrives PROVE SlotInv'
    <2>1. PICK r \in stRedo, ok \in BOOLEAN :
            /\ stRedo' = {}
            /\ stItems' = IF ok /\ r.last = stLast THEN [slot |-> r.slot, base |-> r.base] ELSE stItems
            /\ stMissed' = (stMissed \/ ~ok)
            /\ UNCHANGED <<stBuild, stBorn, stEdits, stTable, stLast, stLoads, stCombo, stComboCalls,
                           stSettings>>
      BY <1>14 DEF ReprocessArrives
    <2>2. r \in [last : SlotPlaces, slot : Slots, base : TreeShapes]
      BY <1>1 DEF SlotTypes
    <2>3. stMissed' \in BOOLEAN /\ (stMissed => stMissed') /\ (~stMissed' => ok)
      BY <1>5, <2>1
    <2>4. SlotTypes'
      BY <1>1, <2>1, <2>2, <2>3 DEF SlotTypes
    <2>5. NodesAreOld'
      BY <1>1, <2>1 DEF NodesAreOld
    <2>6. LoadsFit(stLoads', stTable', stLast', stBorn', stBuild', stRedo', stMissed')
      BY <1>1, <2>1, <2>3 DEF LoadsFit
    <2>7. ItemsFit(stItems', stLast', stRedo', stTable', stBorn', stBuild', stMissed')
      <3>1. CASE ok /\ r.last = stLast
        <4>1. stItems'.slot = r.slot /\ stItems'.base = r.base
          BY <2>1, <3>1
        <4>2. QED  BY <1>1, <2>1, <2>3, <3>1, <4>1 DEF ItemsFit, Kept
      <3>2. CASE ~(ok /\ r.last = stLast)
        <4>1. stItems' = stItems
          BY <2>1, <3>2
        <4>2. QED  BY <1>1, <2>1, <2>3, <3>2, <4>1 DEF ItemsFit, Kept
      <3>3. QED  BY <3>1, <3>2
    <2>8. CombosFit(stTable', stLast', stLoads', stComboCalls', stCombo', stBorn'["root"], stMissed')
      BY <1>1, <2>1, <2>3 DEF CombosFit
    <2>9. QED  BY <2>4, <2>5, <2>6, <2>7, <2>8 DEF SlotInv
  <1>15. ASSUME RestoreBuild PROVE SlotInv'
    <2>1. /\ stEdits' = stEdits + 1 /\ stBuild' \in TreeBuilds
          /\ stBorn' = [n \in DOMAIN stBorn |-> IF n = "root" THEN stBorn[n] ELSE stEdits']
          /\ stTable' = NoTable /\ stLast' = NoLast
          /\ stMissed' = (stMissed \/ Loading1 \/ stRedo # {})
          /\ UNCHANGED <<stItems, stLoads, stRedo, stCombo, stComboCalls, stSettings>>
      BY <1>15 DEF RestoreBuild
    <2>2. stBuild' \in TreeShapes
      BY <2>1 DEF TreeBuilds, TreeShapes
    <2>3. stEdits \in Nat /\ stEdits' \in Nat /\ stBorn' \in [Slots \cup {"root"} -> Nat]
          /\ \A n \in Slots \cup {"root"} : stBorn'[n] <= stEdits'
      BY <1>1, <2>1 DEF SlotTypes, NodesAreOld
    <2>4. stMissed' \in BOOLEAN /\ (stMissed => stMissed') /\ (stLoads # {} => stMissed')
      BY <1>5, <2>1
    <2>5. SlotTypes'
      BY <1>1, <1>2, <1>3, <2>1, <2>2, <2>3, <2>4 DEF SlotTypes
    <2>6. NodesAreOld'
      <3>1. \A l \in stLoads : l.node <= stEdits'
        BY <1>1, <2>1, <2>3 DEF NodesAreOld, SlotTypes, SlotLoads
      <3>2. stLast'.node = 0 /\ stLoads' = stLoads /\ 0 <= stEdits'
        BY <1>2, <2>1, <2>3
      <3>3. QED  BY <2>3, <3>1, <3>2 DEF NodesAreOld
    <2>7. LoadsFit(stLoads', stTable', stLast', stBorn', stBuild', stRedo', stMissed')
      BY <1>1, <1>2, <1>3, <1>4, <2>1, <2>4 DEF LoadsFit
    <2>8. ItemsFit(stItems', stLast', stRedo', stTable', stBorn', stBuild', stMissed')
      BY <1>1, <1>2, <2>1 DEF ItemsFit, Kept
    <2>9. CombosFit(stTable', stLast', stLoads', stComboCalls', stCombo', stBorn'["root"], stMissed')
      BY <1>1, <1>3, <2>1 DEF CombosFit
    <2>10. QED  BY <2>5, <2>6, <2>7, <2>8, <2>9 DEF SlotInv
  <1>16. ASSUME NewTree PROVE SlotInv'
    <2>1. /\ stEdits' = stEdits + 1 /\ stBuild' \in {Stock, [s \in Slots |-> FALSE]}
          /\ stBorn' = [n \in DOMAIN stBorn |-> stEdits']
          /\ stTable' = NoTable /\ stLast' = NoLast /\ stItems' = NoItems
          /\ stMissed' = (stMissed \/ Loading1)
          /\ UNCHANGED <<stLoads, stRedo, stCombo, stComboCalls, stSettings>>
      BY <1>16 DEF NewTree
    <2>2. stBuild' \in TreeShapes /\ NoItems \in [slot : Slots \cup {NoSlot}, base : TreeShapes]
      BY <2>1, SlotConstants DEF TreeBuilds, TreeShapes, NoItems
    <2>3. stEdits \in Nat /\ stEdits' \in Nat /\ stBorn' \in [Slots \cup {"root"} -> Nat]
          /\ \A n \in Slots \cup {"root"} : stBorn'[n] <= stEdits'
      BY <1>1, <2>1 DEF SlotTypes
    <2>4. stMissed' \in BOOLEAN /\ (stMissed => stMissed') /\ (stLoads # {} => stMissed')
      BY <1>5, <2>1
    <2>5. SlotTypes'
      BY <1>1, <1>2, <1>3, <2>1, <2>2, <2>3, <2>4 DEF SlotTypes
    <2>6. NodesAreOld'
      <3>1. \A l \in stLoads : l.node <= stEdits'
        BY <1>1, <2>1, <2>3 DEF NodesAreOld, SlotTypes, SlotLoads
      <3>2. stLast'.node = 0 /\ stLoads' = stLoads /\ 0 <= stEdits'
        BY <1>2, <2>1, <2>3
      <3>3. QED  BY <2>3, <3>1, <3>2 DEF NodesAreOld
    <2>7. LoadsFit(stLoads', stTable', stLast', stBorn', stBuild', stRedo', stMissed')
      BY <1>1, <1>2, <1>3, <1>4, <2>1, <2>4 DEF LoadsFit
    <2>8. ItemsFit(stItems', stLast', stRedo', stTable', stBorn', stBuild', stMissed')
      BY <1>1, <1>2, <2>1 DEF ItemsFit, Kept
    <2>9. CombosFit(stTable', stLast', stLoads', stComboCalls', stCombo', stBorn'["root"], stMissed')
      BY <1>1, <1>3, <2>1 DEF CombosFit
    <2>10. QED  BY <2>5, <2>6, <2>7, <2>8, <2>9 DEF SlotInv
  <1>17. ASSUME NEW cached \in BOOLEAN, OpenCombos(cached), stLast.slot # NoSlot, stTable.slot # NoSlot,
                stTable'.slot = stTable.slot, stTable'.view = "combo",
                stTable' \in [slot : Slots \cup {NoSlot}, view : {"list", "combo"}, rows : BOOLEAN],
                \/ stMissed' = (stMissed \/ Loading1)
                \/ stMissed' = stMissed /\ stTable.view = "combo",
                UNCHANGED <<stBuild, stBorn, stEdits, stLast, stItems, stLoads, stRedo, stSettings>>
         PROVE  SlotInv'
    <2> DEFINE call == [gen |-> stCombo.gen + 1, last |-> stLast, root |-> stBorn["root"],
                        settings |-> stSettings]
               fit == IF cached THEN stLast ELSE NoCombos
    <2>1. /\ stCombo' = [gen |-> stCombo.gen + 1, busy |-> ~cached, items |-> fit]
          /\ stComboCalls' = IF cached THEN {} ELSE {call}
      <3>1. /\ stCombo' = [gen |-> stCombo.gen + 1, busy |-> ~cached, items |-> fit]
            /\ stComboCalls' = IF cached THEN {}
                 ELSE {[gen |-> stCombo'.gen, last |-> stLast, root |-> stBorn.root, settings |-> stSettings]}
        BY <1>17 DEF OpenCombos
      <3>2. stCombo'.gen = stCombo.gen + 1
        BY <3>1
      <3>3. QED  BY <3>1, <3>2
    <2>2. stMissed' \in BOOLEAN /\ (stMissed => stMissed') /\ (~stMissed' => stLoads = {})
      <3>1. CASE stMissed' = (stMissed \/ Loading1)
        BY <1>5, <3>1
      <3>2. CASE stMissed' = stMissed /\ stTable.view = "combo"
        <4>1. ~stMissed => stLoads = {}
          BY <1>1, <3>2 DEF CombosFit
        <4>2. QED  BY <1>5, <3>2, <4>1
      <3>3. QED  BY <1>17, <3>1, <3>2
    <2>4. stCombo.gen + 1 \in Nat /\ stBorn["root"] \in Nat /\ stLast \in SlotPlaces
      BY <1>1 DEF SlotTypes
    <2>5. call \in ComboCalls /\ call.gen = stCombo.gen + 1 /\ call.last = stLast /\ call.root = stBorn["root"]
      BY <1>1, <2>4 DEF SlotTypes, ComboCalls
    <2>6. fit \in SlotPlaces /\ (cached => fit = stLast /\ fit # NoCombos) /\ (~cached => fit = NoCombos)
      BY <1>2, <1>17, <2>4 DEF SlotPlaces
    <2> HIDE DEF call, fit
    <2>7. stCombo'.gen = stCombo.gen + 1 /\ stCombo'.busy = ~cached /\ stCombo'.items = fit
          /\ stCombo' \in [gen : Nat, busy : BOOLEAN, items : SlotPlaces]
      BY <2>1, <2>4, <2>6
    <2>8. SlotTypes'
      BY <1>1, <1>17, <2>1, <2>2, <2>5, <2>7 DEF SlotTypes
    <2>9. NodesAreOld'
      BY <1>1, <1>17 DEF NodesAreOld
    <2>10. LoadsFit(stLoads', stTable', stLast', stBorn', stBuild', stRedo', stMissed')
      BY <1>1, <1>17, <2>2 DEF LoadsFit
    <2>11. ItemsFit(stItems', stLast', stRedo', stTable', stBorn', stBuild', stMissed')
      BY <1>1, <1>17, <2>2 DEF ItemsFit, Kept
    <2>12. CombosFit(stTable', stLast', stLoads', stComboCalls', stCombo', stBorn'["root"], stMissed')
      BY <1>17, <2>1, <2>2, <2>5, <2>6, <2>7 DEF CombosFit
    <2>13. QED  BY <2>8, <2>9, <2>10, <2>11, <2>12 DEF SlotInv
  <1>18. ASSUME ComboView PROVE SlotInv'
    <2>1. /\ stTable' = [stTable EXCEPT !.view = "combo"] /\ stMissed' = (stMissed \/ Loading1)
          /\ stTable.slot # NoSlot /\ stLast.slot # NoSlot
          /\ UNCHANGED <<stBuild, stBorn, stEdits, stLast, stItems, stLoads, stRedo, stSettings>>
      BY <1>18 DEF ComboView, Rows
    <2>2. stTable'.slot = stTable.slot /\ stTable'.view = "combo"
          /\ stTable' \in [slot : Slots \cup {NoSlot}, view : {"list", "combo"}, rows : BOOLEAN]
      BY <1>1, <2>1 DEF SlotTypes
    <2>3. PICK cached \in BOOLEAN : OpenCombos(cached)
      BY <1>18 DEF ComboView
    <2>4. QED  BY <1>17, <2>1, <2>2, <2>3
  <1>19. ASSUME CombosArrive PROVE SlotInv'
    <2> DEFINE viewed(c) == /\ c.gen = stCombo.gen /\ stTable.view = "combo"
                            /\ c.root = stBorn["root"] /\ c.last = stLast
    <2>1. PICK c \in stComboCalls :
            /\ IF viewed(c) /\ c.settings # stSettings
               THEN OpenCombos(FALSE) /\ UNCHANGED stTable
               ELSE /\ stComboCalls' = stComboCalls \ {c}
                    /\ \E ok \in BOOLEAN :
                         /\ stCombo' = [stCombo EXCEPT !.busy = FALSE,
                                          !.items = IF viewed(c) /\ ok THEN c.last ELSE @]
                         /\ stTable' = IF viewed(c) /\ ~ok
                                       THEN [stTable EXCEPT !.view = "list"] ELSE stTable
            /\ UNCHANGED <<stBuild, stBorn, stEdits, stLast, stItems, stLoads, stRedo, stSettings, stMissed>>
      BY <1>19 DEF CombosArrive
    <2>2. CASE viewed(c) /\ c.settings # stSettings
      <3>1. OpenCombos(FALSE) /\ stTable' = stTable /\ stTable.view = "combo"
        BY <2>1, <2>2
      <3>2. stTable.slot # NoSlot /\ stLast.slot # NoSlot
        BY <1>1, <3>1 DEF CombosFit
      <3>3. stTable \in [slot : Slots \cup {NoSlot}, view : {"list", "combo"}, rows : BOOLEAN]
        BY <1>1 DEF SlotTypes
      <3>4. QED  BY <1>17, <2>1, <3>1, <3>2, <3>3
    <2>3. CASE ~(viewed(c) /\ c.settings # stSettings)
      <3>1. PICK ok \in BOOLEAN :
              /\ stComboCalls' = stComboCalls \ {c}
              /\ stCombo' = [stCombo EXCEPT !.busy = FALSE,
                               !.items = IF viewed(c) /\ ok THEN c.last ELSE stCombo.items]
              /\ stTable' = IF viewed(c) /\ ~ok THEN [stTable EXCEPT !.view = "list"] ELSE stTable
        BY <2>1, <2>3
      <3>2. c \in ComboCalls /\ c.last \in SlotPlaces /\ stCombo.items \in SlotPlaces
        BY <1>1 DEF SlotTypes, ComboCalls
      <3>3. /\ stCombo' \in [gen : Nat, busy : BOOLEAN, items : SlotPlaces] /\ stCombo'.gen = stCombo.gen
            /\ stCombo'.items = IF viewed(c) /\ ok THEN c.last ELSE stCombo.items
        BY <1>1, <3>1, <3>2 DEF SlotTypes
      <3>4. /\ stTable' \in [slot : Slots \cup {NoSlot}, view : {"list", "combo"}, rows : BOOLEAN]
            /\ stTable'.slot = stTable.slot /\ (viewed(c) /\ ~ok => stTable'.view = "list")
            /\ stTable'.view = "combo" => stTable.view = "combo"
        BY <1>1, <3>1 DEF SlotTypes
      <3>5. stTable.view = "combo" /\ ~stMissed => viewed(c)
        BY <1>1 DEF CombosFit
      <3> HIDE DEF viewed
      <3>6. SlotTypes'
        BY <1>1, <2>1, <3>1, <3>3, <3>4 DEF SlotTypes
      <3>7. NodesAreOld'
        BY <1>1, <2>1 DEF NodesAreOld
      <3>8. LoadsFit(stLoads', stTable', stLast', stBorn', stBuild', stRedo', stMissed')
        BY <1>1, <2>1, <3>4 DEF LoadsFit
      <3>9. ItemsFit(stItems', stLast', stRedo', stTable', stBorn', stBuild', stMissed')
        BY <1>1, <2>1, <3>4 DEF ItemsFit, Kept
      <3>10. ASSUME stTable'.view = "combo", ~stMissed
             PROVE  stCombo'.items = stLast /\ stLast # NoCombos
        <4>1. viewed(c) /\ ok
          BY <3>4, <3>5, <3>10
        <4>2. stCombo'.items = c.last
          BY <3>3, <4>1
        <4>3. c.last = stLast /\ stLast.slot # NoSlot
          BY <1>1, <3>4, <3>10 DEF CombosFit
        <4>4. QED  BY <1>2, <4>2, <4>3
      <3>11. CombosFit(stTable', stLast', stLoads', stComboCalls', stCombo', stBorn'["root"], stMissed')
        BY <1>1, <2>1, <3>1, <3>3, <3>4, <3>10 DEF CombosFit
      <3>12. QED  BY <3>6, <3>7, <3>8, <3>9, <3>11 DEF SlotInv
    <2>4. QED  BY <2>2, <2>3
  <1>20. ASSUME stTable' = [stTable EXCEPT !.view = "list"], stCombo' = AbortedCombo, stComboCalls' = {},
                UNCHANGED <<stBuild, stBorn, stEdits, stLast, stItems, stLoads, stRedo, stSettings, stMissed>>
         PROVE  SlotInv'
    <2>1. stTable'.slot = stTable.slot /\ stTable'.view = "list"
          /\ stTable' \in [slot : Slots \cup {NoSlot}, view : {"list", "combo"}, rows : BOOLEAN]
      BY <1>1, <1>20 DEF SlotTypes
    <2>2. stCombo' \in [gen : Nat, busy : BOOLEAN, items : SlotPlaces]
      BY <1>1, <1>2, <1>20 DEF SlotTypes, AbortedCombo
    <2>3. SlotTypes'
      BY <1>1, <1>20, <2>1, <2>2 DEF SlotTypes
    <2>4. NodesAreOld'
      BY <1>1, <1>20 DEF NodesAreOld
    <2>5. LoadsFit(stLoads', stTable', stLast', stBorn', stBuild', stRedo', stMissed')
      BY <1>1, <1>20, <2>1 DEF LoadsFit
    <2>6. ItemsFit(stItems', stLast', stRedo', stTable', stBorn', stBuild', stMissed')
      BY <1>1, <1>20, <2>1 DEF ItemsFit, Kept
    <2>7. CombosFit(stTable', stLast', stLoads', stComboCalls', stCombo', stBorn'["root"], stMissed')
      BY <1>20, <2>1 DEF CombosFit
    <2>8. QED  BY <2>3, <2>4, <2>5, <2>6, <2>7 DEF SlotInv
  <1>21. ASSUME ListView PROVE SlotInv'
    BY <1>20, <1>21 DEF ListView
  <1>22. ASSUME UNCHANGED <<stBuild, stBorn, stEdits, stTable, stLast, stItems, stLoads, stRedo, stCombo,
                            stComboCalls, stMissed>>, stSettings' \in Nat
         PROVE  SlotInv'
    <2>1. SlotTypes' /\ NodesAreOld'
      BY <1>1, <1>22 DEF SlotTypes, NodesAreOld
    <2>2. QED  BY <1>1, <1>22, <2>1 DEF SlotInv, LoadsFit, ItemsFit, CombosFit, Kept
  <1>23. stSettings \in Nat
    BY <1>1 DEF SlotTypes
  <1>24. ASSUME ToggleCompare PROVE SlotInv'
    <2>1. CASE ~stCompare.on /\ stTable.view = "combo"
      BY <1>20, <1>24, <2>1 DEF ToggleCompare
    <2>2. CASE ~(~stCompare.on /\ stTable.view = "combo")
      BY <1>22, <1>23, <1>24, <2>2 DEF ToggleCompare
    <2>3. QED  BY <2>1, <2>2
  <1>25. ASSUME PickBaseline PROVE SlotInv'
    BY <1>22, <1>23, <1>25 DEF PickBaseline
  <1>26. ASSUME ChangeSettings PROVE SlotInv'
    BY <1>22, <1>23, <1>26 DEF ChangeSettings
  <1>27. ASSUME RemoveFromTree PROVE SlotInv'
    BY <1>27, SlotRemovals DEF RemoveFromTree
  <1>28. ASSUME RemoveFromRow PROVE SlotInv'
    <2>1. stLast.slot \in Slots /\ RemoveFromSlot(stLast.slot, TRUE)
      BY <1>1, <1>28 DEF RemoveFromRow, Rows, SlotTypes, SlotPlaces
    <2>2. QED  BY <2>1, SlotRemovals
  <1>29. QED
    BY <1>7, <1>8, <1>9, <1>10, <1>11, <1>12, <1>13, <1>14, <1>15, <1>16, <1>18, <1>19, <1>21, <1>24,
       <1>25, <1>26, <1>27, <1>28, RowInstalled, ComboInstalled DEF SlotTableNext

(* The slot table (slot-selector.js): in every behaviour of SlotTableSpec,  *)
(* for any tree of slots, whichever way edits, loads, refreshes and         *)
(* combinations overlap, the statistics listed once nothing is under way    *)
(* are those of the build, and the combinations are of the open slot.       *)
THEOREM SlotTableStaysRight == SlotTableSpec => []SlotTableIsRight
  <1>1. SlotInv /\ [SlotTableNext]_stVars => SlotInv'
    BY SlotSteps
  <1>2. QED  BY SlotStarts, SlotHolds, <1>1, PTL DEF SlotTableSpec

--------------------------------------------------------------------------------
(* SavedBuilds, for any names, codes, caps and bounds.                      *)

SavedBuildsSpec == SavedBuildsInit /\ [][SavedBuildsNext]_sbVars

SavedEntries == [id : Nat, name : Names, code : Codes, pub : Nat]

(* A list of builds whose ids are their own, and none later than last.      *)
OwnIds(builds, last) ==
  /\ builds \in Seq(SavedEntries)
  /\ \A i \in DOMAIN builds :
       builds[i].id <= last /\ \A j \in DOMAIN builds : builds[i].id = builds[j].id => i = j

Apart(some, others) ==
  \A i \in DOMAIN some : \A j \in DOMAIN others : some[i].id # others[j].id

(* What the requests under way have read.                                   *)
CallsAreRight(calls, last) ==
  \A c \in calls : /\ c.kind = "mine" => OwnIds(c.saved, last)
                   /\ c.kind = "publish" => c.pub \in Nat

(* Every list that may yet be written back is numbered: the backup, the     *)
(* lists of an open dialog, which hold different builds, and those that the *)
(* requests under way have read.                                            *)
SavedInv ==
  /\ sbSaves \in Nat /\ sbPublishes \in Nat
  /\ sbAsk \in Names \cup {NoName}
  /\ OwnIds(sbStore, sbSaves) /\ OwnIds(sbFile, sbSaves)
  /\ OwnIds(sbMerge.conflicts, sbSaves) /\ OwnIds(sbMerge.clean, sbSaves)
  /\ OwnIds(sbMerge.existing, sbSaves)
  /\ Apart(sbMerge.clean, sbMerge.conflicts)
  /\ Apart(sbMerge.clean, sbMerge.existing) /\ Apart(sbMerge.conflicts, sbMerge.existing)
  /\ CallsAreRight(sbCalls, sbSaves)

(* As many ids as builds.                                                   *)
LEMMA OwnIdsCount ==
  ASSUME NEW builds, NEW last, OwnIds(builds, last)
  PROVE  Cardinality(IdsOf(builds)) = Len(builds)
  <1> DEFINE D == DOMAIN builds  f == [i \in D |-> builds[i].id]
  <1>1. builds \in Seq(SavedEntries) /\ D = 1..Len(builds) /\ Len(builds) \in Nat
    BY DEF OwnIds
  <1>2. IsFiniteSet(D) /\ Cardinality(D) = Len(builds)
    BY <1>1, FS_Interval
  <1>3. f \in [D -> IdsOf(builds)] /\ \A x \in IdsOf(builds) : \E i \in D : f[i] = x
    BY DEF IdsOf
  <1>4. \A i \in D : \A j \in D : f[i] = f[j] => i = j
    BY DEF OwnIds
  <1> HIDE DEF f, D
  <1>5. f \in Surjection(D, IdsOf(builds))
    BY <1>3 DEF Surjection
  <1>6. f \in Injection(D, IdsOf(builds))
    BY <1>3, <1>4 DEF Injection, IsInjective
  <1>7. QED  BY <1>2, <1>5, <1>6, FS_Surjection

(* More ids may be given out.                                               *)
LEMMA NumberedOn ==
  ASSUME NEW builds, NEW last \in Nat, NEW later \in Nat, last <= later, OwnIds(builds, last)
  PROVE  OwnIds(builds, later)
  <1>1. \A i \in DOMAIN builds : builds[i].id \in Nat
    <2>1. builds \in Seq(SavedEntries)
      BY DEF OwnIds
    <2>2. \A i \in DOMAIN builds : builds[i] \in SavedEntries
      BY <2>1, ElementOf
    <2>3. QED  BY <2>2 DEF SavedEntries
  <1>2. QED  BY <1>1 DEF OwnIds

(* Entries may change as long as they keep their ids.                       *)
LEMMA SameIds ==
  ASSUME NEW builds, NEW last, OwnIds(builds, last),
         NEW others, others = [i \in DOMAIN builds |-> others[i]],
         \A i \in DOMAIN builds : others[i] \in SavedEntries /\ others[i].id = builds[i].id
  PROVE  OwnIds(others, last)
  <1>1. builds \in Seq(SavedEntries)
    BY DEF OwnIds
  <1>2. others \in Seq(SavedEntries) /\ DOMAIN others = DOMAIN builds
    BY <1>1, SameLength
  <1>3. QED  BY <1>2 DEF OwnIds

(* The first n of a list.                                                   *)
LEMMA FirstNumbered ==
  ASSUME NEW builds, NEW last, OwnIds(builds, last), NEW n \in Nat
  PROVE  OwnIds(FirstOf(n, builds), last)
  <1> DEFINE m == IF Len(builds) < n THEN Len(builds) ELSE n
  <1>1. builds \in Seq(SavedEntries) /\ Len(builds) \in Nat /\ DOMAIN builds = 1..Len(builds)
    BY DEF OwnIds
  <1>2. m \in Nat /\ m <= Len(builds)
    BY <1>1
  <1> HIDE DEF m
  <1>3. /\ SubSeq(builds, 1, m) \in Seq(SavedEntries) /\ DOMAIN SubSeq(builds, 1, m) = 1..m
        /\ \A i \in 1..m : SubSeq(builds, 1, m)[i] = builds[i] /\ i \in DOMAIN builds
    BY <1>1, <1>2
  <1>4. FirstOf(n, builds) = SubSeq(builds, 1, m)
    BY DEF FirstOf, m
  <1>5. OwnIds(SubSeq(builds, 1, m), last)
    BY <1>3 DEF OwnIds
  <1>6. QED  BY <1>4, <1>5

(* The entries at chosen places.                                            *)
LEMMA ChosenNumbered ==
  ASSUME NEW builds, NEW last, OwnIds(builds, last), NEW I
  PROVE  /\ OwnIds(ElementsAt(builds, I), last)
         /\ \A k \in DOMAIN ElementsAt(builds, I) :
              \E i \in I \cap DOMAIN builds : ElementsAt(builds, I)[k] = builds[i]
  <1> DEFINE part == ElementsAt(builds, I)
  <1>1. builds \in Seq(SavedEntries) /\ Len(builds) \in Nat /\ DOMAIN builds = 1..Len(builds)
    BY DEF OwnIds
  <1>2. part \in Seq(SavedEntries) /\ \E at : Selects(at, part, builds, I, Len(builds))
    BY <1>1, ElementsAtSelects
  <1> HIDE DEF part
  <1>3. PICK at : Selects(at, part, builds, I, Len(builds))
    BY <1>2
  <1>4. DOMAIN part = 1..Len(part) /\ Len(part) \in Nat
    BY <1>2
  <1>5. \A k \in DOMAIN part : at[k] \in I \cap DOMAIN builds /\ part[k] = builds[at[k]]
    BY <1>1, <1>3, <1>4 DEF Selects
  <1>6. ASSUME NEW k \in DOMAIN part, NEW l \in DOMAIN part, part[k].id = part[l].id PROVE k = l
    <2>1. at[k] = at[l]
      BY <1>5, <1>6 DEF OwnIds
    <2>2. at[k] \in Nat /\ at[l] \in Nat /\ k \in Nat /\ l \in Nat
      BY <1>1, <1>4, <1>5
    <2>3. (k < l => at[k] < at[l]) /\ (l < k => at[l] < at[k])
      BY <1>3, <1>4 DEF Selects
    <2>4. QED  BY <2>1, <2>2, <2>3
  <1>7. OwnIds(part, last)
    BY <1>2, <1>5, <1>6 DEF OwnIds
  <1>8. QED  BY <1>5, <1>7 DEF part

(* Entries at places that have nothing in common.                           *)
LEMMA ChosenApart ==
  ASSUME NEW builds, NEW last, OwnIds(builds, last), NEW I, NEW J, I \cap J = {}
  PROVE  Apart(ElementsAt(builds, I), ElementsAt(builds, J))
  <1> SUFFICES ASSUME NEW k \in DOMAIN ElementsAt(builds, I), NEW l \in DOMAIN ElementsAt(builds, J)
               PROVE  ElementsAt(builds, I)[k].id # ElementsAt(builds, J)[l].id
    BY DEF Apart
  <1>1. PICK i \in I \cap DOMAIN builds : ElementsAt(builds, I)[k] = builds[i]
    BY ChosenNumbered
  <1>2. PICK j \in J \cap DOMAIN builds : ElementsAt(builds, J)[l] = builds[j]
    BY ChosenNumbered
  <1>3. i # j
    OBVIOUS
  <1>4. QED  BY <1>1, <1>2, <1>3 DEF OwnIds

(* One list before another.                                                 *)
LEMMA JoinedNumbered ==
  ASSUME NEW some, NEW others, NEW last, OwnIds(some, last), OwnIds(others, last),
         Apart(some, others)
  PROVE  OwnIds(some \o others, last)
  <1> DEFINE n == Len(some)  m == Len(others)  all == some \o others
  <1>1. /\ some \in Seq(SavedEntries) /\ n \in Nat /\ DOMAIN some = 1..n
        /\ others \in Seq(SavedEntries) /\ m \in Nat /\ DOMAIN others = 1..m
    BY DEF OwnIds
  <1>2. /\ all \in Seq(SavedEntries) /\ DOMAIN all = 1..(n + m)
    BY <1>1
  <1>3. \A i \in 1..n : all[i] = some[i]
    BY <1>1
  <1> HIDE DEF all, n, m
  <1>4. \A i \in 1..(n + m) : i \notin 1..n => i - n \in 1..m /\ all[i] = others[i - n]
    <2> SUFFICES ASSUME NEW i \in 1..(n + m), i \notin 1..n
                 PROVE  i - n \in 1..m /\ all[i] = others[i - n]
      OBVIOUS
    <2>1. i - n \in 1..m /\ n + (i - n) = i
      BY <1>1
    <2>2. \A j \in 1..m : all[n + j] = others[j]
      BY <1>1 DEF all, n, m
    <2>3. QED  BY <2>1, <2>2
  <1>5. ASSUME NEW i \in 1..(n + m) PROVE all[i].id <= last
    <2>1. CASE i \in 1..n
      BY <1>1, <1>3, <2>1 DEF OwnIds
    <2>2. CASE i \notin 1..n
      BY <1>1, <1>4, <2>2 DEF OwnIds
    <2>3. QED  BY <2>1, <2>2
  <1>6. ASSUME NEW i \in 1..(n + m), NEW j \in 1..(n + m), all[i].id = all[j].id PROVE i = j
    <2>1. CASE i \in 1..n /\ j \in 1..n
      BY <1>1, <1>3, <1>6, <2>1 DEF OwnIds
    <2>2. CASE i \notin 1..n /\ j \notin 1..n
      <3>1. i - n = j - n
        BY <1>1, <1>4, <1>6, <2>2 DEF OwnIds
      <3>2. QED  BY <1>1, <3>1
    <2>3. CASE i \in 1..n /\ j \notin 1..n
      BY <1>1, <1>3, <1>4, <1>6, <2>3 DEF Apart
    <2>4. CASE i \notin 1..n /\ j \in 1..n
      BY <1>1, <1>3, <1>4, <1>6, <2>4 DEF Apart
    <2>5. QED  BY <2>1, <2>2, <2>3, <2>4
  <1>7. OwnIds(all, last)
    BY <1>2, <1>5, <1>6 DEF OwnIds
  <1>8. QED  BY <1>7 DEF all

(* The last of some places.                                                 *)
LEMMA LastPlace ==
  ASSUME NEW n \in Nat, NEW I, I \subseteq 1..n, I # {}
  PROVE  Max(I) \in I
  <1> DEFINE R == {n - i : i \in I}
  <1>1. R \subseteq Nat /\ R # {} /\ \A i \in I : n - i \in R
    <2>1. \A i \in 1..n : n - i \in Nat
      OBVIOUS
    <2>2. \A i \in I : n - i \in Nat
      BY <2>1
    <2>3. R \subseteq Nat
      BY <2>2
    <2>4. \A i \in I : n - i \in R
      OBVIOUS
    <2>5. QED  BY <2>3, <2>4
  <1>2. \A r \in R : \E i \in I : r = n - i
    OBVIOUS
  <1> HIDE DEF R
  <1>3. PICK r \in R : \A q \in R : r <= q
    BY <1>1, LeastNumber
  <1>4. PICK m \in I : r = n - m
    BY <1>2
  <1>5. \A i \in I : m >= i
    <2> SUFFICES ASSUME NEW i \in I PROVE m >= i
      OBVIOUS
    <2>1. n - m <= n - i /\ n \in Nat /\ m \in 1..n /\ i \in 1..n
      BY <1>1, <1>3, <1>4
    <2>2. QED  BY <2>1
  <1>6. \E x \in I : \A y \in I : x >= y
    BY <1>5
  <1>7. QED  BY <1>6 DEF Max

(* _finalizeMerge: what is overwritten keeps its id.                        *)
LEMMA MergedNumbered ==
  ASSUME NEW add, NEW over \in Seq(SavedEntries), NEW existing, NEW last,
         OwnIds(add, last), OwnIds(existing, last), Apart(add, existing)
  PROVE  OwnIds(Merged(add, over, existing), last)
  <1> DEFINE by(i) == {j \in DOMAIN over : over[j].name = existing[i].name}
             first(i) == SelectInSeq(existing, LAMBDA b : b.name = existing[i].name) = i
             entry(i) == IF by(i) # {} /\ first(i)
                         THEN [over[Max(by(i))] EXCEPT !.id = existing[i].id] ELSE existing[i]
             kept == [i \in DOMAIN existing |-> entry(i)]
  <1>1. \A i \in DOMAIN existing : existing[i] \in SavedEntries
    BY ElementOf DEF OwnIds
  <1>2. ASSUME NEW i \in DOMAIN existing
        PROVE  entry(i) \in SavedEntries /\ entry(i).id = existing[i].id
    <2>1. CASE by(i) # {} /\ first(i)
      <3>1. by(i) \subseteq 1..Len(over) /\ Len(over) \in Nat
        OBVIOUS
      <3>2. Max(by(i)) \in by(i)
        BY <2>1, <3>1, LastPlace
      <3>3. over[Max(by(i))] \in SavedEntries
        BY <3>2, ElementOf
      <3>4. existing[i].id \in Nat
        BY <1>1 DEF SavedEntries
      <3> DEFINE o == over[Max(by(i))]
      <3>5. entry(i) = [o EXCEPT !.id = existing[i].id]
        BY <2>1
      <3> HIDE DEF o, by, first, entry
      <3>6. [o EXCEPT !.id = existing[i].id] \in SavedEntries
            /\ [o EXCEPT !.id = existing[i].id].id = existing[i].id
        BY <3>3, <3>4 DEF SavedEntries, o
      <3>7. QED  BY <3>5, <3>6
    <2>2. CASE ~(by(i) # {} /\ first(i))
      <3>1. entry(i) = existing[i]
        BY <2>2
      <3>2. QED  BY <1>1, <3>1
    <2>3. QED  BY <2>1, <2>2
  <1>3. Merged(add, over, existing) = FirstOf(MergeCap, add \o kept)
    BY DEF Merged
  <1> HIDE DEF by, first, entry
  <1>4. /\ kept = [i \in DOMAIN existing |-> kept[i]] /\ DOMAIN kept = DOMAIN existing
        /\ \A i \in DOMAIN existing : kept[i] \in SavedEntries /\ kept[i].id = existing[i].id
    BY <1>2
  <1> HIDE DEF kept
  <1>5. OwnIds(kept, last)
    BY <1>4, SameIds
  <1>6. Apart(add, kept)
    BY <1>4 DEF Apart
  <1>7. OwnIds(add \o kept, last)
    BY <1>5, <1>6, JoinedNumbered
  <1>8. MergeCap \in Nat
    BY SavedBuildsConstants
  <1>9. QED  BY <1>3, <1>7, <1>8, FirstNumbered

(* The list starts empty.                                                   *)
LEMMA SavedStarts == SavedBuildsInit => SavedInv
  <1> SUFFICES ASSUME SavedBuildsInit PROVE SavedInv
    OBVIOUS
  <1> DEFINE none == <<>>
  <1>1. none \in Seq(SavedEntries) /\ DOMAIN none = {}
    OBVIOUS
  <1>2. /\ sbStore = none /\ sbFile = none /\ sbMerge.conflicts = none /\ sbMerge.clean = none
        /\ sbMerge.existing = none /\ sbCalls = {} /\ sbSaves = 0 /\ sbPublishes = 0 /\ sbAsk = NoName
    BY DEF SavedBuildsInit, NoMerge
  <1> HIDE DEF none
  <1>3. OwnIds(none, 0) /\ Apart(none, none)
    BY <1>1 DEF OwnIds, Apart
  <1>4. QED  BY <1>2, <1>3 DEF SavedInv, CallsAreRight

(* A build that is saved anew gets a new id.                                *)
LEMMA SavedAnew ==
  ASSUME SavedInv, NEW name \in Names, NEW code \in Codes
  PROVE  OwnIds(FirstOf(SaveCap, <<[id |-> sbSaves + 1, name |-> name, code |-> code,
                                     pub |-> Unpublished]>> \o sbStore), sbSaves + 1)
  <1> DEFINE e == [id |-> sbSaves + 1, name |-> name, code |-> code, pub |-> Unpublished]
  <1>1. sbSaves \in Nat /\ OwnIds(sbStore, sbSaves)
    BY DEF SavedInv
  <1>2. e \in SavedEntries /\ e.id = sbSaves + 1
    BY <1>1 DEF SavedEntries, Unpublished
  <1> HIDE DEF e
  <1>3. <<e>> \in Seq(SavedEntries) /\ DOMAIN <<e>> = 1..1 /\ <<e>>[1] = e
    BY <1>2
  <1>4. OwnIds(<<e>>, sbSaves + 1)
    <2>1. \A i \in 1..1 : i = 1
      OBVIOUS
    <2>2. sbSaves + 1 <= sbSaves + 1
      BY <1>1
    <2>3. QED  BY <1>2, <1>3, <2>1, <2>2 DEF OwnIds
  <1>5. OwnIds(sbStore, sbSaves + 1)
    BY <1>1, NumberedOn
  <1>6. Apart(<<e>>, sbStore)
    <2> SUFFICES ASSUME NEW i \in 1..1, NEW j \in DOMAIN sbStore PROVE <<e>>[i].id # sbStore[j].id
      BY <1>3 DEF Apart
    <2>1. sbStore[j].id \in Nat /\ sbStore[j].id <= sbSaves
      <3>1. sbStore \in Seq(SavedEntries) /\ sbStore[j].id <= sbSaves
        BY <1>1 DEF OwnIds
      <3>2. sbStore[j] \in SavedEntries
        BY <3>1, ElementOf
      <3>3. QED  BY <3>1, <3>2 DEF SavedEntries
    <2>2. <<e>>[i].id = sbSaves + 1
      BY <1>2, <1>3
    <2>3. QED  BY <1>1, <2>1, <2>2
  <1>7. OwnIds(<<e>> \o sbStore, sbSaves + 1)
    BY <1>4, <1>5, <1>6, JoinedNumbered
  <1>8. SaveCap \in Nat
    BY SavedBuildsConstants
  <1>9. QED  BY <1>7, <1>8, FirstNumbered DEF e

(* What a step on the saved builds preserves, action by action.             *)
LEMMA SavedSteps == SavedInv /\ [SavedBuildsNext]_sbVars => SavedInv'
  <1> SUFFICES ASSUME SavedInv, [SavedBuildsNext]_sbVars PROVE SavedInv'
    OBVIOUS
  <1>1. OwnIds(sbStore, sbSaves) /\ OwnIds(sbFile, sbSaves) /\ sbSaves \in Nat /\ sbPublishes \in Nat
    BY DEF SavedInv
  <1>2. sbStore \in Seq(SavedEntries) /\ \A i \in DOMAIN sbStore : sbStore[i] \in SavedEntries
    BY <1>1, ElementOf DEF OwnIds
  <1>26. CallsAreRight(sbCalls, sbSaves)
    BY DEF SavedInv
  <1>27. ASSUME UNCHANGED <<sbSaves, sbPublishes, sbFile, sbAsk, sbMerge>>, OwnIds(sbStore', sbSaves),
               CallsAreRight(sbCalls', sbSaves)
        PROVE  SavedInv'
    BY <1>27 DEF SavedInv
  <1>3. ASSUME UNCHANGED <<sbSaves, sbPublishes, sbFile, sbAsk, sbMerge, sbStore, sbCalls>> PROVE SavedInv'
    BY <1>1, <1>3, <1>26, <1>27
  <1>4. ASSUME UNCHANGED <<sbMerge, sbFile, sbPublishes, sbCalls>>, sbAsk' \in Names \cup {NoName},
               sbSaves' = sbSaves + 1, OwnIds(sbStore', sbSaves')
        PROVE  SavedInv'
    <2>1. sbSaves' \in Nat /\ sbSaves <= sbSaves'
      BY <1>1, <1>4
    <2>2. \A b : OwnIds(b, sbSaves) => OwnIds(b, sbSaves')
      BY <1>1, <2>1, NumberedOn
    <2>3. CallsAreRight(sbCalls, sbSaves')
      BY <1>26, <2>2 DEF CallsAreRight
    <2>4. QED  BY <1>4, <2>1, <2>2, <2>3 DEF SavedInv
  <1>5. ASSUME SaveNew PROVE SavedInv'
    <2>1. PICK name \in Names \ NamesOf(sbStore), code \in Codes :
            sbStore' = FirstOf(SaveCap, <<[id |-> sbSaves + 1, name |-> name, code |-> code,
                                           pub |-> Unpublished]>> \o sbStore)
      BY <1>5 DEF SaveNew, SaveToStorage
    <2>2. sbSaves' = sbSaves + 1 /\ UNCHANGED <<sbFile, sbAsk, sbMerge, sbPublishes, sbCalls>>
      BY <1>5 DEF SaveNew, sbDialogs, sbRemote
    <2>3. OwnIds(sbStore', sbSaves')
      BY <2>1, <2>2, SavedAnew
    <2>4. sbAsk' \in Names \cup {NoName}
      BY <2>2 DEF SavedInv
    <2>5. QED  BY <1>4, <2>2, <2>3, <2>4
  <1>6. ASSUME SaveDuplicate PROVE SavedInv'
    <2>1. /\ sbAsk' \in NamesOf(sbStore)
          /\ UNCHANGED <<sbStore, sbFile, sbMerge, sbPublishes, sbCalls, sbSaves>>
      BY <1>6 DEF SaveDuplicate, sbRemote
    <2>2. sbAsk' \in Names
      BY <1>2, <2>1 DEF NamesOf, SavedEntries
    <2>3. QED  BY <2>1, <2>2 DEF SavedInv
  <1>7. ASSUME ConfirmOverwrite PROVE SavedInv'
    <2>1. /\ sbAsk # NoName /\ sbAsk' = NoName
          /\ UNCHANGED <<sbFile, sbMerge, sbPublishes, sbCalls>>
      BY <1>7 DEF ConfirmOverwrite, sbRemote
    <2>2. sbAsk \in Names
      BY <2>1 DEF SavedInv
    <2>3. CASE sbAsk \in NamesOf(sbStore)
      <3> DEFINE first == SelectInSeq(sbStore, LAMBDA b : b.name = sbAsk)
      <3>1. PICK code \in Codes : sbStore' = [sbStore EXCEPT ![first].code = code] /\ sbSaves' = sbSaves
        BY <1>7, <2>3 DEF ConfirmOverwrite, SaveToStorage
      <3> HIDE DEF first
      <3>2. /\ sbStore' = [i \in DOMAIN sbStore |-> sbStore'[i]]
            /\ \A i \in DOMAIN sbStore : sbStore'[i] \in SavedEntries /\ sbStore'[i].id = sbStore[i].id
        BY <1>2, <3>1 DEF SavedEntries
      <3>3. OwnIds(sbStore', sbSaves)
        BY <1>1, <3>2, SameIds
      <3>4. QED  BY <2>1, <3>1, <3>3 DEF SavedInv
    <2>4. CASE sbAsk \notin NamesOf(sbStore)
      <3>1. PICK code \in Codes :
              /\ sbSaves' = sbSaves + 1
              /\ sbStore' = FirstOf(SaveCap, <<[id |-> sbSaves + 1, name |-> sbAsk, code |-> code,
                                                pub |-> Unpublished]>> \o sbStore)
        BY <1>7, <2>4 DEF ConfirmOverwrite, SaveToStorage
      <3>2. OwnIds(sbStore', sbSaves')
        BY <2>2, <3>1, SavedAnew
      <3>3. QED  BY <1>4, <2>1, <3>1, <3>2
    <2>5. QED  BY <2>3, <2>4
  <1>8. ASSUME CancelOverwrite PROVE SavedInv'
    <2>1. sbAsk' = NoName /\ UNCHANGED <<sbStore, sbFile, sbMerge, sbPublishes, sbCalls, sbSaves>>
      BY <1>8 DEF CancelOverwrite, sbRemote
    <2>2. QED  BY <2>1 DEF SavedInv
  <1>9. ASSUME DeleteBuild PROVE SavedInv'
    <2>1. PICK id \in IdsOf(sbStore) :
            /\ sbStore' = ElementsAt(sbStore, {i \in DOMAIN sbStore : sbStore[i].id # id})
            /\ sbCalls' = sbCalls \/ sbCalls' = sbCalls \cup {[kind |-> "drop", pub |-> EntryOf(id).pub]}
      BY <1>9 DEF DeleteBuild, SaveToStorage
    <2>2. UNCHANGED <<sbSaves, sbPublishes, sbFile, sbAsk, sbMerge>>
      BY <1>9 DEF DeleteBuild, sbDialogs
    <2>3. OwnIds(sbStore', sbSaves)
      BY <1>1, <2>1, ChosenNumbered
    <2>4. CallsAreRight(sbCalls', sbSaves)
      BY <1>26, <2>1 DEF CallsAreRight
    <2>5. QED  BY <1>27, <2>2, <2>3, <2>4
  <1>10. ASSUME PublishSaved PROVE SavedInv'
    BY <1>3, <1>10 DEF PublishSaved, sbDialogs, sbRemote
  <1>11. ASSUME TryRepublish PROVE SavedInv'
    <2>1. UNCHANGED <<sbStore, sbSaves, sbPublishes, sbFile, sbAsk, sbMerge>>
      BY <1>11 DEF TryRepublish, sbDialogs
    <2>2. PICK id \in IdsOf(sbStore) :
            \/ sbCalls' = sbCalls
            \/ sbCalls' = sbCalls \cup {[kind |-> "mine", id |-> id, saved |-> sbStore]}
      <3>1. PICK id \in IdsOf(sbStore) \cap sbMarked :
              IF EntryOf(id).pub = Unpublished
              THEN sbMarked' = sbMarked \ {id} /\ OpenPanel(id) /\ UNCHANGED sbCalls
              ELSE /\ sbCalls' = sbCalls \cup {[kind |-> "mine", id |-> id, saved |-> sbStore]}
                   /\ UNCHANGED <<sbMarked, sbPanel>>
        BY <1>11 DEF TryRepublish
      <3>2. QED  BY <3>1
    <2>3. CallsAreRight(sbCalls', sbSaves)
      BY <1>1, <1>26, <2>2 DEF CallsAreRight
    <2>4. QED  BY <1>1, <1>27, <2>1, <2>3
  <1>12. ASSUME RepublishAnswer PROVE SavedInv'
    <2>1. PICK c \in {d \in sbCalls : d.kind = "mine"} :
            /\ sbCalls' = sbCalls \ {c}
            /\ \/ sbStore' = sbStore
               \/ sbStore' = Changed(c.saved, LAMBDA b : b.id = c.id,
                               LAMBDA b : [b EXCEPT !.pub = Unpublished])
      BY <1>12 DEF RepublishAnswer, SaveToStorage
    <2>2. UNCHANGED <<sbSaves, sbPublishes, sbFile, sbAsk, sbMerge>>
      BY <1>12 DEF RepublishAnswer, sbDialogs
    <2>3. OwnIds(c.saved, sbSaves) /\ \A i \in DOMAIN c.saved : c.saved[i] \in SavedEntries
      <3>1. OwnIds(c.saved, sbSaves)
        BY <1>26 DEF CallsAreRight
      <3>2. c.saved \in Seq(SavedEntries)
        BY <3>1 DEF OwnIds
      <3>3. QED  BY <3>1, <3>2, ElementOf
    <2>4. OwnIds(sbStore', sbSaves)
      <3>1. CASE sbStore' = sbStore
        BY <1>1, <3>1
      <3>2. CASE sbStore' = Changed(c.saved, LAMBDA b : b.id = c.id,
                                LAMBDA b : [b EXCEPT !.pub = Unpublished])
        <4>1. sbStore' = [i \in DOMAIN c.saved |-> IF c.saved[i].id = c.id
                            THEN [c.saved[i] EXCEPT !.pub = Unpublished] ELSE c.saved[i]]
          BY <3>2 DEF Changed
        <4>2. /\ sbStore' = [i \in DOMAIN c.saved |-> sbStore'[i]]
              /\ \A i \in DOMAIN c.saved : sbStore'[i] \in SavedEntries /\ sbStore'[i].id = c.saved[i].id
          BY <2>3, <4>1 DEF SavedEntries, Unpublished
        <4>3. QED  BY <2>3, <4>2, SameIds
      <3>3. QED  BY <2>1, <3>1, <3>2
    <2>5. CallsAreRight(sbCalls', sbSaves)
      BY <1>26, <2>1 DEF CallsAreRight
    <2>6. QED  BY <1>27, <2>2, <2>4, <2>5
  <1>13. ASSUME ConfirmPublish PROVE SavedInv'
    <2>1. /\ sbPublishes' = sbPublishes + 1 /\ UNCHANGED <<sbStore, sbFile, sbAsk, sbMerge, sbSaves>>
          /\ sbCalls' = sbCalls \cup {[kind |-> "publish", id |-> sbPanel.id, pub |-> sbPublishes + 1]}
      BY <1>13 DEF ConfirmPublish, sbDialogs
    <2>2. sbPublishes + 1 \in Nat
      BY <1>1
    <2>3. CallsAreRight(sbCalls', sbSaves)
      BY <1>26, <2>1, <2>2 DEF CallsAreRight
    <2>4. QED  BY <1>1, <2>1, <2>2, <2>3 DEF SavedInv
  <1>14. ASSUME PublishAnswer PROVE SavedInv'
    <2>1. PICK c \in {d \in sbCalls : d.kind = "publish"} :
            /\ sbCalls' = sbCalls \ {c}
            /\ \/ sbStore' = sbStore
               \/ sbStore' = Changed(sbStore, LAMBDA b : b.id = c.id, LAMBDA b : [b EXCEPT !.pub = c.pub])
      BY <1>14 DEF PublishAnswer, SaveToStorage
    <2>2. UNCHANGED <<sbSaves, sbPublishes, sbFile, sbAsk, sbMerge>>
      BY <1>14 DEF PublishAnswer, sbDialogs
    <2>3. c.pub \in Nat
      BY <1>26 DEF CallsAreRight
    <2>4. OwnIds(sbStore', sbSaves)
      <3>1. CASE sbStore' = sbStore
        BY <1>1, <3>1
      <3>2. CASE sbStore' = Changed(sbStore, LAMBDA b : b.id = c.id, LAMBDA b : [b EXCEPT !.pub = c.pub])
        <4>1. sbStore' = [i \in DOMAIN sbStore |-> IF sbStore[i].id = c.id
                            THEN [sbStore[i] EXCEPT !.pub = c.pub] ELSE sbStore[i]]
          BY <3>2 DEF Changed
        <4>2. /\ sbStore' = [i \in DOMAIN sbStore |-> sbStore'[i]]
              /\ \A i \in DOMAIN sbStore : sbStore'[i] \in SavedEntries /\ sbStore'[i].id = sbStore[i].id
          BY <1>2, <2>3, <4>1 DEF SavedEntries
        <4>3. QED  BY <1>1, <4>2, SameIds
      <3>3. QED  BY <2>1, <3>1, <3>2
    <2>5. CallsAreRight(sbCalls', sbSaves)
      BY <1>26, <2>1 DEF CallsAreRight
    <2>6. QED  BY <1>27, <2>2, <2>4, <2>5
  <1>15. ASSUME ClosePanel PROVE SavedInv'
    BY <1>3, <1>15 DEF ClosePanel, sbDialogs, sbRemote
  <1>16. ASSUME UnlistMine PROVE SavedInv'
    <2>1. UNCHANGED <<sbStore, sbSaves, sbPublishes, sbFile, sbAsk, sbMerge>>
      BY <1>16 DEF UnlistMine, sbDialogs
    <2>2. PICK pub \in sbServer : sbCalls' = sbCalls \cup {[kind |-> "unlist", pub |-> pub]}
      BY <1>16 DEF UnlistMine
    <2>3. CallsAreRight(sbCalls', sbSaves)
      BY <1>26, <2>2 DEF CallsAreRight
    <2>4. QED  BY <1>1, <1>27, <2>1, <2>3
  <1>17. ASSUME UnlistAnswer PROVE SavedInv'
    <2>1. PICK c \in {d \in sbCalls : d.kind \in {"drop", "unlist"}} :
            /\ sbCalls' = sbCalls \ {c}
            /\ \/ sbStore' = sbStore
               \/ sbStore' = Changed(sbStore, LAMBDA b : b.pub = c.pub,
                               LAMBDA b : [b EXCEPT !.pub = Unpublished])
      BY <1>17 DEF UnlistAnswer, SaveToStorage
    <2>2. UNCHANGED <<sbSaves, sbPublishes, sbFile, sbAsk, sbMerge>>
      BY <1>17 DEF UnlistAnswer, sbDialogs
    <2>3. OwnIds(sbStore', sbSaves)
      <3>1. CASE sbStore' = sbStore
        BY <1>1, <3>1
      <3>2. CASE sbStore' = Changed(sbStore, LAMBDA b : b.pub = c.pub,
                                LAMBDA b : [b EXCEPT !.pub = Unpublished])
        <4>1. sbStore' = [i \in DOMAIN sbStore |-> IF sbStore[i].pub = c.pub
                            THEN [sbStore[i] EXCEPT !.pub = Unpublished] ELSE sbStore[i]]
          BY <3>2 DEF Changed
        <4>2. /\ sbStore' = [i \in DOMAIN sbStore |-> sbStore'[i]]
              /\ \A i \in DOMAIN sbStore : sbStore'[i] \in SavedEntries /\ sbStore'[i].id = sbStore[i].id
          BY <1>2, <4>1 DEF SavedEntries, Unpublished
        <4>3. QED  BY <1>1, <4>2, SameIds
      <3>3. QED  BY <2>1, <3>1, <3>2
    <2>4. CallsAreRight(sbCalls', sbSaves)
      BY <1>26, <2>1 DEF CallsAreRight
    <2>5. QED  BY <1>27, <2>2, <2>3, <2>4
  <1>18. ASSUME ExportBackup PROVE SavedInv'
    <2>1. sbFile' = sbStore /\ UNCHANGED <<sbStore, sbSaves, sbPublishes, sbAsk, sbMerge, sbCalls>>
      BY <1>18 DEF ExportBackup, sbDialogs, sbRemote
    <2>2. QED  BY <2>1 DEF SavedInv
  <1>19. ASSUME ImportOverwrite PROVE SavedInv'
    <2>1. sbStore' = sbFile /\ UNCHANGED <<sbFile, sbSaves, sbPublishes, sbAsk, sbMerge, sbCalls>>
      BY <1>19 DEF ImportOverwrite, SaveToStorage, sbDialogs, sbRemote
    <2>2. QED  BY <2>1 DEF SavedInv
  <1>20. ASSUME ImportMerge PROVE SavedInv'
    <2> DEFINE fresh == {i \in DOMAIN sbFile : sbFile[i].id \notin IdsOf(sbStore)}
               taken == {i \in fresh : sbFile[i].name \in NamesOf(sbStore)}
               conflicts == ElementsAt(sbFile, taken)
               clean == ElementsAt(sbFile, fresh \ taken)
    <2>1. /\ UNCHANGED <<sbFile, sbSaves, sbPublishes, sbAsk, sbCalls>>
          /\ \/ sbStore' = Merged(clean, <<>>, sbStore) /\ sbMerge' = sbMerge
             \/ /\ sbMerge' = [conflicts |-> conflicts, clean |-> clean, existing |-> sbStore]
                /\ sbStore' = sbStore
      BY <1>20 DEF ImportMerge, sbRemote
    <2>2. OwnIds(conflicts, sbSaves) /\ OwnIds(clean, sbSaves)
      BY <1>1, ChosenNumbered
    <2>3. (fresh \ taken) \cap taken = {}
      OBVIOUS
    <2>4. Apart(clean, conflicts)
      BY <1>1, <2>3, ChosenApart
    <2>5. \A i \in fresh : \A j \in DOMAIN sbStore : sbFile[i].id # sbStore[j].id
      BY DEF IdsOf
    <2>6. Apart(clean, sbStore) /\ Apart(conflicts, sbStore)
      <3> DEFINE rest == fresh \ taken
      <3>11. rest \subseteq fresh /\ taken \subseteq fresh
        OBVIOUS
      <3>12. clean = ElementsAt(sbFile, rest) /\ conflicts = ElementsAt(sbFile, taken)
        OBVIOUS
      <3> HIDE DEF fresh, taken, clean, conflicts, rest
      <3>13. \A k \in DOMAIN clean : \E i \in rest \cap DOMAIN sbFile : clean[k] = sbFile[i]
        BY <1>1, <3>12, ChosenNumbered
      <3>14. \A k \in DOMAIN conflicts : \E i \in taken \cap DOMAIN sbFile : conflicts[k] = sbFile[i]
        BY <1>1, <3>12, ChosenNumbered
      <3>1. \A k \in DOMAIN clean : \E i \in fresh : clean[k] = sbFile[i]
        BY <3>11, <3>13
      <3>2. \A k \in DOMAIN conflicts : \E i \in fresh : conflicts[k] = sbFile[i]
        BY <3>11, <3>14
      <3>3. QED  BY <2>5, <3>1, <3>2 DEF Apart
    <2> HIDE DEF fresh, taken, clean, conflicts
    <2>7. CASE sbStore' = Merged(clean, <<>>, sbStore) /\ sbMerge' = sbMerge
      <3>1. <<>> \in Seq(SavedEntries)
        OBVIOUS
      <3>2. OwnIds(Merged(clean, <<>>, sbStore), sbSaves)
        BY <1>1, <2>2, <2>6, <3>1, MergedNumbered
      <3>3. sbStore' = Merged(clean, <<>>, sbStore)
        BY <2>7
      <3>4. OwnIds(sbStore', sbSaves)
        BY <3>2, <3>3
      <3>5. UNCHANGED <<sbSaves, sbPublishes, sbFile, sbAsk, sbMerge>> /\ CallsAreRight(sbCalls', sbSaves)
        BY <1>26, <2>1, <2>7
      <3>6. QED  BY <1>27, <3>4, <3>5
    <2>8. CASE /\ sbMerge' = [conflicts |-> conflicts, clean |-> clean, existing |-> sbStore]
               /\ sbStore' = sbStore
      <3>1. sbMerge'.conflicts = conflicts /\ sbMerge'.clean = clean /\ sbMerge'.existing = sbStore
        BY <2>8
      <3>2. QED  BY <1>1, <2>1, <2>2, <2>4, <2>6, <2>8, <3>1 DEF SavedInv
    <2>9. QED  BY <2>1, <2>7, <2>8
  <1>21. ASSUME sbMerge' = NoMerge, UNCHANGED <<sbSaves, sbPublishes, sbFile, sbAsk, sbCalls>>,
                OwnIds(sbStore', sbSaves)
         PROVE  SavedInv'
    <2> DEFINE none == <<>>
    <2>1. none \in Seq(SavedEntries) /\ DOMAIN none = {}
      OBVIOUS
    <2>2. sbMerge'.conflicts = none /\ sbMerge'.clean = none /\ sbMerge'.existing = none
      BY <1>21 DEF NoMerge
    <2> HIDE DEF none
    <2>3. OwnIds(none, sbSaves) /\ Apart(none, none)
      BY <2>1 DEF OwnIds, Apart
    <2>4. QED  BY <1>21, <2>2, <2>3 DEF SavedInv
  <1>22. ASSUME ResolveConflicts PROVE SavedInv'
    <2>1. sbMerge' = NoMerge /\ UNCHANGED <<sbSaves, sbPublishes, sbFile, sbAsk, sbCalls>>
      BY <1>22 DEF ResolveConflicts, sbRemote
    <2>2. PICK choice \in [DOMAIN sbMerge.conflicts ->
                             {"skip", "overwrite"} \cup (Names \ NamesOf(sbMerge.existing))] :
            LET chosen(K) == ElementsAt([i \in DOMAIN choice |-> i], {i \in DOMAIN choice : choice[i] \in K})
                renamed == [i \in DOMAIN chosen(Names) |->
                              [sbMerge.conflicts[chosen(Names)[i]] EXCEPT
                                 !.name = choice[chosen(Names)[i]]]]
                over == [i \in DOMAIN chosen({"overwrite"}) |->
                           sbMerge.conflicts[chosen({"overwrite"})[i]]]
            IN sbStore' = Merged(sbMerge.clean \o renamed, over, sbMerge.existing)
      BY <1>22 DEF ResolveConflicts
    <2> DEFINE conflicts == sbMerge.conflicts  n == Len(conflicts)  all == [i \in DOMAIN choice |-> i]
               chosen(K) == ElementsAt(all, {i \in DOMAIN choice : choice[i] \in K})
               named == chosen(Names)
               over == [i \in DOMAIN chosen({"overwrite"}) |-> conflicts[chosen({"overwrite"})[i]]]
               renamed == [i \in DOMAIN named |-> [conflicts[named[i]] EXCEPT !.name = choice[named[i]]]]
    <2>3. sbStore' = Merged(sbMerge.clean \o renamed, over, sbMerge.existing)
      BY <2>2
    <2>4. /\ OwnIds(conflicts, sbSaves) /\ OwnIds(sbMerge.clean, sbSaves)
          /\ OwnIds(sbMerge.existing, sbSaves) /\ Apart(sbMerge.clean, conflicts)
          /\ Apart(sbMerge.clean, sbMerge.existing) /\ Apart(conflicts, sbMerge.existing)
      BY DEF SavedInv
    <2>5. conflicts \in Seq(SavedEntries) /\ n \in Nat /\ DOMAIN conflicts = 1..n /\ DOMAIN choice = 1..n
          /\ \A i \in 1..n : conflicts[i] \in SavedEntries
      <3>1. conflicts \in Seq(SavedEntries)
        BY <2>4 DEF OwnIds
      <3>2. QED  BY <3>1, ElementOf
    <2>6. all \in Seq(1..n) /\ Len(all) = n /\ \A i \in 1..n : all[i] = i
      BY <2>5
    <2>7. ASSUME NEW K
          PROVE  /\ chosen(K) \in Seq(1..n)
                 /\ \A k \in DOMAIN chosen(K) : choice[chosen(K)[k]] \in K
                 /\ \A k \in DOMAIN chosen(K) : \A l \in DOMAIN chosen(K) : chosen(K)[k] = chosen(K)[l] => k = l
      <3> DEFINE I == {i \in DOMAIN choice : choice[i] \in K}  part == ElementsAt(all, I)
      <3>1. \A i \in I : choice[i] \in K
        OBVIOUS
      <3> HIDE DEF all, n, I, part
      <3>2. part \in Seq(1..n) /\ \E at : Selects(at, part, all, I, Len(all))
        BY <2>6, ElementsAtSelects DEF part
      <3>3. PICK at : Selects(at, part, all, I, Len(all))
        BY <3>2
      <3>4. DOMAIN part = 1..Len(part) /\ Len(part) \in Nat
        BY <3>2
      <3>5. \A k \in DOMAIN part : at[k] \in I /\ at[k] \in 1..n /\ part[k] = at[k]
        BY <2>6, <3>3, <3>4 DEF Selects
      <3>6. ASSUME NEW k \in DOMAIN part, NEW l \in DOMAIN part, part[k] = part[l] PROVE k = l
        <4>1. at[k] = at[l] /\ at[k] \in Nat /\ at[l] \in Nat /\ k \in Nat /\ l \in Nat
          BY <2>5, <3>4, <3>5, <3>6
        <4>2. (k < l => at[k] < at[l]) /\ (l < k => at[l] < at[k])
          BY <3>3, <3>4 DEF Selects
        <4>3. QED  BY <4>1, <4>2
      <3>7. chosen(K) = part
        BY DEF part, I
      <3>8. \A k \in DOMAIN part : choice[part[k]] \in K
        BY <3>1, <3>5
      <3> HIDE DEF chosen
      <3>9. QED  BY <3>2, <3>6, <3>7, <3>8
    <2> DEFINE overs == chosen({"overwrite"})
    <2> HIDE DEF chosen
    <2>8. /\ named \in Seq(1..n) /\ \A k \in DOMAIN named : named[k] \in 1..n /\ choice[named[k]] \in Names
          /\ \A k \in DOMAIN named : \A l \in DOMAIN named : named[k] = named[l] => k = l
      BY <2>7
    <2>9. overs \in Seq(1..n) /\ \A k \in DOMAIN overs : overs[k] \in 1..n
      BY <2>7
    <2> HIDE DEF n, all, chosen, named, overs
    <2>10. over = [i \in DOMAIN overs |-> conflicts[overs[i]]]
      BY DEF overs
    <2>11. over \in Seq(SavedEntries)
      <3>1. /\ over = [i \in DOMAIN overs |-> over[i]] /\ \A i \in DOMAIN overs : over[i] \in SavedEntries
        BY <2>5, <2>9, <2>10
      <3> HIDE DEF over
      <3>2. QED  BY <2>9, <3>1, SameLength
    <2>12. \A i \in DOMAIN named : renamed[i] \in SavedEntries /\ renamed[i].id = conflicts[named[i]].id
      BY <2>5, <2>8 DEF SavedEntries
    <2>13. renamed = [i \in DOMAIN named |-> renamed[i]] /\ DOMAIN renamed = DOMAIN named
      OBVIOUS
    <2> HIDE DEF renamed, over, conflicts
    <2>14. renamed \in Seq(SavedEntries)
      BY <2>8, <2>12, <2>13, SameLength
    <2>15. OwnIds(renamed, sbSaves)
      BY <2>4, <2>5, <2>8, <2>12, <2>13, <2>14 DEF OwnIds
    <2>16. Apart(sbMerge.clean, renamed) /\ Apart(renamed, sbMerge.existing)
      <3>1. \A i \in DOMAIN renamed : named[i] \in DOMAIN conflicts /\ renamed[i].id = conflicts[named[i]].id
        BY <2>5, <2>8, <2>12, <2>13
      <3>2. Apart(sbMerge.clean, renamed)
        BY <2>4, <3>1 DEF Apart
      <3>3. Apart(renamed, sbMerge.existing)
        BY <2>4, <3>1 DEF Apart
      <3>4. QED  BY <3>2, <3>3
    <2>17. OwnIds(sbMerge.clean \o renamed, sbSaves)
      BY <2>4, <2>15, <2>16, JoinedNumbered
    <2>18. Apart(sbMerge.clean \o renamed, sbMerge.existing)
      <3>1. sbMerge.clean \in Seq(SavedEntries)
        BY <2>4 DEF OwnIds
      <3>2. \A k \in DOMAIN (sbMerge.clean \o renamed) :
               (\E i \in DOMAIN sbMerge.clean : (sbMerge.clean \o renamed)[k] = sbMerge.clean[i])
               \/ (\E i \in DOMAIN renamed : (sbMerge.clean \o renamed)[k] = renamed[i])
        BY <2>14, <3>1, ConcatFrom
      <3>3. QED  BY <2>4, <2>16, <3>2 DEF Apart
    <2>19. OwnIds(sbStore', sbSaves)
      BY <2>3, <2>4, <2>11, <2>17, <2>18, MergedNumbered
    <2>20. QED  BY <1>21, <2>1, <2>19
  <1>23. ASSUME CancelMerge PROVE SavedInv'
    <2>1. sbMerge' = NoMerge /\ UNCHANGED <<sbStore, sbSaves, sbPublishes, sbFile, sbAsk, sbCalls>>
      BY <1>23 DEF CancelMerge, sbRemote
    <2>2. QED  BY <1>1, <1>21, <2>1
  <1>24. ASSUME UNCHANGED sbVars PROVE SavedInv'
    BY <1>3, <1>24 DEF sbVars, sbDialogs, sbRemote
  <1>25. QED
    BY <1>5, <1>6, <1>7, <1>8, <1>9, <1>10, <1>11, <1>12, <1>13, <1>14, <1>15, <1>16, <1>17, <1>18,
       <1>19, <1>20, <1>22, <1>23, <1>24 DEF SavedBuildsNext

(* Saved builds (build-manager.js, build-publish.js): in every behaviour of *)
(* SavedBuildsSpec, whatever is saved, imported, merged or written back by  *)
(* a late answer, no two builds of the list have one id.                    *)
THEOREM SavedIdsStayDistinct == SavedBuildsSpec => []SavedIdsAreDistinct
  <1>1. SavedInv => SavedIdsAreDistinct
    BY OwnIdsCount DEF SavedInv, SavedIdsAreDistinct
  <1>2. SavedInv /\ [SavedBuildsNext]_sbVars => SavedInv'
    BY SavedSteps
  <1>3. QED  BY SavedStarts, <1>1, <1>2, PTL DEF SavedBuildsSpec

--------------------------------------------------------------------------------
(* The strip of tabs and the preview over it.                                *)
StripChips == [id : Chips, pinned : BOOLEAN]

(* Chips of different tabs, the pinned ones in front.                        *)
StripOf(strip) ==
  /\ strip \in Seq(StripChips)
  /\ \A i, j \in DOMAIN strip : strip[i].id = strip[j].id => i = j
  /\ \A i, j \in DOMAIN strip : i < j /\ strip[j].pinned => strip[i].pinned

ChipOrder(strip) == [i \in DOMAIN strip |-> strip[i].id]

(* What follows in the order follows at once among the tabs, if it is there: *)
(* the tabs of a group are together even when some of them have gone.        *)
Together(order, strip) ==
  \A k \in DOMAIN order, i \in DOMAIN strip :
    strip[i].id = order[k] /\ k + 1 \in DOMAIN order /\ order[k + 1] \in ChipIds(strip) =>
      i + 1 \in DOMAIN strip /\ strip[i + 1].id = order[k + 1]

PinnedAlike(strip, ids) ==
  \A i, j \in DOMAIN strip : strip[i].id \in ids /\ strip[j].id \in ids => strip[i].pinned = strip[j].pinned

PinnedAs(strip, other) ==
  \A i \in DOMAIN strip, j \in DOMAIN other :
    strip[i].id = other[j].id => strip[i].pinned = other[j].pinned

Injected(seq) == \A i, j \in DOMAIN seq : seq[i] = seq[j] => i = j
SameElements(s, t) == Len(s) = Len(t) /\ (\A x : Occurs(s, x) <=> Occurs(t, x))

TabsFit ==
  /\ StripOf(tpTabs) /\ StripOf(tpRendered)
  /\ ChipIds(tpTabs) \subseteq DOMAIN tpEdits /\ ChipIds(tpRendered) \subseteq DOMAIN tpEdits
  /\ DOMAIN tpEdits \subseteq Chips /\ tpActive \in ChipIds(tpTabs)
  /\ tpShown \in DOMAIN tpEdits \cup {NoChip} /\ tpHover \in DOMAIN tpEdits \cup {NoChip}

(* The strip lags behind the tabs by some that were opened at the end and    *)
(* some that were closed.                                                    *)
StripFits == Together(ChipOrder(tpRendered), tpTabs) /\ PinnedAs(tpRendered, tpTabs)

DragFits ==
  /\ tpDrag.group \in Seq(Chips) /\ tpDrag.order \in Seq(Chips)
  /\ Injected(tpDrag.group) /\ Injected(tpDrag.order)
  /\ SameElements(tpDrag.order, tpDrag.group)
  /\ \A x : Occurs(tpDrag.group, x) => x \in DOMAIN tpEdits
  /\ tpDrag # NoChipDrag => Occurs(tpDrag.group, tpDrag.chip)
  /\ tpDrag = [chip |-> tpDrag.chip, group |-> tpDrag.group, order |-> tpDrag.order]
  /\ Together(tpDrag.group, tpTabs)
  /\ PinnedAlike(tpTabs, {x \in Chips : Occurs(tpDrag.group, x)})

PreviewFits ==
  /\ PreviewIsOfItsTab
  /\ tpShown # NoChip /\ tpStage = "image" /\ ~tpFailed => tpStats = Build(tpShown)

StripInv == TabsFit /\ StripFits /\ DragFits /\ PreviewFits

(* There are as many tabs as chips.                                          *)
LEMMA ChipsCounted ==
  ASSUME NEW strip, StripOf(strip)
  PROVE  Cardinality(ChipIds(strip)) = Len(strip)
  <1> DEFINE at == [i \in 1 .. Len(strip) |-> strip[i].id]
  <1>1. strip \in Seq(StripChips) /\ DOMAIN strip = 1 .. Len(strip) /\ Len(strip) \in Nat
    BY DEF StripOf
  <1>2. at \in Bijection(1 .. Len(strip), ChipIds(strip))
    <2>1. \A i, j \in 1 .. Len(strip) : at[i] = at[j] => i = j
      BY <1>1 DEF StripOf
    <2>2. \A c \in ChipIds(strip) : \E i \in 1 .. Len(strip) : at[i] = c
      BY <1>1 DEF ChipIds
    <2>3. at \in [1 .. Len(strip) -> ChipIds(strip)]
      BY <1>1 DEF ChipIds
    <2>4. QED
      BY <2>1, <2>2, <2>3 DEF Bijection, Injection, Surjection, IsInjective
  <1>3. IsFiniteSet(1 .. Len(strip)) /\ Cardinality(1 .. Len(strip)) = Len(strip)
    BY <1>1, FS_Interval
  <1>4. ExistsBijection(1 .. Len(strip), ChipIds(strip))
    BY <1>2 DEF ExistsBijection
  <1>5. QED  BY <1>3, <1>4, FS_Bijection

(* A tab that is gone.                                                       *)
LEMMA WithoutTab ==
  ASSUME NEW strip, StripOf(strip), NEW i \in DOMAIN strip
  PROVE  LET rest == RemoveAt(strip, i) IN
         /\ StripOf(rest)
         /\ \A c : c \in ChipIds(rest) <=> c \in ChipIds(strip) /\ c # strip[i].id
         /\ \A order : Together(order, strip) => Together(order, rest)
         /\ \A ids : PinnedAlike(strip, ids) => PinnedAlike(rest, ids)
         /\ \A other : PinnedAs(other, strip) => PinnedAs(other, rest)
  <1> DEFINE rest == RemoveAt(strip, i)
  <1>1. strip \in Seq(StripChips) /\ Len(strip) \in Nat /\ DOMAIN strip = 1 .. Len(strip) /\ i \in 1 .. Len(strip)
    BY DEF StripOf
  <1>2. /\ rest \in Seq(StripChips) /\ Len(rest) = Len(strip) - 1 /\ DOMAIN rest = 1 .. (Len(strip) - 1)
        /\ \A j \in DOMAIN rest : rest[j] = IF j < i THEN strip[j] ELSE strip[j + 1]
    BY <1>1, RemoveAtRest
  <1> HIDE DEF rest
  <1> DEFINE from == [j \in DOMAIN rest |-> IF j < i THEN j ELSE j + 1]
  <1>3. /\ \A j \in DOMAIN rest : from[j] \in DOMAIN strip /\ from[j] # i /\ rest[j] = strip[from[j]]
        /\ \A j, k \in DOMAIN rest : j < k => from[j] < from[k]
        /\ \A k \in DOMAIN strip : k # i => \E j \in DOMAIN rest : from[j] = k
    <2>1. \A j \in DOMAIN rest : from[j] \in DOMAIN strip /\ from[j] # i /\ rest[j] = strip[from[j]]
      BY <1>1, <1>2
    <2>2. \A j, k \in DOMAIN rest : j < k => from[j] < from[k]
      BY <1>1, <1>2
    <2>3. ASSUME NEW k \in DOMAIN strip, k # i PROVE \E j \in DOMAIN rest : from[j] = k
      <3>1. CASE k < i
        <4>1. k \in DOMAIN rest /\ from[k] = k
          BY <3>1, <1>1, <1>2
        <4>2. QED  BY <4>1
      <3>2. CASE k > i
        <4>1. k - 1 \in DOMAIN rest /\ from[k - 1] = k
          BY <3>2, <1>1, <1>2
        <4>2. QED  BY <4>1
      <3>3. QED  BY <3>1, <3>2, <2>3, <1>1
    <2>4. QED  BY <2>1, <2>2, <2>3
  <1>4. \A j \in DOMAIN rest : j \in Nat /\ from[j] \in Nat
    BY <1>1, <1>2
  <1> HIDE DEF from
  <1>5. StripOf(rest)
    <2>1. ASSUME NEW j \in DOMAIN rest, NEW k \in DOMAIN rest, rest[j].id = rest[k].id PROVE j = k
      <3>1. from[j] = from[k]
        BY <2>1, <1>3 DEF StripOf
      <3>2. ~(j < k) /\ ~(k < j)
        BY <3>1, <1>3, <1>4
      <3>3. QED  BY <3>2, <1>4
    <2>2. ASSUME NEW j \in DOMAIN rest, NEW k \in DOMAIN rest, j < k, rest[k].pinned PROVE rest[j].pinned
      BY <2>2, <1>3, <1>4 DEF StripOf
    <2>3. QED  BY <2>1, <2>2, <1>2 DEF StripOf
  <1>6. ASSUME NEW c PROVE c \in ChipIds(rest) <=> c \in ChipIds(strip) /\ c # strip[i].id
    <2>1. ASSUME NEW j \in DOMAIN rest, rest[j].id = c PROVE c \in ChipIds(strip) /\ c # strip[i].id
      <3>1. from[j] \in DOMAIN strip /\ from[j] # i /\ strip[from[j]].id = c
        BY <2>1, <1>3
      <3>2. QED  BY <3>1 DEF ChipIds, StripOf
    <2>2. ASSUME NEW k \in DOMAIN strip, strip[k].id = c, c # strip[i].id PROVE c \in ChipIds(rest)
      <3>1. PICK j \in DOMAIN rest : from[j] = k
        BY <2>2, <1>3
      <3>2. QED  BY <3>1, <2>2, <1>3 DEF ChipIds
    <2>3. QED  BY <2>1, <2>2 DEF ChipIds
  <1>7. ASSUME NEW order, Together(order, strip) PROVE Together(order, rest)
    <2> SUFFICES ASSUME NEW k \in DOMAIN order, NEW j \in DOMAIN rest, rest[j].id = order[k],
                        k + 1 \in DOMAIN order, order[k + 1] \in ChipIds(rest)
                 PROVE  j + 1 \in DOMAIN rest /\ rest[j + 1].id = order[k + 1]
      BY DEF Together
    <2>1. from[j] \in DOMAIN strip /\ strip[from[j]].id = order[k]
      BY <1>3
    <2>2. order[k + 1] \in ChipIds(strip) /\ order[k + 1] # strip[i].id
      BY <1>6
    <2>3. from[j] + 1 \in DOMAIN strip /\ strip[from[j] + 1].id = order[k + 1]
      BY <2>1, <2>2, <1>7 DEF Together
    <2>4. PICK l \in DOMAIN rest : from[l] = from[j] + 1
      BY <2>3, <2>2, <1>3
    <2>5. j < l
      <3>1. ~(l < j) /\ l # j
        BY <2>4, <1>3, <1>4
      <3>2. QED  BY <3>1, <1>4
    <2>6. j + 1 \in DOMAIN rest
      BY <2>5, <1>2, <1>4, <1>1
    <2>7. ~(j + 1 < l)
      <3>1. from[j] < from[j + 1]
        BY <2>6, <1>3, <1>4
      <3>2. SUFFICES ASSUME j + 1 < l PROVE FALSE
        OBVIOUS
      <3>3. from[j + 1] < from[l]
        BY <3>2, <2>6, <1>3
      <3>4. QED  BY <3>1, <3>3, <2>4, <2>6, <1>4
    <2>8. l = j + 1
      BY <2>5, <2>7, <1>4
    <2>9. QED  BY <2>8, <2>6, <2>3, <2>4, <1>3
  <1>8. ASSUME NEW ids, PinnedAlike(strip, ids) PROVE PinnedAlike(rest, ids)
    BY <1>8, <1>3 DEF PinnedAlike
  <1>9. ASSUME NEW other, PinnedAs(other, strip) PROVE PinnedAs(other, rest)
    BY <1>9, <1>3 DEF PinnedAs
  <1>10. QED  BY <1>5, <1>6, <1>7, <1>8, <1>9 DEF rest

(* A tab that is opened behind the others.                                   *)
LEMMA WithNewTab ==
  ASSUME NEW strip, StripOf(strip), NEW c \in Chips, c \notin ChipIds(strip)
  PROVE  LET more == Append(strip, [id |-> c, pinned |-> FALSE]) IN
         /\ StripOf(more) /\ ChipIds(more) = ChipIds(strip) \cup {c}
         /\ \A order : Together(order, strip) /\ ~Occurs(order, c) => Together(order, more)
         /\ \A ids : PinnedAlike(strip, ids) /\ c \notin ids => PinnedAlike(more, ids)
         /\ \A other : PinnedAs(other, strip) /\ c \notin ChipIds(other) => PinnedAs(other, more)
  <1> DEFINE e == [id |-> c, pinned |-> FALSE]
             more == Append(strip, e)
  <1>1. strip \in Seq(StripChips) /\ Len(strip) \in Nat /\ DOMAIN strip = 1 .. Len(strip) /\ e \in StripChips
    BY DEF StripOf, StripChips
  <1>2. e.id = c /\ e.pinned = FALSE
    OBVIOUS
  <1> HIDE DEF e
  <1>3. /\ more \in Seq(StripChips) /\ Len(more) = Len(strip) + 1
        /\ \A j \in DOMAIN strip : more[j] = strip[j]
        /\ more[Len(strip) + 1] = e
    BY <1>1, AppendLast
  <1>4. DOMAIN more = 1 .. (Len(strip) + 1)
    BY <1>3
  <1> HIDE DEF more
  <1>5. \A j \in DOMAIN more :
                 \/ j \in DOMAIN strip /\ more[j] = strip[j]
                 \/ j = Len(strip) + 1 /\ more[j].id = c /\ ~more[j].pinned
    <2>1. more[Len(strip) + 1].id = c /\ ~more[Len(strip) + 1].pinned
      BY <1>2, <1>3
    <2>2. \A j \in DOMAIN more : j \in DOMAIN strip \/ j = Len(strip) + 1
      BY <1>1, <1>4
    <2>3. \A j \in DOMAIN strip : more[j] = strip[j]
      BY <1>3
    <2>4. ASSUME NEW j \in DOMAIN more
          PROVE  \/ j \in DOMAIN strip /\ more[j] = strip[j]
                 \/ j = Len(strip) + 1 /\ more[j].id = c /\ ~more[j].pinned
      <3>1. CASE j \in DOMAIN strip
        BY <3>1, <2>3
      <3>2. CASE j = Len(strip) + 1
        BY <3>2, <2>1
      <3>3. QED  BY <3>1, <3>2, <2>2
    <2>5. QED  BY <2>4
  <1>6. DOMAIN strip \subseteq DOMAIN more /\ Len(strip) + 1 \in DOMAIN more
    BY <1>1, <1>4
  <1>7. \A j \in DOMAIN strip : strip[j].id # c /\ j \in Nat /\ j <= Len(strip)
    BY <1>1 DEF ChipIds
  <1>8. StripOf(more)
    <2>1. ASSUME NEW j \in DOMAIN more, NEW k \in DOMAIN more, more[j].id = more[k].id PROVE j = k
      BY <2>1, <1>5, <1>7 DEF StripOf
    <2>2. ASSUME NEW j \in DOMAIN more, NEW k \in DOMAIN more, j < k, more[k].pinned PROVE more[j].pinned
      <3>1. k \in DOMAIN strip /\ more[k] = strip[k]
        BY <2>2, <1>5
      <3>2. j # Len(strip) + 1
        BY <3>1, <1>7, <2>2, <1>1
      <3>3. j \in DOMAIN strip /\ more[j] = strip[j]
        BY <3>2, <1>5
      <3>4. QED  BY <3>1, <3>3, <2>2 DEF StripOf
    <2>3. QED  BY <2>1, <2>2, <1>3 DEF StripOf
  <1>9. ChipIds(more) = ChipIds(strip) \cup {c}
    <2>1. \A d \in ChipIds(more) : d \in ChipIds(strip) \/ d = c
      BY <1>5 DEF ChipIds
    <2>2. \A d \in ChipIds(strip) : d \in ChipIds(more)
      BY <1>3, <1>6 DEF ChipIds
    <2>3. c \in ChipIds(more)
      BY <1>3, <1>6, <1>2 DEF ChipIds
    <2>4. QED  BY <2>1, <2>2, <2>3
  <1>10. ASSUME NEW order, Together(order, strip), ~Occurs(order, c) PROVE Together(order, more)
    <2> SUFFICES ASSUME NEW k \in DOMAIN order, NEW j \in DOMAIN more, more[j].id = order[k],
                        k + 1 \in DOMAIN order, order[k + 1] \in ChipIds(more)
                 PROVE  j + 1 \in DOMAIN more /\ more[j + 1].id = order[k + 1]
      BY DEF Together
    <2>1. order[k] # c /\ order[k + 1] # c
      BY <1>10 DEF Occurs
    <2>2. j \in DOMAIN strip /\ more[j] = strip[j] /\ order[k + 1] \in ChipIds(strip)
      BY <2>1, <1>5, <1>9
    <2>3. j + 1 \in DOMAIN strip /\ strip[j + 1].id = order[k + 1]
      BY <2>2, <1>10 DEF Together
    <2>4. QED  BY <2>3, <1>3, <1>6
  <1>11. ASSUME NEW ids, PinnedAlike(strip, ids), c \notin ids PROVE PinnedAlike(more, ids)
    BY <1>11, <1>5 DEF PinnedAlike
  <1>12. ASSUME NEW other, PinnedAs(other, strip), c \notin ChipIds(other) PROVE PinnedAs(other, more)
    BY <1>12, <1>5 DEF PinnedAs, ChipIds
  <1>13. QED  BY <1>8, <1>9, <1>10, <1>11, <1>12 DEF more, e

(* The order a drag shows: one of the group's is taken out and put in again. *)
LEMMA MovedChip ==
  ASSUME NEW s \in Seq(Chips), Injected(s), NEW e, Occurs(s, e), NEW i \in 1 .. Len(s)
  PROVE  LET t == InsertAt(RemoveAt(s, PlaceIn(s, e)), i, e) IN
         t \in Seq(Chips) /\ Injected(t) /\ SameElements(t, s)
  <1> DEFINE p == PlaceIn(s, e)
             t == InsertAt(RemoveAt(s, p), i, s[p])
  <1>1. p \in DOMAIN s /\ s[p] = e
    BY DEF PlaceIn, Occurs
  <1> HIDE DEF p
  <1>2. /\ t \in Seq(Chips) /\ Len(t) = Len(s) /\ DOMAIN t = DOMAIN s
        /\ \E from, back \in [DOMAIN s -> DOMAIN s] : Moves(from, back, s, t)
    BY <1>1, MovedElement
  <1> HIDE DEF t
  <1>3. PICK from \in [DOMAIN s -> DOMAIN s], back \in [DOMAIN s -> DOMAIN s] : Moves(from, back, s, t)
    BY <1>2
  <1>4. Injected(t)
    <2> SUFFICES ASSUME NEW j \in DOMAIN s, NEW k \in DOMAIN s, t[j] = t[k] PROVE j = k
      BY <1>2 DEF Injected
    <2>1. s[from[j]] = s[from[k]] /\ back[from[j]] = j /\ back[from[k]] = k
      BY <1>3 DEF Moves
    <2>2. from[j] = from[k]
      BY <2>1 DEF Injected
    <2>3. QED  BY <2>1, <2>2
  <1>5. SameElements(t, s)
    <2>1. \A x : Occurs(t, x) => Occurs(s, x)
      BY <1>2, <1>3 DEF Occurs, Moves
    <2>2. ASSUME NEW x, Occurs(s, x) PROVE Occurs(t, x)
      <3>1. PICK k \in DOMAIN s : s[k] = x
        BY <2>2 DEF Occurs
      <3>2. back[k] \in DOMAIN t /\ t[back[k]] = s[from[back[k]]] /\ from[back[k]] = k
        BY <1>2, <1>3, <3>1 DEF Moves
      <3>3. QED  BY <3>1, <3>2 DEF Occurs
    <2>3. QED  BY <1>2, <2>1, <2>2 DEF SameElements
  <1>6. QED  BY <1>1, <1>2, <1>4, <1>5 DEF t, p

(* A tab is pinned behind those that are, or unpinned in front of the others. *)
LEMMA PinnedFirst ==
  ASSUME NEW rest, StripOf(rest), NEW e \in StripChips, e.id \notin ChipIds(rest),
         NEW P, P = {j \in DOMAIN rest : rest[j].pinned}
  PROVE  LET all == ElementsAt(rest, P) \o <<e>> \o ElementsAt(rest, DOMAIN rest \ P) IN
         StripOf(all) /\ ChipIds(all) = ChipIds(rest) \cup {e.id}
  <1> DEFINE front == ElementsAt(rest, P)
             Q == DOMAIN rest \ P
             back == ElementsAt(rest, Q)
             one == <<e>>
             n == Len(rest)
  <1>1. rest \in Seq(StripChips) /\ n \in Nat /\ DOMAIN rest = 1 .. n
    BY DEF StripOf
  <1>2. one \in Seq(StripChips) /\ Len(one) = 1 /\ one[1] = e
    OBVIOUS
  <1>3. front \in Seq(StripChips) /\ back \in Seq(StripChips)
    BY <1>1, ElementsAtSelects
  <1>4. PICK at : Selects(at, front, rest, P, n)
    BY <1>1, ElementsAtSelects
  <1>5. PICK bt : Selects(bt, back, rest, Q, n)
    BY <1>1, ElementsAtSelects
  <1>6. P \cap (1 .. n) = P /\ Q \cap (1 .. n) = Q
    BY <1>1
  <1> DEFINE a == Len(front)
             b == Len(back)
  <1>7. a \in Nat /\ b \in Nat
    BY <1>3
  <1> DEFINE start == front \o one
             all == start \o back
  <1> HIDE DEF front, back, one, n
  <1>8. /\ start \in Seq(StripChips) /\ Len(start) = a + Len(one)
        /\ \A j \in 1 .. a + Len(one) : start[j] = IF j <= a THEN front[j] ELSE one[j - a]
    BY <1>2, <1>3, ConcatProperties
  <1> HIDE DEF start
  <1>9. /\ all \in Seq(StripChips) /\ Len(all) = Len(start) + b
        /\ \A j \in 1 .. Len(start) + b : all[j] = IF j <= Len(start) THEN start[j] ELSE back[j - Len(start)]
    BY <1>3, <1>8, ConcatProperties
  <1> HIDE DEF all, a, b, Q
  <1>10. Len(start) = a + 1 /\ DOMAIN all = 1 .. (a + 1 + b)
    BY <1>2, <1>7, <1>8, <1>9
  <1>11. \A j \in 1 .. a : all[j] = rest[at[j]] /\ at[j] \in P
    <2> SUFFICES ASSUME NEW j \in 1 .. a PROVE all[j] = rest[at[j]] /\ at[j] \in P
      OBVIOUS
    <2>1. all[j] = start[j]
      BY <1>9, <1>10, <1>7
    <2>2. start[j] = front[j]
      BY <1>8, <1>2, <1>7
    <2>3. front[j] = rest[at[j]] /\ at[j] \in P
      BY <1>4, <1>6 DEF Selects, a
    <2>4. QED  BY <2>1, <2>2, <2>3
  <1>12. all[a + 1] = e
    <2>1. all[a + 1] = start[a + 1]
      BY <1>9, <1>10, <1>7
    <2>2. a + 1 \in 1 .. a + Len(one) /\ ~(a + 1 <= a) /\ (a + 1) - a = 1
      BY <1>2, <1>7
    <2>3. QED  BY <2>1, <2>2, <1>8, <1>2
  <1>13. \A j \in 1 .. b : all[a + 1 + j] = rest[bt[j]] /\ bt[j] \in Q
    <2> SUFFICES ASSUME NEW j \in 1 .. b PROVE all[a + 1 + j] = rest[bt[j]] /\ bt[j] \in Q
      OBVIOUS
    <2>1. a + 1 + j \in 1 .. Len(start) + b /\ ~(a + 1 + j <= Len(start)) /\ (a + 1 + j) - Len(start) = j
      BY <1>10, <1>7
    <2>2. all[a + 1 + j] = back[j]
      BY <2>1, <1>9
    <2>3. back[j] = rest[bt[j]] /\ bt[j] \in Q
      BY <1>5, <1>6 DEF Selects, b
    <2>4. QED  BY <2>2, <2>3
  <1>14. \A j \in DOMAIN all : \/ j \in 1 .. a \/ j = a + 1 \/ \E k \in 1 .. b : j = a + 1 + k
    <2> SUFFICES ASSUME NEW j \in DOMAIN all, ~(j \in 1 .. a), j # a + 1 PROVE \E k \in 1 .. b : j = a + 1 + k
      OBVIOUS
    <2>1. j - (a + 1) \in 1 .. b /\ j = a + 1 + (j - (a + 1))
      BY <1>7, <1>10
    <2>2. QED  BY <2>1
  <1>15. /\ \A k, l \in 1 .. a : at[k] = at[l] => k = l
         /\ \A k, l \in 1 .. b : bt[k] = bt[l] => k = l
    <2>1. ASSUME NEW k \in 1 .. a, NEW l \in 1 .. a, at[k] = at[l] PROVE k = l
      <3>1. at[k] \in 1 .. n /\ at[l] \in 1 .. n
        BY <1>4, <1>6 DEF Selects, a
      <3>2. ~(k < l) /\ ~(l < k)
        BY <2>1, <3>1, <1>4, <1>1 DEF Selects, a
      <3>3. QED  BY <3>2, <1>7
    <2>2. ASSUME NEW k \in 1 .. b, NEW l \in 1 .. b, bt[k] = bt[l] PROVE k = l
      <3>1. bt[k] \in 1 .. n /\ bt[l] \in 1 .. n
        BY <1>5, <1>6 DEF Selects, b
      <3>2. ~(k < l) /\ ~(l < k)
        BY <2>2, <3>1, <1>5, <1>1 DEF Selects, b
      <3>3. QED  BY <3>2, <1>7
    <2>3. QED  BY <2>1, <2>2
  <1>16. P \cap Q = {} /\ P \subseteq DOMAIN rest /\ Q \subseteq DOMAIN rest
    BY DEF Q
  <1>17. \A k \in P : rest[k].pinned
    OBVIOUS
  <1>18. \A k \in Q : ~rest[k].pinned
    BY DEF Q
  <1>19. \A k \in DOMAIN rest : rest[k].id # e.id
    BY DEF ChipIds
  <1>20. \A k, l \in DOMAIN rest : rest[k].id = rest[l].id => k = l
    BY DEF StripOf
  <1>21. ASSUME NEW j \in DOMAIN all, NEW k \in DOMAIN all, all[j].id = all[k].id PROVE j = k
    <2>1. CASE j \in 1 .. a
      <3>1. CASE k \in 1 .. a
        BY <2>1, <3>1, <1>21, <1>11, <1>15, <1>16, <1>20
      <3>2. CASE k = a + 1
        BY <2>1, <3>2, <1>21, <1>11, <1>12, <1>16, <1>19
      <3>3. ASSUME NEW l \in 1 .. b, k = a + 1 + l PROVE FALSE
        BY <2>1, <3>3, <1>21, <1>11, <1>13, <1>16, <1>20
      <3>4. QED  BY <3>1, <3>2, <3>3, <1>14
    <2>2. CASE j = a + 1
      <3>1. CASE k \in 1 .. a
        BY <2>2, <3>1, <1>21, <1>11, <1>12, <1>16, <1>19
      <3>2. ASSUME NEW l \in 1 .. b, k = a + 1 + l PROVE FALSE
        BY <2>2, <3>2, <1>21, <1>12, <1>13, <1>16, <1>19
      <3>3. QED  BY <3>1, <3>2, <2>2, <1>14
    <2>3. ASSUME NEW m \in 1 .. b, j = a + 1 + m PROVE j = k
      <3>1. CASE k \in 1 .. a
        BY <2>3, <3>1, <1>21, <1>11, <1>13, <1>16, <1>20
      <3>2. CASE k = a + 1
        BY <2>3, <3>2, <1>21, <1>12, <1>13, <1>16, <1>19
      <3>3. ASSUME NEW l \in 1 .. b, k = a + 1 + l PROVE j = k
        BY <2>3, <3>3, <1>21, <1>13, <1>15, <1>16, <1>20
      <3>4. QED  BY <3>1, <3>2, <3>3, <1>14
    <2>4. QED  BY <2>1, <2>2, <2>3, <1>14
  <1>22. ASSUME NEW j \in DOMAIN all, NEW k \in DOMAIN all, j < k, all[k].pinned PROVE all[j].pinned
    <2>1. ~ \E l \in 1 .. b : k = a + 1 + l
      BY <1>22, <1>13, <1>18
    <2>2. k \in 1 .. a \/ k = a + 1
      BY <2>1, <1>14
    <2>3. j \in 1 .. a
      BY <2>2, <1>22, <1>10, <1>7
    <2>4. QED  BY <2>3, <1>11, <1>17
  <1>23. StripOf(all)
    BY <1>9, <1>21, <1>22 DEF StripOf
  <1>24. ASSUME NEW j \in DOMAIN all PROVE all[j].id \in ChipIds(rest) \cup {e.id}
    <2>1. CASE j \in 1 .. a
      BY <2>1, <1>11, <1>16 DEF ChipIds
    <2>2. CASE j = a + 1
      BY <2>2, <1>12
    <2>3. ASSUME NEW l \in 1 .. b, j = a + 1 + l PROVE all[j].id \in ChipIds(rest)
      BY <2>3, <1>13, <1>16 DEF ChipIds
    <2>4. QED  BY <2>1, <2>2, <2>3, <1>14
  <1>25. e.id \in ChipIds(all)
    <2>1. a + 1 \in DOMAIN all
      BY <1>10, <1>7
    <2>2. QED  BY <2>1, <1>12 DEF ChipIds
  <1>26. ASSUME NEW k \in DOMAIN rest PROVE rest[k].id \in ChipIds(all)
    <2>1. CASE k \in P
      <3>1. PICK j \in 1 .. a : at[j] = k
        BY <2>1, <1>4, <1>6 DEF Selects, a
      <3>2. j \in DOMAIN all
        BY <3>1, <1>10, <1>7
      <3>3. QED  BY <3>1, <3>2, <1>11 DEF ChipIds
    <2>2. CASE k \in Q
      <3>1. PICK j \in 1 .. b : bt[j] = k
        BY <2>2, <1>5, <1>6 DEF Selects, b
      <3>2. a + 1 + j \in DOMAIN all
        BY <3>1, <1>10, <1>7
      <3>3. QED  BY <3>1, <3>2, <1>13 DEF ChipIds
    <2>3. QED  BY <2>1, <2>2 DEF Q
  <1>27. ChipIds(all) = ChipIds(rest) \cup {e.id}
    BY <1>24, <1>25, <1>26 DEF ChipIds
  <1>28. QED  BY <1>23, <1>27 DEF all, start, front, one, back, Q

(* What a drag begins with: the chips on the same side of the pinned ones,   *)
(* which are together.                                                       *)
IsGroup(group, strip, same, chip) ==
  /\ group \in Seq(Chips) /\ Injected(group) /\ Occurs(group, chip)
  /\ \A x : Occurs(group, x) => \E j \in same : strip[j].id = x
  /\ \A k \in DOMAIN group : k + 1 \in DOMAIN group =>
       \E j \in DOMAIN strip :
         j + 1 \in DOMAIN strip /\ strip[j].id = group[k] /\ strip[j + 1].id = group[k + 1]

LEMMA GroupOf ==
  ASSUME NEW strip, StripOf(strip), NEW i \in DOMAIN strip,
         NEW same, same = {j \in DOMAIN strip : strip[j].pinned = strip[i].pinned}
  PROVE  LET side == ElementsAt(strip, same) IN
         IsGroup([j \in DOMAIN side |-> side[j].id], strip, same, strip[i].id)
  <1> DEFINE side == ElementsAt(strip, same)
             group == [j \in DOMAIN side |-> side[j].id]
             n == Len(strip)
             m == Len(side)
  <1>1. strip \in Seq(StripChips) /\ n \in Nat /\ DOMAIN strip = 1 .. n
    BY DEF StripOf
  <1>2. side \in Seq(StripChips)
    BY <1>1, ElementsAtSelects
  <1>3. PICK at : Selects(at, side, strip, same, n)
    BY <1>1, ElementsAtSelects
  <1>4. same \cap (1 .. n) = same
    BY <1>1
  <1> HIDE DEF side, n
  <1>5. m \in Nat /\ DOMAIN side = 1 .. m
    BY <1>2
  <1>6. \A j \in 1 .. m : side[j] \in StripChips /\ side[j].id \in Chips
    <2>1. \A j \in 1 .. m : side[j] \in StripChips
      BY <1>2, <1>5, ElementOf
    <2>2. QED  BY <2>1 DEF StripChips
  <1>7. group \in Seq(Chips) /\ DOMAIN group = 1 .. m
    BY <1>5, <1>6
  <1>8. /\ \A k \in 1 .. m : at[k] \in same /\ group[k] = strip[at[k]].id
        /\ \A k, l \in 1 .. m : k < l => at[k] < at[l]
        /\ \A j \in same : \E k \in 1 .. m : at[k] = j
    BY <1>3, <1>4, <1>5 DEF Selects
  <1> HIDE DEF group
  <1>9. \A k \in 1 .. m : at[k] \in 1 .. n
    BY <1>8, <1>1
  <1>10. Injected(group)
    <2> SUFFICES ASSUME NEW k \in 1 .. m, NEW l \in 1 .. m, group[k] = group[l] PROVE k = l
      BY <1>7 DEF Injected
    <2>1. at[k] = at[l]
      <3>1. strip[at[k]].id = strip[at[l]].id /\ at[k] \in DOMAIN strip /\ at[l] \in DOMAIN strip
        BY <1>8, <1>9, <1>1
      <3>2. QED  BY <3>1 DEF StripOf
    <2>2. ~(k < l) /\ ~(l < k)
      BY <2>1, <1>8, <1>9, <1>1
    <2>3. QED  BY <2>2, <1>5
  <1>11. Occurs(group, strip[i].id)
    <2>1. PICK k \in 1 .. m : at[k] = i
      BY <1>8
    <2>2. QED  BY <2>1, <1>7, <1>8 DEF Occurs
  <1>12. \A x : Occurs(group, x) => \E j \in same : strip[j].id = x
    BY <1>7, <1>8 DEF Occurs
  <1>13. ASSUME NEW k \in DOMAIN group, k + 1 \in DOMAIN group
         PROVE  \E j \in DOMAIN strip :
                  j + 1 \in DOMAIN strip /\ strip[j].id = group[k] /\ strip[j + 1].id = group[k + 1]
    <2>1. k \in 1 .. m /\ k + 1 \in 1 .. m /\ k < k + 1
      BY <1>13, <1>7, <1>5
    <2>2. at[k] \in 1 .. n /\ at[k + 1] \in 1 .. n /\ at[k] < at[k + 1]
      BY <2>1, <1>8, <1>9
    <2>3. at[k] + 1 \in DOMAIN strip
      BY <2>2, <1>1
    <2>4. at[k] + 1 = at[k + 1]
      <3> SUFFICES ASSUME at[k] + 1 < at[k + 1] PROVE FALSE
        BY <2>2, <1>1
      <3>1. strip[at[k]].pinned = strip[i].pinned /\ strip[at[k + 1]].pinned = strip[i].pinned
        BY <2>1, <1>8
      <3>2. strip[at[k + 1]].pinned => strip[at[k] + 1].pinned
        BY <2>2, <2>3, <1>1 DEF StripOf
      <3>3. strip[at[k] + 1].pinned => strip[at[k]].pinned
        <4>1. at[k] < at[k] + 1 /\ at[k] \in DOMAIN strip
          BY <2>2, <1>1
        <4>2. QED  BY <4>1, <2>3 DEF StripOf
      <3>4. strip[at[k] + 1].pinned \in BOOLEAN /\ strip[i].pinned \in BOOLEAN
        <4>1. strip[at[k] + 1] \in StripChips /\ strip[i] \in StripChips
          BY <1>1, <2>3, ElementOf
        <4>2. QED  BY <4>1 DEF StripChips
      <3>5. at[k] + 1 \in same
        BY <3>1, <3>2, <3>3, <3>4, <2>3
      <3>6. PICK l \in 1 .. m : at[l] = at[k] + 1
        BY <3>5, <1>8
      <3>7. at[k] < at[l] /\ at[l] < at[k + 1]
        BY <3>6, <2>2, <1>1
      <3>8. ~(l <= k) /\ ~(k + 1 <= l)
        <4>1. ~(l < k) /\ l # k
          BY <3>7, <2>1, <2>2, <1>8, <1>9, <1>1
        <4>2. ~(k + 1 < l) /\ l # k + 1
          BY <3>7, <2>1, <2>2, <1>8, <1>9, <1>1
        <4>3. QED  BY <4>1, <4>2, <2>1, <1>5
      <3>9. QED  BY <3>8, <2>1, <1>5
    <2>5. QED  BY <2>1, <2>2, <2>3, <2>4, <1>1, <1>8
  <1>14. IsGroup(group, strip, same, strip[i].id)
    BY <1>7, <1>10, <1>11, <1>12, <1>13 DEF IsGroup
  <1>15. QED  BY <1>14 DEF group, side

(* The tabs of a group stand one after the other from the first one.         *)
LEMMA GroupStands ==
  ASSUME NEW strip, StripOf(strip), NEW group \in Seq(Chips), Together(group, strip),
         \A x : Occurs(group, x) => x \in ChipIds(strip), NEW start \in DOMAIN strip, group # <<>>,
         strip[start].id = group[1]
  PROVE  \A k \in 1 .. Len(group) : start + k - 1 \in DOMAIN strip /\ strip[start + k - 1].id = group[k]
  <1>1. strip \in Seq(StripChips) /\ Len(strip) \in Nat /\ DOMAIN strip = 1 .. Len(strip) /\ start \in Nat
    BY DEF StripOf
  <1>2. Len(group) \in Nat /\ DOMAIN group = 1 .. Len(group) /\ 1 \in DOMAIN group
    OBVIOUS
  <1> DEFINE Stands_(k) == start + k - 1 \in DOMAIN strip /\ strip[start + k - 1].id = group[k]
             N == {k \in 1 .. Len(group) : ~Stands_(k)}
  <1>3. SUFFICES ASSUME N # {} PROVE FALSE
    OBVIOUS
  <1>4. PICK k \in N : \A l \in N : k <= l
    <2>1. N \subseteq Nat
      BY <1>2
    <2> HIDE DEF N
    <2>2. QED  BY <2>1, <1>3, LeastNumber
  <1>5. k # 1
    <2>1. start + 1 - 1 = start
      BY <1>1
    <2>2. QED  BY <2>1
  <1>6. k - 1 \in 1 .. Len(group) /\ k \in 1 .. Len(group) /\ (k - 1) + 1 = k
    BY <1>2, <1>4, <1>5
  <1>7. Stands_(k - 1)
    <2>1. ~(k <= k - 1)
      BY <1>6, <1>2
    <2>2. k - 1 \notin N
      BY <2>1, <1>4
    <2>3. QED  BY <2>2, <1>6
  <1> DEFINE j == start + (k - 1) - 1
  <1>8. j + 1 = start + k - 1
    BY <1>1, <1>6, <1>2
  <1>9. group[k] \in ChipIds(strip)
    BY <1>6, <1>2 DEF Occurs
  <1>10. j \in DOMAIN strip /\ strip[j].id = group[k - 1]
    BY <1>7
  <1> HIDE DEF j
  <1>11. j + 1 \in DOMAIN strip /\ strip[j + 1].id = group[k]
    BY <1>10, <1>9, <1>6, <1>2 DEF Together
  <1>12. Stands_(k)
    BY <1>11, <1>8
  <1>13. QED  BY <1>12, <1>4

(* A drag that ends puts the tabs of the group into their new order, and     *)
(* leaves the others where they are.                                         *)
LEMMA ReorderedStrip ==
  ASSUME NEW strip, StripOf(strip), NEW group \in Seq(Chips), NEW order \in Seq(Chips),
         Injected(order), SameElements(order, group), Together(group, strip), group # <<>>,
         PinnedAlike(strip, {x \in Chips : Occurs(group, x)}),
         \A x : Occurs(order, x) => x \in ChipIds(strip)
  PROVE  LET new == Reordered(strip, group, order) IN
         StripOf(new) /\ ChipIds(new) = ChipIds(strip)
  <1> DEFINE At(c) == CHOOSE i \in DOMAIN strip : strip[i].id = c
             start == At(group[1])
             size == Len(order)
             new == [i \in DOMAIN strip |-> IF i \in start..(start + Len(order) - 1)
                                            THEN strip[At(order[i - start + 1])] ELSE strip[i]]
  <1>1. new = Reordered(strip, group, order)
    BY DEF Reordered
  <1>2. strip \in Seq(StripChips) /\ Len(strip) \in Nat /\ DOMAIN strip = 1 .. Len(strip)
    BY DEF StripOf
  <1>3. \A c \in ChipIds(strip) : At(c) \in DOMAIN strip /\ strip[At(c)].id = c
    BY DEF ChipIds
  <1>4. size \in Nat /\ size = Len(group) /\ DOMAIN order = 1 .. size /\ DOMAIN group = 1 .. size /\ 1 \in 1 .. size
    BY DEF SameElements
  <1>5. \A x : Occurs(group, x) <=> Occurs(order, x)
    BY DEF SameElements
  <1>6. Occurs(group, group[1])
    BY <1>4 DEF Occurs
  <1>7. start \in DOMAIN strip /\ strip[start].id = group[1]
    BY <1>3, <1>5, <1>6
  <1>8. \A k \in 1 .. size : start + k - 1 \in DOMAIN strip /\ strip[start + k - 1].id = group[k]
    BY <1>4, <1>5, <1>7, GroupStands
  <1> HIDE DEF At, size
  <1>9. start \in Nat /\ 1 <= start
    BY <1>7, <1>2
  <1> DEFINE block == start..(start + size - 1)
  <1>10. /\ \A i \in block : i - start + 1 \in 1 .. size /\ start + (i - start + 1) - 1 = i
         /\ \A k \in 1 .. size : start + k - 1 \in block
    BY <1>9, <1>4
  <1> HIDE DEF start
  <1>11. \A i \in block : i \in DOMAIN strip /\ strip[i].id = group[i - start + 1]
    BY <1>8, <1>10
  <1>12. \A i \in DOMAIN strip : Occurs(group, strip[i].id) => i \in block
    <2> SUFFICES ASSUME NEW i \in DOMAIN strip, NEW k \in 1 .. size, group[k] = strip[i].id PROVE i \in block
      BY <1>4 DEF Occurs
    <2>1. i = start + k - 1
      BY <1>8 DEF StripOf
    <2>2. QED  BY <2>1, <1>10
  <1>13. \A i \in block : /\ order[i - start + 1] \in ChipIds(strip)
                          /\ Occurs(order, order[i - start + 1])
    BY <1>10, <1>4 DEF Occurs
  <1>14. \A i \in block : new[i] = strip[At(order[i - start + 1])]
    BY <1>11 DEF size
  <1>15. \A i \in DOMAIN strip : i \notin block => new[i] = strip[i]
    BY DEF size
  <1>16. DOMAIN new = DOMAIN strip
    OBVIOUS
  <1> HIDE DEF new, block
  <1>17. \A i \in block : /\ new[i].id = order[i - start + 1]
                          /\ At(order[i - start + 1]) \in DOMAIN strip
    BY <1>3, <1>13, <1>14
  <1>18. new \in Seq(StripChips) /\ Len(new) = Len(strip)
    <2>1. \A i \in DOMAIN strip : new[i] \in StripChips
      BY <1>2, <1>14, <1>15, <1>17, ElementOf
    <2>2. new = [i \in DOMAIN strip |-> new[i]]
      BY <1>16 DEF new
    <2>3. QED  BY <2>1, <2>2, <1>2, SameLength
  <1>19. ASSUME NEW i \in DOMAIN strip, NEW j \in DOMAIN strip, new[i].id = new[j].id PROVE i = j
    <2>1. CASE i \in block /\ j \in block
      <3>1. i - start + 1 = j - start + 1
        BY <2>1, <1>19, <1>17, <1>10, <1>4 DEF Injected
      <3>2. QED  BY <3>1, <1>2, <1>9
    <2>2. CASE i \in block /\ j \notin block
      BY <2>2, <1>19, <1>17, <1>15, <1>13, <1>5, <1>12
    <2>3. CASE i \notin block /\ j \in block
      BY <2>3, <1>19, <1>17, <1>15, <1>13, <1>5, <1>12
    <2>4. CASE i \notin block /\ j \notin block
      BY <2>4, <1>19, <1>15 DEF StripOf
    <2>5. QED  BY <2>1, <2>2, <2>3, <2>4
  <1>20. \A i \in DOMAIN strip : new[i].pinned = strip[i].pinned
    <2> SUFFICES ASSUME NEW i \in block PROVE new[i].pinned = strip[i].pinned
      BY <1>15
    <2> DEFINE k == At(order[i - start + 1])
    <2>1. k \in DOMAIN strip /\ new[i] = strip[k] /\ strip[k].id = order[i - start + 1]
      BY <1>14, <1>17
    <2>2. i \in DOMAIN strip /\ Occurs(group, strip[i].id)
      BY <1>11, <1>10, <1>4 DEF Occurs
    <2>3. Occurs(group, strip[k].id)
      BY <2>1, <1>13, <1>5
    <2>4. strip[i].id \in Chips /\ strip[k].id \in Chips
      <3>1. strip[i] \in StripChips /\ strip[k] \in StripChips
        BY <2>1, <2>2, <1>2, ElementOf
      <3>2. QED  BY <3>1 DEF StripChips
    <2>5. QED  BY <2>1, <2>2, <2>3, <2>4 DEF PinnedAlike
  <1>21. StripOf(new)
    <2>1. DOMAIN new = DOMAIN strip
      BY <1>16
    <2>2. \A i, j \in DOMAIN new : i < j /\ new[j].pinned => new[i].pinned
      BY <1>20, <2>1 DEF StripOf
    <2>3. QED  BY <2>1, <2>2, <1>18, <1>19 DEF StripOf
  <1>22. \A i \in DOMAIN strip : new[i].id \in ChipIds(strip)
    <2>1. \A i \in block : new[i].id \in ChipIds(strip)
      BY <1>13, <1>17
    <2>2. \A i \in DOMAIN strip : i \notin block => new[i].id \in ChipIds(strip)
      BY <1>15 DEF ChipIds
    <2>3. QED  BY <2>1, <2>2
  <1>23. ASSUME NEW i \in DOMAIN strip PROVE \E j \in DOMAIN strip : new[j].id = strip[i].id
    <2>1. CASE i \in block
      <3>1. Occurs(order, strip[i].id)
        BY <2>1, <1>11, <1>10, <1>4, <1>5 DEF Occurs
      <3>2. PICK k \in 1 .. size : order[k] = strip[i].id
        BY <3>1, <1>4 DEF Occurs
      <3>3. start + k - 1 \in block /\ (start + k - 1) - start + 1 = k
        BY <1>10, <1>9, <1>4
      <3>4. QED  BY <3>2, <3>3, <1>11, <1>17
    <2>2. CASE i \notin block
      BY <2>2, <1>15
    <2>3. QED  BY <2>1, <2>2
  <1>24. ChipIds(new) = ChipIds(strip)
    BY <1>16, <1>22, <1>23 DEF ChipIds
  <1>25. QED  BY <1>1, <1>21, <1>24

(* A preview that is shown, again or for the first time, waits for what it   *)
(* does not have of the tab.                                                 *)
LEMMA ShownFits ==
  ASSUME NEW c, NEW a, NEW connected, PreviewShows(c, tpEdits', a, connected)
  PROVE  PreviewFits' /\ tpShown' = c
  <1> DEFINE build == [tab |-> c, edits |-> tpEdits'[c]]
  <1>1. tpShown' = c /\ tpFailed' = FALSE
    BY DEF PreviewShows
  <1>2. Build(tpShown)' = build
    BY <1>1 DEF Build
  <1>3. \/ tpStats' = build /\ tpImage' = build /\ tpStage' = "none"
        \/ tpStats' = build /\ tpStage' = "image"
        \/ tpStage' = "stats"
    BY DEF PreviewShows
  <1>4. QED  BY <1>1, <1>2, <1>3 DEF PreviewFits, PreviewIsOfItsTab

LEMMA HiddenFits == Hidden => PreviewFits' /\ tpShown' = NoChip /\ tpHover' = NoChip
  BY DEF Hidden, PreviewFits, PreviewIsOfItsTab

(* The strip that is rendered from the tabs does not lag behind them.        *)
LEMMA RenderedStrip == ASSUME NEW strip, StripOf(strip)
                       PROVE  Together(ChipOrder(strip), strip) /\ PinnedAs(strip, strip)
  <1>1. \A i, j \in DOMAIN strip : strip[i].id = strip[j].id => i = j
    BY DEF StripOf
  <1>2. DOMAIN ChipOrder(strip) = DOMAIN strip /\ \A k \in DOMAIN strip : ChipOrder(strip)[k] = strip[k].id
    BY DEF ChipOrder
  <1>3. Together(ChipOrder(strip), strip)
    BY <1>1, <1>2 DEF Together
  <1>4. PinnedAs(strip, strip)
    BY <1>1 DEF PinnedAs
  <1>5. QED  BY <1>3, <1>4

LEMMA RenderedFits ==
  ASSUME TabsFit, NEW strip, NEW a, StripOf(strip), Rendered(strip, tpEdits', a),
         tpTabs' = strip, ChipIds(strip) \subseteq DOMAIN tpEdits', DOMAIN tpEdits' \subseteq Chips,
         DOMAIN tpEdits \subseteq DOMAIN tpEdits', tpActive' \in ChipIds(strip)
  PROVE  TabsFit' /\ StripFits' /\ PreviewFits'
  <1>1. tpRendered' = strip
    BY DEF Rendered
  <1>2. PreviewFits' /\ tpShown' \in DOMAIN tpEdits' \cup {NoChip} /\ tpHover' \in DOMAIN tpEdits' \cup {NoChip}
    <2>1. CASE tpShown \in ChipIds(strip)
      <3>1. PreviewShows(tpShown, tpEdits', a, TRUE) /\ tpHover' = tpHover
        BY <2>1 DEF Rendered
      <3>2. PreviewFits' /\ tpShown' = tpShown
        BY <3>1, ShownFits
      <3>3. QED  BY <3>1, <3>2, <2>1 DEF TabsFit
    <2>2. CASE tpShown \notin ChipIds(strip)
      BY <2>2, HiddenFits DEF Rendered
    <2>3. QED  BY <2>1, <2>2
  <1>3. TabsFit'
    BY <1>1, <1>2 DEF TabsFit, ChipIds, StripOf
  <1>4. StripFits'
    <2>1. Together(ChipOrder(strip), strip) /\ PinnedAs(strip, strip)
      BY RenderedStrip
    <2>2. StripFits' <=> Together(ChipOrder(strip), strip) /\ PinnedAs(strip, strip)
      BY <1>1 DEF StripFits, Together, PinnedAs, ChipOrder, ChipIds
    <2>3. QED  BY <2>1, <2>2
  <1>5. QED  BY <1>2, <1>3, <1>4

(* Without a drag there is no group.                                         *)
LEMMA NoDragFits == ASSUME tpDrag' = NoChipDrag PROVE DragFits'
  <1> DEFINE none == <<>>
  <1>1. none \in Seq(Chips) /\ Len(none) = 0 /\ DOMAIN none = {}
    OBVIOUS
  <1>2. tpDrag' = [chip |-> NoChip, group |-> none, order |-> none]
    BY DEF NoChipDrag
  <1> HIDE DEF none
  <1>3. tpDrag'.chip = NoChip /\ tpDrag'.group = none /\ tpDrag'.order = none
    BY <1>2
  <1>4. Injected(none) /\ SameElements(none, none) /\ \A x : ~Occurs(none, x)
    BY <1>1 DEF Injected, SameElements, Occurs
  <1>5. Together(none, tpTabs') /\ PinnedAlike(tpTabs', {x \in Chips : Occurs(none, x)})
    BY <1>1, <1>4 DEF Together, PinnedAlike
  <1>6. tpDrag' = [chip |-> tpDrag'.chip, group |-> tpDrag'.group, order |-> tpDrag'.order]
    BY <1>2, <1>3
  <1>7. DragFits' <=> /\ tpDrag'.group \in Seq(Chips) /\ tpDrag'.order \in Seq(Chips)
                      /\ Injected(tpDrag'.group) /\ Injected(tpDrag'.order)
                      /\ SameElements(tpDrag'.order, tpDrag'.group)
                      /\ \A x : Occurs(tpDrag'.group, x) => x \in DOMAIN tpEdits'
                      /\ tpDrag' # NoChipDrag => Occurs(tpDrag'.group, tpDrag'.chip)
                      /\ tpDrag' = [chip |-> tpDrag'.chip, group |-> tpDrag'.group, order |-> tpDrag'.order]
                      /\ Together(tpDrag'.group, tpTabs')
                      /\ PinnedAlike(tpTabs', {x \in Chips : Occurs(tpDrag'.group, x)})
    BY DEF DragFits, Injected, SameElements, Occurs, Together, PinnedAlike, ChipIds, NoChipDrag
  <1>8. QED  BY <1>1, <1>3, <1>4, <1>5, <1>6, <1>7

(* A drag lasts while tabs come and go.                                      *)
LEMMA DragLasts ==
  ASSUME DragFits, tpDrag' = tpDrag, DOMAIN tpEdits \subseteq DOMAIN tpEdits',
         Together(tpDrag.group, tpTabs'), PinnedAlike(tpTabs', {x \in Chips : Occurs(tpDrag.group, x)})
  PROVE  DragFits'
  <1>1. DragFits' <=> /\ tpDrag.group \in Seq(Chips) /\ tpDrag.order \in Seq(Chips)
                      /\ Injected(tpDrag.group) /\ Injected(tpDrag.order)
                      /\ SameElements(tpDrag.order, tpDrag.group)
                      /\ \A x : Occurs(tpDrag.group, x) => x \in DOMAIN tpEdits'
                      /\ tpDrag # NoChipDrag => Occurs(tpDrag.group, tpDrag.chip)
                      /\ tpDrag = [chip |-> tpDrag.chip, group |-> tpDrag.group, order |-> tpDrag.order]
                      /\ Together(tpDrag.group, tpTabs')
                      /\ PinnedAlike(tpTabs', {x \in Chips : Occurs(tpDrag.group, x)})
    BY DEF DragFits, Injected, SameElements, Occurs, Together, PinnedAlike, ChipIds, NoChipDrag
  <1>2. QED  BY <1>1 DEF DragFits

(* The tabs and the strip are as they were.                                  *)
LEMMA SameStrip ==
  ASSUME StripInv, tpStrip' = tpStrip, tpShown' \in DOMAIN tpEdits \cup {NoChip},
         tpHover' \in DOMAIN tpEdits \cup {NoChip}
  PROVE  TabsFit' /\ StripFits' /\ (tpDrag' = tpDrag => DragFits')
  <1>1. tpTabs' = tpTabs /\ tpRendered' = tpRendered /\ tpActive' = tpActive /\ tpEdits' = tpEdits
    BY DEF tpStrip
  <1>2. TabsFit'
    BY <1>1 DEF StripInv, TabsFit, StripOf, ChipIds
  <1>3. StripFits'
    BY <1>1 DEF StripInv, StripFits, Together, PinnedAs, ChipOrder, ChipIds
  <1>4. ASSUME tpDrag' = tpDrag PROVE DragFits'
    <2>1. Together(tpDrag.group, tpTabs') /\ PinnedAlike(tpTabs', {x \in Chips : Occurs(tpDrag.group, x)})
      BY <1>1 DEF StripInv, DragFits
    <2>2. QED  BY <2>1, <1>1, <1>4, DragLasts DEF StripInv
  <1>5. QED  BY <1>2, <1>3, <1>4

(* It starts as it should,                                                   *)
LEMMA StripStarts == TabPreviewInit => StripInv
  <1> SUFFICES ASSUME TabPreviewInit PROVE StripInv
    OBVIOUS
  <1>1. PICK c \in Chips : tpTabs = <<[id |-> c, pinned |-> FALSE]>> /\ tpActive = c
    BY DEF TabPreviewInit
  <1> DEFINE e == [id |-> c, pinned |-> FALSE]
             strip == <<e>>
  <1>2. e \in StripChips /\ e.id = c
    BY DEF StripChips
  <1> HIDE DEF e
  <1>3. strip \in Seq(StripChips) /\ DOMAIN strip = {1} /\ strip[1] = e
    BY <1>2
  <1>4. tpTabs = strip /\ tpRendered = strip /\ tpActive = c
    BY <1>1 DEF TabPreviewInit, e
  <1> HIDE DEF strip
  <1>5. StripOf(strip) /\ ChipIds(strip) = {c}
    BY <1>2, <1>3 DEF StripOf, ChipIds
  <1>6. DOMAIN tpEdits = {c} /\ tpShown = NoChip /\ tpHover = NoChip /\ tpDrag = NoChipDrag
    BY <1>4 DEF TabPreviewInit
  <1>7. TabsFit
    BY <1>4, <1>5, <1>6 DEF TabsFit
  <1>8. StripFits
    BY <1>4, <1>5, RenderedStrip DEF StripFits
  <1>9. PreviewFits
    BY <1>6 DEF PreviewFits, PreviewIsOfItsTab
  <1>10. DragFits
    <2> DEFINE none == <<>>
    <2>1. none \in Seq(Chips) /\ Len(none) = 0 /\ DOMAIN none = {}
      OBVIOUS
    <2>2. tpDrag = [chip |-> NoChip, group |-> none, order |-> none]
      BY <1>6 DEF NoChipDrag
    <2> HIDE DEF none
    <2>3. tpDrag.chip = NoChip /\ tpDrag.group = none /\ tpDrag.order = none
      BY <2>2
    <2>4. Injected(none) /\ SameElements(none, none) /\ \A x : ~Occurs(none, x)
      BY <2>1 DEF Injected, SameElements, Occurs
    <2>5. Together(none, tpTabs) /\ PinnedAlike(tpTabs, {x \in Chips : Occurs(none, x)})
      BY <2>1, <2>4 DEF Together, PinnedAlike
    <2>6. QED  BY <1>6, <2>1, <2>2, <2>3, <2>4, <2>5 DEF DragFits
  <1>11. QED  BY <1>7, <1>8, <1>9, <1>10 DEF StripInv

(* the preview is of its tab whatever the cursor does,                       *)
LEMMA HoverSteps ==
  ASSUME StripInv,
         \/ EnterChip \/ LeaveChip \/ HoverTimer \/ HidePreview \/ PreviewStatsArrive
         \/ PreviewImageArrives \/ ScrollStrip \/ ScrollSettles
  PROVE  StripInv'
  <1>1. \A c \in ChipIds(tpRendered) : c \in DOMAIN tpEdits
    BY DEF StripInv, TabsFit
  <1>2. tpShown \in DOMAIN tpEdits \cup {NoChip} /\ tpHover \in DOMAIN tpEdits \cup {NoChip}
    BY DEF StripInv, TabsFit
  <1>3. ASSUME tpStrip' = tpStrip, tpTooltip' = tpTooltip PROVE PreviewFits'
    <2>1. /\ tpEdits' = tpEdits /\ tpShown' = tpShown /\ tpStats' = tpStats /\ tpImage' = tpImage
          /\ tpStage' = tpStage /\ tpFailed' = tpFailed
      BY <1>3 DEF tpStrip, tpTooltip
    <2>2. QED  BY <2>1 DEF StripInv, PreviewFits, PreviewIsOfItsTab, Build
  <1>4. tpStrip' = tpStrip /\ tpDrag' = tpDrag
    BY DEF EnterChip, LeaveChip, HoverTimer, HidePreview, PreviewStatsArrive,
           PreviewImageArrives, ScrollStrip, ScrollSettles
  <1>5. tpEdits' = tpEdits
    BY <1>4 DEF tpStrip
  <1>6. PreviewFits' /\ tpShown' \in DOMAIN tpEdits \cup {NoChip} /\ tpHover' \in DOMAIN tpEdits \cup {NoChip}
    <2>1. CASE EnterChip
      <3>1. PICK c \in ChipIds(tpRendered) :
              CASE tpScrolling -> UNCHANGED <<tpTooltip, tpHover, tpHide, tpFlights>>
                [] ~tpScrolling /\ ~tpHide /\ tpShown # c ->
                        tpHover' = c /\ UNCHANGED <<tpTooltip, tpHide, tpFlights>>
                [] ~tpScrolling /\ (tpHide \/ tpShown = c) ->
                        tpHover' = NoChip /\ tpHide' = FALSE /\ PreviewShows(c, tpEdits, tpActive, TRUE)
        BY <2>1 DEF EnterChip
      <3>2. \/ UNCHANGED <<tpTooltip, tpHover>>
            \/ tpHover' = c /\ UNCHANGED tpTooltip
            \/ tpHover' = NoChip /\ PreviewShows(c, tpEdits, tpActive, TRUE)
        BY <3>1
      <3>3. c \in DOMAIN tpEdits
        BY <1>1
      <3>4. CASE UNCHANGED <<tpTooltip, tpHover>>
        BY <3>4, <1>2, <1>3, <1>4 DEF tpTooltip
      <3>5. CASE tpHover' = c /\ UNCHANGED tpTooltip
        BY <3>5, <3>3, <1>2, <1>3, <1>4 DEF tpTooltip
      <3>6. CASE tpHover' = NoChip /\ PreviewShows(c, tpEdits, tpActive, TRUE)
        <4>1. PreviewShows(c, tpEdits', tpActive, TRUE)
          BY <3>6, <1>5
        <4>2. PreviewFits' /\ tpShown' = c
          BY <4>1, ShownFits
        <4>3. QED  BY <4>2, <3>6, <3>3
      <3>7. QED  BY <3>2, <3>4, <3>5, <3>6
    <2>2. CASE LeaveChip
      <3>1. UNCHANGED <<tpStrip, tpHover, tpTooltip>>
        BY <2>2 DEF LeaveChip
      <3>2. QED  BY <3>1, <1>2, <1>3 DEF tpTooltip
    <2>3. CASE HoverTimer
      <3>1. tpHover # NoChip /\ tpHover' = NoChip /\ PreviewShows(tpHover, tpEdits', tpActive, FALSE)
        BY <2>3, <1>5 DEF HoverTimer
      <3>2. PreviewFits' /\ tpShown' = tpHover
        BY <3>1, ShownFits
      <3>3. QED  BY <3>1, <3>2, <1>2
    <2>4. CASE HidePreview
      BY <2>4, HiddenFits DEF HidePreview
    <2>5. CASE PreviewStatsArrive
      <3>1. PICK b \in tpFlights, ok \in BOOLEAN :
              /\ IF tpStage = "stats" /\ b = Build(tpShown)
                 THEN /\ tpStats' = IF ok THEN b ELSE tpStats
                      /\ tpFailed' = ~ok /\ tpStage' = "image"
                 ELSE UNCHANGED <<tpStats, tpFailed, tpStage>>
              /\ UNCHANGED <<tpHover, tpShown, tpImage>>
        BY <2>5 DEF PreviewStatsArrive
      <3>2. Build(tpShown)' = Build(tpShown)
        BY <3>1, <1>5 DEF Build
      <3>3. CASE tpStage = "stats" /\ b = Build(tpShown)
        <4>1. tpStage' = "image" /\ (~tpFailed' => tpStats' = Build(tpShown)')
          BY <3>1, <3>2, <3>3
        <4>2. QED  BY <4>1, <3>1, <1>2 DEF PreviewFits, PreviewIsOfItsTab
      <3>4. CASE ~(tpStage = "stats" /\ b = Build(tpShown))
        BY <3>1, <3>2, <3>4, <1>2 DEF StripInv, PreviewFits, PreviewIsOfItsTab
      <3>5. QED  BY <3>3, <3>4
    <2>6. CASE PreviewImageArrives
      <3>1. /\ tpStage = "image" /\ tpStage' = "none" /\ tpImage' = Build(tpShown)
            /\ UNCHANGED <<tpShown, tpStats, tpFailed, tpHover>>
        BY <2>6 DEF PreviewImageArrives
      <3>2. Build(tpShown)' = Build(tpShown)
        BY <3>1, <1>5 DEF Build
      <3>3. QED  BY <3>1, <3>2, <1>2 DEF StripInv, PreviewFits, PreviewIsOfItsTab
    <2>7. CASE ScrollStrip
      BY <2>7, HiddenFits DEF ScrollStrip
    <2>8. CASE ScrollSettles
      <3>1. tpHover' \in ChipIds(tpRendered) \cup {NoChip} /\ UNCHANGED tpTooltip
        BY <2>8 DEF ScrollSettles
      <3>2. QED  BY <3>1, <1>1, <1>2, <1>3, <1>4 DEF tpTooltip
    <2>9. QED  BY <2>1, <2>2, <2>3, <2>4, <2>5, <2>6, <2>7, <2>8
  <1>7. TabsFit' /\ StripFits' /\ DragFits'
    BY <1>4, <1>6, SameStrip
  <1>8. QED  BY <1>6, <1>7 DEF StripInv

(* the tabs that are opened, closed, edited and pinned keep their places,    *)
LEMMA TabSteps ==
  ASSUME StripInv,
         OpenTab \/ RenderStrip \/ SwitchTab \/ EditActive \/ CloseChip \/ PinTab
  PROVE  StripInv'
  <1>1. /\ StripOf(tpTabs) /\ StripOf(tpRendered) /\ ChipIds(tpTabs) \subseteq DOMAIN tpEdits
        /\ ChipIds(tpRendered) \subseteq DOMAIN tpEdits /\ DOMAIN tpEdits \subseteq Chips
        /\ tpActive \in ChipIds(tpTabs) /\ TabsFit
    BY DEF StripInv, TabsFit
  <1>2. /\ Together(tpDrag.group, tpTabs)
        /\ PinnedAlike(tpTabs, {x \in Chips : Occurs(tpDrag.group, x)})
        /\ \A x : Occurs(tpDrag.group, x) => x \in DOMAIN tpEdits
        /\ DragFits
    BY DEF StripInv, DragFits
  <1>3. Together(ChipOrder(tpRendered), tpTabs) /\ PinnedAs(tpRendered, tpTabs)
    BY DEF StripInv, StripFits
  <1>4. CASE OpenTab
    <2>1. PICK c \in Chips \ DOMAIN tpEdits :
            /\ tpTabs' = Append(tpTabs, [id |-> c, pinned |-> FALSE]) /\ tpActive' = c
            /\ tpEdits' = [d \in DOMAIN tpEdits \cup {c} |-> IF d = c THEN 0 ELSE tpEdits[d]]
      BY <1>4 DEF OpenTab
    <2>2. UNCHANGED <<tpRendered, tpHover, tpHide, tpTooltip, tpFlights, tpScrolling, tpDrag>>
      BY <1>4 DEF OpenTab
    <2>3. tpRendered' = tpRendered /\ tpHover' = tpHover /\ tpDrag' = tpDrag
      BY <2>2
    <2>4. /\ tpShown' = tpShown /\ tpStats' = tpStats /\ tpImage' = tpImage
          /\ tpStage' = tpStage /\ tpFailed' = tpFailed
      BY <2>2 DEF tpTooltip
    <2>5. DOMAIN tpEdits' = DOMAIN tpEdits \cup {c} /\ \A d \in DOMAIN tpEdits : tpEdits'[d] = tpEdits[d]
      BY <2>1
    <2>6. c \in Chips /\ c \notin ChipIds(tpTabs) /\ c \notin ChipIds(tpRendered) /\ ~Occurs(tpDrag.group, c)
      BY <1>1, <1>2
    <2>7. /\ StripOf(tpTabs') /\ ChipIds(tpTabs') = ChipIds(tpTabs) \cup {c}
          /\ Together(tpDrag.group, tpTabs')
          /\ PinnedAlike(tpTabs', {x \in Chips : Occurs(tpDrag.group, x)})
          /\ Together(ChipOrder(tpRendered), tpTabs') /\ PinnedAs(tpRendered, tpTabs')
      <3>1. ~Occurs(ChipOrder(tpRendered), c)
        BY <2>6 DEF ChipOrder, Occurs, ChipIds
      <3>2. c \notin {x \in Chips : Occurs(tpDrag.group, x)}
        BY <2>6
      <3> DEFINE more == Append(tpTabs, [id |-> c, pinned |-> FALSE])
      <3>3. /\ StripOf(more) /\ ChipIds(more) = ChipIds(tpTabs) \cup {c}
            /\ \A order : Together(order, tpTabs) /\ ~Occurs(order, c) => Together(order, more)
            /\ \A ids : PinnedAlike(tpTabs, ids) /\ c \notin ids => PinnedAlike(more, ids)
            /\ \A other : PinnedAs(other, tpTabs) /\ c \notin ChipIds(other) => PinnedAs(other, more)
        BY <1>1, <2>6, WithNewTab
      <3>4. tpTabs' = more
        BY <2>1
      <3> HIDE DEF more
      <3>5. QED  BY <3>1, <3>2, <3>3, <3>4, <1>2, <1>3, <2>6
    <2>8. TabsFit'
      <3>1. tpActive' \in ChipIds(tpTabs')
        BY <2>1, <2>7
      <3>2. ChipIds(tpTabs') \subseteq DOMAIN tpEdits' /\ DOMAIN tpEdits' \subseteq Chips
        BY <1>1, <2>5, <2>6, <2>7
      <3>3. StripOf(tpRendered') /\ ChipIds(tpRendered') \subseteq DOMAIN tpEdits'
        BY <1>1, <2>3, <2>5
      <3>4. tpShown' \in DOMAIN tpEdits' \cup {NoChip} /\ tpHover' \in DOMAIN tpEdits' \cup {NoChip}
        BY <2>3, <2>4, <2>5 DEF StripInv, TabsFit
      <3>5. QED  BY <3>1, <3>2, <3>3, <3>4, <2>7 DEF TabsFit, StripOf, ChipIds
    <2>9. StripFits'
      BY <2>3, <2>7 DEF StripFits, Together, PinnedAs, ChipOrder, ChipIds
    <2>10. DragFits'
      BY <1>2, <2>3, <2>5, <2>7, DragLasts
    <2>11. PreviewFits'
      <3>1. tpShown # NoChip => Build(tpShown)' = Build(tpShown)
        <4>1. tpShown # NoChip => tpShown \in DOMAIN tpEdits
          BY <1>1 DEF TabsFit
        <4>2. QED  BY <4>1, <2>4, <2>5 DEF Build
      <3>2. QED  BY <3>1, <2>4 DEF StripInv, PreviewFits, PreviewIsOfItsTab
    <2>12. QED  BY <2>8, <2>9, <2>10, <2>11 DEF StripInv
  <1>5. CASE RenderStrip
    <2>1. Rendered(tpTabs, tpEdits', tpActive) /\ tpTabs' = tpTabs /\ tpActive' = tpActive /\ tpEdits' = tpEdits
      BY <1>5 DEF RenderStrip
    <2>2. TabsFit' /\ StripFits' /\ PreviewFits'
      BY <1>1, <2>1, RenderedFits
    <2>3. tpDrag' = tpDrag
      BY <1>5 DEF RenderStrip
    <2>4. QED  BY <2>1, <2>2, <2>3, <1>2, DragLasts DEF StripInv
  <1>6. CASE SwitchTab
    <2>1. PICK c \in ChipIds(tpTabs) : tpActive' = c /\ Rendered(tpTabs, tpEdits, c)
      BY <1>6 DEF SwitchTab
    <2>2. tpTabs' = tpTabs /\ tpEdits' = tpEdits /\ tpDrag' = tpDrag
      BY <1>6 DEF SwitchTab
    <2>3. Rendered(tpTabs, tpEdits', c)
      BY <2>1, <2>2
    <2>4. TabsFit' /\ StripFits' /\ PreviewFits'
      BY <1>1, <2>1, <2>2, <2>3, RenderedFits
    <2>5. QED  BY <2>2, <2>4, <1>2, DragLasts DEF StripInv
  <1>7. CASE EditActive
    <2>1. /\ tpEdits' = [tpEdits EXCEPT ![tpActive] = @ + 1] /\ Rendered(tpTabs, tpEdits', tpActive)
          /\ tpTabs' = tpTabs /\ tpActive' = tpActive /\ tpDrag' = tpDrag
      BY <1>7 DEF EditActive
    <2>2. DOMAIN tpEdits' = DOMAIN tpEdits
      BY <2>1
    <2>3. TabsFit' /\ StripFits' /\ PreviewFits'
      BY <1>1, <2>1, <2>2, RenderedFits
    <2>4. QED  BY <2>1, <2>2, <2>3, <1>2, DragLasts DEF StripInv
  <1>8. CASE CloseChip
    <2>1. PICK i \in DOMAIN tpTabs :
            LET rest == RemoveAt(tpTabs, i)
                next == rest[IF i <= Len(rest) THEN i ELSE Len(rest)].id
            IN /\ tpTabs' = rest
               /\ IF tpTabs[i].id = tpActive
                  THEN tpActive' = next
                       /\ UNCHANGED <<tpRendered, tpHover, tpHide, tpTooltip, tpFlights>>
                  ELSE Rendered(rest, tpEdits, tpActive) /\ UNCHANGED tpActive
      BY <1>8 DEF CloseChip
    <2>2. Len(tpTabs) > 1 /\ tpEdits' = tpEdits /\ tpDrag' = tpDrag
      BY <1>8 DEF CloseChip
    <2> DEFINE rest == RemoveAt(tpTabs, i)
               at == IF i <= Len(rest) THEN i ELSE Len(rest)
    <2>3. /\ StripOf(rest)
          /\ \A c : c \in ChipIds(rest) <=> c \in ChipIds(tpTabs) /\ c # tpTabs[i].id
          /\ \A order : Together(order, tpTabs) => Together(order, rest)
          /\ \A ids : PinnedAlike(tpTabs, ids) => PinnedAlike(rest, ids)
          /\ \A other : PinnedAs(other, tpTabs) => PinnedAs(other, rest)
      BY <1>1, WithoutTab
    <2>4. at \in DOMAIN rest
      <3>1. tpTabs \in Seq(StripChips)
        BY <1>1 DEF StripOf
      <3>2. Len(rest) = Len(tpTabs) - 1 /\ DOMAIN rest = 1 .. (Len(tpTabs) - 1)
        BY <3>1, RemoveAtRest
      <3>3. Len(tpTabs) \in Nat /\ i \in 1 .. Len(tpTabs)
        BY <3>1
      <3> HIDE DEF rest
      <3>4. QED  BY <3>2, <3>3, <2>2
    <2>5. tpTabs' = rest
      BY <2>1
    <2>6. rest[at].id \in ChipIds(rest)
      BY <2>4 DEF ChipIds
    <2>7. \/ tpTabs[i].id = tpActive /\ tpActive' = rest[at].id /\ UNCHANGED <<tpRendered, tpHover, tpTooltip>>
          \/ tpTabs[i].id # tpActive /\ Rendered(rest, tpEdits, tpActive) /\ UNCHANGED tpActive
      BY <2>1
    <2> HIDE DEF rest, at
    <2>8. ChipIds(rest) \subseteq DOMAIN tpEdits' /\ DOMAIN tpEdits' \subseteq Chips
      BY <1>1, <2>2, <2>3
    <2>9. DragFits'
      BY <1>2, <2>2, <2>3, <2>5, DragLasts
    <2>10. CASE tpTabs[i].id = tpActive /\ tpActive' = rest[at].id /\ UNCHANGED <<tpRendered, tpHover, tpTooltip>>
      <3>1. tpRendered' = tpRendered /\ tpHover' = tpHover /\ tpShown' = tpShown /\ tpStats' = tpStats
            /\ tpImage' = tpImage /\ tpStage' = tpStage /\ tpFailed' = tpFailed
        BY <2>10 DEF tpTooltip
      <3>2. PreviewFits'
        BY <3>1, <2>2 DEF StripInv, PreviewFits, PreviewIsOfItsTab, Build
      <3>3. StripFits'
        <4>1. Together(ChipOrder(tpRendered), rest) /\ PinnedAs(tpRendered, rest)
          BY <1>3, <2>3
        <4>2. QED  BY <4>1, <3>1, <2>5 DEF StripFits, Together, PinnedAs, ChipOrder, ChipIds
      <3>4. TabsFit'
        <4>1. tpActive' \in ChipIds(rest)
          BY <2>6, <2>10
        <4>2. tpShown' \in DOMAIN tpEdits' \cup {NoChip} /\ tpHover' \in DOMAIN tpEdits' \cup {NoChip}
          BY <1>1, <3>1, <2>2 DEF TabsFit
        <4>3. QED  BY <4>1, <4>2, <3>1, <2>2, <2>3, <2>5, <2>8, <1>1 DEF TabsFit, StripOf, ChipIds
      <3>5. QED  BY <2>9, <3>2, <3>3, <3>4 DEF StripInv
    <2>11. CASE tpTabs[i].id # tpActive /\ Rendered(rest, tpEdits, tpActive) /\ UNCHANGED tpActive
      <3>1. Rendered(rest, tpEdits', tpActive) /\ tpActive' \in ChipIds(rest)
        BY <2>11, <2>2, <2>3, <1>1
      <3>2. TabsFit' /\ StripFits' /\ PreviewFits'
        BY <1>1, <3>1, <2>2, <2>3, <2>5, <2>8, RenderedFits
      <3>3. QED  BY <2>9, <3>2 DEF StripInv
    <2>12. QED  BY <2>7, <2>10, <2>11
  <1>9. CASE PinTab
    <2>1. PICK i \in DOMAIN tpTabs :
            LET rest == RemoveAt(tpTabs, i)
                pinned == {j \in DOMAIN rest : rest[j].pinned}
            IN tpTabs' = ElementsAt(rest, pinned) \o <<[tpTabs[i] EXCEPT !.pinned = ~@]>>
                           \o ElementsAt(rest, DOMAIN rest \ pinned)
      BY <1>9 DEF PinTab
    <2>2. /\ tpDrag = NoChipDrag /\ tpDrag' = tpDrag /\ tpActive' = tpActive /\ tpEdits' = tpEdits
          /\ Rendered(tpTabs', tpEdits', tpActive)
      BY <1>9 DEF PinTab
    <2> DEFINE rest == RemoveAt(tpTabs, i)
               e == [tpTabs[i] EXCEPT !.pinned = ~@]
    <2>3. /\ StripOf(rest)
          /\ \A c : c \in ChipIds(rest) <=> c \in ChipIds(tpTabs) /\ c # tpTabs[i].id
      BY <1>1, WithoutTab
    <2>4. tpTabs[i] \in StripChips
      BY <1>1, ElementOf DEF StripOf
    <2>5. e \in StripChips /\ e.id = tpTabs[i].id
      BY <2>4 DEF StripChips
    <2>6. tpTabs' = ElementsAt(rest, {j \in DOMAIN rest : rest[j].pinned}) \o <<e>>
                           \o ElementsAt(rest, DOMAIN rest \ {j \in DOMAIN rest : rest[j].pinned})
      BY <2>1
    <2> HIDE DEF rest, e
    <2>7. StripOf(tpTabs') /\ ChipIds(tpTabs') = ChipIds(rest) \cup {e.id}
      <3>1. e.id \notin ChipIds(rest)
        BY <2>3, <2>5
      <3>2. QED  BY <2>3, <2>5, <2>6, <3>1, PinnedFirst
    <2>8. tpTabs[i].id \in ChipIds(tpTabs)
      BY DEF ChipIds
    <2>9. ChipIds(tpTabs') = ChipIds(tpTabs)
      BY <2>3, <2>5, <2>7, <2>8
    <2>10. TabsFit' /\ StripFits' /\ PreviewFits'
      BY <1>1, <2>2, <2>7, <2>9, RenderedFits
    <2>11. QED  BY <2>2, <2>10, NoDragFits DEF StripInv
  <1>10. QED  BY <1>4, <1>5, <1>6, <1>7, <1>8, <1>9

(* and so do those that are dragged.                                         *)
LEMMA DragSteps ==
  ASSUME StripInv, BeginChipDrag \/ DragOver \/ EndChipDrag
  PROVE  StripInv'
  <1>1. /\ StripOf(tpTabs) /\ StripOf(tpRendered) /\ ChipIds(tpTabs) \subseteq DOMAIN tpEdits
        /\ ChipIds(tpRendered) \subseteq DOMAIN tpEdits /\ DOMAIN tpEdits \subseteq Chips
        /\ tpActive \in ChipIds(tpTabs) /\ TabsFit
    BY DEF StripInv, TabsFit
  <1>2. DragFits
    BY DEF StripInv
  <1>3. CASE BeginChipDrag
    <2>1. PICK i \in DOMAIN tpRendered :
            LET same == {j \in DOMAIN tpRendered : tpRendered[j].pinned = tpRendered[i].pinned}
                chips == ElementsAt(tpRendered, same)
                group == [j \in DOMAIN chips |-> chips[j].id]
            IN tpDrag' = [chip |-> tpRendered[i].id, group |-> group, order |-> group]
      BY <1>3 DEF BeginChipDrag
    <2>2. tpStrip' = tpStrip /\ Hidden
      BY <1>3 DEF BeginChipDrag
    <2>3. PreviewFits' /\ TabsFit' /\ StripFits'
      <3>1. PreviewFits' /\ tpShown' = NoChip /\ tpHover' = NoChip
        BY <2>2, HiddenFits
      <3>2. QED  BY <3>1, <2>2, SameStrip
    <2> DEFINE same == {j \in DOMAIN tpRendered : tpRendered[j].pinned = tpRendered[i].pinned}
               chips == ElementsAt(tpRendered, same)
               group == [j \in DOMAIN chips |-> chips[j].id]
               chip == tpRendered[i].id
    <2>4. /\ group \in Seq(Chips) /\ Injected(group) /\ Occurs(group, chip)
          /\ \A x : Occurs(group, x) => \E j \in same : tpRendered[j].id = x
          /\ \A k \in DOMAIN group : k + 1 \in DOMAIN group =>
               \E j \in DOMAIN tpRendered :
                 j + 1 \in DOMAIN tpRendered /\ tpRendered[j].id = group[k] /\ tpRendered[j + 1].id = group[k + 1]
      <3>1. same = {j \in DOMAIN tpRendered : tpRendered[j].pinned = tpRendered[i].pinned}
        OBVIOUS
      <3> HIDE DEF same
      <3>2. IsGroup(group, tpRendered, same, chip)
        BY <3>1, <1>1, GroupOf
      <3>3. QED  BY <3>2 DEF IsGroup
    <2>5. tpDrag' = [chip |-> chip, group |-> group, order |-> group]
      BY <2>1
    <2> HIDE DEF group, chip
    <2>6. tpDrag'.chip = chip /\ tpDrag'.group = group /\ tpDrag'.order = group
      BY <2>5
    <2>7. tpTabs' = tpTabs /\ tpEdits' = tpEdits
      BY <2>2 DEF tpStrip
    <2>8. SameElements(group, group)
      BY DEF SameElements
    <2>9. \A x : Occurs(group, x) => x \in DOMAIN tpEdits
      BY <1>1, <2>4 DEF ChipIds
    <2>10. Together(group, tpTabs)
      <3>1. Together(ChipOrder(tpRendered), tpTabs)
        BY DEF StripInv, StripFits
      <3>2. DOMAIN ChipOrder(tpRendered) = DOMAIN tpRendered /\ \A j \in DOMAIN tpRendered : ChipOrder(tpRendered)[j] = tpRendered[j].id
        BY DEF ChipOrder
      <3>3. QED  BY <3>1, <3>2, <2>4 DEF Together
    <2>11. PinnedAlike(tpTabs, {x \in Chips : Occurs(group, x)})
      <3>1. PinnedAs(tpRendered, tpTabs)
        BY DEF StripInv, StripFits
      <3>2. \A j \in same : j \in DOMAIN tpRendered /\ tpRendered[j].pinned = tpRendered[i].pinned
        OBVIOUS
      <3>3. ASSUME NEW j \in DOMAIN tpTabs, Occurs(group, tpTabs[j].id) PROVE tpTabs[j].pinned = tpRendered[i].pinned
        BY <3>1, <3>2, <3>3, <2>4 DEF PinnedAs
      <3>4. QED  BY <3>3 DEF PinnedAlike
    <2>12. tpDrag' = [chip |-> tpDrag'.chip, group |-> tpDrag'.group, order |-> tpDrag'.order]
      BY <2>5, <2>6
    <2>13. DragFits'
      <3>1. DragFits' <=> /\ tpDrag'.group \in Seq(Chips) /\ tpDrag'.order \in Seq(Chips)
                          /\ Injected(tpDrag'.group) /\ Injected(tpDrag'.order)
                          /\ SameElements(tpDrag'.order, tpDrag'.group)
                          /\ \A x : Occurs(tpDrag'.group, x) => x \in DOMAIN tpEdits'
                          /\ tpDrag' # NoChipDrag => Occurs(tpDrag'.group, tpDrag'.chip)
                          /\ tpDrag' = [chip |-> tpDrag'.chip, group |-> tpDrag'.group, order |-> tpDrag'.order]
                          /\ Together(tpDrag'.group, tpTabs')
                          /\ PinnedAlike(tpTabs', {x \in Chips : Occurs(tpDrag'.group, x)})
        BY DEF DragFits, Injected, SameElements, Occurs, Together, PinnedAlike, ChipIds, NoChipDrag
      <3>2. QED  BY <3>1, <2>4, <2>6, <2>7, <2>8, <2>9, <2>10, <2>11, <2>12
    <2>14. QED  BY <2>3, <2>13 DEF StripInv
  <1>4. CASE DragOver
    <2>1. PICK i \in 1..Len(tpDrag.group) :
            tpDrag' = [tpDrag EXCEPT !.order =
                         InsertAt(RemoveAt(tpDrag.group, PlaceIn(tpDrag.group, tpDrag.chip)), i, tpDrag.chip)]
      BY <1>4 DEF DragOver
    <2>2. tpDrag # NoChipDrag /\ UNCHANGED <<tpStrip, tpHover, tpTooltip>>
      BY <1>4 DEF DragOver
    <2>3. tpEdits' = tpEdits /\ tpTabs' = tpTabs /\ tpShown' = tpShown /\ tpStats' = tpStats
          /\ tpImage' = tpImage /\ tpStage' = tpStage /\ tpFailed' = tpFailed /\ tpHover' = tpHover
      BY <2>2 DEF tpTooltip, tpStrip
    <2>4. PreviewFits'
      BY <2>3 DEF StripInv, PreviewFits, PreviewIsOfItsTab, Build
    <2>5. TabsFit' /\ StripFits'
      BY <1>1, <2>2, <2>3, SameStrip DEF TabsFit
    <2> DEFINE s == tpDrag.group
               e == tpDrag.chip
               t == InsertAt(RemoveAt(s, PlaceIn(s, e)), i, e)
    <2>6. t \in Seq(Chips) /\ Injected(t) /\ SameElements(t, s)
      BY <1>2, <2>2, MovedChip DEF DragFits
    <2>7. tpDrag' = [tpDrag EXCEPT !.order = t]
      BY <2>1
    <2> HIDE DEF t
    <2>8. tpDrag' = [chip |-> e, group |-> s, order |-> t]
      BY <2>7, <1>2 DEF DragFits
    <2>9. tpDrag'.chip = e /\ tpDrag'.group = s /\ tpDrag'.order = t
      BY <2>8
    <2>10. DragFits'
      <3>1. DragFits' <=> /\ tpDrag'.group \in Seq(Chips) /\ tpDrag'.order \in Seq(Chips)
                          /\ Injected(tpDrag'.group) /\ Injected(tpDrag'.order)
                          /\ SameElements(tpDrag'.order, tpDrag'.group)
                          /\ \A x : Occurs(tpDrag'.group, x) => x \in DOMAIN tpEdits'
                          /\ tpDrag' # NoChipDrag => Occurs(tpDrag'.group, tpDrag'.chip)
                          /\ tpDrag' = [chip |-> tpDrag'.chip, group |-> tpDrag'.group, order |-> tpDrag'.order]
                          /\ Together(tpDrag'.group, tpTabs')
                          /\ PinnedAlike(tpTabs', {x \in Chips : Occurs(tpDrag'.group, x)})
        BY DEF DragFits, Injected, SameElements, Occurs, Together, PinnedAlike, ChipIds, NoChipDrag
      <3>2. tpDrag' = [chip |-> tpDrag'.chip, group |-> tpDrag'.group, order |-> tpDrag'.order]
        BY <2>8, <2>9
      <3>3. /\ s \in Seq(Chips) /\ Injected(s) /\ \A x : Occurs(s, x) => x \in DOMAIN tpEdits
            /\ Occurs(s, e) /\ Together(s, tpTabs) /\ PinnedAlike(tpTabs, {x \in Chips : Occurs(s, x)})
        BY <1>2, <2>2 DEF DragFits
      <3> HIDE DEF s, e
      <3>4. QED  BY <3>1, <3>2, <3>3, <2>3, <2>6, <2>9
    <2>11. QED  BY <2>4, <2>5, <2>10 DEF StripInv
  <1>5. CASE EndChipDrag
    <2> DEFINE order == tpDrag.order
               group == tpDrag.group
    <2>1. tpDrag # NoChipDrag /\ tpDrag' = NoChipDrag /\ tpActive' = tpActive /\ tpEdits' = tpEdits
          /\ Rendered(tpTabs', tpEdits', tpActive)
      BY <1>5 DEF EndChipDrag
    <2>2. \/ tpTabs' = tpTabs
          \/ Range(order) \subseteq ChipIds(tpTabs) /\ tpTabs' = Reordered(tpTabs, group, order)
      BY <1>5 DEF EndChipDrag
    <2>3. StripOf(tpTabs') /\ ChipIds(tpTabs') = ChipIds(tpTabs)
      <3>1. CASE tpTabs' = tpTabs
        BY <3>1, <1>1
      <3>2. CASE Range(order) \subseteq ChipIds(tpTabs) /\ tpTabs' = Reordered(tpTabs, group, order)
        <4>1. \A x : Occurs(order, x) => x \in ChipIds(tpTabs)
          BY <3>2 DEF Occurs, Range
        <4>2. group # <<>>
          <5>1. Occurs(group, tpDrag.chip)
            BY <1>2, <2>1 DEF DragFits
          <5>2. QED  BY <5>1 DEF Occurs
        <4>3. /\ group \in Seq(Chips) /\ order \in Seq(Chips) /\ Injected(order)
              /\ SameElements(order, group) /\ Together(group, tpTabs)
              /\ PinnedAlike(tpTabs, {x \in Chips : Occurs(group, x)})
          BY <1>2 DEF DragFits
        <4> HIDE DEF group, order
        <4>4. QED  BY <4>1, <4>2, <4>3, <1>1, <3>2, ReorderedStrip
      <3>3. QED  BY <2>2, <3>1, <3>2
    <2>4. TabsFit' /\ StripFits' /\ PreviewFits'
      BY <1>1, <2>1, <2>3, RenderedFits
    <2>5. QED  BY <2>1, <2>4, NoDragFits DEF StripInv
  <1>6. QED  BY <1>3, <1>4, <1>5

(* and stays so, however the cursor moved, the answers came and the strip    *)
(* was rebuilt.                                                              *)
LEMMA StripSteps == StripInv /\ [TabPreviewNext]_tpVars => StripInv'
  <1> SUFFICES ASSUME StripInv, [TabPreviewNext]_tpVars PROVE StripInv'
    OBVIOUS
  <1>1. CASE UNCHANGED tpVars
    <2>1. tpStrip' = tpStrip /\ tpTooltip' = tpTooltip /\ tpDrag' = tpDrag /\ tpHover' = tpHover
      BY <1>1 DEF tpVars
    <2>2. tpEdits' = tpEdits /\ tpShown' = tpShown /\ tpStats' = tpStats
          /\ tpImage' = tpImage /\ tpStage' = tpStage /\ tpFailed' = tpFailed
      BY <2>1 DEF tpTooltip, tpStrip
    <2>3. PreviewFits'
      BY <2>2 DEF StripInv, PreviewFits, PreviewIsOfItsTab, Build
    <2>4. TabsFit' /\ StripFits' /\ DragFits'
      BY <2>1, <2>2, SameStrip DEF StripInv, TabsFit
    <2>5. QED  BY <2>3, <2>4 DEF StripInv
  <1>2. CASE TabPreviewNext
    BY <1>2, HoverSteps, TabSteps, DragSteps DEF TabPreviewNext
  <1>3. QED  BY <1>1, <1>2

LEMMA StripHolds == StripInv => PreviewsAreRight
  <1> SUFFICES ASSUME StripInv PROVE PreviewsAreRight
    OBVIOUS
  <1>1. StripOf(tpTabs) /\ tpActive \in ChipIds(tpTabs)
    BY DEF StripInv, TabsFit
  <1>2. Cardinality(ChipIds(tpTabs)) = Len(tpTabs)
    BY <1>1, ChipsCounted
  <1>3. OrderKeepsTabs
    BY <1>1, <1>2 DEF OrderKeepsTabs, StripOf
  <1>4. QED  BY <1>3 DEF StripInv, PreviewFits, PreviewsAreRight

--------------------------------------------------------------------------------
(* BuildPreview, for any guns, builds and rounds.                           *)

Views == [gun : Pictured \cup {Unarmed}, build : Assembled, rounds : Magazines]
Pictures ==
  {NoPicture} \cup UNION {{DrawnPicture(v), Icon(v), BareIcon(v), CardOf(v)} : v \in Views}
Stages == {"none", "answer", "body", "detail", "load"}
Pages == [last : Views, url : Pictures, holderUrl : Pictures, awaiting : BOOLEAN,
          request : [view : Views, at : Stages], shown : Pictures, holder : Pictures,
          dimmed : SUBSET {"shown", "holder"}]
Loads == [at : {"none", "factory", "failed", "parts", "drawn", "named"}, build : Assembled,
          card : BOOLEAN]

PictureTypes ==
  /\ bpView \in Views /\ bpCard \in Assembled \cup {NoCardFor} /\ bpLoad \in Loads
  /\ bpRenders \in Nat /\ bpRefreshes \in Nat
  /\ bpOn \in BOOLEAN /\ bpOff \in BOOLEAN /\ bpPage \in Pages

Armed(v) == v.gun # Unarmed
GameIcons(v) == {Icon(v), BareIcon(v)}

(* A picture that is kept is one of the view drawn last, and in the cell.   *)
UrlFits(p, v, on) ==
  p.url # NoPicture =>
    /\ on /\ p.url \in {DrawnPicture(p.last), CardOf(p.last), Icon(p.last)}
    /\ Armed(v) => p.last.gun = v.gun /\ p.shown = p.url

(* The placeholder has it too, or the game's icon.                          *)
HolderFits(p, v, card, on) ==
  /\ p.holderUrl \in {NoPicture, p.url} \cup GameIcons(v)
  /\ \/ p.url # NoPicture /\ p.holder = p.url
     \/ p.holder \in GameIcons(v)
     \/ ~on /\ card = v.build /\ p.holder = CardOf(v)

(* The request under way is for the gun of the page; its answer, once read, *)
(* is on the page.                                                          *)
RequestFits(p, v) ==
  LET r == p.request IN
  /\ r.at = "none" <=> ~Armed(r.view)
  /\ r.at = "none" => r.view = NoView
  /\ Armed(v) /\ Armed(r.view) => r.view.gun = v.gun
  /\ r.at = "load" => p.last = r.view /\ p.url # NoPicture
  /\ r.at = "detail" /\ Armed(v) => p.url = NoPicture /\ p.shown \in GameIcons(v)
  /\ p.dimmed # {} => Armed(r.view)

PageFits(p, v, card, on, off) ==
  /\ UrlFits(p, v, on) /\ RequestFits(p, v)
  /\ Armed(v) /\ ~off => HolderFits(p, v, card, on)
  /\ ~on \/ off => p.request = NoDrawing /\ ~p.awaiting

(* A page with nothing to come.                                             *)
AtRestOn(p, v) ==
  /\ p.url # NoPicture => p.last = v /\ p.shown = p.url
  /\ p.url = NoPicture => p.shown \in GameIcons(v)
  /\ p.holder \in {p.shown} \cup GameIcons(v)

DrawingIsDue ==
  bpRenders + bpRefreshes > 0 \/ bpLoad.at \in {"factory", "failed", "parts", "drawn"}
IsSettled(p, v) == IF p.request = NoDrawing THEN AtRestOn(p, v) ELSE p.request.view = v

(* Where the images wait, something will show them.                         *)
LoadFits ==
  /\ bpPage.awaiting => bpPage.request # NoDrawing \/ bpLoad.at \in {"parts", "drawn"}
                          \/ (bpLoad.at = "named" /\ bpRefreshes > 0)
  /\ bpLoad.at # "none" => Armed(bpView) /\ bpCard = NoCardFor

PictureInv ==
  /\ PictureTypes
  /\ PageFits(bpPage, bpView, bpCard, bpOn, bpOff)
  /\ bpOn /\ ~bpOff /\ Armed(bpView) /\ ~DrawingIsDue => IsSettled(bpPage, bpView)
  /\ LoadFits

(* Pictures of different kinds differ.                                      *)
LEMMA PicturesDiffer ==
  ASSUME NEW v, NEW w
  PROVE  /\ NoPicture \notin {DrawnPicture(v), Icon(v), BareIcon(v), CardOf(v)}
         /\ DrawnPicture(v) \notin {Icon(w), BareIcon(w), CardOf(w)}
         /\ CardOf(v) \notin {Icon(w), BareIcon(w)} /\ Icon(v) # BareIcon(w)
  BY DEF NoPicture, DrawnPicture, Icon, BareIcon, CardOf

(* A view of a gun has its pictures.                                        *)
LEMMA PicturesOf ==
  ASSUME NEW v \in Views
  PROVE  /\ {DrawnPicture(v), Icon(v), BareIcon(v), CardOf(v)} \subseteq Pictures
         /\ NoPicture \in Pictures /\ GameIcons(v) \subseteq Pictures
  BY DEF Pictures, GameIcons

(* Guns alone decide about the game's icons.                                *)
LEMMA IconsOfTheGun ==
  ASSUME NEW v, NEW w, v.gun = w.gun
  PROVE  Icon(v) = Icon(w) /\ BareIcon(v) = BareIcon(w) /\ GameIcons(v) = GameIcons(w)
  BY DEF Icon, BareIcon, GameIcons

(* There is a request exactly for a gun.                                    *)
LEMMA RequestIsArmed ==
  ASSUME NEW p \in Pages, NEW v, RequestFits(p, v)
  PROVE  Armed(p.request.view) <=> p.request # NoDrawing
  <1>1. p.request \in [view : Views, at : Stages]
    BY DEF Pages
  <1>2. ~Armed(NoView)
    BY DEF Armed, NoView, View
  <1>3. NoDrawing.view = NoView /\ NoDrawing.at = "none" /\ DOMAIN NoDrawing = {"view", "at"}
    BY DEF NoDrawing
  <1>4. p.request.at = "none" => p.request = NoDrawing
    BY <1>1 DEF RequestFits, NoDrawing
  <1>5. QED  BY <1>2, <1>3, <1>4 DEF RequestFits

(* Giving a drawing up leaves the pictures as they are.                     *)
LEMMA Cancelled ==
  ASSUME NEW p \in Pages
  PROVE  LET q == CancelPending(p) IN
         /\ q \in Pages /\ q.last = p.last /\ q.url = p.url /\ q.holderUrl = p.holderUrl
         /\ q.shown = p.shown /\ q.holder = p.holder /\ q.request = NoDrawing
         /\ q.dimmed = {} /\ ~q.awaiting
  <1>1. NoDrawing \in [view : Views, at : Stages]
    BY BuildPreviewConstants DEF NoDrawing, NoView, View, Views, Stages
  <1>2. QED  BY <1>1 DEF CancelPending, Pages

LEMMA Forgotten ==
  ASSUME NEW p \in Pages
  PROVE  LET q == Forget(p) IN
         /\ q \in Pages /\ q.last = NoView /\ q.url = NoPicture /\ q.holderUrl = NoPicture
         /\ q.shown = p.shown /\ q.holder = p.holder /\ q.request = p.request
         /\ q.dimmed = p.dimmed /\ q.awaiting = p.awaiting
  <1>1. NoView \in Views /\ NoPicture \in Pictures
    BY BuildPreviewConstants DEF NoView, View, Views, Pictures
  <1>2. QED  BY <1>1 DEF Forget, Pages

(* A picture put into both images.                                          *)
LEMMA PutInBoth ==
  ASSUME NEW p \in Pages, NEW picture \in Pictures
  PROVE  LET q == Place(p, picture) IN
         /\ q \in Pages /\ q.last = p.last /\ q.url = p.url /\ q.holderUrl = picture
         /\ q.shown = picture /\ q.holder = picture /\ q.request = p.request
         /\ q.dimmed = {} /\ q.awaiting = p.awaiting
  BY DEF Place, Pages

(* The game's icon in place of a drawing,                                   *)
LEMMA AppliedIcon ==
  ASSUME NEW p \in Pages, NEW v \in Views
  PROVE  LET q == ApplyImage(p, v, NoPicture) IN
         /\ q \in Pages /\ q.last = p.last /\ q.url = NoPicture /\ q.holderUrl \in GameIcons(v)
         /\ q.shown \in GameIcons(v) /\ q.holder = q.shown /\ q.request = p.request
         /\ q.dimmed = {} /\ ~q.awaiting
  <1> DEFINE icon == IF v.build = "bare" THEN BareIcon(v) ELSE Icon(v)
             r == Place(p, icon)
  <1>1. icon \in Pictures /\ icon \in GameIcons(v) /\ NoPicture \in Pictures
    BY PicturesOf DEF GameIcons
  <1>2. ApplyImage(p, v, NoPicture) = [r EXCEPT !.url = NoPicture, !.awaiting = FALSE]
    BY DEF ApplyImage
  <1> HIDE DEF icon
  <1>3. /\ r \in Pages /\ r.last = p.last /\ r.holderUrl = icon /\ r.shown = icon
        /\ r.holder = icon /\ r.request = p.request /\ r.dimmed = {}
    BY <1>1, PutInBoth
  <1> HIDE DEF r
  <1>4. QED  BY <1>1, <1>2, <1>3 DEF Pages

(* a picture that is kept, for the view v,                                  *)
LEMMA KeptPicture ==
  ASSUME NEW p \in Pages, NEW v \in Views, NEW picture \in Pictures \ {NoPicture}
  PROVE  LET q == [ApplyStatic(p, picture) EXCEPT !.last = v] IN
         /\ q \in Pages /\ q.last = v /\ q.url = picture /\ q.holderUrl = picture
         /\ q.shown = picture /\ q.holder = picture /\ q.request = p.request
         /\ q.dimmed = {} /\ ~q.awaiting
  <1> DEFINE r == Place(p, picture)
  <1>1. ApplyStatic(p, picture) = [r EXCEPT !.url = picture, !.awaiting = FALSE]
    BY DEF ApplyStatic
  <1>2. /\ r \in Pages /\ r.holderUrl = picture /\ r.shown = picture
        /\ r.holder = picture /\ r.request = p.request /\ r.dimmed = {}
    BY PutInBoth
  <1> HIDE DEF r
  <1>3. QED  BY <1>1, <1>2 DEF Pages

(* and one that has come.                                                   *)
LEMMA AppliedPicture ==
  ASSUME NEW p \in Pages, NEW v \in Views, NEW u, NEW picture \in Pictures \ {NoPicture}
  PROVE  LET q == [ApplyImage(p, u, picture) EXCEPT !.last = v] IN
         /\ q \in Pages /\ q.last = v /\ q.url = picture /\ q.holderUrl = picture
         /\ q.shown = picture /\ q.holder = picture /\ q.request = p.request
         /\ q.dimmed = {} /\ q.awaiting = p.awaiting
  <1> DEFINE r == Place(p, picture)
  <1>1. ApplyImage(p, u, picture) = [r EXCEPT !.url = picture]
    BY DEF ApplyImage
  <1>2. /\ r \in Pages /\ r.holderUrl = picture /\ r.shown = picture
        /\ r.holder = picture /\ r.request = p.request /\ r.dimmed = {}
        /\ r.awaiting = p.awaiting
    BY PutInBoth
  <1> HIDE DEF r
  <1>3. QED  BY <1>1, <1>2 DEF Pages

(* What scheduling a drawing of v makes of a page: its pictures are right,  *)
(* or a request for exactly this view is under way.                         *)
ReadyFor(q, v, card) ==
  /\ q \in Pages /\ UrlFits(q, v, TRUE) /\ RequestFits(q, v) /\ HolderFits(q, v, card, TRUE)
  /\ IsSettled(q, v) /\ (q.awaiting => q.request # NoDrawing)

LEMMA Scheduled ==
  ASSUME NEW p \in Pages, NEW v \in Views, NEW card \in Assembled \cup {NoCardFor},
         NEW on \in BOOLEAN, NEW complete \in BOOLEAN, Armed(v), ~bpOff,
         UrlFits(p, v, on), RequestFits(p, v),
         p.holderUrl \in {NoPicture, p.url} \cup GameIcons(v),
         HolderFits(p, v, card, FALSE) \/ card = v.build,
         ~on => p.request = NoDrawing
  PROVE  ReadyFor(ScheduleNow(p, v, card, complete), v, card)
  <1> DEFINE cancelled == CancelPending(p)
             q == IF p.last.gun = v.gun THEN cancelled ELSE Forget(cancelled)
             hasCard == card = v.build
             picture == IF hasCard THEN CardOf(v) ELSE Icon(v)
             asked == [q EXCEPT !.awaiting = (q.url = NoPicture), !.dimmed = {"shown", "holder"},
                                !.request = [view |-> v, at |-> "answer"]]
             after == ScheduleNow(p, v, card, complete)
  <1> SUFFICES ReadyFor(after, v, card)
    OBVIOUS
  <1>1. after = IF ~hasCard /\ p.request.view = v THEN p
                ELSE IF hasCard \/ (v.build = "factory" /\ v.rounds = "empty")
                  THEN [ApplyStatic(q, picture) EXCEPT !.last = v]
                ELSE IF IsDrawn(q, v) THEN q
                ELSE IF ~complete THEN ApplyImage(q, v, NoPicture)
                ELSE asked
    BY DEF ScheduleNow, Armed
  <1>2. /\ cancelled \in Pages /\ cancelled.last = p.last /\ cancelled.url = p.url
        /\ cancelled.holderUrl = p.holderUrl
        /\ cancelled.shown = p.shown /\ cancelled.holder = p.holder
        /\ cancelled.request = NoDrawing /\ cancelled.dimmed = {} /\ ~cancelled.awaiting
    BY Cancelled
  <1> HIDE DEF cancelled
  <1>3. /\ q \in Pages /\ q.shown = p.shown /\ q.holder = p.holder /\ q.request = NoDrawing
        /\ q.dimmed = {} /\ ~q.awaiting
        /\ q.url # NoPicture => q.url = p.url /\ q.last = p.last /\ q.last.gun = v.gun
        /\ q.holderUrl \in {NoPicture, p.holderUrl}
    BY <1>2, Forgotten, Zenon
  <1>4. q.holderUrl \in {NoPicture, q.url} \cup GameIcons(v) /\ (p.url # NoPicture => q.url = p.url)
    <2>1. p.url # NoPicture => p.last.gun = v.gun
      BY DEF UrlFits
    <2>2. p.last.gun = v.gun => q.url = p.url
      BY <1>2
    <2>3. p.url = NoPicture => q.url = NoPicture
      BY <1>3
    <2>4. QED  BY <1>3, <2>1, <2>2, <2>3
  <1>5. NoDrawing.view = NoView /\ NoDrawing.at = "none" /\ ~Armed(NoView) /\ NoView # v
    BY DEF NoDrawing, NoView, View, Armed
  <1>6. /\ NoPicture \notin GameIcons(v) /\ CardOf(v) # NoPicture /\ Icon(v) # NoPicture
        /\ Icon(v) \in GameIcons(v)
    BY PicturesDiffer DEF GameIcons
  <1>7. ASSUME NEW r \in Pages, r.request = NoDrawing, r.dimmed = {}, ~r.awaiting,
               UrlFits(r, v, TRUE), HolderFits(r, v, card, TRUE), AtRestOn(r, v)
        PROVE  ReadyFor(r, v, card)
    BY <1>5, <1>7 DEF ReadyFor, RequestFits, IsSettled
  <1>8. CASE ~hasCard /\ p.request.view = v
    <2>1. after = p
      BY <1>1, <1>8
    <2>2. p.request # NoDrawing /\ on
      BY <1>5, <1>8
    <2>3. HolderFits(p, v, card, TRUE)
      BY <1>8 DEF HolderFits
    <2>4. UrlFits(p, v, TRUE)
      BY <2>2 DEF UrlFits
    <2>5. IsSettled(p, v)
      BY <1>8, <2>2 DEF IsSettled
    <2>6. QED  BY <2>1, <2>2, <2>3, <2>4, <2>5 DEF ReadyFor
  <1>9. CASE ~(~hasCard /\ p.request.view = v)
             /\ (hasCard \/ (v.build = "factory" /\ v.rounds = "empty"))
    <2>1. picture \in Pictures \ {NoPicture} /\ picture \in {CardOf(v), Icon(v)}
      BY <1>6, PicturesOf
    <2> HIDE DEF picture, q
    <2>2. /\ after = [ApplyStatic(q, picture) EXCEPT !.last = v]
          /\ after \in Pages /\ after.last = v /\ after.url = picture /\ after.holderUrl = picture
          /\ after.shown = picture /\ after.holder = picture /\ after.request = q.request
          /\ after.dimmed = {} /\ ~after.awaiting
      <3>1. after = [ApplyStatic(q, picture) EXCEPT !.last = v]
        BY <1>1, <1>9
      <3> HIDE DEF after
      <3>2. QED  BY <1>3, <2>1, <3>1, KeptPicture
    <2> HIDE DEF after
    <2>3. /\ UrlFits(after, v, TRUE) /\ HolderFits(after, v, card, TRUE) /\ AtRestOn(after, v)
      BY <2>1, <2>2 DEF UrlFits, HolderFits, AtRestOn
    <2>4. QED  BY <1>3, <1>7, <2>2, <2>3
  <1>10. CASE ~hasCard /\ p.request.view # v
              /\ ~(v.build = "factory" /\ v.rounds = "empty")
    <2> HIDE DEF q
    <2>1. p.holder \in GameIcons(v) \/ (p.url # NoPicture /\ p.holder = p.url)
      BY <1>10 DEF HolderFits
    <2>2. q.holder \in GameIcons(v) \/ (q.url # NoPicture /\ q.holder = q.url)
      BY <1>3, <1>4, <2>1
    <2>3. UrlFits(q, v, TRUE) /\ HolderFits(q, v, card, TRUE)
      <3>1. q.url # NoPicture => q.url \in {DrawnPicture(q.last), CardOf(q.last), Icon(q.last)}
                                  /\ q.last.gun = v.gun /\ q.shown = q.url
        BY <1>3 DEF UrlFits
      <3>2. QED  BY <1>4, <2>2, <3>1 DEF UrlFits, HolderFits
    <2>4. CASE IsDrawn(q, v)
      <3>1. after = q
        BY <1>1, <1>10, <2>4
      <3>2. AtRestOn(q, v)
        BY <2>2, <2>3, <2>4 DEF IsDrawn, AtRestOn, UrlFits
      <3>3. QED  BY <1>3, <1>7, <2>3, <3>1, <3>2
    <2>5. CASE ~IsDrawn(q, v) /\ ~complete
      <3>1. after = ApplyImage(q, v, NoPicture)
        BY <1>1, <1>10, <2>5
      <3>2. /\ after \in Pages /\ after.url = NoPicture /\ after.holderUrl \in GameIcons(v)
            /\ after.shown \in GameIcons(v) /\ after.holder = after.shown
            /\ after.request = q.request /\ after.dimmed = {} /\ ~after.awaiting
        BY <1>3, <3>1, AppliedIcon
      <3> HIDE DEF after
      <3>3. UrlFits(after, v, TRUE) /\ HolderFits(after, v, card, TRUE) /\ AtRestOn(after, v)
        BY <3>2 DEF UrlFits, HolderFits, AtRestOn
      <3>4. QED  BY <1>3, <1>7, <3>2, <3>3
    <2>6. CASE ~IsDrawn(q, v) /\ complete
      <3>1. after = asked
        BY <1>1, <1>10, <2>6
      <3>2. /\ asked \in Pages /\ asked.url = q.url /\ asked.last = q.last /\ asked.shown = q.shown
            /\ asked.holder = q.holder /\ asked.holderUrl = q.holderUrl
            /\ asked.request = [view |-> v, at |-> "answer"]
        BY <1>3 DEF Pages, Stages
      <3> HIDE DEF asked
      <3>3. UrlFits(asked, v, TRUE) /\ HolderFits(asked, v, card, TRUE)
        BY <2>3, <3>2 DEF UrlFits, HolderFits
      <3>4. asked.request.view = v /\ asked.request.at = "answer"
        BY <3>2
      <3>5. RequestFits(asked, v) /\ IsSettled(asked, v) /\ asked.request # NoDrawing
        BY <1>5, <3>4 DEF RequestFits, IsSettled
      <3>6. QED  BY <3>1, <3>2, <3>3, <3>5 DEF ReadyFor
    <2>7. QED  BY <2>4, <2>5, <2>6
  <1>11. QED  BY <1>8, <1>9, <1>10

(* The page of another build of the same gun, which has no card.            *)
LEMMA SameGunFits ==
  ASSUME NEW p \in Pages, NEW v \in Views, NEW w \in Views, w.gun = v.gun,
         PageFits(p, w, NoCardFor, bpOn, bpOff)
  PROVE  PageFits(p, v, NoCardFor, bpOn, bpOff)
  <1>1. GameIcons(w) = GameIcons(v) /\ (Armed(w) <=> Armed(v))
    BY IconsOfTheGun DEF Armed
  <1>2. w.build # NoCardFor
    BY BuildPreviewConstants DEF Views
  <1>3. UrlFits(p, v, bpOn) /\ RequestFits(p, v)
    BY <1>1 DEF PageFits, UrlFits, RequestFits
  <1>4. Armed(v) /\ ~bpOff => HolderFits(p, v, NoCardFor, bpOn)
    BY <1>1, <1>2 DEF PageFits, HolderFits
  <1>5. QED  BY <1>3, <1>4 DEF PageFits

(* A page that is ready fits.                                               *)
LEMMA ReadyFits ==
  ASSUME NEW p, NEW v, NEW card, ReadyFor(p, v, card), bpOn, ~bpOff
  PROVE  PageFits(p, v, card, bpOn, bpOff)
  BY DEF ReadyFor, PageFits, UrlFits, HolderFits

(* The name of the build, and its card, at the start of a refresh: w is     *)
(* the build before, c0 its card.                                           *)
LEMMA NamedFits ==
  ASSUME NEW p \in Pages, NEW v \in Views, NEW w \in Views, w.gun = v.gun, Armed(v),
         NEW c0, NEW card \in Assembled \cup {NoCardFor}, bpOn \in BOOLEAN, bpOff \in BOOLEAN,
         PageFits(p, w, c0, bpOn, bpOff), card = NoCardFor => c0 = NoCardFor
  PROVE  LET q == NamePage(p, v, card) IN
         /\ q \in Pages /\ PageFits(q, v, NameCard(v, card), bpOn, bpOff)
         /\ q.awaiting => q.request # NoDrawing \/ (p.awaiting /\ q.request = p.request)
         /\ bpOn /\ ~bpOff /\ IsSettled(p, v) => IsSettled(q, v)
         /\ NameCard(v, card) \in Assembled \cup {NoCardFor}
         /\ card = NoCardFor => NameCard(v, card) = NoCardFor
  <1> DEFINE q == NamePage(p, v, card)  c == NameCard(v, card)
             r == [p EXCEPT !.holder = CardOf(v)]  t == [p EXCEPT !.holder = Icon(v)]
  <1>1. v.build # NoCardFor /\ v.build \in Assembled
    BY BuildPreviewConstants DEF Views
  <1>2. /\ GameIcons(w) = GameIcons(v) /\ (Armed(w) <=> Armed(v))
        /\ Icon(v) \in GameIcons(v)
    BY IconsOfTheGun DEF Armed, GameIcons
  <1>3. UrlFits(p, v, bpOn) /\ RequestFits(p, v)
    BY <1>2 DEF PageFits, UrlFits, RequestFits
  <1>4. ~bpOff => p.holderUrl \in {NoPicture, p.url} \cup GameIcons(v)
    BY <1>2 DEF PageFits, HolderFits
  <1>5. ~bpOn \/ bpOff => p.request = NoDrawing /\ ~p.awaiting
    BY DEF PageFits
  <1>6. c \in Assembled \cup {NoCardFor} /\ (card = NoCardFor => c = NoCardFor)
    BY DEF NameCard
  <1>7. ASSUME NEW u \in {CardOf(v), Icon(v)}
        PROVE  LET z == [p EXCEPT !.holder = u] IN
               /\ z \in Pages /\ z.holder = u /\ z.last = p.last /\ z.url = p.url
               /\ z.holderUrl = p.holderUrl /\ z.awaiting = p.awaiting /\ z.request = p.request
               /\ z.shown = p.shown /\ z.dimmed = p.dimmed
    BY PicturesOf DEF Pages
  <1>8. CASE card = NoCardFor
    <2>1. q = p
      BY <1>8 DEF NamePage
    <2>2. PageFits(q, v, c, bpOn, bpOff)
      BY <1>6, <1>8, <2>1, SameGunFits
    <2>3. QED  BY <1>6, <2>1, <2>2
  <1>9. CASE card = v.build
    <2>1. /\ r \in Pages /\ r.holder = CardOf(v) /\ r.last = p.last /\ r.url = p.url
          /\ r.holderUrl = p.holderUrl /\ r.awaiting = p.awaiting /\ r.request = p.request
          /\ r.shown = p.shown /\ r.dimmed = p.dimmed
      BY <1>7
    <2>2. q = IF bpOn THEN ScheduleNow(r, v, card, TRUE) ELSE r
      BY <1>1, <1>9 DEF NamePage, SchedulePicture
    <2> HIDE DEF r
    <2>3. UrlFits(r, v, bpOn) /\ RequestFits(r, v)
      BY <1>3, <2>1 DEF UrlFits, RequestFits
    <2>4. c = card
      BY <1>9 DEF NameCard
    <2>5. CASE bpOn /\ ~bpOff
      <3>1. ReadyFor(q, v, card)
        BY <1>4, <1>9, <2>1, <2>2, <2>3, <2>5, Scheduled
      <3>2. PageFits(q, v, card, bpOn, bpOff)
        BY <2>5, <3>1, ReadyFits
      <3>3. QED  BY <1>6, <2>4, <3>1, <3>2 DEF ReadyFor
    <2>6. CASE ~(bpOn /\ ~bpOff)
      <3>1. q = r
        BY <2>2, <2>6 DEF ScheduleNow
      <3>2. ~bpOff => ~bpOn /\ HolderFits(r, v, card, bpOn)
        BY <1>4, <1>9, <2>1, <2>6 DEF HolderFits
      <3>3. PageFits(r, v, card, bpOn, bpOff)
        BY <1>5, <2>1, <2>3, <3>2 DEF PageFits
      <3>4. QED  BY <1>5, <1>6, <2>1, <2>4, <2>6, <3>1, <3>3
    <2>7. QED  BY <2>5, <2>6
  <1>10. CASE card # NoCardFor /\ card # v.build
    <2>1. /\ t \in Pages /\ t.holder = Icon(v) /\ t.last = p.last /\ t.url = p.url
          /\ t.holderUrl = p.holderUrl /\ t.awaiting = p.awaiting /\ t.request = p.request
          /\ t.shown = p.shown /\ t.dimmed = p.dimmed
      BY <1>7
    <2>2. q = t
      BY <1>10 DEF NamePage
    <2> HIDE DEF t
    <2>3. UrlFits(t, v, bpOn) /\ RequestFits(t, v)
      BY <1>3, <2>1 DEF UrlFits, RequestFits
    <2>4. ~bpOff => HolderFits(t, v, c, bpOn)
      BY <1>2, <1>4, <2>1 DEF HolderFits
    <2>5. PageFits(t, v, c, bpOn, bpOff)
      BY <1>5, <2>1, <2>3, <2>4 DEF PageFits
    <2>6. IsSettled(p, v) => IsSettled(t, v)
      BY <1>2, <2>1 DEF IsSettled, AtRestOn
    <2>7. QED  BY <1>6, <2>1, <2>2, <2>5, <2>6
  <1>11. QED  BY <1>8, <1>9, <1>10

(* The picture put back over the icon that a render drew.                   *)
LEMMA RestampFits ==
  ASSUME NEW p \in Pages, NEW v \in Views, Armed(v), NEW card, bpOn \in BOOLEAN,
         bpOff \in BOOLEAN, PageFits(p, v, card, bpOn, bpOff)
  PROVE  LET q == Restamp(p, v) IN
         /\ q \in Pages /\ PageFits(q, v, card, bpOn, bpOff)
         /\ q.awaiting = p.awaiting /\ q.request = p.request
  <1> DEFINE drawing == p.request # NoDrawing
             mine    == p.last.gun = v.gun
             cell    == bpOn /\ p.url # NoPicture /\ mine
             aside   == p.holderUrl # NoPicture /\ mine
             held    == IF aside THEN drawing ELSE "holder" \in p.dimmed
             dimmed  == (IF cell /\ drawing THEN {"shown"} ELSE {})
                          \union (IF held THEN {"holder"} ELSE {})
             shown   == IF cell THEN p.url ELSE Icon(v)
             holder  == IF aside THEN p.holderUrl ELSE p.holder
             q       == Restamp(p, v)
  <1>1. q = [p EXCEPT !.shown = shown, !.holder = holder, !.dimmed = dimmed]
    BY DEF Restamp
  <1>2. shown \in Pictures /\ holder \in Pictures /\ dimmed \in SUBSET {"shown", "holder"}
    <2>1. p.url \in Pictures /\ p.holderUrl \in Pictures /\ p.holder \in Pictures
      BY DEF Pages
    <2>2. QED  BY <2>1, PicturesOf
  <1>3. p.url # NoPicture => shown = p.url
    BY DEF PageFits, UrlFits
  <1>4. p.url = NoPicture => shown \in GameIcons(v)
    BY DEF GameIcons
  <1>5. dimmed # {} => drawing
    <2>1. p.dimmed # {} => drawing
      BY RequestIsArmed DEF PageFits, RequestFits
    <2>2. QED  BY <2>1
  <1>6. ~bpOff => \/ p.url # NoPicture /\ holder = p.url
                  \/ holder \in GameIcons(v)
                  \/ ~bpOn /\ card = v.build /\ holder = CardOf(v)
    <2>1. ~bpOff => p.holderUrl \in {NoPicture, p.url} \cup GameIcons(v)
      BY DEF PageFits, HolderFits
    <2>2. QED  BY <2>1 DEF PageFits, HolderFits
  <1> HIDE DEF shown, holder, dimmed
  <1>7. /\ q \in Pages /\ q.shown = shown /\ q.holder = holder /\ q.dimmed = dimmed
        /\ q.last = p.last /\ q.url = p.url /\ q.holderUrl = p.holderUrl
        /\ q.awaiting = p.awaiting /\ q.request = p.request
    BY <1>1, <1>2 DEF Pages
  <1> HIDE DEF q
  <1>8. UrlFits(q, v, bpOn)
    BY <1>3, <1>7 DEF PageFits, UrlFits
  <1>9. RequestFits(q, v)
    <2>1. drawing => Armed(p.request.view)
      BY RequestIsArmed DEF PageFits
    <2>2. QED  BY <1>4, <1>5, <1>7, <2>1 DEF PageFits, RequestFits
  <1>10. ~bpOff => HolderFits(q, v, card, bpOn)
    BY <1>6, <1>7 DEF PageFits, HolderFits
  <1>11. QED  BY <1>7, <1>8, <1>9, <1>10 DEF PageFits, q

(* An unpictured page: no gun yet.                                          *)
LEMMA PictureStarts == BuildPreviewInit => PictureInv
  <1> SUFFICES ASSUME BuildPreviewInit PROVE PictureInv
    OBVIOUS
  <1>1. /\ bpView = NoView /\ bpCard = NoCardFor /\ bpLoad = NotLoading /\ bpRenders = 0
        /\ bpRefreshes = 0 /\ bpOn \in BOOLEAN /\ bpOff = FALSE /\ bpPage = EmptyPage
    BY DEF BuildPreviewInit
  <1>2. NoView \in Views /\ ~Armed(NoView) /\ NoPicture \in Pictures
    BY BuildPreviewConstants DEF NoView, View, Views, Armed, Pictures
  <1>3. NotLoading \in Loads /\ NotLoading.at = "none"
    BY BuildPreviewConstants DEF NotLoading, Loads
  <1>4. NoDrawing \in [view : Views, at : Stages] /\ NoDrawing.view = NoView
        /\ NoDrawing.at = "none"
    BY <1>2 DEF NoDrawing, Stages
  <1>5. /\ EmptyPage \in Pages /\ EmptyPage.url = NoPicture /\ EmptyPage.request = NoDrawing
        /\ EmptyPage.dimmed = {} /\ ~EmptyPage.awaiting
    BY <1>2, <1>4 DEF EmptyPage, Pages
  <1>6. PictureTypes
    BY <1>1, <1>2, <1>3, <1>5 DEF PictureTypes
  <1>7. PageFits(bpPage, bpView, bpCard, bpOn, bpOff)
    BY <1>1, <1>2, <1>4, <1>5 DEF PageFits, UrlFits, RequestFits
  <1>8. QED  BY <1>1, <1>2, <1>3, <1>5, <1>6, <1>7 DEF PictureInv, LoadFits

(* What the invariant promises of both images.                              *)
LEMMA PictureHolds == PictureInv => PictureIsRight
  <1> SUFFICES ASSUME PictureInv PROVE PictureIsRight
    OBVIOUS
  <1>1. /\ bpPage \in Pages /\ bpLoad \in Loads /\ UrlFits(bpPage, bpView, bpOn)
        /\ RequestFits(bpPage, bpView) /\ (~bpOn \/ bpOff => ~bpPage.awaiting)
        /\ bpRenders \in Nat /\ bpRefreshes \in Nat
    BY DEF PictureInv, PictureTypes, PageFits
  <1>2. Armed(bpPage.request.view) <=> bpPage.request # NoDrawing
    BY <1>1, RequestIsArmed
  <1>3. PicturesComeBack
    BY <1>1, <1>2 DEF PictureInv, LoadFits, PicturesComeBack, AtWork, RequestFits
  <1>4. ASSUME bpOn, ~bpOff, ~AtWork, bpView.gun # Unarmed, bpLoad.at = "none"
        PROVE  /\ bpPage.shown \in {DrawnPicture(bpView), CardOf(bpView)} \union GameIcons(bpView)
               /\ bpPage.shown \in GameIcons(bpView) => bpPage.url \in {NoPicture, Icon(bpView)}
               /\ bpPage.holder \in {bpPage.shown} \union GameIcons(bpView)
    <2>1. bpPage.request = NoDrawing /\ ~DrawingIsDue
      BY <1>4 DEF AtWork, DrawingIsDue
    <2>2. AtRestOn(bpPage, bpView)
      BY <1>4, <2>1 DEF PictureInv, IsSettled, Armed
    <2>3. DrawnPicture(bpView) \notin GameIcons(bpView) /\ CardOf(bpView) \notin GameIcons(bpView)
          /\ Icon(bpView) \in GameIcons(bpView)
      BY PicturesDiffer DEF GameIcons
    <2>4. QED  BY <1>1, <2>2, <2>3 DEF AtRestOn, UrlFits
  <1>5. PictureIsOfTheBuild
    BY <1>4 DEF PictureIsOfTheBuild, GameIcons
  <1>6. QED  BY <1>3, <1>5 DEF PictureIsRight

(* A step that leaves the page, the gun and the switches alone.             *)
LEMMA PictureKept ==
  ASSUME PictureInv, bpLoad' \in Loads, bpRenders' \in Nat, bpRefreshes' \in Nat,
         bpView' \in Views, bpView'.gun = bpView.gun, bpCard' = bpCard,
         bpView' = bpView \/ bpCard = NoCardFor,
         UNCHANGED <<bpOn, bpOff, bpPage>>, DrawingIsDue', LoadFits'
  PROVE  PictureInv'
  <1>1. PictureTypes'
    BY DEF PictureInv, PictureTypes
  <1>2. PageFits(bpPage, bpView', bpCard, bpOn, bpOff)
    BY SameGunFits DEF PictureInv, PictureTypes
  <1>3. QED  BY <1>1, <1>2 DEF PictureInv

(* Opening a gun, with or without a build.                                  *)
LEMMA OpenedFits ==
  ASSUME PictureInv, NEW g \in Pictured, NEW load \in Loads, load.at \in {"factory", "parts"},
         load.at = "factory" => load.build = "bare", OpenPictured(g, load)
  PROVE  PictureInv'
  <1> DEFINE c == CancelPending(bpPage)  f == Forget(c)
             await == bpOn /\ ~bpOff /\ load.build # "bare"
  <1>1. /\ bpPage \in Pages /\ bpView \in Views /\ bpOn \in BOOLEAN /\ bpOff \in BOOLEAN
        /\ bpRenders \in Nat /\ bpRefreshes \in Nat
    BY DEF PictureInv, PictureTypes
  <1>2. /\ bpView' = [bpView EXCEPT !.gun = g, !.build = "bare"] /\ bpCard' = NoCardFor
        /\ bpLoad' = load /\ bpPage' = [f EXCEPT !.awaiting = await, !.holder = Icon(bpView')]
        /\ UNCHANGED <<bpRenders, bpRefreshes, bpOn, bpOff>>
    BY DEF OpenPictured
  <1>3. bpView' \in Views /\ Armed(bpView')
    BY <1>1, <1>2, BuildPreviewConstants DEF Views, Armed
  <1>4. c \in Pages /\ c.request = NoDrawing /\ c.dimmed = {}
    BY <1>1, Cancelled
  <1> HIDE DEF c
  <1>5. /\ f \in Pages /\ f.url = NoPicture /\ f.holderUrl = NoPicture /\ f.request = NoDrawing
        /\ f.dimmed = {}
    BY <1>4, Forgotten
  <1> HIDE DEF f
  <1>6. Icon(bpView') \in Pictures /\ Icon(bpView') \in GameIcons(bpView')
    BY <1>3, PicturesOf DEF GameIcons
  <1>7. await \in BOOLEAN
    BY <1>1
  <1> HIDE DEF await
  <1>8. /\ bpPage' \in Pages /\ bpPage'.url = NoPicture /\ bpPage'.holderUrl = NoPicture
        /\ bpPage'.request = NoDrawing /\ bpPage'.dimmed = {} /\ bpPage'.holder = Icon(bpView')
        /\ bpPage'.awaiting = await
    BY <1>2, <1>5, <1>6, <1>7 DEF Pages
  <1>9. NoDrawing.view = NoView /\ NoDrawing.at = "none" /\ ~Armed(NoView)
    BY DEF NoDrawing, NoView, View, Armed
  <1>10. PageFits(bpPage', bpView', bpCard', bpOn', bpOff')
    BY <1>1, <1>2, <1>6, <1>8, <1>9
       DEF PageFits, UrlFits, HolderFits, RequestFits, await
  <1>11. PictureTypes'
    BY <1>1, <1>2, <1>3, <1>8 DEF PictureTypes
  <1>12. LoadFits'
    BY <1>2, <1>3, <1>8 DEF LoadFits, await
  <1>13. QED  BY <1>2, <1>10, <1>11, <1>12 DEF PictureInv, DrawingIsDue

(* An edit, or other rounds.                                                *)
LEMMA ChangedFits ==
  ASSUME PictureInv, NEW v \in Views, v.gun = bpView.gun, Armed(v), BuildChanges(v),
         bpRenders' \in Nat
  PROVE  PictureInv'
  <1> DEFINE q == NamePage(bpPage, v, bpCard)
  <1>1. /\ bpView' = v /\ bpCard' = NameCard(v, bpCard) /\ bpPage' = q
        /\ bpRefreshes' = bpRefreshes + 1 /\ UNCHANGED <<bpLoad, bpOn, bpOff>>
    BY DEF BuildChanges
  <1>2. PictureTypes /\ PageFits(bpPage, bpView, bpCard, bpOn, bpOff)
    BY DEF PictureInv
  <1>3. /\ q \in Pages /\ PageFits(q, v, NameCard(v, bpCard), bpOn, bpOff)
        /\ q.awaiting => q.request # NoDrawing \/ (bpPage.awaiting /\ q.request = bpPage.request)
        /\ NameCard(v, bpCard) \in Assembled \cup {NoCardFor}
        /\ bpCard = NoCardFor => NameCard(v, bpCard) = NoCardFor
    BY <1>2, NamedFits DEF PictureTypes
  <1> HIDE DEF q
  <1>4. PictureTypes'
    BY <1>1, <1>2, <1>3 DEF PictureTypes
  <1>5. DrawingIsDue'
    <2>1. bpRefreshes \in Nat /\ bpRefreshes' = bpRefreshes + 1 /\ bpRenders' \in Nat
      BY <1>1, <1>2 DEF PictureTypes
    <2>2. bpRefreshes + 1 \in Nat /\ bpRefreshes + 1 > 0
      BY <2>1
    <2>3. bpRenders' + bpRefreshes' > 0
      <3> DEFINE r == bpRenders'  f == bpRefreshes'
      <3>1. r \in Nat /\ f \in Nat /\ f > 0
        BY <2>1, <2>2
      <3> HIDE DEF r, f
      <3>2. r + f > 0
        BY <3>1
      <3>3. QED  BY <3>2 DEF r, f
    <2>4. QED  BY <2>3 DEF DrawingIsDue
  <1>6. LoadFits'
    <2>1. bpRefreshes' > 0
      BY <1>1, <1>2 DEF PictureTypes
    <2>2. LoadFits
      BY DEF PictureInv
    <2>3. QED  BY <1>1, <1>3, <2>1, <2>2 DEF LoadFits
  <1>7. QED  BY <1>1, <1>3, <1>4, <1>5, <1>6 DEF PictureInv

(* A drawing is scheduled at the end of a refresh or a render.              *)
LEMMA SchedulingFits ==
  ASSUME PictureInv, NEW p \in Pages, PageFits(p, bpView, bpCard, bpOn, bpOff),
         p.awaiting = bpPage.awaiting, p.request = bpPage.request,
         Armed(bpView) \/ p = bpPage, NEW complete \in BOOLEAN,
         bpPage' = SchedulePicture(p, bpView, bpCard, complete),
         bpRenders' \in Nat, bpRefreshes' \in Nat,
         UNCHANGED <<bpView, bpCard, bpLoad, bpOn, bpOff>>
  PROVE  PictureInv'
  <1>1. PictureTypes /\ LoadFits
    BY DEF PictureInv
  <1>2. CASE bpOn /\ ~bpOff /\ Armed(bpView)
    <2> DEFINE q == ScheduleNow(p, bpView, bpCard, complete)
    <2>1. bpPage' = q
      BY <1>2 DEF SchedulePicture
    <2>2. /\ UrlFits(p, bpView, TRUE) /\ RequestFits(p, bpView)
          /\ HolderFits(p, bpView, bpCard, TRUE)
      BY <1>2 DEF PageFits, UrlFits, HolderFits
    <2>3. HolderFits(p, bpView, bpCard, FALSE)
          /\ p.holderUrl \in {NoPicture, p.url} \cup GameIcons(bpView)
      BY <2>2 DEF HolderFits
    <2>4. ReadyFor(q, bpView, bpCard)
      BY <1>1, <1>2, <2>2, <2>3, Scheduled DEF PictureTypes
    <2>5. PageFits(q, bpView, bpCard, bpOn, bpOff)
      BY <1>2, <2>4, ReadyFits
    <2>6. /\ q \in Pages /\ IsSettled(q, bpView) /\ (q.awaiting => q.request # NoDrawing)
      BY <2>4 DEF ReadyFor
    <2> HIDE DEF q
    <2>7. PictureTypes' /\ LoadFits'
      BY <1>1, <2>1, <2>6 DEF PictureTypes, LoadFits
    <2>8. QED  BY <2>1, <2>5, <2>6, <2>7 DEF PictureInv
  <1>3. CASE ~(bpOn /\ ~bpOff /\ Armed(bpView))
    <2>1. bpPage' = p
      BY <1>3 DEF SchedulePicture, ScheduleNow, Armed
    <2>2. bpPage'.awaiting => bpPage'.request # NoDrawing
      BY <1>1, <1>3, <2>1 DEF PageFits, LoadFits
    <2>3. PictureTypes' /\ LoadFits'
      BY <1>1, <2>1, <2>2 DEF PictureTypes, LoadFits
    <2>4. QED  BY <1>3, <2>1, <2>3 DEF PictureInv
  <1>4. QED  BY <1>2, <1>3

(* An answer that is not of the view on the page ends its request.          *)
LEMMA GivenUpFits ==
  ASSUME PictureInv, bpPage.request # NoDrawing, bpPage' = CancelPending(bpPage),
         UNCHANGED <<bpView, bpCard, bpLoad, bpRenders, bpRefreshes, bpOn>>,
         bpOff' \in BOOLEAN, bpOff => bpOff',
         bpOn /\ ~bpOff' /\ Armed(bpView) /\ ~DrawingIsDue => AtRestOn(bpPage, bpView)
  PROVE  PictureInv'
  <1>1. PictureTypes /\ LoadFits /\ PageFits(bpPage, bpView, bpCard, bpOn, bpOff)
    BY DEF PictureInv
  <1>2. /\ bpPage' \in Pages /\ bpPage'.last = bpPage.last /\ bpPage'.url = bpPage.url
        /\ bpPage'.holderUrl = bpPage.holderUrl /\ bpPage'.shown = bpPage.shown
        /\ bpPage'.holder = bpPage.holder /\ bpPage'.request = NoDrawing
        /\ bpPage'.dimmed = {} /\ ~bpPage'.awaiting
    BY <1>1, Cancelled DEF PictureTypes
  <1>3. NoDrawing.view = NoView /\ NoDrawing.at = "none" /\ ~Armed(NoView)
    BY DEF NoDrawing, NoView, View, Armed
  <1>4. PageFits(bpPage', bpView', bpCard', bpOn', bpOff')
    BY <1>1, <1>2, <1>3 DEF PageFits, UrlFits, HolderFits, RequestFits
  <1>5. PictureTypes'
    BY <1>1, <1>2 DEF PictureTypes
  <1>6. LoadFits'
    BY <1>1, <1>2 DEF LoadFits
  <1>7. bpOn' /\ ~bpOff' /\ Armed(bpView') /\ ~DrawingIsDue' => IsSettled(bpPage', bpView')
    BY <1>2 DEF IsSettled, AtRestOn, DrawingIsDue
  <1>8. QED  BY <1>4, <1>5, <1>6, <1>7 DEF PictureInv

(* A page that took an answer of its view, and the request goes on.         *)
LEMMA GoesOnFits ==
  ASSUME PictureInv, IsCurrent, bpPage.request # NoDrawing,
         NEW page \in Pages, NEW next \in {"body", "detail", "load"},
         bpPage' = [page EXCEPT !.request.at = next], page.request = bpPage.request,
         page.awaiting => bpPage.awaiting, page.dimmed \subseteq bpPage.dimmed,
         UrlFits(page, bpView, bpOn), HolderFits(page, bpView, bpCard, bpOn),
         next = "load" => page.last = bpView /\ page.url # NoPicture,
         next = "detail" => page.url = NoPicture /\ page.shown \in GameIcons(bpView),
         UNCHANGED <<bpView, bpCard, bpLoad, bpRenders, bpRefreshes, bpOn, bpOff>>
  PROVE  PictureInv'
  <1>1. PictureTypes /\ LoadFits /\ PageFits(bpPage, bpView, bpCard, bpOn, bpOff)
    BY DEF PictureInv
  <1>2. bpOn /\ ~bpOff /\ bpPage.request.view = bpView
    BY DEF IsCurrent, AskedView
  <1>3. Armed(bpView)
    BY <1>1, <1>2, RequestIsArmed DEF PageFits, PictureTypes
  <1>4. page.request \in [view : Views, at : Stages] /\ next \in Stages /\ next # "none"
    BY DEF Pages, Stages
  <1>5. /\ bpPage' \in Pages /\ bpPage'.last = page.last /\ bpPage'.url = page.url
        /\ bpPage'.holderUrl = page.holderUrl /\ bpPage'.shown = page.shown
        /\ bpPage'.holder = page.holder /\ bpPage'.dimmed = page.dimmed
        /\ bpPage'.awaiting = page.awaiting
        /\ bpPage'.request.view = bpView /\ bpPage'.request.at = next
    BY <1>2, <1>4 DEF Pages
  <1>6. RequestFits(bpPage', bpView)
    BY <1>3, <1>4, <1>5 DEF RequestFits
  <1>7. UrlFits(bpPage', bpView, bpOn) /\ HolderFits(bpPage', bpView, bpCard, bpOn)
    BY <1>5 DEF UrlFits, HolderFits
  <1>8. PageFits(bpPage', bpView', bpCard', bpOn', bpOff')
    BY <1>2, <1>6, <1>7 DEF PageFits
  <1>9. bpPage'.request # NoDrawing
    BY <1>4, <1>5 DEF NoDrawing
  <1>10. PictureTypes' /\ LoadFits' /\ IsSettled(bpPage', bpView')
    BY <1>1, <1>5, <1>9 DEF PictureTypes, LoadFits, IsSettled
  <1>11. QED  BY <1>8, <1>10 DEF PictureInv

(* The last answer: the page it leaves is right.                            *)
LEMMA AnsweredFits ==
  ASSUME PictureInv, IsCurrent, bpPage.request # NoDrawing,
         NEW page \in Pages, bpPage' = CancelPending(page),
         UrlFits(page, bpView, bpOn), HolderFits(page, bpView, bpCard, bpOn),
         AtRestOn(page, bpView), bpOff' \in BOOLEAN,
         UNCHANGED <<bpView, bpCard, bpLoad, bpRenders, bpRefreshes, bpOn>>
  PROVE  PictureInv'
  <1>1. PictureTypes /\ LoadFits /\ PageFits(bpPage, bpView, bpCard, bpOn, bpOff)
    BY DEF PictureInv
  <1>2. /\ bpPage' \in Pages /\ bpPage'.last = page.last /\ bpPage'.url = page.url
        /\ bpPage'.holderUrl = page.holderUrl /\ bpPage'.shown = page.shown
        /\ bpPage'.holder = page.holder /\ bpPage'.request = NoDrawing
        /\ bpPage'.dimmed = {} /\ ~bpPage'.awaiting
    BY Cancelled
  <1>3. NoDrawing.view = NoView /\ NoDrawing.at = "none" /\ ~Armed(NoView)
    BY DEF NoDrawing, NoView, View, Armed
  <1>4. PageFits(bpPage', bpView', bpCard', bpOn', bpOff')
    BY <1>2, <1>3 DEF PageFits, UrlFits, HolderFits, RequestFits
  <1>5. PictureTypes' /\ LoadFits'
    BY <1>1, <1>2 DEF PictureTypes, LoadFits
  <1>6. IsSettled(bpPage', bpView')
    BY <1>2 DEF IsSettled, AtRestOn
  <1>7. QED  BY <1>4, <1>5, <1>6 DEF PictureInv

(* The steps of a request.                                                  *)
RequestSteps ==
  \/ DrawingAccepted \/ DrawingRefused \/ DrawingSwitchedOff \/ DetailRead
  \/ PictureArrives \/ NoPictureArrives \/ PictureLoaded

LEMMA RequestStepsFit ==
  ASSUME PictureInv, RequestSteps
  PROVE  PictureInv'
  <1> DEFINE r == bpPage.request  gone == ApplyImage(bpPage, bpView, NoPicture)
             rest == <<bpView, bpCard, bpLoad, bpRenders, bpRefreshes, bpOn>>
  <1>1. /\ bpPage \in Pages /\ bpView \in Views /\ bpOn \in BOOLEAN /\ bpOff \in BOOLEAN
        /\ UrlFits(bpPage, bpView, bpOn) /\ RequestFits(bpPage, bpView)
        /\ Armed(bpView) /\ ~bpOff => HolderFits(bpPage, bpView, bpCard, bpOn)
        /\ bpOn /\ ~bpOff /\ Armed(bpView) /\ ~DrawingIsDue => IsSettled(bpPage, bpView)
    BY DEF PictureInv, PictureTypes, PageFits
  <1>2. r.at # "none" => r # NoDrawing
    BY DEF NoDrawing
  <1>3. r.at # "none" /\ IsCurrent
          => Armed(bpView) /\ bpOn /\ ~bpOff /\ HolderFits(bpPage, bpView, bpCard, bpOn)
    BY <1>1, <1>2, RequestIsArmed DEF IsCurrent, AskedView
  <1>4. ASSUME r.at # "none", ~IsCurrent, bpPage' = CancelPending(bpPage), UNCHANGED rest,
               bpOff' = bpOff
        PROVE  PictureInv'
    <2>1. bpOn /\ ~bpOff => r.view # bpView
      BY <1>4 DEF IsCurrent, AskedView
    <2>2. ~(bpOn /\ ~bpOff /\ Armed(bpView) /\ ~DrawingIsDue)
      BY <1>1, <1>2, <1>4, <2>1 DEF IsSettled
    <2>3. QED  BY <1>1, <1>2, <1>4, <2>2, GivenUpFits
  <1>5. /\ gone \in Pages /\ gone.last = bpPage.last /\ gone.url = NoPicture
        /\ gone.holderUrl \in GameIcons(bpView) /\ gone.shown \in GameIcons(bpView)
        /\ gone.holder = gone.shown /\ gone.request = r /\ gone.dimmed = {} /\ ~gone.awaiting
    BY <1>1, AppliedIcon
  <1> HIDE DEF gone
  <1>6. /\ UrlFits(gone, bpView, bpOn) /\ HolderFits(gone, bpView, bpCard, bpOn)
        /\ AtRestOn(gone, bpView)
    BY <1>5 DEF UrlFits, HolderFits, AtRestOn
  <1>7. ASSUME NEW at \in Stages \ {"none"}, r.at = at, NEW page, NEW next,
               AnswerRead(at, page, next)
        PROVE  /\ ~IsCurrent /\ bpOff' = bpOff => PictureInv'
               /\ r.at # "none" /\ UNCHANGED rest
               /\ IsCurrent => bpPage' = IF next = "none" THEN CancelPending(page)
                                         ELSE [page EXCEPT !.request.at = next]
    BY <1>4, <1>7 DEF AnswerRead
  <1>8. CASE DrawingAccepted
    <2>1. AnswerRead("answer", bpPage, "body") /\ bpOff' = bpOff /\ r.at = "answer"
      BY <1>8 DEF DrawingAccepted, AnswerRead
    <2>2. CASE IsCurrent
      <3>1. bpPage' = [bpPage EXCEPT !.request.at = "body"] /\ UNCHANGED rest
        BY <1>7, <2>1, <2>2 DEF Stages
      <3>2. QED  BY <1>1, <1>2, <1>3, <2>1, <2>2, <3>1, GoesOnFits
    <2>3. QED  BY <1>7, <2>1, <2>2 DEF Stages
  <1>9. CASE DrawingRefused
    <2>1. PICK next \in {"detail", "none"} : AnswerRead("answer", gone, next)
      BY <1>9 DEF DrawingRefused, gone
    <2>2. bpOff' = bpOff /\ r.at = "answer"
      BY <1>9, <2>1 DEF DrawingRefused, AnswerRead
    <2>3. CASE IsCurrent /\ next = "detail"
      <3>1. bpPage' = [gone EXCEPT !.request.at = "detail"] /\ UNCHANGED rest
        BY <1>7, <2>1, <2>2, <2>3 DEF Stages
      <3>2. QED  BY <1>2, <1>5, <1>6, <2>2, <2>3, <3>1, GoesOnFits
    <2>4. CASE IsCurrent /\ next = "none"
      <3>1. bpPage' = CancelPending(gone) /\ UNCHANGED rest
        BY <1>7, <2>1, <2>2, <2>4 DEF Stages
      <3>2. QED  BY <1>1, <1>2, <1>5, <1>6, <2>2, <2>4, <3>1, AnsweredFits
    <2>5. QED  BY <1>7, <2>1, <2>2, <2>3, <2>4 DEF Stages
  <1>10. CASE DrawingSwitchedOff
    <2>1. AnswerRead("answer", gone, "none") /\ r.at = "answer" /\ bpOff' = (bpOff \/ IsCurrent)
      BY <1>10 DEF DrawingSwitchedOff, AnswerRead, gone
    <2>2. CASE IsCurrent
      <3>1. bpPage' = CancelPending(gone) /\ UNCHANGED rest
        BY <1>7, <2>1, <2>2 DEF Stages
      <3>2. QED  BY <1>1, <1>2, <1>5, <1>6, <2>1, <2>2, <3>1, AnsweredFits
    <2>3. QED  BY <1>1, <1>7, <2>1, <2>2 DEF Stages
  <1>11. CASE DetailRead
    <2>1. AnswerRead("detail", bpPage, "none") /\ bpOff' = bpOff /\ r.at = "detail"
      BY <1>11 DEF DetailRead, AnswerRead
    <2>2. CASE IsCurrent
      <3>1. bpPage' = CancelPending(bpPage) /\ UNCHANGED rest
        BY <1>7, <2>1, <2>2 DEF Stages
      <3>2. AtRestOn(bpPage, bpView)
        <4>1. bpPage.url = NoPicture /\ bpPage.shown \in GameIcons(bpView)
          BY <1>1, <1>3, <2>1, <2>2 DEF RequestFits
        <4>2. QED  BY <1>3, <2>1, <2>2, <4>1 DEF HolderFits, AtRestOn
      <3>3. QED  BY <1>1, <1>2, <1>3, <2>1, <2>2, <3>1, <3>2, AnsweredFits
    <2>3. QED  BY <1>7, <2>1, <2>2 DEF Stages
  <1>12. CASE PictureArrives
    <2> DEFINE page == [ApplyImage(bpPage, bpView, DrawnPicture(AskedView)) EXCEPT !.last = AskedView]
    <2>1. AnswerRead("body", page, "load") /\ bpOff' = bpOff /\ r.at = "body"
      BY <1>12 DEF PictureArrives, AnswerRead
    <2>2. CASE IsCurrent
      <3>1. AskedView = bpView /\ DrawnPicture(bpView) \in Pictures \ {NoPicture}
        BY <1>1, <2>2, PicturesDiffer, PicturesOf DEF IsCurrent
      <3>2. /\ page \in Pages /\ page.last = bpView /\ page.url = DrawnPicture(bpView)
            /\ page.holderUrl = page.url /\ page.shown = page.url /\ page.holder = page.url
            /\ page.request = r /\ page.dimmed = {} /\ page.awaiting = bpPage.awaiting
        BY <1>1, <3>1, AppliedPicture
      <3> HIDE DEF page
      <3>3. bpPage' = [page EXCEPT !.request.at = "load"] /\ UNCHANGED rest
        BY <1>7, <2>1, <2>2 DEF Stages
      <3>4. UrlFits(page, bpView, bpOn) /\ HolderFits(page, bpView, bpCard, bpOn)
        BY <1>3, <2>1, <2>2, <3>1, <3>2 DEF UrlFits, HolderFits
      <3>5. QED  BY <1>2, <2>1, <2>2, <3>1, <3>2, <3>3, <3>4, GoesOnFits
    <2> HIDE DEF page
    <2>3. QED  BY <1>7, <2>1, <2>2 DEF Stages
  <1>13. CASE NoPictureArrives
    <2>1. AnswerRead("body", gone, "none") /\ r.at = "body" /\ bpOff' = bpOff
      BY <1>13 DEF NoPictureArrives, AnswerRead, gone
    <2>2. CASE IsCurrent
      <3>1. bpPage' = CancelPending(gone) /\ UNCHANGED rest
        BY <1>7, <2>1, <2>2 DEF Stages
      <3>2. QED  BY <1>1, <1>2, <1>5, <1>6, <2>1, <2>2, <3>1, AnsweredFits
    <2>3. QED  BY <1>7, <2>1, <2>2 DEF Stages
  <1>14. CASE PictureLoaded
    <2>1. r.at = "load" /\ bpPage' = CancelPending(bpPage) /\ UNCHANGED rest /\ bpOff' = bpOff
      BY <1>14 DEF PictureLoaded
    <2>2. ASSUME bpOn, ~bpOff, Armed(bpView), ~DrawingIsDue
          PROVE  AtRestOn(bpPage, bpView)
      <3>1. r.view = bpView
        BY <1>1, <1>2, <2>1, <2>2 DEF IsSettled
      <3>2. bpPage.last = bpView /\ bpPage.url # NoPicture /\ bpPage.shown = bpPage.url
        BY <1>1, <2>1, <2>2, <3>1 DEF RequestFits, UrlFits
      <3>3. QED  BY <1>1, <2>2, <3>2 DEF HolderFits, AtRestOn
    <2>3. QED  BY <1>1, <1>2, <2>1, <2>2, GivenUpFits
  <1>15. QED
    BY <1>8, <1>9, <1>10, <1>11, <1>12, <1>13, <1>14 DEF RequestSteps

(* Switching the drawing of pictures off and on.                            *)
LEMMA ToggleFits ==
  ASSUME PictureInv, ToggleDrawing
  PROVE  PictureInv'
  <1> DEFINE c == CancelPending(bpPage)  p == Forget(c)
  <1>1. PictureTypes /\ LoadFits /\ PageFits(bpPage, bpView, bpCard, bpOn, bpOff)
    BY DEF PictureInv
  <1>2. ~bpOff /\ bpOn' = ~bpOn
        /\ UNCHANGED <<bpView, bpCard, bpLoad, bpRenders, bpRefreshes, bpOff>>
    BY DEF ToggleDrawing
  <1>3. NoDrawing.view = NoView /\ NoDrawing.at = "none" /\ ~Armed(NoView)
    BY DEF NoDrawing, NoView, View, Armed
  <1>4. CASE bpOn
    <2>1. bpPage' = IF bpView.gun = Unarmed THEN p
                    ELSE [p EXCEPT !.shown = Icon(bpView), !.holder = Icon(bpView)]
      BY <1>4 DEF ToggleDrawing
    <2>2. c \in Pages /\ c.request = NoDrawing /\ c.dimmed = {} /\ ~c.awaiting
      BY <1>1, Cancelled DEF PictureTypes
    <2> HIDE DEF c
    <2>3. /\ p \in Pages /\ p.url = NoPicture /\ p.holderUrl = NoPicture /\ p.request = NoDrawing
          /\ p.dimmed = {} /\ ~p.awaiting
      BY <2>2, Forgotten
    <2> HIDE DEF p
    <2>4. Icon(bpView) \in Pictures /\ Icon(bpView) \in GameIcons(bpView)
      BY <1>1, PicturesOf DEF PictureTypes, GameIcons
    <2>5. /\ bpPage' \in Pages /\ bpPage'.url = NoPicture /\ bpPage'.holderUrl = NoPicture
          /\ bpPage'.request = NoDrawing /\ bpPage'.dimmed = {} /\ ~bpPage'.awaiting
          /\ Armed(bpView) => bpPage'.holder = Icon(bpView)
      BY <2>1, <2>3, <2>4 DEF Pages, Armed
    <2>6. PageFits(bpPage', bpView', bpCard', bpOn', bpOff')
      BY <1>2, <1>3, <1>4, <2>4, <2>5 DEF PageFits, UrlFits, HolderFits, RequestFits
    <2>7. PictureTypes' /\ LoadFits'
      BY <1>1, <1>2, <2>5 DEF PictureTypes, LoadFits
    <2>8. QED  BY <1>2, <1>4, <2>6, <2>7 DEF PictureInv
  <1>5. CASE ~bpOn
    <2>1. PICK complete \in Completeness : bpPage' = ScheduleNow(bpPage, bpView, bpCard, complete)
      BY <1>5 DEF ToggleDrawing
    <2>2. complete \in BOOLEAN /\ bpPage.request = NoDrawing /\ ~bpPage.awaiting
      BY <1>1, <1>5 DEF Completeness, PageFits
    <2>3. CASE Armed(bpView)
      <3>1. /\ UrlFits(bpPage, bpView, FALSE) /\ RequestFits(bpPage, bpView)
            /\ HolderFits(bpPage, bpView, bpCard, FALSE)
        BY <1>1, <1>2, <1>5, <2>3 DEF PageFits, PictureTypes
      <3>2. bpPage.holderUrl \in {NoPicture, bpPage.url} \cup GameIcons(bpView)
        BY <3>1 DEF HolderFits
      <3>3. ReadyFor(bpPage', bpView, bpCard)
        BY <1>1, <1>2, <2>1, <2>2, <2>3, <3>1, <3>2, Scheduled DEF PictureTypes
      <3>4. PageFits(bpPage', bpView', bpCard', bpOn', bpOff')
        BY <1>2, <1>5, <3>3 DEF ReadyFor, PageFits
      <3>5. PictureTypes' /\ LoadFits'
        BY <1>1, <1>2, <3>3 DEF PictureTypes, LoadFits, ReadyFor
      <3>6. QED  BY <1>2, <3>3, <3>4, <3>5 DEF PictureInv, ReadyFor
    <2>4. CASE ~Armed(bpView)
      <3>1. bpPage' = bpPage
        BY <2>1, <2>4 DEF ScheduleNow, Armed
      <3>2. bpPage.url = NoPicture
        BY <1>1, <1>5 DEF PageFits, UrlFits
      <3>3. PageFits(bpPage', bpView', bpCard', bpOn', bpOff')
        BY <1>1, <1>2, <2>2, <2>4, <3>1, <3>2 DEF PageFits, UrlFits
      <3>4. PictureTypes' /\ LoadFits'
        BY <1>1, <1>2, <2>2, <3>1 DEF PictureTypes, LoadFits
      <3>5. QED  BY <1>2, <2>4, <3>3, <3>4 DEF PictureInv
    <2>5. QED  BY <2>3, <2>4
  <1>6. QED  BY <1>4, <1>5

(* Every step keeps the pictures right.                                     *)
LEMMA PictureSteps == PictureInv /\ [BuildPreviewNext]_bpVars => PictureInv'
  <1> SUFFICES ASSUME PictureInv, [BuildPreviewNext]_bpVars PROVE PictureInv'
    OBVIOUS
  <1>1. /\ bpPage \in Pages /\ bpView \in Views /\ bpLoad \in Loads
        /\ bpCard \in Assembled \cup {NoCardFor} /\ bpOn \in BOOLEAN /\ bpOff \in BOOLEAN
        /\ bpRenders \in Nat /\ bpRefreshes \in Nat /\ LoadFits
        /\ PageFits(bpPage, bpView, bpCard, bpOn, bpOff)
    BY DEF PictureInv, PictureTypes
  <1>2. bpRenders + 1 \in Nat /\ bpRefreshes + 1 \in Nat
    BY <1>1
  <1>3. {"bare", "factory"} \subseteq Assembled /\ Unarmed \notin Pictured
    BY BuildPreviewConstants
  <1>4. CASE SelectPictured
    <2>1. PICK g \in Pictured : OpenPictured(g, [NotLoading EXCEPT !.at = "factory"])
      BY <1>4 DEF SelectPictured
    <2> DEFINE load == [NotLoading EXCEPT !.at = "factory"]
    <2>2. load \in Loads /\ load.at = "factory" /\ load.build = "bare"
      BY <1>3 DEF NotLoading, Loads
    <2> HIDE DEF load
    <2>3. QED  BY <2>1, <2>2, OpenedFits DEF load
  <1>5. CASE LoadBuild
    <2>1. PICK g \in Pictured, b \in Assembled, card \in BOOLEAN :
            OpenPictured(g, [at |-> "parts", build |-> b, card |-> card])
      BY <1>5 DEF LoadBuild
    <2> DEFINE load == [at |-> "parts", build |-> b, card |-> card]
    <2>2. load \in Loads /\ load.at = "parts"
      BY DEF Loads
    <2> HIDE DEF load
    <2>3. QED  BY <2>1, <2>2, OpenedFits DEF load
  <1>6. CASE FactoryArrives
    <2>1. /\ bpLoad.at = "factory" /\ bpView' = [bpView EXCEPT !.build = "factory"]
          /\ bpLoad' = NotLoading /\ bpRenders' = bpRenders + 1
          /\ UNCHANGED <<bpCard, bpRefreshes, bpOn, bpOff, bpPage>>
      BY <1>6 DEF FactoryArrives
    <2>2. bpView' \in Views /\ bpView'.gun = bpView.gun
      BY <1>1, <1>3, <2>1 DEF Views
    <2>3. bpLoad' \in Loads /\ bpLoad'.at = "none"
      BY <1>3, <2>1 DEF NotLoading, Loads
    <2>4. bpCard = NoCardFor /\ LoadFits'
      BY <1>1, <2>1, <2>3 DEF LoadFits
    <2>5. DrawingIsDue'
      BY <1>1, <2>1 DEF DrawingIsDue
    <2>6. QED  BY <1>1, <1>2, <2>1, <2>2, <2>3, <2>4, <2>5, PictureKept
  <1>7. CASE FactoryFails
    <2>1. /\ bpLoad.at = "factory" /\ bpLoad' = [bpLoad EXCEPT !.at = "failed"]
          /\ UNCHANGED <<bpView, bpCard, bpRenders, bpRefreshes, bpOn, bpOff, bpPage>>
      BY <1>7 DEF FactoryFails
    <2>2. bpLoad' \in Loads /\ bpLoad'.at = "failed"
      BY <1>1, <2>1 DEF Loads
    <2>3. LoadFits' /\ DrawingIsDue'
      BY <1>1, <2>1, <2>2 DEF LoadFits, DrawingIsDue
    <2>4. QED  BY <1>1, <2>1, <2>2, <2>3, PictureKept
  <1>8. CASE PicturedPartsArrive
    <2>1. PICK b \in {bpLoad.build, "bare"} : bpView' = [bpView EXCEPT !.build = b]
      BY <1>8 DEF PicturedPartsArrive
    <2>2. /\ bpLoad.at = "parts" /\ bpLoad' = [bpLoad EXCEPT !.at = "drawn"]
          /\ bpRenders' = bpRenders + 1
          /\ UNCHANGED <<bpCard, bpRefreshes, bpOn, bpOff, bpPage>>
      BY <1>8 DEF PicturedPartsArrive
    <2>3. b \in Assembled /\ bpView' \in Views /\ bpView'.gun = bpView.gun
      BY <1>1, <1>3, <2>1 DEF Views, Loads
    <2>4. bpLoad' \in Loads /\ bpLoad'.at = "drawn"
      BY <1>1, <2>2 DEF Loads
    <2>5. bpCard = NoCardFor /\ LoadFits'
      BY <1>1, <2>2, <2>3, <2>4 DEF LoadFits, Armed
    <2>6. DrawingIsDue'
      BY <2>4 DEF DrawingIsDue
    <2>7. QED  BY <1>1, <1>2, <2>2, <2>3, <2>4, <2>5, <2>6, PictureKept
  <1>9. CASE LoadRefreshes
    <2>1. /\ bpLoad.at = "drawn" /\ bpLoad' = [bpLoad EXCEPT !.at = "named"]
          /\ bpRefreshes' = bpRefreshes + 1
          /\ UNCHANGED <<bpView, bpCard, bpRenders, bpOn, bpOff, bpPage>>
      BY <1>9 DEF LoadRefreshes
    <2>2. bpLoad' \in Loads /\ bpLoad'.at = "named"
      BY <1>1, <2>1 DEF Loads
    <2>3. LoadFits' /\ DrawingIsDue'
      BY <1>1, <2>1, <2>2 DEF LoadFits, DrawingIsDue
    <2>4. QED  BY <1>1, <1>2, <2>1, <2>2, <2>3, PictureKept
  <1>10. CASE PictureLoadEnds
    <2> DEFINE card == IF bpLoad.card THEN bpLoad.build ELSE NoCardFor
               q == NamePage(bpPage, bpView, card)
    <2>1. /\ bpLoad.at = "named" /\ bpRefreshes = 0 /\ bpCard' = NameCard(bpView, card)
          /\ bpPage' = q /\ bpLoad' = NotLoading
          /\ UNCHANGED <<bpView, bpRenders, bpRefreshes, bpOn, bpOff>>
      BY <1>10 DEF PictureLoadEnds
    <2>2. card \in Assembled \cup {NoCardFor} /\ bpCard = NoCardFor /\ Armed(bpView)
      BY <1>1, <2>1 DEF Loads, LoadFits
    <2>3. bpPage.awaiting => bpPage.request # NoDrawing
      BY <1>1, <2>1 DEF LoadFits
    <2> HIDE DEF card
    <2>4. /\ q \in Pages /\ PageFits(q, bpView, NameCard(bpView, card), bpOn, bpOff)
          /\ q.awaiting => q.request # NoDrawing \/ (bpPage.awaiting /\ q.request = bpPage.request)
          /\ bpOn /\ ~bpOff /\ IsSettled(bpPage, bpView) => IsSettled(q, bpView)
          /\ NameCard(bpView, card) \in Assembled \cup {NoCardFor}
      BY <1>1, <2>2, NamedFits
    <2> HIDE DEF q
    <2>5. NotLoading \in Loads /\ NotLoading.at = "none"
      BY <1>3 DEF NotLoading, Loads
    <2>6. PictureTypes'
      BY <1>1, <2>1, <2>4, <2>5 DEF PictureTypes
    <2>7. LoadFits'
      BY <2>1, <2>3, <2>4, <2>5 DEF LoadFits
    <2>8. ~DrawingIsDue' => ~DrawingIsDue
      BY <2>1 DEF DrawingIsDue
    <2>9. bpOn' /\ ~bpOff' /\ Armed(bpView') /\ ~DrawingIsDue' => IsSettled(bpPage', bpView')
      BY <2>1, <2>4, <2>8 DEF PictureInv
    <2>10. QED  BY <2>1, <2>4, <2>6, <2>7, <2>9 DEF PictureInv
  <1>11. CASE LeavePictured
    <2>1. /\ bpLoad.at \in {"none", "failed"} /\ bpView' = [bpView EXCEPT !.gun = Unarmed]
          /\ bpLoad' = NotLoading /\ UNCHANGED <<bpCard, bpRenders, bpRefreshes, bpOn, bpOff, bpPage>>
      BY <1>11 DEF LeavePictured
    <2>2. bpView' \in Views /\ ~Armed(bpView')
      BY <1>1, <2>1 DEF Views, Armed
    <2>3. NotLoading \in Loads /\ NotLoading.at = "none"
      BY <1>3 DEF NotLoading, Loads
    <2>4. LoadFits'
      BY <1>1, <2>1, <2>3 DEF LoadFits
    <2>5. PageFits(bpPage, bpView', bpCard, bpOn, bpOff)
      BY <1>1, <2>2 DEF PageFits, UrlFits, RequestFits
    <2>6. PictureTypes'
      BY <1>1, <2>1, <2>2, <2>3 DEF PictureTypes
    <2>7. QED  BY <2>1, <2>2, <2>4, <2>5, <2>6 DEF PictureInv
  <1>12. CASE EditPictured
    <2>1. PICK b \in Assembled : BuildChanges([bpView EXCEPT !.build = b])
      BY <1>12 DEF EditPictured
    <2>2. bpView.gun # Unarmed /\ bpRenders' = bpRenders + 1
      BY <1>12 DEF EditPictured
    <2> DEFINE v == [bpView EXCEPT !.build = b]
    <2>3. v \in Views /\ v.gun = bpView.gun /\ Armed(v)
      BY <1>1, <2>2 DEF Views, Armed
    <2> HIDE DEF v
    <2>4. QED  BY <1>2, <2>1, <2>2, <2>3, ChangedFits DEF v
  <1>13. CASE ChangeRounds
    <2>1. PICK r \in Magazines : BuildChanges([bpView EXCEPT !.rounds = r])
      BY <1>13 DEF ChangeRounds
    <2>2. bpView.gun # Unarmed /\ bpRenders' = bpRenders
      BY <1>13 DEF ChangeRounds
    <2> DEFINE v == [bpView EXCEPT !.rounds = r]
    <2>3. v \in Views /\ v.gun = bpView.gun /\ Armed(v)
      BY <1>1, <2>2 DEF Views, Armed
    <2> HIDE DEF v
    <2>4. QED  BY <1>1, <2>1, <2>2, <2>3, ChangedFits DEF v
  <1>14. ASSUME Completeness \subseteq BOOLEAN PROVE RefreshGoesOn => PictureInv'
    <2> SUFFICES ASSUME RefreshGoesOn PROVE PictureInv'
      OBVIOUS
    <2>1. PICK complete \in Completeness :
            bpPage' = SchedulePicture(bpPage, bpView, bpCard, complete)
      BY DEF RefreshGoesOn
    <2>2. /\ bpRefreshes > 0 /\ bpRefreshes' = bpRefreshes - 1
          /\ UNCHANGED <<bpView, bpCard, bpLoad, bpRenders, bpOn, bpOff>>
      BY DEF RefreshGoesOn
    <2>3. QED  BY <1>1, <1>14, <2>1, <2>2, SchedulingFits
  <1>15. CASE Redraw
    <2>1. /\ bpRenders' = bpRenders + 1
          /\ UNCHANGED <<bpView, bpCard, bpLoad, bpRefreshes, bpOn, bpOff, bpPage>>
      BY <1>15 DEF Redraw
    <2>2. LoadFits' /\ DrawingIsDue'
      BY <1>1, <2>1 DEF LoadFits, DrawingIsDue
    <2>3. QED  BY <1>1, <1>2, <2>1, <2>2, PictureKept
  <1>16. ASSUME Completeness \subseteq BOOLEAN PROVE RenderEnds => PictureInv'
    <2> SUFFICES ASSUME RenderEnds PROVE PictureInv'
      OBVIOUS
    <2> DEFINE p == IF bpView.gun = Unarmed THEN bpPage ELSE Restamp(bpPage, bpView)
    <2>1. PICK complete \in Completeness :
            bpPage' = IF bpView.gun = Unarmed THEN bpPage
                      ELSE SchedulePicture(Restamp(bpPage, bpView), bpView, bpCard, complete)
      BY DEF RenderEnds
    <2>2. /\ bpRenders > 0 /\ bpRenders' = bpRenders - 1
          /\ UNCHANGED <<bpView, bpCard, bpLoad, bpRefreshes, bpOn, bpOff>>
      BY DEF RenderEnds
    <2>3. bpPage' = SchedulePicture(p, bpView, bpCard, complete)
      BY <2>1 DEF SchedulePicture, ScheduleNow
    <2>4. /\ p \in Pages /\ PageFits(p, bpView, bpCard, bpOn, bpOff)
          /\ p.awaiting = bpPage.awaiting /\ p.request = bpPage.request
          /\ Armed(bpView) \/ p = bpPage
      <3>1. CASE Armed(bpView)
        BY <1>1, <3>1, RestampFits DEF Armed
      <3>2. CASE ~Armed(bpView)
        BY <1>1, <3>2 DEF Armed
      <3>3. QED  BY <3>1, <3>2
    <2> HIDE DEF p
    <2>5. QED  BY <1>1, <1>16, <2>2, <2>3, <2>4, SchedulingFits
  <1>17. CASE RequestSteps
    BY <1>17, RequestStepsFit
  <1>18. CASE ToggleDrawing
    BY <1>18, ToggleFits
  <1>19. CASE StatusArrives
    <2>1. PICK off \in {TRUE, bpOff} :
            bpOff' = off /\ bpPage' = IF off THEN CancelPending(bpPage) ELSE bpPage
      BY <1>19 DEF StatusArrives
    <2>2. UNCHANGED <<bpView, bpCard, bpLoad, bpRenders, bpRefreshes, bpOn>>
      BY <1>19 DEF StatusArrives
    <2>3. CASE off /\ bpPage.request # NoDrawing
      BY <1>1, <2>1, <2>2, <2>3, GivenUpFits
    <2>4. CASE off /\ bpPage.request = NoDrawing
      <3>1. /\ bpPage' \in Pages /\ bpPage'.last = bpPage.last /\ bpPage'.url = bpPage.url
            /\ bpPage'.shown = bpPage.shown /\ bpPage'.request = NoDrawing
            /\ bpPage'.dimmed = {} /\ ~bpPage'.awaiting
        BY <1>1, <2>1, <2>4, Cancelled
      <3>2. PageFits(bpPage', bpView', bpCard', bpOn', bpOff')
        BY <1>1, <2>1, <2>2, <2>4, <3>1 DEF PageFits, UrlFits, RequestFits
      <3>3. PictureTypes' /\ LoadFits'
        BY <1>1, <2>1, <2>2, <2>4, <3>1 DEF PictureTypes, LoadFits
      <3>4. QED  BY <2>1, <2>4, <3>2, <3>3 DEF PictureInv
    <2>5. CASE ~off
      <3>1. bpOff' = bpOff /\ bpPage' = bpPage
        BY <1>1, <2>1, <2>5
      <3>2. QED
        BY <2>2, <3>1 DEF PictureInv, PictureTypes, LoadFits, DrawingIsDue
    <2>6. QED  BY <2>3, <2>4, <2>5
  <1>20. CASE UNCHANGED bpVars
    BY <1>20 DEF bpVars, PictureInv, PictureTypes, LoadFits, DrawingIsDue
  <1>21. Completeness \subseteq BOOLEAN
    BY DEF Completeness
  <1>22. QED
    BY <1>4, <1>5, <1>6, <1>7, <1>8, <1>9, <1>10, <1>11, <1>12, <1>13, <1>14, <1>15, <1>16,
       <1>17, <1>18, <1>19, <1>20, <1>21
       DEF BuildPreviewNext, RequestSteps

--------------------------------------------------------------------------------
(* GridLayout, for any build, however its slots are named and overridden.    *)
GridLayoutSpec == GridLayoutInit /\ [][GridLayoutNext]_glVars

GridCells == Int \X Int
GridSlots == [name : GridNames, parent : Nat, installed : BOOLEAN]

GridTypes ==
  /\ glNames \subseteq GridNames /\ glReserved \subseteq FixedCells
  /\ glSlots \in Seq(GridSlots) /\ glCells \in Seq(GridCells) /\ glAnchors \in Seq(GridCells)
  /\ Len(glCells) = Len(glSlots) /\ Len(glAnchors) = Len(glSlots)
  /\ glTactical \in Nat /\ glStockRow \in Nat \ {0} /\ glBottomLeft \in Int
  /\ glDeferred \in Seq([slot : Nat, cell : FlexibleCells])
  /\ \A k \in DOMAIN glDeferred : glDeferred[k].slot \in DOMAIN glCells

(* A cell on the gun is one that an override above the gun came down to.     *)
MayBeOnGun(c) == c \in GunCells => \E cell \in FlexibleCells : cell[1] = c[1] /\ cell[2] < 0

CellsFitIn(cells, occupied) ==
  /\ \A i \in DOMAIN cells : cells[i] # Extras => cells[i] \in occupied /\ MayBeOnGun(cells[i])
  /\ \A i, j \in DOMAIN cells : cells[i] # Extras /\ cells[i] = cells[j] => i = j

(* What is given away is taken: the reserved cells from the start, every     *)
(* other one when it is given.                                               *)
GridInv == GridTypes /\ glReserved \subseteq glOccupied /\ CellsFitIn(glCells, glOccupied)

(* A cell that may be given, by a rule and by an override.                   *)
MayBeGiven(c) == c = Extras \/ (c \in GridCells /\ c \notin glOccupied)
MayBePlaced(c) == c = Extras \/ (c \in GridCells /\ c \notin glOccupied /\ c \notin GunCells)

LEMMA CellAdded ==
  ASSUME NEW cells \in Seq(GridCells), NEW occupied, NEW more, occupied \subseteq more,
         CellsFitIn(cells, occupied), NEW c \in GridCells,
         c = Extras \/ (c \in more /\ MayBeOnGun(c) /\ \A i \in DOMAIN cells : cells[i] # c)
  PROVE  CellsFitIn(Append(cells, c), more) /\ Append(cells, c) \in Seq(GridCells)
         /\ Len(Append(cells, c)) = Len(cells) + 1
  <1> DEFINE t == Append(cells, c)
             n == Len(cells)
  <1>1. /\ t \in Seq(GridCells) /\ Len(t) = n + 1 /\ n \in Nat /\ DOMAIN t = 1..(n + 1) /\ DOMAIN cells = 1 .. n
        /\ \A j \in 1 .. n : t[j] = cells[j]
        /\ t[n + 1] = c
    BY AppendLast
  <1> HIDE DEF t, n
  <1>2. \A i \in DOMAIN t : i \in DOMAIN cells \/ i = n + 1
    BY <1>1
  <1>3. QED  BY <1>1, <1>2 DEF CellsFitIn, t, n

WithCell(cells, k, c) == [cells EXCEPT ![k] = c]

LEMMA CellMoved ==
  ASSUME NEW cells \in Seq(GridCells), NEW occupied, NEW more, occupied \subseteq more,
         CellsFitIn(cells, occupied), NEW c \in GridCells, NEW k \in DOMAIN cells,
         c = Extras \/ (c \in more /\ MayBeOnGun(c) /\ \A i \in DOMAIN cells : cells[i] # c)
  PROVE  CellsFitIn(WithCell(cells, k, c), more) /\ WithCell(cells, k, c) \in Seq(GridCells)
         /\ Len(WithCell(cells, k, c)) = Len(cells)
  <1> DEFINE t == WithCell(cells, k, c)
  <1>1. /\ t \in Seq(GridCells) /\ Len(t) = Len(cells) /\ DOMAIN t = DOMAIN cells /\ t[k] = c
        /\ \A j \in DOMAIN cells : j # k => t[j] = cells[j]
    BY DEF WithCell
  <1> HIDE DEF t
  <1>2. CellsFitIn(t, more)
    BY <1>1 DEF CellsFitIn
  <1>3. QED  BY <1>1, <1>2 DEF t

(* The first free cell is one of those that were looked at.                  *)
LEMMA FirstFreeIs ==
  ASSUME NEW n \in Nat, NEW cells, DOMAIN cells = 1 .. n
  PROVE  \/ FirstFree(cells) = Extras
         \/ FirstFree(cells) \notin glOccupied /\ \E i \in 1 .. n : FirstFree(cells) = cells[i]
  <1> DEFINE free == {i \in 1 .. n : cells[i] \notin glOccupied}
             First(i) == cells[i] \notin glOccupied /\ \A j \in 1..(i - 1) : cells[j] \in glOccupied
  <1>1. CASE free = {}
    BY <1>1 DEF FirstFree
  <1>2. CASE free # {}
    <2>1. free \subseteq Nat
      OBVIOUS
    <2>2. PICK i \in free : \A j \in free : i <= j
      <3> HIDE DEF free
      <3>1. QED  BY <1>2, <2>1, LeastNumber
    <2>3. First(i) /\ i \in DOMAIN cells
      <3>1. ASSUME NEW j \in 1..(i - 1) PROVE cells[j] \in glOccupied
        <4>1. j \in 1 .. n /\ ~(i <= j)
          OBVIOUS
        <4>2. QED  BY <4>1, <2>2
      <3>2. QED  BY <3>1, <2>2
    <2> DEFINE k == CHOOSE l \in DOMAIN cells : First(l)
    <2>4. k \in DOMAIN cells /\ First(k)
      <3> HIDE DEF First
      <3>1. QED  BY <2>3
    <2>5. FirstFree(cells) = cells[k]
      BY <1>2 DEF FirstFree
    <2> HIDE DEF k
    <2>6. QED  BY <2>4, <2>5
  <1>3. QED  BY <1>1, <1>2

LEMMA CellsOfRows ==
  /\ Extras \in GridCells /\ Extras \notin GunCells
  /\ \A col, row \in Int : <<col, row>> \in GridCells
  /\ \A col \in Int, row \in Int : <<col, row>> \in GunCells <=> row = 0 /\ col \in 7 .. 9
  BY DEF Extras, GridCells, GunCells, GunCol

LEMMA CellAtIs ==
  ASSUME NEW col \in Int, NEW row \in Int, row # 0 \/ col \notin 7 .. 9
  PROVE  MayBePlaced(CellAt(col, row))
  BY CellsOfRows DEF MayBePlaced, CellAt

LEMMA UpIs ==
  ASSUME NEW col \in Int, NEW row \in Int, row < 0
  PROVE  MayBePlaced(Up(col, row))
  <1> DEFINE n == Reach + 1
             cells == [i \in 1 .. n |-> <<col, row - i + 1>>]
  <1>1. n \in Nat /\ DOMAIN cells = 1 .. n
    BY DEF Reach
  <1>2. \A i \in 1 .. n : row - i + 1 \in Int /\ row - i + 1 # 0
    BY <1>1
  <1>3. \A i \in 1 .. n : cells[i] \in GridCells /\ cells[i] \notin GunCells
    BY <1>2, CellsOfRows
  <1>4. Up(col, row) = FirstFree(cells)
    BY DEF Up
  <1> HIDE DEF n, cells
  <1>5. QED  BY <1>1, <1>3, <1>4, FirstFreeIs DEF MayBePlaced

LEMMA DownIs ==
  ASSUME NEW col \in Int, NEW row \in Int
  PROVE  /\ MayBeGiven(Down(col, row))
         /\ Down(col, row) \in GunCells => row <= 0 /\ col \in 7 .. 9 /\ Down(col, row)[1] = col
         /\ 0 < row => MayBePlaced(Down(col, row))
  <1> DEFINE n == Reach + 1
             cells == [i \in 1 .. n |-> <<col, row + i - 1>>]
  <1>1. n \in Nat /\ DOMAIN cells = 1 .. n
    BY DEF Reach
  <1>2. \A i \in 1 .. n : row + i - 1 \in Int /\ (row + i - 1 = 0 => row <= 0)
    BY <1>1
  <1>3. \A i \in 1 .. n : cells[i] \in GridCells /\ cells[i][1] = col /\ (cells[i] \in GunCells => row <= 0 /\ col \in 7 .. 9)
    BY <1>2, CellsOfRows
  <1>4. Down(col, row) = FirstFree(cells)
    BY DEF Down
  <1> HIDE DEF n, cells
  <1>5. Down(col, row) = Extras \/ (Down(col, row) \notin glOccupied /\ \E i \in 1 .. n : Down(col, row) = cells[i])
    BY <1>1, <1>4, FirstFreeIs
  <1>6. QED  BY <1>3, <1>5, CellsOfRows DEF MayBeGiven, MayBePlaced

LEMMA DiagonalIs ==
  ASSUME NEW col \in Int
  PROVE  MayBePlaced(DiagonalDown(col))
  <1> DEFINE Free == {c \in GridCells : c \notin GunCells}
             below == [i \in 1 .. 20 |-> <<IF i % 2 = 1 THEN col - 1 ELSE col + 1, (i + 1) \div 2>>]
             I == {i \in DOMAIN below : below[i][1] \in 1..(GunCol - 1)}
             cells == ElementsAt(below, I)
             n == Len(cells)
  <1>1. \A i \in 1 .. 20 : (i + 1) \div 2 \in Int /\ (i + 1) \div 2 # 0
    OBVIOUS
  <1>2. \A i \in 1 .. 20 : below[i] \in Free
    <2> SUFFICES ASSUME NEW i \in 1 .. 20 PROVE below[i] \in Free
      OBVIOUS
    <2> DEFINE c == IF i % 2 = 1 THEN col - 1 ELSE col + 1
               d == (i + 1) \div 2
    <2>1. c \in Int /\ d \in Int /\ d # 0
      BY <1>1
    <2>2. below[i] = <<c, d>>
      OBVIOUS
    <2> HIDE DEF c, d, below
    <2>3. QED  BY <2>1, <2>2, CellsOfRows
  <1>3. below \in Seq(Free)
    <2> HIDE DEF Free
    <2>1. QED  BY <1>2
  <1>4. DiagonalDown(col) = FirstFree(cells)
    BY DEF DiagonalDown
  <1> HIDE DEF Free, below, I
  <1>5. cells \in Seq(Free)
    BY <1>3, ElementsAtHas
  <1> HIDE DEF cells
  <1>6. n \in Nat /\ DOMAIN cells = 1 .. n /\ \A i \in 1 .. n : cells[i] \in Free
    BY <1>5
  <1> HIDE DEF n
  <1>7. QED  BY <1>4, <1>6, FirstFreeIs DEF MayBePlaced, Free

(* The left of the gun.                                                      *)
LeftNames == {"Receiver", "Handguard", "Catch", "Barrel", "Gas Block", "Muzzle"}
LEMMA LeftOrderIs == LeftOrder \in Seq(LeftNames) /\ 6 \in DOMAIN LeftOrder /\ LeftOrder[6] = "Muzzle"
  <1>1. LeftOrder \in Seq(LeftNames)
    BY DEF LeftOrder, LeftNames
  <1>2. DOMAIN LeftOrder = 1 .. 6 /\ LeftOrder[6] = "Muzzle"
    BY DEF LeftOrder
  <1>3. QED  BY <1>1, <1>2

LEMMA LeftColumns ==
  ASSUME NEW name, name \in {LeftQueue[i] : i \in DOMAIN LeftQueue}
  PROVE  LeftCol(name) \in Int /\ LeftCol(name) < 7
  <1> DEFINE I == {i \in DOMAIN LeftOrder : LeftOrder[i] \in glNames}
             k == CHOOSE i \in DOMAIN LeftQueue : LeftQueue[i] = name
  <1>1. LeftOrder \in Seq(LeftNames)
    BY LeftOrderIs
  <1>2. LeftQueue \in Seq(LeftNames)
    BY <1>1, ElementsAtHas DEF LeftQueue
  <1>3. k \in DOMAIN LeftQueue
    OBVIOUS
  <1>4. LeftCol(name) = 7 - k
    BY DEF LeftCol, GunCol
  <1> HIDE DEF k
  <1>5. k \in Nat /\ 1 <= k
    BY <1>2, <1>3
  <1>6. QED  BY <1>4, <1>5

LEMMA MuzzleIsLeft == MuzzleCol \in Int
  <1> DEFINE I == {i \in DOMAIN LeftOrder : LeftOrder[i] \in glNames}
  <1>1. LeftOrder \in Seq(LeftNames) /\ 6 \in DOMAIN LeftOrder /\ LeftOrder[6] = "Muzzle"
    BY LeftOrderIs
  <1>2. LeftQueue \in Seq(LeftNames) /\ Len(LeftQueue) \in Nat
    BY <1>1, ElementsAtHas DEF LeftQueue
  <1>3. CASE "Muzzle" \in glNames
    <2>1. 6 \in I \cap DOMAIN LeftOrder
      BY <1>1, <1>3
    <2>5. LeftQueue = ElementsAt(LeftOrder, I)
      BY DEF LeftQueue
    <2> HIDE DEF I
    <2>2. \E i \in DOMAIN LeftQueue : LeftQueue[i] = LeftOrder[6]
      BY <1>1, <2>1, <2>5, ElementsAtHas
    <2>3. LeftCol("Muzzle") \in Int
      BY <1>1, <2>2, LeftColumns
    <2>4. QED  BY <1>3, <2>3 DEF MuzzleCol
  <1>4. CASE "Muzzle" \notin glNames
    <2> DEFINE o == GunCol - Len(LeftQueue)
    <2>1. o \in Int /\ GunCol - 1 \in Int
      BY <1>2 DEF GunCol
    <2>2. CASE LeftQueue # <<>>
      <3>1. MuzzleCol = IF o > 2 THEN o - 1 ELSE 1
        BY <1>4, <2>2 DEF MuzzleCol
      <3> HIDE DEF o
      <3>2. QED  BY <2>1, <3>1
    <2>3. CASE LeftQueue = <<>>
      BY <1>4, <2>1, <2>3 DEF MuzzleCol
    <2>4. QED  BY <2>2, <2>3
  <1>5. QED  BY <1>3, <1>4

(* Which rules there are, and what a rule by a name is for.                  *)
GridRules == {"extras", "left", "handle", "under stock", "stock", "tactical", "top", "bottom",
              "bottom left", "front sight", "parent"}
LEMMA RulesAre ==
  ASSUME NEW name, NEW parentName, NEW ofGun
  PROVE  /\ RuleOf(name, parentName, ofGun) \in GridRules
         /\ RuleOf(name, parentName, ofGun) = "top" => name \in DOMAIN TopCol
         /\ RuleOf(name, parentName, ofGun) = "bottom" => name \in DOMAIN BottomCol
  BY DEF RuleOf, GridRules

LEMMA LeftPlaceIs ==
  ASSUME NEW name
  PROVE  MayBePlaced(LeftPlace(name))
  <1>1. CASE name \in {LeftQueue[i] : i \in DOMAIN LeftQueue}
    <2>1. LeftPlace(name) = CellAt(LeftCol(name), 0) /\ LeftCol(name) \in Int /\ LeftCol(name) < 7
      BY <1>1, LeftColumns DEF LeftPlace
    <2>2. QED  BY <2>1, CellAtIs
  <1>2. CASE ~(name \in {LeftQueue[i] : i \in DOMAIN LeftQueue})
    BY <1>2 DEF LeftPlace, MayBePlaced
  <1>3. QED  BY <1>1, <1>2

LEMMA FromParentIs ==
  ASSUME NEW name, NEW anchor \in GridCells
  PROVE  MayBePlaced(FromParent(name, anchor))
  <1>1. anchor[1] \in Int /\ anchor[2] \in Int /\ anchor[2] - 1 \in Int /\ anchor[2] + 1 \in Int
    BY DEF GridCells
  <1>2. CASE anchor = Extras
    BY <1>2 DEF FromParent, MayBePlaced
  <1>3. CASE anchor # Extras /\ anchor[2] < 0
    <2>1. FromParent(name, anchor) = Up(anchor[1], anchor[2] - 1) /\ anchor[2] - 1 < 0
      BY <1>1, <1>3 DEF FromParent
    <2>2. QED  BY <1>1, <2>1, UpIs
  <1>4. CASE anchor # Extras /\ anchor[2] > 0
    <2>1. FromParent(name, anchor) = Down(anchor[1], anchor[2] + 1) /\ 0 < anchor[2] + 1
      BY <1>1, <1>4 DEF FromParent
    <2>2. QED  BY <1>1, <2>1, DownIs
  <1>5. CASE anchor # Extras /\ anchor[2] = 0
    <2>1. FromParent(name, anchor) \in {DiagonalDown(anchor[1]), Up(anchor[1], -1), Down(anchor[1], 1)}
      BY <1>1, <1>5 DEF FromParent
    <2>2. MayBePlaced(Up(anchor[1], -1))
      BY <1>1, UpIs
    <2>3. MayBePlaced(Down(anchor[1], 1))
      BY <1>1, DownIs
    <2>4. MayBePlaced(DiagonalDown(anchor[1]))
      BY <1>1, DiagonalIs
    <2>5. QED  BY <2>1, <2>2, <2>3, <2>4
  <1>6. QED  BY <1>1, <1>2, <1>3, <1>4, <1>5

(* No rule gives away a cell that is taken, or one of the gun.               *)
LEMMA RulesPlace ==
  ASSUME GridTypes, NEW name, NEW parentName, NEW ofGun, NEW anchor \in GridCells
  PROVE  MayBePlaced(CellBy(RuleOf(name, parentName, ofGun), name, anchor))
  <1> DEFINE rule == RuleOf(name, parentName, ofGun)
             cell == CellBy(rule, name, anchor)
  <1>1. rule \in GridRules /\ (rule = "top" => name \in DOMAIN TopCol) /\ (rule = "bottom" => name \in DOMAIN BottomCol)
    BY RulesAre
  <1> SUFFICES MayBePlaced(cell)
    OBVIOUS
  <1> HIDE DEF rule
  <1>2. CASE rule = "extras"
    BY <1>2 DEF CellBy, MayBePlaced
  <1>3. CASE rule = "left"
    <2>1. cell = LeftPlace(name)
      BY <1>3 DEF CellBy
    <2>2. QED  BY <2>1, LeftPlaceIs
  <1>4. CASE rule = "handle"
    <2>1. cell \in {CellAt(glBottomLeft, 1), CellAt(StockCol, -1)}
      BY <1>4 DEF CellBy
    <2>2. MayBePlaced(CellAt(glBottomLeft, 1)) /\ MayBePlaced(CellAt(StockCol, -1))
      BY CellAtIs DEF GridTypes, StockCol
    <2>3. QED  BY <2>1, <2>2
  <1>5. CASE rule = "under stock"
    <2>1. cell = CellAt(StockCol, glStockRow)
      BY <1>5 DEF CellBy
    <2>2. MayBePlaced(CellAt(StockCol, glStockRow))
      BY CellAtIs DEF GridTypes, StockCol
    <2>3. QED  BY <2>1, <2>2
  <1>6. CASE rule = "stock"
    <2>1. cell = CellAt(StockCol, 0)
      BY <1>6 DEF CellBy
    <2>2. MayBePlaced(CellAt(StockCol, 0))
      <3>1. StockCol \in Int /\ StockCol \notin 7 .. 9
        BY DEF StockCol
      <3>2. QED  BY <3>1, CellAtIs
    <2>3. QED  BY <2>1, <2>2
  <1>7. CASE rule = "tactical"
    <2> DEFINE row == -(glTactical + 1)
    <2>1. cell = CellAt(GunCol, row)
      BY <1>7 DEF CellBy
    <2>2. row \in Int /\ row # 0
      BY DEF GridTypes
    <2> HIDE DEF row
    <2>3. MayBePlaced(CellAt(GunCol, row))
      BY <2>2, CellAtIs DEF GunCol
    <2>4. QED  BY <2>1, <2>3
  <1>8. CASE rule = "top"
    <2>1. cell = Up(TopCol[name], -1)
      BY <1>8 DEF CellBy
    <2>2. TopCol[name] \in Int
      <3>1. DOMAIN TopCol = {"Scope", "Mount", "Rear Sight"} /\ \A n \in {"Scope", "Mount", "Rear Sight"} : TopCol[n] \in {8, 9}
        BY DEF TopCol, GunCol
      <3>2. name \in {"Scope", "Mount", "Rear Sight"}
        BY <3>1, <1>1, <1>8
      <3>3. TopCol[name] \in {8, 9}
        BY <3>1, <3>2
      <3>4. {8, 9} \subseteq Int
        OBVIOUS
      <3>5. QED  BY <3>3, <3>4
    <2>3. QED  BY <2>1, <2>2, UpIs
  <1>9. CASE rule = "bottom"
    <2>1. cell = Down(BottomCol[name], 1)
      BY <1>9 DEF CellBy
    <2>2. BottomCol[name] \in Int
      <3>1. DOMAIN BottomCol = {"Magazine", "Pistol Grip"} /\ \A n \in {"Magazine", "Pistol Grip"} : BottomCol[n] \in {8, 9}
        BY DEF BottomCol, GunCol
      <3>2. name \in {"Magazine", "Pistol Grip"}
        BY <3>1, <1>1, <1>9
      <3>3. BottomCol[name] \in {8, 9}
        BY <3>1, <3>2
      <3>4. {8, 9} \subseteq Int
        OBVIOUS
      <3>5. QED  BY <3>3, <3>4
    <2>3. QED  BY <2>1, <2>2, DownIs
  <1>10. CASE rule = "bottom left"
    <2>1. cell = CellAt(glBottomLeft, 1)
      BY <1>10 DEF CellBy
    <2>2. QED  BY <2>1, CellAtIs DEF GridTypes
  <1>11. CASE rule = "front sight"
    <2>1. cell = CellAt(MuzzleCol, -1)
      BY <1>11 DEF CellBy
    <2>2. QED  BY <2>1, MuzzleIsLeft, CellAtIs
  <1>12. CASE rule = "parent"
    <2>1. cell = FromParent(name, anchor)
      BY <1>12 DEF CellBy
    <2>2. QED  BY <2>1, FromParentIs
  <1> HIDE DEF cell
  <1>13. QED
    BY <1>1, <1>2, <1>3, <1>4, <1>5, <1>6, <1>7, <1>8, <1>9, <1>10, <1>11, <1>12 DEF GridRules

(* A slot that is added: its cell is nobody else's.                          *)
LEMMA SlotAdded ==
  ASSUME GridInv, NEW name \in glNames, NEW parent \in 0..Len(glSlots), NEW installed \in BOOLEAN,
         NEW cell \in GridCells, NEW anchor \in GridCells, AddSlot(name, parent, installed, cell, anchor),
         glOccupied \subseteq glOccupied',
         cell = Extras \/ (cell \in glOccupied' /\ MayBeOnGun(cell) /\ \A i \in DOMAIN glCells : glCells[i] # cell),
         glTactical' \in Nat, glStockRow' \in Nat \ {0}, glBottomLeft' \in Int,
         glDeferred' \in Seq([slot : Nat, cell : FlexibleCells]),
         \A k \in DOMAIN glDeferred' : glDeferred'[k].slot \in 1..(Len(glSlots) + 1)
  PROVE  GridInv'
  <1>1. /\ glSlots' = Append(glSlots, [name |-> name, parent |-> parent, installed |-> installed])
        /\ glCells' = Append(glCells, cell)
        /\ glAnchors' = Append(glAnchors, IF installed THEN anchor ELSE Extras)
        /\ UNCHANGED <<glNames, glReserved>>
    BY DEF AddSlot
  <1>2. /\ glSlots \in Seq(GridSlots) /\ glCells \in Seq(GridCells) /\ glAnchors \in Seq(GridCells)
        /\ Len(glCells) = Len(glSlots) /\ Len(glAnchors) = Len(glSlots) /\ glNames \subseteq GridNames
        /\ glReserved \subseteq FixedCells
    BY DEF GridInv, GridTypes
  <1>3. [name |-> name, parent |-> parent, installed |-> installed] \in GridSlots
    BY <1>2 DEF GridSlots
  <1>4. glSlots' \in Seq(GridSlots) /\ Len(glSlots') = Len(glSlots) + 1
    BY <1>1, <1>2, <1>3, AppendLast
  <1>5. glAnchors' \in Seq(GridCells) /\ Len(glAnchors') = Len(glAnchors) + 1
    <2> DEFINE a == IF installed THEN anchor ELSE Extras
    <2>1. a \in GridCells
      BY CellsOfRows
    <2> HIDE DEF a
    <2>2. glAnchors' = Append(glAnchors, a)
      BY <1>1 DEF a
    <2>3. QED  BY <1>2, <2>1, <2>2, AppendLast
  <1>6. CellsFitIn(glCells', glOccupied') /\ glCells' \in Seq(GridCells) /\ Len(glCells') = Len(glCells) + 1
    <2>1. CellsFitIn(glCells, glOccupied)
      BY DEF GridInv
    <2> DEFINE more == glOccupied'
    <2> HIDE DEF more
    <2>2. glOccupied \subseteq more
          /\ (cell = Extras \/ (cell \in more /\ MayBeOnGun(cell) /\ \A i \in DOMAIN glCells : glCells[i] # cell))
      BY DEF more
    <2>3. CellsFitIn(Append(glCells, cell), more) /\ Append(glCells, cell) \in Seq(GridCells)
          /\ Len(Append(glCells, cell)) = Len(glCells) + 1
      BY <1>2, <2>1, <2>2, CellAdded
    <2>4. QED  BY <1>1, <2>3 DEF more
  <1>7. DOMAIN glCells' = 1..(Len(glSlots) + 1)
    BY <1>2, <1>6
  <1>8. GridTypes'
    BY <1>1, <1>2, <1>4, <1>5, <1>6, <1>7 DEF GridTypes
  <1>9. QED  BY <1>1, <1>6, <1>8 DEF GridInv

LEMMA GridSteps == GridInv /\ [GridLayoutNext]_glVars => GridInv'
  <1> SUFFICES ASSUME GridInv, [GridLayoutNext]_glVars PROVE GridInv'
    OBVIOUS
  <1>1. /\ GridTypes /\ glReserved \subseteq glOccupied /\ CellsFitIn(glCells, glOccupied)
        /\ glSlots \in Seq(GridSlots) /\ glCells \in Seq(GridCells) /\ glAnchors \in Seq(GridCells)
        /\ Len(glCells) = Len(glSlots) /\ Len(glAnchors) = Len(glSlots)
        /\ glTactical \in Nat /\ glStockRow \in Nat \ {0} /\ glBottomLeft \in Int
        /\ glDeferred \in Seq([slot : Nat, cell : FlexibleCells])
        /\ \A k \in DOMAIN glDeferred : glDeferred[k].slot \in DOMAIN glCells
    BY DEF GridInv, GridTypes
  <1>2. /\ Len(glSlots) \in Nat /\ DOMAIN glCells = 1 .. Len(glSlots) /\ DOMAIN glAnchors = 1 .. Len(glSlots)
        /\ \A i \in DOMAIN glAnchors : glAnchors[i] \in GridCells
    BY <1>1
  <1>3. \A k \in DOMAIN glDeferred : glDeferred[k].slot \in 1..(Len(glSlots) + 1)
    BY <1>1, <1>2
  <1>4. FixedCells \cup FlexibleCells \subseteq GridCells /\ (FixedCells \cup FlexibleCells) \cap GunCells = {}
    <2>1. 1 .. StockCol \subseteq Int
      OBVIOUS
    <2>2. QED  BY <2>1, GridConstants DEF GridCells
  <1>5. ASSUME PlaceSlot PROVE GridInv'
    <2>1. PICK name \in glNames, parent \in 0..Len(glSlots), installed \in BOOLEAN :
       LET parentName == IF parent = 0 THEN "" ELSE glSlots[parent].name
           anchor == IF parent = 0 THEN Extras ELSE glAnchors[parent]
           rule == RuleOf(name, parentName, parent = 0)
           cell == CellBy(rule, name, anchor)
       IN /\ AddSlot(name, parent, installed, cell, cell)
          /\ glOccupied' = IF cell = Extras THEN glOccupied ELSE glOccupied \cup {cell}
          /\ glTactical' = IF rule = "tactical" THEN glTactical + 1 ELSE glTactical
          /\ glStockRow' = IF rule = "under stock" THEN glStockRow + 1 ELSE glStockRow
          /\ glBottomLeft' = IF rule = "bottom left" \/ (rule = "handle" /\ SecondHandle)
                             THEN glBottomLeft - 1 ELSE glBottomLeft
      BY <1>5 DEF PlaceSlot
    <2> DEFINE parentName == IF parent = 0 THEN "" ELSE glSlots[parent].name
               anchor == IF parent = 0 THEN Extras ELSE glAnchors[parent]
               rule == RuleOf(name, parentName, parent = 0)
               cell == CellBy(rule, name, anchor)
    <2>2. /\ AddSlot(name, parent, installed, cell, cell)
          /\ glOccupied' = IF cell = Extras THEN glOccupied ELSE glOccupied \cup {cell}
          /\ glTactical' = IF rule = "tactical" THEN glTactical + 1 ELSE glTactical
          /\ glStockRow' = IF rule = "under stock" THEN glStockRow + 1 ELSE glStockRow
          /\ glBottomLeft' = IF rule = "bottom left" \/ (rule = "handle" /\ SecondHandle)
                             THEN glBottomLeft - 1 ELSE glBottomLeft
          /\ UNCHANGED glDeferred
      BY <2>1, <1>5 DEF PlaceSlot
    <2>3. anchor \in GridCells
      BY <1>2, CellsOfRows
    <2> HIDE DEF anchor, parentName
    <2>4. MayBePlaced(cell)
      BY <2>3, <1>1, RulesPlace
    <2> HIDE DEF cell, rule
    <2>5. cell \in GridCells /\ glOccupied \subseteq glOccupied'
      BY <2>2, <2>4, CellsOfRows DEF MayBePlaced
    <2>6. glTactical' \in Nat /\ glStockRow' \in Nat \ {0} /\ glBottomLeft' \in Int
      <3>1. glTactical' \in {glTactical, glTactical + 1} /\ glTactical \in Nat
        BY <2>2, <1>1
      <3>2. glStockRow' \in {glStockRow, glStockRow + 1} /\ glStockRow \in Nat \ {0}
        BY <2>2, <1>1
      <3>3. glBottomLeft' \in {glBottomLeft, glBottomLeft - 1} /\ glBottomLeft \in Int
        BY <2>2, <1>1
      <3>4. QED  BY <3>1, <3>2, <3>3
    <2>7. cell = Extras \/ (cell \in glOccupied' /\ MayBeOnGun(cell) /\ \A i \in DOMAIN glCells : glCells[i] # cell)
      BY <2>2, <2>4, <1>1 DEF MayBePlaced, MayBeOnGun, CellsFitIn
    <2>8. glDeferred' \in Seq([slot : Nat, cell : FlexibleCells])
          /\ \A k \in DOMAIN glDeferred' : glDeferred'[k].slot \in 1..(Len(glSlots) + 1)
      BY <2>2, <1>1, <1>3
    <2>9. QED  BY <2>2, <2>5, <2>6, <2>7, <2>8, SlotAdded
  <1>6. ASSUME PlaceFixed PROVE GridInv'
    <2>1. PICK name \in glNames, parent \in 0..Len(glSlots), installed \in BOOLEAN, cell \in glReserved :
            /\ \A i \in DOMAIN glCells : glCells[i] # cell
            /\ AddSlot(name, parent, installed, cell, cell)
      BY <1>6 DEF PlaceFixed
    <2>2. UNCHANGED <<glOccupied, glTactical, glBottomLeft, glStockRow, glDeferred>>
      BY <1>6 DEF PlaceFixed
    <2>3. cell \in GridCells /\ cell \notin GunCells /\ cell \in glOccupied
      BY <1>1, <1>4 DEF GridTypes
    <2>4. QED  BY <2>1, <2>2, <2>3, <1>1, <1>3, SlotAdded DEF MayBeOnGun
  <1>7. ASSUME DeferFlexible PROVE GridInv'
    <2>1. PICK name \in glNames, parent \in 0..Len(glSlots), installed \in BOOLEAN, cell \in FlexibleCells :
            /\ AddSlot(name, parent, installed, Extras, cell)
            /\ glDeferred' = Append(glDeferred, [slot |-> Len(glSlots) + 1, cell |-> cell])
      BY <1>7 DEF DeferFlexible
    <2>2. UNCHANGED <<glOccupied, glTactical, glBottomLeft, glStockRow>>
      BY <1>7 DEF DeferFlexible
    <2>3. cell \in GridCells /\ Extras \in GridCells
      BY <1>4, CellsOfRows
    <2> DEFINE e == [slot |-> Len(glSlots) + 1, cell |-> cell]
               E == [slot : Nat, cell : FlexibleCells]
    <2>4. e \in E /\ e.slot \in 1..(Len(glSlots) + 1)
      BY <1>2
    <2> HIDE DEF e, E
    <2>5. glDeferred \in Seq(E) /\ glDeferred' = Append(glDeferred, e)
      BY <1>1, <2>1 DEF e, E
    <2>6. /\ glDeferred' \in Seq(E) /\ Len(glDeferred') = Len(glDeferred) + 1
          /\ \A j \in DOMAIN glDeferred : glDeferred'[j] = glDeferred[j]
          /\ glDeferred'[Len(glDeferred) + 1] = e
      BY <2>4, <2>5, AppendLast
    <2>7. \A k \in DOMAIN glDeferred' : k \in DOMAIN glDeferred \/ k = Len(glDeferred) + 1
      BY <2>5, <2>6
    <2>8. \A k \in DOMAIN glDeferred' : glDeferred'[k].slot \in 1..(Len(glSlots) + 1)
      BY <2>4, <2>6, <2>7, <1>3
    <2>9. QED  BY <2>1, <2>2, <2>3, <2>6, <2>8, <1>1, SlotAdded DEF E
  <1>8. ASSUME EndLoop \/ EndLayout PROVE GridInv'
    <2>1. UNCHANGED <<glNames, glReserved, glSlots, glCells, glAnchors, glOccupied, glTactical,
                      glBottomLeft, glStockRow, glDeferred>>
      BY <1>8 DEF EndLoop, EndLayout
    <2>2. QED  BY <2>1 DEF GridInv, GridTypes
  <1>9. ASSUME PlaceFlexible PROVE GridInv'
    <2> DEFINE next == Head(glDeferred)
               k == next.slot
               cell == Down(next.cell[1], next.cell[2])
               E == [slot : Nat, cell : FlexibleCells]
    <2>1. /\ glDeferred # <<>>
          /\ glCells' = [glCells EXCEPT ![k] = cell]
          /\ glOccupied' = IF cell = Extras THEN glOccupied ELSE glOccupied \cup {cell}
          /\ glAnchors' = [glAnchors EXCEPT ![k] = IF glSlots[k].installed /\ cell # Extras THEN cell ELSE @]
          /\ glDeferred' = Tail(glDeferred)
          /\ UNCHANGED <<glNames, glReserved, glSlots, glTactical, glBottomLeft, glStockRow>>
      BY <1>9 DEF PlaceFlexible
    <2>2. next \in E /\ k \in DOMAIN glCells
      <3>1. next = glDeferred[1] /\ 1 \in DOMAIN glDeferred
        BY <1>1, <2>1
      <3> HIDE DEF next
      <3>2. glDeferred \in Seq(E) /\ glDeferred[1].slot \in DOMAIN glCells
        BY <3>1, <1>1
      <3> HIDE DEF E
      <3>3. glDeferred[1] \in E
        BY <3>1, <3>2, ElementOf
      <3>4. QED  BY <3>1, <3>2, <3>3
    <2> HIDE DEF next
    <2>3. next.cell \in FlexibleCells /\ next.cell \in GridCells /\ next.cell \notin GunCells
      BY <2>2, <1>4
    <2>4. next.cell[1] \in Int /\ next.cell[2] \in Int /\ next.cell = <<next.cell[1], next.cell[2]>>
      BY <2>3 DEF GridCells
    <2>5. /\ MayBeGiven(cell)
          /\ cell \in GunCells => next.cell[2] <= 0 /\ next.cell[1] \in 7 .. 9 /\ cell[1] = next.cell[1]
      BY <2>4, DownIs
    <2>6. next.cell[1] \in 7 .. 9 => next.cell[2] # 0
      BY <2>3, <2>4, CellsOfRows
    <2> HIDE DEF cell
    <2>7. MayBeOnGun(cell)
      <3>1. ASSUME cell \in GunCells PROVE cell[1] = next.cell[1] /\ next.cell[2] < 0
        BY <2>4, <2>5, <2>6, <3>1
      <3>2. QED  BY <3>1, <2>3 DEF MayBeOnGun
    <2>8. cell \in GridCells /\ glOccupied \subseteq glOccupied'
      BY <2>1, <2>5, CellsOfRows DEF MayBeGiven
    <2>9. cell = Extras \/ (cell \in glOccupied' /\ MayBeOnGun(cell) /\ \A i \in DOMAIN glCells : glCells[i] # cell)
      BY <2>1, <2>5, <2>7, <1>1 DEF MayBeGiven, CellsFitIn
    <2> HIDE DEF k
    <2>10. CellsFitIn(glCells', glOccupied') /\ glCells' \in Seq(GridCells) /\ Len(glCells') = Len(glCells)
      <3> DEFINE more == glOccupied'
      <3>1. glOccupied \subseteq more
            /\ (cell = Extras \/ (cell \in more /\ MayBeOnGun(cell) /\ \A i \in DOMAIN glCells : glCells[i] # cell))
        BY <2>8, <2>9
      <3> HIDE DEF more
      <3>2. glCells \in Seq(GridCells) /\ CellsFitIn(glCells, glOccupied) /\ glCells' = WithCell(glCells, k, cell)
        BY <2>1, <1>1 DEF WithCell
      <3>3. CellsFitIn(glCells', more) /\ glCells' \in Seq(GridCells) /\ Len(glCells') = Len(glCells)
        BY <3>1, <3>2, <2>2, <2>8, CellMoved
      <3>4. QED  BY <3>3 DEF more
    <2>11. glAnchors' \in Seq(GridCells) /\ Len(glAnchors') = Len(glAnchors)
      <3> DEFINE a == IF glSlots[k].installed /\ cell # Extras THEN cell ELSE glAnchors[k]
      <3>1. k \in DOMAIN glAnchors
        BY <2>2, <1>2
      <3>2. a \in GridCells /\ glAnchors' = [glAnchors EXCEPT ![k] = a]
        BY <3>1, <2>1, <2>8, <1>2
      <3> HIDE DEF a
      <3>3. QED  BY <3>1, <3>2, <1>1
    <2>12. glDeferred' \in Seq(E) /\ \A j \in DOMAIN glDeferred' : glDeferred'[j].slot \in DOMAIN glCells'
      <3> HIDE DEF E
      <3>1. glDeferred \in Seq(E)
        BY <1>1 DEF E
      <3>2. /\ glDeferred' \in Seq(E) /\ Len(glDeferred') = Len(glDeferred) - 1
            /\ \A j \in DOMAIN glDeferred' : glDeferred'[j] = glDeferred[j + 1]
        BY <2>1, <3>1, HeadAndTail
      <3>3. \A j \in DOMAIN glDeferred' : j + 1 \in DOMAIN glDeferred
        BY <3>1, <3>2
      <3>4. DOMAIN glCells' = DOMAIN glCells
        BY <2>10, <1>1
      <3>5. QED  BY <3>2, <3>3, <3>4, <1>1
    <2>13. GridTypes'
      BY <2>1, <2>10, <2>11, <2>12, <1>1 DEF GridTypes
    <2>14. QED  BY <2>1, <2>8, <2>10, <2>13, <1>1 DEF GridInv
  <1>10. ASSUME UNCHANGED glVars PROVE GridInv'
    BY <1>10 DEF glVars, GridInv, GridTypes
  <1>11. QED  BY <1>5, <1>6, <1>7, <1>8, <1>9, <1>10 DEF GridLayoutNext

LEMMA GridStarts == GridLayoutInit => GridInv
  <1> SUFFICES ASSUME GridLayoutInit PROVE GridInv
    OBVIOUS
  <1>1. /\ glNames \subseteq GridNames /\ glReserved \subseteq FixedCells /\ glOccupied = glReserved
        /\ glSlots = <<>> /\ glCells = <<>> /\ glAnchors = <<>>
        /\ glTactical = 0 /\ glBottomLeft = 7 /\ glStockRow = 1 /\ glDeferred = <<>>
    BY DEF GridLayoutInit, GunCol
  <1>2. QED  BY <1>1 DEF GridInv, GridTypes, CellsFitIn

(* The lowest row of some cells.                                             *)
LEMMA LeastRow ==
  ASSUME NEW R, R \subseteq Int, IsFiniteSet(R), R # {}
  PROVE  \E r \in R : \A q \in R : r <= q
  <1> DEFINE Bad(S) == S \subseteq Int /\ IsFiniteSet(S) /\ S # {} /\ ~ \E r \in S : \A q \in S : r <= q
             F == {S \in SUBSET R : Bad(S)}
  <1>1. SUFFICES ASSUME F # {} PROVE FALSE
    <2>1. R \in SUBSET R
      OBVIOUS
    <2>2. QED  BY <2>1
  <1>2. \A T \in F : IsFiniteSet(T)
    OBVIOUS
  <1>3. PICK T \in F : \A U \in F : U \subseteq T => U = T
    <2> HIDE DEF F
    <2>1. QED  BY <1>1, <1>2, LeastFiniteSet
  <1>4. PICK x \in T : TRUE
    OBVIOUS
  <1>5. T \ {x} \notin F /\ T \ {x} \in SUBSET R /\ T \ {x} \subseteq Int /\ T \subseteq Int
    BY <1>3, <1>4
  <1>6. IsFiniteSet(T \ {x})
    BY <1>2, FS_Subset
  <1>7. CASE T \ {x} = {}
    <2>1. \A q \in T : x <= q
      BY <1>5, <1>7
    <2>2. QED  BY <2>1, <1>4
  <1>8. CASE T \ {x} # {}
    <2>1. PICK r \in T \ {x} : \A q \in T \ {x} : r <= q
      BY <1>5, <1>6, <1>8
    <2>2. CASE r <= x
      <3>1. \A q \in T : r <= q
        BY <2>1, <2>2
      <3>2. QED  BY <3>1, <2>1
    <2>3. CASE ~(r <= x)
      <3>1. \A q \in T : x <= q
        BY <2>1, <2>3, <1>5
      <3>2. QED  BY <3>1, <1>4
    <2>4. QED  BY <2>2, <2>3
  <1>9. QED  BY <1>7, <1>8

LEMMA GridIsApart == GridInv => CellsAreApart
  <1> SUFFICES ASSUME GridInv
               PROVE  /\ \A i, j \in Placed : glCells[i] = glCells[j] => i = j
                      /\ \A i \in Placed : RowOfCell(i) >= 1 /\ glCells[i] \in glOccupied
                      /\ \A i \in Placed : glCells[i] \in GunCells =>
                           \E cell \in FlexibleCells : cell[1] = glCells[i][1] /\ cell[2] < 0
    BY DEF CellsAreApart
  <1>1. CellsFitIn(glCells, glOccupied) /\ glCells \in Seq(GridCells)
    BY DEF GridInv, GridTypes
  <1>2. \A i \in Placed : i \in DOMAIN glCells /\ glCells[i] # Extras
    BY DEF Placed
  <1> DEFINE rows == {glCells[i][2] : i \in Placed}
             R == {0} \cup rows
  <1>3. Len(glCells) \in Nat /\ DOMAIN glCells = 1 .. Len(glCells) /\ \A i \in DOMAIN glCells : glCells[i] \in GridCells
    BY <1>1
  <1>4. \A i \in Placed : glCells[i][2] \in Int
    BY <1>2, <1>3 DEF GridCells
  <1>5. R \subseteq Int /\ R # {}
    BY <1>4
  <1>6. IsFiniteSet(R)
    <2>1. IsFiniteSet(1 .. Len(glCells))
      BY <1>3, FS_Interval
    <2>2. Placed \subseteq 1 .. Len(glCells)
      BY <1>2, <1>3
    <2>3. IsFiniteSet(Placed)
      BY <2>1, <2>2, FS_Subset
    <2>4. IsFiniteSet(rows)
      <3> DEFINE f == [i \in Placed |-> glCells[i][2]]
      <3>1. f \in Surjection(Placed, rows)
        BY DEF Surjection
      <3> HIDE DEF f, rows
      <3>2. QED  BY <2>3, <3>1, FS_Surjection
    <2> HIDE DEF rows
    <2>5. QED  BY <2>4, FS_AddElement
  <1>7. \E r \in R : \A q \in R : r <= q
    <2> HIDE DEF R
    <2>1. QED  BY <1>5, <1>6, LeastRow
  <1>8. MinRow = CHOOSE r \in R : \A q \in R : r <= q
    BY DEF MinRow
  <1>9. MinRow \in R /\ \A q \in R : MinRow <= q
    <2> HIDE DEF R
    <2>1. QED  BY <1>7, <1>8
  <1>10. ASSUME NEW i \in Placed PROVE RowOfCell(i) >= 1
    <2>1. glCells[i][2] \in R /\ MinRow \in Int
      BY <1>5, <1>9
    <2>2. MinRow <= glCells[i][2] /\ glCells[i][2] \in Int
      BY <2>1, <1>4, <1>9
    <2>3. RowOfCell(i) = glCells[i][2] - MinRow + 1
      BY DEF RowOfCell
    <2>4. QED  BY <2>1, <2>2, <2>3
  <1>11. QED  BY <1>1, <1>2, <1>10 DEF CellsFitIn, MayBeOnGun

(* The attachment grid (attachment-grid.js, computeGridPositions): in every *)
(* behaviour of GridLayoutSpec, for any build and any overrides, no two     *)
(* slots share a cell.                                                      *)
THEOREM CellsStayApart == GridLayoutSpec => []CellsAreApart
  BY GridIsApart, GridStarts, GridSteps, PTL DEF GridLayoutSpec

--------------------------------------------------------------------------------
(* TreeRender, for any tree of parts and however many renders walk at once.  *)
TreeRenderSpec == TreeRenderInit /\ [][TreeRenderNext]_trVars

TreeNodes == AllParts \cup {GunNode}
RenderTypes == [page : Nat, view : {"list", "grid"}, next : Nat \ {0}, walked : SUBSET TreeNodes,
                drawn : SUBSET AllParts, waits : TreeNodes, held : BOOLEAN, missed : SUBSET AllParts]

TreeTypes ==
  /\ trIn \subseteq AllParts /\ trPages \in Nat /\ trTimers \in Nat /\ trView \in {"list", "grid"}
  /\ trRenders \subseteq RenderTypes
  /\ trMissed \subseteq AllParts /\ trShown \in [slots : SUBSET TreeNodes, parts : SUBSET AllParts]
  /\ \A r \in trRenders : r.page <= trPages /\ r.waits # GunNode
  /\ \A r, q \in trRenders : r.page = trPages /\ q.page = trPages => r = q

(* The nodes of a walk up to a place of the order, for the parts in the      *)
(* build, those that are missed, the view and the collapsed parts.           *)
IsOpen(view, collapsed, p) == view = "grid" \/ p \notin collapsed
WalkFits(walked, n, in, missed, view, collapsed) ==
  /\ GunNode \in walked
  /\ \A p \in walked : p = GunNode \/ \E i \in 1 .. n : p = PartOrder[i]
  /\ \A i \in 1 .. n : PartOrder[i] \in walked <=>
       /\ PartOrder[i] \in in \ missed /\ Host[PartOrder[i]] \in walked
       /\ IsOpen(view, collapsed, PartOrder[i])
DrawnFits(drawn, n, in, walked) ==
  \A i \in DOMAIN PartOrder :
    PartOrder[i] \in drawn <=> i <= n /\ PartOrder[i] \in in /\ Host[PartOrder[i]] \in walked
MissedBefore(missed, n) == \A p \in missed : \E i \in 1 .. n : p = PartOrder[i]

(* A walk that waits at a part.                                              *)
WaitsFit(r, in, view, collapsed) ==
  /\ r.view = view /\ r.held /\ r.next - 1 \in DOMAIN PartOrder /\ r.waits = PartOrder[r.next - 1]
  /\ r.waits \in in /\ Host[r.waits] \in r.walked
  /\ WalkFits(r.walked, r.next - 2, in, r.missed, view, collapsed)
  /\ DrawnFits(r.drawn, r.next - 1, in, r.walked)
  /\ MissedBefore(r.missed, r.next - 2)

PageFitsTree(shown, in, missed, view, collapsed) ==
  /\ WalkFits(shown.slots, Len(PartOrder), in, missed, view, collapsed)
  /\ DrawnFits(shown.parts, Len(PartOrder), in, shown.slots)

Walking == {r \in trRenders : r.page = trPages}
PageIsDue ==
  trInstalls = {} /\ trTimers = 0 =>
    /\ \A r \in Walking : WaitsFit(r, trIn, trView, trCollapsed) /\ trMissed = r.missed
    /\ Walking = {} => PageFitsTree(trShown, trIn, trMissed, trView, trCollapsed)

TreeInv == TreeTypes /\ PageIsDue

(* The parts in their order.                                                 *)
LEMMA OrderOfParts ==
  /\ Len(PartOrder) \in Nat /\ DOMAIN PartOrder = 1 .. Len(PartOrder)
  /\ GunNode \notin AllParts /\ \A i \in DOMAIN PartOrder : PartOrder[i] \in AllParts
  /\ \A p \in AllParts : \E i \in DOMAIN PartOrder : p = PartOrder[i]
  /\ \A i, j \in DOMAIN PartOrder : PartOrder[i] = PartOrder[j] => i = j
  /\ \A i \in DOMAIN PartOrder :
       Host[PartOrder[i]] = GunNode \/ \E j \in 1..(i - 1) : PartOrder[j] = Host[PartOrder[i]]
  <1>1. PartOrder \in Seq(AllParts)
    BY TreeRenderConstants
  <1>2. Len(PartOrder) \in Nat /\ DOMAIN PartOrder = 1 .. Len(PartOrder)
    BY <1>1
  <1>3. \A i \in DOMAIN PartOrder : PartOrder[i] \in AllParts
    BY DEF AllParts
  <1>4. \A p \in AllParts : \E i \in DOMAIN PartOrder : p = PartOrder[i]
    BY DEF AllParts
  <1>5. QED  BY <1>2, <1>3, <1>4, TreeRenderConstants

(* What is said of each place by those before it is said of all.             *)
WalkOver(D, A, B, C, n, m) ==
  D = [j \in 1 .. n |-> j \in A /\ (j \in B \/ \E k \in m..(j - 1) : <<k, j>> \in C /\ D[k])]

LEMMA WalkExists ==
  ASSUME NEW A, NEW B, NEW C, NEW n \in Nat, NEW m \in Nat, 1 <= m
  PROVE  \E D : WalkOver(D, A, B, C, n, m)
  <1> DEFINE Of(D, l) == WalkOver(D, A, B, C, l, m)
             N == {l \in 0 .. n : ~ \E D : Of(D, l)}
  <1>1. SUFFICES ASSUME N # {} PROVE FALSE
    <2>1. n \notin N => \E D : Of(D, n)
      OBVIOUS
    <2>2. QED  BY <2>1
  <1>2. PICK l \in N : \A o \in N : l <= o
    <2>1. N \subseteq Nat
      OBVIOUS
    <2> HIDE DEF N
    <2>2. QED  BY <2>1, <1>1, LeastNumber
  <1>3. l # 0
    <2> DEFINE none == [j \in 1 .. 0 |-> FALSE]
    <2>1. Of(none, 0)
      BY DEF WalkOver
    <2> HIDE DEF Of, none
    <2>2. QED  BY <2>1
  <1>4. l - 1 \in 0 .. n /\ l \in 1 .. n /\ ~(l <= l - 1)
    BY <1>3
  <1>5. PICK D : Of(D, l - 1)
    BY <1>2, <1>4
  <1> DEFINE Now(E, j) == j \in A /\ (j \in B \/ \E k \in m..(j - 1) : <<k, j>> \in C /\ E[k])
             F == [j \in 1 .. l |-> IF j < l THEN D[j] ELSE Now(D, l)]
  <1>6. \A j \in 1 .. l : \A k \in m..(j - 1) : F[k] = D[k]
    <2> SUFFICES ASSUME NEW j \in 1 .. l, NEW k \in m..(j - 1) PROVE F[k] = D[k]
      OBVIOUS
    <2>1. k \in 1 .. l /\ k < l
      BY <1>4
    <2>2. QED  BY <2>1
  <1>7. \A j \in 1 .. l : Now(F, j) <=> Now(D, j)
    <2> HIDE DEF F
    <2>1. QED  BY <1>6
  <1>8. \A j \in 1 .. l : F[j] = Now(F, j)
    <2> SUFFICES ASSUME NEW j \in 1 .. l PROVE F[j] = Now(F, j)
      OBVIOUS
    <2>1. CASE j < l
      <3>1. j \in 1 .. (l - 1) /\ F[j] = D[j]
        BY <2>1, <1>4
      <3>2. D[j] = Now(D, j)
        BY <3>1, <1>5 DEF WalkOver
      <3> HIDE DEF F
      <3>3. QED  BY <3>1, <3>2, <1>7
    <2>2. CASE j = l
      <3>1. F[j] = Now(D, l)
        BY <2>2, <1>4
      <3> HIDE DEF F
      <3>2. QED  BY <3>1, <2>2, <1>7
    <2>3. j < l \/ j = l
      BY <1>4
    <2> HIDE DEF F, Now
    <2>4. QED  BY <2>1, <2>2, <2>3
  <1>9. F = [j \in 1 .. l |-> F[j]]
    OBVIOUS
  <1> HIDE DEF F
  <1>10. F = [j \in 1 .. l |-> Now(F, j)]
    BY <1>8, <1>9
  <1>11. Of(F, l)
    BY <1>10 DEF WalkOver
  <1> HIDE DEF Of
  <1>12. QED  BY <1>11, <1>2

(* What a walk draws, as the code says it.                                   *)
LEMMA DrawsAre ==
  ASSUME NEW r, r.next \in Nat, 1 <= r.next
  PROVE  \A i \in DOMAIN PartOrder :
           Draws(r, i) <=>
             /\ PartOrder[i] \in trIn'
             /\ \/ Host[PartOrder[i]] \in r.walked
                \/ \E k \in r.next..(i - 1) :
                     PartOrder[k] = Host[PartOrder[i]] /\ Draws(r, k) /\ OpenIn(r, PartOrder[k])
  <1> DEFINE n == Len(PartOrder)
             m == r.next
             A == {j \in 1 .. n : PartOrder[j] \in trIn'}
             B == {j \in 1 .. n : Host[PartOrder[j]] \in r.walked}
             C == {c \in (1 .. n) \X (1 .. n) : PartOrder[c[1]] = Host[PartOrder[c[2]]] /\ OpenIn(r, PartOrder[c[1]])}
             Is(D) == D = [j \in DOMAIN PartOrder |->
                        /\ PartOrder[j] \in trIn'
                        /\ \/ Host[PartOrder[j]] \in r.walked
                           \/ \E k \in m..(j - 1) :
                                PartOrder[k] = Host[PartOrder[j]] /\ D[k] /\ OpenIn(r, PartOrder[k])]
             Drawing == CHOOSE D : Is(D)
  <1>1. DOMAIN PartOrder = 1 .. n /\ n \in Nat /\ m \in Nat /\ 1 <= m
    BY OrderOfParts
  <1> HIDE DEF n, m
  <1>2. PICK D : WalkOver(D, A, B, C, n, m)
    <2> HIDE DEF A, B, C
    <2>1. QED  BY <1>1, WalkExists
  <1>3. \A j \in 1 .. n : \A k \in m..(j - 1) : k \in 1 .. n
    BY <1>1
  <1>4. \A j \in 1 .. n : \A k \in m..(j - 1) : <<k, j>> \in C <=> PartOrder[k] = Host[PartOrder[j]] /\ OpenIn(r, PartOrder[k])
    BY <1>3
  <1> HIDE DEF C
  <1>5. Is(D)
    BY <1>1, <1>2, <1>4 DEF WalkOver
  <1>6. Is(Drawing)
    <2> HIDE DEF Is
    <2>1. QED  BY <1>5
  <1>7. \A i : Draws(r, i) = Drawing[i]
    BY DEF Draws, m
  <1> HIDE DEF Drawing
  <1>8. \A i \in DOMAIN PartOrder :
          Drawing[i] = (/\ PartOrder[i] \in trIn'
                        /\ \/ Host[PartOrder[i]] \in r.walked
                           \/ \E k \in m..(i - 1) :
                                PartOrder[k] = Host[PartOrder[i]] /\ Drawing[k] /\ OpenIn(r, PartOrder[k]))
    BY <1>6
  <1>9. QED  BY <1>7, <1>8 DEF m

(* A render that walks on remains what it was but for where it is.           *)
WalkGoes(r) ==
  LET stops == Stops(r) IN
  IF stops = {} THEN Len(PartOrder) + 1 ELSE CHOOSE i \in stops : \A j \in stops : i <= j
Passed(r) == {PartOrder[i] : i \in {j \in r.next..(WalkGoes(r) - 1) : Draws(r, j)}}

LEMMA WalkStops ==
  ASSUME NEW r, r.next \in Nat, 1 <= r.next
  PROVE  /\ Stops(r) = {} => WalkGoes(r) = Len(PartOrder) + 1
         /\ Stops(r) # {} => WalkGoes(r) \in Stops(r) /\ WalkGoes(r) \in DOMAIN PartOrder
         /\ WalkGoes(r) \in Nat /\ WalkGoes(r) <= Len(PartOrder) + 1 /\ 1 <= WalkGoes(r)
  <1>1. Stops(r) \subseteq Nat /\ Stops(r) \subseteq 1 .. Len(PartOrder)
    BY OrderOfParts DEF Stops
  <1>2. CASE Stops(r) = {}
    BY <1>2, OrderOfParts DEF WalkGoes
  <1>3. CASE Stops(r) # {}
    <2> DEFINE S == Stops(r)
    <2> HIDE DEF S
    <2>1. \E i \in S : \A j \in S : i <= j
      BY <1>1, <1>3, LeastNumber DEF S
    <2>2. (CHOOSE i \in S : \A j \in S : i <= j) \in S
      BY <2>1
    <2>3. WalkGoes(r) \in Stops(r)
      BY <2>2, <1>3 DEF WalkGoes, S
    <2>4. QED  BY <2>3, <1>1, <1>3, OrderOfParts
  <1>4. QED  BY <1>2, <1>3

LEMMA WalkKeeps ==
  ASSUME NEW r \in RenderTypes
  PROVE  /\ Walk(r) \in RenderTypes /\ Walk(r).page = r.page /\ Walk(r).view = r.view
         /\ Walk(r).missed = r.missed /\ Walk(r).held
         /\ Walk(r).next = WalkGoes(r) + 1
         /\ Walk(r).walked = r.walked \cup {p \in Passed(r) : OpenIn(r, p)}
         /\ Walk(r).drawn =
              r.drawn \cup Passed(r) \cup (IF Stops(r) = {} THEN {} ELSE {PartOrder[WalkGoes(r)]})
         /\ Walk(r).waits = IF Stops(r) = {} THEN GunNode ELSE PartOrder[WalkGoes(r)]
  <1>1. r.next \in Nat /\ 1 <= r.next
    BY DEF RenderTypes
  <1>2. Walk(r) =
          [r EXCEPT !.next = WalkGoes(r) + 1,
                    !.waits = IF Stops(r) = {} THEN GunNode ELSE PartOrder[WalkGoes(r)], !.held = TRUE,
                    !.walked = @ \cup {p \in Passed(r) : OpenIn(r, p)},
                    !.drawn = @ \cup Passed(r) \cup (IF Stops(r) = {} THEN {} ELSE {PartOrder[WalkGoes(r)]})]
    BY DEF Walk, WalkGoes, Passed
  <1>3. WalkGoes(r) + 1 \in Nat \ {0}
    BY <1>1, WalkStops
  <1>4. Passed(r) \subseteq AllParts
    <2> SUFFICES ASSUME NEW i \in r.next..(WalkGoes(r) - 1) PROVE PartOrder[i] \in AllParts
      BY DEF Passed
    <2>1. i \in 1 .. Len(PartOrder)
      BY <1>1, WalkStops, OrderOfParts
    <2>2. QED  BY <2>1, OrderOfParts
  <1>5. Stops(r) # {} => PartOrder[WalkGoes(r)] \in AllParts
    BY <1>1, WalkStops, OrderOfParts
  <1>6. (IF Stops(r) = {} THEN GunNode ELSE PartOrder[WalkGoes(r)]) \in TreeNodes
    BY <1>5 DEF TreeNodes
  <1>7. AllParts \subseteq TreeNodes
    BY DEF TreeNodes
  <1> DEFINE W == {p \in Passed(r) : OpenIn(r, p)}
             G == WalkGoes(r)
             P == Passed(r)
             D == IF Stops(r) = {} THEN {} ELSE {PartOrder[WalkGoes(r)]}
             V == IF Stops(r) = {} THEN GunNode ELSE PartOrder[WalkGoes(r)]
  <1>8. W \subseteq TreeNodes /\ D \subseteq AllParts
    BY <1>4, <1>5, <1>7
  <1>9. V \in TreeNodes /\ P \subseteq AllParts /\ G + 1 \in Nat \ {0}
    BY <1>3, <1>4, <1>6
  <1>10. Walk(r) = [r EXCEPT !.next = G + 1, !.waits = V, !.held = TRUE, !.walked = @ \cup W, !.drawn = @ \cup P \cup D]
    BY <1>2
  <1> HIDE DEF W, G, P, D, V
  <1>11. Walk(r) \in RenderTypes /\ Walk(r).page = r.page /\ Walk(r).view = r.view
         /\ Walk(r).missed = r.missed /\ Walk(r).held /\ Walk(r).next = G + 1
         /\ Walk(r).walked = r.walked \cup W /\ Walk(r).drawn = r.drawn \cup P \cup D /\ Walk(r).waits = V
    <2>1. /\ r.page \in Nat /\ r.view \in {"list", "grid"} /\ r.walked \subseteq TreeNodes
          /\ r.drawn \subseteq AllParts /\ r.missed \subseteq AllParts
      BY DEF RenderTypes
    <2>2. r = [page |-> r.page, view |-> r.view, next |-> r.next, walked |-> r.walked,
               drawn |-> r.drawn, waits |-> r.waits, held |-> r.held, missed |-> r.missed]
      BY DEF RenderTypes
    <2> DEFINE X == r.walked \cup W
               Y == r.drawn \cup P \cup D
    <2>3. X \subseteq TreeNodes /\ Y \subseteq AllParts
      BY <2>1, <1>8, <1>9
    <2>4. Walk(r) = [r EXCEPT !.next = G + 1, !.waits = V, !.held = TRUE, !.walked = X, !.drawn = Y]
      BY <1>10, <2>2
    <2> HIDE DEF X, Y
    <2>5. Walk(r) = [page |-> r.page, view |-> r.view, next |-> G + 1, walked |-> X,
                     drawn |-> Y, waits |-> V, held |-> TRUE, missed |-> r.missed]
      BY <2>2, <2>4
    <2>6. Walk(r) \in RenderTypes
      BY <2>1, <2>3, <2>5, <1>9 DEF RenderTypes
    <2>7. QED  BY <2>5, <2>6 DEF X, Y
  <1>12. QED  BY <1>11 DEF W, G, P, D, V

(* What is walked and drawn after a walk, as for every place it has passed.  *)
LEMMA WalkFollows ==
  ASSUME NEW r \in RenderTypes, NEW M, r.next <= Len(PartOrder) + 1,
         WalkFits(r.walked, r.next - 1, trIn', M, r.view, trCollapsed'),
         DrawnFits(r.drawn, r.next - 1, trIn', r.walked), MissedBefore(M, r.next - 1)
  PROVE  /\ WalkFits(Walk(r).walked, WalkGoes(r) - 1, trIn', M, r.view, trCollapsed')
         /\ DrawnFits(Walk(r).drawn, IF Stops(r) = {} THEN Len(PartOrder) ELSE WalkGoes(r), trIn', Walk(r).walked)
         /\ MissedBefore(M, WalkGoes(r) - 1)
         /\ Stops(r) # {} => PartOrder[WalkGoes(r)] \in trIn' /\ Host[PartOrder[WalkGoes(r)]] \in Walk(r).walked
  <1> DEFINE n == Len(PartOrder)
             a == r.next
             z == WalkGoes(r)
             W == Walk(r).walked
             Goes(p) == IsOpen(r.view, trCollapsed', p)
             P == Passed(r)
  <1>1. n \in Nat /\ DOMAIN PartOrder = 1 .. n /\ a \in Nat /\ 1 <= a /\ a <= n + 1
    BY OrderOfParts DEF RenderTypes
  <1>2. z \in Nat /\ 1 <= z /\ z <= n + 1 /\ a <= z
    <2>1. z \in Nat /\ 1 <= z /\ z <= n + 1
      BY <1>1, WalkStops
    <2>2. CASE Stops(r) = {}
      BY <2>2, <1>1, WalkStops
    <2>3. CASE Stops(r) # {}
      BY <2>3, <2>1, <1>1, WalkStops DEF Stops
    <2>4. QED  BY <2>1, <2>2, <2>3
  <1>3. /\ W = r.walked \cup {p \in P : Goes(p)}
        /\ Walk(r).drawn = r.drawn \cup P \cup (IF Stops(r) = {} THEN {} ELSE {PartOrder[z]})
    BY WalkKeeps DEF OpenIn, IsOpen
  <1>4. \A p : p \in P <=> \E i \in a..(z - 1) : p = PartOrder[i] /\ Draws(r, i)
    BY DEF Passed
  <1>5. \A i \in 1 .. n : PartOrder[i] # GunNode
    BY <1>1, OrderOfParts
  <1>6. \A i, j \in 1 .. n : PartOrder[i] = PartOrder[j] => i = j
    BY <1>1, OrderOfParts
  <1>7. \A i \in 1 .. n : PartOrder[i] \in P <=> i \in a..(z - 1) /\ Draws(r, i)
    BY <1>1, <1>2, <1>4, <1>6
  <1>8. GunNode \notin P
    BY <1>1, <1>2, <1>4, <1>5
  <1>9. \A i \in 1 .. n : PartOrder[i] \in r.walked => i < a
    BY <1>1, <1>5, <1>6 DEF WalkFits
  <1>10. \A i \in 1 .. n : \A j \in 1..(i - 1) : j \in 1 .. n /\ j < i
    BY <1>1
  <1>11. \A i \in 1 .. n : Host[PartOrder[i]] = GunNode \/ \E j \in 1 .. n : j < i /\ PartOrder[j] = Host[PartOrder[i]]
    BY <1>1, <1>10, OrderOfParts
  <1>12. GunNode \in r.walked /\ GunNode \in W
    BY <1>3 DEF WalkFits
  <1>13. \A i \in 1 .. n : i < a => (PartOrder[i] \in W <=> PartOrder[i] \in r.walked)
    BY <1>1, <1>2, <1>3, <1>7
  <1>14. \A i \in 1 .. n : i <= a => (Host[PartOrder[i]] \in W <=> Host[PartOrder[i]] \in r.walked)
    <2> SUFFICES ASSUME NEW i \in 1 .. n, i <= a PROVE Host[PartOrder[i]] \in W <=> Host[PartOrder[i]] \in r.walked
      OBVIOUS
    <2>1. CASE Host[PartOrder[i]] = GunNode
      BY <2>1, <1>12
    <2>2. CASE \E j \in 1 .. n : j < i /\ PartOrder[j] = Host[PartOrder[i]]
      BY <2>2, <1>1, <1>13
    <2>3. QED  BY <2>1, <2>2, <1>11
  <1>15. \A i \in 1 .. n : a <= i => (PartOrder[i] \in W <=> i < z /\ Draws(r, i) /\ Goes(PartOrder[i]))
    BY <1>1, <1>2, <1>3, <1>7, <1>9
  <1>16. \A i \in 1 .. n : a <= i /\ i <= z => (Draws(r, i) <=> PartOrder[i] \in trIn' /\ Host[PartOrder[i]] \in W)
    <2> SUFFICES ASSUME NEW i \in 1 .. n, a <= i, i <= z
                 PROVE  Draws(r, i) <=> PartOrder[i] \in trIn' /\ Host[PartOrder[i]] \in W
      OBVIOUS
    <2>1. Draws(r, i) <=>
             /\ PartOrder[i] \in trIn'
             /\ \/ Host[PartOrder[i]] \in r.walked
                \/ \E k \in a..(i - 1) : PartOrder[k] = Host[PartOrder[i]] /\ Draws(r, k) /\ Goes(PartOrder[k])
      BY <1>1, DrawsAre DEF OpenIn, IsOpen
    <2>2. ASSUME NEW k \in a..(i - 1), PartOrder[k] = Host[PartOrder[i]], Draws(r, k), Goes(PartOrder[k])
          PROVE  Host[PartOrder[i]] \in W
      <3>1. k \in 1 .. n /\ a <= k /\ k < z
        BY <1>1, <1>2
      <3> HIDE DEF W, Goes
      <3>2. QED  BY <2>2, <3>1, <1>15
    <2>3. ASSUME Host[PartOrder[i]] \in W, Host[PartOrder[i]] \notin r.walked
          PROVE  \E k \in a..(i - 1) : PartOrder[k] = Host[PartOrder[i]] /\ Draws(r, k) /\ Goes(PartOrder[k])
      <3>1. PICK j \in 1 .. n : j < i /\ PartOrder[j] = Host[PartOrder[i]]
        BY <2>3, <1>11, <1>12
      <3> HIDE DEF W, Goes
      <3>2. ~(j < a)
        BY <2>3, <3>1, <1>13
      <3>3. j \in a..(i - 1)
        BY <3>1, <3>2, <1>1
      <3>4. Draws(r, j) /\ Goes(PartOrder[j])
        BY <2>3, <3>1, <3>2, <1>1, <1>15
      <3>5. QED  BY <3>1, <3>3, <3>4
    <2>4. r.walked \subseteq W
      BY <1>3
    <2> HIDE DEF W, Goes
    <2>5. QED  BY <2>1, <2>2, <2>3, <2>4
  <1>17. \A i \in 1 .. n : a <= i => PartOrder[i] \notin M
    BY <1>1, <1>6 DEF MissedBefore
  <1>18. WalkFits(W, z - 1, trIn', M, r.view, trCollapsed')
    <2>1. \A p \in W : p = GunNode \/ \E i \in 1..(z - 1) : p = PartOrder[i]
      <3> SUFFICES ASSUME NEW p \in W, p # GunNode PROVE \E i \in 1..(z - 1) : p = PartOrder[i]
        OBVIOUS
      <3>1. CASE p \in r.walked
        <4>1. PICK i \in 1..(a - 1) : p = PartOrder[i]
          BY <3>1 DEF WalkFits
        <4>2. i \in 1..(z - 1)
          BY <1>1, <1>2
        <4>3. QED  BY <4>1, <4>2
      <3>2. CASE p \in P
        <4>1. PICK i \in a..(z - 1) : p = PartOrder[i]
          BY <3>2, <1>4
        <4>2. i \in 1..(z - 1)
          BY <1>1, <1>2
        <4>3. QED  BY <4>1, <4>2
      <3>3. QED  BY <3>1, <3>2, <1>3
    <2>2. ASSUME NEW i \in 1..(z - 1)
          PROVE  PartOrder[i] \in W <=> PartOrder[i] \in trIn' \ M /\ Host[PartOrder[i]] \in W /\ Goes(PartOrder[i])
      <3>1. i \in 1 .. n /\ i < z
        BY <1>1, <1>2
      <3>2. CASE i < a
        <4>1. i \in 1..(a - 1) /\ i <= a
          BY <1>1, <3>1, <3>2
        <4>2. PartOrder[i] \in r.walked <=> PartOrder[i] \in trIn' \ M /\ Host[PartOrder[i]] \in r.walked /\ Goes(PartOrder[i])
          BY <4>1 DEF WalkFits
        <4> HIDE DEF W, Goes
        <4>3. QED  BY <3>1, <3>2, <4>1, <4>2, <1>13, <1>14
      <3>3. CASE a <= i
        <4> HIDE DEF W, Goes
        <4>1. i <= z
          BY <3>1, <1>1, <1>2
        <4>2. QED  BY <3>1, <3>3, <4>1, <1>15, <1>16, <1>17
      <3>4. i < a \/ a <= i
        BY <1>1, <3>1
      <3>5. QED  BY <3>2, <3>3, <3>4
    <2> HIDE DEF W
    <2>3. QED  BY <2>1, <2>2, <1>12 DEF WalkFits
  <1>19. Stops(r) # {} => z \in 1 .. n /\ a <= z /\ Draws(r, z)
    BY <1>1, <1>2, WalkStops DEF Stops
  <1>20. ASSUME NEW i \in 1 .. n
         PROVE  PartOrder[i] \in Walk(r).drawn <=>
                  /\ i <= (IF Stops(r) = {} THEN n ELSE z)
                  /\ PartOrder[i] \in trIn' /\ Host[PartOrder[i]] \in W
    <2>1. PartOrder[i] \in r.drawn <=> i <= a - 1 /\ PartOrder[i] \in trIn' /\ Host[PartOrder[i]] \in r.walked
      BY <1>1 DEF DrawnFits
    <2>2. PartOrder[i] \in P <=> i \in a..(z - 1) /\ Draws(r, i)
      BY <1>7
    <2>3. Stops(r) # {} => (PartOrder[i] = PartOrder[z] <=> i = z)
      BY <1>6, <1>19
    <2>4. Stops(r) = {} => z = n + 1
      BY WalkStops, <1>1
    <2>5. PartOrder[i] \in Walk(r).drawn <=> PartOrder[i] \in r.drawn \/ PartOrder[i] \in P \/ (Stops(r) # {} /\ i = z)
      BY <1>3, <2>3
    <2> HIDE DEF W, P
    <2>6. CASE i < a
      BY <2>1, <2>2, <2>4, <2>5, <2>6, <1>1, <1>2, <1>14
    <2>7. CASE a <= i /\ i < z
      <3>1. i <= z /\ i \in a..(z - 1) /\ ~(i <= a - 1) /\ i # z
        BY <2>7, <1>1, <1>2
      <3>2. QED  BY <2>7, <2>1, <2>2, <2>4, <2>5, <3>1, <1>1, <1>2, <1>16
    <2>8. CASE i = z
      <3>1. a <= i /\ i <= z /\ ~(i \in a..(z - 1)) /\ ~(i <= a - 1)
        BY <2>8, <1>1, <1>2
      <3>2. QED  BY <2>8, <2>1, <2>2, <2>4, <2>5, <3>1, <1>1, <1>2, <1>16, <1>19
    <2>9. CASE z < i
      BY <2>1, <2>2, <2>4, <2>5, <2>9, <1>1, <1>2
    <2>10. QED  BY <2>6, <2>7, <2>8, <2>9, <1>1, <1>2
  <1>21. MissedBefore(M, z - 1)
    <2> SUFFICES ASSUME NEW p \in M PROVE \E i \in 1..(z - 1) : p = PartOrder[i]
      BY DEF MissedBefore
    <2>1. PICK i \in 1..(a - 1) : p = PartOrder[i]
      BY DEF MissedBefore
    <2>2. i \in 1..(z - 1)
      BY <1>1, <1>2
    <2>3. QED  BY <2>1, <2>2
  <1>22. Stops(r) # {} => PartOrder[z] \in trIn' /\ Host[PartOrder[z]] \in W
    BY <1>16, <1>19, <1>2
  <1> HIDE DEF W, z, n
  <1>23. DrawnFits(Walk(r).drawn, IF Stops(r) = {} THEN n ELSE z, trIn', W)
    BY <1>1, <1>20 DEF DrawnFits
  <1>24. QED  BY <1>18, <1>21, <1>22, <1>23 DEF W, z, n

(* Where a walk ends: at the page it is to draw, or at a part to wait for.   *)
LEMMA WalkEnds ==
  ASSUME NEW r \in RenderTypes, NEW M \in SUBSET AllParts, r.next <= Len(PartOrder) + 1, trIn' \subseteq AllParts,
         WalkFits(r.walked, r.next - 1, trIn', M, r.view, trCollapsed'),
         DrawnFits(r.drawn, r.next - 1, trIn', r.walked), MissedBefore(M, r.next - 1),
         NEW q, q = [Walk(r) EXCEPT !.missed = M]
  PROVE  /\ q.waits = GunNode => PageFitsTree(Drawn(q), trIn', M, r.view, trCollapsed')
         /\ q.waits # GunNode => WaitsFit(q, trIn', r.view, trCollapsed')
  <1> DEFINE w == Walk(r)
             z == WalkGoes(r)
  <1>1. w \in RenderTypes
    BY WalkKeeps
  <1>2. /\ q.walked = w.walked /\ q.drawn = w.drawn /\ q.next = z + 1 /\ q.held /\ q.view = r.view
        /\ q.missed = M /\ q.waits = (IF Stops(r) = {} THEN GunNode ELSE PartOrder[z])
    <2>1. /\ w.view = r.view /\ w.held /\ w.next = z + 1
          /\ w.waits = (IF Stops(r) = {} THEN GunNode ELSE PartOrder[z])
      BY WalkKeeps
    <2> HIDE DEF w, z
    <2>2. QED  BY <1>1, <2>1 DEF RenderTypes, w
  <1>3. /\ WalkFits(q.walked, z - 1, trIn', M, r.view, trCollapsed')
        /\ DrawnFits(q.drawn, IF Stops(r) = {} THEN Len(PartOrder) ELSE z, trIn', q.walked)
        /\ MissedBefore(M, z - 1)
        /\ Stops(r) # {} => PartOrder[z] \in trIn' /\ Host[PartOrder[z]] \in q.walked
    BY <1>2, WalkFollows
  <1>4. r.next \in Nat /\ 1 <= r.next /\ Len(PartOrder) \in Nat
    BY OrderOfParts DEF RenderTypes
  <1>5. CASE Stops(r) = {}
    <2>1. z - 1 = Len(PartOrder)
      BY <1>5, <1>4, WalkStops
    <2>2. WalkFits(q.walked, Len(PartOrder), trIn', M, r.view, trCollapsed')
      BY <1>3, <2>1
    <2>3. DrawnFits(q.drawn, Len(PartOrder), trIn', q.walked)
      BY <1>3, <1>5
    <2>4. DrawnFits(InGrid(q), Len(PartOrder), trIn', q.walked)
      BY OrderOfParts DEF DrawnFits, InGrid
    <2>5. PageFitsTree(Drawn(q), trIn', M, r.view, trCollapsed')
      BY <2>2, <2>3, <2>4 DEF PageFitsTree, Drawn
    <2>6. QED  BY <2>5, <1>2, <1>5
  <1>6. CASE Stops(r) # {}
    <2>1. z \in Nat /\ z \in DOMAIN PartOrder
      BY <1>4, <1>6, WalkStops
    <2> HIDE DEF z
    <2>2. (z + 1) - 1 = z /\ (z + 1) - 2 = z - 1
      BY <2>1
    <2>3. q.next - 1 = z /\ q.next - 2 = z - 1 /\ q.waits = PartOrder[z]
      BY <2>2, <1>2, <1>6
    <2>4. WaitsFit(q, trIn', r.view, trCollapsed')
      BY <2>1, <2>3, <1>2, <1>3, <1>6 DEF WaitsFit
    <2>5. PartOrder[z] # GunNode
      BY <2>1, OrderOfParts
    <2>6. QED  BY <2>3, <2>4, <2>5
  <1>7. QED  BY <1>5, <1>6

LEMMA DrawnIsTyped ==
  ASSUME NEW r \in RenderTypes, trIn' \subseteq AllParts
  PROVE  Drawn(r) \in [slots : SUBSET TreeNodes, parts : SUBSET AllParts]
  BY DEF Drawn, InGrid, RenderTypes

(* A page that is drawn anew.                                                *)
LEMMA RenderStarts ==
  ASSUME TreeTypes, trIn' \subseteq AllParts, trView' \in {"list", "grid"}, trTimers' \in Nat,
         NEW rest, rest \subseteq RenderTypes, \A q \in rest : q.page <= trPages /\ q.waits # GunNode,
         NEW els, StartRender(rest, els)
  PROVE  TreeInv'
  <1> DEFINE r == [NewRender(trPages + 1) EXCEPT !.view = trView']
             w == Walk(r)
  <1>1. trPages \in Nat
    BY DEF TreeTypes
  <1>2. r = [page |-> trPages + 1, view |-> trView', next |-> 1, walked |-> {GunNode}, drawn |-> {},
             waits |-> GunNode, held |-> TRUE, missed |-> {}]
    <2> DEFINE page == trPages + 1
               view == trView'
               yes == TRUE
               v == [page |-> page, view |-> trView, next |-> 1, walked |-> {GunNode}, drawn |-> {},
                     waits |-> GunNode, held |-> yes, missed |-> {}]
    <2>1. v = NewRender(page)
      BY DEF NewRender
    <2> HIDE DEF page, view, yes
    <2>2. [v EXCEPT !.view = view] = [page |-> page, view |-> view, next |-> 1, walked |-> {GunNode}, drawn |-> {},
             waits |-> GunNode, held |-> yes, missed |-> {}]
      OBVIOUS
    <2>3. QED  BY <2>1, <2>2 DEF page, view, yes
  <1>3. GunNode \in TreeNodes /\ {GunNode} \subseteq TreeNodes
    BY DEF TreeNodes
  <1>4. r \in RenderTypes
    <2> HIDE DEF r
    <2>1. trPages + 1 \in Nat /\ 1 \in Nat \ {0} /\ {} \subseteq AllParts
      BY <1>1
    <2>2. QED  BY <2>1, <1>2, <1>3 DEF RenderTypes
  <1>5. r.next = 1 /\ r.walked = {GunNode} /\ r.drawn = {} /\ r.missed = {} /\ r.page = trPages + 1 /\ r.view = trView'
    BY <1>2
  <1>6. /\ trPages' = trPages + 1 /\ trMissed' = {}
        /\ trRenders' = (IF w.waits = GunNode THEN rest ELSE rest \cup {w})
        /\ trShown' = (IF Writes(w) THEN Drawn(w) ELSE [slots |-> {}, parts |-> {}])
    BY DEF StartRender, KeepRender
  <1> HIDE DEF r
  <1>7. w \in RenderTypes /\ w.page = trPages + 1 /\ w.missed = {}
    BY <1>4, <1>5, WalkKeeps
  <1>8. w = [w EXCEPT !.missed = {}]
    <2> HIDE DEF w
    <2>1. QED  BY <1>7 DEF RenderTypes
  <1>9. WalkFits(r.walked, r.next - 1, trIn', {}, r.view, trCollapsed')
    BY <1>5 DEF WalkFits
  <1>10. DrawnFits(r.drawn, r.next - 1, trIn', r.walked) /\ MissedBefore({}, r.next - 1)
    BY <1>5, OrderOfParts DEF DrawnFits, MissedBefore
  <1>11. /\ w.waits = GunNode => PageFitsTree(Drawn(w), trIn', {}, trView', trCollapsed')
         /\ w.waits # GunNode => WaitsFit(w, trIn', trView', trCollapsed')
    <2>1. r.next <= Len(PartOrder) + 1 /\ {} \in SUBSET AllParts
      BY <1>5, OrderOfParts
    <2> DEFINE q == [Walk(r) EXCEPT !.missed = {}]
    <2>2. /\ q.waits = GunNode => PageFitsTree(Drawn(q), trIn', {}, r.view, trCollapsed')
          /\ q.waits # GunNode => WaitsFit(q, trIn', r.view, trCollapsed')
      BY <1>4, <1>9, <1>10, <2>1, WalkEnds
    <2>3. q = w
      BY <1>8
    <2>4. QED  BY <2>2, <2>3, <1>5
  <1>12. Drawn(w) \in [slots : SUBSET TreeNodes, parts : SUBSET AllParts]
    BY <1>7, DrawnIsTyped
  <1> HIDE DEF w
  <1>13. \A q \in rest : q.page \in Nat /\ q.page # trPages + 1 /\ q.page <= trPages + 1
    BY <1>1 DEF RenderTypes
  <1>14. trShown' \in [slots : SUBSET TreeNodes, parts : SUBSET AllParts]
    BY <1>6, <1>12
  <1>15. trRenders' \subseteq RenderTypes /\ \A q \in trRenders' : q.page <= trPages' /\ q.waits # GunNode
    BY <1>1, <1>6, <1>7, <1>13
  <1>16. Walking' = IF w.waits = GunNode THEN {} ELSE {w}
    BY <1>6, <1>7, <1>13 DEF Walking
  <1>17. TreeTypes'
    <2>1. \A q, s \in trRenders' : q.page = trPages' /\ s.page = trPages' => q = s
      BY <1>16 DEF Walking
    <2>2. QED  BY <2>1, <1>1, <1>6, <1>14, <1>15 DEF TreeTypes
  <1>18. PageIsDue'
    <2>1. CASE w.waits = GunNode
      <3>1. trShown' = Drawn(w)
        BY <2>1, <1>6 DEF Writes
      <3>2. QED  BY <2>1, <3>1, <1>6, <1>11, <1>16 DEF PageIsDue
    <2>2. CASE w.waits # GunNode
      BY <2>2, <1>6, <1>7, <1>11, <1>16 DEF PageIsDue
    <2>3. QED  BY <2>1, <2>2
  <1>19. QED  BY <1>17, <1>18 DEF TreeInv

(* The slots a walk waited for.                                              *)
LEMMA RenderGoesOn ==
  ASSUME TreeInv, NEW r \in trRenders, NEW ok \in BOOLEAN, RenderSlotsArrive(r, ok)
  PROVE  TreeInv'
  <1> DEFINE goesIn == ok /\ r.held /\ OpenIn(r, r.waits)
             s == [r EXCEPT !.walked = IF goesIn THEN @ \cup {r.waits} ELSE @]
             M == IF ok THEN r.missed ELSE r.missed \cup {r.waits}
             q == [Walk(s) EXCEPT !.missed = M]
             onPage == r.page = trPages
  <1>1. r \in RenderTypes /\ TreeTypes
    BY DEF TreeInv, TreeTypes
  <1>2. s \in RenderTypes /\ s.next = r.next /\ s.view = r.view /\ s.page = r.page /\ s.missed = r.missed
        /\ s.drawn = r.drawn /\ s.walked = IF goesIn THEN r.walked \cup {r.waits} ELSE r.walked
    <2> HIDE DEF goesIn
    <2>1. QED  BY <1>1 DEF RenderTypes
  <1>3. UNCHANGED <<trIn, trView, trCollapsed, trInstalls, trTimers, trPages>>
    BY DEF RenderSlotsArrive
  <1> HIDE DEF s
  <1>4. Walk(s) \in RenderTypes /\ Walk(s).missed = r.missed /\ Walk(s).page = r.page
    BY <1>2, WalkKeeps
  <1>5. q = [Walk(s) EXCEPT !.missed = IF ok THEN @ ELSE @ \cup {r.waits}]
    <2> DEFINE v == Walk(s)
    <2> HIDE DEF v
    <2>1. v.missed = r.missed /\ v \in RenderTypes
      BY <1>4 DEF v
    <2>2. [v EXCEPT !.missed = M] = [v EXCEPT !.missed = IF ok THEN @ ELSE @ \cup {r.waits}]
      BY <2>1 DEF RenderTypes
    <2>3. QED  BY <2>2 DEF v
  <1>6. /\ trRenders' = (IF q.waits = GunNode THEN trRenders \ {r} ELSE (trRenders \ {r}) \cup {q})
        /\ trShown' = (IF onPage /\ Writes(q) THEN Drawn(q) ELSE trShown)
        /\ trMissed' = (IF onPage THEN q.missed ELSE trMissed)
    <2> HIDE DEF q, M
    <2>1. QED  BY <1>5 DEF RenderSlotsArrive, KeepRender, s
  <1> HIDE DEF q
  <1>7. M \in SUBSET AllParts /\ r.waits \in AllParts
    BY <1>1 DEF TreeTypes, RenderTypes, TreeNodes
  <1>8. q \in RenderTypes /\ q.page = r.page /\ q.missed = M
    <2> HIDE DEF M
    <2>1. QED  BY <1>4, <1>7 DEF q, RenderTypes
  <1> HIDE DEF M
  <1>9. trIn' \subseteq AllParts
    BY <1>1, <1>3 DEF TreeTypes
  <1>10. Drawn(q) \in [slots : SUBSET TreeNodes, parts : SUBSET AllParts]
    BY <1>8, <1>9, DrawnIsTyped
  <1>11. TreeTypes'
    <2>1. trShown' \in [slots : SUBSET TreeNodes, parts : SUBSET AllParts]
      BY <1>1, <1>6, <1>10 DEF TreeTypes
    <2>2. trRenders' \subseteq RenderTypes /\ \A p \in trRenders' : p.page <= trPages' /\ p.waits # GunNode
      BY <1>1, <1>3, <1>6, <1>8 DEF TreeTypes
    <2>3. \A p, t \in trRenders' : p.page = trPages' /\ t.page = trPages' => p = t
      BY <1>1, <1>3, <1>6, <1>8 DEF TreeTypes
    <2>4. trMissed' \subseteq AllParts
      BY <1>1, <1>6, <1>7, <1>8 DEF TreeTypes
    <2>5. QED  BY <2>1, <2>2, <2>3, <2>4, <1>1, <1>3 DEF TreeTypes
  <1>12. ASSUME onPage, trInstalls = {}, trTimers = 0
         PROVE  /\ q.waits = GunNode => PageFitsTree(Drawn(q), trIn', M, trView', trCollapsed')
                /\ q.waits # GunNode => WaitsFit(q, trIn', trView', trCollapsed')
    <2>1. r \in Walking
      BY <1>12 DEF Walking
    <2>2. WaitsFit(r, trIn, trView, trCollapsed)
      BY <2>1, <1>12 DEF TreeInv, PageIsDue
    <2>3. /\ r.view = trView' /\ r.held /\ r.next - 1 \in DOMAIN PartOrder /\ r.waits = PartOrder[r.next - 1]
          /\ r.waits \in trIn' /\ Host[r.waits] \in r.walked
          /\ WalkFits(r.walked, r.next - 2, trIn', r.missed, trView', trCollapsed')
          /\ DrawnFits(r.drawn, r.next - 1, trIn', r.walked)
          /\ MissedBefore(r.missed, r.next - 2)
      BY <2>2, <1>3 DEF WaitsFit
    <2> DEFINE n == Len(PartOrder)
               a == r.next - 1
               N == s.walked
    <2>4. n \in Nat /\ DOMAIN PartOrder = 1 .. n /\ r.next \in Nat /\ a \in 1 .. n /\ r.next - 2 = a - 1
      BY <1>1, <2>3, OrderOfParts DEF RenderTypes
    <2>5. \A i, j \in 1 .. n : PartOrder[i] = PartOrder[j] => i = j
      BY <2>4, OrderOfParts
    <2>6. \A i \in 1 .. n : Host[PartOrder[i]] = GunNode \/ \E j \in 1 .. n : j < i /\ PartOrder[j] = Host[PartOrder[i]]
      <3>1. \A i \in 1 .. n : \A j \in 1..(i - 1) : j \in 1 .. n /\ j < i
        BY <2>4
      <3>2. QED  BY <3>1, <2>4, OrderOfParts
    <2>7. N = IF ok /\ IsOpen(trView', trCollapsed', r.waits) THEN r.walked \cup {r.waits} ELSE r.walked
      BY <1>2, <2>3 DEF OpenIn, IsOpen
    <2>8. M = IF ok THEN r.missed ELSE r.missed \cup {r.waits}
      BY DEF M
    <2>9. r.waits = PartOrder[a] /\ r.waits # GunNode /\ r.waits \notin r.missed /\ r.waits \notin r.walked
      <3>1. \A i \in 1..(a - 1) : i \in 1 .. n /\ i # a
        BY <2>4
      <3>2. PartOrder[a] # GunNode
        BY <2>4, OrderOfParts
      <3>3. \A i \in 1..(a - 1) : PartOrder[i] # PartOrder[a]
        BY <3>1, <2>4, <2>5
      <3> HIDE DEF a
      <3>4. QED  BY <2>3, <2>4, <3>2, <3>3 DEF WalkFits, MissedBefore, a
    <2> HIDE DEF N, a, n
    <2>10. WalkFits(r.walked, a - 1, trIn', r.missed, trView', trCollapsed') /\ MissedBefore(r.missed, a - 1)
           /\ DrawnFits(r.drawn, a, trIn', r.walked)
      BY <2>3, <2>4 DEF a
    <2>11. \A i \in 1 .. n : i < a \/ i = a => (Host[PartOrder[i]] \in N <=> Host[PartOrder[i]] \in r.walked)
      <3> SUFFICES ASSUME NEW i \in 1 .. n, i < a \/ i = a PROVE Host[PartOrder[i]] # r.waits
        BY <2>7
      <3>1. CASE Host[PartOrder[i]] = GunNode
        BY <3>1, <2>9
      <3>2. CASE \E j \in 1 .. n : j < i /\ PartOrder[j] = Host[PartOrder[i]]
        BY <3>2, <2>4, <2>5, <2>9
      <3>3. QED  BY <3>1, <3>2, <2>6
    <2>12. \A i \in 1 .. n : i # a => (PartOrder[i] \in N <=> PartOrder[i] \in r.walked)
                                 /\ (PartOrder[i] \in M <=> PartOrder[i] \in r.missed)
      BY <2>4, <2>5, <2>7, <2>8, <2>9
    <2>13. WalkFits(N, a, trIn', M, trView', trCollapsed')
      <3>1. GunNode \in N
        BY <2>7, <2>10 DEF WalkFits
      <3>2. \A p \in N : p = GunNode \/ \E i \in 1 .. a : p = PartOrder[i]
        <4>1. a \in 1 .. a /\ \A i \in 1..(a - 1) : i \in 1 .. a
          BY <2>4
        <4>2. QED  BY <4>1, <2>7, <2>9, <2>10 DEF WalkFits
      <3>3. ASSUME NEW i \in 1 .. a
            PROVE  PartOrder[i] \in N <=>
                     /\ PartOrder[i] \in trIn' \ M /\ Host[PartOrder[i]] \in N
                     /\ IsOpen(trView', trCollapsed', PartOrder[i])
        <4>1. i \in 1 .. n /\ (i < a \/ i = a)
          BY <2>4
        <4>2. CASE i < a
          <5>1. i \in 1..(a - 1) /\ i # a
            BY <4>1, <4>2, <2>4
          <5>2. QED  BY <4>1, <4>2, <5>1, <2>10, <2>11, <2>12 DEF WalkFits
        <4>3. CASE i = a
          <5>1. Host[r.waits] \in N /\ r.waits \in trIn'
            BY <4>1, <4>3, <2>3, <2>9, <2>11
          <5>2. r.waits \in M <=> ~ok
            BY <2>8, <2>9
          <5>3. r.waits \in N <=> ok /\ IsOpen(trView', trCollapsed', r.waits)
            BY <2>7, <2>9
          <5>4. QED  BY <4>3, <5>1, <5>2, <5>3, <2>9
        <4>4. QED  BY <4>1, <4>2, <4>3
      <3>4. QED  BY <3>1, <3>2, <3>3 DEF WalkFits
    <2>14. DrawnFits(s.drawn, a, trIn', N)
      <3>1. \A i \in 1 .. n : i <= a => i < a \/ i = a
        BY <2>4
      <3>2. DOMAIN PartOrder = 1 .. n
        BY <2>4
      <3>3. \A i \in 1 .. n : PartOrder[i] \in r.drawn <=> i <= a /\ PartOrder[i] \in trIn' /\ Host[PartOrder[i]] \in r.walked
        BY <3>2, <2>10 DEF DrawnFits
      <3>4. \A i \in 1 .. n : PartOrder[i] \in s.drawn <=> i <= a /\ PartOrder[i] \in trIn' /\ Host[PartOrder[i]] \in N
        BY <3>1, <3>3, <1>2, <2>11
      <3>5. QED  BY <3>2, <3>4 DEF DrawnFits
    <2>15. MissedBefore(M, a)
      <3>1. a \in 1 .. a /\ \A i \in 1..(a - 1) : i \in 1 .. a
        BY <2>4
      <3>2. QED  BY <3>1, <2>8, <2>9, <2>10 DEF MissedBefore
    <2>16. s.next - 1 = a /\ s.next <= Len(PartOrder) + 1 /\ s.view = trView'
      BY <1>2, <2>3, <2>4 DEF a, n
    <2>17. QED
      <3> USE DEF N
      <3>1. WalkFits(s.walked, s.next - 1, trIn', M, s.view, trCollapsed')
        BY <2>13, <2>16
      <3>2. DrawnFits(s.drawn, s.next - 1, trIn', s.walked)
        BY <2>14, <2>16
      <3>3. MissedBefore(M, s.next - 1)
        BY <2>15, <2>16
      <3>4. q = [Walk(s) EXCEPT !.missed = M]
        BY DEF q
      <3>5. /\ q.waits = GunNode => PageFitsTree(Drawn(q), trIn', M, s.view, trCollapsed')
            /\ q.waits # GunNode => WaitsFit(q, trIn', s.view, trCollapsed')
        BY <3>1, <3>2, <3>3, <3>4, <1>2, <1>7, <1>9, <2>16, WalkEnds
      <3>6. QED  BY <3>5, <2>16
  <1>13. CASE onPage
    <2>1. \A p \in trRenders : p.page = trPages => p = r
      BY <1>1, <1>13 DEF TreeTypes
    <2>2. Walking' = IF q.waits = GunNode THEN {} ELSE {q}
      BY <2>1, <1>3, <1>6, <1>8, <1>13 DEF Walking
    <2>3. trMissed' = M
      BY <1>6, <1>8, <1>13
    <2>4. ASSUME trInstalls' = {}, trTimers' = 0, q.waits = GunNode
          PROVE  PageFitsTree(trShown', trIn', trMissed', trView', trCollapsed')
      <3>1. trShown' = Drawn(q)
        BY <2>4, <1>6, <1>13 DEF Writes
      <3>2. QED  BY <3>1, <2>3, <2>4, <1>3, <1>12, <1>13
    <2>5. ASSUME trInstalls' = {}, trTimers' = 0, q.waits # GunNode
          PROVE  WaitsFit(q, trIn', trView', trCollapsed') /\ trMissed' = q.missed
      BY <2>3, <2>5, <1>3, <1>8, <1>12, <1>13
    <2>6. PageIsDue'
      BY <2>2, <2>4, <2>5 DEF PageIsDue
    <2>7. QED  BY <2>6, <1>11 DEF TreeInv
  <1>14. CASE ~onPage
    <2>1. Walking' = Walking
      BY <1>3, <1>6, <1>8, <1>14 DEF Walking
    <2>2. trShown' = trShown /\ trMissed' = trMissed
      BY <1>6, <1>14
    <2>3. PageIsDue'
      BY <2>1, <2>2, <1>3 DEF TreeInv, PageIsDue
    <2>4. QED  BY <2>3, <1>11 DEF TreeInv
  <1>15. QED  BY <1>13, <1>14

(* The slots that the page should hold are the ones that fit.                *)
LEMMA ExpectedFits ==
  ASSUME NEW W, WalkFits(W, Len(PartOrder), trIn, trMissed, trView, trCollapsed)
  PROVE  Expected = W
  <1> DEFINE n == Len(PartOrder)
             Rest(E, i) ==
               LET p == PartOrder[i] IN
               IF p \in trIn \ trMissed /\ Host[p] \in E[i - 1] /\ (trView = "grid" \/ p \notin trCollapsed)
               THEN E[i - 1] \cup {p} ELSE E[i - 1]
             Is(E) == E = [i \in 0 .. n |-> IF i = 0 THEN {GunNode} ELSE Rest(E, i)]
             F == [i \in 0 .. n |-> {GunNode} \cup {PartOrder[k] : k \in {l \in 1 .. i : PartOrder[l] \in W}}]
             E == CHOOSE E : Is(E)
  <1>1. n \in Nat /\ DOMAIN PartOrder = 1 .. n
    BY OrderOfParts
  <1> HIDE DEF n
  <1>2. \A i \in 1 .. n : i \in 0 .. n /\ i - 1 \in 0 .. n /\ i # 0 /\ i \in Nat
    BY <1>1
  <1>3. \A i \in 1 .. n : Host[PartOrder[i]] = GunNode \/ \E j \in 1..(i - 1) : PartOrder[j] = Host[PartOrder[i]]
    BY <1>1, OrderOfParts
  <1>4. \A i \in 0 .. n : \A x : x \in F[i] <=> x = GunNode \/ \E k \in 1 .. i : x = PartOrder[k] /\ x \in W
    OBVIOUS
  <1>5. GunNode \in W
    BY DEF WalkFits
  <1>6. F[0] = {GunNode}
    <2>1. 0 \in 0 .. n /\ 1 .. 0 = {}
      BY <1>1
    <2> HIDE DEF F
    <2>2. QED  BY <2>1, <1>4
  <1>7. ASSUME NEW i \in 1 .. n PROVE F[i] = Rest(F, i)
    <2> DEFINE p == PartOrder[i]
    <2>1. Host[p] \in F[i - 1] <=> Host[p] \in W
      <3>1. \A x : x \in F[i - 1] <=> x = GunNode \/ \E k \in 1..(i - 1) : x = PartOrder[k] /\ x \in W
        BY <1>2, <1>4
      <3> HIDE DEF F
      <3>2. QED  BY <3>1, <1>3, <1>5
    <2>2. p \in W <=> p \in trIn \ trMissed /\ Host[p] \in W /\ (trView = "grid" \/ p \notin trCollapsed)
      BY DEF WalkFits, IsOpen, n
    <2>3. \A x : x \in F[i] <=> x \in F[i - 1] \/ (x = p /\ p \in W)
      <3>1. \A k : k \in 1 .. i <=> k \in 1..(i - 1) \/ k = i
        BY <1>1
      <3>2. \A x : x \in F[i - 1] <=> x = GunNode \/ \E k \in 1..(i - 1) : x = PartOrder[k] /\ x \in W
        BY <1>2, <1>4
      <3>3. \A x : x \in F[i] <=> x = GunNode \/ \E k \in 1 .. i : x = PartOrder[k] /\ x \in W
        BY <1>2, <1>4
      <3> HIDE DEF F
      <3>4. QED  BY <3>1, <3>2, <3>3
    <2> HIDE DEF F
    <2>4. CASE p \in W
      <3>1. F[i] = F[i - 1] \cup {p}
        BY <2>3, <2>4
      <3>2. QED  BY <3>1, <2>1, <2>2, <2>4
    <2>5. CASE p \notin W
      <3>1. F[i] = F[i - 1]
        BY <2>3, <2>5
      <3>2. QED  BY <3>1, <2>1, <2>2, <2>5
    <2>6. QED  BY <2>4, <2>5
  <1>8. Is(F)
    <2>1. F = [i \in 0 .. n |-> F[i]]
      OBVIOUS
    <2> DEFINE R(i) == IF i = 0 THEN {GunNode} ELSE Rest(F, i)
    <2>2. \A i \in 0 .. n : F[i] = R(i)
      <3> HIDE DEF F
      <3>1. \A i \in 0 .. n : i = 0 \/ i \in 1 .. n
        BY <1>1
      <3> HIDE DEF Rest
      <3>2. QED  BY <3>1, <1>6, <1>7
    <2> HIDE DEF F, R
    <2>3. F = [i \in 0 .. n |-> R(i)]
      BY <2>1, <2>2
    <2>4. QED  BY <2>3 DEF R
  <1>9. Is(E)
    <2> HIDE DEF Is
    <2>1. QED  BY <1>8
  <1>10. Expected = E[n]
    BY DEF Expected, n
  <1> HIDE DEF E, F
  <1>11. E[0] = {GunNode} /\ \A i \in 1 .. n : E[i] = Rest(E, i)
    <2>1. 0 \in 0 .. n
      BY <1>1
    <2>2. QED  BY <2>1, <1>2, <1>9
  <1>12. \A i \in 0 .. n : E[i] = F[i]
    <2> DEFINE N == {i \in 0 .. n : E[i] # F[i]}
    <2>1. SUFFICES ASSUME N # {} PROVE FALSE
      OBVIOUS
    <2>2. N \subseteq Nat
      OBVIOUS
    <2>3. PICK i \in N : \A j \in N : i <= j
      <3> HIDE DEF N
      <3>1. QED  BY <2>1, <2>2, LeastNumber
    <2>4. i # 0
      BY <1>6, <1>11
    <2>5. i \in 1 .. n /\ i - 1 \in 0 .. n /\ ~(i <= i - 1)
      BY <2>4, <1>1
    <2>6. E[i - 1] = F[i - 1]
      BY <2>3, <2>5
    <2>7. E[i] = F[i]
      BY <2>5, <2>6, <1>7, <1>11
    <2>8. QED  BY <2>7
  <1>13. F[n] = W
    <2>1. n \in 0 .. n
      BY <1>1
    <2>2. \A x \in W : x = GunNode \/ \E k \in 1 .. n : x = PartOrder[k]
      BY DEF WalkFits, n
    <2>3. QED  BY <2>1, <2>2, <1>4, <1>5
  <1>14. n \in 0 .. n
    BY <1>1
  <1>15. QED  BY <1>10, <1>12, <1>13, <1>14

LEMMA TreeShows == TreeInv => TreeShowsTheBuild
  <1> SUFFICES ASSUME TreeInv, AtRest
               PROVE  trShown.slots = Expected /\ trShown.parts = {p \in trIn : Host[p] \in Expected}
    BY DEF TreeShowsTheBuild
  <1>1. TreeTypes /\ trRenders = {} /\ trInstalls = {} /\ trTimers = 0
    BY DEF TreeInv, AtRest
  <1>2. PageFitsTree(trShown, trIn, trMissed, trView, trCollapsed)
    BY <1>1 DEF TreeInv, PageIsDue, Walking
  <1>3. Expected = trShown.slots
    BY <1>2, ExpectedFits DEF PageFitsTree
  <1>4. trShown.parts \subseteq AllParts /\ trIn \subseteq AllParts
    BY <1>1 DEF TreeTypes
  <1>5. \A i \in DOMAIN PartOrder :
          PartOrder[i] \in trShown.parts <=> PartOrder[i] \in trIn /\ Host[PartOrder[i]] \in trShown.slots
    <2>1. \A i \in DOMAIN PartOrder : i <= Len(PartOrder)
      <3> DEFINE n == Len(PartOrder)
      <3>1. DOMAIN PartOrder = 1 .. n
        BY OrderOfParts
      <3> HIDE DEF n
      <3>2. \A i \in DOMAIN PartOrder : i <= n
        BY <3>1
      <3>3. QED  BY <3>2 DEF n
    <2>2. QED  BY <2>1, <1>2 DEF PageFitsTree, DrawnFits
  <1>6. \A p \in AllParts : p \in trShown.parts <=> p \in trIn /\ Host[p] \in trShown.slots
    BY <1>5, OrderOfParts
  <1>7. trShown.parts = {p \in trIn : Host[p] \in trShown.slots}
    BY <1>4, <1>6
  <1>8. QED  BY <1>3, <1>7

LEMMA TreeStarts == TreeRenderInit => TreeInv
  <1> SUFFICES ASSUME TreeRenderInit PROVE TreeInv
    OBVIOUS
  <1>1. /\ trIn = {} /\ trView \in {"list", "grid"} /\ trCollapsed = {}
        /\ trInstalls = {} /\ trTimers = 0 /\ trPages = 1 /\ trRenders = {}
        /\ trShown = [slots |-> {GunNode}, parts |-> {}] /\ trMissed = {}
    BY DEF TreeRenderInit
  <1>2. TreeTypes
    BY <1>1 DEF TreeTypes, TreeNodes
  <1>3. PageFitsTree(trShown, trIn, trMissed, trView, trCollapsed)
    <2>1. trShown.slots = {GunNode} /\ trShown.parts = {}
      BY <1>1
    <2>2. \A i \in 1 .. Len(PartOrder) : PartOrder[i] # GunNode
      <3>1. \A i \in DOMAIN PartOrder : PartOrder[i] # GunNode
        <4>1. GunNode \notin AllParts
          BY OrderOfParts
        <4>2. \A i \in DOMAIN PartOrder : PartOrder[i] \in AllParts
          BY OrderOfParts
        <4>3. QED  BY <4>1, <4>2
      <3>2. QED  BY <3>1, OrderOfParts
    <2>3. QED  BY <1>1, <2>1, <2>2 DEF PageFitsTree, WalkFits, DrawnFits
  <1>4. QED  BY <1>1, <1>2, <1>3 DEF TreeInv, PageIsDue, Walking

LEMMA RendersAreTyped ==
  ASSUME TreeTypes
  PROVE  /\ trIn \subseteq AllParts /\ trPages \in Nat /\ trTimers \in Nat /\ trView \in {"list", "grid"}
         /\ trRenders \subseteq RenderTypes /\ \A q \in trRenders : q.page <= trPages /\ q.waits # GunNode
  BY DEF TreeTypes

LEMMA TreeSteps == TreeInv /\ [TreeRenderNext]_trVars => TreeInv'
  <1> SUFFICES ASSUME TreeInv, [TreeRenderNext]_trVars PROVE TreeInv'
    OBVIOUS
  <1>1. TreeTypes /\ PageIsDue
    BY DEF TreeInv
  <1>2. ASSUME NEW p \in AllParts, InstallPart3(p) PROVE TreeInv'
    <2>1. trIn' = trIn \cup {p} /\ UNCHANGED <<trView, trCollapsed, trTimers>>
      BY <1>2 DEF InstallPart3
    <2>2. trIn' \subseteq AllParts
      BY <2>1, <1>1 DEF TreeTypes
    <2>3. CASE p \in trCached
      <3>1. StartRender(trRenders, [trEls EXCEPT ![p] = 0])
        BY <1>2, <2>3 DEF InstallPart3
      <3>2. QED  BY <3>1, <2>1, <2>2, <1>1, RendersAreTyped, RenderStarts
    <2>4. CASE p \notin trCached
      <3>1. trInstalls' # {} /\ UNCHANGED <<trPages, trRenders, trShown, trMissed>>
        BY <1>2, <2>4 DEF InstallPart3
      <3>2. TreeTypes'
        BY <3>1, <2>1, <2>2, <1>1 DEF TreeTypes
      <3>3. QED  BY <3>1, <3>2 DEF TreeInv, PageIsDue
    <2>5. QED  BY <2>3, <2>4
  <1>3. ASSUME NEW p \in AllParts, NEW ok \in BOOLEAN, InstallSlotsArrive(p, ok) PROVE TreeInv'
    <2>1. UNCHANGED <<trIn, trView, trTimers>> /\ StartRender(trRenders, trEls)
      BY <1>3 DEF InstallSlotsArrive
    <2>2. QED  BY <2>1, <1>1, RendersAreTyped, RenderStarts
  <1>4. ASSUME NEW p \in AllParts, RemovePart3(p) PROVE TreeInv'
    <2> DEFINE gone == Subtree(p)
               rest == {Detached(r, gone) : r \in trRenders}
    <2>1. trIn' = trIn \ gone /\ UNCHANGED <<trView, trTimers>>
          /\ \E els : StartRender(rest, els)
      BY <1>4 DEF RemovePart3
    <2> HIDE DEF gone
    <2>2. ASSUME NEW r \in trRenders
          PROVE  Detached(r, gone) \in RenderTypes /\ Detached(r, gone).page <= trPages /\ Detached(r, gone).waits # GunNode
      <3>1. r \in RenderTypes /\ r.page <= trPages /\ r.waits # GunNode
        BY <1>1, RendersAreTyped
      <3> DEFINE held == r.held /\ r.waits \notin gone
      <3>2. held \in BOOLEAN
        OBVIOUS
      <3>3. Detached(r, gone) = [r EXCEPT !.walked = @ \ gone, !.drawn = @ \ gone, !.held = held]
        BY <3>1 DEF Detached, RenderTypes
      <3> HIDE DEF held
      <3> DEFINE walked == r.walked \ gone
                 drawn == r.drawn \ gone
      <3>4. r = [page |-> r.page, view |-> r.view, next |-> r.next, walked |-> r.walked,
                 drawn |-> r.drawn, waits |-> r.waits, held |-> r.held, missed |-> r.missed]
        BY <3>1 DEF RenderTypes
      <3>5. walked \subseteq TreeNodes /\ drawn \subseteq AllParts
        BY <3>1 DEF RenderTypes
      <3>6. Detached(r, gone) = [r EXCEPT !.walked = walked, !.drawn = drawn, !.held = held]
        BY <3>3, <3>4
      <3> HIDE DEF walked, drawn
      <3>7. Detached(r, gone) =
              [page |-> r.page, view |-> r.view, next |-> r.next, walked |-> walked,
               drawn |-> drawn, waits |-> r.waits, held |-> held, missed |-> r.missed]
        BY <3>4, <3>6
      <3>8. r.page \in Nat /\ r.view \in {"list", "grid"} /\ r.next \in Nat \ {0} /\ r.waits \in TreeNodes /\ r.missed \subseteq AllParts
        BY <3>1 DEF RenderTypes
      <3>9. Detached(r, gone) \in RenderTypes
        BY <3>2, <3>5, <3>7, <3>8 DEF RenderTypes
      <3>10. QED  BY <3>1, <3>7, <3>9
    <2>3. rest \subseteq RenderTypes /\ \A q \in rest : q.page <= trPages /\ q.waits # GunNode
      BY <2>2
    <2> HIDE DEF rest
    <2>4. trIn' \subseteq AllParts
      BY <2>1, <1>1 DEF TreeTypes
    <2>5. QED  BY <2>1, <2>3, <2>4, <1>1, RendersAreTyped, RenderStarts
  <1>5. ASSUME SwitchView PROVE TreeInv'
    <2>1. UNCHANGED <<trIn, trTimers>> /\ trView' \in {"list", "grid"} /\ StartRender(trRenders, trEls)
      BY <1>5 DEF SwitchView
    <2>2. QED  BY <2>1, <1>1, RendersAreTyped, RenderStarts
  <1>6. ASSUME NEW p \in AllParts, ToggleCollapse(p) PROVE TreeInv'
    <2>1. UNCHANGED <<trIn, trView, trInstalls>>
      BY <1>6 DEF ToggleCollapse
    <2>2. CASE p \in trCollapsed
      <3>1. UNCHANGED trTimers /\ StartRender(trRenders, trEls)
        BY <1>6, <2>2 DEF ToggleCollapse
      <3>2. QED  BY <2>1, <3>1, <1>1, RendersAreTyped, RenderStarts
    <2>3. CASE p \notin trCollapsed
      <3>1. trTimers' = trTimers + 1 /\ UNCHANGED <<trPages, trRenders, trShown, trMissed>>
        BY <1>6, <2>3 DEF ToggleCollapse
      <3>2. trTimers' \in Nat /\ trTimers' # 0
        BY <3>1, <1>1 DEF TreeTypes
      <3>3. TreeTypes'
        BY <2>1, <3>1, <3>2, <1>1 DEF TreeTypes
      <3>4. QED  BY <3>2, <3>3 DEF TreeInv, PageIsDue
    <2>4. QED  BY <2>2, <2>3
  <1>7. ASSUME CollapseTimer PROVE TreeInv'
    <2>1. UNCHANGED <<trIn, trView>> /\ trTimers > 0 /\ trTimers' = trTimers - 1 /\ StartRender(trRenders, trEls)
      BY <1>7 DEF CollapseTimer
    <2>2. trTimers' \in Nat
      BY <2>1, <1>1 DEF TreeTypes
    <2>3. QED  BY <2>1, <2>2, <1>1, RendersAreTyped, RenderStarts
  <1>8. ASSUME UNCHANGED trVars PROVE TreeInv'
    BY <1>1, <1>8 DEF trVars, TreeInv, TreeTypes, PageIsDue, Walking
  <1>9. QED
    BY <1>2, <1>3, <1>4, <1>5, <1>6, <1>7, <1>8, RenderGoesOn DEF TreeRenderNext

(* Drawing the build (tree.js, attachment-grid.js): in every behaviour of    *)
(* TreeRenderSpec, for any tree of parts, the page at rest shows the build.  *)
THEOREM TreeStaysShown == TreeRenderSpec => []TreeShowsTheBuild
  BY TreeShows, TreeStarts, TreeSteps, PTL DEF TreeRenderSpec
================================================================================
