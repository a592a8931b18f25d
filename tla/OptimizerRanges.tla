--------------------------- MODULE OptimizerRanges ----------------------------
(* The bounds of the optimizer's constraints (modules/optimizer.js): the   *)
(* ranges of a gun's magazines and spread under the market settings come   *)
(* from the server, one request at a time, and the exact floor of the      *)
(* spread, which takes a solve, is asked for on demand.                    *)
(*                                                                         *)
(* A bound is the gun and the settings it was computed for; the value of a *)
(* constraint is its placeholder, filled from a bound, or chosen.          *)
EXTENDS OptimizerFilters

CONSTANTS MaxMarkets, MaxFloors   \* bounds: MaxMarkets, MaxFloors

ASSUME RangeConstants == {MaxMarkets, MaxFloors} \subseteq Nat

VARIABLES
  rgGun, rgOpen,      \* the gun of the build; the drawer is visible
  rgFor,              \* the gun of the settings in memory
  rgMarket,           \* the market settings, by how often they changed
  rgCached,           \* _statRanges
  rgCall,             \* _statRangesPromise: of what, and who waits for it
  rgApplied,          \* _magCapacityValues and _moaRange
  rgFloor, rgFetching, rgFloorCalls, rgFloors,   \* the exact floor
  rgExact, rgOn, rgValue        \* the spread constraint
rgFloorVars == <<rgFloor, rgFetching, rgFloorCalls, rgFloors>>
rgConstraint == <<rgExact, rgOn, rgValue>>
rgVars == <<rgGun, rgOpen, rgFor, rgMarket, rgCached, rgCall, rgApplied, rgFloorVars,
            rgConstraint>>

Bounds == [gun : Guns, market : 0..MaxMarkets]
Bound == [gun |-> rgGun, market |-> rgMarket]
NoRangeCall == [of |-> NoGun, by |-> {}]

OptimizerRangesInit ==
  /\ rgGun \in Guns /\ rgOpen = FALSE /\ rgFor = NoGun /\ rgMarket = 0
  /\ rgCached = NoGun /\ rgCall = NoRangeCall /\ rgApplied = NoGun
  /\ rgFloor = NoGun /\ rgFetching = FALSE /\ rgFloorCalls = {} /\ rgFloors = 0
  /\ rgExact = TRUE /\ rgOn = FALSE /\ rgValue = "placeholder"

-------------------------------------------------------------------------------
(* The exact floor. *)

(* _fetchExactMoaFloor: nothing while one is being fetched.                *)
FetchFloor ==
  IF rgFetching \/ rgFloors = MaxFloors THEN UNCHANGED rgFloorVars
  ELSE /\ rgFetching' = TRUE /\ rgFloors' = rgFloors + 1
       /\ rgFloorCalls' = rgFloorCalls \cup {Bound} /\ UNCHANGED rgFloor

FloorArrives ==
  /\ \E call \in rgFloorCalls :
       /\ rgFloor' \in {call, NoGun}
       /\ rgFloorCalls' = rgFloorCalls \ {call}
  /\ rgFetching' = FALSE
  /\ UNCHANGED <<rgGun, rgOpen, rgFor, rgMarket, rgCached, rgCall, rgApplied, rgFloors,
                 rgConstraint>>

-------------------------------------------------------------------------------
(* The ranges. *)

(* _applyStatRanges: a constraint that is on gets its value now, if it was *)
(* turned on before there was one to give.                                 *)
Backfilled(on, value) ==
  IF on /\ value = "placeholder" THEN "filled" ELSE value

(* _fetchStatRanges for whoever is to apply it, when no answer for the gun *)
(* is cached: the request under way, whatever it is for, or a new one.     *)
FetchRanges(bound, who) ==
  rgCall' = IF rgCall # NoRangeCall THEN [rgCall EXCEPT !.by = @ \cup {who}]
            ELSE [of |-> bound, by |-> {who}]

RangesArrive ==
  /\ rgCall # NoRangeCall /\ rgCall' = NoRangeCall
  /\ rgCached' = rgCall.of /\ rgApplied' = rgCall.of
  /\ rgValue' = Backfilled(rgOn, rgValue)
  /\ IF "refresh" \in rgCall.by /\ rgExact /\ rgOn THEN FetchFloor
     ELSE UNCHANGED rgFloorVars
  /\ UNCHANGED <<rgGun, rgOpen, rgFor, rgMarket, rgExact, rgOn>>

RangesFail ==
  /\ rgCall # NoRangeCall /\ rgCall' = NoRangeCall
  /\ UNCHANGED <<rgGun, rgOpen, rgFor, rgMarket, rgCached, rgApplied, rgFloorVars,
                 rgConstraint>>

-------------------------------------------------------------------------------
(* The drawer. *)

LeaveForGun ==
  /\ \E g \in Guns : g # rgGun /\ rgGun' = g
  /\ rgOpen' = FALSE
  /\ UNCHANGED <<rgFor, rgMarket, rgCached, rgCall, rgApplied, rgFloorVars, rgConstraint>>

(* _renderOptimizeTab: for another gun the saved constraints are loaded    *)
(* and what was applied is dropped; the cached answer is not.              *)
OpenRanges ==
  LET cached == rgCached # NoGun /\ rgCached.gun = rgGun
  IN /\ ~rgOpen /\ rgOpen' = TRUE /\ rgFor' = rgGun
     /\ \E on \in IF rgFor = rgGun THEN {rgOn} ELSE BOOLEAN,
          value \in IF rgFor = rgGun THEN {rgValue} ELSE {"placeholder", "chosen"} :
          rgOn' = on /\ rgValue' = IF cached THEN Backfilled(on, value) ELSE value
     /\ IF rgFor = rgGun THEN UNCHANGED <<rgExact, rgFloorVars>>
        ELSE /\ rgExact' = TRUE /\ rgFloor' = NoGun /\ rgFetching' = FALSE
             /\ UNCHANGED <<rgFloorCalls, rgFloors>>
     /\ rgApplied' = IF cached THEN rgCached ELSE IF rgFor = rgGun THEN rgApplied ELSE NoGun
     /\ IF cached THEN UNCHANGED rgCall ELSE FetchRanges(Bound, "drawer")
     /\ UNCHANGED <<rgGun, rgMarket, rgCached>>

CloseRanges ==
  /\ rgOpen /\ rgOpen' = FALSE
  /\ UNCHANGED <<rgGun, rgFor, rgMarket, rgCached, rgCall, rgApplied, rgFloorVars,
                 rgConstraint>>

(* Flea market, unpriced parts, game mode, trader and player levels:       *)
(* _refreshStatRanges, also from outside the drawer.                       *)
ChangeMarket ==
  /\ rgMarket < MaxMarkets /\ rgMarket' = rgMarket + 1
  /\ rgCached' = NoGun /\ rgFloor' = NoGun
  /\ FetchRanges([Bound EXCEPT !.market = rgMarket'], "refresh")
  /\ UNCHANGED <<rgGun, rgOpen, rgFor, rgApplied, rgFetching, rgFloorCalls, rgFloors,
                 rgConstraint>>

(* The toggle of the constraint, and that of its exact floor.              *)
ToggleSpread ==
  /\ rgOpen /\ rgOn' = ~rgOn
  /\ rgValue' = IF rgApplied = NoGun THEN rgValue ELSE Backfilled(rgOn', rgValue)
  /\ IF rgOn' /\ rgExact /\ rgFloor = NoGun THEN FetchFloor ELSE UNCHANGED rgFloorVars
  /\ UNCHANGED <<rgGun, rgOpen, rgFor, rgMarket, rgCached, rgCall, rgApplied, rgExact>>

ToggleExactFloor ==
  /\ rgOpen /\ rgOn /\ rgExact' = ~rgExact
  /\ IF rgExact' /\ rgFloor = NoGun THEN FetchFloor ELSE UNCHANGED rgFloorVars
  /\ UNCHANGED <<rgGun, rgOpen, rgFor, rgMarket, rgCached, rgCall, rgApplied, rgOn,
                 rgValue>>

(* _setMaxSpreadValue, between the slider's bounds.                        *)
MoveSpread ==
  /\ rgOpen /\ rgOn /\ rgValue' = "chosen"
  /\ UNCHANGED <<rgGun, rgOpen, rgFor, rgMarket, rgCached, rgCall, rgApplied, rgFloorVars,
                 rgExact, rgOn>>

ResetConstraints ==
  /\ rgOpen /\ rgOn' = FALSE /\ rgValue' = "placeholder"
  /\ UNCHANGED <<rgGun, rgOpen, rgFor, rgMarket, rgCached, rgCall, rgApplied, rgFloorVars,
                 rgExact>>

OptimizerRangesNext ==
  \/ LeaveForGun \/ OpenRanges \/ CloseRanges \/ ChangeMarket
  \/ RangesArrive \/ RangesFail \/ FloorArrives
  \/ ToggleSpread \/ ToggleExactFloor \/ MoveSpread \/ ResetConstraints

-------------------------------------------------------------------------------
(* A constraint that is on never rests at its placeholder once the ranges  *)
(* are known, whether it was turned on before, during or after the request *)
(* or came on from the saved settings; and the spinner of the exact floor  *)
(* turns only while a floor is being computed.                             *)
ConstraintsAreBackfilled ==
  /\ rgOn /\ rgApplied # NoGun => rgValue # "placeholder"
  /\ rgFetching => rgFloorCalls # {}

(* With nothing under way, the drawer's ranges are those of its gun and of *)
(* the market as it is set: a change "invalidates the cached response and  *)
(* re-applies the fresh one" (optimizer.js:987-989).                       *)
RangesAreOfThisMarket ==
  rgOpen /\ rgCall = NoRangeCall => rgApplied \in {NoGun, Bound}
===============================================================================
