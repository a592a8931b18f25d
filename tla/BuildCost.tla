----------------------------- MODULE BuildCost ------------------------------
(***************************************************************************)
(* The cost overview of the price view (renderPriceOverview in             *)
(* src/frontend/modules/stats-panel.js).  An overview takes the parts on   *)
(* the gun, waits for the flea prices of the price mode it started in, and *)
(* then works the cost out from the mode and the trader levels in force at *)
(* that time.  Changing a level draws one at once, changing the mode one   *)
(* after 160 ms and another once the mode's prices are loaded, so several  *)
(* are on the way at a time.  A build is bought part by part from a bare   *)
(* receiver, or as the gun's factory preset, which brings its own parts.   *)
(* (Rounds are added to either alike, and are left out.)                   *)
(***************************************************************************)
EXTENDS Naturals, FiniteSets

CONSTANTS
    GunParts,       \* parts that can be on the gun
    FactoryParts,   \* those the factory preset comes with
    CostModes,      \* price modes
    FirstMode,
    TopLevel,       \* highest trader level
    Markets,        \* trader offers and flea prices; 0 is no price
    MaxOverviews,   \* bound: overviews on the way at once
    MaxCostActs     \* bound: what the user does

Things == GunParts \union {"receiver", "preset"}

ASSUME CostAssumption ==
    /\ FactoryParts \subseteq GunParts /\ IsFiniteSet(GunParts)
    /\ {"receiver", "preset"} \cap GunParts = {}
    /\ FirstMode \in CostModes /\ "delayed" \notin CostModes
    /\ {TopLevel, MaxOverviews} \subseteq Nat \ {0} /\ MaxCostActs \in Nat
    /\ Markets \subseteq [trader : [Things -> Nat], level : [Things -> Nat],
                          flea : [CostModes -> [Things -> Nat]]]

VARIABLES
    ctMarket,       \* what the traders and the flea market ask
    ctParts,        \* the build
    ctMode,         \* priceMode
    ctLevel,        \* the traders' levels
    ctLoaded,       \* modes whose prices are in the cache
    ctAsked,        \* modes being downloaded
    ctOverviews,    \* overviews on the way
    ctLoading,      \* loadFleaPricesForActiveMode calls that wait, by mode
    ctFetching,     \* _fleaFetching
    ctShown,        \* the overview on the page
    ctActs

ctPrices == <<ctMarket, ctLoaded, ctAsked, ctFetching>>
ctVars == <<ctMarket, ctParts, ctMode, ctLevel, ctLoaded, ctAsked, ctOverviews,
            ctLoading, ctFetching, ctShown, ctActs>>

CostTypeOK ==
    /\ ctParts \subseteq GunParts /\ ctMode \in CostModes
    /\ ctLevel \in 1 .. TopLevel /\ ctFetching \in BOOLEAN
    /\ ctLoaded \subseteq CostModes /\ ctAsked \subseteq CostModes
    /\ \A o \in ctOverviews : o.n \in 1 .. MaxOverviews /\ o.parts \subseteq GunParts
                              /\ o.mode \in CostModes \union {"delayed"}
    /\ ctLoading \subseteq CostModes
    /\ ctShown.parts \subseteq GunParts
    /\ ctShown.base \in {"receiver", "preset", "nothing drawn"}
    /\ ctActs \in 0 .. MaxCostActs

----------------------------------------------------------------------------
\* The costing.

\* _priceInfoForItem: the trader's price if the level is reached, the flea's
\* if it is loaded and the trader has none or asks more; 0 without either.
TraderPrice(x) == IF ctMarket.level[x] <= ctLevel' THEN ctMarket.trader[x] ELSE 0
FleaPrice(x) == IF ctMode' \in ctLoaded' THEN ctMarket.flea[ctMode'][x] ELSE 0
Cheaper(trader, flea) ==
    IF trader # 0 /\ flea # 0
    THEN IF flea < trader THEN flea ELSE trader
    ELSE trader + flea
PriceOf(x) == Cheaper(TraderPrice(x), FleaPrice(x))

SumOf(price, S) ==
    LET sum[T \in SUBSET S] ==
          IF T = {} THEN 0
          ELSE LET x == CHOOSE y \in T : TRUE IN price[x] + sum[T \ {x}]
    IN  sum[S]

\* Mutant: the preset is compared with the bare receiver, not with the builds.
UsesPresetBySticker(price, parts) ==
    price["preset"] # 0 /\ (price["receiver"] = 0 \/ price["preset"] < price["receiver"])

\* A base without a price is never the cheaper one.
UsesPreset(price, parts) ==
    /\ price["preset"] # 0
    /\ \/ price["receiver"] = 0
       \/ price["preset"] + SumOf(price, parts \ FactoryParts)
            < price["receiver"] + SumOf(price, parts)

\* The rows with a price of their own; the preset's parts have none.
Bought(price, parts) ==
    IF UsesPreset(price, parts) THEN {"preset"} \union (parts \ FactoryParts)
    ELSE {"receiver"} \union parts

CostOf(parts) ==
    LET price == [x \in Things |-> PriceOf(x)] IN
    [parts |-> parts, mode |-> ctMode', level |-> ctLevel',
     loaded |-> ctMode' \in ctLoaded',
     base |-> IF UsesPreset(price, parts) THEN "preset" ELSE "receiver",
     total |-> SumOf(price, Bought(price, parts))]

----------------------------------------------------------------------------
CostInit ==
    /\ ctMarket \in Markets
    /\ ctParts = {} /\ ctMode = FirstMode /\ ctLevel = TopLevel
    /\ ctLoaded = {} /\ ctAsked = {FirstMode}
    /\ ctOverviews = {[n |-> 1, parts |-> {}, mode |-> FirstMode]}
    /\ ctLoading = {} /\ ctFetching = FALSE
    /\ ctShown = [parts |-> {}, mode |-> FirstMode, level |-> TopLevel,
                  loaded |-> FALSE, base |-> "nothing drawn", total |-> 0]
    /\ ctActs = 0

CostAct == ctActs < MaxCostActs /\ ctActs' = ctActs + 1
Numbered(os) == CHOOSE n \in 1 .. MaxOverviews : \A o \in os : o.n # n
RoomFor(os) == Cardinality(os) < MaxOverviews

\* The start of renderPriceOverview: a mode without prices is asked for.
Overview(mode) ==
    /\ RoomFor(ctOverviews)
    /\ ctOverviews' = ctOverviews \union
         {[n |-> Numbered(ctOverviews), parts |-> ctParts', mode |-> mode]}

Download(mode) == IF mode \in ctLoaded THEN ctAsked ELSE ctAsked \union {mode}

\* The build changes while the price view is open (undo, redo, another tab).
ChangeBuild(parts) ==
    /\ CostAct /\ parts # ctParts /\ ctParts' = parts
    /\ Overview(ctMode) /\ ctAsked' = Download(ctMode)
    /\ UNCHANGED <<ctMarket, ctMode, ctLevel, ctLoaded, ctLoading, ctFetching, ctShown>>

SetTraderLevel(v) ==
    /\ CostAct /\ v # ctLevel /\ ctLevel' = v /\ UNCHANGED ctParts
    /\ Overview(ctMode) /\ ctAsked' = Download(ctMode)
    /\ UNCHANGED <<ctMarket, ctMode, ctLoaded, ctLoading, ctFetching, ctShown>>

\* The overview follows 160 ms later; the prices are asked for at once.
SetPriceMode(mode) ==
    /\ CostAct /\ mode # ctMode /\ ctMode' = mode /\ UNCHANGED ctParts
    /\ Overview("delayed") /\ ctAsked' = Download(mode)
    /\ ctLoading' = (IF mode \in ctLoaded THEN ctLoading ELSE ctLoading \union {mode})
    /\ UNCHANGED <<ctMarket, ctLevel, ctLoaded, ctFetching, ctShown>>

DelayedOverview(o) ==
    /\ o \in ctOverviews /\ o.mode = "delayed"
    /\ ctOverviews' = (ctOverviews \ {o}) \union
         {[o EXCEPT !.mode = ctMode, !.parts = ctParts]}
    /\ ctAsked' = Download(ctMode)
    /\ UNCHANGED <<ctMarket, ctParts, ctMode, ctLevel, ctLoaded, ctLoading,
                   ctFetching, ctShown, ctActs>>

\* refetchFleaPrices forgets every price, and draws the overview once the
\* active mode's are back.  What was on its way goes into caches dropped here.
RefetchPrices ==
    /\ CostAct /\ ~ctFetching /\ ctFetching' = TRUE
    /\ ctLoaded' = {} /\ ctAsked' = {ctMode} /\ ctLoading' = ctLoading \union {ctMode}
    /\ UNCHANGED <<ctMarket, ctParts, ctMode, ctLevel, ctOverviews, ctShown>>

DownloadDone(mode, ok) ==
    /\ mode \in ctAsked
    /\ ctAsked' = ctAsked \ {mode}
    /\ ctLoaded' = (IF ok THEN ctLoaded \union {mode} ELSE ctLoaded)
    /\ UNCHANGED <<ctMarket, ctParts, ctMode, ctLevel, ctOverviews, ctLoading,
                   ctFetching, ctShown, ctActs>>

\* What waited for the prices goes on: an overview draws whatever came.
ShowOverview(o) ==
    /\ o \in ctOverviews /\ o.mode # "delayed" /\ o.mode \notin ctAsked
    /\ ctOverviews' = ctOverviews \ {o}
    /\ UNCHANGED <<ctPrices, ctParts, ctMode, ctLevel, ctLoading, ctActs>>
    /\ ctShown' = CostOf(o.parts)

\* A mode that was left while it loaded, or failed to load, draws nothing.
PricesLoaded(mode) ==
    /\ mode \in ctLoading /\ mode \notin ctAsked
    /\ ctLoading' = ctLoading \ {mode}
    /\ UNCHANGED <<ctMarket, ctParts, ctMode, ctLevel, ctLoaded, ctShown, ctActs>>
    /\ ctFetching' = FALSE
    /\ IF mode \in ctLoaded /\ mode = ctMode
       THEN Overview(mode) /\ ctAsked' = Download(mode)
       ELSE UNCHANGED <<ctOverviews, ctAsked>>

CostNext ==
    \/ \E parts \in SUBSET GunParts : ChangeBuild(parts)
    \/ \E v \in 1 .. TopLevel : SetTraderLevel(v)
    \/ \E mode \in CostModes :
         \/ SetPriceMode(mode) \/ PricesLoaded(mode)
         \/ \E ok \in BOOLEAN : DownloadDone(mode, ok)
    \/ \E o \in ctOverviews : DelayedOverview(o) \/ ShowOverview(o)
    \/ RefetchPrices

CostSpec == CostInit /\ [][CostNext]_ctVars

----------------------------------------------------------------------------
\* Every way to come by the parts: a base with an offer, every other part not
\* in it from any source open to the player.
Offers(x, s) ==
    (IF ctMarket.trader[x] # 0 /\ ctMarket.level[x] <= s.level
     THEN {ctMarket.trader[x]} ELSE {}) \union
    (IF s.loaded /\ ctMarket.flea[s.mode][x] # 0 THEN {ctMarket.flea[s.mode][x]} ELSE {})
LeastOf(S) == IF S = {} THEN 0 ELSE CHOOSE v \in S : \A u \in S : v <= u
PlanCosts(s) ==
    LET price == [x \in Things |-> LeastOf(Offers(x, s))]
        rest == [receiver |-> s.parts, preset |-> s.parts \ FactoryParts]
    IN  {price[b] + SumOf(price, rest[b]) : b \in {d \in DOMAIN rest : price[d] # 0}}

\* The total on the page is the least any way of buying its parts costs,
\* when a base is on offer.
CostIsTheLeast ==
    LET plans == PlanCosts(ctShown) IN
    ctShown.base # "nothing drawn" /\ plans # {} => ctShown.total = LeastOf(plans)

\* Once nothing is on the way and the mode's prices are loaded, the cost is
\* that of the mode and the levels chosen, however modes, levels and downloads
\* crossed.  (Of the build it is only if the overviews ended in their order.)
CostIsOfTheMarket ==
    (ctOverviews = {} /\ ctLoading = {} /\ ctAsked = {} /\ ctMode \in ctLoaded)
        => ctShown.mode = ctMode /\ ctShown.level = ctLevel /\ ctShown.loaded

\* The cost overview: the sum itself, and what it was worked out from.
CostIsRight == CostTypeOK /\ CostIsTheLeast /\ CostIsOfTheMarket
=============================================================================
