----------------------------- MODULE StatsPanel -----------------------------
(***************************************************************************)
(* The stats of the build on the page (src/frontend/modules/stats-panel.js *)
(* with the grenade selector of gun-list.js).  Every edit and setting      *)
(* starts refreshBuildStats: it reads the build, brings the grenade        *)
(* selector in line with the launcher fitted, asks the server, and redraws *)
(* the panel around the two settings panels the user may have open, whose  *)
(* sliders and boxes also change the numbers in place.  The advanced stats *)
(* float above the page in a popover of their own.  In the price view the  *)
(* same refresh draws the cost instead.  A gun is selected throughout.     *)
(***************************************************************************)
EXTENDS Naturals, Sequences, FiniteSets

CONSTANTS
    Calibers,       \* calibers of the launchers that can be fitted
    NoGrenade,      \* no launcher, no grenade chosen
    EmptyField,     \* a number box with nothing in it
    StatLevels,     \* values of the two settings
    MaxRefreshes,   \* bound: refreshes, and cost overviews, out at once
    MaxWired,       \* bound: listeners counted on a field
    MaxStatActs     \* bound: what the user does

ASSUME StatAssumption ==
    /\ StatLevels \subseteq Nat /\ StatLevels # {}
    /\ MaxWired \in Nat \ {0} /\ {MaxRefreshes, MaxStatActs} \subseteq Nat

VARIABLES
    spFitted,       \* the build: the caliber of its launcher
    spFull,         \* assumeFullMag
    spCaliber,      \* ubgl-ammo-select's dataset.caliber
    spOptions,      \* the lists of grenades in it, each by its caliber
    spGrenade,      \* its value: a grenade, by its caliber
    spRow,          \* it is on show
    spMap,          \* ubglAmmoMap, by its caliber
    spPrefs,        \* calibers with a saved grenade
    spOut,          \* refreshes waiting: for the grenades, for the stats
    spPricing,      \* cost overviews waiting for prices
    spView,         \* "build" or "price"
    spPriced,       \* what the cost on the page is of
    spLast,         \* the last* totals: what they were worked out from
    spSet,          \* currentStrengthLevel, currentEquipErgoModifier
    spPanel,        \* the two settings panels
    spSlider, spBox,\* their fields
    spWired,        \* how often their listeners are on them
    spPop,          \* the popover's element
    spPopOpen,      \* hiddenStatsOpen
    spPopOf,        \* the totals it shows
    spActs

spSelector == <<spCaliber, spOptions, spGrenade, spRow, spMap, spPrefs>>
spRequests == <<spOut, spPricing, spPriced>>
spControls == <<spSet, spPanel, spSlider, spBox, spWired>>
spPopover == <<spPop, spPopOpen, spPopOf>>
spVars == <<spFitted, spFull, spSelector, spRequests, spView, spLast,
            spControls, spPopover, spActs>>

Settings == {"strength", "equip"}
Grenades == Calibers \union {NoGrenade}
Least == CHOOSE v \in StatLevels : \A u \in StatLevels : v <= u
Totals == [fitted : Grenades, grenade : Grenades, full : BOOLEAN,
           set : [Settings -> StatLevels]]

StatsTypeOK ==
    /\ spFitted \in Grenades /\ spFull \in BOOLEAN
    /\ spCaliber \in Grenades /\ spGrenade \in Grenades /\ spMap \in Grenades
    /\ spOptions \in Seq(Calibers) /\ spRow \in BOOLEAN /\ spPrefs \subseteq Calibers
    /\ \A r \in spOut : r.n \in 1 .. MaxRefreshes /\ r.at \in {"grenades", "stats"}
    /\ spView \in {"build", "price"}
    /\ spLast \in Totals /\ spPopOf \in Totals
    /\ spSet \in [Settings -> StatLevels]
    /\ spPanel \in [Settings -> {"closed", "open", "closing"}]
    /\ spSlider \in [Settings -> StatLevels]
    /\ spBox \in [Settings -> StatLevels \union {EmptyField}]
    /\ spWired \in [Settings -> 0 .. MaxWired]
    /\ spPop \in {"none", "on", "closing"} /\ spPopOpen \in BOOLEAN
    /\ spActs \in 0 .. MaxStatActs

\* The panel as init draws it, its controls just created.
Initially == [fitted |-> NoGrenade, grenade |-> NoGrenade, full |-> TRUE,
              set |-> [c \in Settings |-> Least]]
StatsInit ==
    /\ spFitted = NoGrenade /\ spFull = TRUE
    /\ spCaliber = NoGrenade /\ spOptions = <<>> /\ spGrenade = NoGrenade
    /\ spRow = FALSE /\ spMap = NoGrenade /\ spPrefs = {}
    /\ spOut = {} /\ spPricing = {} /\ spView = "build"
    /\ spPriced = [fitted |-> NoGrenade, grenade |-> NoGrenade]
    /\ spLast = Initially /\ spSet = Initially.set
    /\ spPanel = [c \in Settings |-> "closed"]
    /\ spSlider = Initially.set /\ spBox = Initially.set
    /\ spWired = [c \in Settings |-> 0]
    /\ spPop = "none" /\ spPopOpen = FALSE /\ spPopOf = Initially
    /\ spActs = 0

StatAct == spActs < MaxStatActs /\ spActs' = spActs + 1

----------------------------------------------------------------------------
\* refreshBuildStats.

Numbers(out) == (1 .. MaxRefreshes) \ {r.n : r \in out}

\* The grenade the cost lists: the selector's, if the map of grenades has it.
Priceable(grenade, map) == IF grenade = map THEN grenade ELSE NoGrenade

\* syncUbglAmmoSelector leaves the selector alone if it has this caliber's list.
GrenadesListed(fitted) == spCaliber = fitted /\ spOptions # <<>>
NeedsList(fitted) == fitted # NoGrenade /\ ~GrenadesListed(fitted)

\* What follows the sync: the cost in the price view, else the request with the
\* grenade the selector now holds.
Proceed(rs, grenade, map, out) ==
    IF spView = "price"
    THEN /\ Cardinality(spPricing) < MaxRefreshes
         /\ spPricing' = spPricing \union
              {[fitted |-> r.fitted, grenade |-> Priceable(grenade, map)] : r \in rs}
         /\ spOut' = out
    ELSE /\ spOut' = out \union {[r EXCEPT !.at = "stats", !.grenade = grenade,
                                           !.set.equip = spSet'.equip] : r \in rs}
         /\ UNCHANGED spPricing

\* k refreshes of the build started by one event; all but the first find the
\* selector as the first one left it.
Refresh(k) ==
    LET rs == {[n |-> n, at |-> "grenades", fitted |-> spFitted',
                grenade |-> NoGrenade, full |-> spFull', set |-> spSet'] :
                 n \in {m \in Numbers(spOut) :
                          Cardinality({i \in Numbers(spOut) : i <= m}) <= k}}
    IN  /\ Cardinality(Numbers(spOut)) >= k
        /\ IF spFitted' = NoGrenade
           THEN /\ spRow' = FALSE /\ spMap' = NoGrenade
                /\ UNCHANGED <<spCaliber, spOptions, spGrenade, spPrefs>>
                /\ Proceed(rs, spGrenade, NoGrenade, spOut)
           ELSE IF NeedsList(spFitted')
           THEN /\ spRow' = TRUE /\ spCaliber' = spFitted'
                /\ spOptions' = <<>> /\ spGrenade' = NoGrenade
                /\ spOut' = spOut \union rs
                /\ UNCHANGED <<spMap, spPrefs, spPricing>>
           ELSE /\ spRow' = TRUE
                /\ UNCHANGED <<spCaliber, spOptions, spGrenade, spMap, spPrefs>>
                /\ Proceed(rs, spGrenade, spMap, spOut)
        /\ UNCHANGED spPriced

\* The grenades arrive and are added to the selector; or their request failed.
GrenadesArrive(r) ==
    /\ r \in spOut /\ r.at = "grenades"
    /\ spOptions' = Append(spOptions, r.fitted) /\ spMap' = r.fitted
    /\ spGrenade' = (IF r.fitted \in spPrefs THEN r.fitted ELSE NoGrenade)
    /\ UNCHANGED spControls
    /\ Proceed({r}, spGrenade', spMap', spOut \ {r})
    /\ UNCHANGED <<spFitted, spFull, spCaliber, spRow, spPrefs, spView, spPriced,
                   spLast, spPopover, spActs>>

GrenadesFail(r) ==
    /\ r \in spOut /\ r.at = "grenades"
    /\ UNCHANGED spControls
    /\ Proceed({r}, spGrenade, spMap, spOut \ {r})
    /\ UNCHANGED <<spFitted, spFull, spSelector, spView, spPriced, spLast,
                   spPopover, spActs>>

\* The server weighs a grenade only with a launcher of its caliber.
Answer(r) == [fitted |-> r.fitted, full |-> r.full, set |-> r.set,
              grenade |-> IF r.full /\ r.grenade = r.fitted THEN r.grenade
                          ELSE NoGrenade]

\* Mutant: the popover that is open is left as it was.
StatsArriveUnder(r) ==
    /\ r \in spOut /\ r.at = "stats"
    /\ spOut' = spOut \ {r}
    /\ spLast' = Answer(r)
    /\ spWired' = [c \in Settings |->
                     IF spPanel[c] = "closed" \/ spWired[c] = MaxWired
                     THEN spWired[c] ELSE spWired[c] + 1]
    /\ spPop' = (IF spPopOpen THEN "on" ELSE "none")
    /\ UNCHANGED <<spFitted, spFull, spSelector, spPricing, spPriced, spView,
                   spSet, spPanel, spSlider, spBox, spPopOpen, spPopOf, spActs>>

\* updateStatsPanel: the totals, the panel drawn around the settings panels,
\* which are wired again, and a popover left open drawn anew.
StatsArrive(r) ==
    /\ r \in spOut /\ r.at = "stats"
    /\ spOut' = spOut \ {r}
    /\ spLast' = Answer(r)
    /\ spWired' = [c \in Settings |->
                     IF spPanel[c] = "closed" \/ spWired[c] = MaxWired
                     THEN spWired[c] ELSE spWired[c] + 1]
    /\ spPop' = (IF spPopOpen THEN "on" ELSE "none")
    /\ spPopOf' = (IF spPopOpen THEN spLast' ELSE spPopOf)
    /\ UNCHANGED <<spFitted, spFull, spSelector, spPricing, spPriced, spView,
                   spSet, spPanel, spSlider, spBox, spPopOpen, spActs>>

StatsFail(r) ==
    /\ r \in spOut /\ r.at = "stats"
    /\ spOut' = spOut \ {r}
    /\ UNCHANGED <<spFitted, spFull, spSelector, spPricing, spPriced, spView,
                   spLast, spControls, spPopover, spActs>>

\* The rest of renderPriceOverview, once the prices are there.
PricesShown(p) ==
    /\ p \in spPricing
    /\ spPricing' = spPricing \ {p} /\ spPriced' = p
    /\ UNCHANGED <<spFitted, spFull, spSelector, spOut, spView, spLast,
                   spControls, spPopover, spActs>>

----------------------------------------------------------------------------
\* The build, its ammunition and the view.

\* A click outside the popover closes it before anything else happens.
ClickAway ==
    IF spPop = "none" THEN UNCHANGED spPopover
    ELSE spPop' = "closing" /\ spPopOpen' = FALSE /\ UNCHANGED spPopOf

Fit(c) ==
    /\ c # spFitted /\ StatAct
    /\ spFitted' = c /\ UNCHANGED <<spFull, spControls>>
    /\ Refresh(1) /\ ClickAway
    /\ UNCHANGED <<spView, spLast>>

ToggleFullMag ==
    /\ StatAct /\ spFull' = ~spFull
    /\ UNCHANGED <<spFitted, spControls>>
    /\ Refresh(1) /\ ClickAway
    /\ UNCHANGED <<spView, spLast>>

\* Choosing a grenade saves it for its caliber.
ChooseGrenade(g) ==
    /\ StatAct /\ spRow /\ spOptions # <<>>
    /\ g = NoGrenade \/ g \in {spOptions[i] : i \in DOMAIN spOptions}
    /\ g # spGrenade /\ Numbers(spOut) # {}
    /\ spGrenade' = g
    /\ spPrefs' = (IF spFitted = NoGrenade THEN spPrefs
                   ELSE IF g = NoGrenade THEN spPrefs \ {spFitted}
                   ELSE spPrefs \union {spFitted})
    /\ UNCHANGED <<spFitted, spFull, spControls, spCaliber, spOptions, spRow,
                   spMap, spView, spPriced, spLast>>
    /\ Proceed({[n |-> CHOOSE n \in Numbers(spOut) : TRUE, at |-> "stats",
                 fitted |-> spFitted, grenade |-> g, full |-> spFull, set |-> spSet]},
               g, spMap, spOut)
    /\ ClickAway

ShowBuildView ==
    /\ StatAct /\ spView = "price" /\ Numbers(spOut) # {}
    /\ spView' = "build"
    /\ UNCHANGED <<spFitted, spFull, spSelector, spPricing, spPriced, spLast,
                   spControls>>
    /\ spOut' = spOut \union
         {[n |-> CHOOSE n \in Numbers(spOut) : TRUE,
           at |-> IF NeedsList(spFitted) THEN "grenades" ELSE "stats",
           fitted |-> spFitted, grenade |-> spGrenade, full |-> spFull, set |-> spSet]}
    /\ ClickAway

ShowPriceView ==
    /\ StatAct /\ spView = "build"
    /\ spView' = "price" /\ Cardinality(spPricing) < MaxRefreshes
    /\ spPricing' = spPricing \union
         {[fitted |-> spFitted, grenade |-> Priceable(spGrenade, spMap)]}
    /\ ClickAway
    /\ UNCHANGED <<spFitted, spFull, spSelector, spOut, spPriced, spLast, spControls>>

----------------------------------------------------------------------------
\* The two settings and their panels.

\* The "i" button: a panel on its way out is only sent out again.
ToggleSettings(c) ==
    /\ StatAct /\ spView = "build"
    /\ IF spPanel[c] = "closed"
       THEN /\ spPanel' = [spPanel EXCEPT ![c] = "open"]
            /\ spSlider' = [spSlider EXCEPT ![c] = spSet[c]]
            /\ spBox' = [spBox EXCEPT ![c] = spSet[c]]
            /\ spWired' = [spWired EXCEPT ![c] = 1]
       ELSE /\ spPanel' = [spPanel EXCEPT ![c] = "closing"]
            /\ UNCHANGED <<spSlider, spBox, spWired>>
    /\ ClickAway
    /\ UNCHANGED <<spFitted, spFull, spSelector, spRequests, spView, spLast, spSet>>

\* A click on the slots puts both panels away.
ClickSlots ==
    /\ StatAct
    /\ spPanel' = [c \in Settings |-> IF spPanel[c] = "closed" THEN "closed" ELSE "closing"]
    /\ ClickAway
    /\ UNCHANGED <<spFitted, spFull, spSelector, spRequests, spView, spLast,
                   spSet, spSlider, spBox, spWired>>

PanelRemoved(c) ==
    /\ spPanel[c] = "closing"
    /\ spPanel' = [spPanel EXCEPT ![c] = "closed"]
    /\ spWired' = [spWired EXCEPT ![c] = 0]
    /\ UNCHANGED <<spFitted, spFull, spSelector, spRequests, spView, spLast,
                   spSet, spSlider, spBox, spPopover, spActs>>

\* Dragging the slider, typing a number: both fields follow, nothing is redrawn.
PutSetting(c, v) ==
    /\ spSet' = [spSet EXCEPT ![c] = v]
    /\ spSlider' = [spSlider EXCEPT ![c] = v] /\ spBox' = [spBox EXCEPT ![c] = v]

Adjust(c, v) ==
    /\ StatAct /\ spPanel[c] = "open" /\ v # spSet[c]
    /\ PutSetting(c, v)
    /\ ClickAway
    /\ UNCHANGED <<spFitted, spFull, spSelector, spRequests, spView, spLast,
                   spPanel, spWired>>

EmptyBox(c) ==
    /\ StatAct /\ spPanel[c] = "open"
    /\ spBox' = [spBox EXCEPT ![c] = EmptyField]
    /\ UNCHANGED <<spFitted, spFull, spSelector, spRequests, spView, spLast,
                   spSet, spPanel, spSlider, spWired, spPopover>>

\* Leaving the box: an empty one gets a value, and every listener refreshes.
LeaveBox(c) ==
    LET v == IF spBox[c] = EmptyField THEN Least ELSE spBox[c] IN
    /\ StatAct /\ spPanel[c] = "open"
    /\ spSet' = [spSet EXCEPT ![c] = v]
    /\ spSlider' = [spSlider EXCEPT ![c] = v] /\ spBox' = [spBox EXCEPT ![c] = v]
    /\ UNCHANGED <<spFitted, spFull, spPanel, spWired, spView, spLast, spPopover>>
    /\ Refresh(spWired[c])

\* The 3D view's aiming skills set the strength from outside the panel.
SetStrengthLevel(v) ==
    /\ StatAct /\ v # spSet["strength"]
    /\ PutSetting("strength", v)
    /\ UNCHANGED <<spFitted, spFull, spSelector, spRequests, spView, spLast,
                   spPanel, spWired, spPopover>>

----------------------------------------------------------------------------
\* The advanced stats popover.

\* Its button takes an element that's on the page away, even one fading out.
PopButton ==
    /\ StatAct /\ spView = "build"
    /\ IF spPop = "none"
       THEN spPop' = "on" /\ spPopOpen' = TRUE /\ spPopOf' = spLast
       ELSE spPop' = "closing" /\ spPopOpen' = FALSE /\ UNCHANGED spPopOf
    /\ UNCHANGED <<spFitted, spFull, spSelector, spRequests, spView, spLast,
                   spControls>>

\* Escape, or its button no longer on the page when it would follow it.
PopDismissed ==
    /\ StatAct /\ spPop # "none"
    /\ ClickAway
    /\ UNCHANGED <<spFitted, spFull, spSelector, spRequests, spView, spLast,
                   spControls>>

PopoverGone ==
    /\ spPop = "closing" /\ spPop' = "none"
    /\ UNCHANGED <<spFitted, spFull, spSelector, spRequests, spView, spLast,
                   spControls, spPopOpen, spPopOf, spActs>>

StatsNext ==
    \/ \E r \in spOut : GrenadesArrive(r) \/ GrenadesFail(r) \/ StatsArrive(r) \/ StatsFail(r)
    \/ \E p \in spPricing : PricesShown(p)
    \/ \E c \in Grenades : Fit(c) \/ ChooseGrenade(c)
    \/ ToggleFullMag \/ ShowBuildView \/ ShowPriceView \/ ClickSlots
    \/ \E c \in Settings :
         \/ ToggleSettings(c) \/ PanelRemoved(c) \/ EmptyBox(c) \/ LeaveBox(c)
         \/ \E v \in StatLevels : Adjust(c, v)
    \/ \E v \in StatLevels : SetStrengthLevel(v)
    \/ PopButton \/ PopDismissed \/ PopoverGone

StatsSpec == StatsInit /\ [][StatsNext]_spVars

----------------------------------------------------------------------------
\* The advanced stats are open exactly while their popover is on the page and
\* not on its way out, and they then show the last totals: redrawing the panel
\* under an open or closing popover neither loses it nor leaves old numbers.
PopoverIsOfTheStats ==
    /\ spPopOpen <=> spPop = "on"
    /\ spPopOpen => spPopOf = spLast

\* An open settings panel shows the setting in force in both its fields (an
\* emptied box aside), whichever of slider, box, 3D view and redraw came last.
FieldsAgree ==
    \A c \in Settings : spPanel[c] = "open" =>
        spSlider[c] = spSet[c] /\ spBox[c] \in {spSet[c], EmptyField}

\* The numbers the panel shows in a second place.
StatsAreShown == StatsTypeOK /\ PopoverIsOfTheStats /\ FieldsAgree

\* A grenade chosen for the launcher fitted is in the cost once the cost is
\* drawn.  (Violated: taking a launcher off empties the map of grenades, and
\* fitting one of the same caliber again finds its list and leaves the map.)
GrenadeIsPriced ==
    (spView = "price" /\ spOut = {} /\ spPricing = {} /\ spFitted # NoGrenade
       /\ spGrenade = spFitted) => spPriced.grenade = spFitted
=============================================================================
