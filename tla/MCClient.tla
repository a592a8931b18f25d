------------------------------- MODULE MCClient -------------------------------
(***************************************************************************)
(* The modules of the page on small instances.  They share no variables,   *)
(* so what one of them can do does not depend on where the others are:     *)
(* a behaviour moves the component in focus, and the others rest in their  *)
(* first state.  The values of the constants come first, by module.        *)
(***************************************************************************)
EXTENDS EventStream, Tabs, TabPreview, FleaPrices, BuildCost, StatsPanel, SlotTable,
        SavedBuilds, BuildCode, Builder3D, GridLayout, TreeRender, OptimizerSolve,
        OptimizerFilters, OptimizerRanges, Graph, Atlas, AtlasLookup,
        ArmorRun, ArmorLoadout, EngineQueue, BuildPreview, Tracker, Leaderboard, News,
        CommunityBuilds, TLC

(* Texts of a server: two events and a result, with a comment, with CR LF  *)
(* and a result in two lines, and with CR; two that end too early.         *)
EmptyLine(eol) == <<eol, eol>>
Event(n)   == <<"data:", "progress", n>>
CRLF           == <<"CR", "LF">>
StreamTextsDef == {
  <<>>,
  Event("1") \o EmptyLine("LF") \o <<":">> \o EmptyLine("LF") \o Event("2") \o EmptyLine("LF")
    \o <<"data:", "result">> \o EmptyLine("LF"),
  <<"data:", "progress">> \o CRLF \o <<"data:", "1">> \o CRLF \o CRLF
    \o <<"data:", "result">> \o CRLF \o <<"data:", "x">> \o CRLF
    \o CRLF \o Event("2") \o EmptyLine("LF"),
  Event("1") \o EmptyLine("CR") \o <<"data:", "error">> \o EmptyLine("CR") \o Event("2")
    \o EmptyLine("CR"),
  Event("1") \o EmptyLine("LF") \o <<"data:">> \o EmptyLine("LF"),
  Event("1") \o EmptyLine("LF") \o <<"data:", "result", "LF">>}

(* Tabs: nothing was kept, or two tabs of guns.                            *)
RestoredGun(id, build, community) ==
  [id |-> id, kind |-> "gun", pinned |-> FALSE, content |-> build, community |-> community]
RestoredTabsDef == {<<>>, <<RestoredGun(1, Factory, NoTab), RestoredGun(2, Bare, Bare)>>}

(* BuildCost: the gun may be sold as a preset only, and its parts at every *)
(* order of the traders' and the flea market's prices; 0 is not sold.      *)
Prices(receiver, preset, stock, sight) ==
  [receiver |-> receiver, preset |-> preset, stock |-> stock, sight |-> sight]
MarketsDef ==
  {[trader |-> Prices(r, 0, 2, 3), level |-> Prices(2, 1, 1, 2),
    flea |-> [pvp |-> Prices(5, p, 1, 0), pve |-> Prices(0, p, 4, q)]] :
     r \in {0, 4}, p \in {0, 5}, q \in {1, 5}}

(* SlotTable: A holds AC, whose part is loaded; B is empty.                *)
SlotPaths  == [A |-> <<"A">>, AC |-> <<"A", "AC">>, B |-> <<"B">>]
SlotStock  == [A |-> TRUE, AC |-> TRUE, B |-> FALSE]

(* BuildCode: a gun with two slots that take the same mount, which has a   *)
(* slot of its own; one part is not in the frozen table of version 6.      *)
CodedGun == <<1, 0, 0>>
Mount    == <<1, 1, 0>>
Sight    == <<1, 1, 1>>
NewSight == <<0, 0>>
Rail1    == <<2, 0, 0>>
Rail2    == <<2, 0, 1>>
Top      == <<2, 1, 1>>
CodeSlots   == (CodedGun :> <<Rail1, Rail2>>) @@ (Mount :> <<Top>>) @@ (Sight :> <<>>)
                 @@ (NewSight :> <<>>)
CodeAllowed == (Rail1 :> {Mount}) @@ (Rail2 :> {Mount, Sight}) @@ (Top :> {Sight, NewSight})
FrozenItemsDef == <<Sight, CodedGun, Mount>>
FrozenSlotsDef ==
  (CodedGun :> <<[slot |-> Rail1, candidates |-> <<Sight, Mount>>],
                 [slot |-> Rail2, candidates |-> <<>>]>>)
    @@ (Mount :> <<[slot |-> Top, candidates |-> <<Sight>>]>>)

(* GridLayout: one override that is fixed and one that may yield.          *)
Fixed    == {<<6, 1>>}
Flexible == {<<7, -1>>}

(* TreeRender: q is fitted on p.                                           *)
TreeOrder == <<"p", "q", "s">>
TreeHosts == [p |-> "gun", q |-> "p", s |-> "gun"]

(* OptimizerFilters: a part that fits both guns, and one of each that is  *)
(* banned by default.                                                      *)
GunFits == [g \in Guns |-> IF g = "m4" THEN {"kobra", "rail"} ELSE {"rail"}]

ZoomedOut == -1

(* Atlas: an item with rows in both files, and a row of no item.           *)
Row(file, id, kind, new, matches) ==
  [file |-> file, id |-> id, kind |-> kind, newItem |-> new, matches |-> matches]
ListRows ==
  <<Row(1, "x", "added", TRUE, FALSE), Row(1, "", "changed", FALSE, TRUE),
    Row(2, "x", "removed", FALSE, FALSE)>>

PlayerCarries == [p1 |-> {}, p2 |-> {"w1"}]

(* ArmorLoadout: a helmet with a slot whose default part has a slot of its *)
(* own with a default, a carrier with a plate, and a part the goggles      *)
(* refuse; a tab that kept nothing, and one whose parts changed since.     *)
Helmet == <<"eq", "headwear", "">>
Rig    == <<"eq", "rig", "">>
Side(p) == <<"att", "headwear", p>>
EquipFits == [headwear |-> {"fast", "tin"}, eyewear |-> {"goggles"}, rig |-> {"carrier"},
              armor |-> {"vest"}]
OpenedSlots == {
  [holder |-> Helmet, item |-> "fast", slot |-> Side("side"),
   allowed |-> {"ears", "shield"}, default |-> "ears"],
  [holder |-> Side("side"), item |-> "ears", slot |-> Side("side/jaw"),
   allowed |-> {"mandible"}, default |-> "mandible"],
  [holder |-> Rig, item |-> "carrier", slot |-> <<"plate", "rig", "front">>,
   allowed |-> {"steel"}, default |-> "steel"]}
RefusedPairs == {<<"ears", "goggles">>}
Bareheaded == [k \in {} |-> EmptySlot]
KeptLoadouts ==
  {Bareheaded,
   (Helmet :> AsNew("fast")) @@ (Side("side") :> AsNew("shield")) @@ (Rig :> AsNew("old"))}

(* News: the language of the page while it rests.                           *)
FirstTongue == CHOOSE l \in Tongues : TRUE

(* CommunityBuilds: a tag that both builds have, and one of its own.        *)
BuildTags == [b1 |-> {"cqb"}, b2 |-> {"cqb", "meta"}]

--------------------------------------------------------------------------------
VARIABLE focus      \* the component that takes the steps

Parked(component) == focus # component

ClientInit ==
  /\ focus \in {"stream", "tabs", "preview", "flea", "cost", "stats", "slot", "saved", "code",
                "3d", "grid", "tree", "solve", "filters", "ranges", "graph", "atlas", "list",
                "lookup", "armor", "loadout", "engine", "picture", "tracker", "leaderboard",
                "news", "community"}
  /\ EventStreamInit      /\ (Parked("stream") => esText = <<>>)
  /\ TabsInit             /\ (Parked("tabs") => stored = <<>>)
  /\ TabPreviewInit       /\ (Parked("preview") => tpActive = CHOOSE c \in Chips : TRUE)
  /\ FleaInit             /\ (Parked("flea") => fpMode = "pvp")
  /\ CostInit             /\ (Parked("cost") => ctMarket = CHOOSE m \in Markets : TRUE)
  /\ StatsInit
  /\ SlotTableInit
  /\ SavedBuildsInit
  /\ BuildCodeInit
  /\ Builder3DInit        /\ (Parked("3d") => b3Mode = "2d" /\ b3Style = "table")
  /\ GridLayoutInit       /\ (Parked("grid") => glNames = {"Mount"} /\ glReserved = {})
  /\ TreeRenderInit       /\ (Parked("tree") => trView = "list")
  /\ OptimizerSolveInit   /\ (Parked("solve") => osGun = "m4" /\ osKitbash)
  /\ OptimizerFiltersInit
  /\ OptimizerRangesInit  /\ (Parked("ranges") => rgGun = "m4")
  /\ GraphInit            /\ (Parked("graph") => grChart = "graph")
  /\ AtlasInit            /\ (Parked("atlas") => atHash = NoSet /\ atTourDone)
  /\ AtlasListInit        /\ (Parked("list") => alMode = "file")
  /\ LookupInit
  /\ ArmorRunInit
  /\ ArmorLoadoutInit     /\ (Parked("loadout") => ldTabs = [t \in LoadoutTabs |-> Bareheaded])
  /\ EngineQueueInit
  /\ BuildPreviewInit     /\ (Parked("picture") => bpOn)
  /\ TrackerInit
  /\ LeaderboardInit
  /\ NewsInit             /\ (Parked("news") => nwTongue = FirstTongue /\ nwSeen /\ nwChecking)
  /\ CommunityInit        /\ (Parked("community") => cmServer.liked = {})

ClientNext ==
  /\ UNCHANGED focus
  /\ IF Parked("stream")  THEN UNCHANGED esVars ELSE EventStreamNext
  /\ IF Parked("tabs")    THEN UNCHANGED tabVars ELSE TabsNext
  /\ IF Parked("preview") THEN UNCHANGED tpVars ELSE TabPreviewNext
  /\ IF Parked("flea")    THEN UNCHANGED fpVars ELSE FleaNext
  /\ IF Parked("cost")    THEN UNCHANGED ctVars ELSE CostNext
  /\ IF Parked("stats")   THEN UNCHANGED spVars ELSE StatsNext
  /\ IF Parked("slot")    THEN UNCHANGED stVars ELSE SlotTableNext
  /\ IF Parked("saved")   THEN UNCHANGED sbVars ELSE SavedBuildsNext
  /\ IF Parked("code")    THEN UNCHANGED bcVars ELSE BuildCodeNext
  /\ IF Parked("3d")      THEN UNCHANGED b3vars ELSE Builder3DNext
  /\ IF Parked("grid")    THEN UNCHANGED glVars ELSE GridLayoutNext
  /\ IF Parked("tree")    THEN UNCHANGED trVars ELSE TreeRenderNext
  /\ IF Parked("solve")   THEN UNCHANGED osVars ELSE OptimizerSolveNext
  /\ IF Parked("filters") THEN UNCHANGED ofVars ELSE OptimizerFiltersNext
  /\ IF Parked("ranges")  THEN UNCHANGED rgVars ELSE OptimizerRangesNext
  /\ IF Parked("graph")   THEN UNCHANGED grVars ELSE GraphNext
  /\ IF Parked("atlas")   THEN UNCHANGED atVars ELSE AtlasNext
  /\ IF Parked("list")    THEN UNCHANGED alVars ELSE AtlasListNext
  /\ IF Parked("lookup")  THEN UNCHANGED luVars ELSE LookupNext
  /\ IF Parked("armor")   THEN UNCHANGED arVars ELSE ArmorRunNext
  /\ IF Parked("loadout") THEN UNCHANGED ldVars ELSE ArmorLoadoutNext
  /\ IF Parked("engine")  THEN UNCHANGED eqVars ELSE EngineQueueNext
  /\ IF Parked("picture") THEN UNCHANGED bpVars ELSE BuildPreviewNext
  /\ IF Parked("tracker") THEN UNCHANGED tkVars ELSE TrackerNext
  /\ IF Parked("leaderboard") THEN UNCHANGED lbVars ELSE LeaderboardNext
  /\ IF Parked("news")    THEN UNCHANGED nwVars ELSE NewsNext
  /\ IF Parked("community") THEN UNCHANGED cmVars ELSE CommunityNext

clientVars ==
  <<focus, esVars, tabVars, tpVars, fpVars, ctVars, spVars, stVars, sbVars, bcVars, b3vars,
    glVars, trVars, osVars, ofVars, rgVars, grVars, atVars, alVars, luVars, arVars, ldVars,
    eqVars, bpVars, tkVars, lbVars, nwVars, cmVars>>

ClientSpec == ClientInit /\ [][ClientNext]_clientVars

--------------------------------------------------------------------------------
(* Properties of components that belong together; the others are checked   *)
(* under their own names.                                                  *)

(* Where the attachments are drawn, and which ones are.                    *)
AttachmentsAreShown == CellsAreApart /\ (Parked("tree") \/ TreeShowsTheBuild)

(* What the optimizer is asked: the parts and the bounds of the drawer.    *)
SettingsAreTheUsers == FiltersAreTheUsers /\ ConstraintsAreBackfilled

(* The atlas: the set that is open, and the list of its rows.              *)
AtlasIsRight == AtlasShowsTheSelection /\ (Parked("list") \/ ListHoldsWhatPasses)

(* Pictures of builds: over a tab, and of the build on the page.            *)
PicturesAreRight == PreviewsAreRight /\ (Parked("picture") \/ PictureIsRight)

(* The pages around the builder.                                            *)
PagesAreRight ==
  TrackerShowsItsPeriod /\ ClicksLoadWhatIsSeen /\ NewsStepsAside /\ CommunityIsRight

(* The armor simulator: the results on the page and the worker behind them.*)
ResultsAreRight == ResultsAreOfTheSetup /\ RequestsAreAnswered
================================================================================
