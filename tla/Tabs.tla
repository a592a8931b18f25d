--------------------------------- MODULE Tabs ---------------------------------
(* The desktop tabs of the builder (modules/tab-manager.js).  One build at *)
(* most is live in EFTForge.state; a tab is a record that build is written *)
(* back to.  Loading a tab's build (build-manager.js, loadBuildFromPayload *)
(* over gun-list.js, selectGun) takes several awaits, between which the    *)
(* live tree is bare, then the factory's, then bare again, while the tab   *)
(* already is the active one.                                              *)
(*                                                                         *)
(* A build stands for its weapon, parts and chosen ammunition.  Histories  *)
(* keep HistoryCap undo entries where the code keeps 30.                   *)
EXTENDS Naturals, Sequences, FiniteSets, Subsequences

CONSTANTS
  MaxTabs,      \* tab ids handed out
  Builds,       \* builds a user can make; Bare and Factory are two of them
  Bare, Factory,
  NoLoadout, Loadout,   \* a Ballistics Workbench nothing was picked in, or used
  NoTab,
  HistoryCap,
  RestoredTabs, \* what localStorage may hold when the page is first loaded
  MaxActs       \* bounds what the user does, reloading the page included

Ids == 1 .. MaxTabs

Contents == Builds \cup {NoLoadout, Loadout}
Communities == Builds \cup {NoTab}

(* A tab's record: a gun's build, with the community build it is, or a     *)
(* workbench.                                                              *)
TabRecords == [id : Ids, kind : {"gun", "bench"}, pinned : BOOLEAN,
               content : Contents, community : Communities]

(* Each id once, and the pinned tabs first. *)
InOrder(ts) ==
  /\ \A i, j \in DOMAIN ts : ts[i].id = ts[j].id => i = j
  /\ \A i, j \in DOMAIN ts : i < j /\ ts[j].pinned => ts[i].pinned

(* Ids, random in the code, are counted here.  What an earlier page left   *)
(* behind was whole, and its tabs have the first ids.                      *)
ASSUME TabConstants ==
  /\ MaxTabs \in Nat /\ HistoryCap \in Nat \ {0} /\ MaxActs \in Nat
  /\ {Bare, Factory} \subseteq Builds
  /\ NoTab \notin Builds \cup Ids /\ {NoLoadout, Loadout} \cap Builds = {}
  /\ \A ts \in RestoredTabs :
       /\ ts \in Seq(TabRecords) /\ Len(ts) <= MaxTabs /\ InOrder(ts)
       /\ \A i \in DOMAIN ts :
            ts[i].id <= Len(ts) /\ ts[i].community \in {NoTab, ts[i].content}

VARIABLES
  tabs,         \* state.tabs, left to right
  tabHistory,   \* _tabHistory: the undo history of each id ever handed out
  active,       \* state.activeTabId
  live,         \* currentGun, buildTree, communityBuild and buildHistory
  bench,        \* the workbench: shown, the tab it saves to, its loadout
  flow,         \* the switch under way while _tabSwitchInFlight is set
  closing,      \* tabs whose chip is being animated away
  drag,         \* _td: a drag's tab and the order of its group when it began
  unsaved,      \* the timer of _persistTabsDebounced is running
  stored,       \* the tabs in localStorage
  language,     \* _langSwitching, and the tab to come back to
  nextId,
  acts,         \* how much the user did
  mine,         \* ghost: what the user last saw in each tab
  damaged,      \* ghost: tabs left, closed or failed while they were loading
  edited        \* ghost: tabs edited or duplicated before their load had ended

tabVars == <<tabs, tabHistory, active, live, bench, flow, closing, drag, unsaved,
             stored, language, nextId, acts, mine, damaged, edited>>

-------------------------------------------------------------------------------
(* Records. *)

Open(ts) == {ts[i].id : i \in DOMAIN ts}
TabAt(ts, id) == CHOOSE i \in DOMAIN ts : ts[i].id = id
Tab(ts, id) == ts[TabAt(ts, id)]
IsBench(tab) == tab.kind = "bench"
Without(ts, id) == IF id \in Open(ts) THEN RemoveAt(ts, TabAt(ts, id)) ELSE ts

NewTab(id, kind, content, community) ==
  [id |-> id, kind |-> kind, pinned |-> FALSE,
   content |-> content, community |-> community]

Closed == [on |-> FALSE, build |-> Bare, community |-> NoTab, history |-> <<>>]
NoFlow == [kind |-> "none", tab |-> NoTab, stage |-> "none",
           build |-> Bare, community |-> NoTab]
NoDrag == [tab |-> NoTab, group |-> <<>>]

InFlight == flow.kind # "none"
Loading == InFlight /\ flow.stage # "preparing"

(* _serializeActiveTab: the live build, or the workbench shown, goes into  *)
(* the active tab's record, and its history beside it.                     *)
Flushed(ts) ==
  IF active \notin Open(ts) THEN ts
  ELSE IF IsBench(Tab(ts, active))
  THEN IF bench.tab = active
       THEN [ts EXCEPT ![TabAt(ts, active)].content = bench.loadout] ELSE ts
  ELSE IF live.on THEN [ts EXCEPT ![TabAt(ts, active)].content = live.build] ELSE ts

(* Mutant: the live undo history is not put back when the tab is left.     *)
HistoryNotFlushed(ts) == tabHistory

HistoryFlushed(ts) ==
  IF active \in Open(ts) /\ ~IsBench(Tab(ts, active)) /\ live.on
  THEN [tabHistory EXCEPT ![active] = live.history] ELSE tabHistory

(* syncBuildDisplayName of a live build l and its syncActiveTab: the build *)
(* keeps its community attribution while its parts are the community's.    *)
Attributed(l) == [l EXCEPT !.community = IF @ = l.build THEN @ ELSE NoTab]

Synced(ts, l) ==
  IF active \notin Open(ts) \/ IsBench(Tab(ts, active)) \/ ~l.on THEN ts
  ELSE [ts EXCEPT ![TabAt(ts, active)].content = l.build,
                  ![TabAt(ts, active)].community = Attributed(l).community]

(* pushBuildHistory drops the oldest entry beyond the cap.                 *)
Capped(history) ==
  IF Len(history) > HistoryCap THEN Tail(history) ELSE history

(* _persistTabs. *)
Persist(ts) == stored' = ts

(* _findDuplicateTab: the first tab of the same build.                     *)
Duplicates(ts, build) ==
  {i \in DOMAIN ts : ~IsBench(ts[i]) /\ ts[i].content = build}
FirstDuplicate(ts, build) ==
  ts[CHOOSE i \in Duplicates(ts, build) :
       \A j \in Duplicates(ts, build) : i <= j].id

-------------------------------------------------------------------------------
(* Starting a load. *)

(* selectGun's first part: a bare tree, no attribution, an empty history,  *)
(* and the workbench left; the init data is awaited.                       *)
Selecting == [on |-> TRUE, build |-> Bare, community |-> NoTab, history |-> <<>>]

(* _activateTab(id) over the tabs ts, inside a switch; kept is what        *)
(* localStorage held before it.                                            *)
Activate(ts, id, kept) ==
  LET flushed == Flushed(ts)
      target == Tab(ts, id)
  IN IF id = active
     THEN /\ tabs' = ts /\ flow' = NoFlow /\ stored' = kept
          /\ UNCHANGED <<tabHistory, active, live, bench>>
     ELSE /\ tabs' = flushed
          /\ tabHistory' = HistoryFlushed(ts)
          /\ active' = id
          /\ IF IsBench(target)
             THEN /\ live' = Closed /\ flow' = NoFlow
                  /\ bench' = [on |-> TRUE, tab |-> id, loadout |-> target.content]
                  /\ Persist(flushed)
             ELSE /\ live' = Selecting
                  /\ bench' = [bench EXCEPT !.on = FALSE]
                  /\ flow' = [kind |-> "activate", tab |-> id, stage |-> "init",
                              build |-> target.content,
                              community |-> target.community]
                  /\ stored' = kept

(* switchToTab(id): ignored while a switch is under way.                   *)
SwitchTo(ts, id) ==
  IF InFlight
  THEN tabs' = ts /\ UNCHANGED <<tabHistory, active, live, bench, flow, stored>>
  ELSE Activate(ts, id, stored)

(* A new record, and what its user expects to see in it.                   *)
Expect(id, content, community) ==
  mine' = [mine EXCEPT ![id] = [content |-> content, community |-> community,
                                history |-> <<>>]]

TabsInit ==
  /\ stored \in RestoredTabs /\ tabs = stored /\ nextId = Len(stored) + 1
  /\ active = NoTab /\ live = Closed
  /\ tabHistory = [id \in Ids |-> <<>>]
  /\ bench = [on |-> FALSE, tab |-> NoTab, loadout |-> NoLoadout]
  /\ flow = NoFlow /\ closing = {} /\ drag = NoDrag /\ unsaved = FALSE
  /\ language = [busy |-> FALSE, back |-> NoTab]
  /\ acts = 0
  /\ mine = [id \in Ids |->
       IF id \in Open(stored)
       THEN [content |-> Tab(stored, id).content,
             community |-> Tab(stored, id).community, history |-> <<>>]
       ELSE [content |-> Bare, community |-> NoTab, history |-> <<>>]]
  /\ damaged = {} /\ edited = {}

-------------------------------------------------------------------------------
(* The user. *)

(* A weapon picked in the grid, which shows while nothing is open: its     *)
(* init data is fetched before anything is drawn.                          *)
PickGun ==
  /\ ~InFlight /\ ~live.on /\ ~bench.on /\ nextId \in Ids
  /\ tabs' = Flushed(tabs)
  /\ flow' = [NoFlow EXCEPT !.kind = "pick", !.stage = "preparing"]
  /\ UNCHANGED <<tabHistory, active, live, bench, closing, drag, unsaved, stored,
                 language, nextId, mine, damaged, edited>>

(* The init data of the picked weapon: an open factory build of it is      *)
(* brought up, otherwise a new tab is opened; known = FALSE: it failed.    *)
GunPrepared ==
  /\ flow.stage = "preparing"
  /\ \E known \in BOOLEAN :
       IF known /\ Duplicates(tabs, Factory) # {}
       THEN /\ Activate(tabs, FirstDuplicate(tabs, Factory), stored)
            /\ UNCHANGED <<nextId, mine>>
       ELSE /\ nextId \in Ids
            /\ tabs' = Append(tabs, NewTab(nextId, "gun", Bare, NoTab))
            /\ active' = nextId
            /\ live' = Selecting
            /\ flow' = [flow EXCEPT !.tab = nextId, !.stage = "init",
                                    !.build = Factory]
            /\ bench' = [bench EXCEPT !.on = FALSE]
            /\ nextId' = nextId + 1
            /\ Expect(nextId, Factory, NoTab)
            /\ UNCHANGED <<tabHistory, stored>>
  /\ UNCHANGED <<closing, drag, unsaved, language, damaged, edited>>

(* createTabFromPayload: a saved, community or shared build.               *)
OpenPayload(build, community) ==
  /\ ~InFlight
  /\ LET flushed == Flushed(tabs) IN
       IF Duplicates(flushed, build) # {}
       THEN /\ Activate(flushed, FirstDuplicate(flushed, build), stored)
            /\ UNCHANGED <<nextId, mine>>
       ELSE /\ nextId \in Ids
            /\ tabs' = Append(flushed, NewTab(nextId, "gun", build, community))
            /\ tabHistory' = HistoryFlushed(tabs)
            /\ active' = nextId
            /\ live' = Selecting
            /\ bench' = [bench EXCEPT !.on = FALSE]
            /\ flow' = [kind |-> "payload", tab |-> nextId, stage |-> "init",
                        build |-> build, community |-> community]
            /\ nextId' = nextId + 1
            /\ Expect(nextId, build, community)
            /\ UNCHANGED stored
  /\ UNCHANGED <<closing, drag, unsaved, language, damaged, edited>>

(* openBallisticsTab: an unused workbench is brought up, or a new one.     *)
OpenBallistics ==
  /\ ~InFlight
  /\ LET flushed == Flushed(tabs)
         empty == {i \in DOMAIN flushed :
                     IsBench(flushed[i]) /\ flushed[i].content = NoLoadout}
     IN IF empty # {}
        THEN /\ Activate(flushed, flushed[CHOOSE i \in empty :
                                            \A j \in empty : i <= j].id, stored)
             /\ UNCHANGED <<nextId, mine>>
        ELSE /\ nextId \in Ids
             /\ Activate(Append(flushed, NewTab(nextId, "bench", NoLoadout, NoTab)),
                         nextId, stored)
             /\ nextId' = nextId + 1
             /\ Expect(nextId, NoLoadout, NoTab)
  /\ UNCHANGED <<closing, drag, unsaved, language, damaged, edited>>

(* A click on a tab. *)
ClickTab ==
  /\ \E id \in Open(tabs) \ {active} : SwitchTo(tabs, id)
  /\ UNCHANGED <<closing, drag, unsaved, language, nextId, mine,
                 damaged, edited>>

(* An attachment installed or removed: possible once the load's overlay is *)
(* gone, before the statistics it awaits have come.                        *)
Edit(build) ==
  /\ live.on /\ build # live.build
  /\ InFlight => flow.stage = "stats"
  /\ LET l == Attributed([live EXCEPT
                !.build = build,
                !.history = Capped(Append(@, live.build))])
     IN /\ live' = l
        /\ tabs' = Synced(tabs, l)
        /\ IF active \in Open(tabs)
           THEN /\ mine' = [mine EXCEPT ![active] =
                     [content |-> build, history |-> l.history,
                      community |-> IF @.community = build THEN build ELSE NoTab]]
                /\ unsaved' = TRUE
                /\ edited' = IF InFlight THEN edited \cup {active} ELSE edited
           ELSE UNCHANGED <<mine, unsaved, edited>>
  /\ UNCHANGED <<tabHistory, active, bench, flow, closing, drag, stored, language,
                 nextId, damaged>>

(* Something picked or reset in the workbench shown (saveBallisticsTab).   *)
UseBench ==
  /\ bench.on
  /\ \E loadout \in {NoLoadout, Loadout} \ {bench.loadout} :
       /\ bench' = [bench EXCEPT !.loadout = loadout]
       /\ IF bench.tab \in Open(tabs)
          THEN /\ tabs' = [tabs EXCEPT ![TabAt(tabs, bench.tab)].content = loadout]
               /\ mine' = [mine EXCEPT ![bench.tab].content = loadout]
               /\ unsaved' = TRUE
          ELSE UNCHANGED <<tabs, mine, unsaved>>
  /\ UNCHANGED <<tabHistory, active, live, flow, closing, drag, stored, language,
                 nextId, damaged, edited>>

(* returnToGunSelection with deactivateActiveTab: the back button, the     *)
(* logo, and a language switch.  It asks no leave of a switch under way.   *)
LeaveBuild ==
  /\ bench' = [bench EXCEPT !.on = FALSE]
  /\ live' = Closed
  /\ damaged' = IF Loading /\ active = flow.tab THEN damaged \cup {active} ELSE damaged
  /\ IF active = NoTab THEN UNCHANGED <<tabs, tabHistory, active, stored>>
     ELSE /\ tabs' = Flushed(tabs)
          /\ tabHistory' = HistoryFlushed(tabs)
          /\ active' = NoTab
          /\ Persist(Flushed(tabs))

Back ==
  /\ live.on \/ bench.on
  /\ LeaveBuild
  /\ UNCHANGED <<flow, closing, drag, unsaved, language, nextId, mine, edited>>

(* switchLang, and its second half once the weapons were fetched again.    *)
SwitchLanguage ==
  /\ ~language.busy
  /\ language' = [busy |-> TRUE, back |-> active]
  /\ IF live.on THEN LeaveBuild
     ELSE UNCHANGED <<tabs, tabHistory, active, live, bench, stored, damaged>>
  /\ UNCHANGED <<flow, closing, drag, unsaved, nextId, mine, edited>>

LanguageSwitched ==
  /\ language.busy
  /\ language' = [busy |-> FALSE, back |-> NoTab]
  /\ IF language.back \in Open(tabs) \ {active} THEN SwitchTo(tabs, language.back)
     ELSE UNCHANGED <<tabs, tabHistory, active, live, bench, flow, stored>>
  /\ UNCHANGED <<closing, drag, unsaved, nextId, mine, damaged, edited>>

(* closeTab: the chip shrinks first, then the tab goes and, if it was the  *)
(* active one, the tab that takes its place is switched to.                *)
Close ==
  /\ \E id \in Open(tabs) \ closing : closing' = closing \cup {id}
  /\ UNCHANGED <<tabs, tabHistory, active, live, bench, flow, drag, unsaved, stored,
                 language, nextId, mine, damaged, edited>>

ChipGone ==
  \E id \in closing :
    LET left == Without(tabs, id)
        next == left[IF TabAt(tabs, id) <= Len(left) THEN TabAt(tabs, id) ELSE Len(left)]
    IN /\ closing' = closing \ {id}
       /\ damaged' = IF active = id /\ InFlight THEN damaged \cup {id} ELSE damaged
       /\ IF id \notin Open(tabs)
          THEN UNCHANGED <<tabs, tabHistory, active, live, bench, flow, stored>>
          ELSE IF active # id
          THEN /\ tabs' = left /\ Persist(left)
               /\ UNCHANGED <<tabHistory, active, live, bench, flow>>
          ELSE IF left = <<>>
          THEN /\ tabs' = left /\ active' = NoTab /\ Persist(left)
               /\ live' = Closed /\ bench' = [bench EXCEPT !.on = FALSE]
               /\ UNCHANGED <<tabHistory, flow>>
          ELSE SwitchTo(left, next.id)
       /\ UNCHANGED <<drag, unsaved, language, nextId, mine, edited>>

(* duplicateTab: the copy stands beside its source, after the pinned tabs  *)
(* when the source is pinned.                                              *)
PinnedCount(ts) == Cardinality({i \in DOMAIN ts : \A j \in 1 .. i : ts[j].pinned})
Inserted(ts, at, tab) == InsertAt(ts, at + 1, tab)

Duplicate ==
  /\ nextId \in Ids
  /\ \E id \in Open(tabs) :
       LET ts == IF id = active THEN Flushed(tabs) ELSE tabs
           source == Tab(ts, id)
           clone == [source EXCEPT !.id = nextId, !.pinned = FALSE]
           all == Inserted(ts, IF source.pinned THEN PinnedCount(ts) ELSE TabAt(ts, id), clone)
       IN /\ IF InFlight
             THEN /\ tabs' = all /\ Persist(all)
                  /\ tabHistory' = IF id = active THEN HistoryFlushed(ts) ELSE tabHistory
                  /\ UNCHANGED <<active, live, bench, flow>>
             ELSE Activate(all, nextId, all)
          /\ mine' = [mine EXCEPT ![nextId] =
               [content |-> mine[id].content, community |-> mine[id].community,
                history |-> <<>>]]
          /\ damaged' = IF id \in damaged \/ (Loading /\ flow.tab = id)
                        THEN damaged \cup {nextId} ELSE damaged
          /\ edited' = (IF id \in edited THEN edited \cup {nextId} ELSE edited)
                         \cup (IF Loading /\ flow.tab = id THEN {id} ELSE {})
  /\ nextId' = nextId + 1
  /\ UNCHANGED <<closing, drag, unsaved, language>>

TogglePin ==
  /\ \E id \in Open(tabs) :
       LET tab == [Tab(tabs, id) EXCEPT !.pinned = ~@]
           others == Without(tabs, id)
           all == Inserted(others, PinnedCount(others), tab)
       IN tabs' = all /\ Persist(all)
  /\ UNCHANGED <<tabHistory, active, live, bench, flow, closing, drag, unsaved,
                 language, nextId, mine, damaged, edited>>

(* Dragging a tab within the pinned or the other tabs (_tdBeginDrag,       *)
(* _tdUpdatePosition, _tdEndDrag): the new order is dropped when a tab of  *)
(* the group has gone meanwhile.                                           *)
Group(pinned) == ElementsAt(tabs, {i \in DOMAIN tabs : tabs[i].pinned = pinned})

BeginDrag ==
  /\ drag = NoDrag
  /\ \E id \in Open(tabs) :
       drag' = [tab |-> id,
                group |-> LET g == Group(Tab(tabs, id).pinned)
                          IN [i \in DOMAIN g |-> g[i].id]]
  /\ UNCHANGED <<tabs, tabHistory, active, live, bench, flow, closing, unsaved, stored,
                 language, nextId, mine, damaged, edited>>

EndDrag ==
  /\ drag # NoDrag
  /\ \E to \in DOMAIN drag.group :
       LET others == RemoveAt(drag.group,
                              CHOOSE i \in DOMAIN drag.group : drag.group[i] = drag.tab)
           order == Inserted(others, to - 1, drag.tab)
           start == TabAt(tabs, drag.group[1])
           all == [i \in DOMAIN tabs |->
                     IF i \in start .. start + Len(order) - 1
                     THEN Tab(tabs, order[i - start + 1]) ELSE tabs[i]]
       IN IF order # drag.group /\ ToSet(order) \subseteq Open(tabs)
          THEN tabs' = all /\ Persist(all)
          ELSE UNCHANGED <<tabs, stored>>
  /\ drag' = NoDrag
  /\ UNCHANGED <<tabHistory, active, live, bench, flow, closing, unsaved, language,
                 nextId, mine, damaged, edited>>

-------------------------------------------------------------------------------
(* A load, await by await.  Once the build was left there is no tree to go *)
(* on with: the load throws, and only the switch's flag is cleared.        *)

LoadAbandoned ==
  /\ Loading /\ ~live.on
  /\ flow' = NoFlow
  /\ UNCHANGED <<tabs, tabHistory, active, live, bench, closing, drag, unsaved, stored,
                 language, nextId, mine, damaged, edited>>

(* selectGun: the init data came, and the factory's parts are on.  When it *)
(* failed, a picked weapon stays bare and a load goes on without it.       *)
InitLoaded ==
  /\ flow.stage = "init" /\ live.on
  /\ \E ok \in BOOLEAN :
       /\ live' = [live EXCEPT !.build = IF ok THEN Factory ELSE Bare]
       /\ flow' = [flow EXCEPT !.stage = IF ok \/ flow.kind = "pick"
                                         THEN "ammo" ELSE "parts"]
       /\ damaged' = IF ok THEN damaged ELSE damaged \cup {flow.tab}
  /\ UNCHANGED <<tabs, tabHistory, active, bench, closing, drag, unsaved, stored,
                 language, nextId, mine, edited>>

(* The ammunition list and the stats panel are up.  A load takes the       *)
(* factory's parts off again; a picked weapon's tab gets its build, and is *)
(* folded into a tab of the same build.                                    *)
WeaponShown ==
  /\ flow.stage = "ammo" /\ live.on
  /\ IF flow.kind # "pick"
     THEN /\ live' = [live EXCEPT !.build = Bare]
          /\ flow' = [flow EXCEPT !.stage = IF flow.build = Bare THEN "draw" ELSE "parts"]
          /\ UNCHANGED <<tabs, tabHistory, active, bench, stored, damaged>>
     ELSE LET id == flow.tab
              written == IF id \in Open(tabs)
                         THEN [tabs EXCEPT ![TabAt(tabs, id)].content = live.build]
                         ELSE tabs
              rest == Without(written, id)
          IN /\ IF Duplicates(rest, live.build) # {}
                THEN Activate(rest, FirstDuplicate(rest, live.build), rest)
                ELSE /\ tabs' = written /\ flow' = NoFlow /\ Persist(written)
                     /\ UNCHANGED <<tabHistory, active, live, bench>>
             /\ UNCHANGED damaged
  /\ UNCHANGED <<closing, drag, unsaved, language, nextId, mine, edited>>

(* The slots and allowed items the parts need came, or did not.            *)
PartsLoaded ==
  /\ flow.stage = "parts" /\ live.on
  /\ \E ok \in BOOLEAN :
       /\ live' = [live EXCEPT !.build = IF ok THEN flow.build ELSE Bare]
       /\ damaged' = IF ok \/ flow.build = Bare THEN damaged
                     ELSE damaged \cup {flow.tab}
  /\ flow' = [flow EXCEPT !.stage = "draw"]
  /\ UNCHANGED <<tabs, tabHistory, active, bench, closing, drag, unsaved, stored,
                 language, nextId, mine, edited>>

(* The tree is drawn; refreshBuildStats names the build and awaits its     *)
(* statistics.  At this point the attribution is not back yet.             *)
TreeDrawn ==
  /\ flow.stage = "draw" /\ live.on
  /\ live' = Attributed(live)
  /\ tabs' = Synced(tabs, live)
  /\ unsaved' = (unsaved \/ tabs' # tabs)
  /\ flow' = [flow EXCEPT !.stage = "stats"]
  /\ UNCHANGED <<tabHistory, active, bench, closing, drag, stored, language, nextId,
                 mine, damaged, edited>>

(* The end of _activateTab and of createTabFromPayload: the attribution    *)
(* and, for a tab that was open before, its undo history come back.        *)
LoadEnds ==
  /\ flow.stage = "stats" /\ live.on
  /\ LET l == [live EXCEPT !.community = flow.community]
         history == IF flow.kind = "activate" THEN tabHistory[flow.tab] ELSE live.history
         synced == Synced(tabs, l)
     IN /\ live' = [Attributed(l) EXCEPT !.history = history]
        /\ tabs' = synced
        /\ unsaved' = TRUE
        /\ IF flow.kind = "payload" THEN Persist(synced) ELSE UNCHANGED stored
  /\ flow' = NoFlow
  /\ UNCHANGED <<tabHistory, active, bench, closing, drag, language, nextId, 
                 mine, damaged, edited>>

(* The timer of _persistTabsDebounced. *)
TimerPersists ==
  /\ unsaved
  /\ unsaved' = FALSE
  /\ Persist(tabs)
  /\ UNCHANGED <<tabs, tabHistory, active, live, bench, flow, closing, drag, language,
                 nextId, mine, damaged, edited>>

(* The page is loaded again: restoreTabsFromStorage brings the stored tabs *)
(* back, none of them active.  A record stored half loaded, with an        *)
(* attribution to other parts than its own, stays damaged.                 *)
Reload ==
  /\ tabs' = stored
  /\ tabHistory' = [id \in Ids |-> <<>>]
  /\ active' = NoTab /\ live' = Closed /\ flow' = NoFlow /\ closing' = {}
  /\ bench' = [on |-> FALSE, tab |-> NoTab, loadout |-> NoLoadout]
  /\ drag' = NoDrag /\ unsaved' = FALSE /\ language' = [busy |-> FALSE, back |-> NoTab]
  /\ mine' = [id \in Ids |->
       IF id \in Open(stored)
       THEN [content |-> Tab(stored, id).content,
             community |-> Tab(stored, id).community, history |-> <<>>]
       ELSE mine[id]]
  /\ edited' = {}
  /\ damaged' = damaged \cup {stored[i].id : i \in
                   {j \in DOMAIN stored :
                      stored[j].community \notin {NoTab, stored[j].content}}}
  /\ UNCHANGED <<stored, nextId>>

(* What the user does with the pointer waits for a drag to end; a chip is  *)
(* closed from the keyboard too.                                           *)
PointerActs ==
  \/ PickGun \/ OpenBallistics \/ ClickTab \/ UseBench \/ Back \/ SwitchLanguage
  \/ Duplicate \/ TogglePin \/ BeginDrag
  \/ \E build \in Builds : Edit(build)
  \/ \E build \in Builds, attributed \in BOOLEAN :
       OpenPayload(build, IF attributed THEN build ELSE NoTab)

UserActs == (drag = NoDrag /\ PointerActs) \/ Close \/ Reload

TabsNext ==
  \/ UserActs /\ acts < MaxActs /\ acts' = acts + 1
  \/ /\ \/ EndDrag \/ GunPrepared \/ LanguageSwitched \/ ChipGone
        \/ LoadAbandoned \/ InitLoaded \/ WeaponShown \/ PartsLoaded
        \/ TreeDrawn \/ LoadEnds \/ TimerPersists
     /\ UNCHANGED acts

-------------------------------------------------------------------------------
(* Every tab still holds the build, the attribution and the undo history   *)
(* its user last saw in it, in the record or, for the active tab, live,    *)
(* however switches, loads, copies, closings and language changes          *)
(* interleave.  Excepted are what was left or failed while it was loading  *)
(* (damaged) and the history of a tab changed during its load (edited).    *)
Shows(id, content, community, history) ==
  /\ content = mine[id].content
  /\ id \in edited \/ community = mine[id].community
  /\ id \in edited \/ history = mine[id].history

EachTabKeepsItsBuild ==
  \A i \in DOMAIN tabs :
    LET t == tabs[i] IN
      \/ t.id \in damaged
      \/ active = t.id /\ InFlight
      \/ IsBench(t) /\ t.content = mine[t.id].content
      \/ active # t.id /\ Shows(t.id, t.content, t.community, tabHistory[t.id])
      \/ /\ active = t.id /\ live.on
         /\ Shows(t.id, live.build, live.community, live.history)
         /\ t.content = live.build /\ t.community = live.community

(* Once no switch, closing or timer is under way, a reload of the page     *)
(* would bring back the tabs as they are, in their order, the pinned ones  *)
(* first and each id once.                                                 *)
QuietTabsAreStored ==
  ~InFlight /\ ~unsaved /\ closing = {} /\ active \in Open(tabs) \cup {NoTab} =>
    /\ stored = tabs
    /\ \A i, j \in DOMAIN tabs : i < j /\ tabs[j].pinned => tabs[i].pinned
    /\ Cardinality(Open(tabs)) = Len(tabs)

(* The tabs survive what the user does to them, and a reload.              *)
TabsAreKept == EachTabKeepsItsBuild /\ QuietTabsAreStored
===============================================================================
