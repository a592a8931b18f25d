------------------------------- MODULE TreeRender -------------------------------
(* Drawing the slots of the build, as a list (modules/tree.js) or as a grid *)
(* (modules/attachment-grid.js).  A render replaces the page, then walks    *)
(* the tree of parts and waits at each part whose slots it does not know;   *)
(* it keeps no token, so several walk at once, each into its own page.      *)
EXTENDS Integers, Sequences

CONSTANTS
  PartOrder,        \* the parts, in the order of a walk over the whole tree
  Host,             \* the part each one is put into, or GunNode
  GunNode,
  MaxPages          \* bound: renders started

AllParts == {PartOrder[i] : i \in DOMAIN PartOrder}

(* A walk meets a part after the one it is put into.                        *)
ASSUME TreeRenderConstants ==
  /\ MaxPages \in Nat /\ PartOrder \in Seq(AllParts) /\ GunNode \notin AllParts
  /\ \A i, j \in DOMAIN PartOrder : PartOrder[i] = PartOrder[j] => i = j
  /\ \A i \in DOMAIN PartOrder :
       LET host == Host[PartOrder[i]]
       IN host = GunNode \/ \E j \in 1..(i - 1) : PartOrder[j] = host

VARIABLES
  trIn,             \* the parts of the build
  trCached,         \* slotCache: the parts whose slots are known
  trView, trCollapsed,      \* gridView, collapsedSlots
  trInstalls,       \* installAttachment calls waiting for the new part's slots
  trTimers,         \* renders a collapse has put off
  trPages,          \* renders started; the last one's page is on the screen
  trRenders,        \* the renders that wait for the slots of a part
  trShown,          \* on the page: the nodes whose slots it has, the parts in them
  trEls,            \* _slotEls: the page each node's slot elements are of
  trMissed          \* the page lacks the slots of parts that failed to load

trVars == <<trIn, trCached, trView, trCollapsed, trInstalls, trTimers, trPages, trRenders,
            trShown, trEls, trMissed>>

Subtree(p) == LET InSub[i \in DOMAIN PartOrder] ==
                    \/ PartOrder[i] = p
                    \/ \E j \in 1..(i - 1) : PartOrder[j] = Host[PartOrder[i]] /\ InSub[j]
              IN {PartOrder[i] : i \in {j \in DOMAIN PartOrder : InSub[j]}}

NewRender(page) == [page |-> page, view |-> trView, next |-> 1, walked |-> {GunNode},
                    drawn |-> {},
                    waits |-> GunNode, held |-> TRUE, missed |-> {}]

(* The parts a walk draws from where it is, and those it goes into.  The    *)
(* list leaves out the slots of a collapsed part.                           *)
OpenIn(r, p) == r.view = "grid" \/ p \notin trCollapsed'
Draws(r, i) ==
  LET D[j \in DOMAIN PartOrder] ==
        /\ PartOrder[j] \in trIn'
        /\ \/ Host[PartOrder[j]] \in r.walked
           \/ \E k \in r.next..(j - 1) :
                PartOrder[k] = Host[PartOrder[j]] /\ D[k] /\ OpenIn(r, PartOrder[k])
  IN D[i]

(* The walk runs until it needs slots that are not known, or to the end.    *)
Stops(r) == {i \in r.next..Len(PartOrder) : Draws(r, i) /\ PartOrder[i] \notin trCached'}
Walk(r) ==
  LET stops == Stops(r)
      stop == IF stops = {} THEN Len(PartOrder) + 1
              ELSE CHOOSE i \in stops : \A j \in stops : i <= j
      passed == {PartOrder[i] : i \in {j \in r.next..(stop - 1) : Draws(r, j)}}
  IN [r EXCEPT !.next = stop + 1,
               !.waits = IF stops = {} THEN GunNode ELSE PartOrder[stop], !.held = TRUE,
               !.walked = @ \cup {p \in passed : OpenIn(r, p)},
               !.drawn = @ \cup passed \cup (IF stops = {} THEN {} ELSE {PartOrder[stop]})]

(* The list writes each slot's element as it goes; the grid collects the    *)
(* slots first and draws them together, with the parts they hold by then.   *)
InGrid(r) == {p \in trIn' : Host[p] \in r.walked}
Writes(r) == r.view = "list" \/ r.waits = GunNode
Drawn(r) == [slots |-> r.walked, parts |-> IF r.view = "grid" THEN InGrid(r) ELSE r.drawn]
KeepRender(rest, r) == trRenders' = IF r.waits = GunNode THEN rest ELSE rest \cup {r}
WriteEls(els, r) ==
  trEls' = IF Writes(r)
             THEN [n \in DOMAIN els |-> IF n \in r.walked THEN r.page ELSE els[n]]
             ELSE els

(* renderFullTree: a new page, and a walk as far as it goes at once.  The   *)
(* grid drops the elements of the last page first.                          *)
StartRender(rest, els) ==
  LET r == Walk([NewRender(trPages + 1) EXCEPT !.view = trView'])
      cleared == IF r.view = "grid" THEN [n \in DOMAIN els |-> 0] ELSE els
  IN /\ trPages < MaxPages /\ trPages' = trPages + 1
     /\ KeepRender(rest, r) /\ WriteEls(cleared, r)
     /\ trShown' = IF Writes(r) THEN Drawn(r) ELSE [slots |-> {}, parts |-> {}]
     /\ trMissed' = {}

TreeRenderInit ==
  /\ trIn = {} /\ trCached = {} /\ trView \in {"list", "grid"} /\ trCollapsed = {}
  /\ trInstalls = {} /\ trTimers = 0 /\ trPages = 1 /\ trRenders = {}
  /\ trShown = [slots |-> {GunNode}, parts |-> {}]
  /\ trEls = [n \in AllParts \cup {GunNode} |-> IF n = GunNode THEN 1 ELSE 0] /\ trMissed = {}

-------------------------------------------------------------------------------
(* installAttachment: the part is in the build at once, the page follows    *)
(* when the part's own slots are known.                                     *)
InstallPart3(p) ==
  /\ p \notin trIn /\ Host[p] \in trIn \cup {GunNode} /\ p \notin trInstalls
  /\ trIn' = trIn \cup {p}
  /\ UNCHANGED <<trCached, trView, trCollapsed, trTimers>>
  /\ IF p \in trCached
     THEN StartRender(trRenders, [trEls EXCEPT ![p] = 0]) /\ UNCHANGED trInstalls
     ELSE /\ trInstalls' = trInstalls \cup {p} /\ trEls' = [trEls EXCEPT ![p] = 0]
          /\ UNCHANGED <<trPages, trRenders, trShown, trMissed>>

InstallSlotsArrive(p, ok) ==
  /\ p \in trInstalls /\ trInstalls' = trInstalls \ {p}
  /\ trCached' = IF ok THEN trCached \cup {p} ELSE trCached
  /\ UNCHANGED <<trIn, trView, trCollapsed, trTimers>>
  /\ StartRender(trRenders, trEls)

(* removeAttachment: what was put into the part goes with it; a walk that   *)
(* is inside it goes on in parts that are no longer of the build.           *)
Detached(r, gone) == [r EXCEPT !.walked = @ \ gone, !.drawn = @ \ gone,
                               !.held = @ /\ r.waits \notin gone]
RemovePart3(p) ==
  /\ p \in trIn /\ trIn' = trIn \ Subtree(p)
  /\ trCollapsed' = trCollapsed \ Subtree(p)
  /\ UNCHANGED <<trCached, trView, trInstalls, trTimers>>
  /\ StartRender({Detached(r, Subtree(p)) : r \in trRenders},
                 [n \in DOMAIN trEls |-> IF n \in Subtree(p) THEN 0 ELSE trEls[n]])

(* showGridView, showListView.                                              *)
SwitchView ==
  /\ trView' = IF trView = "list" THEN "grid" ELSE "list"
  /\ UNCHANGED <<trIn, trCached, trCollapsed, trInstalls, trTimers>>
  /\ StartRender(trRenders, trEls)

(* The name of a slot in the list: opening draws at once, closing after its *)
(* animation.                                                               *)
ToggleCollapse(p) ==
  /\ trView = "list" /\ p \in trShown.parts \cap trIn
  /\ \E q \in AllParts : Host[q] = p
  /\ UNCHANGED <<trIn, trCached, trView, trInstalls>>
  /\ IF p \in trCollapsed
     THEN /\ trCollapsed' = trCollapsed \ {p} /\ UNCHANGED trTimers
          /\ StartRender(trRenders, trEls)
     ELSE /\ trCollapsed' = trCollapsed \cup {p} /\ trTimers' = trTimers + 1
          /\ UNCHANGED <<trPages, trRenders, trShown, trEls, trMissed>>

CollapseTimer ==
  /\ trTimers > 0 /\ trTimers' = trTimers - 1
  /\ UNCHANGED <<trIn, trCached, trView, trCollapsed, trInstalls>>
  /\ StartRender(trRenders, trEls)

(* The slots a render waits for arrive, or fail: then the walk leaves them  *)
(* out and goes on.                                                         *)
RenderSlotsArrive(r, ok) ==
  /\ trCached' = IF ok THEN trCached \cup {r.waits} ELSE trCached
  /\ UNCHANGED <<trIn, trView, trCollapsed, trInstalls, trTimers, trPages>>
  /\ LET goesIn == ok /\ r.held /\ OpenIn(r, r.waits)
         walked == Walk([r EXCEPT !.walked = IF goesIn THEN @ \cup {r.waits} ELSE @])
         after == [walked EXCEPT !.missed = IF ok THEN @ ELSE @ \cup {r.waits}]
         onPage == r.page = trPages
     IN /\ KeepRender(trRenders \ {r}, after) /\ WriteEls(trEls, after)
        /\ trShown' = IF onPage /\ Writes(after) THEN Drawn(after) ELSE trShown
        /\ trMissed' = IF onPage THEN after.missed ELSE trMissed

TreeRenderNext ==
  \/ \E p \in AllParts : \/ InstallPart3(p) \/ RemovePart3(p) \/ ToggleCollapse(p)
                         \/ \E ok \in BOOLEAN : InstallSlotsArrive(p, ok)
  \/ \E r \in trRenders, ok \in BOOLEAN : RenderSlotsArrive(r, ok)
  \/ SwitchView \/ CollapseTimer

-------------------------------------------------------------------------------
AtRest == trRenders = {} /\ trInstalls = {} /\ trTimers = 0

(* What the page should hold: the slots of the gun and of every part that   *)
(* is in them, less those of collapsed parts and of parts that did not load.*)
Expected ==
  LET E[i \in 0..Len(PartOrder)] ==
        IF i = 0 THEN {GunNode}
        ELSE LET p == PartOrder[i] IN
             IF p \in trIn \ trMissed /\ Host[p] \in E[i - 1]
                  /\ (trView = "grid" \/ p \notin trCollapsed)
             THEN E[i - 1] \cup {p} ELSE E[i - 1]
  IN E[Len(PartOrder)]

(* Once every render is done, the page shows the slots and the parts of the *)
(* build as it is, however installs, removals, collapses and view switches  *)
(* overlapped with the slots being fetched.                                 *)
TreeShowsTheBuild ==
  AtRest => /\ trShown.slots = Expected
            /\ trShown.parts = {p \in trIn : Host[p] \in Expected}

(* The element a slot's flash and highlight are put on is the one of the    *)
(* page (attachment-grid.js:1562: "Populate _slotEls so flashSlot /         *)
(* findSlotElement / updateSlotIcon work unchanged").  A render of an older *)
(* page that ends last leaves the elements of its own page behind.          *)
ElementsAreOnThePage ==
  AtRest => \A n \in trShown.slots : trEls[n] = trPages
===============================================================================
