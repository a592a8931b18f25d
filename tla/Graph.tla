-------------------------------- MODULE Graph ---------------------------------
(* The two charts that zoom: the graph of the attachments in the open slot *)
(* (modules/graph.js), with its own selection of items, and the curve of   *)
(* explored builds (modules/optimizer.js).  A wheel turn, a drag or a box  *)
(* moves the view at once or sets a target that an animation approaches,   *)
(* frame by frame, while anything may draw the chart anew.                 *)
(*                                                                         *)
(* A view is how far it is zoomed in and panned, or AutoFit when it fits   *)
(* the data; pixels, ticks and icons are left out.                         *)
EXTENDS Integers

CONSTANTS Charts, GunItems, AttItems, AutoFit, MinZoom, MaxZoom, MaxPan, MaxMoves
                                                    \* bounds: MaxPan, MaxMoves

ASSUME GraphConstants ==
  /\ Charts \subseteq {"graph", "explore"} /\ GunItems \cap AttItems = {}
  /\ MinZoom \in Int /\ MaxZoom \in Int /\ MinZoom <= 0 /\ 0 <= MaxZoom
  /\ {MaxPan, MaxMoves} \subseteq Nat /\ AutoFit \notin [zoom : Int, pan : Int]

VARIABLES
  grChart,            \* which of the two
  grOpen,             \* it is on the screen
  grView, grTarget,   \* what is shown, what the animation approaches
  grToAuto,           \* the animation ends in AutoFit
  grLerp,             \* its next frame is requested
  grWheel, grPan,     \* wheel turns and drags that wait for a frame
  grBox,              \* a box is being drawn
  grMode, grItems,    \* the user's own selection
  grPanel, grData,    \* the search panel, the items that can be searched
  grMoves,
  grAsked             \* history: the view the user asked for last

grZoom == <<grView, grTarget, grToAuto, grLerp, grWheel, grPan, grBox, grAsked>>
grSelection == <<grMode, grItems, grPanel, grData>>
grVars == <<grChart, grOpen, grZoom, grSelection, grMoves>>

Still == [zoom |-> 0, pan |-> 0]
Within(lo, hi, n) == IF n < lo THEN lo ELSE IF n > hi THEN hi ELSE n

GraphInit ==
  /\ grChart \in Charts /\ grOpen = FALSE
  /\ grView = AutoFit /\ grTarget = AutoFit /\ grToAuto = FALSE /\ grLerp = FALSE
  /\ grWheel = Still /\ grPan = 0 /\ grBox = FALSE
  /\ grMode = "none" /\ grItems = {} /\ grPanel = FALSE /\ grData = "none"
  /\ grMoves = 0 /\ grAsked = AutoFit

(* _clampZoomSpan: at the ceiling the data is centred again, at the floor  *)
(* the cursor is still followed.                                           *)
Clamped(v) ==
  IF v.zoom < MinZoom THEN [zoom |-> MinZoom, pan |-> 0]
  ELSE [v EXCEPT !.zoom = Within(MinZoom, MaxZoom, @)]

Shown == IF grView = AutoFit THEN Still ELSE grView
Base == IF grTarget = AutoFit THEN Shown ELSE grTarget
Panned(v, by) == [v EXCEPT !.pan = Within(-MaxPan, MaxPan, @ + by)]
Move == grOpen /\ grMoves < MaxMoves /\ grMoves' = grMoves + 1

(* _buildGraphSVG and _renderExploreChart(zoomOnly) outside the animation: *)
(* the graph stops its animation where it is, the curve goes on with it.   *)
RedrawStops == grChart = "graph" /\ grLerp
(* Mutant: a redraw that stops the zoom forgets to drop its target.        *)
FrameDrawnOn ==
  /\ grBox' = FALSE /\ UNCHANGED grTarget
  /\ grLerp' = (grLerp /\ ~RedrawStops)

FrameDrawn ==
  /\ grBox' = FALSE
  /\ IF RedrawStops THEN grLerp' = FALSE /\ grTarget' = AutoFit ELSE UNCHANGED <<grLerp,
                                                                              grTarget>>

-------------------------------------------------------------------------------
(* Zoom. *)

TurnWheel ==
  /\ Move
  /\ \E zoom, pan \in {-1, 0, 1} :
       /\ zoom # 0 \/ pan # 0
       /\ grWheel' = [zoom |-> Within(-2, 2, grWheel.zoom + zoom),
                      pan |-> Within(-1, 1, grWheel.pan + pan)]
  /\ UNCHANGED <<grChart, grOpen, grView, grTarget, grToAuto, grLerp, grPan, grBox,
                 grAsked, grSelection>>

(* The frame after turns of the wheel: a zoom only sets the target.        *)
WheelZooms ==
  /\ grWheel.zoom # 0 /\ grWheel' = Still /\ grToAuto' = FALSE
  /\ \E follow \in {-1, 0, 1} :          \* the point under the cursor stays there
       grTarget' = Panned(Clamped(Panned([Base EXCEPT !.zoom = @ + grWheel.zoom], follow)),
                          grWheel.pan)
  /\ grLerp' = TRUE /\ grAsked' = grTarget'
  /\ UNCHANGED <<grChart, grOpen, grView, grPan, grBox, grSelection, grMoves>>

WheelPans ==
  /\ grWheel.zoom = 0 /\ grWheel.pan # 0 /\ grWheel' = Still
  /\ grView' = Panned(Base, grWheel.pan) /\ FrameDrawn /\ grAsked' = grView'
  /\ UNCHANGED <<grChart, grOpen, grToAuto, grPan, grSelection, grMoves>>

(* runLerpStep, done when it is close enough to its target.                *)
Nearer(from, to) == IF from < to THEN from + 1 ELSE IF from > to THEN from - 1 ELSE to

LerpStep ==
  /\ grLerp
  /\ LET next == [zoom |-> Nearer(Shown.zoom, grTarget.zoom),
                  pan |-> Nearer(Shown.pan, grTarget.pan)]
     IN IF grTarget = AutoFit THEN grLerp' = FALSE /\ UNCHANGED <<grView, grTarget, grToAuto>>
        ELSE IF next # grTarget
             THEN grView' = next /\ UNCHANGED <<grLerp, grTarget, grToAuto>>
             ELSE /\ grView' = IF grToAuto THEN AutoFit ELSE grTarget
                  /\ grLerp' = FALSE /\ grTarget' = AutoFit /\ grToAuto' = FALSE
  /\ grBox' = FALSE
  /\ UNCHANGED <<grChart, grOpen, grWheel, grPan, grAsked, grSelection, grMoves>>

ResetZoom ==
  /\ grOpen /\ grView # AutoFit
  /\ grToAuto' = TRUE /\ grTarget' = Still /\ grLerp' = TRUE /\ grAsked' = AutoFit
  /\ UNCHANGED <<grChart, grOpen, grView, grWheel, grPan, grBox, grSelection, grMoves>>

(* The middle button drags the view, once a frame.                         *)
DragView ==
  /\ Move /\ \E by \in {-1, 1} : grPan' = Within(-1, 1, grPan + by)
  /\ UNCHANGED <<grChart, grOpen, grView, grTarget, grToAuto, grLerp, grWheel, grBox,
                 grAsked, grSelection>>

DragFrame ==
  /\ grPan # 0 /\ grPan' = 0
  /\ grView' = Panned(Shown, grPan) /\ FrameDrawn /\ grAsked' = grView'
  /\ UNCHANGED <<grChart, grOpen, grToAuto, grWheel, grSelection, grMoves>>

StartBox ==
  /\ Move /\ ~grBox /\ grBox' = TRUE
  /\ UNCHANGED <<grChart, grOpen, grView, grTarget, grToAuto, grLerp, grWheel, grPan,
                 grAsked, grSelection>>

EndBox ==
  /\ grOpen /\ grBox
  /\ \E v \in [zoom : {Shown.zoom + 1, Shown.zoom + 2}, pan : -MaxPan..MaxPan] :
       grView' = Clamped(v)
  /\ grToAuto' = IF grChart = "explore" THEN FALSE ELSE grToAuto
  /\ FrameDrawn /\ grAsked' = grView'
  /\ UNCHANGED <<grChart, grOpen, grWheel, grPan, grSelection, grMoves>>

(* A drawing for another reason: an option, a cluster, another size, other *)
(* data in the table.                                                      *)
RedrawGraph ==
  /\ grOpen /\ grChart = "graph" /\ FrameDrawn
  /\ grAsked' = IF RedrawStops THEN grView ELSE grAsked
  /\ UNCHANGED <<grChart, grOpen, grView, grToAuto, grWheel, grPan, grSelection, grMoves>>

(* A new exploration opens fitting its points.                             *)
NewPoints ==
  /\ grChart = "explore" /\ grOpen' = TRUE
  /\ grView' = AutoFit /\ grTarget' = AutoFit /\ grLerp' = FALSE /\ grBox' = FALSE
  /\ grAsked' = AutoFit
  /\ UNCHANGED <<grChart, grToAuto, grWheel, grPan, grSelection, grMoves>>

-------------------------------------------------------------------------------
(* The graph's own selection. *)

(* setGraphView(true).                                                     *)
OpenGraph ==
  /\ grChart = "graph" /\ ~grOpen /\ grOpen' = TRUE
  /\ grView' = AutoFit /\ FrameDrawn /\ grAsked' = AutoFit
  /\ UNCHANGED <<grChart, grToAuto, grWheel, grPan, grSelection, grMoves>>

(* _cleanupGraphState, also when another slot is opened.                   *)
LeaveGraph ==
  /\ grChart = "graph" /\ grOpen /\ grOpen' = FALSE
  /\ grView' = AutoFit /\ grTarget' = AutoFit /\ grToAuto' = FALSE /\ grLerp' = FALSE
  /\ grPan' = 0 /\ grBox' = FALSE /\ grAsked' = AutoFit
  /\ grMode' = "none" /\ grItems' = {} /\ grPanel' = FALSE
  /\ UNCHANGED <<grChart, grWheel, grData, grMoves>>

ToggleSearch ==
  /\ grOpen /\ grChart = "graph" /\ grPanel' = ~grPanel
  /\ grData' = IF grPanel' /\ grData = "none" THEN "asked" ELSE grData
  /\ FrameDrawn /\ grAsked' = IF RedrawStops THEN grView ELSE grAsked
  /\ UNCHANGED <<grChart, grOpen, grView, grToAuto, grWheel, grPan, grMode, grItems,
                 grMoves>>

SearchableArrive ==
  /\ grData = "asked" /\ grData' \in {"there", "none"}
  /\ UNCHANGED <<grChart, grOpen, grZoom, grMode, grItems, grPanel, grMoves>>

(* Another selection is drawn fitting its items.                           *)
Select(mode, items) ==
  /\ grMode' = mode /\ grItems' = items
  /\ grView' = AutoFit /\ FrameDrawn /\ grAsked' = AutoFit
  /\ UNCHANGED <<grChart, grOpen, grToAuto, grWheel, grPan, grPanel, grData, grMoves>>

Searching == grOpen /\ grPanel /\ grData = "there"

AddGun ==
  /\ Searching /\ grMode # "attachments"
  /\ \E g \in GunItems \ grItems : Select("guns", grItems \cup {g})

AddAttachment ==
  /\ Searching /\ grMode # "guns"
  /\ \E a \in AttItems \ grItems : Select("attachments", grItems \cup {a})

(* _removeCustomItem keeps the view.                                       *)
RemoveCustom ==
  /\ grOpen
  /\ \E i \in grItems :
       /\ grItems' = grItems \ {i}
       /\ grMode' = IF grItems' = {} THEN "empty" ELSE grMode
  /\ FrameDrawn /\ grAsked' = IF RedrawStops THEN grView ELSE grAsked
  /\ UNCHANGED <<grChart, grOpen, grView, grToAuto, grWheel, grPan, grPanel, grData,
                 grMoves>>

(* Of the items of the slot, all of them parts: those that remain become   *)
(* the selection.                                                          *)
RemoveRegular ==
  /\ grOpen /\ grPanel /\ grMode = "none"
  /\ \E a \in AttItems :
       Select(IF AttItems \ {a} = {} THEN "empty" ELSE "attachments", AttItems \ {a})

ClearSelection ==
  /\ grOpen /\ grPanel
  /\ IF grMode = "none" THEN Select("empty", {}) ELSE grItems # {} /\ Select("none", {})

GraphNext ==
  \/ TurnWheel \/ WheelZooms \/ WheelPans \/ LerpStep \/ ResetZoom
  \/ DragView \/ DragFrame \/ StartBox \/ EndBox \/ RedrawGraph \/ NewPoints
  \/ OpenGraph \/ LeaveGraph \/ ToggleSearch \/ SearchableArrive
  \/ AddGun \/ AddAttachment \/ RemoveCustom \/ RemoveRegular \/ ClearSelection

-------------------------------------------------------------------------------
(* The animation runs exactly while it has a target, and every view is in  *)
(* the range of the zoom, so that it always ends; once nothing waits for a *)
(* frame, the graph shows the view that was asked for last, whatever was   *)
(* turned, dragged, boxed or drawn anew meanwhile.                         *)
ZoomComesToRest ==
  /\ grLerp = (grTarget # AutoFit)
  /\ \A v \in {grView, grTarget} \ {AutoFit} : v.zoom \in MinZoom..MaxZoom
  /\ grChart = "graph" /\ ~grLerp => grView = grAsked

(* Guns and parts are never drawn on the same axes, and a selection that   *)
(* lost its last item does not lock the search to one kind.                *)
SelectionIsOfOneKind ==
  /\ grMode = "guns" => grItems # {} /\ grItems \subseteq GunItems
  /\ grMode = "attachments" => grItems # {} /\ grItems \subseteq AttItems
  /\ grMode \in {"none", "empty"} => grItems = {}

(* The two charts: where they come to rest and what is selected on them.   *)
ChartIsRight == ZoomComesToRest /\ SelectionIsOfOneKind
===============================================================================
