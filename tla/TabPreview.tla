------------------------------ MODULE TabPreview ------------------------------
(* The strip of tabs under the mouse (modules/tab-manager.js): the preview *)
(* that opens over a chip, with the statistics and the image of the tab's  *)
(* build, and the chips that are dragged into another order.  The strip is *)
(* rebuilt under the cursor, its chips may lag behind the tabs, and what a *)
(* preview waits for may arrive when it shows another tab.                 *)
(*                                                                         *)
(* Pixels, bars and the marquee are left out; a build is its tab and how   *)
(* often it was edited.                                                    *)
EXTENDS Integers, Subsequences

CONSTANTS Chips, NoChip, MaxTabEdits                      \* bound: MaxTabEdits

ASSUME TabPreviewConstants == NoChip \notin Chips /\ MaxTabEdits \in Nat

VARIABLES
  tpTabs,         \* the tabs in their order, [id, pinned]
  tpRendered,     \* the chips of the strip, as it was rendered last
  tpActive,       \* the tab that is open
  tpEdits,        \* the edits of its build, for each tab there ever was
  tpHover, tpHide,     \* the timers: of which preview, of hiding it
  tpShown,        \* the tab the preview is of
  tpStats, tpImage,    \* the builds its statistics and its image are of
  tpStage,        \* what its last showing waits for
  tpFlights,      \* the statistics being calculated
  tpFailed,       \* the statistics of the last showing did not come
  tpScrolling,    \* the strip is scrolled by its animation
  tpDrag          \* the drag: its group when it began, and the order it shows

tpStrip == <<tpTabs, tpRendered, tpActive, tpEdits>>
tpTooltip == <<tpShown, tpStats, tpImage, tpStage, tpFailed>>
tpVars == <<tpStrip, tpHover, tpHide, tpTooltip, tpFlights, tpScrolling, tpDrag>>

Blank == [tab |-> NoChip, edits |-> 0]
Build(c) == [tab |-> c, edits |-> tpEdits[c]]
NoChipDrag == [chip |-> NoChip, group |-> <<>>, order |-> <<>>]
ChipIds(tabs) == {tabs[i].id : i \in DOMAIN tabs}

TabPreviewInit ==
  /\ \E c \in Chips : tpTabs = <<[id |-> c, pinned |-> FALSE]>> /\ tpActive = c
  /\ tpRendered = tpTabs /\ tpEdits = [c \in {tpActive} |-> 0]
  /\ tpHover = NoChip /\ tpHide = FALSE
  /\ tpShown = NoChip /\ tpStats = Blank /\ tpImage = Blank /\ tpStage = "none"
  /\ tpFlights = {} /\ tpFailed = FALSE
  /\ tpScrolling = FALSE /\ tpDrag = NoChipDrag

-------------------------------------------------------------------------------
(* Showing and hiding. *)

(* _tpHide: the next preview from hidden is built anew.                    *)
Hidden ==
  /\ tpShown' = NoChip /\ tpStage' = "none" /\ tpHover' = NoChip /\ tpHide' = FALSE
  /\ tpStats' = Blank /\ tpImage' = Blank /\ tpFailed' = FALSE

(* _tpShow: over a preview that is open already ("connected"), what it     *)
(* shows stays until the new tab's is there; the open tab's is known.      *)
PreviewShows(c, edits, active, connected) ==
  LET build == [tab |-> c, edits |-> edits[c]]
      inPlace == connected /\ tpShown # NoChip
  IN /\ tpShown' = c /\ tpFailed' = FALSE
     /\ IF c = active
        THEN tpStats' = build /\ tpImage' = build /\ tpStage' = "none" /\ UNCHANGED tpFlights
        ELSE /\ tpImage' = IF inPlace /\ tpShown = c THEN tpImage ELSE Blank
             /\ \/ tpStats' = build /\ tpStage' = "image" /\ UNCHANGED tpFlights    \* cached
                \/ /\ tpStats' = IF inPlace THEN tpStats ELSE Blank
                   /\ tpStage' = "stats" /\ tpFlights' = tpFlights \cup {build}

(* renderTabBar of given tabs, which shows an open preview again.          *)
Rendered(tabs, edits, active) ==
  /\ tpRendered' = tabs
  /\ IF tpShown \in ChipIds(tabs)
     THEN PreviewShows(tpShown, edits, active, TRUE) /\ UNCHANGED <<tpHover, tpHide>>
     ELSE Hidden /\ UNCHANGED tpFlights

(* _tpScheduleShow, when the cursor comes over a chip.                     *)
EnterChip ==
  /\ tpDrag = NoChipDrag
  /\ \E c \in ChipIds(tpRendered) :
       CASE tpScrolling -> UNCHANGED <<tpTooltip, tpHover, tpHide, tpFlights>>
         [] ~tpScrolling /\ ~tpHide /\ tpShown # c ->
                 tpHover' = c /\ UNCHANGED <<tpTooltip, tpHide, tpFlights>>
         [] ~tpScrolling /\ (tpHide \/ tpShown = c) ->
                 tpHover' = NoChip /\ tpHide' = FALSE /\ PreviewShows(c, tpEdits, tpActive, TRUE)
  /\ UNCHANGED <<tpStrip, tpScrolling, tpDrag>>

LeaveChip ==
  /\ ~tpHide /\ tpHide' = TRUE
  /\ UNCHANGED <<tpStrip, tpHover, tpTooltip, tpFlights, tpScrolling, tpDrag>>

HoverTimer ==
  /\ tpHover # NoChip /\ tpHover' = NoChip /\ PreviewShows(tpHover, tpEdits, tpActive, FALSE)
  /\ UNCHANGED <<tpStrip, tpHide, tpScrolling, tpDrag>>

(* The timer, or a movement of the mouse elsewhere on the page.            *)
HidePreview ==
  /\ tpHide \/ tpShown # NoChip
  /\ Hidden
  /\ UNCHANGED <<tpStrip, tpFlights, tpScrolling, tpDrag>>

(* calculateBuild answers, for whichever preview asked and the cache; one  *)
(* that failed leaves what the preview showed.                             *)
PreviewStatsArrive ==
  \E b \in tpFlights, ok \in BOOLEAN :
    /\ tpFlights' = tpFlights \ {b}
    /\ IF tpStage = "stats" /\ b = Build(tpShown)
       THEN /\ tpStats' = IF ok THEN b ELSE tpStats
            /\ tpFailed' = ~ok /\ tpStage' = "image"
       ELSE UNCHANGED <<tpStats, tpFailed, tpStage>>
    /\ UNCHANGED <<tpStrip, tpHover, tpHide, tpShown, tpImage, tpScrolling, tpDrag>>

(* _tpLoadImage: drawn, kept or, when that fails, the weapon's own.        *)
PreviewImageArrives ==
  /\ tpStage = "image" /\ tpStage' = "none" /\ tpImage' = Build(tpShown)
  /\ UNCHANGED <<tpStrip, tpHover, tpHide, tpShown, tpStats, tpFailed, tpFlights,
                 tpScrolling, tpDrag>>

(* The wheel hides the preview while the chips slide under the cursor.     *)
ScrollStrip ==
  /\ tpDrag = NoChipDrag /\ tpScrolling' = TRUE /\ Hidden
  /\ UNCHANGED <<tpStrip, tpFlights, tpDrag>>

ScrollSettles ==
  /\ tpScrolling /\ tpScrolling' = FALSE
  /\ tpHover' \in ChipIds(tpRendered) \cup {NoChip}
  /\ UNCHANGED <<tpStrip, tpHide, tpTooltip, tpFlights, tpDrag>>

-------------------------------------------------------------------------------
(* What changes the tabs. *)

(* A tab is opened: it is there before the strip is rendered again.        *)
OpenTab ==
  /\ \E c \in Chips \ DOMAIN tpEdits :
       /\ tpTabs' = Append(tpTabs, [id |-> c, pinned |-> FALSE]) /\ tpActive' = c
       /\ tpEdits' = [d \in DOMAIN tpEdits \cup {c} |-> IF d = c THEN 0 ELSE tpEdits[d]]
  /\ UNCHANGED <<tpRendered, tpHover, tpHide, tpTooltip, tpFlights,
                 tpScrolling, tpDrag>>

RenderStrip ==
  /\ tpRendered # tpTabs /\ Rendered(tpTabs, tpEdits, tpActive)
  /\ UNCHANGED <<tpTabs, tpActive, tpEdits, tpScrolling, tpDrag>>

SwitchTab ==
  /\ \E c \in ChipIds(tpTabs) \ {tpActive} :
       tpActive' = c /\ Rendered(tpTabs, tpEdits, c)
  /\ UNCHANGED <<tpTabs, tpEdits, tpScrolling, tpDrag>>

(* syncActiveTab, after an edit of the open build.                         *)
EditActive ==
  /\ \A c \in DOMAIN tpEdits : tpEdits[c] < MaxTabEdits
  /\ tpEdits' = [tpEdits EXCEPT ![tpActive] = @ + 1]
  /\ Rendered(tpTabs, tpEdits', tpActive)
  /\ UNCHANGED <<tpTabs, tpActive, tpScrolling, tpDrag>>

(* closeTab, once the chip has folded; for the open tab the strip is only  *)
(* rendered when the tab next to it has been loaded.                       *)
CloseChip ==
  /\ Len(tpTabs) > 1
  /\ \E i \in DOMAIN tpTabs :
       LET rest == RemoveAt(tpTabs, i)
           next == rest[IF i <= Len(rest) THEN i ELSE Len(rest)].id
       IN /\ tpTabs' = rest
          /\ IF tpTabs[i].id = tpActive
             THEN tpActive' = next
                  /\ UNCHANGED <<tpRendered, tpHover, tpHide, tpTooltip, tpFlights>>
             ELSE Rendered(rest, tpEdits, tpActive) /\ UNCHANGED tpActive
  /\ UNCHANGED <<tpEdits, tpScrolling, tpDrag>>

PinTab ==
  /\ tpDrag = NoChipDrag
  /\ \E i \in DOMAIN tpTabs :
       LET rest == RemoveAt(tpTabs, i)
           pinned == {j \in DOMAIN rest : rest[j].pinned}
       IN tpTabs' = ElementsAt(rest, pinned) \o <<[tpTabs[i] EXCEPT !.pinned = ~@]>>
                      \o ElementsAt(rest, DOMAIN rest \ pinned)
  /\ Rendered(tpTabs', tpEdits, tpActive)
  /\ UNCHANGED <<tpActive, tpEdits, tpScrolling, tpDrag>>

-------------------------------------------------------------------------------
(* Dragging. *)

(* _tdBeginDrag: the group is read off the chips.                          *)
BeginChipDrag ==
  /\ tpDrag = NoChipDrag
  /\ \E i \in DOMAIN tpRendered :
       LET same == {j \in DOMAIN tpRendered : tpRendered[j].pinned = tpRendered[i].pinned}
           chips == ElementsAt(tpRendered, same)
           group == [j \in DOMAIN chips |-> chips[j].id]
       IN tpDrag' = [chip |-> tpRendered[i].id, group |-> group, order |-> group]
  /\ tpScrolling' = FALSE /\ Hidden
  /\ UNCHANGED <<tpStrip, tpFlights>>

PlaceIn(seq, e) == CHOOSE i \in DOMAIN seq : seq[i] = e
DragOver ==
  /\ tpDrag # NoChipDrag
  /\ LET others == RemoveAt(tpDrag.group, PlaceIn(tpDrag.group, tpDrag.chip))
     IN \E i \in 1..Len(tpDrag.group) :
          tpDrag' = [tpDrag EXCEPT !.order = InsertAt(others, i, tpDrag.chip)]
  /\ UNCHANGED <<tpStrip, tpHover, tpHide, tpTooltip, tpFlights, tpScrolling>>

(* The group's tabs, which are together, in the order they were dragged to. *)
Reordered(tabs, group, order) ==
  LET At(c) == CHOOSE i \in DOMAIN tabs : tabs[i].id = c
      start == At(group[1])
  IN [i \in DOMAIN tabs |-> IF i \in start..(start + Len(order) - 1)
                            THEN tabs[At(order[i - start + 1])] ELSE tabs[i]]

(* _tdEndDrag: not if a tab of the group has gone meanwhile.               *)
EndChipDrag ==
  /\ tpDrag # NoChipDrag /\ tpDrag' = NoChipDrag
  /\ LET whole == Range(tpDrag.order) \subseteq ChipIds(tpTabs)
     IN tpTabs' = IF tpDrag.order = tpDrag.group \/ ~whole THEN tpTabs
                  ELSE Reordered(tpTabs, tpDrag.group, tpDrag.order)
  /\ Rendered(tpTabs', tpEdits, tpActive)
  /\ UNCHANGED <<tpActive, tpEdits, tpScrolling>>

TabPreviewNext ==
  \/ EnterChip \/ LeaveChip \/ HoverTimer \/ HidePreview \/ PreviewStatsArrive
  \/ PreviewImageArrives
  \/ ScrollStrip \/ ScrollSettles
  \/ OpenTab \/ RenderStrip \/ SwitchTab \/ EditActive \/ CloseChip \/ PinTab
  \/ BeginChipDrag \/ DragOver \/ EndChipDrag

-------------------------------------------------------------------------------
(* A preview that waits for nothing more shows the statistics and the image*)
(* of the tab it names, as its build is now, however the cursor moved, the *)
(* answers came and the strip was rebuilt; unless they could not be had.   *)
PreviewIsOfItsTab ==
  tpShown # NoChip /\ tpStage = "none" =>
    (~tpFailed => tpStats = Build(tpShown)) /\ tpImage = Build(tpShown)

(* No drag loses or doubles a tab, and the pinned ones stay in front,      *)
(* whatever was opened or closed while it lasted.                          *)
OrderKeepsTabs ==
  /\ Cardinality(ChipIds(tpTabs)) = Len(tpTabs) /\ tpActive \in ChipIds(tpTabs)
  /\ \A i, j \in DOMAIN tpTabs : i < j /\ tpTabs[j].pinned => tpTabs[i].pinned

(* The strip and the preview over it, which a drag and the hover share.    *)
PreviewsAreRight == PreviewIsOfItsTab /\ OrderKeepsTabs
===============================================================================
