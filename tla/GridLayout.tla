------------------------------- MODULE GridLayout -------------------------------
(* Where the attachment grid puts the slots of a build                      *)
(* (modules/attachment-grid.js, computeGridPositions).  The slots come in   *)
(* the order of a walk over the tree of parts; each gets a cell by its name,*)
(* by its parent's cell or by a position set by hand, or goes to the extras *)
(* under the grid.  A step is one round of the loop, for any next slot the  *)
(* walk could meet.                                                         *)
(*                                                                          *)
(* Rows are virtual: the gun is at row 0, over columns GunCol to GunCol + 2.*)
EXTENDS Integers, Subsequences

CONSTANTS
  GridNames,        \* the slot names of the builds that are tried
  FixedCells,       \* cells that overrides may fix
  FlexibleCells,    \* cells that overrides may prefer
  MaxGridSlots      \* bound: slots of a build

GunCol == 7
StockCol == 10
LeftOrder == <<"Receiver", "Handguard", "Catch", "Barrel", "Gas Block", "Muzzle">>
TopCol == [n \in {"Scope", "Mount", "Rear Sight"} |-> IF n = "Rear Sight" THEN GunCol + 2
                                                      ELSE GunCol + 1]
BottomCol == [n \in {"Magazine", "Pistol Grip"} |-> IF n = "Magazine" THEN GunCol + 1
                                                    ELSE GunCol + 2]
BottomLeft == {"Bipod", "Foregrip"}
ExtraNames == {"Grip", "Shroud", "Trigger", "Chamber", "Hammer"}
Reach == 30             \* rows a scan looks at
GunCells == {<<c, 0>> : c \in GunCol..(GunCol + 2)}

(* The overrides are a table of the code: none is on the gun.               *)
ASSUME GridConstants ==
  /\ MaxGridSlots \in Nat
  /\ FixedCells \cup FlexibleCells \subseteq ((1..StockCol) \X Int) \ GunCells

VARIABLES
  glNames,          \* the names of the build's slots, known before the first is placed
  glReserved,       \* cells of the build's fixed overrides, taken before the loop
  glSlots,          \* the slots so far: name, parent (0: the gun), a part in it or not
  glCells,          \* their cells, or Extras
  glAnchors,        \* where the children of the parts in them are placed from
  glOccupied, glTactical, glBottomLeft, glStockRow,   \* the loop's counters
  glDeferred,       \* flexible overrides that wait for the second pass
  glPhase           \* "loop", "second" or "done"

glVars == <<glNames, glReserved, glSlots, glCells, glAnchors, glOccupied, glTactical,
            glBottomLeft, glStockRow, glDeferred, glPhase>>

Extras == <<0, 0>>      \* no cell: the columns are 1 to 10

(* The left-side queue: the names of it that the build has, outwards from   *)
(* the gun; the front sight's column goes with the muzzle's.                *)
LeftQueue == ElementsAt(LeftOrder, {i \in DOMAIN LeftOrder : LeftOrder[i] \in glNames})
LeftCol(name) == GunCol - (CHOOSE i \in DOMAIN LeftQueue : LeftQueue[i] = name)
MuzzleCol ==
  LET outermost == GunCol - Len(LeftQueue)
  IN CASE "Muzzle" \in glNames -> LeftCol("Muzzle")
       [] "Muzzle" \notin glNames /\ LeftQueue # <<>> -> IF outermost > 2 THEN outermost - 1 ELSE 1
       [] "Muzzle" \notin glNames /\ LeftQueue = <<>> -> GunCol - 1

-------------------------------------------------------------------------------
(* placeAt, placeUp, placeDown, placeDiagonalDown. *)

(* Mutant: a cell that is taken is given again.                            *)
CellAtTwice(col, row) == <<col, row>>

CellAt(col, row) == IF <<col, row>> \in glOccupied THEN Extras ELSE <<col, row>>

FirstFree(cells) ==
  IF \A i \in DOMAIN cells : cells[i] \in glOccupied THEN Extras
  ELSE cells[CHOOSE i \in DOMAIN cells :
               cells[i] \notin glOccupied /\ \A j \in 1..(i - 1) : cells[j] \in glOccupied]

Up(col, row) == FirstFree([i \in 1..(Reach + 1) |-> <<col, row - i + 1>>])
Down(col, row) == FirstFree([i \in 1..(Reach + 1) |-> <<col, row + i - 1>>])
DiagonalDown(col) ==
  LET below == [i \in 1..20 |-> <<IF i % 2 = 1 THEN col - 1 ELSE col + 1, (i + 1) \div 2>>]
  IN FirstFree(ElementsAt(below, {i \in DOMAIN below : below[i][1] \in 1..(GunCol - 1)}))

(* A child grows away from the gun, on the side its parent's part is.       *)
FromParent(name, anchor) ==
  CASE anchor = Extras -> Extras
    [] anchor # Extras /\ anchor[2] < 0 -> Up(anchor[1], anchor[2] - 1)
    [] anchor # Extras /\ anchor[2] > 0 -> Down(anchor[1], anchor[2] + 1)
    [] anchor # Extras /\ anchor[2] = 0 ->
         IF anchor[1] < GunCol /\ name = "Mount" THEN DiagonalDown(anchor[1])
         ELSE IF anchor[1] < GunCol /\ name \in {"Scope", "Tactical"} THEN Up(anchor[1], -1)
         ELSE Down(anchor[1], 1)

(* The rules in their order; a name of the left queue whose place is taken  *)
(* goes on to the others, as a charging handle's second one does.           *)
LeftPlace(name) ==
  IF name \in {LeftQueue[i] : i \in DOMAIN LeftQueue} THEN CellAt(LeftCol(name), 0) ELSE Extras

(* Which rule a slot is placed by.                                          *)
RuleOf(name, parentName, ofGun) ==
  IF name \in ExtraNames THEN "extras"
  ELSE IF LeftPlace(name) # Extras THEN "left"
  ELSE IF name = "Ch. Handle" THEN "handle"
  ELSE IF parentName = "Stock" THEN "under stock"
  ELSE IF name = "Stock" THEN "stock"
  ELSE IF name = "Tactical" /\ ofGun THEN "tactical"
  ELSE IF name \in DOMAIN TopCol /\ ofGun THEN "top"
  ELSE IF name \in DOMAIN BottomCol /\ ofGun THEN "bottom"
  ELSE IF name \in BottomLeft /\ ofGun THEN "bottom left"
  ELSE IF name = "Front Sight" THEN "front sight"
  ELSE "parent"

SecondHandle == CellAt(StockCol, -1) = Extras

CellBy(rule, name, anchor) ==
  CASE rule = "extras" -> Extras
    [] rule = "left" -> LeftPlace(name)
    [] rule = "handle" -> IF SecondHandle THEN CellAt(glBottomLeft, 1) ELSE CellAt(StockCol, -1)
    [] rule = "under stock" -> CellAt(StockCol, glStockRow)
    [] rule = "stock" -> CellAt(StockCol, 0)
    [] rule = "tactical" -> CellAt(GunCol, -(glTactical + 1))
    [] rule = "top" -> Up(TopCol[name], -1)
    [] rule = "bottom" -> Down(BottomCol[name], 1)
    [] rule = "bottom left" -> CellAt(glBottomLeft, 1)
    [] rule = "front sight" -> CellAt(MuzzleCol, -1)
    [] rule = "parent" -> FromParent(name, anchor)

-------------------------------------------------------------------------------
(* The walk: the next slot is one of the part put in last, or of a part on  *)
(* the way to it.                                                           *)
IsAncestor(a, i) ==
  LET Up1[j \in 0..Len(glSlots)] ==
        IF j = a THEN TRUE ELSE IF j = 0 THEN FALSE ELSE Up1[glSlots[j].parent]
  IN Up1[i]
CanFollow(parent) ==
  IF glSlots = <<>> THEN parent = 0
  ELSE /\ IF parent = 0 THEN TRUE ELSE glSlots[parent].installed
       /\ IsAncestor(parent, Len(glSlots))

GridLayoutInit ==
  /\ glNames \in {names \in SUBSET GridNames : Cardinality(names) \in 1..MaxGridSlots}
  /\ glReserved \in SUBSET FixedCells /\ glOccupied = glReserved
  /\ glSlots = <<>> /\ glCells = <<>> /\ glAnchors = <<>>
  /\ glTactical = 0 /\ glBottomLeft = GunCol /\ glStockRow = 1
  /\ glDeferred = <<>> /\ glPhase = "loop"

AddSlot(name, parent, installed, cell, anchor) ==
  /\ glSlots' = Append(glSlots, [name |-> name, parent |-> parent, installed |-> installed])
  /\ glCells' = Append(glCells, cell)
  /\ glAnchors' = Append(glAnchors, IF installed THEN anchor ELSE Extras)
  /\ UNCHANGED <<glNames, glReserved, glPhase>>

(* A slot without an override.                                              *)
PlaceSlot ==
  /\ glPhase = "loop" /\ Len(glSlots) < MaxGridSlots
  /\ \E name \in glNames, parent \in 0..Len(glSlots), installed \in BOOLEAN :
       LET parentName == IF parent = 0 THEN "" ELSE glSlots[parent].name
           anchor == IF parent = 0 THEN Extras ELSE glAnchors[parent]
           rule == RuleOf(name, parentName, parent = 0)
           cell == CellBy(rule, name, anchor)
       IN /\ CanFollow(parent)
          /\ AddSlot(name, parent, installed, cell, cell)
          /\ glOccupied' = IF cell = Extras THEN glOccupied ELSE glOccupied \cup {cell}
          /\ glTactical' = IF rule = "tactical" THEN glTactical + 1 ELSE glTactical
          /\ glStockRow' = IF rule = "under stock" THEN glStockRow + 1 ELSE glStockRow
          /\ glBottomLeft' = IF rule = "bottom left" \/ (rule = "handle" /\ SecondHandle)
                             THEN glBottomLeft - 1 ELSE glBottomLeft
  /\ UNCHANGED glDeferred

(* A slot whose override is fixed: its cell was reserved in the pre-pass.   *)
PlaceFixed ==
  /\ glPhase = "loop" /\ Len(glSlots) < MaxGridSlots
  /\ \E name \in glNames, parent \in 0..Len(glSlots), installed \in BOOLEAN,
        cell \in glReserved :
       /\ CanFollow(parent) /\ \A i \in DOMAIN glCells : glCells[i] # cell
       /\ AddSlot(name, parent, installed, cell, cell)
  /\ UNCHANGED <<glOccupied, glTactical, glBottomLeft, glStockRow, glDeferred>>

(* A slot whose override is flexible waits; its part's children are placed  *)
(* from the cell it prefers.                                                *)
DeferFlexible ==
  /\ glPhase = "loop" /\ Len(glSlots) < MaxGridSlots
  /\ \E name \in glNames, parent \in 0..Len(glSlots), installed \in BOOLEAN,
        cell \in FlexibleCells :
       /\ CanFollow(parent)
       /\ AddSlot(name, parent, installed, Extras, cell)
       /\ glDeferred' = Append(glDeferred, [slot |-> Len(glSlots) + 1, cell |-> cell])
  /\ UNCHANGED <<glOccupied, glTactical, glBottomLeft, glStockRow>>

EndLoop ==
  /\ glPhase = "loop" /\ glPhase' = "second"
  /\ glNames = {glSlots[i].name : i \in DOMAIN glSlots}
  /\ glReserved \subseteq {glCells[i] : i \in DOMAIN glCells}
  /\ UNCHANGED <<glNames, glReserved, glSlots, glCells, glAnchors, glOccupied, glTactical,
                 glBottomLeft, glStockRow, glDeferred>>

(* The second pass: a displaced flexible slot moves down.                   *)
PlaceFlexible ==
  /\ glPhase = "second" /\ glDeferred # <<>>
  /\ LET next == Head(glDeferred)
         cell == Down(next.cell[1], next.cell[2])
     IN /\ glCells' = [glCells EXCEPT ![next.slot] = cell]
        /\ glOccupied' = IF cell = Extras THEN glOccupied ELSE glOccupied \cup {cell}
        /\ glAnchors' = [glAnchors EXCEPT ![next.slot] =
                           IF glSlots[next.slot].installed /\ cell # Extras THEN cell ELSE @]
  /\ glDeferred' = Tail(glDeferred)
  /\ UNCHANGED <<glNames, glReserved, glSlots, glTactical, glBottomLeft, glStockRow,
                 glPhase>>

(* Virtual rows become rows of the grid, the topmost the first.             *)
EndLayout ==
  /\ glPhase = "second" /\ glDeferred = <<>> /\ glPhase' = "done"
  /\ UNCHANGED <<glNames, glReserved, glSlots, glCells, glAnchors, glOccupied, glTactical,
                 glBottomLeft, glStockRow, glDeferred>>

GridLayoutNext ==
  \/ PlaceSlot \/ PlaceFixed \/ DeferFlexible \/ EndLoop \/ PlaceFlexible \/ EndLayout

Placed == {i \in DOMAIN glCells : glCells[i] # Extras}
MinRow == LET rows == {0} \cup {glCells[i][2] : i \in Placed}
          IN CHOOSE r \in rows : \A q \in rows : r <= q
GunRow == 1 - MinRow
RowOfCell(i) == glCells[i][2] - MinRow + 1

-------------------------------------------------------------------------------
(* No two slots of a grid share a cell, all rows are rows of the grid, and  *)
(* no slot lies on the gun, unless it is one whose flexible override is     *)
(* above the gun and was displaced downwards.                               *)
CellsAreApart ==
  glPhase = "done" =>
    /\ \A i, j \in Placed : glCells[i] = glCells[j] => i = j
    /\ \A i \in Placed : RowOfCell(i) >= 1 /\ glCells[i] \in glOccupied
    /\ \A i \in Placed : glCells[i] \in GunCells =>
         \E cell \in FlexibleCells : cell[1] = glCells[i][1] /\ cell[2] < 0
===============================================================================
