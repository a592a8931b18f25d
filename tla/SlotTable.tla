------------------------------- MODULE SlotTable -------------------------------
(* The attachment table of the builder (modules/slot-selector.js) over the *)
(* build tree (modules/tree.js): a table is drawn for a slot at once, its  *)
(* candidates come later, simulated against the build as it was when they  *)
(* were asked for, and meanwhile the build is edited, other slots are      *)
(* opened, the table is closed or shows combinations.                      *)
(*                                                                         *)
(* Path[s] is the way from the gun to slot s.  A slot holds a part or      *)
(* nothing, and born tells the nodes of the tree apart: the edit that made *)
(* them.  Parts that do not fit, prices and favourites only hide rows.     *)
EXTENDS Naturals, Sequences, FiniteSets, SequencesExt

CONSTANTS
  Slots, Path, Stock,   \* Stock: the build of the gun's preset
  NoSlot,       \* no table, no slot
  MaxEdits, MaxLoads, MaxSettings       \* bounds

TreeBuilds == {b \in [Slots -> BOOLEAN] :
              \A s \in Slots, t \in Slots :
                b[s] /\ IsStrictPrefix(Path[t], Path[s]) => b[t]}

ASSUME SlotConstants ==
  /\ Path \in [Slots -> Seq(Slots)]
  /\ \A s \in Slots :
       /\ Path[s] # <<>> /\ Last(Path[s]) = s
       /\ \A n \in DOMAIN Path[s] : Path[Path[s][n]] = SubSeq(Path[s], 1, n)
  /\ Stock \in TreeBuilds /\ NoSlot \notin Slots /\ "root" \notin Slots
  /\ {MaxEdits, MaxLoads, MaxSettings} \subseteq Nat

VARIABLES
  stBuild,      \* which slots hold a part
  stBorn,       \* the edit that made each slot's part, and the root's
  stEdits,
  stTable,      \* the drawn table: its slot, its view, its rows drawn or not
  stLast,       \* lastSlot and lastParentNode
  stItems,      \* lastProcessedItems: the slot and build they are for
  stSeq, stLoads,       \* _slotLoadSeq; the load under way, overtaken ones gone
  stRedo,       \* the newest request of _reprocessOpenSlot
  stCombo,      \* _comboRequestGen, _comboCalcInFlight and lastComboItems
  stComboCalls,
  stSettings,   \* strength, language, equipment
  stCompare,    \* compareMode and the slot of its baseline
  stMissed      \* ghost: a load or a request was overtaken and not made again

stVars == <<stBuild, stBorn, stEdits, stTable, stLast, stItems, stSeq, stLoads,
            stRedo, stCombo, stComboCalls, stSettings, stCompare, stMissed>>

-------------------------------------------------------------------------------
(* The tree. *)

Below(s, t) == IsPrefix(Path[s], Path[t])
InTree(b, s) == \A t \in Slots : IsStrictPrefix(Path[t], Path[s]) => b[t]
Emptied(b, s) == [t \in Slots |-> b[t] /\ ~Below(s, t)]
WithPart(b, s) == [Emptied(b, s) EXCEPT ![s] = TRUE]

(* The parent node of a slot: the gun, or the part in the slot above.      *)
ParentNode(s) ==
  IF Len(Path[s]) = 1 THEN stBorn.root ELSE stBorn[Path[s][Len(Path[s]) - 1]]

NoTable == [slot |-> NoSlot, view |-> "list", rows |-> FALSE]
NoLast == [slot |-> NoSlot, node |-> 0]
NoItems == [slot |-> NoSlot, base |-> [s \in Slots |-> FALSE]]
NoCombos == [slot |-> NoSlot, node |-> 0]
NoCompare == [on |-> FALSE, baseline |-> NoSlot]

SlotTableInit ==
  /\ stBuild = Stock
  /\ stBorn = [s \in Slots \cup {"root"} |-> 0] /\ stEdits = 0
  /\ stTable = NoTable /\ stLast = NoLast /\ stItems = NoItems
  /\ stSeq = 0 /\ stLoads = {} /\ stRedo = {}
  /\ stCombo = [gen |-> 0, busy |-> FALSE, items |-> NoCombos] /\ stComboCalls = {}
  /\ stSettings = 0 /\ stCompare = NoCompare /\ stMissed = FALSE

-------------------------------------------------------------------------------
(* Opening a slot. *)

(* _abortComboCalc: the requests of older generations answer into nothing. *)
AbortedCombo == [gen |-> stCombo.gen + 1, busy |-> FALSE, items |-> NoCombos]

(* The baseline of a comparison goes when the slot is inside the one it    *)
(* was chosen in, and the comparison when it is in another branch.         *)
CompareAt(s) ==
  IF stCompare.baseline = NoSlot THEN stCompare
  ELSE IF Head(Path[s]) # Head(Path[stCompare.baseline]) THEN NoCompare
  ELSE IF IsStrictPrefix(Path[stCompare.baseline], Path[s])
  THEN [stCompare EXCEPT !.baseline = NoSlot] ELSE stCompare

Loading1 == stLoads # {}

OpenSlot(s) ==
  /\ InTree(stBuild, s) /\ stSeq < MaxLoads
  /\ stSeq' = stSeq + 1
  /\ IF stLast = [slot |-> s, node |-> ParentNode(s)]
     THEN stLoads' = {} /\ UNCHANGED <<stTable, stCombo, stComboCalls, stCompare,
                                       stMissed>>
     ELSE /\ stTable' = [slot |-> s, view |-> "list", rows |-> FALSE]
          /\ stCompare' = CompareAt(s)
          /\ stCombo' = AbortedCombo /\ stComboCalls' = {}
          /\ stLoads' =
               {[slot |-> s, node |-> ParentNode(s),
                 stage |-> "allowed", base |-> NoItems.base]}
          /\ stMissed' = \E r \in stRedo : r.last.slot = s
  /\ UNCHANGED <<stBuild, stBorn, stEdits, stLast, stItems, stRedo, stSettings>>

(* The allowed items came, or were cached: the candidates are asked for    *)
(* against the build of this moment.                                       *)
AllowedArrive ==
  \E l \in stLoads :
    /\ l.stage = "allowed"
    /\ stLoads' = {[l EXCEPT !.stage = "batch", !.base = Emptied(stBuild, l.slot)]}
    /\ UNCHANGED <<stBuild, stBorn, stEdits, stTable, stLast, stItems, stSeq, stRedo,
                   stCombo, stComboCalls, stSettings, stCompare, stMissed>>

(* The candidates came, or were cached for the same parts: the table's     *)
(* slot becomes the last one and its rows are drawn, if it is still there. *)
CandidatesArrive ==
  \E l \in stLoads :
    /\ l.stage = "batch"
    /\ stLoads' = {}
    /\ stItems' = [slot |-> l.slot, base |-> l.base]
    /\ stLast' = [slot |-> l.slot, node |-> l.node]
    /\ stTable' = [stTable EXCEPT !.rows = stTable.slot # NoSlot]
    /\ UNCHANGED <<stBuild, stBorn, stEdits, stSeq, stRedo, stCombo,
                   stComboCalls, stSettings, stCompare, stMissed>>

LoadFails ==
  /\ stLoads # {} /\ stLoads' = {}
  /\ UNCHANGED <<stBuild, stBorn, stEdits, stTable, stLast, stItems, stSeq, stRedo,
                 stCombo, stComboCalls, stSettings, stCompare, stMissed>>

(* The close button, and the other views of the panel.                     *)
CloseTable ==
  /\ stTable.slot # NoSlot
  /\ stTable' = NoTable /\ stLast' = NoLast
  /\ UNCHANGED <<stBuild, stBorn, stEdits, stItems, stSeq, stLoads, stRedo,
                 stCombo, stComboCalls, stSettings, stCompare, stMissed>>

(* applyAttachmentSort of the search, the sort, the filters, a favourite   *)
(* or prices that came: draws the rows there are, whichever slot they are  *)
(* for.                                                                    *)
RedrawTable ==
  /\ stTable.slot # NoSlot /\ stLast.slot # NoSlot /\ ~stTable.rows
  /\ stTable' = [stTable EXCEPT !.rows = TRUE]
  /\ UNCHANGED <<stBuild, stBorn, stEdits, stLast, stItems, stSeq, stLoads, stRedo,
                 stCombo, stComboCalls, stSettings, stCompare, stMissed>>

-------------------------------------------------------------------------------
(* Editing the build. *)

Edited(build, s) ==
  /\ stEdits < MaxEdits
  /\ stEdits' = stEdits + 1
  /\ stBuild' = build
  /\ stBorn' = [n \in DOMAIN stBorn |->
                  IF n # "root" /\ Below(s, n) THEN stEdits' ELSE stBorn[n]]
  /\ UNCHANGED <<stSeq, stLoads, stComboCalls, stSettings, stCompare>>

Rows == stTable.slot # NoSlot /\ stTable.rows /\ stLast.slot # NoSlot
Attached == stLast.node = ParentNode(stLast.slot) /\ InTree(stBuild, stLast.slot)

(* installAttachment of a row: into the last slot, or, when its parent was *)
(* replaced, into a node that is no longer part of the build.              *)
InstallRow ==
  /\ Rows /\ stTable.view = "list" /\ ~stCompare.on
  /\ IF Attached THEN Edited(WithPart(stBuild, stLast.slot), stLast.slot)
     ELSE UNCHANGED <<stBuild, stBorn, stEdits, stSeq, stLoads, stComboCalls,
                      stSettings, stCompare>>
  /\ stMissed' = (stMissed \/ Loading1)
  /\ UNCHANGED <<stTable, stLast, stItems, stRedo, stCombo>>

(* removeAttachment: a table inside the removed part is closed, unless the *)
(* part was removed from its own row; what is listed in a table left open  *)
(* is asked for again.                                                     *)
RemoveFromSlot(s, keep) ==
  /\ stBuild[s]
  /\ Edited(Emptied(stBuild, s), s)
  /\ LET inside == stLast.slot # NoSlot /\ Below(s, stLast.slot)
         closes == inside /\ ~keep
         redo == stLast.slot # NoSlot /\ ~closes /\ stItems.slot # NoSlot
     IN /\ stTable' = IF closes THEN NoTable ELSE stTable
        /\ stLast' = IF closes THEN NoLast ELSE stLast
        /\ stRedo' = IF redo
                     THEN {[last |-> stLast, slot |-> stItems.slot,
                            base |-> Emptied(stBuild', stLast.slot)]}
                     ELSE stRedo
  /\ stMissed' = (stMissed \/ Loading1)
  /\ UNCHANGED <<stItems, stCombo>>

RemoveFromTree == \E s \in Slots : RemoveFromSlot(s, FALSE)
RemoveFromRow == Rows /\ ~stCompare.on /\ Attached /\ RemoveFromSlot(stLast.slot, TRUE)

(* Mutant: the answer counts whichever slot is open now.                   *)
ReprocessForAnySlot ==
  \E r \in stRedo, ok \in BOOLEAN :
    /\ stRedo' = {}
    /\ IF ok THEN stItems' = [slot |-> r.slot, base |-> r.base] ELSE UNCHANGED stItems
    /\ stMissed' = (stMissed \/ ~ok)
    /\ UNCHANGED <<stBuild, stBorn, stEdits, stTable, stLast, stSeq, stLoads,
                   stCombo, stComboCalls, stSettings, stCompare>>

(* The answer to the newest request of _reprocessOpenSlot (those of older  *)
(* generations go unused) counts while its slot is the last one; a failed  *)
(* request leaves the rows as they were.                                   *)
ReprocessArrives ==
  \E r \in stRedo, ok \in BOOLEAN :
    /\ stRedo' = {}
    /\ IF ok /\ r.last = stLast
       THEN stItems' = [slot |-> r.slot, base |-> r.base] ELSE UNCHANGED stItems
    /\ stMissed' = (stMissed \/ ~ok)
    /\ UNCHANGED <<stBuild, stBorn, stEdits, stTable, stLast, stSeq, stLoads,
                   stCombo, stComboCalls, stSettings, stCompare>>

(* Undo and redo, over the same gun node (_restoreBuildFromPairs).         *)
RestoreBuild ==
  /\ stEdits < MaxEdits
  /\ stEdits' = stEdits + 1
  /\ \E b \in TreeBuilds \ {stBuild} : stBuild' = b
  /\ stBorn' = [n \in DOMAIN stBorn |-> IF n = "root" THEN stBorn[n] ELSE stEdits']
  /\ stTable' = NoTable /\ stLast' = NoLast
  /\ stMissed' = (stMissed \/ Loading1 \/ stRedo # {})
  /\ UNCHANGED <<stItems, stSeq, stLoads, stRedo, stCombo, stComboCalls,
                 stSettings, stCompare>>

(* resetBuild and stripBuild: a new tree.                                  *)
NewTree ==
  /\ stEdits < MaxEdits
  /\ stEdits' = stEdits + 1
  /\ stBuild' \in {Stock, [s \in Slots |-> FALSE]}
  /\ stBorn' = [n \in DOMAIN stBorn |-> stEdits']
  /\ stTable' = NoTable /\ stLast' = NoLast /\ stItems' = NoItems
  /\ stMissed' = (stMissed \/ Loading1)
  /\ UNCHANGED <<stSeq, stLoads, stRedo, stCombo, stComboCalls, stSettings,
                 stCompare>>

-------------------------------------------------------------------------------
(* Combinations and comparing. *)

(* openComboView: combinations are computed from the slot under the gun;   *)
(* cached ones show at once.                                               *)
OpenCombos(cached) ==
  /\ stCombo' = [gen |-> stCombo.gen + 1, busy |-> ~cached,
                 items |-> IF cached THEN stLast ELSE NoCombos]
  /\ stComboCalls' = IF cached THEN {}
       ELSE {[gen |-> stCombo'.gen, last |-> stLast, root |-> stBorn.root,
              settings |-> stSettings]}

ComboView ==
  /\ Rows /\ stTable.view = "list" /\ stCombo.gen < MaxLoads
  /\ stTable' = [stTable EXCEPT !.view = "combo"]
  /\ stCompare' = NoCompare
  /\ \E cached \in BOOLEAN : OpenCombos(cached)
  /\ stMissed' = (stMissed \/ Loading1)
  /\ UNCHANGED <<stBuild, stBorn, stEdits, stLast, stItems, stSeq, stLoads, stRedo,
                 stSettings>>

CombosArrive ==
  \E c \in stComboCalls :
    LET viewed == c.gen = stCombo.gen /\ stTable.view = "combo"
                  /\ c.root = stBorn.root /\ c.last = stLast
    IN /\ IF viewed /\ c.settings # stSettings
          THEN OpenCombos(FALSE) /\ UNCHANGED stTable
          ELSE /\ stComboCalls' = stComboCalls \ {c}
               /\ \E ok \in BOOLEAN :
                    /\ stCombo' = [stCombo EXCEPT !.busy = FALSE,
                                     !.items = IF viewed /\ ok THEN c.last ELSE @]
                    /\ stTable' = IF viewed /\ ~ok
                                  THEN [stTable EXCEPT !.view = "list"] ELSE stTable
       /\ UNCHANGED <<stBuild, stBorn, stEdits, stLast, stItems, stSeq, stLoads,
                      stRedo, stSettings, stCompare, stMissed>>

ListView ==
  /\ stTable.view = "combo"
  /\ stTable' = [stTable EXCEPT !.view = "list"]
  /\ stCombo' = AbortedCombo /\ stComboCalls' = {}
  /\ UNCHANGED <<stBuild, stBorn, stEdits, stLast, stItems, stSeq, stLoads, stRedo,
                 stSettings, stCompare, stMissed>>

(* A combination clicked: it replaces the part in the slot under the gun,  *)
(* and with it the parent of a last slot further down.                     *)
InstallCombo ==
  /\ stTable.view = "combo" /\ stCombo.items # NoCombos /\ Rows /\ Attached
  /\ LET s == Head(Path[stLast.slot])
     IN \E b \in TreeBuilds : b[s] /\ Emptied(b, s) = Emptied(stBuild, s) /\ Edited(b, s)
  /\ stMissed' = (stMissed \/ Loading1)
  /\ UNCHANGED <<stTable, stLast, stItems, stRedo, stCombo>>

ToggleCompare ==
  /\ stTable.slot # NoSlot
  /\ stCompare' = IF stCompare.on THEN NoCompare ELSE [NoCompare EXCEPT !.on = TRUE]
  /\ IF ~stCompare.on /\ stTable.view = "combo"
     THEN /\ stTable' = [stTable EXCEPT !.view = "list"]
          /\ stCombo' = AbortedCombo /\ stComboCalls' = {}
     ELSE UNCHANGED <<stTable, stCombo, stComboCalls>>
  /\ UNCHANGED <<stBuild, stBorn, stEdits, stLast, stItems, stSeq, stLoads, stRedo,
                 stSettings, stMissed>>

PickBaseline ==
  /\ Rows /\ stTable.view = "list" /\ stCompare.on
  /\ stCompare' = [stCompare EXCEPT
                    !.baseline = IF Attached THEN stLast.slot ELSE NoSlot]
  /\ UNCHANGED <<stBuild, stBorn, stEdits, stTable, stLast, stItems, stSeq, stLoads,
                 stRedo, stCombo, stComboCalls, stSettings, stMissed>>

ChangeSettings ==
  /\ stSettings < MaxSettings /\ stSettings' = stSettings + 1
  /\ UNCHANGED <<stBuild, stBorn, stEdits, stTable, stLast, stItems, stSeq, stLoads,
                 stRedo, stCombo, stComboCalls, stCompare, stMissed>>

SlotTableNext ==
  \/ \E s \in Slots : OpenSlot(s)
  \/ AllowedArrive \/ CandidatesArrive \/ LoadFails \/ CloseTable \/ RedrawTable
  \/ InstallRow \/ RemoveFromTree \/ RemoveFromRow \/ ReprocessArrives
  \/ RestoreBuild \/ NewTree
  \/ ComboView \/ CombosArrive \/ ListView \/ InstallCombo
  \/ ToggleCompare \/ PickBaseline \/ ChangeSettings

-------------------------------------------------------------------------------
Settled == ~Loading1 /\ \A r \in stRedo : r.last # stLast

(* The statistics listed in an open table are those of its slot in the     *)
(* build as it is, once nothing is under way, however removals and         *)
(* openings overlapped.  Excepted: an edit overtook the load itself, a     *)
(* request failed (stMissed), or the slot is no longer part of the build.  *)
ListedStatsMatchTheBuild ==
  (Settled /\ ~stMissed /\ Rows /\ stTable.slot = stLast.slot /\ Attached) =>
    stItems = [slot |-> stLast.slot, base |-> Emptied(stBuild, stLast.slot)]

(* The combinations shown are those asked for the open slot, and a view    *)
(* with none to show has a request under way that will answer.             *)
CombosAreOfTheOpenSlot ==
  stTable.view = "combo" /\ stTable.slot # NoSlot /\ ~stMissed =>
    IF stCombo.items = NoCombos
    THEN stCombo.busy /\ \E c \in stComboCalls : c.gen = stCombo.gen /\ c.last = stLast
    ELSE stCombo.items = stLast

(* "If this slot is already open, just re-open the mobile drawer": the     *)
(* last slot has its table on the screen, once no load is under way.       *)
LastSlotHasItsTable == ~Loading1 => stLast.slot \in {NoSlot, stTable.slot}

(* What an open slot lists, one by one and in combinations.                *)
SlotTableIsRight == ListedStatsMatchTheBuild /\ CombosAreOfTheOpenSlot
===============================================================================
