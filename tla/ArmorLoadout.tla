------------------------------ MODULE ArmorLoadout ------------------------------
(* The loadout of the armor simulator (modules/armor-sim.js): what is in    *)
(* its slots, the item table open on one of them                            *)
(* (modules/ballistics-workbench.js), and the durability popover.  Every    *)
(* change goes through _scheduleRun, which saves it to the workbench tab    *)
(* and plans a run.                                                         *)
(*                                                                          *)
(* A slot is <<"eq", s, "">> for what is worn, <<"plate", s, name>> for a   *)
(* plate of it, <<"att", "headwear", path>> for an attachment of the helmet *)
(* or of another attachment.                                                *)
EXTENDS Integers, FiniteSets

CONSTANTS
  EquipSlots,       \* EQUIPMENT_SLOTS
  FitsEquip,        \* the items of the catalog that go in each
  Opened3,          \* [holder, item, slot, allowed, default]: what `item` in `holder` opens
  Refuses,          \* pairs of items that conflict, in either order
  WithInserts,      \* items of several built-in inserts
  Gone,             \* items saved loadouts may name that the catalog no longer has
  Percents,         \* durability values tried besides 100
  SavedLoadouts,    \* what the tabs may have saved
  LoadoutTabs, EmptySlot, MaxLoadoutActs

ASSUME ArmorLoadoutConstants ==
  MaxLoadoutActs \in Nat /\ Percents \subseteq 0..100 /\ LoadoutTabs # {}

VARIABLES
  ldIn,             \* the slots that are filled, and what is in each
  ldTab, ldTabs,    \* the tab on show, and what the tabs have saved
  ldPicker,         \* the open item table: its slot, the rows it offers without a conflict
  ldPop,            \* the popover: its slot, what its parts were, pending, confirmed
  ldAllParts,       \* _duraAllParts
  ldActs            \* bound

ldVars == <<ldIn, ldTab, ldTabs, ldPicker, ldPop, ldAllParts, ldActs>>

Worn(s) == <<"eq", s, "">>
Carriers == {"rig", "armor"}
LoadoutKeys == {Worn(s) : s \in EquipSlots} \cup {o.slot : o \in Opened3}

(* A loadout: what is in each of the slots that are filled.                 *)
LoadoutItems ==
  Gone \cup UNION ({FitsEquip[s] : s \in EquipSlots} \cup {o.allowed : o \in Opened3})
LoadoutThings == [item : LoadoutItems, dura : 0..100, own : 0..100]
IsLoadout(in) == DOMAIN in \subseteq LoadoutKeys /\ in \in [DOMAIN in -> LoadoutThings]

AsNew(item) == [item |-> item, dura |-> 100, own |-> 0]
Without3(in, slots) == [k \in DOMAIN in \ slots |-> in[k]]
PutIn(in, k, thing) == [j \in DOMAIN in \cup {k} |-> IF j = k THEN thing ELSE in[j]]
Conflict(i, j) == <<i, j>> \in Refuses \/ <<j, i>> \in Refuses

(* _attachmentSlots: the slots that are open, walked from the helmet; only  *)
(* a part its slot allows opens others.  Plate slots are the carrier's own. *)
Opens(in, k) == {o \in Opened3 : o.holder = k /\ k \in DOMAIN in /\ o.item = in[k].item}
OpenSlots(in) ==
  LET first == UNION {Opens(in, Worn(s)) : s \in EquipSlots}
      Next3(open) == open \cup UNION {Opens(in, o.slot) : o \in {p \in open :
                       p.slot \in DOMAIN in /\ in[p.slot].item \in p.allowed}}
  IN Next3(first)       \* attachments are nested two deep

Inside(in, s) == {k \in DOMAIN in : k[1] # "eq" /\ k[2] = s}
AllowedIn(in, k) == IF k[1] = "eq" THEN FitsEquip[k[2]]
                  ELSE UNION {o.allowed : o \in {p \in OpenSlots(in) : p.slot = k}}

(* _dropLooseAttachments *)
DropLoose(in) ==
  Without3(in, {k \in DOMAIN in : k[1] = "att" /\ in[k].item \notin AllowedIn(in, k)})

(* _pruneLoadout: what the catalog no longer has, and what was in it.       *)
Pruned(in) ==
  LET lost == {s \in EquipSlots : Worn(s) \in DOMAIN in /\ in[Worn(s)].item \in Gone}
      kept == Without3(in, {k \in DOMAIN in :
                             in[k].item \in Gone \/ (k[1] # "att" /\ k[2] \in lost)})
  IN DropLoose(kept)

(* _conflictFor: a worn rig and body armor exclude each other; any part may *)
(* conflict with another one.  _present leaves out what goes with the slot. *)
Present(in, k) == {j \in DOMAIN in : j # k /\ (k[1] = "eq" => j[2] # k[2])}
ConflictFor(in, item, k) ==
  \/ \E a, b \in Carriers : a # b /\ k = Worn(a) /\ Worn(b) \in DOMAIN in
  \/ \E j \in Present(in, k) : Conflict(item, in[j].item)

(* Mutant: parts that something worn refuses are offered too.              *)
OfferedAll(in, k) == AllowedIn(in, k)

Offered(in, k) == {item \in AllowedIn(in, k) : ~ConflictFor(in, item, k)}

(* _defaultInserts: an item comes with its default plates or attachments,   *)
(* and those with theirs.                                                   *)
DefaultParts(item, k) ==
  LET With(in) == {o \in UNION {Opens(in, j) : j \in DOMAIN in} : o.default # EmptySlot}
      bare == [j \in {k} |-> AsNew(item)]
      Fill(in) == [j \in DOMAIN in \cup {o.slot : o \in With(in)} |->
                     IF j \in DOMAIN in THEN in[j]
                     ELSE AsNew((CHOOSE o \in With(in) : o.slot = j).default)]
  IN IF k[2] = "headwear" \/ k[2] \in Carriers THEN Without3(Fill(Fill(bare)), {k})
     ELSE Without3(bare, {k})

(* No two items conflict, a rig is not worn with body armor, and a worn     *)
(* item or a plate fits what it is in.                                      *)
Wearable(in) ==
  /\ \A j, k \in DOMAIN in : ~Conflict(in[j].item, in[k].item)
  /\ ~(Carriers \subseteq {s \in EquipSlots : Worn(s) \in DOMAIN in})
  /\ \A k \in DOMAIN in : k[1] # "att" => in[k].item \in AllowedIn(in, k)

(* The catalog: plates are in what is worn, what comes with an item fits it *)
(* and goes with it, and no item refuses itself.  What the tabs have saved  *)
(* can be worn once it is pruned.                                           *)
ASSUME ArmorCatalog ==
  /\ \A o \in Opened3 :
       /\ o.slot[1] \in {"plate", "att"}
       /\ o.slot[1] = "plate" => o.slot[2] \in EquipSlots /\ o.holder = Worn(o.slot[2])
       /\ o.default \in o.allowed \cup {EmptySlot}
  /\ \A item \in LoadoutItems : ~Conflict(item, item)
  /\ \A s \in EquipSlots : \A item \in FitsEquip[s] :
       LET parts == DefaultParts(item, Worn(s))
       IN \A j \in DOMAIN parts :
            /\ ~Conflict(item, parts[j].item)
            /\ \A p \in DOMAIN parts : ~Conflict(parts[j].item, parts[p].item)
  /\ \A in \in SavedLoadouts : IsLoadout(in) /\ Wearable(Pruned(in))
  /\ EmptySlot \notin [slot : LoadoutKeys, pending : BOOLEAN, confirmed : BOOLEAN,
                      were : UNION {[keys -> LoadoutThings] : keys \in SUBSET LoadoutKeys}]

ArmorLoadoutInit ==
  /\ ldTab = (CHOOSE t \in LoadoutTabs : TRUE)
  /\ ldTabs \in [LoadoutTabs -> SavedLoadouts]
  /\ ldIn = Pruned(ldTabs[ldTab])
  /\ ldPicker = EmptySlot /\ ldPop = EmptySlot /\ ldAllParts = TRUE /\ ldActs = 0

-------------------------------------------------------------------------------
(* _closeDuraPop, confirming what is not: the loadout is then saved.        *)
SaveToTab(in) == ldTabs' = [ldTabs EXCEPT ![ldTab] = in]
Act3 == ldActs < MaxLoadoutActs /\ ldActs' = ldActs + 1

(* _renderLeft and _scheduleRun, which end every change of the loadout.     *)
Change3(in) == ldIn' = in /\ SaveToTab(in) /\ ldPop' = EmptySlot
RefreshPicker(in, picker) ==
  ldPicker' = IF picker = EmptySlot THEN EmptySlot
              ELSE [picker EXCEPT !.offers = Offered(in, picker.slot)]

OpenPicker(k) ==
  /\ AllowedIn(ldIn, k) # {} /\ (IF ldPicker = EmptySlot THEN TRUE ELSE ldPicker.slot # k)
  /\ ldPicker' = [slot |-> k, offers |-> Offered(ldIn, k)]
  /\ UNCHANGED <<ldIn, ldTab, ldTabs, ldPop, ldAllParts, ldActs>>

ClosePicker3 == /\ ldPicker # EmptySlot /\ ldPicker' = EmptySlot
                /\ UNCHANGED <<ldIn, ldTab, ldTabs, ldPop, ldAllParts, ldActs>>

(* _install: a worn item brings its defaults, less what the rest of the     *)
(* loadout refuses; an attachment drops what it has no slot for; what was   *)
(* in the slot gives its durability.                                        *)
WithItem(in, k, item) ==
  LET fresh == [AsNew(item) EXCEPT !.dura = IF k \in DOMAIN in THEN in[k].dura ELSE 100]
      present == Present(in, k)
      defaults == DefaultParts(item, k)
      taken == {j \in DOMAIN defaults :
                  \A p \in present : ~Conflict(defaults[j].item, in[p].item)}
      others == Without3(in, Inside(in, k[2]))
      worn == PutIn(others, k, fresh)
  IN CASE k[1] = "eq" ->
            [j \in DOMAIN worn \cup taken |-> IF j \in taken THEN defaults[j] ELSE worn[j]]
       [] k[1] = "att" -> DropLoose(PutIn(in, k, fresh))
       [] k[1] = "plate" -> PutIn(in, k, fresh)

Pick(item) ==
  /\ ldPicker # EmptySlot /\ item \in ldPicker.offers /\ Act3
  /\ LET k == ldPicker.slot
     IN /\ k \in DOMAIN ldIn => ldIn[k].item # item
        /\ Change3(WithItem(ldIn, k, item))
        /\ RefreshPicker(WithItem(ldIn, k, item), ldPicker)
  /\ UNCHANGED <<ldTab, ldAllParts>>

(* _clearSlot, from the slot or from the row of the table; a table that is  *)
(* open on the slot or on one inside it closes, unless it was used.         *)
Cleared(in, k) ==
  CASE k[1] = "eq" -> Without3(in, {k} \cup Inside(in, k[2]))
    [] k[1] = "att" -> DropLoose(Without3(in, {k}))
    [] k[1] = "plate" -> Without3(in, {k})
IsInsertOf(j, k) == IF k[1] = "att" THEN \E o \in Opened3 : o.holder = k /\ o.slot = j
                    ELSE j[1] # "eq" /\ j[2] = k[2]

ClearSlot(k, fromTable) ==
  /\ k \in DOMAIN ldIn /\ Act3
  /\ fromTable => ldPicker # EmptySlot /\ ldPicker.slot = k
  /\ LET in == Cleared(ldIn, k)
         affected == ldPicker # EmptySlot
                     /\ (ldPicker.slot = k \/ (k[1] # "plate" /\ IsInsertOf(ldPicker.slot, k)))
     IN /\ Change3(in)
        /\ RefreshPicker(in, IF affected /\ ~fromTable THEN EmptySlot ELSE ldPicker)
  /\ UNCHANGED <<ldTab, ldAllParts>>

(* reset, the workbench's button.                                           *)
ResetLoadout ==
  /\ Act3 /\ Change3([k \in {} |-> EmptySlot]) /\ ldPicker' = EmptySlot
  /\ UNCHANGED <<ldTab, ldAllParts>>

(* Another workbench tab: what is open saves to the tab it was opened in.   *)
SwitchLoadout(t) ==
  /\ t # ldTab /\ Act3 /\ ldTab' = t /\ ldIn' = Pruned(ldTabs[t])
  /\ ldTabs' = IF ldPop = EmptySlot THEN ldTabs
               ELSE IF ldPop.pending THEN [ldTabs EXCEPT ![ldTab] = ldIn] ELSE ldTabs
  /\ ldPicker' = EmptySlot /\ ldPop' = EmptySlot /\ UNCHANGED ldAllParts

-------------------------------------------------------------------------------
(* The durability popover: a worn item and what is in it, or one part.      *)
DuraParts(k) ==
  IF k[1] # "eq" THEN {k}
  ELSE {k} \cup {j \in Inside(ldIn, k[2]) : \E o \in OpenSlots(ldIn) : o.slot = j}

OpenDuraPop(k) ==
  /\ k \in DOMAIN ldIn /\ Act3
  /\ IF ldPop = EmptySlot THEN TRUE ELSE ldPop.slot # k
  /\ (IF ldPop # EmptySlot /\ ldPop.pending THEN SaveToTab(ldIn) ELSE UNCHANGED ldTabs)
  /\ ldPop' = [slot |-> k, were |-> [j \in DuraParts(k) |-> ldIn[j]],
               pending |-> FALSE, confirmed |-> FALSE]
  /\ UNCHANGED <<ldIn, ldTab, ldPicker, ldAllParts>>

(* A slider or field: every part, the item alone, or one of its inserts.    *)
Slide(percent, allParts, insert) ==
  /\ ldPop # EmptySlot /\ Act3 /\ ldAllParts' = allParts
  /\ insert => ~allParts /\ ldIn[ldPop.slot].item \in WithInserts
  /\ LET edited == IF allParts THEN DOMAIN ldPop.were ELSE {ldPop.slot}
     IN ldIn' = [j \in DOMAIN ldIn |->
                   IF j \notin edited THEN ldIn[j]
                   ELSE IF insert THEN [ldIn[j] EXCEPT !.own = percent]
                   ELSE [ldIn[j] EXCEPT !.dura = percent, !.own = 0]]
  /\ ldPop' = [ldPop EXCEPT !.pending = TRUE]
  /\ UNCHANGED <<ldTab, ldTabs, ldPicker>>

(* _confirmDura: the slider is let go, or the field is left.                *)
ConfirmDura ==
  /\ ldPop # EmptySlot /\ ldPop.pending /\ SaveToTab(ldIn)
  /\ ldPop' = [ldPop EXCEPT !.pending = FALSE, !.confirmed = TRUE]
  /\ UNCHANGED <<ldIn, ldTab, ldPicker, ldAllParts, ldActs>>

CloseDuraPop ==
  /\ ldPop # EmptySlot /\ ldPop' = EmptySlot
  /\ (IF ldPop.pending THEN SaveToTab(ldIn) ELSE UNCHANGED ldTabs)
  /\ UNCHANGED <<ldIn, ldTab, ldPicker, ldAllParts, ldActs>>

(* Escape puts back what the parts started at.                              *)
PutBack(in, were) == [j \in DOMAIN in |-> IF j \in DOMAIN were THEN were[j] ELSE in[j]]
CancelDuraPop ==
  /\ ldPop # EmptySlot /\ ldPop' = EmptySlot
  /\ LET back == PutBack(ldIn, ldPop.were)
     IN /\ ldIn' = IF ldPop.pending \/ ldPop.confirmed THEN back ELSE ldIn
        /\ (IF ldPop.confirmed THEN SaveToTab(back) ELSE UNCHANGED ldTabs)
  /\ UNCHANGED <<ldTab, ldPicker, ldAllParts, ldActs>>

ArmorLoadoutNext ==
  \/ \E k \in LoadoutKeys : \/ OpenPicker(k) \/ OpenDuraPop(k)
                            \/ \E fromTable \in BOOLEAN : ClearSlot(k, fromTable)
  \/ \E item \in UNION ({FitsEquip[s] : s \in EquipSlots} \cup {o.allowed : o \in Opened3}) :
       Pick(item)
  \/ \E t \in LoadoutTabs : SwitchLoadout(t)
  \/ \E percent \in Percents, allParts, insert \in BOOLEAN : Slide(percent, allParts, insert)
  \/ ClosePicker3 \/ ResetLoadout \/ ConfirmDura \/ CloseDuraPop \/ CancelDuraPop

-------------------------------------------------------------------------------
(* No two items of a loadout conflict, a rig is not worn with body armor,   *)
(* and a plate is in a carrier that takes it, whatever was put in, taken    *)
(* out or brought along by something else, and in whatever order.           *)
LoadoutIsWearable == Wearable(ldIn)

(* What the tab saves and the next run is for is the loadout on show, but   *)
(* for a durability that is still being dragged; so an Escape that puts the *)
(* old values back is saved too when the new ones had been.                 *)
TabHasTheLoadout ==
  (IF ldPop = EmptySlot THEN TRUE ELSE ~ldPop.pending) => Pruned(ldTabs[ldTab]) = Pruned(ldIn)

(* armor-sim.js:1401: "Drop attachments whose slot is gone, like a mandible *)
(* once its side armor comes off".  A helmet whose default side armor is    *)
(* refused keeps the mandible that came with it.                            *)
AttachmentsHaveTheirSlot == \A k \in DOMAIN ldIn : ldIn[k].item \in AllowedIn(ldIn, k)

(* The loadout on show: it can be worn, and it is the one kept.             *)
LoadoutIsRight == LoadoutIsWearable /\ TabHasTheLoadout
===============================================================================
