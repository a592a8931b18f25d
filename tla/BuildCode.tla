------------------------------ MODULE BuildCode -------------------------------
(* What becomes of a build that is shared as a code and opened again       *)
(* (modules/build-codes.js, loadBuildFromPayload in build-manager.js): its *)
(* tree is written as pairs of a slot and a part, the pairs as indices into*)
(* a frozen catalogue or as identifiers that share prefixes, and the tree  *)
(* is put together again from the pairs.                                   *)
(*                                                                         *)
(* A tree is the sequence of its parts in the order they were attached,    *)
(* each with the path of slots that leads to it; an identifier is a        *)
(* sequence of digits.  Ammunition, the bits of an index, base 64 and the  *)
(* checksum are left out: a code damaged on its way is not read at all.    *)
EXTENDS Integers, SequencesExt

CONSTANTS CodeGun,            \* an identifier
          SlotsOf,        \* the slots of the gun and of each part
          Allowed,        \* the parts that fit a slot
          FrozenItems,    \* the catalogue: its items,
          FrozenSlots,    \* and the slots of an item, each with its candidates
          IdLength, MaxParts                              \* bound: MaxParts

ASSUME BuildCodeConstants ==
  /\ CodeGun \in DOMAIN SlotsOf /\ \A s \in DOMAIN Allowed : Allowed[s] \subseteq DOMAIN SlotsOf
  /\ IdLength \in Nat /\ MaxParts \in Nat

VARIABLES
  bcTree,       \* the build in front of the user
  bcCode,       \* the code he shared last, if any
  bcShared,     \* history: the build it was made from
  bcOpened,     \* history: bcTree is what that code was opened to, unchanged
  bcMissing     \* the parts an opening reported as missing

bcVars == <<bcTree, bcCode, bcShared, bcOpened, bcMissing>>

NoCode == [format |-> 0]

-------------------------------------------------------------------------------
(* Trees and pairs. *)

ItemAt(tree, path) ==
  IF path = <<>> THEN CodeGun ELSE tree[SelectInSeq(tree, LAMBDA n : n.path = path)].item
Taken(tree, path) == \E i \in DOMAIN tree : tree[i].path = path
ChildrenOf(tree, path) == SelectSeq(tree, LAMBDA n : Front(n.path) = path)

(* collectSlotPairs: breadth first, children in the order of attachment.   *)
InBreadth(tree) ==
  LET level[d \in 0..MaxParts] ==
        IF d = 0 THEN <<<<>>>>
        ELSE FlattenSeq([i \in DOMAIN level[d - 1] |->
               LET children == ChildrenOf(tree, level[d - 1][i])
               IN [j \in DOMAIN children |-> children[j].path]])
  IN FlattenSeq([d \in 1..MaxParts |-> level[d]])

Pairs(tree) ==
  LET paths == InBreadth(tree)
  IN [i \in DOMAIN paths |-> [slot |-> Last(paths[i]), item |-> ItemAt(tree, paths[i])]]

(* Mutant: an owner whose slot is taken is found again.                     *)
OwnersOfAny(tree, slot) ==
  SelectSeq(<<<<>>>> \o [i \in DOMAIN tree |-> tree[i].path],
            LAMBDA path : slot \in Range(SlotsOf[ItemAt(tree, path)]))

(* createSlotParentResolver: the first owner of the slot, in the order they*)
(* were attached, that has nothing in it.                                  *)
OwnersOf(tree, slot) ==
  SelectSeq(<<<<>>>> \o [i \in DOMAIN tree |-> tree[i].path],
            LAMBDA path : /\ slot \in Range(SlotsOf[ItemAt(tree, path)])
                          /\ ~Taken(tree, Append(path, slot)))

(* loadBuildFromPayload, where the candidates of some slots did not come.  *)
Installed(pairs, unknown) ==
  FoldLeft(LAMBDA tree, p :
             LET owners == OwnersOf(tree, p.slot)
             IN IF p.slot \in unknown \/ p.item \notin Allowed[p.slot] \/ owners = <<>> THEN tree
                ELSE Append(tree, [path |-> Append(Head(owners), p.slot), item |-> p.item]),
           <<>>, pairs)

-------------------------------------------------------------------------------
(* Identifiers (format 2). *)

Standard(id) == Len(id) = IdLength
CommonLength(id, previous) ==
  LET n == IF Len(id) < Len(previous) THEN Len(id) ELSE Len(previous)
      same == {k \in 0..n : \A i \in 1..k : id[i] = previous[i]}
  IN CHOOSE k \in same : \A j \in same : j <= k

(* _writeBuildId: two digits a byte, after those of the previous one.      *)
WriteId(id, previous) ==
  IF ~Standard(id) THEN [shared |-> 255, raw |-> id]
  ELSE LET k == CommonLength(id, previous)
       IN [shared |-> k,
           bytes |-> [i \in 1..((IdLength - k + 1) \div 2) |->
                        <<id[k + 2 * i - 1], IF k + 2 * i <= IdLength THEN id[k + 2 * i] ELSE 0>>]]

ReadId(w, previous) ==
  IF w.shared = 255 THEN w.raw
  ELSE SubSeq(SubSeq(previous, 1, w.shared) \o FlattenSeq(w.bytes), 1, IdLength)

Complete(pairs) ==
  [format |-> 2, gun |-> WriteId(CodeGun, <<>>),
   pairs |-> [i \in DOMAIN pairs |->
                [slot |-> WriteId(pairs[i].slot, IF i = 1 THEN CodeGun ELSE pairs[i - 1].slot),
                 item |-> WriteId(pairs[i].item, IF i = 1 THEN CodeGun ELSE pairs[i - 1].item)]]]

ReadComplete(code) ==
  LET gun == ReadId(code.gun, <<>>)
  IN FoldLeft(LAMBDA read, w :
                LET before == IF read = <<>> THEN [slot |-> gun, item |-> gun] ELSE Last(read)
                IN Append(read, [slot |-> ReadId(w.slot, before.slot),
                                 item |-> ReadId(w.item, before.item)]),
              <<>>, code.pairs)

-------------------------------------------------------------------------------
(* Indices into the frozen catalogue (format 3). *)

FrozenParent(slot) ==                               \* the item whose slot it is
  {item \in DOMAIN FrozenSlots :
     \E i \in DOMAIN FrozenSlots[item] : FrozenSlots[item][i].slot = slot}
ParentsBefore(pairs, i) == <<CodeGun>> \o [j \in 1..(i - 1) |-> pairs[j].item]

HasIndices(pairs) ==
  /\ {CodeGun} \cup {pairs[i].item : i \in DOMAIN pairs} \subseteq Range(FrozenItems)
  /\ \A i \in DOMAIN pairs :
       FrozenParent(pairs[i].slot) \cap Range(ParentsBefore(pairs, i)) # {}

(* _encodeDictionaryBuildCode: an item the frozen list of the slot does not*)
(* have is written after the index past its end.                           *)
Indexed(pairs) ==
  [format |-> 3,
   pairs |-> [i \in DOMAIN pairs |->
     LET item == CHOOSE p \in FrozenParent(pairs[i].slot) : TRUE
         row == SelectInSeq(FrozenSlots[item], LAMBDA r : r.slot = pairs[i].slot)
         candidates == FrozenSlots[item][row].candidates
         choice == SelectInSeq(candidates, LAMBDA c : c = pairs[i].item)
     IN [parent |-> SelectInSeq(ParentsBefore(pairs, i), LAMBDA p : p = item), row |-> row,
         choice |-> IF choice = 0 THEN Len(candidates) + 1 ELSE choice,
         item |-> IF choice # 0 THEN 0
                  ELSE SelectInSeq(FrozenItems, LAMBDA c : c = pairs[i].item)]]]

ReadIndexed(code) ==
  FoldLeft(LAMBDA read, w :
             LET parents == <<CodeGun>> \o [j \in DOMAIN read |-> read[j].item]
                 row == FrozenSlots[parents[w.parent]][w.row]
             IN Append(read, [slot |-> row.slot,
                              item |-> IF w.choice = Len(row.candidates) + 1
                                       THEN FrozenItems[w.item] ELSE row.candidates[w.choice]]),
           <<>>, code.pairs)

(* encodeBuildCode takes the shorter of the two, when it has both.         *)
CodesOf(pairs) == {Complete(pairs)} \cup IF HasIndices(pairs) THEN {Indexed(pairs)} ELSE {}
Decoded(code) == IF code.format = 3 THEN ReadIndexed(code) ELSE ReadComplete(code)

-------------------------------------------------------------------------------
BuildCodeInit ==
  bcTree = <<>> /\ bcCode = NoCode /\ bcShared = <<>> /\ bcOpened = FALSE /\ bcMissing = 0

(* A part is put into a slot, in place of what was there with all on it.   *)
InstallPart ==
  /\ \E path \in {<<>>} \cup {bcTree[i].path : i \in DOMAIN bcTree} :
     \E slot \in Range(SlotsOf[ItemAt(bcTree, path)]) : \E item \in Allowed[slot] :
       LET at == Append(path, slot)
           rest == SelectSeq(bcTree, LAMBDA n : n.path = at \/ ~IsPrefix(at, n.path))
           node == [path |-> at, item |-> item]
           i == SelectInSeq(rest, LAMBDA n : n.path = at)
       IN /\ bcTree' = IF i = 0 THEN Append(rest, node) ELSE [rest EXCEPT ![i] = node]
          /\ Len(bcTree') <= MaxParts
  /\ bcOpened' = FALSE /\ UNCHANGED <<bcCode, bcShared, bcMissing>>

TakePart ==
  /\ \E i \in DOMAIN bcTree :
       bcTree' = SelectSeq(bcTree, LAMBDA n : ~IsPrefix(bcTree[i].path, n.path))
  /\ bcOpened' = FALSE /\ UNCHANGED <<bcCode, bcShared, bcMissing>>

ShareBuild ==
  /\ bcCode' \in CodesOf(Pairs(bcTree)) /\ bcShared' = bcTree
  /\ bcOpened' = FALSE /\ UNCHANGED <<bcTree, bcMissing>>

OpenCode ==
  /\ bcCode # NoCode
  /\ \E unknown \in {{}} \cup {{s} : s \in DOMAIN Allowed} :
       LET pairs == Decoded(bcCode)
       IN bcTree' = Installed(pairs, unknown) /\ bcMissing' = Len(pairs) - Len(bcTree')
  /\ bcOpened' = TRUE /\ UNCHANGED <<bcCode, bcShared>>

BuildCodeNext == InstallPart \/ TakePart \/ ShareBuild \/ OpenCode

-------------------------------------------------------------------------------
(* Whichever form its code took, a build that opens without a word of      *)
(* missing parts has every part of the shared one, as often, in slots of   *)
(* the same kind: copies of one part, parts newer than the catalogue and   *)
(* parts its slots did not allow included.                                 *)
CodeKeepsEveryPart ==
  bcOpened /\ bcMissing = 0 =>
    LET before == Pairs(bcShared)
        after == Pairs(bcTree)
        times(p, pairs) == Len(SelectSeq(pairs, LAMBDA q : q = p))
    IN \A p \in Range(before) \cup Range(after) : times(p, before) = times(p, after)

(* "that puts every part back where it was" (build-codes.js).              *)
CodePutsPartsBack ==
  bcOpened /\ bcMissing = 0 => Range(bcTree) = Range(bcShared)
===============================================================================
