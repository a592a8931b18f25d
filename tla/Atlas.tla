--------------------------------- MODULE Atlas ---------------------------------
(* The page of game data changes (modules/atlas.js): an index of change     *)
(* sets, fetched with the access key the browser holds, and the one set     *)
(* that is open.  Fetches answer late and out of order; a set that is still *)
(* locked counts down to its publication and reloads the page's data then.  *)
(*                                                                          *)
(* The list of its changes comes second.  The watermark, which only guards  *)
(* against edits of the page, is left out.                                  *)
EXTENDS Naturals, FiniteSets, Sequences, SequencesExt

CONSTANTS
  AtlasSets,        \* newest first is left out: which set is opened first is a choice
  EarlySets,        \* the sets that are not public yet
  NoSet,
  MaxAtlasKeys,     \* bound: keys saved
  MaxAtlasActs      \* bound: acts of the user

ASSUME AtlasConstants ==
  /\ NoSet \notin AtlasSets /\ EarlySets \subseteq AtlasSets
  /\ {MaxAtlasKeys, MaxAtlasActs} \subseteq Nat

VARIABLES
  atKey, atKeys,      \* the saved key, and how many were saved
  atPublic,           \* the early sets are public by now
  atIndex,            \* the index: whose key it was fetched with, which sets it locks
  atReloads,          \* the keys of the index requests under way
  atSelected, atHash,
  atToken, atLoads,   \* the selections so far, and the set requests under way
  atSet,              \* the set rendered, with the key it was fetched with
  atCache, atPanel,
  atCountdown, atReloaded,   \* the countdown runs; the sets it reloaded for
  atTour, atTourDone, atGuide,
  atActs

atVars == <<atKey, atKeys, atPublic, atIndex, atReloads, atSelected, atHash, atToken, atLoads,
            atSet, atCache, atPanel, atCountdown, atReloaded, atTour, atTourDone, atGuide,
            atActs>>
atTours == <<atTour, atTourDone, atGuide>>
atKeyed == <<atKey, atKeys, atPublic>>

NoKey == 0
NoIndex == [key |-> NoKey, locked |-> {}, sets |-> {}]
Nothing == [id |-> NoSet, key |-> NoKey]
AtlasTokens == 0..(4 * MaxAtlasActs + 4)

(* The first index request leaves with the page.                            *)
AtlasInit ==
  /\ atKey = NoKey /\ atKeys = 0 /\ atPublic = FALSE
  /\ atIndex = NoIndex /\ atReloads = {NoKey}
  /\ atSelected = NoSet /\ atHash \in {NoSet} \cup AtlasSets
  /\ atToken = 0 /\ atLoads = {} /\ atSet = Nothing
  /\ atCache = [s \in AtlasSets |-> Nothing] /\ atPanel = "loading"
  /\ atCountdown = FALSE /\ atReloaded = {}
  /\ atTour = 0 /\ atTourDone \in BOOLEAN /\ atGuide = FALSE /\ atActs = 0

-------------------------------------------------------------------------------
(* reload: nothing fetched with the last key is kept.                       *)
ReloadIndex ==
  /\ Cardinality(atReloads) < 2
  /\ atReloads' = atReloads \cup {atKey'}
  /\ atCache' = [s \in AtlasSets |-> Nothing]
  /\ atIndex' = NoIndex /\ atSet' = Nothing
  /\ atPanel' = "loading" /\ atCountdown' = FALSE
  /\ UNCHANGED <<atSelected, atHash, atToken, atLoads>>

SaveKey ==
  /\ atTour = 0 /\ ~atGuide /\ atKeys < MaxAtlasKeys
  /\ atKeys' = atKeys + 1 /\ atKey' = atKeys'
  /\ ReloadIndex
  /\ UNCHANGED <<atPublic, atReloaded, atTours>>

RemoveKey ==
  /\ atTour = 0 /\ ~atGuide /\ atKey # NoKey /\ atKey' = NoKey
  /\ ReloadIndex
  /\ UNCHANGED <<atKeys, atPublic, atReloaded, atTours>>

RetryIndex ==
  /\ atTour = 0 /\ atPanel = "index failed"
  /\ UNCHANGED <<atKeyed, atReloaded, atTours>>
  /\ ReloadIndex

(* selectSet of a set that is locked: its countdown, with no request.       *)
ShowLocked(id) ==
  /\ atCountdown' = TRUE /\ atPanel' = "locked" /\ atSet' = Nothing
  /\ UNCHANGED atLoads

(* selectSet of another: a set fetched before is there at once, but it too  *)
(* is rendered in a later turn.  first: the page's own selection.           *)
RequestSet(id, key, first) ==
  /\ atCountdown' = FALSE /\ atPanel' = "loading" /\ atSet' = Nothing
  /\ atLoads' = atLoads \cup {[id |-> id, token |-> atToken', key |-> key, first |-> first]}

SelectSet(id, index, first) ==
  /\ atSelected' = id /\ atHash' = id /\ atToken' = atToken + 1
  /\ IF id \in index.locked THEN ShowLocked(id)
     ELSE RequestSet(id, IF atCache[id] = Nothing THEN atKey ELSE atCache[id].key, first)

(* maybeStartTour, once a first visit has a page to point at.               *)
MaybeStartTour ==
  IF atTour = 0 /\ ~atTourDone THEN atTour' = 1 /\ atGuide' = FALSE
  ELSE UNCHANGED <<atTour, atGuide>>

(* The index: the set of the address, else the first that is not locked.    *)
LockedFor(key) == IF key = NoKey /\ ~atPublic THEN EarlySets ELSE {}
FirstSets(locked) ==
  IF atHash # NoSet THEN {atHash}
  ELSE IF AtlasSets \ locked # {} THEN AtlasSets \ locked ELSE AtlasSets

IndexArrives ==
  \E key \in atReloads :
    LET index == [key |-> key, locked |-> LockedFor(key), sets |-> AtlasSets] IN
    /\ atReloads' = atReloads \ {key} /\ atIndex' = index
    /\ \E id \in FirstSets(index.locked) :
         /\ SelectSet(id, index, TRUE)
         /\ IF id \in index.locked THEN MaybeStartTour ELSE UNCHANGED <<atTour, atGuide>>
    /\ UNCHANGED <<atKeyed, atCache, atReloaded, atTourDone>>

IndexFails ==
  /\ \E key \in atReloads : atReloads' = atReloads \ {key}
  /\ atPanel' = "index failed"
  /\ UNCHANGED <<atKeyed, atIndex, atSelected, atHash, atToken, atLoads, atSet, atCache,
                 atCountdown, atReloaded, atTours>>

(* A click in the list, or a new address.                                   *)
OpenSet ==
  /\ atTour = 0 /\ ~atGuide
  /\ \E id \in atIndex.sets \ {atSelected} : SelectSet(id, atIndex, FALSE)
  /\ UNCHANGED <<atKeyed, atIndex, atReloads, atCache, atReloaded, atTours>>

RetrySet ==
  /\ atTour = 0 /\ ~atGuide /\ atPanel = "set failed"
  /\ SelectSet(atSelected, atIndex, FALSE)
  /\ UNCHANGED <<atKeyed, atIndex, atReloads, atCache, atReloaded, atTours>>

(* Mutant: every answer counts, also that of an earlier selection.         *)
CurrentAlways(load) == load.token \in AtlasTokens

(* The answer of a set request: only the last selection's is rendered.      *)
Current(load) == load.token = atToken

SetArrives ==
  \E load \in atLoads :
    /\ atLoads' = atLoads \ {load}
    /\ IF Current(load)
       THEN /\ atCache' = [atCache EXCEPT ![load.id] = [id |-> load.id, key |-> load.key]]
            /\ atSet' = [id |-> load.id, key |-> load.key] /\ atPanel' = "set"
       ELSE UNCHANGED <<atCache, atSet, atPanel>>
    /\ IF load.first THEN MaybeStartTour ELSE UNCHANGED <<atTour, atGuide>>
    /\ UNCHANGED <<atKeyed, atIndex, atReloads, atSelected, atHash, atToken, atCountdown,
                   atReloaded, atTourDone>>

SetFails ==
  \E load \in atLoads :
    /\ atCache[load.id] = Nothing
    /\ atLoads' = atLoads \ {load}
    /\ IF Current(load) THEN atSet' = Nothing /\ atPanel' = "set failed"
       ELSE UNCHANGED <<atSet, atPanel>>
    /\ IF load.first THEN MaybeStartTour ELSE UNCHANGED <<atTour, atGuide>>
    /\ UNCHANGED <<atKeyed, atIndex, atReloads, atSelected, atHash, atToken, atCache,
                   atCountdown, atReloaded, atTourDone>>

(* The countdown ends by the viewer's clock: one reload for the set, even   *)
(* if the server's clock has it locked still.                               *)
CountdownEnds ==
  /\ atCountdown /\ atSelected \notin atReloaded
  /\ atReloaded' = atReloaded \cup {atSelected}
  /\ UNCHANGED atKey /\ ReloadIndex
  /\ UNCHANGED <<atKeys, atPublic, atTours>>

GoPublic ==
  /\ ~atPublic /\ atPublic' = TRUE
  /\ UNCHANGED <<atKey, atKeys, atIndex, atReloads, atSelected, atHash, atToken, atLoads,
                 atSet, atCache, atPanel, atCountdown, atReloaded, atTours>>

(* setLang, setLocalTime: the set is rendered again, or the card that stands*)
(* in for it: a locked set's countdown starts anew, a failed set is fetched.*)
RedrawAtlas ==
  /\ atTour = 0 /\ ~atGuide
  /\ \/ /\ atSet # Nothing /\ atPanel' = "set"
        /\ UNCHANGED <<atSelected, atHash, atToken, atLoads, atSet, atCountdown>>
     \/ /\ atSet = Nothing /\ atPanel = "locked" /\ ShowLocked(atSelected)
        /\ UNCHANGED <<atSelected, atHash, atToken>>
     \/ /\ atSet = Nothing /\ atPanel = "set failed"
        /\ SelectSet(atSelected, atIndex, FALSE)
  /\ UNCHANGED <<atKeyed, atIndex, atReloads, atCache, atReloaded, atTours>>

(* The tour's buttons; the guide, which can start it again.                 *)
TourSteps == 1..6
StepTour ==
  /\ atTour # 0
  /\ \/ \E step \in {atTour - 1, atTour + 1} \cap TourSteps :
          atTour' = step /\ UNCHANGED atTourDone
     \/ atTour' = 0 /\ atTourDone' = TRUE
  /\ UNCHANGED <<atKeyed, atIndex, atReloads, atSelected, atHash, atToken, atLoads, atSet,
                 atCache, atPanel, atCountdown, atReloaded, atGuide>>

Guide ==
  /\ atTour = 0
  /\ \/ atGuide' = ~atGuide /\ UNCHANGED atTour
     \/ atGuide /\ atGuide' = FALSE /\ atTour' = 1
  /\ UNCHANGED <<atKeyed, atIndex, atReloads, atSelected, atHash, atToken, atLoads, atSet,
                 atCache, atPanel, atCountdown, atReloaded, atTourDone>>

AtlasAct ==
  /\ atActs < MaxAtlasActs /\ atActs' = atActs + 1
  /\ \/ SaveKey \/ RemoveKey \/ RetryIndex \/ OpenSet \/ RetrySet \/ RedrawAtlas
     \/ StepTour \/ Guide

AtlasNext ==
  \/ AtlasAct
  \/ UNCHANGED atActs /\ ( \/ IndexArrives \/ IndexFails \/ SetArrives \/ SetFails
                           \/ CountdownEnds \/ GoPublic )

-------------------------------------------------------------------------------
(* The open set is the selected one, a countdown runs only for it while it  *)
(* is locked, "loading" has an answer to wait for, and the tour and the     *)
(* guide never cover one another.                                           *)
AtlasShowsTheSelection ==
  /\ atSet # Nothing => atSet.id = atSelected
  /\ atPanel = "set" => atSet # Nothing
  /\ atCountdown => atSelected \in EarlySets /\ atSet = Nothing
  /\ atPanel = "locked" => atCountdown
  /\ atPanel = "loading" => atReloads # {} \/ \E load \in atLoads : Current(load)
  /\ atToken \in AtlasTokens
  /\ ~(atTour # 0 /\ atGuide)

(* atlas.js:2269: "a reload can mean a different key (or none): keep nothing*)
(* the last one fetched".                                                   *)
ReloadKeepsNothing ==
  /\ atSet # Nothing => atSet.key = atKey
  /\ atIndex # NoIndex => atIndex.key = atKey

--------------------------------------------------------------------------------
(* The list of one set's changes (modules/atlas.js): rows are filtered and  *)
(* grouped, the groups drawn in parts as the reader scrolls or jumps to a   *)
(* file, opened one by one or all at once; a long value is fetched when it  *)
(* is shown.  A row is known by its place in the set.                       *)
(*                                                                          *)
(* Text, icons and the order of a raw view's lines are left out.            *)

CONSTANTS
  SetRows,          \* the changes of a set: file, id or none, kind, what a search finds
  AutoOpen,         \* groups of a short list are open from the start
  FeedRows,         \* what a part of the list may cost, in rows
  MaxListActs       \* bound: acts of the reader

ASSUME AtlasListConstants ==
  /\ SetRows \in Seq([file : 1..9, id : STRING, kind : {"added", "removed", "changed"},
                      newItem : BOOLEAN, matches : BOOLEAN])
  /\ {AutoOpen, FeedRows, MaxListActs} \subseteq Nat

VARIABLES
  alKinds, alFile, alQuery,        \* the filters in force; a query matches some rows
  alBox, alTyped,                  \* the search box, and that its delay runs
  alMode, alExpandAll,
  alGroups, alNext, alFeed,        \* the groups listed, the next to draw, more to draw
  alOpen,                          \* groups drawn open
  alButton, alSettle,              \* "expand" or "collapse"; a toggle is to be settled
  alToc, alTocActive,
  alValue,                         \* the long value of a group: closed, loading, shown
  alValueCall,                     \* the fetch its memo holds
  alActs

alVars == <<alKinds, alFile, alQuery, alBox, alTyped, alMode, alExpandAll, alGroups, alNext,
            alFeed, alOpen, alButton, alSettle, alToc, alTocActive, alValue, alValueCall,
            alActs>>
alFilters == <<alKinds, alFile, alQuery, alBox, alTyped, alMode>>
alView == <<alGroups, alNext, alFeed, alOpen, alToc, alTocActive>>

RowKinds == {"added", "removed", "changed", "new"}
RowIds == 1..Len(SetRows)
AnyFile == 0

(* newItemIds, rowKind: every row about a new item counts as new.           *)
NewItems == {SetRows[r].id : r \in {q \in RowIds : SetRows[q].newItem}}
RowKind(r) == IF SetRows[r].id \in NewItems THEN "new" ELSE SetRows[r].kind

(* filterRows and the chips' filter, in the set's order.                    *)
Passes(r, kinds, file, query) ==
  /\ RowKind(r) \in kinds
  /\ file \in {AnyFile, SetRows[r].file}
  /\ query => SetRows[r].matches
FilteredRows(kinds, file, query) ==
  SelectSeq([r \in RowIds |-> r], LAMBDA r : Passes(r, kinds, file, query))

(* groupRows: rows of one id in one file, or over the files, are a group,   *)
(* at the place of its first row.                                           *)
GroupKey(r, mode) ==
  IF mode = "item" /\ SetRows[r].id # "" THEN <<AnyFile, SetRows[r].id>>
  ELSE <<SetRows[r].file, SetRows[r].id>>
GroupRows(rows, mode) ==
  LET AddRow(groups, r) ==
        IF \E i \in DOMAIN groups : GroupKey(Head(groups[i]), mode) = GroupKey(r, mode)
        THEN [i \in DOMAIN groups |->
                IF GroupKey(Head(groups[i]), mode) = GroupKey(r, mode)
                THEN Append(groups[i], r) ELSE groups[i]]
        ELSE Append(groups, <<r>>)
  IN FoldLeft(AddRow, <<>>, rows)
GroupFile(group) == SetRows[Head(group)].file

-------------------------------------------------------------------------------
(* Drawing in parts.  startFeed's feed draws until the part costs enough; a *)
(* group costs a row, and its rows if it is drawn open.                     *)
Opened(groups, expandAll) == expandAll \/ Len(groups) <= AutoOpen
Cost(groups, expandAll, from, upto) ==
  (upto - from) + (IF Opened(groups, expandAll)
                   THEN FoldLeft(LAMBDA sum, g : sum + Len(g), 0,
                                 SubSeq(groups, from, upto - 1))
                   ELSE 0)
PartEnd(groups, expandAll, from) ==
  CHOOSE upto \in from..(Len(groups) + 1) :
    /\ upto = Len(groups) + 1 \/ Cost(groups, expandAll, from, upto) >= FeedRows
    /\ \A u \in from..(upto - 1) : Cost(groups, expandAll, from, u) < FeedRows

(* The groups that are drawn, with any further part of them.                *)
DrawnUpTo(next, groups, expandAll, open, from) ==
  /\ alNext' = next /\ alFeed' = (next <= Len(groups))
  /\ alOpen' = IF Opened(groups, expandAll) THEN open \cup (from..(next - 1)) ELSE open

FilesOf(groups) == {GroupFile(groups[i]) : i \in DOMAIN groups}
AllOpen(next, open) == next > 1 /\ \A i \in 1..(next - 1) : i \in open
ButtonFor(next, open) == IF AllOpen(next, open) THEN "collapse" ELSE "expand"

(* renderView: the list anew from its first part.  Files are sections only  *)
(* of a list that is by file, and navigated when there are two.             *)
RenderView ==
  LET groups == GroupRows(FilteredRows(alKinds', alFile', alQuery'), alMode') IN
    /\ alGroups' = groups
    /\ DrawnUpTo(IF groups = <<>> THEN 1 ELSE PartEnd(groups, alExpandAll', 1),
                 groups, alExpandAll', {}, 1)
    /\ alToc' = IF alMode' = "file" THEN FilesOf(groups) ELSE {}
    /\ alTocActive' = IF alToc' = {} THEN AnyFile ELSE GroupFile(groups[1])
    /\ alButton' = IF groups = <<>> THEN alButton ELSE ButtonFor(alNext', alOpen')
    /\ alSettle' = (alOpen' # {}) /\ alValue' = "closed"

AtlasListInit ==
  /\ alKinds = RowKinds /\ alFile = AnyFile /\ alQuery = FALSE
  /\ alBox = FALSE /\ alTyped = FALSE /\ alMode \in {"file", "item"} /\ alExpandAll = FALSE
  /\ alGroups = GroupRows([r \in RowIds |-> r], alMode)
  /\ alNext = PartEnd(alGroups, FALSE, 1) /\ alFeed = (alNext <= Len(alGroups))
  /\ alOpen = IF Opened(alGroups, FALSE) THEN 1..(alNext - 1) ELSE {}
  /\ alToc = IF alMode = "file" THEN FilesOf(alGroups) ELSE {}
  /\ alTocActive = IF alToc = {} THEN AnyFile ELSE GroupFile(alGroups[1])
  /\ alButton = ButtonFor(alNext, alOpen) /\ alSettle = (alOpen # {})
  /\ alValue = "closed" /\ alValueCall = "none" /\ alActs = 0

ToggleKind ==
  /\ \E kind \in RowKinds :
       alKinds' = IF kind \in alKinds THEN alKinds \ {kind} ELSE alKinds \cup {kind}
  /\ UNCHANGED <<alFile, alQuery, alBox, alTyped, alMode, alExpandAll, alValueCall>>
  /\ RenderView

ChooseFile ==
  /\ \E file \in {AnyFile} \cup {SetRows[r].file : r \in RowIds} :
       file # alFile /\ alFile' = file
  /\ UNCHANGED <<alKinds, alQuery, alBox, alTyped, alMode, alExpandAll, alValueCall>>
  /\ RenderView

ChooseMode ==
  /\ alMode' = IF alMode = "file" THEN "item" ELSE "file"
  /\ UNCHANGED <<alKinds, alFile, alQuery, alBox, alTyped, alExpandAll, alValueCall>>
  /\ RenderView

(* The search filters once typing has paused.                               *)
Type ==
  /\ alBox' = ~alBox /\ alTyped' = TRUE
  /\ UNCHANGED <<alKinds, alFile, alQuery, alMode, alExpandAll, alView, alButton, alSettle,
                 alValue, alValueCall>>

SearchPause ==
  /\ alTyped /\ alTyped' = FALSE /\ alQuery' = alBox
  /\ UNCHANGED <<alKinds, alFile, alBox, alMode, alExpandAll, alValueCall>>
  /\ RenderView

(* clearFilters, offered when nothing passes them.                          *)
ClearListFilters ==
  /\ alGroups = <<>>
  /\ alKinds' = RowKinds /\ alFile' = AnyFile /\ alQuery' = FALSE /\ alBox' = FALSE
  /\ UNCHANGED <<alTyped, alMode, alExpandAll, alValueCall>>
  /\ RenderView

(* fillFeed, as the end of the list comes near, and jumpToFile, which draws *)
(* until the file's section is in.                                          *)
Feed ==
  /\ alFeed
  /\ DrawnUpTo(PartEnd(alGroups, alExpandAll, alNext), alGroups, alExpandAll, alOpen, alNext)
  /\ alSettle' = (alSettle \/ Opened(alGroups, alExpandAll))
  /\ UNCHANGED <<alFilters, alExpandAll, alGroups, alToc, alTocActive, alButton, alValue,
                 alValueCall>>

Anchored(file, next) == \E i \in 1..(next - 1) : GroupFile(alGroups[i]) = file
JumpEnd(file) ==
  LET Until[from \in 1..(Len(alGroups) + 1)] ==
        IF Anchored(file, from) \/ from > Len(alGroups) THEN from
        ELSE Until[PartEnd(alGroups, alExpandAll, from)]
  IN Until[alNext]

JumpToFile ==
  /\ \E file \in alToc :
       /\ DrawnUpTo(JumpEnd(file), alGroups, alExpandAll, alOpen, alNext)
       /\ alTocActive' = IF Anchored(file, alNext') THEN file ELSE alTocActive
  /\ alSettle' = (alSettle \/ (alNext' # alNext /\ Opened(alGroups, alExpandAll)))
  /\ UNCHANGED <<alFilters, alExpandAll, alGroups, alToc, alButton, alValue, alValueCall>>

(* spyToc: the section at the top of the view.                              *)
Scroll ==
  /\ alToc # {} /\ \E i \in 1..(alNext - 1) : alTocActive' = GroupFile(alGroups[i])
  /\ UNCHANGED <<alFilters, alExpandAll, alGroups, alNext, alFeed, alOpen, alToc, alButton,
                 alSettle, alValue, alValueCall>>

(* A group opened or closed by hand; the button follows in the next frame.  *)
ToggleGroup ==
  /\ \E i \in 1..(alNext - 1) :
       alOpen' = IF i \in alOpen THEN alOpen \ {i} ELSE alOpen \cup {i}
  /\ alSettle' = TRUE
  /\ UNCHANGED <<alFilters, alExpandAll, alGroups, alNext, alFeed, alToc, alTocActive,
                 alButton, alValue, alValueCall>>

ExpandAllClick ==
  /\ alExpandAll' = ~AllOpen(alNext, alOpen)
  /\ alOpen' = IF alExpandAll' THEN 1..(alNext - 1) ELSE {}
  /\ alButton' = ButtonFor(alNext, alOpen') /\ alSettle' = (alSettle \/ alOpen' # alOpen)
  /\ UNCHANGED <<alFilters, alGroups, alNext, alFeed, alToc, alTocActive, alValue,
                 alValueCall>>

Settle ==
  /\ alSettle /\ alSettle' = FALSE /\ alButton' = ButtonFor(alNext, alOpen)
  /\ UNCHANGED <<alFilters, alExpandAll, alView, alValue, alValueCall>>

(* largeToggle of a value, and loadValue, whose memo forgets a failure.     *)
ShowValue ==
  /\ alOpen # {} /\ alValue \in {"closed", "failed", "hidden"}
  /\ alValue' = IF alValue = "hidden" THEN "shown" ELSE "loading"
  /\ alValueCall' = IF alValue # "hidden" /\ alValueCall = "none" THEN "called" ELSE alValueCall
  /\ UNCHANGED <<alFilters, alExpandAll, alView, alButton, alSettle>>

HideValue ==
  /\ alValue = "shown" /\ alValue' = "hidden"
  /\ UNCHANGED <<alFilters, alExpandAll, alView, alButton, alSettle, alValueCall>>

ValueArrives ==
  /\ \/ alValueCall = "called" /\ \E ok \in BOOLEAN :
          /\ alValueCall' = IF ok THEN "there" ELSE "none"
          /\ alValue' = IF alValue # "loading" THEN alValue
                        ELSE IF ok THEN "shown" ELSE "failed"
     \/ alValueCall = "there" /\ alValue = "loading" /\ alValue' = "shown"
        /\ UNCHANGED alValueCall
  /\ UNCHANGED <<alFilters, alExpandAll, alView, alButton, alSettle>>

AtlasListAct ==
  /\ alActs < MaxListActs /\ alActs' = alActs + 1
  /\ \/ ToggleKind \/ ChooseFile \/ ChooseMode \/ Type \/ ClearListFilters \/ JumpToFile
     \/ Scroll \/ ToggleGroup \/ ExpandAllClick \/ ShowValue \/ HideValue

AtlasListNext ==
  \/ AtlasListAct
  \/ UNCHANGED alActs /\ (SearchPause \/ Feed \/ Settle \/ ValueArrives)

-------------------------------------------------------------------------------
(* However it was filtered, grouped and drawn in parts, the list holds the  *)
(* rows that pass its filters, each in one group; a file of the navigator   *)
(* has a section that is drawn or still to come; with everything expanded   *)
(* the parts drawn later are open as well, and the button offers to expand  *)
(* only if something is closed.                                             *)
ListHoldsWhatPasses ==
  LET listed == FlattenSeq(alGroups) IN
  /\ ToSet(listed) = {r \in RowIds : Passes(r, alKinds, alFile, alQuery)}
  /\ IsInjective(listed)
  /\ alFeed = (alNext <= Len(alGroups))
  /\ \A file \in alToc : Anchored(file, alNext) \/ alFeed
  /\ alTocActive \in alToc \cup {AnyFile}
  /\ ~alSettle /\ alButton = "expand" /\ alNext > 1 => ~AllOpen(alNext, alOpen)
  /\ alValue = "loading" => alValueCall # "none"

(* atlas.js:1573: "Expand all" while any shown group is closed.             *)
ExpandIsOffered ==
  ~alSettle /\ alNext > 1 /\ ~AllOpen(alNext, alOpen) => alButton = "expand"
================================================================================
