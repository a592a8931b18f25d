---------------------------- MODULE AtlasLookup ----------------------------
(***************************************************************************)
(* The Atlas player lookup page (src/frontend/modules/atlas-lookup.js): an *)
(* account number is looked up at once, a nickname is searched first and   *)
(* its only match is looked up, several matches are offered as choices.    *)
(* Lookups also start from links on the profile, from the browser's Back   *)
(* and Forward, and from saving the admin key.  The go button is disabled  *)
(* while an answer is out; the other ways in are not, so answers overlap.  *)
(* A weapon of the profile opens beside the board in a popover that        *)
(* belongs to the page, not to the board, and that a timer removes 250 ms  *)
(* after it closed.  The achievements are in a table sorted by any column. *)
(***************************************************************************)
EXTENDS Naturals, Sequences, FiniteSets

CONSTANTS
    Players,        \* account numbers
    Nicknames,      \* texts that are looked up as nicknames
    NoPlayer,
    Carries,        \* [Players -> SUBSET of board slots with a weapon in them]
    NoWeapon,
    Columns,        \* columns of the achievements table
    FirstHigh,      \* the columns whose first click sorts high to low
    MaxLookups,     \* bound: lookups out at once
    MaxLinks,       \* bound: players opened from links before going back
    MaxTimers       \* bound: removals of a closed popover still to come

ASSUME LookupConstants == {MaxLookups, MaxLinks, MaxTimers} \subseteq Nat

VARIABLES
    luBox,          \* the text in the search box
    luHistory,      \* players opened from links, in the browser's history
    luAt,           \* where in the history the page is (0: as it was opened)
    luOut,          \* requests without an answer
    luGo,           \* the go button can be clicked
    luLast,         \* _last: the last profile shown
    luResult,       \* the profile is on show
    luChoices,      \* the players offered
    luStatus,       \* the status line
    luKey,          \* the admin key's form is on show
    luOpen,         \* _open: the board slot whose weapon is open
    luBoard,        \* the profile and the active slot the board was drawn with
    luPop,          \* the popover element on the page, 0 without one
    luPopOf,        \* _popoverData and the weapon it was drawn with
    luTimers,       \* elements whose removal is still to come
    luGrid,         \* the attachment grid in the popover's card
    luSort          \* _sort.achievements: the column and the direction

luPage == <<luResult, luChoices, luStatus, luKey>>
luWeapon == <<luOpen, luBoard, luPop, luPopOf, luGrid>>
luWay == <<luBox, luHistory, luAt>>
luVars == <<luBox, luHistory, luAt, luOut, luGo, luLast, luResult, luChoices,
            luStatus, luKey, luOpen, luBoard, luPop, luPopOf, luTimers,
            luGrid, luSort>>

Statuses == {"", "loading", "bad", "none", "found", "error"}
Unsorted == [col |-> 0, dir |-> 1]
Undrawn == <<NoPlayer, NoWeapon>>
BoardSlots == UNION {Carries[p] : p \in Players}
Elements == 1 .. (MaxTimers + 1)

LookupTypeOK ==
    /\ luBox \in Players \union Nicknames \union {""}
    /\ luHistory \in Seq(Players) /\ luAt \in 0 .. Len(luHistory)
    /\ luOut \subseteq [n : 1 .. MaxLookups, of : Players \union Nicknames]
    /\ luGo \in BOOLEAN /\ luResult \in BOOLEAN /\ luKey \in BOOLEAN
    /\ luLast \in Players \union {NoPlayer}
    /\ luChoices \subseteq Players /\ luStatus \in Statuses
    /\ luOpen \in BoardSlots \union {NoWeapon}
    /\ luBoard \in (Players \union {NoPlayer}) \X (BoardSlots \union {NoWeapon})
    /\ luPop \in Elements \union {0} /\ luTimers \subseteq Elements
    /\ luPopOf \in (Players \union {NoPlayer}) \X (BoardSlots \union {NoWeapon})
    /\ luGrid \in {"none", "waiting", "drawn", "failed"}
    /\ luSort \in [col : Columns \union {0}, dir : {1, 2}]

LookupInit ==
    /\ luBox = "" /\ luHistory = <<>> /\ luAt = 0
    /\ luOut = {} /\ luGo = TRUE /\ luLast = NoPlayer
    /\ luResult = FALSE /\ luChoices = {} /\ luStatus = "" /\ luKey = FALSE
    /\ luOpen = NoWeapon /\ luBoard = Undrawn
    /\ luPop = 0 /\ luPopOf = Undrawn /\ luTimers = {} /\ luGrid = "none"
    /\ luSort = Unsorted

----------------------------------------------------------------------------
\* The board and the open weapon.

Openable(p, w) == p # NoPlayer /\ w # NoWeapon /\ w \in Carries[p]

\* The element renderWeaponPopover draws into: the one on the page or a new one.
PopFor(pop, timers) ==
    IF pop # 0 THEN pop
    ELSE CHOOSE e \in Elements : e \notin timers

\* renderBoard(data): the tiles, the open one's border, then the popover.  A
\* weapon that isn't there closes the popover at once and is open no more.
RenderBoard(p, w, pop, timers) ==
    IF Openable(p, w)
    THEN /\ luOpen' = w /\ luBoard' = <<p, w>>
         /\ luPop' = PopFor(pop, timers) /\ luPopOf' = <<p, w>>
         /\ luGrid' = "waiting"
    ELSE /\ luOpen' = NoWeapon /\ luBoard' = <<p, w>>
         /\ luPop' = 0 /\ luPopOf' = Undrawn /\ luGrid' = "none"

\* A click on a weapon's tile opens it, or closes it if it's the open one.
ToggleWeapon(w) ==
    LET p == luBoard[1] IN
    /\ luResult /\ Openable(p, w)
    /\ RenderBoard(p, IF luBoard[2] = w THEN NoWeapon ELSE w, luPop, luTimers)
    /\ UNCHANGED <<luWay, luOut, luGo, luLast, luPage, luTimers, luSort>>

\* Redrawing while the popover closes takes its element off the page at once,
\* so that the timer finds it gone.
CloseWeaponPopover ==
    /\ luPop # 0
    /\ luTimers' = luTimers \union {luPop}
    /\ IF luOpen # NoWeapon /\ luPopOf # Undrawn
       THEN RenderBoard(luPopOf[1], NoWeapon, luPop, luTimers')
       ELSE luPopOf' = Undrawn /\ UNCHANGED <<luOpen, luBoard, luPop, luGrid>>
    /\ UNCHANGED <<luWay, luOut, luGo, luLast, luPage, luSort>>

PopRemoved(e) ==
    /\ e \in luTimers
    /\ luTimers' = luTimers \ {e}
    /\ luPop' = IF luPop = e THEN 0 ELSE luPop
    /\ luGrid' = IF luPop = e THEN "none" ELSE luGrid
    /\ UNCHANGED <<luWay, luOut, luGo, luLast, luPage, luOpen, luBoard,
                   luPopOf, luSort>>

\* showGrid: the slots of every part are fetched before the grid is laid out.
GridArrives ==
    /\ luGrid = "waiting"
    /\ luGrid' \in {"drawn", "failed"}
    /\ UNCHANGED <<luWay, luOut, luGo, luLast, luPage, luOpen, luBoard, luPop,
                   luPopOf, luTimers, luSort>>

----------------------------------------------------------------------------
\* Lookups.

FreeLookups == (1 .. MaxLookups) \ {l.n : l \in luOut}

\* A request goes out for q, the ones of out still being out.
Ask(q, out) ==
    /\ luOut' = out \union
         {[n |-> CHOOSE n \in 1 .. MaxLookups : \A l \in out : l.n # n, of |-> q]}
    /\ luGo' = FALSE /\ luResult' = FALSE /\ luChoices' = {}
    /\ luStatus' = "loading"
    /\ UNCHANGED <<luKey, luLast, luWeapon>>

Lookup(q) ==
    IF q = ""
    THEN luStatus' = "bad"
         /\ UNCHANGED <<luOut, luGo, luResult, luChoices, luKey, luLast, luWeapon>>
    ELSE Ask(q, luOut)

Submit(q) ==
    /\ luGo /\ FreeLookups # {}
    /\ luBox' = q /\ Lookup(q)
    /\ UNCHANGED <<luHistory, luAt, luTimers, luSort>>

\* The key's form stays usable while a lookup is out.
SaveLookupKey ==
    /\ luKey /\ FreeLookups # {}
    /\ Lookup(luBox)
    /\ UNCHANGED <<luWay, luTimers, luSort>>

Choose(p) ==
    /\ p \in luChoices /\ FreeLookups # {}
    /\ Ask(p, luOut)
    /\ UNCHANGED <<luWay, luTimers, luSort>>

\* openPlayer(accountId, true), from a link on the profile.
OpenPlayer(p) ==
    /\ luResult /\ FreeLookups # {} /\ p # luLast
    /\ luBox' = p
    /\ luAt < MaxLinks
    /\ luHistory' = Append(SubSeq(luHistory, 1, luAt), p) /\ luAt' = luAt + 1
    /\ Lookup(p)
    /\ UNCHANGED <<luTimers, luSort>>

\* Back or Forward: openPlayer(id, false) if the address names a player.
PopState(i) ==
    /\ i \in 0 .. Len(luHistory) /\ i # luAt /\ FreeLookups # {}
    /\ luAt' = i
    /\ IF i = 0
       THEN UNCHANGED <<luBox, luOut, luGo, luResult, luChoices, luStatus,
                        luKey, luLast, luWeapon>>
       ELSE luBox' = luHistory[i] /\ Lookup(luHistory[i])
    /\ UNCHANGED <<luHistory, luTimers, luSort>>

\* Mutant: the error is not shown.
RefusedSilently(l) ==
    /\ l \in luOut
    /\ luOut' = luOut \ {l} /\ luGo' = TRUE
    /\ luKey' \in BOOLEAN
    /\ UNCHANGED <<luWay, luLast, luResult, luChoices, luStatus, luWeapon, luTimers,
                   luSort>>

\* The answer of l is an error: 403 puts the key's form on show.
Refused(l) ==
    /\ l \in luOut
    /\ luOut' = luOut \ {l} /\ luGo' = TRUE
    /\ luStatus' = "error" /\ luKey' \in BOOLEAN
    /\ UNCHANGED <<luWay, luLast, luResult, luChoices, luWeapon, luTimers, luSort>>

\* view's answer: a new profile opens no weapon until one is clicked.
ProfileArrives(l) ==
    /\ l \in luOut /\ l.of \in Players
    /\ luOut' = luOut \ {l} /\ luGo' = TRUE
    /\ luKey' = FALSE /\ luStatus' = "" /\ luResult' = TRUE
    /\ luLast' = l.of
    /\ RenderBoard(l.of, NoWeapon, luPop, luTimers)
    /\ UNCHANGED <<luWay, luChoices, luTimers, luSort>>

\* search's answer: nobody, one player who is looked up, or a choice.
PlayersArrive(l, found) ==
    /\ l \in luOut /\ l.of \in Nicknames
    /\ IF Cardinality(found) = 1
       THEN /\ \E p \in found :
                 luOut' = (luOut \ {l}) \union {[n |-> l.n, of |-> p]}
            /\ luGo' = FALSE /\ luResult' = FALSE /\ luChoices' = {}
            /\ luStatus' = "loading"
       ELSE /\ luOut' = luOut \ {l} /\ luGo' = TRUE
            /\ luStatus' = (IF found = {} THEN "none" ELSE "found")
            /\ luChoices' = (IF found = {} THEN luChoices ELSE found)
            /\ UNCHANGED luResult
    /\ luKey' = FALSE
    /\ UNCHANGED <<luWay, luLast, luWeapon, luTimers, luSort>>

\* applyLanguage draws the last profile again in the other language.
SwitchLang ==
    /\ luLast # NoPlayer
    /\ luResult' = TRUE
    /\ RenderBoard(luLast, luOpen, luPop, luTimers)
    /\ UNCHANGED <<luWay, luOut, luGo, luLast, luChoices, luStatus, luKey,
                   luTimers, luSort>>

----------------------------------------------------------------------------
\* The achievements table.

Opposite(d) == 3 - d
SortBy(c) ==
    /\ luResult
    /\ luSort' = [col |-> c,
                  dir |-> IF luSort.col = c THEN Opposite(luSort.dir)
                          ELSE IF c \in FirstHigh THEN 2 ELSE 1]
    /\ UNCHANGED <<luWay, luOut, luGo, luLast, luPage, luWeapon, luTimers>>

LookupNext ==
    \/ \E w \in BoardSlots : ToggleWeapon(w)
    \/ CloseWeaponPopover /\ Cardinality(luTimers) < MaxTimers
    \/ \E e \in luTimers : PopRemoved(e)
    \/ GridArrives
    \/ \E q \in Players \union Nicknames \union {""} : Submit(q)
    \/ SaveLookupKey
    \/ \E p \in Players : Choose(p) \/ OpenPlayer(p)
    \/ \E i \in 0 .. Len(luHistory) : PopState(i)
    \/ \E l \in luOut :
         \/ Refused(l)
         \/ ProfileArrives(l)
         \/ \E found \in SUBSET Players : PlayersArrive(l, found)
    \/ SwitchLang
    \/ \E c \in Columns : SortBy(c)

LookupSpec == LookupInit /\ [][LookupNext]_luVars

----------------------------------------------------------------------------
\* A weapon is open exactly while a popover of it is on the page, drawn of the
\* profile on the board with the same weapon's tile active, however answers
\* and the timers of earlier popovers interleave with opening and closing.
OpenWeaponIsShown ==
    /\ luPop # 0 <=> luOpen # NoWeapon
    /\ luPop # 0 => luPopOf = <<luLast, luOpen>> /\ luBoard = luPopOf

\* Once no answer is out the page says what came of the last one: it no longer
\* says it is loading, and the go button works.  (While several are out the
\* button may work too: the answer that comes first enables it.)
LookupsEnd == luOut = {} => luStatus # "loading" /\ luGo

\* The lookup over answers in any order: its page and the weapon on it.
LookupIsRight == LookupTypeOK /\ OpenWeaponIsShown /\ LookupsEnd
=============================================================================
