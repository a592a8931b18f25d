----------------------------- MODULE Leaderboard -----------------------------
(* The leaderboard (src/frontend/modules/leaderboard.js): boards of builds  *)
(* and of attachments, by period and order, each kept once it has loaded.   *)
(* The rows of builds hold their place in the board that is kept under the  *)
(* settings of the moment, and a click loads what is at that place then.    *)
EXTENDS Naturals

CONSTANTS
  Spans,            \* periods: "2w", the first one, and others
  BoardGuns,        \* guns a build may be of
  Categories,       \* kinds of attachments
  MaxBoardLoads,    \* bound: loads of one board under way
  MaxBoardActs      \* bound: what the user does

ASSUME LeaderboardConstants ==
  /\ "2w" \in Spans /\ "all" \notin BoardGuns \union Categories
  /\ MaxBoardLoads \in Nat /\ MaxBoardActs \in Nat

VARIABLES
  lbOpen,
  lbAsk,            \* _mode, _period, _sort: the board that is asked for
  lbGun, lbCategory,
  lbCache,          \* boards kept
  lbLoads,          \* loads under way, by board
  lbBody,           \* what is drawn, of which board and after which filters
  lbActs

lbVars == <<lbOpen, lbAsk, lbGun, lbCategory, lbCache, lbLoads, lbBody, lbActs>>

Board(mode, period, sort) == [mode |-> mode, period |-> period, sort |-> sort]
Boards ==
  {Board("builds", p, "likes") : p \in Spans}
    \union {Board("attachments", p, s) : p \in Spans, s \in {"likes", "dislikes"}}

NothingDrawn(kind, board) ==
  [kind |-> kind, of |-> board, mode |-> board.mode, gun |-> "all", category |-> "all",
   places |-> FALSE]

LeaderboardInit ==
  /\ lbOpen = FALSE /\ lbAsk = Board("builds", "2w", "likes")
  /\ lbGun = "all" /\ lbCategory = "all"
  /\ lbCache = {} /\ lbLoads = [b \in Boards |-> 0]
  /\ lbBody = NothingDrawn("nothing", lbAsk) /\ lbActs = 0

BoardAct == lbActs < MaxBoardActs /\ lbActs' = lbActs + 1

--------------------------------------------------------------------------------
(* _renderEntries of a board, under the settings of the moment.  The filter *)
(* that applies leaves no rows of a board of the other kind.                *)
Passing == IF lbAsk'.mode = "builds" THEN lbGun' ELSE lbCategory'

Entries(board) ==
  LET rows == [NothingDrawn("rows", board) EXCEPT
                 !.mode = lbAsk'.mode, !.gun = lbGun', !.category = lbCategory',
                 !.places = (lbAsk'.mode = "builds" /\ board = lbAsk')]
      none == [rows EXCEPT !.kind = "empty", !.places = FALSE]
  IN IF Passing # "all" /\ lbAsk'.mode # board.mode THEN {none} ELSE {rows, none}

(* Looking up the place of a build fails while its settings have no board.  *)
EntriesOrError(board) ==
  LET misplaced(e) == e.kind = "rows" /\ e.mode = "builds" /\ lbAsk' \notin lbCache'
  IN {IF misplaced(e) THEN NothingDrawn("error", board) ELSE e : e \in Entries(board)}

LoadBoard ==
  IF lbAsk' \in lbCache' THEN lbBody' \in Entries(lbAsk') /\ UNCHANGED lbLoads
  ELSE /\ lbLoads[lbAsk'] < MaxBoardLoads
       /\ lbLoads' = [lbLoads EXCEPT ![lbAsk'] = @ + 1]
       /\ lbBody' = NothingDrawn("loading", lbAsk')

RedrawBoard == IF lbAsk' \in lbCache' THEN lbBody' \in Entries(lbAsk') ELSE UNCHANGED lbBody

--------------------------------------------------------------------------------
OpenLeaderboard ==
  /\ BoardAct /\ ~lbOpen /\ lbOpen' = TRUE
  /\ lbAsk' = Board(lbAsk.mode, "2w", "likes") /\ lbGun' = "all" /\ lbCategory' = "all"
  /\ UNCHANGED lbCache
  /\ LoadBoard

CloseLeaderboard ==
  /\ BoardAct /\ lbOpen /\ lbOpen' = FALSE
  /\ UNCHANGED <<lbAsk, lbGun, lbCategory, lbCache, lbLoads, lbBody>>

(* A build's row: what is at its place now is loaded, and the panel closes. *)
ClickRow ==
  /\ BoardAct /\ lbOpen /\ lbBody.kind = "rows" /\ lbBody.mode = "builds"
  /\ lbBody.places /\ lbAsk \in lbCache
  /\ lbOpen' = FALSE
  /\ UNCHANGED <<lbAsk, lbGun, lbCategory, lbCache, lbLoads, lbBody>>

(* Mutant: the rows stay until those of the other board come.               *)
BoardModeLater ==
  /\ BoardAct /\ lbOpen
  /\ lbAsk' = Board(IF lbAsk.mode = "builds" THEN "attachments" ELSE "builds", lbAsk.period,
                    "likes")
  /\ lbGun' = "all" /\ UNCHANGED <<lbOpen, lbCategory, lbCache>>
  /\ RedrawBoard /\ UNCHANGED lbLoads

BoardMode ==
  /\ BoardAct /\ lbOpen
  /\ \/ lbAsk.mode = "builds" /\ lbAsk' = [lbAsk EXCEPT !.mode = "attachments"]
     \/ lbAsk.mode = "attachments" /\ lbAsk' = [lbAsk EXCEPT !.mode = "builds", !.sort = "likes"]
  /\ lbGun' = "all" /\ UNCHANGED <<lbOpen, lbCategory, lbCache>>
  /\ LoadBoard

BoardPeriod ==
  /\ BoardAct /\ lbOpen
  /\ \E p \in Spans \ {lbAsk.period} : lbAsk' = [lbAsk EXCEPT !.period = p]
  /\ UNCHANGED <<lbOpen, lbGun, lbCategory, lbCache>>
  /\ LoadBoard

BoardOrder ==
  /\ BoardAct /\ lbOpen /\ lbAsk.mode = "attachments"
  /\ \E s \in {"likes", "dislikes"} \ {lbAsk.sort} : lbAsk' = [lbAsk EXCEPT !.sort = s]
  /\ lbCategory' = "all" /\ UNCHANGED <<lbOpen, lbGun, lbCache>>
  /\ LoadBoard

FilterGun ==
  /\ BoardAct /\ lbOpen /\ lbAsk.mode = "builds"
  /\ lbGun' \in (BoardGuns \union {"all"}) \ {lbGun}
  /\ UNCHANGED <<lbOpen, lbAsk, lbCategory, lbCache, lbLoads>>
  /\ RedrawBoard

FilterCategory ==
  /\ BoardAct /\ lbOpen /\ lbAsk.mode = "attachments"
  /\ lbCategory' \in (Categories \union {"all"}) \ {lbCategory}
  /\ UNCHANGED <<lbOpen, lbAsk, lbGun, lbCache, lbLoads>>
  /\ RedrawBoard

BoardLanguage ==
  /\ BoardAct /\ lbOpen
  /\ UNCHANGED <<lbOpen, lbAsk, lbGun, lbCategory, lbCache, lbLoads>>
  /\ RedrawBoard

--------------------------------------------------------------------------------
(* An answer is drawn whichever board is asked for by then.                 *)
BoardArrives ==
  \E b \in Boards :
    /\ lbLoads[b] > 0 /\ lbLoads' = [lbLoads EXCEPT ![b] = @ - 1]
    /\ lbCache' = lbCache \union {b}
    /\ UNCHANGED <<lbOpen, lbAsk, lbGun, lbCategory, lbActs>>
    /\ lbBody' \in EntriesOrError(b)

BoardFails ==
  \E b \in Boards :
    /\ lbLoads[b] > 0 /\ lbLoads' = [lbLoads EXCEPT ![b] = @ - 1]
    /\ lbBody' = NothingDrawn("error", b)
    /\ UNCHANGED <<lbOpen, lbAsk, lbGun, lbCategory, lbCache, lbActs>>

LeaderboardNext ==
  \/ OpenLeaderboard \/ CloseLeaderboard \/ ClickRow \/ BoardMode \/ BoardPeriod \/ BoardOrder
  \/ FilterGun \/ FilterCategory \/ BoardLanguage \/ BoardArrives \/ BoardFails

--------------------------------------------------------------------------------
(* A click on a build loads the build that is seen, or nothing: rows with a *)
(* place are of the board that is kept under the settings.  Rows of the     *)
(* board that is asked for passed the filters that are set, and the note    *)
(* that it is loading is there only while it is.                            *)
ClicksLoadWhatIsSeen ==
  /\ lbBody.places => lbBody.of = lbAsk /\ lbAsk \in lbCache
  /\ (lbBody.kind = "rows" /\ lbBody.of = lbAsk /\ lbBody.mode = lbAsk.mode) =>
       lbBody.gun = lbGun /\ lbBody.category = lbCategory
  /\ lbBody.kind = "loading" => lbBody.of = lbAsk /\ lbLoads[lbAsk] > 0

(* Not kept: the answer for another board, or its failure, is drawn over    *)
(* the one that is asked for.                                               *)
TheBoardAskedForIsSeen == lbOpen => lbBody.of = lbAsk
================================================================================
