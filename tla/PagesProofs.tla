------------------------------ MODULE PagesProofs ------------------------------
(***************************************************************************)
(* Proofs about the pages around the builder, Tracker, Leaderboard, News,  *)
(* CommunityBuilds and AtlasLookup, for every set of things on them and    *)
(* however many requests overlap, and what the lemmas of the other modules *)
(* come to for the client: its tabs, previews and attachments.             *)
(***************************************************************************)
EXTENDS MCClient, BuildProofs, TabsProofs

--------------------------------------------------------------------------------
(* Tracker.                                                                 *)

TrackerSpec == TrackerInit /\ [][TrackerNext]_tkVars

TrackerTypes ==
  /\ tkPeriod \in Periods /\ tkLoads \in [Periods -> Nat] /\ tkKept \subseteq Periods
  /\ tkDates.days \subseteq Days

(* Rows that are seen are kept: dropping what is kept draws anew.          *)
RowsAreKept == (tkOpen /\ tkBody.kind = "rows") => tkPeriod \in tkKept

TrackerInv == TrackerTypes /\ RowsAreKept /\ TrackerShowsItsPeriod

(* The tracker is closed at first.                                          *)
LEMMA TrackerStarts == TrackerInit => TrackerInv
  <1> SUFFICES ASSUME TrackerInit PROVE TrackerInv
    OBVIOUS
  <1>1. TrackerTypes
    BY DEF TrackerInit, TrackerTypes, NoDates, Periods
  <1>2. RowsAreKept
    BY DEF TrackerInit, RowsAreKept
  <1>3. TrackerShowsItsPeriod
    BY DEF TrackerInit, TrackerShowsItsPeriod
  <1>4. QED  BY <1>1, <1>2, <1>3 DEF TrackerInv

(* What a step of the tracker preserves, action by action.                  *)
LEMMA TrackerSteps == TrackerInv /\ [TrackerNext]_tkVars => TrackerInv'
  <1> SUFFICES ASSUME TrackerInv, [TrackerNext]_tkVars PROVE TrackerInv'
    OBVIOUS
  <1> USE DEF TrackerInv, TrackerTypes, RowsAreKept, TrackerShowsItsPeriod, Body, Periods,
          NoDates, tkFilters
  <1>1. CASE ShowTracker
    BY <1>1 DEF ShowTracker, RefreshPeriodSelect, LoadDates, LoadData, ListedPeriods
  <1>2. CASE HideTracker
    BY <1>2 DEF HideTracker
  <1>3. CASE TrackerLanguage
    BY <1>3 DEF TrackerLanguage, RefreshPeriodSelect, Rerender, LoadData, ListedPeriods
  <1>4. CASE SetPeriod
    BY <1>4 DEF SetPeriod, LoadData, ListedPeriods
  <1>5. CASE TypeQuery
    BY <1>5 DEF TypeQuery
  <1>6. CASE QueryApplies
    BY <1>6 DEF QueryApplies, Rerender
  <1>7. CASE FilterType
    BY <1>7 DEF FilterType, Rerender
  <1>8. CASE ReloadTracker
    BY <1>8 DEF ReloadTracker, LoadDates, LoadData
  <1>9. CASE RowsArrive
    BY <1>9 DEF RowsArrive, Rerender
  <1>10. CASE RowsFail
    BY <1>10 DEF RowsFail
  <1>11. CASE PrefetchEnds
    BY <1>11 DEF PrefetchEnds
  <1>12. CASE DatesArrive
    BY <1>12 DEF DatesArrive, RefreshPeriodSelect, LoadData, ListedPeriods
  <1>13. CASE DatesFail
    BY <1>13 DEF DatesFail
  <1>14. CASE UNCHANGED tkVars
    BY <1>14 DEF tkVars
  <1>15. QED
    BY <1>1, <1>2, <1>3, <1>4, <1>5, <1>6, <1>7, <1>8, <1>9, <1>10, <1>11, <1>12, <1>13,
       <1>14 DEF TrackerNext

(* The columns of the tracker are of the period that the picker shows, seen *)
(* after the search and the filter that are set, whichever load of          *)
(* whichever period arrives late (stat-tracker.js).                         *)
THEOREM TrackerStaysRight == TrackerSpec => []TrackerShowsItsPeriod
  BY TrackerStarts, TrackerSteps, PTL DEF TrackerSpec, TrackerInv

--------------------------------------------------------------------------------
(* Leaderboard.                                                             *)

LeaderboardSpec == LeaderboardInit /\ [][LeaderboardNext]_lbVars

LeaderboardInv ==
  /\ lbAsk \in Boards /\ lbLoads \in [Boards -> Nat]
  /\ lbBody.kind = "rows" => lbBody.of \in lbCache
  /\ ClicksLoadWhatIsSeen

(* The board is closed at first.                                            *)
LEMMA LeaderboardStarts == LeaderboardInit => LeaderboardInv
  BY LeaderboardConstants
     DEF LeaderboardInit, LeaderboardInv, ClicksLoadWhatIsSeen, Boards, Board, NothingDrawn

(* What is drawn of a board.                                               *)
DrawnOf(e, board) ==
  /\ e.kind \in {"rows", "empty"} /\ e.of = board
  /\ e.kind = "rows" => e.mode = lbAsk'.mode /\ e.gun = lbGun' /\ e.category = lbCategory'
  /\ e.places => board = lbAsk'

(* What the entries of a board are drawn as.                                *)
LEMMA EntriesAre ==
  ASSUME NEW board, NEW e \in Entries(board)
  PROVE  DrawnOf(e, board)
  BY DEF Entries, DrawnOf, NothingDrawn

(* The same, when it may be an error that was cached.                       *)
LEMMA EntriesOrErrorAre ==
  ASSUME NEW board, NEW e \in EntriesOrError(board)
  PROVE  DrawnOf(e, board) \/ e = NothingDrawn("error", board)
  BY EntriesAre DEF EntriesOrError

(* LoadBoard and _renderEntries, for the settings of the moment.           *)
LEMMA LoadBoardKeeps ==
  ASSUME lbLoads \in [Boards -> Nat], lbAsk' \in Boards, LoadBoard
  PROVE  LeaderboardInv'
  <1> USE DEF LeaderboardInv, ClicksLoadWhatIsSeen, NothingDrawn
  <1>1. CASE lbAsk' \in lbCache'
    <2>1. DrawnOf(lbBody', lbAsk') /\ lbLoads' = lbLoads
      BY <1>1, EntriesAre DEF LoadBoard
    <2>2. QED  BY <1>1, <2>1 DEF DrawnOf
  <1>2. CASE lbAsk' \notin lbCache'
    BY <1>2 DEF LoadBoard
  <1>3. QED  BY <1>1, <1>2

(* Drawing the board again from what is cached.                             *)
LEMMA RedrawBoardKeeps ==
  ASSUME LeaderboardInv, lbAsk' = lbAsk, lbCache' = lbCache, lbLoads' = lbLoads, RedrawBoard
  PROVE  LeaderboardInv'
  <1> USE DEF LeaderboardInv, ClicksLoadWhatIsSeen, NothingDrawn
  <1>1. CASE lbAsk' \in lbCache'
    <2>1. DrawnOf(lbBody', lbAsk')
      BY <1>1, EntriesAre DEF RedrawBoard
    <2>2. QED  BY <1>1, <2>1 DEF DrawnOf
  <1>2. CASE lbAsk' \notin lbCache'
    BY <1>2 DEF RedrawBoard
  <1>3. QED  BY <1>1, <1>2

(* The settings a board is asked with, and that they make one.              *)
LEMMA AskFields ==
  ASSUME lbAsk \in Boards
  PROVE  /\ lbAsk = Board(lbAsk.mode, lbAsk.period, lbAsk.sort)
         /\ lbAsk.mode \in {"builds", "attachments"} /\ lbAsk.period \in Spans
         /\ lbAsk.sort \in {"likes", "dislikes"}
         /\ lbAsk.mode = "builds" => lbAsk.sort = "likes"
  BY DEF Boards, Board

(* Settings that make a board.                                              *)
LEMMA BoardOf ==
  ASSUME NEW m \in {"builds", "attachments"}, NEW p \in Spans, NEW s \in {"likes", "dislikes"},
         m = "builds" => s = "likes"
  PROVE  Board(m, p, s) \in Boards
  BY DEF Boards

(* What a step of the leaderboard preserves, action by action.              *)
LEMMA LeaderboardSteps == LeaderboardInv /\ [LeaderboardNext]_lbVars => LeaderboardInv'
  <1> SUFFICES ASSUME LeaderboardInv, [LeaderboardNext]_lbVars PROVE LeaderboardInv'
    OBVIOUS
  <1> USE DEF LeaderboardInv, ClicksLoadWhatIsSeen, NothingDrawn
  <1>1. CASE OpenLeaderboard
    BY <1>1, LeaderboardConstants, AskFields, BoardOf, LoadBoardKeeps DEF OpenLeaderboard
  <1>2. CASE CloseLeaderboard
    BY <1>2 DEF CloseLeaderboard
  <1>3. CASE ClickRow
    BY <1>3 DEF ClickRow
  <1>4. CASE BoardMode
    <2>1. lbAsk' \in Boards
      BY <1>4, AskFields, BoardOf DEF BoardMode, Board
    <2>2. QED  BY <1>4, <2>1, LoadBoardKeeps DEF BoardMode
  <1>5. CASE BoardPeriod
    <2>1. lbAsk' \in Boards
      BY <1>5, AskFields, BoardOf DEF BoardPeriod, Board
    <2>2. QED  BY <1>5, <2>1, LoadBoardKeeps DEF BoardPeriod
  <1>6. CASE BoardOrder
    <2>1. lbAsk' \in Boards
      BY <1>6, AskFields, BoardOf DEF BoardOrder, Board
    <2>2. QED  BY <1>6, <2>1, LoadBoardKeeps DEF BoardOrder
  <1>7. CASE FilterGun
    BY <1>7, RedrawBoardKeeps DEF FilterGun
  <1>8. CASE FilterCategory
    BY <1>8, RedrawBoardKeeps DEF FilterCategory
  <1>9. CASE BoardLanguage
    BY <1>9, RedrawBoardKeeps DEF BoardLanguage
  <1>10. CASE BoardArrives
    BY <1>10, EntriesOrErrorAre DEF BoardArrives, DrawnOf
  <1>11. CASE BoardFails
    BY <1>11 DEF BoardFails
  <1>12. CASE UNCHANGED lbVars
    BY <1>12 DEF lbVars
  <1>13. QED
    BY <1>1, <1>2, <1>3, <1>4, <1>5, <1>6, <1>7, <1>8, <1>9, <1>10, <1>11,
       <1>12 DEF LeaderboardNext

(* A click on a row loads the build that is seen, or nothing, although it   *)
(* is found by its place in the board kept under the settings of the moment *)
(* (leaderboard.js).                                                        *)
THEOREM ClicksStayRight == LeaderboardSpec => []ClicksLoadWhatIsSeen
  BY LeaderboardStarts, LeaderboardSteps, PTL DEF LeaderboardSpec, LeaderboardInv

--------------------------------------------------------------------------------
(* News.                                                                    *)

NewsSpec == NewsInit /\ [][NewsNext]_nwVars

NewsViews == NewsPosts \union LostPosts \union {PostList}
NewsPages == {Page(v, t) : v \in NewsViews, t \in Tongues}

NewsWaits == [view : NewsViews, at : {"manifest", "text"}, tongue : Tongues]

(* What slides in is a page, so a drawer that waits for nothing shows one.  *)
NewsTypes ==
  /\ nwView \in NewsViews /\ nwTongue \in Tongues /\ nwSlides \in Seq(NewsPages)
  /\ nwWaits \in Seq(NewsWaits)
  /\ nwDeferred \in NewsViews \union {NoNews}

NewsInv == NewsTypes /\ NewsStepsAside

(* The drawer is closed at first.                                           *)
LEMMA NewsStarts == NewsInit => NewsInv
  <1> SUFFICES ASSUME NewsInit PROVE NewsInv
    OBVIOUS
  <1>1. NewsTypes
    BY NewsConstants DEF NewsInit, NewsTypes, NewsViews, NewsPages
  <1>2. NewsStepsAside
    BY NewsConstants DEF NewsInit, NewsStepsAside
  <1>3. QED  BY <1>1, <1>2 DEF NewsInv

NewsShown == nwBody[1] \in {"page", "error", "not found", "no posts"}

(* A view in a language is a page.                                          *)
LEMMA PagesOf == ASSUME NEW v \in NewsViews, NEW t \in Tongues PROVE Page(v, t) \in NewsPages
  BY DEF NewsPages

(* A page is drawn as one.                                                  *)
LEMMA PagesArePages == ASSUME NEW p \in NewsPages PROVE p[1] = "page"
  BY DEF NewsPages, Page

(* Drawing a page keeps what slides, and shows something at last.           *)
LEMMA Drawing ==
  ASSUME nwSlides \in Seq(NewsPages), NEW p \in NewsPages, Draw(p)
  PROVE  nwSlides' \in Seq(NewsPages) /\ (nwSlides' # <<>> \/ NewsShown')
  <1>1. CASE nwBody[1] = "page"
    <2>1. nwSlides' = Append(nwSlides, p)
      BY <1>1 DEF Draw
    <2>2. QED  BY <2>1, AppendLast
  <1>2. CASE nwBody[1] # "page"
    <2>1. nwBody' = p /\ nwSlides' = nwSlides
      BY <1>2 DEF Draw
    <2>2. (nwBody')[1] = "page"
      BY <2>1, PagesArePages
    <2>3. QED  BY <2>1, <2>2 DEF NewsShown
  <1>3. QED  BY <1>1, <1>2

(* A view whose manifest is there is drawn, refused or waited for.          *)
LEMMA Continuing ==
  ASSUME nwSlides \in Seq(NewsPages), NEW view \in NewsViews, NEW waits \in Seq(NewsWaits),
         nwTongue' \in Tongues, Continue(view, waits)
  PROVE  /\ nwSlides' \in Seq(NewsPages) /\ nwWaits' \in Seq(NewsWaits)
         /\ nwWaits' # <<>> \/ nwSlides' # <<>> \/ NewsShown'
  <1>1. Page(view, nwTongue') \in NewsPages
    BY DEF NewsPages
  <1>2. CASE view = PostList \/ <<view, nwTongue'>> \in nwTexts
    BY <1>1, <1>2, Drawing DEF Continue
  <1>3. CASE ~(view = PostList \/ <<view, nwTongue'>> \in nwTexts) /\ view \in LostPosts
    <2>1. nwWaits' = waits /\ nwBody' = <<"not found">> /\ nwSlides' = nwSlides
      BY <1>3 DEF Continue, Note
    <2>2. QED  BY <2>1 DEF NewsShown
  <1>4. CASE ~(view = PostList \/ <<view, nwTongue'>> \in nwTexts) /\ view \notin LostPosts
    <2>1. [view |-> view, at |-> "text", tongue |-> nwTongue'] \in NewsWaits
      BY DEF NewsWaits
    <2>2. /\ nwWaits' = Append(waits, [view |-> view, at |-> "text", tongue |-> nwTongue'])
          /\ nwSlides' = nwSlides
      BY <1>4 DEF Continue
    <2>3. QED  BY <2>1, <2>2, AppendLast
  <1>5. QED  BY <1>2, <1>3, <1>4

(* showPost and showList, with the tour that puts them off.                 *)
LEMMA Showing ==
  ASSUME NewsInv, NEW view \in NewsViews, nwTongue' \in Tongues, Show(view),
         nwTour' => ~nwOpen
  PROVE  NewsInv'
  <1> USE DEF NewsInv, NewsTypes, NewsStepsAside, nwDrawer, nwWork
  <1>1. CASE nwTour'
    BY <1>1 DEF Show
  <1>2. CASE ~nwTour' /\ nwManifest'
    <2>1. Continue(view, nwWaits)
      BY <1>2 DEF Show
    <2>2. QED  BY <2>1, <1>2, Continuing DEF Show, NewsShown
  <1>3. CASE ~nwTour' /\ ~nwManifest'
    <2>1. [view |-> view, at |-> "manifest", tongue |-> nwTongue'] \in NewsWaits
      BY DEF NewsWaits
    <2>2. /\ nwWaits' = Append(nwWaits, [view |-> view, at |-> "manifest", tongue |-> nwTongue'])
          /\ nwSlides' = nwSlides /\ nwView' = view /\ nwDeferred' \in {NoNews, nwDeferred}
      BY <1>3 DEF Show
    <2>3. nwWaits \in Seq(NewsWaits)
      OBVIOUS
    <2> HIDE DEF NewsInv
    <2>6. nwWaits' \in Seq(NewsWaits) /\ nwWaits' # <<>>
      BY <2>1, <2>2, <2>3, AppendLast
    <2> USE DEF NewsInv
    <2>4. nwDeferred' # NoNews => nwTour'
      BY <1>3, <2>2 DEF Show
    <2>5. QED  BY <2>2, <2>6, <2>4, <1>3
  <1>4. QED  BY <1>1, <1>2, <1>3

(* What a step of the news preserves, action by action.                     *)
LEMMA NewsSteps == NewsInv /\ [NewsNext]_nwVars => NewsInv'
  <1> SUFFICES ASSUME NewsInv, [NewsNext]_nwVars PROVE NewsInv'
    OBVIOUS
  <1> USE DEF NewsInv, NewsTypes, NewsStepsAside, nwDrawer, nwTours, nwWork
  <1>1. CASE OpenNews
    <2>1. PICK view \in NewsViews : Show(view)
      BY <1>1 DEF OpenNews, NewsViews
    <2>2. QED  BY <1>1, <2>1, Showing DEF OpenNews
  <1>2. CASE HideNews
    BY <1>2 DEF HideNews, CloseOverlay, NewsViews
  <1>3. CASE NewsLanguage
    <2>1. CASE nwOpen /\ nwView # PostList
      BY <1>3, <2>1, Showing DEF NewsLanguage
    <2>2. CASE ~(nwOpen /\ nwView # PostList)
      <3>1. /\ UNCHANGED <<nwOpen, nwView, nwDeferred, nwWaits, nwSlides, nwTour>>
            /\ nwTongue' \in Tongues
        BY <1>3, <2>2 DEF NewsLanguage
      <3>2. nwOpen => nwBody' \in {Page(PostList, nwTongue'), Note("no posts")}
        BY <1>3, <2>2 DEF NewsLanguage, Page, Note
      <3>3. nwOpen => NewsShown'
        <4>1. CASE nwBody' = Page(PostList, nwTongue')
          BY <4>1 DEF Page, NewsShown
        <4>2. CASE nwBody' = Note("no posts")
          BY <4>2 DEF Note, NewsShown
        <4>3. QED  BY <3>2, <4>1, <4>2
      <3>4. QED  BY <3>1, <3>3 DEF NewsShown
    <2>3. QED  BY <2>1, <2>2
  <1>4. CASE CheckArrives
    <2>1. LatestPost \in NewsViews
      BY NewsConstants DEF NewsViews
    <2>2. QED  BY <1>4, <2>1, Showing DEF CheckArrives
  <1>5. CASE CheckFails
    BY <1>5 DEF CheckFails
  <1>6. CASE StartTour
    BY <1>6 DEF StartTour, CloseOverlay, NewsViews
  <1>7. CASE EndTour
    BY <1>7, Showing DEF EndTour
  <1>8. CASE NewsArrives
    <2> PICK i \in DOMAIN nwWaits : NewsArrives!(i)
      BY <1>8 DEF NewsArrives
    <2> DEFINE w == nwWaits[i]  rest == RemoveAt(nwWaits, i)
    <2>0. w \in NewsWaits
      BY ElementOf
    <2>1. w.view \in NewsViews /\ w.tongue \in Tongues
      BY <2>0 DEF NewsWaits
    <2>2. rest \in Seq(NewsWaits)
      BY RemoveAtRest
    <2>3. CASE w.at = "manifest"
      <3>1. Continue(w.view, rest)
        BY <2>3
      <3> HIDE DEF rest
      <3>2. QED  BY <2>1, <2>2, <3>1, Continuing DEF NewsShown
    <2>4. CASE w.at # "manifest"
      <3>1. Page(w.view, w.tongue) \in NewsPages
        BY <2>1, PagesOf
      <3>2. Draw(Page(w.view, w.tongue)) /\ nwWaits' = rest
        BY <2>4
      <3> HIDE DEF rest
      <3>3. QED  BY <2>2, <3>1, <3>2, Drawing DEF NewsShown
    <2>5. QED  BY <2>3, <2>4
  <1>9. CASE NewsFails
    <2>1. PICK i \in DOMAIN nwWaits : NewsFails!(i)
      BY <1>9 DEF NewsFails
    <2>2. RemoveAt(nwWaits, i) \in Seq(NewsWaits)
      BY RemoveAtRest
    <2>3. NewsShown'
      BY <2>1 DEF Note, NewsShown
    <2>4. QED  BY <2>1, <2>2, <2>3 DEF NewsShown
  <1>10. CASE PageSlidOut
    <2>1. Head(nwSlides) \in NewsPages /\ Tail(nwSlides) \in Seq(NewsPages)
      BY <1>10, HeadAndTail DEF PageSlidOut
    <2>2. nwBody' \in NewsPages
      <3>1. Page(PostList, nwTongue) \in NewsPages
        BY PagesOf DEF NewsViews
      <3>2. nwBody' \in {Page(PostList, nwTongue), Head(nwSlides)}
        BY <1>10 DEF PageSlidOut
      <3>3. QED  BY <2>1, <3>1, <3>2
    <2>3. nwBody'[1] = "page"
      BY <2>2, PagesArePages
    <2>4. QED  BY <1>10, <2>1, <2>3 DEF PageSlidOut
  <1>11. CASE UNCHANGED nwVars
    BY <1>11 DEF nwVars
  <1>12. QED
    BY <1>1, <1>2, <1>3, <1>4, <1>5, <1>6, <1>7, <1>8, <1>9, <1>10,
       <1>11 DEF NewsNext

(* The tour is never covered by news, what waits for it comes back when it  *)
(* ends, and an open drawer with nothing under way shows a page or says why *)
(* not (news.js).                                                           *)
THEOREM NewsStepsRight == NewsSpec => []NewsStepsAside
  BY NewsStarts, NewsSteps, PTL DEF NewsSpec, NewsInv

--------------------------------------------------------------------------------
(* CommunityBuilds.                                                         *)

CommunitySpec == CommunityInit /\ [][CommunityNext]_cmVars

LikeRatings == [likes : Nat, mine : BOOLEAN]
IsCall(c) ==
  c = [kind |-> c.kind, of |-> c.of, before |-> c.before, taken |-> c.taken, got |-> c.got,
       live |-> c.live, form |-> c.form, alone |-> c.alone]

Vote(c, b) == c.kind = "vote" /\ c.of = {b}

(* What a request of each kind is about, and what it has been answered.    *)
Wellformed(c) ==
  /\ c.kind = "list" /\ c.taken => c.got \subseteq Published
  /\ c.kind = "ratings" => /\ c.of \subseteq Published
                           /\ c.taken => c.got \in [c.of -> LikeRatings]
  /\ c.kind = "vote" => /\ \E b \in Published : Vote(c, b)
                        /\ c.before \in LikeRatings /\ (c.taken => c.got \in LikeRatings)
  /\ c.kind = "comments" /\ c.taken => c.got \in SUBSET Nat
  /\ c.kind = "post" => c.before \in SUBSET Nat /\ (c.taken => c.got \in SUBSET Nat)

CallsOK(calls) ==
  /\ calls \in Seq(ToSet(calls))
  /\ \A i \in DOMAIN calls : IsCall(calls[i]) /\ Wellformed(calls[i])

CommunityServers == [listed : SUBSET Published, liked : SUBSET Published,
                     comments : SUBSET Nat, written : Nat]
CommunityPools == [known : BOOLEAN, builds : SUBSET Published, failed : BOOLEAN]
CommentThreads == [at : {"closed", "loading", "shown", "error"}, seen : SUBSET Nat,
                   base : SUBSET Nat, busy : BOOLEAN]

CommunityTypes ==
  /\ cmServer \in CommunityServers /\ cmPool \in CommunityPools /\ cmThread \in CommentThreads
  /\ cmRatings = [b \in Published |-> cmRatings[b]]
  /\ \A b \in Published : cmRatings[b] # Unrated => cmRatings[b] \in LikeRatings
  /\ CallsOK(cmCalls)

(* A request about likes that no other crossed is the only one there is.   *)
OnlyOne(calls) ==
  \A i, j \in DOMAIN calls :
    AboutLikes(calls[i]) /\ AboutLikes(calls[j]) /\ i # j => ~calls[i].alone

(* What it was answered is still so, and what a vote would put back is.    *)
AnswersHold(calls, liked, doubt) ==
  \A i \in DOMAIN calls :
    calls[i].alone =>
      /\ calls[i].kind = "vote" =>
           \A b \in calls[i].of :
             /\ calls[i].taken => calls[i].got = Rating(liked, b)
             /\ ~calls[i].taken /\ b \notin doubt => calls[i].before = Rating(liked, b)
      /\ calls[i].kind = "ratings" /\ calls[i].taken =>
           \A b \in calls[i].of : calls[i].got[b] = Rating(liked, b)

(* A rating that no vote is about to change is the server's.               *)
VotedOn(calls, b) == \E i \in DOMAIN calls : Vote(calls[i], b)
RatingsHold(calls, liked, ratings, doubt) ==
  \A b \in Published \ doubt :
    ~VotedOn(calls, b) /\ ratings[b] # Unrated => ratings[b] = Rating(liked, b)

LikesInv ==
  /\ OnlyOne(cmCalls)
  /\ AnswersHold(cmCalls, cmServer.liked, cmDoubt)
  /\ RatingsHold(cmCalls, cmServer.liked, cmRatings, cmDoubt)

CardsInv == CardsPass /\ (~cmPool.known => cmCards = {})

CommunityInv == CommunityTypes /\ LikesInv /\ CardsInv

--------------------------------------------------------------------------------
(* d is the request c, but for marks that may have been taken away.        *)
SameCall(d, c) ==
  /\ IsCall(d) /\ d.kind = c.kind /\ d.of = c.of /\ d.before = c.before
  /\ d.taken = c.taken /\ d.got = c.got /\ (d.alone => c.alone)

(* Taking a mark away leaves a request what it was.                         *)
LEMMA SameRequest ==
  ASSUME NEW c, NEW d, SameCall(d, c), Wellformed(c)
  PROVE  IsCall(d) /\ Wellformed(d) /\ (AboutLikes(d) <=> AboutLikes(c))
         /\ \A b : Vote(d, b) <=> Vote(c, b)
  <1>1. IsCall(d) /\ (AboutLikes(d) <=> AboutLikes(c)) /\ \A b : Vote(d, b) <=> Vote(c, b)
    BY DEF SameCall, AboutLikes, Vote
  <1>2. Wellformed(d)
    BY <1>1 DEF SameCall, Wellformed
  <1>3. QED  BY <1>1, <1>2

(* A sequence is one of its own elements.                                   *)
LEMMA ASequence ==
  ASSUME NEW S, NEW s \in Seq(S)
  PROVE  s \in Seq(ToSet(s))
  BY DEF ToSet

Relabelled(new, old) ==
  /\ new \in Seq(ToSet(new)) /\ DOMAIN new = DOMAIN old
  /\ \A i \in DOMAIN new : SameCall(new[i], old[i])

(* Requests whose page is gone are the same requests.                       *)
LEMMA OrphanedAreSame ==
  ASSUME NEW calls, CallsOK(calls), NEW kinds
  PROVE  Relabelled(Orphaned(calls, kinds), calls)
  <1> DEFINE new == Orphaned(calls, kinds)
  <1>1. new \in Seq(ToSet(new)) /\ DOMAIN new = DOMAIN calls
    BY DEF CallsOK, Orphaned, ToSet
  <1>2. ASSUME NEW i \in DOMAIN calls PROVE SameCall(new[i], calls[i])
    <2>1. IsCall(calls[i]) /\ new[i] = [calls[i] EXCEPT !.live = @ /\ calls[i].kind \notin kinds]
      BY DEF CallsOK, Orphaned
    <2>2. QED  BY <2>1 DEF SameCall, IsCall
  <1>3. QED  BY <1>1, <1>2 DEF Relabelled

(* So are those that are of an older form of comments.                      *)
LEMMA NewFormIsSame ==
  ASSUME NEW calls, CallsOK(calls)
  PROVE  Relabelled(NewForm(calls), calls)
  <1> DEFINE new == NewForm(calls)
  <1>1. new \in Seq(ToSet(new)) /\ DOMAIN new = DOMAIN calls
    BY DEF CallsOK, NewForm, ToSet
  <1>2. ASSUME NEW i \in DOMAIN calls PROVE SameCall(new[i], calls[i])
    <2>1. IsCall(calls[i]) /\ new[i] = [calls[i] EXCEPT !.form = FALSE]
      BY DEF CallsOK, NewForm
    <2>2. QED  BY <2>1 DEF SameCall, IsCall
  <1>3. QED  BY <1>1, <1>2 DEF Relabelled

(* What the three parts of LikesInv are about.                             *)
LEMMA RelabelledHolds ==
  ASSUME NEW new, NEW old, CallsOK(old), Relabelled(new, old), NEW liked, NEW doubt
  PROVE  /\ CallsOK(new) /\ (OnlyOne(old) => OnlyOne(new))
         /\ AnswersHold(old, liked, doubt) => AnswersHold(new, liked, doubt)
         /\ \A b : VotedOn(new, b) <=> VotedOn(old, b)
  <1>1. ASSUME NEW i \in DOMAIN old
        PROVE  /\ IsCall(new[i]) /\ Wellformed(new[i]) /\ SameCall(new[i], old[i])
               /\ AboutLikes(new[i]) <=> AboutLikes(old[i])
               /\ \A b : Vote(new[i], b) <=> Vote(old[i], b)
    BY SameRequest DEF Relabelled, CallsOK
  <1>2. CallsOK(new)
    BY <1>1 DEF CallsOK, Relabelled
  <1>3. OnlyOne(old) => OnlyOne(new)
    BY <1>1 DEF OnlyOne, Relabelled, SameCall
  <1>4. AnswersHold(old, liked, doubt) => AnswersHold(new, liked, doubt)
    BY <1>1 DEF AnswersHold, Relabelled, SameCall
  <1>5. \A b : VotedOn(new, b) <=> VotedOn(old, b)
    BY <1>1 DEF VotedOn, Relabelled
  <1>6. QED  BY <1>2, <1>3, <1>4, <1>5

(* The request i is over.                                                  *)
LEMMA RestHolds ==
  ASSUME NEW calls, CallsOK(calls), NEW i \in DOMAIN calls, NEW liked, NEW doubt
  PROVE  LET rest == RemoveAt(calls, i) IN
         /\ CallsOK(rest) /\ (OnlyOne(calls) => OnlyOne(rest))
         /\ AnswersHold(calls, liked, doubt) => AnswersHold(rest, liked, doubt)
         /\ \A b : VotedOn(rest, b) => VotedOn(calls, b)
         /\ \A b : VotedOn(calls, b) /\ ~Vote(calls[i], b) => VotedOn(rest, b)
         /\ \A k \in DOMAIN rest : \E j \in DOMAIN calls \ {i} : rest[k] = calls[j]
  <1> DEFINE rest == RemoveAt(calls, i)
             at(k) == IF k < i THEN k ELSE k + 1
  <1>1. /\ rest \in Seq(ToSet(calls)) /\ DOMAIN rest = 1..(Len(calls) - 1)
        /\ \A k \in DOMAIN rest : rest[k] = IF k < i THEN calls[k] ELSE calls[k + 1]
    BY RemoveAtRest DEF CallsOK
  <1>2. Len(calls) \in Nat /\ i \in 1..Len(calls) /\ DOMAIN calls = 1..Len(calls)
    BY DEF CallsOK
  <1> HIDE DEF rest
  <1>3. \A k \in DOMAIN rest : at(k) \in DOMAIN calls \ {i} /\ rest[k] = calls[at(k)]
    BY <1>1, <1>2
  <1>4. \A j, k \in DOMAIN rest : j # k => at(j) # at(k)
    BY <1>1, <1>2
  <1>5. \A j \in DOMAIN calls \ {i} : \E k \in DOMAIN rest : at(k) = j
    <2> TAKE j \in DOMAIN calls \ {i}
    <2>1. CASE j < i
      BY <1>1, <1>2, <2>1
    <2>2. CASE ~(j < i)
      <3>1. j - 1 \in DOMAIN rest /\ at(j - 1) = j
        BY <1>1, <1>2, <2>2
      <3>2. QED  BY <3>1
    <2>3. QED  BY <2>1, <2>2
  <1> HIDE DEF at
  <1>6. CallsOK(rest)
    BY <1>1, <1>3, ASequence DEF CallsOK
  <1>7. OnlyOne(calls) => OnlyOne(rest)
    BY <1>3, <1>4 DEF OnlyOne
  <1>8. AnswersHold(calls, liked, doubt) => AnswersHold(rest, liked, doubt)
    BY <1>3 DEF AnswersHold
  <1>9. \A b : VotedOn(rest, b) => VotedOn(calls, b)
    BY <1>3 DEF VotedOn
  <1>10. \A b : VotedOn(calls, b) /\ ~Vote(calls[i], b) => VotedOn(rest, b)
    BY <1>3, <1>5 DEF VotedOn
  <1>11. \A k \in DOMAIN rest : \E j \in DOMAIN calls \ {i} : rest[k] = calls[j]
    BY <1>3
  <1>12. QED  BY <1>6, <1>7, <1>8, <1>9, <1>10, <1>11 DEF rest

(* Another request, which nothing was done for yet.                        *)
Fresh(c) == IsCall(c) /\ Wellformed(c) /\ c.taken = FALSE /\ c.alone = TRUE

(* What another request makes of those that are on their way.               *)
LEMMA SentCalls ==
  ASSUME NEW calls, CallsOK(calls), NEW c, Fresh(c)
  PROVE  LET s == Send(calls, c)  n == Len(calls) + 1 IN
         /\ CallsOK(s) /\ DOMAIN s = 1..n /\ SameCall(s[n], c)
         /\ \A i \in DOMAIN calls : SameCall(s[i], calls[i])
         /\ \A i \in DOMAIN calls : AboutLikes(c) /\ AboutLikes(calls[i]) =>
              ~s[i].alone /\ ~s[n].alone
  <1> DEFINE crossed == AboutLikes(c) /\ \E i \in DOMAIN calls : AboutLikes(calls[i])
             others == [i \in DOMAIN calls |->
                          [calls[i] EXCEPT !.alone = @ /\ ~(crossed /\ AboutLikes(calls[i]))]]
             last == [c EXCEPT !.alone = ~crossed]
             s == Send(calls, c)
             n == Len(calls) + 1
  <1>1. s = Append(others, last)
    BY DEF Send
  <1>2. others \in Seq(ToSet(others)) /\ Len(others) = Len(calls) /\ DOMAIN others = DOMAIN calls
    BY DEF CallsOK, ToSet
  <1>3. SameCall(last, c) /\ (crossed => ~last.alone)
    <2>1. IsCall(c) /\ c.alone = TRUE
      BY DEF Fresh
    <2>2. last.alone = ~crossed
      BY <2>1 DEF IsCall
    <2>3. /\ last.kind = c.kind /\ last.of = c.of /\ last.before = c.before
          /\ last.taken = c.taken
          /\ last.got = c.got
      BY <2>1 DEF IsCall
    <2>4. IsCall(last)
      BY <2>1 DEF IsCall
    <2>5. QED  BY <2>1, <2>2, <2>3, <2>4 DEF SameCall
  <1>4. ASSUME NEW i \in DOMAIN calls
        PROVE  /\ SameCall(others[i], calls[i])
               /\ crossed /\ AboutLikes(calls[i]) => ~others[i].alone
    <2>1. IsCall(calls[i])
          /\ others[i] = [calls[i] EXCEPT !.alone = @ /\ ~(crossed /\ AboutLikes(calls[i]))]
      BY DEF CallsOK
    <2>2. QED  BY <2>1 DEF SameCall, IsCall
  <1> HIDE DEF others, last, s
  <1>5. /\ s \in Seq(ToSet(others) \union {last}) /\ DOMAIN s = 1..n /\ s[n] = last
        /\ \A i \in DOMAIN calls : s[i] = others[i]
    <2>1. others \in Seq(ToSet(others) \union {last})
      BY <1>2 DEF ToSet
    <2>2. QED  BY <1>1, <1>2, <2>1, AppendLast
  <1>6. n \in Nat /\ DOMAIN calls = 1..(n - 1)
    BY DEF CallsOK
  <1>7. ASSUME NEW i \in DOMAIN s PROVE IsCall(s[i]) /\ Wellformed(s[i])
    <2>1. CASE i = n
      BY <1>3, <1>5, <2>1, SameRequest DEF Fresh
    <2>2. CASE i # n
      <3>1. i \in DOMAIN calls
        BY <1>5, <1>6, <2>2
      <3>2. SameCall(s[i], calls[i]) /\ Wellformed(calls[i])
        BY <1>4, <1>5, <3>1 DEF CallsOK
      <3>3. QED  BY <3>2, SameRequest
    <2>3. QED  BY <2>1, <2>2
  <1>8. CallsOK(s)
    BY <1>5, <1>7, ASequence DEF CallsOK
  <1>9. QED  BY <1>3, <1>4, <1>5, <1>8 DEF s

(* What another request leaves true of likes.                               *)
LEMMA SentHolds ==
  ASSUME NEW calls, CallsOK(calls), NEW c, Fresh(c), NEW liked, NEW doubt,
         OnlyOne(calls), AnswersHold(calls, liked, doubt),
         c.kind = "vote" /\ (~\E i \in DOMAIN calls : AboutLikes(calls[i])) =>
           \A b \in c.of : b \notin doubt => c.before = Rating(liked, b)
  PROVE  /\ OnlyOne(Send(calls, c)) /\ AnswersHold(Send(calls, c), liked, doubt)
         /\ \A b : VotedOn(calls, b) \/ Vote(c, b) => VotedOn(Send(calls, c), b)
  <1> DEFINE s == Send(calls, c)  n == Len(calls) + 1
  <1>1. /\ DOMAIN s = 1..n /\ SameCall(s[n], c)
        /\ \A i \in DOMAIN calls : SameCall(s[i], calls[i])
        /\ \A i \in DOMAIN calls : AboutLikes(c) /\ AboutLikes(calls[i]) =>
              ~s[i].alone /\ ~s[n].alone
    BY SentCalls
  <1>2. n \in Nat /\ DOMAIN calls = 1..(n - 1)
    BY DEF CallsOK
  <1> HIDE DEF s
  <1>3. \A i \in DOMAIN s : i = n \/ i \in DOMAIN calls
    BY <1>1, <1>2
  <1>3a. n \in DOMAIN s /\ DOMAIN calls \subseteq DOMAIN s
    BY <1>1, <1>2
  <1> HIDE DEF n
  <1>4. OnlyOne(s)
    BY <1>1, <1>3 DEF OnlyOne, SameCall, AboutLikes
  <1>5. ASSUME NEW i \in DOMAIN s, s[i].alone
        PROVE  /\ s[i].kind = "vote" =>
                    \A b \in s[i].of :
                      /\ s[i].taken => s[i].got = Rating(liked, b)
                      /\ ~s[i].taken /\ b \notin doubt => s[i].before = Rating(liked, b)
               /\ s[i].kind = "ratings" /\ s[i].taken =>
                    \A b \in s[i].of : s[i].got[b] = Rating(liked, b)
    <2>1. CASE i = n
      BY <1>1, <1>5, <2>1 DEF SameCall, Fresh, AboutLikes
    <2>2. CASE i \in DOMAIN calls
      BY <1>1, <1>5, <2>2 DEF SameCall, AnswersHold
    <2>3. QED  BY <2>1, <2>2, <1>3
  <1>6. AnswersHold(s, liked, doubt)
    BY <1>5 DEF AnswersHold
  <1>7. \A b : VotedOn(calls, b) \/ Vote(c, b) => VotedOn(s, b)
    BY <1>1, <1>3a DEF VotedOn, Vote, SameCall
  <1>8. QED  BY <1>4, <1>6, <1>7 DEF s

--------------------------------------------------------------------------------
(* Requests that may take the place of those under way while the server's  *)
(* likes and the ratings stay.                                             *)
Stands(calls) ==
  /\ CallsOK(calls) /\ OnlyOne(calls) /\ AnswersHold(calls, cmServer.liked, cmDoubt)
  /\ \A b \in Published : VotedOn(cmCalls, b) => VotedOn(calls, b)

(* What the requests on their way satisfy.                                  *)
LEMMA StandsNow == CommunityTypes /\ LikesInv => Stands(cmCalls)
  BY DEF CommunityTypes, LikesInv, Stands

(* It stays so when marks are taken away,                                   *)
LEMMA StandsRelabelled ==
  ASSUME NEW calls, Stands(calls), NEW kinds
  PROVE  Stands(Orphaned(calls, kinds)) /\ Stands(Redrawn(calls)) /\ Stands(NewForm(calls))
  <1>1. CallsOK(calls)
    BY DEF Stands
  <1>2. ASSUME NEW new, Relabelled(new, calls) PROVE Stands(new)
    BY <1>1, <1>2, RelabelledHolds DEF Stands
  <1>3. QED  BY <1>1, <1>2, OrphanedAreSame, NewFormIsSame DEF Redrawn

(* when another is sent,                                                    *)
LEMMA StandsSent ==
  ASSUME NEW calls, Stands(calls), NEW c, Fresh(c), c.kind # "vote"
  PROVE  Stands(Send(calls, c))
  BY SentCalls, SentHolds DEF Stands

(* when one is over,                                                        *)
LEMMA StandsRest ==
  ASSUME CommunityTypes, LikesInv, NEW i \in DOMAIN cmCalls, cmCalls[i].kind # "vote"
  PROVE  Stands(RemoveAt(cmCalls, i))
  BY RestHolds DEF CommunityTypes, LikesInv, Stands, Vote

(* and then likes hold as long as nothing else about them changes.          *)
LEMMA StandsKeeps ==
  ASSUME LikesInv, Stands(cmCalls'), cmServer'.liked = cmServer.liked, UNCHANGED cmVotes
  PROVE  CallsOK(cmCalls') /\ LikesInv'
  BY DEF LikesInv, Stands, RatingsHold, cmVotes

(* The requests a page sends.                                               *)
LEMMA PageCallIsFresh ==
  ASSUME NEW kind \in {"list", "ratings", "comments", "unlist", "vote", "delete", "post"},
         NEW of, NEW before,
         kind = "ratings" => of \subseteq Published,
         kind = "vote" => (\E b \in Published : of = {b}) /\ before \in LikeRatings,
         kind = "post" => before \in SUBSET Nat
  PROVE  /\ Fresh(PageCall(kind, of, before)) /\ PageCall(kind, of, before).kind = kind
         /\ PageCall(kind, of, before).of = of /\ PageCall(kind, of, before).before = before
  <1> DEFINE c == PageCall(kind, of, before)
  <1>1. IsCall(c) /\ c.taken = FALSE /\ c.alone = TRUE /\ c.kind = kind /\ c.of = of
        /\ c.before = before
    BY DEF PageCall, IsCall
  <1> HIDE DEF c
  <1>2. Wellformed(c)
    BY <1>1 DEF Wellformed, Vote
  <1>3. QED  BY <1>1, <1>2 DEF Fresh, c

(* A request about likes is over: those that are left crossed it.          *)
LEMMA RestIsCrossed ==
  ASSUME NEW calls, CallsOK(calls), OnlyOne(calls), NEW i \in DOMAIN calls, AboutLikes(calls[i]),
         NEW liked, NEW doubt
  PROVE  AnswersHold(RemoveAt(calls, i), liked, doubt)
  <1>1. \A k \in DOMAIN RemoveAt(calls, i) :
           \E j \in DOMAIN calls \ {i} : RemoveAt(calls, i)[k] = calls[j]
    BY RestHolds
  <1>2. \A j \in DOMAIN calls \ {i} : AboutLikes(calls[j]) => ~calls[j].alone
    BY DEF OnlyOne
  <1>3. QED  BY <1>1, <1>2 DEF AnswersHold, AboutLikes

(* The one member of a set.                                                 *)
LEMMA OnlyOf == ASSUME NEW b PROVE Only({b}) = b
  BY DEF Only

--------------------------------------------------------------------------------
(* The server takes a request.                                             *)
TakenFrom(d, c, got) ==
  /\ IsCall(d) /\ d.kind = c.kind /\ d.of = c.of /\ d.before = c.before /\ d.alone = c.alone
  /\ d.taken = TRUE /\ d.got = got

(* The server answers a request.                                            *)
LEMMA TakenCall ==
  ASSUME NEW c, IsCall(c), NEW got
  PROVE  TakenFrom([c EXCEPT !.taken = TRUE, !.got = got], c, got)
  <1> DEFINE d == [c EXCEPT !.taken = TRUE, !.got = got]
  <1>1. DOMAIN c = {"kind", "of", "before", "taken", "got", "live", "form", "alone"}
    BY DEF IsCall
  <1>2. /\ d.kind = c.kind /\ d.of = c.of /\ d.before = c.before /\ d.alone = c.alone
        /\ d.taken = TRUE /\ d.got = got
    BY <1>1
  <1>3. IsCall(d)
    <2>1. d = [x \in DOMAIN c |-> d[x]]
      OBVIOUS
    <2>2. DOMAIN d = {"kind", "of", "before", "taken", "got", "live", "form", "alone"}
      BY <1>1
    <2> HIDE DEF d
    <2>3. QED  BY <1>1, <2>1, <2>2 DEF IsCall
  <1> HIDE DEF d
  <1>4. QED  BY <1>2, <1>3 DEF TakenFrom, d

(* What it makes of the requests on their way.                              *)
LEMMA TakenCalls ==
  ASSUME CommunityTypes, NEW i \in DOMAIN cmCalls, NEW got
  PROVE  LET calls == [cmCalls EXCEPT ![i].taken = TRUE, ![i].got = got] IN
         /\ calls \in Seq(ToSet(calls)) /\ DOMAIN calls = DOMAIN cmCalls
         /\ TakenFrom(calls[i], cmCalls[i], got)
         /\ \A j \in DOMAIN cmCalls \ {i} : calls[j] = cmCalls[j]
  <1> DEFINE calls == [cmCalls EXCEPT ![i].taken = TRUE, ![i].got = got]
             d == [cmCalls[i] EXCEPT !.taken = TRUE, !.got = got]
  <1>1. IsCall(cmCalls[i]) /\ cmCalls \in Seq(ToSet(cmCalls))
    BY DEF CommunityTypes, CallsOK
  <1>2. TakenFrom(d, cmCalls[i], got)
    BY <1>1, TakenCall
  <1>3. /\ DOMAIN calls = DOMAIN cmCalls /\ calls[i] = d
        /\ \A j \in DOMAIN cmCalls \ {i} : calls[j] = cmCalls[j]
        /\ calls = [j \in DOMAIN cmCalls |-> calls[j]]
    BY <1>1
  <1> HIDE DEF calls, d
  <1>4. calls \in Seq(ToSet(calls))
    <2>1. \A j \in DOMAIN cmCalls : calls[j] \in ToSet(cmCalls) \union {d}
      BY <1>3 DEF ToSet
    <2>2. cmCalls \in Seq(ToSet(cmCalls) \union {d}) /\ DOMAIN cmCalls = DOMAIN calls
      BY <1>1, <1>3 DEF ToSet
    <2>3. \A S : cmCalls \in Seq(S) /\ (\A j \in DOMAIN cmCalls : calls[j] \in S) => calls \in Seq(S)
      BY <1>3
    <2>4. calls \in Seq(ToSet(cmCalls) \union {d})
      BY <2>1, <2>2, <2>3
    <2>5. QED  BY <2>4, ASequence
  <1>5. QED  BY <1>2, <1>3, <1>4 DEF calls, d

(* An answer to a request about likes keeps them right.                     *)
LEMMA TakenKeeps ==
  ASSUME CommunityTypes, LikesInv, NEW i \in DOMAIN cmCalls, NEW got,
         NEW liked \in SUBSET Published,
         NEW calls, calls \in Seq(ToSet(calls)), DOMAIN calls = DOMAIN cmCalls,
         TakenFrom(calls[i], cmCalls[i], got), Wellformed(calls[i]),
         \A j \in DOMAIN cmCalls \ {i} : calls[j] = cmCalls[j],
         \A b \in Published : ~Vote(cmCalls[i], b) => (b \in liked <=> b \in cmServer.liked),
         cmCalls[i].kind = "vote" => \A b \in cmCalls[i].of : got = Rating(liked, b),
         cmCalls[i].kind = "ratings" => \A b \in cmCalls[i].of : got[b] = Rating(liked, b)
  PROVE  /\ CallsOK(calls) /\ OnlyOne(calls) /\ AnswersHold(calls, liked, cmDoubt)
         /\ RatingsHold(calls, liked, cmRatings, cmDoubt)
  <1>5. CallsOK(calls)
    BY DEF CallsOK, CommunityTypes, TakenFrom
  <1>6. OnlyOne(calls)
    BY DEF OnlyOne, LikesInv, AboutLikes, TakenFrom
  <1>7. AnswersHold(calls, liked, cmDoubt)
    <2> SUFFICES ASSUME NEW j \in DOMAIN cmCalls, calls[j].alone
                 PROVE  /\ calls[j].kind = "vote" =>
                             \A b \in calls[j].of :
                               /\ calls[j].taken => calls[j].got = Rating(liked, b)
                               /\ ~calls[j].taken /\ b \notin cmDoubt =>
                                    calls[j].before = Rating(liked, b)
                        /\ calls[j].kind = "ratings" /\ calls[j].taken =>
                             \A b \in calls[j].of : calls[j].got[b] = Rating(liked, b)
      BY DEF AnswersHold
    <2>1. CASE j = i
      BY <2>1 DEF TakenFrom
    <2>2. CASE j # i /\ cmCalls[i].kind = "vote"
      BY <2>2 DEF LikesInv, OnlyOne, AboutLikes
    <2>3. CASE j # i /\ cmCalls[i].kind # "vote"
      <3>1. \A b \in Published : Rating(liked, b) = Rating(cmServer.liked, b)
        BY <2>3 DEF Vote, Rating
      <3>2. calls[j] = cmCalls[j] /\ Wellformed(cmCalls[j])
        BY <2>3 DEF CommunityTypes, CallsOK
      <3>3. (cmCalls[j].kind = "vote" \/ cmCalls[j].kind = "ratings") =>
              cmCalls[j].of \subseteq Published
        BY <3>2 DEF Wellformed, Vote
      <3>4. QED  BY <3>1, <3>2, <3>3 DEF LikesInv, AnswersHold
    <2>4. QED  BY <2>1, <2>2, <2>3
  <1>8. RatingsHold(calls, liked, cmRatings, cmDoubt)
    <2> SUFFICES ASSUME NEW b \in Published \ cmDoubt, ~VotedOn(calls, b), cmRatings[b] # Unrated
                 PROVE  cmRatings[b] = Rating(liked, b)
      BY DEF RatingsHold
    <2>1. ~VotedOn(cmCalls, b)
      BY DEF VotedOn, Vote, TakenFrom
    <2>2. ~Vote(cmCalls[i], b)
      BY <2>1 DEF VotedOn
    <2>3. QED  BY <2>1, <2>2 DEF LikesInv, RatingsHold, Rating
  <1>9. QED  BY <1>5, <1>6, <1>7, <1>8

--------------------------------------------------------------------------------
(* What has nothing to do with the likes.                                  *)
LikesAreStill ==
  /\ cmServer' \in CommunityServers /\ cmPool' \in CommunityPools /\ cmThread' \in CommentThreads
  /\ Stands(cmCalls') /\ cmServer'.liked = cmServer.liked /\ UNCHANGED cmVotes

(* A step that is not about likes leaves them right.                        *)
LEMMA QuietKeeps ==
  ASSUME CommunityTypes, LikesInv, LikesAreStill
  PROVE  CommunityTypes' /\ LikesInv'
  BY StandsKeeps DEF CommunityTypes, LikesAreStill, cmVotes

(* The steps of the page that are not about likes.                          *)
LEMMA QuietSteps ==
  ASSUME CommunityTypes, LikesInv
  PROVE  /\ OpenDialog \/ CloseDialog \/ PickTag \/ Search \/ Unlist => LikesAreStill
         /\ ToggleComments \/ PostComment \/ DeleteComment => LikesAreStill
  <1>1. Stands(cmCalls)
    BY StandsNow
  <1>2. cmServer \in CommunityServers /\ cmPool \in CommunityPools /\ cmThread \in CommentThreads
    BY DEF CommunityTypes
  <1>3. NoPool \in CommunityPools /\ NoThread \in CommentThreads
    BY DEF NoPool, NoThread, CommunityPools, CommentThreads
  <1>4. \A s : Stands(s) => Stands(Redrawn(s))
                          /\ Stands(Orphaned(s, {"list", "comments", "post"}))
    BY StandsRelabelled
  <1>5. /\ Stands(Send(cmCalls, PageCall("list", {}, {})))
        /\ Stands(Send(cmCalls, PageCall("comments", {}, {})))
    BY <1>1, PageCallIsFresh, StandsSent
  <1>6. \A b : /\ Stands(Send(cmCalls, PageCall("unlist", {b}, {})))
               /\ Stands(Send(cmCalls, PageCall("delete", {b}, {})))
    BY <1>1, PageCallIsFresh, StandsSent
  <1>7. Stands(Send(cmCalls, PageCall("post", {}, cmThread.base)))
    <2>1. cmThread.base \in SUBSET Nat
      BY <1>2 DEF CommentThreads
    <2>2. QED  BY <1>1, <2>1, PageCallIsFresh, StandsSent
  <1>8. OpenDialog => LikesAreStill
    BY <1>2, <1>3, <1>5 DEF OpenDialog, LikesAreStill, cmVotes
  <1>9. CloseDialog => LikesAreStill
    BY <1>1, <1>2, <1>3, <1>4 DEF CloseDialog, LikesAreStill, cmVotes
  <1>10. PickTag => LikesAreStill
    <2>1. [cmPool EXCEPT !.failed = FALSE] \in CommunityPools
      BY <1>2 DEF CommunityPools
    <2>2. QED  BY <1>1, <1>2, <1>3, <1>4, <2>1 DEF PickTag, ApplyFilter, LikesAreStill,
                  cmVotes
  <1>11. Search => LikesAreStill
    <2>1. [cmPool EXCEPT !.failed = @ /\ ~cmPool.known] \in CommunityPools
      BY <1>2 DEF CommunityPools
    <2>2. QED  BY <1>1, <1>2, <1>3, <1>4, <2>1 DEF Search, ApplyFilter, LikesAreStill, cmVotes
  <1>12. Unlist => LikesAreStill
    BY <1>2, <1>6 DEF Unlist, LikesAreStill, cmVotes, cmList
  <1>13. ToggleComments => LikesAreStill
    <2>1. [NoThread EXCEPT !.at = "loading"] \in CommentThreads
          /\ [cmThread EXCEPT !.at = "closed"] \in CommentThreads
      BY <1>2, <1>3 DEF CommentThreads
    <2>2. QED  BY <1>1, <1>2, <1>5, <2>1 DEF ToggleComments, LikesAreStill, cmVotes, cmList
  <1>14. PostComment => LikesAreStill
    <2>1. [cmThread EXCEPT !.busy = TRUE] \in CommentThreads
      BY <1>2 DEF CommentThreads
    <2>2. QED  BY <1>2, <1>7, <2>1 DEF PostComment, LikesAreStill, cmVotes, cmList
  <1>15. DeleteComment => LikesAreStill
    BY <1>2, <1>6 DEF DeleteComment, LikesAreStill, cmVotes, cmList
  <1>16. QED
    BY <1>8, <1>9, <1>10, <1>11, <1>12, <1>13, <1>14, <1>15

(* An answer, or a failure, of a request that is not a vote.               *)
LEMMA QuietAnswers ==
  ASSUME CommunityTypes, LikesInv
  PROVE  /\ ListArrives \/ ListFails \/ UnlistArrives => LikesAreStill
         /\ CommentsArrive \/ PostArrives \/ DeleteArrives \/ OtherFails => LikesAreStill
  <1>1. ASSUME NEW i \in DOMAIN cmCalls, cmCalls[i].kind # "vote"
        PROVE  /\ Stands(RemoveAt(cmCalls, i)) /\ Stands(Redrawn(RemoveAt(cmCalls, i)))
               /\ Stands(NewForm(RemoveAt(cmCalls, i)))
    BY <1>1, StandsRest, StandsRelabelled
  <1>2. \A i \in DOMAIN cmCalls : Wellformed(cmCalls[i])
    BY DEF CommunityTypes, CallsOK
  <1>3. cmServer \in CommunityServers /\ cmPool \in CommunityPools /\ cmThread \in CommentThreads
    BY DEF CommunityTypes
  <1>4. NoPool \in CommunityPools /\ NoThread \in CommentThreads
    BY DEF NoPool, NoThread, CommunityPools, CommentThreads
  <1>5. /\ \A t \in BOOLEAN : [cmPool EXCEPT !.failed = t] \in CommunityPools
        /\ \A t \in BOOLEAN : [cmThread EXCEPT !.busy = t] \in CommentThreads
        /\ \A t : [cmThread EXCEPT !.seen = @ \ t] \in CommentThreads
        /\ [NoThread EXCEPT !.at = "error"] \in CommentThreads
    BY <1>3, <1>4 DEF CommunityPools, CommentThreads
  <1>6. ListArrives => LikesAreStill
    <2> SUFFICES ASSUME ListArrives PROVE LikesAreStill
      OBVIOUS
    <2>1. PICK i \in DOMAIN cmCalls : ListArrives!(i)
      BY DEF ListArrives
    <2> DEFINE rest == RemoveAt(cmCalls, i)
               got == cmCalls[i].got
               ratings == PageCall("ratings", got, {})
    <2>2. cmCalls[i].kind = "list" /\ got \subseteq Published
      BY <1>2, <2>1 DEF Wellformed, HasAnswer
    <2>3. Stands(rest) /\ Stands(Redrawn(rest))
      BY <1>1, <2>2
    <2>4. Stands(Send(rest, ratings)) /\ Stands(Send(Redrawn(rest), ratings))
      <3>1. Fresh(ratings) /\ ratings.kind = "ratings"
        BY <2>2, PageCallIsFresh
      <3>2. QED  BY <2>3, <3>1, StandsSent
    <2>5. [known |-> TRUE, builds |-> got, failed |-> FALSE] \in CommunityPools
      BY <2>2 DEF CommunityPools
    <2> HIDE DEF rest, ratings, got
    <2>6. cmPool' \in CommunityPools
      BY <1>3, <1>5, <2>1, <2>5 DEF got, CommunityPools
    <2>7. Stands(cmCalls')
      BY <2>1, <2>3, <2>4 DEF got, rest, ratings
    <2>8. cmThread' \in CommentThreads
      BY <1>3, <1>4, <2>1 DEF ApplyFilter
    <2>9. UNCHANGED <<cmServer, cmVotes>>
      BY <2>1
    <2>10. QED  BY <1>3, <2>6, <2>7, <2>8, <2>9 DEF LikesAreStill
  <1>7. ListFails => LikesAreStill
    <2>1. cmPool.failed \in BOOLEAN
      BY <1>3 DEF CommunityPools
    <2>2. \A i \in DOMAIN cmCalls : cmCalls[i].live \in BOOLEAN => 
             [cmPool EXCEPT !.failed = @ \/ cmCalls[i].live] \in CommunityPools
      BY <1>3 DEF CommunityPools
    <2>3. QED  BY <1>1, <1>3, <1>4, <1>5, <2>1, <2>2 DEF ListFails, LikesAreStill, cmVotes
  <1>8. UnlistArrives => LikesAreStill
    <2>1. Fresh(PageCall("list", {}, {})) /\ PageCall("list", {}, {}).kind = "list"
      BY PageCallIsFresh
    <2>2. \A i \in DOMAIN cmCalls : cmCalls[i].kind # "vote" =>
             Stands(Send(RemoveAt(cmCalls, i), PageCall("list", {}, {})))
      BY <1>1, <2>1, StandsSent
    <2>3. QED
      BY <1>1, <1>3, <2>2 DEF UnlistArrives, HasAnswer, LikesAreStill, cmVotes, cmList
  <1>9. ASSUME NEW i \in DOMAIN cmCalls, cmCalls[i].kind # "vote", NEW all \in SUBSET Nat,
               Comments(i, all)
        PROVE  Stands(cmCalls') /\ cmThread' \in CommentThreads
    <2>1. Stands(cmCalls')
      BY <1>1, <1>9 DEF Comments
    <2>2. cmThread' \in CommentThreads
      <3>1. \A at \in {"closed", "shown"} :
               [at |-> at, seen |-> all, base |-> all, busy |-> FALSE] \in CommentThreads
        BY DEF CommentThreads
      <3>2. QED  BY <1>3, <1>9, <3>1 DEF Comments
    <2>3. QED  BY <2>1, <2>2
  <1>10. CommentsArrive => LikesAreStill
    BY <1>2, <1>3, <1>9 DEF CommentsArrive, HasAnswer, Wellformed, LikesAreStill, cmVotes,
       cmList
  <1>11. PostArrives => LikesAreStill
    BY <1>2, <1>3, <1>9 DEF PostArrives, HasAnswer, Wellformed, LikesAreStill, cmVotes, cmList
  <1>12. DeleteArrives => LikesAreStill
    BY <1>1, <1>3, <1>5 DEF DeleteArrives, HasAnswer, LikesAreStill, cmVotes, cmList
  <1>13. OtherFails => LikesAreStill
    BY <1>1, <1>3, <1>4, <1>5 DEF OtherFails, LikesAreStill, cmVotes, cmList
  <1>14. QED  BY <1>6, <1>7, <1>8, <1>10, <1>11, <1>12, <1>13

--------------------------------------------------------------------------------
(* The likes themselves.                                                   *)
LEMMA LikeStep ==
  ASSUME CommunityTypes, LikesInv, Like, cmCards \subseteq Published
  PROVE  CommunityTypes' /\ LikesInv'
  <1>1. PICK b \in cmCards :
          /\ cmCalls' = Send(cmCalls, PageCall("vote", {b}, RatingSeen(b)))
          /\ cmRatings' = [cmRatings EXCEPT ![b] =
               IF RatingSeen(b).mine
               THEN [likes |-> IF RatingSeen(b).likes = 0 THEN 0 ELSE RatingSeen(b).likes - 1,
                     mine |-> FALSE]
               ELSE [likes |-> RatingSeen(b).likes + 1, mine |-> TRUE]]
          /\ cmDoubt' = IF cmRatings[b] = Unrated THEN cmDoubt \union {b} ELSE cmDoubt
    BY DEF Like
  <1>2. UNCHANGED <<cmServer, cmPool, cmThread>>
    BY DEF Like, cmList
  <1>3. b \in Published /\ RatingSeen(b) \in LikeRatings
    BY DEF CommunityTypes, RatingSeen, LikeRatings
  <1> DEFINE c == PageCall("vote", {b}, RatingSeen(b))
  <1>4. /\ Fresh(c) /\ c.kind = "vote" /\ c.of = {b} /\ c.before = RatingSeen(b)
        /\ Vote(c, b)
    BY <1>3, PageCallIsFresh DEF Vote
  <1> HIDE DEF c
  <1>5. CommunityTypes'
    <2>1. CallsOK(cmCalls')
      BY <1>1, <1>4, SentCalls DEF CommunityTypes, c
    <2>2. cmRatings' = [d \in Published |-> cmRatings'[d]]
      BY <1>1, <1>3 DEF CommunityTypes
    <2>3. cmRatings'[b] \in LikeRatings /\ \A d \in Published \ {b} : cmRatings'[d] = cmRatings[d]
      BY <1>1, <1>3 DEF CommunityTypes, LikeRatings
    <2>4. QED  BY <1>2, <2>1, <2>2, <2>3 DEF CommunityTypes
  <1>6. OnlyOne(cmCalls') /\ AnswersHold(cmCalls', cmServer.liked, cmDoubt')
        /\ \A d : VotedOn(cmCalls, d) \/ Vote(c, d) => VotedOn(cmCalls', d)
    <2>1. CallsOK(cmCalls) /\ OnlyOne(cmCalls) /\ AnswersHold(cmCalls, cmServer.liked, cmDoubt')
      BY <1>1 DEF CommunityTypes, LikesInv, AnswersHold
    <2>2. (~\E i \in DOMAIN cmCalls : AboutLikes(cmCalls[i])) /\ b \notin cmDoubt' =>
            RatingSeen(b) = Rating(cmServer.liked, b)
      BY <1>1, <1>3 DEF LikesInv, RatingsHold, VotedOn, Vote, AboutLikes, RatingSeen
    <2>3. c.kind = "vote" /\ (~\E i \in DOMAIN cmCalls : AboutLikes(cmCalls[i])) =>
            \A d \in c.of : d \notin cmDoubt' => c.before = Rating(cmServer.liked, d)
      BY <1>4, <2>2
    <2>4. cmCalls' = Send(cmCalls, c)
      BY <1>1 DEF c
    <2>5. QED  BY <1>4, <2>1, <2>3, <2>4, SentHolds
  <1>7. RatingsHold(cmCalls', cmServer.liked, cmRatings', cmDoubt')
    <2> SUFFICES ASSUME NEW d \in Published \ cmDoubt', ~VotedOn(cmCalls', d),
                        cmRatings'[d] # Unrated
                 PROVE  cmRatings'[d] = Rating(cmServer.liked, d)
      BY DEF RatingsHold
    <2>1. d # b /\ ~VotedOn(cmCalls, d)
      BY <1>4, <1>6
    <2>2. cmRatings'[d] = cmRatings[d] /\ d \notin cmDoubt
      BY <1>1, <1>3, <2>1 DEF CommunityTypes
    <2>3. QED  BY <2>1, <2>2 DEF LikesInv, RatingsHold
  <1>8. QED  BY <1>2, <1>5, <1>6, <1>7 DEF LikesInv

(* A request about likes is over.                                          *)
LEMMA OverStep ==
  ASSUME CommunityTypes, LikesInv, NEW i \in DOMAIN cmCalls, AboutLikes(cmCalls[i]),
         cmCalls' = RemoveAt(cmCalls, i), UNCHANGED <<cmServer, cmPool, cmThread>>,
         cmRatings' = [b \in Published |-> cmRatings'[b]],
         \A b \in Published : cmRatings'[b] # Unrated => cmRatings'[b] \in LikeRatings,
         \A b \in Published \ cmDoubt' :
           \/ cmRatings'[b] = Rating(cmServer.liked, b)
           \/ b \notin cmDoubt /\ ~Vote(cmCalls[i], b) /\ cmRatings'[b] = cmRatings[b]
  PROVE  CommunityTypes' /\ LikesInv'
  <1>1. /\ CallsOK(cmCalls') /\ OnlyOne(cmCalls')
        /\ \A b : VotedOn(cmCalls, b) /\ ~Vote(cmCalls[i], b) => VotedOn(cmCalls', b)
    BY RestHolds DEF CommunityTypes, LikesInv
  <1>2. AnswersHold(cmCalls', cmServer.liked, cmDoubt')
    BY RestIsCrossed DEF CommunityTypes, LikesInv
  <1>3. RatingsHold(cmCalls', cmServer.liked, cmRatings', cmDoubt')
    BY <1>1 DEF LikesInv, RatingsHold
  <1>4. QED  BY <1>1, <1>2, <1>3 DEF CommunityTypes, LikesInv

(* Answers and failures of requests about likes.                            *)
LEMMA OverSteps ==
  ASSUME CommunityTypes, LikesInv, RatingsArrive \/ VoteArrives \/ VoteFails
  PROVE  CommunityTypes' /\ LikesInv'
  <1>1. \A i \in DOMAIN cmCalls : IsCall(cmCalls[i]) /\ Wellformed(cmCalls[i])
    BY DEF CommunityTypes, CallsOK
  <1>2. CASE RatingsArrive
    <2>1. PICK i \in DOMAIN cmCalls :
            LET c == cmCalls[i] IN
            /\ c.kind = "ratings" /\ c.taken /\ cmCalls' = RemoveAt(cmCalls, i)
            /\ cmRatings' = [b \in Published |-> IF b \in c.of THEN c.got[b] ELSE cmRatings[b]]
            /\ cmDoubt' = IF c.alone THEN cmDoubt \ c.of ELSE cmDoubt \union c.of
      BY <1>2 DEF RatingsArrive, HasAnswer
    <2>2. UNCHANGED <<cmServer, cmPool, cmThread>>
      BY <1>2 DEF RatingsArrive, cmList
    <2> DEFINE c == cmCalls[i]
    <2>3. c.of \subseteq Published /\ \A b \in c.of : c.got[b] \in LikeRatings
      BY <1>1, <2>1 DEF Wellformed
    <2>4. \A b \in Published \ cmDoubt' :
             \/ cmRatings'[b] = Rating(cmServer.liked, b)
             \/ b \notin cmDoubt /\ ~Vote(c, b) /\ cmRatings'[b] = cmRatings[b]
      <3> TAKE b \in Published \ cmDoubt'
      <3>1. CASE b \in c.of
        <4>1. c.alone
          BY <2>1, <3>1
        <4>2. c.got[b] = Rating(cmServer.liked, b)
          BY <2>1, <3>1, <4>1 DEF LikesInv, AnswersHold
        <4>3. QED  BY <2>1, <3>1, <4>2
      <3>2. CASE b \notin c.of
        BY <2>1, <3>2 DEF Vote
      <3>3. QED  BY <3>1, <3>2
    <2>5. \A b \in Published : cmRatings'[b] # Unrated => cmRatings'[b] \in LikeRatings
      BY <2>1, <2>3 DEF CommunityTypes
    <2>6. cmRatings' = [b \in Published |-> cmRatings'[b]]
      BY <2>1
    <2>7. AboutLikes(c)
      BY <2>1 DEF AboutLikes
    <2>8. QED  BY <2>1, <2>2, <2>4, <2>5, <2>6, <2>7, OverStep
  <1>3. CASE VoteArrives \/ VoteFails
    <2>1. PICK i \in DOMAIN cmCalls :
            LET c == cmCalls[i] IN
            /\ c.kind = "vote" /\ cmCalls' = RemoveAt(cmCalls, i)
            /\ \/ /\ c.taken /\ cmRatings' = [cmRatings EXCEPT ![Only(c.of)] = c.got]
                  /\ cmDoubt' = IF c.alone THEN cmDoubt \ c.of ELSE cmDoubt \union c.of
               \/ /\ cmRatings' = [cmRatings EXCEPT ![Only(c.of)] = c.before]
                  /\ cmDoubt' = IF c.taken \/ ~c.alone THEN cmDoubt \union c.of ELSE cmDoubt
      BY <1>3 DEF VoteArrives, VoteFails, HasAnswer
    <2>2. UNCHANGED <<cmServer, cmPool, cmThread>>
      BY <1>3 DEF VoteArrives, VoteFails, cmList
    <2> DEFINE c == cmCalls[i]
    <2>3. c.before \in LikeRatings /\ (c.taken => c.got \in LikeRatings)
      BY <1>1, <2>1 DEF Wellformed
    <2>4. PICK b \in Published : c.of = {b}
      BY <1>1, <2>1 DEF Wellformed, Vote
    <2>5. Only(c.of) = b
      BY <2>4, OnlyOf
    <2>6. /\ cmRatings' = [d \in Published |-> cmRatings'[d]]
          /\ \A d \in Published \ {b} : cmRatings'[d] = cmRatings[d]
      BY <2>1, <2>5 DEF CommunityTypes
    <2>7. \A d \in Published : cmRatings'[d] # Unrated => cmRatings'[d] \in LikeRatings
      BY <2>1, <2>3, <2>5, <2>6 DEF CommunityTypes
    <2>8. b \notin cmDoubt' => cmRatings'[b] = Rating(cmServer.liked, b)
      <3> SUFFICES ASSUME b \notin cmDoubt' PROVE cmRatings'[b] = Rating(cmServer.liked, b)
        OBVIOUS
      <3>1. c.alone
        BY <2>1, <2>4
      <3>2. /\ c.taken => c.got = Rating(cmServer.liked, b)
            /\ ~c.taken /\ b \notin cmDoubt => c.before = Rating(cmServer.liked, b)
        BY <2>1, <2>4, <3>1 DEF LikesInv, AnswersHold
      <3>3. \/ c.taken /\ cmRatings'[b] = c.got
            \/ ~c.taken /\ b \notin cmDoubt /\ cmRatings'[b] = c.before
        BY <2>1, <2>4, <2>5 DEF CommunityTypes
      <3>4. QED  BY <3>2, <3>3
    <2>9. \A d \in Published \ cmDoubt' :
             \/ cmRatings'[d] = Rating(cmServer.liked, d)
             \/ d \notin cmDoubt /\ ~Vote(c, d) /\ cmRatings'[d] = cmRatings[d]
      BY <2>1, <2>4, <2>6, <2>8 DEF Vote
    <2>10. AboutLikes(c)
      BY <2>1 DEF AboutLikes
    <2>11. QED  BY <2>1, <2>2, <2>6, <2>7, <2>9, <2>10, OverStep
  <1>4. QED  BY <1>2, <1>3

(* The server's steps.                                                     *)
LEMMA TakenStep ==
  ASSUME CommunityTypes, LikesInv, NEW i \in DOMAIN cmCalls, NEW server \in CommunityServers,
         NEW got,
         TakenFor(i, server, got),
         LET c == cmCalls[i] IN
         /\ c.kind = "list" => got \subseteq Published
         /\ c.kind = "ratings" => got = [b \in c.of |-> Rating(server.liked, b)]
         /\ c.kind = "vote" => got = Rating(server.liked, Only(c.of))
         /\ c.kind \in {"comments", "post"} => got \in SUBSET Nat
         /\ \A b \in Published : ~Vote(c, b) => (b \in server.liked <=> b \in cmServer.liked)
  PROVE  CommunityTypes' /\ LikesInv'
  <1> DEFINE c == cmCalls[i]
  <1>1. /\ cmCalls' \in Seq(ToSet(cmCalls')) /\ DOMAIN cmCalls' = DOMAIN cmCalls
        /\ TakenFrom(cmCalls'[i], c, got)
        /\ \A j \in DOMAIN cmCalls \ {i} : cmCalls'[j] = cmCalls[j]
    BY TakenCalls DEF TakenFor
  <1>2. IsCall(c) /\ Wellformed(c)
    BY DEF CommunityTypes, CallsOK
  <1>3. OthersLike \in Nat
    BY CommunityConstants
  <1>4. \A b : Rating(server.liked, b) \in LikeRatings
    BY <1>3 DEF Rating, LikeRatings
  <1>5. /\ c.kind = "vote" => \A b \in c.of : got = Rating(server.liked, b)
        /\ c.kind = "ratings" => \A b \in c.of : got[b] = Rating(server.liked, b)
    BY <1>2, OnlyOf DEF Wellformed, Vote
  <1>6. Wellformed(cmCalls'[i])
    <2>1. c.kind = "vote" => got \in LikeRatings
      BY <1>4
    <2>2. c.kind = "ratings" => got \in [c.of -> LikeRatings]
      BY <1>4
    <2>3. QED  BY <1>1, <1>2, <2>1, <2>2 DEF Wellformed, TakenFrom, Vote
  <1>7. server.liked \in SUBSET Published
    BY DEF CommunityServers
  <1>8. /\ CallsOK(cmCalls') /\ OnlyOne(cmCalls') /\ AnswersHold(cmCalls', server.liked, cmDoubt)
        /\ RatingsHold(cmCalls', server.liked, cmRatings, cmDoubt)
    BY <1>1, <1>5, <1>6, <1>7, TakenKeeps
  <1>9. cmServer' = server /\ UNCHANGED <<cmPool, cmThread, cmRatings, cmDoubt>>
    BY DEF TakenFor, cmList, cmVotes
  <1>10. QED  BY <1>8, <1>9 DEF CommunityTypes, LikesInv

(* The server takes a request.                                              *)
LEMMA ServerStep ==
  ASSUME CommunityTypes, LikesInv, ServerTakes
  PROVE  CommunityTypes' /\ LikesInv'
  <1>1. PICK i \in DOMAIN cmCalls : LET c == cmCalls[i]  n == cmServer.written + 1 IN
          \/ c.kind = "list" /\ TakenFor(i, cmServer, cmServer.listed)
          \/ c.kind = "ratings" /\ TakenFor(i, cmServer, [b \in c.of |-> Rating(cmServer.liked, b)])
          \/ c.kind = "comments" /\ TakenFor(i, cmServer, cmServer.comments)
          \/ c.kind = "unlist" /\ TakenFor(i, [cmServer EXCEPT !.listed = @ \ c.of], {})
          \/ /\ c.kind = "vote"
             /\ TakenFor(i, [cmServer EXCEPT !.liked = Liked(c)], Rating(Liked(c), Only(c.of)))
          \/ c.kind = "delete" /\ TakenFor(i, [cmServer EXCEPT !.comments = @ \ c.of], {})
          \/ /\ c.kind = "post"
             /\ TakenFor(i, [cmServer EXCEPT !.comments = @ \union {n}, !.written = n], {n})
    BY DEF ServerTakes
  <1> DEFINE c == cmCalls[i]  n == cmServer.written + 1
  <1>2. /\ cmServer \in CommunityServers /\ cmServer.listed \subseteq Published /\ n \in Nat
        /\ cmServer.comments \in SUBSET Nat /\ cmServer.liked \subseteq Published
    BY DEF CommunityTypes, CommunityServers
  <1>3. CASE c.kind \in {"list", "ratings", "comments"}
    BY <1>1, <1>2, <1>3, TakenStep
  <1>4. CASE c.kind \in {"unlist", "delete", "post"}
    <2> DEFINE listed == [cmServer EXCEPT !.listed = @ \ c.of]
               fewer  == [cmServer EXCEPT !.comments = @ \ c.of]
               more   == [cmServer EXCEPT !.comments = @ \union {n}, !.written = n]
    <2>1. listed \in CommunityServers /\ fewer \in CommunityServers /\ more \in CommunityServers
      BY <1>2 DEF CommunityServers
    <2>2. /\ listed.liked = cmServer.liked /\ fewer.liked = cmServer.liked
          /\ more.liked = cmServer.liked
      BY <1>2 DEF CommunityServers
    <2>3. TakenFor(i, listed, {}) \/ TakenFor(i, fewer, {}) \/ (TakenFor(i, more, {n}))
      BY <1>1, <1>4
    <2> HIDE DEF listed, fewer, more
    <2>4. QED  BY <1>2, <1>4, <2>1, <2>2, <2>3, TakenStep
  <1>5. CASE c.kind = "vote"
    <2> DEFINE server == [cmServer EXCEPT !.liked = Liked(c)]
    <2>1. PICK b \in Published : c.of = {b}
      BY <1>5 DEF CommunityTypes, CallsOK, Wellformed, Vote
    <2>2. Liked(c) \subseteq Published
          /\ \A d \in Published : ~Vote(c, d) => (d \in Liked(c) <=> d \in cmServer.liked)
      BY <1>2, <1>5, <2>1 DEF Liked, Vote
    <2>3. server \in CommunityServers /\ server.liked = Liked(c)
      BY <1>2, <2>2 DEF CommunityServers
    <2>4. TakenFor(i, server, Rating(server.liked, Only(c.of)))
      BY <1>1, <1>5, <2>3
    <2> HIDE DEF server
    <2>5. QED  BY <1>5, <2>2, <2>3, <2>4, TakenStep
  <1>6. QED  BY <1>1, <1>3, <1>4, <1>5

--------------------------------------------------------------------------------
(* The cards.                                                              *)
LEMMA CardsStep ==
  ASSUME CardsInv, CommunityNext
  PROVE  CardsInv'
  <1>1. ASSUME NEW picked, ApplyFilter(picked), cmPool'.known PROVE CardsInv'
    BY <1>1 DEF ApplyFilter, CardsInv, CardsPass
  <1>2. ASSUME UNCHANGED cmList PROVE CardsInv'
    BY <1>2 DEF CardsInv, CardsPass, cmList
  <1>3. ASSUME UNCHANGED <<cmTags, cmSearch, cmRow, cmCards>>,
               UNCHANGED <<cmPool.known, cmPool.builds>>
        PROVE  CardsInv'
    BY <1>3 DEF CardsInv, CardsPass
  <1>4. CASE OpenDialog \/ CloseDialog
    BY <1>4 DEF OpenDialog, CloseDialog, CardsInv, CardsPass
  <1>5. CASE PickTag
    BY <1>5, <1>1 DEF PickTag
  <1>5a. CASE Search
    BY <1>5a, <1>1 DEF Search, CardsInv, CardsPass
  <1>6. CASE Like \/ Unlist \/ ToggleComments \/ PostComment \/ DeleteComment
    BY <1>6, <1>2 DEF Like, Unlist, ToggleComments, PostComment, DeleteComment
  <1>7. CASE ServerTakes
    BY <1>7, <1>2 DEF ServerTakes, TakenFor
  <1>8. CASE ListArrives
    BY <1>8, <1>1 DEF ListArrives, CardsInv, CardsPass
  <1>9. CASE ListFails
    BY <1>9 DEF ListFails, CardsInv, CardsPass
  <1>10. CASE RatingsArrive \/ VoteArrives \/ VoteFails \/ UnlistArrives
    BY <1>10, <1>2 DEF RatingsArrive, VoteArrives, VoteFails, UnlistArrives
  <1>11. CASE CommentsArrive \/ PostArrives \/ DeleteArrives \/ OtherFails
    BY <1>11, <1>2 DEF CommentsArrive, PostArrives, DeleteArrives, OtherFails
  <1>12. QED
    BY <1>4, <1>5, <1>5a, <1>6, <1>7, <1>8, <1>9, <1>10, <1>11 DEF CommunityNext

--------------------------------------------------------------------------------
(* The dialog always shows what it must.                                   *)
LEMMA CommunityStarts == CommunityInit => CommunityInv
  <1> SUFFICES ASSUME CommunityInit PROVE CommunityInv
    OBVIOUS
  <1> USE DEF CommunityInit
  <1>1. CommunityTypes
    BY DEF CommunityTypes, CommunityServers, CommunityPools, CommentThreads, NoPool, NoThread,
       CallsOK, ToSet
  <1>2. LikesInv
    BY DEF LikesInv, OnlyOne, AnswersHold, RatingsHold
  <1>3. CardsInv
    BY DEF CardsInv, CardsPass
  <1>4. QED  BY <1>1, <1>2, <1>3 DEF CommunityInv

(* What a step of the page of community builds preserves.                   *)
LEMMA CommunitySteps == CommunityInv /\ [CommunityNext]_cmVars => CommunityInv'
  <1> SUFFICES ASSUME CommunityInv, [CommunityNext]_cmVars PROVE CommunityInv'
    OBVIOUS
  <1> USE DEF CommunityInv
  <1>1. CASE UNCHANGED cmVars
    BY <1>1 DEF cmVars, CommunityTypes, LikesInv, CardsInv, CardsPass
  <1>2. CASE CommunityNext
    <2>1. CardsInv'
      BY <1>2, CardsStep
    <2>2. cmCards \subseteq Published
      BY DEF CommunityTypes, CardsInv, CardsPass, CommunityPools
    <2>3. CommunityTypes' /\ LikesInv'
      BY <1>2, <2>2, QuietSteps, QuietAnswers, QuietKeeps, LikeStep, OverSteps, ServerStep DEF
         CommunityNext
    <2>4. QED  BY <2>1, <2>3
  <1>3. QED  BY <1>1, <1>2

(* What the invariant says of the page.                                     *)
LEMMA CommunityHolds == CommunityInv => CommunityIsRight
  BY DEF CommunityInv, CommunityIsRight, LikesInv, CardsInv, LikesAgree, RatingsHold, VotedOn,
     Vote, AboutLikes

(* A rating that is shown is the server's, unless a vote about the build is *)
(* on its way or crossed another request, and the cards are builds of the   *)
(* list that pass the search and the lit tags (community-builds.js).        *)
THEOREM CommunityStaysRight == CommunitySpec => []CommunityIsRight
  BY CommunityStarts, CommunitySteps, CommunityHolds, PTL DEF CommunitySpec

--------------------------------------------------------------------------------
(* AtlasLookup.                                                             *)

(* The board is of the last profile; a popover that is on the page is not  *)
(* one that a timer will remove.                                           *)
LookupInv ==
  /\ LookupTypeOK /\ OpenWeaponIsShown /\ LookupsEnd
  /\ luBoard[1] = luLast
  /\ luPop \notin luTimers /\ Cardinality(luTimers) <= MaxTimers

(* There is an element for the next popover.                                *)
LEMMA FreeElement ==
  ASSUME NEW timers, timers \subseteq Elements, Cardinality(timers) <= MaxTimers,
         NEW pop \in Elements \union {0}, pop \notin timers
  PROVE  PopFor(pop, timers) \in Elements \ timers
  <1>1. MaxTimers \in Nat
    BY LookupConstants
  <1>2. IsFiniteSet(Elements) /\ Cardinality(Elements) = MaxTimers + 1
    BY <1>1, FS_Interval DEF Elements
  <1>3. timers # Elements
    BY <1>1, <1>2
  <1>4. \E e \in Elements : e \notin timers
    BY <1>3
  <1>5. QED  BY <1>4 DEF PopFor

(* A timer that ends, and one that starts.                                  *)
LEMMA FewTimers ==
  ASSUME LookupTypeOK, Cardinality(luTimers) <= MaxTimers, NEW e
  PROVE  /\ Cardinality(luTimers \ {e}) <= MaxTimers
         /\ Cardinality(luTimers) < MaxTimers => Cardinality(luTimers \union {e}) <= MaxTimers
  <1>1. MaxTimers \in Nat
    BY LookupConstants
  <1>2. IsFiniteSet(luTimers)
    <2>1. IsFiniteSet(Elements) /\ luTimers \in SUBSET Elements
      <3>1. 1 \in Int /\ MaxTimers + 1 \in Int
        BY <1>1
      <3>2. IsFiniteSet(Elements)
        BY <3>1, FS_Interval DEF Elements
      <3>3. QED  BY <3>2 DEF LookupTypeOK
    <2>2. QED  BY <2>1, FS_Subset
  <1>3. Cardinality(luTimers) \in Nat
    BY <1>2, FS_CardinalityType
  <1>4. Cardinality(luTimers \ {e}) \in {Cardinality(luTimers), Cardinality(luTimers) - 1}
    BY <1>2, FS_RemoveElement
  <1>5. Cardinality(luTimers \union {e}) \in {Cardinality(luTimers), Cardinality(luTimers) + 1}
    BY <1>2, FS_AddElement
  <1>6. QED  BY <1>1, <1>3, <1>4, <1>5

(* renderBoard for the profile that is the last one.                       *)
LEMMA BoardIsRight ==
  ASSUME LookupInv, NEW p \in Players \union {NoPlayer}, NEW w \in BoardSlots \union {NoWeapon},
         NEW timers, timers \subseteq Elements, NEW pop \in Elements \union {0}, pop \notin timers,
         Cardinality(timers) <= MaxTimers,
         RenderBoard(p, w, pop, timers), luLast' = p, luTimers' = timers
  PROVE  /\ OpenWeaponIsShown' /\ luBoard'[1] = luLast' /\ luPop' \notin luTimers'
         /\ luOpen' \in BoardSlots \union {NoWeapon} /\ luPop' \in Elements \union {0}
         /\ luBoard' \in (Players \union {NoPlayer}) \X (BoardSlots \union {NoWeapon})
         /\ luPopOf' \in (Players \union {NoPlayer}) \X (BoardSlots \union {NoWeapon})
         /\ luGrid' \in {"none", "waiting", "drawn", "failed"}
  <1>1. PopFor(pop, timers) \in Elements \ timers
    BY FreeElement
  <1>2. PopFor(pop, timers) # 0 /\ 0 \notin timers
    BY <1>1, LookupConstants DEF Elements
  <1>3. CASE Openable(p, w)
    <2>1. /\ luOpen' = w /\ luBoard' = <<p, w>> /\ luPopOf' = <<p, w>> /\ luGrid' = "waiting"
          /\ luPop' = PopFor(pop, timers)
      BY <1>3 DEF RenderBoard
    <2>2. w # NoWeapon
      BY <1>3 DEF Openable
    <2>3. QED  BY <1>1, <1>2, <2>1, <2>2 DEF OpenWeaponIsShown
  <1>4. CASE ~Openable(p, w)
    <2>1. /\ luOpen' = NoWeapon /\ luBoard' = <<p, w>> /\ luPopOf' = <<NoPlayer, NoWeapon>>
          /\ luGrid' = "none" /\ luPop' = 0
      BY <1>4 DEF RenderBoard, Undrawn
    <2>2. QED  BY <1>2, <2>1 DEF OpenWeaponIsShown
  <1>5. QED  BY <1>3, <1>4

--------------------------------------------------------------------------------
(* A step that leaves the weapon alone.                                    *)
WeaponStays ==
  UNCHANGED <<luOpen, luBoard, luPop, luPopOf, luGrid, luTimers, luLast>>

BoardParts ==
  /\ OpenWeaponIsShown /\ luBoard[1] = luLast
  /\ luPop \notin luTimers /\ Cardinality(luTimers) <= MaxTimers
  /\ luLast \in Players \union {NoPlayer}
  /\ luOpen \in BoardSlots \union {NoWeapon} /\ luPop \in Elements \union {0}
  /\ luBoard \in (Players \union {NoPlayer}) \X (BoardSlots \union {NoWeapon})
  /\ luPopOf \in (Players \union {NoPlayer}) \X (BoardSlots \union {NoWeapon})
  /\ luGrid \in {"none", "waiting", "drawn", "failed"} /\ luTimers \subseteq Elements

PageParts ==
  /\ LookupsEnd
  /\ luBox \in Players \union Nicknames \union {""}
  /\ luHistory \in Seq(Players) /\ luAt \in 0 .. Len(luHistory)
  /\ luOut \subseteq [n : 1 .. MaxLookups, of : Players \union Nicknames]
  /\ luGo \in BOOLEAN /\ luResult \in BOOLEAN /\ luKey \in BOOLEAN
  /\ luChoices \subseteq Players /\ luStatus \in Statuses
  /\ luSort \in [col : Columns \union {0}, dir : {1, 2}]

(* The invariant, in what is about the open weapon and what is about the    *)
(* page around it.                                                          *)
LEMMA LookupInvParts == LookupInv <=> BoardParts /\ PageParts
  BY DEF LookupInv, LookupTypeOK, BoardParts, PageParts

(* A step that leaves the weapon alone.                                     *)
LEMMA WeaponKeeps == ASSUME BoardParts, WeaponStays PROVE BoardParts'
  BY DEF BoardParts, WeaponStays, OpenWeaponIsShown

(* A lookup begins, or ends at once.                                        *)
LEMMA LookupAskKeeps ==
  ASSUME PageParts, NEW q \in Players \union Nicknames \union {""}, FreeLookups # {},
         Lookup(q) \/ (q \in Players \union Nicknames /\ Ask(q, luOut)),
         luBox' \in Players \union Nicknames \union {""}, luSort' = luSort,
         luHistory' \in Seq(Players), luAt' \in 0 .. Len(luHistory')
  PROVE  PageParts' /\ UNCHANGED <<luKey, luLast, luWeapon>>
  <1>1. CASE Lookup(q) /\ q = ""
    BY <1>1 DEF Lookup, PageParts, LookupsEnd, Statuses
  <1>2. CASE q \in Players \union Nicknames /\ Ask(q, luOut)
    <2>1. Ask(q, luOut)
      BY <1>2
    <2>2. PICK n \in 1 .. MaxLookups : \A l \in luOut : l.n # n
      BY DEF FreeLookups
    <2> DEFINE m == CHOOSE k \in 1 .. MaxLookups : \A l \in luOut : l.n # k
    <2>3. m \in 1 .. MaxLookups
      BY <2>2
    <2>4. luOut' = luOut \union {[n |-> m, of |-> q]}
      BY <2>1 DEF Ask
    <2> HIDE DEF m
    <2>5. luOut' \subseteq [n : 1 .. MaxLookups, of : Players \union Nicknames] /\ luOut' # {}
      <3>1. [n |-> m, of |-> q] \in [n : 1 .. MaxLookups, of : Players \union Nicknames]
        BY <1>2, <2>3
      <3>2. QED  BY <2>4, <3>1 DEF PageParts
    <2>6. QED  BY <2>1, <2>5 DEF Ask, PageParts, LookupsEnd, Statuses
  <1>3. QED  BY <1>1, <1>2 DEF Lookup

(* The page is empty at first.                                              *)
LEMMA LookupStarts == LookupInit => LookupInv
  <1>1. Cardinality({}) = 0 /\ MaxTimers \in Nat
    BY FS_EmptySet, LookupConstants
  <1> SUFFICES ASSUME LookupInit PROVE BoardParts /\ PageParts
    BY LookupInvParts
  <1>2. BoardParts
    <2>1. /\ luLast = NoPlayer /\ luBoard = <<NoPlayer, NoWeapon>>
          /\ luOpen = NoWeapon /\ luPop = 0
          /\ luPopOf = <<NoPlayer, NoWeapon>> /\ luTimers = {} /\ luGrid = "none"
      BY DEF LookupInit, Undrawn
    <2>2. QED  BY <1>1, <2>1 DEF BoardParts, OpenWeaponIsShown
  <1>3. PageParts
    <2>1. luHistory = <<>> /\ luAt = 0 /\ luSort = [col |-> 0, dir |-> 1] /\ luStatus \in Statuses
      BY DEF LookupInit, Unsorted, Statuses
    <2>2. luHistory \in Seq(Players) /\ luAt \in 0 .. Len(luHistory)
      BY <2>1
    <2>3. luSort \in [col : Columns \union {0}, dir : {1, 2}]
      BY <2>1
    <2>4. QED  BY <2>1, <2>2, <2>3 DEF LookupInit, PageParts, LookupsEnd
  <1>4. QED  BY <1>2, <1>3

(* What a step of the lookups preserves, action by action.                  *)
LEMMA LookupSteps == LookupInv /\ [LookupNext]_luVars => LookupInv'
  <1> SUFFICES ASSUME BoardParts, PageParts, LookupInv, [LookupNext]_luVars
               PROVE  BoardParts' /\ PageParts'
    BY DEF LookupInv, LookupTypeOK, BoardParts, PageParts
  <1>1. ASSUME NEW w \in BoardSlots, ToggleWeapon(w) PROVE BoardParts' /\ PageParts'
    <2> DEFINE p == luBoard[1]  v == IF luBoard[2] = w THEN NoWeapon ELSE w
    <2>1. p = luLast /\ p \in Players \union {NoPlayer} /\ v \in BoardSlots \union {NoWeapon}
      BY DEF BoardParts
    <2>2. RenderBoard(p, v, luPop, luTimers)
          /\ UNCHANGED <<luWay, luOut, luGo, luLast, luPage, luTimers, luSort>>
      BY <1>1 DEF ToggleWeapon
    <2> HIDE DEF p, v
    <2>3. BoardParts'
      BY <2>1, <2>2, BoardIsRight DEF BoardParts
    <2>4. QED  BY <2>2, <2>3 DEF PageParts, LookupsEnd, luWay, luPage
  <1>2. CASE CloseWeaponPopover /\ Cardinality(luTimers) < MaxTimers
    <2> DEFINE timers == luTimers \union {luPop}
    <2>1. luTimers' = timers /\ timers \subseteq Elements /\ Cardinality(timers) <= MaxTimers
      BY <1>2, FewTimers DEF CloseWeaponPopover, BoardParts, LookupInv
    <2>2. luOpen # NoWeapon /\ luPopOf = <<luLast, luOpen>> /\ luPop # 0
      BY <1>2 DEF CloseWeaponPopover, BoardParts, OpenWeaponIsShown
    <2>3. /\ luOpen' = NoWeapon /\ luBoard' = <<luLast, NoWeapon>>
          /\ luPop' = 0 /\ luPopOf' = Undrawn /\ luGrid' = "none"
      BY <1>2, <2>2 DEF CloseWeaponPopover, RenderBoard, Openable, Undrawn
    <2>4. luLast' = luLast /\ 0 \notin timers
      BY <1>2, <2>1, LookupConstants DEF CloseWeaponPopover, Elements
    <2>5. BoardParts'
      BY <2>1, <2>3, <2>4 DEF BoardParts, OpenWeaponIsShown, Undrawn
    <2>6. QED  BY <1>2, <2>5 DEF CloseWeaponPopover, PageParts, LookupsEnd, luWay, luPage
  <1>3. ASSUME NEW e \in luTimers, PopRemoved(e) PROVE BoardParts' /\ PageParts'
    <2>1. luPop # e
      BY DEF BoardParts
    <2>2. Cardinality(luTimers \ {e}) <= MaxTimers
      BY FewTimers DEF BoardParts, LookupInv
    <2>3. QED
      BY <1>3, <2>1, <2>2 DEF PopRemoved, BoardParts, OpenWeaponIsShown, PageParts,
         LookupsEnd, luWay, luPage
  <1>4. CASE GridArrives
    BY <1>4 DEF GridArrives, BoardParts, OpenWeaponIsShown, PageParts, LookupsEnd, luWay,
       luPage
  <1>5. ASSUME NEW q \in Players \union Nicknames \union {""}, Submit(q)
        PROVE  BoardParts' /\ PageParts'
    <2>1. PageParts' /\ UNCHANGED <<luKey, luLast, luWeapon>>
      BY <1>5, LookupAskKeeps DEF Submit, PageParts
    <2>2. QED  BY <1>5, <2>1, WeaponKeeps DEF Submit, WeaponStays, luWeapon
  <1>6. CASE SaveLookupKey
    <2>1. PageParts' /\ UNCHANGED <<luKey, luLast, luWeapon>>
      BY <1>6, LookupAskKeeps DEF SaveLookupKey, PageParts, luWay
    <2>2. QED  BY <1>6, <2>1, WeaponKeeps DEF SaveLookupKey, WeaponStays, luWeapon
  <1>7. ASSUME NEW p \in Players, Choose(p) PROVE BoardParts' /\ PageParts'
    <2>1. Lookup(p) \/ Ask(p, luOut)
      BY <1>7 DEF Choose
    <2>2. PageParts' /\ UNCHANGED <<luKey, luLast, luWeapon>>
      BY <1>7, LookupAskKeeps DEF Choose, PageParts, luWay
    <2>3. QED  BY <1>7, <2>2, WeaponKeeps DEF Choose, WeaponStays, luWeapon
  <1>8. ASSUME NEW p \in Players, OpenPlayer(p) PROVE BoardParts' /\ PageParts'
    <2>1. luHistory' \in Seq(Players) /\ luAt' \in 0 .. Len(luHistory')
      <3>1. SubSeq(luHistory, 1, luAt) \in Seq(Players) /\ Len(SubSeq(luHistory, 1, luAt)) = luAt
        <4>1. luAt \in Nat /\ luHistory \in Seq(Players) /\ luAt <= Len(luHistory)
          <5>1. luHistory \in Seq(Players) /\ luAt \in 0 .. Len(luHistory)
            BY DEF PageParts
          <5>2. QED  BY <5>1
        <4>2. \A i \in 1..luAt : luHistory[i] \in Players
          BY <4>1, ElementOf
        <4>3. QED  BY <4>1, <4>2, SubSeqProperties
      <3>2. luHistory' = Append(SubSeq(luHistory, 1, luAt), p) /\ luAt' = luAt + 1
        BY <1>8, <3>1 DEF OpenPlayer
      <3>3. QED  BY <3>1, <3>2, AppendLast
    <2>2. PageParts' /\ UNCHANGED <<luKey, luLast, luWeapon>>
      BY <1>8, <2>1, LookupAskKeeps DEF OpenPlayer, PageParts
    <2>3. QED  BY <1>8, <2>2, WeaponKeeps DEF OpenPlayer, WeaponStays, luWeapon
  <1>9. ASSUME NEW i \in 0 .. Len(luHistory), PopState(i) PROVE BoardParts' /\ PageParts'
    <2>1. CASE i = 0
      BY <1>9, <2>1, WeaponKeeps DEF PopState, WeaponStays, luWeapon, PageParts, LookupsEnd
    <2>2. CASE i # 0
      <3>1. luHistory[i] \in Players
        <4>1. luHistory \in Seq(Players)
          BY DEF PageParts
        <4>2. i \in DOMAIN luHistory
          BY <2>2, <4>1
        <4>3. QED  BY <4>1, <4>2, ElementOf
      <3>2. PageParts' /\ UNCHANGED <<luKey, luLast, luWeapon>>
        BY <1>9, <2>2, <3>1, LookupAskKeeps DEF PopState, PageParts
      <3>3. QED  BY <1>9, <3>2, WeaponKeeps DEF PopState, WeaponStays, luWeapon
    <2>3. QED  BY <2>1, <2>2
  <1>10. ASSUME NEW l \in luOut, Refused(l) PROVE BoardParts' /\ PageParts'
    BY <1>10, WeaponKeeps DEF Refused, WeaponStays, luWeapon, luWay, PageParts, LookupsEnd,
       Statuses
  <1>11. ASSUME NEW l \in luOut, ProfileArrives(l) PROVE BoardParts' /\ PageParts'
    <2>1. PageParts'
      BY <1>11 DEF ProfileArrives, PageParts, LookupsEnd, Statuses, luWay
    <2>2. BoardParts'
      BY <1>11, BoardIsRight DEF ProfileArrives, BoardParts
    <2>3. QED  BY <2>1, <2>2
  <1>12. ASSUME NEW l \in luOut, NEW found \in SUBSET Players, PlayersArrive(l, found)
         PROVE  BoardParts' /\ PageParts'
    <2>1. \A p \in Players :
            [n |-> l.n, of |-> p] \in [n : 1 .. MaxLookups, of : Players \union Nicknames]
      BY DEF PageParts
    <2>2. PageParts'
      <3>1. CASE Cardinality(found) = 1
        <4>1. PICK p \in found : luOut' = (luOut \ {l}) \union {[n |-> l.n, of |-> p]}
          BY <1>12, <3>1 DEF PlayersArrive
        <4>2. luOut' \subseteq [n : 1 .. MaxLookups, of : Players \union Nicknames] /\ luOut' # {}
          BY <2>1, <4>1 DEF PageParts
        <4>3. QED  BY <1>12, <3>1, <4>2 DEF PlayersArrive, PageParts, LookupsEnd, Statuses,
                      luWay
      <3>2. CASE Cardinality(found) # 1
        BY <1>12, <3>2 DEF PlayersArrive, PageParts, LookupsEnd, Statuses, luWay
      <3>3. QED  BY <3>1, <3>2
    <2>3. QED  BY <1>12, <2>2, WeaponKeeps DEF PlayersArrive, WeaponStays, luWeapon
  <1>13. CASE SwitchLang
    <2>1. PageParts'
      BY <1>13 DEF SwitchLang, PageParts, LookupsEnd, luWay
    <2>2. BoardParts'
      BY <1>13, BoardIsRight DEF SwitchLang, BoardParts
    <2>3. QED  BY <2>1, <2>2
  <1>14. ASSUME NEW c \in Columns, SortBy(c) PROVE BoardParts' /\ PageParts'
    <2>1. PageParts'
      <3>1. luSort.dir \in {1, 2} /\ Opposite(luSort.dir) \in {1, 2}
        <4>1. luSort \in [col : Columns \union {0}, dir : {1, 2}]
          BY DEF PageParts
        <4>2. QED  BY <4>1 DEF Opposite
      <3>2. luSort' \in [col : Columns \union {0}, dir : {1, 2}]
        BY <1>14, <3>1 DEF SortBy
      <3>3. QED  BY <1>14, <3>2 DEF SortBy, PageParts, LookupsEnd, luWay, luPage
    <2>2. QED  BY <1>14, <2>1, WeaponKeeps DEF SortBy, WeaponStays, luWeapon
  <1>15. CASE UNCHANGED luVars
    BY <1>15 DEF luVars, BoardParts, OpenWeaponIsShown, PageParts, LookupsEnd
  <1>16. QED
    BY <1>1, <1>2, <1>3, <1>4, <1>5, <1>6, <1>7, <1>8, <1>9, <1>10, <1>11, <1>12, <1>13,
       <1>14, <1>15
       DEF LookupNext

(* The weapon that is open is shown on the board of the last profile, in    *)
(* its own popover, and once no answer is out the page says what came of    *)
(* the last lookup, however lookups, the history and the popover's timer    *)
(* overlap (atlas-lookup.js).                                               *)
THEOREM LookupStaysRight == LookupSpec => []LookupIsRight
  <1>1. LookupInv => LookupIsRight
    BY DEF LookupInv, LookupIsRight
  <1>2. QED  BY <1>1, LookupStarts, LookupSteps, PTL DEF LookupSpec

--------------------------------------------------------------------------------
(* The pages in one behaviour, where one of them moves at a time.           *)
PagesInv == TrackerInv /\ LeaderboardInv /\ NewsInv /\ CommunityInv

(* They start as they should,                                               *)
LEMMA PagesStart == ClientInit => PagesInv
  BY TrackerStarts, LeaderboardStarts, NewsStarts, CommunityStarts DEF ClientInit, PagesInv

(* a step of the client is a step of each page or leaves it alone,          *)
LEMMA PagesMove ==
  [ClientNext]_clientVars =>
    /\ [TrackerNext]_tkVars /\ [LeaderboardNext]_lbVars /\ [NewsNext]_nwVars
    /\ [CommunityNext]_cmVars /\ [LookupNext]_luVars
  BY DEF ClientNext, clientVars

(* so each keeps what it keeps,                                             *)
LEMMA PagesStep == PagesInv /\ [ClientNext]_clientVars => PagesInv'
  BY PagesMove, TrackerSteps, LeaderboardSteps, NewsSteps, CommunitySteps DEF PagesInv

(* and it is what each of them promises.                                    *)
LEMMA PagesHold == PagesInv => PagesAreRight
  BY CommunityHolds DEF PagesInv, TrackerInv, LeaderboardInv, NewsInv, PagesAreRight

(* PagesAreRight holds for every set of periods, boards, posts and builds,  *)
(* and however many loads, waits, votes and comments overlap.               *)
THEOREM PagesStayRight == ClientSpec => []PagesAreRight
  BY PagesStart, PagesStep, PagesHold, PTL DEF ClientSpec

--------------------------------------------------------------------------------
(* The pictures: both start as they should,                                  *)
LEMMA PicturesStart == ClientInit => StripInv /\ PictureInv
  BY StripStarts, PictureStarts DEF ClientInit

(* a step of the client is a step of each or leaves it alone,                *)
LEMMA PicturesMove ==
  [ClientNext]_clientVars => [TabPreviewNext]_tpVars /\ [BuildPreviewNext]_bpVars
  BY DEF ClientNext, clientVars

(* and each stays right.                                                     *)
LEMMA PicturesStep == StripInv /\ PictureInv /\ [ClientNext]_clientVars => StripInv' /\ PictureInv'
  BY PicturesMove, StripSteps, PictureSteps

(* The preview over the strip of tabs and the picture of the build: for      *)
(* every set of tabs, guns and builds, a preview at rest is of the tab it    *)
(* names, a drag neither loses nor doubles a tab, and the picture settles on *)
(* the build, however answers, closings, drags and edits overlap             *)
(* (tab-manager.js, app.js).                                                 *)
THEOREM PicturesStayRight == ClientSpec => []PicturesAreRight
  <1>1. StripInv /\ PictureInv => PicturesAreRight
    BY StripHolds, PictureHolds DEF PicturesAreRight
  <1>2. QED  BY <1>1, PicturesStart, PicturesStep, PTL DEF ClientSpec

--------------------------------------------------------------------------------
(* The attachments: the grid and the tree start as they should,              *)
LEMMA AttachmentsStart == ClientInit => GridInv /\ TreeInv
  BY GridStarts, TreeStarts DEF ClientInit

(* a step of the client is a step of each or leaves it alone,                *)
LEMMA AttachmentsMove ==
  [ClientNext]_clientVars => [GridLayoutNext]_glVars /\ [TreeRenderNext]_trVars
  BY DEF ClientNext, clientVars

(* and each stays right.                                                     *)
LEMMA AttachmentsStep == GridInv /\ TreeInv /\ [ClientNext]_clientVars => GridInv' /\ TreeInv'
  BY AttachmentsMove, GridSteps, TreeSteps

(* The attachments of the build: for every build, every table of overrides   *)
(* and every tree of parts, no two slots of the grid share a cell, no slot   *)
(* lies on the gun but one whose override above it came down, and the page at *)
(* rest shows the slots of the build as it is, whatever was put in, taken    *)
(* out, collapsed or switched while slots were being fetched                 *)
(* (attachment-grid.js, tree.js).                                            *)
THEOREM AttachmentsStayShown == ClientSpec => []AttachmentsAreShown
  <1>1. GridInv /\ TreeInv => AttachmentsAreShown
    BY GridIsApart, TreeShows DEF AttachmentsAreShown
  <1>2. QED  BY <1>1, AttachmentsStart, AttachmentsStep, PTL DEF ClientSpec

--------------------------------------------------------------------------------
(* Tabs.                                                                    *)

(* Tabs is one of the client's components.                                   *)
LEMMA TabsMove == [ClientNext]_clientVars => [TabsNext]_tabVars
  BY DEF ClientNext, clientVars

(* For every number of tabs, every set of builds and whatever tabs an earlier*)
(* page left behind, a tab holds what its user last saw in it, and a reload  *)
(* brings the tabs back as they are, whatever switches, loads, copies,       *)
(* closings, drags and language changes overlap (tab-manager.js,             *)
(* build-manager.js, gun-list.js).                                           *)
THEOREM TabsStayKept == ClientSpec => []TabsAreKept
  <1>1. ClientInit => TabsInv
    BY TabsStart DEF ClientInit
  <1>2. TabsInv /\ [ClientNext]_clientVars => TabsInv'
    BY TabsMove, TabsStep
  <1>3. QED  BY <1>1, <1>2, TabsHold, PTL DEF ClientSpec
================================================================================
