-------------------------------- MODULE News --------------------------------
(* The news drawer (src/frontend/modules/news.js): the list of posts or one *)
(* post.  A view asks for the manifest and for the text of its post where   *)
(* they are not kept, lets the old page slide out, and then draws itself,   *)
(* whatever is open by then.  The tour of the 3D view (builder-3d.js) keeps *)
(* the drawer closed; what was to open waits for its end.                   *)
EXTENDS Naturals, Sequences, SequencesExt

CONSTANTS
  NewsPosts,            \* posts of the manifest
  LatestPost,       \* the one that opens by itself until it was seen
  LostPosts,        \* posts only an old address names
  Tongues,          \* languages a post is written in
  PostList,         \* the view of all posts
  NoNews,           \* no view
  MaxNewsWaits,     \* bound: views on their way
  MaxNewsActs       \* bound: what the user does

ASSUME NewsConstants ==
  /\ LatestPost \in NewsPosts /\ NewsPosts \intersect LostPosts = {}
  /\ PostList \notin NewsPosts \union LostPosts /\ NoNews \notin NewsPosts \union LostPosts
  /\ NoNews # PostList /\ MaxNewsWaits \in Nat /\ MaxNewsActs \in Nat

VARIABLES
  nwOpen,
  nwView,           \* _currentView, _currentPostId
  nwTongue,         \* the language of the page
  nwManifest,       \* _manifest is there
  nwTexts,          \* _postCache: posts and languages whose text is kept
  nwSeen,           \* the latest post is marked seen in localStorage
  nwTour,           \* the tour is up
  nwDeferred,       \* _deferred: the view that waits for its end
  nwChecking,       \* _checkForNewPost waits for the manifest
  nwWaits,          \* views that wait for the manifest or their text
  nwSlides,         \* pages that wait for the old one to leave, by their timers
  nwBody,           \* what is drawn
  nwActs

nwVars == <<nwOpen, nwView, nwTongue, nwManifest, nwTexts, nwSeen, nwTour, nwDeferred,
            nwChecking, nwWaits, nwSlides, nwBody, nwActs>>
nwDrawer == <<nwOpen, nwView>>
nwTours  == <<nwTour, nwDeferred>>
nwWork   == <<nwWaits, nwSlides, nwBody>>

(* What is drawn: a page, or a note.                                        *)
Page(view, tongue) == <<"page", view, tongue>>
Note(kind) == <<kind>>

NewsInit ==
  /\ nwOpen = FALSE /\ nwView = PostList /\ nwTongue \in Tongues
  /\ nwManifest = FALSE /\ nwTexts = {} /\ nwSeen \in BOOLEAN
  /\ nwTour = FALSE /\ nwDeferred = NoNews /\ nwChecking \in BOOLEAN
  /\ nwWaits = <<>> /\ nwSlides = <<>> /\ nwBody = Note("nothing") /\ nwActs = 0

NewsAct == nwActs < MaxNewsActs /\ nwActs' = nwActs + 1

--------------------------------------------------------------------------------
(* The page of a view: now, or after the page that is there slid out.       *)
Draw(page) ==
  IF nwBody[1] = "page" THEN nwSlides' = Append(nwSlides, page) /\ UNCHANGED nwBody
  ELSE nwBody' = page /\ UNCHANGED nwSlides

(* The rest of showPage and showPost, once the manifest is there.           *)
Continue(view, waits) ==
  IF view = PostList \/ <<view, nwTongue'>> \in nwTexts
    THEN nwWaits' = waits /\ Draw(Page(view, nwTongue'))
  ELSE IF view \in LostPosts
    THEN nwWaits' = waits /\ nwBody' = Note("not found") /\ UNCHANGED nwSlides
  ELSE /\ nwWaits' = Append(waits, [view |-> view, at |-> "text", tongue |-> nwTongue'])
       /\ UNCHANGED <<nwSlides, nwBody>>

Show(view) ==
  /\ Len(nwWaits) + Len(nwSlides) < MaxNewsWaits
  /\ IF nwTour' THEN nwDeferred' = view /\ UNCHANGED <<nwDrawer, nwWork>>
     ELSE /\ nwOpen' = TRUE /\ nwView' = view
          /\ nwDeferred' = IF nwTour THEN NoNews ELSE nwDeferred
          /\ IF nwManifest' THEN Continue(view, nwWaits)
             ELSE /\ nwWaits' = Append(nwWaits, [view |-> view, at |-> "manifest",
                                                 tongue |-> nwTongue'])
                  /\ nwBody' = Note("loading") /\ UNCHANGED nwSlides

CloseOverlay == nwOpen' = FALSE /\ nwView' = PostList

--------------------------------------------------------------------------------
(* A card, the address, the button of the drawer, Esc while a post is open. *)
OpenNews ==
  /\ NewsAct
  /\ UNCHANGED <<nwTongue, nwManifest, nwTexts, nwSeen, nwTour, nwChecking>>
  /\ \E view \in NewsPosts \union LostPosts \union {PostList} : Show(view)

HideNews ==
  /\ NewsAct /\ nwOpen /\ CloseOverlay
  /\ nwSeen' = (nwSeen \/ nwManifest)
  /\ UNCHANGED <<nwTongue, nwManifest, nwTexts, nwTours, nwChecking, nwWork>>

NewsLanguage ==
  /\ NewsAct /\ nwTongue' \in Tongues \ {nwTongue}
  /\ UNCHANGED <<nwManifest, nwTexts, nwSeen, nwTour, nwChecking>>
  /\ IF nwOpen /\ nwView # PostList THEN Show(nwView)
     ELSE /\ UNCHANGED <<nwDrawer, nwDeferred, nwWaits, nwSlides>>
          /\ nwBody' = IF ~nwOpen THEN nwBody
                       ELSE IF nwManifest THEN Page(PostList, nwTongue') ELSE Note("no posts")

(* The check when the page opens: a post that was not seen opens.           *)
CheckArrives ==
  /\ nwChecking /\ nwChecking' = FALSE /\ nwManifest' = TRUE
  /\ UNCHANGED <<nwTongue, nwTexts, nwSeen, nwTour, nwActs>>
  /\ IF nwSeen THEN UNCHANGED <<nwDrawer, nwDeferred, nwWork>> ELSE Show(LatestPost)

CheckFails ==
  /\ nwChecking /\ nwChecking' = FALSE
  /\ UNCHANGED <<nwDrawer, nwTongue, nwManifest, nwTexts, nwSeen, nwTours, nwWork, nwActs>>

--------------------------------------------------------------------------------
(* The tour: news that is open steps aside, and comes back at its end.      *)

StartTour ==
  /\ NewsAct /\ ~nwTour /\ nwTour' = TRUE
  /\ IF nwOpen THEN nwDeferred' = nwView /\ CloseOverlay
     ELSE UNCHANGED <<nwDeferred, nwDrawer>>
  /\ UNCHANGED <<nwTongue, nwManifest, nwTexts, nwSeen, nwChecking, nwWork>>

EndTour ==
  /\ NewsAct /\ nwTour /\ nwTour' = FALSE
  /\ UNCHANGED <<nwTongue, nwManifest, nwTexts, nwSeen, nwChecking>>
  /\ IF nwDeferred = NoNews THEN UNCHANGED <<nwDrawer, nwDeferred,
                                             nwWork>> ELSE Show(nwDeferred)

--------------------------------------------------------------------------------
NewsArrives ==
  \E i \in DOMAIN nwWaits :
    LET w == nwWaits[i]  rest == RemoveAt(nwWaits, i) IN
    /\ UNCHANGED <<nwDrawer, nwTongue, nwSeen, nwTours, nwChecking, nwActs>>
    /\ IF w.at = "manifest"
       THEN nwManifest' = TRUE /\ UNCHANGED nwTexts /\ Continue(w.view, rest)
       ELSE /\ nwTexts' = nwTexts \union {<<w.view, w.tongue>>} /\ UNCHANGED nwManifest
            /\ nwWaits' = rest /\ Draw(Page(w.view, w.tongue))

NewsFails ==
  \E i \in DOMAIN nwWaits :
    /\ nwWaits' = RemoveAt(nwWaits, i) /\ nwBody' = Note("error")
    /\ UNCHANGED <<nwDrawer, nwTongue, nwManifest, nwTexts, nwSeen, nwTours, nwChecking,
                   nwSlides, nwActs>>

PageSlidOut ==
  /\ nwSlides # <<>> /\ nwSlides' = Tail(nwSlides)
  /\ nwBody' = LET page == Head(nwSlides) IN
               IF page[2] = PostList THEN Page(PostList, nwTongue) ELSE page
  /\ UNCHANGED <<nwDrawer, nwTongue, nwManifest, nwTexts, nwSeen, nwTours, nwChecking, nwWaits,
                 nwActs>>

NewsNext ==
  \/ OpenNews \/ HideNews \/ NewsLanguage \/ CheckArrives \/ CheckFails
  \/ StartTour \/ EndTour \/ NewsArrives \/ NewsFails \/ PageSlidOut

--------------------------------------------------------------------------------
(* The tour is never covered by news, what waits for it comes back when it  *)
(* ends, and a drawer with nothing under way shows a page or says why not.  *)
NewsStepsAside ==
  /\ nwTour => ~nwOpen
  /\ nwDeferred # NoNews => nwTour
  /\ (nwOpen /\ nwWaits = <<>> /\ nwSlides = <<>>) =>
       nwBody[1] \in {"page", "error", "not found", "no posts"}

(* Not kept: the text of a post that was left arrives and is drawn over the *)
(* list, or over another post.                                              *)
PageIsOfTheView ==
  (nwOpen /\ nwWaits = <<>> /\ nwSlides = <<>> /\ nwBody[1] = "page") => nwBody[2] = nwView
================================================================================
