---------------------------- MODULE BuildPreview ----------------------------
(* The picture of the gun being built (src/frontend/modules/               *)
(* build-preview.js): in the gun cell of the grid, and in the placeholder  *)
(* on the right.  A picture drawn by the server is asked for whenever the  *)
(* gun, its parts or its rounds changed; the factory build and a published *)
(* build with a card have one already.  Every render of the build puts the *)
(* game's icon into the cell, so the picture is stamped onto it again.     *)
EXTENDS Naturals

CONSTANTS
  Pictured,         \* guns
  Unarmed,          \* no gun: the list of guns is open
  Assembled,        \* builds: "bare", "factory" and others
  Magazines,        \* the rounds loaded, "empty" or other
  NoCardFor,        \* no published build
  MaxPictureActs    \* bound: what the user does

ASSUME BuildPreviewConstants ==
  /\ {"bare", "factory"} \subseteq Assembled /\ "empty" \in Magazines
  /\ Unarmed \notin Pictured /\ NoCardFor \notin Assembled
  /\ MaxPictureActs \in Nat

VARIABLES
  bpView,           \* the gun, its build and rounds: what a picture depends on
  bpCard,           \* communityBuild: the build that has a card
  bpLoad,           \* selectGun or loadBuildFromPayload on its way
  bpRenders,        \* renders of the build under way
  bpRefreshes,      \* refreshBuildStats waiting for the grenades
  bpOn, bpOff,      \* _bpEnabled; _bpGlobalDisabled
  bpAsking,         \* initBpGlobalStatus waits
  bpPage,           \* the pictures and the request for the next one
  bpActs

bpVars == <<bpView, bpCard, bpLoad, bpRenders, bpRefreshes, bpOn, bpOff, bpAsking, bpPage,
            bpActs>>

View(g, b, r) == [gun |-> g, build |-> b, rounds |-> r]
NoView == View(Unarmed, "bare", "empty")

(* Pictures: drawn by the server, the game's icons, and cards.             *)
NoPicture  == <<"none">>
DrawnPicture(v)   == <<"drawn", v>>
Icon(v)    == <<"icon", v.gun>>
BareIcon(v) == <<"bare icon", v.gun>>
CardOf(v)  == <<"card", v.gun, v.build>>

(* The request that may still act: an older one finds another revision.    *)
NoDrawing == [view |-> NoView, at |-> "none"]
NotLoading == [at |-> "none", build |-> "bare", card |-> FALSE]

(* last, url: the view drawn last and its picture, holderUrl the one of    *)
(* the placeholder; shown and holder are the sources of the two images,    *)
(* dimmed those of them that are; awaiting hides both.                     *)
EmptyPage ==
  [last |-> NoView, url |-> NoPicture, holderUrl |-> NoPicture, awaiting |-> FALSE,
   request |-> NoDrawing, shown |-> NoPicture, holder |-> NoPicture, dimmed |-> {}]

BuildPreviewInit ==
  /\ bpView = NoView /\ bpCard = NoCardFor /\ bpLoad = NotLoading
  /\ bpRenders = 0 /\ bpRefreshes = 0
  /\ bpOn \in BOOLEAN /\ bpOff = FALSE /\ bpAsking = TRUE
  /\ bpPage = EmptyPage /\ bpActs = 0

PictureAct == bpActs < MaxPictureActs /\ bpActs' = bpActs + 1

--------------------------------------------------------------------------------
(* The functions of the module, as they change the page p for a view v.    *)

(* Mutant: images hidden for a drawing stay hidden when it is given up.     *)
CancelPendingHidden(p) == [p EXCEPT !.request = NoDrawing, !.dimmed = {}]

CancelPending(p) == [p EXCEPT !.request = NoDrawing, !.dimmed = {}, !.awaiting = FALSE]

Forget(p) == [p EXCEPT !.last = NoView, !.url = NoPicture, !.holderUrl = NoPicture]

Place(p, picture) ==
  [p EXCEPT !.shown = picture, !.holder = picture, !.holderUrl = picture, !.dimmed = {}]

ApplyImage(p, v, picture) ==
  IF picture = NoPicture
  THEN [Place(p, IF v.build = "bare" THEN BareIcon(v) ELSE Icon(v))
          EXCEPT !.url = NoPicture, !.awaiting = FALSE]
  ELSE [Place(p, picture) EXCEPT !.url = picture]

ApplyStatic(p, picture) == [Place(p, picture) EXCEPT !.url = picture, !.awaiting = FALSE]

IsDrawn(p, v) == p.last = v /\ p.url # NoPicture

(* scheduleBuildPreview.  The request is for exactly these parts only if   *)
(* the slots of all of them are known.                                     *)
ScheduleNow(p, v, card, complete) ==
  LET cancelled == CancelPending(p)
      q == IF p.last.gun = v.gun THEN cancelled ELSE Forget(cancelled)
      hasCard == card = v.build
  IN IF bpOff \/ v.gun = Unarmed \/ (~hasCard /\ p.request.view = v)
       THEN p
     ELSE IF hasCard \/ (v.build = "factory" /\ v.rounds = "empty")
       THEN [ApplyStatic(q, IF hasCard THEN CardOf(v) ELSE Icon(v)) EXCEPT !.last = v]
     ELSE IF IsDrawn(q, v)
       THEN q
     ELSE IF ~complete
       THEN ApplyImage(q, v, NoPicture)
     ELSE [q EXCEPT !.awaiting = (q.url = NoPicture), !.dimmed = {"shown", "holder"},
                    !.request = [view |-> v, at |-> "answer"]]

SchedulePicture(p, v, card, complete) ==
  IF bpOn THEN ScheduleNow(p, v, card, complete) ELSE p

Completeness == IF bpView.build = "bare" THEN {TRUE} ELSE BOOLEAN

(* What renderFullTree leaves in the cell, and what is stamped over it.    *)
Restamp(p, v) ==
  LET drawing == p.request # NoDrawing
      mine    == p.last.gun = v.gun
      cell    == bpOn /\ p.url # NoPicture /\ mine
      aside   == p.holderUrl # NoPicture /\ mine
      held    == IF aside THEN drawing ELSE "holder" \in p.dimmed
  IN [p EXCEPT !.shown  = IF cell THEN p.url ELSE Icon(v),
               !.holder = IF aside THEN p.holderUrl ELSE p.holder,
               !.dimmed = (IF cell /\ drawing THEN {"shown"} ELSE {})
                            \union (IF held THEN {"holder"} ELSE {})]

(* syncBuildDisplayName, at the start of a refresh.                        *)
NamePage(p, v, card) ==
  IF card = NoCardFor THEN p
  ELSE IF card = v.build
    THEN SchedulePicture([p EXCEPT !.holder = CardOf(v)], v, card, TRUE)
  ELSE [p EXCEPT !.holder = Icon(v)]
NameCard(v, card) == IF card = v.build THEN card ELSE NoCardFor

--------------------------------------------------------------------------------
(* Opening a gun and its builds.                                           *)

OpenPictured(g, load) ==
  /\ bpLoad.at \in {"none", "failed"}
  /\ bpView' = [bpView EXCEPT !.gun = g, !.build = "bare"]
  /\ bpCard' = NoCardFor /\ bpLoad' = load
  /\ bpPage' = [Forget(CancelPending(bpPage)) EXCEPT
                  !.awaiting = bpOn /\ ~bpOff /\ load.build # "bare",
                  !.holder = Icon(bpView')]
  /\ UNCHANGED <<bpRenders, bpRefreshes, bpOn, bpOff, bpAsking>>

SelectPictured ==
  /\ PictureAct
  /\ \E g \in Pictured \ {bpView.gun} :
       OpenPictured(g, [NotLoading EXCEPT !.at = "factory"])

(* A saved build, or a published one, which may have a card.               *)
LoadBuild ==
  /\ PictureAct
  /\ \E g \in Pictured, b \in Assembled, card \in BOOLEAN :
       OpenPictured(g, [at |-> "parts", build |-> b, card |-> card])

FactoryArrives ==
  /\ bpLoad.at = "factory"
  /\ bpView' = [bpView EXCEPT !.build = "factory"]
  /\ bpLoad' = NotLoading /\ bpRenders' = bpRenders + 1
  /\ UNCHANGED <<bpCard, bpRefreshes, bpOn, bpOff, bpAsking, bpPage, bpActs>>

FactoryFails ==
  /\ bpLoad.at = "factory"
  /\ bpLoad' = [bpLoad EXCEPT !.at = "failed"]
  /\ UNCHANGED <<bpView, bpCard, bpRenders, bpRefreshes, bpOn, bpOff, bpAsking, bpPage,
                 bpActs>>

(* The parts are put in; none of them is, if their slots did not load.     *)
PicturedPartsArrive ==
  /\ bpLoad.at = "parts"
  /\ \E b \in {bpLoad.build, "bare"} : bpView' = [bpView EXCEPT !.build = b]
  /\ bpLoad' = [bpLoad EXCEPT !.at = "drawn"] /\ bpRenders' = bpRenders + 1
  /\ UNCHANGED <<bpCard, bpRefreshes, bpOn, bpOff, bpAsking, bpPage, bpActs>>

LoadRefreshes ==
  /\ bpLoad.at = "drawn" /\ bpRenders = 0
  /\ bpLoad' = [bpLoad EXCEPT !.at = "named"] /\ bpRefreshes' = bpRefreshes + 1
  /\ UNCHANGED <<bpView, bpCard, bpRenders, bpOn, bpOff, bpAsking, bpPage, bpActs>>

(* The published build is known as one only now.                           *)
PictureLoadEnds ==
  /\ bpLoad.at = "named" /\ bpRefreshes = 0
  /\ LET card == IF bpLoad.card THEN bpLoad.build ELSE NoCardFor IN
       /\ bpCard' = NameCard(bpView, card)
       /\ bpPage' = NamePage(bpPage, bpView, card)
  /\ bpLoad' = NotLoading
  /\ UNCHANGED <<bpView, bpRenders, bpRefreshes, bpOn, bpOff, bpAsking, bpActs>>

(* Back to the list of guns: what is under way goes on.                    *)
LeavePictured ==
  /\ PictureAct /\ bpLoad.at \in {"none", "failed"} /\ bpView.gun # Unarmed
  /\ bpView' = [bpView EXCEPT !.gun = Unarmed] /\ bpLoad' = NotLoading
  /\ bpPage' = bpPage
  /\ UNCHANGED <<bpCard, bpRenders, bpRefreshes, bpOn, bpOff, bpAsking>>

--------------------------------------------------------------------------------
(* Changing it.                                                            *)

BuildChanges(v) ==
  /\ bpView' = v
  /\ bpCard' = NameCard(v, bpCard) /\ bpPage' = NamePage(bpPage, v, bpCard)
  /\ bpRefreshes' = bpRefreshes + 1
  /\ UNCHANGED <<bpLoad, bpOn, bpOff, bpAsking>>

EditPictured ==
  /\ PictureAct /\ bpLoad.at = "none" /\ bpView.gun # Unarmed
  /\ \E b \in Assembled \ {bpView.build} : BuildChanges([bpView EXCEPT !.build = b])
  /\ bpRenders' = bpRenders + 1

ChangeRounds ==
  /\ PictureAct /\ bpView.gun # Unarmed
  /\ \E r \in Magazines \ {bpView.rounds} : BuildChanges([bpView EXCEPT !.rounds = r])
  /\ bpRenders' = bpRenders

RefreshGoesOn ==
  /\ bpRefreshes > 0 /\ bpRefreshes' = bpRefreshes - 1
  /\ \E complete \in Completeness :
       bpPage' = SchedulePicture(bpPage, bpView, bpCard, complete)
  /\ UNCHANGED <<bpView, bpCard, bpLoad, bpRenders, bpOn, bpOff, bpAsking, bpActs>>

(* A new language, a new setting, the other view.                          *)
Redraw ==
  /\ PictureAct /\ bpView.gun # Unarmed /\ bpLoad.at = "none"
  /\ bpRenders' = bpRenders + 1
  /\ UNCHANGED <<bpView, bpCard, bpLoad, bpRefreshes, bpOn, bpOff, bpAsking, bpPage>>

RenderEnds ==
  /\ bpRenders > 0 /\ bpRenders' = bpRenders - 1
  /\ \E complete \in Completeness :
       bpPage' = IF bpView.gun = Unarmed THEN bpPage
                 ELSE SchedulePicture(Restamp(bpPage, bpView), bpView, bpCard, complete)
  /\ UNCHANGED <<bpView, bpCard, bpLoad, bpRefreshes, bpOn, bpOff, bpAsking, bpActs>>

--------------------------------------------------------------------------------
(* The request.                                                            *)

AskedView == bpPage.request.view
IsCurrent == bpOn /\ ~bpOff /\ bpView = AskedView

(* An answer in hand: what it does if it is still of this view, then what  *)
(* comes after it, else the end.                                           *)
AnswerRead(at, page, next) ==
  /\ bpPage.request.at = at
  /\ bpPage' = IF ~IsCurrent THEN CancelPending(bpPage)
               ELSE IF next = "none" THEN CancelPending(page)
               ELSE [page EXCEPT !.request.at = next]
  /\ UNCHANGED <<bpView, bpCard, bpLoad, bpRenders, bpRefreshes, bpOn, bpAsking, bpActs>>

DrawingAccepted == AnswerRead("answer", bpPage, "body") /\ bpOff' = bpOff
DrawingRefused ==
  /\ \E next \in {"detail", "none"} :
       AnswerRead("answer", ApplyImage(bpPage, bpView, NoPicture), next)
  /\ bpOff' = bpOff
DrawingSwitchedOff ==
  /\ AnswerRead("answer", ApplyImage(bpPage, bpView, NoPicture), "none")
  /\ bpOff' = (bpOff \/ IsCurrent)
DetailRead == AnswerRead("detail", bpPage, "none") /\ bpOff' = bpOff
PictureArrives ==
  /\ LET drawn == ApplyImage(bpPage, bpView, DrawnPicture(AskedView)) IN
       AnswerRead("body", [drawn EXCEPT !.last = AskedView], "load")
  /\ bpOff' = bpOff
NoPictureArrives ==
  /\ AnswerRead("body", ApplyImage(bpPage, bpView, NoPicture), "none")
  /\ bpOff' = bpOff
PictureLoaded ==
  /\ bpPage.request.at = "load" /\ bpPage' = CancelPending(bpPage)
  /\ UNCHANGED <<bpView, bpCard, bpLoad, bpRenders, bpRefreshes, bpOn, bpOff, bpAsking,
                 bpActs>>

--------------------------------------------------------------------------------
(* Switching it off and on.                                                *)

ToggleDrawing ==
  /\ PictureAct /\ ~bpOff /\ bpOn' = ~bpOn
  /\ \E complete \in Completeness :
       bpPage' = IF bpOn
                 THEN LET p == Forget(CancelPending(bpPage)) IN
                      IF bpView.gun = Unarmed THEN p
                      ELSE [p EXCEPT !.shown = Icon(bpView), !.holder = Icon(bpView)]
                 ELSE ScheduleNow(bpPage, bpView, bpCard, complete)
  /\ UNCHANGED <<bpView, bpCard, bpLoad, bpRenders, bpRefreshes, bpOff, bpAsking>>

(* The administrator's switch, asked for when the page opens; what was     *)
(* switched off by then stays so.                                          *)
StatusArrives ==
  /\ bpAsking /\ bpAsking' = FALSE
  /\ \E off \in {TRUE, bpOff} :
       /\ bpOff' = off
       /\ bpPage' = IF off THEN CancelPending(bpPage) ELSE bpPage
  /\ UNCHANGED <<bpView, bpCard, bpLoad, bpRenders, bpRefreshes, bpOn, bpActs>>

BuildPreviewNext ==
  \/ SelectPictured \/ LoadBuild \/ FactoryArrives \/ FactoryFails \/ PicturedPartsArrive
  \/ LoadRefreshes \/ PictureLoadEnds \/ LeavePictured
  \/ EditPictured \/ ChangeRounds \/ RefreshGoesOn \/ Redraw \/ RenderEnds
  \/ DrawingAccepted \/ DrawingRefused \/ DrawingSwitchedOff \/ DetailRead
  \/ PictureArrives \/ NoPictureArrives \/ PictureLoaded
  \/ ToggleDrawing \/ StatusArrives

--------------------------------------------------------------------------------
AtWork ==
  bpRenders + bpRefreshes > 0 \/ bpPage.request # NoDrawing
    \/ bpLoad.at \in {"factory", "parts", "drawn", "named"}

(* Once nothing is under way, both images are of the build on the page: it *)
(* as drawn, its card or the game's icon; the cell has the icon only where *)
(* there is no drawing.                                                    *)
PictureIsOfTheBuild ==
  LET icons == {Icon(bpView), BareIcon(bpView)} IN
    (bpOn /\ ~bpOff /\ ~AtWork /\ bpView.gun # Unarmed /\ bpLoad.at = "none") =>
      /\ bpPage.shown \in {DrawnPicture(bpView), CardOf(bpView)} \union icons
      /\ bpPage.shown \in icons => bpPage.url \in {NoPicture, Icon(bpView)}
      /\ bpPage.holder \in {bpPage.shown} \union icons

(* Not kept: once drawing is switched off for all, the drawing of an       *)
(* earlier build is stamped onto every later one.                          *)
OldPictureIsDropped ==
  (bpOff /\ ~AtWork /\ bpView.gun # Unarmed /\ bpPage.shown[1] = "drawn") =>
    bpPage.shown = DrawnPicture(bpView)

(* The images are hidden, or dimmed, only while something is under way     *)
(* that will show them again.                                              *)
PicturesComeBack ==
  /\ bpPage.awaiting => bpOn /\ ~bpOff /\ AtWork
  /\ bpPage.dimmed # {} => bpPage.request # NoDrawing

PictureIsRight == PictureIsOfTheBuild /\ PicturesComeBack
================================================================================
