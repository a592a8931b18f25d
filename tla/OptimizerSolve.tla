---------------------------- MODULE OptimizerSolve ----------------------------
(* The optimizer's drawer (modules/optimizer.js): one exploration at a     *)
(* time, asked for in steps that the user can cancel, close the drawer on  *)
(* or leave the build during, its points streamed while the server solves; *)
(* then a pane with the chosen point's build, whose image and parts list   *)
(* arrive later still.                                                     *)
(*                                                                         *)
(* A result is a point of a solve for a gun.  The modes that are switched  *)
(* off in the source (optimize, gunsmith) are left out, and so is layout.  *)
EXTENDS OptimizerFilters

CONSTANTS MaxSolves, MaxPoints      \* bounds: MaxSolves, MaxPoints

ASSUME OptimizerConstants == {MaxSolves, MaxPoints} \subseteq Nat

VARIABLES
  osGun,        \* the gun of the build, or NoGun in the list of guns
  osOpen,       \* the drawer is visible
  osSolve,      \* the solve under way: how far, for which gun, cancelled or not
  osSolves,     \* solves started
  osExplore,    \* the points of the last exploration
  osResult, osError,
  osPicker,     \* the part picker fills the pane
  osPane,       \* what the pane shows
  osKitbash,    \* images of builds are drawn by the server
  osImg, osImgCall,             \* the image in the pane, the request for it
  osManifest, osManifestCalls,  \* the parts listed, the requests for them
  osUsing       \* a build is being applied to the tab

osVars == <<osGun, osOpen, osSolve, osSolves, osExplore, osResult, osError, osPicker,
            osPane, osKitbash, osImg, osImgCall, osManifest, osManifestCalls, osUsing>>
osView == <<osPane, osImg, osImgCall, osManifest, osManifestCalls>>

Points == 1..MaxPoints
Results == [gun : Guns, solve : 1..MaxSolves, point : Points]
NoImage == [of |-> NoGun, kind |-> "none"]
NoExplore == [gun |-> NoGun, solve |-> 0, points |-> 0]
NoSolve == [phase |-> "idle", gun |-> NoGun, streamed |-> FALSE, abort |-> "no",
            button |-> FALSE]

OptimizerSolveInit ==
  /\ osGun \in Guns /\ osOpen = FALSE
  /\ osSolve = NoSolve /\ osSolves = 0 /\ osExplore = NoExplore
  /\ osResult = NoGun /\ osError = FALSE /\ osPicker = FALSE
  /\ osPane = [kind |-> "none", of |-> NoGun] /\ osKitbash \in BOOLEAN
  /\ osImg = NoImage /\ osImgCall = NoGun /\ osManifest = NoGun /\ osManifestCalls = {}
  /\ osUsing = FALSE

Solving == osSolve.phase # "idle"
Point(explore, i) == [gun |-> explore.gun, solve |-> explore.solve, point |-> i]

-------------------------------------------------------------------------------
(* Drawing the pane. *)

(* _loadResultGunImage, into an image that showed shown: with server       *)
(* images an older drawing is dimmed, and anything else hidden, meanwhile. *)
LoadImage(shown) ==
  IF osKitbash
  THEN /\ osImgCall' = osResult'
       /\ osImg' = [shown EXCEPT !.kind = IF @ \in {"drawn", "dimmed"}
                                          THEN "dimmed" ELSE "hidden"]
  ELSE osImgCall' = NoGun /\ osImg' = [of |-> osResult', kind |-> "static"]

(* What the pane can show: a result has its stats, weapon card and parts.  *)
EmptyPane == [kind |-> "empty", of |-> NoGun]
SolvingPane == [kind |-> "solving", of |-> NoGun]
ErrorPane == [kind |-> "error", of |-> NoGun]
PickerPane == [kind |-> "picker", of |-> NoGun]
ResultPane(r) == [kind |-> "result", of |-> r]

PaneNow ==
  CASE osPicker' -> PickerPane
    [] ~osPicker' /\ osSolve'.phase # "idle" -> SolvingPane
    [] ~osPicker' /\ osSolve'.phase = "idle" /\ osError' -> ErrorPane
    [] ~osPicker' /\ osSolve'.phase = "idle" /\ ~osError' ->
         IF osResult' = NoGun THEN EmptyPane ELSE ResultPane(osResult')

(* _renderResult: the picker, the solve, its error, nothing or the result; *)
(* of a result that follows another only the numbers and lists change, and *)
(* the image stays.  Answers for an image that is gone are not seen.       *)
RenderResult(fresh) ==
  /\ osPane' = PaneNow
  /\ osManifest' = NoGun
  /\ IF PaneNow.kind = "result"
     THEN /\ LoadImage(IF osPane.kind = "result" /\ ~fresh THEN osImg ELSE NoImage)
          /\ osManifestCalls' = osManifestCalls \cup {osResult'}
     ELSE osImg' = NoImage /\ osImgCall' = NoGun /\ UNCHANGED osManifestCalls

ImageArrives ==
  /\ osImgCall # NoGun /\ osImgCall' = NoGun
  /\ \E drawn \in {osKitbash, FALSE} :
       osImg' = [of |-> osImgCall, kind |-> IF drawn THEN "drawn" ELSE "static"]
  /\ UNCHANGED <<osGun, osOpen, osSolve, osSolves, osExplore, osResult, osError, osPicker,
                 osPane, osKitbash, osManifest, osManifestCalls, osUsing>>

(* _populateManifest, once the parts and their prices are known: a list is *)
(* put into the pane only if its result is still the chosen one.           *)
Listed(r) == IF osResult = r /\ osPane.kind = "result" THEN r ELSE osManifest

ManifestArrives ==
  \E r \in osManifestCalls :
    /\ osManifestCalls' = osManifestCalls \ {r}
    /\ osManifest' = Listed(r)
    /\ UNCHANGED <<osGun, osOpen, osSolve, osSolves, osExplore, osResult, osError,
                   osPicker, osPane, osKitbash, osImg, osImgCall, osUsing>>

-------------------------------------------------------------------------------
(* The drawer and the build under it. *)

(* _render(true): the whole drawer anew.                                   *)
RenderPanel ==
  /\ osPicker' = FALSE
  /\ osSolve' = [osSolve EXCEPT !.button = Solving]
  /\ RenderResult(TRUE)

(* showPanel: a result stays on screen only for the gun it was solved for. *)
ShowPanel ==
  /\ osGun # NoGun /\ ~osOpen /\ osOpen' = TRUE
  /\ osResult' = IF osResult # NoGun /\ osResult.gun = osGun THEN osResult ELSE NoGun
  /\ osExplore' = IF osExplore.gun = osGun THEN osExplore ELSE NoExplore
  /\ osError' = FALSE
  /\ RenderPanel
  /\ UNCHANGED <<osGun, osSolves, osKitbash, osUsing>>

(* hidePanel only hides: a solve goes on, but no longer for its image.     *)
HidePanel ==
  /\ osOpen /\ osOpen' = FALSE /\ osImgCall' = NoGun
  /\ UNCHANGED <<osGun, osSolve, osSolves, osExplore, osResult, osError, osPicker, osPane,
                 osKitbash, osImg, osManifest, osManifestCalls, osUsing>>

(* onBuildLeave, by selecting a gun or returning to the list.              *)
GunIsLeft ==
  /\ \E g \in Guns \cup {NoGun} : osGun' = g
  /\ osSolve' = [osSolve EXCEPT
                   !.abort = IF osSolve.phase \in {"idle", "mods"} \/ @ # "no"
                             THEN @ ELSE "left"]
  /\ osOpen' = FALSE /\ osImgCall' = NoGun
  /\ UNCHANGED <<osSolves, osExplore, osResult, osError, osPicker, osPane, osKitbash,
                 osImg, osManifest, osManifestCalls, osUsing>>

ChangeLanguage ==
  /\ osOpen
  /\ UNCHANGED <<osGun, osOpen, osSolves, osExplore, osResult, osError, osKitbash,
                 osUsing>>
  /\ RenderPanel

ToggleKitbash ==
  /\ ~osOpen /\ osKitbash' = ~osKitbash
  /\ UNCHANGED <<osGun, osOpen, osSolve, osSolves, osExplore, osResult, osError, osPicker,
                 osView, osUsing>>

-------------------------------------------------------------------------------
(* A solve. *)

(* _solveOptimize: first the parts that can be filtered are awaited.       *)
StartSolve ==
  /\ osOpen /\ osPane.kind \in {"empty", "error", "result"} /\ ~Solving
  /\ osSolves < MaxSolves /\ osSolves' = osSolves + 1
  /\ osSolve' = [NoSolve EXCEPT !.phase = "mods", !.gun = osGun, !.button = TRUE]
  /\ osResult' = NoGun /\ osError' = FALSE
  /\ UNCHANGED osPicker /\ RenderResult(FALSE)
  /\ UNCHANGED <<osGun, osOpen, osExplore, osKitbash, osUsing>>

(* Mutant: the end of a solve does not draw the pane again.                *)
EndSolveUnseen(explore, result, error) ==
  /\ osSolve' = NoSolve
  /\ osExplore' = explore /\ osResult' = result /\ osError' = error
  /\ UNCHANGED osPicker
  /\ UNCHANGED <<osPane, osManifest, osImg, osImgCall, osManifestCalls>>
  /\ UNCHANGED <<osGun, osOpen, osSolves, osKitbash, osUsing>>

(* The end of every solve, with its result or error.                       *)
EndSolve(explore, result, error) ==
  /\ osSolve' = NoSolve
  /\ osExplore' = explore /\ osResult' = result /\ osError' = error
  /\ UNCHANGED osPicker /\ RenderResult(FALSE)
  /\ UNCHANGED <<osGun, osOpen, osSolves, osKitbash, osUsing>>

(* The parts came, or not; the solve ends when the gun is another one, and *)
(* can be aborted from now on.                                             *)
ModsArrive ==
  /\ osSolve.phase = "mods"
  /\ \/ EndSolve(osExplore, osResult, TRUE)
     \/ osGun # osSolve.gun /\ EndSolve(osExplore, osResult, osError)
     \/ /\ osGun = osSolve.gun
        /\ osSolve' = [osSolve EXCEPT !.phase = "ask"]
        /\ osExplore' = NoExplore
        /\ UNCHANGED osPicker /\ UNCHANGED <<osResult, osError>> /\ RenderResult(FALSE)
        /\ UNCHANGED <<osGun, osOpen, osSolves, osKitbash, osUsing>>

(* Every permit of the server is taken: another try after a while, until   *)
(* the deadline.                                                           *)
ServerBusy ==
  /\ osSolve.phase = "ask" /\ osSolve.abort = "no"
  /\ \/ osSolve' = [osSolve EXCEPT !.phase = "wait"]
        /\ UNCHANGED <<osPicker, osResult, osError, osExplore>> /\ RenderResult(FALSE)
        /\ UNCHANGED <<osGun, osOpen, osSolves, osKitbash, osUsing>>
     \/ EndSolve(osExplore, osResult, TRUE)

Retry ==
  /\ osSolve.phase = "wait" /\ osSolve.abort = "no"
  /\ osSolve' = [osSolve EXCEPT !.phase = "ask"]
  /\ UNCHANGED <<osPicker, osResult, osError, osExplore>> /\ RenderResult(FALSE)
  /\ UNCHANGED <<osGun, osOpen, osSolves, osKitbash, osUsing>>

(* The stream starts, and points of the sweep feed the live chart.         *)
Streamed(sweep) == [osSolve EXCEPT !.phase = "stream", !.streamed = @ \/ sweep]

Progress ==
  /\ osSolve.phase \in {"ask", "stream"} /\ osSolve.abort = "no"
  /\ \E sweep \in BOOLEAN : osSolve' = Streamed(sweep)
  /\ UNCHANGED <<osGun, osOpen, osSolves, osExplore, osResult, osError, osPicker, osView,
                 osKitbash, osUsing>>

(* The stream's end: points that were streamed and are not kept are first  *)
(* struck out, the cancel button disabled.                                 *)
StreamEnds ==
  /\ osSolve.phase = "stream" /\ osSolve.abort = "no" /\ osSolve.streamed
  /\ osSolve' = [osSolve EXCEPT !.phase = "discard", !.button = FALSE]
  /\ UNCHANGED <<osGun, osOpen, osSolves, osExplore, osResult, osError, osPicker, osView,
                 osKitbash, osUsing>>

SolveDone ==
  /\ osSolve.phase \in {"stream", "discard"} /\ osSolve.abort = "no"
  /\ \E n \in 0..MaxPoints :
       LET explore == [gun |-> osSolve.gun, solve |-> osSolves, points |-> n]
       IN EndSolve(explore, IF n = 0 THEN NoGun ELSE Point(explore, 1), n = 0)

SolveFails ==
  /\ osSolve.phase \in {"ask", "stream"} /\ osSolve.abort = "no"
  /\ EndSolve(osExplore, osResult, TRUE)

(* _cancelSolve of the button; there is nothing to abort in the first step.*)
CancelSolve ==
  /\ osOpen /\ Solving /\ osSolve.button /\ osSolve.phase # "mods" /\ osSolve.abort = "no"
  /\ osSolve' = [osSolve EXCEPT !.abort = "cancel"]
  /\ UNCHANGED <<osGun, osOpen, osSolves, osExplore, osResult, osError, osPicker, osView,
                 osKitbash, osUsing>>

AbortEnds ==
  /\ osSolve.abort # "no"
  /\ EndSolve(osExplore, osResult, osSolve.abort = "cancel")

-------------------------------------------------------------------------------
(* What is done with a result. *)

SelectPoint ==
  /\ osOpen /\ osPane.kind = "result" /\ ~Solving
  /\ \E i \in 1..osExplore.points :
       osResult' = Point(osExplore, i) /\ osResult' # osResult
  /\ osError' = FALSE
  /\ UNCHANGED <<osPicker, osSolve>> /\ RenderResult(FALSE)
  /\ UNCHANGED <<osGun, osOpen, osSolves, osExplore, osKitbash, osUsing>>

TogglePicker ==
  /\ osOpen /\ ~Solving /\ osPicker' = ~osPicker
  /\ UNCHANGED <<osSolve, osResult, osError>> /\ RenderResult(FALSE)
  /\ UNCHANGED <<osGun, osOpen, osSolves, osExplore, osKitbash, osUsing>>

(* _useBuild: the build is applied to the tab, then the drawer closes.     *)
UseBuild ==
  /\ osOpen /\ osPane.kind = "result" /\ ~osUsing /\ osUsing' = TRUE
  /\ UNCHANGED <<osGun, osOpen, osSolve, osSolves, osExplore, osResult, osError, osPicker,
                 osView, osKitbash>>

BuildUsed ==
  /\ osUsing /\ osUsing' = FALSE
  /\ osOpen' = FALSE /\ osImgCall' = NoGun
  /\ UNCHANGED <<osGun, osSolve, osSolves, osExplore, osResult, osError, osPicker, osPane,
                 osKitbash, osImg, osManifest, osManifestCalls>>

OptimizerSolveNext ==
  \/ ShowPanel \/ HidePanel \/ GunIsLeft \/ ChangeLanguage \/ ToggleKitbash
  \/ StartSolve \/ ModsArrive \/ ServerBusy \/ Retry \/ Progress \/ StreamEnds
  \/ SolveDone \/ SolveFails \/ CancelSolve \/ AbortEnds
  \/ ImageArrives \/ ManifestArrives \/ SelectPoint \/ TogglePicker
  \/ UseBuild \/ BuildUsed

-------------------------------------------------------------------------------
(* An open drawer never shows a build of another gun than the one under    *)
(* it, shows the chosen point and no older one, and once its image and     *)
(* parts have arrived they are that build's, neither hidden nor dimmed.    *)
DrawerShowsItsBuild ==
  osOpen /\ osPane.kind = "result" =>
    /\ osPane.of = osResult /\ osResult.gun = osGun
    /\ osResult \in {Point(osExplore, i) : i \in 1..osExplore.points}
    /\ osImgCall = NoGun => osImg.of = osResult /\ osImg.kind \in {"static", "drawn"}
    /\ osManifest # NoGun => osManifest = osResult
    /\ osResult \notin osManifestCalls => osManifest = osResult

(* A drawer with nothing under way offers to solve, and one that solves    *)
(* shows so: no end of a solve leaves the other on the screen.             *)
DrawerShowsTheSolve ==
  osOpen => (osPane.kind = "solving") = Solving

(* The drawer over solves, cancellations, changes of gun and late answers. *)
DrawerIsRight == DrawerShowsItsBuild /\ DrawerShowsTheSolve
===============================================================================
