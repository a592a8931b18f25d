------------------------------ MODULE ToolsProofs ------------------------------
(***************************************************************************)
(* Proofs about the tools beside the builder: the optimizer's drawer,      *)
(* solving and showing results and what the optimizer is asked for; the    *)
(* zoom and selection of the charts; and the armor simulator with the      *)
(* worker its engine runs on and the loadout it is about.                  *)
(***************************************************************************)
EXTENDS MCClient, DataLemmas

--------------------------------------------------------------------------------
(* OptimizerSolve, for every set of guns and any number of solves and      *)
(* points.                                                                 *)

OptimizerSolveSpec == OptimizerSolveInit /\ [][OptimizerSolveNext]_osVars

--------------------------------------------------------------------------------
(* The invariant.                                                          *)

SolvePhases == {"idle", "mods", "ask", "wait", "stream", "discard"}
Aborts == {"no", "left", "cancel"}
Solves == [phase : SolvePhases, gun : Guns \cup {NoGun}, streamed : BOOLEAN, abort : Aborts,
           button : BOOLEAN]

DrawerTypes ==
  /\ osOpen \in BOOLEAN /\ osPicker \in BOOLEAN /\ osError \in BOOLEAN
  /\ osGun \in Guns \cup {NoGun} /\ osSolve \in Solves

(* There is no result while another is asked for, a solve that goes on past *)
(* its first step is for the gun of the build, and a result is a point of   *)
(* the exploration that is kept.                                            *)
SolveIsOfTheGun ==
  /\ Solving => ~osPicker /\ osResult = NoGun
  /\ osSolve.phase \notin {"idle", "mods"} /\ osSolve.abort = "no" => osSolve.gun = osGun
  /\ osResult # NoGun => \E i \in 1..osExplore.points : osResult = Point(osExplore, i)
  /\ osOpen /\ osResult # NoGun => osExplore.gun = osGun

(* The pane is what it would be drawn as, open or not, and what it waits    *)
(* for is the chosen result's.                                              *)
PaneDrawn ==
  IF osPicker THEN PickerPane
  ELSE IF Solving THEN SolvingPane
  ELSE IF osError THEN ErrorPane
  ELSE IF osResult = NoGun THEN EmptyPane ELSE ResultPane(osResult)

PaneIsDrawn ==
  /\ osPane = PaneDrawn \/ (osPane.kind = "none" /\ ~osOpen)
  /\ osImgCall # NoGun => osPane.kind = "result" /\ osImgCall = osResult
  /\ osPane.kind = "result" =>
       /\ osOpen /\ osImgCall = NoGun => osImg.of = osResult /\ osImg.kind \in {"static", "drawn"}
       /\ osManifest \in {NoGun, osResult}
       /\ osResult \notin osManifestCalls => osManifest = osResult

DrawerInv == DrawerTypes /\ SolveIsOfTheGun /\ PaneIsDrawn

(* The drawer starts closed, on its gun.                                    *)
LEMMA DrawerInitInv == OptimizerSolveInit => DrawerInv
  <1> SUFFICES ASSUME OptimizerSolveInit PROVE DrawerInv
    OBVIOUS
  <1>1. osSolve \in Solves /\ osSolve.phase = "idle"
    BY DEF OptimizerSolveInit, NoSolve, Solves, SolvePhases, Aborts
  <1>2. DrawerTypes
    BY <1>1 DEF OptimizerSolveInit, DrawerTypes
  <1>3. SolveIsOfTheGun
    BY <1>1 DEF OptimizerSolveInit, SolveIsOfTheGun, Solving
  <1>4. PaneIsDrawn
    BY DEF OptimizerSolveInit, PaneIsDrawn
  <1>5. QED  BY <1>2, <1>3, <1>4 DEF DrawerInv

(* The invariant says what the run checks.                                  *)
LEMMA DrawerInvMeansRight == DrawerInv => DrawerIsRight
  <1> SUFFICES ASSUME DrawerInv PROVE DrawerIsRight
    OBVIOUS
  <1> USE DEF DrawerInv
  <1>1. osOpen => osPane = PaneDrawn
    BY DEF PaneIsDrawn
  <1>2. DrawerShowsTheSolve
    <2>1. osOpen => (osPane.kind = "solving" <=> osSolve.phase # "idle")
      BY <1>1 DEF PaneDrawn, SolveIsOfTheGun, PickerPane, SolvingPane, ErrorPane, EmptyPane,
         ResultPane, Solving
    <2>2. QED  BY <2>1, Zenon DEF DrawerShowsTheSolve, Solving
  <1>3. ASSUME osOpen, osPane.kind = "result" PROVE osPane.of = osResult /\ osResult # NoGun
    BY <1>1, <1>3 DEF PaneDrawn, PickerPane, SolvingPane, ErrorPane, EmptyPane, ResultPane
  <1>4. ASSUME osOpen, osPane.kind = "result"
        PROVE  /\ osResult \in {Point(osExplore, i) : i \in 1..osExplore.points}
               /\ osResult.gun = osGun
    BY <1>3, <1>4 DEF SolveIsOfTheGun, Point
  <1>5. DrawerShowsItsBuild
    BY <1>3, <1>4 DEF DrawerShowsItsBuild, PaneIsDrawn
  <1>6. QED  BY <1>2, <1>5 DEF DrawerIsRight

--------------------------------------------------------------------------------
(* Drawing the pane makes it right, whatever it was.                       *)

(* Drawing the result leaves a pane that fits the state.                    *)
LEMMA RenderDraws ==
  ASSUME NEW fresh \in BOOLEAN, RenderResult(fresh), DrawerTypes'
  PROVE  PaneIsDrawn'
  <1>1. osPane' = PaneDrawn'
    <2>1. osPane' = PaneNow /\ osPicker' \in BOOLEAN /\ osError' \in BOOLEAN
      BY DEF RenderResult, DrawerTypes
    <2>2. CASE osPicker'
      BY <2>1, <2>2 DEF PaneNow, PaneDrawn
    <2>3. CASE ~osPicker' /\ osSolve'.phase # "idle"
      BY <2>1, <2>3 DEF PaneNow, PaneDrawn, Solving
    <2>4. CASE ~osPicker' /\ osSolve'.phase = "idle" /\ osError'
      BY <2>1, <2>4 DEF PaneNow, PaneDrawn, Solving
    <2>5. CASE ~osPicker' /\ osSolve'.phase = "idle" /\ ~osError'
      BY <2>1, <2>5 DEF PaneNow, PaneDrawn, Solving
    <2>6. QED  BY <2>1, <2>2, <2>3, <2>4, <2>5
  <1>2. osPane' = PaneNow /\ osManifest' = NoGun
    BY DEF RenderResult
  <1>3. CASE osPane'.kind = "result"
    <2>1. osResult' # NoGun
      BY <1>1, <1>3 DEF PaneDrawn, PickerPane, SolvingPane, ErrorPane, EmptyPane
    <2>2. /\ LoadImage(IF osPane.kind = "result" /\ ~fresh THEN osImg ELSE NoImage)
          /\ osResult' \in osManifestCalls'
      BY <1>2, <1>3 DEF RenderResult
    <2>3. \/ osImgCall' = osResult'
          \/ osImgCall' = NoGun /\ osImg'.of = osResult' /\ osImg'.kind = "static"
      BY <2>2 DEF LoadImage
    <2>4. QED  BY <1>1, <1>2, <1>3, <2>1, <2>2, <2>3 DEF PaneIsDrawn
  <1>4. CASE osPane'.kind # "result"
    <2>1. osImgCall' = NoGun
      BY <1>2, <1>4 DEF RenderResult
    <2>2. QED  BY <1>1, <1>4, <2>1 DEF PaneIsDrawn
  <1>5. QED  BY <1>3, <1>4

(* The solve keeps its shape when some of it changes.                      *)
LEMMA SolveChanges ==
  ASSUME osSolve \in Solves
  PROVE  /\ \A b \in BOOLEAN : /\ [osSolve EXCEPT !.button = b] \in Solves
                               /\ [osSolve EXCEPT !.button = b].phase = osSolve.phase
                               /\ [osSolve EXCEPT !.button = b].gun = osSolve.gun
                               /\ [osSolve EXCEPT !.button = b].abort = osSolve.abort
         /\ \A p \in SolvePhases : /\ [osSolve EXCEPT !.phase = p] \in Solves
                              /\ [osSolve EXCEPT !.phase = p].phase = p
                              /\ [osSolve EXCEPT !.phase = p].gun = osSolve.gun
                              /\ [osSolve EXCEPT !.phase = p].abort = osSolve.abort
         /\ \A a \in Aborts : /\ [osSolve EXCEPT !.abort = a] \in Solves
                              /\ [osSolve EXCEPT !.abort = a].phase = osSolve.phase
                              /\ [osSolve EXCEPT !.abort = a].gun = osSolve.gun
                              /\ [osSolve EXCEPT !.abort = a].abort = a
  BY DEF Solves

(* Without a solve the drawer is idle.                                      *)
LEMMA NoSolveIsIdle ==
  NoSolve \in Solves /\ NoSolve.phase = "idle"
  BY DEF NoSolve, Solves, SolvePhases, Aborts

--------------------------------------------------------------------------------
(* The steps.                                                              *)

(* A solve that ends with the result it had, or without one, leaves the    *)
(* drawer as it should be.                                                 *)
LEMMA EndSolveKeeps ==
  ASSUME DrawerInv, NEW explore, NEW result, NEW error \in BOOLEAN,
         EndSolve(explore, result, error),
         result # NoGun =>
           /\ \E i \in 1..explore.points : result = Point(explore, i)
           /\ osOpen => explore.gun = osGun
  PROVE  DrawerInv'
  <1>1. /\ osSolve' = NoSolve /\ osExplore' = explore /\ osResult' = result
        /\ osError' = error /\ RenderResult(FALSE)
        /\ UNCHANGED <<osPicker, osGun, osOpen>>
    BY DEF EndSolve
  <1>2. DrawerTypes'
    BY <1>1, NoSolveIsIdle DEF DrawerInv, DrawerTypes
  <1>3. SolveIsOfTheGun'
    BY <1>1, NoSolveIsIdle DEF SolveIsOfTheGun, Solving
  <1>4. PaneIsDrawn'
    <2>1. FALSE \in BOOLEAN
      OBVIOUS
    <2>2. QED  BY <1>1, <1>2, <2>1, RenderDraws, Zenon
  <1>5. QED  BY <1>2, <1>3, <1>4 DEF DrawerInv

(* The steps of a solve that goes on: it has no result to lose.            *)
LEMMA SolveGoesOn ==
  ASSUME DrawerInv, Solving, NEW p \in SolvePhases \ {"idle"},
         osSolve' = [osSolve EXCEPT !.phase = p],
         p # "mods" => osSolve.phase # "mods" \/ osGun = osSolve.gun,
         UNCHANGED <<osPicker, osResult, osError, osGun, osOpen>>, RenderResult(FALSE)
  PROVE  DrawerInv'
  <1>1. /\ osSolve' \in Solves /\ osSolve'.phase = p /\ osSolve'.gun = osSolve.gun
        /\ osSolve'.abort = osSolve.abort
    BY SolveChanges DEF DrawerInv, DrawerTypes
  <1>2. DrawerTypes'
    BY <1>1 DEF DrawerInv, DrawerTypes
  <1>3. ~osPicker /\ osResult = NoGun
    BY DEF DrawerInv, SolveIsOfTheGun
  <1>4. SolveIsOfTheGun'
    BY <1>1, <1>3 DEF DrawerInv, SolveIsOfTheGun, Solving
  <1>5. PaneIsDrawn'
    <2>1. FALSE \in BOOLEAN
      OBVIOUS
    <2>2. QED  BY <1>2, <2>1, RenderDraws, Zenon
  <1>6. QED  BY <1>2, <1>4, <1>5 DEF DrawerInv

(* The answers that may come during a solve.                                *)
LEMMA SolveSteps ==
  ASSUME DrawerInv, ModsArrive \/ ServerBusy \/ Retry \/ SolveFails \/ AbortEnds
  PROVE  DrawerInv'
  <1>0. Solving => osResult = NoGun
    BY DEF DrawerInv, SolveIsOfTheGun
  <1>1. ASSUME Solving, NEW error \in BOOLEAN, EndSolve(osExplore, osResult, error)
        PROVE  DrawerInv'
    BY <1>0, <1>1, EndSolveKeeps
  <1>2. CASE ModsArrive
    <2>1. osSolve.phase = "mods" /\ Solving
      BY <1>2 DEF ModsArrive, Solving
    <2>2. CASE EndSolve(osExplore, osResult, TRUE)
      BY <1>1, <2>1, <2>2
    <2>3. CASE EndSolve(osExplore, osResult, osError)
      BY <1>1, <2>1, <2>3 DEF DrawerInv, DrawerTypes
    <2>4. CASE /\ osGun = osSolve.gun /\ osSolve' = [osSolve EXCEPT !.phase = "ask"]
               /\ UNCHANGED <<osPicker, osResult, osError, osGun, osOpen>>
               /\ RenderResult(FALSE)
      BY <2>1, <2>4, SolveGoesOn DEF SolvePhases
    <2>5. QED  BY <1>2, <2>2, <2>3, <2>4 DEF ModsArrive
  <1>3. CASE ServerBusy
    <2>1. osSolve.phase = "ask" /\ Solving
      BY <1>3 DEF ServerBusy, Solving
    <2>2. CASE EndSolve(osExplore, osResult, TRUE)
      BY <1>1, <2>1, <2>2
    <2>3. CASE /\ osSolve' = [osSolve EXCEPT !.phase = "wait"]
               /\ UNCHANGED <<osPicker, osResult, osError, osGun, osOpen>>
               /\ RenderResult(FALSE)
      BY <2>1, <2>3, SolveGoesOn DEF SolvePhases
    <2>4. QED  BY <1>3, <2>2, <2>3 DEF ServerBusy
  <1>4. CASE Retry
    <2>1. osSolve.phase = "wait" /\ Solving
      BY <1>4 DEF Retry, Solving
    <2>2. /\ osSolve' = [osSolve EXCEPT !.phase = "ask"]
          /\ UNCHANGED <<osPicker, osResult, osError, osGun, osOpen>>
          /\ RenderResult(FALSE)
      BY <1>4 DEF Retry
    <2>3. QED  BY <2>1, <2>2, SolveGoesOn DEF SolvePhases
  <1>5. CASE SolveFails
    <2>1. Solving /\ EndSolve(osExplore, osResult, TRUE)
      BY <1>5 DEF SolveFails, Solving
    <2>2. QED  BY <1>1, <2>1
  <1>6. CASE AbortEnds
    <2>1. EndSolve(osExplore, osResult, osSolve.abort = "cancel") /\ osSolve.abort # "no"
      BY <1>6 DEF AbortEnds
    <2>2. CASE Solving
      BY <1>1, <2>1, <2>2
    <2>3. CASE ~Solving
      BY <2>1, <2>3, EndSolveKeeps DEF DrawerInv, SolveIsOfTheGun
    <2>4. QED  BY <2>2, <2>3
  <1>7. QED  BY <1>2, <1>3, <1>4, <1>5, <1>6

(* A solve that was not aborted ends under the gun it was started for.     *)
LEMMA SolveDoneKeeps ==
  ASSUME DrawerInv, SolveDone PROVE DrawerInv'
  <1>1. osSolve.gun = osGun
    BY DEF SolveDone, DrawerInv, SolveIsOfTheGun
  <1>2. PICK n \in 0..MaxPoints :
          LET explore == [gun |-> osSolve.gun, solve |-> osSolves, points |-> n]
          IN EndSolve(explore, IF n = 0 THEN NoGun ELSE Point(explore, 1), n = 0)
    BY DEF SolveDone
  <1> DEFINE explore == [gun |-> osSolve.gun, solve |-> osSolves, points |-> n]
  <1>3. explore.points = n /\ explore.gun = osGun
    BY <1>1
  <1>4. n # 0 => 1 \in 1..explore.points
    BY <1>3, OptimizerConstants
  <1>5. CASE n = 0
    <2>1. EndSolve(explore, NoGun, TRUE)
      BY <1>2, <1>5
    <2>2. TRUE \in BOOLEAN
      OBVIOUS
    <2>3. QED  BY <2>1, <2>2, EndSolveKeeps
  <1>6. CASE n # 0
    <2>1. EndSolve(explore, Point(explore, 1), FALSE)
      BY <1>2, <1>6
    <2>2. FALSE \in BOOLEAN
      OBVIOUS
    <2>3. \E i \in 1..explore.points : Point(explore, 1) = Point(explore, i)
      BY <1>4, <1>6
    <2>4. QED  BY <1>3, <2>1, <2>2, <2>3, EndSolveKeeps
  <1>7. QED  BY <1>5, <1>6

(* Steps of a solve that draw nothing.                                     *)
LEMMA SilentSolveSteps ==
  ASSUME DrawerInv, Progress \/ StreamEnds \/ CancelSolve
  PROVE  DrawerInv'
  <1>1. /\ UNCHANGED <<osGun, osOpen, osExplore, osResult, osError, osPicker, osView>>
        /\ Solving
    BY DEF Progress, StreamEnds, CancelSolve, Solving
  <1>2. /\ osSolve' \in Solves /\ osSolve'.phase # "idle"
        /\ osSolve'.gun = osSolve.gun
        /\ osSolve'.abort = "no" => osSolve.abort = "no" /\ osSolve.phase # "mods"
    <2>1. osSolve \in Solves
      BY DEF DrawerInv, DrawerTypes
    <2>2. CASE Progress
      <3>1. PICK sweep \in BOOLEAN : osSolve' = Streamed(sweep)
        BY <2>2 DEF Progress
      <3>2. (osSolve.streamed \/ sweep) \in BOOLEAN
        OBVIOUS
      <3>3. QED  BY <2>1, <2>2, <3>1, <3>2 DEF Progress, Streamed, Solves, SolvePhases
    <2>3. CASE StreamEnds
      BY <2>1, <2>3 DEF StreamEnds, Solves, SolvePhases
    <2>4. CASE CancelSolve
      BY <2>1, <2>4, <1>1 DEF CancelSolve, Solves, Aborts, Solving
    <2>5. QED  BY <2>2, <2>3, <2>4
  <1>3. DrawerTypes' /\ SolveIsOfTheGun'
    BY <1>1, <1>2 DEF DrawerInv, DrawerTypes, SolveIsOfTheGun, Solving
  <1>4. PaneIsDrawn'
    BY <1>1, <1>2 DEF DrawerInv, PaneIsDrawn, PaneDrawn, Solving, osView
  <1>5. QED  BY <1>3, <1>4 DEF DrawerInv

(* A solve starts over the result of an earlier one.                        *)
LEMMA StartSolveKeeps ==
  ASSUME DrawerInv, StartSolve PROVE DrawerInv'
  <1>1. /\ osOpen /\ osPane.kind \in {"empty", "error", "result"}
        /\ osSolve' = [NoSolve EXCEPT !.phase = "mods", !.gun = osGun, !.button = TRUE]
        /\ osResult' = NoGun /\ osError' = FALSE /\ RenderResult(FALSE)
        /\ UNCHANGED <<osPicker, osGun, osOpen>>
    BY DEF StartSolve
  <1>2. ~osPicker
    BY <1>1 DEF DrawerInv, PaneIsDrawn, PaneDrawn, PickerPane
  <1>3. osSolve' \in Solves /\ osSolve'.phase = "mods"
    BY <1>1 DEF DrawerInv, DrawerTypes, NoSolve, Solves, SolvePhases, Aborts
  <1>4. DrawerTypes'
    BY <1>1, <1>3 DEF DrawerInv, DrawerTypes
  <1>5. SolveIsOfTheGun'
    BY <1>1, <1>2, <1>3 DEF SolveIsOfTheGun, Solving
  <1>6. PaneIsDrawn'
    <2>1. FALSE \in BOOLEAN
      OBVIOUS
    <2>2. QED  BY <1>1, <1>4, <2>1, RenderDraws, Zenon
  <1>7. QED  BY <1>4, <1>5, <1>6 DEF DrawerInv

(* The whole drawer anew, for its gun.                                     *)
LEMMA RenderPanelKeeps ==
  ASSUME DrawerInv, RenderPanel, UNCHANGED osGun,
         osOpen' \in BOOLEAN, osError' \in BOOLEAN,
         osResult' # NoGun =>
           /\ osResult' = osResult
           /\ \E i \in 1..osExplore'.points : osResult' = Point(osExplore', i)
           /\ osOpen' => osExplore'.gun = osGun
  PROVE  DrawerInv'
  <1>1. osPicker' = FALSE /\ osSolve' = [osSolve EXCEPT !.button = Solving] /\ RenderResult(TRUE)
    BY DEF RenderPanel
  <1>2. /\ osSolve' \in Solves /\ osSolve'.phase = osSolve.phase
        /\ osSolve'.gun = osSolve.gun /\ osSolve'.abort = osSolve.abort
    <2>1. Solving \in BOOLEAN
      BY DEF Solving
    <2>2. osSolve \in Solves
      BY DEF DrawerInv, DrawerTypes
    <2>3. QED  BY <1>1, <2>1, <2>2, SolveChanges, Zenon
  <1>3. DrawerTypes'
    BY <1>1, <1>2 DEF DrawerInv, DrawerTypes
  <1>4. SolveIsOfTheGun'
    BY <1>1, <1>2 DEF DrawerInv, SolveIsOfTheGun, Solving
  <1>5. PaneIsDrawn'
    <2>1. TRUE \in BOOLEAN
      OBVIOUS
    <2>2. QED  BY <1>1, <1>3, <2>1, RenderDraws, Zenon
  <1>6. QED  BY <1>3, <1>4, <1>5 DEF DrawerInv

(* A result of another gun is not shown, and one of this gun is a point of *)
(* an exploration that is kept with it.                                    *)
LEMMA ShowPanelKeeps ==
  ASSUME DrawerInv, ShowPanel PROVE DrawerInv'
  <1>1. /\ osOpen' = TRUE /\ osError' = FALSE /\ RenderPanel /\ UNCHANGED osGun
        /\ osGun # NoGun
        /\ osResult' = IF osResult # NoGun /\ osResult.gun = osGun THEN osResult ELSE NoGun
        /\ osExplore' = IF osExplore.gun = osGun THEN osExplore ELSE NoExplore
    BY DEF ShowPanel
  <1>2. ASSUME osResult' # NoGun
        PROVE  /\ osResult' = osResult /\ osExplore' = osExplore /\ osExplore.gun = osGun
               /\ \E i \in 1..osExplore.points : osResult = Point(osExplore, i)
    <2>1. osResult' = osResult /\ osResult # NoGun /\ osResult.gun = osGun
      BY <1>1, <1>2
    <2>2. PICK i \in 1..osExplore.points : osResult = Point(osExplore, i)
      BY <2>1 DEF DrawerInv, SolveIsOfTheGun
    <2>3. osExplore.gun = osGun
      BY <2>1, <2>2 DEF Point
    <2>4. QED  BY <1>1, <2>1, <2>2, <2>3
  <1>3. osOpen' \in BOOLEAN /\ osError' \in BOOLEAN
    BY <1>1
  <1>4. QED  BY <1>1, <1>2, <1>3, RenderPanelKeeps

LEMMA ChangeLanguageKeeps ==
  ASSUME DrawerInv, ChangeLanguage PROVE DrawerInv'
  <1>1. UNCHANGED <<osGun, osOpen, osExplore, osResult, osError>> /\ RenderPanel
    BY DEF ChangeLanguage
  <1>2. osOpen' \in BOOLEAN /\ osError' \in BOOLEAN
    BY <1>1 DEF DrawerInv, DrawerTypes
  <1>3. osResult # NoGun =>
          /\ \E i \in 1..osExplore.points : osResult = Point(osExplore, i)
          /\ osOpen => osExplore.gun = osGun
    BY DEF DrawerInv, SolveIsOfTheGun
  <1>4. QED  BY <1>1, <1>2, <1>3, RenderPanelKeeps

(* The drawer closes, by itself or with its gun: what it showed stays.     *)
LEMMA DrawerCloses ==
  ASSUME DrawerInv, HidePanel \/ GunIsLeft \/ BuildUsed PROVE DrawerInv'
  <1>1. /\ osOpen' = FALSE /\ osImgCall' = NoGun
        /\ UNCHANGED <<osExplore, osResult, osError, osPicker, osPane, osImg, osManifest,
                       osManifestCalls>>
    BY DEF HidePanel, GunIsLeft, BuildUsed
  <1>2. /\ osSolve' \in Solves /\ osSolve'.phase = osSolve.phase
        /\ osSolve'.gun = osSolve.gun /\ osGun' \in Guns \cup {NoGun}
        /\ osSolve'.phase \notin {"idle", "mods"} /\ osSolve'.abort = "no" =>
             osGun' = osGun /\ osSolve.abort = "no"
    <2>1. osSolve \in Solves /\ osGun \in Guns \cup {NoGun}
      BY DEF DrawerInv, DrawerTypes
    <2>2. CASE GunIsLeft
      <3> DEFINE a == IF osSolve.phase \in {"idle", "mods"} \/ osSolve.abort # "no"
                      THEN osSolve.abort ELSE "left"
      <3>1. osSolve' = [osSolve EXCEPT !.abort = a] /\ osGun' \in Guns \cup {NoGun}
        BY <2>2 DEF GunIsLeft
      <3>2. a \in Aborts /\ (osSolve.phase \notin {"idle", "mods"} => a # "no")
        BY <2>1 DEF Solves, Aborts
      <3>3. QED  BY <2>1, <3>1, <3>2, SolveChanges
    <2>3. CASE HidePanel \/ BuildUsed
      BY <2>1, <2>3 DEF HidePanel, BuildUsed
    <2>4. QED  BY <2>2, <2>3
  <1>3. DrawerTypes' /\ SolveIsOfTheGun'
    BY <1>1, <1>2 DEF DrawerInv, DrawerTypes, SolveIsOfTheGun, Solving, Point
  <1>4. PaneIsDrawn'
    BY <1>1, <1>2 DEF DrawerInv, PaneIsDrawn, PaneDrawn, Solving
  <1>5. QED  BY <1>3, <1>4 DEF DrawerInv

LEMMA SelectPointKeeps ==
  ASSUME DrawerInv, SelectPoint PROVE DrawerInv'
  <1>1. /\ osOpen /\ osPane.kind = "result" /\ ~Solving /\ osError' = FALSE
        /\ \E i \in 1..osExplore.points : osResult' = Point(osExplore, i)
        /\ RenderResult(FALSE)
        /\ UNCHANGED <<osPicker, osSolve, osGun, osOpen, osExplore>>
    BY DEF SelectPoint
  <1>2. osExplore.gun = osGun
    BY <1>1 DEF DrawerInv, PaneIsDrawn, PaneDrawn, PickerPane, SolvingPane, ErrorPane,
       EmptyPane, ResultPane, SolveIsOfTheGun
  <1>3. DrawerTypes'
    BY <1>1 DEF DrawerInv, DrawerTypes
  <1>4. SolveIsOfTheGun'
    BY <1>1, <1>2 DEF DrawerInv, SolveIsOfTheGun, Solving, Point
  <1>5. PaneIsDrawn'
    <2>1. FALSE \in BOOLEAN
      OBVIOUS
    <2>2. QED  BY <1>1, <1>3, <2>1, RenderDraws, Zenon
  <1>6. QED  BY <1>3, <1>4, <1>5 DEF DrawerInv

LEMMA TogglePickerKeeps ==
  ASSUME DrawerInv, TogglePicker PROVE DrawerInv'
  <1>1. /\ osPicker' = ~osPicker /\ ~Solving /\ RenderResult(FALSE)
        /\ UNCHANGED <<osSolve, osResult, osError, osGun, osOpen, osExplore>>
    BY DEF TogglePicker
  <1>2. DrawerTypes'
    BY <1>1 DEF DrawerInv, DrawerTypes
  <1>3. SolveIsOfTheGun'
    BY <1>1 DEF DrawerInv, SolveIsOfTheGun, Solving, Point
  <1>4. PaneIsDrawn'
    <2>1. FALSE \in BOOLEAN
      OBVIOUS
    <2>2. QED  BY <1>1, <1>2, <2>1, RenderDraws, Zenon
  <1>5. QED  BY <1>2, <1>3, <1>4 DEF DrawerInv

(* An image is asked for only of the result on show, a list is put in only  *)
(* if it is of it.                                                          *)
LEMMA SolveAnswersKeep ==
  ASSUME DrawerInv, ImageArrives \/ ManifestArrives PROVE DrawerInv'
  <1>1. UNCHANGED <<osGun, osOpen, osSolve, osExplore, osResult, osError, osPicker, osPane>>
    BY DEF ImageArrives, ManifestArrives
  <1>2. DrawerTypes' /\ SolveIsOfTheGun'
    BY <1>1 DEF DrawerInv, DrawerTypes, SolveIsOfTheGun, Solving, Point
  <1>3. PaneDrawn' = PaneDrawn
    BY <1>1 DEF PaneDrawn, Solving
  <1>4. CASE ImageArrives
    <2>1. /\ osImgCall = osResult /\ osImgCall' = NoGun
          /\ osImg'.of = osImgCall /\ osImg'.kind \in {"static", "drawn"}
          /\ UNCHANGED <<osManifest, osManifestCalls>>
      BY <1>4 DEF ImageArrives, DrawerInv, PaneIsDrawn
    <2>2. PaneIsDrawn'
      BY <1>1, <1>3, <2>1 DEF DrawerInv, PaneIsDrawn
    <2>3. QED  BY <1>2, <2>2 DEF DrawerInv
  <1>5. CASE ManifestArrives
    <2>1. PICK r \in osManifestCalls :
            /\ osManifestCalls' = osManifestCalls \ {r} /\ osManifest' = Listed(r)
            /\ UNCHANGED <<osImg, osImgCall>>
      BY <1>5 DEF ManifestArrives
    <2>2. PaneIsDrawn'
      BY <1>1, <1>3, <2>1 DEF DrawerInv, PaneIsDrawn, Listed
    <2>3. QED  BY <1>2, <2>2 DEF DrawerInv
  <1>6. QED  BY <1>4, <1>5

LEMMA OtherDrawerSteps ==
  ASSUME DrawerInv, ToggleKitbash \/ UseBuild \/ UNCHANGED osVars PROVE DrawerInv'
  <1>1. UNCHANGED <<osGun, osOpen, osSolve, osExplore, osResult, osError, osPicker, osView>>
    BY DEF ToggleKitbash, UseBuild, osVars, osView
  <1>2. DrawerTypes' /\ SolveIsOfTheGun'
    BY <1>1 DEF DrawerInv, DrawerTypes, SolveIsOfTheGun, Solving, Point
  <1>3. PaneIsDrawn'
    BY <1>1 DEF DrawerInv, PaneIsDrawn, PaneDrawn, Solving, osView
  <1>4. QED  BY <1>2, <1>3 DEF DrawerInv

(* One step per operation of the drawer.                                    *)
LEMMA DrawerInvKept == DrawerInv /\ [OptimizerSolveNext]_osVars => DrawerInv'
  BY SolveSteps, SolveDoneKeeps, SilentSolveSteps, StartSolveKeeps, ShowPanelKeeps,
     ChangeLanguageKeeps, DrawerCloses, SelectPointKeeps, TogglePickerKeeps, SolveAnswersKeep,
     OtherDrawerSteps DEF OptimizerSolveNext

(* An open drawer shows a result of the gun under it, of the chosen point,  *)
(* with its own image and parts, and says that it is solving exactly while  *)
(* it is, whatever is cancelled, closed, left or late (optimizer.js).       *)
THEOREM DrawerStaysRight == OptimizerSolveSpec => []DrawerIsRight
  BY DrawerInitInv, DrawerInvKept, DrawerInvMeansRight, PTL DEF OptimizerSolveSpec

--------------------------------------------------------------------------------
(* OptimizerFilters and OptimizerRanges, for every set of guns, of parts   *)
(* and of what fits.                                                       *)

(* What the user said of the parts of gun holds for the lists inc and exc. *)
Agrees(gun, said, inc, exc) ==
  /\ inc \cap exc = {}
  /\ \A p \in Fits[gun] :
       /\ said[p] = "lock" => p \in inc
       /\ said[p] = "ban" => p \in exc
       /\ said[p] = "free" /\ p \notin DefaultBans => p \notin inc \cup exc

FiltersSaid == {"untouched", "lock", "ban", "free"}
FilterSettings == [inc : SUBSET Parts, exc : SUBSET Parts, weights : Weights]

FiltersTyped ==
  /\ ofGun \in Guns \cup {NoGun} /\ ofFor \in Guns \cup {NoGun}
  /\ ofOpen \in BOOLEAN /\ ofInc \subseteq Parts /\ ofExc \subseteq Parts
  /\ ofWeights \in Weights /\ ofSaved \in [Guns -> FilterSettings \cup {NoGun}]
  /\ ofPresets \subseteq [locked : SUBSET Parts, banned : SUBSET Parts]
  /\ ofChosen \in [Guns -> [Parts -> FiltersSaid]]

FiltersInv ==
  /\ FiltersTyped
  /\ ofOpen => ofGun \in Guns /\ ofFor = ofGun
  /\ ofFor \in Guns => Agrees(ofFor, ofChosen[ofFor], ofInc, ofExc)
  /\ \A g \in Guns : Agrees(g, ofChosen[g], LoadedFilters(g).inc, LoadedFilters(g).exc)

(* More bans by default of parts that are not required change nothing.      *)
LEMMA MoreBans ==
  ASSUME NEW gun, NEW said, NEW inc, NEW exc, Agrees(gun, said, inc, exc),
         NEW D \in SUBSET DefaultBans, D \cap inc = {}
  PROVE  Agrees(gun, said, inc, exc \cup D)
  BY DEF Agrees

(* Settings that are loaded, saved ones or the defaults, have their types.  *)
LEMMA LoadedTyped ==
  ASSUME FiltersTyped, NEW g \in Guns
  PROVE  LoadedFilters(g) \in FilterSettings
  <1>1. Defaults \in FilterSettings
    BY DEF Defaults, FilterSettings, Weights
  <1>2. QED  BY <1>1 DEF LoadedFilters, FiltersTyped

(* Rendering the filters bans some default bans more, and none that is      *)
(* required.                                                                *)
LEMMA RenderBans ==
  ASSUME NEW inc, NEW exc \in SUBSET Parts, NEW exceptions, RenderFilters(inc, exc, exceptions)
  PROVE  \E D \in SUBSET DefaultBans : D \cap inc = {} /\ ofExc' = exc \cup D
  <1>1. CASE DataReady
    <2> DEFINE D == (DefaultBans \cap Available) \ (exceptions \cup inc)
    <2>1. D \in SUBSET DefaultBans /\ D \cap inc = {} /\ ofExc' = exc \cup D
      BY <1>1 DEF RenderFilters, WithDefaultBans
    <2>2. QED  BY <2>1
  <1>2. CASE ~DataReady
    <2>1. {} \in SUBSET DefaultBans /\ {} \cap inc = {} /\ ofExc' = exc \cup {}
      BY <1>2 DEF RenderFilters
    <2>2. QED  BY <2>1
  <1>3. QED  BY <1>1, <1>2

(* Saving the lists in memory, when they agree with what the user says now. *)
LEMMA SavedAgrees ==
  ASSUME FiltersInv, ofOpen, SaveSettings, ofInc' \in SUBSET Parts, ofExc' \in SUBSET Parts,
         ofWeights' \in Weights, UNCHANGED <<ofGun, ofOpen, ofFor>>,
         NEW said \in [Parts -> FiltersSaid], ofChosen' = [ofChosen EXCEPT ![ofGun] = said],
         Agrees(ofGun, said, ofInc', ofExc'),
         ofPresets' \subseteq [locked : SUBSET Parts, banned : SUBSET Parts]
  PROVE  FiltersInv'
  <1> DEFINE s == [inc |-> ofInc', exc |-> ofExc', weights |-> ofWeights']
  <1>1. ofGun \in Guns /\ ofFor = ofGun /\ ofGun # NoGun
    BY GunConstants DEF FiltersInv
  <1>2. s \in FilterSettings /\ s # NoGun /\ s.inc = ofInc' /\ s.exc = ofExc'
    BY FilterConstants DEF FilterSettings, Weights
  <1>3. ofSaved' = [ofSaved EXCEPT ![ofGun] = s]
    BY <1>1 DEF SaveSettings
  <1> HIDE DEF s
  <1>4. FiltersTyped'
    BY <1>1, <1>2, <1>3 DEF FiltersInv, FiltersTyped
  <1>5. \A g \in Guns : /\ ofSaved'[g] = IF g = ofGun THEN s ELSE ofSaved[g]
                        /\ ofChosen'[g] = IF g = ofGun THEN said ELSE ofChosen[g]
    BY <1>3 DEF FiltersInv, FiltersTyped
  <1>6. ASSUME NEW g \in Guns
        PROVE  Agrees(g, ofChosen'[g], LoadedFilters(g)'.inc, LoadedFilters(g)'.exc)
    <2>0. g # NoGun
      BY GunConstants
    <2>1. CASE g = ofGun
      <3>1. LoadedFilters(g)' = s
        BY <1>1, <1>2, <1>5, <2>0, <2>1 DEF LoadedFilters
      <3>2. QED  BY <1>2, <1>5, <2>1, <3>1
    <2>2. CASE g # ofGun
      <3>1. LoadedFilters(g)' = LoadedFilters(g) /\ ofChosen'[g] = ofChosen[g]
        BY <1>5, <2>2 DEF LoadedFilters
      <3>2. QED  BY <3>1 DEF FiltersInv
    <2>3. QED  BY <2>1, <2>2
  <1>7. ofChosen'[ofFor'] = said /\ ofFor' = ofGun
    BY <1>1, <1>5
  <1>8. Agrees(ofFor, ofChosen[ofFor], ofInc, ofExc)'
    BY <1>7 DEF Agrees
  <1>9. QED  BY <1>1, <1>4, <1>6, <1>8 DEF FiltersInv, Agrees

(* A click that sets the lists, given that they agree with what the user    *)
(* has now said of the gun: the lists, the bans that rendering adds and     *)
(* what is saved all agree with it.                                         *)
LEMMA SetFiltersKeeps ==
  ASSUME FiltersInv, ofOpen, NEW inc \in SUBSET Parts, NEW exc \in SUBSET Parts, NEW ids,
         NEW chosen, \A p \in DOMAIN chosen : chosen[p] \in FiltersSaid,
         NEW said, said = [p \in Parts |-> IF p \in DOMAIN chosen THEN chosen[p] ELSE ofChosen[ofGun][p]],
         Agrees(ofGun, said, inc, exc),
         SetFilters(inc, exc, ids, chosen),
         ofPresets' \subseteq [locked : SUBSET Parts, banned : SUBSET Parts]
  PROVE  FiltersInv'
  <1>1. ofGun \in Guns
    BY DEF FiltersInv
  <1>2. said \in [Parts -> FiltersSaid]
    BY <1>1 DEF FiltersInv, FiltersTyped
  <1>3. PICK D \in SUBSET DefaultBans : D \cap inc = {} /\ ofExc' = exc \cup D
    <2>1. RenderFilters(inc, exc, ofExceptions')
      BY DEF SetFilters
    <2> DEFINE D == (DefaultBans \cap Available) \ (ofExceptions' \cup inc)
    <2>2. CASE DataReady
      <3>1. D \in SUBSET DefaultBans /\ D \cap inc = {} /\ ofExc' = exc \cup D
        BY <2>1, <2>2 DEF RenderFilters, WithDefaultBans
      <3>2. QED  BY <3>1
    <2>3. CASE ~DataReady
      <3>1. {} \in SUBSET DefaultBans /\ {} \cap inc = {} /\ ofExc' = exc \cup {}
        BY <2>1, <2>3 DEF RenderFilters
      <3>2. QED  BY <3>1
    <2>4. QED  BY <2>2, <2>3
  <1>4. ofExc' \in SUBSET Parts /\ ofInc' = inc /\ ofWeights' \in Weights
    BY <1>3, FilterConstants DEF SetFilters, FiltersInv, FiltersTyped
  <1>5. Agrees(ofGun, said, ofInc', ofExc')
    BY <1>3, <1>4, MoreBans
  <1>6. ofChosen' = [ofChosen EXCEPT ![ofGun] = said]
    BY DEF SetFilters
  <1>7. SaveSettings /\ UNCHANGED <<ofGun, ofOpen, ofFor>>
    BY DEF SetFilters
  <1>8. QED  BY <1>2, <1>4, <1>5, <1>6, <1>7, SavedAgrees

(* A click on one part.                                                     *)
LEMMA PartClicked ==
  ASSUME FiltersInv, ofOpen, NEW inc \in SUBSET Parts, NEW exc \in SUBSET Parts,
         NEW p \in Parts, NEW what \in FiltersSaid, NEW said,
         said = [ofChosen[ofGun] EXCEPT ![p] = what], Agrees(ofGun, said, inc, exc),
         SetFilters(inc, exc, {p}, Alone(p, what)), UNCHANGED ofPresets
  PROVE  FiltersInv'
  <1> DEFINE chosen == Alone(p, what)
  <1>1. DOMAIN chosen = {p} /\ \A q \in DOMAIN chosen : chosen[q] = what
    BY DEF Alone
  <1>2. ofChosen[ofGun] \in [Parts -> FiltersSaid]
    BY DEF FiltersInv, FiltersTyped
  <1>3. ofPresets' \subseteq [locked : SUBSET Parts, banned : SUBSET Parts]
    BY DEF FiltersInv, FiltersTyped
  <1> HIDE DEF chosen
  <1>4. said = [q \in Parts |-> IF q \in DOMAIN chosen THEN chosen[q] ELSE ofChosen[ofGun][q]]
    BY <1>1, <1>2
  <1>5. SetFilters(inc, exc, {p}, chosen)
    BY DEF chosen
  <1>6. QED  BY <1>1, <1>3, <1>4, <1>5, SetFiltersKeeps

(* The drawer starts without a choice of the user's.                        *)
LEMMA FiltersStart == OptimizerFiltersInit => FiltersInv
  <1> SUFFICES ASSUME OptimizerFiltersInit PROVE FiltersInv
    OBVIOUS
  <1>1. FiltersTyped
    BY DEF OptimizerFiltersInit, FiltersTyped, Weights, FiltersSaid, FilterSettings
  <1>2. \A g \in Guns : LoadedFilters(g) = Defaults
    BY DEF OptimizerFiltersInit, LoadedFilters
  <1>3. \A g \in Guns : \A p \in Fits[g] : ofChosen[g][p] = "untouched"
    BY FilterConstants DEF OptimizerFiltersInit
  <1>4. QED  BY <1>1, <1>2, <1>3, GunConstants DEF OptimizerFiltersInit, FiltersInv, Agrees, Defaults

(* Steps that leave what is chosen and saved alone.                         *)
LEMMA FiltersLeft ==
  ASSUME FiltersInv, FiltersTyped', UNCHANGED <<ofSaved, ofChosen>>,
         ofOpen' => ofGun' \in Guns /\ ofFor' = ofGun',
         ofFor' \in Guns => Agrees(ofFor', ofChosen[ofFor'], ofInc', ofExc')
  PROVE  FiltersInv'
  <1>1. \A g : LoadedFilters(g)' = LoadedFilters(g)
    BY DEF LoadedFilters
  <1>2. QED  BY <1>1 DEF FiltersInv, Agrees

(* One step per operation on filters and presets.                           *)
LEMMA FiltersStep ==
  ASSUME FiltersInv, [OptimizerFiltersNext]_ofVars
  PROVE  FiltersInv'
  <1>t. FiltersTyped /\ FilterConstants
    BY FilterConstants DEF FiltersInv
  <1>o. ofOpen => ofGun \in Guns /\ ofFor = ofGun /\ Agrees(ofGun, ofChosen[ofGun], ofInc, ofExc)
    BY DEF FiltersInv
  <1>p. ofOpen => Fits[ofGun] \subseteq Parts
    BY <1>o, <1>t DEF FilterConstants
  <1>1. CASE SelectGun
    BY <1>1, FiltersLeft DEF SelectGun, ofMemory, FiltersInv, FiltersTyped
  <1>2. CASE OpenDrawer
    <2>0. ofGun \in Guns /\ ofOpen' = TRUE /\ ofFor' = ofGun /\ UNCHANGED <<ofGun, ofData, ofSaved, ofPresets, ofChosen>>
      BY <1>2, <1>t DEF OpenDrawer, FiltersTyped
    <2>1. CASE ofFor = ofGun
      <3>1. ofInc' = ofInc /\ ofWeights' = ofWeights /\ RenderFilters(ofInc, ofExc, ofExceptions)
        BY <1>2, <2>1 DEF OpenDrawer
      <3>2. PICK D \in SUBSET DefaultBans : D \cap ofInc = {} /\ ofExc' = ofExc \cup D
        BY <3>1, <1>t, RenderBans DEF FiltersTyped
      <3>3. Agrees(ofGun, ofChosen[ofGun], ofInc, ofExc \cup D)
        BY <2>0, <2>1, <3>2, MoreBans DEF FiltersInv
      <3>4. FiltersTyped'
        BY <1>t, <2>0, <3>1, <3>2 DEF FiltersTyped, FilterConstants
      <3>5. QED  BY <2>0, <3>1, <3>2, <3>3, <3>4, FiltersLeft
    <2>2. CASE ofFor # ofGun
      <3> DEFINE s == LoadedFilters(ofGun)
      <3>1. ofInc' = s.inc /\ ofWeights' = s.weights /\ RenderFilters(s.inc, s.exc, {})
        BY <1>2, <2>2 DEF OpenDrawer
      <3>2. s \in FilterSettings
        BY <1>t, <2>0, LoadedTyped
      <3>3. s.inc \in SUBSET Parts /\ s.exc \in SUBSET Parts /\ s.weights \in Weights
        BY <3>2 DEF FilterSettings
      <3>4. Agrees(ofGun, ofChosen[ofGun], s.inc, s.exc)
        BY <2>0 DEF FiltersInv
      <3> HIDE DEF s
      <3>5. PICK D \in SUBSET DefaultBans : D \cap s.inc = {} /\ ofExc' = s.exc \cup D
        <4>1. PICK i, e : i = s.inc /\ e = s.exc
          OBVIOUS
        <4>2. e \in SUBSET Parts /\ RenderFilters(i, e, {})
          BY <3>1, <3>3, <4>1
        <4>3. \E D \in SUBSET DefaultBans : D \cap i = {} /\ ofExc' = e \cup D
          BY <4>2, RenderBans
        <4>4. QED  BY <4>1, <4>3
      <3>6. Agrees(ofGun, ofChosen[ofGun], s.inc, s.exc \cup D)
        BY <3>4, <3>5, MoreBans
      <3>7. FiltersTyped'
        BY <1>t, <2>0, <3>1, <3>3, <3>5 DEF FiltersTyped, FilterConstants
      <3>8. QED  BY <2>0, <3>1, <3>5, <3>6, <3>7, FiltersLeft
    <2>3. QED  BY <2>1, <2>2
  <1>3. CASE CloseDrawer
    BY <1>3, FiltersLeft DEF CloseDrawer, ofMemory, FiltersInv, FiltersTyped
  <1>4. CASE SetWeights
    <2>1. ofOpen /\ ofWeights' \in Weights /\ UNCHANGED <<ofInc, ofExc, ofGun, ofOpen, ofFor, ofChosen, ofPresets>>
          /\ SaveSettings
      BY <1>4 DEF SetWeights, Click
    <2>2. ofChosen[ofGun] \in [Parts -> FiltersSaid] /\ ofChosen' = [ofChosen EXCEPT ![ofGun] = ofChosen[ofGun]]
      BY <1>o, <1>t, <2>1 DEF FiltersTyped
    <2>3. ofInc' \in SUBSET Parts /\ ofExc' \in SUBSET Parts
          /\ ofPresets' \subseteq [locked : SUBSET Parts, banned : SUBSET Parts]
      BY <1>t, <2>1 DEF FiltersTyped
    <2>4. QED  BY <1>o, <2>1, <2>2, <2>3, SavedAgrees
  <1>s. ASSUME ofOpen, NEW p \in Fits[ofGun], NEW what \in FiltersSaid, NEW inc, NEW exc,
               inc \cap exc = {},
               \A q \in Fits[ofGun] : q # p => (q \in inc <=> q \in ofInc) /\ (q \in exc <=> q \in ofExc),
               what = "lock" => p \in inc, what = "ban" => p \in exc,
               what = "free" => p \notin inc \cup exc
        PROVE  p \in Parts /\ Agrees(ofGun, [ofChosen[ofGun] EXCEPT ![p] = what], inc, exc)
    <2> DEFINE said == [ofChosen[ofGun] EXCEPT ![p] = what]
    <2>1. p \in Parts /\ said[p] = what /\ \A q \in Parts : q # p => said[q] = ofChosen[ofGun][q]
      BY <1>s, <1>o, <1>p, <1>t DEF FiltersTyped
    <2> HIDE DEF said
    <2>2. Agrees(ofGun, said, inc, exc)
      BY <1>s, <1>o, <1>p, <2>1 DEF Agrees
    <2>3. QED  BY <2>1, <2>2 DEF said
  <1>5. CASE ToggleLock
    <2>0. ofOpen /\ UNCHANGED ofPresets
      BY <1>5 DEF ToggleLock, Click
    <2>1. PICK p \in Fits[ofGun] :
       IF p \in ofInc
       THEN SetFilters(ofInc \ {p}, ofExc, {p}, Alone(p, "free"))
       ELSE SetFilters(ofInc \cup {p}, ofExc \ {p}, {p}, Alone(p, "lock"))
      BY <1>5 DEF ToggleLock
    <2>2. CASE p \in ofInc
      <3> DEFINE inc == ofInc \ {p}  exc == ofExc
      <3>1. inc \in SUBSET Parts /\ exc \in SUBSET Parts /\ "free" \in FiltersSaid
            /\ SetFilters(inc, exc, {p}, Alone(p, "free"))
        BY <1>t, <2>1, <2>2 DEF FiltersTyped, FiltersSaid
      <3>a. /\ inc \cap exc = {}
            /\ \A q \in Fits[ofGun] : q # p => (q \in inc <=> q \in ofInc) /\ (q \in exc <=> q \in ofExc)
            /\ "free" = "lock" => p \in inc
            /\ "free" = "ban" => p \in exc
            /\ "free" = "free" => p \notin inc \cup exc
        BY <1>o, <2>0, <2>2 DEF Agrees
      <3> HIDE DEF inc, exc
      <3>2. p \in Parts /\ Agrees(ofGun, [ofChosen[ofGun] EXCEPT ![p] = "free"], inc, exc)
        BY <1>s, <2>0, <3>1, <3>a
      <3>3. QED  BY <2>0, <3>1, <3>2, PartClicked
    <2>3. CASE p \notin ofInc
      <3> DEFINE inc == ofInc \cup {p}  exc == ofExc \ {p}
      <3>1. inc \in SUBSET Parts /\ exc \in SUBSET Parts /\ "lock" \in FiltersSaid
            /\ SetFilters(inc, exc, {p}, Alone(p, "lock"))
        BY <1>t, <1>p, <2>0, <2>1, <2>3 DEF FiltersTyped, FiltersSaid
      <3>a. /\ inc \cap exc = {}
            /\ \A q \in Fits[ofGun] : q # p => (q \in inc <=> q \in ofInc) /\ (q \in exc <=> q \in ofExc)
            /\ "lock" = "lock" => p \in inc
            /\ "lock" = "ban" => p \in exc
            /\ "lock" = "free" => p \notin inc \cup exc
        BY <1>o, <2>0, <2>3 DEF Agrees
      <3> HIDE DEF inc, exc
      <3>2. p \in Parts /\ Agrees(ofGun, [ofChosen[ofGun] EXCEPT ![p] = "lock"], inc, exc)
        BY <1>s, <2>0, <3>1, <3>a
      <3>3. QED  BY <2>0, <3>1, <3>2, PartClicked
    <2>4. QED  BY <2>2, <2>3
  <1>6. CASE ToggleBan
    <2>0. ofOpen /\ UNCHANGED ofPresets
      BY <1>6 DEF ToggleBan, Click
    <2>1. PICK p \in Fits[ofGun] :
       IF p \in ofExc
       THEN SetFilters(ofInc, ofExc \ {p}, {p}, Alone(p, "free"))
       ELSE SetFilters(ofInc \ {p}, ofExc \cup {p}, {p}, Alone(p, "ban"))
      BY <1>6 DEF ToggleBan
    <2>2. CASE p \in ofExc
      <3> DEFINE inc == ofInc  exc == ofExc \ {p}
      <3>1. inc \in SUBSET Parts /\ exc \in SUBSET Parts /\ "free" \in FiltersSaid
            /\ SetFilters(inc, exc, {p}, Alone(p, "free"))
        BY <1>t, <2>1, <2>2 DEF FiltersTyped, FiltersSaid
      <3>a. /\ inc \cap exc = {}
            /\ \A q \in Fits[ofGun] : q # p => (q \in inc <=> q \in ofInc) /\ (q \in exc <=> q \in ofExc)
            /\ "free" = "lock" => p \in inc
            /\ "free" = "ban" => p \in exc
            /\ "free" = "free" => p \notin inc \cup exc
        BY <1>o, <2>0, <2>2 DEF Agrees
      <3> HIDE DEF inc, exc
      <3>2. p \in Parts /\ Agrees(ofGun, [ofChosen[ofGun] EXCEPT ![p] = "free"], inc, exc)
        BY <1>s, <2>0, <3>1, <3>a
      <3>3. QED  BY <2>0, <3>1, <3>2, PartClicked
    <2>3. CASE p \notin ofExc
      <3> DEFINE inc == ofInc \ {p}  exc == ofExc \cup {p}
      <3>1. inc \in SUBSET Parts /\ exc \in SUBSET Parts /\ "ban" \in FiltersSaid
            /\ SetFilters(inc, exc, {p}, Alone(p, "ban"))
        BY <1>t, <1>p, <2>0, <2>1, <2>3 DEF FiltersTyped, FiltersSaid
      <3>a. /\ inc \cap exc = {}
            /\ \A q \in Fits[ofGun] : q # p => (q \in inc <=> q \in ofInc) /\ (q \in exc <=> q \in ofExc)
            /\ "ban" = "lock" => p \in inc
            /\ "ban" = "ban" => p \in exc
            /\ "ban" = "free" => p \notin inc \cup exc
        BY <1>o, <2>0, <2>3 DEF Agrees
      <3> HIDE DEF inc, exc
      <3>2. p \in Parts /\ Agrees(ofGun, [ofChosen[ofGun] EXCEPT ![p] = "ban"], inc, exc)
        BY <1>s, <2>0, <3>1, <3>a
      <3>3. QED  BY <2>0, <3>1, <3>2, PartClicked
    <2>4. QED  BY <2>2, <2>3
  <1>7. CASE RemoveTag
    <2>0. ofOpen /\ UNCHANGED ofPresets
      BY <1>7 DEF RemoveTag, Click
    <2>1. PICK p \in ofInc \cup ofExc : SetFilters(ofInc \ {p}, ofExc \ {p}, {p}, Alone(p, "free"))
      BY <1>7 DEF RemoveTag
    <2> DEFINE inc == ofInc \ {p}  exc == ofExc \ {p}  said == [ofChosen[ofGun] EXCEPT ![p] = "free"]
    <2>2. inc \in SUBSET Parts /\ exc \in SUBSET Parts /\ "free" \in FiltersSaid /\ p \in Parts
          /\ SetFilters(inc, exc, {p}, Alone(p, "free"))
      BY <1>t, <2>1 DEF FiltersTyped, FiltersSaid
    <2>3. \A q \in Parts : said[q] = IF q = p THEN "free" ELSE ofChosen[ofGun][q]
      BY <1>o, <1>t, <2>0, <2>2 DEF FiltersTyped
    <2> HIDE DEF said
    <2>4. Agrees(ofGun, said, inc, exc)
      BY <1>o, <1>p, <2>0, <2>3 DEF Agrees
    <2>5. said = [ofChosen[ofGun] EXCEPT ![p] = "free"]
      BY DEF said
    <2> HIDE DEF inc, exc
    <2>6. QED  BY <2>0, <2>2, <2>4, <2>5, PartClicked
  <1>8. CASE ClearFilters
    <2> DEFINE chosen == [p \in ofInc \cup ofExc |-> "free"]
               said == [p \in Parts |-> IF p \in DOMAIN chosen THEN chosen[p] ELSE ofChosen[ofGun][p]]
    <2>1. ofOpen /\ SetFilters({}, {}, DefaultBans, chosen)
      BY <1>8 DEF ClearFilters, Click
    <2>2. ofPresets' \subseteq [locked : SUBSET Parts, banned : SUBSET Parts]
      BY <1>8, <1>t DEF ClearFilters, FiltersTyped
    <2>3. \A p \in DOMAIN chosen : chosen[p] \in FiltersSaid
      BY DEF FiltersSaid
    <2>4. \A p \in Parts : said[p] = IF p \in ofInc \cup ofExc THEN "free" ELSE ofChosen[ofGun][p]
      OBVIOUS
    <2>5. said = [p \in Parts |-> IF p \in DOMAIN chosen THEN chosen[p] ELSE ofChosen[ofGun][p]]
      OBVIOUS
    <2> HIDE DEF said, chosen
    <2>6. Agrees(ofGun, said, {}, {})
      BY <1>o, <1>p, <2>1, <2>4 DEF Agrees
    <2>7. QED  BY <2>1, <2>2, <2>3, <2>5, <2>6, SetFiltersKeeps
  <1>9. CASE ApplyPreset
    <2>1. PICK preset \in ofPresets :
       LET locked == preset.locked \cap Available
           banned == preset.banned \cap Available
       IN SetFilters((ofInc \cup locked) \ banned, (ofExc \ locked) \cup banned,
                     DefaultBans,
                     [p \in locked \cup banned |-> IF p \in banned THEN "ban" ELSE "lock"])
      BY <1>9 DEF ApplyPreset
    <2> DEFINE locked == preset.locked \cap Available
               banned == preset.banned \cap Available
               inc == (ofInc \cup locked) \ banned  exc == (ofExc \ locked) \cup banned
               chosen == [p \in locked \cup banned |-> IF p \in banned THEN "ban" ELSE "lock"]
               said == [p \in Parts |-> IF p \in DOMAIN chosen THEN chosen[p] ELSE ofChosen[ofGun][p]]
    <2>2. ofOpen /\ SetFilters(inc, exc, DefaultBans, chosen)
      BY <1>9, <2>1 DEF ApplyPreset, Click
    <2>3. ofPresets' \subseteq [locked : SUBSET Parts, banned : SUBSET Parts]
      BY <1>9, <1>t DEF ApplyPreset, FiltersTyped
    <2>4. locked \subseteq Parts /\ banned \subseteq Parts
      BY <1>t DEF FiltersTyped
    <2>5. \A p \in DOMAIN chosen : chosen[p] \in FiltersSaid
      BY DEF FiltersSaid
    <2>6. \A p \in Parts : said[p] = IF p \in banned THEN "ban"
                                     ELSE IF p \in locked THEN "lock" ELSE ofChosen[ofGun][p]
      OBVIOUS
    <2>7. said = [p \in Parts |-> IF p \in DOMAIN chosen THEN chosen[p] ELSE ofChosen[ofGun][p]]
      OBVIOUS
    <2> HIDE DEF said, chosen, locked, banned
    <2>8. Agrees(ofGun, said, inc, exc)
      BY <1>o, <1>p, <2>2, <2>6 DEF Agrees
    <2>9. inc \in SUBSET Parts /\ exc \in SUBSET Parts
      BY <1>t, <2>4 DEF FiltersTyped
    <2> HIDE DEF inc, exc
    <2>10. QED  BY <2>2, <2>3, <2>5, <2>7, <2>8, <2>9, SetFiltersKeeps
  <1>10. CASE SavePreset
    <2>1. ofOpen /\ ofWeights' \in Weights /\ UNCHANGED <<ofInc, ofExc, ofGun, ofOpen, ofFor, ofChosen>>
          /\ SaveSettings
      BY <1>10, <1>t DEF SavePreset, Click, FiltersTyped
    <2>2. ofChosen[ofGun] \in [Parts -> FiltersSaid] /\ ofChosen' = [ofChosen EXCEPT ![ofGun] = ofChosen[ofGun]]
      BY <1>o, <1>t, <2>1 DEF FiltersTyped
    <2>3. ofInc' \in SUBSET Parts /\ ofExc' \in SUBSET Parts
          /\ ofPresets' \subseteq [locked : SUBSET Parts, banned : SUBSET Parts]
      BY <1>10, <1>t, <2>1 DEF SavePreset, FiltersTyped
    <2>4. QED  BY <1>o, <2>1, <2>2, <2>3, SavedAgrees
  <1>11. CASE DeletePreset
    BY <1>11, FiltersLeft DEF DeletePreset, ofMemory, FiltersInv, FiltersTyped
  <1>12. CASE SolveWithFilters
    <2>1. ofOpen /\ UNCHANGED <<ofGun, ofOpen, ofFor, ofInc, ofWeights, ofSaved, ofPresets, ofChosen>>
      BY <1>12 DEF SolveWithFilters
    <2> DEFINE D == ofExc' \ ofExc
    <2>2. D \in SUBSET DefaultBans /\ D \cap ofInc = {} /\ ofExc' = ofExc \cup D
      BY <1>12 DEF SolveWithFilters, WithDefaultBans
    <2> HIDE DEF D
    <2>3. Agrees(ofGun, ofChosen[ofGun], ofInc, ofExc \cup D)
      BY <1>o, <2>1, <2>2, MoreBans
    <2>4. FiltersTyped'
      BY <1>t, <2>1, <2>2 DEF FiltersTyped, FilterConstants
    <2>5. QED  BY <1>o, <2>1, <2>2, <2>3, <2>4, FiltersLeft
  <1>13. CASE PartsArrive
    <2>1. UNCHANGED <<ofGun, ofOpen, ofFor, ofInc, ofWeights, ofSaved, ofPresets, ofChosen>>
      BY <1>13 DEF PartsArrive
    <2> DEFINE D == ofExc' \ ofExc
    <2>2. D \in SUBSET DefaultBans /\ D \cap ofInc = {} /\ ofExc' = ofExc \cup D
      BY <1>13 DEF PartsArrive
    <2> HIDE DEF D
    <2>3. ofFor \in Guns => Agrees(ofFor, ofChosen[ofFor], ofInc, ofExc \cup D)
      BY <2>2, MoreBans DEF FiltersInv
    <2>4. FiltersTyped'
      BY <1>t, <2>1, <2>2 DEF FiltersTyped, FilterConstants
    <2>5. QED  BY <1>o, <2>1, <2>2, <2>3, <2>4, FiltersLeft
  <1>14. CASE PartsFail
    BY <1>14, FiltersLeft DEF PartsFail, ofMemory, FiltersInv, FiltersTyped
  <1>15. CASE ReloadPage
    <2>1. /\ ofGun' = NoGun /\ ofOpen' = FALSE /\ ofFor' = NoGun /\ ofInc' = {} /\ ofExc' = {}
          /\ ofWeights' = "balanced" /\ UNCHANGED <<ofSaved, ofPresets, ofChosen>>
      BY <1>15 DEF ReloadPage
    <2>2. FiltersTyped'
      BY <1>t, <2>1 DEF FiltersTyped, Weights
    <2>3. QED  BY <2>1, <2>2, GunConstants, FiltersLeft
  <1>16. CASE UNCHANGED ofVars
    BY <1>16, FiltersLeft DEF ofVars, ofMemory, FiltersInv, FiltersTyped
  <1>17. QED
    BY <1>1, <1>2, <1>3, <1>4, <1>5, <1>6, <1>7, <1>8, <1>9, <1>10, <1>11, <1>12, <1>13,
       <1>14, <1>15, <1>16 DEF OptimizerFiltersNext

(* The invariant says what the run checks.                                  *)
LEMMA FiltersHold == FiltersInv => FiltersAreTheUsers
  BY DEF FiltersInv, FiltersAreTheUsers, Agrees

--------------------------------------------------------------------------------
RangesInv == ConstraintsAreBackfilled

(* The spinner turns on only with a floor that is being computed.           *)
LEMMA FloorFetched ==
  ASSUME rgFetching => rgFloorCalls # {}, FetchFloor
  PROVE  rgFetching' => rgFloorCalls' # {}
  BY DEF FetchFloor, rgFloorVars

(* The ranges start unknown.                                                *)
LEMMA RangesStart == OptimizerRangesInit => RangesInv
  BY DEF OptimizerRangesInit, RangesInv, ConstraintsAreBackfilled

(* One step per operation on the ranges.                                    *)
LEMMA RangesStep ==
  ASSUME RangesInv, [OptimizerRangesNext]_rgVars
  PROVE  RangesInv'
  <1>f. rgFetching => rgFloorCalls # {}
    BY DEF RangesInv, ConstraintsAreBackfilled
  <1>1. CASE LeaveForGun
    BY <1>1 DEF LeaveForGun, RangesInv, ConstraintsAreBackfilled, rgFloorVars, rgConstraint
  <1>2. CASE OpenRanges
    <2>1. CASE rgFor = rgGun
      BY <1>2, <2>1 DEF OpenRanges, RangesInv, ConstraintsAreBackfilled, rgFloorVars, Backfilled
    <2>2. CASE rgFor # rgGun
      BY <1>2, <2>2 DEF OpenRanges, RangesInv, ConstraintsAreBackfilled, rgFloorVars, Backfilled
    <2>3. QED  BY <2>1, <2>2
  <1>3. CASE CloseRanges
    BY <1>3 DEF CloseRanges, RangesInv, ConstraintsAreBackfilled, rgFloorVars, rgConstraint
  <1>4. CASE ChangeMarket
    BY <1>4 DEF ChangeMarket, RangesInv, ConstraintsAreBackfilled, rgConstraint
  <1>5. CASE RangesArrive
    <2>1. rgFetching' => rgFloorCalls' # {}
      BY <1>5, <1>f, FloorFetched DEF RangesArrive, rgFloorVars
    <2>2. rgValue' = Backfilled(rgOn, rgValue) /\ rgOn' = rgOn
      BY <1>5 DEF RangesArrive
    <2>3. QED  BY <2>1, <2>2 DEF RangesInv, ConstraintsAreBackfilled, Backfilled
  <1>6. CASE RangesFail
    BY <1>6 DEF RangesFail, RangesInv, ConstraintsAreBackfilled, rgFloorVars, rgConstraint
  <1>7. CASE FloorArrives
    BY <1>7 DEF FloorArrives, RangesInv, ConstraintsAreBackfilled, rgConstraint
  <1>8. CASE ToggleSpread
    <2>1. rgFetching' => rgFloorCalls' # {}
      BY <1>8, <1>f, FloorFetched DEF ToggleSpread, rgFloorVars
    <2>2. rgOn' /\ rgApplied' # NoGun => rgValue' # "placeholder"
      BY <1>8 DEF ToggleSpread, Backfilled
    <2>3. QED  BY <2>1, <2>2 DEF RangesInv, ConstraintsAreBackfilled
  <1>9. CASE ToggleExactFloor
    <2>1. rgFetching' => rgFloorCalls' # {}
      BY <1>9, <1>f, FloorFetched DEF ToggleExactFloor, rgFloorVars
    <2>2. QED  BY <1>9, <2>1 DEF ToggleExactFloor, RangesInv, ConstraintsAreBackfilled
  <1>10. CASE MoveSpread
    BY <1>10 DEF MoveSpread, RangesInv, ConstraintsAreBackfilled, rgFloorVars
  <1>11. CASE ResetConstraints
    BY <1>11 DEF ResetConstraints, RangesInv, ConstraintsAreBackfilled, rgFloorVars
  <1>12. CASE UNCHANGED rgVars
    BY <1>12 DEF rgVars, RangesInv, ConstraintsAreBackfilled, rgFloorVars, rgConstraint
  <1>13. QED
    BY <1>1, <1>2, <1>3, <1>4, <1>5, <1>6, <1>7, <1>8, <1>9, <1>10, <1>11, <1>12
       DEF OptimizerRangesNext

--------------------------------------------------------------------------------
(* Graph, for every range of the slider and every set of points.           *)

GraphSpec == GraphInit /\ [][GraphNext]_grVars

Views == [zoom : MinZoom..MaxZoom, pan : Int]
Steps == [zoom : Int, pan : Int]

(* An animation is on its way to the view that was asked for last.         *)
ZoomInv ==
  /\ grView \in Views \cup {AutoFit} /\ grTarget \in Views \cup {AutoFit}
  /\ grWheel \in Steps /\ grPan \in Int
  /\ grLerp \in BOOLEAN /\ (grLerp <=> grTarget # AutoFit)
  /\ grChart = "graph" /\ ~grLerp => grAsked = grView
  /\ grChart = "graph" /\ grLerp => grAsked = IF grToAuto THEN AutoFit ELSE grTarget

SelectionInv ==
  SelectionIsOfOneKind /\ grMode \in {"none", "empty", "guns", "attachments"}

GraphInv == ZoomInv /\ SelectionInv

(* Automatic fitting is no view of its own.                                 *)
LEMMA ViewsAreNotAuto == AutoFit \notin Views /\ Still \in Views /\ AutoFit # Still
  <1>1. MinZoom \in Int /\ MaxZoom \in Int /\ MinZoom <= 0 /\ 0 <= MaxZoom
    BY GraphConstants
  <1>2. AutoFit \notin [zoom : Int, pan : Int]
    BY Zenon, GraphConstants
  <1>3. Views \subseteq [zoom : Int, pan : Int]
    BY <1>1 DEF Views
  <1>4. Still \in Views
    BY <1>1 DEF Still, Views
  <1>5. QED  BY <1>2, <1>3, <1>4

(* Clamping brings any zoom and pan into range.                             *)
LEMMA ClampedIsAView ==
  ASSUME NEW v \in [zoom : Int, pan : Int]
  PROVE  Clamped(v) \in Views
  <1>1. MinZoom \in Int /\ MaxZoom \in Int /\ MinZoom <= 0 /\ 0 <= MaxZoom
    BY GraphConstants
  <1>2. CASE v.zoom < MinZoom
    BY <1>1, <1>2 DEF Clamped, Views
  <1>3. CASE ~(v.zoom < MinZoom)
    <2>1. Within(MinZoom, MaxZoom, v.zoom) \in MinZoom..MaxZoom
      BY <1>1 DEF Within
    <2>2. Clamped(v) = [v EXCEPT !.zoom = Within(MinZoom, MaxZoom, v.zoom)]
      BY <1>3 DEF Clamped
    <2>3. QED  BY <2>1, <2>2 DEF Views
  <1>4. QED  BY <1>2, <1>3

(* Panning keeps the zoom, and what it clamps is in range.                  *)
LEMMA PannedStays ==
  ASSUME NEW by \in Int
  PROVE  /\ \A v \in Views : Panned(v, by) \in Views
         /\ \A v \in Steps : Panned(v, by) \in Steps
  <1>1. MaxPan \in Nat
    BY GraphConstants
  <1>2. ASSUME NEW p \in Int PROVE Within(-MaxPan, MaxPan, p + by) \in Int
    BY <1>1 DEF Within
  <1>3. QED  BY <1>2 DEF Panned, Views, Steps

(* What is shown and what a turn of the wheel starts from are views in      *)
(* range.                                                                   *)
LEMMA ShownAndBase ==
  ASSUME ZoomInv
  PROVE  Shown \in Views /\ Base \in Views
  BY ViewsAreNotAuto DEF ZoomInv, Shown, Base

(* A view is also a place on the way to one.                                *)
LEMMA ViewsAreSteps == Views \subseteq Steps
  <1>1. MinZoom \in Int /\ MaxZoom \in Int
    BY GraphConstants
  <1>2. QED  BY <1>1 DEF Views, Steps

(* A drawing of a view that becomes the one asked for.                     *)
LEMMA DrawnIsAsked ==
  ASSUME ZoomInv, FrameDrawn, grView' \in Views \cup {AutoFit}, grChart' = grChart,
         grAsked' = grView', grWheel' \in Steps, grPan' \in Int
  PROVE  ZoomInv'
  BY DEF ZoomInv, FrameDrawn, RedrawStops

(* A drawing of the view there is.                                         *)
LEMMA DrawnAgain ==
  ASSUME ZoomInv, FrameDrawn, UNCHANGED <<grChart, grView, grWheel, grPan>>,
         grAsked' = IF RedrawStops THEN grView ELSE grAsked
  PROVE  ZoomInv'
  BY DEF ZoomInv, FrameDrawn, RedrawStops

--------------------------------------------------------------------------------

(* The zoom over one step of the graph.                                     *)
LEMMA ZoomSteps ==
  ASSUME ZoomInv, GraphNext
  PROVE  ZoomInv'
  <1>0. /\ grWheel \in Steps /\ grPan \in Int /\ grView \in Views \cup {AutoFit}
        /\ grWheel.zoom \in Int /\ grWheel.pan \in Int
    BY DEF ZoomInv, Steps
  <1>0a. Still \in Steps /\ Still \in Views /\ 0 \in Int /\ AutoFit \notin Views
    BY ViewsAreNotAuto, ViewsAreSteps
  <1>1. CASE TurnWheel
    <2>1. PICK zoom, pan \in {-1, 0, 1} :
            grWheel' = [zoom |-> Within(-2, 2, grWheel.zoom + zoom),
                        pan |-> Within(-1, 1, grWheel.pan + pan)]
      BY <1>1 DEF TurnWheel
    <2>2. grWheel' \in Steps
      BY <1>0, <2>1 DEF Within, Steps
    <2>3. UNCHANGED <<grChart, grView, grTarget, grToAuto, grLerp, grPan, grAsked>>
      BY <1>1 DEF TurnWheel
    <2>4. QED  BY <2>2, <2>3 DEF ZoomInv
  <1>2. CASE WheelZooms
    <2>1. PICK follow \in {-1, 0, 1} :
            grTarget' = Panned(Clamped(Panned([Base EXCEPT !.zoom = @ + grWheel.zoom], follow)),
                               grWheel.pan)
      BY <1>2 DEF WheelZooms
    <2>2. [Base EXCEPT !.zoom = @ + grWheel.zoom] \in Steps
      BY <1>0, ShownAndBase, ViewsAreSteps DEF Steps
    <2>3. grTarget' \in Views
      <3>1. Panned([Base EXCEPT !.zoom = @ + grWheel.zoom], follow) \in Steps
        BY <2>2, PannedStays
      <3>2. QED  BY <1>0, <2>1, <3>1, ClampedIsAView, PannedStays DEF Steps
    <2>4. /\ grWheel' = Still /\ grToAuto' = FALSE /\ grLerp' = TRUE /\ grAsked' = grTarget'
          /\ UNCHANGED <<grView, grPan>>
      BY <1>2 DEF WheelZooms
    <2>5. QED  BY <1>0, <1>0a, <2>3, <2>4 DEF ZoomInv
  <1>3. CASE WheelPans
    <2>1. grView' \in Views
      BY <1>0, <1>3, ShownAndBase, PannedStays DEF WheelPans
    <2>2. QED  BY <1>0, <1>0a, <1>3, <2>1, DrawnIsAsked DEF WheelPans
  <1>4. CASE LerpStep
    <2> DEFINE next == [zoom |-> Nearer(Shown.zoom, grTarget.zoom),
                        pan |-> Nearer(Shown.pan, grTarget.pan)]
    <2>1. grLerp /\ grTarget \in Views
      BY <1>4 DEF LerpStep, ZoomInv
    <2>2. next \in Views
      <3>1. MinZoom \in Int /\ MaxZoom \in Int
        BY GraphConstants
      <3>2. /\ Shown.zoom \in MinZoom..MaxZoom /\ Shown.pan \in Int
            /\ grTarget.zoom \in MinZoom..MaxZoom /\ grTarget.pan \in Int
        BY <2>1, ShownAndBase DEF Views
      <3>3. /\ Nearer(Shown.zoom, grTarget.zoom) \in MinZoom..MaxZoom
            /\ Nearer(Shown.pan, grTarget.pan) \in Int
        BY <3>1, <3>2 DEF Nearer
      <3>4. QED  BY <3>3 DEF Views
    <2> HIDE DEF next
    <2>3. /\ UNCHANGED <<grChart, grWheel, grPan, grAsked>>
          /\ \/ grView' = next /\ UNCHANGED <<grLerp, grTarget, grToAuto>>
             \/ /\ grView' = IF grToAuto THEN AutoFit ELSE grTarget
                /\ grLerp' = FALSE /\ grTarget' = AutoFit /\ grToAuto' = FALSE
      BY <1>0a, <1>4, <2>1 DEF LerpStep, next
    <2>4. CASE grView' = next /\ UNCHANGED <<grLerp, grTarget, grToAuto>>
      <3>1. UNCHANGED <<grChart, grWheel, grPan, grAsked, grLerp, grTarget, grToAuto>>
        BY <2>3, <2>4
      <3>2. QED  BY <2>1, <2>2, <2>4, <3>1 DEF ZoomInv
    <2>5. CASE /\ grView' = IF grToAuto THEN AutoFit ELSE grTarget
               /\ grLerp' = FALSE /\ grTarget' = AutoFit /\ grToAuto' = FALSE
      BY <2>1, <2>3, <2>5 DEF ZoomInv
    <2>6. QED  BY <2>3, <2>4, <2>5
  <1>5. CASE ResetZoom
    BY <1>0a, <1>5 DEF ResetZoom, ZoomInv
  <1>6. CASE DragView
    <2>1. PICK by \in {-1, 1} : grPan' = Within(-1, 1, grPan + by)
      BY <1>6 DEF DragView
    <2>2. grPan' \in Int
      BY <1>0, <2>1 DEF Within
    <2>3. UNCHANGED <<grChart, grView, grTarget, grToAuto, grLerp, grWheel, grAsked>>
      BY <1>6 DEF DragView
    <2>4. QED  BY <2>2, <2>3 DEF ZoomInv
  <1>7. CASE DragFrame
    <2>1. grView' \in Views
      BY <1>0, <1>7, ShownAndBase, PannedStays DEF DragFrame
    <2>2. QED  BY <1>0, <1>0a, <1>7, <2>1, DrawnIsAsked DEF DragFrame
  <1>8. CASE StartBox
    BY <1>8 DEF StartBox, ZoomInv
  <1>9. CASE EndBox
    <2>1. PICK v \in [zoom : {Shown.zoom + 1, Shown.zoom + 2}, pan : -MaxPan..MaxPan] :
            grView' = Clamped(v)
      BY <1>9 DEF EndBox
    <2>2. v \in [zoom : Int, pan : Int]
      <3>1. MinZoom \in Int /\ MaxZoom \in Int /\ MaxPan \in Nat
        BY GraphConstants
      <3>2. Shown.zoom \in Int
        BY <3>1, ShownAndBase DEF Views
      <3>3. v.zoom \in Int /\ v.pan \in Int
        BY <3>1, <3>2
      <3>4. QED  BY <3>3
    <2>3. grView' \in Views
      BY <2>1, <2>2, ClampedIsAView
    <2>4. QED  BY <1>0, <1>9, <2>3, DrawnIsAsked DEF EndBox
  <1>10. CASE RedrawGraph
    BY <1>10, DrawnAgain DEF RedrawGraph
  <1>11. CASE NewPoints
    BY <1>0, <1>11 DEF NewPoints, ZoomInv
  <1>12. CASE OpenGraph
    BY <1>0, <1>12, DrawnIsAsked DEF OpenGraph
  <1>13. CASE LeaveGraph
    BY <1>0, <1>0a, <1>13 DEF LeaveGraph, ZoomInv
  <1>14. CASE ToggleSearch
    BY <1>14, DrawnAgain DEF ToggleSearch
  <1>15. CASE SearchableArrive
    BY <1>15 DEF SearchableArrive, grZoom, ZoomInv
  <1>16. ASSUME NEW mode, NEW items, Select(mode, items) PROVE ZoomInv'
    BY <1>0, <1>16, DrawnIsAsked DEF Select
  <1>17. CASE AddGun \/ AddAttachment
    BY <1>16, <1>17 DEF AddGun, AddAttachment
  <1>18. CASE RemoveCustom
    BY <1>18, DrawnAgain DEF RemoveCustom
  <1>19. CASE RemoveRegular \/ ClearSelection
    BY <1>16, <1>19 DEF RemoveRegular, ClearSelection
  <1>20. QED
    BY <1>1, <1>2, <1>3, <1>4, <1>5, <1>6, <1>7, <1>8, <1>9, <1>10, <1>11, <1>12, <1>13, <1>14, <1>15,
       <1>17, <1>18, <1>19 DEF GraphNext

(* The selection over one step of the graph.                                *)
LEMMA SelectionSteps ==
  ASSUME SelectionInv, GraphNext
  PROVE  SelectionInv'
  <1> USE DEF SelectionInv
  <1>1. CASE TurnWheel \/ WheelZooms \/ WheelPans \/ LerpStep \/ ResetZoom \/ DragView \/ DragFrame
    BY <1>1 DEF TurnWheel, WheelZooms, WheelPans, LerpStep, ResetZoom, DragView, DragFrame,
       grSelection, SelectionIsOfOneKind
  <1>2. CASE StartBox \/ EndBox \/ RedrawGraph \/ NewPoints \/ OpenGraph
    BY <1>2 DEF StartBox, EndBox, RedrawGraph, NewPoints, OpenGraph, grSelection, SelectionIsOfOneKind
  <1>3. CASE LeaveGraph \/ ToggleSearch \/ SearchableArrive
    BY <1>3 DEF LeaveGraph, ToggleSearch, SearchableArrive, SelectionIsOfOneKind
  <1>4. CASE AddGun \/ AddAttachment
    BY <1>4 DEF AddGun, AddAttachment, Select, SelectionIsOfOneKind
  <1>5. CASE RemoveCustom
    BY <1>5 DEF RemoveCustom, SelectionIsOfOneKind
  <1>6. CASE RemoveRegular \/ ClearSelection
    BY <1>6 DEF RemoveRegular, ClearSelection, Select, SelectionIsOfOneKind
  <1>7. QED  BY <1>1, <1>2, <1>3, <1>4, <1>5, <1>6 DEF GraphNext

(* The graph starts at rest with nothing selected.                          *)
LEMMA GraphStarts == GraphInit => GraphInv
  <1> SUFFICES ASSUME GraphInit PROVE ZoomInv /\ SelectionInv
    BY DEF GraphInv
  <1>1. Still \in Steps
    BY ViewsAreNotAuto, ViewsAreSteps
  <1>2. ZoomInv
    <2>1. /\ grView = AutoFit /\ grTarget = AutoFit /\ grAsked = AutoFit /\ grLerp = FALSE
          /\ grWheel \in Steps /\ grPan \in Int
      BY <1>1 DEF GraphInit
    <2>2. QED  BY <2>1 DEF ZoomInv
  <1>3. SelectionInv
    BY DEF GraphInit, SelectionInv, SelectionIsOfOneKind
  <1>4. QED  BY <1>2, <1>3

(* One step of the graph keeps both halves.                                 *)
LEMMA GraphSteps == GraphInv /\ [GraphNext]_grVars => GraphInv'
  <1>1. CASE UNCHANGED grVars
    BY <1>1 DEF grVars, grZoom, grSelection, GraphInv, ZoomInv, SelectionInv, SelectionIsOfOneKind
  <1>2. CASE GraphNext
    BY <1>2, ZoomSteps, SelectionSteps DEF GraphInv
  <1>3. QED  BY <1>1, <1>2

(* The invariant says what the run checks.                                  *)
LEMMA GraphHolds == GraphInv => ChartIsRight
  BY DEF GraphInv, ZoomInv, SelectionInv, Views, ChartIsRight, ZoomComesToRest

(* The charts (graph.js and the optimizer's chart): in every behaviour of   *)
(* GraphSpec, for any range of the zoom and any items, the animation runs   *)
(* exactly while it has a target, every view is in range, a graph at rest   *)
(* shows the view asked for last, and a selection is of one kind.           *)
THEOREM ChartStaysRight == GraphSpec => []ChartIsRight
  BY GraphStarts, GraphSteps, GraphHolds, PTL DEF GraphSpec

--------------------------------------------------------------------------------
(* The two in one behaviour, where one component moves at a time.          *)

(* A step of the client is a step of each of them or leaves it alone.      *)
LEMMA SettingsMove ==
  [ClientNext]_clientVars => [OptimizerFiltersNext]_ofVars /\ [OptimizerRangesNext]_rgVars
  BY DEF ClientNext, clientVars

(* What the optimizer is asked is what the user set: a part stays required *)
(* or banned for the gun it was set for until it is freed there, and every *)
(* bound is the user's or the one fetched for the gun (optimizer.js), for  *)
(* every set of guns and parts.                                            *)
THEOREM SettingsStayRight == ClientSpec => []SettingsAreTheUsers
  <1> DEFINE Inv == FiltersInv /\ RangesInv
  <1>1. ClientInit => Inv
    BY FiltersStart, RangesStart DEF ClientInit
  <1>2. Inv /\ [ClientNext]_clientVars => Inv'
    BY SettingsMove, FiltersStep, RangesStep
  <1>3. Inv => SettingsAreTheUsers
    BY FiltersHold DEF RangesInv, SettingsAreTheUsers
  <1> HIDE DEF Inv
  <1>4. QED  BY <1>1, <1>2, <1>3, PTL DEF ClientSpec

--------------------------------------------------------------------------------
(* ArmorRun, for every set of setups and number of runs.                   *)

RunStates == [timer : BOOLEAN, out : ArmorRuns \cup {Idle}, again : BOOLEAN,
              last : ArmorResults \cup {Idle}, progress : Setups \cup {Idle},
              cache : Seq(ArmorResults)]

ArmorTyped ==
  /\ arSetup \in Setups /\ arTab \in ArmorTabs /\ arTabs \in [ArmorTabs -> Setups]
  /\ arShown \in BOOLEAN /\ arOpening \in BOOLEAN /\ arData \in Nat /\ arRun \in RunStates

Rested(run) == ~run.timer /\ run.out = Idle

(* What holds of a run, with setup on the left, when the panel is drawn.    *)
RunFits(run, setup, drawn) ==
  /\ run.out # Idle => run.out.setup.round # NoRound
  /\ run.progress # Idle => run.progress = setup \/ run.last = Idle
  /\ drawn /\ setup.round # NoRound /\ run.progress # Idle => run.progress = setup
  /\ Rested(run) /\ run.last # Idle => run.last.setup = setup
  /\ Rested(run) /\ setup.round = NoRound => run.last = Idle
  /\ Rested(run) /\ drawn /\ setup.round # NoRound => run.last # Idle

ChartsDrawn == arShown /\ ~arOpening
ArmorInv == ArmorTyped /\ RunFits(arRun, arSetup, ChartsDrawn)

(* The cache without one setup is still a sequence of results.              *)
LEMMA UncachedTyped ==
  ASSUME NEW cache \in Seq(ArmorResults), NEW setup
  PROVE  Uncached(cache, setup) \in Seq(ArmorResults)
  BY ElementsAtSelects DEF Uncached

(* _stop: stopping a run leaves everything but the run that is out.         *)
LEMMA StoppedTyped ==
  ASSUME NEW run \in RunStates, NEW setup, NEW s, s = Stopped(run, setup)
  PROVE  /\ s \in RunStates /\ s.timer = run.timer /\ s.last = run.last
         /\ s.progress = run.progress /\ s.cache = run.cache
         /\ s.out # Idle => run.out # Idle /\ s.out.setup = run.out.setup
  <1>1. run.out \in ArmorRuns \cup {Idle}
    BY DEF RunStates
  <1>2. CASE ~Leaves(run, setup)
    BY <1>2 DEF Stopped
  <1>3. CASE Leaves(run, setup) /\ run.out.stage = "worker"
    <2>1. s = [run EXCEPT !.out = Idle, !.again = TRUE]
      BY <1>3 DEF Stopped
    <2>2. QED  BY <2>1 DEF RunStates
  <1>4. CASE Leaves(run, setup) /\ run.out.stage # "worker"
    <2>1. s = [run EXCEPT !.out = [run.out EXCEPT !.aborted = TRUE]]
      BY <1>4 DEF Stopped
    <2>2. run.out \in ArmorRuns
      BY <1>1, <1>4 DEF Leaves
    <2>3. /\ [run.out EXCEPT !.aborted = TRUE] \in ArmorRuns
          /\ [run.out EXCEPT !.aborted = TRUE].setup = run.out.setup
      BY <2>2 DEF ArmorRuns
    <2>4. run.out # Idle
      BY <1>4 DEF Leaves
    <2>5. QED  BY <2>1, <2>3, <2>4 DEF RunStates
  <1>5. QED  BY <1>2, <1>3, <1>4

(* _scheduleRun plans a run or shows what was worked out for this setup.    *)
LEMMA ScheduleFits ==
  ASSUME NEW run0 \in RunStates, NEW setup \in Setups, NEW old \in BOOLEAN,
         run0.out # Idle => run0.out.setup.round # NoRound,
         NEW r, r = Schedule(run0, setup, old)
  PROVE  r \in RunStates /\ RunFits(r, setup, TRUE)
  <1> DEFINE run == [Stopped(run0, setup) EXCEPT !.progress = Idle]
             found == IF run.out = Idle /\ setup.round # NoRound
                      THEN CachedFor(run.cache, setup) ELSE {}
             entry == run.cache[CHOOSE i \in found : TRUE]
  <1>1. /\ run \in RunStates /\ run.progress = Idle
        /\ run.out # Idle => run.out.setup.round # NoRound
    <2> DEFINE s == Stopped(run0, setup)
    <2>1. /\ s \in RunStates
          /\ s.out # Idle => run0.out # Idle /\ s.out.setup = run0.out.setup
      BY StoppedTyped
    <2> HIDE DEF s
    <2>2. run = [s EXCEPT !.progress = Idle]
      BY DEF s
    <2> HIDE DEF run
    <2>3. QED  BY <2>1, <2>2 DEF RunStates
  <1>2. r = IF found = {} THEN [run EXCEPT !.timer = TRUE]
            ELSE IF old THEN [run EXCEPT !.timer = TRUE, !.cache = Uncached(run.cache, setup)]
            ELSE [run EXCEPT !.timer = FALSE, !.last = entry,
                             !.cache = Append(Uncached(run.cache, setup), entry)]
    BY <1>1 DEF Schedule, RunStates
  <1>3. found # {} => entry \in ArmorResults /\ entry.setup = setup /\ setup.round # NoRound
                      /\ entry # Idle
    <2> HIDE DEF run
    <2>1. found # {} => (CHOOSE i \in found : TRUE) \in found
      OBVIOUS
    <2>2. found \subseteq DOMAIN run.cache /\ \A i \in found : run.cache[i].setup = setup
      BY DEF CachedFor
    <2>3. run.cache \in Seq(ArmorResults)
      BY <1>1 DEF RunStates
    <2>4. \A i \in DOMAIN run.cache : run.cache[i] \in ArmorResults
      BY <2>3, ElementOf
    <2>5. QED  BY <2>1, <2>2, <2>4, ArmorRunConstants
  <1>4. Uncached(run.cache, setup) \in Seq(ArmorResults)
    BY <1>1, UncachedTyped DEF RunStates
  <1> HIDE DEF run, found, entry
  <1>5. found # {} => Append(Uncached(run.cache, setup), entry) \in Seq(ArmorResults)
    BY <1>3, <1>4, AppendLast
  <1>6. CASE found = {}
    BY <1>1, <1>2, <1>6 DEF RunStates, RunFits, Rested
  <1>7. CASE found # {} /\ old
    BY <1>1, <1>2, <1>4, <1>7 DEF RunStates, RunFits, Rested
  <1>8. CASE found # {} /\ ~old
    BY <1>1, <1>2, <1>3, <1>5, <1>8 DEF RunStates, RunFits, Rested
  <1>9. QED  BY <1>6, <1>7, <1>8

(* What fits while the charts are drawn fits when they are not.             *)
LEMMA FitsUndrawn ==
  ASSUME NEW run, NEW setup, NEW d, RunFits(run, setup, TRUE)
  PROVE  RunFits(run, setup, d)
  BY DEF RunFits

(* show draws the result, or plans a run for the round that has none.       *)
LEMMA ShownFits ==
  ASSUME NEW run \in RunStates, NEW setup \in Setups, NEW old \in BOOLEAN,
         RunFits(run, setup, FALSE), ShowWith(run, setup, old), NEW d
  PROVE  arRun' \in RunStates /\ RunFits(arRun', setup, d)
  <1>1. CASE setup.round # NoRound /\ run.last = Idle
    <2>1. arRun' = Schedule(run, setup, old)
      BY <1>1 DEF ShowWith
    <2>2. run.out # Idle => run.out.setup.round # NoRound
      BY DEF RunFits
    <2>3. QED  BY <2>1, <2>2, ScheduleFits, FitsUndrawn
  <1>2. CASE ~(setup.round # NoRound /\ run.last = Idle)
    <2>1. arRun' = run
      BY <1>2 DEF ShowWith
    <2>2. QED  BY <1>2, <2>1 DEF RunFits
  <1>3. QED  BY <1>1, <1>2

(* Leaving the panel, or a load that is waited for.                         *)
LEMMA FitsLess ==
  ASSUME NEW run, NEW setup, NEW d \in BOOLEAN, NEW e \in BOOLEAN, RunFits(run, setup, d), e => d
  PROVE  RunFits(run, setup, e)
  BY DEF RunFits

(* A result that is dropped.                                                *)
LEMMA DroppedFits ==
  ASSUME NEW run \in RunStates, NEW setup, NEW other,
         NEW d, RunFits(run, other, d), NEW r, r = [run EXCEPT !.last = Idle]
  PROVE  r \in RunStates /\ RunFits(r, setup, FALSE)
  BY DEF RunStates, RunFits, Rested

(* A run ends, with a result or an error, kept in the cache or not: what is *)
(* last shown is of the setup it ran for, and that is the setup of the      *)
(* page.                                                                    *)
LEMMA EndedFits ==
  ASSUME ArmorInv, NEW outcome \in {"result", "error"}, NEW truncated \in BOOLEAN,
         NEW old \in BOOLEAN, arRun.out # Idle, EndRun(outcome, truncated, old)
  PROVE  ArmorInv'
  <1> DEFINE out == arRun.out
             result == [setup |-> out.setup, data |-> out.data, error |-> outcome # "result"]
             run == [arRun EXCEPT !.out = Idle, !.progress = Idle]
             kept == IF outcome = "result" /\ ~truncated
                     THEN CacheResult(arRun.cache, result) ELSE arRun.cache
             ended == IF out.setup # arSetup THEN [run EXCEPT !.again = TRUE]
                      ELSE [run EXCEPT !.last = result, !.cache = kept]
  <1>1. /\ arRun \in RunStates /\ out \in ArmorRuns /\ arSetup \in Setups
        /\ out.setup.round # NoRound
    BY DEF ArmorInv, ArmorTyped, RunStates, RunFits
  <1>2. result \in ArmorResults /\ result.setup = out.setup /\ result # Idle
    <2>1. result \in ArmorResults
      BY <1>1 DEF ArmorRuns, ArmorResults
    <2>2. QED  BY <2>1, ArmorRunConstants
  <1>3. run \in RunStates /\ run.out = Idle /\ run.progress = Idle /\ run.timer = arRun.timer
        /\ run.last = arRun.last /\ run.cache = arRun.cache
    BY <1>1 DEF RunStates
  <1>4. kept \in Seq(ArmorResults)
    <2> DEFINE all == Append(Uncached(arRun.cache, result.setup), result)
    <2>1. arRun.cache \in Seq(ArmorResults)
      BY <1>1 DEF RunStates
    <2>2. all \in Seq(ArmorResults) /\ all # <<>>
      BY <1>2, <2>1, UncachedTyped, AppendLast
    <2>3. Tail(all) \in Seq(ArmorResults)
      BY <2>2, HeadAndTail
    <2>4. CacheResult(arRun.cache, result) = IF Len(all) > ResultCap THEN Tail(all) ELSE all
      BY DEF CacheResult
    <2> HIDE DEF all
    <2>5. QED  BY <2>1, <2>2, <2>3, <2>4
  <1>5. /\ arRun' = IF ended.again THEN Schedule(ended, arSetup, old) ELSE ended
        /\ arTabs' = IF ended.again THEN Saved(arSetup) ELSE arTabs
        /\ UNCHANGED <<arSetup, arTab, arShown, arData, arOpening>>
    <2>1. ended = IF out.setup # arSetup THEN [run EXCEPT !.again = TRUE]
               ELSE [run EXCEPT !.last = result,
                       !.cache = IF outcome = "result" /\ ~truncated
                                    THEN CacheResult(run.cache, result) ELSE run.cache]
      BY <1>3
    <2>2. QED  BY <2>1 DEF EndRun, arLoad
  <1> HIDE DEF out, result, run, kept
  <1>6. /\ ended \in RunStates /\ ended.out = Idle /\ ended.progress = Idle
        /\ out.setup # arSetup => ended.again
        /\ ~ended.again => ended.last = result /\ out.setup = arSetup
    BY <1>2, <1>3, <1>4 DEF RunStates
  <1> HIDE DEF ended
  <1>7. arTabs' \in [ArmorTabs -> Setups]
    BY <1>1, <1>5 DEF Saved, ArmorInv, ArmorTyped
  <1>8. CASE ended.again
    <2>1. arRun' \in RunStates /\ RunFits(arRun', arSetup, TRUE)
      BY <1>1, <1>5, <1>6, <1>8, ScheduleFits
    <2>2. RunFits(arRun', arSetup, ChartsDrawn')
      BY <2>1, FitsUndrawn
    <2>3. QED  BY <1>5, <1>7, <2>1, <2>2 DEF ArmorInv, ArmorTyped, ChartsDrawn
  <1>9. CASE ~ended.again
    <2>1. arRun' = ended /\ ended.last = result /\ result.setup = arSetup /\ arSetup.round # NoRound
      BY <1>1, <1>2, <1>5, <1>6, <1>9
    <2>2. RunFits(arRun', arSetup, ChartsDrawn')
      BY <1>2, <1>6, <2>1 DEF RunFits
    <2>3. QED  BY <1>5, <1>6, <1>7, <2>1, <2>2 DEF ArmorInv, ArmorTyped, ChartsDrawn
  <1>10. QED  BY <1>8, <1>9

(* The page starts with nothing run.                                        *)
LEMMA ArmorStarts == ArmorRunInit => ArmorInv
  <1> SUFFICES ASSUME ArmorRunInit PROVE ArmorInv
    OBVIOUS
  <1>1. (CHOOSE r \in Rests : TRUE) \in Rests /\ (CHOOSE t \in ArmorTabs : TRUE) \in ArmorTabs
    BY ArmorRunConstants
  <1>2. arSetup \in Setups /\ arSetup.round = NoRound
    BY <1>1 DEF ArmorRunInit, Setups
  <1>3. arRun = [timer |-> FALSE, out |-> Idle, again |-> FALSE, last |-> Idle,
                 progress |-> Idle, cache |-> <<>>]
    BY DEF ArmorRunInit
  <1>4. arRun \in RunStates
    BY <1>3 DEF RunStates
  <1>5. ArmorTyped
    BY <1>1, <1>2, <1>4 DEF ArmorRunInit, ArmorTyped
  <1>6. ~arShown
    BY DEF ArmorRunInit
  <1>7. QED  BY <1>2, <1>3, <1>5, <1>6 DEF ArmorInv, RunFits, Rested, ChartsDrawn

(* One step per operation of the results panel.                             *)
LEMMA ArmorSteps ==
  ASSUME ArmorInv, [ArmorRunNext]_arVars
  PROVE  ArmorInv'
  <1>t. ArmorTyped /\ RunFits(arRun, arSetup, ChartsDrawn) /\ arRun \in RunStates /\ arSetup \in Setups
    BY DEF ArmorInv, ArmorTyped
  <1>d. ChartsDrawn \in BOOLEAN /\ ChartsDrawn' \in BOOLEAN
    BY DEF ChartsDrawn
  <1>f. RunFits(arRun, arSetup, FALSE)
    BY <1>t, <1>d, FitsLess
  \* Steps that leave the run and the setup alone.
  <1>u. ASSUME UNCHANGED <<arRun, arSetup, arTab, arData>>, arTabs' \in [ArmorTabs -> Setups],
               arShown' \in BOOLEAN, arOpening' \in BOOLEAN, ChartsDrawn' => ChartsDrawn
        PROVE  ArmorInv'
    BY <1>t, <1>d, <1>u, FitsLess DEF ArmorInv, ArmorTyped
  <1>1. CASE OpenTool
    <2>1. CASE DataLoaded
      <3>1. PICK old \in BOOLEAN : ShowWith(arRun, arSetup, old)
        BY <1>1, <2>1 DEF OpenTool
      <3>2. arRun' \in RunStates /\ RunFits(arRun', arSetup, ChartsDrawn')
        BY <1>t, <1>f, <3>1, ShownFits
      <3>3. QED  BY <1>1, <1>t, <2>1, <3>2 DEF OpenTool, ArmorInv, ArmorTyped
    <2>2. CASE ~DataLoaded
      <3>1. UNCHANGED <<arRun, arSetup, arTab, arTabs, arData>> /\ arShown' = TRUE /\ arOpening' = TRUE
        BY <1>1, <2>2 DEF OpenTool
      <3>2. QED  BY <1>t, <1>u, <3>1 DEF ArmorTyped, ChartsDrawn
    <2>3. QED  BY <2>1, <2>2
  <1>2. CASE LeaveTool
    <2>1. UNCHANGED <<arRun, arSetup, arTab, arData, arOpening>> /\ arShown' = FALSE
          /\ arTabs' = Saved(arSetup)
      BY <1>2 DEF LeaveTool, arLoad
    <2>2. arTabs' \in [ArmorTabs -> Setups]
      BY <1>t, <2>1 DEF Saved, ArmorTyped
    <2>3. QED  BY <1>t, <1>u, <2>1, <2>2 DEF ArmorTyped, ChartsDrawn
  <1>3. CASE EnsureData
    <2>1. UNCHANGED <<arRun, arSetup, arTab, arTabs, arShown, arData, arOpening>>
      BY <1>3 DEF EnsureData, arPlace
    <2>2. QED  BY <1>t, <1>u, <2>1 DEF ArmorTyped, ChartsDrawn
  <1>4. CASE DataArrives
    <2> DEFINE run == [arRun EXCEPT !.cache = <<>>]
               shows == arOpening /\ arLoading = arLang
    <2>1. run \in RunStates /\ RunFits(run, arSetup, FALSE) /\ RunFits(run, arSetup, ChartsDrawn)
      <3>1. /\ run.timer = arRun.timer /\ run.out = arRun.out /\ run.last = arRun.last
            /\ run.progress = arRun.progress /\ run \in RunStates
        <4> DEFINE none == <<>>
        <4>1. none \in Seq(ArmorResults) /\ run = [arRun EXCEPT !.cache = none]
          OBVIOUS
        <4> HIDE DEF none, run
        <4>2. QED  BY <1>t, <4>1 DEF RunStates
      <3> HIDE DEF run
      <3>2. QED  BY <1>t, <1>f, <3>1 DEF RunFits, Rested
    <2>2. /\ UNCHANGED <<arSetup, arTab, arTabs, arShown>> /\ arData' = arData + 1
          /\ arOpening' = (arOpening /\ arLoading # arLang)
      BY <1>4 DEF DataArrives, arPlace
    <2>3. arRun' \in RunStates /\ RunFits(arRun', arSetup, ChartsDrawn')
      <3>1. CASE shows
        <4>1. PICK old \in BOOLEAN : ShowWith(run, arSetup, old)
          BY <1>4, <3>1 DEF DataArrives
        <4> HIDE DEF run
        <4>2. QED  BY <1>t, <2>1, <4>1, ShownFits
      <3>2. CASE ~shows
        <4>1. arRun' = run
          BY <1>4, <3>2 DEF DataArrives
        <4>2. ChartsDrawn' => ChartsDrawn
          BY <2>2, <3>2 DEF ChartsDrawn
        <4> HIDE DEF run
        <4>3. QED  BY <1>d, <2>1, <4>1, <4>2, FitsLess
      <3>3. QED  BY <3>1, <3>2
    <2>4. arData' \in Nat /\ arOpening' \in BOOLEAN
      BY <1>t, <2>2 DEF ArmorTyped
    <2>5. QED  BY <1>t, <2>2, <2>3, <2>4 DEF ArmorInv, ArmorTyped
  <1>5. CASE DataFails
    <2>1. UNCHANGED <<arRun, arSetup, arTab, arTabs, arData>> /\ arShown' = FALSE /\ arOpening' = FALSE
      BY <1>5 DEF DataFails
    <2>2. QED  BY <1>t, <1>u, <2>1 DEF ArmorTyped, ChartsDrawn
  <1>6. CASE ChangeLang
    <2>1. /\ UNCHANGED <<arSetup, arTab, arTabs, arShown, arData>>
          /\ arRun' = [arRun EXCEPT !.last = Idle] /\ arOpening' = (arOpening \/ arShown)
      BY <1>6 DEF ChangeLang, arPlace
    <2>2. arRun' \in RunStates /\ RunFits(arRun', arSetup, FALSE)
      BY <1>t, <2>1, DroppedFits
    <2>3. ChartsDrawn' = FALSE
      BY <2>1 DEF ChartsDrawn
    <2>4. QED  BY <1>t, <2>1, <2>2, <2>3 DEF ArmorInv, ArmorTyped
  <1>7. CASE ChangeSetup
    <2>1. PICK setup \in Setups \ {arSetup}, old \in BOOLEAN, resets \in BOOLEAN :
            /\ arSetup' = setup /\ arTabs' = Saved(setup)
            /\ arRun' = Schedule(IF resets THEN [arRun EXCEPT !.last = Idle] ELSE arRun, setup, old)
      BY <1>7 DEF ChangeSetup
    <2> DEFINE run == IF resets THEN [arRun EXCEPT !.last = Idle] ELSE arRun
    <2>2. run \in RunStates /\ (run.out # Idle => run.out.setup.round # NoRound)
      BY <1>t DEF RunStates, RunFits
    <2>3. arRun' = Schedule(run, setup, old)
      BY <2>1
    <2> HIDE DEF run
    <2>4. arRun' \in RunStates /\ RunFits(arRun', setup, ChartsDrawn')
      BY <2>2, <2>3, ScheduleFits, FitsUndrawn
    <2>5. UNCHANGED <<arTab, arShown, arData, arOpening>>
      BY <1>7 DEF ChangeSetup, arLoad
    <2>6. arTabs' \in [ArmorTabs -> Setups]
      BY <1>t, <2>1 DEF Saved, ArmorTyped
    <2>7. QED  BY <1>t, <2>1, <2>4, <2>5, <2>6 DEF ArmorInv, ArmorTyped
  <1>8. CASE RunTimer
    <2>1. UNCHANGED <<arSetup, arTab, arTabs, arShown, arData, arOpening>>
      BY <1>8 DEF RunTimer, arPlace, arLoad
    <2>2. arRun' \in RunStates /\ RunFits(arRun', arSetup, ChartsDrawn)
      <3>1. CASE arSetup.round = NoRound
        <4>1. arRun' = [arRun EXCEPT !.timer = FALSE, !.last = Idle]
          BY <1>8, <3>1 DEF RunTimer
        <4>2. QED  BY <1>t, <3>1, <4>1 DEF RunStates, RunFits, Rested
      <3>2. CASE arSetup.round # NoRound /\ arRun.out # Idle
        <4>1. arRun' = [arRun EXCEPT !.timer = FALSE, !.again = TRUE]
          BY <1>8, <3>2 DEF RunTimer
        <4>2. QED  BY <1>t, <3>2, <4>1 DEF RunStates, RunFits, Rested
      <3>3. CASE arSetup.round # NoRound /\ arRun.out = Idle
        <4> DEFINE out == [setup |-> arSetup, data |-> arData, stage |-> "constants",
                           aborted |-> FALSE]
        <4>1. arRun' = [arRun EXCEPT !.timer = FALSE, !.again = FALSE, !.out = out]
          BY <1>8, <3>3 DEF RunTimer
        <4>2. out \in ArmorRuns /\ out.setup = arSetup
          BY <1>t DEF ArmorRuns, ArmorTyped
        <4>3. out # Idle
          BY <4>2, ArmorRunConstants
        <4> HIDE DEF out
        <4>4. QED  BY <1>t, <3>3, <4>1, <4>2, <4>3 DEF RunStates, RunFits, Rested
      <3>4. QED  BY <3>1, <3>2, <3>3
    <2>3. QED  BY <1>t, <2>1, <2>2 DEF ArmorInv, ArmorTyped, ChartsDrawn
  <1>9. CASE RunProgress
    <2>1. UNCHANGED <<arSetup, arTab, arTabs, arShown, arData, arOpening>>
          /\ arRun' = [arRun EXCEPT !.progress = arSetup]
      BY <1>9 DEF RunProgress, arPlace, arLoad
    <2>2. arRun' \in RunStates /\ RunFits(arRun', arSetup, ChartsDrawn)
      BY <1>t, <2>1 DEF RunStates, RunFits, Rested
    <2>3. QED  BY <1>t, <2>1, <2>2 DEF ArmorInv, ArmorTyped, ChartsDrawn
  <1>10. CASE StartCompare
    <2>1. UNCHANGED <<arRun, arSetup, arTab, arTabs, arShown, arData, arOpening>>
      BY <1>10 DEF StartCompare, arPlace, arLoad
    <2>2. QED  BY <1>t, <1>u, <2>1 DEF ArmorTyped, ChartsDrawn
  <1>11. ASSUME NEW tab \in ArmorTabs, SwitchArmorTab(tab) PROVE ArmorInv'
    <2> DEFINE run == [arRun EXCEPT !.last = Idle]
    <2>1. /\ arTab' = tab /\ arTabs' = Saved(arSetup) /\ arShown' = TRUE /\ arSetup' = arTabs[tab]
          /\ arData' = arData
      BY <1>11 DEF SwitchArmorTab
    <2>2. arTabs' \in [ArmorTabs -> Setups] /\ arSetup' \in Setups
      BY <1>t, <2>1 DEF Saved, ArmorTyped
    <2>3. run \in RunStates /\ RunFits(run, arTabs[tab], FALSE)
      BY <1>t, DroppedFits
    <2>4. arOpening' \in BOOLEAN /\ arRun' \in RunStates /\ RunFits(arRun', arSetup', ChartsDrawn')
      <3>1. CASE DataLoaded
        <4>1. PICK old \in BOOLEAN : ShowWith(run, arTabs[tab], old)
          BY <1>11, <3>1 DEF SwitchArmorTab
        <4>2. arOpening' = arOpening
          BY <1>11, <3>1 DEF SwitchArmorTab
        <4> HIDE DEF run
        <4>3. arRun' \in RunStates /\ RunFits(arRun', arTabs[tab], ChartsDrawn')
          BY <2>1, <2>2, <2>3, <4>1, ShownFits
        <4>4. QED  BY <1>t, <2>1, <4>2, <4>3 DEF ArmorTyped
      <3>2. CASE ~DataLoaded
        <4>1. arRun' = run /\ arOpening' = TRUE
          BY <1>11, <3>2 DEF SwitchArmorTab
        <4>2. ChartsDrawn' = FALSE
          BY <4>1 DEF ChartsDrawn
        <4> HIDE DEF run
        <4>3. QED  BY <2>1, <2>3, <4>1, <4>2
      <3>3. QED  BY <3>1, <3>2
    <2>5. QED  BY <1>t, <2>1, <2>2, <2>4 DEF ArmorInv, ArmorTyped
  <1>12. ASSUME NEW ok \in BOOLEAN, NEW old \in BOOLEAN, ConstantsArrive(ok, old) PROVE ArmorInv'
    <2>1. CASE ok /\ ~arRun.out.aborted
      <3>1. UNCHANGED <<arSetup, arTab, arTabs, arShown, arData, arOpening>>
            /\ arRun' = [arRun EXCEPT !.out = [arRun.out EXCEPT !.stage = "worker"]]
        BY <1>12, <2>1 DEF ConstantsArrive, arPlace, arLoad
      <3> DEFINE out == [arRun.out EXCEPT !.stage = "worker"]
      <3>2. arRun.out \in ArmorRuns /\ arRun.out # Idle
        BY <1>12, <1>t DEF ConstantsArrive, RunStates
      <3>3. out \in ArmorRuns /\ out.setup = arRun.out.setup
        BY <3>2 DEF ArmorRuns
      <3>4. out # Idle
        BY <3>3, ArmorRunConstants
      <3> HIDE DEF out
      <3>5. arRun' = [arRun EXCEPT !.out = out]
        BY <3>1 DEF out
      <3>6. arRun' \in RunStates /\ RunFits(arRun', arSetup, ChartsDrawn)
        BY <1>t, <3>2, <3>3, <3>4, <3>5 DEF RunStates, RunFits, Rested
      <3>7. QED  BY <1>t, <3>1, <3>6 DEF ArmorInv, ArmorTyped, ChartsDrawn
    <2>2. CASE ~(ok /\ ~arRun.out.aborted)
      <3>1. arRun.out # Idle /\ EndRun("error", FALSE, old)
        BY <1>12, <2>2 DEF ConstantsArrive
      <3>2. QED  BY <3>1, EndedFits
    <2>3. QED  BY <2>1, <2>2
  <1>13. ASSUME NEW outcome \in {"result", "error"}, NEW truncated \in BOOLEAN, NEW old \in BOOLEAN,
                RunAnswers(outcome, truncated, old)
         PROVE  ArmorInv'
    BY <1>13, EndedFits DEF RunAnswers
  <1>14. ASSUME NEW ok \in BOOLEAN, CompareAnswers(ok) PROVE ArmorInv'
    <2>1. UNCHANGED <<arRun, arSetup, arTab, arTabs, arShown, arData, arOpening>>
      BY <1>14 DEF CompareAnswers, arPlace, arLoad
    <2>2. QED  BY <1>t, <1>u, <2>1 DEF ArmorTyped, ChartsDrawn
  <1>15. CASE UNCHANGED arVars
    <2>1. UNCHANGED <<arRun, arSetup, arTab, arTabs, arShown, arData, arOpening>>
      BY <1>15 DEF arVars
    <2>2. QED  BY <1>t, <1>u, <2>1 DEF ArmorTyped, ChartsDrawn
  <1>16. QED
    BY <1>1, <1>2, <1>3, <1>4, <1>5, <1>6, <1>7, <1>8, <1>9, <1>10, <1>11, <1>12, <1>13, <1>14,
       <1>15 DEF ArmorRunNext

(* The invariant says what the run checks.                                  *)
LEMMA ArmorHolds == ArmorInv => ResultsAreOfTheSetup
  BY DEF ArmorInv, ResultsAreOfTheSetup, RunFits, Rested, ChartsDrawn, Quiet

--------------------------------------------------------------------------------
(* EngineQueue, for any number of requests and loads of the data.          *)

Messages == [kind : {"data"}, data : Nat] \cup [kind : {"request"}, id : Nat]
EngineSaid == [kind : {"cancelled", "failed"}] \cup [kind : {"reply"}, data : Nat]

(* With c, the worker reads s in order and is left with d, and has at each  *)
(* request the data the request is about.                                   *)
ReadBy(of, s, ctx) ==
  \A i \in 1 .. Len(s) :
    IF s[i].kind = "data" THEN ctx[i] = s[i].data
    ELSE s[i].id \in DOMAIN of /\ ctx[i] = ctx[i - 1] /\ ctx[i] = of[s[i].id]
Reads(of, s, c, d) ==
  \E ctx \in [0 .. Len(s) -> Nat] : ctx[0] = c /\ ctx[Len(s)] = d /\ ReadBy(of, s, ctx)

(* An empty inbox leaves the worker as it is.                               *)
LEMMA ReadsNothing ==
  ASSUME NEW of, NEW c \in Nat
  PROVE  Reads(of, <<>>, c, c)
  <1> DEFINE none == <<>>  ctx == [i \in 0 .. 0 |-> c]
  <1>1. Len(none) = 0 /\ ctx \in [0 .. 0 -> Nat] /\ ctx[0] = c
    OBVIOUS
  <1> HIDE DEF none, ctx
  <1>2. ReadBy(of, none, ctx)
    BY <1>1 DEF ReadBy
  <1>3. Reads(of, none, c, c)
    BY <1>1, <1>2 DEF Reads
  <1>4. QED  BY <1>3 DEF none

(* A request the worker has the data of.                                    *)
LEMMA ReadsRequest ==
  ASSUME NEW of, NEW id \in DOMAIN of, of[id] \in Nat
  PROVE  LET m == [kind |-> "request", id |-> id] IN Reads(of, <<m>>, of[id], of[id])
  <1> DEFINE m == [kind |-> "request", id |-> id]
             ctx == [i \in 0 .. 1 |-> of[id]]
  <1>1. ctx \in [0 .. Len(<<m>>) -> Nat] /\ ctx[0] = of[id] /\ ctx[1] = of[id] /\ Len(<<m>>) = 1
    OBVIOUS
  <1>2. <<m>>[1].kind = "request" /\ <<m>>[1].id = id
    OBVIOUS
  <1>3. ReadBy(of, <<m>>, ctx)
    <2>1. \A i \in 1 .. Len(<<m>>) : i = 1 /\ i - 1 = 0
      OBVIOUS
    <2>2. QED  BY <1>1, <1>2, <2>1 DEF ReadBy
  <1>4. QED  BY <1>1, <1>3 DEF Reads

(* Data, and the request it is for.                                         *)
LEMMA ReadsDataAndRequest ==
  ASSUME NEW of, NEW id \in DOMAIN of, of[id] \in Nat, NEW c \in Nat
  PROVE  LET s == <<[kind |-> "data", data |-> of[id]], [kind |-> "request", id |-> id]>>
         IN Reads(of, s, c, of[id])
  <1> DEFINE m == [kind |-> "request", id |-> id]
             s == <<[kind |-> "data", data |-> of[id]], m>>
             ctx == [i \in 0 .. 2 |-> IF i = 0 THEN c ELSE of[id]]
  <1>1. /\ Len(s) = 2 /\ ctx \in [0 .. Len(s) -> Nat]
        /\ ctx[0] = c /\ ctx[1] = of[id] /\ ctx[2] = of[id]
    OBVIOUS
  <1>2. /\ s[1].kind = "data" /\ s[1].data = of[id]
        /\ s[2].kind = "request" /\ s[2].id = id
    OBVIOUS
  <1> HIDE DEF s, ctx
  <1>3. ReadBy(of, s, ctx)
    <2>1. ASSUME NEW i \in 1 .. Len(s) PROVE i = 1 \/ i = 2
      <3>1. Len(s) = 2
        BY <1>1
      <3>2. i \in 1 .. 2
        BY <3>1
      <3>3. QED  BY <3>2
    <2>2. 2 - 1 = 1
      OBVIOUS
    <2>3. QED  BY <1>1, <1>2, <2>1, <2>2 DEF ReadBy
  <1>4. Reads(of, s, c, of[id])
    BY <1>1, <1>3 DEF Reads
  <1>5. QED  BY <1>4 DEF s

(* What is posted behind other messages is read after them.                 *)
LEMMA ReadsOneAfterTheOther ==
  ASSUME NEW of, NEW s \in Seq(Messages), NEW t \in Seq(Messages), NEW c, NEW d, NEW e,
         Reads(of, s, c, d), Reads(of, t, d, e)
  PROVE  Reads(of, s \o t, c, e)
  <1>1. PICK f \in [0 .. Len(s) -> Nat] : f[0] = c /\ f[Len(s)] = d /\ ReadBy(of, s, f)
    BY DEF Reads
  <1>2. PICK g \in [0 .. Len(t) -> Nat] : g[0] = d /\ g[Len(t)] = e /\ ReadBy(of, t, g)
    BY DEF Reads
  <1> DEFINE n == Len(s)  k == Len(t)  u == s \o t
             h == [i \in 0 .. n + k |-> IF i <= n THEN f[i] ELSE g[i - n]]
  <1>3. /\ n \in Nat /\ k \in Nat /\ Len(u) = n + k
        /\ \A i \in 1 .. n : u[i] = s[i]
    OBVIOUS
  <1>4. \A i \in 1 .. k : u[n + i] = t[i]
    OBVIOUS
  <1> HIDE DEF u
  <1>5. h \in [0 .. n + k -> Nat]
    <2>1. \A i \in 0 .. n + k : (IF i <= n THEN f[i] ELSE g[i - n]) \in Nat
      <3> SUFFICES ASSUME NEW i \in 0 .. n + k PROVE (IF i <= n THEN f[i] ELSE g[i - n]) \in Nat
        OBVIOUS
      <3>1. CASE i <= n
        <4>1. i \in 0 .. n
          BY <1>3, <3>1
        <4>2. QED  BY <3>1, <4>1
      <3>2. CASE ~(i <= n)
        <4>1. i - n \in 0 .. k
          BY <1>3, <3>2
        <4>2. QED  BY <3>2, <4>1
      <3>3. QED  BY <3>1, <3>2
    <2>2. QED  BY <2>1
  <1>6. \A i \in 0 .. n : h[i] = f[i]
    BY <1>3
  <1>7. \A i \in 0 .. k : h[n + i] = g[i]
    <2> SUFFICES ASSUME NEW i \in 0 .. k PROVE h[n + i] = g[i]
      OBVIOUS
    <2>1. CASE i = 0
      <3>1. n + i = n /\ n \in 0 .. n
        BY <1>3, <2>1
      <3>2. QED  BY <1>1, <1>2, <1>6, <2>1, <3>1
    <2>2. CASE i # 0
      <3>1. n + i \in 0 .. n + k /\ ~(n + i <= n) /\ (n + i) - n = i
        BY <1>3, <2>2
      <3>2. QED  BY <3>1
    <2>3. QED  BY <2>1, <2>2
  <1> HIDE DEF h
  <1>8. ASSUME NEW i \in 1 .. n + k
        PROVE  IF u[i].kind = "data" THEN h[i] = u[i].data
               ELSE u[i].id \in DOMAIN of /\ h[i] = h[i - 1] /\ h[i] = of[u[i].id]
    <2>1. CASE i \in 1 .. n
      <3>1. i \in 0 .. n /\ i - 1 \in 0 .. n
        BY <1>3, <2>1
      <3>2. h[i] = f[i] /\ h[i - 1] = f[i - 1] /\ u[i] = s[i]
        BY <1>3, <1>6, <2>1, <3>1
      <3>3. QED  BY <1>1, <2>1, <3>2 DEF ReadBy
    <2>2. CASE ~(i \in 1 .. n)
      <3> DEFINE j == i - n
      <3>1. j \in 1 .. k /\ j \in 0 .. k /\ j - 1 \in 0 .. k /\ n + j = i /\ n + (j - 1) = i - 1
        BY <1>3, <2>2
      <3> HIDE DEF j
      <3>2. h[i] = g[j] /\ h[i - 1] = g[j - 1] /\ u[i] = t[j]
        <4>1. h[n + j] = g[j] /\ h[n + (j - 1)] = g[j - 1] /\ u[n + j] = t[j]
          BY <1>4, <1>7, <3>1
        <4>2. QED  BY <3>1, <4>1
      <3>3. QED  BY <1>2, <3>1, <3>2 DEF ReadBy
    <2>3. QED  BY <2>1, <2>2
  <1>9. h[0] = c /\ h[n + k] = e
    <2>1. 0 \in 0 .. n /\ k \in 0 .. k
      BY <1>3
    <2>2. QED  BY <1>1, <1>2, <1>6, <1>7, <2>1
  <1>10. ReadBy(of, u, h)
    BY <1>3, <1>8 DEF ReadBy
  <1>11. Reads(of, u, c, e)
    BY <1>3, <1>5, <1>9, <1>10 DEF Reads
  <1>12. QED  BY <1>11 DEF u

(* The worker takes its first message.                                      *)
LEMMA ReadsTheRest ==
  ASSUME NEW of, NEW s \in Seq(Messages), s # <<>>, NEW c, NEW d, Reads(of, s, c, d)
  PROVE  LET m == Head(s) IN
         IF m.kind = "data" THEN Reads(of, Tail(s), m.data, d)
         ELSE m.id \in DOMAIN of /\ of[m.id] = c /\ Reads(of, Tail(s), c, d)
  <1> DEFINE n == Len(s)  t == Tail(s)  m == Head(s)
  <1>1. PICK f \in [0 .. n -> Nat] : f[0] = c /\ f[n] = d /\ ReadBy(of, s, f)
    BY DEF Reads
  <1>2. n \in Nat /\ n >= 1 /\ Len(t) = n - 1 /\ m = s[1]
    OBVIOUS
  <1>3. \A i \in 1 .. n - 1 : t[i] = s[i + 1]
    OBVIOUS
  <1> HIDE DEF t, m
  <1> DEFINE g == [i \in 0 .. n - 1 |-> f[i + 1]]
  <1>4. g \in [0 .. n - 1 -> Nat] /\ \A i \in 0 .. n - 1 : g[i] = f[i + 1]
    BY <1>2
  <1> HIDE DEF g
  <1>5. ASSUME NEW i \in 1 .. n - 1
        PROVE  IF t[i].kind = "data" THEN g[i] = t[i].data
               ELSE t[i].id \in DOMAIN of /\ g[i] = g[i - 1] /\ g[i] = of[t[i].id]
    <2>1. i \in 0 .. n - 1 /\ i - 1 \in 0 .. n - 1 /\ (i - 1) + 1 = i /\ i + 1 \in 1 .. n
          /\ (i + 1) - 1 = i
      BY <1>2
    <2>2. g[i] = f[i + 1] /\ g[i - 1] = f[i] /\ t[i] = s[i + 1]
      BY <1>3, <1>4, <2>1
    <2>3. IF s[i + 1].kind = "data" THEN f[i + 1] = s[i + 1].data
          ELSE s[i + 1].id \in DOMAIN of /\ f[i + 1] = f[i] /\ f[i + 1] = of[s[i + 1].id]
      BY <1>1, <2>1 DEF ReadBy
    <2>4. QED  BY <2>2, <2>3
  <1>6. ReadBy(of, t, g)
    BY <1>2, <1>5 DEF ReadBy
  <1>7. g[0] = f[1] /\ g[n - 1] = d
    <2>1. 0 \in 0 .. n - 1 /\ n - 1 \in 0 .. n - 1 /\ (n - 1) + 1 = n /\ 0 + 1 = 1
      BY <1>2
    <2>2. QED  BY <1>1, <1>4, <2>1
  <1>8. Reads(of, t, f[1], d)
    BY <1>2, <1>4, <1>6, <1>7 DEF Reads
  <1>9. IF m.kind = "data" THEN f[1] = m.data
        ELSE m.id \in DOMAIN of /\ f[1] = c /\ f[1] = of[m.id]
    <2>1. 1 \in 1 .. n /\ 1 - 1 = 0
      BY <1>2
    <2>2. QED  BY <1>1, <1>2, <2>1 DEF ReadBy
  <1>10. QED  BY <1>8, <1>9 DEF t, m

(* A request more leaves what is in the inbox as it was.                    *)
LEMMA ReadsOfMore ==
  ASSUME NEW of, NEW more, DOMAIN of \subseteq DOMAIN more,
         \A id \in DOMAIN of : more[id] = of[id], NEW s, NEW c, NEW d, Reads(of, s, c, d)
  PROVE  Reads(more, s, c, d)
  BY DEF Reads, ReadBy

PostsOf(of, ids, handed) ==
  LET Of(i) == of[ids[i]]
      Has(i) == IF i = 1 THEN handed ELSE Of(i - 1)
      request(i) == [kind |-> "request", id |-> ids[i]]
  IN FlattenSeq([i \in DOMAIN ids |->
       IF Of(i) = Has(i) THEN <<request(i)>>
       ELSE <<[kind |-> "data", data |-> Of(i)], request(i)>>])
Bears(s, id) == \E j \in DOMAIN s : s[j].kind = "request" /\ s[j].id = id
LastOf(of, ids, n, handed) == IF n = 0 THEN handed ELSE of[ids[n]]

(* A message more, and what is behind it, leaves what is carried.           *)
LEMMA BearsMore ==
  ASSUME NEW s \in Seq(Messages), NEW t \in Seq(Messages), NEW id
  PROVE  Bears(s \o t, id) <=> Bears(s, id) \/ Bears(t, id)
  <1> DEFINE n == Len(s)  k == Len(t)  u == s \o t
  <1>1. /\ n \in Nat /\ k \in Nat /\ DOMAIN u = 1 .. n + k /\ DOMAIN s = 1 .. n
        /\ DOMAIN t = 1 .. k /\ \A i \in 1 .. n : u[i] = s[i]
    OBVIOUS
  <1>2. \A i \in 1 .. k : u[n + i] = t[i]
    OBVIOUS
  <1> HIDE DEF u, n, k
  <1>3. ASSUME Bears(s, id) PROVE Bears(u, id)
    <2>1. PICK j \in 1 .. n : s[j].kind = "request" /\ s[j].id = id
      BY <1>1, <1>3 DEF Bears
    <2>2. j \in 1 .. n + k /\ u[j] = s[j]
      BY <1>1
    <2>3. QED  BY <1>1, <2>1, <2>2 DEF Bears
  <1>4. ASSUME Bears(t, id) PROVE Bears(u, id)
    <2>1. PICK j \in 1 .. k : t[j].kind = "request" /\ t[j].id = id
      BY <1>1, <1>4 DEF Bears
    <2>2. n + j \in 1 .. n + k /\ u[n + j] = t[j]
      BY <1>1, <1>2
    <2>3. QED  BY <1>1, <2>1, <2>2 DEF Bears
  <1>5. ASSUME Bears(u, id) PROVE Bears(s, id) \/ Bears(t, id)
    <2>1. PICK j \in 1 .. n + k : u[j].kind = "request" /\ u[j].id = id
      BY <1>1, <1>5 DEF Bears
    <2>2. CASE j <= n
      <3>1. j \in 1 .. n /\ u[j] = s[j]
        BY <1>1, <2>2
      <3>2. QED  BY <1>1, <2>1, <3>1 DEF Bears
    <2>3. CASE ~(j <= n)
      <3> DEFINE i == j - n
      <3>1. i \in 1 .. k /\ n + i = j
        BY <1>1, <2>3
      <3> HIDE DEF i
      <3>2. u[n + i] = t[i]
        BY <1>2, <3>1
      <3>3. QED  BY <1>1, <2>1, <3>1, <3>2 DEF Bears
    <2>4. QED  BY <2>2, <2>3
  <1>6. QED  BY <1>3, <1>4, <1>5 DEF u

(* What is posted is read by a worker that was handed what it is taken to   *)
(* have, and carries every request.                                         *)
LEMMA PostsAreRead ==
  ASSUME NEW of, DOMAIN of \subseteq Nat, \A id \in DOMAIN of : of[id] \in Nat,
         NEW ids \in Seq(DOMAIN of), NEW handed \in Nat
  PROVE  /\ PostsOf(of, ids, handed) \in Seq(Messages)
         /\ Reads(of, PostsOf(of, ids, handed), handed, LastOf(of, ids, Len(ids), handed))
         /\ \A k \in DOMAIN ids : Bears(PostsOf(of, ids, handed), ids[k])
  <1> DEFINE n == Len(ids)
             Of(i) == of[ids[i]]
             Has(i) == IF i = 1 THEN handed ELSE Of(i - 1)
             request(i) == [kind |-> "request", id |-> ids[i]]
             Sent(i) == IF Of(i) = Has(i) THEN <<request(i)>>
                        ELSE <<[kind |-> "data", data |-> Of(i)], request(i)>>
             seqs == [i \in DOMAIN ids |-> Sent(i)]
             Handed(i) == LastOf(of, ids, i, handed)
  <1>1. n \in Nat /\ DOMAIN ids = 1 .. n /\ \A i \in 1 .. n : ids[i] \in DOMAIN of
    OBVIOUS
  <1>2. PostsOf(of, ids, handed) = FlattenSeq(seqs)
    BY DEF PostsOf
  <1>3. ASSUME NEW i \in 1 .. n
        PROVE  Sent(i) \in Seq(Messages) /\ Reads(of, Sent(i), Handed(i - 1), Handed(i))
               /\ Bears(Sent(i), ids[i])
    <2>1. ids[i] \in DOMAIN of /\ ids[i] \in Nat /\ Of(i) \in Nat
      BY <1>1
    <2>2. Handed(i) = Of(i) /\ Has(i) = Handed(i - 1) /\ Handed(i - 1) \in Nat
      <3>1. CASE i = 1
        BY <3>1 DEF LastOf
      <3>2. CASE i # 1
        <4>1. i - 1 \in 1 .. n /\ i # 0 /\ i - 1 # 0
          BY <1>1, <3>2
        <4>2. ids[i - 1] \in DOMAIN of
          BY <1>1, <4>1
        <4>3. QED  BY <3>2, <4>1, <4>2 DEF LastOf
      <3>3. QED  BY <3>1, <3>2
    <2> DEFINE m == [kind |-> "request", id |-> ids[i]]
               d == [kind |-> "data", data |-> Of(i)]
    <2>3. m \in Messages /\ d \in Messages /\ m.kind = "request" /\ m.id = ids[i]
      BY <2>1 DEF Messages
    <2>4. Reads(of, <<m>>, Of(i), Of(i)) /\ Reads(of, <<d, m>>, Handed(i - 1), Of(i))
      BY <2>1, <2>2, ReadsRequest, ReadsDataAndRequest
    <2>5. Sent(i) = IF Of(i) = Handed(i - 1) THEN <<m>> ELSE <<d, m>>
      BY <2>2
    <2> HIDE DEF m, d, Sent, Of, Has, Handed
    <2>6. CASE Of(i) = Handed(i - 1)
      <3>1. <<m>> \in Seq(Messages) /\ 1 \in DOMAIN <<m>> /\ <<m>>[1] = m
        BY <2>3
      <3>2. Bears(<<m>>, ids[i])
        BY <2>3, <3>1 DEF Bears
      <3>3. QED  BY <2>2, <2>4, <2>5, <2>6, <3>1, <3>2
    <2>7. CASE Of(i) # Handed(i - 1)
      <3>1. <<d, m>> \in Seq(Messages) /\ 2 \in DOMAIN <<d, m>> /\ <<d, m>>[2] = m
        BY <2>3
      <3>2. Bears(<<d, m>>, ids[i])
        BY <2>3, <3>1 DEF Bears
      <3>3. QED  BY <2>2, <2>4, <2>5, <2>7, <3>1, <3>2
    <2>8. QED  BY <2>6, <2>7
  <1> HIDE DEF Sent, Handed, Of, Has
  <1>4. seqs \in Seq(Seq(Messages)) /\ Len(seqs) = n /\ \A i \in 1 .. n : seqs[i] = Sent(i)
    BY <1>1, <1>3
  <1> HIDE DEF seqs, n
  <1>5. PICK f \in [0 .. Len(seqs) -> Seq(Messages)] :
           /\ f[0] = <<>> /\ f[Len(seqs)] = FlattenSeq(seqs)
           /\ \A i \in 1 .. Len(seqs) : f[i] = f[i - 1] \o seqs[i]
    BY <1>4, FlattenParts
  <1>6. /\ f \in [0 .. n -> Seq(Messages)] /\ f[0] = <<>> /\ f[n] = FlattenSeq(seqs)
        /\ \A i \in 1 .. n : f[i] = f[i - 1] \o Sent(i)
    BY <1>4, <1>5
  <1> DEFINE Good(i) == /\ Reads(of, f[i], handed, Handed(i))
                        /\ \A k \in 1 .. i : Bears(f[i], ids[k])
  <1>7. Good(0)
    <2>1. Handed(0) = handed
      BY DEF Handed, LastOf
    <2>2. QED  BY <1>6, <2>1, ReadsNothing
  <1>8. ASSUME NEW i \in 1 .. n, Good(i - 1) PROVE Good(i)
    <2>1. i - 1 \in 0 .. n /\ f[i - 1] \in Seq(Messages) /\ f[i] = f[i - 1] \o Sent(i)
      <3>1. i - 1 \in 0 .. n
        BY <1>1
      <3>2. QED  BY <1>6, <3>1
    <2>2. Reads(of, f[i], handed, Handed(i))
      BY <1>3, <1>8, <2>1, ReadsOneAfterTheOther
    <2>3. ASSUME NEW k \in 1 .. i PROVE Bears(f[i], ids[k])
      <3>1. k = i \/ k \in 1 .. i - 1
        OBVIOUS
      <3>2. Bears(f[i - 1], ids[k]) \/ Bears(Sent(i), ids[k])
        BY <1>3, <1>8, <3>1
      <3>3. QED  BY <1>3, <2>1, <3>2, BearsMore
    <2>4. QED  BY <2>2, <2>3
  <1> HIDE DEF Good
  <1>9. \A i \in 0 .. n : Good(i)
    <2> DEFINE N == {i \in 0 .. n : ~Good(i)}
    <2>0. N \subseteq Nat /\ \A i : i \in N <=> i \in 0 .. n /\ ~Good(i)
      OBVIOUS
    <2> HIDE DEF N
    <2> SUFFICES ASSUME N # {} PROVE FALSE
      BY <2>0
    <2>1. PICK i \in N : \A j \in N : i <= j
      BY <2>0, LeastNumber
    <2>2. i # 0 /\ i \in 0 .. n
      BY <1>7, <2>0, <2>1
    <2>3. i \in 1 .. n /\ i - 1 \in 0 .. n /\ i - 1 \notin N
      BY <1>1, <2>1, <2>2
    <2>4. QED  BY <1>8, <2>0, <2>1, <2>3
  <1>10. n \in 0 .. n
    BY <1>1
  <1>11. Good(n)
    BY <1>9, <1>10
  <1>12. PostsOf(of, ids, handed) = f[n]
    BY <1>2, <1>6
  <1>13. QED  BY <1>1, <1>6, <1>10, <1>11, <1>12 DEF Good, Handed, n

--------------------------------------------------------------------------------
EngineTyped ==
  /\ eqData \in Nat /\ eqConstants \in {"none", "loading", "here"} /\ eqOf \in Seq(Nat)
  /\ eqWaiting \subseteq Requests /\ eqAborted \subseteq eqWaiting
  /\ eqPending \in Seq(Requests) /\ eqHanded \in Nat /\ eqContext \in Nat
  /\ eqInbox \in Seq(Messages) /\ eqOutbox \in Seq([id : Nat, data : Nat])
  /\ eqAnswers \in Seq(Seq(EngineSaid)) /\ Len(eqAnswers) = Len(eqOf)
EngineReads == Reads(eqOf, eqInbox, eqContext, eqHanded)
RepliesAreRight ==
  \A i \in DOMAIN eqOutbox :
    eqOutbox[i].id \in Requests /\ eqOutbox[i].data = eqOf[eqOutbox[i].id]
Owed(id) ==
  /\ id \in eqWaiting => eqAnswers[id] = <<>> /\ ~IsPending(id)
  /\ IsPending(id) => eqAnswers[id] = <<>> /\ OnItsWay(id)
  /\ eqAnswers[id] = <<>> => id \in eqWaiting \/ IsPending(id)
  /\ Len(eqAnswers[id]) <= 1
  /\ \A i \in DOMAIN eqAnswers[id] :
       eqAnswers[id][i].kind = "reply" => eqAnswers[id][i].data = eqOf[id]
EngineOwes == \A id \in Requests : Owed(id)
EngineInv == EngineTyped /\ EngineReads /\ RepliesAreRight /\ EngineOwes

(* The invariant says what the run checks.                                  *)
LEMMA EngineHolds == EngineInv => RequestsAreAnswered
  BY DEF EngineInv, EngineOwes, Owed, RequestsAreAnswered

(* The engine starts with an empty queue.                                   *)
LEMMA EngineStarts == EngineQueueInit => EngineInv
  <1> SUFFICES ASSUME EngineQueueInit PROVE EngineInv
    OBVIOUS
  <1> DEFINE none == <<>>
  <1>1. none \in Seq(Nat) /\ none \in Seq({}) /\ none \in Seq(Messages)
        /\ none \in Seq([id : Nat, data : Nat]) /\ none \in Seq(Seq(EngineSaid)) /\ Len(none) = 0
        /\ DOMAIN none = {}
    OBVIOUS
  <1>2. Reads(none, none, 0, 0)
    BY ReadsNothing
  <1>3. /\ eqOf = none /\ eqPending = none /\ eqInbox = none /\ eqOutbox = none
        /\ eqAnswers = none
    BY DEF EngineQueueInit
  <1> HIDE DEF none
  <1>4. EngineTyped
    BY <1>1, <1>3 DEF EngineQueueInit, EngineTyped, Requests
  <1>5. EngineReads
    BY <1>2, <1>3 DEF EngineQueueInit, EngineReads
  <1>6. RepliesAreRight /\ EngineOwes
    BY <1>1, <1>3 DEF RepliesAreRight, EngineOwes, Requests
  <1>7. QED  BY <1>4, <1>5, <1>6 DEF EngineInv

(* One answer more for the requests in ids.                                 *)
LEMMA AnsweredSo ==
  ASSUME EngineTyped, NEW ids, NEW what \in EngineSaid
  PROVE  /\ Answered(ids, what) \in Seq(Seq(EngineSaid))
         /\ Len(Answered(ids, what)) = Len(eqAnswers)
         /\ \A id \in Requests : Answered(ids, what)[id]
              = IF id \in ids THEN Append(eqAnswers[id], what) ELSE eqAnswers[id]
  <1>1. /\ eqAnswers \in Seq(Seq(EngineSaid)) /\ DOMAIN eqAnswers = Requests
        /\ \A id \in DOMAIN eqAnswers : eqAnswers[id] \in Seq(EngineSaid)
    BY DEF EngineTyped, Requests
  <1>2. \A id \in DOMAIN eqAnswers :
          (IF id \in ids THEN Append(eqAnswers[id], what) ELSE eqAnswers[id]) \in Seq(EngineSaid)
    BY <1>1
  <1> DEFINE a == Answered(ids, what)
  <1>3. /\ a = [id \in DOMAIN eqAnswers |-> a[id]]
        /\ \A id \in DOMAIN eqAnswers :
             a[id] = IF id \in ids THEN Append(eqAnswers[id], what) ELSE eqAnswers[id]
    BY DEF Answered
  <1> HIDE DEF a
  <1>4. a \in Seq(Seq(EngineSaid)) /\ Len(a) = Len(eqAnswers)
    <2>1. \A id \in DOMAIN eqAnswers : a[id] \in Seq(EngineSaid)
      BY <1>2, <1>3
    <2>2. QED  BY <1>1, <1>3, <2>1, SameLength, Zenon
  <1>5. QED  BY <1>1, <1>3, <1>4 DEF a

(* A first answer is the only one.                                          *)
LEMMA FirstAnswer ==
  ASSUME NEW what
  PROVE  LET a == Append(<<>>, what) IN
         a # <<>> /\ Len(a) = 1 /\ DOMAIN a = {1} /\ a[1] = what
  OBVIOUS

(* The requests left when one goes.                                         *)
LEMMA LeftOfHas ==
  ASSUME NEW S, NEW seq \in Seq(S), NEW gone
  PROVE  /\ LeftOf(seq, gone) \in Seq(S)
         /\ \A id : Occurs(LeftOf(seq, gone), id) <=> id # gone /\ Occurs(seq, id)
  <1> DEFINE I == {i \in DOMAIN seq : seq[i] # gone}  part == ElementsAt(seq, I)
  <1>0. \A i : i \in I <=> i \in DOMAIN seq /\ seq[i] # gone
    OBVIOUS
  <1> HIDE DEF I
  <1>1. /\ part \in Seq(S)
        /\ \A k \in DOMAIN part : \E i \in I \cap DOMAIN seq : part[k] = seq[i]
        /\ \A i \in I \cap DOMAIN seq : \E k \in DOMAIN part : part[k] = seq[i]
    BY ElementsAtHas
  <1>2. LeftOf(seq, gone) = part
    BY DEF LeftOf, I
  <1> HIDE DEF part
  <1>3. \A id : Occurs(part, id) <=> id # gone /\ Occurs(seq, id)
    BY <1>0, <1>1 DEF Occurs
  <1>4. QED  BY <1>1, <1>2, <1>3

(* What Posts posts is what PostsAreRead says it is.                        *)
LEMMA PostsOfNow ==
  ASSUME NEW ids, NEW handed
  PROVE  Posts(ids, handed) = PostsOf(eqOf', ids, handed)
  BY DEF Posts, PostsOf

(* The next data is another request's; no request, none.                    *)
LEMMA HandedIsLast ==
  ASSUME NEW S, NEW ids \in Seq(S), NEW handed
  PROVE  HandedAfter(ids, handed) = LastOf(eqOf', ids, Len(ids), handed)
  <1>1. ids = <<>> <=> Len(ids) = 0
    OBVIOUS
  <1>2. QED  BY <1>1 DEF HandedAfter, LastOf

(* A request without an answer is owed one when it waits or is on its way.  *)
LEMMA NewlyOwed ==
  ASSUME NEW id, eqAnswers'[id] = <<>>,
         \/ IsPending(id)' /\ OnItsWay(id)' /\ id \notin eqWaiting'
         \/ ~IsPending(id)' /\ id \in eqWaiting'
  PROVE  Owed(id)'
  <1> DEFINE a == eqAnswers'[id]
  <1>1. a = <<>> /\ Len(a) <= 1 /\ DOMAIN a = {}
    OBVIOUS
  <1> HIDE DEF a
  <1>2. /\ a = <<>> => id \in eqWaiting' \/ IsPending(id)'
        /\ id \in eqWaiting' => a = <<>> /\ ~IsPending(id)'
        /\ IsPending(id)' => a = <<>> /\ OnItsWay(id)'
        /\ \A i \in DOMAIN a : a[i].kind = "reply" => a[i].data = eqOf'[id]
    BY <1>1
  <1>3. QED  BY <1>1, <1>2 DEF Owed, a

(* A request is posted at once, or waits.                                   *)
LEMMA EngineRequest ==
  ASSUME EngineInv, Request
  PROVE  EngineInv'
  <1> DEFINE n == Len(eqOf)
  <1>0. PICK id0 : id0 = n + 1
    OBVIOUS
  <1>1. /\ eqOf \in Seq(Nat) /\ n \in Nat /\ DOMAIN eqOf = 1 .. n /\ eqData \in Nat
        /\ \A id \in Requests : eqOf[id] \in Nat
    BY DEF EngineInv, EngineTyped, Requests
  <1>2. /\ eqOf' \in Seq(Nat) /\ Len(eqOf') = n + 1 /\ DOMAIN eqOf' = 1 .. n + 1
        /\ \A id \in Requests : eqOf'[id] = eqOf[id]
        /\ eqOf'[id0] = eqData
    BY <1>0, <1>1 DEF Request, Requests
  <1>3. Requests' = Requests \cup {id0} /\ id0 \notin Requests
    BY <1>0, <1>1, <1>2 DEF Requests
  <1>4. /\ eqAnswers' \in Seq(Seq(EngineSaid)) /\ Len(eqAnswers') = n + 1
        /\ \A id \in Requests : eqAnswers'[id] = eqAnswers[id]
        /\ eqAnswers'[id0] = <<>>
    <2> DEFINE none == <<>>
    <2>1. none \in Seq(EngineSaid) /\ eqAnswers \in Seq(Seq(EngineSaid)) /\ Len(eqAnswers) = n
          /\ DOMAIN eqAnswers = Requests /\ eqAnswers' = Append(eqAnswers, none)
      BY DEF EngineInv, EngineTyped, Request, Requests
    <2> HIDE DEF none
    <2>2. /\ eqAnswers' \in Seq(Seq(EngineSaid)) /\ Len(eqAnswers') = n + 1
          /\ \A id \in Requests : eqAnswers'[id] = eqAnswers[id]
          /\ eqAnswers'[id0] = none
      BY <1>0, <2>1, AppendLast
    <2>3. QED  BY <2>2 DEF none
  <1>5. Reads(eqOf', eqInbox, eqContext, eqHanded)
    <2>1. DOMAIN eqOf \subseteq DOMAIN eqOf'
      BY <1>1, <1>2
    <2>2. \A id \in DOMAIN eqOf : eqOf'[id] = eqOf[id]
      BY <1>2 DEF Requests
    <2>3. QED  BY <2>1, <2>2, ReadsOfMore DEF EngineInv, EngineReads
  <1>6. RepliesAreRight'
    <2>1. eqOutbox' = eqOutbox
      BY DEF Request
    <2>2. QED  BY <1>2, <1>3, <2>1 DEF EngineInv, RepliesAreRight
  <1>7. /\ eqPending \in Seq(Requests) /\ eqInbox \in Seq(Messages) /\ eqHanded \in Nat
        /\ eqContext \in Nat /\ eqOutbox \in Seq([id : Nat, data : Nat])
        /\ eqWaiting \subseteq Requests /\ eqAborted \subseteq eqWaiting
        /\ \A id \in Requests : Owed(id)
    BY DEF EngineInv, EngineTyped, EngineOwes
  <1>8. id0 \in Nat /\ id0 \notin eqWaiting /\ ~IsPending(id0)
    <2>1. \A i \in DOMAIN eqPending : eqPending[i] \in Requests
      BY <1>7
    <2>2. QED  BY <1>0, <1>1, <1>3, <1>7, <2>1 DEF IsPending
  <1>a. eqPending \in Seq(Requests')
    <2>1. \A i \in DOMAIN eqPending : eqPending[i] \in Requests'
      BY <1>3, <1>7
    <2>2. QED  BY <1>7, <2>1
  <1>9. CASE eqConstants = "here"
    <2> DEFINE ids == <<id0>>
               p == PostsOf(eqOf', ids, eqHanded)
    <2>1. /\ eqPending' = Append(eqPending, id0) /\ eqInbox' = eqInbox \o Posts(ids, eqHanded)
          /\ eqHanded' = eqData /\ UNCHANGED <<eqWaiting, eqConstants>>
          /\ UNCHANGED <<eqData, eqAborted, eqContext, eqOutbox>>
      BY <1>0, <1>2, <1>9 DEF Request
    <2>2. ids \in Seq(DOMAIN eqOf') /\ Len(ids) = 1 /\ DOMAIN ids = {1} /\ ids[1] = id0
      BY <1>2, <1>3 DEF Requests
    <2> HIDE DEF ids
    <2>3. DOMAIN eqOf' \subseteq Nat /\ \A id \in DOMAIN eqOf' : eqOf'[id] \in Nat
      BY <1>2
    <2>4. /\ p \in Seq(Messages)
          /\ Reads(eqOf', p, eqHanded, LastOf(eqOf', ids, Len(ids), eqHanded))
          /\ \A k \in DOMAIN ids : Bears(p, ids[k])
      BY <1>7, <2>2, <2>3, PostsAreRead
    <2>5. LastOf(eqOf', ids, Len(ids), eqHanded) = eqData
      BY <1>2, <2>2 DEF LastOf
    <2>6. eqInbox' = eqInbox \o p
      BY <2>1, PostsOfNow
    <2> HIDE DEF p
    <2>7. eqInbox' \in Seq(Messages)
      BY <1>7, <2>4, <2>6
    <2>8. EngineReads'
      BY <1>5, <1>7, <2>1, <2>4, <2>5, <2>6, ReadsOneAfterTheOther DEF EngineReads
    <2>9. /\ eqPending' \in Seq(Requests') /\ Len(eqPending') = Len(eqPending) + 1
          /\ \A i \in DOMAIN eqPending : eqPending'[i] = eqPending[i]
          /\ eqPending'[Len(eqPending) + 1] = id0
      BY <1>3, <1>a, <2>1, AppendLast
    <2>10. EngineTyped'
      BY <1>1, <1>2, <1>3, <1>4, <1>7, <2>1, <2>7, <2>9 DEF EngineInv, EngineTyped
    <2>11. \A id : IsPending(id)' <=> IsPending(id) \/ id = id0
      <3>1. DOMAIN eqPending' = 1 .. Len(eqPending) + 1 /\ DOMAIN eqPending = 1 .. Len(eqPending)
            /\ Len(eqPending) \in Nat
        BY <1>a, <2>9
      <3>2. \A i : i \in DOMAIN eqPending' <=> i \in DOMAIN eqPending \/ i = Len(eqPending) + 1
        BY <3>1
      <3>3. QED  BY <2>9, <3>2 DEF IsPending
    <2>12. \A id : Bears(eqInbox', id) <=> Bears(eqInbox, id) \/ Bears(p, id)
      BY <1>7, <2>4, <2>6, BearsMore
    <2>13. \A id : OnItsWay(id) => OnItsWay(id)'
      BY <2>1, <2>12 DEF OnItsWay, Bears
    <2>14. OnItsWay(id0)'
      <3>1. Bears(p, id0)
        BY <2>2, <2>4
      <3>2. Bears(eqInbox', id0)
        BY <2>12, <3>1
      <3>3. QED  BY <3>2 DEF OnItsWay, Bears
    <2>15. ASSUME NEW id \in Requests' PROVE Owed(id)'
      <3>1. CASE id = id0
        <4>1. IsPending(id)' /\ OnItsWay(id)' /\ id \notin eqWaiting'
          BY <1>8, <2>1, <2>11, <2>14, <3>1
        <4>2. QED  BY <1>4, <3>1, <4>1, NewlyOwed
      <3>2. CASE id # id0
        <4>1. id \in Requests /\ Owed(id)
          BY <1>3, <1>7, <3>2
        <4>2. QED  BY <1>2, <1>4, <2>1, <2>11, <2>13, <3>2, <4>1 DEF Owed
      <3>3. QED  BY <3>1, <3>2
    <2>16. QED  BY <1>6, <2>8, <2>10, <2>15 DEF EngineInv, EngineOwes
  <1>10. CASE eqConstants # "here"
    <2>1. /\ eqWaiting' = eqWaiting \cup {id0} /\ eqConstants' = "loading"
          /\ UNCHANGED <<eqPending, eqInbox, eqHanded>>
          /\ UNCHANGED <<eqData, eqAborted, eqContext, eqOutbox>>
      BY <1>0, <1>2, <1>10 DEF Request
    <2>2. EngineReads'
      BY <1>5, <2>1 DEF EngineReads
    <2>3. EngineTyped'
      BY <1>1, <1>2, <1>3, <1>4, <1>7, <1>a, <2>1 DEF EngineTyped
    <2>4. \A id : (IsPending(id)' <=> IsPending(id)) /\ (OnItsWay(id)' <=> OnItsWay(id))
      BY <2>1 DEF IsPending, OnItsWay
    <2>5. ASSUME NEW id \in Requests' PROVE Owed(id)'
      <3>1. CASE id = id0
        <4>1. ~IsPending(id)' /\ id \in eqWaiting'
          BY <1>8, <2>1, <2>4, <3>1
        <4>2. QED  BY <1>4, <3>1, <4>1, NewlyOwed
      <3>2. CASE id # id0
        <4>1. id \in Requests /\ Owed(id)
          BY <1>3, <1>7, <3>2
        <4>2. QED  BY <1>2, <1>4, <2>1, <2>4, <3>2, <4>1 DEF Owed
      <3>3. QED  BY <3>1, <3>2
    <2>6. QED  BY <1>6, <2>2, <2>3, <2>5 DEF EngineInv, EngineOwes
  <1>11. QED  BY <1>9, <1>10

(* The requests are as many, and about the same data.                       *)
SameRequests == UNCHANGED <<eqOf, eqData, eqWaiting, eqAborted, eqConstants>>

(* A request that is answered for the first time, and neither waits nor is  *)
(* pending any longer.                                                      *)
LEMMA NowAnswered ==
  ASSUME NEW id, NEW what, eqAnswers'[id] = Append(<<>>, what),
         id \notin eqWaiting', ~IsPending(id)', what.kind = "reply" => what.data = eqOf'[id]
  PROVE  Owed(id)'
  <1> DEFINE a == Append(<<>>, what)
  <1>1. a # <<>> /\ Len(a) = 1 /\ DOMAIN a = {1} /\ a[1] = what
    BY FirstAnswer
  <1>2. eqAnswers'[id] = a
    OBVIOUS
  <1> HIDE DEF a
  <1>3. QED  BY <1>1, <1>2 DEF Owed

(* The constants are in: those that were not aborted are posted.            *)
LEMMA EngineConstants ==
  ASSUME EngineInv, ConstantsLoad
  PROVE  EngineInv'
  <1> DEFINE n == Len(eqOf)
             all == [i \in DOMAIN eqOf |-> i]
             ids == ElementsAt(all, eqWaiting \ eqAborted)
             p == PostsOf(eqOf, ids, eqHanded)
  <1>1. /\ eqOf \in Seq(Nat) /\ n \in Nat /\ Requests = 1 .. n
        /\ \A id \in Requests : eqOf[id] \in Nat
        /\ eqPending \in Seq(Requests) /\ eqInbox \in Seq(Messages) /\ eqHanded \in Nat
        /\ eqContext \in Nat /\ eqOutbox \in Seq([id : Nat, data : Nat])
        /\ eqWaiting \subseteq Requests /\ eqAborted \subseteq eqWaiting
        /\ \A id \in Requests : Owed(id)
    BY DEF EngineInv, EngineTyped, EngineOwes, Requests
  <1>2. /\ eqOf' = eqOf /\ eqData' = eqData /\ eqContext' = eqContext /\ eqOutbox' = eqOutbox
        /\ eqWaiting' = {} /\ eqAborted' = {} /\ eqConstants' = "here"
        /\ eqAnswers' = Answered(eqAborted, [kind |-> "cancelled"])
        /\ eqPending' = eqPending \o ids /\ eqInbox' = eqInbox \o Posts(ids, eqHanded)
        /\ eqHanded' = HandedAfter(ids, eqHanded)
    BY DEF ConstantsLoad
  <1>3. all \in Seq(Requests) /\ DOMAIN all = Requests /\ \A i \in Requests : all[i] = i
    BY <1>1 DEF Requests
  <1> HIDE DEF all
  <1>4. ids \in Seq(Requests) /\ \A id : (\E k \in DOMAIN ids : ids[k] = id)
                                        <=> id \in eqWaiting \ eqAborted
    <2> DEFINE Go == eqWaiting \ eqAborted
    <2>1. /\ ids \in Seq(Requests)
          /\ \A k \in DOMAIN ids : \E i \in Go \cap DOMAIN all : ids[k] = all[i]
          /\ \A i \in Go \cap DOMAIN all : \E k \in DOMAIN ids : ids[k] = all[i]
      <3>1. ids = ElementsAt(all, Go)
        OBVIOUS
      <3> HIDE DEF Go, ids
      <3>2. QED  BY <1>3, <3>1, ElementsAtHas
    <2> HIDE DEF ids
    <2>2. QED  BY <1>1, <1>3, <2>1
  <1> HIDE DEF ids
  <1>5. /\ p \in Seq(Messages)
        /\ Reads(eqOf, p, eqHanded, LastOf(eqOf, ids, Len(ids), eqHanded))
        /\ \A k \in DOMAIN ids : Bears(p, ids[k])
    <2>1. DOMAIN eqOf \subseteq Nat /\ \A id \in DOMAIN eqOf : eqOf[id] \in Nat
      BY <1>1 DEF Requests
    <2>2. ids \in Seq(DOMAIN eqOf)
      BY <1>4 DEF Requests
    <2>3. QED  BY <1>1, <2>1, <2>2, PostsAreRead
  <1>6. /\ eqInbox' = eqInbox \o p
        /\ eqHanded' = LastOf(eqOf, ids, Len(ids), eqHanded)
    BY <1>2, <1>4, PostsOfNow, HandedIsLast
  <1> HIDE DEF p
  <1>7. EngineReads'
    <2>1. Reads(eqOf, eqInbox, eqContext, eqHanded)
      BY DEF EngineInv, EngineReads
    <2>2. Reads(eqOf, eqInbox', eqContext, eqHanded')
      BY <1>1, <1>5, <1>6, <2>1, ReadsOneAfterTheOther
    <2>3. QED  BY <1>2, <2>2 DEF EngineReads
  <1>8. RepliesAreRight'
    BY <1>2 DEF EngineInv, RepliesAreRight, Requests
  <1>9. [kind |-> "cancelled"] \in EngineSaid /\ [kind |-> "cancelled"].kind # "reply"
    BY DEF EngineSaid
  <1>10. /\ eqAnswers' \in Seq(Seq(EngineSaid)) /\ Len(eqAnswers') = n
         /\ \A id \in Requests :
              eqAnswers'[id] = IF id \in eqAborted THEN Append(eqAnswers[id], [kind |-> "cancelled"])
                               ELSE eqAnswers[id]
    BY <1>2, <1>9, AnsweredSo DEF EngineInv, EngineTyped
  <1>11. Requests' = Requests
    BY <1>2 DEF Requests
  <1>12. eqInbox' \in Seq(Messages) /\ eqPending' \in Seq(Requests) /\ eqHanded' \in Nat
    <2>1. LastOf(eqOf, ids, Len(ids), eqHanded) \in Nat
      <3>1. Len(ids) # 0 => ids[Len(ids)] \in Requests
        BY <1>4
      <3>2. QED  BY <1>1, <3>1 DEF LastOf
    <2>2. QED  BY <1>1, <1>2, <1>4, <1>5, <1>6, <2>1
  <1>13. EngineTyped'
    <2>1. eqWaiting' \subseteq Requests /\ eqAborted' \subseteq eqWaiting'
      BY <1>2
    <2>2. QED  BY <1>1, <1>2, <1>10, <1>11, <1>12, <2>1 DEF EngineInv, EngineTyped
  <1>14. \A id : IsPending(id)' <=> IsPending(id) \/ id \in eqWaiting \ eqAborted
    <2>1. \A id : Occurs(eqPending \o ids, id) <=> Occurs(eqPending, id) \/ Occurs(ids, id)
      BY <1>1, <1>4, ConcatHas
    <2>2. QED  BY <1>2, <1>4, <2>1 DEF IsPending, Occurs
  <1>15. \A id : Bears(eqInbox', id) <=> Bears(eqInbox, id) \/ Bears(p, id)
    BY <1>1, <1>5, <1>6, BearsMore
  <1>16. \A id : OnItsWay(id) => OnItsWay(id)'
    BY <1>2, <1>15 DEF OnItsWay, Bears
  <1>17. \A id \in eqWaiting \ eqAborted : OnItsWay(id)'
    <2> SUFFICES ASSUME NEW id \in eqWaiting \ eqAborted PROVE OnItsWay(id)'
      OBVIOUS
    <2>1. Bears(p, id)
      BY <1>4, <1>5
    <2>2. Bears(eqInbox', id)
      BY <1>15, <2>1
    <2>3. QED  BY <2>2 DEF OnItsWay, Bears
  <1>18. ASSUME NEW id \in Requests' PROVE Owed(id)'
    <2>1. id \in Requests /\ Owed(id) /\ id \notin eqWaiting'
      BY <1>1, <1>2, <1>11
    <2>2. CASE id \in eqAborted
      <3>1. eqAnswers[id] = <<>> /\ ~IsPending(id)
        BY <1>1, <2>1, <2>2 DEF Owed
      <3>2. eqAnswers'[id] = Append(<<>>, [kind |-> "cancelled"]) /\ ~IsPending(id)'
        BY <1>10, <1>14, <2>1, <2>2, <3>1
      <3>3. QED  BY <1>9, <2>1, <3>2, NowAnswered
    <2>3. CASE id \in eqWaiting \ eqAborted
      <3>1. eqAnswers'[id] = <<>>
        BY <1>10, <2>1, <2>3 DEF Owed
      <3>2. QED  BY <1>14, <1>17, <2>1, <2>3, <3>1, NewlyOwed
    <2>4. CASE id \notin eqWaiting
      <3>1. /\ eqAnswers'[id] = eqAnswers[id] /\ eqOf'[id] = eqOf[id]
            /\ (IsPending(id)' <=> IsPending(id))
            /\ (OnItsWay(id) => OnItsWay(id)')
        BY <1>1, <1>2, <1>10, <1>14, <1>16, <2>1, <2>4
      <3>2. QED  BY <2>1, <2>4, <3>1 DEF Owed
    <2>5. QED  BY <2>2, <2>3, <2>4
  <1>19. QED  BY <1>7, <1>8, <1>13, <1>18 DEF EngineInv, EngineOwes

(* The constants did not load: what waited for them fails.                  *)
LEMMA EngineConstantsLost ==
  ASSUME EngineInv, ConstantsFail
  PROVE  EngineInv'
  <1>1. [kind |-> "failed"] \in EngineSaid /\ [kind |-> "failed"].kind # "reply"
    BY DEF EngineSaid
  <1>2. /\ eqAnswers' \in Seq(Seq(EngineSaid)) /\ Len(eqAnswers') = Len(eqOf)
        /\ \A id \in Requests :
             eqAnswers'[id] = IF id \in eqWaiting THEN Append(eqAnswers[id], [kind |-> "failed"])
                              ELSE eqAnswers[id]
    BY <1>1, AnsweredSo DEF EngineInv, EngineTyped, ConstantsFail
  <1>3. /\ UNCHANGED eqWorker /\ eqOf' = eqOf /\ eqData' = eqData /\ eqWaiting' = {}
        /\ eqAborted' = {} /\ eqConstants' = "none" /\ Requests' = Requests
    BY DEF ConstantsFail, Requests
  <1>4. EngineTyped'
    BY <1>2, <1>3 DEF EngineInv, EngineTyped, eqWorker
  <1>5. EngineReads' /\ RepliesAreRight'
    BY <1>3 DEF EngineInv, EngineReads, RepliesAreRight, eqWorker
  <1>6. \A id : (IsPending(id)' <=> IsPending(id)) /\ (OnItsWay(id)' <=> OnItsWay(id))
    BY <1>3 DEF IsPending, OnItsWay, eqWorker
  <1>7. ASSUME NEW id \in Requests' PROVE Owed(id)'
    <2>1. id \in Requests /\ Owed(id) /\ id \notin eqWaiting'
      BY <1>3 DEF EngineInv, EngineOwes
    <2>2. CASE id \in eqWaiting
      <3>1. eqAnswers'[id] = Append(<<>>, [kind |-> "failed"]) /\ ~IsPending(id)'
        BY <1>2, <1>6, <2>1, <2>2 DEF Owed
      <3>2. QED  BY <1>1, <2>1, <3>1, NowAnswered
    <2>3. CASE id \notin eqWaiting
      BY <1>2, <1>3, <1>6, <2>1, <2>3 DEF Owed
    <2>4. QED  BY <2>2, <2>3
  <1>8. QED  BY <1>4, <1>5, <1>7 DEF EngineInv, EngineOwes

(* A caller gives up while its request waits, or the page loads other data. *)
LEMMA EngineAside ==
  ASSUME EngineInv, (\E id \in Requests : AbortWaiting(id)) \/ ReloadEngineData \/ UNCHANGED eqVars
  PROVE  EngineInv'
  <1>1. /\ UNCHANGED eqWorker /\ UNCHANGED <<eqOf, eqWaiting, eqAnswers, eqConstants>>
        /\ eqAborted' \subseteq eqWaiting /\ eqData' \in Nat
    BY DEF AbortWaiting, ReloadEngineData, eqVars, eqWorker, EngineInv, EngineTyped
  <1>2. Requests' = Requests
    BY <1>1 DEF Requests
  <1>3. EngineTyped'
    BY <1>1, <1>2 DEF EngineInv, EngineTyped, eqWorker
  <1>4. EngineReads' /\ RepliesAreRight'
    BY <1>1, <1>2 DEF EngineInv, EngineReads, RepliesAreRight, eqWorker
  <1>5. EngineOwes'
    BY <1>1, <1>2 DEF EngineInv, EngineOwes, Owed, IsPending, OnItsWay, eqWorker
  <1>6. QED  BY <1>3, <1>4, <1>5 DEF EngineInv

(* What the invariant says of the requests, in one place.                   *)
LEMMA EngineKnows ==
  ASSUME EngineInv
  PROVE  /\ eqOf \in Seq(Nat) /\ DOMAIN eqOf = Requests /\ Requests \subseteq Nat
         /\ \A r \in Requests : eqOf[r] \in Nat
         /\ eqPending \in Seq(Requests) /\ eqInbox \in Seq(Messages)
         /\ eqOutbox \in Seq([id : Nat, data : Nat])
         /\ \A r \in Requests : Owed(r)
  <1>1. eqOf \in Seq(Nat) /\ eqPending \in Seq(Requests) /\ eqInbox \in Seq(Messages)
        /\ eqOutbox \in Seq([id : Nat, data : Nat]) /\ \A r \in Requests : Owed(r)
    BY DEF EngineInv, EngineTyped, EngineOwes
  <1>2. DOMAIN eqOf \subseteq Nat /\ \A r \in DOMAIN eqOf : eqOf[r] \in Nat
    BY <1>1
  <1>3. QED  BY <1>1, <1>2 DEF Requests

(* The caller gives up when its request is posted; the worker may be lost.  *)
LEMMA EngineCancels ==
  ASSUME EngineInv, NEW id \in Requests, NEW late \in BOOLEAN, Cancel(id, late)
  PROVE  EngineInv'
  <1> DEFINE ids == eqPending'
             p == PostsOf(eqOf, ids, 0)
  <1>1. /\ eqOf \in Seq(Nat) /\ DOMAIN eqOf = Requests /\ Requests \subseteq Nat
        /\ \A r \in Requests : eqOf[r] \in Nat
        /\ eqPending \in Seq(Requests) /\ eqInbox \in Seq(Messages)
        /\ eqOutbox \in Seq([id : Nat, data : Nat])
        /\ \A r \in Requests : Owed(r)
    BY EngineKnows
  <1>2. /\ SameRequests /\ IsPending(id) /\ eqPending' = LeftOf(eqPending, id)
        /\ eqAnswers' = Answered({id}, [kind |-> "cancelled"]) /\ Requests' = Requests
    BY DEF Cancel, SameRequests, Requests
  <1>3. [kind |-> "cancelled"] \in EngineSaid /\ [kind |-> "cancelled"].kind # "reply"
    BY DEF EngineSaid
  <1>4. /\ eqAnswers' \in Seq(Seq(EngineSaid)) /\ Len(eqAnswers') = Len(eqOf)
        /\ \A r \in Requests :
             eqAnswers'[r] = IF r = id THEN Append(eqAnswers[r], [kind |-> "cancelled"])
                             ELSE eqAnswers[r]
    BY <1>2, <1>3, AnsweredSo DEF EngineInv, EngineTyped
  <1>5. eqPending' \in Seq(Requests) /\ \A r : IsPending(r)' <=> r # id /\ IsPending(r)
    <2>1. /\ LeftOf(eqPending, id) \in Seq(Requests)
          /\ \A r : Occurs(LeftOf(eqPending, id), r) <=> r # id /\ Occurs(eqPending, r)
      BY <1>1, LeftOfHas
    <2>2. QED  BY <1>2, <2>1 DEF IsPending, Occurs
  <1>6. /\ EngineReads' /\ RepliesAreRight' /\ \A r : IsPending(r)' => OnItsWay(r)'
        /\ eqInbox' \in Seq(Messages) /\ eqHanded' \in Nat /\ eqContext' \in Nat
        /\ eqOutbox' \in Seq([id : Nat, data : Nat])
    <2>1. CASE Head(eqPending) = id
      <3>1. /\ eqInbox' = Posts(ids, 0) /\ eqHanded' = HandedAfter(ids, 0) /\ eqContext' = 0
            /\ eqOutbox' = IF late THEN eqOutbox ELSE <<>>
        BY <2>1 DEF Cancel
      <3>2. /\ p \in Seq(Messages) /\ Reads(eqOf, p, 0, LastOf(eqOf, ids, Len(ids), 0))
            /\ \A k \in DOMAIN ids : Bears(p, ids[k])
        BY <1>1, <1>5, PostsAreRead
      <3>3. eqInbox' = p /\ eqHanded' = LastOf(eqOf, ids, Len(ids), 0) /\ eqOf' = eqOf
        BY <1>2, <1>5, <3>1, PostsOfNow, HandedIsLast DEF SameRequests
      <3> HIDE DEF p
      <3>4. eqHanded' \in Nat
        <4>1. Len(ids) # 0 => ids[Len(ids)] \in Requests
          BY <1>5
        <4>2. QED  BY <1>1, <3>3, <4>1 DEF LastOf
      <3>5. EngineReads'
        BY <3>1, <3>2, <3>3 DEF EngineReads
      <3>6. RepliesAreRight' /\ eqOutbox' \in Seq([id : Nat, data : Nat])
        <4>1. CASE eqOutbox' = eqOutbox
          BY <1>1, <1>2, <3>3, <4>1 DEF EngineInv, RepliesAreRight
        <4>2. CASE eqOutbox' = <<>>
          BY <4>2 DEF RepliesAreRight
        <4>3. QED  BY <3>1, <4>1, <4>2
      <3>7. \A r : IsPending(r)' => OnItsWay(r)'
        BY <3>2, <3>3 DEF IsPending, OnItsWay, Bears
      <3>8. QED  BY <3>1, <3>2, <3>3, <3>4, <3>5, <3>6, <3>7
    <2>2. CASE Head(eqPending) # id
      <3>1. UNCHANGED <<eqHanded, eqInbox, eqContext, eqOutbox>> /\ eqOf' = eqOf
        BY <2>2 DEF Cancel
      <3>2. EngineReads' /\ RepliesAreRight'
        BY <1>2, <3>1 DEF EngineInv, EngineReads, RepliesAreRight
      <3>3. \A r : IsPending(r) => OnItsWay(r)
        <4>1. \A r : IsPending(r) => r \in Requests
          BY <1>1 DEF IsPending
        <4>2. QED  BY <1>1, <4>1 DEF Owed
      <3>4. \A r : IsPending(r)' => OnItsWay(r)'
        BY <1>5, <3>1, <3>3 DEF OnItsWay
      <3>5. QED  BY <3>1, <3>2, <3>4 DEF EngineInv, EngineTyped
    <2>3. QED  BY <2>1, <2>2
  <1>7. EngineTyped'
    BY <1>1, <1>2, <1>4, <1>5, <1>6 DEF EngineInv, EngineTyped, SameRequests
  <1>8. ASSUME NEW r \in Requests' PROVE Owed(r)'
    <2>1. r \in Requests /\ Owed(r)
      BY <1>1, <1>2
    <2>2. CASE r = id
      <3>1. eqAnswers[r] = <<>> /\ r \notin eqWaiting
        BY <1>2, <2>1, <2>2 DEF Owed
      <3>2. eqAnswers'[r] = Append(<<>>, [kind |-> "cancelled"]) /\ r \notin eqWaiting'
            /\ ~IsPending(r)'
        BY <1>2, <1>4, <1>5, <2>1, <2>2, <3>1 DEF SameRequests
      <3>3. QED  BY <1>3, <3>2, NowAnswered
    <2>3. CASE r # id
      BY <1>2, <1>4, <1>5, <1>6, <2>1, <2>3 DEF Owed, SameRequests
    <2>4. QED  BY <2>2, <2>3
  <1>9. QED  BY <1>6, <1>7, <1>8 DEF EngineInv, EngineOwes

(* The worker is lost, with all that is out.                                *)
LEMMA EngineLost ==
  ASSUME EngineInv, NEW late \in BOOLEAN, WorkerFails(late)
  PROVE  EngineInv'
  <1> DEFINE out == {eqPending[i] : i \in DOMAIN eqPending}
  <1>0. \A r : r \in out <=> IsPending(r)
    BY DEF IsPending
  <1>1. /\ eqOf \in Seq(Nat) /\ DOMAIN eqOf = Requests /\ Requests \subseteq Nat
        /\ \A r \in Requests : eqOf[r] \in Nat
        /\ eqPending \in Seq(Requests) /\ eqInbox \in Seq(Messages)
        /\ eqOutbox \in Seq([id : Nat, data : Nat])
        /\ \A r \in Requests : Owed(r)
    BY EngineKnows
  <1>2. /\ SameRequests /\ eqPending' = <<>> /\ eqInbox' = <<>> /\ eqContext' = 0 /\ eqHanded' = 0
        /\ eqOutbox' = (IF late THEN eqOutbox ELSE <<>>)
        /\ eqAnswers' = Answered(out, [kind |-> "failed"]) /\ Requests' = Requests
    BY DEF WorkerFails, SameRequests, Requests
  <1> HIDE DEF out
  <1>3. [kind |-> "failed"] \in EngineSaid /\ [kind |-> "failed"].kind # "reply"
    BY DEF EngineSaid
  <1>4. /\ eqAnswers' \in Seq(Seq(EngineSaid)) /\ Len(eqAnswers') = Len(eqOf)
        /\ \A r \in Requests :
             eqAnswers'[r] = IF r \in out THEN Append(eqAnswers[r], [kind |-> "failed"])
                             ELSE eqAnswers[r]
    BY <1>2, <1>3, AnsweredSo DEF EngineInv, EngineTyped
  <1>5. \A r : ~IsPending(r)'
    <2> DEFINE none == <<>>
    <2>1. DOMAIN none = {} /\ eqPending' = none
      BY <1>2
    <2> HIDE DEF none
    <2>2. QED  BY <2>1 DEF IsPending
  <1>6. EngineReads'
    BY <1>2, ReadsNothing DEF EngineReads
  <1>7. RepliesAreRight' /\ eqOutbox' \in Seq([id : Nat, data : Nat])
    <2>1. CASE eqOutbox' = eqOutbox
      BY <1>1, <1>2, <2>1 DEF EngineInv, RepliesAreRight, SameRequests
    <2>2. CASE eqOutbox' = <<>>
      BY <2>2 DEF RepliesAreRight
    <2>3. QED  BY <1>2, <2>1, <2>2
  <1>8. EngineTyped'
    BY <1>1, <1>2, <1>4, <1>7 DEF EngineInv, EngineTyped, SameRequests
  <1>9. ASSUME NEW r \in Requests' PROVE Owed(r)'
    <2>1. r \in Requests /\ Owed(r)
      BY <1>1, <1>2
    <2>2. CASE r \in out
      <3>1. eqAnswers[r] = <<>> /\ r \notin eqWaiting
        BY <1>0, <2>1, <2>2 DEF Owed
      <3>2. eqAnswers'[r] = Append(<<>>, [kind |-> "failed"]) /\ r \notin eqWaiting'
        BY <1>2, <1>4, <2>1, <2>2, <3>1 DEF SameRequests
      <3>3. QED  BY <1>3, <1>5, <3>2, NowAnswered
    <2>3. CASE r \notin out
      <3>1. ~IsPending(r) /\ eqAnswers'[r] = eqAnswers[r] /\ eqOf' = eqOf /\ eqWaiting' = eqWaiting
        BY <1>0, <1>2, <1>4, <2>1, <2>3 DEF SameRequests
      <3>2. QED  BY <1>5, <2>1, <3>1 DEF Owed
    <2>4. QED  BY <2>2, <2>3
  <1>10. QED  BY <1>6, <1>7, <1>8, <1>9 DEF EngineInv, EngineOwes

(* The worker reads a message: it takes the data, or replies.               *)
LEMMA EngineWorks ==
  ASSUME EngineInv, WorkerStep
  PROVE  EngineInv'
  <1> DEFINE m == Head(eqInbox)  S == [id : Nat, data : Nat]
             reply == [id |-> m.id, data |-> eqContext]
  <1>1. /\ eqOf \in Seq(Nat) /\ DOMAIN eqOf = Requests /\ Requests \subseteq Nat
        /\ \A r \in Requests : eqOf[r] \in Nat
        /\ eqPending \in Seq(Requests) /\ eqInbox \in Seq(Messages)
        /\ eqOutbox \in Seq([id : Nat, data : Nat])
        /\ \A r \in Requests : Owed(r)
    BY EngineKnows
  <1>2. /\ eqInbox # <<>> /\ eqInbox' = Tail(eqInbox)
        /\ UNCHANGED <<eqData, eqConstants, eqOf, eqWaiting, eqAborted, eqPending, eqHanded,
                       eqAnswers>>
        /\ IF m.kind = "data" THEN eqContext' = m.data /\ UNCHANGED eqOutbox
           ELSE /\ eqOutbox' = Append(eqOutbox, reply)
                /\ UNCHANGED eqContext
    BY DEF WorkerStep
  <1>3. /\ m \in Messages /\ Tail(eqInbox) \in Seq(Messages) /\ Len(Tail(eqInbox)) = Len(eqInbox) - 1
        /\ \A j \in DOMAIN Tail(eqInbox) : Tail(eqInbox)[j] = eqInbox[j + 1]
    BY <1>1, <1>2, HeadAndTail
  <1>4. IF m.kind = "data" THEN Reads(eqOf, eqInbox', m.data, eqHanded)
        ELSE m.id \in Requests /\ eqOf[m.id] = eqContext /\ Reads(eqOf, eqInbox', eqContext, eqHanded)
    <2>1. Reads(eqOf, eqInbox, eqContext, eqHanded)
      BY DEF EngineInv, EngineReads
    <2>2. IF m.kind = "data" THEN Reads(eqOf, Tail(eqInbox), m.data, eqHanded)
          ELSE m.id \in DOMAIN eqOf /\ eqOf[m.id] = eqContext
               /\ Reads(eqOf, Tail(eqInbox), eqContext, eqHanded)
      BY <1>1, <1>2, <2>1, ReadsTheRest
    <2> HIDE DEF m
    <2>3. QED  BY <1>1, <1>2, <2>2
  <1>5. \A id : Bears(eqInbox, id) => Bears(eqInbox', id) \/ (m.kind # "data" /\ m.id = id)
    <2> SUFFICES ASSUME NEW id, Bears(eqInbox, id)
                 PROVE  Bears(eqInbox', id) \/ (m.kind # "data" /\ m.id = id)
      OBVIOUS
    <2>1. PICK j \in DOMAIN eqInbox : eqInbox[j].kind = "request" /\ eqInbox[j].id = id
      BY DEF Bears
    <2>2. CASE j = 1
      <3>1. m = eqInbox[1]
        BY <1>1, <1>2
      <3>2. QED  BY <2>1, <2>2, <3>1
    <2>3. CASE j # 1
      <3>1. j - 1 \in DOMAIN Tail(eqInbox) /\ (j - 1) + 1 = j
        BY <1>1, <1>3, <2>3
      <3>2. Tail(eqInbox)[j - 1] = eqInbox[j]
        BY <1>3, <3>1
      <3>3. Bears(Tail(eqInbox), id)
        BY <2>1, <3>1, <3>2 DEF Bears
      <3>4. QED  BY <1>2, <3>3
    <2>4. QED  BY <2>2, <2>3
  <1>6. m.kind = "data" \/ (m.id \in Nat /\ m.kind # "data")
    BY <1>3 DEF Messages
  <1>7. m.kind = "data" => m.data \in Nat
    BY <1>3 DEF Messages
  <1>e. eqContext \in Nat
    BY DEF EngineInv, EngineTyped
  <1>f. Requests' = Requests
    BY <1>2 DEF Requests
  <1> HIDE DEF m
  <1>8. \A r : IsPending(r)' <=> IsPending(r)
    BY <1>2 DEF IsPending
  <1>9. CASE m.kind = "data"
    <2>1. EngineReads' /\ RepliesAreRight' /\ EngineTyped'
      <3>1. EngineReads'
        BY <1>2, <1>4, <1>9 DEF EngineReads
      <3>2. RepliesAreRight'
        BY <1>2, <1>9, <1>f DEF EngineInv, RepliesAreRight
      <3>3. EngineTyped'
        BY <1>2, <1>3, <1>7, <1>9, <1>f DEF EngineInv, EngineTyped
      <3>4. QED  BY <3>1, <3>2, <3>3
    <2>2. \A r : OnItsWay(r) => OnItsWay(r)'
      BY <1>2, <1>5, <1>9 DEF OnItsWay, Bears
    <2>3. EngineOwes'
      BY <1>1, <1>2, <1>8, <1>f, <2>2 DEF EngineOwes, Owed
    <2>4. QED  BY <2>1, <2>3 DEF EngineInv
  <1>10. CASE m.kind # "data"
    <2>0. m.id \in Nat /\ reply.id = m.id /\ reply.data = eqContext
      BY <1>6, <1>10
    <2>1. /\ reply \in S /\ eqOutbox' = Append(eqOutbox, reply) /\ eqContext' = eqContext
      BY <1>2, <1>10, <1>e, <2>0
    <2> HIDE DEF reply
    <2>2. /\ eqOutbox' \in Seq(S) /\ Len(eqOutbox') = Len(eqOutbox) + 1
          /\ \A j \in DOMAIN eqOutbox : eqOutbox'[j] = eqOutbox[j]
          /\ eqOutbox'[Len(eqOutbox) + 1] = reply
      BY <1>1, <2>1, AppendLast
    <2>3. /\ \A j : j \in DOMAIN eqOutbox' <=> j \in DOMAIN eqOutbox \/ j = Len(eqOutbox) + 1
      <3>1. /\ DOMAIN eqOutbox = 1 .. Len(eqOutbox) /\ DOMAIN eqOutbox' = 1 .. Len(eqOutbox')
            /\ Len(eqOutbox) \in Nat
        BY <1>1, <2>2
      <3>2. QED  BY <2>2, <3>1
    <2>4. RepliesAreRight'
      BY <1>2, <1>4, <1>10, <1>f, <2>0, <2>2, <2>3 DEF EngineInv, RepliesAreRight
    <2>5. EngineReads'
      BY <1>2, <1>4, <1>10 DEF EngineReads
    <2>6. EngineTyped'
      BY <1>2, <1>3, <1>f, <2>1, <2>2 DEF EngineInv, EngineTyped
    <2>7. \A r : OnItsWay(r) => OnItsWay(r)'
      BY <1>2, <1>5, <2>0, <2>2, <2>3 DEF OnItsWay, Bears
    <2>8. EngineOwes'
      BY <1>1, <1>2, <1>8, <1>f, <2>7 DEF EngineOwes, Owed
    <2>9. QED  BY <2>4, <2>5, <2>6, <2>8 DEF EngineInv
  <1>11. QED  BY <1>9, <1>10

(* A reply arrives: it is its request's answer, or nobody's.                *)
LEMMA EngineReplies ==
  ASSUME EngineInv, ReplyArrives
  PROVE  EngineInv'
  <1> DEFINE reply == Head(eqOutbox)  S == [id : Nat, data : Nat]
             what == [kind |-> "reply", data |-> reply.data]
  <1>1. /\ eqOf \in Seq(Nat) /\ DOMAIN eqOf = Requests /\ Requests \subseteq Nat
        /\ \A r \in Requests : eqOf[r] \in Nat
        /\ eqPending \in Seq(Requests) /\ eqInbox \in Seq(Messages)
        /\ eqOutbox \in Seq(S)
        /\ \A r \in Requests : Owed(r)
    BY EngineKnows
  <1>2. /\ eqOutbox # <<>> /\ eqOutbox' = Tail(eqOutbox) /\ SameRequests
        /\ UNCHANGED <<eqHanded, eqInbox, eqContext>> /\ Requests' = Requests
        /\ IF IsPending(reply.id)
           THEN /\ eqAnswers' = Answered({reply.id}, what)
                /\ eqPending' = LeftOf(eqPending, reply.id)
           ELSE UNCHANGED <<eqAnswers, eqPending>>
    BY DEF ReplyArrives, SameRequests, Requests
  <1>3. /\ reply \in S /\ Tail(eqOutbox) \in Seq(S) /\ Len(Tail(eqOutbox)) = Len(eqOutbox) - 1
        /\ \A j \in DOMAIN Tail(eqOutbox) : Tail(eqOutbox)[j] = eqOutbox[j + 1]
    BY <1>1, <1>2, HeadAndTail
  <1>4. reply = eqOutbox[1] /\ 1 \in DOMAIN eqOutbox
    BY <1>1, <1>2
  <1>5. reply.id \in Requests /\ reply.data = eqOf[reply.id] /\ reply.data \in Nat
    BY <1>3, <1>4 DEF EngineInv, RepliesAreRight
  <1> HIDE DEF reply
  <1>6. \A j \in DOMAIN eqOutbox' : j + 1 \in DOMAIN eqOutbox /\ eqOutbox'[j] = eqOutbox[j + 1]
    <2>1. \A j \in DOMAIN Tail(eqOutbox) : j + 1 \in DOMAIN eqOutbox
      BY <1>1, <1>3
    <2>2. QED  BY <1>2, <1>3, <2>1
  <1>7. RepliesAreRight'
    BY <1>2, <1>6 DEF EngineInv, RepliesAreRight, SameRequests
  <1>8. \A id : OnItsWay(id) => OnItsWay(id)' \/ id = reply.id
    <2> SUFFICES ASSUME NEW id, NEW j \in DOMAIN eqOutbox, eqOutbox[j].id = id, id # reply.id
                 PROVE  \E i \in DOMAIN eqOutbox' : eqOutbox'[i].id = id
      BY <1>2 DEF OnItsWay
    <2>1. j # 1
      BY <1>4
    <2>2. j - 1 \in DOMAIN Tail(eqOutbox) /\ (j - 1) + 1 = j
      BY <1>1, <1>3, <2>1
    <2>3. QED  BY <1>2, <1>3, <2>2
  <1>9. EngineReads'
    BY <1>2 DEF EngineInv, EngineReads, SameRequests
  <1>10. CASE IsPending(reply.id)
    <2>1. what \in EngineSaid /\ what.data = reply.data
      BY <1>5 DEF EngineSaid
    <2> HIDE DEF what
    <2>2. /\ eqAnswers' \in Seq(Seq(EngineSaid)) /\ Len(eqAnswers') = Len(eqOf)
          /\ \A r \in Requests :
               eqAnswers'[r] = IF r = reply.id THEN Append(eqAnswers[r], what) ELSE eqAnswers[r]
      BY <1>2, <1>10, <2>1, AnsweredSo DEF EngineInv, EngineTyped
    <2>3. eqPending' \in Seq(Requests) /\ \A r : IsPending(r)' <=> r # reply.id /\ IsPending(r)
      <3>1. /\ LeftOf(eqPending, reply.id) \in Seq(Requests)
            /\ \A r : Occurs(LeftOf(eqPending, reply.id), r) <=> r # reply.id /\ Occurs(eqPending, r)
        BY <1>1, LeftOfHas
      <3>2. QED  BY <1>2, <1>10, <3>1 DEF IsPending, Occurs
    <2>4. EngineTyped'
      BY <1>2, <1>3, <2>2, <2>3 DEF EngineInv, EngineTyped, SameRequests
    <2>5. ASSUME NEW r \in Requests' PROVE Owed(r)'
      <3>1. r \in Requests /\ Owed(r)
        BY <1>1, <1>2
      <3>2. CASE r = reply.id
        <4>1. eqAnswers[r] = <<>> /\ r \notin eqWaiting
          BY <1>10, <3>1, <3>2 DEF Owed
        <4>2. eqAnswers'[r] = Append(<<>>, what) /\ r \notin eqWaiting' /\ ~IsPending(r)'
              /\ what.data = eqOf'[r]
          BY <1>2, <1>5, <2>1, <2>2, <2>3, <3>1, <3>2, <4>1 DEF SameRequests
        <4>3. QED  BY <4>2, NowAnswered
      <3>3. CASE r # reply.id
        BY <1>2, <1>8, <2>2, <2>3, <3>1, <3>3 DEF Owed, SameRequests
      <3>4. QED  BY <3>2, <3>3
    <2>6. QED  BY <1>7, <1>9, <2>4, <2>5 DEF EngineInv, EngineOwes
  <1>11. CASE ~IsPending(reply.id)
    <2>1. UNCHANGED <<eqAnswers, eqPending, eqOf, eqWaiting>>
      BY <1>2, <1>11 DEF SameRequests
    <2>2. \A r : IsPending(r)' <=> IsPending(r)
      BY <2>1 DEF IsPending
    <2>3. EngineTyped'
      BY <1>2, <1>3, <2>1 DEF EngineInv, EngineTyped, SameRequests
    <2>4. EngineOwes'
      BY <1>1, <1>2, <1>8, <1>11, <2>1, <2>2 DEF EngineOwes, Owed
    <2>5. QED  BY <1>7, <1>9, <2>3, <2>4 DEF EngineInv
  <1>12. QED  BY <1>10, <1>11

(* One step per operation on the queue and the worker.                      *)
LEMMA EngineSteps ==
  ASSUME EngineInv, [EngineQueueNext]_eqVars
  PROVE  EngineInv'
  <1>1. CASE Request
    BY <1>1, EngineRequest
  <1>2. CASE ConstantsLoad
    BY <1>2, EngineConstants
  <1>3. CASE ConstantsFail
    BY <1>3, EngineConstantsLost
  <1>4. CASE WorkerStep
    BY <1>4, EngineWorks
  <1>5. CASE ReplyArrives
    BY <1>5, EngineReplies
  <1>6. CASE (\E id \in Requests : AbortWaiting(id)) \/ ReloadEngineData \/ UNCHANGED eqVars
    BY <1>6, EngineAside
  <1>7. ASSUME NEW id \in Requests, NEW late \in BOOLEAN, Cancel(id, late) PROVE EngineInv'
    BY <1>7, EngineCancels
  <1>8. ASSUME NEW late \in BOOLEAN, WorkerFails(late) PROVE EngineInv'
    BY <1>8, EngineLost
  <1>9. QED  BY <1>1, <1>2, <1>3, <1>4, <1>5, <1>6, <1>7, <1>8 DEF EngineQueueNext

--------------------------------------------------------------------------------
(* The two in one behaviour, where one component moves at a time.          *)

(* A step of the client is a step of each of them or leaves it alone.      *)
LEMMA ResultsMove ==
  [ClientNext]_clientVars => [ArmorRunNext]_arVars /\ [EngineQueueNext]_eqVars
  BY DEF ClientNext, clientVars

(* The simulator shows results of the setup it shows, whatever runs were   *)
(* stopped, restarted or overtaken, and each request to the engine gets    *)
(* one answer, computed from the data it was made with (armor-sim.js,      *)
(* ballistics-engine.js).                                                  *)
THEOREM ResultsStayRight == ClientSpec => []ResultsAreRight
  <1> DEFINE Inv == ArmorInv /\ EngineInv
  <1>1. ClientInit => Inv
    BY ArmorStarts, EngineStarts DEF ClientInit
  <1>2. Inv /\ [ClientNext]_clientVars => Inv'
    BY ResultsMove, ArmorSteps, EngineSteps
  <1>3. Inv => ResultsAreRight
    BY ArmorHolds, EngineHolds DEF ResultsAreRight
  <1> HIDE DEF Inv
  <1>4. QED  BY <1>1, <1>2, <1>3, PTL DEF ClientSpec
--------------------------------------------------------------------------------
(* ArmorLoadout, for any catalog and any tabs.  Of a loadout only its items  *)
(* matter (SameItems), and less of one can be worn when the plates go with   *)
(* what they are in (LessIsWearable).                                        *)

(* What is open is of the loadout on show: the rows of the item table, and   *)
(* the parts of the popover, with which Escape gives back what is saved as   *)
(* long as nothing was confirmed.                                            *)
PickerFits ==
  ldPicker # EmptySlot =>
    /\ ldPicker.slot \in LoadoutKeys
    /\ ldPicker = [slot |-> ldPicker.slot, offers |-> Offered(ldIn, ldPicker.slot)]
Popovers == [slot : LoadoutKeys, pending : BOOLEAN, confirmed : BOOLEAN,
             were : UNION {[keys -> LoadoutThings] : keys \in SUBSET LoadoutKeys}]
PartsFit(in, were) ==
  /\ DOMAIN were \subseteq DOMAIN in
  /\ \A j \in DOMAIN were : were[j] \in LoadoutThings /\ were[j].item = in[j].item
PopFits ==
  ldPop # EmptySlot =>
    /\ ldPop \in Popovers /\ ldPop.slot \in DOMAIN ldPop.were /\ PartsFit(ldIn, ldPop.were)
    /\ ~ldPop.confirmed => Pruned(ldTabs[ldTab]) = Pruned(PutBack(ldIn, ldPop.were))

GoodLoadout(in) == IsLoadout(in) /\ Wearable(in)
SavedFit == \A t \in LoadoutTabs : IsLoadout(ldTabs[t]) /\ Wearable(Pruned(ldTabs[t]))
LoadoutInv ==
  /\ ldTab \in LoadoutTabs /\ DOMAIN ldTabs = LoadoutTabs
  /\ GoodLoadout(ldIn) /\ SavedFit /\ PickerFits /\ PopFits /\ TabHasTheLoadout

(* The shapes of slots.                                                      *)
LEMMA WornIs == \A s : Worn(s)[1] = "eq" /\ Worn(s)[2] = s
  BY DEF Worn

LEMMA KeysAre ==
  \A k \in LoadoutKeys :
    \/ k[1] = "eq" /\ k[2] \in EquipSlots /\ k = Worn(k[2])
    \/ k[1] = "plate" /\ \E o \in Opened3 : o.slot = k
    \/ k[1] = "att" /\ \E o \in Opened3 : o.slot = k
  <1>1. ASSUME NEW s \in EquipSlots
        PROVE  Worn(s)[1] = "eq" /\ Worn(s)[2] \in EquipSlots /\ Worn(s) = Worn(Worn(s)[2])
    BY DEF Worn
  <1>2. \A o \in Opened3 : o.slot[1] = "plate" \/ o.slot[1] = "att"
    BY ArmorCatalog
  <1>3. QED  BY <1>1, <1>2 DEF LoadoutKeys

LEMMA OpenedKeys == \A o \in Opened3 : o.slot \in LoadoutKeys /\ o.slot[1] \in {"plate", "att"}
  BY ArmorCatalog DEF LoadoutKeys

(* What a plate's slot takes depends on what is worn there alone.            *)
OpenedBy(in, k) == {o \in Opened3 : o.slot = k /\ o \in Opens(in, Worn(k[2]))}
LEMMA PlateSlots ==
  ASSUME NEW in, NEW k, k[1] = "plate"
  PROVE  AllowedIn(in, k) = UNION {o.allowed : o \in OpenedBy(in, k)}
  <1> DEFINE first == UNION {Opens(in, Worn(s)) : s \in EquipSlots}
             Next3(open) == open \cup UNION {Opens(in, o.slot) : o \in {p \in open :
                       p.slot \in DOMAIN in /\ in[p.slot].item \in p.allowed}}
  <1>1. OpenSlots(in) = Next3(first)
    BY DEF OpenSlots
  <1>2. \A o \in Opened3 : o.slot = k => o.holder = Worn(k[2]) /\ k[2] \in EquipSlots
    BY ArmorCatalog
  <1>3. ASSUME NEW o \in Next3(first), o.slot = k  PROVE o \in OpenedBy(in, k)
    <2>1. CASE o \in first
      <3>1. PICK s \in EquipSlots : o \in Opens(in, Worn(s))
        BY <2>1
      <3>2. o \in Opened3 /\ o.holder = Worn(s)
        BY <3>1 DEF Opens
      <3>3. QED  BY <3>1, <3>2, <1>2, <1>3 DEF OpenedBy
    <2>2. CASE o \notin first
      <3>1. PICK p \in first : o \in Opens(in, p.slot)
        BY <2>2, <1>3
      <3>2. o \in Opened3 /\ o.holder = p.slot
        BY <3>1 DEF Opens
      <3>3. QED  BY <3>1, <3>2, <1>2, <1>3 DEF OpenedBy
    <2>3. QED  BY <2>1, <2>2
  <1>4. ASSUME NEW o \in OpenedBy(in, k)  PROVE o \in Next3(first) /\ o.slot = k
    <2>1. o \in Opened3 /\ o.slot = k /\ o \in Opens(in, Worn(k[2])) /\ k[2] \in EquipSlots
      BY <1>2 DEF OpenedBy
    <2>2. QED  BY <2>1
  <1>5. {p \in OpenSlots(in) : p.slot = k} = OpenedBy(in, k)
    BY <1>1, <1>3, <1>4
  <1>6. QED  BY <1>5 DEF AllowedIn

(* A plate still fits where what it is in is the same item.                  *)
LEMMA PlateStays ==
  ASSUME NEW in, NEW more, NEW k, k[1] = "plate", NEW item, item \in AllowedIn(in, k),
         Worn(k[2]) \in DOMAIN in => Worn(k[2]) \in DOMAIN more /\ more[Worn(k[2])].item = in[Worn(k[2])].item
  PROVE  item \in AllowedIn(more, k) /\ Worn(k[2]) \in DOMAIN in
  <1>1. PICK o \in OpenedBy(in, k) : item \in o.allowed
    BY PlateSlots
  <1>2. Worn(k[2]) \in DOMAIN in /\ o \in OpenedBy(more, k)
    BY <1>1 DEF OpenedBy, Opens
  <1>3. QED  BY <1>1, <1>2, PlateSlots

(* Less of a loadout can be worn too, if plates keep what they are in.       *)
LEMMA LessIsWearable ==
  ASSUME NEW in, GoodLoadout(in), NEW less \in SUBSET DOMAIN in,
         \A k \in less : k[1] = "plate" => Worn(k[2]) \in less \/ Worn(k[2]) \notin DOMAIN in
  PROVE  GoodLoadout([k \in less |-> in[k]])
  <1> DEFINE out == [k \in less |-> in[k]]
  <1>1. DOMAIN out = less /\ \A k \in less : out[k] = in[k]
    OBVIOUS
  <1>2. out \in [less -> LoadoutThings] /\ less \subseteq LoadoutKeys
    BY DEF GoodLoadout, IsLoadout
  <1> HIDE DEF out
  <1>3. IsLoadout(out)
    BY <1>1, <1>2 DEF IsLoadout
  <1>4. \A j, k \in DOMAIN out : ~Conflict(out[j].item, out[k].item)
    BY <1>1 DEF GoodLoadout, Wearable
  <1>5. ~(Carriers \subseteq {s \in EquipSlots : Worn(s) \in DOMAIN out})
    BY <1>1 DEF GoodLoadout, Wearable
  <1>6. ASSUME NEW k \in DOMAIN out, k[1] # "att"  PROVE out[k].item \in AllowedIn(out, k)
    <2>1. k \in LoadoutKeys /\ in[k].item \in AllowedIn(in, k) /\ out[k] = in[k]
      BY <1>1, <1>2, <1>6 DEF GoodLoadout, Wearable
    <2>2. CASE k[1] = "eq"
      BY <2>1, <2>2 DEF AllowedIn
    <2>3. CASE k[1] = "plate"
      <3>1. Worn(k[2]) \in DOMAIN in => Worn(k[2]) \in DOMAIN out /\ out[Worn(k[2])].item = in[Worn(k[2])].item
        BY <1>1, <2>3
      <3>2. QED  BY <2>1, <2>3, <3>1, PlateStays
    <2>4. QED  BY <2>1, <2>2, <2>3, <1>6, KeysAre
  <1>7. QED  BY <1>3, <1>4, <1>5, <1>6 DEF GoodLoadout, Wearable, out

(* Only the items matter, not their durability.                              *)
LEMMA SameItems ==
  ASSUME NEW in, NEW more, DOMAIN more = DOMAIN in,
         \A k \in DOMAIN in : more[k].item = in[k].item
  PROVE  /\ \A k : AllowedIn(more, k) = AllowedIn(in, k)
         /\ \A k : Offered(more, k) = Offered(in, k)
  <1>1. \A k : Opens(more, k) = Opens(in, k)
    BY DEF Opens
  <1> DEFINE first(ld) == UNION {Opens(ld, Worn(s)) : s \in EquipSlots}
             inner(ld) == {p \in first(ld) : p.slot \in DOMAIN ld /\ ld[p.slot].item \in p.allowed}
             next(ld) == UNION {Opens(ld, o.slot) : o \in inner(ld)}
  <1>2. OpenSlots(more) = first(more) \cup next(more) /\ OpenSlots(in) = first(in) \cup next(in)
    BY DEF OpenSlots
  <1>3. first(more) = first(in)
    BY <1>1
  <1>4. inner(more) = inner(in)
    BY <1>3
  <1>5. next(more) = next(in)
    BY <1>1, <1>4
  <1>6. OpenSlots(more) = OpenSlots(in)
    BY <1>2, <1>3, <1>5
  <1>7. \A k : AllowedIn(more, k) = AllowedIn(in, k)
    BY <1>6 DEF AllowedIn
  <1>8. ASSUME NEW k, NEW item  PROVE ConflictFor(more, item, k) <=> ConflictFor(in, item, k)
    <2>1. Present(more, k) = Present(in, k) /\ Present(in, k) \subseteq DOMAIN in
      BY DEF Present
    <2>2. QED  BY <2>1 DEF ConflictFor
  <1>9. \A k : Offered(more, k) = Offered(in, k)
    BY <1>7, <1>8 DEF Offered
  <1>10. QED  BY <1>7, <1>9

LEMMA SameIsWearable ==
  ASSUME NEW in, GoodLoadout(in), NEW more \in [DOMAIN in -> LoadoutThings],
         \A k \in DOMAIN in : more[k].item = in[k].item
  PROVE  GoodLoadout(more)
  <1>1. DOMAIN more = DOMAIN in
    OBVIOUS
  <1>2. \A k : AllowedIn(more, k) = AllowedIn(in, k)
    BY <1>1, SameItems
  <1>3. QED  BY <1>1, <1>2 DEF GoodLoadout, IsLoadout, Wearable

(* A loadout some of whose parts are new, and the others as they were.       *)
LEMMA MoreIsWearable ==
  ASSUME NEW in, GoodLoadout(in), NEW more, IsLoadout(more), NEW new \in SUBSET DOMAIN more,
         \A j \in DOMAIN more \ new : j \in DOMAIN in /\ more[j].item = in[j].item,
         \A j \in new : /\ \A p \in DOMAIN more \ new : ~Conflict(more[j].item, in[p].item)
                        /\ \A p \in new : ~Conflict(more[j].item, more[p].item)
                        /\ j[1] # "att" => more[j].item \in AllowedIn(more, j),
         ~(Carriers \subseteq {s \in EquipSlots : Worn(s) \in DOMAIN more}),
         \A j \in DOMAIN more \ new :
           j[1] = "plate" => Worn(j[2]) \in DOMAIN more \ new \/ Worn(j[2]) \notin DOMAIN in
  PROVE  GoodLoadout(more)
  <1>1. ASSUME NEW j \in DOMAIN more, NEW k \in DOMAIN more  PROVE ~Conflict(more[j].item, more[k].item)
    <2>1. CASE j \in new /\ k \in new
      BY <2>1
    <2>2. CASE j \in new /\ k \notin new
      BY <2>2
    <2>3. CASE j \notin new /\ k \in new
      <3>1. ~Conflict(more[k].item, in[j].item) /\ more[j].item = in[j].item
        BY <2>3
      <3>2. QED  BY <3>1 DEF Conflict
    <2>4. CASE j \notin new /\ k \notin new
      BY <2>4 DEF GoodLoadout, Wearable
    <2>5. QED  BY <2>1, <2>2, <2>3, <2>4
  <1>2. ASSUME NEW k \in DOMAIN more, k[1] # "att"  PROVE more[k].item \in AllowedIn(more, k)
    <2>1. CASE k \in new
      BY <1>2, <2>1
    <2>2. CASE k \notin new /\ k[1] = "eq"
      BY <1>2, <2>2 DEF AllowedIn, GoodLoadout, Wearable
    <2>3. CASE k \notin new /\ k[1] = "plate"
      <3>1. k \in DOMAIN in /\ in[k].item \in AllowedIn(in, k) /\ more[k].item = in[k].item
        BY <1>2, <2>3 DEF GoodLoadout, Wearable
      <3>2. Worn(k[2]) \in DOMAIN in =>
              Worn(k[2]) \in DOMAIN more /\ more[Worn(k[2])].item = in[Worn(k[2])].item
        BY <2>3
      <3>3. QED  BY <2>3, <3>1, <3>2, PlateStays
    <2>4. k \in LoadoutKeys
      BY DEF IsLoadout
    <2>5. QED  BY <1>2, <2>1, <2>2, <2>3, <2>4, KeysAre
  <1>3. QED  BY <1>1, <1>2 DEF GoodLoadout, Wearable

(* A part that the slot is offered goes in.                                  *)
LEMMA PartGoesIn ==
  ASSUME NEW in, GoodLoadout(in), NEW k \in LoadoutKeys, k[1] # "eq", NEW thing \in LoadoutThings,
         thing.item \in Offered(in, k)
  PROVE  GoodLoadout(PutIn(in, k, thing))
  <1> DEFINE more == PutIn(in, k, thing)
  <1>1. /\ DOMAIN more = DOMAIN in \cup {k} /\ more[k] = thing
        /\ \A j \in DOMAIN in : j # k => more[j] = in[j]
    BY DEF PutIn
  <1>2. IsLoadout(more)
    <2>1. more \in [DOMAIN in \cup {k} -> LoadoutThings]
      BY DEF PutIn, GoodLoadout, IsLoadout
    <2>2. QED  BY <1>1, <2>1 DEF IsLoadout, GoodLoadout
  <1> HIDE DEF more
  <1>3. thing.item \in AllowedIn(in, k) /\ ~ConflictFor(in, thing.item, k)
    BY DEF Offered
  <1>4. \A p \in DOMAIN in : p # k => ~Conflict(thing.item, in[p].item)
    BY <1>3 DEF ConflictFor, Present
  <1>5. ~Conflict(thing.item, thing.item)
    BY ArmorCatalog DEF LoadoutThings
  <1>6. \A s : Worn(s) # k
    BY WornIs
  <1>7. k[1] = "plate" => thing.item \in AllowedIn(more, k)
    <2>1. Worn(k[2]) \in DOMAIN in =>
            Worn(k[2]) \in DOMAIN more /\ more[Worn(k[2])].item = in[Worn(k[2])].item
      BY <1>1, <1>6
    <2>2. QED  BY <1>3, <2>1, PlateStays
  <1>8. k[1] # "att" => k[1] = "plate"
    BY KeysAre
  <1> DEFINE new == {k}
  <1>9. ~(Carriers \subseteq {s \in EquipSlots : Worn(s) \in DOMAIN more})
    BY <1>1, <1>6 DEF GoodLoadout, Wearable
  <1>10. \A j \in DOMAIN more \ new : j \in DOMAIN in /\ more[j].item = in[j].item
    BY <1>1
  <1>11. \A j \in new : /\ \A p \in DOMAIN more \ new : ~Conflict(more[j].item, in[p].item)
                        /\ \A p \in new : ~Conflict(more[j].item, more[p].item)
                        /\ j[1] # "att" => more[j].item \in AllowedIn(more, j)
    BY <1>1, <1>4, <1>5, <1>7, <1>8
  <1>12. \A j \in DOMAIN more \ new :
           j[1] = "plate" => Worn(j[2]) \in DOMAIN more \ new \/ Worn(j[2]) \notin DOMAIN in
    BY <1>1, <1>6
  <1>13. new \subseteq DOMAIN more
    BY <1>1
  <1> HIDE DEF new
  <1>14. GoodLoadout(more)
    BY <1>2, <1>9, <1>10, <1>11, <1>12, <1>13, MoreIsWearable
  <1>15. QED  BY <1>14 DEF more

(* What comes with an item is in what it opens.                              *)
Filled(in) ==
  LET With(ld) == {o \in UNION {Opens(ld, j) : j \in DOMAIN ld} : o.default # EmptySlot}
  IN [j \in DOMAIN in \cup {o.slot : o \in With(in)} |->
        IF j \in DOMAIN in THEN in[j] ELSE AsNew((CHOOSE o \in With(in) : o.slot = j).default)]
ComesIn(in, j, item, k) ==
  /\ j[1] \in {"plate", "att"}
  /\ j[1] = "plate" =>
       \E o \in Opened3 : o.slot = j /\ o.holder = k /\ o.item = item /\ in[j].item \in o.allowed
ComesWith(in, item, k) ==
  /\ IsLoadout(in) /\ k \in DOMAIN in /\ in[k].item = item
  /\ \A j \in DOMAIN in : j # k => ComesIn(in, j, item, k)

LEMMA NewThings == \A item \in LoadoutItems : AsNew(item) \in LoadoutThings /\ AsNew(item).item = item
  BY DEF AsNew, LoadoutThings

LEMMA FilledFits ==
  ASSUME NEW in, NEW item, NEW k \in LoadoutKeys, k[1] = "eq", ComesWith(in, item, k)
  PROVE  ComesWith(Filled(in), item, k)
  <1> DEFINE with == {o \in UNION {Opens(in, j) : j \in DOMAIN in} : o.default # EmptySlot}
             out == Filled(in)
             chosen(j) == CHOOSE o \in with : o.slot = j
  <1>1. /\ DOMAIN out = DOMAIN in \cup {o.slot : o \in with}
        /\ \A j \in DOMAIN in : out[j] = in[j]
        /\ \A j \in DOMAIN out \ DOMAIN in : out[j] = AsNew(chosen(j).default)
        /\ out = [j \in DOMAIN out |-> out[j]]
    BY DEF Filled
  <1>2. \A o \in with : o \in Opened3 /\ o.holder \in DOMAIN in /\ o.item = in[o.holder].item
                        /\ o.default # EmptySlot
    BY DEF Opens
  <1> HIDE DEF out, with
  <1>3. ASSUME NEW j \in DOMAIN out \ DOMAIN in
        PROVE  out[j] \in LoadoutThings /\ j \in LoadoutKeys /\ ComesIn(out, j, item, k)
    <2> DEFINE o == chosen(j)
    <2>1. o \in with /\ o.slot = j
      BY <1>1, <1>3
    <2> HIDE DEF o
    <2>2. o \in Opened3 /\ o.holder \in DOMAIN in /\ o.item = in[o.holder].item /\ o.default # EmptySlot
      BY <1>2, <2>1
    <2>3. o.default \in o.allowed
      BY <2>2, ArmorCatalog
    <2>4. o.default \in LoadoutItems
      BY <2>2, <2>3 DEF LoadoutItems
    <2>5. out[j] \in LoadoutThings /\ out[j].item = o.default
      BY <1>1, <1>3, <2>4, NewThings DEF o
    <2>6. j \in LoadoutKeys /\ j[1] \in {"plate", "att"}
      BY <2>1, <2>2, OpenedKeys
    <2>7. j[1] = "plate" => o.holder = k
      <3>1. j[1] = "plate" => o.holder = Worn(j[2])
        BY <2>1, <2>2, ArmorCatalog
      <3>2. \A p \in DOMAIN in : p # k => p[1] # "eq"
        BY DEF ComesWith, ComesIn
      <3>3. QED  BY <2>2, <3>1, <3>2, WornIs
    <2>8. in[k].item = item
      BY DEF ComesWith
    <2>9. j[1] = "plate" => \E p \in Opened3 : p.slot = j /\ p.holder = k /\ p.item = item /\ out[j].item \in p.allowed
      BY <2>1, <2>2, <2>3, <2>5, <2>7, <2>8
    <2>10. QED  BY <2>5, <2>6, <2>9 DEF ComesIn
  <1>4. IsLoadout(out)
    <2>1. in \in [DOMAIN in -> LoadoutThings] /\ DOMAIN in \subseteq LoadoutKeys
      BY DEF ComesWith, IsLoadout
    <2>2. \A j \in DOMAIN out : out[j] \in LoadoutThings /\ j \in LoadoutKeys
      BY <1>1, <1>3, <2>1
    <2>3. out \in [DOMAIN out -> LoadoutThings]
      BY <1>1, <2>2
    <2>4. QED  BY <2>2, <2>3 DEF IsLoadout
  <1>5. \A j \in DOMAIN in : j # k => ComesIn(out, j, item, k)
    BY <1>1 DEF ComesWith, ComesIn
  <1>6. k \in DOMAIN out /\ out[k].item = item
    BY <1>1 DEF ComesWith
  <1>7. ComesWith(out, item, k)
    BY <1>1, <1>3, <1>4, <1>5, <1>6 DEF ComesWith
  <1>8. QED  BY <1>7 DEF out

LEMMA DefaultsFit ==
  ASSUME NEW s \in EquipSlots, NEW item \in FitsEquip[s], NEW k, k = Worn(s)
  PROVE  LET parts == DefaultParts(item, k)
         IN /\ parts \in [DOMAIN parts -> LoadoutThings]
            /\ \A j \in DOMAIN parts : j \in LoadoutKeys /\ ComesIn(parts, j, item, k)
  <1> DEFINE bare == [j \in {k} |-> AsNew(item)]
             all == Filled(Filled(bare))
             parts == DefaultParts(item, k)
  <1>1. k \in LoadoutKeys /\ k[1] = "eq" /\ k[2] = s
    BY WornIs DEF LoadoutKeys
  <1>2. item \in LoadoutItems
    BY DEF LoadoutItems
  <1>3. ComesWith(bare, item, k)
    <2>1. bare \in [{k} -> LoadoutThings] /\ DOMAIN bare = {k} /\ bare[k].item = item
      BY <1>2, NewThings
    <2> HIDE DEF bare
    <2>2. QED  BY <1>1, <2>1 DEF ComesWith, IsLoadout
  <1>4. ComesWith(all, item, k)
    <2> HIDE DEF bare
    <2>1. ComesWith(Filled(bare), item, k)
      BY <1>1, <1>3, FilledFits
    <2>2. QED  BY <1>1, <2>1, FilledFits
  <1>5. parts = Without3(all, {k}) \/ parts = Without3(bare, {k})
    BY DEF DefaultParts, Filled
  <1> HIDE DEF bare, all
  <1>6. ASSUME NEW in, ComesWith(in, item, k)
        PROVE  LET less == Without3(in, {k})
               IN /\ less \in [DOMAIN less -> LoadoutThings]
                  /\ \A j \in DOMAIN less : j \in LoadoutKeys /\ ComesIn(less, j, item, k)
    <2> DEFINE less == Without3(in, {k})
    <2>1. DOMAIN less = DOMAIN in \ {k} /\ \A j \in DOMAIN less : less[j] = in[j]
      BY DEF Without3
    <2>2. less = [j \in DOMAIN less |-> less[j]]
      BY DEF Without3
    <2> HIDE DEF less
    <2>3. \A j \in DOMAIN less : less[j] \in LoadoutThings /\ j \in LoadoutKeys
      BY <1>6, <2>1 DEF ComesWith, IsLoadout
    <2>4. less \in [DOMAIN less -> LoadoutThings]
      BY <2>2, <2>3
    <2>5. \A j \in DOMAIN less : ComesIn(less, j, item, k)
      BY <1>6, <2>1 DEF ComesWith, ComesIn
    <2>6. QED  BY <2>3, <2>4, <2>5 DEF less
  <1>7. QED  BY <1>3, <1>4, <1>5, <1>6

(* A worn item goes in, with what comes with it and is not refused.          *)
LEMMA WornGoesIn ==
  ASSUME NEW in, GoodLoadout(in), NEW s \in EquipSlots, NEW k, k = Worn(s), NEW item \in Offered(in, k)
  PROVE  GoodLoadout(WithItem(in, k, item)) /\ item \in LoadoutItems
  <1> DEFINE fresh == [AsNew(item) EXCEPT !.dura = IF k \in DOMAIN in THEN in[k].dura ELSE 100]
             present == Present(in, k)
             defaults == DefaultParts(item, k)
             taken == {j \in DOMAIN defaults : \A p \in present : ~Conflict(defaults[j].item, in[p].item)}
             others == Without3(in, Inside(in, k[2]))
             worn == PutIn(others, k, fresh)
             more == [j \in DOMAIN worn \cup taken |-> IF j \in taken THEN defaults[j] ELSE worn[j]]
             new == {k} \cup taken
  <1>1. k[1] = "eq" /\ k[2] = s /\ k \in LoadoutKeys
    BY WornIs DEF LoadoutKeys
  <1>2. WithItem(in, k, item) = more
    BY <1>1 DEF WithItem
  <1>3. item \in FitsEquip[s] /\ item \in LoadoutItems /\ ~ConflictFor(in, item, k)
    BY <1>1 DEF Offered, AllowedIn, LoadoutItems
  <1>4. fresh \in LoadoutThings /\ fresh.item = item
    <2>1. k \in DOMAIN in => in[k].dura \in 0..100
      BY DEF GoodLoadout, IsLoadout, LoadoutThings
    <2> DEFINE dura == IF k \in DOMAIN in THEN in[k].dura ELSE 100
    <2>2. dura \in 0..100
      BY <2>1
    <2>3. fresh = [item |-> item, dura |-> dura, own |-> 0]
      BY DEF AsNew
    <2> HIDE DEF dura
    <2>4. QED  BY <1>3, <2>2, <2>3 DEF LoadoutThings
  <1>5. /\ \A j \in DOMAIN defaults : defaults[j] \in LoadoutThings /\ j \in LoadoutKeys /\ ComesIn(defaults, j, item, k)
        /\ taken \subseteq DOMAIN defaults
    BY <1>3, DefaultsFit
  <1>6. \A j \in taken : j[1] # "eq"
    BY <1>5 DEF ComesIn
  <1>7. /\ DOMAIN others = DOMAIN in \ Inside(in, s)
        /\ \A j \in DOMAIN others : others[j] = in[j]
    BY <1>1 DEF Without3
  <1> HIDE DEF fresh, defaults, taken, others
  <1>8. /\ DOMAIN more = (DOMAIN others \cup {k}) \cup taken
        /\ \A j \in taken : more[j] = defaults[j]
        /\ more[k] = fresh
        /\ \A j \in DOMAIN more \ new : j \in DOMAIN others /\ more[j] = others[j]
        /\ more = [j \in DOMAIN more |-> more[j]]
    BY <1>1, <1>6 DEF PutIn
  <1>9. new \subseteq DOMAIN more /\ k \in new
    BY <1>8
  <1>10. \A j \in new : j = k \/ j \in taken
    OBVIOUS
  <1> HIDE DEF more, new
  <1>11. \A j \in DOMAIN in : j \in LoadoutKeys /\ in[j] \in LoadoutThings
    BY DEF GoodLoadout, IsLoadout
  <1>12. \A j \in DOMAIN more \ new : /\ j \in DOMAIN in /\ more[j] = in[j] /\ j \notin Inside(in, s)
                                      /\ j # k
    BY <1>7, <1>8, <1>9
  <1>13. IsLoadout(more)
    <2>1. \A j \in DOMAIN more : more[j] \in LoadoutThings /\ j \in LoadoutKeys
      BY <1>1, <1>4, <1>5, <1>8, <1>10, <1>11, <1>12
    <2>2. more \in [DOMAIN more -> LoadoutThings]
      BY <1>8, <2>1
    <2>3. QED  BY <2>1, <2>2 DEF IsLoadout
  <1>14. \A p \in DOMAIN more \ new : p \in present
    <2>1. SUFFICES ASSUME NEW p \in DOMAIN more \ new  PROVE p \in present
      OBVIOUS
    <2>2. p \in DOMAIN in /\ p # k /\ p \notin Inside(in, s) /\ p \in LoadoutKeys
      BY <1>11, <1>12
    <2>3. p[1] = "eq" => p[2] # s
      BY <2>2, KeysAre, WornIs
    <2>4. QED  BY <1>1, <2>2, <2>3 DEF Present, Inside
  <1>15. \A p \in present : ~Conflict(item, in[p].item)
    BY <1>3 DEF ConflictFor
  <1>16. \A j \in taken : \A p \in present : ~Conflict(defaults[j].item, in[p].item)
    BY DEF taken
  <1>17. /\ ~Conflict(item, item)
         /\ \A j \in DOMAIN defaults :
              /\ ~Conflict(item, defaults[j].item)
              /\ \A p \in DOMAIN defaults : ~Conflict(defaults[j].item, defaults[p].item)
    BY <1>3, ArmorCatalog DEF defaults
  <1>18. \A i, j : Conflict(i, j) => Conflict(j, i)
    BY DEF Conflict
  <1>19. \A j \in new : \A p \in DOMAIN more \ new : ~Conflict(more[j].item, in[p].item)
    BY <1>4, <1>8, <1>10, <1>14, <1>15, <1>16
  <1>20. \A j \in new : \A p \in new : ~Conflict(more[j].item, more[p].item)
    BY <1>4, <1>5, <1>8, <1>10, <1>17, <1>18
  <1>21. \A j \in new : j[1] # "att" => more[j].item \in AllowedIn(more, j)
    <2>1. SUFFICES ASSUME NEW j \in new, j[1] # "att"  PROVE more[j].item \in AllowedIn(more, j)
      OBVIOUS
    <2>2. CASE j = k
      BY <1>1, <1>3, <1>4, <1>8, <2>2 DEF AllowedIn
    <2>3. CASE j \in taken
      <3>1. j[1] = "plate"
        BY <1>5, <2>1, <2>3 DEF ComesIn
      <3>2. PICK o \in Opened3 : o.slot = j /\ o.holder = k /\ o.item = item /\ defaults[j].item \in o.allowed
        BY <1>5, <2>3, <3>1 DEF ComesIn
      <3>3. Worn(j[2]) = k
        BY <3>1, <3>2, ArmorCatalog
      <3>4. o \in OpenedBy(more, j)
        BY <1>4, <1>8, <1>9, <3>2, <3>3 DEF OpenedBy, Opens
      <3>5. QED  BY <1>8, <2>3, <3>1, <3>2, <3>4, PlateSlots
    <2>4. QED  BY <1>10, <2>1, <2>2, <2>3
  <1>22. ~(Carriers \subseteq {t \in EquipSlots : Worn(t) \in DOMAIN more})
    <2>1. \A t : Worn(t) \in DOMAIN more => Worn(t) = k \/ Worn(t) \in DOMAIN in
      BY <1>10, <1>12, <1>6, WornIs
    <2>2. \A t : Worn(t) = k => t = s
      BY WornIs
    <2>3. \A a, b \in Carriers : a # b /\ k = Worn(a) => Worn(b) \notin DOMAIN in
      BY <1>3 DEF ConflictFor
    <2>4. ~(Carriers \subseteq {t \in EquipSlots : Worn(t) \in DOMAIN in})
      BY DEF GoodLoadout, Wearable
    <2>5. SUFFICES ASSUME \A a \in Carriers : a \in EquipSlots /\ Worn(a) \in DOMAIN more  PROVE FALSE
      OBVIOUS
    <2>6. CASE s \in Carriers
      <3>1. PICK b \in Carriers : b # s
        BY DEF Carriers
      <3>2. Worn(b) \in DOMAIN in
        BY <2>1, <2>2, <2>5, <3>1
      <3>3. QED  BY <2>3, <2>6, <3>1, <3>2
    <2>7. CASE s \notin Carriers
      BY <2>1, <2>2, <2>4, <2>5, <2>7
    <2>8. QED  BY <2>6, <2>7
  <1>23. \A j \in DOMAIN more \ new :
           j[1] = "plate" => Worn(j[2]) \in DOMAIN more \ new \/ Worn(j[2]) \notin DOMAIN in
    <2>1. SUFFICES ASSUME NEW j \in DOMAIN more \ new, j[1] = "plate", Worn(j[2]) \in DOMAIN in
                   PROVE  Worn(j[2]) \in DOMAIN more \ new
      OBVIOUS
    <2>2. j[2] # s /\ j \in DOMAIN in
      BY <1>12, <2>1 DEF Inside
    <2>3. Worn(j[2]) # k /\ Worn(j[2])[1] = "eq"
      BY <2>2, WornIs
    <2>4. Worn(j[2]) \in DOMAIN others
      BY <1>7, <2>1, <2>3 DEF Inside
    <2>5. QED  BY <1>8, <1>10, <1>6, <2>3, <2>4
  <1>24. \A j \in DOMAIN more \ new : j \in DOMAIN in /\ more[j].item = in[j].item
    BY <1>12
  <1>25. GoodLoadout(more)
    BY <1>9, <1>13, <1>19, <1>20, <1>21, <1>22, <1>23, <1>24, MoreIsWearable
  <1>26. QED  BY <1>2, <1>3, <1>25

(* Dropping what is loose, pruning and clearing leave less of a loadout.     *)
Loose(in) == {k \in DOMAIN in : k[1] = "att" /\ in[k].item \notin AllowedIn(in, k)}
LEMMA DropLooseIs ==
  ASSUME NEW in
  PROVE  /\ DropLoose(in) = [k \in DOMAIN in \ Loose(in) |-> in[k]]
         /\ \A k \in Loose(in) : k[1] = "att"
  BY DEF DropLoose, Without3, Loose

LEMMA DropLooseGood == ASSUME NEW in, GoodLoadout(in)  PROVE GoodLoadout(DropLoose(in))
  <1> DEFINE less == DOMAIN in \ Loose(in)
  <1>1. less \in SUBSET DOMAIN in
    OBVIOUS
  <1>2. \A k \in less : k[1] = "plate" => Worn(k[2]) \in less \/ Worn(k[2]) \notin DOMAIN in
    BY DropLooseIs, WornIs
  <1> HIDE DEF less
  <1>3. GoodLoadout([k \in less |-> in[k]])
    BY <1>1, <1>2, LessIsWearable
  <1>4. QED  BY <1>3, DropLooseIs DEF less

Lost(in) == {s \in EquipSlots : Worn(s) \in DOMAIN in /\ in[Worn(s)].item \in Gone}
Outdated(in) == {k \in DOMAIN in : in[k].item \in Gone \/ (k[1] # "att" /\ k[2] \in Lost(in))}
Kept3(in) == [k \in DOMAIN in \ Outdated(in) |-> in[k]]
LEMMA PrunedIs == \A in : Pruned(in) = DropLoose(Kept3(in))
  BY DEF Pruned, Kept3, Outdated, Lost, Without3

LEMMA PrunedTyped == ASSUME NEW in, IsLoadout(in)  PROVE IsLoadout(Pruned(in))
  <1> DEFINE kept == Kept3(in)
             less == DOMAIN kept \ Loose(kept)
             out == Pruned(in)
  <1>1. DOMAIN kept \subseteq DOMAIN in /\ \A k \in DOMAIN kept : kept[k] = in[k]
    BY DEF Kept3
  <1>2. out = [k \in less |-> kept[k]]
    BY PrunedIs, DropLooseIs
  <1> HIDE DEF kept, out
  <1>3. DOMAIN out = less /\ less \subseteq DOMAIN in /\ \A k \in less : out[k] = in[k]
    BY <1>1, <1>2
  <1> HIDE DEF less
  <1>4. \A k \in less : out[k] \in LoadoutThings /\ k \in LoadoutKeys
    BY <1>3 DEF IsLoadout
  <1>5. out \in [less -> LoadoutThings]
    BY <1>2, <1>3, <1>4
  <1>6. IsLoadout(out)
    BY <1>3, <1>4, <1>5 DEF IsLoadout
  <1>7. QED  BY <1>6 DEF out

LEMMA PrunedGood == ASSUME NEW in, GoodLoadout(in)  PROVE GoodLoadout(Pruned(in))
  <1> DEFINE less == DOMAIN in \ Outdated(in)
  <1>1. less \in SUBSET DOMAIN in
    OBVIOUS
  <1>2. ASSUME NEW k \in less, k[1] = "plate", Worn(k[2]) \in DOMAIN in  PROVE Worn(k[2]) \in less
    <2>1. k \in LoadoutKeys
      BY DEF GoodLoadout, IsLoadout
    <2>2. k[2] \in EquipSlots
      BY <1>2, <2>1, KeysAre, ArmorCatalog
    <2>3. k[2] \notin Lost(in)
      BY <1>2 DEF Outdated
    <2>4. in[Worn(k[2])].item \notin Gone
      BY <1>2, <2>2, <2>3 DEF Lost
    <2>5. QED  BY <1>2, <2>3, <2>4, WornIs DEF Outdated
  <1> HIDE DEF less
  <1>3. GoodLoadout([k \in less |-> in[k]])
    BY <1>1, <1>2, LessIsWearable
  <1>4. QED  BY <1>3, DropLooseGood, PrunedIs DEF Kept3, less

(* What is not loose is still held by what holds it.                         *)
LEMMA DropLooseTwice == ASSUME NEW in  PROVE DropLoose(DropLoose(in)) = DropLoose(in)
  <1> DEFINE out == DropLoose(in)
             first(ld) == UNION {Opens(ld, Worn(s)) : s \in EquipSlots}
             inner(ld) == {p \in first(ld) : p.slot \in DOMAIN ld /\ ld[p.slot].item \in p.allowed}
             next(ld) == UNION {Opens(ld, o.slot) : o \in inner(ld)}
  <1>1. /\ DOMAIN out = DOMAIN in \ Loose(in) /\ \A k \in DOMAIN out : out[k] = in[k]
        /\ out = [k \in DOMAIN out |-> out[k]]
    BY DropLooseIs
  <1>2. OpenSlots(out) = first(out) \cup next(out) /\ OpenSlots(in) = first(in) \cup next(in)
    BY DEF OpenSlots
  <1> HIDE DEF out
  <1>3. \A k : k \notin Loose(in) => Opens(out, k) = Opens(in, k)
    BY <1>1 DEF Opens
  <1>4. \A s : Worn(s) \notin Loose(in)
    BY WornIs DEF Loose
  <1>5. first(out) = first(in)
    BY <1>3, <1>4
  <1>6. \A o \in first(in) : o \in Opened3 /\ o \in OpenSlots(in)
    BY <1>2 DEF Opens
  <1> HIDE DEF first
  <1>7. ASSUME NEW o \in inner(in)  PROVE o.slot \notin Loose(in)
    <2>1. o \in first(in) /\ o.slot \in DOMAIN in /\ in[o.slot].item \in o.allowed
      OBVIOUS
    <2>2. o.slot[1] # "eq"
      BY <1>6, <2>1, OpenedKeys
    <2>3. in[o.slot].item \in AllowedIn(in, o.slot)
      BY <1>6, <2>1, <2>2 DEF AllowedIn
    <2>4. QED  BY <2>3 DEF Loose
  <1>8. inner(out) = inner(in)
    BY <1>1, <1>5, <1>7
  <1>9. next(out) = next(in)
    <2> HIDE DEF inner
    <2>1. QED  BY <1>3, <1>7, <1>8
  <1>10. OpenSlots(out) = OpenSlots(in)
    BY <1>2, <1>5, <1>9
  <1>11. \A k \in DOMAIN out : k \notin Loose(out)
    <2>1. \A k : AllowedIn(out, k) = AllowedIn(in, k)
      BY <1>10 DEF AllowedIn
    <2>2. QED  BY <1>1, <2>1 DEF Loose
  <1>12. DropLoose(out) = [k \in DOMAIN out |-> out[k]]
    BY <1>11, DropLooseIs
  <1>13. QED  BY <1>1, <1>12 DEF out

LEMMA PrunedTwice == ASSUME NEW in  PROVE Pruned(Pruned(in)) = Pruned(in)
  <1> DEFINE kept == Kept3(in)
             out == DropLoose(kept)
  <1>1. /\ DOMAIN kept = DOMAIN in \ Outdated(in) /\ \A k \in DOMAIN kept : kept[k] = in[k]
    BY DEF Kept3
  <1> HIDE DEF kept
  <1>2. /\ DOMAIN out \subseteq DOMAIN kept /\ \A k \in DOMAIN out : out[k] = kept[k]
        /\ out = [k \in DOMAIN out |-> out[k]]
    BY DropLooseIs
  <1> HIDE DEF out
  <1>3. \A k \in DOMAIN out : out[k].item \notin Gone
    BY <1>1, <1>2 DEF Outdated
  <1>4. Lost(out) = {}
    BY <1>3 DEF Lost
  <1>5. Outdated(out) = {}
    BY <1>3, <1>4 DEF Outdated
  <1>6. Kept3(out) = out
    BY <1>2, <1>5 DEF Kept3
  <1>7. Pruned(in) = out /\ DropLoose(out) = out
    BY PrunedIs, DropLooseTwice DEF out, kept
  <1>8. QED  BY <1>6, <1>7, PrunedIs

LEMMA ClearedGood == ASSUME NEW in, GoodLoadout(in), NEW k \in DOMAIN in  PROVE GoodLoadout(Cleared(in, k))
  <1>1. k \in LoadoutKeys
    BY DEF GoodLoadout, IsLoadout
  <1>2. ASSUME NEW gone \in SUBSET DOMAIN in,
               \A j \in DOMAIN in \ gone : j[1] = "plate" => Worn(j[2]) \notin gone
        PROVE  GoodLoadout(Without3(in, gone))
    <2> DEFINE less == DOMAIN in \ gone
    <2>1. \A j \in less : j[1] = "plate" => Worn(j[2]) \in less \/ Worn(j[2]) \notin DOMAIN in
      BY <1>2
    <2>2. less \in SUBSET DOMAIN in
      OBVIOUS
    <2> HIDE DEF less
    <2>3. GoodLoadout([j \in less |-> in[j]])
      BY <2>1, <2>2, LessIsWearable
    <2>4. QED  BY <2>3 DEF Without3, less
  <1>3. CASE k[1] = "eq"
    <2>1. k = Worn(k[2])
      BY <1>1, <1>3, KeysAre
    <2> DEFINE gone == {k} \cup Inside(in, k[2])
    <2>2. \A j \in DOMAIN in \ gone : j[1] = "plate" => Worn(j[2]) \notin gone
      BY <2>1, WornIs DEF Inside
    <2>3. gone \in SUBSET DOMAIN in
      BY DEF Inside
    <2> HIDE DEF gone
    <2>4. GoodLoadout(Without3(in, gone))
      BY <1>2, <2>2, <2>3
    <2>5. QED  BY <1>3, <2>4 DEF Cleared, gone
  <1>4. CASE k[1] # "eq"
    <2>1. \A j : Worn(j) # k
      BY <1>4, WornIs
    <2> DEFINE gone == {k}
    <2>2. gone \in SUBSET DOMAIN in /\ \A j \in DOMAIN in \ gone : j[1] = "plate" => Worn(j[2]) \notin gone
      BY <2>1
    <2> HIDE DEF gone
    <2>3. GoodLoadout(Without3(in, gone))
      BY <1>2, <2>2
    <2>4. GoodLoadout(Without3(in, {k}))
      BY <2>3 DEF gone
    <2>5. GoodLoadout(DropLoose(Without3(in, {k})))
      BY <2>4, DropLooseGood
    <2>6. k[1] = "att" \/ k[1] = "plate"
      BY <1>1, <1>4, KeysAre
    <2>7. QED  BY <2>4, <2>5, <2>6 DEF Cleared
  <1>5. QED  BY <1>3, <1>4

(* What is put back has the items that are there.                            *)
LEMMA PutBackGood ==
  ASSUME NEW in, GoodLoadout(in), NEW were, PartsFit(in, were)
  PROVE  /\ GoodLoadout(PutBack(in, were)) /\ \A k : Offered(PutBack(in, were), k) = Offered(in, k)
         /\ DOMAIN PutBack(in, were) = DOMAIN in
  <1> DEFINE back == PutBack(in, were)
  <1>1. DOMAIN back = DOMAIN in /\ back = [j \in DOMAIN in |-> back[j]]
    BY DEF PutBack
  <1>2. \A j \in DOMAIN in : back[j] = IF j \in DOMAIN were THEN were[j] ELSE in[j]
    BY DEF PutBack
  <1> HIDE DEF back
  <1>3. \A j \in DOMAIN in : back[j] \in LoadoutThings /\ back[j].item = in[j].item
    BY <1>2 DEF PartsFit, GoodLoadout, IsLoadout
  <1>4. back \in [DOMAIN in -> LoadoutThings]
    BY <1>1, <1>3
  <1>5. GoodLoadout(back)
    BY <1>3, <1>4, SameIsWearable
  <1>6. \A k : Offered(back, k) = Offered(in, k)
    BY <1>1, <1>3, SameItems
  <1>7. QED  BY <1>1, <1>5, <1>6 DEF back

(* What the table offers can be put in.                                      *)
LEMMA WithItemGood ==
  ASSUME NEW in, GoodLoadout(in), NEW k \in LoadoutKeys, NEW item \in Offered(in, k)
  PROVE  GoodLoadout(WithItem(in, k, item))
  <1>1. CASE k[1] = "eq"
    BY <1>1, KeysAre, WornGoesIn
  <1>2. CASE k[1] # "eq"
    <2> DEFINE fresh == [AsNew(item) EXCEPT !.dura = IF k \in DOMAIN in THEN in[k].dura ELSE 100]
    <2>1. item \in LoadoutItems
      <3>1. item \in AllowedIn(in, k)
        BY DEF Offered
      <3>2. PICK o \in OpenSlots(in) : item \in o.allowed
        BY <1>2, <3>1 DEF AllowedIn
      <3>3. o \in Opened3
        BY <3>2 DEF OpenSlots, Opens
      <3>4. QED  BY <3>2, <3>3 DEF LoadoutItems
    <2>2. fresh \in LoadoutThings /\ fresh.item = item
      <3>1. k \in DOMAIN in => in[k].dura \in 0..100
        BY DEF GoodLoadout, IsLoadout, LoadoutThings
      <3> DEFINE dura == IF k \in DOMAIN in THEN in[k].dura ELSE 100
      <3>2. dura \in 0..100
        BY <3>1
      <3>3. fresh = [item |-> item, dura |-> dura, own |-> 0]
        BY DEF AsNew
      <3> HIDE DEF dura
      <3>4. QED  BY <2>1, <3>2, <3>3 DEF LoadoutThings
    <2>3. WithItem(in, k, item) = PutIn(in, k, fresh) \/ WithItem(in, k, item) = DropLoose(PutIn(in, k, fresh))
      <3>1. k[1] = "att" \/ k[1] = "plate"
        BY <1>2, KeysAre
      <3>2. CASE k[1] = "att"
        BY <3>2 DEF WithItem
      <3>3. CASE k[1] = "plate"
        BY <3>3 DEF WithItem
      <3>4. QED  BY <3>1, <3>2, <3>3
    <2> HIDE DEF fresh
    <2>4. GoodLoadout(PutIn(in, k, fresh))
      BY <1>2, <2>2, PartGoesIn
    <2>5. QED  BY <2>3, <2>4, DropLooseGood
  <1>3. QED  BY <1>1, <1>2

LEMMA SavedTo ==
  ASSUME LoadoutInv, NEW in, GoodLoadout(in), SaveToTab(in)
  PROVE  DOMAIN ldTabs' = LoadoutTabs /\ SavedFit' /\ ldTabs'[ldTab] = in
  <1>1. /\ DOMAIN ldTabs' = LoadoutTabs /\ ldTabs'[ldTab] = in
        /\ \A t \in LoadoutTabs : t # ldTab => ldTabs'[t] = ldTabs[t]
    BY DEF SaveToTab, LoadoutInv
  <1>2. IsLoadout(in) /\ Wearable(Pruned(in))
    BY PrunedGood DEF GoodLoadout
  <1>3. QED  BY <1>1, <1>2 DEF SavedFit, LoadoutInv

(* A change of the loadout, and what then becomes of the item table.         *)
LEMMA LoadoutChanges ==
  ASSUME LoadoutInv, NEW in, GoodLoadout(in), Change3(in), UNCHANGED ldTab, PickerFits'
  PROVE  LoadoutInv'
  <1>1. ldIn' = in /\ ldPop' = EmptySlot /\ ldTab' = ldTab /\ ldTabs'[ldTab] = in
        /\ DOMAIN ldTabs' = LoadoutTabs /\ SavedFit'
    BY SavedTo DEF Change3
  <1>2. PopFits' /\ TabHasTheLoadout'
    BY <1>1 DEF PopFits, TabHasTheLoadout
  <1>3. ldTab \in LoadoutTabs
    BY DEF LoadoutInv
  <1>4. QED  BY <1>1, <1>2, <1>3 DEF LoadoutInv

LEMMA PickerRefreshed ==
  ASSUME PickerFits, NEW in, ldIn' = in, NEW picker, picker = EmptySlot \/ picker = ldPicker,
         RefreshPicker(in, picker)
  PROVE  PickerFits'
  <1>1. CASE picker = EmptySlot
    BY <1>1 DEF RefreshPicker, PickerFits
  <1>2. CASE picker = ldPicker /\ ldPicker # EmptySlot
    <2> DEFINE k == ldPicker.slot
    <2>1. k \in LoadoutKeys /\ ldPicker = [slot |-> k, offers |-> Offered(ldIn, k)]
      BY <1>2 DEF PickerFits
    <2>2. ldPicker' = [ldPicker EXCEPT !.offers = Offered(in, k)]
      BY <1>2 DEF RefreshPicker
    <2> HIDE DEF k
    <2>3. ldPicker' = [slot |-> k, offers |-> Offered(in, k)]
      BY <2>1, <2>2
    <2>4. QED  BY <2>1, <2>3 DEF PickerFits
  <1>3. QED  BY <1>1, <1>2

LEMMA Picks == LoadoutInv /\ (\E item \in LoadoutItems : Pick(item)) => LoadoutInv'
  <1> SUFFICES ASSUME LoadoutInv, NEW item, Pick(item)  PROVE LoadoutInv'
    OBVIOUS
  <1> DEFINE k == ldPicker.slot
             in == WithItem(ldIn, k, item)
  <1>1. ldPicker # EmptySlot /\ item \in ldPicker.offers /\ Change3(in) /\ RefreshPicker(in, ldPicker)
        /\ ldTab' = ldTab
    BY DEF Pick
  <1>2. PickerFits /\ GoodLoadout(ldIn)
    BY DEF LoadoutInv
  <1>3. k \in LoadoutKeys /\ item \in Offered(ldIn, k)
    BY <1>1, <1>2 DEF PickerFits
  <1> HIDE DEF k
  <1>4. GoodLoadout(in)
    BY <1>2, <1>3, WithItemGood
  <1> HIDE DEF in
  <1>5. PickerFits'
    BY <1>1, <1>2, PickerRefreshed DEF Change3
  <1>6. QED  BY <1>1, <1>4, <1>5, LoadoutChanges

LEMMA Clears ==
  ASSUME LoadoutInv, NEW k \in LoadoutKeys, NEW fromTable \in BOOLEAN, ClearSlot(k, fromTable)
  PROVE  LoadoutInv'
  <1> DEFINE in == Cleared(ldIn, k)
             affected == ldPicker # EmptySlot
                         /\ (ldPicker.slot = k \/ (k[1] # "plate" /\ IsInsertOf(ldPicker.slot, k)))
             picker == IF affected /\ ~fromTable THEN EmptySlot ELSE ldPicker
  <1>1. k \in DOMAIN ldIn /\ Change3(in) /\ RefreshPicker(in, picker) /\ ldTab' = ldTab
    BY DEF ClearSlot
  <1>2. PickerFits /\ GoodLoadout(ldIn)
    BY DEF LoadoutInv
  <1>3. GoodLoadout(in)
    BY <1>1, <1>2, ClearedGood
  <1>4. picker = EmptySlot \/ picker = ldPicker
    OBVIOUS
  <1> HIDE DEF in, picker
  <1>5. PickerFits'
    BY <1>1, <1>2, <1>4, PickerRefreshed DEF Change3
  <1>6. QED  BY <1>1, <1>3, <1>5, LoadoutChanges

LEMMA Resets == LoadoutInv /\ ResetLoadout => LoadoutInv'
  <1> SUFFICES ASSUME LoadoutInv, ResetLoadout  PROVE LoadoutInv'
    OBVIOUS
  <1> DEFINE in == [k \in {} |-> EmptySlot]
  <1>1. Change3(in) /\ ldPicker' = EmptySlot /\ ldTab' = ldTab
    BY DEF ResetLoadout
  <1>2. GoodLoadout([k \in {} |-> ldIn[k]])
    BY LessIsWearable DEF LoadoutInv
  <1>3. in = [k \in {} |-> ldIn[k]]
    OBVIOUS
  <1>4. GoodLoadout(in)
    BY <1>2, <1>3
  <1> HIDE DEF in
  <1>5. PickerFits'
    BY <1>1 DEF PickerFits
  <1>6. QED  BY <1>1, <1>4, <1>5, LoadoutChanges

(* The item table opens and closes.                                          *)
LEMMA PickerOpens ==
  LoadoutInv /\ ((\E k \in LoadoutKeys : OpenPicker(k)) \/ ClosePicker3) => LoadoutInv'
  <1>1. ASSUME LoadoutInv, UNCHANGED <<ldIn, ldTab, ldTabs, ldPop>>, PickerFits'  PROVE LoadoutInv'
    BY <1>1 DEF LoadoutInv, SavedFit, PopFits, TabHasTheLoadout
  <1>2. ASSUME NEW k \in LoadoutKeys, OpenPicker(k)  PROVE PickerFits'
    BY <1>2 DEF OpenPicker, PickerFits
  <1>3. ClosePicker3 => PickerFits'
    BY DEF ClosePicker3, PickerFits
  <1>4. QED  BY <1>1, <1>2, <1>3 DEF OpenPicker, ClosePicker3

(* Another tab comes on show as it was saved.                                *)
LEMMA Switches == ASSUME LoadoutInv, NEW t \in LoadoutTabs, SwitchLoadout(t)  PROVE LoadoutInv'
  <1>1. /\ t # ldTab /\ ldTab' = t /\ ldIn' = Pruned(ldTabs[t]) /\ ldPicker' = EmptySlot
        /\ ldPop' = EmptySlot
    BY DEF SwitchLoadout
  <1>2. ldTabs' = ldTabs \/ SaveToTab(ldIn)
    BY DEF SwitchLoadout, SaveToTab
  <1>3. DOMAIN ldTabs' = LoadoutTabs /\ SavedFit' /\ ldTabs'[t] = ldTabs[t]
    <2>1. CASE ldTabs' = ldTabs
      BY <2>1 DEF LoadoutInv, SavedFit
    <2>2. CASE SaveToTab(ldIn)
      BY <1>1, <2>2, SavedTo DEF LoadoutInv, SaveToTab
    <2>3. QED  BY <1>2, <2>1, <2>2
  <1>4. GoodLoadout(ldIn')
    BY <1>1, PrunedTyped DEF LoadoutInv, SavedFit, GoodLoadout
  <1>5. Pruned(ldTabs'[t]) = Pruned(ldIn')
    BY <1>1, <1>3, PrunedTwice
  <1>6. QED  BY <1>1, <1>3, <1>4, <1>5 DEF LoadoutInv, PickerFits, PopFits, TabHasTheLoadout

(* The popover saves what was dragged, or keeps what is saved.               *)
LEMMA PopOpens == ASSUME LoadoutInv, NEW k \in LoadoutKeys, OpenDuraPop(k)  PROVE LoadoutInv'
  <1> DEFINE parts == DuraParts(k)
             were == [j \in parts |-> ldIn[j]]
             no == FALSE
  <1>1. /\ k \in DOMAIN ldIn /\ ldIn' = ldIn /\ ldTab' = ldTab /\ ldPicker' = ldPicker
        /\ ldPop' = [slot |-> k, were |-> were, pending |-> no, confirmed |-> no]
        /\ no \in BOOLEAN /\ ~no
        /\ (IF ldPop # EmptySlot /\ ldPop.pending THEN SaveToTab(ldIn) ELSE UNCHANGED ldTabs)
    BY DEF OpenDuraPop
  <1>2. k \in parts /\ parts \subseteq DOMAIN ldIn
    BY <1>1 DEF DuraParts, Inside
  <1> HIDE DEF parts, no
  <1>3. /\ DOMAIN were = parts /\ \A j \in parts : were[j] = ldIn[j]
    OBVIOUS
  <1>4. GoodLoadout(ldIn) /\ PickerFits /\ ldTab \in LoadoutTabs
    BY DEF LoadoutInv
  <1>5. \A j \in DOMAIN ldIn : ldIn[j] \in LoadoutThings /\ j \in LoadoutKeys
    BY <1>4 DEF GoodLoadout, IsLoadout
  <1>6. were \in [parts -> LoadoutThings] /\ parts \in SUBSET LoadoutKeys
    BY <1>2, <1>5
  <1>7. PartsFit(ldIn, were)
    BY <1>2, <1>3, <1>5 DEF PartsFit
  <1>8. PutBack(ldIn, were) = ldIn
    <2>1. ldIn = [j \in DOMAIN ldIn |-> ldIn[j]]
      BY <1>4 DEF GoodLoadout, IsLoadout
    <2>2. PutBack(ldIn, were) = [j \in DOMAIN ldIn |-> ldIn[j]]
      BY <1>3 DEF PutBack
    <2>3. QED  BY <2>1, <2>2
  <1> HIDE DEF were
  <1>9. DOMAIN ldTabs' = LoadoutTabs /\ SavedFit' /\ Pruned(ldTabs'[ldTab]) = Pruned(ldIn)
    <2>1. CASE ldPop # EmptySlot /\ ldPop.pending
      BY <1>1, <1>4, <2>1, SavedTo
    <2>2. CASE ~(ldPop # EmptySlot /\ ldPop.pending)
      BY <1>1, <2>2 DEF LoadoutInv, SavedFit, TabHasTheLoadout
    <2>3. QED  BY <2>1, <2>2
  <1>10. ldPop' \in Popovers
    BY <1>1, <1>6 DEF Popovers
  <1>11. PopFits'
    BY <1>1, <1>2, <1>3, <1>7, <1>8, <1>9, <1>10 DEF PopFits, were
  <1>12. TabHasTheLoadout' /\ PickerFits'
    BY <1>1, <1>4, <1>9 DEF TabHasTheLoadout, PickerFits
  <1>13. QED  BY <1>1, <1>4, <1>9, <1>11, <1>12 DEF LoadoutInv

(* Dragging changes the durability of parts that Escape would put back.      *)
Slid(in, touched, insert, percent) ==
  [j \in DOMAIN in |-> IF j \notin touched THEN in[j]
                       ELSE IF insert THEN [in[j] EXCEPT !.own = percent]
                       ELSE [in[j] EXCEPT !.dura = percent, !.own = 0]]
LEMMA SlidGood ==
  ASSUME NEW in, GoodLoadout(in), NEW were, PartsFit(in, were), NEW touched \in SUBSET DOMAIN were,
         NEW insert \in BOOLEAN, NEW percent \in Percents
  PROVE  LET out == Slid(in, touched, insert, percent)
         IN /\ GoodLoadout(out) /\ PartsFit(out, were) /\ PutBack(out, were) = PutBack(in, were)
            /\ \A k : Offered(out, k) = Offered(in, k)
  <1> DEFINE out == Slid(in, touched, insert, percent)
  <1>1. DOMAIN out = DOMAIN in /\ out = [j \in DOMAIN in |-> out[j]]
    BY DEF Slid
  <1>2. \A j \in DOMAIN in :
          /\ j \notin touched => out[j] = in[j]
          /\ j \in touched /\ insert => out[j] = [in[j] EXCEPT !.own = percent]
          /\ j \in touched /\ ~insert => out[j] = [in[j] EXCEPT !.dura = percent, !.own = 0]
    BY DEF Slid
  <1> HIDE DEF out
  <1>3. percent \in 0..100
    BY ArmorLoadoutConstants
  <1>4. ASSUME NEW j \in DOMAIN in  PROVE out[j] \in LoadoutThings /\ out[j].item = in[j].item
    <2>1. in[j] \in LoadoutThings
      BY DEF GoodLoadout, IsLoadout
    <2>2. \A r \in LoadoutThings : /\ [r EXCEPT !.own = percent] \in LoadoutThings
                                   /\ [r EXCEPT !.own = percent].item = r.item
      BY <1>3 DEF LoadoutThings
    <2>3. \A r \in LoadoutThings : /\ [r EXCEPT !.dura = percent, !.own = 0] \in LoadoutThings
                                   /\ [r EXCEPT !.dura = percent, !.own = 0].item = r.item
      <3> DEFINE none == 0
      <3>1. none \in 0..100
        OBVIOUS
      <3> HIDE DEF none
      <3>2. \A r \in LoadoutThings : /\ [r EXCEPT !.dura = percent, !.own = none] \in LoadoutThings
                                     /\ [r EXCEPT !.dura = percent, !.own = none].item = r.item
        BY <1>3, <3>1 DEF LoadoutThings
      <3>3. QED  BY <3>2 DEF none
    <2>4. QED  BY <1>2, <2>1, <2>2, <2>3
  <1>5. out \in [DOMAIN in -> LoadoutThings]
    BY <1>1, <1>4
  <1>6. GoodLoadout(out)
    BY <1>4, <1>5, SameIsWearable
  <1>7. \A k : Offered(out, k) = Offered(in, k)
    BY <1>1, <1>4, SameItems
  <1>8. PartsFit(out, were)
    BY <1>1, <1>4 DEF PartsFit
  <1>9. PutBack(out, were) = PutBack(in, were)
    <2>1. \A j \in DOMAIN in : j \notin DOMAIN were => out[j] = in[j]
      BY <1>2
    <2>2. QED  BY <1>1, <2>1 DEF PutBack
  <1>10. QED  BY <1>6, <1>7, <1>8, <1>9 DEF out

LEMMA PickerStays ==
  ASSUME PickerFits, ldPicker' = ldPicker, \A k : Offered(ldIn', k) = Offered(ldIn, k)
  PROVE  PickerFits'
  BY DEF PickerFits

LEMMA Slides ==
  ASSUME LoadoutInv, NEW percent \in Percents, NEW allParts \in BOOLEAN, NEW insert \in BOOLEAN,
         Slide(percent, allParts, insert)
  PROVE  LoadoutInv'
  <1> DEFINE touched == IF allParts THEN DOMAIN ldPop.were ELSE {ldPop.slot}
             yes == TRUE
  <1>1. /\ ldPop # EmptySlot /\ ldIn' = Slid(ldIn, touched, insert, percent)
        /\ ldPop' = [ldPop EXCEPT !.pending = yes] /\ yes \in BOOLEAN /\ yes
        /\ ldTab' = ldTab /\ ldTabs' = ldTabs /\ ldPicker' = ldPicker
    BY DEF Slide, Slid
  <1>2. /\ ldPop \in Popovers /\ ldPop.slot \in DOMAIN ldPop.were /\ PartsFit(ldIn, ldPop.were)
        /\ ~ldPop.confirmed => Pruned(ldTabs[ldTab]) = Pruned(PutBack(ldIn, ldPop.were))
    BY <1>1 DEF LoadoutInv, PopFits
  <1>3. GoodLoadout(ldIn) /\ PickerFits
    BY DEF LoadoutInv
  <1>4. touched \in SUBSET DOMAIN ldPop.were
    BY <1>2
  <1> HIDE DEF touched, yes
  <1>5. /\ GoodLoadout(ldIn') /\ PartsFit(ldIn', ldPop.were)
        /\ PutBack(ldIn', ldPop.were) = PutBack(ldIn, ldPop.were)
        /\ \A k : Offered(ldIn', k) = Offered(ldIn, k)
    BY <1>1, <1>2, <1>3, <1>4, SlidGood
  <1>6. /\ ldPop' \in Popovers /\ ldPop'.slot = ldPop.slot /\ ldPop'.were = ldPop.were
        /\ ldPop'.confirmed = ldPop.confirmed /\ ldPop'.pending = yes
    BY <1>1, <1>2 DEF Popovers
  <1>7. ldPop' # EmptySlot
    BY <1>6, ArmorCatalog DEF Popovers
  <1>8. PopFits'
    BY <1>1, <1>2, <1>5, <1>6 DEF PopFits
  <1>9. PickerFits'
    BY <1>1, <1>3, <1>5, PickerStays
  <1>10. TabHasTheLoadout'
    BY <1>1, <1>6, <1>7 DEF TabHasTheLoadout
  <1>11. QED  BY <1>1, <1>5, <1>8, <1>9, <1>10 DEF LoadoutInv, SavedFit

LEMMA Confirms == LoadoutInv /\ ConfirmDura => LoadoutInv'
  <1> SUFFICES ASSUME LoadoutInv, ConfirmDura  PROVE LoadoutInv'
    OBVIOUS
  <1> DEFINE yes == TRUE  no == FALSE
  <1>1. /\ ldPop # EmptySlot /\ SaveToTab(ldIn) /\ yes \in BOOLEAN /\ yes /\ no \in BOOLEAN /\ ~no
        /\ ldPop' = [ldPop EXCEPT !.pending = no, !.confirmed = yes]
        /\ ldIn' = ldIn /\ ldTab' = ldTab /\ ldPicker' = ldPicker
    BY DEF ConfirmDura
  <1> HIDE DEF yes, no
  <1>2. ldPop \in Popovers /\ ldPop.slot \in DOMAIN ldPop.were /\ PartsFit(ldIn, ldPop.were)
    BY <1>1 DEF LoadoutInv, PopFits
  <1>3. GoodLoadout(ldIn) /\ PickerFits
    BY DEF LoadoutInv
  <1>4. DOMAIN ldTabs' = LoadoutTabs /\ SavedFit' /\ ldTabs'[ldTab] = ldIn
    BY <1>1, <1>3, SavedTo
  <1>5. /\ ldPop' \in Popovers /\ ldPop'.slot = ldPop.slot /\ ldPop'.were = ldPop.were
        /\ ldPop'.confirmed = yes
    BY <1>1, <1>2 DEF Popovers
  <1>6. PopFits'
    BY <1>1, <1>2, <1>5 DEF PopFits
  <1>7. TabHasTheLoadout' /\ PickerFits'
    BY <1>1, <1>3, <1>4 DEF TabHasTheLoadout, PickerFits
  <1>8. QED  BY <1>1, <1>3, <1>4, <1>6, <1>7 DEF LoadoutInv

LEMMA PopCloses == LoadoutInv /\ CloseDuraPop => LoadoutInv'
  <1> SUFFICES ASSUME LoadoutInv, CloseDuraPop  PROVE LoadoutInv'
    OBVIOUS
  <1>1. /\ ldPop # EmptySlot /\ ldPop' = EmptySlot /\ ldIn' = ldIn /\ ldTab' = ldTab /\ ldPicker' = ldPicker
        /\ (IF ldPop.pending THEN SaveToTab(ldIn) ELSE UNCHANGED ldTabs)
    BY DEF CloseDuraPop
  <1>2. GoodLoadout(ldIn) /\ PickerFits
    BY DEF LoadoutInv
  <1>3. DOMAIN ldTabs' = LoadoutTabs /\ SavedFit' /\ Pruned(ldTabs'[ldTab]) = Pruned(ldIn)
    <2>1. CASE ldPop.pending
      BY <1>1, <1>2, <2>1, SavedTo
    <2>2. CASE ~ldPop.pending
      BY <1>1, <2>2 DEF LoadoutInv, SavedFit, TabHasTheLoadout
    <2>3. QED  BY <2>1, <2>2
  <1>4. QED  BY <1>1, <1>2, <1>3 DEF LoadoutInv, PickerFits, PopFits, TabHasTheLoadout

LEMMA Cancels == LoadoutInv /\ CancelDuraPop => LoadoutInv'
  <1> SUFFICES ASSUME LoadoutInv, CancelDuraPop  PROVE LoadoutInv'
    OBVIOUS
  <1> DEFINE back == PutBack(ldIn, ldPop.were)
  <1>1. /\ ldPop # EmptySlot /\ ldPop' = EmptySlot /\ ldTab' = ldTab /\ ldPicker' = ldPicker
        /\ ldIn' = IF ldPop.pending \/ ldPop.confirmed THEN back ELSE ldIn
        /\ (IF ldPop.confirmed THEN SaveToTab(back) ELSE UNCHANGED ldTabs)
    BY DEF CancelDuraPop
  <1>2. /\ ldPop \in Popovers /\ PartsFit(ldIn, ldPop.were)
        /\ ~ldPop.confirmed => Pruned(ldTabs[ldTab]) = Pruned(back)
    BY <1>1 DEF LoadoutInv, PopFits
  <1>3. GoodLoadout(ldIn) /\ PickerFits
    BY DEF LoadoutInv
  <1>4. GoodLoadout(back) /\ \A k : Offered(back, k) = Offered(ldIn, k)
    BY <1>2, <1>3, PutBackGood
  <1> HIDE DEF back
  <1>5. ldIn' = back \/ (ldIn' = ldIn /\ ~ldPop.pending /\ ~ldPop.confirmed)
    BY <1>1
  <1>6. GoodLoadout(ldIn') /\ \A k : Offered(ldIn', k) = Offered(ldIn, k)
    BY <1>3, <1>4, <1>5
  <1>7. PickerFits'
    BY <1>1, <1>3, <1>6, PickerStays
  <1>8. DOMAIN ldTabs' = LoadoutTabs /\ SavedFit' /\ Pruned(ldTabs'[ldTab]) = Pruned(ldIn')
    <2>1. CASE ldPop.confirmed
      BY <1>1, <1>4, <2>1, SavedTo
    <2>2. CASE ~ldPop.confirmed
      <3>1. ldTabs' = ldTabs
        BY <1>1, <2>2
      <3>2. ldIn' = ldIn => Pruned(ldTabs[ldTab]) = Pruned(ldIn) \/ ldIn' = back
        BY <1>1, <1>5 DEF LoadoutInv, TabHasTheLoadout
      <3>3. QED  BY <1>2, <1>5, <2>2, <3>1, <3>2 DEF LoadoutInv, SavedFit
    <2>3. QED  BY <2>1, <2>2
  <1>9. QED  BY <1>1, <1>6, <1>7, <1>8 DEF LoadoutInv, PopFits, TabHasTheLoadout

LEMMA LoadoutSteps == LoadoutInv /\ [ArmorLoadoutNext]_ldVars => LoadoutInv'
  <1> SUFFICES ASSUME LoadoutInv, [ArmorLoadoutNext]_ldVars  PROVE LoadoutInv'
    OBVIOUS
  <1>1. CASE UNCHANGED ldVars
    BY <1>1 DEF ldVars, LoadoutInv, SavedFit, PickerFits, PopFits, TabHasTheLoadout
  <1>2. CASE \E k \in LoadoutKeys : OpenPicker(k) \/ OpenDuraPop(k)
                                   \/ \E fromTable \in BOOLEAN : ClearSlot(k, fromTable)
    BY <1>2, PickerOpens, PopOpens, Clears
  <1>3. CASE \E item \in LoadoutItems : Pick(item)
    BY <1>3, Picks
  <1>4. CASE \E t \in LoadoutTabs : SwitchLoadout(t)
    BY <1>4, Switches
  <1>5. CASE \E percent \in Percents, allParts, insert \in BOOLEAN : Slide(percent, allParts, insert)
    BY <1>5, Slides
  <1>6. CASE ClosePicker3 \/ ResetLoadout \/ ConfirmDura \/ CloseDuraPop \/ CancelDuraPop
    BY <1>6, PickerOpens, Resets, Confirms, PopCloses, Cancels
  <1>7. UNION ({FitsEquip[s] : s \in EquipSlots} \cup {o.allowed : o \in Opened3}) \subseteq LoadoutItems
    BY DEF LoadoutItems
  <1>8. QED  BY <1>1, <1>2, <1>3, <1>4, <1>5, <1>6, <1>7 DEF ArmorLoadoutNext

LEMMA LoadoutStarts == ArmorLoadoutInit => LoadoutInv
  <1> SUFFICES ASSUME ArmorLoadoutInit  PROVE LoadoutInv
    OBVIOUS
  <1>1. /\ ldTab = (CHOOSE t \in LoadoutTabs : TRUE) /\ ldTabs \in [LoadoutTabs -> SavedLoadouts]
        /\ ldIn = Pruned(ldTabs[ldTab]) /\ ldPicker = EmptySlot /\ ldPop = EmptySlot
    BY DEF ArmorLoadoutInit
  <1>2. ldTab \in LoadoutTabs
    BY <1>1, ArmorLoadoutConstants
  <1>3. SavedFit /\ DOMAIN ldTabs = LoadoutTabs
    BY <1>1, ArmorCatalog DEF SavedFit
  <1>4. GoodLoadout(ldIn)
    BY <1>1, <1>2, <1>3, PrunedTyped DEF GoodLoadout, SavedFit
  <1>5. Pruned(ldTabs[ldTab]) = Pruned(ldIn)
    BY <1>1, PrunedTwice
  <1>6. QED  BY <1>1, <1>2, <1>3, <1>4, <1>5 DEF LoadoutInv, PickerFits, PopFits, TabHasTheLoadout

(* A step of the client is a step of the loadout or leaves it alone.         *)
LEMMA LoadoutMoves == [ClientNext]_clientVars => [ArmorLoadoutNext]_ldVars
  BY DEF ClientNext, clientVars

(* The loadout stays right: for every catalog, any tabs and bounds, whatever *)
(* is put in, taken out, dragged, given back, reset or loaded from another   *)
(* tab, in whatever order, the loadout on show can be worn and is the one    *)
(* that its tab keeps (armor-sim.js).                                        *)
THEOREM LoadoutStaysRight == ClientSpec => []LoadoutIsRight
  <1>1. ClientInit => LoadoutInv
    BY LoadoutStarts DEF ClientInit
  <1>2. LoadoutInv /\ [ClientNext]_clientVars => LoadoutInv'
    BY LoadoutMoves, LoadoutSteps
  <1>3. LoadoutInv => LoadoutIsRight
    BY DEF LoadoutInv, LoadoutIsRight, LoadoutIsWearable, GoodLoadout
  <1>4. QED  BY <1>1, <1>2, <1>3, PTL DEF ClientSpec
================================================================================
