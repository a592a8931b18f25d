------------------------------- MODULE Builder3D -------------------------------
(* The 3D builder (modules/builder-3d.js): the page keeps the build and     *)
(* sends it to a viewer in a frame, which draws builds one after the other. *)
(* A veil covers the view while it starts, draws, or a load of the page     *)
(* holds it; a slot's box spins while its parts are fetched or a pick is    *)
(* drawn; the viewer's own part list is one of two ways to pick.            *)
(*                                                                          *)
(* A message to the viewer takes effect at once, except that it draws in    *)
(* its own time.  Looks, the intro, keys and the dock are left out.         *)
EXTENDS Naturals, Sequences

CONSTANTS
  Guns3D, Slots3D, NoSlot3D, NoBuild,
  MaxDraws, MaxHolds,           \* bounds: drawings under way, loads that hold the veil,
  MaxActs3D                     \* acts of the user

ASSUME Builder3DConstants ==
  /\ NoSlot3D \notin Slots3D /\ NoBuild \notin [gun : Guns3D, parts : BOOLEAN]
  /\ {MaxDraws, MaxHolds, MaxActs3D} \subseteq Nat

VARIABLES
  b3Build,          \* the page's build, or NoBuild in the list of guns
  b3Mode, b3Failed, b3Publish,
  b3Style,          \* "table" or "game": which list a click on a slot opens
  b3Active, b3Ready,
  b3Drawing, b3Veil, b3Holds,
  b3Releases,       \* loads that still hold the veil, of this or an earlier view
  b3Synced, b3Scheduled,
  b3Draws,          \* builds the viewer was sent and has not answered, oldest first
  b3Shown, b3Spin,  \* of the viewer: the build drawn, the slot box that spins
  b3Lost,           \* a drawing failed and none succeeded since
  b3Table, b3Native,   \* the slot of our table and of the viewer's part list
  b3Fetches,        \* part lists being fetched: of which slot, and still wanted
  b3LoadingKey, b3InstallKey,
  b3Edits,          \* edits of the build that are not rendered yet, by slot picked
  b3Sight, b3ResetOnOrbit,
  b3Acts            \* acts of the user so far (bounded)

b3Page == <<b3Build, b3Mode, b3Failed, b3Publish, b3Style>>
b3Veiled == <<b3Drawing, b3Veil, b3Holds, b3Releases>>
b3Sync == <<b3Synced, b3Scheduled, b3Draws, b3Shown, b3Lost>>
b3Lists == <<b3Table, b3Native, b3Fetches, b3LoadingKey>>
b3Picks == <<b3InstallKey, b3Edits>>
b3Looks == <<b3Sight, b3ResetOnOrbit>>
b3vars == <<b3Page, b3Active, b3Ready, b3Veiled, b3Sync, b3Spin, b3Lists, b3Picks,
            b3Looks, b3Acts>>

Builds3D == [gun : Guns3D, parts : BOOLEAN]
Keys3D == Slots3D \cup {NoSlot3D}

Builder3DInit ==
  /\ b3Build = NoBuild /\ b3Mode \in {"2d", "3d"} /\ b3Failed = FALSE /\ b3Publish = FALSE
  /\ b3Style \in {"table", "game"}
  /\ b3Active = FALSE /\ b3Ready = FALSE
  /\ b3Drawing = FALSE /\ b3Veil = FALSE /\ b3Holds = 0 /\ b3Releases = 0
  /\ b3Synced = NoBuild /\ b3Scheduled = FALSE /\ b3Draws = <<>>
  /\ b3Shown = NoBuild /\ b3Lost = FALSE /\ b3Spin = NoSlot3D
  /\ b3Table = NoSlot3D /\ b3Native = NoSlot3D /\ b3Fetches = {} /\ b3LoadingKey = NoSlot3D
  /\ b3InstallKey = NoSlot3D /\ b3Edits = {}
  /\ b3Sight = FALSE /\ b3ResetOnOrbit = FALSE /\ b3Acts = 0

(* _setLoading(false): the veil stays for any other reason it has.          *)
Lifted(ready, drawing, holds) == b3Veil /\ (~ready \/ drawing \/ holds > 0)
Dropped == {[f EXCEPT !.wanted = FALSE] : f \in b3Fetches}

(* closePicker: both lists, and a fetch is not wanted any more.             *)
ClosePicker ==
  /\ b3Table' = NoSlot3D /\ b3Native' = NoSlot3D
  /\ b3Fetches' = Dropped /\ b3LoadingKey' = NoSlot3D

-------------------------------------------------------------------------------
(* The view opens and closes. *)

(* _enter3d: a new frame, covered from the start.                           *)
Enter3D ==
  IF b3Active THEN UNCHANGED <<b3Active, b3Ready, b3Veiled, b3Synced, b3Draws, b3Shown,
                               b3Lost, b3Spin, b3Lists, b3Looks>>
  ELSE /\ b3Active' = TRUE /\ b3Ready' = FALSE
       /\ b3Drawing' = TRUE /\ b3Holds' = 0 /\ b3Veil' = TRUE
       /\ b3Synced' = NoBuild /\ b3Draws' = <<>> /\ b3Shown' = NoBuild /\ b3Lost' = FALSE
       /\ b3Spin' = NoSlot3D /\ b3Table' = NoSlot3D
       /\ b3Sight' = FALSE /\ b3ResetOnOrbit' = FALSE
       /\ UNCHANGED <<b3Releases, b3Native, b3Fetches, b3LoadingKey>>

(* _leave3d: calls under way are rejected, so their drawing is over.        *)
Leave3D ==
  IF ~b3Active THEN UNCHANGED <<b3Active, b3Ready, b3Veiled, b3Synced, b3Draws, b3Shown,
                                b3Lost, b3Spin, b3Lists, b3Looks>>
  ELSE /\ ClosePicker
       /\ b3Active' = FALSE /\ b3Ready' = FALSE /\ b3Veil' = FALSE
       /\ b3Drawing' = (b3Drawing /\ b3Draws = <<>>)
       /\ b3Draws' = <<>> /\ b3Shown' = NoBuild /\ b3Spin' = NoSlot3D
       /\ UNCHANGED <<b3Holds, b3Releases, b3Synced, b3Lost, b3Looks>>

(* onGunOpen, after a gun or a tab was selected or publishing ended.        *)
OnGunOpen ==
  /\ IF ~b3Publish' /\ b3Mode = "3d" /\ ~b3Failed THEN Enter3D ELSE Leave3D
  /\ b3Scheduled' = TRUE

OpenGun ==
  /\ ~b3Publish
  /\ \E b \in Builds3D : b # b3Build /\ b3Build' = b
  /\ UNCHANGED <<b3Mode, b3Failed, b3Publish, b3Style, b3Picks>>
  /\ OnGunOpen

BackToGuns ==
  /\ b3Build # NoBuild /\ b3Build' = NoBuild /\ b3Publish' = FALSE
  /\ Leave3D
  /\ UNCHANGED <<b3Mode, b3Failed, b3Style, b3Scheduled, b3Picks>>

(* setMode of the toggle; choosing 3D forgives an earlier failure.          *)
SetMode ==
  /\ ~b3Publish
  /\ \E mode \in {"2d", "3d"} :
       /\ b3Mode' = mode
       /\ b3Failed' = (b3Failed /\ mode = "2d")
       /\ IF b3Build # NoBuild /\ mode = "3d" THEN Enter3D ELSE Leave3D
  /\ UNCHANGED <<b3Build, b3Publish, b3Style, b3Scheduled, b3Picks>>

(* Publishing is confirmed over the 2D builder.                             *)
TogglePublish ==
  /\ b3Build # NoBuild /\ b3Publish' = ~b3Publish
  /\ IF b3Publish' THEN Leave3D /\ UNCHANGED b3Scheduled ELSE OnGunOpen
  /\ UNCHANGED <<b3Build, b3Mode, b3Failed, b3Style, b3Picks>>

ViewerReady ==
  /\ b3Active /\ ~b3Ready /\ b3Ready' = TRUE
  /\ b3Synced' = NoBuild /\ b3Scheduled' = TRUE
  /\ UNCHANGED <<b3Page, b3Active, b3Veiled, b3Draws, b3Shown, b3Lost, b3Spin, b3Lists,
                 b3Picks, b3Looks>>

(* The viewer reports an error, or did not get ready in time.               *)
ViewerFails ==
  /\ b3Active /\ b3Failed' = TRUE
  /\ Leave3D
  /\ UNCHANGED <<b3Build, b3Mode, b3Publish, b3Style, b3Scheduled, b3Picks>>

-------------------------------------------------------------------------------
(* The build goes to the viewer. *)

(* An edit changes the build at once, is rendered later, and is then sent   *)
(* in the next frame.                                                       *)
EditBuild ==
  /\ b3Build # NoBuild /\ ~b3Publish /\ NoSlot3D \notin b3Edits
  /\ b3Build' = [b3Build EXCEPT !.parts = ~@]
  /\ b3Edits' = b3Edits \cup {NoSlot3D}
  /\ UNCHANGED <<b3Mode, b3Failed, b3Publish, b3Style, b3Active, b3Ready, b3Veiled, b3Sync,
                 b3Spin, b3Lists, b3InstallKey, b3Looks>>

EditRendered ==
  /\ \E edit \in b3Edits : b3Edits' = b3Edits \ {edit}
  /\ b3Scheduled' = (b3Scheduled \/ b3Active)
  /\ UNCHANGED <<b3Page, b3Active, b3Ready, b3Veiled, b3Synced, b3Draws, b3Shown, b3Lost,
                 b3Spin, b3Lists, b3InstallKey, b3Looks>>

(* _sync: the first drawing of a build under this key; its pick's slot box  *)
(* spins in place of the veil, unless the gun is another one.               *)
CanSync == b3Active /\ b3Ready /\ b3Build # NoBuild
NewGun(build) == IF b3Synced = NoBuild THEN TRUE ELSE b3Synced.gun # build.gun
(* Mutant: only the first build of the page is news.                       *)
IsNewsOnce(build) == b3Synced = NoBuild /\ build # NoBuild

IsNews(build) == build # b3Synced

SendBuild ==
  /\ Len(b3Draws) < MaxDraws
  /\ b3Draws' = Append(b3Draws, [build |-> b3Build, slot |-> b3InstallKey,
                                 newGun |-> NewGun(b3Build)])
  /\ b3Synced' = b3Build /\ b3Drawing' = TRUE
  /\ b3Veil' = (b3Veil \/ b3InstallKey = NoSlot3D \/ NewGun(b3Build))
  /\ b3Native' = NoSlot3D /\ b3Fetches' = Dropped
  /\ UNCHANGED b3Spin

NothingToDraw ==
  /\ b3Spin' = IF b3InstallKey # NoSlot3D THEN NoSlot3D ELSE b3Spin
  /\ UNCHANGED <<b3Draws, b3Synced, b3Drawing, b3Veil, b3Native, b3Fetches>>

Sync3D ==
  /\ b3Scheduled /\ b3Scheduled' = FALSE
  /\ IF CanSync
     THEN /\ IF IsNews(b3Build) THEN SendBuild ELSE NothingToDraw
          /\ b3InstallKey' = NoSlot3D
     ELSE UNCHANGED <<b3Draws, b3Synced, b3Drawing, b3Veil, b3Native, b3Fetches, b3Spin,
                      b3InstallKey>>
  /\ UNCHANGED <<b3Page, b3Active, b3Ready, b3Holds, b3Releases, b3Shown, b3Lost, b3Table,
                 b3LoadingKey, b3Edits, b3Looks>>

(* The answer to setBuild.  Only that of the build last sent lifts the veil;*)
(* the reset of a new gun's view waits for the sights to be left.           *)
IsLatest(draw) == draw.build = b3Synced

BuildDrawn ==
  /\ b3Draws # <<>>
  /\ LET draw == Head(b3Draws) IN
       /\ b3Shown' = draw.build
       /\ b3Drawing' = (b3Drawing /\ ~IsLatest(draw))
       /\ b3Veil' = IF IsLatest(draw) THEN Lifted(b3Ready, FALSE, b3Holds) ELSE b3Veil
       /\ b3ResetOnOrbit' = (b3ResetOnOrbit \/ (IsLatest(draw) /\ draw.newGun /\ b3Sight))
  /\ b3Draws' = Tail(b3Draws) /\ b3Spin' = NoSlot3D /\ b3Lost' = FALSE
  /\ UNCHANGED <<b3Page, b3Active, b3Ready, b3Holds, b3Releases, b3Synced, b3Scheduled,
                 b3Lists, b3Picks, b3Sight>>

(* The drawing failed or was not answered in time: it is not tried again.   *)
BuildFails ==
  /\ b3Draws # <<>>
  /\ LET draw == Head(b3Draws) IN
       /\ b3Drawing' = (b3Drawing /\ ~IsLatest(draw))
       /\ b3Veil' = IF IsLatest(draw) THEN Lifted(b3Ready, FALSE, b3Holds) ELSE b3Veil
       /\ b3Spin' = IF draw.slot # NoSlot3D THEN NoSlot3D ELSE b3Spin
  /\ b3Draws' = Tail(b3Draws) /\ b3Lost' = TRUE
  /\ UNCHANGED <<b3Page, b3Active, b3Ready, b3Holds, b3Releases, b3Synced, b3Scheduled,
                 b3Shown, b3Lists, b3Picks, b3Looks>>

(* holdLoading and the release it returns, which may come in a later view.  *)
HoldLoading ==
  /\ b3Active /\ b3Releases < MaxHolds
  /\ b3Releases' = b3Releases + 1 /\ b3Holds' = b3Holds + 1 /\ b3Veil' = TRUE
  /\ UNCHANGED <<b3Page, b3Active, b3Ready, b3Drawing, b3Sync, b3Spin, b3Lists, b3Picks,
                 b3Looks>>

ReleaseLoading ==
  /\ b3Releases > 0 /\ b3Releases' = b3Releases - 1
  /\ b3Holds' = IF b3Holds = 0 THEN 0 ELSE b3Holds - 1
  /\ b3Veil' = Lifted(b3Ready, b3Drawing, b3Holds')
  /\ UNCHANGED <<b3Page, b3Active, b3Ready, b3Drawing, b3Sync, b3Spin, b3Lists, b3Picks,
                 b3Looks>>

-------------------------------------------------------------------------------
(* Picking parts in the view. *)

(* _onSlotClick: a click on the open slot closes its list, and one on a     *)
(* slot whose parts are under way is not a second one.                      *)
SlotClick ==
  /\ b3Active /\ b3Ready
  /\ \E key \in Slots3D :
       \/ key \in {b3Table, b3Native} /\ ClosePicker /\ UNCHANGED b3Spin
       \/ /\ key \notin {b3Table, b3Native, b3LoadingKey} /\ b3Style = "table"
          /\ b3Table' = key
          /\ IF b3Native = NoSlot3D THEN UNCHANGED <<b3Native, b3Fetches, b3LoadingKey>>
             ELSE b3Native' = NoSlot3D /\ b3Fetches' = Dropped /\ b3LoadingKey' = NoSlot3D
          /\ UNCHANGED b3Spin
       \/ /\ key \notin {b3Table, b3Native, b3LoadingKey} /\ b3Style = "game"
          /\ \A f \in b3Fetches : f.slot # key
          /\ b3Fetches' = Dropped \cup {[slot |-> key, wanted |-> TRUE]}
          /\ b3LoadingKey' = key /\ b3Spin' = key /\ b3Table' = NoSlot3D
          /\ UNCHANGED b3Native
  /\ UNCHANGED <<b3Page, b3Active, b3Ready, b3Veiled, b3Sync, b3Picks, b3Looks>>

(* _openNative with its parts, or without: a list that is wanted opens and  *)
(* ends the spinning, one that is not ends it unless another slot loads.    *)
SpinAfterDrop(loading) == IF b3Ready /\ loading = NoSlot3D THEN NoSlot3D ELSE b3Spin

PartListArrives ==
  \E f \in b3Fetches : \E loaded \in {f.wanted, FALSE} :
    /\ b3Fetches' = b3Fetches \ {f}
    /\ b3LoadingKey' = IF b3LoadingKey = f.slot THEN NoSlot3D ELSE b3LoadingKey
    /\ IF loaded /\ b3Active
       THEN b3Native' = f.slot /\ b3Spin' = NoSlot3D
       ELSE b3Spin' = SpinAfterDrop(b3LoadingKey') /\ UNCHANGED b3Native
    /\ UNCHANGED <<b3Page, b3Active, b3Ready, b3Veiled, b3Sync, b3Table, b3Picks, b3Looks>>

(* _onPartPick: the picked slot spins until the build with it is drawn.     *)
PartPick ==
  /\ b3Active /\ b3Ready /\ b3Native # NoSlot3D /\ b3Native \notin b3Edits
  /\ b3Build' = [b3Build EXCEPT !.parts = ~@]
  /\ b3InstallKey' = b3Native /\ b3Spin' = b3Native
  /\ b3Edits' = b3Edits \cup {b3Native} /\ b3Native' = NoSlot3D
  /\ UNCHANGED <<b3Mode, b3Failed, b3Publish, b3Style, b3Active, b3Ready, b3Veiled, b3Sync,
                 b3Table, b3Fetches, b3LoadingKey, b3Looks>>

(* The viewer closes its list (partmenu), the page its table.               *)
ListClosed ==
  /\ b3Active
  /\ \/ b3Native # NoSlot3D /\ b3Native' = NoSlot3D /\ UNCHANGED b3Table
     \/ b3Table # NoSlot3D /\ b3Table' = NoSlot3D /\ UNCHANGED b3Native
  /\ UNCHANGED <<b3Page, b3Active, b3Ready, b3Veiled, b3Sync, b3Spin, b3Fetches,
                 b3LoadingKey, b3Picks, b3Looks>>

(* Escape, a click on a part, or another choice of list.                    *)
DismissPicker ==
  /\ b3Active /\ ClosePicker
  /\ b3Style' \in {"table", "game"}
  /\ UNCHANGED <<b3Build, b3Mode, b3Failed, b3Publish, b3Active, b3Ready, b3Veiled, b3Sync,
                 b3Spin, b3Picks, b3Looks>>

(* The viewer entered the sight picture or came back from it.               *)
ModeEvent ==
  /\ b3Active /\ b3Ready /\ b3Sight' = ~b3Sight /\ b3ResetOnOrbit' = FALSE
  /\ IF b3Sight' THEN ClosePicker ELSE UNCHANGED b3Lists
  /\ UNCHANGED <<b3Page, b3Active, b3Ready, b3Veiled, b3Sync, b3Spin, b3Picks>>

Act3D ==
  /\ b3Acts < MaxActs3D /\ b3Acts' = b3Acts + 1
  /\ \/ OpenGun \/ BackToGuns \/ SetMode \/ TogglePublish \/ EditBuild \/ HoldLoading
     \/ SlotClick \/ PartPick \/ DismissPicker \/ ModeEvent

Answer3D ==
  /\ UNCHANGED b3Acts
  /\ \/ ViewerReady \/ ViewerFails \/ EditRendered \/ Sync3D \/ BuildDrawn \/ BuildFails
     \/ ReleaseLoading \/ PartListArrives \/ ListClosed

Builder3DNext == Act3D \/ Answer3D

-------------------------------------------------------------------------------
(* Once everything sent is drawn and every edit rendered and sent, the      *)
(* viewer shows the page's build, unless a drawing failed.                  *)
ViewShowsTheBuild ==
  b3Active /\ b3Ready /\ ~b3Scheduled /\ b3Edits = {} /\ b3Draws = <<>> /\ ~b3Lost
    => b3Shown = b3Build

(* The veil and the spinning box are signs of something under way: none of  *)
(* them stays when the viewer is ready and nothing loads, installs or draws.*)
CoversEnd ==
  /\ b3Veil /\ b3Ready => b3Draws # <<>> \/ b3Scheduled \/ b3Holds > 0
  /\ b3Active /\ b3Holds > 0 => b3Veil
  /\ b3Holds <= b3Releases
  /\ b3Spin # NoSlot3D =>
       b3Fetches # {} \/ b3Edits # {} \/ b3Scheduled \/ b3Draws # <<>>

(* The viewer catches up with the page, and says so while it does not.      *)
ViewerCatchesUp == ViewShowsTheBuild /\ CoversEnd
===============================================================================
