--------------------------- MODULE OptimizerFilters ---------------------------
(* What the optimizer keeps for each gun (modules/optimizer.js): the parts *)
(* the user requires or bans, the weights, and the presets of both.  The   *)
(* drawer holds the settings of one gun in memory, saves them under the    *)
(* gun of the build at every click, and bans some parts by default once it *)
(* knows which parts the gun has, a catalog request that may be for        *)
(* another gun by the time it is answered.  Languages are left out.        *)
EXTENDS Naturals, FiniteSets

CONSTANTS Guns, NoGun,      \* NoGun: the page is in the list of guns
          Parts, DefaultBans, Fits,
          MaxClicks, MaxPresets     \* bounds: MaxClicks, MaxPresets

ASSUME GunConstants == NoGun \notin Guns

ASSUME FilterConstants ==
  /\ DefaultBans \subseteq Parts
  /\ Fits \in [Guns -> SUBSET Parts]
  /\ NoGun \notin [inc : SUBSET Parts, exc : SUBSET Parts, weights : {"balanced", "custom"}]
  /\ {MaxClicks, MaxPresets} \subseteq Nat

VARIABLES
  ofGun,                \* the gun of the build, or NoGun
  ofOpen,               \* the drawer is visible
  ofFor,                \* the gun whose settings are in memory
  ofInc, ofExc,         \* parts required, parts banned
  ofExceptions,         \* default bans lifted by the user, in memory only
  ofWeights,
  ofData,               \* the gun whose parts are known, or NoGun
  ofCall,               \* the request for parts: of which gun, who waits
  ofSaved, ofPresets,   \* in the browser's storage
  ofClicks,
  ofChosen              \* history: what the user last did with a part of a gun

ofMemory == <<ofFor, ofInc, ofExc, ofExceptions, ofWeights>>
ofVars == <<ofGun, ofOpen, ofMemory, ofData, ofCall, ofSaved, ofPresets,
            ofClicks, ofChosen>>

Weights == {"balanced", "custom"}
Defaults == [inc |-> {}, exc |-> {}, weights |-> "balanced"]
Waiters == [for : Guns, then : {"widget", "solve"}]
NoCall == [gun |-> NoGun, by |-> {}]

OptimizerFiltersInit ==
  /\ ofGun = NoGun /\ ofOpen = FALSE
  /\ ofFor = NoGun /\ ofInc = {} /\ ofExc = {} /\ ofExceptions = {}
  /\ ofWeights = "balanced" /\ ofData = NoGun /\ ofCall = NoCall
  /\ ofSaved = [g \in Guns |-> NoGun] /\ ofPresets = {}
  /\ ofClicks = 0 /\ ofChosen = [g \in Guns |-> [p \in Parts |-> "untouched"]]

DataReady == ofData = ofGun
Available == IF ofData = NoGun THEN {} ELSE Fits[ofData]
Asked(what) ==          \* one request at a time; who comes later waits for it
  [gun |-> IF ofCall = NoCall THEN ofGun ELSE ofCall.gun,
   by |-> ofCall.by \cup {[for |-> ofGun, then |-> what]}]

-------------------------------------------------------------------------------
(* Bans by default. *)

(* _applyDefaultModBans on the lists inc and exc.                          *)
WithDefaultBans(inc, exc, exceptions) ==
  exc \cup ((DefaultBans \cap Available) \ (exceptions \cup inc))

(* _rememberDefaultBanChoices(ids) after the lists became exc.             *)
Remembered(ids, exc) ==
  LET known == ids \cap DefaultBans \cap Available
  IN (ofExceptions \ (known \cap exc)) \cup (known \ exc)

(* _renderModFilterWidget: bans by default, or asks for the parts first.   *)
RenderFilters(inc, exc, exceptions) ==
  IF DataReady
  THEN ofExc' = WithDefaultBans(inc, exc, exceptions) /\ UNCHANGED ofCall
  ELSE /\ ofExc' = exc
       /\ ofCall' = Asked("widget")

-------------------------------------------------------------------------------
(* Settings of a gun. *)

(* _saveGunSettings, at the end of every click in the drawer.              *)
SaveSettings ==
  ofSaved' = IF ofGun = NoGun THEN ofSaved
             ELSE [ofSaved EXCEPT ![ofGun] =
                     [inc |-> ofInc', exc |-> ofExc', weights |-> ofWeights']]

(* _loadGunSettings: the defaults, and over them what was saved.           *)
LoadedFilters(gun) == IF gun = NoGun \/ ofSaved[gun] = NoGun THEN Defaults ELSE ofSaved[gun]

Click == ofOpen /\ ofClicks < MaxClicks /\ ofClicks' = ofClicks + 1

SelectGun ==
  \E g \in Guns \cup {NoGun} :
    /\ g # ofGun /\ ofGun' = g /\ ofOpen' = FALSE
    /\ UNCHANGED <<ofMemory, ofData, ofCall, ofSaved, ofPresets, ofClicks,
                   ofChosen>>

(* _renderOptimizeTab: other settings only for another gun.                *)
OpenDrawer ==
  /\ ofGun # NoGun /\ ~ofOpen /\ ofOpen' = TRUE /\ ofFor' = ofGun
  /\ IF ofFor = ofGun
     THEN /\ UNCHANGED <<ofInc, ofExceptions, ofWeights>>
          /\ RenderFilters(ofInc, ofExc, ofExceptions)
     ELSE LET s == LoadedFilters(ofGun)
          IN /\ ofInc' = s.inc /\ ofExceptions' = {} /\ ofWeights' = s.weights
             /\ RenderFilters(s.inc, s.exc, {})
  /\ UNCHANGED <<ofGun, ofData, ofSaved, ofPresets, ofClicks, ofChosen>>

CloseDrawer ==
  /\ ofOpen /\ ofOpen' = FALSE
  /\ UNCHANGED <<ofGun, ofMemory, ofData, ofCall, ofSaved, ofPresets, ofClicks,
                 ofChosen>>

(* _setWeights, by a slider, a point of the triangle or a preset.          *)
SetWeights ==
  /\ Click
  /\ \E w \in Weights : ofWeights' = w
  /\ UNCHANGED <<ofInc, ofExc>> /\ SaveSettings
  /\ UNCHANGED <<ofGun, ofOpen, ofFor, ofExceptions, ofData, ofCall, ofPresets,
                 ofChosen>>

-------------------------------------------------------------------------------
(* The lists. *)

(* The end of every click on the lists.                                    *)
SetFilters(inc, exc, ids, chosen) ==
  /\ ofInc' = inc /\ ofExceptions' = Remembered(ids, exc)
  /\ RenderFilters(inc, exc, ofExceptions')
  /\ UNCHANGED <<ofFor, ofWeights>> /\ SaveSettings
  /\ ofChosen' = [ofChosen EXCEPT ![ofGun] =
                    [p \in Parts |-> IF p \in DOMAIN chosen THEN chosen[p] ELSE @[p]]]
  /\ UNCHANGED <<ofGun, ofOpen, ofData>>

Alone(p, what) == [q \in {p} |-> what]

(* Mutant: a part that is locked stays banned.                             *)
ToggleLockOnly ==
  /\ Click /\ DataReady
  /\ \E p \in Fits[ofGun] :
       IF p \in ofInc
       THEN SetFilters(ofInc \ {p}, ofExc, {p}, Alone(p, "free"))
       ELSE SetFilters(ofInc \cup {p}, ofExc, {p}, Alone(p, "lock"))
  /\ UNCHANGED ofPresets

ToggleLock ==
  /\ Click /\ DataReady
  /\ \E p \in Fits[ofGun] :
       IF p \in ofInc
       THEN SetFilters(ofInc \ {p}, ofExc, {p}, Alone(p, "free"))
       ELSE SetFilters(ofInc \cup {p}, ofExc \ {p}, {p}, Alone(p, "lock"))
  /\ UNCHANGED ofPresets

ToggleBan ==
  /\ Click /\ DataReady
  /\ \E p \in Fits[ofGun] :
       IF p \in ofExc
       THEN SetFilters(ofInc, ofExc \ {p}, {p}, Alone(p, "free"))
       ELSE SetFilters(ofInc \ {p}, ofExc \cup {p}, {p}, Alone(p, "ban"))
  /\ UNCHANGED ofPresets

RemoveTag ==
  /\ Click /\ DataReady
  /\ \E p \in ofInc \cup ofExc :
       SetFilters(ofInc \ {p}, ofExc \ {p}, {p}, Alone(p, "free"))
  /\ UNCHANGED ofPresets

(* The button that clears the filters, or that resets their section.       *)
ClearFilters ==
  /\ Click
  /\ SetFilters({}, {}, DefaultBans, [p \in ofInc \cup ofExc |-> "free"])
  /\ UNCHANGED ofPresets

(* A preset replaces what contradicts it, and keeps the rest.              *)
ApplyPreset ==
  /\ Click /\ DataReady
  /\ \E preset \in ofPresets :
       LET locked == preset.locked \cap Available
           banned == preset.banned \cap Available
       IN SetFilters((ofInc \cup locked) \ banned, (ofExc \ locked) \cup banned,
                     DefaultBans,
                     [p \in locked \cup banned |-> IF p \in banned THEN "ban" ELSE "lock"])
  /\ UNCHANGED ofPresets

SavePreset ==
  /\ Click /\ DataReady /\ ofInc \cup ofExc # {}
  /\ Cardinality(ofPresets) < MaxPresets
  /\ ofPresets' = ofPresets \cup {[locked |-> ofInc, banned |-> ofExc]}
  /\ UNCHANGED <<ofInc, ofExc, ofWeights>> /\ SaveSettings
  /\ UNCHANGED <<ofGun, ofOpen, ofFor, ofExceptions, ofData, ofCall, ofChosen>>

DeletePreset ==
  /\ ofOpen
  /\ \E preset \in ofPresets : ofPresets' = ofPresets \ {preset}
  /\ UNCHANGED <<ofGun, ofOpen, ofMemory, ofData, ofCall, ofSaved, ofClicks,
                 ofChosen>>

-------------------------------------------------------------------------------
(* The parts of the gun. *)

(* _solveOptimize: what it sends has the default bans of the gun in it.    *)
SolveWithFilters ==
  /\ ofOpen
  /\ IF DataReady
     THEN ofExc' = WithDefaultBans(ofInc, ofExc, ofExceptions) /\ UNCHANGED ofCall
     ELSE ofCall' = Asked("solve") /\ UNCHANGED ofExc
  /\ UNCHANGED <<ofGun, ofOpen, ofFor, ofInc, ofExceptions, ofWeights, ofData,
                 ofSaved, ofPresets, ofClicks, ofChosen>>

(* Whoever waited for the parts of another gun asks for them now, and the  *)
(* filters are drawn again, which asks once more if the gun has changed.   *)
PartsArrive ==
  LET gun == ofCall.gun
      served == {w \in ofCall.by : w.for = gun}
      again == {w \in Waiters : /\ w.for = ofGun /\ ofGun # gun /\ w.then = "widget"
                                /\ [for |-> gun, then |-> "widget"] \in served}
      left == (ofCall.by \ served) \cup again
  IN /\ ofCall # NoCall /\ ofData' = gun
     /\ IF left = {} THEN ofCall' = NoCall
        ELSE \E w \in left : ofCall' = [gun |-> w.for, by |-> left]
     /\ ofExc' = IF ofGun # gun THEN ofExc
                 ELSE ofExc \cup ((DefaultBans \cap Fits[gun]) \ (ofExceptions \cup ofInc))
  /\ UNCHANGED <<ofGun, ofOpen, ofFor, ofInc, ofExceptions, ofWeights, ofSaved,
                 ofPresets, ofClicks, ofChosen>>

PartsFail ==
  /\ ofCall # NoCall /\ ofCall' = NoCall
  /\ UNCHANGED <<ofGun, ofOpen, ofMemory, ofData, ofSaved, ofPresets, ofClicks,
                 ofChosen>>

ReloadPage ==
  /\ ofGun' = NoGun /\ ofOpen' = FALSE /\ ofFor' = NoGun /\ ofInc' = {} /\ ofExc' = {}
  /\ ofExceptions' = {} /\ ofWeights' = "balanced" /\ ofData' = NoGun
  /\ ofCall' = NoCall
  /\ UNCHANGED <<ofSaved, ofPresets, ofClicks, ofChosen>>

OptimizerFiltersNext ==
  \/ SelectGun \/ OpenDrawer \/ CloseDrawer \/ SetWeights
  \/ ToggleLock \/ ToggleBan \/ RemoveTag \/ ClearFilters
  \/ ApplyPreset \/ SavePreset \/ DeletePreset
  \/ SolveWithFilters \/ PartsArrive \/ PartsFail \/ ReloadPage

-------------------------------------------------------------------------------
(* The parts the user locked, banned or freed on a gun are found so when   *)
(* its drawer is open again, whatever was asked for, answered, saved or    *)
(* reloaded in between, and no part is both required and banned.  A freed  *)
(* part that is banned by default is left out: see UnbanIsRemembered.      *)
FiltersAreTheUsers ==
  ofOpen =>
    /\ ofInc \cap ofExc = {}
    /\ \A p \in Fits[ofGun] :
         /\ ofChosen[ofGun][p] = "lock" => p \in ofInc
         /\ ofChosen[ofGun][p] = "ban" => p \in ofExc
         /\ ofChosen[ofGun][p] = "free" /\ p \notin DefaultBans => p \notin ofInc \cup ofExc

(* A default ban that the user lifted stays lifted, "the next time we pick *)
(* this gun" (optimizer.js:1338-1344).                                     *)
UnbanIsRemembered ==
  ofOpen => \A p \in Fits[ofGun] : ofChosen[ofGun][p] = "free" => p \notin ofExc
===============================================================================
