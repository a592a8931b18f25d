-------------------------------- MODULE ArmorRun --------------------------------
(* When the armor simulator runs and which result it shows                  *)
(* (modules/armor-sim.js: show, _load, _scheduleRun, _run, _compare, and    *)
(* setState when another workbench tab is chosen).  A setup is all that a   *)
(* run's request is made of: the round, and the rest of the settings and    *)
(* the loadout.  The engine answers on a worker of the page                 *)
(* (modules/ballistics-engine.js), once its constants have been fetched.    *)
EXTENDS Integers, Subsequences

CONSTANTS
  Rounds, Rests,            \* the rounds that can be picked, the rest of a setup
  ArmorTabs,                \* workbench tabs
  NoRound, Idle,
  ResultCap,                \* RESULT_CACHE_MAX
  MaxSetupChanges, MaxLangChanges       \* bounds

Setups == [round : Rounds \cup {NoRound}, rest : Rests]
ArmorResults == [setup : Setups, data : Nat, error : BOOLEAN]
ArmorRuns == [setup : Setups, data : Nat, stage : {"constants", "worker"}, aborted : BOOLEAN]

ASSUME ArmorRunConstants ==
  /\ ResultCap \in Nat \ {0} /\ {MaxSetupChanges, MaxLangChanges} \subseteq Nat
  /\ Rests # {} /\ ArmorTabs # {} /\ NoRound \notin Rounds
  /\ Idle \notin Setups \cup ArmorResults \cup ArmorRuns

VARIABLES
  arSetup,          \* _settings and _loadout
  arTab, arTabs,    \* the tab on show, and what the tabs have saved
  arShown,          \* the workbench is on this tool
  arLang, arData, arDataLang,   \* the language, the loads so far, the language of the last
  arLoading,        \* _loading: the language that is being loaded, 0 for none
  arOpening,        \* show() waits for the load
  arRun,            \* the run: timer, out, again, last result, progress, cache
  arCompare, arCompared,        \* the comparison that is out, _lastCompare
  arChanges         \* bound

arVars == <<arSetup, arTab, arTabs, arShown, arLang, arData, arDataLang, arLoading, arOpening,
            arRun, arCompare, arCompared, arChanges>>
arPlace == <<arTab, arTabs, arShown>>
arLoad == <<arLang, arData, arDataLang, arLoading, arOpening>>

ArmorRunInit ==
  /\ arSetup = [round |-> NoRound, rest |-> CHOOSE r \in Rests : TRUE]
  /\ arTab = CHOOSE t \in ArmorTabs : TRUE
  /\ arTabs = [t \in ArmorTabs |-> arSetup] /\ arShown = FALSE
  /\ arLang = 1 /\ arData = 0 /\ arDataLang = 0 /\ arLoading = 0 /\ arOpening = FALSE
  /\ arRun = [timer |-> FALSE, out |-> Idle, again |-> FALSE, last |-> Idle,
              progress |-> Idle, cache |-> <<>>]
  /\ arCompare = Idle /\ arCompared = Idle /\ arChanges = 0

-------------------------------------------------------------------------------
(* The cache of finished runs: one entry for a setup, the oldest first.     *)
CachedFor(cache, setup) == {i \in DOMAIN cache : cache[i].setup = setup}
Uncached(cache, setup) == ElementsAt(cache, DOMAIN cache \ CachedFor(cache, setup))
CacheResult(cache, result) ==
  LET all == Append(Uncached(cache, result.setup), result)
  IN IF Len(all) > ResultCap THEN Tail(all) ELSE all

(* A run for a setup the player has left is stopped: at once when the       *)
(* worker has it, which then plans the next run; before that it is only     *)
(* marked.                                                                  *)
Leaves(run, setup) == run.out # Idle /\ run.out.setup # setup
Stopped(run, setup) ==
  IF ~Leaves(run, setup) THEN run
  ELSE IF run.out.stage = "worker" THEN [run EXCEPT !.out = Idle, !.again = TRUE]
  ELSE [run EXCEPT !.out.aborted = TRUE]

(* _scheduleRun: a setup that was worked out shows at once, unless its      *)
(* entry is too old (old); another one waits for the player to pause.       *)
Schedule(run0, setup, old) ==
  LET run == [Stopped(run0, setup) EXCEPT !.progress = Idle]
      found == IF run.out = Idle /\ setup.round # NoRound THEN CachedFor(run.cache, setup) ELSE {}
      entry == run.cache[CHOOSE i \in found : TRUE]
  IN IF found = {} THEN [run EXCEPT !.timer = TRUE]
     ELSE IF old THEN [run EXCEPT !.timer = TRUE, !.cache = Uncached(@, setup)]
     ELSE [run EXCEPT !.timer = FALSE, !.last = entry,
                      !.cache = Append(Uncached(@, setup), entry)]

(* The comparison of a setup that differs in more than the round stops too. *)
CompareAfter(setup) ==
  IF arCompare # Idle /\ arCompare.setup.rest # setup.rest THEN Idle ELSE arCompare

Saved(setup) == IF arShown THEN [arTabs EXCEPT ![arTab] = setup] ELSE arTabs

-------------------------------------------------------------------------------
(* show: loads what is missing, then draws, and runs when a round has no    *)
(* result.                                                                  *)
DataLoaded == arData > 0 /\ arDataLang = arLang

ShowWith(run, setup, old) ==
  arRun' = IF setup.round # NoRound /\ run.last = Idle THEN Schedule(run, setup, old) ELSE run

OpenTool ==
  /\ ~arShown /\ arShown' = TRUE
  /\ IF DataLoaded
     THEN /\ \E old \in BOOLEAN : ShowWith(arRun, arSetup, old)
          /\ UNCHANGED <<arLoading, arOpening>>
     ELSE /\ arOpening' = TRUE /\ arLoading' = (IF arLoading = 0 THEN arLang ELSE arLoading)
          /\ UNCHANGED arRun
  /\ UNCHANGED <<arSetup, arTab, arTabs, arLang, arData, arDataLang, arCompare,
                 arCompared, arChanges>>

LeaveTool == /\ arShown /\ arShown' = FALSE /\ arTabs' = Saved(arSetup)
             /\ UNCHANGED <<arSetup, arTab, arRun, arCompare, arCompared, arChanges>>
             /\ UNCHANGED arLoad

(* ensureData: a tab's preview loads without showing anything.              *)
EnsureData == /\ ~DataLoaded /\ arLoading = 0 /\ arLoading' = arLang
              /\ UNCHANGED <<arSetup, arLang, arData, arDataLang, arOpening, arRun, arCompare,
                             arCompared, arChanges>> /\ UNCHANGED arPlace

(* The data of one language is in: results worked out before it are dropped.*)
(* A language that changed meanwhile is loaded next.                        *)
DataArrives ==
  /\ arLoading # 0 /\ arData' = arData + 1 /\ arDataLang' = arLoading
  /\ LET run == [arRun EXCEPT !.cache = <<>>]
         shows == arOpening /\ arLoading = arLang
     IN IF shows
        THEN (\E old \in BOOLEAN : ShowWith(run, arSetup, old)) ELSE arRun' = run
  /\ arCompared' = Idle
  /\ arOpening' = (arOpening /\ arLoading # arLang)
  /\ arLoading' = IF arOpening /\ arLoading # arLang THEN arLang ELSE 0
  /\ UNCHANGED <<arSetup, arLang, arCompare, arChanges>> /\ UNCHANGED arPlace

DataFails == /\ arLoading # 0 /\ arLoading' = 0 /\ arOpening' = FALSE
             /\ arShown' = FALSE            \* the panel shows the error
             /\ UNCHANGED <<arSetup, arTab, arTabs, arLang, arData, arDataLang, arRun, arCompare,
                            arCompared, arChanges>>

(* onLangChange *)
ChangeLang ==
  /\ arLang <= MaxLangChanges /\ arLang' = arLang + 1 /\ arDataLang' = 0
  /\ arRun' = [arRun EXCEPT !.last = Idle]
  /\ arOpening' = (arOpening \/ arShown)
  /\ arLoading' = IF arShown /\ arLoading = 0 THEN arLang + 1 ELSE arLoading
  /\ UNCHANGED <<arSetup, arData, arCompare, arCompared, arChanges>> /\ UNCHANGED arPlace

(* A change of the round, of a setting or of the loadout; reset also drops  *)
(* the result.                                                              *)
ChangeSetup ==
  /\ arShown /\ DataLoaded /\ ~arOpening
  /\ arChanges < MaxSetupChanges /\ arChanges' = arChanges + 1
  /\ \E setup \in Setups \ {arSetup}, old \in BOOLEAN, resets \in BOOLEAN :
       /\ setup.round = NoRound => arSetup.round = NoRound
       /\ resets => setup.round = arSetup.round
       /\ arSetup' = setup /\ arTabs' = Saved(setup) /\ arCompare' = CompareAfter(setup)
       /\ arRun' = Schedule(IF resets THEN [arRun EXCEPT !.last = Idle] ELSE arRun, setup, old)
  /\ UNCHANGED <<arTab, arShown, arCompared>> /\ UNCHANGED arLoad

(* loadState and enter: the tab's own setup, with no result until it has    *)
(* been worked out.  The run and the timer of the last tab go on.           *)
SwitchArmorTab(t) ==
  /\ t # arTab /\ arTab' = t /\ arTabs' = Saved(arSetup) /\ arShown' = TRUE
  /\ arSetup' = arTabs[t] /\ arCompared' = Idle
  /\ LET run == [arRun EXCEPT !.last = Idle]
     IN IF DataLoaded
        THEN /\ \E old \in BOOLEAN : ShowWith(run, arTabs[t], old)
             /\ UNCHANGED <<arLoading, arOpening>>
        ELSE /\ arRun' = run /\ arOpening' = TRUE
             /\ arLoading' = (IF arLoading = 0 THEN arLang ELSE arLoading)
  /\ arCompare' = IF DataLoaded /\ arTabs[t].round # NoRound THEN CompareAfter(arTabs[t])
                  ELSE arCompare
  /\ UNCHANGED <<arLang, arData, arDataLang, arChanges>>

-------------------------------------------------------------------------------
(* _run *)
RunTimer ==
  /\ arRun.timer
  /\ arRun' = IF arSetup.round = NoRound
              THEN [arRun EXCEPT !.timer = FALSE, !.last = Idle]
              ELSE IF arRun.out # Idle THEN [arRun EXCEPT !.timer = FALSE, !.again = TRUE]
              ELSE [arRun EXCEPT !.timer = FALSE, !.again = FALSE,
                      !.out = [setup |-> arSetup, data |-> arData, stage |-> "constants",
                               aborted |-> FALSE]]
  /\ UNCHANGED <<arSetup, arCompare, arCompared, arChanges>>
  /\ UNCHANGED arPlace /\ UNCHANGED arLoad

(* The run is over, with a result, an error, or nothing the setup wants.    *)
EndRun(outcome, truncated, old) ==
  LET out == arRun.out
      result == [setup |-> out.setup, data |-> out.data, error |-> outcome # "result"]
      run == [arRun EXCEPT !.out = Idle, !.progress = Idle]
      ended == IF out.setup # arSetup THEN [run EXCEPT !.again = TRUE]
               ELSE [run EXCEPT !.last = result,
                       !.cache = IF outcome = "result" /\ ~truncated
                                    THEN CacheResult(@, result) ELSE @]
  IN /\ arRun' = IF ended.again THEN Schedule(ended, arSetup, old) ELSE ended
     /\ arTabs' = IF ended.again THEN Saved(arSetup) ELSE arTabs
     /\ arCompare' = IF ended.again THEN CompareAfter(arSetup) ELSE arCompare
     /\ UNCHANGED <<arSetup, arTab, arShown, arCompared, arChanges>> /\ UNCHANGED arLoad

ConstantsArrive(ok, old) ==
  /\ arRun.out # Idle /\ arRun.out.stage = "constants"
  /\ IF ok /\ ~arRun.out.aborted
     THEN /\ arRun' = [arRun EXCEPT !.out.stage = "worker"]
          /\ UNCHANGED <<arSetup, arCompare, arCompared, arChanges>>
          /\ UNCHANGED arPlace /\ UNCHANGED arLoad
     ELSE EndRun("error", FALSE, old)

RunAnswers(outcome, truncated, old) ==
  arRun.out # Idle /\ arRun.out.stage = "worker" /\ EndRun(outcome, truncated, old)

RunProgress ==
  /\ arRun.out # Idle /\ arRun.out.stage = "worker" /\ arRun.out.setup = arSetup
  /\ arRun' = [arRun EXCEPT !.progress = arSetup]
  /\ UNCHANGED <<arSetup, arCompare, arCompared, arChanges>>
  /\ UNCHANGED arPlace /\ UNCHANGED arLoad

(* The compare button of a result, and its answer.                          *)
StartCompare ==
  /\ arShown /\ arCompare = Idle /\ arRun.last # Idle /\ arRun.progress = Idle
  /\ ~arRun.last.error
  /\ arCompare' = [setup |-> arRun.last.setup, data |-> arData]
  /\ UNCHANGED <<arSetup, arRun, arCompared, arChanges>>
  /\ UNCHANGED arPlace /\ UNCHANGED arLoad

CompareAnswers(ok) ==
  /\ arCompare # Idle /\ arCompare' = Idle
  /\ arCompared' = IF ok /\ arShown /\ arRun.last # Idle /\ arCompare.setup.rest = arSetup.rest
                   THEN arCompare ELSE arCompared
  /\ UNCHANGED <<arSetup, arRun, arChanges>> /\ UNCHANGED arPlace /\ UNCHANGED arLoad

ArmorRunNext ==
  \/ OpenTool \/ LeaveTool \/ EnsureData \/ DataArrives \/ DataFails \/ ChangeLang \/ ChangeSetup
  \/ RunTimer \/ RunProgress \/ StartCompare
  \/ \E t \in ArmorTabs : SwitchArmorTab(t)
  \/ \E ok, old \in BOOLEAN : ConstantsArrive(ok, old)
  \/ \E outcome \in {"result", "error"}, truncated, old \in BOOLEAN :
       RunAnswers(outcome, truncated, old)
  \/ \E ok \in BOOLEAN : CompareAnswers(ok)

-------------------------------------------------------------------------------
Quiet == arShown /\ ~arRun.timer /\ arRun.out = Idle /\ ~arOpening

(* The results panel shows the setup on the left: progress is never that of *)
(* a setup the player has left, and once no run is planned or out, a round  *)
(* has its own result (or error) and no round has none, over changes, stops,*)
(* cached results, tab switches and reloads in any order.                   *)
ResultsAreOfTheSetup ==
  /\ arShown /\ ~arOpening /\ arSetup.round # NoRound /\ arRun.progress # Idle
       => arRun.progress = arSetup
  /\ Quiet => IF arSetup.round = NoRound THEN arRun.last = Idle
              ELSE arRun.last # Idle /\ arRun.last.setup = arSetup

(* armor-sim.js:244-245: "Fresh item data may come with new stats, so       *)
(* nothing worked out before it stays".  A run that was out over the load   *)
(* is kept all the same.                                                    *)
CacheIsOfThisData == \A i \in DOMAIN arRun.cache : arRun.cache[i].data = arData
===============================================================================
