------------------------------- MODULE Tracker -------------------------------
(* The stat tracker (src/frontend/modules/tracker.js): the changes of the   *)
(* last week, or of a day picked from the list of days with changes, after  *)
(* a search and a filter.  A load remembers the period it is for; what it   *)
(* brings is kept, and drawn only if that period is still the picked one.   *)
EXTENDS Naturals, FiniteSets

CONSTANTS
  Days,             \* days that may have changes
  Recent,           \* the period of the last week
  Queries, Types,   \* what is typed, which kind of items: "" and "all" first
  MaxTrackerLoads,  \* bound: loads of one period under way
  MaxTrackerActs    \* bound: what the user does

ASSUME TrackerConstants ==
  Recent \notin Days /\ "" \in Queries /\ "all" \in Types /\ MaxTrackerActs \in Nat

VARIABLES
  tkOpen, tkPeriod, tkQuery, tkType,
  tkTimer,          \* the search waits before it draws again
  tkKept,           \* periods whose rows are kept: _cache and _dayCache
  tkDates,          \* _dates: the days of the picker, or NoDates
  tkLoads,          \* loads under way, by their period
  tkQuiet,          \* loads of the last week for the badge only
  tkDateLoads,      \* loads of the days
  tkBody,           \* the columns: what they were drawn from
  tkPicked,         \* the option the picker shows
  tkActs

tkVars == <<tkOpen, tkPeriod, tkQuery, tkType, tkTimer, tkKept, tkDates, tkLoads, tkQuiet,
            tkDateLoads, tkBody, tkPicked, tkActs>>
tkFilters == <<tkQuery, tkType, tkTimer>>

Periods == Days \union {Recent}
NoDates == [known |-> FALSE, days |-> {}]
Body(kind, period) == [kind |-> kind, period |-> period, query |-> tkQuery', type |-> tkType']

TrackerInit ==
  /\ tkOpen = FALSE /\ tkPeriod = Recent /\ tkQuery = "" /\ tkType = "all" /\ tkTimer = FALSE
  /\ tkKept = {} /\ tkDates = NoDates
  /\ tkLoads = [p \in Periods |-> 0] /\ tkQuiet = 1 /\ tkDateLoads = 0
  /\ tkBody = [kind |-> "nothing", period |-> Recent, query |-> "", type |-> "all"]
  /\ tkPicked = Recent /\ tkActs = 0

TrackerAct == tkActs < MaxTrackerActs /\ tkActs' = tkActs + 1

--------------------------------------------------------------------------------
(* _loadData for the period p, of the rows kept at the time.                *)
LoadData(p) ==
  IF p \in tkKept' THEN tkBody' = Body("rows", p) /\ UNCHANGED tkLoads
  ELSE /\ tkLoads[p] < MaxTrackerLoads
       /\ tkBody' = Body("loading", p)
       /\ tkLoads' = [tkLoads EXCEPT ![p] = @ + 1]

LoadDates ==
  IF tkDates'.known THEN UNCHANGED tkDateLoads
  ELSE tkDateLoads < MaxTrackerLoads /\ tkDateLoads' = tkDateLoads + 1

Rerender == tkBody' = IF tkPeriod' \in tkKept' THEN Body("rows", tkPeriod') ELSE tkBody

(* _refreshPeriodSelect: a day that is not listed is given up.              *)
ListedPeriods == {Recent} \union tkDates'.days
RefreshPeriodSelect ==
  /\ tkPeriod' = IF tkPeriod \in ListedPeriods THEN tkPeriod ELSE Recent
  /\ tkPicked' = tkPeriod'

--------------------------------------------------------------------------------
ShowTracker ==
  /\ TrackerAct /\ ~tkOpen /\ tkOpen' = TRUE
  /\ UNCHANGED <<tkFilters, tkKept, tkDates, tkQuiet>>
  /\ RefreshPeriodSelect /\ LoadDates /\ LoadData(tkPeriod')

HideTracker ==
  /\ TrackerAct /\ tkOpen /\ tkOpen' = FALSE
  /\ UNCHANGED <<tkPeriod, tkFilters, tkKept, tkDates, tkLoads, tkQuiet, tkDateLoads, tkBody,
                 tkPicked>>

TrackerLanguage ==
  /\ TrackerAct /\ tkOpen
  /\ UNCHANGED <<tkOpen, tkFilters, tkKept, tkDates, tkQuiet, tkDateLoads>>
  /\ RefreshPeriodSelect
  /\ IF tkPeriod' = tkPeriod THEN Rerender /\ UNCHANGED tkLoads ELSE LoadData(tkPeriod')

SetPeriod ==
  /\ TrackerAct /\ tkOpen
  /\ UNCHANGED <<tkOpen, tkFilters, tkKept, tkDates, tkQuiet, tkDateLoads>>
  /\ \E p \in ListedPeriods \ {tkPeriod} : tkPeriod' = p /\ tkPicked' = p /\ LoadData(p)

TypeQuery ==
  /\ TrackerAct /\ tkOpen
  /\ tkQuery' \in Queries \ {tkQuery} /\ tkTimer' = TRUE
  /\ UNCHANGED <<tkOpen, tkPeriod, tkType, tkKept, tkDates, tkLoads, tkQuiet, tkDateLoads,
                 tkBody, tkPicked>>

QueryApplies ==
  /\ tkTimer /\ tkTimer' = FALSE
  /\ UNCHANGED <<tkOpen, tkPeriod, tkQuery, tkType, tkKept, tkDates, tkLoads, tkQuiet,
                 tkDateLoads, tkPicked, tkActs>>
  /\ Rerender

FilterType ==
  /\ TrackerAct /\ tkOpen
  /\ tkType' \in Types \ {tkType}
  /\ UNCHANGED <<tkOpen, tkPeriod, tkQuery, tkTimer, tkKept, tkDates, tkLoads, tkQuiet,
                 tkDateLoads, tkPicked>>
  /\ Rerender

(* The data changed (the development tool): everything kept is dropped.     *)
ReloadTracker ==
  /\ TrackerAct
  /\ tkKept' = {} /\ tkDates' = NoDates
  /\ UNCHANGED <<tkOpen, tkPeriod, tkFilters, tkPicked>>
  /\ IF tkOpen THEN LoadDates /\ LoadData(tkPeriod) /\ UNCHANGED tkQuiet
     ELSE /\ tkQuiet < MaxTrackerLoads /\ tkQuiet' = tkQuiet + 1
          /\ UNCHANGED <<tkLoads, tkDateLoads, tkBody>>

--------------------------------------------------------------------------------
RowsArrive ==
  \E p \in Periods :
    /\ tkLoads[p] > 0 /\ tkLoads' = [tkLoads EXCEPT ![p] = @ - 1]
    /\ tkKept' = tkKept \union {p}
    /\ UNCHANGED <<tkOpen, tkPeriod, tkFilters, tkDates, tkQuiet, tkDateLoads,
                   tkPicked, tkActs>>
    /\ IF p = tkPeriod THEN Rerender ELSE UNCHANGED tkBody

RowsFail ==
  \E p \in Periods :
    /\ tkLoads[p] > 0 /\ tkLoads' = [tkLoads EXCEPT ![p] = @ - 1]
    /\ UNCHANGED <<tkOpen, tkPeriod, tkFilters, tkKept, tkDates, tkQuiet, tkDateLoads, tkPicked,
                   tkActs>>
    /\ tkBody' = IF p = tkPeriod THEN Body("error", p) ELSE tkBody

PrefetchEnds ==
  /\ tkQuiet > 0 /\ tkQuiet' = tkQuiet - 1
  /\ tkKept' \in {tkKept, tkKept \union {Recent}}
  /\ UNCHANGED <<tkOpen, tkPeriod, tkFilters, tkDates, tkLoads, tkDateLoads, tkBody, tkPicked,
                 tkActs>>

DatesArrive ==
  /\ tkDateLoads > 0 /\ tkDateLoads' = tkDateLoads - 1
  /\ \E days \in SUBSET Days : tkDates' = [known |-> TRUE, days |-> days]
  /\ UNCHANGED <<tkOpen, tkFilters, tkKept, tkQuiet, tkActs>>
  /\ RefreshPeriodSelect
  /\ IF tkPeriod' = tkPeriod THEN UNCHANGED <<tkLoads, tkBody>> ELSE LoadData(tkPeriod')

DatesFail ==
  /\ tkDateLoads > 0 /\ tkDateLoads' = tkDateLoads - 1
  /\ UNCHANGED <<tkOpen, tkPeriod, tkFilters, tkKept, tkDates, tkLoads, tkQuiet, tkBody,
                 tkPicked, tkActs>>

TrackerNext ==
  \/ ShowTracker \/ HideTracker \/ TrackerLanguage \/ SetPeriod \/ TypeQuery \/ QueryApplies
  \/ FilterType \/ ReloadTracker
  \/ RowsArrive \/ RowsFail \/ PrefetchEnds \/ DatesArrive \/ DatesFail

--------------------------------------------------------------------------------
(* The columns are of the period the picker shows: its rows, and where they *)
(* are seen after the search and the filter that are set; an error of its   *)
(* own; or a note that it is loading, while a load of it is.                *)
TrackerShowsItsPeriod ==
  /\ tkPicked = tkPeriod
  /\ tkBody.kind # "nothing" => tkBody.period = tkPeriod
  /\ (tkOpen /\ tkBody.kind = "rows") =>
       tkBody.type = tkType /\ (tkBody.query = tkQuery \/ tkTimer)
  /\ tkBody.kind = "loading" => tkLoads[tkPeriod] > 0

(* Not kept: the second of two loads of one period may fail over the rows   *)
(* of the first.                                                            *)
ErrorsAreOfMissingRows == tkBody.kind = "error" => tkPeriod \notin tkKept
================================================================================
