# EFTForge: verification project

TLA+ models, TLC checks and TLAPS proofs for EFTForge, a weapon-build planner: a
FastAPI backend served by several gunicorn workers (one process per core, each
with a pool of request threads), a page of plain JavaScript modules, and a Tauri
desktop launcher that runs the same backend as a sidecar.

The difficulty of this program has two places. On the server the workers share no
memory; what they share are files: the SQLite databases, lock files, `flock`ed slot
files and the generation file `solver_cache_epoch`. On the page there is one thread,
but every handler may wait for the server, and while it waits the user edits the
build, opens something else or leaves; there is no framework that would drop late
answers, so every module has its own tokens, aborts, stamps, or none. The models are
about these two places: who may act on shared files in which order, and what is on the
page when answers come late, crossed, twice or never.

## Inventory

Server:

| Component | State | Operations | Correct when |
|---|---|---|---|
| Solver admission (`services/solve_limits.py`, `server_semaphore.py`) | one lock file per address, one `flock`ed slot file per permit, descriptors per process | enter and leave `solve_slot`, recover stale locks | at most `OPTIMIZER_MAX_SOLVES` solves on the server, one per address, nothing leaks |
| Solver job (`optimizer/process_runner.py`, `optimizer/cancellation.py`) | child process, pipe, deadline, cancel event, slot | run a job, stream an explore, stop the child | child gone before its slot is free; slot freed once; one answer |
| Hyperactive sync (`services/sync.py`, `routers/system.py`) | mode, trigger, loop per worker; two flag files | switch, start, end, restart | a switch is noticed; every worker knows of a running sync |
| Import (`sync_tarkov_dev.py`) | tarkov.db, change log, epoch | clear, fill, price, publish | readers can tell old data from new |
| Catalog cache (`catalog_cache.py`) | none of its own: epoch, mtime, flag | answer a catalog GET | a cached answer is the data of its version |
| Result caches (`services/solver_cache.py`, `routers/optimizer.py`, `routers/combo.py`) | dict and tracker per worker | key, look up, insert, clear | no answer older than the last publication |
| Votes (`routers/ratings.py`) | votes and counters in ratings.db | vote, withdraw, clear | counters equal the votes |
| Rate limits, build cards, images, migrations, desktop | see "Not modelled" | | |

Page (`src/frontend/modules`; all of it is one JavaScript thread):

| Component | State | Operations | Correct when |
|---|---|---|---|
| Event streams (`api.js`) | unfinished line and event | read a chunk | the events handed over are those sent |
| Tabs, previews (`tab-manager.js`) | tabs, histories, the live build, storage | open, switch, close, pin, drag, undo, reload, hover | each tab keeps its build |
| Flea prices, cost, stats (`stats-panel.js`, `gun-list.js`) | memoized downloads, caches, panels, popover, grenade | refetch, change mode or level, refresh, adjust | what is shown is of the prices, modes and totals in force |
| Slot table (`slot-selector.js`) | open slot, its rows, combinations, comparison | open, install, remove, undo, combine, compare | listed stats are those of the build |
| Saved builds (`build-manager.js`, `build-publish.js`) | list in storage, server copies | save, overwrite, import, merge, publish | ids stay distinct, nothing is lost |
| Build codes (`build-codes.js`) | none | encode, decode, rebuild | every part is kept |
| 3D view (`builder-3d.js`) | viewer, build sent and drawn, covers | send, pick, hold, fail | the viewer catches up |
| Grid and tree (`attachment-grid.js`, `tree.js`) | cells; renders under way | place, render, fetch | no two slots in a cell; the page shows the build |
| Optimizer drawer (`optimizer.js`) | solve, points, pane; filters, presets; ranges | solve, cancel, lock, ban, change gun | results, filters and bounds are those of the gun |
| Charts (`graph.js`, `optimizer.js`) | view, target, selection | wheel, drag, box, frame, redraw | the animation ends where it was sent |
| Atlas, list, lookup (`atlas.js`, `atlas-lookup.js`) | keys, index, sets, list, board, popover | select, reload, filter, look up | what is open is what was selected |
| Armor simulator (`armor-sim.js`, `ballistics-engine.js`) | setup, loadout, result cache, worker queue | change, run, cancel, compare, wear | results are of the setup; the loadout can be worn |
| Build picture (`build-preview.js`) | drawings under way, last picture, switches | draw, stamp, refuse, switch off | the picture is of the build or says it is not |
| Tracker, leaderboard, news, community builds | loads, caches, filters, likes, comments | open, load, filter, click, like, comment | what is seen is what was asked for and what a click acts on |

Interactions. A solve endpoint passes the rate limit, asks the result cache, enters
`solve_slot` and runs a solver job; a sync subprocess commits to tarkov.db and
publishes a generation, which the result caches and the data version read; the
page carries the data version back with every catalog request. On the page, a tab switch
loads a build (`loadBuildFromPayload`), which runs through gun list, tree, slot table and stats; all of
them read `EFTForge.state.currentBuild`; the optimizer and the community list end in the same
load. Drawings, prices and statistics of a build are asked for whenever it is rendered.

## Modules

Server:

- `Admission` <- `SolveAdmission` (implements it) <- `MCSolveAdmission`, `SolveAdmissionProofs`
- `SolverJob` <- `SolverProofs`
- `CatalogData` <- `TarkovSync` (implements it) <- `CatalogCache` <- `ServerDataProofs`
- `CatalogData` <- `SolverCache` (builds on it) <- `SolverProofs`, `MCServerData`
- `Votes` <- `ServerDataProofs`, `MCServerData`

Page: one module per component, all instantiated by `MCClient`:
`EventStream`; `Tabs`, `TabPreview`; `FleaPrices`, `BuildCost`, `StatsPanel`; `SlotTable`;
`SavedBuilds`, `BuildCode`; `Builder3D`; `GridLayout`, `TreeRender`; `OptimizerFilters` (which
declares the guns) <- `OptimizerSolve`, `OptimizerRanges`; `Graph`; `Atlas`, `AtlasLookup`; `ArmorRun`,
`ArmorLoadout`, `EngineQueue`; `BuildPreview`; `Tracker`, `Leaderboard`, `News`,
`CommunityBuilds`. `Atlas` holds the selection and the list of a set: each half has its own
variables, and `MCClient` moves the two halves separately.

Their proofs: `BuildProofs` (`FleaPrices`, `BuildCost`, `StatsPanel`, `Builder3D`, `SlotTable`, `SavedBuilds`, `TabPreview`, `BuildPreview`,
`GridLayout`, `TreeRender`), `ToolsProofs` (`OptimizerSolve`, `OptimizerFilters`, `OptimizerRanges`, `Graph`, `ArmorRun`, `EngineQueue`, `ArmorLoadout`)
and `PagesProofs` (`Tracker`, `Leaderboard`, `News`, `CommunityBuilds`, `AtlasLookup`, `Tabs`), which extends `BuildProofs` and `TabsProofs` (`Tabs`). `Subsequences` is
the one operator that several models share: the elements of a sequence at chosen places, the form of
a filter that the provers can reason about. `DataLemmas` holds what the proofs need of sequences, numbers and finite sets.

`MCServerData` and `MCClient` put components side by side that share no state: a behaviour
of either moves one component (the one in `focus`), and the others rest in their first
state. This is not an interleaving of them, and need not be one, since no action of one reads a
variable of another; where components do interact (caches over syncs, the worker
under its requests, the server's likes under the list) they are in one
module, or one extends the other.

A definition whose comment begins with "Mutant" is a plausible mistake in the operator after it;
no specification uses it.

### SolveAdmission: who may solve

`pc[t]` follows thread `t` through `solve_slot`: `create`, `stat` and `unlink` are the
three system calls of `_acquire_ip_solve_lock` (each is a step of its own, since other
processes act in between), `permit` is the scan of `ServerSemaphore.acquire`, slot
file by slot file, `release` and `unlock` are the two `finally` blocks. A lock file
has an age; it carries its creator as a ghost, because the code removes files by
path and that is what can go wrong. `Crash(w)` ends all requests of a worker, drops
its flocks and leaves its lock files. `doubted` is a ghost: the addresses one of
whose locks was ever judged stale.

`HoldLimit` stands for the hard deadline of `run_job` plus clean-up, at most about 40 s,
`StaleAfter` for the 60 s of `_SOLVE_LOCK_STALE_SECONDS`; the assumption `HoldBelowStale` is
that relation. A request of kind `stream` has no such limit: its generator may be
suspended by a client that does not read (see SolverJob). The clock is one clock:
jumps of the wall clock are not modelled.

`Admission` is the promise: at most `MaxSolves` solving, and one per address unless
that address is in doubt. `RefinesAdmission` shows that SolveAdmission keeps it.

### SolverJob: one solve

The request thread's `pc` follows `run_job` and `stream_explore` (`spawn`, `poll`, `recv`, the
liveness `check`, `send` for the suspended generator, `stop`/`term`/`kill` for `_stop_process`),
then the `finally` block of `_stream` or of `solve_slot` and the cleanup of
`SolveStreamingResponse`. The child computes, sends into a bounded pipe, closes it and
exits, or dies at any point, even in the middle of a message. The event
stream is a sequence of kinds; numbers and messages are left out. `run_gunsmith` is the
same loop as `run_job` and is covered by kind `job`. A SIGKILL is assumed to take
effect within the two seconds of the last join.

### TarkovSync, CatalogData: how data changes

Each worker has the mode, the trigger and the place of its loop; `runs[w]` is the sync
its `_run_sync_once` waits for (so `sync_running` is `runs[w] # 0`). The subprocess is a
sequence of commits; `items` and `links` name the sync whose rows the tables hold, and
rows inserted into a table that is not empty are duplicate keys, so the sync fails.
`writes` counts commits: it is the file's mtime, assumed to differ between any two
commits (nanoseconds on the production file system; SQLite's rollback journal keeps
readers out while pages are written). After a worker's death its subprocess goes on.

`CatalogData` says what the caches rely on: a commit moves the mtime and a generation
is published once. `RefinesCatalogData` shows TarkovSync does that.

### CatalogCache, SolverCache: what is kept

CatalogCache runs one request at a time over the whole of TarkovSync: version before,
two reads at different moments (each SQL statement sees its own state: SQLAlchemy over
sqlite3 opens no read transaction), version after. Answers under other URLs do not
interact, so one request in flight loses nothing.

SolverCache has two requests in flight over the abstract CatalogData, which allows more
than any sync does: any commit, any publication, a clear at any time. `since` is a ghost,
the generation when the request came in, and `published` another, the commits done when a
generation was published.

### Votes: counters kept beside the rows they count

One action per database access of a voting request: `ReadVote`, `ReadRating`, then `Commit`, which is the flush and
commit of the session. The sessions have `autoflush=False` and sqlite3 begins a transaction
at the first change, so both reads are outside of it and the flush is atomic under SQLite's
write lock. SQLAlchemy and SQLite decide what a stale flush does, and the model follows
them: a second row for the same item and client, an update that matches no row and a second counter
row are errors that undo the whole request; a delete that matches no row is not; a counter
whose value did not change in memory is not written; rows are matched by id, and SQLite
gives the id of a deleted last row to the next one. `raced` is a ghost: the items changed
by a request whose reads were out of date. The votes on builds are the same code with
`Kinds = {"like"}`; what a client
makes of their answers is in CommunityBuilds.

### The page's modules: what they have in common

A handler of the page is one action, with everything it does up to its first `await`;
what comes after the `await` is an action of its own, guarded by the code's re-checks and by
nothing else. A request under way is an element of a set (or of a sequence, where the
program or the protocol keeps the order), holding what the closure captured: the tab, the slot, the sequence
number. Answers come in any order, and any request may fail where the code has an error
path. The prefix of the variables (`st`, `ct`, ...) keeps the modules apart in `MCClient`. Histories and
ghosts are marked as such at their declaration; they hold what the user last did or which exception a
property makes, and no action reads them.

**EventStream** (`_readEventStream`). `esReader` is the reader's closure; `ReadChunk` gives it any next
piece of the text. The text is a sequence of symbols, and an event is what lies
between empty lines, with LF, CR and CR LF as line ends.

**Tabs, TabPreview** (`tab-manager.js`). `tabs` is the list, `live` the build in `EFTForge.state`, `flow` the one load
that is serialised by the manager: its stages are the awaits of `loadBuildFromPayload` and `selectGun`, between which
the live tree is bare, then the factory's. `Flushed` and `Synced` are the two ways of writing the live
build back to its tab. `Reload` keeps what is in `localStorage` (`stored`) only. TabPreview has the strip as
rendered beside the tabs as they are, timers, and one flight per statistics request.

**FleaPrices, BuildCost, StatsPanel** (`stats-panel.js`, `api.js`, `gun-list.js`). A price is the refetch (epoch) it was
asked for in; `Refetch` starts a new one while older downloads are still shared by callers. BuildCost keeps
for each overview under way what it captured at its start. StatsPanel has one record per
`refreshBuildStats` that is waiting, for the list of grenades and then for the totals, and the fields of the two settings
panels next to the settings themselves.

**SlotTable** (`slot-selector.js`). `stLast` is `lastSlotId`/`lastParentNode`; a node of the tree is known by the edit that
made it, so a detached node is seen. `stLoads`, `stRedo` and `stCombo` are the three kinds of request with their
three kinds of stamps.

**SavedBuilds, BuildCode** (`build-manager.js`, `build-publish.js`, `build-codes.js`). The list in storage is read, changed and written;
where an await or a dialog lies between, the list read before is part of the pending record. BuildCode
has no concurrency: its actions make builds of any parts, share them and open the codes, and both forms of the code are
translated as operators on sequences (`WriteId`/`ReadId` share prefixes, `OwnersOf` finds where a part goes back).

**Builder3D** (`builder-3d.js`). `b3Draws` is the queue of the viewer, `b3Synced` the build last sent, `b3Holds` and `b3Releases` the loads that
hold the veil, from this view or an earlier one.

**GridLayout, TreeRender** (`attachment-grid.js`, `tree.js`). GridLayout is `computeGridPositions` as a loop: a step places the
next slot, any that a walk could meet. TreeRender's `trRenders` are the walks that wait for a
part's slots; each draws into its own page and all write the shared `_slotEls`.

**OptimizerSolve, OptimizerFilters, OptimizerRanges, Graph** (`optimizer.js`, `graph.js`). The drawer's solve with its steps (parts,
queue, stream, end), the pane with the image and the manifest that follow; the settings of one gun in memory
(`ofFor`) against the gun of the build and what storage holds; the one promise of ranges and who waits for it. Graph is the
view, target and frame loop that the two charts share.

**Atlas, AtlasLookup** (`atlas.js`, `atlas-lookup.js`). `atToken` is `_loadToken`, `atReloads` the index requests, which have no token. Its second half draws groups
part by part (`Feed`) under a search with a delay. AtlasLookup has no token either: `luOut` holds any number of
lookups and `luTimers` the popovers to be removed.

**ArmorRun, ArmorLoadout, EngineQueue** (`armor-sim.js`, `ballistics-engine.js`). ArmorRun's `arRun` is the record of one simulator: its timer, the
run that is out, whether it is to run again, the last result and the result cache. ArmorLoadout is a function
from slots to what is in them; picking an item removes what conflicts, clears the slots it took away and brings in
defaults, one inside the other. EngineQueue has both sides of the worker: `eqPending` on the page, `eqInbox` and `eqContext` in
the worker; cancelling the request at work ends the worker and hands the rest to a new one.

**BuildPreview** (`build-preview.js`, with the renders and loads of `build-manager.js`). `bpPage` is what the module keeps: the last drawing and
its build, the timer, the request, the notice. One load of a build is under way at a time, as the tabs
serialise them; every render puts the icon back and stamps the last drawing again.

**Tracker, Leaderboard, News, CommunityBuilds**. Each is caches, loads by what they are for, and a body that
remembers what it was drawn from. Leaderboard's rows hold a place in a list and not a build, which is why the property is
about clicks. News holds views back during the 3D tour. CommunityBuilds has the server's side of
likes and comments in `cmServer`: `ServerTakes` is the moment a request is carried out,
which may be before or after others although their answers cross; the server's own
votes under concurrency are `Votes`.

## Runs

| Run | Question | Bounds | Result |
|---|---|---|---|
| `solve_admission` | safety of the protocol, implementation of `Admission` | 2 workers, 3 threads (2 in one process), 2 addresses, 2 permits, stale after 2 ticks, jobs 1 tick, 1 crash | passes, 2.3 million states |
| `solve_liveness` | jobs end, orphaned locks heal | same, 1 address | passes, 198 thousand states |
| `solve_race` | "two workers racing on the same IP can't both win" (`solve_limits.py:44`) | same, jobs only | **violated** |
| `solver_job` | the life of one solve | deadline 3 ticks, 3 points, pipe of 2 | passes, 10 thousand states |
| `solver_timeout` | "exceeded its hard wall-clock time limit" (`process_runner.py:144`) | 1, 1, 1 | **violated** |
| `tarkov_sync` | syncs against `CatalogData`, no lost wake-up | 2 workers, 2 syncs, 1 crash | passes, 167 thousand states |
| `sync_flag` | "this worker or any other one" (`sync.py:39`) | 2 workers, 2 syncs | **violated** |
| `catalog_cache` | cached answers are coherent | 2 workers, 1 sync, 1 crash | passes, 771 thousand states |
| `server_data` | no stale answers; counters are the votes unless requests raced | caches: 2 workers, 2 requests, 2 questions, 1 publication, 2 commits, 2 entries; votes: 2 items, 2 clients, 2 requests, 2 rows, counters to 1, 1 raced item | passes, 2.5 million states |
| `votes_drift` | "Insert or update the rating summary row atomically" (`ratings.py:163`) | 1 item, 3 row ids | **violated** |
| `client` | every component of the page, one in focus at a time | below | passes, 1.1 million states |
| `grenade` | a grenade that is chosen is in the cost (`stats-panel.js`, `gun-list.js`) | 1 caliber, 1 refresh at a time | **violated** |

The server's bounds. Two workers and three threads meet on every pair of shared
things: one lock, one permit, one process's descriptors; two permits distinguish
"the first slot" from "a slot". A third tick past `StaleAfter` changes nothing (ages stop
there). For a solve, the deadline leaves room for events before, at and after it, and
the pipe can be full. Two syncs overlap in every way that involves the flag file, the
tables and the generation. The result caches need one publication between the key and
the insertion, two questions so that a full cache evicts, and two workers so that one
learns of a sync it did not run. For the votes, a stale request and one that overtakes it
suffice; two items show an id that is used again on the other one, and a race on
an item that has raced already says nothing new.

The properties of `client`, each a conjunction of what one or two modules promise:

| Property | Says | Modules |
|---|---|---|
| `ReadsWhatWasSent` | wherever a stream is cut, the events before the first final one are handed over once and in order | EventStream |
| `TabsAreKept` | each tab keeps its build, attribution and history, and a reload brings back the tabs | Tabs |
| `PicturesAreRight` | the preview over a tab is of that tab, once settled; a drag loses no tab; the picture of the build is hidden or dimmed only while something is under way that ends it | TabPreview, BuildPreview |
| `FleaPricesAreRight` | no price shown or stored predates the last refetch; a mode marked as having its levels has them | FleaPrices |
| `CostIsRight` | the total is the least way to buy the build; at rest it is that of the mode and levels chosen | BuildCost |
| `StatsAreShown` | the popover shows the last totals and is open iff it is on the page; slider and box agree with the setting | StatsPanel |
| `SlotTableIsRight` | listed statistics are those of the build as it is; combinations are of the open slot | SlotTable |
| `SavedIdsAreDistinct` | no two saved builds have one id | SavedBuilds |
| `CodeKeepsEveryPart` | a code that opens without a complaint gives every part back, as often | BuildCode |
| `ViewerCatchesUp` | at rest the viewer shows the build; no cover stays | Builder3D |
| `AttachmentsAreShown` | no two slots share a cell; at rest the page shows the build | GridLayout, TreeRender |
| `DrawerIsRight` | the drawer's result is of its gun and point, with its own image and parts; it shows a solve iff there is one | OptimizerSolve |
| `SettingsAreTheUsers` | locks and bans are found again; a constraint never rests at its placeholder | OptimizerFilters, OptimizerRanges |
| `ChartIsRight` | the animation ends at the view asked for last; a selection is of one kind | Graph |
| `AtlasIsRight` | the open set is the selected one; its list holds the rows that pass, once each | Atlas |
| `LookupIsRight` | an open weapon has its popover, of the profile on the board; the page stops loading | AtlasLookup |
| `ResultsAreRight` | results are of the setup on the left; every request to the worker is answered once with the data it was made with | ArmorRun, EngineQueue |
| `LoadoutIsRight` | nothing worn conflicts; the tab holds the loadout on show | ArmorLoadout |
| `PagesAreRight` | tracker columns are of the period picked; a click on the leaderboard loads the build that is seen; the tour is never covered by news; community likes and tags agree with what is shown | Tracker, Leaderboard, News, CommunityBuilds |

"At rest" is: once nothing is under way. The invariants say what may be wrong meanwhile
(a dimmed picture, a note) and what may never be.

The bounds of `client` are the constants of `MCClient.cfg`. All of them bound what the user does or how often a
request is made (`MaxActs`, `MaxLoads`, `MaxEdits`, ...), never how answers interleave. They are chosen per
component as the smallest for which every action fires, two requests of each kind overlap
with an edit (or a change of gun, language, tab) between them, and every known violation below and every mutant shows;
two values of a kind (two guns, two slots, two players) tell "this one" from "another". States
by focus: stream 250, engine 3 thousand, leaderboard 3, grid 4, tracker 10, list 12, code 13,
community 15, news 20, ranges, cost and tree 23, stats 25, solve 26, loadout 31, filters 38, 3d 40, preview 44, slot 49, graph 51,
atlas 78, armor 81, picture 93, saved 98, tabs 100, flea 107 and lookup 112 thousand.

What the violations show:

- `solve_race`: a worker dies with a lock file; two requests from that address find it
  stale; the first removes it and creates its own; the second removes that one and
  creates another. Both solve. The proved `RefinesAdmission` says what is left: this
  can only happen to an address whose lock was judged stale before, and never exceeds
  the server-wide cap.
- `solver_timeout`: `poll()` returns false, the child sends its result and exits,
  `is_alive()` returns false, the loop is left with the result in the pipe and the client
  is told of a timeout. The same answer is given when the child dies of
  something else.
- `sync_flag`: hyperactive mode survives a restart through `hyperactive.lock`, so all
  workers start a sync; the first to return removes the flag file. Consequences:
  `/sync-status` and the data version stop knowing of the running sync, so an answer made
  of half-filled tables may get a cache lifetime. `CachedIsCoherent` bounds the damage: it is
  still the answer of exactly the version in its URL.
- `votes_drift`: two requests read the same counter and write the same value, or a double
  click takes one vote back twice. Nothing repairs the counter but the administrator's
  clear; `CountersAgreeUnlessRaced` says that nothing else disturbs it.
- `grenade`: taking a launcher off empties the map from grenades to prices but leaves the
  options of the selector; a launcher of the same caliber fitted again finds the options
  and does not fill the map. The grenade stays chosen, and is not in the cost.

### Known not to hold

These formulas are in the modules, state what a comment, a text or the module's own
logic promises, and are violated by what the code does. They are in no run; to see a
counterexample, put one in place of the INVARIANTS of `MCClient.cfg` (PROPERTY for the two marked
with a star) and `focus = "..."` in place of the set in `ClientInit`.

| Formula | Focus | What happens |
|---|---|---|
| `LastSlotHasItsTable` | slot | the last slot opened has no table on the screen: a failed or overtaken load closed it |
| `MergeKeepsSaved` * | saved | a merge over the cap takes other saved builds away |
| `CodePutsPartsBack` | code | a part that its slot did not allow, or one of two copies, is put back elsewhere |
| `ElementsAreOnThePage` | tree | a render of an older page that ends last leaves its detached elements in `_slotEls` |
| `UnbanIsRemembered` | filters | a default ban that was lifted is back when the gun is picked again |
| `RangesAreOfThisMarket` | ranges | a change of the market settings during a request is answered with the old ranges |
| `ReloadKeepsNothing` | atlas | an index asked for with an older key answers last |
| `ExpandIsOffered` | list | the expand button is not brought in line when one group is closed |
| `CacheIsOfThisData` | armor | a run that was out over a reload of the data is cached |
| `AttachmentsHaveTheirSlot` | loadout | a mandible stays when the default side armor that holds it was refused |
| `OldPictureIsDropped` | picture | after the global switch-off an old drawing is stamped onto later builds |
| `ErrorsAreOfMissingRows` | tracker | a second load of a period fails over the rows of the first |
| `TheBoardAskedForIsSeen` | leaderboard | the answer (or failure) of another board is drawn |
| `PageIsOfTheView` | news | the text of a post that was left is drawn over the list |
| `BuildsAreLeftOutForATag` | community | a tag whose only build was unlisted leaves all builds out |
| `LikesAreNotLost` | community | a like before the ratings arrived takes the existing like back |
| `DeletedCommentsStayAway` * | community, with `MaxCommunityActs = 4` | a deleted comment is back after the next post |

Other differences met while reading, not stated as formulas:

- Tabs: leaving a tab while its build loads writes back a bare or factory tree
  (`tab-manager.js:427`); after a failed fetch the tab's pairs are overwritten (`build-manager.js:1207`); closing the active tab during a
  switch leaves `activeTabId` dangling (`tab-manager.js:537`). `TabsAreKept` excepts these (`damaged`, `edited`).
- Saved builds: `_tryRepublishBuild` writes back a list read before its await (`build-manager.js:1077`); a publish that is
  cancelled throws (`build-publish.js:72`).
- Prices: `refetchFleaPrices` does not drop `_fleaLevelPromises` (`stats-panel.js:398`); a late failure of an older download deletes the newer memo
  (`api.js:345`); a late answer puts an older data version back (`api.js:72`).
- Statistics: `refreshBuildStats` has no generation (`stats-panel.js:986`), so the last answer wins; settings panels that are open get their listeners
  again with each redraw (`stats-panel.js:1396`).
- Optimizer: the ranges' promise is shared across settings (`optimizer.js:1466`); data of one gun's parts may be applied with another
  gun's filters (`optimizer.js:205`).
- 3D view: a failed `setBuild` is not retried (`builder-3d.js:352`); a hold begun in one view is released in a later one (`builder-3d.js:420`).
- Lookup: of overlapping lookups the last answer is shown, not the last question (`atlas-lookup.js:1711`).
- Leaderboard: a late answer of builds under a key that is not cached throws and shows the load error (`leaderboard.js:247`).
- Start-up: an error in tab restoration is caught by `tryLoadGuns` and restores the tabs again after 5 s (`app.js:80`).

## Fairness

`SolveAdmission`: weak fairness of every thread's own steps (threads are scheduled), of the end of
a *job* (the hard deadline) and of time. None for streams or for new requests; `SelfHeals`
assumes requests that keep coming in its statement. `SolverJob`: the request thread
and time; not the child (a native solver may never end), not the client.
`SlotComesBack` names the one way left to hold a slot for good: a connected client that
never reads. `TarkovSync`: the event loops, the subprocesses (killed after 600 s) and the
master's restarts; not the administrator and not crashes.

The page's modules state no fairness and no liveness: nothing bounds how long the server takes
to answer, and the only process is the user's event loop. What would be a liveness property
("the page stops loading", "the viewer catches up") is stated as an invariant of the states
in which nothing is under way any more, which needs no fairness.

## Proofs

`SolveAdmissionProofs` proves, for every number of workers, threads, addresses, permits and crashes and
for all times with `HoldLimit < StaleAfter`:

- `TypeCorrect`: `TypeOK`.
- `LocksOwned`: `LockOwnership`, and `OnlyAbandonedDoubted`: `StaleVerdictsJustified`. Neither is inductive:
  ownership is lost when a live owner's file is judged stale, and that it is not
  rests on the age of the file never exceeding the time its owner has held it. `LockInv`
  joins ownership, the relation of `held` to the file's age and `held <= HoldLimit`.
- `PermitsAccounted`: `PermitAccounting`, by counting: every step adds or removes one slot and one solver
  of the same worker, or all of them.
- `ImplementsAdmission`: `RefinesAdmission`. Initial states map to initial states; a step that takes a
  permit is `Enter`, which needs a free slot (so fewer than `MaxSolves` solvers, from the
  accounting) and no other solver of an address not in doubt (from ownership); the end
  of a solve and a crash are `Leave`; a stale verdict is `Doubt`; everything else stutters.

`SolverProofs` proves of SolverCache, for every number of workers, requests, queries, generations and
commits and every cache size of at least two (with one entry `len // 2` evicts
nothing and the dict would grow past its limit; the code's limit is 500):

- `SolverTypeCorrect`: `SolverTypeOK`, of which the bound of the caches is the interesting part.
  It rests on two lemmas on sequences: `EvictKeeps` (eviction makes room for one entry and keeps only old ones) and
  `PutAdds`.
- `NeverStale`: `NoStaleAnswer`. It speaks of one request only, and the hit that would break
  it returns what another request stored, so it is not inductive. `KeysAreSound` is: the commits covered
  by publications grow with the generations, the generation in a request's key is
  at least as new as the request, and a result is at least as new as the generation it is
  kept under. The steps of a request keep it by the order key, lookup, solve, store; a
  publication keeps it because its token is in no key yet (`CatalogData.Publish`, which
  `TarkovSync` implements).

`ServerDataProofs` proves of Votes, for every number of items, clients and requests and every bound:

- `VotesTypeCorrect`: `VotesTypeOK`.
- `OnlyRacesDrift`: `CountersAgreeUnlessRaced`. The strengthening `Table` says that ids are unique, that an
  item and a client have one row, and that the rows are finitely many, so they can be counted.
  A flush has three shapes (`InsertedRow`, `WithdrawnRow`, `ChangedRow`); on reads that are up to date each of them moves the
  counts by exactly the deltas the code computes (`FreshCommitCounts`) and touches no other item
  (`FreshTouches`); whatever the reads, an item that is not touched keeps its rows (`UntouchedRows`).

`SolverProofs` proves of SolverJob, for every deadline, number of points and pipe capacity:

- `JobTypeCorrect`: `TypeOK`.
- `ChildStopsFirst`: `ReleasedAfterChildStops`, and `SlotLeftOnce`: `SlotReleasedOnce`. A slot is given back
  in one of several places; `SlotWithChild` says that each of them lies past the finally block, which the
  thread does not leave with a live child, and ties the number of exits to `released`.
- `OneAnswer`: `AnsweredOnce`. That the last event is the only final one is lost if an event is still
  on its way to the client when the solve ends, so `ToldSoFar` says where an event may be pending,
  which kind it is, and that whoever is past the loop has been told, or is about to be told the error.
- `PartialIsWhatWasSent`: `PartialMatchesStream`. The number of points is counted on receipt and the event is
  sent afterwards, so `PointsTold` relates the two at each step, and `PipeInOrder` bounds what is
  still in the pipe: the points come before the result, and none is counted twice.

  The inductive invariant is `JobInv`, these four parts and the type; each action has its lemma.

`ServerDataProofs` proves of TarkovSync and CatalogCache, for every number of workers, syncs and crashes:

- `SyncImplementsData`: `RefinesCatalogData`. A step of a subprocess is a commit, a publication or neither;
  a publication uses the token of its own sync, which nobody published before since a subprocess
  publishes once. For that `JobsInv` says that a sync that was not started has no step.
- `CacheIsCoherent`: `CachedIsCoherent`. An answer is cached when the versions before and after its reads are
  equal. `ReadsInOrder` says that the commits seen by the version before, the first read and the second
  come in this order and never exceed the commits done; equal versions at both ends then leave
  no room for a commit between the reads, whichever worker or subprocess made it.
- `CatalogTypeCorrect`: `CatalogTypeOK`. The bound on the commits needs an account of them, and a
  sync that has failed does not tell how far it came. So `Made` counts the commits each sync may
  have made: four for one that ended, none for one that was not started, and what its step says
  for one that runs. Every commit adds one to it (`SyncInv`), and it is at most four per sync.

`BuildProofs` proves of the panels of a build:

- `FleaPricesStayNew`: `FleaPricesAreRight`, for every set of modes and any number of refetches,
  downloads and calls. What the caches hold is new for as long as nothing older is
  put into them, and the danger is a download that answers after a refetch has replaced the
  caches. `MemosAreNew` says that a shared download is one of this refetch, `CallsWait` that a call
  waits for a download of the refetch it began in, `StampsAreNew` that the stored copy is marked with
  this refetch or not at all; an answer is written only into the object it was meant for, and a
  refetch has replaced that.
- `CostStaysRight`: `CostIsRight`, for every set of parts, any market, modes and levels. The total is
  the least any plan of buying costs. That the overview's own choice is such a plan and that every
  other one costs as much or more is arithmetic over finite sets: the total is
  a sum over parts, and `PlanSums` compares the two sums part by part. For what is at rest, `CostInv` says who is still
  to bring the shown mode and level in line with the chosen ones: an overview that waits, or a download.
- `StatsStayShown`: `StatsAreShown`, for any grenades, calibers and levels. `CallsAreOut` adds that a
  refresh that waits for grenades was asked for a launcher.
- `ViewerAlwaysCatchesUp`: `ViewerCatchesUp`, for any guns, slots, drawings and loads. `LastSent` says that
  the last of the viewer's queue, or what it shows once the queue is empty, is what was sent last, and that this is the build
  unless an edit or a scheduled send is still to come. `VeilHasAReason` and `SpinHasAReason` name
  what a cover waits for; each event that takes a reason away removes the cover or leaves another reason.
- `SlotTableStaysRight`: `SlotTableIsRight`, for any tree of slots, any preset and all bounds (with the exceptions `stMissed` stands for). Statistics are asked for
  one build and listed in another, and a node's number is the edit that made it, so no node is newer than
  the last edit (`NodesAreOld`) and a part put back is never mistaken for the one that was taken out. `ItemsFit` says that the
  listed items are those of the build as it is or that a request for them is out, `LoadsFit` that there is one load at most and
  which build it has read, `CombosFit` that the search under way is for the last slot. Taking a part out
  empties the slots below it (`SlotRemovals`); that is why the assumption says what a path is: each part of one is the path of its last slot.
- `SavedIdsStayDistinct`: `SavedIdsAreDistinct`, for any names, codes, caps and bounds. What is written back to the
  storage was read some time before, so every list that may still be written has distinct ids, none of
  them later than the last one given out: the backup file, the lists that requests have read, and those of an
  open dialog, whose clean, conflicting and existing builds moreover have no id in common. A merge
  only chooses, renames, joins and cuts lists (`ChosenNumbered`, `SameIds`, `JoinedNumbered`, `FirstNumbered`).

`ToolsProofs` proves of the optimizer's drawer, of the charts and of the armor simulator:

- `DrawerStaysRight`: `DrawerIsRight`, for every set of guns and any number of solves and points.
  `SolveIsOfTheGun` says that there is no result while a solve is running
  and that a solve past its first step that was not aborted is for the gun of the build,
  so a late answer is never one of another gun. `PaneIsDrawn` says that the pane shows what it
  would be drawn as now; a step that changes what it depends on draws it again, and drawing makes
  it right whatever it showed before.
- `SettingsStayRight`: `SettingsAreTheUsers`, of `ClientSpec` (MCClient's specification), for every set of guns, of parts and of
  what fits, any presets and markets. What the user said of a part is about the gun, and is kept in two places: the
  lists in memory, which are those of the gun `ofFor`, and the lists in storage. `FiltersInv` says
  that both agree with it (`Agrees`), those in storage after what loading does to them. `RangesInv` is `ConstraintsAreBackfilled` as it stands:
  it relates each constraint to the requests that may still change it, and is inductive.
- `ChartStaysRight`: `ChartIsRight`, for all bounds of the zoom and any points. `ZoomInv` says of each state
  of the animation where it will end (the target, or automatic fitting if it was asked to end there), and that this is the view asked for last.

- `ResultsStayRight`: `ResultsAreRight`, of `ClientSpec`, for any setups, caches, requests and loads of data.
  `ArmorInv` says that the records have their types, and `RunFits` says of a simulator at rest that its result is of the setup, that
  there is none without a round, and that there is one if the charts are drawn; the progress bar is that of the setup
  unless there is no result. The step that would break it starts a run while another is out, and that one is stopped or
  marked to run again.
- `EngineInv`: the data that a request was made with is not in its message; the worker takes whatever data
  it was sent last. `EngineReads` therefore speaks of the whole inbox: reading
  it from its front with the worker's present context, each request is met with the data it was made with.
  It is stated by a recursive function over the inbox, and appending a message, or all messages again for a new
  worker (`PostsAreRead`, for any number of requests handed over), keeps it. `EngineOwes` counts the answers:
  none for a request that waits or is pending, and its message or reply is on its way; at most one otherwise.
- `LoadoutStaysRight`: `LoadoutIsRight`, of `ClientSpec`, for any catalog and any tabs. `LoadoutInv` adds that what every tab has saved
  can be worn once it is pruned, that the rows of the open table are those the loadout on show can take (`PickerFits`), and that the
  popover's parts are the items that are there, with which Escape gives back what is saved unless something was confirmed
  (`PopFits`). Four lemmas carry the steps: durability does not matter (`SameItems`), less of a loadout can be worn if the plates go with what
  they are in (`LessIsWearable`), new parts that conflict with nothing leave one that can be worn
  (`MoreIsWearable`, `DefaultsFit`), and pruning twice is pruning once (`PrunedTwice`), since what is not loose still has what opens its slot.

`PagesProofs` proves of the pages around the build:

- `PagesStayRight`: `PagesAreRight`, of `ClientSpec`, for all bounds, any periods, boards, posts and builds. It joins four
  theorems of the components. `TrackerStaysRight`: rows that are seen are kept rows (`RowsAreKept`), since
  dropping what is kept draws the page again. `ClicksStayRight`: a row's place leads to the build
  it shows, because every replacement of a list that is seen draws the rows again. `NewsStepsRight`:
  what is put back during the tour is a page, so a closed drawer waits with what it showed. `CommunityStaysRight`: a like shown is the server's
  unless there was a race, so `LikesInv` follows the requests of one build: one that
  is `alone` is the only one of its build (`OnlyOne`), what it was answered is what the server holds (`AnswersHold`),
  and a rating that no vote is about to change is the server's (`RatingsHold`); that the cards pass the tags
  is kept with the pool they come from (`CardsInv`).
- `PicturesStayRight`: `PicturesAreRight`, of `ClientSpec`, for any tabs, guns, builds and rounds. It joins two invariants
  of `BuildProofs`. `StripInv` is about the strip of tabs: the strip on the page lags behind the tabs only by some that were opened at
  the end and some that were closed (`StripFits`), the tabs that are dragged as a group stand together, are pinned alike, and are
  the same in the order that the drop will write (`DragFits`), and the statistics in the preview are those of its tab (`PreviewFits`). Moving,
  closing and pinning choose places of a sequence, so what they keep follows from a few lemmas on removal,
  insertion and choice. `PictureInv` is about the picture of the build: one that is kept is of the view drawn last (`UrlFits`), the
  request under way is for the gun of the page, and what is dimmed waits for it (`RequestFits`); a page that no
  drawing will replace is of the view or waits for a request for it (`IsSettled`).
- `AttachmentsStayShown`: `AttachmentsAreShown`, of `ClientSpec`, for any build, any table of overrides and any tree of
  parts. `GridInv`: a cell that is given was free and is taken from then on, and the reserved ones are taken from the start; each
  rule of the layout gives a free cell off the gun or none (`RulesPlace`), and there is always a first free row to give
  (`LeastRow`). `TreeInv`: walks of older pages draw nothing that is seen, so it speaks of the one walk of the page on show. Unless an install or a
  timer of a collapse is out, which draw the page again, what that walk passed and what it drew are those of the build as it
  is, less what it could not fetch (`WalkFits`, `DrawnFits`, `MissedBefore`), so that where it ends the page is right.
- `TabsStayKept`: `TabsAreKept`, of `ClientSpec`, for any number of tabs, any builds and whatever whole tabs an earlier page
  left behind; its lemmas are in `TabsProofs`. What a tab holds is in its record, live, or on its way there, so the invariant (`TabsInv`) says for
  each stage of a load where the build, the attribution and the undo history of the active tab are (`LoadShows`), and
  for all other tabs that record and history are what the user last saw (`TabsShown`). It needs to know whose build is
  live: of the tab being loaded, or nobody's once the build was left (`FlowFits`); with no load under way the active tab's record
  is the live build, so that writing it back on a switch changes nothing (`ActiveFits`, `QuietFlush`). What is stored is
  the tabs unless the timer runs or a tab is being opened (`StoredFits`). A drag's group lies side by side as long as
  none of it was closed (`DragHolds`), so its new order moves tabs within their window only. Ids are not reused, which is why a
  closed tab's group is dropped for good.
- `LookupStaysRight`: `LookupIsRight`, for any players, links, lookups and timers. The popover on the page is never one that a
  timer is about to remove (`LookupInv`), for which there must always be a free element (`FreeElement`): there is
  one more than there may be timers.

`DataLemmas` has no theorem of its own. Its facts about recursive functions (the elements of a
sequence at chosen places, flattening) and sums are proved by least counterexample: `LeastNumber`
and `LeastFiniteSet` take the place of the library's induction theorems, whose operator parameters the
provers cannot instantiate.

All theorems hold under the assumptions the modules name (`BoundsType`, `SyncBounds`, ...), which are only
that bounds are natural numbers, that sets are finite where they are counted or summed over, and that a value standing for "none" is none of the
others, with the exceptions given above
(`HoldLimit < StaleAfter`, a cache of two entries or more, the paths of a tree, its parts listed after what they are fitted
on, overrides that leave the gun's own cells alone, a catalog whose default parts fit what they come with and go with it, saved
loadouts that can be worn once they are pruned, and tabs of an earlier page that were stored whole: in order, each id once,
attributed to the build they hold or to none); TLC evaluates them in every run.
A theorem of `ClientSpec` is one of the composed specification: the component's own steps
preserve its invariant, and every other component's steps leave its variables alone.

Model-checked only:

- Liveness (`JobsEnd`, `SelfHeals`, `SlotComesBack`, `SwitchedOnSyncs`): temporal formulas under fairness, which are
  out of the prover's reach.
- `ReadsWhatWasSent`, `CodeKeepsEveryPart` and `AtlasIsRight`: what they say is what a recursive reader,
  a code's reader and writer and a filtered list compute for every
  input. That is induction over data, which could only be done by hand, function by function, as `DataLemmas` does for the few it has.

## Not modelled

- *Numbers*: the MILP (`optimizer/`, HiGHS) and the formulas of ballistics and statistics are floating-point
  arithmetic; TLC has none, and a model over integers would be another program.
- *Pure algorithms over the catalog*: compatibility and placement, the enumeration of combinations, the reuse of
  solutions and the run-ahead of `explore.py`, `frontier_points`. They are sequential
  functions of a catalog; what they return is data to the models. The page's own pure
  algorithms are modelled where the state depends on them (`BuildCode`, `GridLayout`, `EventStream`, `BuildCost`).
- *Data*: parsing, localisation and change log of the import; the texts and translations (`lang.js`), markup, icons,
  tooltips, axes, the drawing of images and their export.
- *Small state that was left out*: the request-rate throttle and the cooldowns (a dict of times per
  worker), the Windows semaphore, the validation of inputs, stat-ranges and gunsmith routes, the
  adoption of versions in `api.js` (one promise that is replaced), comments' moderation on the server, start-up and
  dialogs (`app.js`), read-only routes, schema migrations (a lock around transactional steps).
- *Other programs*: image rendering on the server, build cards and their upload to
  a mirror, the desktop backend and its launcher (`main.rs`), the development launcher, the
  3D viewer behind its frame. Each is a component of its own with real hazards (the scratch database's
  publication, the settings file, the wait for the port); they share no state with what is
  modelled except where the models say so.

The hazards of this code are listed under `hazards` in `PROJECT.json`, each at its line, with the
properties that would catch it; those without a property have a note that says why.
