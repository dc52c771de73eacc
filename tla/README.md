# RoomMate in TLA+

Models of the parts of RoomMate whose correctness depends on order: what people, Revit
sessions and server requests do to shared files at the same time, and what is left when one of
them stops half way. TLC checks the models on small instances; TLAPS proves the safety
properties of the task store, of the runs over it, of lineages, of snapshot ids and of the stores on people's desks for instances of any size, and two
refinements.

Paths are relative to the root of the repository (`src/tasks.rs` is the server's task store).

## The system

RoomMate is a Rust server that keeps what Revit models contain (rooms, doors, windows, FF&E,
spaces, ceilings, floors), joins it to reference data, serves it to browsers, and hands work back
to Revit as *room tasks*. Everything is in files. There is no database and no transaction: a file
is replaced by renaming a new one over it, and what takes several files takes several renames.

| Component | State | Operations | Hard behaviour |
|---|---|---|---|
| Room tasks (`src/tasks.rs`, `src/tasks_api.rs`) | one JSON file per task: state, attempts | create, claim, report, dismiss, resend | sessions claim and report late; several files per call; a lock per call, none between calls |
| Tasks button (`extractor/pyRevit/room_m/room_mate.py`, `apply_run.py`, `task_dispatch.py`) | the claimed tasks of one run, what it has reported | choose, claim, check, write, report, sweep | Revit dies; an answer is lost; people act meanwhile |
| Ingest (`src/handlers.rs`, `src/service/snapshots.rs`) | per request: decisions, open sinks | push of each kind, activation | many requests at a time; decided early, stored late; one model of several refused |
| Snapshot store (`src/storage/fs.rs`) | `project.toml`, snapshot files, one pending file per kind | index, rename, quarantine, promote, list, reference upload | no lock; the manifest is written back whole; a stop between two writes |
| State and settings (`src/state.rs`, `src/settings_api.rs`, `src/bootstrap.rs`) | the registry behind an `RwLock`; settings files | save, reload and swap, reference upload | merged before the lock; file installed and reload failed |
| Blueprints (`src/blueprints.rs`, `src/blueprints_api.rs`, `src/blueprint_bundle.rs`) | revisions, pending and rejected pushes, `taken_at` | create, add revision, push, accept, reject, update | optimistic base on a clock that may stand still; a bundle checked, then accepted, then applied under other locks |
| Sheets (`src/sheets.rs`) | one record per sheet: number, blueprint it is bound to, renumberings that wait | push, bind, unbind, accept, reject, delete | who holds a sheet when bundles overlap |
| Assignments (`src/assignments.rs`) | one record per room, a revision pinned | assign, unassign | the blueprint is read before the lock |
| Tag rules (`src/tag_rules.rs`, `src/tag_rule_binding.rs`) | samples pooled per key, one file per rule | observe, import, unlink, delete | several files per call; samples that move between rules |
| Level-scoped pushes (`src/scoped_push.rs`) | none: elements carried over from the latest snapshot | rewrite of a push | the snapshot it completes with is the latest when it begins |
| A layer on screen (`src-js/viewer/entityPoll.ts`, `src/service/mod.rs`, `entity_scope.rs`, `openings.rs`) | payload, tag and revision of the layer | poll, answer 304 or a body, change of scope | the index is read for the tag and again for the body |
| Room graph (`src/service/connectivity.rs`) | none | components, routes, limits of clearance | ties, unknown sizes, parallel edges |
| Approval gate (`crates/drofus-mcp/src/approval`) | changes proposed, the audit log | propose, show, decide, apply | expiry, stale pages, a log that cannot be written; no tool uses it yet |
| Authored connections, other read services, contract, MCP servers, rest of the pages | none, or one record under a base | pure functions and views | numeric, not concurrent |

They meet in the files. A browser makes tasks from assignments, and a Revit session claims and
reports them. A push is decided against the manifest and stored through it; an activation moves a
model's phase. Blueprint pushes bring sheets and tag rules with them. A save of settings changes what
every read answers, and so the tags by which pages know whether to draw again.

What makes each correct, in a line: a task is handed to one session at a time, and what was said of it is
kept; a run frees what it claimed; a refused push leaves nothing, and a model's phase moves only
by activation; a base that still holds is a base of the file on disk, and revisions stay; a sheet is bound only where
a person took it; what was learned from a tag is not lost; the server runs on the settings on disk, which always
boot; a level shows what was last pushed for it; a page that is told "not modified" shows what it would be sent; a route is
a shortest one; a change runs once and as approved.

## Modules

| Module | What it is |
|---|---|
| `RoomSlots` | what the task store promises: for each kind, model and room one slot, free, waiting or worked in under a ticket given once |
| `RoomTasks` | the task store, one action per call |
| `TaskRuns` | runs of the Tasks button over `RoomTasks` (which it EXTENDS), and people at the task page |
| `Lineages` | pushes and activations over the manifest, the snapshot files and the quarantine, one action per disk access |
| `PhasedLineage` | what ingest promises: the phase of each lineage, what is live in it, and what waits because it disagrees |
| `SnapshotIds` | the ids of snapshots, the index and the file names they are kept in, and what is taken for the latest |
| `Blueprints` | the blueprint store and the assignments that pin its revisions |
| `Library` | the sheet library and the requests that bring bundles of sheets to it |
| `TagRules` | tag rules, one action per call up to the last file it got to write |
| `Settings` | settings files, reference CSVs, the registry, saves, uploads, edits by hand, stops and boots |
| `ApprovalGate` | the gate of the dRofus server, its page and its log |
| `ScopedPushes` | level-scoped pushes to one model |
| `LayerPolls` | a layer that is polled, and the server's answer put together look by look |
| `Connectivity` | the room graph as operators, and the read that answers from it |
| `Absence` | the constant that stands for the code's `None` in the modules above that need one |
| `RoomTasks_proofs` | the theorems about `RoomTasks`, about `TaskRuns`, and that the store implements `RoomSlots` |
| `Lists` | the members of a list that are wanted, for the two modules that go through lists |
| `Lineages_proofs`, `Blueprints_proofs`, `Library_proofs` | the theorems about the module each is named after |
| `Settings_proofs` | the theorems about `Settings` and `ApprovalGate` |
| `Layers_proofs` | the theorems about `ScopedPushes` and `LayerPolls` |
| `Lists_proofs` | the theorems about `TagRules`, `Connectivity` and `SnapshotIds`, and the lemmas on numbers and folds they rest on |
| `Desk_proofs` | that a behaviour of the stores side by side, the composition in `MCDesk`, is one of each store |
| `MCServer`, `MCLineages`, `MCTaskRuns`, `MCDesk`, `MCLayerStale`, `MCTagRules` | the instances TLC checks |

### RoomTasks

`tasks` is the directory of task files in the order `list_all` sorts them; of a task the key (kind,
model, room), the state and the status of each attempt are kept. `SAVE_LOCK` is held by a call
from its first read to its last write, so a call is a step. Two calls write several files:

* `claim_chosen` stops at the first write that fails. `ClaimCutShort` opens the oldest
  claimable tasks up to any point and answers nobody; it is also the server dying on the way.
* `report` goes on with the next row. `Report` takes any subset `written` of the rows it could record.

`handed` is a history: which claim opened which attempt. It is what `OneSessionPerAttempt`
and the late reports of `TasksNext` are about: a session may report anything it was ever handed, late,
twice or wrongly, and nothing in the store tells the sessions apart.

`MaxAttempts` bounds resends; `MaxTasks` is the code's own limit, made small.

### TaskRuns

`pc[s]` is where `tasks_entry` is. A run lists and chooses, claims, and takes the groups in
`Order`: check all, report what will not run, write and report each task; then it sweeps.
`told` is what the run takes for reported (`sent` and `reported` in the code), which grows
whether or not the server took the post. `missed` is a history: what of a run's claims and
reports was lost with an answer or a request, or was cut short by the server. Choices stand for what the model of the Revit file would
decide: what a check stops, whether a check, a write or a group raises. `lost` counts requests
or answers that got lost, `faults` calls the server cut short, both bounded. `Die` is Revit
ending anywhere. A task whose kind has no handler cannot be claimed, since `claim_kinds` names
the kinds that have one, so `unhandled_reports` has no action.

### Lineages

`manifest` is `project.toml`, `files` the snapshot files by model, kind and `taken_at`, `pending`
the quarantine. A request holds what its handler holds: the payload, the models it has still to go
through, the models its decisions accepted (`live`), the manifest as it last read it (`copy`), the
bytes of a promotion. So the distance between a decision and its use, and between the read of
the manifest and its write, is as long in the model as other requests care to make it.

A push reads its envelope (`Receive`), decides model by model (`Decide`), reads its elements and
refuses an empty rooms push whole (`Publish`), then goes through its models: `Quarantine`, `Skip`,
or `Commit`, `IndexPush`, `Rename`. An activation is `Activate`, `ReadPending`, `ReadForPromoted`,
`IndexPromoted`, `FilePromoted`, `ReadForPhase`, `Rephase`, `Clear`. `Stop` ends a request
anywhere: the producer hung up, a write failed, the server died. What is only in a temporary file is
then gone, which is why elements being read change no variable.

Left out: the refusals that come before any read of the store (schema, unknown project, ids, a
model declared twice; `Orders` holds only lists without repetition), names, placements, boundary
regimes, and the test whether a phase differs only in case (`phases_agree`; a phase here is what
is left after trimming and folding).

`PhasedLineage` is what all this amounts to when requests come one at a time. Its state is the phase of each model and, for a model and a kind, the
live snapshots and the one that waits. `Fix`, `Join`, `Hold`, `Admit`, `Move` and `Release` are its steps: requests, the index and the accesses to the disk are gone. Under
`Phased` in `Lineages`, `phase` is that of the manifest, `live` the files, `waiting` the quarantine, and `KeepsPhases` says that `Lineages` does nothing else.
`Taken` and `Offered` are the payloads there can be.

### SnapshotIds

The ids of one model and kind, `indexed` in `project.toml` and `onDisk` in the directory under their names. An id is kept by the fields the
order of strings tells apart: all but the fraction are of one width, so `Text` has a number for each, and the codes of the
separators, marks, digits and zones are those of ASCII. `mark` is what stands between hour, minute and second, a colon in an id, a dash in a name (`snapshot_filename`). The
separators T, t and space and the zones Z, z, +00:00 and -00:00 are what `parse_from_rfc3339` of chrono accepts, a library that is not in the repository; leap seconds are left out.

`PushWhole` is both writes of a push, since what is between them is in `Lineages`; `PushCutShort`, `WriteBackWithout` (a push to another model writes the manifest
back as it had read it) and `RemoveFile` (by hand) are the ways index and directory come apart. `ReconciledIds`, `LatestId` and `LatestFile` are the reads.

### Blueprints

`blueprints` are the files, `seen` what each page shows (the file as it was when read), and every write
names the page's `taken_at` as its base, as the pages do. A stamp is a reading of the clock and the
number of `~` that `next_stamp` appended to it; the clock is any reading at each write, so it stands still and goes back.
`assigning` is what `assign` has read of a blueprint before it takes its lock. A refused call and a failed
write change nothing and are no action. `accepted` is a history.

### Library

A request of the blueprint API makes several calls under two locks: check the bundle's conflicts, create the blueprint or
store the push, or read what waits and accept it; then check again, bind the sheets, unbind the missing ones.
`request` says what a request is about to do and with which bundle, so other requests and people at
the library come between any two calls. `BindCutShort` and `UnbindCutShort` stop in the middle of a loop of
writes. A record is the sheet's number, its blueprint and the renumberings that wait. `byHand` is the history of what people bound by
accepting a renumbering that names a blueprint; it is forgotten when the sheet is deleted or the next bundle of the blueprint that
holds it is applied to the end, and not when another blueprint's bundle merely leaves a renumbering with the sheet. Names of blueprints, which decide whether a
push from Revit creates or adds, are left out: both are possible at any time.

The Sheets button sends no blueprint with a sheet, so `PushSheet` leaves it generic. The route would take one: `PushedSheet` has a field
`blueprint` (`src/sheets.rs:221-224`), `http_push_sheets` passes it on (`src/sheets_api.rs:79`), and a client that sent it would bind a sheet
to a revision nobody accepted. No client in the repository does (`post_sheets.py`, `exporters/sheets.py`), so the properties and the
theorems about `Library` are about these clients, and `BoundWasAccepted` is not what the route itself would hold.

### TagRules

A rule is the sequence of the places its samples were read; measures and medians are left out. A
call holds its lock throughout but writes file after file, and `Reaches` is how far it got: all of the first pass and
any part of the second, or a part of the first. `take_moved_samples_out` is the second pass of
`Observe`, the removal of orphans that of `Unlink`. `MayStop` is a bound: where it is FALSE every call writes all its files, so what is wrong then is wrong
without any failure. `LearnedIsKept` lets a full rule lose a sample only if it is the rule that held it, the generic one an unlinking moves it to, or
the one a push carries it to.

### Settings

A file is the sections the checks tell apart: whether it is the default, the reference fields it declares, and one section nothing is checked
about. A save is a step from its checks under `SAVE_LOCK` to the swap of the registry, unless the server stops after the
rename; `Merge`, the read of the stored file for an update, comes before the lock and is a step of its own.
`HandEdit` is an editor on the directory, which may break a file.

### ApprovalGate

`entries` is the book, `shown` the page somebody has open, which may be old, `lines` the audit lines on
their way (written or lost with a warning), `applying` and `running` the two steps of `apply` after the mark. `StopGate`
empties the book and not the page. `decisions` and `ran` are histories. The clock is a counter to `MaxClock`.

### ScopedPushes

One kind, one model, one phase. A producer exports (`Export`: which elements are where is any placement), begins (the
carry-over is read), and stores, or breaks off and sends the same again, or gives up. `overtaken` says that a push was stored
against another snapshot than it began with, which the code says it does not guard against. Storing is one
step; its own steps are those of `Lineages`.

`ServedIsLastPushed` speaks of each level by itself. An element that moves from a level out of scope to one in scope is sent with its new level and
carried over with its old one, so it is served on both until the old level is pushed again. The property says nothing of that, and neither does the code.

### LayerPolls

A body is what it is made from: plans of doors and rooms, policy, scope. A hash is the value it is taken of, so
collisions are left out. The server's read is seven steps, one for each look at the index, the settings or the files:
`IndexForTag`, `SettingsForTag`, `Assemble`, `IndexForDoors`, `OpenDoors`, `OpenRooms` and the answer the page
receives. `tagged` is a history, the body that came with the tag the layer holds; `torn` says that settings moved between a tag and
its body or that a milestone pinned a missing snapshot. The tag is stored and the body dropped if the revision is unchanged
(`TakeBody`), as in the code.

### Connectivity

Edges are made of facts (doors, zones, links, passages) that geometry has already turned into lengths, widths and heights;
`Nothing` is a size nobody knows. `Classes`, `Shortest`, `WidestBetween` and `TallestBetween` are the code's algorithms (union-find
without its path compression, Dijkstra with the heap's order, Kruskal by width), written as folds and recursive functions.
`RouteAtHeight` is the breadth-first search of the code, queue and all. Ties are broken as the code does. The reference definitions are `Walks` and `Joined`: all walks, and cuts of the set of rooms.

## Runs

| Run | Instance | Shows |
|---|---|---|
| `server` | the task store with 2 kinds, 1 room, 2 sessions, 2 tasks of 2 attempts; or lineages with 2 requests at a time, 2 models, 3 payloads; or the room graph, see below | the invariants of the store, that attempts are kept, and that it implements `RoomSlots` (`KeepsSlots`); a refused push leaves no trace, and doors are stored for all their models or none; routes, components and limits of size are true of all walks |
| `task_runs` | 2 runs on one model, 2 kinds, each a group of its own, 2 tasks of 2 attempts, nothing lost | no run that came to its end leaves a task claimed |
| `task_runs_losses` | 1 run, 3 kinds, 2 tasks of 2 attempts, one loss and one fault | what is stopped is reported first, all else as the run goes; each of its steps brings it nearer to its end; what it was handed is settled in the end, save the very task that a loss or a fault was about |
| `task_runs_own` | 2 runs | **violated**: a report is recorded on another session's attempt |
| `lineages_stops` | 1 request at a time that may stop, 2 models, 3 kinds, 3 payloads | what is live is of a phase the model had; filed is indexed; all of it implements `PhasedLineage` (`KeepsPhases`): phases move by activation only, and what left the quarantine is live |
| `lineages_moved` | 2 rooms pushes to 2 models | **violated**: a phase that was fixed is erased by a push to another model |
| `lineages_activated` | 1 request at a time | **violated**: the newest rooms are not of the phase activated |
| `lineages_cleared` | a push and an activation | **violated**: the quarantine is cleared of a push that was never filed |
| `desk` | eight stores, see below | the promises of each store: 15 invariants, 3 action properties and the types |
| `layer_stale` | doors and rooms of one model, rooms found by geometry | **violated**: a page holds an old body under the newest tag |
| `settings_lost` | one project, two updates under way | **violated**: a save takes back a section it did not send |
| `tags_moved` | 2 tags on 2 items, 2 type codes, no blueprint, no stops | **violated**: a tag pushed again under another code counts in two rules |

Why the bounds are enough to be interesting: two tasks of one key are the least that can clash, two attempts
the least that can be mixed up, and two sessions the least that can take a task from one another; three
kinds (`task_runs_losses`) give a run of two tasks both of its groups (`populate_room` and `create_rls`) or a group of two
(`populate_room` and `update_room`; two tasks of one kind for one room are never live together). Two models are the least a
manifest can hold of which one is changed and another restored; three payloads allow a live one, a quarantined
one and a newer one. Sessions (and handlers) are interchangeable, hence the symmetry, which is
left out where liveness is checked. `CHECK_DEADLOCK FALSE` stands where the system
may end: the runs all over, or every payload and stop used up.

`server` checks three parts of the server in one run: the task store (16,589 states), lineages (431,484) and the room graph (11,481). They share no file, so
`part` is chosen at the start, never changes, and says which one a behaviour is about. The graph has 3 rooms, up to 3 of 9 facts, 2 sets of heights and 7 questions, which gives
parallel edges, a detour that is shorter in length and longer in hops, unknown widths and heights, and doors to nowhere.

`desk` checks likewise the stores of people at their desks in one run. They share no state in these models, so a product of
them would show nothing more: `desk` is a variable that never changes and says which store a behaviour is about, and
the others stay as they begin. Pages, changes and producers may be exchanged, and so may
contents, payloads and two tags of one item: these are two exchanges and not six, since a behaviour is of one store (`Exchanges`). The bounds of each, with the states it takes alone:

| Store | Bounds | States | What they let happen |
|---|---|---|---|
| Blueprints | 1 id, 2 pages, 2 contents, 1 room, clock 1..2, 2 revisions, 1 pending, 1 write on a clock that stands | 38,973 | a page writes on what the other has replaced; an id of a pending push after one was rejected; an assignment of what was revised meanwhile |
| Library | 2 blueprints, 2 sheets with 2 numbers, 2 bundles (one of the second sheet alone, one of both that takes over and renumbers), 1 request, people, the Sheets button with the first sheet, 1 waiting, 1 stashed | 181,365 | a bundle that conflicts only by the time it is accepted; a stash that is full in the midst of a bind; a rejected push |
| TagRules | 3 tags, 1 code, 1 blueprint, rules of 2 samples | 504 | a sample that moves between rules, a full rule, a stop between any two files |
| Settings | 2 projects, 1 admin, 1 label, 2 dates, the one project edited by hand, the other uploaded to | 61,235 | an update merged before an upload or a create and saved after; a broken directory; a stop after the rename |
| ApprovalGate | 2 changes, 2 payloads, 1 tick to live, 1 undecided | 47,698 | a decision on a stale page after expiry, after a restart, twice |
| ScopedPushes | 1 element, 2 levels, 2 producers, 3 exports | 33,778 | an element that moves between levels, a push sent twice, a whole push between scoped ones |
| LayerPolls | 1 model, 1 snapshot per kind, 2 settings files, 2 scopes | 47,636 | a push or a save between any two looks; the scope left and returned to while an answer is on its way |
| SnapshotIds | 7 ids of one day: with and without a fraction, T or t, Z or +00:00, one of another zone | 4,096 | a name of which the id cannot be told; a file without its entry, an entry without its file; one moment written in two ways |

One bound was widened by hand without another result: `LayerPolls` with two snapshots per kind (705,412 states, no violation).
The theorems below hold for any. With one caller the requests of `Library` do not overlap each other, only people and the
Sheets button come between their calls; the theorems about `Library` cover any number. `desk`, `layer_stale`, `tags_moved` and
`settings_lost` say `CHECK_DEADLOCK FALSE`: stores stop at their bounds (revisions, exports, proposals).

Every property of a passing run is paired with a mutated form of an action or a helper, beside the
original in the module, that violates it: a limit missed by one, a clash not looked for, a sweep of
one group only, a comparison dropped, a file not indexed. No formula uses them; they show that a slip
in the code of that kind would be caught.

### Fairness

`RunSpec` assumes weak fairness of each run's own steps, `RunStep(s)`: `tasks_entry` is one
script on one thread, its dialogs return, and requests time out into an error. Nothing is assumed of
people (`Choose`, `People`), of Revit staying alive (`Die`) or of the network. `HandedTasksAreSettled`
therefore excepts runs that died and the very tasks whose claim or report went missing (`missed`), and only those. The
server's requests have no fairness at all; `Lineages` and the stores of `desk` have safety properties only: nothing
in the code promises that a pending revision is decided, a change approved or a save repeated.

## What the violated runs say

1. **A report is not tied to an attempt.** `record_one` (`src/tasks.rs:559`) asks whether the task
   is in progress and writes on the last attempt. Claimed by A, resent by a person, claimed by B: the report of A
   ends B's attempt, and B's own is refused.
2. **`project.toml` is read and written back without a lock** (`src/storage/fs.rs:332`). Two pushes to
   two models of one project: the later write restores the other model's entry as it was, without
   its phase. The index of snapshots heals from the directory; a phase does not.
3. **An activation files an old snapshot under its old name.** If newer rooms of the old phase
   went live since, they stay the newest and are what is served, in a model that now says the other phase.
4. **The quarantine is cleared by name.** A push quarantined while an older one is
   promoted is deleted with it (`src/storage/fs.rs:795`).
5. **A tag outlives the body it came with** (`src-js/viewer/entityPoll.ts:223-228`). The page compares bodies by
   the revision, which is of the doors snapshots alone, and keeps the tag, which is of rooms and settings
   too. A rooms push that moves a door to another room, or a policy that is saved, gives a new body under the old
   revision: the page keeps the old body with the new tag and is answered 304 until doors are pushed or the scope
   changes. The comment at 192 says a tag is only held alongside an accepted payload. The server's side is right:
   `MatchingTagMeansBody` holds and is proved.
6. **An update is merged outside the lock it is saved under** (`src/settings_api.rs:630`). Of two updates that each send one
   section the later one saves the other's section as it was.
7. **A moved sample stays in a rule the same push writes** (`src/tag_rule_binding.rs:136`). The old samples of the tags of a push are taken out of the rules
   the push did not write; the rules it did write replace only what they were sent themselves. A tag whose type code went from A to B, pushed
   together with another tag of code A, counts in the rules of both codes, though no call failed, until a push that carries it leaves A alone.

More limits show in the passing runs. An id whose file lost its entry is recovered from the name; one with `t` or a space
before the time keeps its dashes there and sorts before its neighbours, which `IndexNamesTheLatest` leaves out. What the comment of `tasks_entry`
says, that no task stays claimed, is not true of a task whose claim or report itself went missing: the run does not know that it holds it, or takes it for
reported, and a person has to resend it. `NothingStaysClaimed` and `HandedTasksAreSettled` leave out these tasks and no other. `PhaseFixed` and `ClearedOnceLive` hold for one request
at a time by their theorems and as part of `KeepsPhases`, `LiveAgreesWithLineage` is checked for one; none of them is claimed for two. `LiveAgreesWithLineage` also fails if a promotion stops between
filing and re-phasing, and is stated for requests that were not stopped. `BoundAreCarried` and `TakenOnlyIfAsked` are
stated for requests that neither overlap nor are cut short, `ServedIsLastPushed` for pushes that are not overtaken,
`AcceptedBoots` for directories nobody edited, and `MatchingTagMeansBody` for bodies not read across a settings
save: each exception is a history variable of its module, and each is a way the code really goes.

## Proofs

Eight modules hold theorems, each for any values of the constants under the assumptions its module names. None of
them bounds anything but what the code bounds. Three take sets to be finite: `Lineages` that of the models, which are the entries of one
file, `TagRules` those of the tags and the rules, which are files of a directory, and `Connectivity` that of the rooms. In each there is an inductive invariant (`IInv` in `RoomTasks_proofs` and `Lineages_proofs`, `StoreInv`, `LibraryInv`, `SettingsInv` and `GateInv` for the stores on the desks, named below for the others), each action has a lemma, and temporal steps combine
them by PTL.

### The task store

`RoomTasks_proofs` proves, for any kinds, models, rooms, sessions, results and bounds (assuming only
`BoundsAssumption` and `ResultsAssumption` of `RoomTasks`):

* `Invariant`: `TasksSpec => []IInv`; and from it `TypeCorrect`, `OneLiveTask`, `LastAttempt`,
  `OneSession`: the four invariants of the store that run `server` checks;
* `AttemptsAreKept`: `TasksSpec => AttemptsKept`, the action property;
* `StoreKeepsSlots`: `TasksSpec => KeepsSlots`, the refinement of `RoomSlots`.

The invariants are not inductive alone. `IInv` adds two facts: `AttemptsInBounds` (a task waits
only while its attempts are below the bound, so a claim stays within the type) and `HandedAreHeld` (the history
names attempts the store has, so the attempt a claim opens, the next one, was handed to nobody). The second is
what `OneSessionPerAttempt` rests on; attempts only grow, so an opened attempt is never the
next one again. `OneLiveTaskPerRoom` needs `~Clash` of `Create` and of `Resend`, and that no
other call makes a task live. Each action has its lemma, the lemmas about single tasks (`OpenedTask`,
`FinishedTask`) stand before them, and the last steps combine them by PTL.

`AttemptsAreKept` needs `LastAttemptTellsState`: a report writes on the last attempt of a task in progress, and
that one holds no status yet.

For the refinement, the slot of a key is what its one live task makes of it, which is a function only because of
`OneLiveTaskPerRoom` (`SlotMap`, `SlotOfLive`, `SlotOfNone`). A claim of several tasks, whole or cut short, is one step of the
slots that hands over several (`OpeningHandsOver`); a ticket it gives is new because attempts are kept. A report, in part or whole,
vacates the slots of the tasks it ends (`ReportVacates`); creating and resending queue, dismissing vacates. `StepsKeepSlots` puts them together.

### The runs

The same module proves of `TaskRuns`, for any number of runs, tasks and losses (assuming also `RunBounds`, `KindsAssumption` and
`ReportsAssumption`):

* `RunsUseTheStore`: `RunSpec => TasksSpec`. A run makes no call that the store's specification does not allow, so every theorem above
  holds of the store under the runs;
* `RunTypes`, `WorkIsReported`, `StoppedFirst`: invariants of the runs `task_runs` and `task_runs_losses`, however much is lost;
* `NothingIsLeftClaimed`: `RunSpec => []NothingStaysClaimed`. The run `task_runs` checks it with nothing lost; the theorem says of every behaviour
  that a run which came to its end left only those tasks claimed whose own claim or report went missing;
* `RunsEnd`: `RunSpec => RunsComeToAnEnd`. `StepsLeft` is a measure: no step of anybody raises it, and every step of the run lowers
  it. With `NothingIsLeftClaimed` and the fairness of `RunStep` it is why `HandedTasksAreSettled` holds; that last step needs ENABLED and stays
  with TLC.

The invariant is `RInv`. `HoldsHanded` says that a run works only on what it was handed, and where in `Order` it may be at each
`pc`; `WritesReported`, that what is written is reported or is the one task in the outbox; `GroupReported`, that of the group at hand
each task is reported, in the outbox or still to write, and at the sweep each task the run holds; `Settled`, for each
claim in the history that did not go missing, that the run it was for holds the task and that what it reported is not open for it. The steps of one run leave
the others `Untouched`, and whatever happens to the store only `Grows` (tasks stay with their keys, and an attempt that is
over is never open again), so `RunsMove` and `OneRunMoves` reduce each action to the run that takes it. TLC checked `RInv` beforehand
on the instances of `task_runs` (without symmetry: 3,423,641 states) and `task_runs_losses`.

### Lineages

`Lineages_proofs` has two parts. For any number of requests at a time, models, payloads and stops: `LineageTypes`, `RefusalsLeaveNoTrace`
and `OpeningsAreWhole`. `IInv` says that payloads are told apart by `taken_at` and what lies on the disk was sent and not refused
(`SentFits`, `DiskFits`), what a request holds at each step (`RequestFits`), and how far a push of doors has come: decided for all its models before any is stored,
and filed for those behind it (`OpeningFits`, `WholeUnlessStopped`). Two assumptions were added to the module for them: `ModelsAreListed`
(the models are finitely many) and `SentinelsAreNew` (what stands for no phase and for no payload is neither).

The other part assumes `OneAtATime`: there is one handler, which takes any number of requests one after another and may stop at any step of each.
Then `FiledAreIndexed`, `LiveIsOfThePhase`, `PhaseStaysFixed` and `ClearedLast` hold, the properties of run `lineages_stops`, by `AloneFits`: the
copy of the manifest a request holds is the manifest, the bytes it holds are those in quarantine, and only what is being activated may be ahead of its
lineage. The assumption is needed. With two requests at a time each of the four is violated (`lineages_moved` and `lineages_cleared` show it of
`PhaseFixed` and `ClearedOnceLive`; on their instances TLC refutes the other two as well).

`LineagesKeepPhases` is the refinement: under `OneAtATime`, `Spec => KeepsPhases`, for any models, kinds, payloads and stops. Each write of the disk is one step of `PhasedLineage`
or none: `IndexPush` is `Fix` when the lineage had no phase (`IndexFixes`), `Rename` is `Join`, `Quarantine` is `Hold`, `FilePromoted` is `Admit`, `Rephase` is `Move`, `Clear` is `Release`; the
rest changes nothing the abstract specification has. What `AloneFits` does not say is that a decision still stands when it is carried out: `PhasedFits` adds it (`DecisionsStand`). The one step
that could undo the decisions of the models still to go through is the index of the one at hand, which is another model's, as no model is named
twice in `Orders`. It also keeps that what is to be filed is not filed yet, so that nothing
live is overwritten, and that what was sent is among what is offered (`SentOffered`).


### The stores on people's desks

`Blueprints_proofs`: `BasesAreVersions`, `PushesAreInOnePlace`, `PinsAreKept`, `RevisionsAreKept`, `StoreTypesHold`. That a base
that holds is of the very file needs `SeenIsOfThePast`: what a page shows carries a stamp no later than the file's, and the same stamp
only if it is the file. Stamps are a strict order in which `next_stamp` goes up whatever the clock says (`StampsGoUp`, `LaterIsOrder`), and
`GoingOnKeeps` is the one lemma every write of a file goes through. `AssigningIsKept` carries a pin over the distance
between read and write.

`Library_proofs`: `BoundWereAccepted`, `CarriedAreBound`, `TakenIfAsked`, `LibraryTypesHold`. `RequestsFit` says that a request past its accept carries a bundle whose sheets
were given to its blueprint; `given` only grows (`Grows`), so what is bound, and what waits in a stash, stays accounted for.
`CarriedAreBound` and `TakenIfAsked` are about requests that do not overlap and are not cut short. `CalmFits` says what is then true between two calls:
one request is under way (`OneAtATime`), what its check found stands until it binds (`ChecksStand`), and a sheet bound to a blueprint is carried by its
last bundle, bound by hand, or bound by the request under way and not yet entered (`Accounted`). The attempt to prove it showed that
the history of by-hand bindings was forgotten too early: a bundle of one blueprint that only left a renumbering with a sheet
erased that a person had bound the sheet to another. The history was corrected, and the instance of `desk` now has the case.

`Settings_proofs`: `AcceptedAlwaysBoots`, `DiskIsServed`, `SettingsTypesHold`. Both properties are inductive with the types. A save is checked
against the newest CSV and the other files (`SavedLoads`); an upload against the file, whether its CSV becomes the newest or
not (`StoredFits`, `UploadedLoads`); so the reload finds a directory that loads (`WrittenIsServed`), and a reload that
fails is after an edit by hand.

`Settings_proofs` also proves of the gate `GateRunsAsApproved`, `GateTypesHold`. A change is drawn once (`OnlyDrawn`), decided once because only a pending one
can be (`DecidedOnce`), and what is on its way to run is marked applied and is in one of the two steps or has run (`OnTheirWay`). The limit of
undecided changes is carried by a second invariant, as it needs cardinalities.

`Layers_proofs` of `ScopedPushes`: `LastPushedIsServed`, `ScopedTypesHold`, from `PushInv`. While nothing is overtaken, a push that has begun carries what is served off its
levels (`CarriedFits`), and what was named last for a level is what is served on it.

`Layers_proofs` of `LayerPolls`: `MatchingTagsMeanBodies`, `CursorsAlwaysAgree`, `LayerTypesHold`, from `PollInv`. The index only moves on (`IndexMovesOn`), and a plan
that is the same at an earlier and a later index is the same between them (`PlanBetween`). So a body read after its tag, if the tag is
the store's again later, was read from the plan of the tag. `Vouches` says this of every later index at once, which makes it
stable under pushes; `PollInv` keeps it of every read under way and of the layer.

### What goes through lists

`Lists_proofs` proves of `TagRules` that `RulesCountOnce`, `RulesAreTyped` and `LearningIsKept`, and of `Connectivity` that
`JoinedRoomsShareComponents`, `WidthLimitsHold`, `HeightLimitsHold` (together `LimitsHold`) and `RoutesAreLeast`: the properties `CountedOnce`, `TagTypeOK`, `LearnedIsKept` of run `desk`,
and of run `server` `ComponentsAreJoined`, `LimitsAreTrue` and `RouteIsLeast`, for lists of any length.

Both modules compute by folds, and what a fold computes takes an induction over the list. The library's induction theorems cannot be used, as they take
an operator as a parameter; but a set of numbers that is not empty has a least one (`LeastNumber`, from the well-foundedness of `<`), and that suffices: a
set that holds 0, and n + 1 with n, holds every number up to N (`CountUp`). A function that is defined by recursion then exists (`Recursion`), so does the
one `FoldLeft` chooses (`Iteration`), and whatever was chosen counts up step by step (`FoldSteps`). The folds of the model are followed so: `OnlySteps`,
`PooledSteps`, `JoiningOf`, `ClassesSteps`, `RelaxSteps`, `SeeSteps`, `CostSteps`, `EndSteps`. `SelectSeq` and `SortSeq` have no definition the provers see, so `Only` and an order chosen among
`SetToSeqs` stand in their place.

The invariant of `TagRules` is `RulesFit`: every rule, and every exported one, is a `Rule`, a sequence without repetition no longer than it may be. `MergedOf` says
what merging makes of two of them, `CutMergedOf` what is left when the result is cut, `PooledOf` what comes of merging several one by one: what any of them
held is there, or the rule is full. `ObservedKept` and `UnlinkedKept` add the order of the files: the rule that gains a tag is written before the rule that loses it, so
wherever the call stops the tag is in one of them.

Of `Connectivity`, `MergingFits` is the step of union and find: the ends of each edge so far are of one class (`ClassesFit`), and rooms of one class cannot be
separated by a set of rooms no edge leads out of. `ClassesAreJoined` turns this into the equivalence; `EdgesAreWires` says that what `EdgesOf` makes of the facts joins
two different rooms in scope. That zones, links and passages do is `MapAssumption`: `authored_edges` leaves out what is not in scope, and the document is refused when a zone
lists a room twice or a link or passage joins a room to itself (`connections.rs` 481, 535, 682). `OrderThere` says that a finite set can be put in a strict total order, by counting what comes before
each member; from it `ComponentsOf` reads off the numbers and sizes, and `WidestFirstOf` that no edge is wider than one before it. `WidestBetweenIsTrue` is
Kruskal's argument: the edges up to the one at which the rooms meet are wide enough if that one is, and if it is not, none after it is, and those before do not join
the rooms. `MapAssumption` says that a width is a number or not known, never a NaN, which `total_cmp` would order and `>=` would not.

`RoutesAreLeast` is Dijkstra's argument. A room is `Settled` when it is reached and does not wait in the heap with what it is reached at. `SearchFits` says of a
search under way that no room settled is reached for more than what waits, that every edge at one has been tried, and that each room was reached from one settled
for the cost of that and the edge. `Ways` adds that there is a walk to each room, of the cost it is reached at, which uses no edge twice, and that nothing else can be read back
from `via`: `WalkedBack` chooses a function by an equation, and this is why it can only be those walks. `AllTried` follows the edges of one room through the fold. A pop drops an entry
that is stale (`StaleIsDropped`) or settles its room (`SettlingFits`, `WaysGrow`), and leaves less to pop either way (`PopIsALoss`): what waits and the edges
that may still be tried, each in one of two directions, are `1 + 2 * Len(edges)` at the start, so the bound `pops` of the model is one the loop in the code never
reaches (`SearchEnds`). Every walk to the room looked for costs at least as much as something that waits (`NoneCostsLess`, by counting up along the walk), and what is popped last is the cheapest of that.
`MapAssumption` says that a length is a natural number: with none below 0 the argument holds. The code's lengths are sums of distances, and the cost of a link
is refused unless it is above 0.

`HeightLimitsHold` rests on the same two ideas for the search by hops. `VisitFits` says of a search under way that there is a walk to each room seen and that
nothing else can be read back; `Closed` that every edge at a room that is seen and not queued leads to one that is seen. Each pop takes one room off the queue, and each room joins
it once (`VisitIsALoss`), so the `NodeCount` pops of the model are all there can be (`VisitsEnd`), and when the queue runs empty the rooms seen are a set no edge leads out of:
`BreadthFirstOf`. `TallestBetweenIsTrue` is about the heights tried. The lowest height on the route at the greatest height that joins the rooms is given as the limit: what passes
below it passes along that route. Conversely, if an object of height h gets through where every height is known, so does one of the least known height that is not below h, so the
greatest is no lower, and neither is anything on its route. Where a height is unknown the converse fails, as it should: the limit is the lowest of what was checked.

### Snapshot ids

`Lists_proofs` proves of `SnapshotIds`, for any set of ids and any precision of each, `IdTypes`, `FilesListedOnce`, `IndexAndFilesAgree` and
`LastOfAlikeIsNewest`, the invariants about ids of run `desk`. The invariant is only `IdsFit`: the types, and that the files are finitely many, so that one of them is last. The rest is
about the order of strings. `LexIsStrict`, `LexGoesOn` and `LexTells` say that it is a strict total order of sequences, and as an id can be read off its text (`TextTells`) it is one of
ids (`BeforeOrders`); so a finite set of ids has exactly one that is last (`LastOf`, by the least number of ids that come after one). `NamesKeepOrder` says that dashes for colons keep the order, because the marks of two ids are
the same and never the first to tell them apart; with the list naming each file once, the last id and the last name are one snapshot's. `LaterIsAfter` says that the order is that of time for ids in UTC of
one separator and one length of fraction: day, hour and rest are compared first as numbers, then digit by digit.

`PrecisionsMisorder` says that one length is what it takes, against the words of `validate_snapshot_id` ("keeps the store's lexical-max-is-newest
ordering sound"): `10:00:00.5Z` is later than `10:00:00Z`, and both are accepted, but a full stop sorts before Z, so the older snapshot is served. Producers of one
precision are not affected: the extractor here and `ensure_taken_at` both write six digits and Z.

### The stores side by side

The run `desk` checks eight stores that share no state: in a behaviour one of them steps and the others stand still. `DeskIsEachStore` in `Desk_proofs` says that such a behaviour is one of
each store (`DeskSteps`: a step of one is a stutter of the rest), for any constants. So every theorem above about one of them holds of the specification the run checks, which is stated for
`DeskTypeOK` (`DeskTypesHold`): it combines the eight theorems on types.

### Only model-checked

`HandedTasksAreSettled` is liveness, beyond the provers with fairness and ENABLED; `RunsEnd` and `NothingIsLeftClaimed` are its safety part. All else that a passing run
checks is also a theorem.

## Plan

Done, of the plan this project began with: the task store and its runs, lineages, blueprints with sheets, tag rules and assignments, level-scoped pushes,
settings, the approval gate; added to it, layers on screen and the room graph. Then the abstract specification of lineages with the proof that they implement it, and the order of snapshot ids. Left, in this order:

1. Scoped pushes over `PhasedLineage`, in two phases (`src/state.rs` 907).
2. The names of blueprints in the push from Revit, and the composition of `Blueprints` with `Library`: one file holds both the
   revision and the bundle that waits with it.
3. Directories made and removed in the snapshot store; placements.

## Not modelled

Most of the code is not a protocol. The read services other than those named (validation, reports, areas, comparison, adjacency, rooms), the
resolver, capture and task building are pure functions of stored snapshots, mostly over floating-point geometry, and answer
from one read; what a small model of them could say, their unit tests say over real numbers. `Connectivity` is the part of
them whose answer is discrete. Of handlers, the refusals that precede every read of the store, query parsing and wording are left out.
Authored connections are one record under a base, as `Update` of `Blueprints`. `MemStore` is a test double under one
lock. The MCP server over RoomMate reads and bounds answers and keeps nothing. Exporters and writers act on a Revit model
through an API that is not here. The browser pages render; what a person does there is in `People`, in the pages of `Blueprints`
and in `LayerPolls`. Backups of replaced files, comments kept in settings files, logging and wording are left out.

So the map names a small share of the repository's lines: the code that decides what is written, and in what order.
