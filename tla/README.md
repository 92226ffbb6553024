# Photoproof: formal models and proofs

Photoproof keeps a photographer's remarks about photographs as append-only
event journals. The desktop program holds them in an SQLite index, mirrors each
image's journal into a sidecar file beside the photograph, merges what other
machines wrote into those files, indexes watched folders, embeds images and
words as vectors, records speech, and runs speech and language models in child
processes. This directory models the parts of that program whose correctness
depends on interleaving, order and failure; TLC checks the models on small
instances and TLAPS proves the most important results for all instances.

Paths below are relative to the repository's `src/`; `core/` stands for
`crates/photoproof-core/src/` and `shell/` for `apps/desktop/src-tauri/src/`.

1. The system - 2. Modules - 3. Runs and bounds - 4. Fairness - 5. Proofs -
6. What the models found - 7. What is left

## 1. The system

| Part | State it keeps | Operations | What makes it correct |
| --- | --- | --- | --- |
| Event store, `core/store/` | events with their `redacted_by` marks, `redactions` registry, `sidecar_dirty`, derived rows | `append`, `redact`, `merge`, `ack_dirty`, `rebuild_derived` | redacted text never returns; merge is a set union whatever the order; derived rows are the fold of the truth |
| Sidecar engine, `core/sidecar/` | sidecar and overflow files, debouncer, `redaction_queue` | `pump`, `flush_*`, `redact`, `migrate_overflow`, `drain_redaction_queue`, `scan`, `rebuild_from_sidecars` | no dirty row means the files hold the journal; no file destroyed unread; scrubs reach every file |
| Process supervisor, `core/runtime/supervisor.rs` | process state, child handle, restart budget, endpoint, children.json | gates, desired run, `tick`, `stop`, `restart_runtime` | no child let go alive, honest readiness, paced restarts |
| Supervisor host, `shell/supervisors.rs` | desired and current target of each role, tick thread, stop flag | `apply`, tick loop, `restart_runtime`, `shutdown` | the plan is followed, nothing superseded respawns, nothing runs after shutdown |
| Ingest queue, `core/library/ingest.rs`, `mod.rs` | pass rows (pending, running, done, error, skipped) | claim, mark, retry, re-pend, defer | a done pass is of the present words and model; a reachable file is worked off |
| Ingest pipeline, `core/library/mod.rs` | the rayon pool, a bounded channel per drain | `run_pipeline` | a drain ends, and no claimed row stays in a worker's hand |
| Vector store, `core/retrieval/ppvec.rs` | metadata rows in SQLite, a flat file of rows | sweep, upsert, zero, compact, recover | a live row points at its own vector; redacted text keeps none |
| Vector repair, `shell/state.rs` | pending, running and last target | request, reconcile, doctor | what is done for a model has its vector |
| Path index, `core/library/scan.rs`, `watcher.rs`, `mod.rs` | path rows, watcher, debounce entries, scan | scan, observe, relink, rename, remove root | a row that looks unchanged is unchanged; the index becomes the disk |
| Capture, `core/capture/`, `shell/mic.rs` | scope ring, utterances in flight, sessions | push audio, finals, drain, rotate | a remark goes to what was on view when it was begun |
| Collections, `core/collections/` | tables and one JSON file | edits, union merge, debounced flush | file follows database |
| Pass scheduler, `core/runtime/scheduler.rs` | two lanes, holds | submit, cancel, retry, answer | one answer per job, whatever is cancelled |
| Model files, `core/runtime/`, `shell/runtime.rs`, `model_registry.rs` | weights on disk, index, registry, gate, download rows | download, verify, delete, recover, launch | only whole weights are loaded; a download settles |
| Embedder host, `shell/embedders.rs` | one slot per role with a generation | build, land, expire, apply, shutdown | only the current build lands |
| Background pumps, `shell/pump.rs`, `resource_governor.rs`, `disk.rs` | lanes, Pause, disk flag, microphone | six pumps, wake reconcile | the microphone preempts, no lane starves, a wake is reconciled |
| Tasks and shutdown, `shell/managed_tasks.rs`, `command_work.rs`, `state.rs`, `diagnostics.rs` | admission flags, live tasks, marker file | spawn, admit, `App::shutdown` | nothing writes behind the final checkpoint |

How they meet: a command appends to the store, which marks the image dirty in
the same transaction; the shell's pump asks the engine to flush what is dirty;
flushing first merges the file it finds, which is how documents of other
machines arrive; a redaction scrubs the store and its vectors, then the files it
can reach, and queues the rest. Scan and watcher write path rows, whose new
images become pass rows; the pumps' drains claim those under a lane of the
governor and put vectors into the vector store. The plan loop (every two
seconds) reaches supervisors and embedders through their hosts; their endpoint
cells are what speech and language clients read. `App::shutdown` closes
admission, waits for tasks and commands, stops children, flushes and removes
the marker that tells the next launch of a clean exit.

What is hard: several threads flush and redact one image without a common lock;
volumes come and go between two steps of a flush; files change from outside and
under a scan; large merges and compactions commit in steps, between which the
process may be killed; a redaction may arrive before the event it is about;
children exit, hang and answer late while plans flap; a recognizer splits, merges
and delays what was said while the window moves on; threads, locks and lanes wait
for one another while the program quits. `PROJECT.json` lists these hazards at
their lines, with the properties that watch each.

## 2. Modules

| Module | Models | Notes |
| --- | --- | --- |
| `JournalContent` | what a journal or document says: events, and which of them are husks (scrubbed) | shared algebra: `Join`, `Within`, `Shows`, `Scrub` |
| `SidecarSync` | the engine for one image | one action per engine step between two locks or I/O calls |
| `EventJournal` | the promise of the store: journals grow by union, redactions stick | abstract specification |
| `EventMerge` | the store on several devices | shown to implement `EventJournal` |
| `Supervisor` | the supervisor's machine, its child, probe, clock and outputs | |
| `SupervisorHost` | one role of the desktop's host | EXTENDS `Supervisor` |
| `IngestQueue` | the pass rows of one image, both lanes, the journal that re-pends them | |
| `VectorStore` | one space of vectors | file operations and transactions are the steps |
| `VectorRepair` | who reconciles a space after a model became ready | |
| `EmbedderHost` | one role of the embedder host | attempts, helpers, calls |
| `QuitBarrier` | tasks, commands, lanes, microphone thread, `App::shutdown`, marker | |
| `Capture` | capture engine, sessions and the commands that drive them | |
| `Collections` | one collection, one image, the file | |
| `PassScheduler` | two lanes of language-model jobs | |
| `ModelFiles`, `DownloadQueue` | weights with index and registry; queue, worker and cancel flags | |
| `PathIndex` | the path rows of one root over a changing disk | |
| `Pipeline` | two drains on one thread pool | |
| `Pumps` | six pumps and what admits them | |
| `SafeParts` | six machines that share nothing (supervisor, scheduler, files, collections, path index, pool), one moving | so that one run and one proof module can hold their safety |
| `FairParts` | four machines (path index, repair, download queue, pumps), one moving | the same for liveness, and for the proofs about repair and pumps |
| `MC*` | constants for TLC | |
| `SidecarSyncProofs`, `EventMergeProofs`, `SupervisorProofs`, `IngestQueueProofs`, `QuitBarrierProofs`, `VectorStoreProofs`, `SafePartsProofs`, `ShellProofs` | theorems | TLAPS |

**SidecarSync.** `index`, `dirty`, `queue` are the database; `adj` and `ovf` the
two files; `call[t]` the local state of the thread inside the engine. A flush is
the sequence locate, read, ingest (merge what was read), snap (serialize), temp,
rename, seen (read the dirty row), ack, again (compare and go round). The steps
are separate because the code takes the store's lock inside each and no lock
around them. `upto` abstracts `since_ts`: an acknowledgement deletes the row only
if the mark it observed is the row's present one. `Duty[t]` says which calls a
thread makes. `slips` is a history variable: it records the known ways in which
the code loses a mark (out of tries, a mark between the overflow file's snapshot
and its acknowledgement, an error after an acknowledgement, a quarantined file, a failed
migration, a kill at the wrong moment, an outside edit); `CleanMeansMirrored`
says there are no others. `blind` is history too: the threads whose look at the slot is
out of date, because the volume was away as they looked or the file changed outside
since; `NeverDestroy` says that no other thread ever destroys what the slot holds. Left out: case-renamed siblings, rehoming, session
journals, a corrupt overflow file, write errors other than a lost volume. An
event stands for a whole revision chain.

**EventMerge.** `held`, `by`, `acts`, `reg` are the truth tables and the registry,
`fts` stands for all derived rows, `docs` for every document ever written, all in
circulation for ever. Every write holds the store's writer lock, so it is one
step; only a large merge is several transactions, between which a kill may fall.
`stale` records the remarks whose recompute a kill cut off. Left out: ratings,
strokes, sessions, ids older than their target, malformed documents.

**Supervisor, SupervisorHost.** States, phases and transitions are the code's;
Spawning and Restarting last no longer than a call and do not appear. `Due` keeps
time from passing while a tick has something to act on. `lapse` is the deque of
restart attempts, `proc` the operating system's processes, `reg` the entry in
children.json; `recent`, `owed` and `stale` are history. The host adds the target the role
should run and does run, its two callers, each of which reads the stop flag before
it takes the role's mutex, the tick thread, shutdown, death of the program and
the sweep at the next launch. Children survive a kill (the macOS case).
`App::shutdown` waits for the callers, but for three seconds only (state.rs:69), so
shutdown may go on beside one; the history variable `late` holds the callers that
were still in a call when it did and have not come back since. Left out: failed
writes of children.json, children without a provable start time, decision logs, argv.

**IngestQueue.** `row[p]` is a pass row, `item[l]` what lane `l` has claimed, with
the words and the model it read; deferrals cost no attempt. Left out: metadata
passes, audio, the queue of other kinds.

**VectorStore.** `meta` is a remark's metadata row, `file` and `tmp` the cells of
the two files, `marker` the `ppvec_compactions` row, `io` the process-wide file
lock, `pc` and `reg` where a thread is and what it read. The doctor's recovery takes no
file lock and may fall into a compaction of the drain, as in the code. `told`, `quiet`
and `torn` are history: redactions that returned, redactions that found the store at
rest, and whether such a recovery renamed or removed the rewritten file of a running
compaction or cleared its marker.
`ByRow(S)` is the set of enumerations of `S` in order of file row. Left out: search,
norms, several chunks of one event.

**VectorRepair.** `pending`, `inFlight`, `last` and `running` are `VectorRepairState`; the
requester, the task and the doctor each hold between two locks what they have
read. A reconcile deletes the rows of each space for good before what may fail next,
and the re-pend that it asks for is a transaction of its own: `ReconcileBreaks` and
`RependBreaks` are the error exits between them. `draining` tells whether a drain has begun
with the Ready embedder, and so re-pended what others did. `forsaken` is history: the
done passes whose rows a reconcile took without any re-pend to come, because it judged by
a model that does not write (any more, or yet) or because it broke off. Left out: a
reconcile between a row's insertion and the mark of its pass.

**PathIndex.** A file is its content and the stamp of the write that made it; a
row keeps size and mtime as the code does. Scan (walk, hash, apply, close) and
watcher (events, debounce, observe, rename) run the same observation code;
hash and apply are separate steps, `handle_rename` and a stat with its match are
one each. `polled` says that the watcher has lost events and scans every ten minutes,
`walkDue` that the launch or the return of the root still owes its scan, `muddled`
that something was missed that no such scan will see. `departed` and
`misled` are history: where a file was renamed away, and the rows that a pair of names
moved to a file of the same size and another content. Left out: case
aliases, cloud placeholders, the clock shift, move correlation, volume probes,
two scans of one root, a pause of the watcher.

**Pipeline.** Every pool thread has a stack of frames, because rayon lets a thread
that waits for a scope run other work on top of it.

**Pumps.** A pump looks, waits for a lane, works a bounded batch, looks again;
turns that find nothing are left out (500 ms of rest against the 100 ms poll of
a waiter). **QuitBarrier** keeps a task's work abstract but for what makes it
late: lanes, pauses, sleeps, calls that never return. **Capture** takes frames,
onsets and transcripts from the environment. **EmbedderHost** leaves out the
frame protocol, **ModelFiles** and **DownloadQueue** licences, disk space and
`Range` resume, **Collections** notes and the file's format, **PassScheduler** the
coordinator that asks for deletions.

## 3. Runs and bounds

| Run | Checks | Instance and why it is enough |
| --- | --- | --- |
| `sync` | `CleanMeansMirrored`, `AdjacentScrubbed`, `NeverDestroy` | one local and one foreign event, two threads that flush and redact, one of which also migrates, drains and scans, `MaxTries` 2, so that two threads can exhaust the loop. Either three volume changes (away, read-only and back); or any file but a sidecar in the slot, one outside edit at any moment and one volume change; or another machine's sidecar in the slot and one edit |
| `live` | `EventuallyMirrored` | what the shell runs: the pump, which flushes, and a thread that flushes and redacts; one event, one kill, two volume changes, `MaxTries` 3 |
| `merge` | `Supreme`, `Convergent`, `DerivedIsFold`, `UnpublishedIsDirty`, `Implements` | two devices, a remark, its revision, a retraction of that, two redaction acts, two documents, chunks of two events, one kill; symmetric devices |
| `roles` | `OwnedOrRecorded`, `ShutdownIsFinal`, `NoResurrection`, `PlanIsFollowed` | two targets; after the first plan two changes (A to B and back), or one change with a restart, or one with a kill and relaunch; shutdown at any moment in each |
| `vectors` | `LiveRowIsOwn`, `RedactionHolds`, `EventuallyEmbedded` | two remarks, two calls of the journal, one kill; a sweep that finds two rows, a compaction that moves one; the doctor, which opens the store once, before the kill (after one the program's own recovery comes first) |
| `queue` | `DoneIsFresh`, `Settles` | one image, two models, limits of 2 and 3 attempts, one change of words, one fault, one move |
| `helpers` | `ReadyIsServed`, `BuildSettles` | two models, two attempts, two changes of plan |
| `quit` | `FinalStepsAreAlone`, `QuietQuitEnds` | two tasks of different lanes, one command, one lane at a time |
| `capture` | `WordsLandOnView`, `DisarmSettles` | two pictures and a topic, three time units, windows of one; either the window changes while the user speaks, or the microphone is armed twice and sessions rotate |
| `parts` | `NoOrphan`, `Announced`, `RespawnPace`, `OneAnswer`, `LoadedIsWhole`, `CleanIsWritten`, `FastPathIsSound`, `AbsenceIsProven`, `NothingInHand` | supervisor: two processes, two attempts in a window of five, backoff up to two; scheduler: three jobs, two losses; files: two weights, two versions, three mishaps; collections: two names, two edits, two slips; path index: two paths, two contents, two changes, one upset, and renames told as two halves, as a pair between equal sizes, or as a pair between different ones; pool: two drains, three threads, three rows |
| `fair` | `DoneHasVector`, `RepairFollows`, `DownloadSettles`, `IndexConverges`, `MicPreempts`, `NoLaneStarves`, `WakeIsReconciled` | repair: two images, two models, two loads, two faults; downloads: two models, two attempts, one verification; path index: one path, two changes, one upset, renames told as halves; pumps: one slot, two rows, two moves |
| `pool` | refutes `DrainEnds` | the pool of `parts` with two threads, as on two cores |

`parts` and `fair` hold machines that share nothing: in each behaviour one moves
and the others rest, which keeps the product of their states out of the way and
loses nothing. `CHECK_DEADLOCK FALSE` everywhere: with its bounds used up an
instance may have nothing left to do. Named bounds are the `Max...` constants and
`Budgets`; constants of the code (`MaxTries`, `Chunk`, `MaxAttempts`, `Window`,
`BackoffCap`, `Lag`, `Skew`, `Drain`, `Wait`, `Unpause`, `Capacity`) are made small in proportion.

Checked once and in no run, because they hold for a reason the other properties
already test: `RowIsServed` (DownloadQueue), `HeldIsUntouched` (PassScheduler),
`MintedWhileOpen` (Capture), `ClosedStaysClosed` (Collections), `RetiredHasNoPath` (IngestQueue),
`CleanIsFinalized` (QuitBarrier, proved), with three threads
`DrainEnds` (Pipeline), the type invariants, the two liveness properties of the
pumps for budgets of one and two, and `IndexConverges` for two paths (two changes, one
upset) and for one path with three changes and two upsets.

Each property of a run has a mutant: a plausible bug in one mapped definition
under which TLC finds the property violated.

## 4. Fairness

- `PumpFairness` (SidecarSync): a call into the engine runs on, and the pump, which
  ticks every two seconds on the thread `Ticker`, flushes what is dirty. Nothing else is
  promised: a session need not close, a user need not redact, and the
  desktop shell never calls the reconciliation scan of `core/sidecar/engine.rs`
  (spec/SIDECARS.md section 9.5). What only that scan would mend is a slip, which
  `EventuallyMirrored` excuses by name.
- Supervisor and host: the tick thread loops, time passes, probes and client requests
  have timeouts, the plan loop repeats every two seconds, a caller gets the role's
  mutex, a process that was sent SIGKILL ends. A child is never assumed to become
  ready, to obey SIGTERM or to exit.
- IngestQueue, VectorStore: workers and drains go on and come back. Strong fairness of a
  claim and of starting a drain, which the other lane or the file lock may disable
  in between and which the pumps' loops ask for again; time lets backoffs expire.
- EmbedderHost, DownloadQueue, VectorRepair: threads go on; deadlines pass; a call into a
  dead helper fails. A live helper is never assumed to answer.
- QuitBarrier: shutdown and live threads go on, sleeps of tasks outside `Long` end
  within the shutdown's wait. A command is not assumed to finish, nor a stuck task.
- Capture: the clock and the audio thread go on, a drain task pumps, a command past its
  touch arms or disarms. Transcripts are never promised.
- PathIndex: watcher and scans go on; a watcher that lost events scans every ten
  minutes; the scan that a launch or a returned root owes begins. No other scan is
  promised: the six-hour maintenance waits for an idle program, which pending rows that
  nothing serves prevent (pump.rs:262, 787). Nothing is assumed of other programs. Pumps: each pump's loop goes on, six hours pass. Pipeline: threads of
  the pool go on, a caller comes with its drain.

In `fair` one machine moves for ever, so `Turn(n)`, the n-th fair action of
whichever machine moves, carries the fairness of all.

## 5. Proofs

All for arbitrary sets of threads, events, devices, units, passes and names and for
every value of the bounds, from the named `ASSUME`s of the modules and the
hypotheses named below. Each safety theorem is the usual three facts about an
inductive invariant: it holds at the start, every action keeps it (one lemma or
step per action), and it implies the property. TLC checked each invariant on the
instance of its run before it was proved.

**`SidecarSyncProofs`**
- `TypeCorrect`. `TypeOK` is not inductive by itself: the re-verify counter stays in
  range only because a thread that goes round has tries left (`TriesLeft`).
- `NothingDestroyed`: `NeverDestroy`, with volumes that go and return and edits at any
  moment. `SafeInv` adds, for each position of a thread, what its buffer and the file
  in the slot may hold (`Guarded`): from the read on, the slot holds nothing the index
  lacks, for every thread whose look at it is not out of date (`blind`).
- `CleanIsMirrored`, `ScrubbedStaysScrubbed`, from `MirrorInv`: the difference between
  index and files is accounted for by a dirty row whose mark no thread may
  acknowledge, by a thread that owes a rewrite, or by a recorded slip. A slower writer
  may still put an old text back over a file that was scrubbed and whose queue row is
  gone (verified by absence as much as by a husk); then some thread is its chaser, whose
  own rewrite is still ahead of it or will be looked at again (`Chased`), and with
  no chaser left the file hides what was redacted (`Fresh`).

**`EventMergeProofs`**
- `Supremacy`: `Supreme`, also between the commits of a merge and after a kill.
  `MergeInv` adds that marks name held events (`MarkedIsHeld`), that the registry is
  exactly the acts (`RegIsActs`), that every act held has scrubbed its victim
  (`Condemning`), that acts are known wherever they are named (`ActsKnown`), and that
  documents and merges in progress carry them (`Carried`, `OneCopy`): a scrubbed copy
  always travels with what condemns it.
- `JournalsGrowByUnion`: every step of `EventMerge` is a step of `EventJournal` or a stutter.
- `DerivedFollows` (`DerivedIsFold`), `NewsIsMarked` (`UnpublishedIsDirty`), from `FoldInv`:
  on each device the derived rows are the fold of what it holds but for the remarks
  that a merge in progress or a kill owes (`RowsFollow`), and a clean device's journal is
  in a document but for the same (`CleanIsTold`). The fold is not unrolled: a frame
  lemma says that the row of a remark depends only on its own chain, so a step need
  only recompute the remarks whose chains it touches.
- `MergeIsASet` (`Convergent`): two devices with the same events and acts show the same.
  It needs that the registry holds the least act for each event whatever the order of
  arrival (`RegIsLeast`), kept by a batch because the least of a union is the
  lesser of the two.

**`SupervisorProofs`**
- `TypeCorrect`, `NoChildLetGo`, `ReadinessIsHonest` from `Sound`: the types, `ChildInv`
  (the machine holds a child exactly in Starting, Ready and Stopping, children.json
  names what it holds, nothing else runs) and `Announced`. `ChildInv` is needed because
  a spawn from an idle state overwrites the handle: safe only since idle states hold none.
- `RespawnsArePaced`: `PaceInv` matches every respawn that still counts with a slot of the
  restart budget that stays taken at least as long, no slot twice, and in Backoff
  keeps a further slot for the respawn to come; the pigeonhole principle does the rest.
- `HostTypeCorrect`, `OwnedOrRecordedAlways`, `NothingSupersededStarts`, `NothingAfterShutdown`, of the
  host's specification, from `HostInv`: while the program is up the machine is `Sound`,
  after it ended only the recorded child may run (`Left`); the child runs the slot's target
  and a superseded machine is on its way out (`Following`), which is why no tick can
  respawn it; a caller still in its call after the stop is one that shutdown gave up on,
  and the thread is done only without a child unless such a caller is left (`Ending`).

**`IngestQueueProofs`**: `TypeCorrect`, `DoneStaysFresh` from `QueueInv`. Attempts have no bound in
any guard that all paths share, so the type needs `Budget`: the attempts of a row, and
one more if it is pending, never exceed the limit and the events that happened to it.
`DoneIsFresh` needs what a claimer holds: while the row still runs, what was read and
made for it is fresh (`Pursuit`), and each re-pend takes the row away from its claimer.

**`QuitBarrierProofs`**: `TypeCorrect`, `FinalStepsRunAlone`, `MarkerIsAPromise` from `QuitInv`: every
thread has a registry entry until it has ended (`Owned`), a microphone thread has a
handle, an installer or a joiner (`Heard`), each wait of `App::shutdown` leaves behind
what it waited for, since admission was closed before (`Doors`, `Gated`), and the marker
goes only when every final step has succeeded (`Sealed`).

**`VectorStoreProofs`**: `TypeCorrect`, `RowsAreOwn` (`LiveRowIsOwn`), `RedactionIsKept`
(`RedactionHolds`), with the doctor's recovery overlapping whatever it may. The types
follow from `Frame`, which holds whatever a recovery tears: it keeps of each thread just
what its next step needs to be defined (`Holding`). The other two follow from `VecInv`,
which every step keeps unless it tears a compaction (`torn`): who holds the file
lock is where the lock is held (`Places`); the marker exists only from the commit of
a remapping to the end of its rename or recovery, and meanwhile the file that the rows
speak of is the rewritten one (`Current`, `Marked`); what a thread read is still so
where it matters (`InHand`); a live row owns its cell in `Current`, and a remark redacted
at rest keeps no cell but its own dead row's, none once the call returned (`Sound`).

**`SafePartsProofs`** (the parts of `SafeParts`, each about the part's own specification)
- `CollectionsMirrored` (`CleanIsWritten`): one flush at a time, whose generation tells
  whether what it wrote is still all there is.
- `JobsAnswered` (`OneAnswer`): every submitted job is in one place (a queue, a lane or
  answered), and a spent retry is a lost connection.
- `NothingLeftInHand` (`NothingInHand`): `PoolGood`, a drain has one body, its frames lie in
  one order on each stack, and a body that still sends has a worker.
- `OnlyWholeIsLoaded` (`LoadedIsWhole`): an index record, a registry entry and a loaded model of
  this manifest each speak for a whole directory unless the model is hidden or was
  installed over a failed deletion (`doubtful`); the gate's holder knows what it read.
- `StatIsEnough` (`FastPathIsSound`): for every system, pairs between equal sizes included,
  and an unlimited supply of row ids (`IdsLast`; ids are UUIDs). `PathInv`: a row id is of
  one path and one content; a stamp once seen at a path is there, nowhere, or was
  renamed away (`Settled`); what was read for a stamp is that file's content (`Honest`), so
  that a row that lies was bound by a pair (`misled`) and no job ever does.
- `DeletionsAreSeen` (`AbsenceIsProven`, from the same invariant): a scan drops a row only if its file was absent at some
  time since the scan began; what a walk passed without seeing was (`Traversed`).

**`ShellProofs`** (the repair and the pumps as parts of `FairParts`, each of its own
specification)
- `ReadyStaysServed` (`ReadyIsServed`), of the embedder host. `SlotInv`: until the shutdown a
  slot that is queued, building or ready is of the current generation, since every bump
  of the generation resets the slot under the same lock (`InGeneration`); a helper is in
  the registry from its publication on and leaves it only with its slot (`Registered`).
- `DoneHasItsVector` (`DoneHasVector`). `RepairInv`: whichever model a pass was done with, its
  row is in that model's space, a re-pend is owed or the row was `forsaken` (`DoneIsServed`);
  this covers the swaps, since a drain that has begun leaves nothing done by another
  model (`Drained`), so that a target naming the Ready one then takes no row of a
  done pass but its own space's. One task works at a time (`OneTask`), so no repair
  overwrites the target whose re-pend another owes.
- `OneRowAtMost` (`MicPreempts`). `PumpInv`: a batch that ignores the microphone works nothing
  that contends with it (`Harmless`), and a lane that heeds it and has a tested row in hand has
  begun none since the arming (`OneBegun`).
- `WordsLand` (`WordsLandOnView`), of voice capture. `CaptureInv` binds each utterance in flight
  to a snapshot (`Bound`): if it belongs to the open stream, its onset lies in the past,
  its targets are those of a snapshot on view at its onset and of later ones, with the
  same subject, and if the current segment has claimed it, the segment's partial
  lies within the skew of its onset. That a later utterance of a
  re-armed microphone is not taken for one of the present stream needs the streams'
  numbers (`Numbered`), and these need who holds a command (`Hands`). The lemmas about
  `Associate`, `Evict`, `ScopeAt` and `Rest` say that what they choose exists. Scopes
  with a subject have no targets (`CaptureAssumption`, the invariant of scope.rs): a remark
  on a subject drops its targets, and would otherwise lose what was on view.

Only model-checked, and why:
- all liveness properties: out of the prover's reach (`EventuallyMirrored`, `PlanIsFollowed`,
  `EventuallyEmbedded`, `Settles`, `BuildSettles`, `QuietQuitEnds`, `DisarmSettles`, `RepairFollows`,
  `DownloadSettles`, `IndexConverges`, `NoLaneStarves`, `WakeIsReconciled`, `DrainEnds`);
- the formulas of section 6, which are refuted.

## 6. What the models found

Refuted by a run, with the quotation in `PROJECT.json`: `DrainEnds` by `pool`. With two
pool threads the claim loops of two drains can hold both threads, each waiting for
room in a channel no thread is left to empty.

The following formulas of the modules were refuted while the models were built and
have no run: give them to the module's MC module with the constants named here (the
others as in the module's run; modules of `SafeParts` and `FairParts` alone, with
their own `Spec`). Where a document says otherwise it is quoted.

| Formula | Instance | What happens |
| --- | --- | --- |
| `MarksReachFiles`, `DurableRecord` (SidecarSync) | `TwoFlushers`, unwritable, two or one local events | two flushers of a read-only volume: the second acknowledges marks the overflow snapshot of the first lacks (engine.rs:881, 1174; store/mod.rs:1167, spec/SIDECARS.md:412) |
| `RedactionDrains` | as in `live`, writable and unwritable | the shell never calls the scan that drains the queue (pump.rs:1141; commands/journal.rs:421) |
| `VerifiedAfterAck` | two local events, `TwoFlushers`, writable | other threads use up the three tries and the row is gone |
| `OverflowScrubbed`, `ScrubbedIsTracked` | writable and unwritable, one move | a remounted image keeps plaintext in its overflow file; a blocked WAL truncation ends `redact()` before the rewrites |
| `FailedStaysQueued` | one move, offline included | a second round that fails after an acknowledgement is remembered only in memory |
| `UnionBeforeReplace` (`NeverDestroy` without `blind`) | as in `sync` | a file placed between the read and the rename, or on a volume that was away at the read, is destroyed |
| `ChainScrubbed` (EventMerge) | `Once`, two acts, `Chunk = 9`, no kill | a redaction of a revision leaves its chain's other text (store/mod.rs:1976; spec/EVENTS.md:166) |
| `MarkersAgree` | one remark, two acts, three documents | `redacted_by` depends on the order of arrival |
| `ShownByUnion` | four devices, one remark, one act, `Chunk = 1`, three documents, no kill | a flush between two commits of a merge publishes an act without its victim (store/mod.rs:1058, engine.rs:601; spec/EVENTS.md section 8) |
| `EndpointMeansReady` (Supervisor) | `Window = 4`, all gates | the endpoint cell is set while the child starts (supervisor.rs:292; openai.rs:125) |
| `GateRespected` | as above | a machine in Backoff respawns although its gate has closed |
| `GivesUp` | `FairSpec`, `StartTimeout = 2`, `Window = 4`, `BackoffCap = 1` | a child that hangs in startup is restarted for ever: five timeouts and backoffs take 631 s of a 600 s window |
| `ShutdownIsAlwaysFinal` (SupervisorHost; `ShutdownIsFinal` without `late`) | as in `roles` | the finalization gate gives up after three seconds (state.rs:69, 1337); a caller past the stop flag builds a child after the tick thread is done |
| `ReleasedWhenUnused` | `MaxLaunches = 0` | a killed child outlives the slot that `model_in_use` looks at |
| `LibrarySettles` (IngestQueue) | `Kind = {"corrupt"}` | an image that cannot be decoded leaves its embedding pending for ever (embedding.rs:545) |
| `RemovedHasNoPath` | as in `queue` | a path row returns for an image of a removed root (ingest.rs:481, mod.rs:1098) |
| `LiveRowIsAlwaysOwn` (VectorStore; `LiveRowIsOwn` without `torn`; `RedactionHolds` falls likewise) | as in `vectors` | the doctor's open recovers without the file lock in the middle of the drain's compaction (ppvec.rs:1536, library/mod.rs:1666, against ppvec.rs:26) |
| `RedactionZeroes` | `MaxCrash = 0` | a redaction that finds the lock taken returns without zeroing (ppvec.rs:334; BUILD-LOOP.md:226) |
| `DoneAlwaysHasVector` (VectorRepair; `DoneHasVector` without `forsaken`) | two loads, no fault | a target captured before a model swap is reconciled after it (runtime.rs:1182) |
| the same | four loads, no fault | the Ready model is reconciled for before its drain has begun; then the former one returns, to passes that are done and rows that are gone |
| the same | one load, two faults | a reconcile breaks off, or the re-pend after it, when rows are deleted for good (ppvec.rs:729, 744, 794; doctor.rs:203) |
| `ReapedAtExit`, `ShutdownReturns` (EmbedderHost) | one attempt, no move | a helper that is not yet published is not reaped (embedders.rs:1060 against 11, 109); a call into a live helper has no timeout |
| `QuitEnds` (QuitBarrier) | as in `quit` | shutdown drops the microphone under its mutex and joins a thread that wants it (state.rs:1378 against 53; mic.rs:240) |
| `NoLateWatcher` | as in `quit` | a command installs a watcher after shutdown cleared them (state.rs:1186 against 1142; commands/library.rs:277) |
| `CancelWakes` | `Long = {t1}` | sleeps of tasks do not hear their token (managed_tasks.rs:78 against 95; state.rs:604) |
| `LongViewsBind` (Capture) | `Window = 2`, `MaxTime = 4` | the ring drops the scope on view when an utterance is longer than it (scope.rs:194 against 118; spec/CAPTURE.md:139) |
| `RearmedBinds`, `SpeechIsNotCut`, `SubjectIsTargetless` | as in `capture` | arming replaces a draining pipeline; a rotation cuts an utterance (session.rs:31); a subject keeps targets (engine.rs:341) |
| `CancelIsEarned` (PassScheduler) | one model, three jobs | an interactive submission cancels a background job that would have been in time (scheduler.rs:221 against 5) |
| `LoadedIsAlwaysWhole` (ModelFiles) | as in `parts` | a deletion that fails half-way leaves a directory that a download trusts (runtime.rs:2353, download.rs:376; state.rs:922) |
| `RecoverySourceStays` | `MaxMishaps = 2` | what recovery would restore from is removed (model_registry.rs:266) |
| `OneTerminal`, `OneTerminalAtRest`, `ShownSettles` (DownloadQueue) | as in `fair` | two terminal events of one attempt, or an operation shown as live for ever (runtime.rs:1878, 2168; model_registry.rs:484) |
| `FastPathWithPairs` (PathIndex; `FastPathIsSound` without `misled`) | as in `parts` | `handle_rename` moves a row by size only: a safe save of the same size gets the old hash (watcher.rs:441 against 353; spec/LIBRARY.md:293) |
| `FastPathIsAlwaysSound` | `MaxChanges = 4`, `MaxUpsets = 0`, same sizes, halves | a file renamed away, rewritten there and renamed back keeps its old row: the stamp says it was seen |
| `IndexAlwaysConverges` (`IndexConverges` without `muddled`) | as in `fair` | an event lost in silence waits for a scan that nobody promises: the maintenance waits for an idle program (pump.rs:262, 787) and a root that is unarchived while an old scan ends gets none (commands/library.rs:169) |
| `RemovedRootIsEmpty` | as in `parts` | a rescan goes on behind the removal of its root (no cancel flag; spec/LIBRARY.md section 5) |

Seen while reading and not stated as formulas: `redacted` rows of a running pass are left
by an error until restart (`?` in the drains); with no embedder ready the pending
rows keep `status.running` set and the six-hour maintenance never runs (pump.rs:768;
docs/STATUS.md:85); a maintenance outcome recorded while `refresh_inventory` reads is lost
(disk.rs:229); a cancel that comes before the response headers is not repeated
(openai.rs:280); embeddings resume at once after a disarm (spec/RUNTIME.md:483 says five
seconds later); hashing.rs:37 says callers compare sizes, they do not; a rename over a
path with a row of its own is swallowed.

## 7. What is left

- Proofs: every safety property of a run has its theorem. What a property excuses
  (`slips`, `blind`, `late`, `torn`, `misled`, `forsaken`) its theorem excuses, by
  the same history variables. `torn` is for good: how a torn store heals when it
  is rebuilt is not modelled. `WordsLand` speaks of what the ring still holds. Not begun: action properties of the path index (a row id never
  moves back), and the ordering of the scopes in the ring.
- Model: previews and their temporary files, topics and settings as transactions, move
  correlation and case aliases of the path index, ratings and strokes of the store,
  session journals of the sidecar engine, the deletion coordinator (gc.rs), and the
  library's passes other than preview and embeddings.

Not modelled and not planned: search, ranking, image decoding, tuning, benchmarks,
connectors, the ASR server, backup, command-line tools and the frontend, which are pure
computation, third-party wrappers or presentation.
