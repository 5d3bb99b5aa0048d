# UE Shed: specification and proofs

TLA+ modules that model the parts of UE Shed where several actors share state:
first of all the authoring pipeline, which takes DataTable edits from a draft,
through an Apply in a running Unreal editor, to a Save on disk; the leases that
keep an editor responsive; the cache of plugins that several processes install
from and prune; and scenario runs in the editor's play session. TLC checks them
on small instances, TLAPS proves what matters most for every instance.
`PROJECT.json` lists components, runs, mutants, hazards, theorems, and for each
definition the source lines it translates.

    tlc -workers 2 -config AuthoringSession.cfg AuthoringSessionMC
    tlapm AuthoringSessionProofs.tla

## 1. Inventory of the system

UE Shed is a TypeScript (Effect) workspace around Unreal Engine plugins in C++
and a few Rust crates. Workbench (Electron) and a command line use packages;
packages reach the editor through Remote Control over HTTP and a WebSocket, the
file system, and child processes. Most of the code is read only analysis of
files or user interface. The components that keep state others depend on:

| Component | State it keeps | Operations | Who touches it concurrently |
| --- | --- | --- | --- |
| Authoring draft (`packages/authoring/src/draft.ts`) | base snapshots, command log, undo pointer | set cells, add, duplicate, remove, rename, reorder, undo, redo, invert | pure; called under the session's mutex |
| Authoring session service (`session-service.ts`, `live.ts`, `review.ts`) | one JSON document per session: draft, tables awaiting Save, pending operation, receipts | create, edit, apply, reconcile, save, discard | callers of one process; a restarted process; late answers |
| Authoring session store (`session-service.ts`, `host/src/authoring.ts`) | the session files, a mutex of the process | load, migrate, quarantine, persist, discard | every call; other processes on the same root |
| Authoring in the editor (`UEShedAuthoringLibrary.cpp`) | live tables, packages on disk, the Apply result cache (128) | snapshot, Apply, LookupApplyResult, Save | other clients, the person at the editor, editor restarts |
| Foreground leases (`UEShedForegroundLeases.cpp`, `editor-foreground-responsiveness.ts`) | leases with a time to live; the holder's state | acquire, renew, release, prune | several clients; lost answers; time |
| Plugin store (`plugin-distribution/src/store.ts`) | published variants, lease files, lock files | publish, lease, release, prune | processes on one cache, any of which may stop |
| Scenario execution (`UEShedScenarioExecution.cpp`, `scenario-runner.ts`) | the one run of the editor, play session, input isolation | start, status, cancel, tick | runner and editor; lost answers; play session end |
| Actor observation (`actor-feed.ts`, `world-observation.ts`, `UEShedObservatoryStream.cpp`) | catalog and samples; a stream session | start, packets, reset, recovery, stop | a lossy stream; two observers |
| Supervised editor session (`supervised-editor-session.ts`, `engine-process-supervisor`) | a child process and its readiness | launch, await readiness, terminate | exit against readiness; interruption |
| Project custodian (`project-custodian/src/node-executor.ts`) | proposals, logs, receipts | propose, execute | a changing project; a crash before the receipt |
| Camera authoring recovery (`camera-authoring-recovery.ts`) | a recovery file with revisions | write, recover | editor and client |

How they interact. A user's gesture reaches the host API (`packages/host`),
which calls the session service. The service changes its document under a mutex
(load, change, write a temporary file, sync, rename) and talks to the editor
through `packages/unreal-connection`, outside the mutex: *record the operation,
send, wait, record the answer*. The editor executes every request on its game
thread, one at a time. Nothing is pushed back: what became of a lost request is
found out by `LookupApplyResult` (Apply) or by sending the same Save again.

What is hard about it, and what makes each part correct:

- **Draft.** A long sequence of edits, undos and edits after an undo must leave
  every recorded old value, index and order where it was; undo moves over whole
  gestures; an inverse restores exactly. Names compare without case in Unreal
  and with it in JavaScript.
- **Replay.** Client and editor replay the same commands with two algorithms.
  If they ever differ, the client refuses a batch that is already committed.
  Assigning a value in the editor may fail or store another spelling of it.
- **Session.** The process or the editor stops between any two steps, requests
  and answers are lost, a request abandoned by its caller runs later, answers
  arrive late or twice. No batch may run twice, no commit may be forgotten, no
  receipt may be false, no unsaved table may leave the list, and every
  operation should end.
- **Store.** A confirmed edit is never lost, a discarded session stays
  discarded, and a reader finds a whole document, although some calls read
  (and, when migrating, write) without the mutex.
- **Foreground leases.** A lost renewal does not end a lease, a hold does not
  report *Held* for long after its lease has ended, leases multiply only by
  answers that were not heard, closing a scope lets go, and a lease that is
  wanted comes back.
- **Plugin store.** One owner of a lock at a time although waiters remove the
  locks of dead processes; a leased variant is never pruned; an interrupted
  install takes nobody else's with it, and every call ends.
- **Scenario execution.** One run at a time, in the session it was started for,
  input isolation always undone, an accepted cancellation final, and a run that
  ends although its client has gone.
- **Actor observation.** A sample never mixes two catalogs, and a reset of an
  earlier session does not undo a later one.

The hazards, each at its line and with the properties that cover it, are in
`PROJECT.json`.

## 2. Modules

| Module | Models | Extends |
| --- | --- | --- |
| `AuthoringDraft` | the draft of one session: fold, the five command kinds, gestures, undo, redo, inverse | |
| `AuthoringReplay` | the editor's replay of such a draft on its live table, which others edit | `AuthoringDraft` |
| `UEShedAuthoringEditor` | Apply, result cache, Save, restart of the editor | |
| `AuthoringSession` | the session document, callers, messages, faults | `UEShedAuthoringEditor` |
| `AuthoringPipeline` | abstract: what the pipeline promises, without messages | |
| `AuthoringSessionStore` | the session file at the grain of its file operations | |
| `ForegroundLease` | the editor's table of leases, a client's hold, the host's retries, with time | |
| `PluginStore` | one variant of the plugin cache: flights, publish, lease, prune and the version lock, at the grain of file operations | |
| `ScenarioExecution` | play session, the editor's one run, input isolation, clients | |
| `AuthoringSessionProofs` | theorems about `AuthoringSession` | `AuthoringSession` |
| `AuthoringPipelineProofs` | `AuthoringSession` implements `AuthoringPipeline` | `AuthoringSessionProofs` |
| `AuthoringDraftProofs` | theorems about `AuthoringDraft`; induction over a log | `AuthoringDraft` |
| `AuthoringReplayProofs` | theorems about `AuthoringReplay`: editor and client agree | `AuthoringReplay`, `AuthoringDraftProofs` |
| `AuthoringSessionStoreProofs`, `ForegroundLeaseProofs`, `PluginStoreProofs`, `ScenarioExecutionProofs` | theorems about the module each is named for | that module |
| `AuthoringReplayMC`, `AuthoringSessionMC`, `AuthoringSessionStoreMC`, `PluginStoreMC` | values and symmetry for TLC | |

Two abstractions tie them together. `AuthoringReplay` looks at rows, names and
values and shows that the editor's replay agrees with the client's fold; so
`UEShedAuthoringEditor` may reduce a table to one cell whose value is its
fingerprint, and has `After` for both. `AuthoringSessionStore` looks at file
operations and shows when a transition of the document is atomic; so
`AuthoringSession` takes one as one step.

### AuthoringDraft and AuthoringReplay

`base`, `commands` and `undoPointer` are the fields of the draft. One action per
intent of the service (`SetCells` ... `Redo`), each of which builds its commands
from the working table as the code does and appends them (`AppendCommandGroup`
drops the redo tail and folds the result before it is stored). An operator that
may throw returns the set of its results, empty where the code throws. Names
have a spelling and an `FNameOf`; values have a text and a text identity (`key`),
which the semantic fingerprint leaves out, as `fingerprint.ts` and
`TableFingerprintFromJson` do.

`AuthoringReplay` adds the live table, a person's edits of it (`ExternalEdit`),
and `ApplyCommand`, the editor's algorithm: identities map to names, rows are
found by FName, an added row is appended and moved up, a reorder moves one row
after the other. Assigning a value is no identity: `Assigned[h][v]` is what a
cell that held `h` can hold after `v` was assigned (`AssignPropertyValue` with
`TextFromIdentity`). It is empty where the assignment fails (generated text, an
unsupported property, an object or a string table entry that is not there),
another value where the code normalises (the integer text `007` is stored as 7,
and `fingerprint.ts` does not do the same) and any of several where the code
picks one (text without a key gets a new one). `set_cell` assigns over the old
value, `add_row` over the default. `Runs` is the command loop of Apply as the
one table `Table` sees it, passing over the commands of other tables: the states
that the first commands of a log can leave; `Replay` is what can be committed,
and `RollsBack` whether a command can fail.

The constants are bound to what the code guarantees of them: `BaseAssumption`
says that a snapshot lists the row map of a DataTable, so no two of its rows
have one FName, `ValueAssumption` that the schema's default is a value, and
`StoredAssumption` that what a snapshot reads and what an assignment leaves are
values a cell can hold, the default among them. Which values fail and which are
respelled is left open: the theorems hold for every such relation.

Left out: the compatibility of values with schemas, schema migration of a
draft, several cells to a row (a set cell command names row and field; one
field is enough to meet its old value check), clients of the contract without
text identity, whose old values are compared by display text only, and the
rounding of floats (two values that differ by it only are one value here: the
fingerprints and the editor's comparisons round).

### UEShedAuthoringEditor and AuthoringSession

Editor: `live`, `disk`, `results` with `resultOrder` (ApplyResultCache, first
in first out), and two history variables, `applied` (batches run, with the
status each reached) and `unsaved` (tables with a committed batch that an exit
would lose). Every Apply takes one of `Outcomes`: the cached result, a rejected
plan, a commit, or a failure at some command with all backups restored.

Session: the document (`base` to `saveReceipts`), `calls` (what each caller is
doing, in memory), `wire` (requests on their way) and the bounds' counters.
`PrepareApply`, `PrepareSave`, `RetrySave`, `Reconcile` start a call; `Send`
puts the request on the wire; `ExecuteApply`, `ExecuteLookup`, `ExecuteSave`
and `RefuseSave` are the editor's; `CompleteApply`, `CompleteSave`,
`RefuseAnswer`, `ConnectionFails`, `MarkIndeterminate` and `MarkFails` end it.
Faults: `LoseRequest`; `GiveUp` (interruption, timeout, a lost answer, or a
failed write of the answer: the request stays on the wire with no caller, and
may run later); `ServiceRestart` (only the document remains); `RestartEditor`
(memory is read from disk, the cache and the queue are gone); other people's
edits, Saves and batches. Ids are generated, so never used twice; a request is
sent once, and `wire` is a set because no id is sent twice by an Apply and
repeated Saves and lookups of one caller are distinguished by their sender
(abandoned duplicates of a Save merge, which leaves the same behaviours: a Save
that runs once more than necessary changes only what others put in between).

A cell's value in these two modules is one that reads back as it was written. So
a batch that the editor commits has the fingerprint of its draft, as
`CommitMatchesDraft` shows for such values; a batch with a respelled value is
committed and then refused (section 5), which they do not show.

Left out: open and closed sessions, the raw append call, size limits of
`prepareApply` (the editor's are the same), the review document derived from
receipts, and `discard`, which has no check for a pending operation.

### AuthoringSessionStore

One session's `file`, the calls' `copy` and `pc`, the `mutex` of each process.
`Acquire`, `Load...`, `PersistMigrated`, `Transition`, `WriteTemporary`,
`Rename`, `Remove` and `Quarantine` are the file operations of
`session-service.ts` in their order; `UseLoaded` includes `beginSession` of the
host, which discards an inert session it has just opened. `Crash` stops a
process anywhere. A setup says which calls run in which process and on what
document.

### AuthoringPipeline

The abstract machine: one batch outstanding, decided at most once, recorded as
decided; a table is owed to disk from the moment its batch is recorded until
nothing of it can be lost. `AuthoringSession!ImplementsPipeline` gives the
refinement mapping: the batch is the pending Apply, decisions are the editor's
`applied`, records are the receipts, `owed` is `awaitingSave`.

### ForegroundLease

`leases` is the table of `UEShedForegroundLeases.cpp`, `hold` what the client
(`editor-foreground-responsiveness.ts`) believes and its timers, `call` the
request it waits for, `answer` what the editor answered and the client has not
heard. `Acquire`, `Renew` and `Release` are the editor's functions, each after
`Prune`, and `Execute` runs one: it changes the table and gives the answer, no
more. `Hear` is the client's receipt, from which it counts the age of its lease
and its sleep (`confirmedAt`), so a lease is older in the editor than in its
client. `Maintain` is a round of the client's loop, `Receive` what an answer
means to it, `AfterFailure` what a failure does, `Close` its finalizer;
`Begin` is the host (Workbench), which waits and begins again while the first
acquire fails. A *Held* hold whose renewal is answered *expired* or *rejected*
stays *Held* while it negotiates and acquires, as in the code. `Tick` counts all
timers down; it waits for timers that fire at once, so a timeout of the model is
never late. `Cut` takes a request's answer away, before or after the editor ran
it, `Refuse` fails it at once, and `ExecuteLate` runs a request nobody waits for.
The answer of an editor that works arrives within `MaxDelay` of the request, less
than any timeout of the client (`TimingAssumption`); when it does not, that is a
fault. Left out: whether the client's process lives
and owns the foreground window, platforms without support, the state query.

### PluginStore

One variant of the cache directory and the calls on it. `lock` is the version
lock's file, `variant` the published directory (absent, whole, or torn while a
prune removes it file by file), `leases` the lease files. `at` is the place of
each actor in `store.ts` and `distribution.ts`: an install, a prune, or the
flight that the installs of a process share. A step is one file operation or
one step of a fiber. `Open`, `Read`, `Steal`, `Mark`, `Unlock` are
`acquireVersionLock` and its release; `Find`, `Fetch`, `CheckPublished`,
`Publish` the flight; `Join`, `Wait`, `Leave`, `Stop` are `joinFlight` with its
gate and its count of waiters; `CheckLeased`, `WriteLease`, `Release` the lease;
`Locate`, `CheckPrunable`, `Remove` are `prune`. `Interrupt` interrupts a call:
its promise goes on and looks at the signal only before it has the lock.
`Crash` stops a process with everything it does, and `GrowOld` lets the grace
period of an empty file pass.

What it takes for granted: a live process writes its pid within the thirty
seconds of grace; a fetch ends; a pid is not used again; renaming a stage onto a
directory that is not empty fails; the lease files are looked at in one step.
Left out: sibling variants and references by version, the legacy layout, `list`
and `verify`, digest conflicts, and staging directories a crash leaves behind.

### ScenarioExecution

`play`, `session` and `stopRequested` are the editor's play session and the
statics of `UEShedEditorPlaySessionLibrary.cpp` (`simulate` is the mode, which a
person can toggle while the session lasts); `run`, `blocked` and `stuck`
the run of `UEShedScenarioExecution.cpp` and the input preprocessors it has
registered. Every handler runs on the game thread and is a step: `Snapshot`
(which every question of the state performs), `StartPlay`, `ResumePlay`,
`Start`, `RunStatus`, `Cancel`. `Tick` is `OnWorldTickStart`, which finishes a
run whose session is stopping or has another id and otherwise advances it:
`Wait` for the landing with its timeout, time, `Finish` with the removal of the
input preprocessor, which may fail (`stuck`). A client (`scenario-runner.ts`, as
the CLI and Workbench use it) prepares, looks, begins or resumes, awaits, starts,
polls, cancels and confirms; it may leave at any point, and `LeaveStart` leaves
a Start behind that the editor runs late. `BeginQueued` and `EndPie` are the
engine's; `PlayByHand` (Play and Simulate, which name no session), `ByHand`
(pause, resume, eject, possess, stop), `StopPlay`, `ReplaceWorld`,
`RestartEditor` everybody else's.

The code knows a session by its id only, and a PIE begun by hand keeps the id of
the one before if nobody has asked for the state in between. To tell the two
apart, history variables follow the PIE itself: `inherited` says that the id
belonged to an earlier PIE than the present one, `pie` (of a client, and of a
Start nobody waits for) that the PIE it was told of has not ended, and `own` (of
a run) that it was accepted in the PIE its client was told of. No guard reads
them.

Left out: validation of maps, fixtures and timelines (`Prepare` and `Start` may
be refused at any time instead), probes, evidence and the contents of results,
pausing and simulating by API, and the comparison of session ids in the
runner's answers (the server echoes the id it was asked about).

## 3. Runs

| Run | What it asks | Instance |
| --- | --- | --- |
| `replay` | does every history of edits fold, invert and undo, and does the editor's replay agree with it | 1 table of 2 rows, 3 commands, names `a` `A` `b`, 4 values (two that read back, one that is respelled and gets a key, one that cannot be written), 1 external edit |
| `session` | do the safety properties and the inductive invariant hold with two callers | 2 callers, 1 table, 3 operations, 1 fault, 1 restart of each side, 1 outside step, cache of 1; callers and values are symmetric |
| `session_tables` | batches and Saves over two tables; what is on disk; refinement of the pipeline | 1 caller, 2 tables, 2 commands, 1 fault, 1 editor restart, 1 outside step |
| `session_liveness` | what ends under fairness | 1 caller, 2 tables, 1 fault, 1 service restart, at most 1 path in a Save |
| `session_store` | the file under concurrent calls and a crash | 5 setups of up to 4 calls in 2 processes, 1 crash |
| `foreground_lease` | what a lease and its hold promise under losses, a close and an editor restart | 1 hold, TTL 8 s, answers within 1 s, table of 2, 3 faults, 1 close, 1 restart |
| `plugin_store` | does the lock exclude, does a leased variant stay, does every call end | 2 processes in every placement of 2 installs and 1 prune, 2 attempts at the lock, 1 crash, 1 interrupt |
| `scenario` | is input given back, does a run keep its PIE and end, is a cancellation final | 2 clients, 5 run ids, 6 session ids, wait at 1 that times out at the next tick (0), duration 2, 2 events, 1 fault |
| `save_stuck`, `lost_save`, `store_migration`, `world_replaced` | the disagreements of section 5 | minimal |

Why these bounds are enough for what they ask. Two callers suffice for a late
answer to meet another's operation; three operations for it to arrive after the
next one was started and a third was prepared; a cache of one is evicted by one
batch of anybody. Two tables make a batch that can fail half way and a Save that
can be written in part. Three commands are enough for an edit, an undone edit
and an edit after it, for a gesture of two cells, and for every pair of command
kinds followed by a third: a row can be removed and added again, a duplicated
row edited, a text written and written over. Names that differ in case only,
values that differ in identity only, and values for the ways an assignment
can go are there because the two algorithms treat them differently. The cache
bound (128 in the code) and the limit of a Save (64) are constants; the runs set
them to 1 or 2 so that both are exceeded. The proofs do not depend on any of
these bounds.

For leases, a TTL of eight seconds is the smallest in whole seconds for which a
single lost renewal leaves time for the second, given answers within a second:
two thirds (2 s each), the backoff (1 s), the way of the last answer and the way
of the second renewal are 7 s. With seven seconds a lease granted at 0 and heard
of at 1, whose renewal is sent at 3 and lost and sent again at 6, is gone at 7
when the editor runs it. Three faults are enough to lapse, to lose the acquire
that follows and to fill a table of two (eight in the code). Time itself has no
bound.

For the plugin store, two installs share a flight or race from two processes,
and a prune meets both; with a crash, two waiters read the pid of a dead owner
and one removes the lock of the other (`stolen`); two attempts (400 in the code)
let one attempt fail and another succeed. For scenarios, two events let a person
end a session and begin another under a run (or between the moment a client was
told of a session and its Start, so that the new PIE inherits the id), eject a
run to Simulate and end it, or replace its world and restart the editor; ids are
as many as can be in use at a time and one more, so a new one is always at hand.

`CHECK_DEADLOCK FALSE` in the session's runs: gestures and faults are bounded
and the user may stop at any time. So it is in `plugin_store`, where all calls
end, and in the scenario runs, where clients may stay away and a cancelled
client that found its run alive would stop. `session_store`, `replay` and
`foreground_lease` check deadlock: a call that waits for a permit nobody gives
back would be one.

Each property has a mutant, an operator named `Mutant of ...` beside the
definition it changes, that breaks it.

### Fairness

`FairSpec` is weak fairness of a caller's continuation (Effect runs a call to
its end), of the execution of received requests (Remote Control runs what it
has), and of `Reconcile` and `RetrySave`: a session with an unresolved
operation refuses every other gesture, and the liveness properties are about a
user who goes on using the one it offers. No fairness of edits, of starting an
Apply or Save, of faults, or of the rest of the world. For leases: time passes,
a client's timers fire and its continuation runs, the editor runs what it has
received, and a host that waits begins again, as Workbench's loop does every
second. No fairness of the first wish for a lease, of closing, or of faults.

For the plugin store: a process that has begun a call goes on with it while it
lives, and fetching ends; no fairness of the beginning of a prune, of the end
of a scope, of interrupts, crashes or the passing of the grace period, so calls
end by their attempts, not by the recovery of the lock. For scenarios: the
editor ticks the world of a run, decides about a queued session, and ends one
it was asked to end; no fairness of any client or person.

## 4. Theorems

`AuthoringDraftProofs` proves, for any tables, names, comparison of names,
values, snapshots and bounds, what the draft promises: `DraftTypeOK`,
`EveryPrefixFolds` (foldTable never throws), `RowsStayDistinct`,
`InversionRestores` and `UndoRedoByGesture`. They follow from `DraftInv`:

- every base is a snapshot with generated row identities;
- the log is good (`GoodLog`): *every* prefix folds over the base of every
  table, also those that end in the redo tail, since an undo and redo may make
  any of them current; and each body fits the rows it is folded into (`Fits`:
  the old value, index, name or order it records is the one that is there),
  which is what an inverse and the editor's checks rely on;
- the undo pointer does not split a gesture.

Appending cuts the redo tail and adds one gesture, so the proof has one lemma
per intent (its bodies fit, one after the other) and one that a good log stays
good (`AppendKeeps` and the lemmas before it); undo and redo leave the log alone.
Rows stay distinct because `WellFormed` (identities and FNames without
duplicates) is kept by each kind of command.

`AuthoringReplayProofs` proves `CommitMatchesDraft`, `NoHiddenOverwrite` and
`DraftReplaysOnItsBase`, for any external edits too. The argument is a
simulation of one algorithm by the other, command by command. `Follows` relates
the editor's table to the client's: the same names in the same order, and an
identity map that gives each row its present name. One lemma per kind of command
shows that when the client's fold succeeds and the editor's does, the results
follow again (for a reorder, that moving rows up one after the other ends in the
new order), for each of the states the assignment of a value can leave. `Carries`
says of the same step that what is written into the editor's table is made of what
is written into the draft's, that it is written only over a cell in which both
agree, and that every other row keeps its cell on both sides. Cells shown for the
drafted values, cells made of them, and cells of other people that stay in their
rows are kept by any step that carries, so the properties follow from `Related`,
which joins them. On an unchanged table, where each cell is the drafted value or
made of it, the editor's checks succeed wherever the client's did, unless a name
changes its case only, a value cannot be written, or a compared one does not read
back: these are the exceptions of `DraftReplaysOnItsBase`.

Both modules need induction over the log, which the library offers for an
operator as parameter only, and the provers cannot instantiate that.
`NatSetInduction` states it for a *set* of naturals instead, which is first-order
and follows from the well-foundedness of the order; `FoldTableIsFold` and its
counterpart for `Replay` use it to show that the recursion's intermediate results
exist and that each comes from the one before.

`AuthoringSessionProofs` proves, for any number of callers, tables, values,
operations, faults and restarts, and any cache size of at least one:

- `TypeCorrect`: `TypeOK`.
- `InvariantCorrect`: `SessionInv`, the inductive invariant.
- `AtMostOnceCorrect`, `ReceiptsCorrect`, `CommitsCorrect`,
  `UnsavedIsTrackedCorrect`, `PendingApplyIsTheDraftCorrect`.
- `AdoptionCorrect`: the action property `EditorAdoptsWholeDraft`.
- `SavedTablesCorrect`: `SavedTablesAreOnDiskUnlessRestarted`.

`AuthoringPipelineProofs` proves `RefinementCorrect`: every behaviour of the
session is one of the pipeline.

None of these properties is inductive alone. `SessionInv` adds what the code
relies on without saying so. *AtMostOnce* needs `OneUnrunApply`: an Apply
request that can still reach the editor, with a caller or on the wire, abandoned
or not, is the pending one, is the only one, and has not run; for then running
it is running it for the first time even when the cache has forgotten it. That
in turn needs `IdsAreGenerated`, so that a new operation is not confused with
an old one. *ReceiptsAreTrue* needs `AnswersAreTrue` (what the cache and the
callers hold for an operation that may still be asked about is what the editor
did) and `PendingIsNotRecorded`. *UnsavedIsTracked* needs `UnsavedIsOwed` (a
pending Apply accounts only for a batch it did commit) and `SaveAnswersAreTrue`
(an answer to the pending Save never names a table with unsaved batches: while
a Save is pending no Apply can commit). *EditorAdoptsWholeDraft* and the rebase
after a commit need `PendingApplyIsTheDraft`. What is on disk needs `DiskInv`:
undisturbed, the live tables are the session's base, or its working tables
between a commit and its receipt, and a table without unsaved batches is on
disk as it is live. The proof of the invariant has one step per action and one
per conjunct the action can disturb; the refinement proof maps each action to
`Prepare`, `Decide`, `Record`, `Write`, `Settle` or a stutter.

`AuthoringSessionStoreProofs` proves `StoreTypeOK`, `ConfirmedEditsSurvive`,
`DiscardIsFinal` and `ReadableStaysReadable` for any number of calls, processes
and crashes, under `OrderlySetups`: one process edits and discards, only edits
find a document of the older schema, and `beginSession` is not beside the first
edit of a session. The condition is necessary: what it leaves out loses edits
(`store_migration` and two hazards). The MC module assumes that the setups of
the passing run are orderly, and TLC evaluates that. The invariant says that one
call at a time has the permit of the editing process and that the copy it is
about to write is the file with its own change.

`ForegroundLeaseProofs` proves `LeaseTypeOK`, `HeldIsRecent`,
`OneLostRenewalIsSurvived` and `ExtraLeasesAreUnheard` for any number of holds,
faults, closes and restarts, any size of the table, and every TTL that satisfies
`TimingAssumption`. *HeldIsRecent* rests on `LeaseInv`: a call is one its hold
would make now, and after `n` failures the next renewal starts later than after
`n - 1`, but not later than `2 Ttl - 2 - RenewEvery + Second`.
*OneLostRenewalIsSurvived* rests on `OneLostInv`: while at most one renewal was
disturbed, a *Held* hold's lease is in the table with at least `Ttl` less the
hold's age and the delay of its last answer left, an answer that grants or
renews a lease tells of one that still stands, and no abandoned release is under
way. *ExtraLeasesAreUnheard* is an account (`LeasesInv`). For each hold, the
live leases it does not tend (a lease granted in an answer under way is tended),
the acquires that may still run with no caller, and one more if it may be about
to forget its lease (a renewal has failed since the last answer, or a renewal or
release was cut) are together at most the requests whose answer nobody heard
(`Accounted`). A late grant moves one from the second term to the first, a lapse
one from the third to the first; each new one is paid by the fault or the close
that causes it. For a renewal answered *expired* to cost nothing, a hold that
acquires again must tend a lease that is gone (`GoneFirst`), which needs ids
that are new to every hold.

`PluginStoreProofs` proves `TypeOK`, `Exclusion`, `LeasedVariantStays`,
`WaitersFly` and `LeasesAreScoped` for any number of processes, installs,
prunes, attempts, crashes and interrupts. *Exclusion* and *LeasedVariantStays*
say *unless a lock was stolen*, and `StoreInv` says the same: whoever is inside
has the lock file (`LockIsOwned`), and a held lease has its record and its
variant while no prune is removing (`LeasesAreKept`). `FlightInv` (whoever has
not left is counted as a waiter, and a counted waiter keeps the flight running)
and `ScopeInv` (a lease file exists only from its writing to the end of its
scope, or its install was interrupted) hold even then.

`ScenarioExecutionProofs` proves `ScenarioTypeOK`, `InputIsGivenBack`,
`RunKeepsItsSession` and `CancellationIsTerminal` for any number of clients,
ids, events and faults. `ScenarioInv` adds that a preprocessor given up on is
not the active run's, that a run whose cancellation is to be confirmed is
over if it is still the last one, and that whoever was told of the present session
was told of the present PIE unless that one inherited its id (`ToldOfThisPie`).

The proofs assume what the modules assume of their constants, by name:
`FNameAssumption`, `ValueAssumption`, `BaseAssumption`, `BoundsAssumption`,
`TableAssumption` and `StoredAssumption` (draft and replay);
`NobodyAssumption` and `CapacityAssumption` (session); `SetupsAssumption` and
`CrashesAssumption` (store); `TimingAssumption` and `BoundsAssumption` (leases);
`NamesAssumption`, `HomesAssumption` and `BoundsAssumption` (plugin store);
`IdsAssumption`, `ScheduleAssumption` and `BudgetAssumption` (scenarios). TLC
evaluates each on the runs of its module.

Only model-checked are the liveness properties (`ExecutedApplyIsRecorded`,
`IndeterminateSaveEnds`, `HoldRecovers`, `CallsEnd`, `RunsEnd`): fairness is out
of the prover's reach. Every invariant and action property of a passing run is a
theorem. What that leaves to the runs is the faithfulness of the instances: that
the cases the theorems speak of happen (each property has a mutant) and that the
assumptions on the constants have models (TLC evaluates them).

## 5. Where code and documents disagree

Each of the first four is a run that TLC finds violated.

- `save_stuck`: a Save left *dispatching* by a process that stopped can be
  neither retried (`save` takes up *indeterminate* ones only) nor reconciled
  (`reconcileApply` takes an Apply only), and blocks the session for good.
- `lost_save`: after an editor restart between Apply and Save, Save writes what
  was loaded from disk and the session records the table as saved.
  `SavedTablesAreOnDiskUnlessRestarted` is proved: the restart is the only cause
  inside the system.
- `store_migration`: a read of an older document writes the migrated copy
  without the mutex, over an edit confirmed meanwhile.
- `world_replaced`: when the game opens another level inside PIE, the world of
  the run is no longer ticked and nothing else ends the run: it stays active,
  with live input blocked, until it is cancelled or PIE ends.

Met on the way, without a run:

- An Apply whose request was lost, or whose result the editor no longer has,
  stays pending: reconciling asks for the result by its id and compares no live
  fingerprints (`docs/products/authoring-grill.md:107-109` has it resolved).
- The protocol says that a lease renewed at a third of its TTL survives two lost
  renewals. Timeout and backoff come on top of that third: when one of the two
  runs into its timeout, the third renewal is too late for the default TTL of
  five seconds; when both do, for every TTL. One lost renewal is survived only if
  a third of the TTL exceeds a second, the delay of the last answer (the client
  counts from its receipt) and that of the next renewal together, which
  `OneLostRenewalIsSurvived` states as its premise; so not with a TTL of three
  seconds or less (two are allowed), and for the default of five seconds only if
  the two delays together stay below 0.67 seconds.
- The comment above the client's reacquire says that a lapsed lease is renewed
  first to avoid a duplicate, while the code renews a *Held* one only, so a
  duplicate lives until its TTL ends (`ExtraLeasesAreUnheard` bounds them).
- Two waiters that both read the pid of a dead owner remove the lock one after
  the other: the second removes the lock of the first, both are inside, and a
  prune may remove a variant that is being leased, which the package's
  `README.md:61-62` excludes. `Exclusion` and `LeasedVariantStays` state the
  exception, and the run reaches it.
- An install interrupted while its lease is being taken leaves the lease file
  behind until its process ends (`LeasesAreScoped` states it).
- A PIE that is restarted by hand, with no request in between, keeps the session
  id of the one before, and a stop that was requested, so a Start for the old
  session is accepted in the new one (`docs/products/scenario-studio.md:47-49`
  says a restart invalidates the binding). `RunKeepsItsSession` states the
  exception, and the run reaches it.
- A run starts in a session that plays, not one that simulates; when a person
  ejects to Simulate afterwards, it goes on (`Tick` does not look at the mode).
- A committed batch is refused (`snapshot_fingerprint_mismatch`, `live.ts:200`)
  when the editor stores another spelling of a drafted value: the integer text
  `007` passes the client, the editor stores 7, and the fingerprint does not
  normalise. The Apply then stays pending. `CommitMatchesDraft` says that nothing
  else parts a commit from its draft.
- A draft on an unchanged table is rolled back when `duplicate_row` copied a value
  that the editor can read and not write (`draft.ts:738` validates nothing:
  generated text, unsupported properties), when an object or a string table entry
  is not there, and when it edits or removes a cell it has given text without a
  key, for which the editor chose one. `DraftReplaysOnItsBase` states these
  exceptions, and that there are no others but case-only renames.
- The editor keeps the last run only: a client whose run was replaced by another
  client's is told `run_not_found` and never learns the result.

Further hazards that are not runs (see their notes in `PROJECT.json`): two
processes that edit one storage root, `beginSession` beside the first edit of
an inert session, case-only renames, a discard while an Apply is pending.

## 6. Not modelled

The modules cover little of the repository by lines, and could not cover most of
it: the larger part has no shared state to check. Analysis of files (game text,
localization, asset reading, blueprints, code and configuration, map history,
asset audits) are functions of their input with caches; cameras, Niagara and
world preparation are pipelines with one caller; schemas, Workbench's routes and
the command line are data definitions and user interface over the packages. A
line of such code becomes no line of a model in which something could go wrong.
`PROJECT.json` gives the reason for every component.

Inside the modelled components, section 2 names what each module leaves out; so
all of them are *partly* modelled.

## 7. What is left

In this order:

1. `ActorObservation`: sessions, resets and batches over a lossy stream
   (`actor-feed.ts`, `world-observation.ts`, `UEShedObservatoryStream.cpp`).
2. The supervised editor session: start, readiness, exit and interruption.
3. The project custodian's executor: a crash between deletions and receipt.
4. Camera authoring recovery: revisions between editor and client.
