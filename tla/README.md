# Formal models of AFOL

AFOL keeps a project's tasks, evidence, decisions and locks in plain files, and lets
any number of short-lived `afol` processes change them. There is no server: what holds
the state together is the order in which files are written, two kinds of lock files, and
checks that each handler repeats under its lock. This directory models that machinery in
TLA+, checks it with TLC on small instances, and proves with TLAPS, for every size of the
constants, the safety of task rows and verification runs, of the completion lease and the
session lock, of the event ledger, of the order of locks, of file mutations, updates and
proposals, of the evolution journals, imports and evaluations, of receipts, artifacts, the
workbench index and pending specs, and of the copies of the database.

Paths below are relative to the repository; `workbench/x.ts` stands for
`cli/services/workbench/x.ts`.

## 1. Inventory

| part | state it keeps | operations | what is hard |
|---|---|---|---|
| Workbench task lifecycle (`workbench/lifecycle.ts`, `verify.ts`, `continuation.ts`, `commands/workbench.ts`) | per session: the State Board rows, `.evidence.jsonl`, the `closed` marks of task file and plan | start, transition, evidence, `done` in four forms, re-verify, close, close `--carry-open` | the commands of `done` run with no lock held; a handler makes up to four durable writes |
| Verification runs (`workbench/verification-runs.ts`) | `.verification-runs.jsonl`: start, step and terminal records | prepare, record step, fail, complete, reconcile orphans, recover | a step is two appends to two files; a process may die with its run open |
| Session archive (`workbench/archive.ts`) | archive and restore events of the project ledger | archive, restore, list candidates | several sessions at once, all or none |
| Session lock (`io/session-lock.ts`) | `<session>.lock`, its `.reclaim` marker, per-process nesting counts; external path leases | lock, nested lock, observe, reclaim; resource locks; leases | dead owners, check-then-unlink, ages |
| Task completion lease (`workbench/completion-lock.ts`) | a lock file and a generation fence per task | acquire, heartbeat, assertOwned, release, reclaim | reclaim without a marker; rewrites in place |
| Project event ledger (`events/ledger.ts`) | one JSONL file for all commands | append, validated append, inspect, read | short writes, failed syncs, power loss, limits |
| Durable file primitives (`io/atomic.ts`, `full-write.ts`, `durable-sync.ts`, `safe-source.ts`) | none | atomic replace, full write, directory sync, bounded read | platform differences |
| Local state (`local-state/*`) | the workbench index, derived from boards and events; event snapshot, file claims | append and rebuild, full rebuild, refresh | an index merged from an older index |
| File mutations (`mutations/*`, `commands/file.ts`) | `mutations.jsonl` (prepared, committed, rolled back), backups, the files | patch, move, archive, undo, recover | a death between the journal and the file |
| Evolution journals (`evolution/*-journal.ts`, `production-days.ts`, `projection-*.ts`, `derived-state.ts`) | production days, observations, receipts of suggestions; `evolution.db` and its checkpoint | allocate, observe, decide, claim, acknowledge, certify, repair | a projection that lags behind its journal |
| Evolution proposals (`evolution/apply-service.ts`, `apply-journal.ts`) | `applies.jsonl`, records of the mutation journal, the artifact | apply, roll back, recover | three files and `afol file` in between |
| Assisted proposals (`evolution/assisted-proposal-*.ts`) | their journal, a batch of mutation records, several files | decide, apply a batch, settle, try again | a batch that is half applied |
| Imports (`evolution/import-*.ts`) | an artifact directory, a journal, database rows | preview, confirm, repair | links that are evaluated anew at every try |
| Evolution database (`evolution/db.ts`, `io/session-lock.ts`) | `evolution.db`, its log, lease files | open, commit, close, snapshot | a copy of two files under writers |
| Governance (`governance/pending-specs.ts`) | a session's pending spec in plan, task file and index | open, resolve, waive, repair | one file, two locks |
| Receipts (`receipts/ingest.ts`) | `external.jsonl`, one evidence entry per receipt, a lock file per receipt | ingest, retry | duplicate and half-done ingestion |
| Template updates (`update/*`, `commands/update.ts`) | the template's files, their hashes in `.agents/lock.json`, a batch of mutation records | plan, apply, roll back | all or none, over an edited project |
| State database (`state/*`) | a SQLite cache of the files | hydrate, validate | staleness |
| Artifacts (`artifacts/storage.ts`) | a marker per request, the published file | save, try again | a save that died at any of its writes |
| Observations (`evolution/observation-ingest.ts`, `history-backfill.ts`) | the observation journal, one cursor per session | observe, backfill in pages | a session that goes on meanwhile |
| Evaluations (`evolution/evaluation-*.ts`) | `evaluations.jsonl` | evaluate, supersede | lines that are checked against a later apply journal |
| Library, memory, template, fleet, health, PSTR, context, benchmarks, validation, development tools | little or none of their own | create/read/update/delete, reports, I/O | mostly none that concerns state |

How they interact: a command handler takes the session lock (or the resource locks of
the files it changes), re-reads the files, checks its preconditions, writes, refreshes
the local state, appends events to the project ledger under that file's resource lock,
and releases. `done` holds the completion lease of its tasks from before it snapshots
the rows until after it has committed; it takes the session lock for each step of that
work separately, so that other commands go on while tests run. `lease.assertOwned` is
called inside the session lock, before each write. The event and the local-state refresh
are auxiliary: their failure is a warning.

What makes each part correct:

- **lifecycle**: a `done` row always has passing evidence of its own attempt and policy;
  nothing is completed that close would refuse; a closed session has nothing left open;
  settled rows stay; results are filed only under the attempt they were obtained in.
- **verification runs**: at most the latest run of a task is open; records are only ever
  added; a crash between the two writes of a step loses nothing and blocks nothing.
- **session lock**: one action at a time; a dead process's files are removed.
- **completion lease**: a process that lost its lock cannot commit; a dead process does
  not keep its task.
- **event ledger**: what was acknowledged stays, what was refused leaves no trace, the
  file remains readable.
- **file mutations, updates, proposals**: what the journal says happened is what is on disk,
  nothing a change took away is lost, and an interrupted change can be settled.
- **evolution journals and database**: nothing is decided on a projection that differs from
  its journal; what was acknowledged is kept; a copy is the database of one moment.
- **receipts, imports, governance, index**: what is said in several places is said alike.
- **all commands**: they take their locks in an order in which they cannot all wait for
  each other.

The hazards, at their lines and with the properties that watch them, are in
`PROJECT.json`.

## 2. Modules

### TaskLifecycle and TaskBoard

One session. `task` is the State Board (state, attempt, completion policy, destination
of a carried row); `evidence` and `runs` are the two JSONL files, a run's records folded
into one record (steps as indices into `evidence`, terminal status); `closed` is the
task file's frontmatter, `closeLogged` the close event, `archived` the last
archive/restore event, `conts` the number of continuations created; `lease` and `lock`
are the holders of the completion leases and of the session lock; `w` is what each
process remembers between two file-system writes (its snapshot of attempts, its run and
step, the rows and evidence length it would restore).

A handler with one durable write is one action guarded by `Free` (the session lock can
be taken). A handler with several is several actions; the first takes `lock` and the
last gives it back, so that `Crash` can fall between any two of them, and nobody else can
write in between. The source order of checks is kept: a check that returns early is the
`ELSE Return(p)` branch.

| actions | code |
|---|---|
| `StartTasks`, `TransitionTask` | `startTasks`, `transitionTask` with `transitionTaskStateChains` (entering in_progress or problem opens a new attempt) |
| `DeclareEvidence`, `Reverify` | `recordEvidence` with the duplicate check, `recordClosedTaskReverification` |
| `DoneBegin`, `AcquireLease`, `Busy`, `Snapshot`, `VerifyBegin`, `LeaseLost`, `LockTimeout` | `runDoneCommand`, `withTaskCompletionLocks`, `taskAttemptSnapshot`, `executeDoneLocked` |
| `CommitSingle`, `FinishSingle` | `completeObservedTask`: the evidence entry, then `doneTask` on that entry |
| `DoneBare` | `doneTask` without a test, on the whole ledger |
| `Prepare`, `Reconcile`, `Recover`, `Supersede`, `StartRun` | `prepareVerificationRun` |
| `CommitStep`, `RecordStep` | `recordVerificationRunStep`: the evidence, then the step record |
| `FailRun`, `FailTerminal` | `failVerificationRun` |
| `CompleteBegin`, `Finalize`, `CommitRun` | `completeVerificationRun`, `finalizeRecoveredRun`: the terminal record, then `doneTask` |
| `CommitBatch`, `BatchEvidence`, `BatchDone`, `BatchEnd`, `BatchUndo`, `BatchUndoEvidence` | `completeObservedTasks`: entries one by one, rows one by one, and the catch clause that restores the task file and then the evidence file |
| `CloseOpen`, `CarryOpen`, `CarryRows`, `CarryClose`, `ClosePlan`, `CloseEvent`, `CloseAgain` | `closeSession` with its branches: strict verification, continuation, durable close of task file and plan with its rollback, `preserveContinuation`, the auxiliary event, closing twice |
| `Archive`, `EditArtifact`, `LoseLease`, `Crash` | `archiveSessions`/`restoreSessions` seen from the session; the environment |

Abstractions. An evidence entry keeps the fields the verification reads; its text is a
member of `Contents` (needed for the duplicate check only). An artifact is its content, 0
or 1, in the place of its hash. The evidence and run appends are atomic here: a torn line
is a hazard listed and not yet modelled. Whether a command passes is nondeterministic.
The strict verification's checks of text (checklists, headings) are left out. `began` in
an evidence entry is a history field: the attempt in which the command was started.
The session lock is assumed exclusive and its reclaim immediate (`Crash` releases
everything the process held); module SessionLock is about that assumption.

`TaskBoard` is what the session promises to whoever takes its lock: rows that follow the
arrows, `Complete` for the tasks of one command, `Carry`, and `Close`, which hands the open
tasks over and closes in one step. Nothing in it takes anything back. The mapping hides what
the holder of the lock may still restore: between the first write of a batch and its end, and
between the first move of a carry and the end of the durable close, `seenRows` are the rows
the holder remembers, and while the plan's mark is missing `seenClosed` is false. A kill shows
the rows as they are on disk. That too is a step of the board: `Complete` for the tasks the
batch had reached, `Carry`, or `Close`. So a batch is all or nothing unless it is killed,
and TaskBoard does not tell a killed batch from a smaller one. A reader that takes no lock
may see rows that are restored later.

Definitions marked "Mutated form" are not used by the specification. Each is a plausible
slip in the definition it precedes and documents which property notices it.

### SessionLock and ExclusiveLock

`withSessionLock`, one file-system call per step. Files are inodes, since the code
compares inode numbers: a path names an inode or nothing; an inode is used again once no
path and no open descriptor refers to it, as on a real file system. A process judges the
lock stale (`Judge`), creates the marker, writes it, reads the lock again (`Recheck`),
opens and compares (`Compare`) and unlinks the path (`Reclaim`), whatever the path names
by then (`Gone`). The identity includes a signature; `same` says whether the one that was
read is still that of the inode. `Age` is the passing of the stale age. Two constants
separate the assumptions: `MarkerCrash` (a reclaimer may leave its marker behind) and
`SlowWriters` (metadata may take longer than the ownerless age of 120 s; FALSE in all
runs). `ExclusiveLock` is the promise: one holder, acquire, release. The mapping is
`holders <- Inside`.

### CompletionLease

`withTaskCompletionLock`, one file-system call per step for the lock and the fence; the
fence is read, truncated, rewritten and checked in separate steps, and may fail at each.
A heartbeat and the final probe rewrite the lock's metadata in place, and are two steps
for that reason. `latest` and `torn` are history: who created the lock last, and whether
a process died, or a restore failed, half way through a rewrite. In the last case the
code leaves a file it cannot parse and will not remove; the properties name this case
instead of hiding it behind a constant.

### EventLedger

`appendEventLedgerRecords` and `appendValidatedEventLedgerRecords`: the batch is checked
(tail, limits, and for the validated form every record and id), written with `writeAll`
(short writes included), synced, and rolled back on any error; the rollback may fail as
well. `synced` is the part that survives `PowerLoss`, which may cut the first lost line;
the model assumes that what is left of unsynced appends is a prefix of their bytes.
`ops` is the history of what each caller was told.

### Mutations

`afol file`. A handler holds the mutation journal's lock throughout, so one runs at a time,
and every write of it (backup, prepared record, file, terminal record, and the same backwards
in its catch clause) is a step that may fail or be the last one. `RecoveryStatus` is
`preparedRecoveryStatus`: what the bytes on disk prove. `Edit` is an editor, which takes no
lock. Contents are sequences of appended texts; a hash is the content it is of.

### EvolutionJournals

Three canonical journals, `evolution.db` with its watermarks, and the checkpoint. A tail
digest chains over a whole journal and is the journal itself here. All handlers hold
`__evolution-journal__`: `job` is the handler and the step it is at, `FailAppend` the truncation
after a failed append or commit (which can fail), `EvoCrash` a death, with half a line or
none. `tokens` and `expired` are the claim tokens of `evolve suggest` and their expiry.
`OtherTerminal` is an apply or an evaluation, which rewrites the checkpoint and nothing else
of these journals.

### EvolutionApply and AssistedProposals

The first is the proposal that writes one new file: the command's steps over `applies.jsonl`,
the mutation journal and the file; the recovery that every command runs first, branch by
branch in the order of `recoverEvolutionAppliesUnlocked`; and what may happen meanwhile, since
the mutation journal's lock is held for the file's change only: `FileCommandRecovers`,
`FileUndo`, an editor. The second is the proposal with several files in one batch: prepared
records together, files one by one, committed records together, then "applied" in its own
journal; `ApplyProposal` also classifies what a death has left (nothing, a part, all committed).

### DatabaseLeases

`withExternalPathLease` and `withExternalPathSnapshot` of `io/session-lock.ts`. A copy holds
the path lock, drains the leases of living processes, copies database file and log in two
steps and compares. Leases are files: empty, then written; those of dead processes and empty
ones beyond an age are removed.

### Imports

`confirmExternalImport` and what it calls. The links of the export to a local session are
evaluated in `Preview`, before the lock, and again at each try. Under the lock come the
artifact, the acceptance event, the rows; `Fail` is the catch clause, which removes an
artifact this very call has put in place. Two effects of the code that the model shows and no
document speaks of: an artifact that a death leaves without an event blocks its import when
the links have changed since; and links that are `auto_verified` at the first confirmation
are refused at the acceptance, each time (`cli/tests/evolution-import-store.test.ts:394`
expects it).

### ReceiptIngest, WorkbenchIndex, PendingSpecs

*ReceiptIngest*: reservation, evidence entry and commit of a receipt, with the session lock of
the receipt's id, which a death frees, and the lock file of the ingestion, which a death
leaves behind. *WorkbenchIndex*: a command changes its board, appends its event and then
derives its own entry and merges it into the index it finds; a full rebuild reads session by
session while others go on; an index that is lost is made anew. `behind` names the sessions
whose rebuild failed, which the code reports as a warning. *PendingSpecs*: new, resolve, waive
and repair over plan, task file and index under the governance lock, and the lifecycle
commands that rewrite the same task file under the session's lock.

### UpdateBatch

`afol update apply` and `rollback`, for whole files. `Managed` is what the hashes of the lock
file say, `Conflict` what makes the plan refuse; the lock file is one of the files written. A
write can fail after its rename (the directory sync is behind it): such a file is not among
the `applied` ones and is not put back although the batch is recorded as rolled back. `missed`
names that case in the property, for the batch it happened to and its apply alone. After a death the prepared records remain: the recovery of
the mutation journal never settles records of kind update, and refuses other commands. No
document promises more, and no property claims more.

### ArtifactCapture

`saveArtifact` with a request id, in the order of `saveLocked`: recover what a prepared
request has left, look at the file of a prior one, write the marker, publish (create, write,
link and unlink a temporary file), read back, mark as committed. A fault may hit any step,
before or after its effect. `Tamper` is an editor; `alarms` records integrity errors, which
must have such a cause. A command whose last write fails still answers "persisted", with the
marker left as it was; the next one of the request finds the file.

### HistoryBackfill

One session that goes on (`ReportEvent`, `Result`, the batch actions) while `evolve backfill` and
`evolve observe` derive observations from it without its lock. Each source is read in a step
of its own, and twice: once for the cursor's hash, once for the observations. `PageLimit`
stands for the limit on telemetry; beyond it the session is done in pages. `writing` is an
append whose rows will fail: until it is truncated every other process can read its line.
`slipped` says that something an observer may have read was taken back, by such a truncation
or by a batch that was undone. The failures of the session are events with or without an error
type and results of one task and command; archived sessions are read the same way from
another place and are not told apart.

### Evaluations

`recordProposalEvaluation` and `recordProposalSupersession` over the apply journal and
`evaluations.jsonl`. `Valid` is what `validateBase` asks of a line, at its append and at every
later reading, and `anchor` the length of the apply journal that its author had read, which
makes old verdicts outlive a rollback. `facts` is what observations, production days and
evidence say since the apply; `Learn` changes them. The apply journal's own steps are
`AppendApply`, in any order that `assertTransition` allows.

### LockOrder

Which locks every command takes under which. A command is the set of the longest sequences of
locks it goes through, read off the handlers; a process takes the next lock of a sequence
when it is free, lets go of the innermost one, or gives up everything when its wait times
out. Leases and the drain of a copy are part of it, as waits that are not locks. Commands of
every component are in it, so that it composes them where they interact most: by waiting.

Two kinds of circles exist, and `OnlyKnownCircles` says that there are no others. One goes
through a copy of `evolution.db`: the snapshot holds the path lock and drains leases, while
close, suggest or import hold a lease and wait for `__evolution-journal__`, which repair and
evaluate hold while they want to open the database. The other goes through a session that is
being created: `newWorkstream` takes its lock under `__new_session__`, and `closeSession` that
of its continuation under its own session's. Both are ended by the timeout of the wait (30 s)
and by nothing else; the command that gave up reports an error.

### ComponentsMC

One instance of each component that shares no state with the others: session lock, event
ledger, mutations, evolution journals, proposals, database leases, assisted proposals,
receipts, index, pending specs, updates, imports, captured artifacts, history backfill,
evaluations, lock order: sixteen scenes. A behaviour chooses its `scene`
and only that component moves. Their product would tell nothing more, since no action of one
reads a variable of another, and would be out of reach. Where components do meet (the
completion lease and the session lock inside `done`; the mutation journal inside a proposal
or a batch; the locks of all commands) the module of the larger one contains what it sees of
the smaller one.

## 3. Runs

| run | question | instance | states |
|---|---|---|---|
| `TaskRuns` | is the run ledger coherent under crashes, lost leases, restarts? | 2 processes, 1 task, 2 commands, 3 attempts, 3 entries, 2 runs, symmetric processes | 0.35 M |
| `TaskPolicies` | does `done` accept only what close accepts? | 1 process, execution and artifact policies, all forms of `done` but batch, declared evidence, 3 entries | 3.4 M |
| `TaskBatch` | are done rows backed after a batch fails anywhere; is the session, seen under its lock, the abstract board? | 1 process, 2 tasks, single, bare and batch `done`, close, carry, 2 attempts, 3 entries | 2.6 M |
| `TaskClose` | is a closed session settled; do commands end? | 2 processes, multi and bare `done`, close, carry, archive; 3 entries; fairness | 0.20 M |
| `CarryRetry` | is there one continuation? (violated) | 1 process, 2 continuations | found at once |
| `LockLive` | are dead locks and dead markers removed? | 2 processes, 3 inodes, nesting 2, markers may be left behind; fairness | 0.85 M |
| `LockMarker` | is it exclusive with a leftover marker? (violated) | 2 processes, 4 inodes | found at once |
| `Lease` | can only the latest holder commit; is the fence restored; is a dead holder replaced? | 2 processes, 3 inodes, generations up to 3; fairness | 0.45 M |
| `Components` | the properties of the sixteen scenes of ComponentsMC | see below | 2.4 M |
| `EvolveStale` | does a checkpoint vouch for the projection? (violated) | 1 date, 2 observations, 2 faults | found at once |
| `EvolveStuck` | can the recovery of proposals always go on? (violated) | 4 mutations, 1 edit, 2 faults | found at once |
| `LostTransition` | does a transition survive resolve-spec? (violated) | 3 processes, 2 transitions | found at once |

The scenes of `Components`: *lock* 2 processes, 3 inodes, nesting 2, exclusion and the
refinement of ExclusiveLock; *ledger* overlapping batches of 1 and 2 events, 3 lines, 3
appends; *mutations* 2 files, contents of up to 2 patches, 2 mutations, 1 edit; *journals*
1 date, 2 sessions, 2 observations, 3 receipts, 2 faults; *applies* 4 mutation ids, 1 edit,
2 faults; *database* 2 openers, 3 transactions, 2 leases; *proposals* 2 files, 2 attempts,
3 decisions, 1 file touched, 2 faults; *receipts* 2 ids of 2 contents, 2 workers, 3 entries,
2 failures; *index* 2 writers, 2 sessions, 2 changes, an archive, a loss; *specs* 2
processes, 2 transitions, 2 faults; *update* 3 files of which one is the lock file and one
is removed by version 2, 2 batches, 1 edit, 2 faults; *imports* 2 importers, 2 exports, 2
faults; *captures* 2 processes, 2 payloads, 2 artifact ids, 2 faults, 1 edit; *history* 1
observer, 2 events in pages of 1, 2 results, 1 fault; *ratings* 1 process, 2 applies with and
without a contract, 3 lines, 1 fault; *order* 2 processes, sessions, tasks and files numbered 1
and 2. One observer is enough for the cursor, whose counterpart is the session; one process for
the evaluations, which hold two locks from their reading to their append.

Why these bounds are enough to be interesting. Two processes are the number the
conflicts need: a process that lost its lease or died, and its successor. A process that
crashes becomes a new one, so "dead holder plus two reclaimers" fits in two. A task
needs two attempts for evidence to be of the wrong one, three (in_progress, problem,
in_progress) for a late result to find the row eligible again; a run needs two steps to
be incomplete; two runs are needed for one to be superseded. Three entries are a
complete two-step run and one entry to contradict it. The fourth inode of the lock lets
an inode be used again while another process still knows its number. Three lines and
overlapping batches reach the limit, a torn batch and a retried id. Two faults are a failure
and the failure, or the death, of what should have made up for it; two attempts are an
interrupted change and the one that takes it up; two mutations are a change and its undo, four
in a proposal two of each. Two processes close every circle of waits that only two kinds of
locks take part in; the theorem about the order of locks is for any number. All
constants named `Max...` are bounds; each appears in the guard of the action that would
exceed it. `MaxLines` is
the code's own limit, and `MaxGen` also takes the error path of `ReadFence`. A `done`
that finds no room for its evidence ends with an error, as it does when the append fails.

Deadlock checking is off everywhere because every one of these systems may really stop: a
session that is closed and archived, a ledger that is full, processes with nothing to do.

Fairness. `FairSpec` of TaskLifecycle is weak fairness of `Continue(p)`, for each process:
a process that was not killed takes its next step. The code earns that with timeouts on
everything that could hold it up (verification commands, the session lock, the lease), and
the model has them as the actions `Busy`, `LockTimeout` and `LeaseLost`. No fairness is
asked of `Begin`, `Crash` or the operator. `SessionLock` and `CompletionLease` assume the
same of `Step(p)`, and SessionLock that files grow older and, by strong fairness of the end
of the outermost action, that an action ends however often it nests others. `GiveUp` is never fair: the
liveness properties say that a lock goes away or that nobody wants it any more. They also
assume that deaths and failed writes come to an end, without which nothing can be
promised.

### What disagrees with the repository

- `CarryRetry`. `closeSession` creates the continuation before it moves the open rows,
  and recognises an earlier one only by rows already moved (`workbench/lifecycle.ts`
  2699-2760 and 2794-2800). A death in between and a second `close --carry-open` make two
  continuations. The test titled "close carry-open recovers an already-created
  continuation after a crash" (`cli/tests/workbench-lifecycle.test.ts:3590`) covers the
  crash after the move only.
- `LockMarker`. `unlinkIfIdentityMatches` (`io/session-lock.ts` 219-238) compares and
  then unlinks by path, and the identity it compares is the inode number, which the file
  system may give to the next file. Where a reclaimer has left a marker behind, two
  processes judge that marker stale. The first removes it, makes its own marker, which
  gets the same inode number, passes the re-check and is about to unlink the stale lock.
  The second finds the number it judged, removes the first one's new marker, makes its
  own and passes the re-check as well, because the stale lock is still there. The first
  now unlinks the stale lock and creates a fresh one, again with the number just freed;
  the second compares numbers, unlinks that live lock and creates its own: both hold it.
  The tests
  "serializes simultaneous reclaimers of the same stale lock" and "recovers when a prior
  stale-lock reclaimer left its marker behind" (`cli/tests/session-lock.test.ts` 510 and
  544) each hold; their combination does not.
- `EvolveStale`. `writeEvolutionProjectionCheckpoint` (`evolution/projection-checkpoint.ts`
  146) certifies the tails of the journals and a digest of the rows as they are. After a crash
  between the append of an observation and its transaction, an apply or an evaluation writes a
  checkpoint that fits the grown journal and the stale rows; a reader that asserts only the
  checkpoint accepts them.
- `EvolveStuck`. `recoverEvolutionAppliesUnlocked` (`evolution/apply-service.ts` 963) looks
  for any prepared record of the proposal's mutation and then insists that it is unmatched.
  When an `afol file` command has settled the record as rolled back in the meantime, it
  throws "evolution recovery prepared state is ambiguous" for ever, and its own branch for a
  rolled back mutation is never reached.
- `LostTransition`. `resolve-spec` and `bulk-waive` read a task file and write it back whole
  under the governance lock (`governance/pending-specs.ts` 771 and 796), while transitions of
  its rows are made under the session's lock. A transition in between is taken back.

Smaller observations, on which no run is spent:

- A paged session (`evolution/history-backfill.ts` 709-778) that is finished between two of
  its pages derives the failed results of the earlier page once more, now with a production
  day. The journal compares that day too (`observation-journal.ts` 443-450 and 796-803) and
  refuses them, so the cursor stays pending and every later backfill of the session reports
  an error. The comment above `processHistorySession` has "Journal occurrence-identity dedup
  makes page resume idempotent".
- `observation-ingest.ts` 497 reads the journal without its lock. A line that another process
  is about to truncate counts as a duplicate, and the cursor then calls complete what is not in
  the journal; results that an undone batch takes back may have been observed.
- A mutation that was superseded stays so when its successor is rolled back later, and cannot
  be superseded again (`evaluation-journal.ts` 326-336).
- A torn last line makes `evaluations.jsonl` unreadable for every command, the one that would
  evaluate again included; the same holds for a fence, a lease's lock file and a receipt's lock
  file that a death cuts.

## 4. Proofs

| module | theorem | property |
|---|---|---|
| `TaskLifecycleProofs` | `TypeCorrect` | `TypeOK` |
| | `OnlyLatestRunIsOpenHolds` | `OnlyLatestRunIsOpen` |
| | `NoStrandedEvidenceHolds` | `NoStrandedEvidence` |
| | `RunsAreCoherentHolds` | `RunsAreCoherent` |
| | `RunLedgerOnlyGrowsHolds` | `RunLedgerOnlyGrows` |
| `TaskSettlementProofs` | `ClosedIsSettledHolds` | `ClosedIsSettled` |
| | `SettledIsFinalHolds` | `SettledIsFinal`, of the rows on disk |
| | `DoneIsBackedHolds` | `DoneIsBacked` |
| | `CompletionSatisfiesCloseHolds` | `CompletionSatisfiesClose` |
| | `EvidenceIsOfItsAttemptHolds` | `EvidenceIsOfItsAttempt`, without carry-open |
| | `ImplementsTaskBoardHolds`, `SeenIsFinalHolds` | `ImplementsTaskBoard` |
| `CompletionLeaseProofs` | `LeaseInvariant` | `LeaseInv`, with the types |
| | `OnlyLatestCommitsHolds` | `OnlyLatestCommits` |
| | `FenceIsRestoredHolds` | `FenceIsRestored` |
| `SessionLockProofs` | `HolderOwnsTheFileHolds` | `HolderOwnsTheFile`, without leftover markers or slow writers |
| | `ImplementsExclusiveLockHolds` | `ImplementsExclusiveLock`, likewise |
| `FilesProofs` | `AnswersAreTrueHolds` | `AnswersAreTrue` |
| | `StaysReadableHolds` | `StaysReadable` |
| | `NothingIsLostHolds` | `NothingIsLost` |
| | `MutationTypeCorrect`, `JournalTellsTheTruthHolds` | `JournalTellsTheTruth` |
| | `UpdateTypeCorrect`, `BatchTellsTheTruthHolds` | `BatchTellsTheTruth` |
| | `ProposalTypeCorrect`, `AppliedIsWholeHolds` | `AppliedIsWhole` |
| | `HalfAppliedIsRepairedHolds` | `HalfAppliedIsRepaired` |
| `LockOrderProofs` | `OrderTypeCorrect`, `OnlyKnownCirclesHolds` | `OnlyKnownCircles` |
| `EvolutionProofs` | `ImportTypeCorrect`, `ImportsAgreeHolds` | `ImportsAgree` |
| | `RatingsStayValidHolds` | `RatingsStayValid` |
| | `VerdictsNeverGoBackHolds` | `VerdictsNeverGoBack` |
| | `CopyIsOfOneMomentHolds` | `CopyIsOfOneMoment` |
| | `OneLiveApplyHolds` | `OneLiveApply` |
| | `TerminalsTellTheTruthHolds`, `ApplyTypeCorrect` | `TerminalsTellTheTruth` |
| | `JournalsTypeCorrect`, `AckedIsKeptHolds` | `AckedIsKept` |
| | `ReceiptsAreCanonicalHolds` | `ReceiptsAreCanonical` |
| | `RepairMakesWholeHolds` | `RepairMakesWhole` |
| `RecordsProofs` | `OneEntryPerReceiptHolds` | `OneEntryPerReceipt` |
| | `IndexTypeCorrect`, `IndexFollowsSessionsHolds` | `IndexFollowsSessions` |
| | `SettledEverywhereHolds` | `SettledEverywhere` |
| | `SavedOnceHolds` | `SavedOnce` |
| | `BackfillTypeCorrect`, `CompleteMeansObservedHolds` | `CompleteMeansObserved` |

The theorems about TaskLifecycle hold for any set of processes, any number of tasks and of
commands per run, any policies, modes and optional commands, and any bounds: the only
assumptions are the three `ASSUME`s of the module (nobody is not a process; the sizes are
numbers; `execution` is one of the policies).

**Runs.** `TypeInv` adds to the types that a process between two writes of a handler
holds the session lock (`LockHeld`), without which its next write could meet anything,
and that the evidence length an undo would restore is at most the present one
(`UndoFits`), without which `SubSeq` would not be a prefix. `RunInv` adds, for the runs:

- `LatestAtHand`: the run a process holding the lock is working on is the latest of its
  task, so that a run it starts or settles cannot leave an older one open;
- `EvidenceOfRun`: evidence tagged with a run agrees with it in task and attempt, so that
  a reconciled step record is one of the run's own;
- `StepsInOrder` and `StepHalfDone`: steps are filled from the first one on, and evidence
  without a step record exists only while its writer is between its two writes or has
  stopped there, in which case the run is still open;
- `FailsOnly`: a process about to fail a run carries a failing terminal status, so that
  "passed" is written by `Finalize` alone, which has checked that the run is complete;
- `BatchIsUntagged`: what a batch may take back from the evidence file is tagged with no
  run, so that an undone batch never pulls an entry from under a step record.

Each action is treated once, in a lemma for its group (`TypeSingle`, `TypeRunSteps`,
`RunsBatch`, ...); lemmas about the few shapes of a step (`GotoKeeps`, `EndKeeps`,
`UntaggedKeeps`, `TermKeeps`, `RecordKeeps`, ...) keep these short. `RunLedgerOnlyGrows`
is an action property and follows from `RunInv` action by action (`StepGrows`).

**Settlement.** Four inductive invariants, one for each question, since their parts have
nothing to do with each other. Each speaks of what a process in the middle of a handler knows
or remembers, because other processes may move in between.

- `CloseInv`: a process between the writes of a batch or of a carry still finds the session
  open (`KnowsClose`), which no early return checks again; with no open task left when it
  reaches the durable close; and a close event is only logged behind a close that stands.
  `SettledIsFinal` follows from it step by step: a row that is done or moved is written by
  nobody but a batch or a close that restores its rows.
- `BackInv`, over `RunInv`: a done row is backed by an entry (`Backs`), and if that entry is
  tagged with a run, by that run. What may still be restored has to be backed as well: the
  rows a batch remembers by the evidence file cut to the length it remembers, because the undo
  cuts that file (`BoardBacked`). Rows that were done stay as they were remembered, so that
  `BatchUndo` and `ClosePlan` bring back nothing old. `JustFiled` and `BatchFiled` say of the
  entries a handler has written and not yet used that they are those of the rows it will
  complete. Without them `FinishSingle` and `BatchDone`, which look at these entries alone,
  could complete a row on the entry of another attempt.
- `BoardInv`, over `CloseInv`: how far the rows on disk have left the remembered ones
  (`KnowsBoard`). Before and after a batch, at its undo and at a lost close they are equal; in
  the middle of a batch some tasks of it have gone from an eligible state to done and nothing
  else has changed; between carry and close exactly the open rows are handed over
  (`HandedFrom`). Without it a kill could show rows that no step of the board leads to.
- `AttemptInv`: the attempts a process has seen are at most the present ones, in the order in
  which it saw them (snapshot, begin of the command). What makes the entry right is that the
  handlers compare the snapshot with the row before they write.

`ImplementsTaskBoard` is proved step by step. While another process holds the lock, a step
changes nothing the board sees (`SeenElsewhere`); otherwise it shows nothing new
(`ShowsNothing`), or it lets the hidden rows be seen (`Reveals`), or it is one of the few writes
the board makes itself. `SeenIsFinal` says what follows for every reader under the lock: done,
moved and closed are final without exception. On disk that holds only while nothing may be
restored (`SettledIsFinal`).

`EvidenceIsOfItsAttempt` is proved for sessions in which close is never asked to carry
(`"carry" \notin Ops`), as its comment says. A `close --carry-open` passes rows in hand
through problem, and when it fails at the plan restores them with their older attempt number.
A command that starts meanwhile, without the session lock, has begun in an attempt that is
then taken back, and its result is filed under the restored one.

**The completion lease.** `OnlyLatestCommits` needs `PathIsLatest`: if the path names the file
a process created, that process is the one that created the lock last. It is inductive because
an inode that the path names or that its living creator remembers is not used again (`Unused`), so that a
later owner has another one; `assertOwned` compares them, and the fence is a second line that
the proof does not need. `FenceIsRestored` is inductive with the types and
`CountsOn`. Both hold for any number of processes, inodes and generations.

**The session lock.** `LockInv` says where each file is: the paths name the files of those who
hold them (`Named`), no file has two creators (`Alone`), a marker in place has somebody who
will remove it and files do not grow old before their metadata is written (`Kept`), and a
signature that still fits is that of the lock in place, whose owner is dead (`Judged`). The
last one is why `Reclaim`, which unlinks whatever the path names by then, unlinks the judged
file: while a marker is in place nobody else creates or removes a lock, except its owner, who
is dead. Both theorems assume what that takes. With `MarkerCrash` the run `LockMarker` shows
two holders; with `SlowWriters` a living process whose file is empty beyond the ownerless age
loses it, as the code intends. `ImplementsExclusiveLock` is proved step by step: entering is
`Acquire`, leaving or dying inside is `Release`, and everything else, the reclaim included, is
a stutter; `HolderOwnsTheFile` makes the holder unique.

**The event ledger.** Two things make `LedgerInv` inductive. While an append is under way
(`Appending`) it is the last one and holds the lock (`OneAppends`), the lines up to the size
it found are whole and of earlier appends, and those behind it are its own, from the first one
on: so a rollback takes back its own lines and nothing else, and a batch whose ids were
compared with the file stays free of duplicates until it is written. And what was acknowledged
lies below `synced` (`Durable`), which an append only moves forward, so that no loss of power
reaches it. `FromBatches` ties a line to the batch it came from. The theorems assume that the
batches are non-empty sequences of ids and that the limits are numbers.

**File mutations.** `NothingIsLost` says too little of a handler at work to be inductive.
`MutationInv` adds what a handler found under the lock when it wrote its record
(`HandlerFound`), and for each place in its code what the files of its mutation hold
(`HandlerStands`): before the write they are as found, at the commit the change is there, at
the start of a rollback it is there or it is not, and the handler tells by comparing; at the
last append everything is back. With that a commit and a rollback record the truth. A recovery
needs the other half, `MutationFacts`: the backup of a mutation is what it overwrote for as
long as the journal has it, because a new mutation takes an id that is free (`NextIdIsFree`),
so that what `RecoveryStatus` compares is what the handler found. `ArchivesAreFree` says the
same of the archive an id is to have: that nothing is moved onto an earlier one. An undo is a
mutation of its own, and what is known of it is put in terms of the one it undoes. Editors come
between commands only (`Edit`), and neither theorem excepts files they have changed. The
assumptions are that project files are not named like archives and that no text is called
like the mark of a missing file.

**Updates.** `UpdateInv` says, for the command that holds the locks (`CommandStands`), that the
files it has not come to are as the batch found them, those in `done` as it wants them, and
those no longer in `left` of a restore as before; that nothing is left over when it commits;
and that the backups are there from the first write on. `CommittedIsBackedUp` keeps them for a
later rollback. The exception `missed` stands where the code has it: a failed write that took
effect is not in `done`, so the restore passes it by. It concerns the records of an apply that
is taken back; a batch recorded as committed is whole without exception.

**The order of locks.** `OnlyKnownCircles` holds for any number of processes, sessions, tasks
and files (`NumberOfNames`: the latter are numbered from 1 to some natural number). Every lock
has a level: the kinds begin at multiples of `W`, and within sessions, tasks and files the
number of the object counts. Each sequence of locks in `Commands` rises in level except where
the lock of a session being created is taken; that is shown family by family. `WaitsAbove`,
the invariant, says that what a process waits for is above all it holds, with the two
exceptions. In a circle without an exception whoever waits for the lock of the highest level
waits for a process that waits for a still higher one. The circle may be infinite, so that the
highest level exists because levels are bounded: `LeastNatural`, from the library's theorem
that < is well-founded on the naturals.

**Imports.** `ImportsAgree` is not inductive: nothing in it says why the next write of a call
agrees with what is there. `ImporterKnows` says, for each step under the lock, what the call has found
or written (no artifact before `install`, its own or an equal one after it, no event before
`append`); `OneImporter` that one call at most is under the lock; and an artifact that a call
may remove is confirmed by nobody. It holds for any number of importers, imports and faults.

**Evaluations.** Both theorems hold for any number of raters, applies, lines and faults, and
assume nothing of the constants. `RatingsStayValid`, with the types, is inductive, because of
how the apply journal grows (`HistoryGrows`): what was said keeps its place, since no record is
there twice, and a later record lies behind every anchor, so that a later rollback is not held
against a line (`RolledBackBy`). `VerdictsNeverGoBack` needs `Honest`, what a line proves of
the journals for good (a line "rolled_back" that there is a rollback, a line "regressed" that
there is a recurrence and a contract); `Follows`, how a line may stand behind an earlier one;
`RaterKnows`, that the line a rater is about to append is honest and may follow all that are
there; and `OneRater`, without which two raters that both found their line missing would both
append it.

**Copies of the database.** `CopyIsOfOneMoment` follows from `Copying`: from the drain to the
comparison no other process has a lease, so that neither the file nor its log can change
between the two copies, and what was noted before them still holds. That nobody has one needs
`LeaseHeld`: a living process that has the database open owns a lease file that names it and is
not that of a dead process, and, once the opener has let go of the lock, is written. So it is
never one that may be reclaimed for its age, and a copier that finds no lease but its own has
waited for everybody. `DbLocked` keeps new openers out meanwhile, and `WalReachesBack` says of
the database itself that its log reaches back to the file. The same process may have the
database open while it copies: it is the one that waits.

**Receipts.** `CallKnows` says what a call has found of its receipt and what cannot change while
it has the lock of the id: that there is no line before it reserves one, that there is a line
of its content from then on, that there is no entry before it records one, and that the entry
it commits is of its content. `LinesAgree` and `EntriesReserved` are what makes the second call
sound, which finds the entry by the receipt's id alone: an entry has the content of a line, and
all lines of a receipt have one content.

**The workbench index.** A rebuild reads the ledger, the index and the boards at different
times while other commands change them. `ReadSoFar` says that for a session in which nobody
else's command is under way and none was cut off (`Steady`), what the rebuild has read is still
so: its events, the board if it was read, and the old index's entry if the rebuild will keep
that. It holds because a command that changes a session is counted among its owners until its
own rebuild is done, and that rebuild waits for the index lock, which this one holds
(`RebuildUndisturbed` and the lemmas after it). The proof keeps all
commands in one set (`Command`, with partial functions as fields); `IndexTypesFit` leads back
to the type invariant TLC checks, which cannot enumerate such a set.

**Pending specs.** `Resolving` says how far resolve-spec has come (the plan is settled from its
write on, the task file before the index is written), `Repairing` that what a repair has
derived from the files holds of them until it writes it, and `SpecLocks` that one process at a
time governs. `crossed` is where the locks do not meet: a lifecycle command writes the task
file under another lock and may put an older frontmatter back. The invariant keeps
that as an alternative, as the property does; it is the weakness that `LostTransition` shows
from the other side.

**Applying a proposal.** `OneLiveApply` is not inductive: a second application becomes live
when a commit is appended, so that what counts is that no second one was prepared.
`OneOpenApply` takes the live ones and the pending ones together: they are one at most, and
none while a command stands before its prepare. A failed apply and its recovery move it from
pending to settled, `Propose` finds neither. `TerminalsTellTheTruth` needs `CommandKnows`: a
command at its terminal has its mutation committed, or the file is not the proposal's any
more. Records of the mutation journal are never taken back, and nobody but a command puts the
proposal's content there (an editor that writes the very same bytes is not told apart from the
absence of an edit). The lemmas about the kinds of journal step (`MutationLogged`, `EventNoted`,
`JournalRests`) carry the rest. TLC checked the property first with an exception for edited
files; the proof needed none, and the exception is gone. `NextMut` and the undo's
number are chosen as least and greatest members; that these exist comes from the library's
theorem that < is well-founded on the naturals (`LeastMember`, `GreatestMember`).

**The evolution journals.** The rows of the database may lag behind their journal at any time,
so `JournalsInv` says what a reader can rely on nevertheless. Rows that carry the journal's
watermark and have its length are the journal's own (`Aligned`): the code compares watermark
and length only, and `ReceiptsAreCanonical` follows. A claim's number is at most that of its
line (`NumberedByPlace`), so that the numbers never pass the bound on lines and the types
hold. `AppendKnows` says, step by
step, what the handler of an append knows of its journal and its rows, above all that the last
line is its own and that the lines before it keep everything that was acknowledged: so the
truncation of a failed append takes back nothing else, which is `AckedIsKept`. `RepairKnows`
lists which parts a repair has already made right; when it writes its last checkpoint all are
(`RepairStep`), and `RepairMakesWhole` is the action property that says so.

**Assisted proposals.** What matters of a batch is the last record of each file (`LastRecord`).
`BatchOK` says that a file's records are in the order of its attempts and each attempt begins
with "prepared"; that a record is unsettled exactly if the last one of its file is "prepared"
(`OpenIsLast`); and that the first file is in every attempt, since an append that is cut off
keeps its first lines (`FirstLeads`): `LastTry(1)`, by which a later call numbers its attempt,
is therefore the greatest. `RunKnows` says what the call knows of these records at its step,
`FilesAsSaid` that the files are as the records say while no editor and no interrupted rollback
came between, and `AppliesTrue` what has been written so far and that no second "applied" is
under way. The lemmas `LinesSay`, `PartSays` and `SayExtends` reduce an append of lines for a
set of files, whole or cut off, to what it makes the last record of each file; `LastTryIs`,
`TerminalIs` and `OpenAre` lead back to the model's own operators. Both theorems hold for any
number of files, attempts, edits, decisions and faults. `HalfAppliedIsRepaired` was stated
first for files that are all in the same attempt; the proof needed only that each has a record,
and the property now asks no more than that.

**Saving an artifact.** `CaptureInv` says that files and answers are those of the artifact that
the marker names (`OneArtifact`), how the temporary and the published file go together while
nobody meddles with them (`Untouched`), and what a command knows at its step (`SaverKnows`):
`Expected` lists, step by step, which of the two files it expects absent, linked or whole.
A command that dies leaves a combination that `Untouched` allows, and that the recovery of the
next one tells apart. Without `Expected` a command that goes on could find a file that an
earlier try had left and report damage. `OneSaver` is the lock of the marker. The theorem
assumes only that the contents are not called "absent" or "spoiled" and that the bounds are
numbers.

**Backfill.** A cursor compares hashes, and a session may come back to sources it had before:
a batch that fails takes its results back. So it is not enough that a row of the cursor was
right when it was computed. `HonestRow` says of every row, the stored one and the one a run is
going to store (`RunWrites`), that the failures of its sources are in the journal, or that the
session has outrun these sources (`Outrun`): a failure was observed behind them, or one of their
results is gone for good, ids being given once, or the batch that completed them is being
undone. The first of these could end by the undoing of that batch; then a result that somebody
had observed is taken back, which is what `slipped` records. `RunReads` says how what a run has
read relates to the session as it is now (`Begins`), and `StoryOK` how a batch lies behind what
it will keep. `Goes` collects the steps that take nothing back, under which all of it stays
(`OutrunGoes`, `HonestGoes`, `RunGoes`). While `slipped` is false nobody is at work when a batch
is undone. The theorem holds for any number of observers, results, events and faults, and any
limit on telemetry.

Checked by TLC only: all liveness (`CommandsEnd`, `DeadLockIsReclaimed`,
`DeadOwnerIsReclaimed`), which is beyond the prover. The inductive invariants contain the types
of their components, whether or not the table lists a theorem of its own for them; those of
SessionLock and Evaluations contain the part of the types that their proofs need. The modules
that are proved about are extended by ComponentsMC, not instantiated, so that run and theorem
speak of one definition.

## 5. Plan

Order: the most important behaviour first, and for each module the runs before the
proofs. No module that is proved about uses a RECURSIVE operator.

1. `TaskLifecycle` with `TaskBoard`, its runs, `TaskLifecycleProofs`, `TaskSettlementProofs`:
   done.
2. `SessionLock` with `ExclusiveLock`, `CompletionLease`, `EventLedger`, `DatabaseLeases`,
   `LockOrder`, with `SessionLockProofs`, `CompletionLeaseProofs`, `FilesProofs` and
   `LockOrderProofs`: done.
3. `Mutations`, `EvolutionJournals`, `EvolutionApply`, `AssistedProposals`, `Imports`,
   `ReceiptIngest`, `WorkbenchIndex`, `PendingSpecs`, `UpdateBatch`, `ArtifactCapture`,
   `HistoryBackfill`, `Evaluations`, with `EvolutionProofs`, `RecordsProofs` and
   `FilesProofs`: done.
4. `EvidenceAuthority`: the fold of `evidenceCompletionAuthorization` against a reference
   definition, declared duplicates, and a byte-level append of evidence and run files.
5. File claims between sessions, linking an import by hand, library and memory entries.

## 6. Not modelled, and why

Parsing and rendering of Markdown, sanitising of evidence text and recognition of no-op
commands are computations over text that the properties do not tell apart; so are the
analysis, scoring and packets of `evolve`. The readers and reports (catch-up, briefing,
session context, health, drift, status, fleet, UX) keep no state. Library and memory entries
change one file under one lock. Benchmarks, development tools and the validation harness are
I/O or measurement. The state database is a cache that is rebuilt from the files. The template
and `cli/generated` are data. Of the command line only the control of `done` and the locks of
all commands are modelled. Of updates the merging of manifests, ignore rules and the bootstrap
command are left out, of the index the health checks and the freshness by modification times.
Windows-specific retries of the session lock are left out. Of artifacts, saves without a request
id (which nobody tries again) and the checks of inputs and paths; of the evolution services the
projection of evaluations, lesson records, and the review of preferences and adoptions.
