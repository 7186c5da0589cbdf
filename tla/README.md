# A verified model of codex-par

`codex-par` (the crate under `src/`) runs many Codex CLI tasks in parallel: either
`codex-par run` executes a YAML configuration in dependency waves, or `codex-par serve`
is an MCP server whose runs accept new tasks while they execute. This directory holds
TLA+ models of the parts of it that are concurrent, TLC runs that check them on small
instances, and TLAPS proofs of their safety properties for every instance.

- [1. The system](#1-the-system)
- [2. Modules](#2-modules)
- [3. Runs](#3-runs)
- [4. Fairness](#4-fairness)
- [5. Proofs](#5-proofs)
- [6. Where the code and its documents disagree](#6-where-the-code-and-its-documents-disagree)
- [7. Abstractions and what is not modelled](#7-abstractions-and-what-is-not-modelled)
- [8. What could come next](#8-what-could-come-next)

## 1. The system

| Component | Source | State it keeps | Operations | What makes it hard |
|---|---|---|---|---|
| Run coordinator | `src/coordinator.rs` | `pending` (queue with barriers), `running`, `completed`, `accepted`, the `JoinSet`, `sealed`, `all_ok`, the receiver of the dispatch channel | the three branches of one biased `select!`, `spawn_ready_tasks`, `accept_pending_task` | reports, messages and the cancellation arrive in any order; tasks panic; what is queued at the end |
| Tool handlers and registry | `src/commands/serve.rs` | `runs`: run_dir -> (token, join handle, sender, accepted names, facts lock) | `start_run`, `dispatch_task`, `dispatch_wave`, `seal_dispatch`, `cancel_run`, `get_status`, `list_runs`, reads | each call is a task of its own, with awaits between check and use |
| Task runner | `src/runner.rs` | one `TaskMeta` in memory and on disk, the child, two pipes, two log files | `run_task`, `resume_task`, `kill_and_wait`, `spawn_stderr_drain` | pipes fill up, processes ignore signals or leave helpers, cancellation races the end, file operations fail |
| Wave planner | `src/config.rs` | none (a pure partition) | `into_waves`, `from_str` | cycles, unknown names, every shape of graph |
| Wave executor | `src/execution.rs`, `src/commands/run.rs` | `wave_failed`, `all_ok`, the `JoinSet` of a wave | `run_waves_quiet`, `run_command`, `collect_reports` | failures, panics and Ctrl+C at any point between and inside waves |
| Meta files | `src/meta.rs` | `<task>.meta.json`, `run.meta.json` | `save` (temporary file and rename), `load`, `load_all` | three writers per file, readers at any time, failing writes |
| Facts store | `src/facts.rs` | `facts.json` | `write_fact`, `read_all`, `build_preamble` | read-modify-write under a lock that only registered runs have |
| Mailbox | `src/message.rs`, `send_message` and `list_mailbox_messages` in `serve.rs` | append-only JSONL files | append, list | appends of several writers, torn lines |
| Readers | `src/dashboard.rs`, `src/commands/{status,tail,clean}.rs`, `src/artifact.rs` | none | poll files | files change while they are read |
| Event parser, command line | `src/event.rs`, `src/main.rs` | none | parse | - |

How they interact. `start_run` writes the run's and the tasks' metas, starts a background
task around `RunCoordinator::run`, and registers the run. Dispatch handlers find the run in
the registry, check the token, lock the *accepted* set, validate against it, and `try_send`
into the bounded channel; `seal_dispatch` and `cancel_run` send a `Seal` in the same channel,
`cancel_run` after cancelling the token. The coordinator spawns one `run_task` per unblocked
task; every task shares the run's token and writes its own meta file; a task that fails, or
panics, makes the coordinator cancel the token. Errors of most saves are ignored or only
warned of, so a file may lag behind what it is about. When the loop ends, the background task writes
the verdict to `run.meta.json` and leaves the registry. Clients only see the files and the
answers of the tools.

What makes each component correct:

- *Coordinator*: a task starts only when its `depends_on` and its barrier are **done** (and
  `completed` also holds tasks that failed); no task is spawned twice, lost or kept waiting for
  ever; a seal or a cancellation ends the run; the verdict agrees with the tasks, and no file
  has another verdict than its task, even where saves failed; statuses never go back.
- *Handlers*: the server's accepted set and the coordinator's own never disagree about a
  name; dependencies arrive before their dependents; a full channel refuses.
- *Runner*: the reported status is true; the child is reaped whatever happens; no stranger is
  signalled; the call returns.
- *Planner and executor*: every task is in exactly one wave, after its dependencies, as early
  as possible; only unorderable configurations are rejected; exit code and skip reasons are
  true; every meta file says what became of its task, or its last save failed.
- *Registry and files of a run*: one run per directory at a time, nobody else writes its files,
  the status a client reads is that of the run it belongs to, a run that is closed leaves.
- *Facts store*: calls are atomic, what is reported written stays, readers never see a torn file.
- *Mailbox*: a listing has every message that was sent before, or fails for a reason.

`PROJECT.json` lists every component with its status, and under `hazards` each place where
this code is hard to test, with the properties that cover it or the reason why none does.

## 2. Modules

| Module | Models | Role |
|---|---|---|
| `TaskGraph` | the condition under which Kahn's loop places every task | shared definition |
| `RunContract` | - | abstract specification of a run: admit, start, settle, stop, abandon, conclude |
| `TaskContract` | - | abstract specification of one task: what its report and its meta file promise |
| `Coordinator` | `coordinator.rs` and the dispatch/seal/cancel handlers of `serve.rs` | detailed; implements `RunContract`, and `TaskContract` for every task |
| `Waves` | `into_waves`, `run_waves_quiet`, `run_command` | detailed; implements both too |
| `TaskRunner` | `run_task` and `resume_task` with the child process, pipes and signals | detailed view of what the others call a task step; implements `TaskContract` |
| `Registry` | `start_run`, the background task, `cancel_run`, `seal_dispatch`, `get_status`, `resume_agent` on one directory, over several generations | the run as a whole; a coordinator is a few steps of it |
| `FactsMap` | - | abstract specification of the facts: one map, one update per acknowledged call |
| `FactsStore` | `facts.rs` and `write_fact` in `serve.rs` | detailed; implements `FactsMap` |
| `Mailbox` | `append_jsonl`, `send_message`, `list_mailbox_messages` | detailed |
| `MCCoordinator`, `MCWaves`, `MCTaskRunner`, `MCRegistry`, `MCFacts`, `MCMailbox` | - | instances for TLC |
| `Coordinator_proofs`, `Waves_proofs`, `TaskRunner_proofs`, `Registry_proofs`, `FactsStore_proofs`, `Mailbox_proofs` | - | TLAPS proofs |
| `RunContract_proofs`, `TaskContract_proofs` | - | TLAPS proofs of what the two contracts imply |

Definitions that begin with "Faulty variant" are never used by the specifications: each is a
plausible mistake in the operator that follows it, and putting it in that operator's place
makes one of the checked properties fail. They show that the properties bite.

### Coordinator

State: `chan` is the mpsc channel; `accepted` is the server's set and `known` the
coordinator's; `pending`, `running`, `completed`, `joinset`, `sealed`, `allOk` are the loop's
locals; `exec[t]` is the spawned task as the runtime sees it and `meta[t]` the status in its
file; `runStatus` is that of `run.meta.json`; `slot` is the LIFO slot of the worker thread
that runs the loop. Two variables are history: `unsaved`, the tasks whose last save failed, and
`before`, the tasks that one with a barrier was taken after. `Save` writes a status into the
files of some tasks, and fails for any of those in `Fallible` (a bound; in a deployment, all of
them): `accept_pending_task`, `write_cancelled_meta` and `run_task` ignore the error. So does
the background task of `start_run`, hence `Finalize` may leave `run.meta.json` as it was.

The biased `select!` is polled branch by branch, and anything may happen between two polls, so
its branches are three program counters: `join` (`JoinReport`, `JoinPanic`, `NothingToJoin`),
`recv` (`RecvTasks`, `RecvSeal`, `NothingToRecv`; skipped once `sealed`), `cancel`
(`Cancelled`, `Park`). Every branch returns to `spawn` (`SpawnReady`), which is
`spawn_ready_tasks` and the exit test. A message that is sent between the poll of `recv` and
the cancellation branch is lost, as in the code.

The cancellation branch has no guard: once the token is set it is always ready, so as long as a
task is joining the loop runs on without an await. `Park` is the only action in which the loop
sleeps, and the only one that empties `slot`: the task which the loop spawned last
(`SpawnReady`) or woke last by cancelling the token (`CancelSiblings`) may be there, no other
worker takes it from there, and while it is there it makes no step.

A tool call is two actions where the handler awaits between its first reads and its effect:
`BeginDispatch` (registry, token) then `DispatchTask`, `DispatchWave` or `RefuseDispatch`
(under the accepted lock); `BeginSeal`, `SendSeal`. `CancelRun` holds the registry lock for
both its steps, during which `RunsLockFree` is false. `ValidWave` is the checks of
`validate_dispatch_wave_defs`, where Kahn's loop becomes `Acyclic` (that this is the same
thing is what `AcceptsTheOrderable` of `Waves` says). The initial states
are all acyclic configurations over all subsets of `Tasks`, static or dynamic.

### Waves

`Validate`, `PlaceWave`, `RejectCycle` are `into_waves`; `Launch` writes the Pending metas;
`SkipWave`, `StartWave`, `JoinReport`, `JoinPanic`, `EndWave` (the panic fix-up) and `Finish`
are `run_waves_quiet`; `Interrupt` is Ctrl+C. Each of these saves may fail (`Save`, `unsaved`
as in `Coordinator`); the fix-up loads the file first, and passes over one that no save has
made (`Repaired`). The executor's loop awaits `join_next` alone, so nothing spins here. The dependencies of the initial state are
arbitrary: cyclic, on themselves, or on a name that is no task's (`ghost`).

### TaskRunner

One call of `run_task`, or of `resume_task` (`resume`, chosen in the initial state): the two
share the child, the pipes and the end, and differ where the code does. `resume_task` has no
token (`ReadOn`, no `Cancel`), needs its Running meta (`SaveResumed`) and its final meta
(`ResumeOk`) to be written, and starts over a file that has a terminal status. Pipes count
lines, block the writer when `PipeCap` lines are in them, and end when no process holds them.
The child prints, crashes, exits, closes stdout, or forks a helper that inherits its pipes and
may leave its process group; the runner signals groups and reaps children as `kill_and_wait`
does. `ioFailed` is history: one of the operations followed by `?` failed. `doneFirst` is
history: codex had succeeded and closed its output when the token was cancelled. Failing writes
of the meta file are modelled where the code ignores them.

`Coordinator` and `Waves` see `run_task` as `TaskStart`, `TaskEnd(t, r)` with any status
(`cancelled` only if the token is) and `TaskPanic`. `TaskContract` makes that summary a
specification: a task is announced, works at most once, reports once, a verdict in its file is
the reported one and stays, a task that is given up never works, work that is done again starts
only over a Running file, and saves may fail where the code ignores their failure. `TaskRunner`
implements it (`ImplementsTask`) with everything it does inside, `Coordinator` and `Waves` for
each of their tasks (`ImplementsTasks`) with everything *others* do to a task: queueing,
spawning, giving up, skipping, the repair after a panic. So the three modules agree on where one
ends and the other begins. The rest of what `TaskRunner` shows stays inside: `VerdictIsTrue` says
what a status means, `ReportedIsReaped`, `KillEnds` and `Settles` that the call ends and leaves
nothing behind.

### Registry

One run directory. A *generation* is one `start_run` that has passed the duplicate check, and a
file remembers whose content it holds (`run`, `meta`). `CheckDuplicate`, `CleanLogs`,
`CleanOutputs` or `RejectStale`, `MakeDirs`, `SaveRunMeta`, `SaveTaskMetas`, `SpawnRun`, `Insert`
and `SealStatic` are `start_run` from the mutex on; each file operation may fail, which returns,
drops the mutex and leaves what was done. The background task of generation `g` is `TaskRuns`,
`TaskEnds`, `RunEnds`, `RunPanics`, `SaveVerdict` and `Leave`, which removes the entry of the
directory whatever it is; `Then` is their order. `CancelRun` and `SealRun` act on the registered
generation, or drop the entry of a finished one. `CheckResume`, `ResumeStarts` and `ResumeEnds`
are `resume_agent`, which holds no lock. `LookAtRun`, `LookAtTask` and `Answer` are `get_status`.
`Stop` ends the server at any point: everything in memory is gone, the files stay. `orphaned` is
history: a Running status was left behind that nobody will replace. So is `unsaved`: the
tasks of a generation whose final save failed, which `TaskEnds`, like the code, goes on from.
`ResumeStarts` and `ResumeEnds` may fail to save as well.

What happens inside a generation is reduced to what `Coordinator` shows of it: tasks end, a
failure cancels, and the loop ends when none is left and the run was sealed or cancelled.

### FactsStore

`entry` is the `facts_lock` of the registered run: `Register` makes a new one, `Unregister` drops
it. A call of `write_fact` is `Ask` (the lookup), `Acquire`, `ReadAll`, `Open`, `Write`, `Rename`,
or `Fail` at any of them. `fd` says where the file that a call has opened is *now*: two calls
without a common lock may open one temporary file, and a call may go on writing into what
another has renamed to `facts.json`; the model has these cases because the code does.
`FactsMap` is the promise: `safe` becomes false with the first two calls that overlap without a
common lock, and nothing is promised about the contents after that. Within `safe`, everything is:
also when the run leaves the registry under a call that holds its lock, and across stops.

### Mailbox

A message is `Pieces` writes and a newline (`serde_json::to_writer` writes to the file directly,
the newline is a write of its own), into a file opened for append without a lock. `Open` may
find the file of its thread in use; `Clean` (a `start_run` with `clean`) removes the directory
under whoever has a file open (`linked`). A listing reads the names, then file by file: one that
does not parse fails the whole call, one that is gone is passed over or fails it. `hurt` is
history: threads whose file two sends shared, or one left unfinished; `kept` the messages
reported sent.

## 3. Runs

`CoordLive` takes about three minutes with two workers, every other run less than two. Deadlock is always checked: the only
states without another step are those in which everything is over (`Over`, `Rest`).

| Run | Instance | Checks |
|---|---|---|
| `CoordSafety` | 3 tasks, 1 caller, capacity 2 (741 k states) | types; `BlockersDone`, `BarrierOrder`, `NoStall` |
| `CoordLive` | 2 tasks, the saves of one may fail, 2 callers, capacity 2, with fairness (701 k) | `QueueInOrder`, `RunVerdictIsTrue`, `MetaMonotone`, `ImplementsTasks`, `ImplementsContract`, `StopFinishes`, `KnownSettles` |
| `Waves` | all relations of 3 tasks over 4 names, every save may fail, with fairness (255 k) | `PlanIsSound`, `EarliestWave`, `AcceptsTheOrderable`, `WavesInOrder`, `ExitCodeIsTrue`, `ReasonIsTrue`, `ImplementsContract`, `ImplementsTasks`, `Terminates` |
| `Runner` | run_task and resume_task; 2 lines on each output, pipes of 1 line, runner fairness (19 k) | `VerdictIsTrue`, `ReportedIsReaped`, `SignalsOwnGroup`, `ImplementsTask`, `KillEnds`, `Settles` |
| `Registry` | 2 callers, 1 task, 2 generations, 1 resume, 1 stop, saves may fail, with fairness (417 k) | `OneLiveRun`, `RunStatusIsTrue`, `ResumeAfterRun`, `AnswerIsConsistent`, `FilesAreTheRuns`, `ClosedRunsLeave` |
| `Facts` | 2 writers, 2 keys, 2 registrations, with fairness (492 k) | `ImplementsMap`, refinement and liveness |
| `Mailbox` | 3 messages, 2 threads, 2 pieces, 1 clean (255 k) | `ListIsTrue` |
| `CoordLost`, `CoordPanic`, `CoordSpin`, `RunnerRace`, `RunnerCancel` | small | expected violations, section 6 |

Why the bounds are enough. Three tasks are what a barrier needs to go wrong: one that runs,
one that waits for it, one that waits for both, and a wave of two beside an earlier task; its
run has no failing saves, because nothing it checks is about a file. In `CoordLive` one task
whose saves may fail stands beside one whose saves succeed, so a file that lags behind and one
that is up to date both occur in a run; the proofs have any set of such tasks. A third caller adds no new interleaving, since handlers touch shared state only under a lock
or in one `try_send`, and two callers already exhibit every order of two of these. Capacity 2
is below what three tasks and two Seals can queue, so the full channel occurs; 256 in the
code. In `TaskRunner` one line more than fits in the pipe blocks the writer and lets a line be
buffered behind the end of the process; more lines repeat this. In `Waves` three tasks give
chains, forks, joins and cycles of every length up to three, and up to three waves. In
`Registry` two generations are what it takes for one to meet the other's entry or files, and two
callers for two preflights to race; one task is enough because tasks of a generation touch
disjoint files (the proofs cover any number). A stop may fall before, within or between them,
and a resume of the first generation may outlive it. In `Facts` two calls are what an update can
be lost between, and two registrations let one call hold the lock of a run that is gone while
another finds the next one's. In `Mailbox` two pieces let a message be torn in its middle and
before its newline, and three messages let one be sent whole before two others collide.

The properties are stated with comments in their modules. The ones a reader should look at
first:

- `BlockersDone`: `completed` also contains failed and cancelled tasks, so a dependent of a
  failed task *is* unblocked. It is not spawned only because the branch that handles the
  report cancels the token before the next `spawn_ready_tasks` reads it.
- `NoStall` and `KnownSettles`: barriers and dependencies together never make a cycle or name
  a task that will not complete - it depends on the order of the channel
  (`QueueInOrder`), on the cycle check of waves, and on the barrier being taken before
  the batch is inserted.
- `QueueInOrder`: two sets of names, the server's and the coordinator's, never disagree: the
  channel carries exactly their difference, in dependency order, until the receiver closes. So
  the loss that `CoordLost` shows needs a seal or a cancellation.
- `BarrierOrder`: it is about the tasks that get a barrier, which are those of waves, with
  `depends_on` or without, and dispatched tasks without `depends_on`.
- `RunVerdictIsTrue`, `ExitCodeIsTrue` and `AnswerIsConsistent` hold with any saves failing. What
  is true then is not that every file is settled: a run that is done may leave a file that says
  running. It is that a file which is behind belongs to a task whose last save failed, and that
  it has no verdict. So no failing save turns a failure into a success, or the other way round.
- `StopFinishes` and `KnownSettles` exempt a state that the code can really reach, `Starved`: the
  token is cancelled and a task waits in the slot. `CoordSpin` (section 6) shows it, and
  `StarvedForGood` (section 5) that no way leads out of it. In all other states a seal or a
  cancellation ends the run, and a task that the run has taken settles.
- `ClosedRunsLeave`: a run that is closed and has no task left leaves the registry, although it
  needs the mutex for that and other calls take it again and again. It says nothing of a run
  whose tasks do not end.
- `VerdictIsTrue`: a task reported *done* had a successful process, and all it printed is in
  the log.
- `OneLiveRun`: `Leave` removes an entry by its directory alone. It is always its own, because a
  second generation cannot get past the duplicate check before the first is gone, and because
  an entry that other handlers drop is that of a generation whose task is over.
- `RunStatusIsTrue`: a verdict in `run.meta.json` is that of the generation the file describes. It
  rests on the verdict being saved *before* the run leaves the registry.
- `AnswerIsConsistent`: `get_status` reads the run's status first and the tasks' afterwards, so an
  answer "done" shows only done tasks. There are two exceptions: a task resumed since, and one
  whose final save failed, which shows as unfinished.
- `ImplementsMap`: no acknowledged fact is lost while overlapping calls have a lock in common.
- `ListIsTrue`: a listing is complete or it fails, and it fails only next to a send, a clean, or
  a thread in which sends overlapped or one was cut short. One torn line does make every later
  listing of the directory fail.
- `WavesInOrder`: a task that starts finds every task of every earlier wave done.
- `EarliestWave` and `AcceptsTheOrderable`: no way to number the tasks after their dependencies
  has one of them earlier than Kahn's loop has it, and there is such a way exactly when the
  configuration is accepted.
- `ImplementsTasks` and `ImplementsTask`: whoever polls a task's file reads a true verdict that
  nobody takes back, whichever of the three writers wrote it.
- `FilesAreTheRuns`: while a run executes nobody else writes its files (but the stray save of a
  resumed task) or takes its entry in the registry.

## 4. Fairness

- `Coordinator!Fairness` assumes a multi-threaded tokio runtime with two workers or more: it
  polls the loop again and again, and every handler. So the loop, the static run's `Seal` and
  the second half of each tool call are weakly fair. Nothing is assumed of callers: they may
  never call. The registry lock is a tokio `Mutex`, which is granted in the order of requests;
  a client that keeps calling `cancel_run` takes it again and again but cannot overtake, so
  `Deregister` has strong fairness. A spawned task is polled (`TaskStart`) unless it is in the
  slot of the loop's worker. With one worker a loop that spins would keep every task from
  running, and no statement about a cancelled run would be left. tokio's cooperative budget does
  not help either: of the three branches, while the loop spins, none spends any of it.
- That a task ends is no part of it. `CodexEnds`, codex ends by itself or is killed, is the
  premise of `StopFinishes`, `KnownSettles` and `CancelReachesTasks`, so they say what the
  coordinator adds to it. `TaskRunner` examines the premise: `KillEnds` needs nothing of the
  process, `Settles` needs `ProcessesEnd`, and `RunnerCancel` shows a cancelled task that waits
  for ever.
- `Waves!FairSpec`: the executor goes on, and its tasks start and end; `Interrupt` is never
  assumed.
- `Registry!Fairness`: a `start_run` inside the mutex goes on, and a background task whose tasks
  have ended is polled (weak fairness); `Leave` needs the mutex, which tokio grants in the order
  of requests, so it has strong fairness. That tasks end is not assumed: codex may go on, a
  cancelled task may wait for ever (`RunnerCancel`) or be starved (`CoordSpin`). No caller has to
  call, and `RunPanics` and `Stop` need not happen.
- `FactsStore!Fairness`: a call inside goes on or fails (weak), `Acquire` is strong for the same
  reason as `Leave`.
- `Mailbox` states no fairness: its property is an invariant, and sends may be left undone.
- `TaskRunner!RunnerSpec`: weak fairness of the runner (including the timer of the grace
  period) and of the drain task. The processes are adversaries.

## 5. Proofs

`tlapm` proves 53 theorems for every value of the constants, from no other assumptions than
`CapAssumption` (the channel has a capacity), `FallibleAssumption` (the tasks whose saves may
fail are tasks; they may be all of them), `LinesAssumption` (sizes are natural numbers, a pipe holds a
line), `BoundsAssumption` and `LocksAssumption` (the bounds on generations, resumes, stops and
registrations are natural numbers), `KeysAssumption` (`"-"` is no key), `NamesAssumption` (tasks
have names), `PiecesAssumption` and `CleansAssumption`. Every theorem about an invariant follows
from one inductive invariant per module, `IInv`; each was checked with TLC on the instances of
section 3 before it was proved.

**Coordinator** (`Coordinator_proofs`). The invariants the runs check are not inductive: none
says why the loop's sets, the runtime's view and the files agree. `IInv` has these parts.

- `TypeOK`: `SendTyped` is where the full channel matters.
- `TaskInv` ties the sets to `exec`: what is pending was never spawned, what is
  running is in the join set or has panicked, whatever ended without being done has cancelled
  the token once its report was taken.
- `FileInv` ties the files to both. `Due(t)` is what the file would say if every save succeeded;
  a file says it unless the task's last save failed, and one that has a verdict says it in any
  case. `RunVerdictIsTrue` (with its parts `DoneIsDone`, `FailedIsCancelled`,
  `VerdictSettlesMeta`), `MetaMonotone` and `ImplementsTasks` rest on these two, with
  `VerdictInv`: the verdict is written when nothing is left and the channel is sealed.
- `SlotInv`: a task in the slot has not ended and is in the join set. So a cancelled loop with a
  task in the slot never runs out of tasks to join, and the run never ends, which is `StarvedForGood`.
- `ChanInv`: the names of the channel are fresh, each batch is acyclic, and a dependency is
  known or earlier in the channel. It holds because the handlers send while they hold the
  accepted lock; receiving keeps it because a batch is taken from the front.
- `OrderInv`: `WaitInv` says that waiting is well founded. A new batch waits only for itself,
  without cycles, and for what is known already, so `Acyclic` survives its insertion: any set
  of tasks that wait only for each other would lie within the batch or within the old tasks.
  `BlockedInv` (nothing that could be spawned is pending when the select is entered) is then
  what makes `NoStall` true: take the waiting tasks, one of them has no waiting blocker, so a
  blocker runs or is complete. `BarrierInv` carries what came before a task (`before`) until
  it starts: all of it is in the barrier or completed. It needs no cancellation, since giving
  tasks up breaks it; but then nothing is spawned any more. `BarrierOrder` follows.

**Refinement of the run** (both `Coordinator` and `Waves`). `Spec => ImplementsContract` is proved under
the mapping written in each module: one lemma per action of the detailed specification names
the step of `RunContract` it makes, or shows that it stutters; the lemmas use `IInv`, since
for example concluding as done is a step of the contract only because every task is done.

**Refinement of the task** (`Coordinator`, `Waves`, `TaskRunner`). `TasksRefinement` maps one
task of a run to `TaskContract`, `Refinement` one call of `run_task` or `resume_task`. A step of
the coordinator or the executor touches many tasks, and for each of them it is one step of the
contract or a stutter. The hard cases are those where a file may already hold a verdict: that
`GiveUp` finds only tasks which never started, and that a task which starts finds no verdict, is
`TaskInv` and `WaveInv`; that the final save of `run_task` may fail while its report is returned
is why `End` may leave the file behind.

**Contracts** (`RunContract_proofs`, `TaskContract_proofs`). What the two specifications above
imply is proved once, for every implementation: needs are done before a task works
(`NeedsAreMet`), the verdict covers all that was admitted (`VerdictsCover`) and is the last thing
that happens (`VerdictsAreLast`), outcomes stay (`NothingIsUndone`); a verdict in a task's file
is true (`FilesAreTrue`) and is never taken back (`VerdictsStay`), and a task given up never works
(`GivenUpStay`). The invariants of the contracts are inductive as they stand; TLC checked
those of the run on three tasks, those of the task on all its states. `RunKeepsContract`, of `Coordinator_proofs` and of `Waves_proofs`, and
`CallKeepsContract` of `TaskRunner_proofs` put the two halves together: a refinement theorem, and
the contract's theorems instantiated by the refinement mapping (`Kept`).

**Waves** (`Waves_proofs`). `PlanInv` is the loop of `into_waves`: placed tasks are those of
the waves built so far, each in one of them, after its dependencies; a round that places
nothing leaves a set in which every task waits for another of the set, so what is rejected is
not `Orderable`. The other half of `AcceptsTheOrderable` looks at a complete plan: in any set of
tasks the ones in the earliest wave wait for nothing of the set. `TightInv` adds that a task of a
later wave has a dependency in the wave before, and that what remains waits for something that
the last wave placed. `EarliestWave` follows by descent: of the tasks that a layering has
earlier than the plan, take the one with the least number (`LeastNumber`); its dependency in the
wave before is another with a smaller number. `IdleInv`: nothing runs before the plan is
complete. `WaveInv` says
what the tasks of the waves behind, of the wave under way and of the waves ahead may be
(`Ahead`), and that `WavesInOrder` is kept because a wave is started only while neither flag
is set. `FileInv` says of the files what that of `Coordinator` says. `BlameInv` finds, for each
flag that is set, a task that justifies it: that is what the exit code and the skip reasons need.

**Task runner** (`TaskRunner_proofs`). `ChildInv` says where the child stands at each program
point; without it, that a `wait` reaps and that a signalled group has a leader are not
inductive. `FlowInv` counts lines: logged, in the pipe and not yet printed add up to what codex
prints as long as stdout is read and no read failed; at the end of the stream the last two are
zero, because a process that still has lines to print holds its stdout. `StatusInv` links the
status to its cause, `MetaInv` the meta file to the report. The proofs hold for outputs of any
length and any pipe, and for both `run_task` and `resume_task`.

**Registry** (`Registry_proofs`). `LockInv`: one call is inside the mutex and there is no entry
while it is. `GenInv`: every generation belongs to one call, and what has not been made has left
no trace. With `OneLiveRun` itself they are inductive: `Leave` and the two handlers that drop
entries need the one the other gives. `RunInv` ties `run.meta.json` to the live generation,
`EndInv` says that a terminal status comes from a generation that has run the task, and
`DoneInv` that a generation which concludes well has no verdict but done in the files that are its
own, and none unsettled but after a failed final save (`DoneOrUnsaved`), now and in what a status
call has read; `UnsavedGrows` keeps what was read true. `FilesAreTheRuns` follows step by step from these:
`OwnFiles` for the files, and `OwnEntry` for the registry, where a live registered run means that
nobody is inside the mutex.

**Facts store** (`FactsStore_proofs`). `Mutex` and `SameLock`: while `safe` holds, all calls
under way have found the same lock, and one of them is inside. So (`Progress`) it works on the
file as it is and on a temporary file of its own. `Implementation`, `Spec => Map!Spec`, maps
`Rename` to `Put`, `Fail` to `Fail`, `Ask` to `Ask`, and everything else to a stutter.

**Mailbox** (`Mailbox_proofs`). `Sound`: a thread that is not hurt has one sender at a time, its
file is a chain of pieces that ends with what that sender has written. `PieceThere` and
`KeptThere`: what was written is in the file, what was reported sent is there whole. `ListInv`
then says what a listing still owes, and that one which has met nothing reads only settled
files.

What stays with TLC is everything temporal under fairness: `StopFinishes`, `KnownSettles`,
`Terminates`, `KillEnds`, `Settles`, `ClosedRunsLeave`, and that every `write_fact` is answered,
the liveness part of `ImplementsMap`. The provers reach neither ENABLED nor fairness. Every
invariant and every action property of the runs that pass is a theorem.

## 6. Where the code and its documents disagree

Five runs are expected to fail; each checks a sentence of the repository.

| Run | The sentence | What the code does |
|---|---|---|
| `CoordLost` | a seal lets the coordinator drain what is queued, and unstarted tasks are marked cancelled (phase-2 design, lines 80 and 245) | a dispatch that was answered "accepted" behind a `Seal`, or just before the cancellation branch runs, is dropped with the receiver and never gets a meta file |
| `CoordPanic` | a panicked task's meta is updated to Failed on disk (`DESIGN.md:65`, `:251`) | only `codex-par run` does so; in a served run the file says running for ever |
| `CoordSpin` | `cancel_run` "cancels both running and queued dynamic tasks" (`2026-03-08-phase2-dynamic-scheduling.md:1011`) | the cancellation branch (`coordinator.rs:165`) has no `if !sealed`, so a cancelled loop spins while a task is joining; the task it spawned or woke last may be in the LIFO slot of its worker, where nobody polls it, and the run never ends |
| `RunnerRace` | "drain stdout first so we don't misclassify a completed task as cancelled" (`runner.rs:270-271`) | the token is read after every line, so a completed task with lines still buffered is reported cancelled |
| `RunnerCancel` | Ctrl+C sends SIGTERM to all tasks, then SIGKILL (`DESIGN.md:252`) | after the end of stdout (or a read error) the token is not looked at any more |

One more sentence needs no run to see: `StartRunParams` says that a static run "auto-seals after
initial tasks complete" (`serve.rs:36-37`), while `start_run` seals it as soon as it is registered
(`serve.rs:444-447`, whose own comment says so). `SealStatic` and `Coordinator` model the code.

Another is outside what a run could show within the promise of `FactsMap`: the phase-2 design has
concurrent fact writes "serialized per run via coordinator" (line 271). They are serialized by the
`facts_lock` of the registered run, and not at all for a directory without one; `safe` becomes
false there, and no property covers what two such calls do to each other.

## 7. Abstractions and what is not modelled

- Names, prompts, paths, times, counters and messages of errors are left out; a meta file is
  its status. The periodic save of the running meta rewrites the status it has and is not a
  step. `task_count` in `run.meta.json` is left out too: it is informative, and its update
  ignores a load or a save that fails.
- An empty `dispatch_wave` occupies a slot of the channel and does nothing; it is left out.
- `Accept` takes a whole wave at once: the loop over its tasks has no await.
- The handlers' checks of one task (name syntax, prompt, sandbox) refuse before anything is
  shared: `RefuseDispatch` covers them.
- `kill_and_wait`'s branch for a failed `wait()` does what the timeout branch does and is
  merged with it (`GraceElapsed`). Its `try_wait` errors go on like a live child.
- `Registered` follows one run from registration to removal: handlers that find no run, or a
  finished one, return an error and change nothing here.
- `TaskRunner`: what the event log already holds when a task is resumed is not counted.
- `Registry`: the background task's load and save of the run meta are one
  step, which may fail; `resume_agent`'s load of the meta and `TaskRunner::new` are one step.
  Status calls are followed only when they found the run done, the other answers promise nothing.
  The Seal of a static run finds room in its channel.
- A codex process that outlives a stop of the server is not modelled: nothing in the code looks
  for it.
- `FactsStore`: values are the writer that wrote them; truncation, timestamps and the text of the
  preamble are left out. `Shown` is what `read_all` and `build_preamble` make of the file.
- `Mailbox`: reading one file is atomic at the instant its end is met, as files only grow; a
  file that is removed while it is being read is not followed. Addressees, the order by time and
  paging, which act on the result, are left out, and so is the order of the directory (the model
  takes any).
- Not modelled: the field checks of the YAML (one task at a time, no state), the event parser
  (pure, for display only), the artifact and read tools (bounded reads of single files),
  dashboard, status, tail and clean (commands of other processes that read or remove files and
  share no state with the server), the command line. `tail` may stop before the last lines of a
  log (`tail.rs:19`); it is listed as a hazard without a property because nothing is promised
  about it.

## 8. What could come next

- `tail` and `status` as readers of `TaskRunner`'s files.
- A refinement from `Coordinator` to the generation of `Registry`, which is argued in prose here.
- Several directories: the registry's mutex is shared by all of them, its entries are not.
