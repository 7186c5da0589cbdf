------------------------------- MODULE Waves -------------------------------
(***************************************************************************)
(* `codex-par run`: the configured tasks are partitioned into waves, and   *)
(* the waves are executed one after the other until a wave fails or the    *)
(* user interrupts.                                                        *)
(*                                                                         *)
(* The spawned tasks are those of module Coordinator: a task writes its    *)
(* Running meta, ends with a status of run_task, or panics.  Every save of *)
(* a meta file may fail, which the code ignores or only warns of.          *)
(***************************************************************************)
EXTENDS Naturals, Sequences, FiniteSets, TaskGraph

CONSTANTS
    Tasks,      \* the tasks of the configuration
    Names,      \* the names a depends_on may mention
    Fallible    \* bound: tasks whose saves may fail (in a deployment, all)

ASSUME NamesAssumption == Tasks \subseteq Names

ASSUME FallibleAssumption == Fallible \subseteq Tasks

VARIABLES
    deps,       \* depends_on of every task
    remaining,  \* into_waves: tasks in no wave yet
    placed,     \* into_waves: names in a wave
    waves,      \* the waves, a sequence of sets
    idx,        \* the wave the executor is at
    joinset,    \* spawned tasks that join_next has not returned yet
    reported,   \* tasks of this wave with a report
    waveFailed, \* the executor's flag
    allOk,      \* what run_waves_quiet will return
    cancel,     \* the shutdown token
    exec,       \* state of the spawned task, and how it ended
    meta,       \* status in the task's meta file
    reason,     \* error text, in the meta file, of a task that was skipped
    unsaved,    \* history: tasks whose last save failed
    pc

planVars == <<deps, remaining, placed, waves>>
execVars == <<idx, joinset, reported, waveFailed, allOk>>
fileVars == <<meta, reason, unsaved>>
vars == <<planVars, execVars, exec, fileVars, cancel, pc>>

Terminal == {"done", "failed", "cancelled"}

Ended == Terminal \cup {"panicked"}

Started(t) == exec[t] # "idle"

\* Saving a status in the files of S.  Where it fails the file stays as it was.
Save(S, v) ==
    \E failing \in SUBSET (S \cap Fallible) :
        /\ meta' = [t \in Tasks |-> IF t \in S \ failing THEN v ELSE meta[t]]
        /\ unsaved' = (unsaved \ S) \cup failing

Init ==
    /\ deps \in [Tasks -> SUBSET Names]
    /\ remaining = Tasks /\ placed = {} /\ waves = <<>>
    /\ idx = 1 /\ joinset = {} /\ reported = {}
    /\ waveFailed = FALSE /\ allOk = TRUE /\ cancel = FALSE
    /\ exec = [t \in Tasks |-> "idle"]
    /\ meta = [t \in Tasks |-> "absent"]
    /\ reason = [t \in Tasks |-> "none"]
    /\ unsaved = {}
    /\ pc = "validate"

-----------------------------------------------------------------------------
(* into_waves *)

\* Every depends_on names a task of the configuration.
Validate ==
    /\ pc = "validate"
    /\ pc' = IF \A t \in Tasks : deps[t] \subseteq Tasks THEN "plan" ELSE "rejected"
    /\ UNCHANGED <<planVars, execVars, exec, fileVars, cancel>>

\* Faulty variant: one dependency in an earlier wave is enough.
ReadyAny == {t \in remaining : deps[t] = {} \/ deps[t] \cap placed # {}}

\* Faulty variant: a round takes one task at most.
ReadyFirst ==
    LET ready == {t \in remaining : deps[t] \subseteq placed}
    IN IF ready = {} THEN {} ELSE {CHOOSE t \in ready : TRUE}

\* Faulty variant: only the last wave counts as placed.
ReadyAfterLast ==
    {t \in remaining : deps[t] \subseteq IF waves = <<>> THEN {} ELSE waves[Len(waves)]}

Ready == {t \in remaining : deps[t] \subseteq placed}

PlaceWave ==
    /\ pc = "plan"
    /\ Ready # {}
    /\ waves' = Append(waves, Ready)
    /\ placed' = placed \cup Ready
    /\ remaining' = remaining \ Ready
    /\ UNCHANGED <<deps, execVars, exec, fileVars, cancel, pc>>

RejectCycle ==
    /\ pc = "plan"
    /\ remaining # {} /\ Ready = {}
    /\ pc' = "rejected"
    /\ UNCHANGED <<planVars, execVars, exec, fileVars, cancel>>

\* run_command writes a Pending meta for every task and starts the executor.
Launch ==
    /\ pc = "plan"
    /\ remaining = {}
    /\ Save(Tasks, "pending")
    /\ pc' = "wave"
    /\ UNCHANGED <<planVars, execVars, exec, reason, cancel>>

-----------------------------------------------------------------------------
(* run_waves_quiet *)

\* Faulty variant: the failure of an earlier wave is forgotten.
SkippingInterrupted == cancel

Skipping == waveFailed \/ cancel

StartWave ==
    /\ pc = "wave"
    /\ idx <= Len(waves)
    /\ ~Skipping
    /\ joinset' = waves[idx]
    /\ exec' = [t \in Tasks |-> IF t \in waves[idx] THEN "spawned" ELSE exec[t]]
    /\ reported' = {}
    /\ pc' = "join"
    /\ UNCHANGED <<planVars, idx, waveFailed, allOk, fileVars, cancel>>

\* Faulty variant: a skipped wave is always blamed on a failure.
ReasonFailure == "failure"

\* The interrupt is the reason if there was one.
Reason == IF cancel THEN "user" ELSE "failure"

SkipWave ==
    /\ pc = "wave"
    /\ idx <= Len(waves)
    /\ Skipping
    /\ Save(waves[idx], "cancelled")
    /\ reason' = [t \in Tasks |-> IF t \in waves[idx] \ unsaved' THEN Reason ELSE reason[t]]
    /\ allOk' = FALSE
    /\ idx' = idx + 1
    /\ UNCHANGED <<planVars, joinset, reported, waveFailed, exec, cancel, pc>>

\* Faulty variant: only a failure spoils the verdict.
StillOkUnlessFailed(t) == allOk /\ exec[t] # "failed"

StillOk(t) == allOk /\ exec[t] = "done"

\* A cancelled task spoils the verdict, a failed one the waves to come too.
JoinReport(t) ==
    /\ pc = "join"
    /\ t \in joinset /\ exec[t] \in Terminal
    /\ joinset' = joinset \ {t}
    /\ reported' = reported \cup {t}
    /\ waveFailed' = (waveFailed \/ exec[t] = "failed")
    /\ allOk' = StillOk(t)
    /\ UNCHANGED <<planVars, idx, exec, fileVars, cancel, pc>>

\* A JoinError carries no name.
JoinPanic(t) ==
    /\ pc = "join"
    /\ t \in joinset /\ exec[t] = "panicked"
    /\ joinset' = joinset \ {t}
    /\ waveFailed' = TRUE
    /\ allOk' = FALSE
    /\ UNCHANGED <<planVars, idx, reported, exec, fileVars, cancel, pc>>

\* Faulty variant: a failure marks the whole wave.
UnreportedOrSpoiled == IF waveFailed THEN waves[idx] ELSE {}

\* Tasks of the wave without a report have panicked.
Unreported == waves[idx] \ reported

\* Faulty variant: the executor waits for a report of every task.
WaveOverAllReported == joinset = {} /\ Unreported = {}

WaveOver == joinset = {}

\* Faulty variant: a wave is passed over.
NextButOne == idx + 2

NextWave == idx + 1

\* A file that no save has made cannot be loaded, and is not repaired.
Repaired == {t \in Unreported : meta[t] # "absent"}

\* join_next has returned None: repair the metas, then the next wave.
EndWave ==
    /\ pc = "join"
    /\ WaveOver
    /\ Save(Repaired, "failed")
    /\ waveFailed' = (waveFailed \/ Unreported # {})
    /\ allOk' = (allOk /\ Unreported = {})
    /\ idx' = NextWave
    /\ pc' = "wave"
    /\ UNCHANGED <<planVars, joinset, reported, exec, reason, cancel>>

Finish ==
    /\ pc = "wave"
    /\ idx > Len(waves)
    /\ pc' = "finished"
    /\ UNCHANGED <<planVars, execVars, exec, fileVars, cancel>>

\* Ctrl+C, awaited by run_command beside the executor.
Interrupt ==
    /\ pc \in {"wave", "join"}
    /\ ~cancel
    /\ cancel' = TRUE
    /\ UNCHANGED <<planVars, execVars, exec, fileVars, pc>>

-----------------------------------------------------------------------------
(* The spawned tasks *)

TaskStart(t) ==
    /\ exec[t] = "spawned"
    /\ exec' = [exec EXCEPT ![t] = "live"]
    /\ Save({t}, "running")
    /\ UNCHANGED <<planVars, execVars, reason, cancel, pc>>

TaskEnd(t, r) ==
    /\ exec[t] = "live"
    /\ r = "cancelled" => cancel
    /\ exec' = [exec EXCEPT ![t] = r]
    /\ Save({t}, r)
    /\ UNCHANGED <<planVars, execVars, reason, cancel, pc>>

TaskPanic(t) ==
    /\ exec[t] = "live"
    /\ exec' = [exec EXCEPT ![t] = "panicked"]
    /\ UNCHANGED <<planVars, execVars, fileVars, cancel, pc>>

TaskStep(t) == TaskStart(t) \/ (\E r \in Terminal : TaskEnd(t, r)) \/ TaskPanic(t)

-----------------------------------------------------------------------------
Plan == Validate \/ PlaceWave \/ RejectCycle \/ Launch

Execute ==
    \/ StartWave \/ SkipWave \/ EndWave \/ Finish
    \/ \E t \in Tasks : JoinReport(t) \/ JoinPanic(t)

Over == pc \in {"rejected", "finished"} /\ UNCHANGED vars

Next == Plan \/ Execute \/ Interrupt \/ (\E t \in Tasks : TaskStep(t)) \/ Over

Spec == Init /\ [][Next]_vars

\* The program runs on, and every codex process ends or is killed.
FairSpec ==
    /\ Spec
    /\ WF_vars(Plan) /\ WF_vars(Execute)
    /\ \A t \in Tasks : WF_vars(TaskStep(t))
-----------------------------------------------------------------------------
(* Properties *)

TypeOK ==
    /\ deps \in [Tasks -> SUBSET Names]
    /\ remaining \in SUBSET Tasks /\ placed \in SUBSET Tasks
    /\ waves \in Seq(SUBSET Tasks)
    /\ idx \in 1..Len(waves) + 1
    /\ joinset \in SUBSET Tasks /\ reported \in SUBSET Tasks
    /\ waveFailed \in BOOLEAN /\ allOk \in BOOLEAN /\ cancel \in BOOLEAN
    /\ exec \in [Tasks -> {"idle", "spawned", "live"} \cup Ended]
    /\ meta \in [Tasks -> {"absent", "pending", "running"} \cup Terminal]
    /\ reason \in [Tasks -> {"none", "user", "failure"}]
    /\ unsaved \in SUBSET Fallible
    /\ pc \in {"validate", "plan", "rejected", "wave", "join", "finished"}

\* A configuration that is executed has every task in exactly one wave, after
\* the waves of all its dependencies.
Planned == pc \in {"wave", "join", "finished"}

PlanIsSound ==
    Planned =>
        /\ \A t \in Tasks : \E i \in 1..Len(waves) : t \in waves[i]
        /\ \A t \in Tasks : \A i, j \in 1..Len(waves) :
              t \in waves[i] /\ t \in waves[j] => i = j
        /\ \A i \in 1..Len(waves) : \A t \in waves[i] : \A d \in deps[t] :
              \E j \in 1..i - 1 : d \in waves[j]

\* The ways to number the tasks, from 1 up to n, so that each one comes after
\* its dependencies.
Layerings(n) ==
    {f \in [Tasks -> 1..n] : \A t \in Tasks : \A d \in deps[t] \cap Tasks : f[d] < f[t]}

\* No task waits for more waves than its dependencies force it to: no plan with
\* as many waves has it earlier.
EarliestWave ==
    Planned => \A f \in Layerings(Len(waves)) :
                   \A i \in 1..Len(waves) : \A t \in waves[i] : i <= f[t]

\* A depends_on with an unknown name, or a cycle, is what cannot be ordered.
Orderable == (\A t \in Tasks : deps[t] \subseteq Tasks) /\ Acyclic(Tasks, deps)

\* Kahn's loop decides it: what is rejected cannot be ordered, and what is
\* executed could be.
AcceptsTheOrderable == (pc = "rejected" => ~Orderable) /\ (Planned => Orderable)

\* A started task finds every task of every earlier wave done, so its
\* dependencies in particular.
WavesInOrder ==
    \A i, j \in 1..Len(waves) : \A t \in waves[i], u \in waves[j] :
        Started(t) /\ j < i => exec[u] = "done"

\* What became of a task when the executor is through with its wave.
Outcome(t) ==
    IF exec[t] = "idle" THEN "cancelled" ELSE IF exec[t] = "panicked" THEN "failed" ELSE exec[t]

\* When the run is over the exit code says whether every task is done, and every
\* meta file says what became of its task, a skipped and a panicked one's too: one
\* whose last save failed lags behind, and has no other verdict.
ExitCodeIsTrue ==
    pc = "finished" =>
        /\ allOk <=> \A t \in Tasks : exec[t] = "done"
        /\ \A t \in Tasks :
             meta[t] = Outcome(t) \/ (t \in unsaved /\ meta[t] \notin Terminal)

\* A task is skipped for the reason its meta gives: an interrupt, or a failure
\* in an earlier wave.
ReasonIsTrue ==
    \A i \in 1..Len(waves) : \A t \in waves[i] :
        /\ reason[t] = "user" => cancel
        /\ reason[t] = "failure" =>
              \E j \in 1..i - 1 : \E u \in waves[j] : exec[u] \in {"failed", "panicked"}

\* Every run ends.
Terminates == <>(pc \in {"rejected", "finished"})

-----------------------------------------------------------------------------
(* The abstract run: every task is admitted from the start, and the run is  *)
(* closed when the executor takes over.                                     *)

\* The executor has passed a wave it did not start.
Skipped == \E i \in 1..idx - 1 : \E t \in waves[i] : exec[t] = "idle"

PhaseOf(t) ==
    IF exec[t] = "idle" THEN IF Skipped THEN "cancelled" ELSE "waiting"
    ELSE IF exec[t] \in {"spawned", "live"} THEN "running"
    ELSE exec[t]

Contract == INSTANCE RunContract WITH
    phase    <- [t \in Tasks |-> PhaseOf(t)],
    needs    <- [t \in Tasks |-> deps[t] \cap Tasks],
    open     <- ~Planned,
    stopping <- cancel \/ waveFailed,
    verdict  <- IF pc # "finished" THEN "running" ELSE IF allOk THEN "done" ELSE "failed"

\* The waves and the coordinator implement the same abstract run.
ImplementsContract == Contract!Spec

-----------------------------------------------------------------------------
(* The abstract task *)

\* A task is idle until run_task is polled for the first time.
WorkOf(t) == IF exec[t] = "spawned" THEN "idle" ELSE IF exec[t] = "live" THEN "running" ELSE exec[t]

Task(t) == INSTANCE TaskContract WITH
    again <- FALSE,
    work  <- WorkOf(t),
    file  <- meta[t],
    stop  <- cancel \/ waveFailed

\* Skipping, spawning, joining and the repair of panicked tasks together keep
\* what each task promises: it is skipped or started, never both, and a verdict
\* in its file is the last word.
ImplementsTasks ==
    /\ \A t \in Tasks : Task(t)!Init
    /\ [][\A t \in Tasks : [Task(t)!Next]_(Task(t)!vars)]_vars
=============================================================================
