------------------------------ MODULE Registry ------------------------------
(***************************************************************************)
(* The life of one run directory in the server: start_run again and again, *)
(* the background task of each generation it starts, the registry entry,   *)
(* and the files all of them share.  cancel_run, seal_dispatch, get_status *)
(* and resume_agent meet them at any point, the server may stop and come   *)
(* back with an empty registry.                                            *)
(*                                                                         *)
(* A generation is one start_run that passed the duplicate check; files    *)
(* remember the generation whose content they hold, 0 where there is none. *)
(* Inside a generation the coordinator is reduced to what Coordinator says *)
(* of it: tasks end, a failure or a request cancels the rest, and when all *)
(* have ended there is a verdict.  Every save of a file may fail: where the *)
(* code returns the error the call ends, elsewhere it goes on without.     *)
(***************************************************************************)
EXTENDS Naturals

CONSTANTS
    Callers,     \* concurrent calls of start_run for this directory
    Tasks,       \* the tasks of every configuration
    MaxGen,      \* bound: generations
    MaxResumes,  \* bound: resume_agent calls
    MaxStops     \* bound: stops of the server

ASSUME BoundsAssumption == MaxGen \in Nat /\ MaxResumes \in Nat /\ MaxStops \in Nat

NoGen == 0
Gens == 1..MaxGen

VARIABLES
    \* memory of the server
    locked,     \* the callers that hold the mutex of the registry
    entry,      \* the registered generation, or NoGen
    at,         \* where each start_run stands
    gen,        \* the generation it starts
    left,       \* tasks whose Pending meta it still has to write
    bg,         \* the background task of each generation
    sealed,     \* a Seal was sent to the generation, or it is static
    token,      \* its cancellation token
    todo,       \* its tasks that have not ended
    allOk,      \* no task of it ended otherwise than done
    job,        \* the background task of a resume_agent call
    look,       \* a get_status call that found the run done
    \* files
    run,        \* run.meta.json: the generation it describes, status, who wrote it
    meta,       \* the task metas: generation, status, whether a resume wrote it
    litter,     \* which of logs/ and outputs/ have entries
    \* history
    made, resumes, stops,   \* counters for the bounds
    orphaned,   \* nobody will replace the Running status of run.meta.json
    unsaved     \* the tasks of a generation whose final save failed

memory == <<locked, entry, at, gen, left>>
runVars == <<bg, sealed, token, todo, allOk>>
files == <<run, meta, litter>>
history == <<made, resumes, stops, orphaned, unsaved>>
vars == <<memory, runVars, job, look, files, history>>

Final == {"done", "failed"}
Terminal == {"done", "failed", "cancelled"}
NoMeta == [gen |-> NoGen, status |-> "none", resumed |-> FALSE]
Meta(g, s) == [gen |-> g, status |-> s, resumed |-> FALSE]
NoRun == [gen |-> NoGen, status |-> "none", by |-> NoGen]
Live == {"run", "verdict", "leave"}
NoJob == [at |-> "idle", task |-> "none", gen |-> NoGen]
Idle == [gen |-> NoGen, unread |-> {}, seen |-> [t \in Tasks |-> NoMeta]]

LiveRuns == {g \in Gens : bg[g] \in Live}

Free == locked = {}

\* The directory exists and is empty: canonicalize_or_create.
Init ==
    /\ locked = {} /\ entry = NoGen
    /\ at = [c \in Callers |-> "idle"]
    /\ gen = [c \in Callers |-> NoGen]
    /\ left = [c \in Callers |-> {}]
    /\ bg = [g \in Gens |-> "none"]
    /\ sealed = [g \in Gens |-> FALSE]
    /\ token = [g \in Gens |-> FALSE]
    /\ todo = [g \in Gens |-> {}]
    /\ allOk = [g \in Gens |-> TRUE]
    /\ job = NoJob /\ look = Idle
    /\ run = NoRun /\ meta = [t \in Tasks |-> NoMeta] /\ litter = {}
    /\ made = 0 /\ resumes = 0 /\ stops = 0 /\ orphaned = FALSE /\ unsaved = {}

-----------------------------------------------------------------------------
(* start_run.  The mutex is held from the duplicate check to the insertion; *)
(* every step in between may fail, which drops it and leaves what was done. *)

Step(c, next) ==
    /\ at' = [at EXCEPT ![c] = next]
    /\ UNCHANGED <<locked, entry, gen, left>>

Return(c) ==
    /\ at' = [at EXCEPT ![c] = "idle"]
    /\ gen' = [gen EXCEPT ![c] = NoGen]
    /\ left' = [left EXCEPT ![c] = {}]
    /\ locked' = locked \ {c}
    /\ UNCHANGED entry

\* Faulty variant: the mutex is only held for the duplicate check.
AcquireForCheck(c) == UNCHANGED locked

Acquire(c) == locked' = locked \cup {c}

\* A live entry refuses the call; a finished one is dropped.
CheckDuplicate(c) ==
    /\ at[c] = "idle" /\ Free /\ made < MaxGen
    /\ entry # NoGen => bg[entry] \notin Live
    /\ Acquire(c)
    /\ entry' = NoGen
    /\ made' = made + 1
    /\ gen' = [gen EXCEPT ![c] = made + 1]
    /\ left' = [left EXCEPT ![c] = Tasks]
    /\ at' = [at EXCEPT ![c] = "clean"]
    /\ UNCHANGED <<runVars, job, look, files, resumes, stops, orphaned, unsaved>>

\* clean: true.  logs/ goes first; remove_dir_all may stop half-way.
CleanLogs(c) ==
    /\ at[c] = "clean"
    /\ \/ /\ meta' = [t \in Tasks |-> NoMeta] /\ litter' = litter \ {"logs"}
          /\ Step(c, "outputs")
       \/ /\ \E gone \in SUBSET Tasks :
                meta' = [t \in Tasks |-> IF t \in gone THEN NoMeta ELSE meta[t]]
          /\ Return(c) /\ UNCHANGED litter
    /\ UNCHANGED <<runVars, job, look, run, history>>

CleanOutputs(c) ==
    /\ at[c] = "outputs"
    /\ \/ litter' = litter \ {"outputs"} /\ Step(c, "dirs")
       \/ Return(c) /\ UNCHANGED litter
    /\ UNCHANGED <<runVars, job, look, run, meta, history>>

\* clean: false.  Artifacts of an earlier run are refused.
RejectStale(c) ==
    /\ at[c] = "clean"
    /\ IF litter = {} THEN Step(c, "dirs") ELSE Return(c)
    /\ UNCHANGED <<runVars, job, look, files, history>>

\* logs/ with messages/ in it, and outputs/.
MakeDirs(c) ==
    /\ at[c] = "dirs"
    /\ \/ litter' = litter \cup {"logs"} /\ Step(c, "runmeta")
       \/ litter' \in {litter, litter \cup {"logs"}} /\ Return(c)
    /\ UNCHANGED <<runVars, job, look, run, meta, history>>

SaveRunMeta(c) ==
    /\ at[c] = "runmeta"
    /\ \/ /\ run' = [gen |-> gen[c], status |-> "running", by |-> gen[c]]
          /\ Step(c, "tasks")
          /\ orphaned' = FALSE
       \/ Return(c) /\ UNCHANGED <<run, orphaned>>
    /\ UNCHANGED <<runVars, job, look, meta, litter, made, resumes, stops, unsaved>>

\* One file after the other, then TaskRunner::new; from here on an error
\* leaves a Running status behind that belongs to no run.
SaveTaskMetas(c) ==
    /\ at[c] = "tasks"
    /\ \/ \E t \in left[c] :
            /\ meta' = [meta EXCEPT ![t] = Meta(gen[c], "pending")]
            /\ left' = [left EXCEPT ![c] = @ \ {t}]
            /\ UNCHANGED <<locked, entry, at, gen, orphaned>>
       \/ /\ left[c] = {}
          /\ Step(c, "spawn")
          /\ UNCHANGED <<meta, orphaned>>
       \/ /\ Return(c)
          /\ orphaned' = TRUE
          /\ UNCHANGED meta
    /\ UNCHANGED <<runVars, job, look, run, litter, made, resumes, stops, unsaved>>

\* The coordinator runs from here on, registered or not.
SpawnRun(c) ==
    /\ at[c] = "spawn"
    /\ bg' = [bg EXCEPT ![gen[c]] = "run"]
    /\ todo' = [todo EXCEPT ![gen[c]] = Tasks]
    /\ Step(c, "insert")
    /\ UNCHANGED <<sealed, token, allOk, job, look, files, history>>

\* The entry replaces whatever is there; a dynamic run stays open.
Insert(c) ==
    /\ at[c] = "insert"
    /\ entry' = gen[c]
    /\ locked' = locked \ {c}
    /\ \/ at' = [at EXCEPT ![c] = "seal"] /\ UNCHANGED <<gen, left>>
       \/ /\ at' = [at EXCEPT ![c] = "idle"]
          /\ gen' = [gen EXCEPT ![c] = NoGen] /\ UNCHANGED left
    /\ UNCHANGED <<runVars, job, look, files, history>>

\* A static run is sealed when the mutex is free again.
SealStatic(c) ==
    /\ at[c] = "seal"
    /\ sealed' = [sealed EXCEPT ![gen[c]] = bg[gen[c]] \in Live]
    /\ Return(c)
    /\ UNCHANGED <<bg, token, todo, allOk, job, look, files, history>>

-----------------------------------------------------------------------------
(* The background task of a generation *)

\* Faulty variant: the registry is left before the verdict is saved.
LeaveFirst == [run |-> "leave", leave |-> "verdict", verdict |-> "finished"]

\* Order of what follows the loop of the coordinator.
Then == [run |-> "verdict", verdict |-> "leave", leave |-> "finished"]

Advance(g) == bg' = [bg EXCEPT ![g] = Then[@]]

\* run_task saves its meta when it starts, when it has a pid, and every so
\* many events; a save that fails changes nothing.
TaskRuns(g) ==
    /\ bg[g] = "run"
    /\ \E t \in todo[g] : meta' = [meta EXCEPT ![t] = Meta(g, "running")]
    /\ UNCHANGED <<memory, runVars, job, look, run, litter, history>>

\* The end of a task, whose last save may fail with only a warning; its failure
\* cancels the others.  Codex may have written the output file.
TaskEnds(g) ==
    /\ bg[g] = "run"
    /\ \E t \in todo[g], s \in Terminal :
        /\ s = "cancelled" => token[g]
        /\ \/ meta' = [meta EXCEPT ![t] = Meta(g, s)] /\ UNCHANGED unsaved
           \/ unsaved' = unsaved \cup {<<g, t>>} /\ UNCHANGED meta
        /\ todo' = [todo EXCEPT ![g] = @ \ {t}]
        /\ allOk' = [allOk EXCEPT ![g] = @ /\ s = "done"]
        /\ token' = [token EXCEPT ![g] = @ \/ s = "failed"]
    /\ litter' \in {litter, litter \cup {"outputs"}}
    /\ UNCHANGED <<memory, bg, sealed, job, look, run, made, resumes, stops, orphaned>>

\* Faulty variant: a closed channel ends the loop.
OverWhenClosed(g) == sealed[g] \/ token[g]

\* Faulty variant: a cancellation does not count as a seal.
OverWhenSealed(g) == todo[g] = {} /\ sealed[g]

Over(g) == todo[g] = {} /\ (sealed[g] \/ token[g])

\* A cancellation that is noticed with nothing left to cancel spoils the
\* verdict; one that is not does not.
RunEnds(g) ==
    /\ bg[g] = "run" /\ Over(g)
    /\ \E noticed \in {FALSE, token[g]} : allOk' = [allOk EXCEPT ![g] = @ /\ ~noticed]
    /\ Advance(g)
    /\ UNCHANGED <<memory, sealed, token, todo, job, look, files, history>>

\* What the generation kept in memory is dropped with its task.
Dropped(g) ==
    /\ sealed' = [sealed EXCEPT ![g] = FALSE]
    /\ token' = [token EXCEPT ![g] = FALSE]
    /\ todo' = [todo EXCEPT ![g] = {}]
    /\ allOk' = [allOk EXCEPT ![g] = TRUE]

\* A panic of the loop itself: its tasks are aborted, nothing is saved and the
\* entry stays.
RunPanics(g) ==
    /\ bg[g] = "run"
    /\ bg' = [bg EXCEPT ![g] = "panicked"]
    /\ Dropped(g)
    /\ orphaned' = TRUE
    /\ UNCHANGED <<memory, job, look, files, made, resumes, stops, unsaved>>

\* Load, set the status, save; an error of either is ignored.
SaveVerdict(g) ==
    /\ bg[g] = "verdict"
    /\ \/ /\ run' = [gen |-> run.gen, status |-> IF allOk[g] THEN "done" ELSE "failed", by |-> g]
          /\ UNCHANGED orphaned
       \/ orphaned' = TRUE /\ UNCHANGED run
    /\ Advance(g)
    /\ UNCHANGED <<memory, sealed, token, todo, allOk, job, look, meta, litter>>
    /\ UNCHANGED <<made, resumes, stops, unsaved>>

\* The entry of the directory is removed, whose ever it is.
Leave(g) ==
    /\ bg[g] = "leave" /\ Free
    /\ entry' = NoGen
    /\ Advance(g)
    /\ Dropped(g)
    /\ UNCHANGED <<locked, at, gen, left, job, look, files, history>>

-----------------------------------------------------------------------------
(* Other tool calls *)

\* cancel_run, which drops the entry of a finished generation.
CancelRun ==
    /\ Free /\ entry # NoGen
    /\ IF bg[entry] \in Live
       THEN token' = [token EXCEPT ![entry] = TRUE] /\ UNCHANGED entry
       ELSE entry' = NoGen /\ UNCHANGED token
    /\ UNCHANGED <<locked, at, gen, left, bg, sealed, todo, allOk, job, look, files, history>>

\* seal_dispatch, by way of active_dispatch_state.
SealRun ==
    /\ Free /\ entry # NoGen
    /\ IF bg[entry] \in Live
       THEN sealed' = [sealed EXCEPT ![entry] = TRUE] /\ UNCHANGED entry
       ELSE entry' = NoGen /\ UNCHANGED sealed
    /\ UNCHANGED <<locked, at, gen, left, bg, token, todo, allOk, job, look, files, history>>

\* Faulty variant: a missing file may be resumed.
NotLive(m) == m.status \notin {"pending", "running"}

\* Faulty variant: a task that has not started may be resumed.
NotRunning(m) == m.gen # NoGen /\ m.status # "running"

Resumable(m) == m.status \in Terminal

\* resume_agent takes no lock: it loads the meta of a task that has ended.
CheckResume ==
    /\ job.at = "idle" /\ resumes < MaxResumes
    /\ \E t \in Tasks :
        /\ Resumable(meta[t])
        /\ job' = [at |-> "spawned", task |-> t, gen |-> meta[t].gen]
    /\ resumes' = resumes + 1
    /\ UNCHANGED <<memory, runVars, look, files, made, stops, orphaned, unsaved>>

\* resume_task saves the meta it was given, as it goes on and at its end,
\* wherever the directory has got to; without logs/ no save succeeds.
ResumeSaves(s) ==
    /\ "logs" \in litter
    /\ meta' = [meta EXCEPT ![job.task] = [gen |-> job.gen, status |-> s, resumed |-> TRUE]]

\* It gives up when its first save fails.
ResumeStarts ==
    /\ job.at = "spawned"
    /\ \/ ResumeSaves("running") /\ job' = [job EXCEPT !.at = "run"]
       \/ UNCHANGED meta /\ job' = NoJob
    /\ UNCHANGED <<memory, runVars, look, run, litter, history>>

ResumeEnds ==
    /\ job.at = "run"
    /\ UNCHANGED meta \/ \E s \in Final : ResumeSaves(s)
    /\ job' = NoJob
    /\ litter' \in {litter, litter \cup {"outputs"}}
    /\ UNCHANGED <<memory, runVars, look, run, history>>

\* get_status reads run.meta.json, then the task metas one by one; only the
\* calls that found the run done are followed.
LookAtRun ==
    /\ look.gen = NoGen /\ run.status = "done"
    /\ look' = [look EXCEPT !.gen = run.gen, !.unread = Tasks]
    /\ UNCHANGED <<memory, runVars, job, files, history>>

LookAtTask ==
    /\ \E t \in look.unread :
          look' = [look EXCEPT !.unread = @ \ {t}, !.seen = [@ EXCEPT ![t] = meta[t]]]
    /\ UNCHANGED <<memory, runVars, job, files, history>>

Answer ==
    /\ look.gen # NoGen /\ look.unread = {}
    /\ look' = Idle
    /\ UNCHANGED <<memory, runVars, job, files, history>>

-----------------------------------------------------------------------------
\* The server stops with everything in its memory, at any point, and is started
\* again; the files stay.
Stop ==
    /\ stops < MaxStops
    /\ stops' = stops + 1
    /\ locked' = {} /\ entry' = NoGen
    /\ at' = [c \in Callers |-> "idle"]
    /\ gen' = [c \in Callers |-> NoGen]
    /\ left' = [c \in Callers |-> {}]
    /\ bg' = [g \in Gens |-> IF bg[g] \in Live THEN "lost" ELSE bg[g]]
    /\ sealed' = [g \in Gens |-> FALSE]
    /\ token' = [g \in Gens |-> FALSE]
    /\ todo' = [g \in Gens |-> {}]
    /\ allOk' = [g \in Gens |-> TRUE]
    /\ job' = NoJob /\ look' = Idle
    /\ orphaned' = (orphaned \/ run.status = "running")
    /\ UNCHANGED <<files, made, resumes, unsaved>>

StartRun(c) ==
    \/ CheckDuplicate(c) \/ CleanLogs(c) \/ CleanOutputs(c) \/ RejectStale(c) \/ MakeDirs(c)
    \/ SaveRunMeta(c) \/ SaveTaskMetas(c) \/ SpawnRun(c) \/ Insert(c) \/ SealStatic(c)

\* What a call that has the mutex, or is past it, goes on to do.
Proceed(c) == at[c] # "idle" /\ StartRun(c)

Background(g) == TaskRuns(g) \/ TaskEnds(g) \/ RunEnds(g) \/ RunPanics(g) \/ SaveVerdict(g) \/ Leave(g)

Tools == CancelRun \/ SealRun \/ CheckResume \/ LookAtRun

Resume == ResumeStarts \/ ResumeEnds

GetStatus == LookAtTask \/ Answer

\* No further generation, and nothing runs.
Rest ==
    /\ made = MaxGen /\ LiveRuns = {} /\ \A c \in Callers : at[c] = "idle"
    /\ UNCHANGED vars

Next ==
    \/ \E c \in Callers : StartRun(c)
    \/ \E g \in Gens : Background(g)
    \/ Tools \/ Resume \/ GetStatus \/ Stop \/ Rest

Spec == Init /\ [][Next]_vars

\* The calls and the loop of a run are polled, and the mutex is granted in the
\* order of requests.  That a task ends is not assumed: codex may go on, and a
\* cancelled task may be kept from running by the loop that cancelled it.
Fairness ==
    /\ \A c \in Callers : WF_vars(Proceed(c))
    /\ \A g \in Gens :
        /\ WF_vars(RunEnds(g)) /\ WF_vars(SaveVerdict(g))
        /\ SF_vars(Leave(g))

FairSpec == Spec /\ Fairness

-----------------------------------------------------------------------------
(* Properties *)

MetaType == [gen : {NoGen} \cup Gens, status : {"none", "pending", "running"} \cup Terminal,
             resumed : BOOLEAN]
RunType == [gen : {NoGen} \cup Gens, status : {"none", "running"} \cup Final,
            by : {NoGen} \cup Gens]

MemoryTypes ==
    /\ locked \in SUBSET Callers
    /\ entry \in {NoGen} \cup Gens
    /\ at \in [Callers -> {"idle", "clean", "outputs", "dirs", "runmeta", "tasks", "spawn",
                           "insert", "seal"}]
    /\ gen \in [Callers -> {NoGen} \cup Gens]
    /\ left \in [Callers -> SUBSET Tasks]

RunTypes ==
    /\ bg \in [Gens -> {"none", "finished", "panicked", "lost"} \cup Live]
    /\ sealed \in [Gens -> BOOLEAN]
    /\ token \in [Gens -> BOOLEAN]
    /\ todo \in [Gens -> SUBSET Tasks]
    /\ allOk \in [Gens -> BOOLEAN]

JobTypes ==
    /\ job \in [at : {"idle", "spawned", "run"}, task : {"none"} \cup Tasks,
                gen : {NoGen} \cup Gens]
    /\ job.at # "idle" => job.task \in Tasks /\ job.gen \in Gens

LookTypes ==
    look \in [gen : {NoGen} \cup Gens, unread : SUBSET Tasks,
              seen : [Tasks -> MetaType]]

FileTypes ==
    /\ run \in RunType
    /\ meta \in [Tasks -> MetaType]
    /\ \A t \in Tasks : meta[t].status # "none" => meta[t].gen \in Gens
    /\ litter \in SUBSET {"logs", "outputs"}

HistoryTypes ==
    /\ made \in 0..MaxGen /\ resumes \in 0..MaxResumes /\ stops \in 0..MaxStops
    /\ orphaned \in BOOLEAN
    /\ unsaved \in SUBSET (Gens \X Tasks)

TypeOK == MemoryTypes /\ RunTypes /\ JobTypes /\ LookTypes /\ FileTypes /\ HistoryTypes

\* "two concurrent start_run calls for the same run_dir cannot both pass the
\* duplicate check and then clobber each other's disk state": a coordinator
\* that runs is the registered one, or about to be inserted by the only call
\* inside the mutex.  So there is never a second, and a background task that
\* removes an entry by its directory alone never removes another's.
OneLiveRun ==
    \A g \in LiveRuns :
        \/ entry = g
        \/ \E c \in Callers : locked = {c} /\ at[c] = "insert" /\ gen[c] = g

\* Who may touch the files while generation g runs: the generation, and the
\* stray save of a resumed task.
TouchedBy(g) ==
    /\ run' # run => run'.by = g
    /\ \A t \in Tasks : meta'[t] # meta[t] =>
          meta'[t].gen = g \/ (job.at # "idle" /\ job.task = t /\ meta'[t].gen = job.gen)

\* Its entry is nobody else's to drop or to replace.
KeepsEntry(g) == entry = g => entry' = g \/ bg'[g] \notin Live

\* No preflight, clean or verdict of another generation reaches the files of a
\* run that is executing, and no other call or run its entry in the registry.
FilesAreTheRuns == [][\A g \in LiveRuns : TouchedBy(g) /\ KeepsEntry(g)]_vars

\* A verdict in run.meta.json is the verdict of the generation it describes,
\* which has none of its work left; a Running status has an owner, except after
\* a failed preflight or save, a panic, or a stop of the server.
RunStatusIsTrue ==
    /\ run.status \in Final => run.by = run.gen /\ bg[run.gen] \notin {"run", "verdict"}
    /\ run.status = "running" =>
        \/ bg[run.gen] \in {"run", "verdict"}
        \/ \E c \in Callers : gen[c] = run.gen /\ at[c] \in {"tasks", "spawn"}
        \/ orphaned

\* resume_agent decides by the file alone; even so a task is never resumed
\* while its own generation still has it to run.
ResumeAfterRun == job.at # "idle" => job.task \notin todo[job.gen]

\* get_status reads the files one after the other while they change, yet an
\* answer that says "done" shows every task of that run done, unless it was
\* resumed since, or its final save failed: then it shows the task unfinished,
\* never with another verdict.
AnswerIsConsistent ==
    look.gen # NoGen =>
        \A t \in Tasks \ look.unread :
            look.seen[t].gen = look.gen /\ ~look.seen[t].resumed =>
                \/ look.seen[t].status = "done"
                \/ look.seen[t].status \notin Terminal /\ <<look.gen, t>> \in unsaved

\* What brings a run to its end: a Seal, its cancellation, or a static start.
Closing(g) == sealed[g] \/ token[g] \/ \E c \in Callers : at[c] = "seal" /\ gen[c] = g

\* A closed run whose tasks have all ended leaves the registry, however many
\* calls take its mutex.
ClosedRunsLeave ==
    \A g \in Gens : bg[g] \in Live /\ todo[g] = {} /\ Closing(g) ~> bg[g] \notin Live
=============================================================================
