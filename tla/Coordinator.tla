---------------------------- MODULE Coordinator ----------------------------
(***************************************************************************)
(* One served run: the coordinator loop, the dispatch channel that feeds   *)
(* it, the tool handlers at the other end of the channel, and the tasks it *)
(* spawns.  The run has just been registered by start_run.                 *)
(*                                                                         *)
(* Every tool call runs in a task of its own, so a handler that awaits     *)
(* between two reads is two actions here.  The three branches of the       *)
(* biased select are three program counters, polled in order, because a    *)
(* message, a report or a cancellation may arrive between two polls.       *)
(*                                                                         *)
(* A spawned task is seen from outside: it writes its Running meta, ends   *)
(* with one of the statuses run_task reports, or panics.  Every save of a  *)
(* meta file may fail, which the code ignores or only warns of.            *)
(*                                                                         *)
(* The loop runs on one worker thread of the runtime.  The task it woke or *)
(* spawned last waits in that worker's LIFO slot, from which no other      *)
(* worker steals, until the loop sleeps; with two workers or more every    *)
(* other task goes on meanwhile.                                           *)
(***************************************************************************)
EXTENDS Naturals, Sequences, TaskGraph

CONSTANTS
    Tasks,      \* task names
    Callers,    \* concurrent MCP tool calls
    Cap,        \* capacity of the dispatch channel (256 in the code)
    Fallible    \* bound: tasks whose saves may fail (in a deployment, all)

ASSUME CapAssumption == Cap \in Nat \ {0}

ASSUME FallibleAssumption == Fallible \subseteq Tasks

VARIABLES
    chan,       \* the dispatch channel: a sequence of messages
    accepted,   \* the server's set of accepted names (ActiveRun.accepted)
    call,       \* where each tool call stands
    startSeal,  \* start_run of a static run still has its Seal to send
    known,      \* the coordinator's own accepted set
    deps,       \* depends_on of every known task
    barrier,    \* barrier snapshot of every known task
    pending,    \* accepted, not spawned
    running,    \* spawned, no report seen
    completed,  \* report seen, whatever its status
    joinset,    \* spawned tasks that join_next has not returned yet
    exec,       \* state of the spawned task, and how it ended
    meta,       \* status in the task's meta file
    slot,       \* the task, if any, in the LIFO slot of the loop's worker
    cancelled,  \* the run's cancellation token
    sealed,     \* the loop's flag; set exactly where the receiver is closed
    allOk,      \* what run() will return
    pc,         \* where the coordinator stands
    runStatus,  \* run.meta.json: status
    unsaved,    \* history: tasks whose last save failed
    before      \* history: the tasks that one with a barrier was taken after

serverVars == <<accepted, call, startSeal>>
loopVars   == <<known, deps, barrier, pending, running, completed, joinset, allOk, pc>>
fileVars   == <<meta, unsaved>>
vars == <<chan, serverVars, loopVars, exec, fileVars, slot, cancelled, sealed, runStatus, before>>

Ended == {"done", "failed", "cancelled", "panicked"}

Message == [kind : {"task", "wave", "seal"},
            names : SUBSET Tasks, deps : [Tasks -> SUBSET Tasks]]

NoDeps == [t \in Tasks |-> {}]

SealMsg == [kind |-> "seal", names |-> {}, deps |-> NoDeps]

-----------------------------------------------------------------------------
Registered == pc # "finished"

\* cancel_run holds the lock on the registry from its lookup to its Seal.
RunsLockFree == \A c \in Callers : call[c] # "cancelling"

\* Faulty variant: an unbounded channel.
HasRoomUnbounded == ~sealed

HasRoom == ~sealed /\ Len(chan) < Cap

\* try_send whose result the caller ignores.
TrySend(m) == chan' = IF HasRoom THEN Append(chan, m) ELSE chan

Blockers(t) == deps[t] \cup barrier[t]

\* Faulty variant: the barrier snapshot is taken and never looked at.
IsUnblockedByDeps(t) == deps[t] \subseteq completed

IsUnblocked(t) == barrier[t] \subseteq completed /\ deps[t] \subseteq completed

Joinable == {t \in joinset : exec[t] \in Ended}

Started(t) == exec[t] # "idle"

Terminal == {"done", "failed", "cancelled"}

\* Saving a status in the files of S.  Where it fails the file stays as it was.
Save(S, v) ==
    \E failing \in SUBSET (S \cap Fallible) :
        /\ meta' = [t \in Tasks |-> IF t \in S \ failing THEN v ELSE meta[t]]
        /\ unsaved' = (unsaved \ S) \cup failing

-----------------------------------------------------------------------------
Init ==
    /\ \E I \in SUBSET Tasks :
         /\ accepted = I /\ known = I /\ pending = I
         /\ deps \in {d \in [Tasks -> SUBSET I] :
                        /\ \A t \in Tasks \ I : d[t] = {}
                        /\ Acyclic(I, d)}
         /\ meta = [t \in Tasks |-> IF t \in I THEN "pending" ELSE "absent"]
    /\ startSeal \in BOOLEAN
    /\ barrier = NoDeps
    /\ chan = <<>>
    /\ call = [c \in Callers |-> "idle"]
    /\ running = {} /\ completed = {} /\ joinset = {}
    /\ exec = [t \in Tasks |-> "idle"]
    /\ slot = {}
    /\ cancelled = FALSE /\ sealed = FALSE /\ allOk = TRUE
    /\ pc = "spawn"
    /\ runStatus = "running"
    /\ unsaved = {}
    /\ before = NoDeps

-----------------------------------------------------------------------------
(* The tool handlers *)

\* The Seal of a static run, sent after the registry lock is dropped.
StartRunSeal ==
    /\ startSeal
    /\ startSeal' = FALSE
    /\ TrySend(SealMsg)
    /\ UNCHANGED <<accepted, call, loopVars, exec, fileVars, slot, cancelled, sealed, runStatus, before>>

CallMoves(c, from, to) ==
    /\ call[c] = from
    /\ call' = [call EXCEPT ![c] = to]

\* dispatch_task and dispatch_wave up to the await on the accepted lock: the
\* run is found in the registry and its token is not cancelled.
BeginDispatch(c) ==
    /\ Registered /\ RunsLockFree /\ ~cancelled
    /\ CallMoves(c, "idle", "dispatching")
    /\ UNCHANGED <<chan, accepted, startSeal, loopVars, exec, fileVars, slot, cancelled, sealed, runStatus, before>>

\* The accepted set once S was sent.
Record(S) == accepted \cup S

\* The rest of dispatch_task, under the accepted lock: validate, send, record.
DispatchTask(c, t, D) ==
    /\ CallMoves(c, "dispatching", "idle")
    /\ t \notin accepted
    /\ D \subseteq accepted
    /\ HasRoom
    /\ chan' = Append(chan, [kind |-> "task", names |-> {t},
                             deps |-> [NoDeps EXCEPT ![t] = D]])
    /\ accepted' = Record({t})
    /\ UNCHANGED <<startSeal, loopVars, exec, fileVars, slot, cancelled, sealed, runStatus, before>>

\* Faulty variant: a wave may depend on names nobody has dispatched.
ValidWaveAnyDeps(S, d) ==
    /\ S \cap accepted = {}
    /\ \A t \in Tasks \ S : d[t] = {}
    /\ Acyclic(S, d)

\* Faulty variant: no cycle check.
ValidWaveCyclic(S, d) ==
    /\ S \cap accepted = {}
    /\ \A t \in S : d[t] \subseteq accepted \cup S
    /\ \A t \in Tasks \ S : d[t] = {}

\* Name, dependency and cycle checks of a wave, against the accepted names
\* and the batch itself.
ValidWave(S, d) ==
    /\ S \cap accepted = {}
    /\ \A t \in S : d[t] \subseteq accepted \cup S
    /\ \A t \in Tasks \ S : d[t] = {}
    /\ Acyclic(S, d)

DispatchWave(c, S, d) ==
    /\ CallMoves(c, "dispatching", "idle")
    /\ ValidWave(S, d)
    /\ HasRoom
    /\ chan' = Append(chan, [kind |-> "wave", names |-> S, deps |-> d])
    /\ accepted' = Record(S)
    /\ UNCHANGED <<startSeal, loopVars, exec, fileVars, slot, cancelled, sealed, runStatus, before>>

\* A validation error, a full channel or a closed one: the call returns an error.
RefuseDispatch(c) ==
    /\ CallMoves(c, "dispatching", "idle")
    /\ UNCHANGED <<chan, accepted, startSeal, loopVars, exec, fileVars, slot, cancelled, sealed, runStatus, before>>

BeginSeal(c) ==
    /\ Registered /\ RunsLockFree
    /\ CallMoves(c, "idle", "sealing")
    /\ UNCHANGED <<chan, accepted, startSeal, loopVars, exec, fileVars, slot, cancelled, sealed, runStatus, before>>

\* The Seal is queued, or the caller is told that it could not be.
SendSeal(c) ==
    /\ CallMoves(c, "sealing", "idle")
    /\ TrySend(SealMsg)
    /\ UNCHANGED <<accepted, startSeal, loopVars, exec, fileVars, slot, cancelled, sealed, runStatus, before>>

\* cancel_run, under the registry lock: the token first, then a Seal.
CancelRun(c) ==
    /\ Registered /\ RunsLockFree
    /\ CallMoves(c, "idle", "cancelling")
    /\ cancelled' = TRUE
    /\ UNCHANGED <<chan, accepted, startSeal, loopVars, exec, fileVars, slot, sealed, runStatus, before>>

CancelRunSeal(c) ==
    /\ CallMoves(c, "cancelling", "idle")
    /\ TrySend(SealMsg)
    /\ UNCHANGED <<accepted, startSeal, loopVars, exec, fileVars, slot, cancelled, sealed, runStatus, before>>

-----------------------------------------------------------------------------
(* The coordinator loop *)

\* Faulty variant: spawning does not look at the token.
ReadyIgnoringToken == {t \in pending : IsUnblocked(t)}

\* spawn_ready_tasks: what is spawned in this round of the loop.
ReadyTasks == IF cancelled THEN {} ELSE {t \in pending : IsUnblocked(t)}

\* Faulty variant: a spawned task stays in the queue.
QueueKept == pending

\* What spawn_ready_tasks puts back.
Requeued == pending \ ReadyTasks

\* spawn_ready_tasks, then the test that ends the loop.
SpawnReady ==
    /\ pc = "spawn"
    /\ pending' = Requeued
    /\ running' = running \cup ReadyTasks
    /\ joinset' = joinset \cup ReadyTasks
    /\ exec' = [t \in Tasks |-> IF t \in ReadyTasks THEN "spawned" ELSE exec[t]]
    /\ slot' \in {slot} \cup {{t} : t \in ReadyTasks}
    /\ pc' = IF joinset' = {} /\ pending' = {} /\ sealed THEN "finalize" ELSE "join"
    /\ UNCHANGED <<chan, serverVars, known, deps, barrier, completed, fileVars, cancelled,
                   sealed, allOk, runStatus, before>>

StillOk(t) == allOk /\ exec[t] = "done"

\* Fail-fast: a failure cancels the whole run.
StopsRun(t) == exec[t] = "failed"

\* The token wakes the tasks that wait for it, the last one into the slot; it
\* does so once.
CancelSiblings(t) ==
    /\ cancelled' = TRUE
    /\ slot' \in {slot} \cup {{u} : u \in {v \in joinset \ {t} : ~cancelled /\ exec[v] = "live"}}

\* First branch of the select: a report.
JoinReport(t) ==
    /\ pc = "join"
    /\ t \in joinset /\ exec[t] \in Terminal
    /\ joinset' = joinset \ {t}
    /\ running' = running \ {t}
    /\ completed' = completed \cup {t}
    /\ allOk' = StillOk(t)
    /\ IF StopsRun(t) THEN CancelSiblings(t) ELSE UNCHANGED <<cancelled, slot>>
    /\ pc' = "spawn"
    /\ UNCHANGED <<chan, serverVars, known, deps, barrier, pending, exec, fileVars, sealed,
                   runStatus, before>>

\* First branch, the task panicked: a JoinError carries no name.
JoinPanic(t) ==
    /\ pc = "join"
    /\ t \in joinset /\ exec[t] = "panicked"
    /\ joinset' = joinset \ {t}
    /\ allOk' = FALSE
    /\ CancelSiblings(t)
    /\ pc' = "spawn"
    /\ UNCHANGED <<chan, serverVars, known, deps, barrier, pending, running, completed,
                   exec, fileVars, sealed, runStatus, before>>

NothingToJoin ==
    /\ pc = "join"
    /\ Joinable = {}
    /\ pc' = IF sealed THEN "cancel" ELSE "recv"
    /\ UNCHANGED <<chan, serverVars, known, deps, barrier, pending, running, completed,
                   joinset, allOk, exec, fileVars, slot, cancelled, sealed, runStatus, before>>

\* Does a task get a barrier?
Barred(m, t) == m.kind = "wave" \/ m.deps[t] = {}

\* Faulty variant: in a wave, too, depends_on replaces the barrier.
BarrierOfFree(m, t) == IF m.deps[t] = {} THEN running \cup pending ELSE {}

\* Faulty variant: the snapshot is taken after the batch was inserted.
BarrierOfBatch(m, t) == IF Barred(m, t) THEN running \cup pending \cup m.names ELSE {}

\* A wave waits for all there is; a task with depends_on only for those.
BarrierFor(m, t) == IF Barred(m, t) THEN running \cup pending ELSE {}

\* accept_pending_task drops a name that is already known.
NewNames(m) == m.names \ known

\* accept_pending_task for every new name of the message; the count in
\* run.meta.json is left out.
Accept(m) ==
    /\ known' = known \cup NewNames(m)
    /\ pending' = pending \cup NewNames(m)
    /\ deps' = [t \in Tasks |-> IF t \in NewNames(m) THEN m.deps[t] ELSE deps[t]]
    /\ barrier' = [t \in Tasks |-> IF t \in NewNames(m) THEN BarrierFor(m, t) ELSE barrier[t]]
    /\ Save(NewNames(m), "pending")
    /\ before' = [t \in Tasks |-> IF t \notin NewNames(m) THEN before[t]
                                  ELSE IF Barred(m, t) THEN known ELSE {}]

\* Second branch of the select: a message.
RecvTasks ==
    /\ pc = "recv"
    /\ chan # <<>> /\ Head(chan).kind # "seal"
    /\ chan' = Tail(chan)
    /\ Accept(Head(chan))
    /\ pc' = "spawn"
    /\ UNCHANGED <<serverVars, running, completed, joinset, exec, slot, cancelled, sealed,
                   allOk, runStatus>>

\* The receiver is closed and never polled again: what is queued is dropped.
RecvSeal ==
    /\ pc = "recv"
    /\ chan # <<>> /\ Head(chan).kind = "seal"
    /\ chan' = <<>>
    /\ sealed' = TRUE
    /\ pc' = "spawn"
    /\ UNCHANGED <<serverVars, known, deps, barrier, pending, running, completed, joinset,
                   allOk, exec, fileVars, slot, cancelled, runStatus, before>>

NothingToRecv ==
    /\ pc = "recv"
    /\ chan = <<>>
    /\ pc' = "cancel"
    /\ UNCHANGED <<chan, serverVars, known, deps, barrier, pending, running, completed,
                   joinset, allOk, exec, fileVars, slot, cancelled, sealed, runStatus, before>>

\* Faulty variant: nothing is given up.
GiveUpNothing == {}

\* Faulty variant: whatever the run knows is given up.
GiveUpKnown == known

\* The tasks write_cancelled_meta marks.
GivenUp == pending

\* Third branch: close the receiver, give up what was not spawned.  A message
\* sent since recv was polled is dropped.
Cancelled ==
    /\ pc = "cancel"
    /\ cancelled
    /\ chan' = <<>>
    /\ Save(GivenUp, "cancelled")
    /\ pending' = {}
    /\ allOk' = FALSE
    /\ sealed' = TRUE
    /\ pc' = "spawn"
    /\ UNCHANGED <<serverVars, known, deps, barrier, running, completed, joinset,
                   exec, slot, cancelled, runStatus, before>>

\* No branch is ready: the loop sleeps, its worker takes up what is in the slot,
\* and the loop is polled again when a branch may be ready.
Park ==
    /\ pc = "cancel"
    /\ ~cancelled
    /\ slot' = {}
    /\ pc' = "join"
    /\ UNCHANGED <<chan, serverVars, known, deps, barrier, pending, running, completed,
                   joinset, allOk, exec, fileVars, cancelled, sealed, runStatus, before>>

\* What run() returns.
Verdict == IF allOk THEN "done" ELSE "failed"

\* The background task of start_run: load the run's meta, set the verdict, save;
\* an error of either is ignored.  Then out of the registry.
Finalize ==
    /\ pc = "finalize"
    /\ runStatus' \in {runStatus, Verdict}
    /\ pc' = "deregister"
    /\ UNCHANGED <<chan, serverVars, known, deps, barrier, pending, running, completed,
                   joinset, allOk, exec, fileVars, slot, cancelled, sealed, before>>

Deregister ==
    /\ pc = "deregister"
    /\ RunsLockFree
    /\ pc' = "finished"
    /\ UNCHANGED <<chan, serverVars, known, deps, barrier, pending, running, completed,
                   joinset, allOk, exec, fileVars, slot, cancelled, sealed, runStatus, before>>

-----------------------------------------------------------------------------
(* The spawned tasks *)

\* run_task saves its Running meta first.
TaskStart(t) ==
    /\ exec[t] = "spawned" /\ t \notin slot
    /\ exec' = [exec EXCEPT ![t] = "live"]
    /\ Save({t}, "running")
    /\ UNCHANGED <<chan, serverVars, loopVars, slot, cancelled, sealed, runStatus, before>>

\* The final meta is saved before the report is returned.
TaskEnd(t, r) ==
    /\ exec[t] = "live" /\ t \notin slot
    /\ r = "cancelled" => cancelled
    /\ exec' = [exec EXCEPT ![t] = r]
    /\ Save({t}, r)
    /\ UNCHANGED <<chan, serverVars, loopVars, slot, cancelled, sealed, runStatus, before>>

TaskPanic(t) ==
    /\ exec[t] = "live" /\ t \notin slot
    /\ exec' = [exec EXCEPT ![t] = "panicked"]
    /\ UNCHANGED <<chan, serverVars, loopVars, fileVars, slot, cancelled, sealed, runStatus, before>>

-----------------------------------------------------------------------------
Loop ==
    \/ SpawnReady
    \/ \E t \in Tasks : JoinReport(t) \/ JoinPanic(t)
    \/ NothingToJoin
    \/ RecvTasks
    \/ RecvSeal
    \/ NothingToRecv
    \/ Cancelled
    \/ Park
    \/ Finalize
    \/ Deregister

TaskFinishes(t) == (\E r \in Terminal : TaskEnd(t, r)) \/ TaskPanic(t)

TaskStep(t) == TaskStart(t) \/ TaskFinishes(t)

\* The second half of a tool call: the handler never abandons it.
Answer(c) ==
    \/ \E t \in Tasks, D \in SUBSET Tasks : DispatchTask(c, t, D)
    \/ \E S \in SUBSET Tasks \ {{}} : \E d \in [S -> SUBSET Tasks] :
         DispatchWave(c, S, [t \in Tasks |-> IF t \in S THEN d[t] ELSE {}])
    \/ RefuseDispatch(c)
    \/ SendSeal(c)
    \/ CancelRunSeal(c)

Server ==
    \/ StartRunSeal
    \/ \E c \in Callers : BeginDispatch(c) \/ BeginSeal(c) \/ CancelRun(c) \/ Answer(c)

\* The run is over and no call is under way.
Over ==
    /\ pc = "finished" /\ ~startSeal
    /\ \A c \in Callers : call[c] = "idle"
    /\ UNCHANGED vars

Next == Server \/ Loop \/ (\E t \in Tasks : TaskStep(t)) \/ Over

Spec == Init /\ [][Next]_vars

\* What Answer(c) does to call, which no other step does.
Returns(c) == call[c] # "idle" /\ CallMoves(c, call[c], "idle")

\* The runtime has two workers or more: it polls the coordinator, every handler
\* and every task outside the slot again and again.  The registry lock (a tokio
\* Mutex) is granted in the order of the requests.
Fairness ==
    /\ WF_vars(Loop)
    /\ SF_vars(Deregister)
    /\ WF_vars(StartRunSeal)
    /\ \A c \in Callers : WF_call(Returns(c))
    /\ \A t \in Tasks : WF_vars(TaskStart(t))

FairSpec == Spec /\ Fairness

\* Every task that the runtime polls comes to its end: codex ends by itself, or
\* is killed.
CodexEnds == \A t \in Tasks : WF_vars(TaskFinishes(t))

-----------------------------------------------------------------------------
(* Properties *)

TypeOK ==
    /\ chan \in Seq(Message)
    /\ Len(chan) <= Cap
    /\ accepted \in SUBSET Tasks
    /\ call \in [Callers -> {"idle", "dispatching", "sealing", "cancelling"}]
    /\ startSeal \in BOOLEAN
    /\ known \in SUBSET Tasks
    /\ deps \in [Tasks -> SUBSET Tasks]
    /\ barrier \in [Tasks -> SUBSET Tasks]
    /\ pending \in SUBSET Tasks
    /\ running \in SUBSET Tasks
    /\ completed \in SUBSET Tasks
    /\ joinset \in SUBSET Tasks
    /\ exec \in [Tasks -> {"idle", "spawned", "live"} \cup Ended]
    /\ meta \in [Tasks -> {"absent", "pending", "running"} \cup Terminal]
    /\ slot \in SUBSET Tasks
    /\ cancelled \in BOOLEAN
    /\ sealed \in BOOLEAN
    /\ allOk \in BOOLEAN
    /\ pc \in {"spawn", "join", "recv", "cancel", "finalize", "deregister", "finished"}
    /\ runStatus \in {"running", "done", "failed"}
    /\ unsaved \in SUBSET Fallible
    /\ before \in [Tasks -> SUBSET Tasks]

\* A started task finds everything it had to wait for done, not merely ended:
\* the completed set also holds failed and cancelled tasks, so this rests on
\* the failure's cancellation reaching the next spawn_ready_tasks.
BlockersDone ==
    \A t \in Tasks : Started(t) => \A b \in Blockers(t) : exec[b] = "done"

\* The barrier keeps its promise: a dispatched wave, whatever its depends_on, and
\* a dispatched task without depends_on start only when every task of every
\* earlier message, and of the start, is done.
BarrierOrder ==
    \A t \in Tasks : Started(t) => \A u \in before[t] : exec[u] = "done"

\* The select never sleeps on tasks that nothing will unblock: with no task
\* left to join and no cancellation, nothing is pending.
NoStall ==
    pc \in {"join", "recv", "cancel"} /\ joinset = {} /\ ~cancelled => pending = {}

\* The names in the channel are fresh: the name check of the handlers, made on
\* the server's set, makes the coordinator's drop of a known name unreachable.
NamesFresh ==
    /\ \A i \in 1..Len(chan) : chan[i].names \cap known = {}
    /\ \A i, j \in 1..Len(chan) : i # j => chan[i].names \cap chan[j].names = {}

\* A queued depends_on is known, or comes no later in the queue.
DepsArriveInOrder ==
    \A i \in 1..Len(chan) : \A t \in chan[i].names : \A d \in chan[i].deps[t] :
        d \in known \/ \E j \in 1..i : d \in chan[j].names

\* As long as the receiver is open the accepted names are the known ones and
\* those on their way: only a seal or a cancellation can lose a dispatch.
NothingLost ==
    /\ known \subseteq accepted
    /\ ~sealed => \A t \in accepted \ known : \E i \in 1..Len(chan) : t \in chan[i].names

\* The channel makes one order of two sets: handlers check names and depends_on
\* against the accepted names, the coordinator lives by the known ones.
QueueInOrder == NamesFresh /\ DepsArriveInOrder /\ NothingLost

\* A run is reported done only if every task the coordinator took is done, and
\* no file says otherwise: one whose last save failed lags behind, and has no
\* other verdict.
DoneIsDone ==
    runStatus = "done" =>
        \A t \in known : /\ exec[t] = "done"
                         /\ meta[t] = "done" \/ (t \in unsaved /\ meta[t] \notin Terminal)

\* A run fails only by a failure, a panic or a request, all of which cancel it.
FailedIsCancelled == runStatus = "failed" => cancelled

\* When the verdict is out no status file is left behind, except a panic's or
\* one whose last save failed.
VerdictSettlesMeta ==
    runStatus # "running" =>
        \A t \in known : meta[t] \in Terminal \/ exec[t] = "panicked" \/ t \in unsaved

\* The verdict tells the truth about the tasks, whatever order the reports, the
\* panics, the cancellation and the meta files came in and whichever save failed.
RunVerdictIsTrue == DoneIsDone /\ FailedIsCancelled /\ VerdictSettlesMeta

\* What a step may not do to the meta files.
MetaKept ==
    \A t \in Tasks : meta[t] \in Terminal \/ runStatus # "running" => meta'[t] = meta[t]

\* A client that polls never sees a task leave a terminal status, nor any
\* status move once the run has its verdict, though three writers share a file.
MetaMonotone == [][MetaKept]_vars

StopRequested == cancelled \/ sealed \/ \E i \in 1..Len(chan) : chan[i].kind = "seal"

\* A cancelled loop never sleeps again (the third branch is always ready), so a
\* task in the slot is never polled again, and is never joined.
Starved == cancelled /\ slot # {}

\* A Seal in the channel, or the token, ends the run, unless the loop starves one
\* of its tasks.
StopFinishes == CodexEnds => (StopRequested ~> pc = "finished" \/ Starved)

\* It has ended, or was given up.
Settled(t) == exec[t] \in Ended \/ (exec[t] = "idle" /\ t \notin pending)

\* Every task the coordinator takes settles, sealed or not: no barrier and no
\* dependency keeps it waiting for ever.
KnownSettles == CodexEnds => \A t \in Tasks : t \in known ~> Settled(t) \/ Starved

-----------------------------------------------------------------------------
(* The abstract run *)

PhaseOf(t) ==
    IF t \notin known THEN "absent"
    ELSE IF exec[t] = "idle" THEN IF t \in pending THEN "waiting" ELSE "cancelled"
    ELSE IF exec[t] \in {"spawned", "live"} THEN "running"
    ELSE exec[t]

\* What run() has returned, whether or not it was saved.
Given == IF pc \in {"deregister", "finished"} THEN Verdict ELSE "running"

Contract == INSTANCE RunContract WITH
    phase    <- [t \in Tasks |-> PhaseOf(t)],
    needs    <- [t \in Tasks |-> Blockers(t)],
    open     <- ~sealed,
    stopping <- cancelled,
    verdict  <- Given

\* The loop, the channel and the handlers implement the abstract run.
ImplementsContract == Contract!Spec

-----------------------------------------------------------------------------
(* The abstract task *)

\* A task is idle until run_task is polled for the first time.
WorkOf(t) == IF exec[t] = "spawned" THEN "idle" ELSE IF exec[t] = "live" THEN "running" ELSE exec[t]

Task(t) == INSTANCE TaskContract WITH
    again <- FALSE,
    work  <- WorkOf(t),
    file  <- meta[t],
    stop  <- cancelled

\* The rotating queue, the join set and the cancellation together keep what each
\* task promises: none runs twice, or after it was given up, or is given up
\* after it was started, and a verdict in its file is the last word.
ImplementsTasks ==
    /\ \A t \in Tasks : Task(t)!Init
    /\ [][\A t \in Tasks : [Task(t)!Next]_(Task(t)!vars)]_vars

-----------------------------------------------------------------------------
(* What the documents say and the code does not do *)

\* "The coordinator drains remaining queued tasks" after a seal, and queued
\* tasks that have not started are marked Cancelled: so a dispatch that was
\* answered "accepted" has a settled status when the run is over.
AcceptedIsReported ==
    pc = "finished" => \A t \in accepted : meta[t] \in Terminal \/ exec[t] = "panicked"

\* "Task panics (JoinError): Meta updated to Failed on disk."
PanicReachesMeta == pc = "finished" => \A t \in known : meta[t] \in Terminal

\* "cancel_run still works and cancels both running and queued dynamic tasks":
\* the tasks of a cancelled run end.
CancelReachesTasks == CodexEnds => \A t \in Tasks : cancelled /\ Started(t) ~> exec[t] \in Ended
=============================================================================
