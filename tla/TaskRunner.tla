---------------------------- MODULE TaskRunner ----------------------------
(***************************************************************************)
(* One call of run_task, or of resume_task, which has no token: the        *)
(* runner, the codex process it spawns, a helper process that codex may    *)
(* leave behind, the two pipes, and the cancellation token of the run.     *)
(*                                                                         *)
(* The runner reads stdout itself and leaves stderr to a task of its own;  *)
(* a process blocks when its pipe is full; a pipe reaches end of file when *)
(* nobody holds its writing end.  The two branches of the biased select    *)
(* are two program counters, polled in order.                              *)
(*                                                                         *)
(* The processes are not the program's own code: they print what they have *)
(* to print, exit, crash, fork, and may ignore SIGTERM.                    *)
(***************************************************************************)
EXTENDS Naturals

CONSTANTS
    OutLines,   \* lines codex prints on stdout
    ErrLines,   \* lines codex prints on stderr
    PipeCap     \* lines that fit in a pipe

ASSUME LinesAssumption == OutLines \in Nat /\ ErrLines \in Nat /\ PipeCap \in Nat \ {0}

VARIABLES
    resume,     \* the call is one of resume_task
    pc,         \* where run_task or resume_task stands
    status,     \* meta.status in memory
    error,      \* a read error of stdout was recorded in meta.error
    ioFailed,   \* history: an operation followed by `?` failed
    disk,       \* status in the meta file
    report,     \* the report, or "none"; "error" when resume_task returns Err
    drain,      \* the stderr drain task: "off", "on", "ended"
    cancel,     \* the cancellation token
    child,      \* "none", "live", "zombie", "reaped"
    exit,       \* exit code of the child: "none", "ok", "bad"
    helper,     \* "none", "group" (in the child's process group), "escaped", "gone"
    outFds,     \* which processes hold stdout open
    errFds,     \* which processes hold stderr open
    outLeft, errLeft,   \* lines not printed yet
    outPipe, errPipe,   \* lines in the pipes
    logged,     \* lines written to the event log
    termSent,   \* SIGTERM was sent to the process group
    killSent,   \* SIGKILL was sent to the process group
    doneFirst   \* history: when the token was cancelled, codex had succeeded and its
                \*          stdout was closed

runnerVars == <<pc, status, error, ioFailed, disk, report>>
signals    == <<termSent, killSent>>
procVars   == <<child, exit, helper, outFds, errFds>>
outVars    == <<outLeft, outPipe>>
errVars    == <<errLeft, errPipe>>
vars == <<runnerVars, signals, procVars, outVars, errVars, drain, logged, cancel, doneFirst, resume>>

Outcomes == {"done", "failed", "cancelled"}

\* The reading end of stdout is dropped with the runner's stack frame.
OutRead == pc \notin {"error", "ended"}

\* Only a task with a terminal status is resumed.
EarlierStatus == IF resume THEN Outcomes ELSE {"pending"}

Init ==
    /\ pc = "start" /\ status = "running" /\ error = FALSE /\ ioFailed = FALSE
    /\ resume \in BOOLEAN /\ disk \in EarlierStatus
    /\ report = "none" /\ drain = "off"
    /\ cancel = FALSE /\ doneFirst = FALSE
    /\ child = "none" /\ exit = "none" /\ helper = "none"
    /\ outFds = {} /\ errFds = {}
    /\ outLeft = OutLines /\ errLeft = ErrLines
    /\ outPipe = 0 /\ errPipe = 0 /\ logged = 0
    /\ termSent = FALSE /\ killSent = FALSE

-----------------------------------------------------------------------------
(* The runner *)

\* An operation followed by `?` fails: whatever is left of run_task_inner is
\* skipped, and the child, if there is one, is dropped as it is.
Fail ==
    /\ ioFailed' = TRUE
    /\ pc' = "error"
    /\ UNCHANGED <<status, error, disk, report>>

Goto(next) ==
    /\ pc' = next
    /\ UNCHANGED <<status, error, ioFailed, disk, report>>

\* The Running meta; a failure to write it is only a warning.
SaveRunning ==
    /\ pc = "start" /\ ~resume
    /\ pc' = "spawn"
    /\ disk' \in {"running", disk}
    /\ UNCHANGED <<status, error, ioFailed, report, signals, procVars, outVars, errVars,
                   drain, logged, cancel, doneFirst, resume>>

\* Faulty variant: the failure is only a warning here too.
SaveResumedOrWarn ==
    /\ pc = "start" /\ resume
    /\ pc' = "spawn"
    /\ disk' \in {"running", disk}
    /\ UNCHANGED <<status, error, ioFailed, report, signals, procVars, outVars, errVars,
                   drain, logged, cancel, doneFirst, resume>>

\* A resumed task is not started unless its file says that it runs.
SaveResumed ==
    /\ pc = "start" /\ resume
    /\ \/ disk' = "running" /\ pc' = "spawn" /\ UNCHANGED <<status, error, ioFailed, report>>
       \/ pc' = "ended" /\ report' = "error" /\ ioFailed' = TRUE /\ UNCHANGED <<status, error, disk>>
    /\ UNCHANGED <<signals, procVars, outVars, errVars, drain, logged, cancel, doneFirst, resume>>

\* In a process group of its own, with both outputs piped.
SpawnChild ==
    /\ pc = "spawn"
    /\ \/ /\ child' = "live" /\ outFds' = {"child"} /\ errFds' = {"child"}
          /\ Goto("pid")
       \/ Fail /\ UNCHANGED <<child, outFds, errFds>>
    /\ UNCHANGED <<signals, exit, helper, outVars, errVars, drain, logged, cancel, doneFirst, resume>>

\* The pid is saved, then stderr gets its drain task.
SavePid ==
    /\ pc = "pid"
    /\ \/ /\ disk' = "running"
          /\ drain' = "on"
          /\ pc' = "log"
          /\ UNCHANGED <<status, error, ioFailed, report>>
       \/ Fail /\ drain' = "ended"
    /\ UNCHANGED <<signals, procVars, outVars, errVars, logged, cancel, doneFirst, resume>>

OpenLog ==
    /\ pc = "log"
    /\ Goto("stream") \/ Fail
    /\ UNCHANGED <<signals, procVars, outVars, errVars, drain, logged, cancel, doneFirst, resume>>

\* First branch of the select: a line.  It is logged, then the token is read.
ReadLine ==
    /\ pc = "stream" /\ ~resume
    /\ outPipe > 0
    /\ outPipe' = outPipe - 1
    /\ \/ logged' = logged + 1 /\ Goto(IF cancel THEN "kill" ELSE "stream")
       \/ logged' = logged /\ Fail
    /\ UNCHANGED <<signals, procVars, outLeft, errVars, drain, cancel, doneFirst, resume>>

\* A resumed task just reads on.
ReadOn ==
    /\ pc = "stream" /\ resume
    /\ outPipe > 0
    /\ outPipe' = outPipe - 1
    /\ \/ logged' = logged + 1 /\ Goto("stream")
       \/ logged' = logged /\ Fail
    /\ UNCHANGED <<signals, procVars, outLeft, errVars, drain, cancel, doneFirst, resume>>

\* A line that is not UTF-8, or an error of the pipe.
ReadError ==
    /\ pc = "stream"
    /\ outPipe > 0
    /\ outPipe' = outPipe - 1
    /\ error' = TRUE
    /\ pc' = "drain"
    /\ UNCHANGED <<status, ioFailed, disk, report, signals, procVars, outLeft, errVars,
                   drain, logged, cancel, doneFirst, resume>>

ReadEof ==
    /\ pc = "stream"
    /\ outPipe = 0 /\ outFds = {}
    /\ Goto("drain")
    /\ UNCHANGED <<signals, procVars, outVars, errVars, drain, logged, cancel, doneFirst, resume>>

NothingToRead ==
    /\ pc = "stream" /\ ~resume
    /\ outPipe = 0 /\ outFds # {}
    /\ Goto("token")
    /\ UNCHANGED <<signals, procVars, outVars, errVars, drain, logged, cancel, doneFirst, resume>>

\* Second branch of the select; without a cancellation stdout is polled again.
PollToken ==
    /\ pc = "token"
    /\ Goto(IF cancel THEN "kill" ELSE "stream")
    /\ UNCHANGED <<signals, procVars, outVars, errVars, drain, logged, cancel, doneFirst, resume>>

-----------------------------------------------------------------------------
(* kill_and_wait, and the status its caller sets when it returns *)

KillReturns ==
    /\ status' = "cancelled"
    /\ pc' = "drain"
    /\ UNCHANGED <<error, ioFailed, disk, report>>

\* Faulty variant: SIGTERM is sent whatever try_wait says.
TryWaitSignals ==
    /\ pc = "kill"
    /\ child' = IF child = "zombie" THEN "reaped" ELSE child
    /\ Goto("term")
    /\ UNCHANGED <<signals, exit, helper, outFds, errFds, outVars, errVars, drain, logged,
                   cancel, doneFirst, resume>>

\* A child that has exited is reaped and nobody is signalled.
TryWait ==
    /\ pc = "kill"
    /\ \/ child = "zombie" /\ child' = "reaped" /\ KillReturns
       \/ child = "live" /\ UNCHANGED child /\ Goto("term")
    /\ UNCHANGED <<signals, exit, helper, outFds, errFds, outVars, errVars, drain, logged,
                   cancel, doneFirst, resume>>

SendTerm ==
    /\ pc = "term"
    /\ termSent' = TRUE
    /\ Goto("grace")
    /\ UNCHANGED <<killSent, procVars, outVars, errVars, drain, logged, cancel, doneFirst, resume>>

WaitGrace ==
    /\ pc = "grace"
    /\ child = "zombie"
    /\ child' = "reaped"
    /\ KillReturns
    /\ UNCHANGED <<signals, exit, helper, outFds, errFds, outVars, errVars, drain, logged,
                   cancel, doneFirst, resume>>

\* Faulty variant: SIGTERM is tried again and again.
Retry == "term"

Escalate == "force"

\* SIGKILL_TIMEOUT has passed, or wait() failed.
GraceElapsed ==
    /\ pc = "grace"
    /\ child = "live"
    /\ Goto(Escalate)
    /\ UNCHANGED <<signals, procVars, outVars, errVars, drain, logged, cancel, doneFirst, resume>>

\* SIGKILL to the group and to the child: neither can ignore it.
SendKill ==
    /\ pc = "force"
    /\ killSent' = TRUE
    /\ child' = "zombie"
    /\ exit' = IF child = "live" THEN "bad" ELSE exit
    /\ helper' = IF helper = "group" THEN "gone" ELSE helper
    /\ outFds' = IF helper = "escaped" THEN outFds \ {"child"} ELSE {}
    /\ errFds' = IF helper = "escaped" THEN errFds \ {"child"} ELSE {}
    /\ Goto("lastWait")
    /\ UNCHANGED <<termSent, outVars, errVars, drain, logged, cancel, doneFirst, resume>>

LastWait ==
    /\ pc = "lastWait"
    /\ child' = "reaped"
    /\ KillReturns
    /\ UNCHANGED <<signals, exit, helper, outFds, errFds, outVars, errVars, drain, logged,
                   cancel, doneFirst, resume>>

-----------------------------------------------------------------------------
(* The end of run_task_inner, and the report *)

\* Faulty variant: run_task does not wait for the process to exit.
AfterDrainReport == "final"

\* kill_and_wait has reaped the child already.
AfterDrain == IF status = "cancelled" THEN "final" ELSE "wait"

\* The token is not looked at here.
AwaitDrain ==
    /\ pc = "drain"
    /\ drain = "ended"
    /\ Goto(AfterDrain)
    /\ UNCHANGED <<signals, procVars, outVars, errVars, drain, logged, cancel, doneFirst, resume>>

\* A recorded error wins over the exit code.
Verdict == IF error \/ exit # "ok" THEN "failed" ELSE "done"

WaitChild ==
    /\ pc = "wait"
    /\ child = "zombie"
    /\ \/ /\ child' = "reaped"
          /\ status' = Verdict
          /\ pc' = "final"
          /\ UNCHANGED <<error, ioFailed, disk, report>>
       \/ Fail /\ UNCHANGED child
    /\ UNCHANGED <<signals, exit, helper, outFds, errFds, outVars, errVars, drain, logged,
                   cancel, doneFirst, resume>>

\* The final meta, then the report; a failure to write is only a warning.
Conclude(result) ==
    /\ status' = result
    /\ disk' \in {result, disk}
    /\ report' = result
    /\ pc' = "ended"
    /\ UNCHANGED <<error, ioFailed, signals, procVars, outVars, errVars, drain, logged,
                   cancel, doneFirst, resume>>

ReportOk == pc = "final" /\ ~resume /\ Conclude(status)

ReportError == pc = "error" /\ ~resume /\ Conclude(IF cancel THEN "cancelled" ELSE "failed")

\* resume_task returns Ok only when the final meta is written.
ResumeOk ==
    /\ pc = "final" /\ resume
    /\ \/ disk' = status /\ report' = status /\ UNCHANGED ioFailed
       \/ report' = "error" /\ ioFailed' = TRUE /\ UNCHANGED disk
    /\ pc' = "ended"
    /\ UNCHANGED <<status, error, signals, procVars, outVars, errVars, drain, logged, cancel,
                   doneFirst, resume>>

ResumeError ==
    /\ pc = "error" /\ resume
    /\ status' = "failed"
    /\ disk' \in {"failed", disk}
    /\ report' = "error"
    /\ pc' = "ended"
    /\ UNCHANGED <<error, ioFailed, signals, procVars, outVars, errVars, drain, logged, cancel,
                   doneFirst, resume>>

-----------------------------------------------------------------------------
(* The stderr drain task *)

\* Faulty variant: stderr is read after stdout, not beside it.
DrainingAfterStdout == drain = "on" /\ pc \in {"drain", "wait", "final", "ended"}

Draining == drain = "on"

DrainLine ==
    /\ Draining
    /\ errPipe > 0
    /\ errPipe' = errPipe - 1
    /\ UNCHANGED <<runnerVars, signals, procVars, outVars, errLeft, drain, logged, cancel,
                   doneFirst, resume>>

DrainEof ==
    /\ drain = "on"
    /\ errPipe = 0 /\ errFds = {}
    /\ drain' = "ended"
    /\ UNCHANGED <<runnerVars, signals, procVars, outVars, errVars, logged, cancel, doneFirst, resume>>

\* A line that cannot be read ends the loop too, and the reader is dropped.
DrainError ==
    /\ drain = "on"
    /\ errPipe > 0
    /\ drain' = "ended"
    /\ errPipe' = 0
    /\ UNCHANGED <<runnerVars, signals, procVars, outVars, errLeft, logged, cancel, doneFirst, resume>>

-----------------------------------------------------------------------------
(* The processes and the user *)

ChildPrints ==
    /\ child = "live" /\ outLeft > 0
    /\ OutRead => outPipe < PipeCap
    /\ outLeft' = outLeft - 1
    /\ outPipe' = IF OutRead THEN outPipe + 1 ELSE outPipe
    /\ UNCHANGED <<runnerVars, signals, procVars, errVars, drain, logged, cancel, doneFirst, resume>>

ChildComplains ==
    /\ child = "live" /\ errLeft > 0
    /\ drain # "ended" => errPipe < PipeCap
    /\ errLeft' = errLeft - 1
    /\ errPipe' = IF drain # "ended" THEN errPipe + 1 ELSE errPipe
    /\ UNCHANGED <<runnerVars, signals, procVars, outVars, drain, logged, cancel, doneFirst, resume>>

ChildGone(code) ==
    /\ child' = "zombie"
    /\ exit' = code
    /\ outFds' = outFds \ {"child"}
    /\ errFds' = errFds \ {"child"}
    /\ UNCHANGED <<runnerVars, signals, helper, outVars, errVars, drain, logged, cancel,
                   doneFirst, resume>>

\* Codex exits by itself when it has printed everything.
ChildExits ==
    /\ child = "live" /\ outLeft = 0 /\ errLeft = 0
    /\ \E code \in {"ok", "bad"} : ChildGone(code)

\* It crashes, or gives in to a signal, at any time.
ChildDies == child = "live" /\ ChildGone("bad")

\* It may close its stdout and go on.
ChildCloses ==
    /\ child = "live" /\ outLeft = 0 /\ "child" \in outFds
    /\ outFds' = outFds \ {"child"}
    /\ UNCHANGED <<runnerVars, signals, child, exit, helper, errFds, outVars, errVars, drain,
                   logged, cancel, doneFirst, resume>>

\* A command that codex runs inherits its pipes and its process group.
ChildForks ==
    /\ child = "live" /\ helper = "none"
    /\ helper' = "group"
    /\ outFds' = outFds \cup (IF "child" \in outFds THEN {"helper"} ELSE {})
    /\ errFds' = errFds \cup {"helper"}
    /\ UNCHANGED <<runnerVars, signals, child, exit, outVars, errVars, drain, logged, cancel,
                   doneFirst, resume>>

HelperEscapes ==
    /\ helper = "group"
    /\ helper' = "escaped"
    /\ UNCHANGED <<runnerVars, signals, child, exit, outFds, errFds, outVars, errVars, drain,
                   logged, cancel, doneFirst, resume>>

HelperExits ==
    /\ helper \in {"group", "escaped"}
    /\ helper' = "gone"
    /\ outFds' = outFds \ {"helper"}
    /\ errFds' = errFds \ {"helper"}
    /\ UNCHANGED <<runnerVars, signals, child, exit, outVars, errVars, drain, logged, cancel,
                   doneFirst, resume>>

\* Ctrl+C, cancel_run, or the failure of another task of the run; nothing
\* cancels a resumed task.
Cancel ==
    /\ ~cancel /\ ~resume
    /\ cancel' = TRUE
    /\ doneFirst' = (exit = "ok" /\ outFds = {})
    /\ UNCHANGED <<runnerVars, signals, procVars, outVars, errVars, drain, logged, resume>>

-----------------------------------------------------------------------------
KillSteps == TryWait \/ SendTerm \/ WaitGrace \/ GraceElapsed \/ SendKill \/ LastWait

Runner ==
    \/ SaveRunning \/ SaveResumed \/ SpawnChild \/ SavePid \/ OpenLog
    \/ ReadLine \/ ReadOn \/ ReadError \/ ReadEof \/ NothingToRead \/ PollToken
    \/ KillSteps
    \/ AwaitDrain \/ WaitChild
    \/ ReportOk \/ ReportError \/ ResumeOk \/ ResumeError

Drainer == DrainLine \/ DrainEof

ChildWorks == ChildPrints \/ ChildComplains \/ ChildExits

Processes == ChildWorks \/ ChildDies \/ ChildCloses \/ ChildForks \/ HelperEscapes \/ HelperExits

Over == pc = "ended" /\ child # "live" /\ UNCHANGED vars

Next == Runner \/ Drainer \/ DrainError \/ Processes \/ Cancel \/ Over

Spec == Init /\ [][Next]_vars

\* The runtime polls the runner and the drain task again and again, and the
\* timer of the grace period expires.  Nothing is assumed of the processes.
RunnerSpec == Spec /\ WF_vars(Runner) /\ WF_vars(Drainer)

-----------------------------------------------------------------------------
(* Properties *)

RunnerTypes ==
    /\ pc \in {"start", "spawn", "pid", "log", "stream", "token", "kill", "term", "grace",
               "force", "lastWait", "drain", "wait", "final", "error", "ended"}
    /\ status \in {"running"} \cup Outcomes
    /\ disk \in {"pending", "running"} \cup Outcomes
    /\ report \in {"none", "error"} \cup Outcomes
    /\ drain \in {"off", "on", "ended"}

ProcessTypes ==
    /\ child \in {"none", "live", "zombie", "reaped"}
    /\ exit \in {"none", "ok", "bad"}
    /\ helper \in {"none", "group", "escaped", "gone"}
    /\ outFds \subseteq {"child", "helper"} /\ errFds \subseteq {"child", "helper"}

LineTypes ==
    /\ outLeft \in 0..OutLines /\ errLeft \in 0..ErrLines
    /\ outPipe \in 0..PipeCap /\ errPipe \in 0..PipeCap
    /\ logged \in 0..OutLines

FlagTypes ==
    /\ error \in BOOLEAN /\ ioFailed \in BOOLEAN /\ cancel \in BOOLEAN
    /\ termSent \in BOOLEAN /\ killSent \in BOOLEAN /\ doneFirst \in BOOLEAN
    /\ resume \in BOOLEAN

TypeOK == RunnerTypes /\ ProcessTypes /\ LineTypes /\ FlagTypes

ReportIsTrue ==
    /\ report = "done" => exit = "ok" /\ child = "reaped" /\ logged = OutLines
    /\ report = "failed" => exit = "bad" \/ error \/ ioFailed
    /\ report = "cancelled" => cancel
    /\ report = "error" => ioFailed

MetaIsTrue ==
    /\ pc \notin {"start", "ended"} => disk \notin Outcomes
    /\ pc = "ended" => disk = report \/ report = "error" \/ disk \notin Outcomes
    /\ pc = "ended" /\ resume /\ report # "error" => disk = report

\* A task reported done succeeded and its whole output is in the event log; a
\* task reported failed has a cause other than the cancellation of its run;
\* only the tasks of a cancelled run are reported cancelled.  And the meta
\* file: a client never reads a verdict while the task is still at work, the
\* one it reads in the end is the one reported, and a resumption that returns
\* Ok has written it.
VerdictIsTrue == ReportIsTrue /\ MetaIsTrue

\* The process is reaped before the task is reported, however it ended;
\* only a failed file operation or spawn makes run_task return earlier.
ReportedIsReaped == report # "none" /\ ~ioFailed => child = "reaped"

\* The process group is signalled only while the pid is still the child's:
\* once reaped, the number may belong to a stranger.
SignalsOwnGroup == [][signals' # signals => child \in {"live", "zombie"}]_vars

\* Shutdown is bounded by the runner alone: a process that ignores SIGTERM,
\* or is blocked on a full pipe, is dead and reaped in the end.
KillEnds == pc = "kill" ~> child = "reaped"

\* Processes that come to an end by themselves when nothing blocks them.
ProcessesEnd == WF_vars(ChildWorks) /\ WF_vars(HelperExits)

\* Neither pipe can block the pair for ever: such a task is always reported,
\* unless stdout could not be read.
Settles == ProcessesEnd => <>(report # "none" \/ error)

-----------------------------------------------------------------------------
(* The abstract task *)

\* The work is over when the call returns, with what it returns.
WorkOf == IF pc = "start" THEN "idle" ELSE IF pc = "ended" THEN report ELSE "running"

Task == INSTANCE TaskContract WITH
    again <- resume,
    work  <- WorkOf,
    file  <- disk,
    stop  <- cancel

\* The call does what coordinator and executor take a task to do: whatever
\* fails on the way, one report, and no verdict in the file before it.
ImplementsTask == Task!Spec

-----------------------------------------------------------------------------
(* What the documents and comments say and the code does not do *)

\* "so we don't misclassify a completed task as cancelled": the child had
\* succeeded and closed its stdout before the token was cancelled.
CompletedNotCancelled == doneFirst /\ ~ioFailed => report # "cancelled"

\* "All tasks sent SIGTERM to process group; after 3s, SIGKILL escalation": no
\* process of a cancelled run lives on.
CancelStops == cancel /\ child = "live" ~> child # "live" \/ ioFailed
=============================================================================
