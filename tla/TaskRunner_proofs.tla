------------------------- MODULE TaskRunner_proofs -------------------------
(***************************************************************************)
(* What run_task and resume_task report, for outputs of any length and     *)
(* pipes of any size: the verdict and the meta file are true, the child is *)
(* reaped, no stranger is signalled.                                       *)
(***************************************************************************)
EXTENDS TaskRunner, TLAPS

\* One-line operators of the actions are always read as what they stand for.
USE DEF Escalate, AfterDrain, Verdict, Draining, Goto, Fail, KillReturns, ChildGone, Conclude

-----------------------------------------------------------------------------
(* The inductive invariant, in five parts *)

\* Where the child stands while the runner still owes it a wait.
ChildInv ==
    /\ pc \in {"start", "spawn"} => child = "none"
    /\ pc \in {"pid", "log", "stream", "token", "kill", "term", "grace", "force", "wait"}
          => child \in {"live", "zombie"}
    /\ pc = "lastWait" => child = "zombie"
    /\ pc = "drain" /\ status = "running" => child \in {"live", "zombie"}
    /\ pc = "drain" /\ status = "cancelled" => child = "reaped"
    /\ pc = "final" => child = "reaped"
    /\ pc = "ended" /\ ~ioFailed => child = "reaped"
    /\ child \in {"none", "live"} <=> exit = "none"
    /\ child = "live" /\ outLeft > 0 => "child" \in outFds
    /\ exit = "ok" => outLeft = 0

\* No line is lost unless stdout could not be read, and the end of the stream
\* is behind all of them.
FlowInv ==
    /\ logged + outPipe + outLeft <= OutLines
    /\ ~error /\ OutRead => logged + outPipe + outLeft = OutLines
    /\ pc \in {"drain", "wait"} /\ status = "running" /\ ~error => outPipe = 0 /\ outFds = {}

\* The status in memory, and what it stands for once it is final.
StatusInv ==
    /\ pc # "ended" => report = "none"
    /\ pc = "ended" => report = status \/ (report = "error" /\ ioFailed)
    /\ pc \notin {"drain", "final", "ended"} => status = "running"
    /\ pc = "ended" /\ report # "error" => status # "running"
    /\ pc = "drain" => status \in {"running", "cancelled"}
    /\ pc = "final" => status # "running"
    /\ pc = "error" => ioFailed
    /\ pc \in {"kill", "term", "grace", "force", "lastWait"} => cancel
    /\ status = "cancelled" => cancel
    /\ status = "failed" => exit = "bad" \/ error \/ ioFailed
    /\ status = "done" => exit = "ok" /\ child = "reaped" /\ logged = OutLines

\* A task that is not resumed has no earlier verdict in its file.
MetaInv == MetaIsTrue /\ (pc = "start" /\ ~resume => disk \notin Outcomes)

IInv == TypeOK /\ ChildInv /\ FlowInv /\ StatusInv /\ MetaInv

-----------------------------------------------------------------------------
(* Types *)

\* The state run_task starts in has the declared types.
LEMMA InitTyped == Init => TypeOK
<1>. SUFFICES ASSUME Init PROVE TypeOK
  OBVIOUS
<1>1. RunnerTypes
  BY DEF Init, RunnerTypes, Outcomes, EarlierStatus
<1>2. ProcessTypes
  BY DEF Init, ProcessTypes
<1>3. LineTypes
  BY LinesAssumption DEF Init, LineTypes
<1>4. FlagTypes
  BY DEF Init, FlagTypes
<1>5. QED
  BY <1>1, <1>2, <1>3, <1>4 DEF TypeOK

\* A step of the runner leads to a program point, a status and a report it has.
LEMMA RunnerTypesKept == ASSUME RunnerTypes, StatusInv, Runner PROVE RunnerTypes'
<1>. USE DEF RunnerTypes, Outcomes
<1>1. CASE SaveRunning \/ SaveResumed \/ SpawnChild \/ SavePid \/ OpenLog
  BY <1>1 DEF SaveRunning, SaveResumed, SpawnChild, SavePid, OpenLog
<1>2. CASE ReadLine \/ ReadOn \/ ReadError \/ ReadEof \/ NothingToRead \/ PollToken
  BY <1>2 DEF ReadLine, ReadOn, ReadError, ReadEof, NothingToRead, PollToken
<1>3. CASE KillSteps
  BY <1>3 DEF KillSteps, TryWait, SendTerm, WaitGrace, GraceElapsed, SendKill, LastWait
<1>4. CASE AwaitDrain \/ WaitChild
  BY <1>4 DEF AwaitDrain, WaitChild
<1>5. CASE ReportOk \/ ReportError \/ ResumeOk \/ ResumeError
  BY <1>5 DEF ReportOk, ReportError, ResumeOk, ResumeError, StatusInv
<1>6. QED
  BY <1>1, <1>2, <1>3, <1>4, <1>5 DEF Runner

\* It leaves the processes in one of their states.
LEMMA RunnerProcesses == ASSUME ProcessTypes, Runner PROVE ProcessTypes'
<1>. USE DEF ProcessTypes, procVars
<1>1. CASE SaveRunning \/ SaveResumed \/ SpawnChild \/ SavePid \/ OpenLog
  BY <1>1 DEF SaveRunning, SaveResumed, SpawnChild, SavePid, OpenLog
<1>2. CASE ReadLine \/ ReadOn \/ ReadError \/ ReadEof \/ NothingToRead \/ PollToken
  BY <1>2 DEF ReadLine, ReadOn, ReadError, ReadEof, NothingToRead, PollToken
<1>3. CASE KillSteps
  BY <1>3 DEF KillSteps, TryWait, SendTerm, WaitGrace, GraceElapsed, SendKill, LastWait
<1>4. CASE AwaitDrain \/ WaitChild \/ ReportOk \/ ReportError \/ ResumeOk \/ ResumeError
  BY <1>4 DEF AwaitDrain, WaitChild, ReportOk, ReportError, ResumeOk, ResumeError
<1>5. QED
  BY <1>1, <1>2, <1>3, <1>4 DEF Runner

\* It logs no line that was not printed.
LEMMA RunnerLines == ASSUME LineTypes, FlowInv, Runner PROVE LineTypes'
<1>. USE LinesAssumption DEF LineTypes
<1>1. CASE ReadLine \/ ReadOn
  <2>1. outPipe' \in 0..PipeCap /\ logged' \in 0..OutLines
    BY <1>1 DEF ReadLine, ReadOn, FlowInv
  <2>2. UNCHANGED <<outLeft, errVars>>
    BY <1>1 DEF ReadLine, ReadOn
  <2>3. QED
    BY <2>1, <2>2 DEF errVars
<1>2. CASE ReadError
  BY <1>2 DEF ReadError, errVars
<1>3. CASE ~ReadLine /\ ~ReadOn /\ ~ReadError
  <2>1. UNCHANGED <<outVars, errVars, logged>>
    BY <1>3 DEF Runner, KillSteps, SaveRunning, SaveResumed, SpawnChild, SavePid, OpenLog, ReadEof,
       NothingToRead, PollToken, TryWait, SendTerm, WaitGrace, GraceElapsed, SendKill, LastWait,
       AwaitDrain, WaitChild, ReportOk, ReportError, ResumeOk, ResumeError
  <2>2. QED
    BY <2>1 DEF outVars, errVars
<1>4. QED
  BY <1>1, <1>2, <1>3

\* It keeps its flags Boolean.
LEMMA RunnerFlags == ASSUME FlagTypes, Runner PROVE FlagTypes'
<1>. USE DEF FlagTypes, signals
<1>1. CASE SaveRunning \/ SaveResumed \/ SpawnChild \/ SavePid \/ OpenLog
  BY <1>1 DEF SaveRunning, SaveResumed, SpawnChild, SavePid, OpenLog
<1>2. CASE ReadLine \/ ReadOn \/ ReadError \/ ReadEof \/ NothingToRead \/ PollToken
  BY <1>2 DEF ReadLine, ReadOn, ReadError, ReadEof, NothingToRead, PollToken
<1>3. CASE KillSteps
  BY <1>3 DEF KillSteps, TryWait, SendTerm, WaitGrace, GraceElapsed, SendKill, LastWait
<1>4. CASE AwaitDrain \/ WaitChild \/ ReportOk \/ ReportError \/ ResumeOk \/ ResumeError
  BY <1>4 DEF AwaitDrain, WaitChild, ReportOk, ReportError, ResumeOk, ResumeError
<1>5. QED
  BY <1>1, <1>2, <1>3, <1>4 DEF Runner

\* Every step of the runner keeps the types.
LEMMA RunnerTyped == ASSUME TypeOK, FlowInv, StatusInv, Runner PROVE TypeOK'
BY RunnerTypesKept, RunnerProcesses, RunnerLines, RunnerFlags DEF TypeOK

\* The drain task, the processes and the user keep the types.
LEMMA OthersTyped ==
  ASSUME TypeOK, Drainer \/ DrainError \/ Processes \/ Cancel
  PROVE  TypeOK'
<1>. USE DEF Drainer, DrainLine, DrainEof, DrainError, Processes, ChildWorks, ChildPrints,
     ChildComplains, ChildExits, ChildDies, ChildCloses, ChildForks, HelperEscapes, HelperExits,
     Cancel
<1>1. RunnerTypes'
  BY DEF TypeOK, RunnerTypes, runnerVars
<1>2. ProcessTypes'
  BY DEF TypeOK, ProcessTypes, procVars
<1>3. LineTypes'
  BY LinesAssumption DEF TypeOK, LineTypes, outVars, errVars
<1>4. FlagTypes'
  BY DEF TypeOK, FlagTypes, runnerVars, signals
<1>5. QED
  BY <1>1, <1>2, <1>3, <1>4 DEF TypeOK

-----------------------------------------------------------------------------
(* The child, the stream and the status *)

\* Nothing has been spawned, printed or reported.
LEMMA InitInv == Init => ChildInv /\ FlowInv /\ StatusInv /\ MetaInv
BY LinesAssumption DEF Init, ChildInv, FlowInv, StatusInv, OutRead, MetaInv, MetaIsTrue, EarlierStatus, Outcomes

\* Every step of the runner keeps its account of the child.
LEMMA RunnerChild == ASSUME TypeOK, ChildInv, StatusInv, Runner PROVE ChildInv'
<1>. USE DEF ChildInv, procVars, outVars
<1>1. CASE SaveRunning \/ SaveResumed \/ SpawnChild \/ SavePid \/ OpenLog
  BY <1>1 DEF SaveRunning, SaveResumed, SpawnChild, SavePid, OpenLog, StatusInv
<1>2. CASE ReadLine \/ ReadOn \/ ReadError \/ ReadEof \/ NothingToRead \/ PollToken
  <2>1. /\ UNCHANGED <<procVars, outLeft, status>>
        /\ pc \in {"stream", "token"}
        /\ pc' \in {"stream", "token", "kill", "drain", "error"}
    BY <1>2 DEF ReadLine, ReadOn, ReadError, ReadEof, NothingToRead, PollToken
  <2>2. status = "running"
    BY <2>1 DEF StatusInv
  <2>3. QED
    BY <2>1, <2>2
<1>3. CASE KillSteps
  <2>. USE DEF StatusInv, TypeOK, ProcessTypes
  <2>1. CASE TryWait \/ WaitGrace
    BY <2>1 DEF TryWait, WaitGrace
  <2>2. CASE SendTerm \/ GraceElapsed
    BY <2>2 DEF SendTerm, GraceElapsed
  <2>3. CASE SendKill
    BY <2>3 DEF SendKill
  <2>4. CASE LastWait
    BY <2>4 DEF LastWait
  <2>5. QED
    BY <1>3, <2>1, <2>2, <2>3, <2>4 DEF KillSteps
<1>4. CASE AwaitDrain \/ WaitChild
  BY <1>4 DEF AwaitDrain, WaitChild, StatusInv, TypeOK, ProcessTypes
<1>5. CASE ReportOk \/ ReportError \/ ResumeOk \/ ResumeError
  BY <1>5 DEF ReportOk, ReportError, ResumeOk, ResumeError, StatusInv
<1>6. QED
  BY <1>1, <1>2, <1>3, <1>4, <1>5 DEF Runner

\* Every step of the runner keeps its account of the lines.
LEMMA RunnerFlow == ASSUME TypeOK, ChildInv, FlowInv, StatusInv, Runner PROVE FlowInv'
<1>. USE LinesAssumption DEF FlowInv, OutRead, outVars
<1>1. CASE SaveRunning \/ SaveResumed \/ SpawnChild \/ SavePid \/ OpenLog
  BY <1>1 DEF SaveRunning, SaveResumed, SpawnChild, SavePid, OpenLog, procVars, StatusInv
<1>2. CASE ReadLine \/ ReadOn
  BY <1>2 DEF ReadLine, ReadOn, TypeOK, LineTypes, procVars
<1>3. CASE ReadError \/ ReadEof \/ NothingToRead \/ PollToken
  BY <1>3 DEF ReadError, ReadEof, NothingToRead, PollToken, TypeOK, LineTypes, procVars
<1>4. CASE KillSteps
  BY <1>4 DEF KillSteps, TryWait, SendTerm, WaitGrace, GraceElapsed, SendKill, LastWait
<1>5. CASE AwaitDrain \/ WaitChild \/ ReportOk \/ ReportError \/ ResumeOk \/ ResumeError
  BY <1>5 DEF AwaitDrain, WaitChild, ReportOk, ReportError, ResumeOk, ResumeError, procVars, StatusInv
<1>6. QED
  BY <1>1, <1>2, <1>3, <1>4, <1>5 DEF Runner

\* Every step of the runner sets the status its situation calls for.
LEMMA RunnerStatus == ASSUME TypeOK, ChildInv, FlowInv, StatusInv, Runner PROVE StatusInv'
<1>. USE DEF StatusInv, outVars, procVars
<1>1. CASE SaveRunning \/ SaveResumed \/ SpawnChild \/ SavePid \/ OpenLog
  BY <1>1 DEF SaveRunning, SaveResumed, SpawnChild, SavePid, OpenLog
<1>2. CASE ReadLine \/ ReadOn \/ ReadError \/ ReadEof \/ NothingToRead \/ PollToken
  BY <1>2 DEF ReadLine, ReadOn, ReadError, ReadEof, NothingToRead, PollToken
<1>3. CASE KillSteps
  BY <1>3 DEF KillSteps, TryWait, SendTerm, WaitGrace, GraceElapsed, SendKill, LastWait
<1>4. CASE AwaitDrain
  BY <1>4 DEF AwaitDrain
<1>5. CASE WaitChild
  <2>1. exit \in {"ok", "bad"} /\ (exit = "ok" => outLeft = 0)
    BY <1>5 DEF WaitChild, ChildInv, TypeOK, ProcessTypes
  <2>2. ~error /\ exit = "ok" => logged = OutLines
    BY <1>5, <2>1, LinesAssumption DEF WaitChild, FlowInv, OutRead, TypeOK, LineTypes
  <2>3. QED
    BY <1>5, <2>1, <2>2 DEF WaitChild
<1>6. CASE ReportOk \/ ReportError \/ ResumeOk \/ ResumeError
  BY <1>6 DEF ReportOk, ReportError, ResumeOk, ResumeError
<1>7. QED
  BY <1>1, <1>2, <1>3, <1>4, <1>5, <1>6 DEF Runner

\* The meta file keeps its word.
LEMMA RunnerMeta == ASSUME TypeOK, StatusInv, MetaInv, Runner PROVE MetaInv'
<1>. USE DEF MetaInv, MetaIsTrue, Outcomes
<1>1. CASE SaveRunning \/ SaveResumed \/ SpawnChild \/ SavePid \/ OpenLog
  BY <1>1 DEF SaveRunning, SaveResumed, SpawnChild, SavePid, OpenLog
<1>2. CASE ReadLine \/ ReadOn \/ ReadError \/ ReadEof \/ NothingToRead \/ PollToken
  BY <1>2 DEF ReadLine, ReadOn, ReadError, ReadEof, NothingToRead, PollToken
<1>3. CASE KillSteps
  BY <1>3 DEF KillSteps, TryWait, SendTerm, WaitGrace, GraceElapsed, SendKill, LastWait
<1>4. CASE AwaitDrain \/ WaitChild
  BY <1>4 DEF AwaitDrain, WaitChild
<1>5. CASE ReportOk \/ ReportError
  BY <1>5 DEF ReportOk, ReportError
<1>6. CASE ResumeOk \/ ResumeError
  BY <1>6 DEF ResumeOk, ResumeError
<1>7. QED
  BY <1>1, <1>2, <1>3, <1>4, <1>5, <1>6 DEF Runner

\* A process prints while it holds its stdout, and dies once.
LEMMA OthersInv ==
  ASSUME TypeOK, ChildInv, FlowInv, StatusInv, MetaInv, Drainer \/ DrainError \/ Processes \/ Cancel
  PROVE  ChildInv' /\ FlowInv' /\ StatusInv' /\ MetaInv'
<1>. USE LinesAssumption DEF ChildInv, FlowInv, StatusInv, MetaInv, MetaIsTrue, OutRead, runnerVars, procVars, outVars
<1>1. CASE Drainer \/ DrainError
  BY <1>1 DEF Drainer, DrainLine, DrainEof, DrainError
<1>2. CASE ChildPrints
  BY <1>2 DEF ChildPrints, TypeOK, LineTypes
<1>3. CASE ChildComplains
  BY <1>3 DEF ChildComplains
<1>4. CASE ChildExits \/ ChildDies
  BY <1>4 DEF ChildExits, ChildDies
<1>5. CASE ChildCloses \/ ChildForks \/ HelperEscapes \/ HelperExits
  BY <1>5 DEF ChildCloses, ChildForks, HelperEscapes, HelperExits
<1>6. CASE Cancel
  BY <1>6 DEF Cancel
<1>7. QED
  BY <1>1, <1>2, <1>3, <1>4, <1>5, <1>6 DEF Processes, ChildWorks

-----------------------------------------------------------------------------
(* The theorems *)

\* No step breaks the inductive invariant.
LEMMA NextInv == IInv /\ [Next]_vars => IInv'
<1>. SUFFICES ASSUME IInv, [Next]_vars PROVE IInv'
  OBVIOUS
<1>1. CASE Runner
  BY <1>1, RunnerTyped, RunnerChild, RunnerFlow, RunnerStatus, RunnerMeta DEF IInv
<1>2. CASE Drainer \/ DrainError \/ Processes \/ Cancel
  BY <1>2, OthersTyped, OthersInv DEF IInv
<1>3. CASE Over \/ UNCHANGED vars
  <2>. USE DEF vars, runnerVars, signals, procVars, outVars, errVars
  <2>1. UNCHANGED vars
    BY <1>3 DEF Over
  <2>2. TypeOK'
    BY <2>1 DEF IInv, TypeOK, RunnerTypes, ProcessTypes, LineTypes, FlagTypes
  <2>3. ChildInv'
    BY <2>1 DEF IInv, ChildInv
  <2>4. FlowInv'
    BY <2>1 DEF IInv, FlowInv, OutRead
  <2>5. StatusInv'
    BY <2>1 DEF IInv, StatusInv
  <2>6. MetaInv'
    BY <2>1 DEF IInv, MetaInv, MetaIsTrue
  <2>7. QED
    BY <2>2, <2>3, <2>4, <2>5, <2>6 DEF IInv
<1>4. QED
  BY <1>1, <1>2, <1>3 DEF Next

\* The inductive invariant is an invariant.
THEOREM Invariance == Spec => []IInv
<1>1. Init => IInv
  BY InitTyped, InitInv DEF IInv
<1>2. QED
  BY <1>1, NextInv, PTL DEF Spec

\* Every reachable state has the declared types: the log is never longer than
\* what codex printed, a pipe never fuller than it can be.
THEOREM TypeCorrect == Spec => []TypeOK
BY Invariance, PTL DEF IInv

\* Done means a successful process whose whole output is logged, failed has a
\* cause of its own, cancelled a cancelled run; and the meta file never says
\* more than the report.
THEOREM VerdictsAreTrue == Spec => []VerdictIsTrue
<1>1. IInv => VerdictIsTrue
  BY DEF IInv, StatusInv, MetaInv, VerdictIsTrue, ReportIsTrue, TypeOK, RunnerTypes, Outcomes
<1>2. QED
  BY <1>1, Invariance, PTL

\* No zombie, and no live child, is left behind a report, unless a file
\* operation or the spawn failed.
THEOREM ReportedAreReaped == Spec => []ReportedIsReaped
<1>1. IInv => ReportedIsReaped
  BY DEF IInv, StatusInv, ChildInv, ReportedIsReaped
<1>2. QED
  BY <1>1, Invariance, PTL

\* A process group is only signalled while its leader is not reaped.
THEOREM SignalsAreOwn == Spec => SignalsOwnGroup
<1>1. IInv /\ [Next]_vars => (signals' # signals => child \in {"live", "zombie"})
  <2>. SUFFICES ASSUME IInv, [Next]_vars, signals' # signals PROVE child \in {"live", "zombie"}
    OBVIOUS
  <2>1. CASE SendTerm \/ SendKill
    BY <2>1 DEF SendTerm, SendKill, IInv, ChildInv
  <2>2. QED
    BY <2>1 DEF Next, Runner, KillSteps, SaveRunning, SaveResumed, SpawnChild, SavePid, OpenLog, ReadLine, ReadOn,
       ReadError, ReadEof, NothingToRead, PollToken, TryWait, WaitGrace, GraceElapsed, LastWait,
       AwaitDrain, WaitChild, ReportOk, ReportError, ResumeOk, ResumeError, Drainer, DrainLine, DrainEof, DrainError,
       Processes, ChildWorks, ChildPrints, ChildComplains, ChildExits, ChildDies, ChildCloses,
       ChildForks, HelperEscapes, HelperExits, Cancel, Over, vars
<1>2. QED
  BY <1>1, Invariance, PTL DEF Spec, SignalsOwnGroup

-----------------------------------------------------------------------------
(* The call implements TaskContract *)

\* The call finds the file that the contract expects of it.
LEMMA InitRefines == Init => Task!Init
BY DEF Init, EarlierStatus, Outcomes, WorkOf, Task!Init, Task!Verdicts

\* A step inside the call that leaves the file alone.
LEMMA InsideRefines ==
  ASSUME pc \notin {"start", "ended"}, pc' \notin {"start", "ended"},
         UNCHANGED <<disk, cancel, resume>>
  PROVE  [Task!Next]_(Task!vars)
BY DEF WorkOf, Task!vars

\* The first save starts the work; without it a resumption is refused.
LEMMA StartRefines ==
  ASSUME IInv, SaveRunning \/ SaveResumed
  PROVE  Task!Next
<1>1. pc = "start" /\ WorkOf = "idle" /\ UNCHANGED <<cancel, resume>>
  BY DEF SaveRunning, SaveResumed, WorkOf
<1>2. CASE SaveRunning
  <2>1. disk \notin Task!Verdicts /\ disk' \in {"running", disk} /\ ~resume /\ WorkOf' = "running"
    BY <1>2 DEF SaveRunning, WorkOf, IInv, MetaInv, Outcomes, Task!Verdicts
  <2>2. Task!Start
    BY <1>1, <2>1 DEF Task!Start
  <2>3. QED
    BY <2>2 DEF Task!Next
<1>3. CASE SaveResumed /\ pc' = "spawn"
  <2>1. disk' = "running" /\ resume /\ WorkOf' = "running"
    BY <1>3 DEF SaveResumed, WorkOf
  <2>2. Task!Start
    BY <1>1, <2>1 DEF Task!Start
  <2>3. QED
    BY <2>2 DEF Task!Next
<1>4. CASE SaveResumed /\ pc' # "spawn"
  <2>1. disk' = disk /\ resume /\ WorkOf' = "error"
    BY <1>4 DEF SaveResumed, WorkOf
  <2>2. Task!Refuse
    BY <1>1, <2>1 DEF Task!Refuse
  <2>3. QED
    BY <2>2 DEF Task!Next
<1>5. QED
  BY <1>2, <1>3, <1>4

\* The pid is saved with a Running status, or the call fails.
LEMMA PidRefines ==
  ASSUME SavePid
  PROVE  [Task!Next]_(Task!vars)
<1>1. CASE disk' = disk
  BY <1>1, InsideRefines DEF SavePid
<1>2. CASE disk' = "running"
  <2>1. WorkOf = "running" /\ WorkOf' = "running" /\ UNCHANGED <<cancel, resume>>
    BY DEF SavePid, WorkOf
  <2>2. Task!SaveRunning
    BY <1>2, <2>1 DEF Task!SaveRunning
  <2>3. QED
    BY <2>2 DEF Task!Next
<1>3. QED
  BY <1>1, <1>2 DEF SavePid

\* run_task ends with a report, and with that status or an older one on disk.
LEMMA ReportRefines ==
  ASSUME IInv, ReportOk \/ ReportError
  PROVE  Task!Next
<1>1. PICK v \in Task!Verdicts : /\ report' = v /\ disk' \in {v, disk}
                                 /\ v = "cancelled" => cancel
  <2>1. CASE ReportOk
    <3>1. status \in Task!Verdicts /\ (status = "cancelled" => cancel)
      BY <2>1 DEF ReportOk, IInv, StatusInv, TypeOK, RunnerTypes, Outcomes, Task!Verdicts
    <3>2. QED
      BY <2>1, <3>1 DEF ReportOk
  <2>2. CASE ReportError
    BY <2>2 DEF ReportError, Task!Verdicts
  <2>3. QED
    BY <2>1, <2>2
<1>2. WorkOf = "running" /\ WorkOf' = report' /\ ~resume /\ UNCHANGED <<cancel, resume>>
  BY DEF ReportOk, ReportError, WorkOf
<1>3. Task!End(v)
  BY <1>1, <1>2 DEF Task!End
<1>4. QED
  BY <1>3 DEF Task!Next

\* resume_task ends with the status that is on disk, or with an error.
LEMMA ResumeRefines ==
  ASSUME IInv, ResumeOk \/ ResumeError
  PROVE  Task!Next
<1>1. WorkOf = "running" /\ WorkOf' = report' /\ resume /\ UNCHANGED <<cancel, resume>>
  BY DEF ResumeOk, ResumeError, WorkOf
<1>2. CASE ResumeOk /\ report' = status /\ disk' = status
  <2>1. status \in Task!Verdicts /\ (status = "cancelled" => cancel)
    BY <1>2 DEF ResumeOk, IInv, StatusInv, TypeOK, RunnerTypes, Outcomes, Task!Verdicts
  <2>2. Task!End(status)
    BY <1>1, <1>2 , <2>1 DEF Task!End
  <2>3. QED
    BY <2>1, <2>2 DEF Task!Next
<1>3. CASE report' = "error" /\ disk' \in {"failed", disk}
  <2>1. Task!Refuse
    BY <1>1, <1>3 DEF Task!Refuse
  <2>2. QED
    BY <2>1 DEF Task!Next
<1>4. QED
  BY <1>2, <1>3 DEF ResumeOk, ResumeError

\* Every other step of the call is inside it.
LEMMA RunnerRefines ==
  ASSUME IInv, Runner
  PROVE  [Task!Next]_(Task!vars)
<1>1. CASE SpawnChild \/ OpenLog
  BY <1>1, InsideRefines DEF SpawnChild, OpenLog
<1>2. CASE ReadLine \/ ReadOn \/ ReadError \/ ReadEof \/ NothingToRead \/ PollToken
  BY <1>2, InsideRefines DEF ReadLine, ReadOn, ReadError, ReadEof, NothingToRead, PollToken
<1>3. CASE KillSteps
  BY <1>3, InsideRefines DEF KillSteps, TryWait, SendTerm, WaitGrace, GraceElapsed, SendKill, LastWait
<1>4. CASE AwaitDrain \/ WaitChild
  BY <1>4, InsideRefines DEF AwaitDrain, WaitChild
<1>5. QED
  BY <1>1, <1>2, <1>3, <1>4, StartRefines, PidRefines, ReportRefines, ResumeRefines DEF Runner

\* The processes and the drain task are invisible; the user may stop the run.
LEMMA NextRefines == IInv /\ [Next]_vars => [Task!Next]_(Task!vars)
<1>. SUFFICES ASSUME IInv, [Next]_vars PROVE [Task!Next]_(Task!vars)
  OBVIOUS
<1>1. CASE UNCHANGED <<pc, report, disk, cancel, resume>>
  BY <1>1 DEF WorkOf, Task!vars
<1>2. CASE Drainer \/ DrainError
  BY <1>1, <1>2 DEF Drainer, DrainLine, DrainEof, DrainError, runnerVars
<1>3. CASE Processes
  BY <1>1, <1>3 DEF Processes, ChildWorks, ChildPrints, ChildComplains, ChildExits, ChildDies,
     ChildCloses, ChildForks, HelperEscapes, HelperExits, runnerVars
<1>4. CASE Cancel
  <2>1. cancel' = TRUE /\ UNCHANGED <<resume, WorkOf, disk>>
    BY <1>4 DEF Cancel, WorkOf, runnerVars
  <2>2. Task!Stop
    BY <2>1 DEF Task!Stop
  <2>3. QED
    BY <2>2 DEF Task!Next
<1>5. CASE Over \/ UNCHANGED vars
  BY <1>1, <1>5 DEF Over, vars, runnerVars
<1>6. QED
  BY <1>2, <1>3, <1>4, <1>5, RunnerRefines DEF Next

\* A call of run_task, or of resume_task, is what the coordinator and the
\* executor are proved to take a task to be: it starts once, reports once, and
\* its report is the last status it saves.
THEOREM Refinement == Spec => ImplementsTask
BY InitRefines, NextRefines, Invariance, PTL DEF Spec, ImplementsTask, Task!Spec

-----------------------------------------------------------------------------
(* What the call inherits from TaskContract *)

Kept == INSTANCE TaskContract_proofs WITH
    again <- resume,
    work  <- WorkOf,
    file  <- disk,
    stop  <- cancel

\* A verdict in the file is the reported one, run_task never takes it back, and
\* resume_task returns a status only when the file has it.
THEOREM CallKeepsContract ==
  Spec => []Kept!FileIsTrue /\ []Kept!RepeatedIsSaved /\ Kept!VerdictStays
<1>1. Task!Init => Kept!Init
  BY DEF Task!Init, Kept!Init, Task!Verdicts, Kept!Verdicts
<1>2. [Task!Next]_(Task!vars) => [Kept!Next]_(Kept!vars)
  BY DEF Task!Next, Kept!Next, Task!vars, Kept!vars, Task!Announce, Kept!Announce, Task!GiveUp,
     Kept!GiveUp, Task!Start, Kept!Start, Task!SaveRunning, Kept!SaveRunning, Task!End, Kept!End,
     Task!Panic, Kept!Panic, Task!Repair, Kept!Repair, Task!Refuse, Kept!Refuse, Task!Stop,
     Kept!Stop, Task!Verdicts, Kept!Verdicts
<1>3. Task!Spec => Kept!Spec
  BY <1>1, <1>2, PTL DEF Task!Spec, Kept!Spec
<1>4. QED
  BY <1>3, Refinement, Kept!FilesAreTrue, Kept!RepeatedAreSaved, Kept!VerdictsStay
     DEF ImplementsTask
=============================================================================
