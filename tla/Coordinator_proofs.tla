------------------------- MODULE Coordinator_proofs -------------------------
(***************************************************************************)
(* Type correctness and the safety invariants of Coordinator, for every    *)
(* set of tasks and callers and every channel capacity.                    *)
(***************************************************************************)
EXTENDS Coordinator, TLAPS

\* One-line operators of the actions are always read as what they stand for.
USE DEF Record, Requeued, StillOk, StopsRun, GivenUp, Barred

-----------------------------------------------------------------------------
(* The inductive invariant, in six parts *)

\* What the set operations and the pieces of per-task state agree on.
TaskInv ==
    /\ \A t \in pending : t \in known /\ exec[t] = "idle"
    /\ \A t \in joinset : t \in running /\ exec[t] # "idle"
    /\ \A t \in running : exec[t] # "idle" /\ t \notin completed
    /\ \A t \in running \ joinset : exec[t] = "panicked" /\ ~allOk
    /\ \A t \in completed : exec[t] \in Terminal
    /\ \A t \in completed : exec[t] # "done" => cancelled /\ ~allOk
    /\ \A t \in Tasks : exec[t] # "idle" => t \in known /\ t \in running \cup completed
    /\ \A t \in Tasks : exec[t] = "cancelled" => cancelled
    /\ \A t \in known : exec[t] = "idle" => t \in pending \/ ~allOk
    /\ \A t \in Tasks : exec[t] \in {"spawned", "live"} => t \in joinset
    /\ ~allOk => cancelled

\* What a task's file says when every save succeeds.
Due(t) ==
    IF t \notin known THEN "absent"
    ELSE IF exec[t] = "idle" THEN IF t \in pending THEN "pending" ELSE "cancelled"
    ELSE IF exec[t] = "spawned" THEN "pending"
    ELSE IF exec[t] \in {"live", "panicked"} THEN "running"
    ELSE exec[t]

\* A file is up to date unless its last save failed, and a verdict in it is
\* the task's in any case.
FileInv ==
    /\ unsaved \subseteq known
    /\ \A t \in Tasks : t \notin unsaved => meta[t] = Due(t)
    /\ \A t \in Tasks : meta[t] \in Terminal => meta[t] = Due(t)

\* The slot of the worker holds a task that has not ended.
SlotInv == \A t \in slot : t \in joinset /\ exec[t] \in {"spawned", "live"}

\* The loop ends with nothing left, and the verdict is what it returned.
VerdictInv ==
    /\ pc \in {"finalize", "deregister", "finished"} =>
         joinset = {} /\ pending = {} /\ sealed
    /\ pc = "recv" => ~sealed
    /\ runStatus # "running" => pc \in {"deregister", "finished"}
    /\ runStatus = "done" => allOk
    /\ runStatus = "failed" => ~allOk

\* The channel holds fresh names, in an order that makes their depends_on known.
ChanInv ==
    /\ NamesFresh
    /\ DepsArriveInOrder
    /\ known \subseteq accepted
    /\ \A i \in 1..Len(chan) :
         chan[i].names \subseteq accepted /\ Acyclic(chan[i].names, chan[i].deps)
    /\ ~sealed => \A t \in accepted :
                    t \in known \/ \E i \in 1..Len(chan) : t \in chan[i].names

\* Blockers are known tasks, and waiting for them is well-founded.
WaitInv ==
    /\ \A t \in known : Blockers(t) \subseteq known
    /\ Acyclic(known, [t \in Tasks |-> Blockers(t)])

\* In the select of a live run nothing that could have been spawned is pending.
BlockedInv ==
    pc \in {"join", "recv", "cancel"} /\ ~cancelled => \A t \in pending : ~IsUnblocked(t)

\* The barrier of a task that may still start covers all that came before it and
\* is not completed.
BarrierInv ==
    /\ \A t \in Tasks : before[t] \subseteq known
    /\ ~cancelled =>
         \A t \in known : ~Started(t) => before[t] \subseteq barrier[t] \cup completed

OrderInv == WaitInv /\ BlockedInv /\ BarrierInv /\ BlockersDone /\ BarrierOrder

IInv == TypeOK /\ TaskInv /\ FileInv /\ SlotInv /\ VerdictInv /\ ChanInv /\ OrderInv
-----------------------------------------------------------------------------
(* Type correctness *)

\* Sending keeps the channel a channel of at most Cap messages.
LEMMA SendTyped ==
  ASSUME TypeOK, NEW m \in Message, HasRoom
  PROVE  Append(chan, m) \in Seq(Message) /\ Len(Append(chan, m)) <= Cap
<1>1. chan \in Seq(Message) /\ Len(chan) + 1 <= Cap
  BY CapAssumption DEF TypeOK, HasRoom
<1>2. Append(chan, m) \in Seq(Message) /\ Len(Append(chan, m)) = Len(chan) + 1
  BY <1>1
<1>3. QED
  BY <1>1, <1>2

\* A Seal that is sent, or dropped, leaves a well-typed channel.
LEMMA TrySealTyped ==
  ASSUME TypeOK, TrySend(SealMsg)
  PROVE  chan' \in Seq(Message) /\ Len(chan') <= Cap
<1>1. SealMsg \in Message
  BY DEF SealMsg, Message, NoDeps
<1>2. CASE HasRoom
  BY <1>1, <1>2, SendTyped DEF TrySend
<1>3. CASE ~HasRoom
  BY <1>3 DEF TrySend, TypeOK
<1>4. QED
  BY <1>2, <1>3

\* The state a coordinator is started in has the declared types.
LEMMA InitTyped == Init => TypeOK
<1>. SUFFICES ASSUME Init PROVE TypeOK
  OBVIOUS
<1>1. PICK I \in SUBSET Tasks :
        /\ accepted = I /\ known = I /\ pending = I
        /\ deps \in {d \in [Tasks -> SUBSET I] :
                       /\ \A t \in Tasks \ I : d[t] = {}
                       /\ Acyclic(I, d)}
        /\ meta = [t \in Tasks |-> IF t \in I THEN "pending" ELSE "absent"]
  BY DEF Init
<1>3. deps \in [Tasks -> SUBSET Tasks]
  BY <1>1
<1>4. chan \in Seq(Message) /\ Len(chan) <= Cap
  BY CapAssumption DEF Init
<1>5. QED
  BY <1>1, <1>3, <1>4 DEF Init, TypeOK, NoDeps, Ended, Terminal, Verdict

\* Each file of S is written, or its save fails; the others are left alone.
LEMMA SaveEffect ==
  ASSUME TypeOK, NEW S \in SUBSET Tasks, NEW v \in {"pending", "running"} \cup Terminal, Save(S, v)
  PROVE  /\ meta' \in [Tasks -> {"absent", "pending", "running"} \cup Terminal]
         /\ unsaved' \in SUBSET Fallible
         /\ \A t \in Tasks \ S : meta'[t] = meta[t] /\ (t \in unsaved' <=> t \in unsaved)
         /\ \A t \in S : \/ meta'[t] = v /\ t \notin unsaved'
                         \/ meta'[t] = meta[t] /\ t \in unsaved'
BY DEF TypeOK, Save

\* What the loop accepts from a typed message is typed.
LEMMA AcceptTyped ==
  ASSUME TypeOK, NEW m \in Message, Accept(m)
  PROVE  /\ known' \in SUBSET Tasks /\ pending' \in SUBSET Tasks
         /\ deps' \in [Tasks -> SUBSET Tasks] /\ barrier' \in [Tasks -> SUBSET Tasks]
         /\ meta' \in [Tasks -> {"absent", "pending", "running"} \cup Terminal]
         /\ unsaved' \in SUBSET Fallible
         /\ before' \in [Tasks -> SUBSET Tasks]
<1>1. NewNames(m) \in SUBSET Tasks /\ m.deps \in [Tasks -> SUBSET Tasks]
  BY DEF Message, NewNames
<1>2. Save(NewNames(m), "pending")
  BY DEF Accept
<1>3. meta' \in [Tasks -> {"absent", "pending", "running"} \cup Terminal] /\ unsaved' \in SUBSET Fallible
  BY <1>1, <1>2, SaveEffect
<1>4. barrier' \in [Tasks -> SUBSET Tasks]
  BY DEF Accept, BarrierFor, TypeOK
<1>5. before' \in [Tasks -> SUBSET Tasks]
  BY DEF Accept, TypeOK
<1>6. QED
  BY <1>1, <1>3, <1>4, <1>5 DEF Accept, TypeOK

\* Every tool handler keeps the types.
LEMMA ServerTyped == ASSUME TypeOK, Server PROVE TypeOK'
<1>. USE DEF TypeOK, serverVars, loopVars, fileVars
<1>1. CASE StartRunSeal
  BY <1>1, TrySealTyped DEF StartRunSeal
<1>2. ASSUME NEW c \in Callers, BeginDispatch(c) \/ BeginSeal(c) \/ CancelRun(c)
      PROVE TypeOK'
  BY <1>2 DEF BeginDispatch, BeginSeal, CancelRun, CallMoves
<1>3. ASSUME NEW c \in Callers, NEW t \in Tasks, NEW D \in SUBSET Tasks, DispatchTask(c, t, D)
      PROVE TypeOK'
  <2>. DEFINE m == [kind |-> "task", names |-> {t}, deps |-> [NoDeps EXCEPT ![t] = D]]
  <2>1. m \in Message
    BY DEF Message, NoDeps
  <2>2. HasRoom /\ chan' = Append(chan, m)
    BY <1>3 DEF DispatchTask
  <2>. HIDE DEF m
  <2>3. chan' \in Seq(Message) /\ Len(chan') <= Cap
    BY <2>1, <2>2, SendTyped
  <2>4. QED
    BY <1>3, <2>3 DEF DispatchTask, CallMoves
<1>4. ASSUME NEW c \in Callers, NEW S \in SUBSET Tasks, NEW d \in [Tasks -> SUBSET Tasks],
             DispatchWave(c, S, d)
      PROVE TypeOK'
  <2>. DEFINE m == [kind |-> "wave", names |-> S, deps |-> d]
  <2>1. m \in Message
    BY DEF Message
  <2>2. HasRoom /\ chan' = Append(chan, m)
    BY <1>4 DEF DispatchWave
  <2>. HIDE DEF m
  <2>3. chan' \in Seq(Message) /\ Len(chan') <= Cap
    BY <2>1, <2>2, SendTyped
  <2>4. QED
    BY <1>4, <2>3 DEF DispatchWave, CallMoves
<1>5. ASSUME NEW c \in Callers, RefuseDispatch(c) PROVE TypeOK'
  BY <1>5 DEF RefuseDispatch, CallMoves
<1>6. ASSUME NEW c \in Callers, SendSeal(c) \/ CancelRunSeal(c) PROVE TypeOK'
  BY <1>6, TrySealTyped DEF SendSeal, CancelRunSeal, CallMoves
<1>7. QED
  BY <1>1, <1>2, <1>3, <1>4, <1>5, <1>6 DEF Server, Answer

\* Every step of the loop keeps the types.
LEMMA LoopTyped == ASSUME TypeOK, Loop PROVE TypeOK'
<1>. USE DEF TypeOK, serverVars, loopVars, fileVars
<1>1. CASE SpawnReady
  BY <1>1 DEF SpawnReady, ReadyTasks
<1>2. ASSUME NEW t \in Tasks, JoinReport(t) \/ JoinPanic(t) PROVE TypeOK'
  <2>1. slot' = slot \/ \E u \in Tasks : slot' = {u}
    BY <1>2 DEF JoinReport, JoinPanic, CancelSiblings
  <2>2. cancelled' \in BOOLEAN
    BY <1>2 DEF JoinReport, JoinPanic, CancelSiblings
  <2>3. slot' \in SUBSET Tasks
    BY <2>1
  <2>4. QED
    BY <1>2, <2>2, <2>3 DEF JoinReport, JoinPanic
<1>3. CASE NothingToJoin \/ NothingToRecv \/ Park
  BY <1>3 DEF NothingToJoin, NothingToRecv, Park
<1>4. CASE RecvTasks
  <2>1. Head(chan) \in Message /\ Tail(chan) \in Seq(Message) /\ Len(Tail(chan)) <= Cap
    BY <1>4, CapAssumption DEF RecvTasks
  <2>2. /\ known' \in SUBSET Tasks /\ pending' \in SUBSET Tasks
        /\ deps' \in [Tasks -> SUBSET Tasks] /\ barrier' \in [Tasks -> SUBSET Tasks]
        /\ meta' \in [Tasks -> {"absent", "pending", "running"} \cup Terminal]
        /\ unsaved' \in SUBSET Fallible
        /\ before' \in [Tasks -> SUBSET Tasks]
    BY <1>4, <2>1, AcceptTyped DEF RecvTasks
  <2>3. QED
    BY <1>4, <2>1, <2>2 DEF RecvTasks
<1>5. CASE RecvSeal
  BY <1>5, CapAssumption DEF RecvSeal
<1>6. CASE Cancelled
  <2>1. meta' \in [Tasks -> {"absent", "pending", "running"} \cup Terminal] /\ unsaved' \in SUBSET Fallible
    BY <1>6, SaveEffect DEF Cancelled, Terminal
  <2>2. chan' \in Seq(Message) /\ Len(chan') <= Cap
    BY <1>6, CapAssumption DEF Cancelled
  <2>3. QED
    BY <1>6, <2>1, <2>2 DEF Cancelled
<1>7. CASE Finalize \/ Deregister
  BY <1>7 DEF Finalize, Deregister, Verdict
<1>8. QED
  BY <1>1, <1>2, <1>3, <1>4, <1>5, <1>6, <1>7 DEF Loop

\* Every step of a spawned task keeps the types.
LEMMA TaskTyped == ASSUME TypeOK, NEW t \in Tasks, TaskStep(t) PROVE TypeOK'
<1>. USE DEF TypeOK, Ended, serverVars, loopVars, fileVars
<1>1. CASE TaskStart(t)
  BY <1>1, SaveEffect DEF TaskStart
<1>2. ASSUME NEW r \in Terminal, TaskEnd(t, r) PROVE TypeOK'
  <2>1. meta' \in [Tasks -> {"absent", "pending", "running"} \cup Terminal] /\ unsaved' \in SUBSET Fallible
    BY <1>2, SaveEffect DEF TaskEnd
  <2>2. QED
    BY <1>2, <2>1 DEF TaskEnd, Terminal
<1>3. CASE TaskPanic(t)
  BY <1>3 DEF TaskPanic
<1>4. QED
  BY <1>1, <1>2, <1>3 DEF TaskStep, TaskFinishes

\* No step leaves the types.
LEMMA NextTyped == TypeOK /\ [Next]_vars => TypeOK'
<1>. SUFFICES ASSUME TypeOK, [Next]_vars PROVE TypeOK'
  OBVIOUS
<1>1. CASE Server
  BY <1>1, ServerTyped
<1>2. CASE Loop
  BY <1>2, LoopTyped
<1>3. ASSUME NEW t \in Tasks, TaskStep(t) PROVE TypeOK'
  BY <1>3, TaskTyped
<1>4. CASE Over \/ UNCHANGED vars
  BY <1>4 DEF Over, TypeOK, vars, serverVars, loopVars, fileVars
<1>5. QED
  BY <1>1, <1>2, <1>3, <1>4 DEF Next

\* Every reachable state has the declared types: in particular the channel
\* never holds more than Cap messages and exec, meta and the verdict never
\* leave their ranges.
THEOREM TypeCorrect == Spec => []TypeOK
BY InitTyped, NextTyped, PTL DEF Spec

-----------------------------------------------------------------------------
(* The task invariant *)

\* A tool handler touches neither the loop nor the tasks; it can only cancel.
LEMMA ServerFrame ==
  ASSUME TypeOK, Server
  PROVE  /\ UNCHANGED <<known, deps, barrier, pending, running, completed, joinset, allOk,
                        pc, exec, meta, unsaved, slot, sealed, runStatus, before>>
         /\ cancelled => cancelled'
<1>. USE DEF loopVars, fileVars
<1>1. CASE StartRunSeal
  BY <1>1 DEF StartRunSeal
<1>2. ASSUME NEW c \in Callers,
             BeginDispatch(c) \/ BeginSeal(c) \/ CancelRun(c) \/ RefuseDispatch(c)
               \/ SendSeal(c) \/ CancelRunSeal(c)
      PROVE  /\ UNCHANGED <<known, deps, barrier, pending, running, completed, joinset,
                            allOk, pc, exec, meta, unsaved, slot, sealed, runStatus, before>>
             /\ cancelled => cancelled'
  BY <1>2 DEF BeginDispatch, BeginSeal, CancelRun, RefuseDispatch, SendSeal, CancelRunSeal
<1>3. ASSUME NEW c \in Callers, NEW t \in Tasks, NEW D \in SUBSET Tasks, DispatchTask(c, t, D)
      PROVE  UNCHANGED <<known, deps, barrier, pending, running, completed, joinset, allOk,
                         pc, exec, meta, unsaved, slot, sealed, cancelled, runStatus, before>>
  BY <1>3 DEF DispatchTask
<1>4. ASSUME NEW c \in Callers, NEW S \in SUBSET Tasks, NEW d, DispatchWave(c, S, d)
      PROVE  UNCHANGED <<known, deps, barrier, pending, running, completed, joinset, allOk,
                         pc, exec, meta, unsaved, slot, sealed, cancelled, runStatus, before>>
  BY <1>4 DEF DispatchWave
<1>5. QED
  BY <1>1, <1>2, <1>3, <1>4 DEF Server, Answer

\* A task's own steps change its exec and meta, and nothing else.
LEMMA TaskFrame ==
  ASSUME NEW t \in Tasks, TaskStep(t)
  PROVE  UNCHANGED <<chan, accepted, known, deps, barrier, pending, running, completed,
                     joinset, allOk, pc, slot, cancelled, sealed, runStatus, before>>
BY DEF TaskStep, TaskFinishes, TaskStart, TaskEnd, TaskPanic, serverVars, loopVars

\* A received message adds its new names to known and pending, and leaves the
\* data of every other task alone.
LEMMA RecvEffect ==
  ASSUME TypeOK, RecvTasks, NEW m, m = Head(chan), NEW new, new = NewNames(m)
  PROVE  /\ m \in Message /\ new \in SUBSET Tasks /\ new \cap known = {}
         /\ new = m.names \ known
         /\ known' = known \cup new /\ pending' = pending \cup new
         /\ \A t \in new : deps'[t] = m.deps[t] /\ barrier'[t] = BarrierFor(m, t)
                             /\ before'[t] = IF Barred(m, t) THEN known ELSE {}
         /\ \A t \in Tasks \ new : deps'[t] = deps[t] /\ barrier'[t] = barrier[t]
                             /\ before'[t] = before[t]
         /\ Save(new, "pending")
<1>1. m \in Message
  BY DEF RecvTasks, TypeOK
<1>2. new \in SUBSET Tasks /\ new \cap known = {} /\ new = m.names \ known
  BY <1>1 DEF NewNames, Message
<1>3. QED
  BY <1>1, <1>2 DEF RecvTasks, Accept

\* The task invariant holds of the state start_run registers.
LEMMA InitTask == Init => TaskInv
BY DEF Init, TaskInv, Terminal

\* Every step of the loop, the tasks and the handlers keeps the task invariant.
LEMMA NextTask == TypeOK /\ TaskInv /\ [Next]_vars => TaskInv'
<1>. SUFFICES ASSUME TypeOK, TaskInv, [Next]_vars PROVE TaskInv'
  OBVIOUS
<1>. USE DEF TypeOK, TaskInv
<1>1. CASE Server
  BY <1>1, ServerFrame
<1>2. CASE SpawnReady
  BY <1>2 DEF SpawnReady, ReadyTasks, Terminal
<1>3. ASSUME NEW t \in Tasks, JoinReport(t) PROVE TaskInv'
  BY <1>3 DEF JoinReport, CancelSiblings, Terminal
<1>4. ASSUME NEW t \in Tasks, JoinPanic(t) PROVE TaskInv'
  BY <1>4 DEF JoinPanic, CancelSiblings, Terminal
<1>5. CASE NothingToJoin \/ NothingToRecv \/ Park
  BY <1>5 DEF NothingToJoin, NothingToRecv, Park, fileVars
<1>6. CASE RecvTasks
  <2>. DEFINE new == NewNames(Head(chan))
  <2>1. /\ new \in SUBSET Tasks /\ new \cap known = {}
        /\ known' = known \cup new /\ pending' = pending \cup new
    BY <1>6, RecvEffect
  <2>2. UNCHANGED <<running, completed, joinset, exec, cancelled, allOk>>
    BY <1>6 DEF RecvTasks
  <2>. HIDE DEF new
  <2>3. QED
    BY <2>1, <2>2 DEF Terminal
<1>7. CASE RecvSeal
  BY <1>7 DEF RecvSeal, fileVars
<1>8. CASE Cancelled
  BY <1>8 DEF Cancelled, Terminal
<1>9. CASE Finalize \/ Deregister
  BY <1>9 DEF Finalize, Deregister, fileVars
<1>10. ASSUME NEW t \in Tasks, TaskStep(t) PROVE TaskInv'
  <2>1. CASE TaskStart(t)
    BY <1>10, <2>1, TaskFrame DEF TaskStart, Terminal
  <2>2. ASSUME NEW r \in Terminal, TaskEnd(t, r) PROVE TaskInv'
    BY <1>10, <2>2, TaskFrame DEF TaskEnd, Terminal
  <2>3. CASE TaskPanic(t)
    BY <1>10, <2>3, TaskFrame DEF TaskPanic, Terminal
  <2>4. QED
    BY <1>10, <2>1, <2>2, <2>3 DEF TaskStep, TaskFinishes
<1>11. CASE Over \/ UNCHANGED vars
  BY <1>11 DEF Over, vars, loopVars, fileVars
<1>12. QED
  BY <1>1, <1>2, <1>3, <1>4, <1>5, <1>6, <1>7, <1>8, <1>9, <1>10, <1>11 DEF Next, Loop

-----------------------------------------------------------------------------
(* The file invariant *)

\* A step keeps the invariant when it leaves a file and what it should say
\* alone, saves what it should say, or fails to over no verdict.
LEMMA FileKept ==
  ASSUME FileInv, known \subseteq known', unsaved' \subseteq known',
         \A t \in Tasks :
           \/ meta'[t] = meta[t] /\ Due(t)' = Due(t) /\ (t \in unsaved' <=> t \in unsaved)
           \/ meta'[t] = Due(t)' /\ t \notin unsaved'
           \/ meta'[t] = meta[t] /\ meta[t] \notin Terminal /\ t \in unsaved'
  PROVE  FileInv'
BY DEF FileInv

\* Only the tasks in the files of S owe something new, and it is v.
LEMMA SaveKept ==
  ASSUME TypeOK, FileInv, NEW S \in SUBSET Tasks, NEW v \in {"pending", "running"} \cup Terminal,
         Save(S, v), known \subseteq known', S \subseteq known',
         \A t \in Tasks \ S : Due(t)' = Due(t),
         \A t \in S : Due(t)' = v /\ Due(t) \notin Terminal
  PROVE  FileInv'
<1>1. /\ \A t \in Tasks \ S : meta'[t] = meta[t] /\ (t \in unsaved' <=> t \in unsaved)
      /\ \A t \in S : \/ meta'[t] = v /\ t \notin unsaved'
                      \/ meta'[t] = meta[t] /\ t \in unsaved'
      /\ unsaved' \in SUBSET Fallible
  BY SaveEffect
<1>2. \A t \in S : meta[t] \notin Terminal
  BY DEF FileInv
<1>3. unsaved' \subseteq known'
  BY <1>1, FallibleAssumption DEF FileInv
<1>4. QED
  BY <1>1, <1>2, <1>3, FileKept

\* The file invariant holds of the state start_run registers.
LEMMA InitFile == Init => FileInv
BY DEF Init, FileInv, Due, Terminal

\* Every step keeps the file invariant.
LEMMA NextFile == TypeOK /\ TaskInv /\ FileInv /\ [Next]_vars => FileInv'
<1>. SUFFICES ASSUME TypeOK, TaskInv, FileInv, [Next]_vars PROVE FileInv'
  OBVIOUS
\* Most steps save nothing and owe nothing new.
<1>1. ASSUME UNCHANGED <<known, meta, unsaved>>, \A t \in Tasks : Due(t)' = Due(t) PROVE FileInv'
  BY <1>1, FileKept DEF FileInv
<1>2. CASE UNCHANGED <<known, pending, exec, meta, unsaved>>
  BY <1>1, <1>2 DEF Due
<1>3. CASE Server
  BY <1>2, <1>3, ServerFrame
<1>4. CASE SpawnReady
  <2>1. /\ UNCHANGED <<known, meta, unsaved>> /\ pending' = pending \ ReadyTasks
        /\ \A t \in Tasks : exec'[t] = IF t \in ReadyTasks THEN "spawned" ELSE exec[t]
    BY <1>4 DEF SpawnReady, fileVars
  <2>2. \A t \in ReadyTasks : t \in pending
    BY DEF ReadyTasks
  <2>3. \A t \in Tasks : Due(t)' = Due(t)
    BY <2>1, <2>2 DEF Due, TaskInv
  <2>4. QED
    BY <1>1, <2>1, <2>3
<1>5. CASE RecvTasks
  <2>. DEFINE new == NewNames(Head(chan))
  <2>1. /\ new \in SUBSET Tasks /\ new \cap known = {}
        /\ known' = known \cup new /\ pending' = pending \cup new /\ Save(new, "pending")
    BY <1>5, RecvEffect
  <2>2. exec' = exec
    BY <1>5 DEF RecvTasks
  <2>. HIDE DEF new
  <2>3. \A t \in new : Due(t)' = "pending" /\ Due(t) = "absent"
    BY <2>1, <2>2 DEF Due, TaskInv
  <2>4. \A t \in Tasks \ new : Due(t)' = Due(t)
    BY <2>1, <2>2 DEF Due
  <2>5. QED
    BY <2>1, <2>3, <2>4, SaveKept DEF Terminal
<1>6. CASE Cancelled
  <2>1. Save(pending, "cancelled") /\ pending' = {} /\ UNCHANGED <<known, exec>>
    BY <1>6 DEF Cancelled
  <2>2. \A t \in pending : Due(t)' = "cancelled" /\ Due(t) = "pending"
    BY <2>1 DEF Due, TaskInv, TypeOK
  <2>3. \A t \in Tasks \ pending : Due(t)' = Due(t)
    BY <2>1 DEF Due
  <2>4. QED
    BY <2>1, <2>2, <2>3, SaveKept DEF Terminal, TaskInv, TypeOK
<1>7. ASSUME NEW t \in Tasks, TaskStep(t) PROVE FileInv'
  <2>1. UNCHANGED <<known, pending>>
    BY <1>7, TaskFrame
  <2>2. t \in known
    BY <1>7 DEF TaskStep, TaskFinishes, TaskStart, TaskEnd, TaskPanic, TaskInv
  <2>3. CASE TaskStart(t)
    <3>1. exec[t] = "spawned" /\ exec'[t] = "live" /\ Save({t}, "running")
          /\ \A u \in Tasks \ {t} : exec'[u] = exec[u]
      BY <2>3 DEF TaskStart, TypeOK
    <3>2. Due(t)' = "running" /\ Due(t) = "pending" /\ \A u \in Tasks \ {t} : Due(u)' = Due(u)
      BY <2>1, <2>2, <3>1 DEF Due
    <3>3. QED
      BY <2>1, <2>2, <3>1, <3>2, SaveKept DEF Terminal
  <2>4. ASSUME NEW r \in Terminal, TaskEnd(t, r) PROVE FileInv'
    <3>1. exec[t] = "live" /\ exec'[t] = r /\ Save({t}, r)
          /\ \A u \in Tasks \ {t} : exec'[u] = exec[u]
      BY <2>4 DEF TaskEnd, TypeOK
    <3>2. Due(t)' = r /\ Due(t) = "running" /\ \A u \in Tasks \ {t} : Due(u)' = Due(u)
      BY <2>1, <2>2, <3>1 DEF Due, Terminal
    <3>3. QED
      BY <2>1, <2>2, <3>1, <3>2, SaveKept DEF Terminal
  <2>5. CASE TaskPanic(t)
    <3>1. /\ exec[t] = "live" /\ exec'[t] = "panicked" /\ UNCHANGED <<meta, unsaved>>
          /\ \A u \in Tasks \ {t} : exec'[u] = exec[u]
      BY <2>5 DEF TaskPanic, TypeOK, fileVars
    <3>2. \A u \in Tasks : Due(u)' = Due(u)
      BY <2>1, <3>1 DEF Due
    <3>3. QED
      BY <1>1, <2>1, <3>1, <3>2
  <2>6. QED
    BY <1>7, <2>3, <2>4, <2>5 DEF TaskStep, TaskFinishes
<1>8. ASSUME ~RecvTasks, ~Cancelled, ~SpawnReady, Loop PROVE UNCHANGED <<known, pending, exec, meta, unsaved>>
  BY <1>8 DEF Loop, JoinReport, JoinPanic, NothingToJoin, RecvSeal, NothingToRecv, Park,
              Finalize, Deregister, fileVars
<1>9. CASE Over \/ UNCHANGED vars
  BY <1>2, <1>9 DEF Over, vars, loopVars, fileVars
<1>10. QED
  BY <1>2, <1>3, <1>4, <1>5, <1>6, <1>7, <1>8, <1>9 DEF Next

-----------------------------------------------------------------------------
(* The slot invariant *)

\* The slot is empty at first.
LEMMA InitSlot == Init => SlotInv
BY DEF Init, SlotInv

\* What is spawned or woken enters the slot, and leaves it before it moves.
LEMMA NextSlot == TypeOK /\ SlotInv /\ [Next]_vars => SlotInv'
<1>. SUFFICES ASSUME TypeOK, SlotInv, [Next]_vars PROVE SlotInv'
  OBVIOUS
<1>. USE DEF SlotInv
<1>1. CASE UNCHANGED <<joinset, exec, slot>>
  BY <1>1
<1>2. CASE Server
  BY <1>1, <1>2, ServerFrame
<1>3. CASE SpawnReady
  <2>1. /\ joinset' = joinset \cup ReadyTasks
        /\ \A t \in Tasks : exec'[t] = IF t \in ReadyTasks THEN "spawned" ELSE exec[t]
        /\ slot' = slot \/ \E t \in ReadyTasks : slot' = {t}
    BY <1>3 DEF SpawnReady
  <2>2. ReadyTasks \subseteq Tasks /\ slot \subseteq Tasks
    BY DEF ReadyTasks, TypeOK
  <2>3. QED
    BY <2>1, <2>2
<1>4. ASSUME NEW t \in Tasks, JoinReport(t) \/ JoinPanic(t) PROVE SlotInv'
  <2>1. /\ joinset' = joinset \ {t} /\ exec' = exec /\ exec[t] \notin {"spawned", "live"}
        /\ slot' = slot \/ \E u \in joinset \ {t} : exec[u] = "live" /\ slot' = {u}
    BY <1>4 DEF JoinReport, JoinPanic, CancelSiblings, Terminal
  <2>2. QED
    BY <2>1
<1>5. CASE Park
  BY <1>5 DEF Park
<1>6. ASSUME NEW t \in Tasks, TaskStep(t) PROVE SlotInv'
  <2>1. UNCHANGED <<joinset, slot>>
    BY <1>6, TaskFrame
  <2>2. t \notin slot /\ \A u \in Tasks \ {t} : exec'[u] = exec[u]
    BY <1>6 DEF TaskStep, TaskFinishes, TaskStart, TaskEnd, TaskPanic, TypeOK
  <2>3. QED
    BY <2>1, <2>2 DEF TypeOK
<1>7. CASE NothingToJoin \/ RecvTasks \/ RecvSeal \/ NothingToRecv \/ Cancelled \/ Finalize \/ Deregister
  BY <1>1, <1>7 DEF NothingToJoin, RecvTasks, RecvSeal, NothingToRecv, Cancelled, Finalize, Deregister
<1>8. CASE Over \/ UNCHANGED vars
  BY <1>1, <1>8 DEF Over, vars, loopVars
<1>9. QED
  BY <1>2, <1>3, <1>4, <1>5, <1>6, <1>7, <1>8 DEF Next, Loop

-----------------------------------------------------------------------------
(* The verdict invariant *)

\* The verdict invariant holds at the start.
LEMMA InitVerdict == Init => VerdictInv
BY DEF Init, VerdictInv

\* Every step keeps the verdict invariant.
LEMMA NextVerdict == TypeOK /\ VerdictInv /\ [Next]_vars => VerdictInv'
<1>. SUFFICES ASSUME TypeOK, VerdictInv, [Next]_vars PROVE VerdictInv'
  OBVIOUS
<1>. USE DEF TypeOK, VerdictInv
<1>1. CASE Server
  BY <1>1, ServerFrame
<1>2. CASE SpawnReady
  BY <1>2 DEF SpawnReady
<1>3. ASSUME NEW t \in Tasks, JoinReport(t) \/ JoinPanic(t) PROVE VerdictInv'
  BY <1>3 DEF JoinReport, JoinPanic
<1>4. CASE NothingToJoin \/ NothingToRecv \/ Park \/ RecvSeal \/ Cancelled
  BY <1>4 DEF NothingToJoin, NothingToRecv, Park, RecvSeal, Cancelled
<1>5. CASE RecvTasks
  BY <1>5 DEF RecvTasks
<1>6. CASE Finalize
  BY <1>6 DEF Finalize, Verdict
<1>7. CASE Deregister
  BY <1>7 DEF Deregister
<1>8. ASSUME NEW t \in Tasks, TaskStep(t) PROVE VerdictInv'
  BY <1>8, TaskFrame
<1>9. CASE Over \/ UNCHANGED vars
  BY <1>9 DEF Over, vars, loopVars
<1>10. QED
  BY <1>1, <1>2, <1>3, <1>4, <1>5, <1>6, <1>7, <1>8, <1>9 DEF Next, Loop

-----------------------------------------------------------------------------
(* The channel invariant *)

\* A valid message sent to an open channel keeps the order of the channel.
LEMMA SendOrdered ==
  ASSUME TypeOK, ChanInv, NEW m \in Message,
         HasRoom, chan' = Append(chan, m), accepted' = accepted \cup m.names,
         UNCHANGED <<known, sealed>>,
         m.names \cap accepted = {}, Acyclic(m.names, m.deps),
         \A t \in m.names : m.deps[t] \subseteq accepted \cup m.names
  PROVE  ChanInv'
<1>. DEFINE n == Len(chan)
<1>1. /\ n \in Nat /\ Len(chan') = n + 1 /\ chan'[n + 1] = m
      /\ \A i \in 1..n : chan'[i] = chan[i] /\ chan[i] \in Message
  BY DEF TypeOK
<1>2. 1..(n + 1) = 1..n \cup {n + 1}
  BY <1>1
<1>3. ~sealed
  BY DEF HasRoom
<1>. HIDE DEF n
<1>4. NamesFresh'
  <2>1. \A i \in 1..n : chan[i].names \cap m.names = {}
    BY <1>1 DEF ChanInv, n
  <2>2. m.names \cap known = {}
    BY DEF ChanInv
  <2>3. QED
    BY <1>1, <1>2, <2>1, <2>2 DEF ChanInv, NamesFresh, n
<1>5. DepsArriveInOrder'
  <2>1. SUFFICES ASSUME NEW i \in 1..(n + 1), NEW t \in chan'[i].names,
                        NEW d \in chan'[i].deps[t]
                 PROVE  d \in known \/ \E j \in 1..i : d \in chan'[j].names
    BY <1>1 DEF DepsArriveInOrder
  <2>2. CASE i \in 1..n
    <3>1. d \in known \/ \E j \in 1..i : d \in chan[j].names
      BY <1>1, <2>2 DEF ChanInv, DepsArriveInOrder, n
    <3>2. \A j \in 1..i : j \in 1..n
      BY <1>1, <2>2
    <3>3. QED
      BY <1>1, <3>1, <3>2
  <2>3. CASE i = n + 1
    <3>1. d \in accepted \cup m.names
      BY <1>1, <2>3
    <3>2. d \in accepted => d \in known \/ \E j \in 1..n : d \in chan[j].names
      BY <1>3 DEF ChanInv, n
    <3>3. \A j \in 1..n : j \in 1..i
      BY <1>1, <2>3
    <3>4. i \in 1..i
      BY <1>1, <2>3
    <3>5. QED
      BY <1>1, <2>3, <3>1, <3>2, <3>3, <3>4
  <2>4. QED
    BY <1>2, <2>2, <2>3
<1>6. \A i \in 1..(n + 1) :
        chan'[i].names \subseteq accepted' /\ Acyclic(chan'[i].names, chan'[i].deps)
  BY <1>1, <1>2 DEF ChanInv, n
<1>7. \A t \in accepted' : t \in known \/ \E i \in 1..(n + 1) : t \in chan'[i].names
  BY <1>1, <1>2, <1>3 DEF ChanInv, n
<1>8. QED
  BY <1>1, <1>4, <1>5, <1>6, <1>7 DEF ChanInv

\* So does a Seal, sent or not.
LEMMA SealOrdered ==
  ASSUME TypeOK, ChanInv, TrySend(SealMsg), UNCHANGED <<accepted, known, sealed>>
  PROVE  ChanInv'
<1>1. CASE HasRoom
  <2>1. /\ SealMsg \in Message /\ SealMsg.names = {}
        /\ Acyclic(SealMsg.names, SealMsg.deps)
    BY DEF SealMsg, Message, NoDeps, Acyclic
  <2>2. chan' = Append(chan, SealMsg)
    BY <1>1 DEF TrySend
  <2>3. accepted' = accepted \cup SealMsg.names
    BY <2>1
  <2>4. QED
    BY <1>1, <2>1, <2>2, <2>3, SendOrdered
<1>2. CASE ~HasRoom
  BY <1>2 DEF TrySend, ChanInv, NamesFresh, DepsArriveInOrder
<1>3. QED
  BY <1>1, <1>2

\* The message received makes its names known; the rest of the queue moves up.
LEMMA RecvOrdered == ASSUME TypeOK, ChanInv, RecvTasks PROVE ChanInv'
<1>. DEFINE n == Len(chan)
<1>. DEFINE m == Head(chan)
<1>1. /\ n \in Nat \ {0} /\ Len(chan') = n - 1 /\ m = chan[1] /\ 1 \in 1..n
      /\ \A i \in 1..(n - 1) : chan'[i] = chan[i + 1] /\ i + 1 \in 1..n
  BY DEF RecvTasks, TypeOK
<1>2. NewNames(m) = m.names
  BY <1>1 DEF ChanInv, NamesFresh, NewNames
<1>3. known' = known \cup m.names /\ UNCHANGED <<accepted, sealed>>
  BY <1>2 DEF RecvTasks, Accept, serverVars
<1>. HIDE DEF n, m
<1>4. NamesFresh'
  <2>1. \A i \in 1..(n - 1) : chan'[i].names \cap known' = {}
    BY <1>1, <1>3 DEF ChanInv, NamesFresh, n
  <2>2. ASSUME NEW i \in 1..(n - 1), NEW j \in 1..(n - 1), i # j
        PROVE  chan'[i].names \cap chan'[j].names = {}
    <3>1. i + 1 \in 1..n /\ j + 1 \in 1..n /\ i + 1 # j + 1
      BY <1>1, <2>2
    <3>2. chan[i + 1].names \cap chan[j + 1].names = {}
      BY <3>1 DEF ChanInv, NamesFresh, n
    <3>3. QED
      BY <1>1, <3>2
  <2>3. QED
    BY <1>1, <2>1, <2>2 DEF NamesFresh
<1>5. DepsArriveInOrder'
  <2>1. SUFFICES ASSUME NEW i \in 1..(n - 1), NEW t \in chan'[i].names,
                        NEW d \in chan'[i].deps[t]
                 PROVE  d \in known' \/ \E j \in 1..i : d \in chan'[j].names
    BY <1>1 DEF DepsArriveInOrder
  <2>2. d \in known \/ \E k \in 1..(i + 1) : d \in chan[k].names
    BY <1>1 DEF ChanInv, DepsArriveInOrder, n
  <2>3. ASSUME NEW k \in 1..(i + 1), d \in chan[k].names, k # 1
        PROVE  \E j \in 1..i : d \in chan'[j].names
    <3>1. k - 1 \in 1..i /\ k - 1 \in 1..(n - 1) /\ (k - 1) + 1 = k
      BY <1>1, <2>3
    <3>2. chan'[k - 1] = chan[k]
      BY <1>1, <3>1
    <3>3. QED
      BY <2>3, <3>1, <3>2
  <2>4. QED
    BY <1>1, <1>3, <2>2, <2>3
<1>6. known' \subseteq accepted
  BY <1>1, <1>3 DEF ChanInv, n
<1>7. \A i \in 1..(n - 1) :
        chan'[i].names \subseteq accepted /\ Acyclic(chan'[i].names, chan'[i].deps)
  BY <1>1 DEF ChanInv, n
<1>8. ASSUME ~sealed, NEW t \in accepted, t \notin known'
      PROVE  \E i \in 1..(n - 1) : t \in chan'[i].names
  <2>1. PICK k \in 1..n : t \in chan[k].names
    BY <1>3, <1>8 DEF ChanInv, n
  <2>2. k # 1
    BY <1>1, <1>3, <1>8, <2>1
  <2>3. k - 1 \in 1..(n - 1) /\ (k - 1) + 1 = k
    BY <1>1, <2>1, <2>2
  <2>4. QED
    BY <1>1, <2>1, <2>3
<1>9. QED
  BY <1>1, <1>3, <1>4, <1>5, <1>6, <1>7, <1>8 DEF ChanInv

\* The channel invariant holds of the empty channel.
LEMMA InitChan == Init => ChanInv
BY DEF Init, ChanInv, NamesFresh, DepsArriveInOrder

\* Every send and every receive keeps the channel invariant.
LEMMA NextChan == TypeOK /\ ChanInv /\ [Next]_vars => ChanInv'
<1>. SUFFICES ASSUME TypeOK, ChanInv, [Next]_vars PROVE ChanInv'
  OBVIOUS
<1>1. CASE UNCHANGED <<chan, accepted, known, sealed>>
  BY <1>1 DEF ChanInv, NamesFresh, DepsArriveInOrder
<1>2. CASE StartRunSeal
  BY <1>2, SealOrdered DEF StartRunSeal, loopVars
<1>3. ASSUME NEW c \in Callers, SendSeal(c) \/ CancelRunSeal(c) PROVE ChanInv'
  BY <1>3, SealOrdered DEF SendSeal, CancelRunSeal, loopVars
<1>4. ASSUME NEW c \in Callers, BeginDispatch(c) \/ BeginSeal(c) \/ CancelRun(c) \/ RefuseDispatch(c)
      PROVE  ChanInv'
  BY <1>1, <1>4 DEF BeginDispatch, BeginSeal, CancelRun, RefuseDispatch, loopVars
<1>5. ASSUME NEW c \in Callers, NEW t \in Tasks, NEW D \in SUBSET Tasks, DispatchTask(c, t, D)
      PROVE  ChanInv'
  <2>. DEFINE m == [kind |-> "task", names |-> {t}, deps |-> [NoDeps EXCEPT ![t] = D]]
  <2>1. m \in Message /\ m.names = {t} /\ m.deps[t] = D
    BY DEF Message, NoDeps
  <2>2. /\ HasRoom /\ chan' = Append(chan, m) /\ accepted' = accepted \cup m.names
        /\ UNCHANGED <<known, sealed>> /\ t \notin accepted /\ D \subseteq accepted
    BY <1>5, <2>1 DEF DispatchTask, loopVars
  <2>3. Acyclic(m.names, m.deps)
    <3>1. \A U \in SUBSET {t} : U # {} => t \in U
      OBVIOUS
    <3>2. D \cap {t} = {}
      BY <2>2
    <3>3. QED
      BY <2>1, <3>1, <3>2 DEF Acyclic
  <2>. HIDE DEF m
  <2>4. QED
    BY <2>1, <2>2, <2>3, SendOrdered
<1>6. ASSUME NEW c \in Callers, NEW S \in SUBSET Tasks, NEW d \in [Tasks -> SUBSET Tasks],
             DispatchWave(c, S, d)
      PROVE ChanInv'
  <2>. DEFINE m == [kind |-> "wave", names |-> S, deps |-> d]
  <2>1. m \in Message /\ m.names = S /\ m.deps = d
    BY DEF Message
  <2>2. /\ HasRoom /\ chan' = Append(chan, m) /\ accepted' = accepted \cup m.names
        /\ UNCHANGED <<known, sealed>>
    BY <1>6, <2>1 DEF DispatchWave, loopVars
  <2>3. /\ m.names \cap accepted = {} /\ Acyclic(m.names, m.deps)
        /\ \A t \in m.names : m.deps[t] \subseteq accepted \cup m.names
    BY <1>6, <2>1 DEF DispatchWave, ValidWave
  <2>. HIDE DEF m
  <2>4. QED
    BY <2>1, <2>2, <2>3, SendOrdered
<1>7. CASE Server
  <2>1. ASSUME NEW S \in SUBSET Tasks, NEW d \in [S -> SUBSET Tasks]
        PROVE  [t \in Tasks |-> IF t \in S THEN d[t] ELSE {}] \in [Tasks -> SUBSET Tasks]
    BY <2>1
  <2>2. QED
    BY <1>2, <1>3, <1>4, <1>5, <1>6, <1>7, <2>1 DEF Server, Answer
<1>8. CASE RecvTasks
  BY <1>8, RecvOrdered
<1>9. CASE RecvSeal \/ Cancelled
  BY <1>9 DEF RecvSeal, Cancelled, ChanInv, NamesFresh, DepsArriveInOrder, serverVars
<1>10. ASSUME NEW t \in Tasks, JoinReport(t) \/ JoinPanic(t) PROVE ChanInv'
  BY <1>1, <1>10 DEF JoinReport, JoinPanic, serverVars
<1>11. CASE SpawnReady \/ NothingToJoin \/ NothingToRecv \/ Park \/ Finalize \/ Deregister
  BY <1>1, <1>11 DEF SpawnReady, NothingToJoin, NothingToRecv, Park, Finalize, Deregister, serverVars
<1>12. ASSUME NEW t \in Tasks, TaskStep(t) PROVE ChanInv'
  BY <1>1, <1>12, TaskFrame
<1>13. CASE Over \/ UNCHANGED vars
  BY <1>1, <1>13 DEF Over, vars, serverVars, loopVars
<1>14. QED
  BY <1>7, <1>8, <1>9, <1>10, <1>11, <1>12, <1>13 DEF Next, Loop

-----------------------------------------------------------------------------
(* The order invariant *)

\* A batch whose members wait only for known tasks and, acyclically, for each
\* other, can be added to a set in which waiting is well-founded.
LEMMA AcyclicExtends ==
  ASSUME NEW K, NEW B, NEW f, NEW g,
         \A t \in K : f[t] \subseteq K, Acyclic(K, f), B \cap K = {},
         \A t \in K : g[t] = f[t],
         \A U \in SUBSET B : U # {} => \E t \in U : g[t] \cap U = {}
  PROVE  Acyclic(K \cup B, g)
<1>1. SUFFICES ASSUME NEW U \in SUBSET (K \cup B), U # {}
               PROVE  \E t \in U : g[t] \cap U = {}
  BY DEF Acyclic
<1>2. CASE U \cap K # {}
  <2>1. PICK t \in U \cap K : f[t] \cap (U \cap K) = {}
    BY <1>2 DEF Acyclic
  <2>2. g[t] \cap U = {}
    BY <2>1
  <2>3. QED
    BY <2>1, <2>2
<1>3. CASE U \cap K = {}
  <2>1. U \in SUBSET B
    BY <1>3
  <2>2. QED
    BY <1>1, <2>1
<1>4. QED
  BY <1>2, <1>3

\* Taking a message keeps waiting well-founded: its depends_on are known, or
\* of the same message, because the channel is in order; its barrier is known.
LEMMA RecvWait ==
  ASSUME TypeOK, TaskInv, ChanInv, WaitInv, RecvTasks
  PROVE  WaitInv'
<1>. DEFINE m == Head(chan)
<1>. DEFINE new == NewNames(m)
<1>1. /\ m \in Message /\ new \in SUBSET Tasks /\ new \cap known = {} /\ new = m.names \ known
      /\ known' = known \cup new
      /\ \A t \in new : deps'[t] = m.deps[t] /\ barrier'[t] = BarrierFor(m, t)
      /\ \A t \in Tasks \ new : deps'[t] = deps[t] /\ barrier'[t] = barrier[t]
  BY RecvEffect
<1>2. m = chan[1] /\ 1 \in 1..Len(chan)
  BY DEF RecvTasks, TypeOK
<1>. HIDE DEF m, new
<1>3. new = m.names /\ Acyclic(new, m.deps)
  <2>1. m.names \cap known = {} /\ Acyclic(m.names, m.deps)
    BY <1>2 DEF ChanInv, NamesFresh
  <2>2. new = m.names
    BY <1>1, <2>1
  <2>3. QED
    BY <2>1, <2>2
<1>4. \A t \in new : m.deps[t] \subseteq known \cup new
  <2>1. ASSUME NEW t \in new, NEW d \in m.deps[t] PROVE d \in known \cup new
    <3>1. d \in known \/ \E j \in 1..1 : d \in chan[j].names
      BY <1>2, <1>3, <2>1 DEF ChanInv, DepsArriveInOrder
    <3>2. QED
      BY <1>2, <1>3, <3>1
  <2>2. QED
    BY <2>1
<1>5. \A t \in new : BarrierFor(m, t) \subseteq known
  BY DEF BarrierFor, TaskInv, TypeOK
<1>6. \A t \in new : Blockers(t)' = m.deps[t] \cup BarrierFor(m, t)
  BY <1>1 DEF Blockers
<1>7. \A t \in known : Blockers(t)' = Blockers(t)
  BY <1>1 DEF Blockers, TypeOK
<1>8. \A t \in known' : Blockers(t)' \subseteq known'
  BY <1>1, <1>4, <1>5, <1>6, <1>7 DEF WaitInv
<1>9. Acyclic(known', [t \in Tasks |-> Blockers(t)'])
  <2>. DEFINE f == [t \in Tasks |-> Blockers(t)]
  <2>. DEFINE g == [t \in Tasks |-> Blockers(t)']
  <2>1. \A t \in known : f[t] = Blockers(t) /\ g[t] = Blockers(t)'
    BY DEF TypeOK
  <2>2. \A t \in new : g[t] = m.deps[t] \cup BarrierFor(m, t)
    BY <1>1, <1>6
  <2>3. Acyclic(known, f)
    BY DEF WaitInv
  <2>. HIDE DEF f, g
  <2>4. ASSUME NEW U \in SUBSET new, U # {} PROVE \E t \in U : g[t] \cap U = {}
    <3>1. PICK t \in U : m.deps[t] \cap U = {}
      BY <1>3, <2>4 DEF Acyclic
    <3>2. QED
      BY <1>1, <1>5, <2>2, <2>4, <3>1
  <2>5. /\ \A t \in known : f[t] \subseteq known
        /\ \A t \in known : g[t] = f[t]
        /\ new \cap known = {}
    BY <1>1, <1>7, <2>1 DEF WaitInv
  <2>6. \A U \in SUBSET new : U # {} => \E t \in U : g[t] \cap U = {}
    BY <2>4
  <2>7. Acyclic(known \cup new, g)
    BY <2>3, <2>5, <2>6, AcyclicExtends
  <2>8. QED
    BY <1>1, <2>7 DEF g
<1>10. QED
  BY <1>8, <1>9 DEF WaitInv

\* Waiting does not depend on anything a step other than RecvTasks changes.
LEMMA WaitFrame ==
  ASSUME WaitInv, UNCHANGED <<known, deps, barrier>>
  PROVE  WaitInv'
BY DEF WaitInv, Blockers, Acyclic

\* A step that takes no message, and loses nothing started or completed, keeps
\* the promise of the barriers.
LEMMA BarrierFrame ==
  ASSUME TypeOK, BarrierInv, UNCHANGED <<known, deps, barrier, before>>,
         completed \subseteq completed', cancelled => cancelled',
         \A t \in Tasks : Started(t) => Started(t)'
  PROVE  BarrierInv'
BY DEF BarrierInv, TypeOK

\* Tasks that are done stay done.
LEMMA DoneFrame ==
  ASSUME TypeOK, BlockersDone, BarrierOrder, UNCHANGED <<known, deps, barrier, before>>,
         \A t \in Tasks : exec[t] = "done" => exec'[t] = "done",
         \A t \in Tasks : Started(t)' => Started(t)
  PROVE  BlockersDone' /\ BarrierOrder'
<1>1. \A t \in Tasks : Blockers(t)' = Blockers(t) /\ Blockers(t) \subseteq Tasks
  BY DEF Blockers, TypeOK
<1>2. BlockersDone'
  BY <1>1 DEF BlockersDone
<1>3. BarrierOrder'
  BY DEF BarrierOrder, TypeOK
<1>4. QED
  BY <1>2, <1>3

\* What spawn_ready_tasks starts has only done blockers: the completed set of a
\* run that is not cancelled holds done tasks only.
LEMMA SpawnOrdered ==
  ASSUME TypeOK, TaskInv, BarrierInv, BlockersDone, BarrierOrder, SpawnReady
  PROVE  BarrierInv' /\ BlockersDone' /\ BarrierOrder'
<1>1. /\ ReadyTasks \subseteq pending
      /\ \A t \in ReadyTasks : ~cancelled /\ exec[t] = "idle" /\ IsUnblocked(t)
  BY DEF ReadyTasks, TaskInv
<1>2. /\ UNCHANGED <<known, deps, barrier, completed, cancelled, before>>
      /\ \A t \in Tasks : exec'[t] = IF t \in ReadyTasks THEN "spawned" ELSE exec[t]
  BY DEF SpawnReady
<1>3. \A t \in Tasks : exec[t] = "done" => exec'[t] = "done"
  BY <1>1, <1>2
<1>4. \A t \in ReadyTasks : \A b \in completed : exec[b] = "done"
  BY <1>1 DEF TaskInv
<1>5. \A t \in Tasks : Started(t)' <=> Started(t) \/ t \in ReadyTasks
  BY <1>1, <1>2 DEF Started
<1>6. BarrierInv'
  <2>1. \A t \in Tasks : Started(t) => Started(t)'
    BY <1>5
  <2>2. QED
    BY <1>2, <2>1, BarrierFrame
<1>7. BlockersDone'
  <2>1. \A t \in Tasks : Blockers(t)' = Blockers(t) /\ Blockers(t) \subseteq Tasks
    BY <1>2 DEF Blockers, TypeOK
  <2>2. ASSUME NEW t \in ReadyTasks, NEW b \in Blockers(t) PROVE exec[b] = "done"
    BY <1>1, <1>4, <2>2 DEF IsUnblocked, Blockers
  <2>3. ASSUME NEW t \in Tasks, Started(t), NEW b \in Blockers(t) PROVE exec[b] = "done"
    BY <2>3 DEF BlockersDone
  <2>4. QED
    BY <1>3, <1>5, <2>1, <2>2, <2>3 DEF BlockersDone
<1>8. BarrierOrder'
  <2>1. ASSUME NEW t \in ReadyTasks, NEW u \in before[t] PROVE exec[u] = "done"
    <3>1. u \in barrier[t] \cup completed
      BY <1>1, <2>1 DEF BarrierInv, Started, TaskInv
    <3>2. u \in completed
      BY <1>1, <2>1, <3>1 DEF IsUnblocked
    <3>3. QED
      BY <1>4, <2>1, <3>2
  <2>2. ASSUME NEW t \in Tasks, Started(t), NEW u \in before[t] PROVE exec[u] = "done"
    BY <2>2 DEF BarrierOrder
  <2>3. \A t \in Tasks : before[t] \subseteq Tasks /\ before'[t] = before[t]
    BY <1>2 DEF TypeOK
  <2>4. QED
    BY <1>3, <1>5, <2>1, <2>2, <2>3 DEF BarrierOrder
<1>9. QED
  BY <1>6, <1>7, <1>8

\* A message is taken with a barrier that covers all that is not completed: a
\* known task of a live run is pending, running or completed.
LEMMA RecvBarriers ==
  ASSUME TypeOK, TaskInv, BarrierInv, BlockersDone, BarrierOrder, RecvTasks
  PROVE  BarrierInv' /\ BlockersDone' /\ BarrierOrder'
<1>. DEFINE m == Head(chan)
<1>. DEFINE new == NewNames(m)
<1>1. /\ new \in SUBSET Tasks /\ new \cap known = {}
      /\ known' = known \cup new
      /\ \A t \in new : /\ deps'[t] = m.deps[t] /\ barrier'[t] = BarrierFor(m, t)
                        /\ before'[t] = IF Barred(m, t) THEN known ELSE {}
      /\ \A t \in Tasks \ new : /\ deps'[t] = deps[t] /\ barrier'[t] = barrier[t]
                                /\ before'[t] = before[t]
  BY RecvEffect
<1>. HIDE DEF m, new
<1>2. UNCHANGED <<exec, completed, running, cancelled>>
  BY DEF RecvTasks
<1>3. \A t \in Tasks : Started(t)' = Started(t) /\ (Started(t) => t \in known)
  BY <1>2 DEF Started, TaskInv
<1>4. known \subseteq Tasks
  BY DEF TypeOK
<1>5. BarrierInv'
  <2>1. \A t \in Tasks : before'[t] \subseteq known'
    BY <1>1 DEF BarrierInv
  <2>2. ~cancelled => known \subseteq running \cup pending \cup completed
    BY <1>4 DEF TaskInv
  <2>3. ASSUME ~cancelled, NEW t \in new PROVE before'[t] \subseteq barrier'[t] \cup completed
    BY <1>1, <2>2, <2>3 DEF BarrierFor
  <2>4. ASSUME ~cancelled, NEW t \in known, ~Started(t)
        PROVE  before'[t] \subseteq barrier'[t] \cup completed
    BY <1>1, <1>4, <2>4 DEF BarrierInv
  <2>5. QED
    BY <1>1, <1>2, <1>3, <1>4, <2>1, <2>3, <2>4 DEF BarrierInv
<1>6. BlockersDone'
  <2>1. \A t \in known : Blockers(t)' = Blockers(t)
    BY <1>1, <1>4 DEF Blockers
  <2>2. QED
    BY <1>2, <1>3, <2>1 DEF BlockersDone
<1>7. BarrierOrder'
  <2>1. \A t \in known : before'[t] = before[t]
    BY <1>1, <1>4
  <2>2. QED
    BY <1>2, <1>3, <2>1 DEF BarrierOrder
<1>8. QED
  BY <1>5, <1>6, <1>7

\* The order invariant holds of an acyclic configuration.
LEMMA InitOrder == Init => OrderInv
<1>. SUFFICES ASSUME Init PROVE OrderInv
  OBVIOUS
<1>1. PICK I \in SUBSET Tasks :
        /\ known = I
        /\ deps \in {d \in [Tasks -> SUBSET I] :
                       /\ \A t \in Tasks \ I : d[t] = {}
                       /\ Acyclic(I, d)}
  BY DEF Init
<1>2. \A t \in Tasks : Blockers(t) = deps[t] /\ deps[t] \subseteq I
  BY <1>1 DEF Init, Blockers, NoDeps
<1>3. Acyclic(I, [t \in Tasks |-> Blockers(t)])
  BY <1>1, <1>2 DEF Acyclic
<1>4. WaitInv
  BY <1>1, <1>2, <1>3 DEF WaitInv
<1>5. BlockedInv /\ BarrierInv /\ BlockersDone /\ BarrierOrder
  BY <1>1 DEF Init, BlockedInv, BarrierInv, BlockersDone, BarrierOrder, Started, NoDeps
<1>6. QED
  BY <1>4, <1>5 DEF OrderInv

\* Every step keeps the order invariant.
LEMMA NextOrder == TypeOK /\ TaskInv /\ ChanInv /\ OrderInv /\ [Next]_vars => OrderInv'
<1>. SUFFICES ASSUME TypeOK, TaskInv, ChanInv, OrderInv, [Next]_vars PROVE OrderInv'
  OBVIOUS
<1>. USE DEF OrderInv
\* All but spawning and receiving leave started, done and blockers as they are.
<1>1. ASSUME UNCHANGED <<known, deps, barrier, before>>,
             completed \subseteq completed', cancelled => cancelled',
             \A t \in Tasks : Started(t)' <=> Started(t),
             \A t \in Tasks : exec[t] = "done" => exec'[t] = "done"
      PROVE  WaitInv' /\ BarrierInv' /\ BlockersDone' /\ BarrierOrder'
  BY <1>1, WaitFrame, BarrierFrame, DoneFrame
<1>2. CASE Server
  <2>1. BlockedInv'
    BY <1>2, ServerFrame DEF BlockedInv, IsUnblocked
  <2>2. QED
    BY <1>1, <1>2, <2>1, ServerFrame DEF Started
<1>3. CASE SpawnReady
  <2>1. UNCHANGED <<known, deps, barrier, completed, cancelled>> /\ pending' = pending \ ReadyTasks
    BY <1>3 DEF SpawnReady
  <2>2. BlockedInv'
    BY <2>1 DEF BlockedInv, IsUnblocked, ReadyTasks
  <2>3. QED
    BY <1>3, <2>1, <2>2, SpawnOrdered, WaitFrame
<1>4. ASSUME NEW t \in Tasks, JoinReport(t) \/ JoinPanic(t) PROVE OrderInv'
  <2>1. BlockedInv'
    BY <1>4 DEF JoinReport, JoinPanic, CancelSiblings, BlockedInv
  <2>2. QED
    BY <1>1, <1>4, <2>1 DEF JoinReport, JoinPanic, CancelSiblings, Started
<1>5. CASE NothingToJoin \/ NothingToRecv \/ Park
  <2>1. BlockedInv'
    BY <1>5 DEF NothingToJoin, NothingToRecv, Park, BlockedInv, IsUnblocked
  <2>2. QED
    BY <1>1, <1>5, <2>1 DEF NothingToJoin, NothingToRecv, Park, fileVars, Started
<1>6. CASE RecvTasks
  <2>1. BlockedInv'
    BY <1>6 DEF RecvTasks, BlockedInv
  <2>2. QED
    BY <1>6, <2>1, RecvWait, RecvBarriers
<1>7. CASE RecvSeal \/ Cancelled
  <2>1. BlockedInv'
    BY <1>7 DEF RecvSeal, Cancelled, BlockedInv
  <2>2. QED
    BY <1>1, <1>7, <2>1 DEF RecvSeal, Cancelled, fileVars, Started
<1>8. CASE Finalize \/ Deregister
  <2>1. BlockedInv'
    BY <1>8 DEF Finalize, Deregister, BlockedInv
  <2>2. QED
    BY <1>1, <1>8, <2>1 DEF Finalize, Deregister, fileVars, Started
<1>9. ASSUME NEW t \in Tasks, TaskStep(t) PROVE OrderInv'
  <2>1. BlockedInv'
    BY <1>9, TaskFrame DEF BlockedInv, IsUnblocked
  <2>2. \A u \in Tasks : (Started(u)' <=> Started(u)) /\ (exec[u] = "done" => exec'[u] = "done")
    BY <1>9 DEF TaskStep, TaskFinishes, TaskStart, TaskEnd, TaskPanic, Started, TypeOK, Terminal
  <2>3. QED
    BY <1>1, <1>9, <2>1, <2>2, TaskFrame
<1>10. CASE Over \/ UNCHANGED vars
  <2>1. UNCHANGED <<known, deps, barrier, pending, completed, pc, cancelled, exec, before>>
    BY <1>10 DEF Over, vars, loopVars, fileVars
  <2>2. BlockedInv'
    BY <2>1 DEF BlockedInv, IsUnblocked
  <2>3. QED
    BY <1>1, <2>1, <2>2 DEF Started
<1>11. QED
  BY <1>2, <1>3, <1>4, <1>5, <1>6, <1>7, <1>8, <1>9, <1>10 DEF Next, Loop

-----------------------------------------------------------------------------
(* The theorems *)

\* The inductive invariant holds in every reachable state.
THEOREM Invariance == Spec => []IInv
<1>1. Init => IInv
  BY InitTyped, InitTask, InitFile, InitSlot, InitVerdict, InitChan, InitOrder DEF IInv
<1>2. IInv /\ [Next]_vars => IInv'
  BY NextTyped, NextTask, NextFile, NextSlot, NextVerdict, NextChan, NextOrder DEF IInv
<1>3. QED
  BY <1>1, <1>2, PTL DEF Spec

\* No task starts before all it was told to wait for, its depends_on and its
\* barrier, has ended with status done: fail-fast outruns spawn_ready_tasks.
THEOREM BlockersAreDone == Spec => []BlockersDone
BY Invariance, PTL DEF IInv, OrderInv

\* A dispatched wave, whatever its depends_on, and a dispatched task without
\* depends_on start only when all that came earlier is done.
THEOREM BarriersHold == Spec => []BarrierOrder
BY Invariance, PTL DEF IInv, OrderInv

\* The select never sleeps on tasks nothing will unblock: among the pending
\* tasks one waits for none of them, and what it waits for is completed.
THEOREM NeverStalls == Spec => []NoStall
<1>1. IInv => NoStall
  <2>1. SUFFICES ASSUME IInv, pc \in {"join", "recv", "cancel"}, joinset = {}, ~cancelled,
                        pending # {}
                 PROVE  FALSE
    BY DEF NoStall
  <2>. USE <2>1 DEF IInv
  <2>2. running = {} /\ known = pending \cup completed /\ known \subseteq Tasks
    BY DEF TaskInv, TypeOK
  <2>3. PICK t \in pending : Blockers(t) \cap pending = {}
    BY <2>2 DEF OrderInv, WaitInv, Acyclic
  <2>4. Blockers(t) \subseteq known
    BY <2>2, <2>3 DEF OrderInv, WaitInv
  <2>5. IsUnblocked(t)
    BY <2>2, <2>3, <2>4 DEF IsUnblocked, Blockers
  <2>6. QED
    BY <2>3, <2>5 DEF OrderInv, BlockedInv
<1>2. QED
  BY <1>1, Invariance, PTL

\* The coordinator never meets a name twice, so it never drops a dispatch that
\* the server accepted, and no dependency arrives after the task that waits for
\* it; until the receiver closes, whatever was accepted is known or on its way.
THEOREM QueuesAreInOrder == Spec => []QueueInOrder
<1>1. IInv => QueueInOrder
  BY DEF IInv, ChanInv, QueueInOrder, NothingLost
<1>2. QED
  BY <1>1, Invariance, PTL

\* A run reported done has every task the coordinator took done, and no meta file
\* with another verdict; one reported failed was cancelled, by a caller or by a
\* failure; a status file that the verdict leaves behind is a panicked task's, or
\* its last save failed.
THEOREM VerdictsAreTrue == Spec => []RunVerdictIsTrue
<1>1. IInv => DoneIsDone
  BY DEF IInv, TypeOK, TaskInv, FileInv, Due, VerdictInv, DoneIsDone, Terminal
<1>2. IInv => FailedIsCancelled
  BY DEF IInv, TaskInv, VerdictInv, FailedIsCancelled
<1>3. IInv => VerdictSettlesMeta
  BY DEF IInv, TypeOK, TaskInv, FileInv, Due, VerdictInv, VerdictSettlesMeta, Terminal, Ended
<1>4. QED
  BY <1>1, <1>2, <1>3, Invariance, PTL DEF RunVerdictIsTrue

\* A polling client never sees a task leave a terminal status, nor any status
\* move once the run has its verdict.
THEOREM StatusesAreMonotone == Spec => MetaMonotone
<1>1. IInv /\ [Next]_vars => MetaKept
  <2>. SUFFICES ASSUME IInv, [Next]_vars PROVE MetaKept
    OBVIOUS
  <2>. USE DEF IInv, MetaKept
  <2>1. CASE UNCHANGED meta
    BY <2>1
  \* A save may only touch what is not a verdict, of a run that has none.
  <2>2. ASSUME NEW S \in SUBSET Tasks, NEW v \in {"pending", "running"} \cup Terminal, Save(S, v),
               runStatus = "running", \A t \in S : Due(t) \notin Terminal
        PROVE  MetaKept
    <3>1. \A t \in S : meta[t] \notin Terminal
      BY <2>2 DEF FileInv
    <3>2. \A t \in Tasks \ S : meta'[t] = meta[t]
      BY <2>2, SaveEffect
    <3>3. QED
      BY <2>2, <3>1, <3>2
  <2>3. CASE Server
    BY <2>1, <2>3, ServerFrame
  <2>4. CASE RecvTasks
    <3>. DEFINE new == NewNames(Head(chan))
    <3>1. new \in SUBSET Tasks /\ new \cap known = {} /\ Save(new, "pending")
      BY <2>4, RecvEffect
    <3>2. runStatus = "running"
      BY <2>4 DEF RecvTasks, VerdictInv, TypeOK
    <3>. HIDE DEF new
    <3>3. \A t \in new : Due(t) = "absent"
      BY <3>1 DEF Due
    <3>4. QED
      BY <2>2, <3>1, <3>2, <3>3 DEF Terminal
  <2>5. CASE Cancelled
    <3>1. Save(pending, "cancelled") /\ runStatus = "running" /\ pending \in SUBSET Tasks
      BY <2>5 DEF Cancelled, VerdictInv, TypeOK
    <3>2. \A t \in pending : Due(t) = "pending"
      BY DEF Due, TaskInv
    <3>3. QED
      BY <2>2, <3>1, <3>2 DEF Terminal
  <2>6. ASSUME NEW t \in Tasks, TaskStep(t) PROVE MetaKept
    <3>1. exec[t] \in {"spawned", "live"}
      BY <2>6 DEF TaskStep, TaskFinishes, TaskStart, TaskEnd, TaskPanic
    <3>2. t \in joinset /\ t \in known /\ Due(t) \in {"pending", "running"}
      BY <3>1 DEF TaskInv, Due
    <3>3. runStatus = "running"
      BY <3>2 DEF VerdictInv, TypeOK
    <3>4. CASE UNCHANGED meta
      BY <2>1, <3>4
    <3>5. ASSUME NEW v \in {"running"} \cup Terminal, Save({t}, v) PROVE MetaKept
      BY <2>2, <3>2, <3>3, <3>5 DEF Terminal
    <3>6. QED
      BY <2>6, <3>4, <3>5 DEF TaskStep, TaskFinishes, TaskStart, TaskEnd, TaskPanic, fileVars
  <2>7. QED
    BY <2>1, <2>3, <2>4, <2>5, <2>6
    DEF Next, Loop, SpawnReady, JoinReport, JoinPanic, NothingToJoin, NothingToRecv, Park,
        RecvSeal, Finalize, Deregister, Over, vars, fileVars
<1>2. QED
  BY <1>1, Invariance, PTL DEF MetaMonotone, Spec

\* Once the token is cancelled while a task waits in the slot of the loop's
\* worker, the loop spins for ever: it never sleeps, so the task never leaves
\* the slot, is never joined, and the run never gets its verdict.
THEOREM StarvedForGood == Spec => [][Starved => Starved' /\ pc' # "finished"]_vars
<1>1. IInv /\ IInv' /\ [Next]_vars => (Starved => Starved' /\ pc' # "finished")
  <2>. SUFFICES ASSUME IInv, IInv', [Next]_vars, cancelled, slot # {}
                PROVE  Starved' /\ pc' # "finished"
    BY DEF Starved
  <2>1. cancelled' /\ slot' = slot
    <3>1. CASE Server
      BY <3>1, ServerFrame DEF IInv
    <3>2. ASSUME NEW t \in Tasks, TaskStep(t) PROVE cancelled' /\ slot' = slot
      BY <3>2, TaskFrame
    <3>3. CASE Loop
      BY <3>3 DEF Loop, SpawnReady, ReadyTasks, JoinReport, JoinPanic, CancelSiblings, NothingToJoin,
                  RecvTasks, RecvSeal, NothingToRecv, Cancelled, Park, Finalize, Deregister
    <3>4. CASE Over \/ UNCHANGED vars
      BY <3>4 DEF Over, vars
    <3>5. QED
      BY <3>1, <3>2, <3>3, <3>4 DEF Next
  <2>2. joinset' # {}
    BY <2>1 DEF IInv, SlotInv
  <2>3. pc' # "finished"
    BY <2>2 DEF IInv, VerdictInv
  <2>4. QED
    BY <2>1, <2>3 DEF Starved
<1>2. QED
  BY <1>1, Invariance, PTL DEF Spec

-----------------------------------------------------------------------------
(* Coordinator implements RunContract *)

\* The state a coordinator is started in is an initial state of the contract.
LEMMA InitRefines == Init /\ TypeOK => Contract!Init
<1>. SUFFICES ASSUME Init, TypeOK PROVE Contract!Init
  OBVIOUS
<1>1. \A t \in Tasks : PhaseOf(t) = IF t \in known THEN "waiting" ELSE "absent"
  BY DEF Init, PhaseOf
<1>2. [t \in Tasks |-> PhaseOf(t)] = [t \in Tasks |-> IF t \in known THEN "waiting" ELSE "absent"]
  BY <1>1
<1>3. known \in SUBSET Tasks /\ [t \in Tasks |-> Blockers(t)] \in [Tasks -> SUBSET Tasks]
  BY DEF TypeOK, Blockers
<1>4. pc = "spawn" /\ sealed = FALSE /\ cancelled = FALSE
  BY DEF Init
<1>5. QED
  BY <1>2, <1>3, <1>4 DEF Contract!Init, Given

\* A step that changes neither phases, needs, seal nor verdict is a stutter of
\* the contract, or its Stop when it cancels the run.
LEMMA StutterRefines ==
  ASSUME \A t \in Tasks : PhaseOf(t)' = PhaseOf(t) /\ Blockers(t)' = Blockers(t),
         UNCHANGED <<sealed, Given>>, cancelled' = cancelled \/ cancelled' = TRUE
  PROVE  [Contract!Next]_(Contract!vars)
<1>1. /\ [t \in Tasks |-> PhaseOf(t)'] = [t \in Tasks |-> PhaseOf(t)]
      /\ [t \in Tasks |-> Blockers(t)'] = [t \in Tasks |-> Blockers(t)]
  OBVIOUS
<1>2. CASE cancelled' = cancelled
  BY <1>1, <1>2 DEF Contract!vars
<1>3. CASE cancelled' = TRUE
  <2>1. Contract!Stop
    BY <1>1, <1>3 DEF Contract!Stop
  <2>2. QED
    BY <2>1 DEF Contract!Next
<1>4. QED
  BY <1>2, <1>3

\* spawn_ready_tasks starts tasks whose needs are done.
LEMMA SpawnRefines ==
  ASSUME IInv, SpawnReady
  PROVE  [Contract!Next]_(Contract!vars)
<1>. USE DEF IInv
<1>1. /\ ReadyTasks \subseteq pending /\ pending \subseteq known /\ known \subseteq Tasks
      /\ \A t \in ReadyTasks : exec[t] = "idle" /\ ~cancelled
                                 /\ \A b \in Blockers(t) : b \in completed
  BY DEF ReadyTasks, IsUnblocked, Blockers, TaskInv, TypeOK
<1>2. /\ UNCHANGED <<known, deps, barrier, cancelled, sealed, Given>>
      /\ pending' = pending \ ReadyTasks
      /\ \A t \in Tasks : exec'[t] = IF t \in ReadyTasks THEN "spawned" ELSE exec[t]
  BY DEF SpawnReady, Given
<1>3. \A t \in Tasks : Blockers(t)' = Blockers(t)
  BY <1>2 DEF Blockers
<1>4. \A t \in Tasks : PhaseOf(t)' = IF t \in ReadyTasks THEN "running" ELSE PhaseOf(t)
  BY <1>1, <1>2 DEF PhaseOf
<1>5. CASE ReadyTasks = {}
  BY <1>2, <1>3, <1>4, <1>5, StutterRefines
<1>6. CASE ReadyTasks # {}
  <2>1. ~cancelled
    BY <1>1, <1>6
  <2>2. \A t \in ReadyTasks : PhaseOf(t) = "waiting"
    BY <1>1 DEF PhaseOf
  <2>3. \A b \in completed : exec[b] = "done" /\ b \in known /\ b \in Tasks
    BY <2>1 DEF TaskInv, TypeOK, Terminal
  <2>4. \A b \in completed : PhaseOf(b) = "done"
    BY <2>3 DEF PhaseOf
  <2>5. ReadyTasks \in SUBSET Tasks
    BY <1>1
  <2>6. Contract!Start(ReadyTasks)
    <3>1. \A t \in ReadyTasks : /\ [u \in Tasks |-> PhaseOf(u)][t] = "waiting"
                                 /\ \A n \in [u \in Tasks |-> Blockers(u)][t] :
                                      [u \in Tasks |-> PhaseOf(u)][n] = "done"
      BY <1>1, <2>2, <2>3, <2>4
    <3>2. [t \in Tasks |-> PhaseOf(t)'] =
            [t \in Tasks |-> IF t \in ReadyTasks THEN "running"
                              ELSE [u \in Tasks |-> PhaseOf(u)][t]]
      BY <1>4
    <3>3. [t \in Tasks |-> Blockers(t)'] = [t \in Tasks |-> Blockers(t)]
      BY <1>3
    <3>4. QED
      BY <1>2, <2>1, <3>1, <3>2, <3>3 DEF Contract!Start
  <2>7. QED
    BY <2>5, <2>6 DEF Contract!Next
<1>7. QED
  BY <1>5, <1>6

\* Taking a message admits its tasks to an open run.
LEMMA RecvRefines ==
  ASSUME IInv, RecvTasks
  PROVE  [Contract!Next]_(Contract!vars)
<1>. USE DEF IInv
<1>. DEFINE new == NewNames(Head(chan))
<1>1. /\ new \in SUBSET Tasks /\ new \cap known = {} /\ known' = known \cup new
      /\ pending' = pending \cup new
      /\ \A t \in Tasks \ new : deps'[t] = deps[t] /\ barrier'[t] = barrier[t]
  BY RecvEffect
<1>2. UNCHANGED <<exec, cancelled, sealed, Given>>
  BY DEF RecvTasks, Given
<1>3. ~sealed
  BY DEF RecvTasks, VerdictInv
<1>. HIDE DEF new
<1>4. \A t \in new : exec[t] = "idle"
  BY <1>1 DEF TaskInv
<1>5. \A t \in Tasks : PhaseOf(t)' = IF t \in new THEN "waiting" ELSE PhaseOf(t)
  BY <1>1, <1>2, <1>4 DEF PhaseOf
<1>6. \A t \in new : PhaseOf(t) = "absent"
  BY <1>1 DEF PhaseOf
<1>7. \A t \in Tasks \ new : Blockers(t)' = Blockers(t)
  BY <1>1 DEF Blockers
<1>8. Contract!Admit(new)
  <2>1. [t \in Tasks |-> PhaseOf(t)'] =
          [t \in Tasks |-> IF t \in new THEN "waiting" ELSE [u \in Tasks |-> PhaseOf(u)][t]]
    BY <1>5
  <2>2. \A t \in new : [u \in Tasks |-> PhaseOf(u)][t] = "absent"
    BY <1>1, <1>6
  <2>3. \A t \in Tasks \ new :
          [u \in Tasks |-> Blockers(u)'][t] = [u \in Tasks |-> Blockers(u)][t]
    BY <1>7
  <2>4. [t \in Tasks |-> Blockers(t)'] \in [Tasks -> SUBSET Tasks]
    <3>1. TypeOK'
      BY LoopTyped DEF Loop
    <3>2. QED
      BY <3>1 DEF TypeOK, Blockers
  <2>5. QED
    BY <1>2, <1>3, <2>1, <2>2, <2>3, <2>4 DEF Contract!Admit
<1>9. QED
  BY <1>1, <1>8 DEF Contract!Next

\* The third branch abandons what has not started.
LEMMA CancelledRefines ==
  ASSUME IInv, Cancelled
  PROVE  [Contract!Next]_(Contract!vars)
<1>. USE DEF IInv
<1>1. /\ UNCHANGED <<known, deps, barrier, exec, cancelled, Given>>
      /\ pending' = {} /\ cancelled /\ sealed' = TRUE
  BY DEF Cancelled, Given
<1>2. \A t \in Tasks : Blockers(t)' = Blockers(t)
  BY <1>1 DEF Blockers
<1>3. \A t \in Tasks : PhaseOf(t)' = IF PhaseOf(t) = "waiting" THEN "cancelled" ELSE PhaseOf(t)
  BY <1>1 DEF PhaseOf, TaskInv, TypeOK, Ended
<1>4. Contract!Abandon
  <2>1. [t \in Tasks |-> PhaseOf(t)'] =
          [t \in Tasks |-> IF [u \in Tasks |-> PhaseOf(u)][t] = "waiting" THEN "cancelled"
                            ELSE [u \in Tasks |-> PhaseOf(u)][t]]
    BY <1>3
  <2>2. [t \in Tasks |-> Blockers(t)'] = [t \in Tasks |-> Blockers(t)]
    BY <1>2
  <2>3. QED
    BY <1>1, <2>1, <2>2 DEF Contract!Abandon
<1>5. QED
  BY <1>4 DEF Contract!Next

\* The verdict is given to a closed run with nothing left to run.
LEMMA FinalizeRefines ==
  ASSUME IInv, Finalize
  PROVE  [Contract!Next]_(Contract!vars)
<1>. USE DEF IInv
<1>1. /\ UNCHANGED <<known, deps, barrier, exec, pending, cancelled, sealed>>
      /\ Given = "running" /\ joinset = {} /\ pending = {} /\ sealed
      /\ Given' = IF allOk THEN "done" ELSE "failed"
  BY DEF Finalize, Given, Verdict, VerdictInv
<1>2. \A t \in Tasks : Blockers(t)' = Blockers(t) /\ PhaseOf(t)' = PhaseOf(t)
  BY <1>1 DEF Blockers, PhaseOf
<1>3. \A t \in Tasks : PhaseOf(t) \notin {"waiting", "running"}
  BY <1>1 DEF PhaseOf, TaskInv, TypeOK, Ended
<1>4. allOk => \A t \in Tasks : PhaseOf(t) \in {"absent", "done"}
  BY <1>1 DEF PhaseOf, TaskInv, TypeOK
<1>5. ~allOk => cancelled
  BY DEF TaskInv
<1>6. ASSUME NEW v \in {"done", "failed"}, v = Given' PROVE Contract!Conclude(v)
  <2>1. /\ [t \in Tasks |-> PhaseOf(t)'] = [t \in Tasks |-> PhaseOf(t)]
        /\ [t \in Tasks |-> Blockers(t)'] = [t \in Tasks |-> Blockers(t)]
    BY <1>2
  <2>2. \A t \in Tasks : ~Contract!Live(t)
    BY <1>3 DEF Contract!Live
  <2>3. v = "done" => \A t \in Tasks : [u \in Tasks |-> PhaseOf(u)][t] \in {"absent", "done"}
    BY <1>1, <1>4, <1>6
  <2>4. v = "failed" => cancelled
    BY <1>1, <1>5, <1>6
  <2>5. QED
    BY <1>1, <1>6, <2>1, <2>2, <2>3, <2>4 DEF Contract!Conclude
<1>7. QED
  BY <1>1, <1>6 DEF Contract!Next

\* A task's own step is a stutter, or settles it.
LEMMA TaskRefines ==
  ASSUME IInv, NEW t \in Tasks, TaskStep(t)
  PROVE  [Contract!Next]_(Contract!vars)
<1>. USE DEF IInv
<1>1. UNCHANGED <<known, deps, barrier, pending, cancelled, sealed, Given>>
  BY TaskFrame DEF Given, Verdict
<1>2. t \in known /\ \A u \in Tasks : Blockers(u)' = Blockers(u)
  BY <1>1 DEF Blockers, TaskStep, TaskFinishes, TaskStart, TaskEnd, TaskPanic, TaskInv
<1>3. CASE TaskStart(t)
  <2>1. \A u \in Tasks : PhaseOf(u)' = PhaseOf(u)
    BY <1>1, <1>3 DEF TaskStart, PhaseOf, TypeOK
  <2>2. QED
    BY <1>1, <1>2, <2>1, StutterRefines
<1>4. ASSUME NEW r \in Contract!Outcomes, exec[t] = "live", r = "cancelled" => cancelled,
             exec' = [exec EXCEPT ![t] = r]
      PROVE  Contract!Next
  <2>1. PhaseOf(t) = "running"
    BY <1>2, <1>4 DEF PhaseOf
  <2>2. \A u \in Tasks : PhaseOf(u)' = IF u = t THEN r ELSE PhaseOf(u)
    BY <1>1, <1>2, <1>4 DEF PhaseOf, TypeOK, Contract!Outcomes
  <2>3. [u \in Tasks |-> PhaseOf(u)'] = [[u \in Tasks |-> PhaseOf(u)] EXCEPT ![t] = r]
    BY <2>2
  <2>4. [u \in Tasks |-> Blockers(u)'] = [u \in Tasks |-> Blockers(u)]
    BY <1>2
  <2>5. Contract!Settle(t, r)
    BY <1>1, <1>4, <2>1, <2>3, <2>4 DEF Contract!Settle
  <2>6. QED
    BY <2>5 DEF Contract!Next
<1>5. ASSUME NEW r \in Terminal, TaskEnd(t, r) PROVE Contract!Next
  BY <1>4, <1>5 DEF TaskEnd, Terminal, Contract!Outcomes
<1>6. CASE TaskPanic(t)
  BY <1>4, <1>6 DEF TaskPanic, Contract!Outcomes
<1>7. QED
  BY <1>3, <1>5, <1>6 DEF TaskStep, TaskFinishes

\* Every step of the detailed run is a step, or a stutter, of the abstract one.
LEMMA NextRefines == IInv /\ [Next]_vars => [Contract!Next]_(Contract!vars)
<1>. SUFFICES ASSUME IInv, [Next]_vars PROVE [Contract!Next]_(Contract!vars)
  OBVIOUS
<1>. USE DEF IInv
\* A step that keeps what phases, needs and verdict are read from.
<1>1. ASSUME UNCHANGED <<known, deps, barrier, pending, exec, sealed, Given>>,
             cancelled' = cancelled \/ cancelled' = TRUE
      PROVE  [Contract!Next]_(Contract!vars)
  <2>1. \A t \in Tasks : PhaseOf(t)' = PhaseOf(t) /\ Blockers(t)' = Blockers(t)
    BY <1>1 DEF PhaseOf, Blockers
  <2>2. QED
    BY <1>1, <2>1, StutterRefines
<1>2. CASE Server
  <2>1. cancelled' \in BOOLEAN
    BY <1>2, ServerTyped DEF TypeOK
  <2>2. cancelled' = cancelled \/ cancelled' = TRUE
    BY <1>2, <2>1, ServerFrame DEF TypeOK
  <2>3. UNCHANGED <<known, deps, barrier, pending, exec, sealed, allOk, pc>>
    BY <1>2, ServerFrame
  <2>4. Given' = Given
    BY <2>3 DEF Given, Verdict
  <2>5. QED
    BY <1>1, <2>2, <2>3, <2>4
<1>3. CASE SpawnReady
  BY <1>3, SpawnRefines
<1>4. ASSUME NEW t \in Tasks, JoinReport(t) \/ JoinPanic(t)
      PROVE  [Contract!Next]_(Contract!vars)
  <2>1. cancelled' = cancelled \/ cancelled' = TRUE
    BY <1>4 DEF JoinReport, JoinPanic, CancelSiblings, TypeOK
  <2>2. /\ UNCHANGED <<known, deps, barrier, pending, exec, sealed>>
        /\ pc = "join" /\ pc' = "spawn"
    BY <1>4 DEF JoinReport, JoinPanic
  <2>3. QED
    BY <1>1, <2>1, <2>2 DEF Given
<1>5. CASE NothingToJoin \/ NothingToRecv \/ Park \/ Deregister \/ Over \/ UNCHANGED vars
  <2>1. UNCHANGED <<known, deps, barrier, pending, exec, sealed, cancelled, allOk>>
    BY <1>5 DEF NothingToJoin, NothingToRecv, Park, Deregister, Over, vars, loopVars
  <2>2. pc \in {"deregister", "finished"} <=> pc' \in {"deregister", "finished"}
    BY <1>5 DEF NothingToJoin, NothingToRecv, Park, Deregister, Over, vars, loopVars
  <2>3. QED
    BY <1>1, <2>1, <2>2 DEF Given, Verdict
<1>6. CASE RecvTasks
  BY <1>6, RecvRefines
<1>7. CASE RecvSeal
  <2>1. /\ \A t \in Tasks : PhaseOf(t)' = PhaseOf(t) /\ Blockers(t)' = Blockers(t)
        /\ sealed' = TRUE /\ UNCHANGED <<cancelled, Given>>
    BY <1>7 DEF RecvSeal, PhaseOf, Blockers, Given, Verdict
  <2>2. /\ [t \in Tasks |-> PhaseOf(t)'] = [t \in Tasks |-> PhaseOf(t)]
        /\ [t \in Tasks |-> Blockers(t)'] = [t \in Tasks |-> Blockers(t)]
    BY <2>1
  <2>3. Contract!Close
    BY <2>1, <2>2 DEF Contract!Close
  <2>4. QED
    BY <2>3 DEF Contract!Next
<1>8. CASE Cancelled
  BY <1>8, CancelledRefines
<1>9. CASE Finalize
  BY <1>9, FinalizeRefines
<1>10. ASSUME NEW t \in Tasks, TaskStep(t) PROVE [Contract!Next]_(Contract!vars)
  BY <1>10, TaskRefines
<1>11. QED
  BY <1>2, <1>3, <1>4, <1>5, <1>6, <1>7, <1>8, <1>9, <1>10 DEF Next, Loop

\* The select loop, the channel and the handlers implement the abstract run:
\* admission while open, starts only on done needs, one verdict at the end.
THEOREM Refinement == Spec => ImplementsContract
<1>1. Init => Contract!Init
  BY InitTyped, InitRefines
<1>2. QED
  BY <1>1, NextRefines, Invariance, PTL DEF Spec, ImplementsContract, Contract!Spec

-----------------------------------------------------------------------------
(* What the run inherits from RunContract *)

Kept == INSTANCE RunContract_proofs WITH
    phase    <- [t \in Tasks |-> PhaseOf(t)],
    needs    <- [t \in Tasks |-> Blockers(t)],
    open     <- ~sealed,
    stopping <- cancelled,
    verdict  <- Given

\* A served run, whatever the handlers send it: no task works before what blocks
\* it is done, the verdict covers all that was taken from the channel, and
\* nothing moves behind it.
THEOREM RunKeepsContract ==
  Spec => []Kept!NeedsAreDone /\ []Kept!VerdictCovers /\ Kept!VerdictIsLast /\ Kept!OutcomesStay
<1>1. Contract!Init => Kept!Init
  BY DEF Contract!Init, Kept!Init
<1>2. [Contract!Next]_(Contract!vars) => [Kept!Next]_(Kept!vars)
  BY DEF Contract!Next, Kept!Next, Contract!vars, Kept!vars, Contract!Admit, Kept!Admit,
     Contract!Start, Kept!Start, Contract!Settle, Kept!Settle, Contract!Close, Kept!Close,
     Contract!Stop, Kept!Stop, Contract!Abandon, Kept!Abandon, Contract!Conclude, Kept!Conclude,
     Contract!Outcomes, Kept!Outcomes, Contract!Live, Kept!Live
<1>3. Contract!Spec => Kept!Spec
  BY <1>1, <1>2, PTL DEF Contract!Spec, Kept!Spec
<1>4. QED
  BY <1>3, Refinement, Kept!NeedsAreMet, Kept!VerdictsCover, Kept!VerdictsAreLast,
     Kept!NothingIsUndone DEF ImplementsContract

-----------------------------------------------------------------------------
(* Every task implements TaskContract *)

\* What the abstract task is made of stays, or its run is stopped.
LEMMA TaskStutter ==
  ASSUME NEW t \in Tasks, WorkOf(t)' = WorkOf(t), meta'[t] = meta[t],
         cancelled' = cancelled \/ cancelled' = TRUE
  PROVE  [Task(t)!Next]_(Task(t)!vars)
<1>1. CASE cancelled' = cancelled
  BY <1>1 DEF Task!vars
<1>2. CASE cancelled' = TRUE
  BY <1>2 DEF Task!Next, Task!Stop
<1>3. QED
  BY <1>1, <1>2

\* A task of the configuration has its Pending file; the others have none.
LEMMA InitTasks == Init => \A t \in Tasks : Task(t)!Init
BY DEF Init, Task!Init, WorkOf

\* Spawning is not yet work: run_task has not been polled.
LEMMA SpawnTask ==
  ASSUME IInv, SpawnReady, NEW t \in Tasks
  PROVE  [Task(t)!Next]_(Task(t)!vars)
<1>1. exec'[t] = exec[t] \/ (exec[t] = "idle" /\ exec'[t] = "spawned")
  BY DEF SpawnReady, ReadyTasks, IInv, TaskInv, TypeOK
<1>2. UNCHANGED <<meta, cancelled>>
  BY DEF SpawnReady, fileVars
<1>3. QED
  BY <1>1, <1>2, TaskStutter DEF WorkOf

\* A received task is announced, unless its save fails; a known one is left alone.
LEMMA RecvTask ==
  ASSUME IInv, RecvTasks, NEW t \in Tasks
  PROVE  [Task(t)!Next]_(Task(t)!vars)
<1>. DEFINE new == NewNames(Head(chan))
<1>1. new \in SUBSET Tasks /\ new \cap known = {} /\ Save(new, "pending")
  BY RecvEffect DEF IInv
<1>2. UNCHANGED <<exec, cancelled>>
  BY DEF RecvTasks
<1>. HIDE DEF new
<1>3. meta'[t] = meta[t] \/ (t \in new /\ meta'[t] = "pending")
  BY <1>1, SaveEffect DEF IInv
<1>4. CASE meta'[t] = meta[t]
  BY <1>2, <1>4, TaskStutter DEF WorkOf
<1>5. CASE t \in new /\ meta'[t] = "pending"
  <2>1. t \notin known /\ t \notin unsaved /\ exec[t] = "idle"
    BY <1>1, <1>5 DEF IInv, TaskInv, FileInv
  <2>2. meta[t] = "absent"
    BY <2>1 DEF IInv, FileInv, Due
  <2>3. Task(t)!Announce
    BY <1>2, <1>5, <2>1, <2>2 DEF Task!Announce, WorkOf
  <2>4. QED
    BY <2>3 DEF Task!Next
<1>6. QED
  BY <1>3, <1>4, <1>5

\* What is given up has never been spawned; its file may lag behind.
LEMMA CancelledTask ==
  ASSUME IInv, Cancelled, NEW t \in Tasks
  PROVE  [Task(t)!Next]_(Task(t)!vars)
<1>1. cancelled /\ UNCHANGED <<exec, cancelled>> /\ Save(pending, "cancelled")
  BY DEF Cancelled
<1>2. meta'[t] = meta[t] \/ (t \in pending /\ meta'[t] = "cancelled")
  BY <1>1, SaveEffect DEF IInv, TypeOK, Terminal
<1>3. CASE meta'[t] = meta[t]
  BY <1>1, <1>3, TaskStutter DEF WorkOf
<1>4. CASE t \in pending /\ meta'[t] = "cancelled"
  <2>1. t \in known /\ exec[t] = "idle"
    BY <1>4 DEF IInv, TaskInv
  <2>2. meta[t] \notin Terminal
    BY <1>4, <2>1 DEF IInv, FileInv, Due, Terminal
  <2>3. Task(t)!GiveUp
    BY <1>1, <1>4, <2>1, <2>2 DEF Task!GiveUp, Task!Verdicts, WorkOf, Terminal
  <2>4. QED
    BY <2>3 DEF Task!Next
<1>5. QED
  BY <1>2, <1>3, <1>4

\* The task's own steps are the ones the contract names.
LEMMA OwnTask ==
  ASSUME IInv, NEW t \in Tasks, TaskStep(t)
  PROVE  Task(t)!Next
<1>1. cancelled' = cancelled
  BY TaskFrame
<1>2. CASE TaskStart(t)
  <2>1. exec[t] = "spawned" /\ exec'[t] = "live" /\ Save({t}, "running")
    BY <1>2 DEF TaskStart, IInv, TypeOK
  <2>2. meta'[t] = "running" \/ meta'[t] = meta[t]
    BY <2>1, SaveEffect DEF IInv
  <2>3. meta[t] \notin Terminal
    BY <2>1 DEF IInv, FileInv, Due, Terminal
  <2>4. Task(t)!Start
    BY <1>1, <2>1, <2>2, <2>3 DEF Task!Start, Task!Verdicts, WorkOf, Terminal
  <2>5. QED
    BY <2>4 DEF Task!Next
<1>3. ASSUME NEW r \in Terminal, TaskEnd(t, r) PROVE Task(t)!Next
  <2>1. exec[t] = "live" /\ exec'[t] = r /\ Save({t}, r) /\ (r = "cancelled" => cancelled)
    BY <1>3 DEF TaskEnd, IInv, TypeOK
  <2>2. meta'[t] = r \/ meta'[t] = meta[t]
    BY <2>1, SaveEffect DEF IInv
  <2>3. r \in Task(t)!Verdicts /\ r \notin {"spawned", "live"}
    BY <1>3 DEF Terminal, Task!Verdicts
  <2>4. Task(t)!End(r)
    BY <1>1, <2>1, <2>2, <2>3 DEF Task!End, WorkOf
  <2>5. QED
    BY <2>3, <2>4 DEF Task!Next
<1>4. CASE TaskPanic(t)
  <2>1. exec[t] = "live" /\ exec'[t] = "panicked" /\ meta' = meta
    BY <1>4 DEF TaskPanic, fileVars, IInv, TypeOK
  <2>2. Task(t)!Panic
    BY <1>1, <2>1 DEF Task!Panic, WorkOf
  <2>3. QED
    BY <2>2 DEF Task!Next
<1>5. QED
  BY <1>2, <1>3, <1>4 DEF TaskStep, TaskFinishes

\* Every step of the run is, for every task, a step of its contract or none.
LEMMA NextTasks ==
  ASSUME IInv, [Next]_vars, NEW t \in Tasks
  PROVE  [Task(t)!Next]_(Task(t)!vars)
\* A step that is nobody's work and saves no file.
<1>1. ASSUME UNCHANGED <<exec, meta>>, cancelled' = cancelled \/ cancelled' = TRUE
      PROVE  [Task(t)!Next]_(Task(t)!vars)
  BY <1>1, TaskStutter DEF WorkOf
<1>2. CASE Server
  <2>1. cancelled' \in BOOLEAN /\ (cancelled => cancelled') /\ UNCHANGED <<exec, meta>>
    BY <1>2, ServerTyped, ServerFrame DEF TypeOK, IInv
  <2>2. QED
    BY <1>1, <2>1 DEF IInv, TypeOK
<1>3. ASSUME NEW u \in Tasks, JoinReport(u) \/ JoinPanic(u)
      PROVE  [Task(t)!Next]_(Task(t)!vars)
  <2>1. cancelled' = cancelled \/ cancelled' = TRUE
    BY <1>3 DEF JoinReport, JoinPanic, CancelSiblings, IInv, TypeOK
  <2>2. QED
    BY <1>1, <1>3, <2>1 DEF JoinReport, JoinPanic, fileVars
<1>4. CASE NothingToJoin \/ NothingToRecv \/ Park \/ RecvSeal \/ Finalize \/ Deregister
           \/ Over \/ UNCHANGED vars
  BY <1>1, <1>4 DEF NothingToJoin, NothingToRecv, Park, RecvSeal, Finalize, Deregister, Over,
     vars, fileVars
<1>5. ASSUME NEW u \in Tasks, TaskStep(u) PROVE [Task(t)!Next]_(Task(t)!vars)
  <2>1. CASE u = t
    BY <1>5, <2>1, OwnTask
  <2>2. CASE u # t
    <3>1. exec'[t] = exec[t] /\ cancelled' = cancelled
      BY <1>5, <2>2, TaskFrame DEF TaskStep, TaskFinishes, TaskStart, TaskEnd, TaskPanic, IInv, TypeOK
    <3>2. meta'[t] = meta[t]
      <4>1. ASSUME NEW v \in {"running"} \cup Terminal, Save({u}, v) PROVE meta'[t] = meta[t]
        <5>1. {u} \in SUBSET Tasks /\ v \in {"pending", "running"} \cup Terminal /\ TypeOK
          BY <4>1 DEF IInv
        <5>2. \A w \in Tasks \ {u} : meta'[w] = meta[w]
          BY <4>1, <5>1, SaveEffect
        <5>3. QED
          BY <2>2, <5>2
      <4>2. QED
        BY <1>5, <4>1 DEF TaskStep, TaskFinishes, TaskStart, TaskEnd, TaskPanic, fileVars
    <3>3. QED
      BY <3>1, <3>2, TaskStutter DEF WorkOf
  <2>3. QED
    BY <2>1, <2>2
<1>6. QED
  BY <1>2, <1>3, <1>4, <1>5, SpawnTask, RecvTask, CancelledTask DEF Next, Loop

\* In a served run every task keeps the contract that run_task is proved to
\* keep: started or given up, never both and never twice, and a verdict in its
\* file is the last word.
THEOREM TasksRefinement == Spec => ImplementsTasks
<1>1. IInv /\ [Next]_vars => [\A t \in Tasks : [Task(t)!Next]_(Task(t)!vars)]_vars
  BY NextTasks
<1>2. QED
  BY InitTasks, <1>1, Invariance, PTL DEF Spec, ImplementsTasks
=============================================================================
