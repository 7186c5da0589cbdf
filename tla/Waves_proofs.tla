---------------------------- MODULE Waves_proofs ----------------------------
(***************************************************************************)
(* The planner and the executor of `codex-par run`, for every configuration *)
(* of every set of tasks: the plan, the order of execution, what is left   *)
(* on disk, and the refinement of RunContract.                             *)
(***************************************************************************)
EXTENDS Waves, WellFoundedInduction, TLAPS

\* One-line operators of the actions are always read as what they stand for.
USE DEF Skipping, Reason, StillOk, WaveOver, NextWave

-----------------------------------------------------------------------------
(* The inductive invariant, in its parts *)

\* The waves partition the placed tasks, and every task comes after its
\* dependencies; what is executed is everything.
PlanInv ==
    /\ placed = Tasks \ remaining
    /\ \A t \in Tasks : t \in placed <=> \E i \in 1..Len(waves) : t \in waves[i]
    /\ \A i \in 1..Len(waves) : waves[i] # {}
    /\ \A i, j \in 1..Len(waves) : \A t \in waves[i] : t \in waves[j] => i = j
    /\ \A i \in 1..Len(waves) : \A t \in waves[i] : \A d \in deps[t] :
          \E j \in 1..i - 1 : d \in waves[j]
    /\ Planned => remaining = {}
    /\ pc \notin {"validate", "rejected"} => \A t \in Tasks : deps[t] \subseteq Tasks
    /\ pc = "rejected" => ~Orderable

\* A task is in no later wave than it must: one it depends on is in the wave
\* before, and what remains waits for something that is not placed before the
\* last wave.
TightInv ==
    /\ \A i \in 2..Len(waves) : \A t \in waves[i] : deps[t] \cap waves[i - 1] # {}
    /\ waves # <<>> => \A t \in remaining : ~(deps[t] \subseteq placed \ waves[Len(waves)])

\* Nothing is executed before the plan is complete.
IdleInv ==
    ~Planned =>
        /\ idx = 1 /\ joinset = {} /\ reported = {}
        /\ ~waveFailed /\ allOk /\ ~cancel
        /\ \A t \in Tasks : exec[t] = "idle" /\ meta[t] = "absent" /\ reason[t] = "none"

\* A wave the executor has not started.
Ahead(i) == idx < i \/ (i = idx /\ pc # "join")

\* A wave the executor has passed.
Behind(t) == \E i \in 1..idx - 1 : t \in waves[i]

\* What became of the tasks of the waves behind, of the wave under way, and of
\* the waves ahead, and which flags that has set.
WaveInv ==
    /\ pc # "join" => joinset = {}
    /\ pc = "join" =>
         /\ idx <= Len(waves) /\ joinset \subseteq waves[idx]
         /\ \A t \in waves[idx] : exec[t] # "idle"
         /\ \A t \in waves[idx] \ (joinset \cup reported) : exec[t] = "panicked" /\ waveFailed
    /\ pc = "finished" => idx > Len(waves)
    /\ \A t \in reported : exec[t] \in Terminal
    /\ \A t \in joinset : exec[t] # "idle" /\ t \notin reported
    /\ \A t \in Tasks : exec[t] \in {"spawned", "live"} => t \in joinset
    /\ \A t \in Tasks : exec[t] = "cancelled" => cancel
    /\ \A t \in Tasks \ joinset : exec[t] \in {"failed", "panicked"} => waveFailed
    /\ \A t \in Tasks \ joinset : exec[t] = "cancelled" => ~allOk
    /\ waveFailed => ~allOk
    /\ Skipped => ~allOk /\ (waveFailed \/ cancel)
    /\ \A i \in 1..Len(waves) : \A t \in waves[i] :
         Ahead(i) => exec[t] = "idle" /\ reason[t] = "none"

\* What a task's file says when every save succeeds.
Due(t) ==
    IF ~Planned THEN "absent"
    ELSE IF exec[t] = "idle" THEN IF Behind(t) THEN "cancelled" ELSE "pending"
    ELSE IF exec[t] = "spawned" THEN "pending"
    ELSE IF exec[t] = "live" THEN "running"
    ELSE IF exec[t] = "panicked" THEN IF Behind(t) THEN "failed" ELSE "running"
    ELSE exec[t]

\* A file is up to date unless its last save failed, and a verdict in it is
\* the task's in any case.
FileInv ==
    /\ \A t \in Tasks : t \notin unsaved => meta[t] = Due(t)
    /\ \A t \in Tasks : meta[t] \in Terminal => meta[t] = Due(t)

\* Every flag that is set has a task to show for it.
BlameInv ==
    /\ ~allOk => Skipped \/ \E t \in Tasks : exec[t] \in {"failed", "cancelled", "panicked"}
    /\ waveFailed => \E j \in 1..Len(waves) : ~Ahead(j) /\ j <= idx
         /\ \E u \in waves[j] : exec[u] \in {"failed", "panicked"} /\ u \notin joinset
    /\ ReasonIsTrue

IInv ==
    /\ TypeOK /\ PlanInv /\ TightInv /\ IdleInv /\ WaveInv /\ FileInv /\ WavesInOrder
    /\ BlameInv

-----------------------------------------------------------------------------
(* Types *)

\* Each file of S is written, or its save fails; the others are left alone.
LEMMA SaveEffect ==
  ASSUME TypeOK, NEW S \in SUBSET Tasks, NEW v \in {"pending", "running"} \cup Terminal, Save(S, v)
  PROVE  /\ meta' \in [Tasks -> {"absent", "pending", "running"} \cup Terminal]
         /\ unsaved' \in SUBSET Fallible
         /\ \A t \in Tasks \ S : meta'[t] = meta[t] /\ (t \in unsaved' <=> t \in unsaved)
         /\ \A t \in S : \/ meta'[t] = v /\ t \notin unsaved'
                         \/ meta'[t] = meta[t] /\ t \in unsaved'
BY DEF TypeOK, Save

\* The configuration read at the start has the declared types.
LEMMA InitTyped == Init => TypeOK
<1>. SUFFICES ASSUME Init PROVE TypeOK
  OBVIOUS
<1>1. waves \in Seq(SUBSET Tasks) /\ Len(waves) = 0
  BY DEF Init
<1>2. idx \in 1..Len(waves) + 1
  BY <1>1 DEF Init
<1>3. /\ exec \in [Tasks -> {"idle", "spawned", "live"} \cup Ended]
      /\ meta \in [Tasks -> {"absent", "pending", "running"} \cup Terminal]
  BY DEF Init, Ended, Terminal
<1>4. QED
  BY <1>1, <1>2, <1>3 DEF Init, TypeOK

\* Planning keeps the types: a wave is a set of tasks.
LEMMA PlanTyped == ASSUME TypeOK, Plan PROVE TypeOK'
<1>. USE DEF TypeOK, execVars, fileVars
<1>1. CASE Validate \/ RejectCycle
  BY <1>1 DEF Validate, RejectCycle, planVars
<1>2. CASE PlaceWave
  <2>1. Ready \in SUBSET Tasks
    BY DEF Ready
  <2>2. waves' \in Seq(SUBSET Tasks) /\ Len(waves') = Len(waves) + 1
    BY <1>2, <2>1 DEF PlaceWave
  <2>3. QED
    BY <1>2, <2>1, <2>2 DEF PlaceWave
<1>3. CASE Launch
  BY <1>3, SaveEffect DEF Launch, planVars
<1>4. QED
  BY <1>1, <1>2, <1>3 DEF Plan

\* Execution keeps the types: the executor never passes the end of the waves.
LEMMA ExecuteTyped == ASSUME TypeOK, WaveInv, Execute PROVE TypeOK'
<1>. USE DEF TypeOK, planVars, execVars, fileVars, Ended
<1>1. CASE StartWave
  BY <1>1 DEF StartWave
<1>2. CASE SkipWave
  <2>1. Reason \in {"user", "failure"}
    OBVIOUS
  <2>2. reason' \in [Tasks -> {"none", "user", "failure"}]
    BY <1>2, <2>1 DEF SkipWave
  <2>3. idx' \in 1..Len(waves') + 1
    BY <1>2 DEF SkipWave
  <2>4. meta' \in [Tasks -> {"absent", "pending", "running"} \cup Terminal] /\ unsaved' \in SUBSET Fallible
    BY <1>2, SaveEffect DEF SkipWave, Terminal
  <2>5. QED
    BY <1>2, <2>2, <2>3, <2>4 DEF SkipWave
<1>3. CASE EndWave
  <2>1. idx \in 1..Len(waves) /\ Repaired \in SUBSET Tasks
    BY <1>3 DEF EndWave, WaveInv, Repaired, Unreported
  <2>2. meta' \in [Tasks -> {"absent", "pending", "running"} \cup Terminal] /\ unsaved' \in SUBSET Fallible
    BY <1>3, <2>1, SaveEffect DEF EndWave, Terminal
  <2>3. QED
    BY <1>3, <2>1, <2>2 DEF EndWave
<1>4. CASE Finish
  BY <1>4 DEF Finish
<1>5. ASSUME NEW t \in Tasks, JoinReport(t) \/ JoinPanic(t) PROVE TypeOK'
  BY <1>5 DEF JoinReport, JoinPanic
<1>6. QED
  BY <1>1, <1>2, <1>3, <1>4, <1>5 DEF Execute

\* A spawned task keeps the types.
LEMMA TaskTyped == ASSUME TypeOK, NEW t \in Tasks, TaskStep(t) PROVE TypeOK'
<1>. USE DEF TypeOK, planVars, execVars, fileVars, Ended
<1>1. CASE TaskStart(t)
  BY <1>1, SaveEffect DEF TaskStart
<1>2. ASSUME NEW r \in Terminal, TaskEnd(t, r) PROVE TypeOK'
  <2>1. meta' \in [Tasks -> {"absent", "pending", "running"} \cup Terminal] /\ unsaved' \in SUBSET Fallible
    BY <1>2, SaveEffect DEF TaskEnd
  <2>2. QED
    BY <1>2, <2>1 DEF TaskEnd
<1>3. CASE TaskPanic(t)
  BY <1>3 DEF TaskPanic
<1>4. QED
  BY <1>1, <1>2, <1>3 DEF TaskStep

\* No step leaves the types.
LEMMA NextTyped == TypeOK /\ WaveInv /\ [Next]_vars => TypeOK'
<1>. SUFFICES ASSUME TypeOK, WaveInv, [Next]_vars PROVE TypeOK'
  OBVIOUS
<1>1. CASE Plan
  BY <1>1, PlanTyped
<1>2. CASE Execute
  BY <1>2, ExecuteTyped
<1>3. ASSUME NEW t \in Tasks, TaskStep(t) PROVE TypeOK'
  BY <1>3, TaskTyped
<1>4. CASE Interrupt
  BY <1>4 DEF Interrupt, TypeOK, planVars, execVars, fileVars
<1>5. CASE Over \/ UNCHANGED vars
  BY <1>5 DEF Over, vars, TypeOK, planVars, execVars, fileVars
<1>6. QED
  BY <1>1, <1>2, <1>3, <1>4, <1>5 DEF Next

-----------------------------------------------------------------------------
(* The plan *)

\* What a step of Kahn's loop does to the sequence of waves.
LEMMA PlaceEffect ==
  ASSUME TypeOK, PlaceWave
  PROVE  /\ Ready \in SUBSET remaining /\ Ready # {}
         /\ \A t \in Ready : deps[t] \subseteq placed
         /\ Len(waves) \in Nat /\ Len(waves') = Len(waves) + 1
         /\ \A i \in 1..Len(waves) : waves'[i] = waves[i]
         /\ waves'[Len(waves) + 1] = Ready
<1>1. Ready \in SUBSET remaining /\ \A t \in Ready : deps[t] \subseteq placed
  BY DEF Ready, TypeOK
<1>2. Ready \in SUBSET Tasks
  BY <1>1 DEF TypeOK
<1>. HIDE DEF Ready
<1>3. QED
  BY <1>1, <1>2 DEF PlaceWave, TypeOK

\* Before the first wave is placed.
LEMMA InitPlan == Init => PlanInv
BY DEF Init, PlanInv, Planned

\* A new wave is new, its dependencies are in the waves before it.
LEMMA PlacePlan == ASSUME TypeOK, PlanInv, PlaceWave PROVE PlanInv'
<1>. DEFINE n == Len(waves)
<1>1. /\ Ready \in SUBSET remaining /\ Ready # {}
      /\ \A t \in Ready : deps[t] \subseteq placed
      /\ n \in Nat /\ Len(waves') = n + 1
      /\ \A i \in 1..n : waves'[i] = waves[i]
      /\ waves'[n + 1] = Ready
  BY PlaceEffect
<1>2. 1..n + 1 = 1..n \cup {n + 1} /\ n + 1 \notin 1..n
  BY <1>1
<1>3. /\ remaining \in SUBSET Tasks /\ placed \in SUBSET Tasks
      /\ placed' = placed \cup Ready /\ remaining' = remaining \ Ready
      /\ deps' = deps /\ pc' = pc /\ pc = "plan" /\ deps \in [Tasks -> SUBSET Names]
  BY DEF TypeOK, PlaceWave, execVars, fileVars
<1>. HIDE DEF n
<1>4. placed' = Tasks \ remaining'
  BY <1>1, <1>3 DEF PlanInv
<1>5. \A t \in Tasks : t \in placed' <=> \E i \in 1..n + 1 : t \in waves'[i]
  BY <1>1, <1>2, <1>3 DEF PlanInv, n
<1>6. \A i \in 1..n + 1 : waves'[i] # {}
  BY <1>1, <1>2 DEF PlanInv, n
<1>7. \A i, j \in 1..n + 1 : \A t \in waves'[i] : t \in waves'[j] => i = j
  <2>1. \A i \in 1..n : waves[i] \subseteq placed
    BY <1>3, <1>1 DEF PlanInv, n, TypeOK
  <2>2. Ready \cap placed = {}
    BY <1>1, <1>3 DEF PlanInv
  <2>3. \A i, j \in 1..n : \A t \in waves[i] : t \in waves[j] => i = j
    BY DEF PlanInv, n
  <2>4. QED
    BY <1>1, <1>2, <2>1, <2>2, <2>3
<1>8. \A i \in 1..n + 1 : \A t \in waves'[i] : \A d \in deps[t] : \E j \in 1..i - 1 : d \in waves'[j]
  <2>1. ASSUME NEW i \in 1..n, NEW t \in waves'[i], NEW d \in deps[t]
        PROVE  \E j \in 1..i - 1 : d \in waves'[j]
    <3>1. PICK j \in 1..i - 1 : d \in waves[j]
      BY <2>1, <1>1 DEF PlanInv, n
    <3>2. j \in 1..n
      BY <1>1
    <3>3. QED
      BY <1>1, <3>1, <3>2
  <2>2. ASSUME NEW t \in Ready, NEW d \in deps[t] PROVE \E j \in 1..n : d \in waves'[j]
    <3>1. d \in placed /\ d \in Tasks
      BY <1>1, <1>3, <2>2
    <3>2. PICK j \in 1..n : d \in waves[j]
      BY <3>1 DEF PlanInv, n
    <3>3. QED
      BY <1>1, <3>2
  <2>3. (n + 1) - 1 = n
    BY <1>1
  <2>4. QED
    BY <1>1, <1>2, <2>1, <2>2, <2>3
<1>9. pc' # "rejected" /\ ~Planned' /\ \A t \in Tasks : deps'[t] \subseteq Tasks
  BY <1>3 DEF PlanInv, Planned
<1>10. QED
  BY <1>1, <1>3, <1>4, <1>5, <1>6, <1>7, <1>8, <1>9 DEF PlanInv

\* Every step keeps the plan sound, and only a cycle or an unknown name is
\* rejected.
LEMMA NextPlan == TypeOK /\ PlanInv /\ [Next]_vars => PlanInv'
<1>. SUFFICES ASSUME TypeOK, PlanInv, [Next]_vars PROVE PlanInv'
  OBVIOUS
<1>1. CASE Validate
  BY <1>1 DEF Validate, PlanInv, Planned, Orderable, planVars
<1>2. CASE PlaceWave
  BY <1>2, PlacePlan
<1>3. CASE RejectCycle
  <2>1. remaining \in SUBSET Tasks /\ remaining # {}
    BY <1>3 DEF RejectCycle, TypeOK
  <2>2. \A t \in remaining : deps[t] \cap remaining # {}
    BY <1>3 DEF RejectCycle, Ready, PlanInv, TypeOK
  <2>3. ~Acyclic(Tasks, deps)
    BY <2>1, <2>2 DEF Acyclic
  <2>4. QED
    BY <1>3, <2>3 DEF RejectCycle, PlanInv, Planned, Orderable, planVars
<1>4. CASE Launch
  BY <1>4 DEF Launch, PlanInv, Planned, planVars
<1>5. CASE UNCHANGED planVars /\ pc' \in {pc, "wave", "join", "finished"}
            /\ (Planned <=> Planned')
  BY <1>5 DEF PlanInv, Planned, Orderable, planVars
<1>6. CASE Execute \/ Interrupt \/ Over \/ UNCHANGED vars \/ \E t \in Tasks : TaskStep(t)
  BY <1>5, <1>6 DEF Execute, StartWave, SkipWave, EndWave, Finish, JoinReport, JoinPanic,
     Interrupt, Over, vars, TaskStep, TaskStart, TaskEnd, TaskPanic, Planned
<1>7. QED
  BY <1>1, <1>2, <1>3, <1>4, <1>6 DEF Next, Plan

\* Before the first wave nothing has to be tight.
LEMMA InitTight == Init => TightInv
BY DEF Init, TightInv

\* What the loop places now could not be placed a round ago, so it depends on
\* the wave of that round; what it leaves waits for more than is placed now.
LEMMA PlaceTight == ASSUME TypeOK, PlanInv, TightInv, PlaceWave PROVE TightInv'
<1>. DEFINE n == Len(waves)
<1>1. /\ Ready \in SUBSET remaining /\ \A t \in Ready : deps[t] \subseteq placed
      /\ n \in Nat /\ Len(waves') = n + 1
      /\ \A i \in 1..n : waves'[i] = waves[i]
      /\ waves'[n + 1] = Ready
  BY PlaceEffect
<1>2. /\ placed' = placed \cup Ready /\ remaining' = remaining \ Ready /\ deps' = deps
      /\ placed = Tasks \ remaining /\ remaining \in SUBSET Tasks
  BY DEF TypeOK, PlaceWave, PlanInv
<1>3. waves # <<>> <=> n # 0
  BY DEF TypeOK
<1>4. ASSUME n # 0, NEW t \in Ready PROVE deps[t] \cap waves[n] # {}
  <2>1. ~(deps[t] \subseteq placed \ waves[n])
    BY <1>1, <1>3, <1>4 DEF TightInv
  <2>2. QED
    BY <1>1, <2>1
<1>5. \A t \in remaining' : ~(deps'[t] \subseteq placed' \ waves'[n + 1])
  <2>1. placed' \ Ready = placed
    BY <1>1, <1>2
  <2>2. \A t \in remaining \ Ready : ~(deps[t] \subseteq placed)
    BY DEF Ready
  <2>3. QED
    BY <1>1, <1>2, <2>1, <2>2
<1>6. ASSUME NEW i \in 2..n + 1, NEW t \in waves'[i] PROVE deps'[t] \cap waves'[i - 1] # {}
  <2>1. CASE i = n + 1
    <3>1. n # 0 /\ i - 1 = n /\ n \in 1..n
      BY <1>1, <2>1
    <3>2. QED
      BY <1>1, <1>2, <1>4, <1>6, <2>1, <3>1
  <2>2. CASE i # n + 1
    <3>1. i \in 2..n /\ i \in 1..n /\ i - 1 \in 1..n
      BY <1>1, <2>2
    <3>2. deps[t] \cap waves[i - 1] # {}
      BY <1>1, <1>6, <3>1 DEF TightInv
    <3>3. QED
      BY <1>1, <1>2, <3>1, <3>2
  <2>3. QED
    BY <2>1, <2>2
<1>7. QED
  BY <1>1, <1>5, <1>6 DEF TightInv

\* Nothing but the loop touches the plan.
LEMMA NextTight == TypeOK /\ PlanInv /\ TightInv /\ [Next]_vars => TightInv'
<1>. SUFFICES ASSUME TypeOK, PlanInv, TightInv, [Next]_vars PROVE TightInv'
  OBVIOUS
<1>1. CASE PlaceWave
  BY <1>1, PlaceTight
<1>2. CASE UNCHANGED planVars
  BY <1>2 DEF TightInv, planVars
<1>3. CASE ~PlaceWave
  BY <1>2, <1>3 DEF Next, Plan, Validate, RejectCycle, Launch, Execute, StartWave, SkipWave,
     EndWave, Finish, JoinReport, JoinPanic, Interrupt, Over, vars, TaskStep, TaskStart, TaskEnd,
     TaskPanic
<1>4. QED
  BY <1>1, <1>3

\* A non-empty set of numbers has a least one.
LEMMA LeastNumber ==
  ASSUME NEW S \in SUBSET Nat, S # {}
  PROVE  \E m \in S : \A k \in S : m <= k
<1>1. PICK m \in S : \A k \in S : ~(<<k, m>> \in OpToRel(<, Nat))
  BY NatLessThanWellFounded, WFMin
<1>2. \A k \in S : ~(k < m)
  BY <1>1 DEF OpToRel
<1>3. QED
  BY <1>2

-----------------------------------------------------------------------------
(* The execution *)

\* Nothing runs before Launch.
LEMMA InitIdle == Init => IdleInv
BY DEF Init, IdleInv

\* Planning starts nothing.
LEMMA NextIdle == IdleInv /\ WaveInv /\ [Next]_vars => IdleInv'
<1>. SUFFICES ASSUME IdleInv, WaveInv, [Next]_vars, ~Planned' PROVE IdleInv'
  BY DEF IdleInv
<1>. USE DEF IdleInv, Planned, planVars, execVars, fileVars
<1>1. CASE Plan
  BY <1>1 DEF Plan, Validate, PlaceWave, RejectCycle, Launch
<1>2. CASE Execute
  BY <1>2 DEF Execute, StartWave, SkipWave, EndWave, Finish, JoinReport, JoinPanic
<1>3. ASSUME NEW t \in Tasks, TaskStep(t) PROVE IdleInv'
  BY <1>3 DEF TaskStep, TaskStart, TaskEnd, TaskPanic
<1>4. CASE Interrupt \/ Over \/ UNCHANGED vars
  BY <1>4 DEF Interrupt, Over, vars
<1>5. QED
  BY <1>1, <1>2, <1>3, <1>4 DEF Next

\* The execution invariant holds before there is a plan.
LEMMA InitWave == Init => WaveInv
BY DEF Init, WaveInv, Skipped

\* Every step of the planner, the executor, the user and the tasks keeps it.
LEMMA NextWaveInv == TypeOK /\ PlanInv /\ IdleInv /\ WaveInv /\ [Next]_vars => WaveInv'
<1>. SUFFICES ASSUME TypeOK, PlanInv, IdleInv, WaveInv, [Next]_vars PROVE WaveInv'
  OBVIOUS
<1>0. Len(waves) \in Nat /\ idx \in Nat \ {0} /\ \A i \in 1..Len(waves) : waves[i] \in SUBSET Tasks
  BY DEF TypeOK
<1>. USE DEF Skipped
<1>1. CASE Validate \/ RejectCycle
  BY <1>1 DEF Validate, RejectCycle, WaveInv, Ahead, planVars, execVars, fileVars
<1>2. CASE PlaceWave
  <2>1. Len(waves') = Len(waves) + 1 /\ idx = 1 /\ pc = "plan"
    BY <1>2, PlaceEffect DEF IdleInv, PlaceWave, Planned
  <2>2. \A t \in Tasks : exec[t] = "idle" /\ meta[t] = "absent" /\ reason[t] = "none"
    BY <2>1 DEF IdleInv, Planned
  <2>3. \A i \in 1..Len(waves') : waves'[i] \in SUBSET Tasks
    BY <1>2, PlanTyped DEF TypeOK, Plan
  <2>4. QED
    BY <1>2, <2>1, <2>2, <2>3 DEF PlaceWave, WaveInv, Ahead, execVars, fileVars
<1>3. CASE Launch
  <2>1. \A t \in Tasks : exec[t] = "idle" /\ reason[t] = "none"
    BY <1>3 DEF IdleInv, Launch, Planned
  <2>2. idx = 1 /\ pc = "plan"
    BY <1>3 DEF IdleInv, Launch, Planned
  <2>3. QED
    BY <1>0, <1>3, <2>1, <2>2 DEF Launch, WaveInv, Ahead, planVars, execVars, Terminal
<1>4. CASE StartWave
  BY <1>0, <1>4 DEF StartWave, WaveInv, Ahead, PlanInv, TypeOK, planVars, fileVars, Terminal
<1>5. CASE SkipWave
  BY <1>0, <1>5 DEF SkipWave, WaveInv, Ahead, PlanInv, TypeOK, planVars, Terminal
<1>6. CASE EndWave
  BY <1>0, <1>6 DEF EndWave, Unreported, WaveInv, Ahead, PlanInv, TypeOK, planVars, Terminal
<1>7. CASE Finish
  BY <1>0, <1>7 DEF Finish, WaveInv, Ahead, planVars, execVars, fileVars
<1>8. ASSUME NEW t \in Tasks, JoinReport(t) PROVE WaveInv'
  BY <1>0, <1>8 DEF JoinReport, WaveInv, Ahead, TypeOK, planVars, fileVars, Terminal
<1>9. ASSUME NEW t \in Tasks, JoinPanic(t) PROVE WaveInv'
  BY <1>0, <1>9 DEF JoinPanic, WaveInv, Ahead, TypeOK, planVars, fileVars, Terminal
<1>10. ASSUME NEW t \in Tasks, TaskStep(t) PROVE WaveInv'
  BY <1>0, <1>10 DEF TaskStep, TaskStart, TaskEnd, TaskPanic, WaveInv, Ahead, PlanInv, TypeOK,
     planVars, execVars, fileVars, Terminal
<1>11. CASE Interrupt \/ Over \/ UNCHANGED vars
  BY <1>0, <1>11 DEF Interrupt, Over, vars, WaveInv, Ahead, planVars, execVars, fileVars
<1>12. QED
  BY <1>1, <1>2, <1>3, <1>4, <1>5, <1>6, <1>7, <1>8, <1>9, <1>10, <1>11 DEF Next, Plan, Execute

-----------------------------------------------------------------------------
(* The files *)

\* A step keeps the invariant when it leaves a file and what it should say
\* alone, saves what it should say, or fails to over no verdict.
LEMMA FileKept ==
  ASSUME FileInv,
         \A t \in Tasks :
           \/ meta'[t] = meta[t] /\ Due(t)' = Due(t) /\ (t \in unsaved' <=> t \in unsaved)
           \/ meta'[t] = Due(t)' /\ t \notin unsaved'
           \/ meta'[t] = meta[t] /\ meta[t] \notin Terminal /\ t \in unsaved'
  PROVE  FileInv'
BY DEF FileInv

\* Only the tasks in the files of S owe something new, and it is v.
LEMMA SaveKept ==
  ASSUME TypeOK, FileInv, NEW S \in SUBSET Tasks, NEW v \in {"pending", "running"} \cup Terminal,
         Save(S, v),
         \A t \in Tasks \ S : Due(t)' = Due(t),
         \A t \in S : Due(t)' = v /\ Due(t) \notin Terminal
  PROVE  FileInv'
<1>1. /\ \A t \in Tasks \ S : meta'[t] = meta[t] /\ (t \in unsaved' <=> t \in unsaved)
      /\ \A t \in S : \/ meta'[t] = v /\ t \notin unsaved'
                      \/ meta'[t] = meta[t] /\ t \in unsaved'
  BY SaveEffect
<1>2. \A t \in S : meta[t] \notin Terminal
  BY DEF FileInv
<1>3. QED
  BY <1>1, <1>2, FileKept

\* No file exists yet.
LEMMA InitFile == Init => FileInv
BY DEF Init, FileInv, Due, Planned, Terminal

\* When the executor passes a wave, its tasks are behind.
LEMMA PassWave ==
  ASSUME TypeOK, idx \in 1..Len(waves), idx' = idx + 1, waves' = waves, NEW t
  PROVE  Behind(t)' <=> Behind(t) \/ t \in waves[idx]
<1>1. 1..idx' - 1 = 1..idx - 1 \cup {idx}
  OBVIOUS
<1>2. QED
  BY <1>1 DEF Behind

\* Every step keeps the file invariant.
LEMMA NextFile ==
  TypeOK /\ PlanInv /\ IdleInv /\ WaveInv /\ FileInv /\ [Next]_vars => FileInv'
<1>. SUFFICES ASSUME TypeOK, PlanInv, IdleInv, WaveInv, FileInv, [Next]_vars PROVE FileInv'
  OBVIOUS
\* A step that saves nothing and changes nothing that files speak of.
<1>1. ASSUME UNCHANGED <<meta, unsaved>>, \A t \in Tasks : Due(t)' = Due(t) PROVE FileInv'
  BY <1>1, FileKept
<1>2. CASE Validate \/ PlaceWave \/ RejectCycle
  BY <1>1, <1>2 DEF Validate, PlaceWave, RejectCycle, fileVars, Due, Planned
<1>3. CASE Launch
  <2>1. \A t \in Tasks : Due(t) = "absent" /\ Due(t)' = "pending"
    BY <1>3 DEF Launch, IdleInv, Due, Behind, Planned, execVars
  <2>2. QED
    BY <1>3, <2>1, SaveKept DEF Launch, Terminal
<1>4. CASE StartWave
  <2>1. idx \in 1..Len(waves) /\ pc = "wave" /\ pc' = "join" /\ UNCHANGED <<idx, waves, meta, unsaved>>
        /\ \A t \in Tasks : exec'[t] = IF t \in waves[idx] THEN "spawned" ELSE exec[t]
    BY <1>4 DEF StartWave, TypeOK, planVars, fileVars
  <2>2. \A t \in waves[idx] : exec[t] = "idle" /\ ~Behind(t)
    BY <2>1 DEF WaveInv, Ahead, PlanInv, Behind, TypeOK
  <2>3. \A t \in Tasks : Due(t)' = Due(t)
    BY <2>1, <2>2 DEF Due, Planned, Behind
  <2>4. QED
    BY <1>1, <2>1, <2>3
<1>5. CASE SkipWave
  <2>1. /\ idx \in 1..Len(waves) /\ waves[idx] \in SUBSET Tasks /\ pc = "wave" /\ pc' = pc
        /\ idx' = idx + 1 /\ UNCHANGED <<waves, exec>> /\ Save(waves[idx], "cancelled")
    BY <1>5 DEF SkipWave, TypeOK, planVars
  <2>2. \A t \in Tasks : Behind(t)' <=> Behind(t) \/ t \in waves[idx]
    BY <2>1, PassWave
  <2>3. \A t \in waves[idx] : exec[t] = "idle" /\ ~Behind(t)
    BY <2>1 DEF WaveInv, Ahead, PlanInv, Behind, TypeOK
  <2>4. \A t \in waves[idx] : Due(t) = "pending" /\ Due(t)' = "cancelled"
    BY <2>1, <2>2, <2>3 DEF Due, Planned
  <2>5. \A t \in Tasks \ waves[idx] : Due(t)' = Due(t)
    BY <2>1, <2>2 DEF Due, Planned
  <2>6. QED
    BY <2>1, <2>4, <2>5, SaveKept DEF Terminal
<1>6. CASE EndWave
  <2>1. /\ idx \in 1..Len(waves) /\ waves[idx] \in SUBSET Tasks /\ pc = "join" /\ pc' = "wave"
        /\ idx' = idx + 1 /\ UNCHANGED <<waves, exec>> /\ Save(Repaired, "failed") /\ joinset = {}
    BY <1>6 DEF EndWave, WaveInv, TypeOK, planVars
  <2>2. \A t \in Tasks : Behind(t)' <=> Behind(t) \/ t \in waves[idx]
    BY <2>1, PassWave
  <2>3. \A t \in waves[idx] : /\ exec[t] # "idle" /\ ~Behind(t)
                              /\ exec[t] = "panicked" <=> t \in Unreported
    BY <2>1 DEF WaveInv, PlanInv, Behind, TypeOK, Unreported, Terminal
  <2>4. Unreported \in SUBSET waves[idx] /\ Repaired \in SUBSET Unreported
    BY DEF Unreported, Repaired
  <2>5. \A t \in Unreported : Due(t) = "running" /\ Due(t)' = "failed"
    BY <2>1, <2>2, <2>3, <2>4 DEF Due, Planned
  <2>6. \A t \in Tasks \ Unreported : Due(t)' = Due(t)
    BY <2>1, <2>2, <2>3 DEF Due, Planned
  <2>7. /\ \A t \in Tasks \ Repaired : meta'[t] = meta[t] /\ (t \in unsaved' <=> t \in unsaved)
        /\ \A t \in Repaired : \/ meta'[t] = "failed" /\ t \notin unsaved'
                               \/ meta'[t] = meta[t] /\ t \in unsaved'
    <3>1. Repaired \in SUBSET Tasks
      BY <2>1, <2>4
    <3>2. QED
      BY <2>1, <3>1, SaveEffect DEF Terminal
  <2>8. \A t \in Unreported \ Repaired : meta[t] = "absent" /\ t \in unsaved
    BY <2>1, <2>4, <2>5 DEF Repaired, FileInv
  <2>9. \A t \in Unreported : meta[t] \notin Terminal
    BY <2>1, <2>4, <2>5 DEF FileInv, Terminal
  <2>10. QED
    BY <2>1, <2>4, <2>5, <2>6, <2>7, <2>8, <2>9, FileKept DEF Terminal
<1>7. ASSUME NEW t \in Tasks, TaskStep(t) PROVE FileInv'
  <2>1. /\ exec[t] \in {"spawned", "live"} /\ UNCHANGED <<idx, waves, pc>>
        /\ \A u \in Tasks \ {t} : exec'[u] = exec[u]
    BY <1>7 DEF TaskStep, TaskStart, TaskEnd, TaskPanic, TypeOK, planVars, execVars
  <2>2. Planned /\ Planned'
    BY <2>1 DEF IdleInv, Planned
  <2>3. \A u \in Tasks : Behind(u)' <=> Behind(u)
    BY <2>1 DEF Behind
  <2>4. ~Behind(t)
    BY <2>1 DEF WaveInv, PlanInv, Behind, TypeOK
  <2>5. \A u \in Tasks \ {t} : Due(u)' = Due(u)
    BY <2>1, <2>2, <2>3 DEF Due
  <2>6. CASE TaskStart(t)
    <3>1. exec[t] = "spawned" /\ exec'[t] = "live" /\ Save({t}, "running")
      BY <2>6 DEF TaskStart, TypeOK
    <3>2. Due(t) = "pending" /\ Due(t)' = "running"
      BY <2>2, <3>1 DEF Due
    <3>3. QED
      BY <2>5, <3>1, <3>2, SaveKept DEF Terminal
  <2>7. ASSUME NEW r \in Terminal, TaskEnd(t, r) PROVE FileInv'
    <3>1. exec[t] = "live" /\ exec'[t] = r /\ Save({t}, r)
      BY <2>7 DEF TaskEnd, TypeOK
    <3>2. Due(t) = "running" /\ Due(t)' = r
      BY <2>2, <3>1 DEF Due, Terminal
    <3>3. QED
      BY <2>5, <3>1, <3>2, SaveKept DEF Terminal
  <2>8. CASE TaskPanic(t)
    <3>1. exec[t] = "live" /\ exec'[t] = "panicked" /\ UNCHANGED <<meta, unsaved>>
      BY <2>8 DEF TaskPanic, TypeOK, fileVars
    <3>2. Due(t) = "running" /\ Due(t)' = "running"
      BY <2>2, <2>3, <2>4, <3>1 DEF Due
    <3>3. QED
      BY <1>1, <2>5, <3>1, <3>2
  <2>9. QED
    BY <1>7, <2>6, <2>7, <2>8 DEF TaskStep
<1>8. ASSUME UNCHANGED <<meta, unsaved, exec, idx, waves>>, Planned' = Planned PROVE FileInv'
  BY <1>1, <1>8 DEF Due, Behind
<1>9. CASE Finish \/ Interrupt \/ Over \/ UNCHANGED vars \/ \E t \in Tasks : JoinReport(t) \/ JoinPanic(t)
  BY <1>8, <1>9 DEF Finish, Interrupt, Over, vars, JoinReport, JoinPanic, planVars, execVars,
     fileVars, Planned
<1>10. QED
  BY <1>2, <1>3, <1>4, <1>5, <1>6, <1>7, <1>9 DEF Next, Plan, Execute

-----------------------------------------------------------------------------
(* The order of execution *)

\* Nothing has started.
LEMMA InitInOrder == Init => WavesInOrder
BY DEF Init, WavesInOrder, Started

\* When a wave starts neither flag is set, so all waves behind it are done.
LEMMA StartInOrder ==
  ASSUME TypeOK, PlanInv, WaveInv, WavesInOrder, StartWave
  PROVE  WavesInOrder'
<1>0. /\ Len(waves) \in Nat /\ idx \in 1..Len(waves)
      /\ \A i \in 1..Len(waves) : waves[i] \in SUBSET Tasks
  BY DEF TypeOK, StartWave
<1>1. waves' = waves /\ ~waveFailed /\ ~cancel /\ joinset = {} /\ pc = "wave"
  BY DEF StartWave, planVars, WaveInv
<1>2. \A t \in Tasks : exec'[t] = IF t \in waves[idx] THEN "spawned" ELSE exec[t]
  BY DEF StartWave
<1>3. ASSUME NEW j \in 1..Len(waves), NEW u \in waves[j], j < idx PROVE exec[u] = "done"
  <2>1. u \in Tasks /\ exec[u] \in {"idle", "spawned", "live", "done", "failed", "cancelled",
                                    "panicked"}
    BY <1>0, <1>3 DEF TypeOK, Ended, Terminal
  <2>2. j \in 1..idx - 1 /\ ~Skipped
    BY <1>0, <1>1, <1>3 DEF WaveInv
  <2>3. exec[u] # "idle"
    BY <1>3, <2>2 DEF Skipped
  <2>4. QED
    BY <1>1, <2>1, <2>3 DEF WaveInv
<1>4. SUFFICES ASSUME NEW i \in 1..Len(waves), NEW j \in 1..Len(waves),
                      NEW t \in waves[i], NEW u \in waves[j], exec'[t] # "idle", j < i
               PROVE  exec'[u] = "done"
  BY <1>1 DEF WavesInOrder, Started
<1>5. i <= idx
  <2>1. CASE idx < i
    <3>1. exec[t] = "idle" /\ t \notin waves[idx] /\ t \in Tasks
      BY <1>0, <1>4, <2>1 DEF WaveInv, Ahead, PlanInv
    <3>2. QED
      BY <1>2, <1>4, <3>1
  <2>2. QED
    BY <1>0, <2>1
<1>6. u \in Tasks /\ u \notin waves[idx] /\ j < idx
  BY <1>0, <1>4, <1>5 DEF PlanInv
<1>7. QED
  BY <1>2, <1>3, <1>6

\* No other step starts a task, or changes how one ended.
LEMMA NextInOrder ==
  TypeOK /\ PlanInv /\ IdleInv /\ WaveInv /\ WavesInOrder /\ [Next]_vars => WavesInOrder'
<1>. SUFFICES ASSUME TypeOK, PlanInv, IdleInv, WaveInv, WavesInOrder, [Next]_vars
              PROVE  WavesInOrder'
  OBVIOUS
<1>1. CASE StartWave
  BY <1>1, StartInOrder
<1>2. CASE PlaceWave
  <2>1. \A t \in Tasks : exec[t] = "idle"
    BY <1>2 DEF IdleInv, PlaceWave, Planned
  <2>2. \A i \in 1..Len(waves') : waves'[i] \in SUBSET Tasks
    BY <1>2, PlanTyped DEF TypeOK, Plan
  <2>3. QED
    BY <1>2, <2>1, <2>2 DEF PlaceWave, WavesInOrder, Started, execVars, fileVars
<1>3. CASE UNCHANGED <<waves, exec>>
  BY <1>3 DEF WavesInOrder, Started
<1>4. ASSUME NEW t \in Tasks, TaskStep(t) PROVE WavesInOrder'
  <2>1. /\ waves' = waves /\ exec[t] \in {"spawned", "live"}
        /\ \A u \in Tasks \ {t} : exec'[u] = exec[u]
    BY <1>4 DEF TaskStep, TaskStart, TaskEnd, TaskPanic, planVars, TypeOK
  <2>2. \A i \in 1..Len(waves) : waves[i] \in SUBSET Tasks
    BY DEF TypeOK
  <2>3. QED
    BY <2>1, <2>2 DEF WavesInOrder, Started
<1>5. QED
  BY <1>1, <1>2, <1>3, <1>4 DEF Next, Plan, Execute, Validate, RejectCycle, Launch, SkipWave,
     EndWave, Finish, JoinReport, JoinPanic, Interrupt, Over, vars, planVars, execVars, fileVars

-----------------------------------------------------------------------------
(* Flags and reasons *)

\* No flag is set.
LEMMA InitBlame == Init => BlameInv
BY DEF Init, BlameInv, ReasonIsTrue

\* A flag once blamed on a task stays blamed on it; a wave is skipped because
\* of a flag that is set.
LEMMA NextBlame ==
  TypeOK /\ PlanInv /\ IdleInv /\ WaveInv /\ BlameInv /\ [Next]_vars => BlameInv'
<1>. SUFFICES ASSUME TypeOK, PlanInv, IdleInv, WaveInv, BlameInv, [Next]_vars PROVE BlameInv'
  OBVIOUS
<1>0. Len(waves) \in Nat /\ idx \in Nat \ {0} /\ \A i \in 1..Len(waves) : waves[i] \in SUBSET Tasks
  BY DEF TypeOK
<1>1. CASE Plan
  <2>1. ~waveFailed' /\ allOk'
    BY <1>1 DEF Plan, Validate, PlaceWave, RejectCycle, Launch, IdleInv, Planned, execVars
  <2>2. \A t \in Tasks : reason'[t] = "none"
    BY <1>1 DEF Plan, Validate, PlaceWave, RejectCycle, Launch, IdleInv, Planned, fileVars
  <2>3. \A i \in 1..Len(waves') : waves'[i] \in SUBSET Tasks
    BY <1>1, PlanTyped DEF TypeOK
  <2>4. QED
    BY <2>1, <2>2, <2>3 DEF BlameInv, ReasonIsTrue
<1>2. CASE StartWave
  <2>1. /\ waves' = waves /\ allOk' = allOk /\ reason' = reason /\ cancel' = cancel
        /\ idx' = idx /\ ~waveFailed /\ ~waveFailed'
        /\ \A t \in Tasks : exec'[t] = IF t \in waves[idx] THEN "spawned" ELSE exec[t]
    BY <1>2 DEF StartWave, planVars, fileVars
  <2>2. \A t \in waves[idx] : exec[t] = "idle"
    BY <1>0, <1>2 DEF StartWave, WaveInv, Ahead
  <2>3. ~Skipped
    BY <1>2 DEF StartWave, WaveInv
  <2>4. ~allOk' => \E t \in Tasks : exec'[t] \in {"failed", "cancelled", "panicked"}
    BY <2>1, <2>2, <2>3 DEF BlameInv
  <2>5. ReasonIsTrue'
    BY <1>0, <2>1, <2>2 DEF BlameInv, ReasonIsTrue
  <2>6. QED
    BY <2>1, <2>4, <2>5 DEF BlameInv
<1>3. CASE SkipWave
  <2>1. /\ idx \in 1..Len(waves) /\ waves' = waves /\ exec' = exec /\ joinset' = joinset
        /\ waveFailed' = waveFailed /\ cancel' = cancel /\ pc' = pc /\ pc = "wave"
        /\ idx' = idx + 1 /\ joinset = {} /\ (waveFailed \/ cancel)
    BY <1>0, <1>3 DEF SkipWave, WaveInv, planVars
  <2>2. \A t \in Tasks : reason'[t] = reason[t] \/ (t \in waves[idx] /\ reason'[t] = Reason)
    BY <1>3 DEF SkipWave
  <2>3. Skipped'
    <3>1. idx \in 1..idx' - 1
      BY <1>0, <2>1
    <3>2. \E t \in waves[idx] : exec[t] = "idle"
      BY <1>0, <2>1 DEF PlanInv, WaveInv, Ahead
    <3>3. QED
      BY <2>1, <3>1, <3>2 DEF Skipped
  <2>4. ASSUME waveFailed
        PROVE  \E j \in 1..idx - 1 : \E u \in waves[j] : exec[u] \in {"failed", "panicked"}
    <3>1. PICK j \in 1..Len(waves) : /\ ~Ahead(j) /\ j <= idx
                                     /\ \E u \in waves[j] : exec[u] \in {"failed", "panicked"}
      BY <2>4 DEF BlameInv
    <3>2. j \in 1..idx - 1
      BY <1>0, <2>1, <3>1 DEF Ahead
    <3>3. QED
      BY <3>1, <3>2
  <2>5. ASSUME NEW i \in 1..Len(waves), NEW t \in waves[i]
        PROVE  /\ reason'[t] = "user" => cancel'
               /\ reason'[t] = "failure" => \E j \in 1..i - 1 : \E u \in waves[j] :
                    exec'[u] \in {"failed", "panicked"}
    <3>1. CASE i = idx
      BY <1>0, <2>1, <2>2, <2>4, <2>5, <3>1 DEF WaveInv, Ahead
    <3>2. CASE i # idx
      <4>1. t \in Tasks /\ t \notin waves[idx]
        BY <1>0, <2>1, <3>2 DEF PlanInv
      <4>2. reason'[t] = reason[t]
        BY <2>2, <4>1
      <4>3. QED
        BY <2>1, <4>2 DEF BlameInv, ReasonIsTrue
    <3>3. QED
      BY <3>1, <3>2
  <2>6. waveFailed' => \E j \in 1..Len(waves') : ~Ahead(j)' /\ j <= idx'
          /\ \E u \in waves'[j] : exec'[u] \in {"failed", "panicked"} /\ u \notin joinset'
    BY <1>0, <2>1, <2>4 DEF Ahead
  <2>7. QED
    BY <2>1, <2>3, <2>5, <2>6 DEF BlameInv, ReasonIsTrue
<1>4. CASE EndWave
  <2>1. /\ idx \in 1..Len(waves) /\ waves' = waves /\ exec' = exec /\ joinset' = joinset
        /\ cancel' = cancel /\ reason' = reason /\ pc = "join" /\ pc' = "wave"
        /\ idx' = idx + 1 /\ joinset = {}
    BY <1>0, <1>4 DEF EndWave, WaveInv, planVars
  <2>2. \A t \in Unreported : t \in Tasks /\ exec[t] = "panicked" /\ waveFailed
    BY <1>0, <2>1 DEF Unreported, WaveInv
  <2>3. waveFailed' = waveFailed /\ allOk' = allOk
    <3>1. Unreported # {} => waveFailed /\ ~allOk
      BY <2>2 DEF WaveInv
    <3>2. QED
      BY <1>4, <3>1 DEF EndWave, TypeOK
  <2>4. Skipped => Skipped'
    BY <1>0, <2>1 DEF Skipped
  <2>5. ~allOk' => Skipped' \/ \E t \in Tasks : exec'[t] \in {"failed", "cancelled", "panicked"}
    BY <2>1, <2>3, <2>4 DEF BlameInv
  <2>6. waveFailed' => \E j \in 1..Len(waves') : ~Ahead(j)' /\ j <= idx'
          /\ \E u \in waves'[j] : exec'[u] \in {"failed", "panicked"} /\ u \notin joinset'
    BY <1>0, <2>1, <2>3 DEF BlameInv, Ahead
  <2>7. ReasonIsTrue'
    BY <1>0, <2>1 DEF BlameInv, ReasonIsTrue
  <2>8. QED
    BY <2>5, <2>6, <2>7 DEF BlameInv
<1>5. CASE Finish
  BY <1>0, <1>5 DEF Finish, BlameInv, Skipped, ReasonIsTrue, Ahead, planVars, execVars, fileVars
<1>6. ASSUME NEW t \in Tasks, JoinReport(t) \/ JoinPanic(t) PROVE BlameInv'
  BY <1>0, <1>6 DEF JoinReport, JoinPanic, BlameInv, Skipped, WaveInv, ReasonIsTrue, Ahead, TypeOK,
     planVars, fileVars, Terminal
<1>7. ASSUME NEW t \in Tasks, TaskStep(t) PROVE BlameInv'
  <2>1. /\ exec[t] \in {"spawned", "live"} /\ exec'[t] # "idle"
        /\ \A u \in Tasks \ {t} : exec'[u] = exec[u]
        /\ UNCHANGED <<planVars, execVars, reason, cancel, pc>>
    BY <1>7 DEF TaskStep, TaskStart, TaskEnd, TaskPanic, TypeOK, fileVars, Terminal
  <2>2. ~allOk' => Skipped' \/ \E u \in Tasks : exec'[u] \in {"failed", "cancelled", "panicked"}
    <3>1. Skipped => Skipped'
      BY <1>0, <2>1 DEF Skipped, TypeOK, planVars, execVars
    <3>2. QED
      BY <2>1, <3>1 DEF BlameInv, execVars
  <2>3. waveFailed' => \E j \in 1..Len(waves') : ~Ahead(j)' /\ j <= idx'
          /\ \E u \in waves'[j] : exec'[u] \in {"failed", "panicked"} /\ u \notin joinset'
    BY <1>0, <2>1 DEF BlameInv, Ahead, execVars, planVars
  <2>4. ReasonIsTrue'
    BY <1>0, <2>1 DEF BlameInv, ReasonIsTrue, planVars
  <2>5. QED
    BY <2>2, <2>3, <2>4 DEF BlameInv
<1>8. CASE Interrupt \/ Over \/ UNCHANGED vars
  BY <1>8 DEF Interrupt, Over, vars, BlameInv, Skipped, ReasonIsTrue, Ahead, planVars, execVars, fileVars
<1>9. QED
  BY <1>1, <1>2, <1>3, <1>4, <1>5, <1>6, <1>7, <1>8 DEF Next, Execute

-----------------------------------------------------------------------------
(* The theorems *)

\* The inductive invariant is an invariant.
THEOREM Invariance == Spec => []IInv
<1>1. Init => IInv
  BY InitTyped, InitPlan, InitTight, InitIdle, InitWave, InitFile, InitInOrder, InitBlame DEF IInv
<1>2. IInv /\ [Next]_vars => IInv'
  BY NextTyped, NextPlan, NextTight, NextIdle, NextWaveInv, NextFile, NextInOrder, NextBlame DEF IInv
<1>3. QED
  BY <1>1, <1>2, PTL DEF Spec

\* Every reachable state has the declared types; in particular the executor
\* never passes the end of the waves.
THEOREM TypeCorrect == Spec => []TypeOK
BY Invariance, PTL DEF IInv

\* A complete plan is a partition into waves that respects all dependencies.
LEMMA SoundWaves == IInv => PlanIsSound
<1>. SUFFICES ASSUME IInv, Planned PROVE PlanIsSound
  BY DEF PlanIsSound
<1>1. placed = Tasks
  BY DEF IInv, PlanInv
<1>2. QED
  BY <1>1 DEF IInv, PlanInv, PlanIsSound

\* What is executed is a partition into waves that respects all dependencies.
THEOREM SoundPlan == Spec => []PlanIsSound
BY SoundWaves, Invariance, PTL

\* Kahn's loop accepts exactly the configurations that can be ordered.
THEOREM OrderIsDecided == Spec => []AcceptsTheOrderable
<1>1. IInv => AcceptsTheOrderable
  <2>. SUFFICES ASSUME IInv, Planned PROVE Orderable
    BY DEF IInv, PlanInv, AcceptsTheOrderable
  <2>1. \A t \in Tasks : deps[t] \subseteq Tasks
    BY DEF IInv, PlanInv, Planned
  <2>2. ASSUME NEW U \in SUBSET Tasks, U # {} PROVE \E t \in U : deps[t] \cap U = {}
    <3>. DEFINE S == {i \in 1..Len(waves) : waves[i] \cap U # {}}
    <3>1. S # {}
      BY <2>2, SoundWaves DEF PlanIsSound
    <3>2. PICK m \in S : \A k \in S : m <= k
      <4>. HIDE DEF S
      <4>1. S \in SUBSET Nat
        BY DEF S
      <4>2. QED
        BY <3>1, <4>1, LeastNumber
    <3>3. PICK t \in waves[m] : t \in U
      BY <3>2
    <3>4. ASSUME NEW d \in deps[t] \cap U PROVE FALSE
      <4>1. PICK j \in 1..m - 1 : d \in waves[j]
        BY <2>2, <3>2, <3>3, <3>4 DEF IInv, PlanInv
      <4>2. j \in S /\ ~(m <= j)
        BY <3>2, <3>4, <4>1 DEF IInv, TypeOK
      <4>3. QED
        BY <3>2, <4>2
    <3>5. QED
      BY <3>3, <3>4
  <2>3. QED
    BY <2>1, <2>2 DEF Orderable, Acyclic
<1>2. QED
  BY <1>1, Invariance, PTL

\* The plan is the earliest one, of any number of waves: whatever way the tasks
\* are numbered, after their dependencies, no number is smaller than the task's
\* wave.
LEMMA EarlierThanAny ==
  ASSUME IInv, Planned,
         NEW f \in [Tasks -> Nat \ {0}],
         \A t \in Tasks : \A d \in deps[t] \cap Tasks : f[d] < f[t]
  PROVE  \A i \in 1..Len(waves) : \A t \in waves[i] : i <= f[t]
<1>. DEFINE S == {i \in 1..Len(waves) : \E t \in waves[i] : f[t] < i}
<1>1. SUFFICES ASSUME S # {} PROVE FALSE
  BY DEF IInv, TypeOK
<1>2. PICK m \in S : \A k \in S : m <= k
  <2>1. S \in SUBSET Nat
    OBVIOUS
  <2>. HIDE DEF S
  <2>2. QED
    BY <1>1, <2>1, LeastNumber
<1>3. PICK t \in waves[m] : f[t] < m
  BY <1>2
<1>4. t \in Tasks /\ f[t] \in Nat \ {0} /\ Len(waves) \in Nat
  BY <1>2, <1>3 DEF IInv, TypeOK
<1>5. m \in 2..Len(waves) /\ m - 1 \in 1..Len(waves)
  BY <1>2, <1>3, <1>4
<1>6. PICK d \in deps[t] : d \in waves[m - 1]
  BY <1>3, <1>5 DEF IInv, TightInv
<1>7. d \in Tasks
  BY <1>5, <1>6 DEF IInv, TypeOK
<1>8. f[d] < m - 1
  <2>1. f[d] < f[t] /\ f[d] \in Nat
    BY <1>4, <1>6, <1>7
  <2>2. QED
    BY <1>3, <1>4, <1>5, <2>1
<1>9. m - 1 \in S /\ ~(m <= m - 1)
  BY <1>5, <1>6, <1>8
<1>10. QED
  BY <1>2, <1>9

\* No plan has a task in an earlier wave.
THEOREM EarliestPlan == Spec => []EarliestWave
<1>1. IInv => EarliestWave
  <2>. SUFFICES ASSUME IInv, Planned, NEW f \in Layerings(Len(waves))
                PROVE  \A i \in 1..Len(waves) : \A t \in waves[i] : i <= f[t]
    BY DEF EarliestWave
  <2>1. f \in [Tasks -> Nat \ {0}]
    BY DEF Layerings, IInv, TypeOK
  <2>2. \A t \in Tasks : \A d \in deps[t] \cap Tasks : f[d] < f[t]
    BY DEF Layerings
  <2>3. QED
    BY <2>1, <2>2, EarlierThanAny
<1>2. QED
  BY <1>1, Invariance, PTL

\* A started task finds every earlier wave done.
THEOREM WavesRunInOrder == Spec => []WavesInOrder
BY Invariance, PTL DEF IInv

\* The exit code of a finished run is the conjunction of what became of the
\* tasks, and every file says what became of its task, or its last save failed
\* and it has no verdict.
THEOREM ExitCodesAreTrue == Spec => []ExitCodeIsTrue
<1>1. IInv => ExitCodeIsTrue
  <2>. SUFFICES ASSUME IInv, pc = "finished"
                PROVE  /\ allOk <=> \A t \in Tasks : exec[t] = "done"
                       /\ \A t \in Tasks :
                            meta[t] = Outcome(t) \/ (t \in unsaved /\ meta[t] \notin Terminal)
    BY DEF ExitCodeIsTrue
  <2>. USE DEF IInv
  <2>1. ASSUME NEW t \in Tasks
        PROVE  /\ Behind(t) /\ Due(t) = Outcome(t)
               /\ exec[t] \in {"idle", "done", "failed", "cancelled", "panicked"}
               /\ allOk => exec[t] = "done"
    <3>1. PICK i \in 1..Len(waves) : t \in waves[i]
      BY DEF PlanInv, Planned, TypeOK
    <3>2. i \in 1..idx - 1 /\ joinset = {}
      BY <3>1 DEF WaveInv, TypeOK
    <3>3. Behind(t)
      BY <3>1, <3>2 DEF Behind
    <3>4. exec[t] \in {"idle", "done", "failed", "cancelled", "panicked"}
      BY <3>2 DEF WaveInv, TypeOK, Ended, Terminal
    <3>5. exec[t] = "idle" => Skipped
      BY <3>1, <3>2 DEF Skipped
    <3>6. QED
      BY <3>2, <3>3, <3>4, <3>5 DEF WaveInv, Due, Outcome, Planned
  <2>2. ~allOk => \E t \in Tasks : exec[t] # "done"
    <3>1. Skipped => \E t \in Tasks : exec[t] = "idle"
      BY DEF Skipped, WaveInv, TypeOK
    <3>2. QED
      BY <3>1 DEF BlameInv
  <2>3. QED
    BY <2>1, <2>2 DEF FileInv, TypeOK
<1>2. QED
  BY <1>1, Invariance, PTL

\* The reason in the file of a skipped task is the true one.
THEOREM ReasonsAreTrue == Spec => []ReasonIsTrue
BY Invariance, PTL DEF IInv, BlameInv

-----------------------------------------------------------------------------
(* Waves implements RunContract *)

\* What the contract's verdict is read from.
RunVerdict == IF pc # "finished" THEN "running" ELSE IF allOk THEN "done" ELSE "failed"

\* A configuration is an initial state of the contract, with all its tasks.
LEMMA InitRefines == Init => Contract!Init
<1>. SUFFICES ASSUME Init PROVE Contract!Init
  OBVIOUS
<1>1. \A t \in Tasks : PhaseOf(t) = "waiting"
  BY DEF Init, PhaseOf, Skipped
<1>2. [t \in Tasks |-> PhaseOf(t)] = [t \in Tasks |-> IF t \in Tasks THEN "waiting" ELSE "absent"]
  BY <1>1
<1>3. [t \in Tasks |-> deps[t] \cap Tasks] \in [Tasks -> SUBSET Tasks]
  OBVIOUS
<1>4. ~Planned /\ ~(cancel \/ waveFailed) /\ pc # "finished"
  BY DEF Init, Planned
<1>5. QED
  BY <1>2, <1>3, <1>4 DEF Contract!Init

\* A step that changes neither phases, needs, admission nor verdict is a
\* stutter of the contract, or its Stop when it sets a flag.
LEMMA StutterRefines ==
  ASSUME \A t \in Tasks : PhaseOf(t)' = PhaseOf(t), deps' = deps, Planned' = Planned,
         RunVerdict' = RunVerdict, cancel \/ waveFailed => cancel' \/ waveFailed'
  PROVE  [Contract!Next]_(Contract!vars)
<1>1. /\ [t \in Tasks |-> PhaseOf(t)'] = [t \in Tasks |-> PhaseOf(t)]
      /\ [t \in Tasks |-> deps'[t] \cap Tasks] = [t \in Tasks |-> deps[t] \cap Tasks]
  OBVIOUS
<1>2. CASE (cancel \/ waveFailed) = (cancel' \/ waveFailed')
  BY <1>1, <1>2 DEF Contract!vars, RunVerdict
<1>3. CASE (cancel \/ waveFailed) # (cancel' \/ waveFailed')
  <2>1. (cancel' \/ waveFailed') = TRUE
    BY <1>3
  <2>2. Contract!Stop
    BY <1>1, <2>1 DEF Contract!Stop, RunVerdict
  <2>3. QED
    BY <2>2 DEF Contract!Next
<1>4. QED
  BY <1>2, <1>3

\* A new wave starts tasks whose needs are done.
LEMMA StartRefines ==
  ASSUME IInv, StartWave
  PROVE  [Contract!Next]_(Contract!vars)
<1>. DEFINE S == waves[idx]
<1>1. /\ S \in SUBSET Tasks /\ ~waveFailed /\ ~cancel /\ pc = "wave" /\ pc' = "join"
      /\ UNCHANGED <<deps, waveFailed, cancel, idx, waves>> /\ idx \in 1..Len(waves)
      /\ \A t \in Tasks : exec'[t] = IF t \in S THEN "spawned" ELSE exec[t]
  BY DEF IInv, TypeOK, StartWave, planVars
<1>2. \A t \in S : exec[t] = "idle"
  BY <1>1 DEF IInv, WaveInv, Ahead
<1>3. ~Skipped /\ ~Skipped'
  <2>1. ~Skipped
    BY <1>1 DEF IInv, WaveInv
  <2>2. QED
    BY <1>1, <2>1 DEF Skipped, IInv, TypeOK
<1>4. \A t \in S : \A d \in deps[t] : d \in Tasks /\ PhaseOf(d) = "done"
  <2>1. ASSUME NEW t \in S, NEW d \in deps[t] PROVE d \in Tasks /\ PhaseOf(d) = "done"
    <3>1. PICK j \in 1..idx - 1 : d \in waves[j]
      BY <1>1, <2>1 DEF IInv, PlanInv
    <3>2. j \in 1..Len(waves) /\ j < idx /\ d \in Tasks
      BY <1>1, <3>1 DEF IInv, TypeOK
    <3>3. t \in waves'[idx] /\ exec'[t] # "idle" /\ waves' = waves /\ idx \in 1..Len(waves')
      BY <1>1, <2>1 DEF StartWave, planVars
    <3>4. exec'[d] = "done"
      <4>1. WavesInOrder'
        BY StartInOrder DEF IInv
      <4>2. QED
        BY <3>1, <3>2, <3>3, <4>1 DEF WavesInOrder, Started
    <3>5. exec[d] = "done"
      BY <1>1, <3>2, <3>4
    <3>6. QED
      BY <3>2, <3>5 DEF PhaseOf
  <2>2. QED
    BY <2>1
<1>5. \A t \in S : PhaseOf(t) = "waiting"
  BY <1>2, <1>3 DEF PhaseOf
<1>6. \A t \in Tasks : PhaseOf(t)' = IF t \in S THEN "running" ELSE PhaseOf(t)
  BY <1>1, <1>3 DEF PhaseOf
<1>. HIDE DEF S
<1>7. /\ [t \in Tasks |-> PhaseOf(t)'] =
           [t \in Tasks |-> IF t \in S THEN "running" ELSE [u \in Tasks |-> PhaseOf(u)][t]]
      /\ [t \in Tasks |-> deps'[t] \cap Tasks] = [t \in Tasks |-> deps[t] \cap Tasks]
  BY <1>1, <1>6
<1>8. /\ ~(cancel \/ waveFailed) /\ (cancel' \/ waveFailed') = (cancel \/ waveFailed)
      /\ (~Planned)' = ~Planned /\ pc # "finished" /\ pc' # "finished"
  BY <1>1 DEF Planned
<1>9. Contract!Start(S)
  BY <1>1, <1>4, <1>5, <1>7, <1>8 DEF Contract!Start
<1>10. QED
  BY <1>1, <1>9 DEF Contract!Next

\* The first wave that is skipped abandons every task not started.
LEMMA SkipRefines ==
  ASSUME IInv, SkipWave
  PROVE  [Contract!Next]_(Contract!vars)
<1>1. /\ waves[idx] \in SUBSET Tasks /\ waves[idx] # {} /\ (cancel \/ waveFailed)
      /\ pc = "wave" /\ pc' = pc
      /\ UNCHANGED <<deps, waveFailed, cancel, exec, waves>> /\ idx \in 1..Len(waves)
      /\ idx' = idx + 1
  BY DEF IInv, TypeOK, PlanInv, SkipWave, planVars
<1>2. Skipped'
  <2>1. PICK t \in waves[idx] : TRUE
    BY <1>1
  <2>2. exec[t] = "idle"
    BY <1>1 DEF IInv, WaveInv, Ahead
  <2>3. idx \in 1..idx' - 1
    BY <1>1
  <2>4. QED
    BY <1>1, <2>2, <2>3 DEF Skipped
<1>3. joinset = {} /\ \A t \in Tasks : exec[t] \notin {"spawned", "live"}
  BY <1>1 DEF IInv, WaveInv
<1>4. CASE Skipped
  <2>1. \A t \in Tasks : PhaseOf(t)' = PhaseOf(t)
    BY <1>1, <1>2, <1>4 DEF PhaseOf
  <2>2. QED
    BY <1>1, <2>1, StutterRefines DEF Planned, RunVerdict
<1>5. CASE ~Skipped
  <2>1. \A t \in Tasks : PhaseOf(t)' = IF PhaseOf(t) = "waiting" THEN "cancelled" ELSE PhaseOf(t)
    BY <1>1, <1>2, <1>3, <1>5 DEF PhaseOf, IInv, TypeOK, Ended, Terminal
  <2>2. /\ [t \in Tasks |-> PhaseOf(t)'] =
             [t \in Tasks |-> IF [u \in Tasks |-> PhaseOf(u)][t] = "waiting" THEN "cancelled"
                              ELSE [u \in Tasks |-> PhaseOf(u)][t]]
        /\ [t \in Tasks |-> deps'[t] \cap Tasks] = [t \in Tasks |-> deps[t] \cap Tasks]
    BY <1>1, <2>1
  <2>3. /\ (cancel' \/ waveFailed') = (cancel \/ waveFailed) /\ (~Planned)' = FALSE
        /\ pc # "finished" /\ pc' # "finished"
    BY <1>1 DEF Planned
  <2>4. Contract!Abandon
    BY <1>1, <2>2, <2>3 DEF Contract!Abandon
  <2>5. QED
    BY <2>4 DEF Contract!Next
<1>6. QED
  BY <1>4, <1>5

\* The executor returns when nothing is live, and says why.
LEMMA FinishRefines ==
  ASSUME IInv, Finish
  PROVE  [Contract!Next]_(Contract!vars)
<1>. USE DEF IInv
<1>1. /\ pc = "wave" /\ pc' = "finished" /\ idx > Len(waves) /\ joinset = {}
      /\ UNCHANGED <<deps, waveFailed, cancel, exec, idx, waves, allOk>>
  BY DEF Finish, WaveInv, planVars, execVars, fileVars
<1>2. \A t \in Tasks : \E i \in 1..idx - 1 : t \in waves[i]
  BY <1>1 DEF PlanInv, Planned, TypeOK
<1>3. \A t \in Tasks : /\ exec[t] \in {"idle", "done", "failed", "cancelled", "panicked"}
                       /\ exec[t] = "idle" => Skipped
  BY <1>1, <1>2 DEF WaveInv, Skipped, TypeOK, Ended, Terminal
<1>4. \A t \in Tasks : /\ PhaseOf(t) \notin {"waiting", "running"}
                       /\ PhaseOf(t) = IF exec[t] = "idle" THEN "cancelled" ELSE exec[t]
  BY <1>3 DEF PhaseOf
<1>5. allOk => \A t \in Tasks : PhaseOf(t) = "done"
  BY <1>1, <1>3, <1>4 DEF WaveInv
<1>6. ~allOk => cancel \/ waveFailed
  BY <1>1 DEF WaveInv, BlameInv
<1>7. /\ [t \in Tasks |-> PhaseOf(t)'] = [t \in Tasks |-> PhaseOf(t)]
      /\ [t \in Tasks |-> deps'[t] \cap Tasks] = [t \in Tasks |-> deps[t] \cap Tasks]
  BY <1>1 DEF PhaseOf, Skipped
<1>8. (~Planned) = FALSE /\ (~Planned)' = FALSE
  BY <1>1 DEF Planned
<1>9. Contract!Conclude(IF allOk THEN "done" ELSE "failed")
  BY <1>1, <1>4, <1>5, <1>6, <1>7, <1>8 DEF Contract!Conclude, Contract!Live
<1>10. QED
  BY <1>9 DEF Contract!Next

\* A running task settles, with a cancelled status only in a stopped run.
LEMMA TaskRefines ==
  ASSUME IInv, NEW t \in Tasks, TaskStep(t)
  PROVE  [Contract!Next]_(Contract!vars)
<1>. USE DEF IInv
<1>1. /\ exec[t] \in {"spawned", "live"}
      /\ UNCHANGED <<deps, idx, waves, waveFailed, allOk, cancel, pc>>
      /\ \A u \in Tasks \ {t} : exec'[u] = exec[u]
      /\ exec'[t] # "idle"
  BY DEF TaskStep, TaskStart, TaskEnd, TaskPanic, TypeOK, planVars, execVars, Terminal
<1>2. Skipped' = Skipped
  BY <1>1 DEF Skipped, TypeOK
<1>3. CASE TaskStart(t)
  <2>1. \A u \in Tasks : PhaseOf(u)' = PhaseOf(u)
    BY <1>1, <1>2, <1>3 DEF TaskStart, PhaseOf, TypeOK
  <2>2. QED
    BY <1>1, <2>1, StutterRefines DEF Planned, RunVerdict
<1>4. ASSUME NEW r \in Contract!Outcomes, exec[t] = "live", r = "cancelled" => cancel,
             exec' = [exec EXCEPT ![t] = r]
      PROVE  Contract!Next
  <2>1. PhaseOf(t) = "running"
    BY <1>4 DEF PhaseOf
  <2>2. \A u \in Tasks : PhaseOf(u)' = IF u = t THEN r ELSE PhaseOf(u)
    BY <1>1, <1>2, <1>4 DEF PhaseOf, TypeOK, Contract!Outcomes
  <2>3. /\ [u \in Tasks |-> PhaseOf(u)'] = [[u \in Tasks |-> PhaseOf(u)] EXCEPT ![t] = r]
        /\ [u \in Tasks |-> deps'[u] \cap Tasks] = [u \in Tasks |-> deps[u] \cap Tasks]
    BY <1>1, <2>2
  <2>4. /\ (cancel' \/ waveFailed') = (cancel \/ waveFailed) /\ (~Planned)' = ~Planned
        /\ RunVerdict' = RunVerdict
    BY <1>1 DEF Planned, RunVerdict
  <2>5. Contract!Settle(t, r)
    BY <1>4, <2>1, <2>3, <2>4 DEF Contract!Settle, RunVerdict
  <2>6. QED
    BY <2>5 DEF Contract!Next
<1>5. ASSUME NEW r \in Terminal, TaskEnd(t, r) PROVE Contract!Next
  BY <1>4, <1>5 DEF TaskEnd, Terminal, Contract!Outcomes
<1>6. CASE TaskPanic(t)
  BY <1>4, <1>6 DEF TaskPanic, Contract!Outcomes
<1>7. QED
  BY <1>3, <1>5, <1>6 DEF TaskStep

\* Every step of the executor is a step, or a stutter, of the abstract run.
LEMMA NextRefines == IInv /\ [Next]_vars => [Contract!Next]_(Contract!vars)
<1>. SUFFICES ASSUME IInv, [Next]_vars PROVE [Contract!Next]_(Contract!vars)
  OBVIOUS
\* A step that keeps what phases are read from.
<1>1. ASSUME UNCHANGED <<deps, exec>>, Planned' = Planned, RunVerdict' = RunVerdict,
             Skipped' = Skipped, cancel \/ waveFailed => cancel' \/ waveFailed'
      PROVE  [Contract!Next]_(Contract!vars)
  <2>1. \A t \in Tasks : PhaseOf(t)' = PhaseOf(t)
    BY <1>1 DEF PhaseOf
  <2>2. QED
    BY <1>1, <2>1, StutterRefines
<1>2. CASE Validate \/ PlaceWave \/ RejectCycle \/ Over \/ Interrupt \/ UNCHANGED vars
  <2>1. CASE PlaceWave
    <3>1. idx = 1 /\ idx' = 1 /\ UNCHANGED <<deps, exec, cancel, waveFailed, pc, allOk>>
      BY <2>1 DEF PlaceWave, execVars, IInv, IdleInv, Planned
    <3>2. 1..idx - 1 = {} /\ 1..idx' - 1 = {}
      BY <3>1
    <3>3. Skipped = FALSE /\ Skipped' = FALSE
      BY <3>2 DEF Skipped
    <3>4. QED
      BY <1>1, <3>1, <3>3 DEF Planned, RunVerdict
  <2>2. CASE Validate \/ RejectCycle \/ Over \/ Interrupt \/ UNCHANGED vars
    BY <1>1, <2>2 DEF Validate, RejectCycle, Over, Interrupt, vars, planVars, execVars,
       fileVars, Planned, RunVerdict, Skipped
  <2>3. QED
    BY <1>2, <2>1, <2>2
<1>3. CASE Launch
  <2>1. ~Skipped /\ ~Skipped' /\ UNCHANGED <<deps, exec, cancel, waveFailed>>
    BY <1>3 DEF Launch, IInv, IdleInv, Planned, Skipped, planVars, execVars
  <2>2. /\ [t \in Tasks |-> PhaseOf(t)'] = [t \in Tasks |-> PhaseOf(t)]
        /\ [t \in Tasks |-> deps'[t] \cap Tasks] = [t \in Tasks |-> deps[t] \cap Tasks]
    BY <2>1 DEF PhaseOf
  <2>3. (~Planned)' = FALSE /\ pc # "finished" /\ pc' # "finished"
    BY <1>3 DEF Launch, Planned
  <2>4. Contract!Close
    BY <2>1, <2>2, <2>3 DEF Contract!Close
  <2>5. QED
    BY <2>4 DEF Contract!Next
<1>4. ASSUME NEW t \in Tasks, JoinReport(t) \/ JoinPanic(t) PROVE [Contract!Next]_(Contract!vars)
  BY <1>1, <1>4 DEF JoinReport, JoinPanic, planVars, fileVars, Planned, RunVerdict, Skipped
<1>5. CASE EndWave
  <2>1. \A t \in waves[idx] : exec[t] # "idle"
    BY <1>5 DEF EndWave, IInv, WaveInv
  <2>2. /\ UNCHANGED <<deps, waves, exec, cancel>> /\ pc = "join" /\ pc' = "wave"
        /\ idx' = idx + 1 /\ idx \in Nat \ {0}
    BY <1>5 DEF EndWave, planVars, IInv, TypeOK
  <2>3. Skipped' = Skipped
    <3>1. 1..idx' - 1 = 1..idx - 1 \cup {idx}
      BY <2>2
    <3>2. QED
      BY <2>1, <2>2, <3>1 DEF Skipped
  <2>4. cancel \/ waveFailed => cancel' \/ waveFailed'
    BY <1>5 DEF EndWave
  <2>5. QED
    BY <1>1, <2>2, <2>3, <2>4 DEF Planned, RunVerdict
<1>6. ASSUME NEW t \in Tasks, TaskStep(t) PROVE [Contract!Next]_(Contract!vars)
  BY <1>6, TaskRefines
<1>7. QED
  BY <1>2, <1>3, <1>4, <1>5, <1>6, StartRefines, SkipRefines, FinishRefines DEF Next, Plan, Execute

\* The executor of waves implements the abstract run: it starts only what has
\* its needs done, gives up together what it does not start, and its exit code
\* is a verdict the contract allows.
THEOREM Refinement == Spec => ImplementsContract
BY InitRefines, NextRefines, Invariance, PTL DEF Spec, ImplementsContract, Contract!Spec

-----------------------------------------------------------------------------
(* What the run inherits from RunContract *)

Kept == INSTANCE RunContract_proofs WITH
    phase    <- [t \in Tasks |-> PhaseOf(t)],
    needs    <- [t \in Tasks |-> deps[t] \cap Tasks],
    open     <- ~Planned,
    stopping <- cancel \/ waveFailed,
    verdict  <- IF pc # "finished" THEN "running" ELSE IF allOk THEN "done" ELSE "failed"

\* `codex-par run` on any configuration: no task works before its dependencies
\* are done, the exit code covers all tasks, and nothing moves behind it.
THEOREM RunKeepsContract ==
  Spec => []Kept!NeedsAreDone /\ []Kept!VerdictCovers /\ Kept!VerdictIsLast /\ Kept!OutcomesStay
<1>1. Contract!Init => Kept!Init
  BY DEF Contract!Init, Kept!Init
<1>2. [Contract!Next]_(Contract!vars) => [Kept!Next]_(Kept!vars)
  BY DEF Contract!Next, Kept!Next, Contract!vars, Kept!vars, Contract!Admit, Kept!Admit,
     Contract!Start, Kept!Start, Contract!Settle, Kept!Settle, Contract!Close, Kept!Close,
     Contract!Stop, Kept!Stop, Contract!Abandon, Kept!Abandon, Contract!Conclude, Kept!Conclude,
     Contract!Outcomes, Kept!Outcomes, Contract!Live, Kept!Live
<1>3. Contract!Spec => Kept!Spec
  BY <1>1, <1>2, PTL DEF Contract!Spec, Kept!Spec
<1>4. QED
  BY <1>3, Refinement, Kept!NeedsAreMet, Kept!VerdictsCover, Kept!VerdictsAreLast,
     Kept!NothingIsUndone DEF ImplementsContract

-----------------------------------------------------------------------------
(* Every task implements TaskContract *)

\* What the abstract task is made of stays, or its run is stopped.
LEMMA TaskStutter ==
  ASSUME NEW t \in Tasks, WorkOf(t)' = WorkOf(t), meta'[t] = meta[t],
         cancel \/ waveFailed => cancel' \/ waveFailed'
  PROVE  [Task(t)!Next]_(Task(t)!vars)
<1>1. CASE (cancel' \/ waveFailed') = (cancel \/ waveFailed)
  BY <1>1 DEF Task!vars
<1>2. CASE (cancel' \/ waveFailed') # (cancel \/ waveFailed)
  <2>1. (cancel' \/ waveFailed') = TRUE
    BY <1>2
  <2>2. QED
    BY <2>1 DEF Task!Next, Task!Stop
<1>3. QED
  BY <1>1, <1>2

\* No task of a configuration has a file yet, and no flag is set.
LEMMA InitTasks == Init => \A t \in Tasks : Task(t)!Init
BY DEF Init, Task!Init, WorkOf

\* The Pending files are written before anything runs, if they can be.
LEMMA LaunchTask ==
  ASSUME IInv, Launch, NEW t \in Tasks
  PROVE  [Task(t)!Next]_(Task(t)!vars)
<1>1. exec[t] = "idle" /\ meta[t] = "absent" /\ Save(Tasks, "pending")
  BY DEF IInv, IdleInv, Launch, Planned
<1>2. UNCHANGED <<exec, cancel, waveFailed>>
  BY DEF Launch, execVars
<1>3. meta'[t] \in {"pending", meta[t]}
  BY <1>1, SaveEffect DEF IInv
<1>4. CASE meta'[t] = "pending"
  BY <1>1, <1>2, <1>4 DEF Task!Announce, Task!Next, WorkOf
<1>5. CASE meta'[t] = meta[t]
  BY <1>2, <1>5, TaskStutter DEF WorkOf
<1>6. QED
  BY <1>3, <1>4, <1>5

\* Spawning is not yet work: run_task has not been polled.
LEMMA StartTask ==
  ASSUME IInv, StartWave, NEW t \in Tasks
  PROVE  [Task(t)!Next]_(Task(t)!vars)
<1>1. exec'[t] = exec[t] \/ (exec[t] = "idle" /\ exec'[t] = "spawned")
  BY DEF StartWave, IInv, TypeOK, WaveInv, Ahead
<1>2. UNCHANGED <<meta, cancel, waveFailed>>
  BY DEF StartWave, fileVars
<1>3. QED
  BY <1>1, <1>2, TaskStutter DEF WorkOf

\* What is skipped has never been spawned, and has a reason.
LEMMA SkipTask ==
  ASSUME IInv, SkipWave, NEW t \in Tasks
  PROVE  [Task(t)!Next]_(Task(t)!vars)
<1>1. (cancel \/ waveFailed) /\ UNCHANGED <<exec, cancel, waveFailed>> /\ pc = "wave"
  BY DEF SkipWave
<1>2. idx \in 1..Len(waves) /\ waves[idx] \in SUBSET Tasks /\ Save(waves[idx], "cancelled")
  BY DEF SkipWave, IInv, TypeOK
<1>3. meta'[t] = meta[t] \/ (t \in waves[idx] /\ meta'[t] = "cancelled")
  BY <1>2, SaveEffect DEF IInv, Terminal
<1>4. CASE meta'[t] = meta[t]
  BY <1>1, <1>4, TaskStutter DEF WorkOf
<1>5. CASE t \in waves[idx] /\ meta'[t] = "cancelled"
  <2>1. exec[t] = "idle" /\ ~Behind(t)
    BY <1>1, <1>2, <1>5 DEF IInv, WaveInv, Ahead, PlanInv, Behind, TypeOK
  <2>2. meta[t] \notin Terminal
    BY <1>1, <2>1 DEF IInv, FileInv, Due, Planned, Terminal
  <2>3. Task(t)!GiveUp
    BY <1>1, <1>5, <2>1, <2>2 DEF Task!GiveUp, Task!Verdicts, WorkOf, Terminal
  <2>4. QED
    BY <2>3 DEF Task!Next
<1>6. QED
  BY <1>3, <1>4, <1>5

\* Only the file of a task that has panicked is repaired.
LEMMA EndTask ==
  ASSUME IInv, EndWave, NEW t \in Tasks
  PROVE  [Task(t)!Next]_(Task(t)!vars)
<1>1. UNCHANGED <<exec, cancel>> /\ (waveFailed => waveFailed')
  BY DEF EndWave
<1>2. Repaired \in SUBSET Unreported /\ Unreported \in SUBSET Tasks
  BY DEF EndWave, Repaired, Unreported, IInv, WaveInv, TypeOK
<1>3. meta'[t] = meta[t] \/ (t \in Unreported /\ meta'[t] = "failed")
  <2>1. Repaired \in SUBSET Tasks /\ Save(Repaired, "failed")
    BY <1>2 DEF EndWave
  <2>2. QED
    BY <1>2, <2>1, SaveEffect DEF IInv, Terminal
<1>4. CASE meta'[t] = meta[t]
  BY <1>1, <1>4, TaskStutter DEF WorkOf
<1>5. CASE t \in Unreported /\ meta'[t] = "failed"
  <2>1. exec[t] = "panicked" /\ waveFailed /\ waveFailed'
    BY <1>5 DEF EndWave, Unreported, IInv, WaveInv, TypeOK
  <2>2. Task(t)!Repair
    BY <1>1, <1>5, <2>1 DEF Task!Repair, WorkOf
  <2>3. QED
    BY <2>2 DEF Task!Next
<1>6. QED
  BY <1>3, <1>4, <1>5

\* The task's own steps are the ones the contract names.
LEMMA OwnTask ==
  ASSUME IInv, NEW t \in Tasks, TaskStep(t)
  PROVE  Task(t)!Next
<1>1. UNCHANGED <<cancel, waveFailed>>
  BY DEF TaskStep, TaskStart, TaskEnd, TaskPanic, execVars
<1>2. CASE TaskStart(t)
  <2>1. exec[t] = "spawned" /\ exec'[t] = "live" /\ Save({t}, "running")
    BY <1>2 DEF TaskStart, IInv, TypeOK
  <2>2. meta'[t] = "running" \/ meta'[t] = meta[t]
    BY <2>1, SaveEffect DEF IInv
  <2>3. meta[t] \notin Terminal
    BY <2>1 DEF IInv, FileInv, Due, Terminal
  <2>4. Task(t)!Start
    BY <1>1, <2>1, <2>2, <2>3 DEF Task!Start, Task!Verdicts, WorkOf, Terminal
  <2>5. QED
    BY <2>4 DEF Task!Next
<1>3. ASSUME NEW r \in Terminal, TaskEnd(t, r) PROVE Task(t)!Next
  <2>1. exec[t] = "live" /\ exec'[t] = r /\ Save({t}, r) /\ (r = "cancelled" => cancel)
    BY <1>3 DEF TaskEnd, IInv, TypeOK
  <2>2. meta'[t] = r \/ meta'[t] = meta[t]
    BY <2>1, SaveEffect DEF IInv
  <2>3. r \in Task(t)!Verdicts /\ r \notin {"spawned", "live"}
    BY <1>3 DEF Terminal, Task!Verdicts
  <2>4. Task(t)!End(r)
    BY <1>1, <2>1, <2>2, <2>3 DEF Task!End, WorkOf
  <2>5. QED
    BY <2>3, <2>4 DEF Task!Next
<1>4. CASE TaskPanic(t)
  <2>1. exec[t] = "live" /\ exec'[t] = "panicked" /\ meta' = meta
    BY <1>4 DEF TaskPanic, fileVars, IInv, TypeOK
  <2>2. Task(t)!Panic
    BY <1>1, <2>1 DEF Task!Panic, WorkOf
  <2>3. QED
    BY <2>2 DEF Task!Next
<1>5. QED
  BY <1>2, <1>3, <1>4 DEF TaskStep

\* Every step of the program is, for every task, a step of its contract or none.
LEMMA NextTasks ==
  ASSUME IInv, [Next]_vars, NEW t \in Tasks
  PROVE  [Task(t)!Next]_(Task(t)!vars)
\* A step that is nobody's work and saves no file.
<1>1. ASSUME UNCHANGED <<exec, meta>>, cancel \/ waveFailed => cancel' \/ waveFailed'
      PROVE  [Task(t)!Next]_(Task(t)!vars)
  BY <1>1, TaskStutter DEF WorkOf
<1>2. CASE Validate \/ PlaceWave \/ RejectCycle \/ Finish \/ Interrupt \/ Over \/ UNCHANGED vars
  BY <1>1, <1>2 DEF Validate, PlaceWave, RejectCycle, Finish, Interrupt, Over, vars, execVars,
     fileVars
<1>3. ASSUME NEW u \in Tasks, JoinReport(u) \/ JoinPanic(u)
      PROVE  [Task(t)!Next]_(Task(t)!vars)
  BY <1>1, <1>3 DEF JoinReport, JoinPanic, fileVars
<1>4. ASSUME NEW u \in Tasks, TaskStep(u) PROVE [Task(t)!Next]_(Task(t)!vars)
  <2>1. CASE u = t
    BY <1>4, <2>1, OwnTask
  <2>2. CASE u # t
    <3>1. exec'[t] = exec[t] /\ UNCHANGED <<cancel, waveFailed>>
      BY <1>4, <2>2 DEF TaskStep, TaskStart, TaskEnd, TaskPanic, execVars, IInv, TypeOK
    <3>2. meta'[t] = meta[t]
      <4>1. ASSUME NEW v \in {"running"} \cup Terminal, Save({u}, v) PROVE meta'[t] = meta[t]
        <5>1. {u} \in SUBSET Tasks /\ v \in {"pending", "running"} \cup Terminal /\ TypeOK
          BY <4>1 DEF IInv
        <5>2. \A w \in Tasks \ {u} : meta'[w] = meta[w]
          BY <4>1, <5>1, SaveEffect
        <5>3. QED
          BY <2>2, <5>2
      <4>2. QED
        BY <1>4, <4>1 DEF TaskStep, TaskStart, TaskEnd, TaskPanic, fileVars
    <3>3. QED
      BY <3>1, <3>2, TaskStutter DEF WorkOf
  <2>3. QED
    BY <2>1, <2>2
<1>5. QED
  BY <1>2, <1>3, <1>4, LaunchTask, StartTask, SkipTask, EndTask DEF Next, Plan, Execute

\* In `codex-par run` every task keeps the contract that run_task is proved to
\* keep, and the executor repairs only the files of tasks that have panicked.
THEOREM TasksRefinement == Spec => ImplementsTasks
<1>1. IInv /\ [Next]_vars => [\A t \in Tasks : [Task(t)!Next]_(Task(t)!vars)]_vars
  BY NextTasks
<1>2. QED
  BY InitTasks, <1>1, Invariance, PTL DEF Spec, ImplementsTasks
=============================================================================
