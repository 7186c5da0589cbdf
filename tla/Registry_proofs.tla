-------------------------- MODULE Registry_proofs --------------------------
(***************************************************************************)
(* One run directory has one run, for any number of callers, tasks and     *)
(* generations: nobody else touches its files, its status is its own, and  *)
(* what a poll shows as done is done.                                      *)
(***************************************************************************)
EXTENDS Registry, TLAPS

\* One-line operators of the actions are always read as what they stand for.
USE DEF NoGen, Gens, Free

-----------------------------------------------------------------------------
(* The inductive invariant *)

Preflight == {"clean", "outputs", "dirs", "runmeta", "tasks", "spawn"}

\* The mutex has one holder, and while it is held no entry is registered.
LockInv ==
    /\ \A c \in Callers : c \in locked <=> at[c] \in Preflight \cup {"insert"}
    /\ \A c, d \in Callers : c \in locked /\ d \in locked => c = d
    /\ locked # {} => entry = NoGen

\* Generations are fresh: a call that has one has it alone, and what is not
\* made yet has left no trace.
GenInv ==
    /\ \A c \in Callers : at[c] # "idle" => gen[c] \in Gens /\ gen[c] <= made
    /\ \A c \in Callers : at[c] = "idle" => gen[c] = NoGen
    /\ \A c, d \in Callers : gen[c] = gen[d] /\ gen[c] # NoGen => c = d
    /\ \A g \in Gens : g > made => bg[g] = "none"
    /\ \A c \in Callers : at[c] \in Preflight => bg[gen[c]] = "none"

\* While a preflight or a loop goes on, run.meta.json says so.
RunInv ==
    /\ \A g \in Gens : bg[g] \in {"run", "verdict"} => run.gen = g /\ run.status = "running"
    /\ \A c \in Callers : at[c] \in {"tasks", "spawn"} =>
          run.gen = gen[c] /\ run.status = "running"
    /\ run.status # "none" => run.gen \in Gens
    /\ RunStatusIsTrue

\* A terminal status in a file, or in the hands of a resume, is of a task that
\* its generation has run.
EndInv ==
    /\ \A t \in Tasks : meta[t].status \in Terminal =>
          bg[meta[t].gen] # "none" /\ t \notin todo[meta[t].gen]
    /\ job.at # "idle" => bg[job.gen] # "none" /\ job.task \notin todo[job.gen]

\* A file says that the task is done, or still what it said before a final save
\* that failed.
DoneOrUnsaved(m, g, t) == m.status = "done" \/ (m.status \notin Terminal /\ <<g, t>> \in unsaved)

\* No task that the generation is through with, where its files are its own, has
\* another verdict than done.
AllDone(g) == \A t \in Tasks :
    meta[t].gen = g /\ ~meta[t].resumed /\ t \notin todo[g] => DoneOrUnsaved(meta[t], g, t)

Concluded(g) == bg[g] \notin {"none", "run", "verdict"} /\ todo[g] = {} /\ AllDone(g)

DoneInv ==
    /\ \A g \in Gens : bg[g] \in {"run", "verdict"} /\ allOk[g] => AllDone(g)
    /\ \A g \in Gens : bg[g] # "run" => todo[g] = {}
    /\ run.status = "done" => Concluded(run.gen)
    /\ look.gen # NoGen => Concluded(look.gen)
    /\ AnswerIsConsistent

IInv == TypeOK /\ LockInv /\ GenInv /\ OneLiveRun /\ RunInv /\ EndInv /\ DoneInv

-----------------------------------------------------------------------------
(* Types *)

\* The empty directory and the fresh server have the declared types.
LEMMA InitTyped == Init => TypeOK
<1>. SUFFICES ASSUME Init PROVE TypeOK
  OBVIOUS
<1>. USE BoundsAssumption DEF Init
<1>1. MemoryTypes
  BY DEF MemoryTypes
<1>2. RunTypes
  BY DEF RunTypes, Live
<1>3. JobTypes
  BY DEF JobTypes, NoJob
<1>4. LookTypes
  BY DEF LookTypes, Idle, NoMeta, MetaType
<1>5. FileTypes
  BY DEF FileTypes, RunType, MetaType, NoRun, NoMeta
<1>6. HistoryTypes
  <2>1. made \in 0..MaxGen /\ resumes \in 0..MaxResumes /\ stops \in 0..MaxStops
    OBVIOUS
  <2>2. orphaned \in BOOLEAN
    OBVIOUS
  <2>3. QED
    BY <2>1, <2>2 DEF HistoryTypes
<1>7. QED
  BY <1>1, <1>2, <1>3, <1>4, <1>5, <1>6 DEF TypeOK

\* A step of start_run keeps the memory of the server typed.
LEMMA StartMemory ==
    ASSUME MemoryTypes, HistoryTypes, NEW c \in Callers, StartRun(c) PROVE MemoryTypes'
<1>. USE BoundsAssumption DEF MemoryTypes, Step, Return, Acquire
<1>1. CASE CheckDuplicate(c)
  BY <1>1 DEF CheckDuplicate, HistoryTypes
<1>2. CASE CleanLogs(c) \/ CleanOutputs(c)
  BY <1>2 DEF CleanLogs, CleanOutputs
<1>3. CASE RejectStale(c) \/ MakeDirs(c)
  BY <1>3 DEF RejectStale, MakeDirs
<1>4. CASE SaveRunMeta(c)
  BY <1>4 DEF SaveRunMeta
<1>5. CASE SaveTaskMetas(c)
  BY <1>5 DEF SaveTaskMetas
<1>6. CASE SpawnRun(c) \/ SealStatic(c)
  BY <1>6 DEF SpawnRun, SealStatic
<1>7. CASE Insert(c)
  <2>1. gen[c] \in {NoGen} \cup Gens
    OBVIOUS
  <2>2. QED
    BY <1>7, <2>1 DEF Insert
<1>8. QED
  BY <1>1, <1>2, <1>3, <1>4, <1>5, <1>6, <1>7 DEF StartRun

\* So does every other step.
LEMMA MemoryTyped == ASSUME MemoryTypes, HistoryTypes, Next PROVE MemoryTypes'
<1>. USE DEF MemoryTypes
<1>1. ASSUME NEW c \in Callers, StartRun(c) PROVE MemoryTypes'
  BY <1>1, StartMemory
<1>2. ASSUME NEW g \in Gens, Background(g) PROVE MemoryTypes'
  BY <1>2 DEF Background, TaskRuns, TaskEnds, RunEnds, RunPanics, SaveVerdict, Leave, memory
<1>3. CASE Tools \/ Resume \/ GetStatus
  BY <1>3 DEF Tools, CancelRun, SealRun, CheckResume, LookAtRun, Resume, ResumeStarts, ResumeEnds,
     GetStatus, LookAtTask, Answer, memory
<1>4. CASE Stop
  BY <1>4 DEF Stop
<1>5. CASE Rest
  BY <1>5 DEF Rest, vars, memory
<1>6. QED
  BY <1>1, <1>2, <1>3, <1>4, <1>5 DEF Next

\* The order of a background task leads from one of its points to the next.
LEMMA AdvanceTyped ==
    ASSUME RunTypes, NEW g \in Gens, bg[g] \in Live, Advance(g)
    PROVE  /\ bg' \in [Gens -> {"none", "finished", "panicked", "lost"} \cup Live]
           /\ bg[g] = "run" => bg'[g] = "verdict"
           /\ bg[g] = "verdict" => bg'[g] = "leave"
           /\ bg[g] = "leave" => bg'[g] = "finished"
           /\ \A h \in Gens \ {g} : bg'[h] = bg[h]
BY DEF RunTypes, Advance, Then, Live

\* What a run keeps in memory stays typed.
LEMMA RunTyped == ASSUME MemoryTypes, RunTypes, GenInv, Next PROVE RunTypes'
<1>. USE DEF Live
<1>1. ASSUME NEW c \in Callers, SpawnRun(c) PROVE RunTypes'
  <2>1. gen[c] \in Gens
    BY <1>1 DEF SpawnRun, GenInv
  <2>2. QED
    BY <1>1, <2>1 DEF SpawnRun, RunTypes
<1>2. ASSUME NEW c \in Callers, SealStatic(c) PROVE RunTypes'
  <2>1. (bg[gen[c]] \in Live) \in BOOLEAN
    OBVIOUS
  <2>2. QED
    BY <1>2, <2>1 DEF SealStatic, RunTypes
<1>3. ASSUME NEW c \in Callers, StartRun(c), ~SpawnRun(c), ~SealStatic(c) PROVE RunTypes'
  BY <1>3 DEF StartRun, CheckDuplicate, CleanLogs, CleanOutputs, RejectStale, MakeDirs,
     SaveRunMeta, SaveTaskMetas, Insert, runVars, RunTypes
<1>4. ASSUME NEW g \in Gens, TaskRuns(g) PROVE RunTypes'
  BY <1>4 DEF TaskRuns, runVars, RunTypes
<1>5. ASSUME NEW g \in Gens, TaskEnds(g) PROVE RunTypes'
  <2>1. PICK t \in todo[g], s \in Terminal :
            /\ todo' = [todo EXCEPT ![g] = @ \ {t}]
            /\ allOk' = [allOk EXCEPT ![g] = @ /\ s = "done"]
            /\ token' = [token EXCEPT ![g] = @ \/ s = "failed"]
    BY <1>5 DEF TaskEnds
  <2>2. todo' \in [Gens -> SUBSET Tasks]
    BY <2>1 DEF RunTypes
  <2>3. allOk' \in [Gens -> BOOLEAN] /\ token' \in [Gens -> BOOLEAN]
    BY <2>1, Zenon DEF RunTypes
  <2>4. QED
    BY <1>5, <2>2, <2>3 DEF TaskEnds, RunTypes
<1>6. ASSUME NEW g \in Gens, RunEnds(g) PROVE RunTypes'
  <2>1. PICK noticed \in {FALSE, token[g]} : allOk' = [allOk EXCEPT ![g] = @ /\ ~noticed]
    BY <1>6 DEF RunEnds
  <2>2. allOk' \in [Gens -> BOOLEAN]
    BY <2>1, Zenon DEF RunTypes
  <2>3. QED
    BY <1>6, <2>2, AdvanceTyped DEF RunEnds, RunTypes
<1>7. ASSUME NEW g \in Gens, RunPanics(g) PROVE RunTypes'
  BY <1>7 DEF RunPanics, Dropped, RunTypes
<1>8. ASSUME NEW g \in Gens, SaveVerdict(g) PROVE RunTypes'
  BY <1>8, AdvanceTyped DEF SaveVerdict, RunTypes
<1>9. ASSUME NEW g \in Gens, Leave(g) PROVE RunTypes'
  BY <1>9, AdvanceTyped DEF Leave, Dropped, RunTypes
<1>10. CASE CancelRun \/ SealRun
  BY <1>10 DEF CancelRun, SealRun, RunTypes
<1>11. CASE CheckResume \/ LookAtRun \/ Resume \/ GetStatus
  BY <1>11 DEF CheckResume, LookAtRun, Resume, ResumeStarts, ResumeEnds, GetStatus, LookAtTask, Answer,
     runVars, RunTypes
<1>12. CASE Stop
  BY <1>12 DEF Stop, RunTypes
<1>13. CASE Rest
  BY <1>13 DEF Rest, vars, runVars, RunTypes
<1>14. QED
  BY <1>1, <1>2, <1>3, <1>4, <1>5, <1>6, <1>7, <1>8, <1>9, <1>10, <1>11, <1>12, <1>13
     DEF Next, Background, Tools

\* A resume works on a task of a generation.
LEMMA JobTyped == ASSUME JobTypes, FileTypes, Next PROVE JobTypes'
<1>. USE DEF JobTypes
<1>1. CASE CheckResume
  <2>1. PICK t \in Tasks :
            /\ Resumable(meta[t])
            /\ job' = [at |-> "spawned", task |-> t, gen |-> meta[t].gen]
    BY <1>1 DEF CheckResume
  <2>2. meta[t].gen \in Gens
    BY <2>1 DEF FileTypes, Resumable, Terminal
  <2>3. QED
    BY <2>1, <2>2
<1>2. CASE ResumeStarts
  BY <1>2 DEF ResumeStarts, NoJob
<1>3. CASE ResumeEnds \/ Stop
  BY <1>3 DEF ResumeEnds, Stop, NoJob
<1>4. ASSUME NEW c \in Callers, StartRun(c) PROVE JobTypes'
  BY <1>4 DEF StartRun, CheckDuplicate, CleanLogs, CleanOutputs, RejectStale, MakeDirs,
     SaveRunMeta, SaveTaskMetas, SpawnRun, Insert, SealStatic
<1>5. ASSUME NEW g \in Gens, Background(g) PROVE JobTypes'
  BY <1>5 DEF Background, TaskRuns, TaskEnds, RunEnds, RunPanics, SaveVerdict, Leave
<1>6. CASE CancelRun \/ SealRun \/ LookAtRun \/ GetStatus
  BY <1>6 DEF CancelRun, SealRun, LookAtRun, GetStatus, LookAtTask, Answer
<1>7. CASE Rest
  BY <1>7 DEF Rest, vars
<1>8. QED
  BY <1>1, <1>2, <1>3, <1>4, <1>5, <1>6, <1>7 DEF Next, Tools, Resume

\* An answer of get_status holds what was in the files.
LEMMA LookTyped == ASSUME LookTypes, FileTypes, Next PROVE LookTypes'
<1>. USE DEF LookTypes
<1>1. CASE LookAtRun
  <2>1. run.gen \in {NoGen} \cup Gens
    BY DEF FileTypes, RunType
  <2>2. QED
    BY <1>1, <2>1 DEF LookAtRun
<1>2. CASE LookAtTask
  <2>1. PICK t \in look.unread :
            look' = [look EXCEPT !.unread = @ \ {t}, !.seen = [@ EXCEPT ![t] = meta[t]]]
    BY <1>2 DEF LookAtTask
  <2>2. meta[t] \in MetaType
    BY DEF FileTypes
  <2>3. QED
    BY <2>1, <2>2
<1>3. CASE Answer \/ Stop
  <2>1. NoMeta \in MetaType
    BY DEF NoMeta, MetaType
  <2>2. QED
    BY <1>3, <2>1 DEF Answer, Stop, Idle
<1>4. ASSUME NEW c \in Callers, StartRun(c) PROVE LookTypes'
  BY <1>4 DEF StartRun, CheckDuplicate, CleanLogs, CleanOutputs, RejectStale, MakeDirs,
     SaveRunMeta, SaveTaskMetas, SpawnRun, Insert, SealStatic
<1>5. ASSUME NEW g \in Gens, Background(g) PROVE LookTypes'
  BY <1>5 DEF Background, TaskRuns, TaskEnds, RunEnds, RunPanics, SaveVerdict, Leave
<1>6. CASE CancelRun \/ SealRun \/ CheckResume \/ Resume
  BY <1>6 DEF CancelRun, SealRun, CheckResume, Resume, ResumeStarts, ResumeEnds
<1>7. CASE Rest
  BY <1>7 DEF Rest, vars
<1>8. QED
  BY <1>1, <1>2, <1>3, <1>4, <1>5, <1>6, <1>7 DEF Next, Tools, GetStatus

\* One task meta changes, to a value a file can have.
LEMMA MetaSaved ==
    ASSUME FileTypes, NEW t \in Tasks, NEW m \in MetaType, m.gen \in Gens,
           meta' = [meta EXCEPT ![t] = m]
    PROVE  meta' \in [Tasks -> MetaType]
           /\ \A u \in Tasks : meta'[u].status # "none" => meta'[u].gen \in Gens
BY DEF FileTypes

\* Whoever writes a file writes what it can hold.
LEMMA FilesTyped == ASSUME MemoryTypes, RunTypes, JobTypes, FileTypes, GenInv, Next PROVE FileTypes'
<1>. USE DEF FileTypes
<1>1. ASSUME NEW c \in Callers, CleanLogs(c) PROVE FileTypes'
  <2>1. NoMeta \in MetaType /\ NoMeta.status = "none"
    BY DEF NoMeta, MetaType
  <2>2. CASE meta' = [t \in Tasks |-> NoMeta] /\ litter' = litter \ {"logs"}
    BY <1>1, <2>1, <2>2 DEF CleanLogs
  <2>3. ASSUME NEW gone \in SUBSET Tasks, UNCHANGED litter,
               meta' = [t \in Tasks |-> IF t \in gone THEN NoMeta ELSE meta[t]]
        PROVE  FileTypes'
    BY <1>1, <2>1, <2>3 DEF CleanLogs
  <2>4. QED
    BY <1>1, <2>2, <2>3 DEF CleanLogs
<1>2. ASSUME NEW c \in Callers, CleanOutputs(c) \/ RejectStale(c) \/ MakeDirs(c) PROVE FileTypes'
  BY <1>2 DEF CleanOutputs, RejectStale, MakeDirs, files
<1>3. ASSUME NEW c \in Callers, SaveRunMeta(c) PROVE FileTypes'
  <2>1. gen[c] \in Gens
    BY <1>3 DEF SaveRunMeta, GenInv
  <2>2. QED
    BY <1>3, <2>1 DEF SaveRunMeta, RunType
<1>4. ASSUME NEW c \in Callers, SaveTaskMetas(c) PROVE FileTypes'
  <2>1. gen[c] \in Gens
    BY <1>4 DEF SaveTaskMetas, GenInv
  <2>2. Meta(gen[c], "pending") \in MetaType /\ Meta(gen[c], "pending").gen \in Gens
    BY <2>1 DEF Meta, MetaType
  <2>3. ASSUME NEW t \in left[c], meta' = [meta EXCEPT ![t] = Meta(gen[c], "pending")]
        PROVE  FileTypes'
    BY <1>4, <2>2, <2>3, MetaSaved DEF SaveTaskMetas, MemoryTypes
  <2>4. CASE UNCHANGED meta
    BY <1>4, <2>4 DEF SaveTaskMetas
  <2>5. QED
    BY <1>4, <2>3, <2>4 DEF SaveTaskMetas
<1>5. ASSUME NEW c \in Callers, CheckDuplicate(c) \/ SpawnRun(c) \/ Insert(c) \/ SealStatic(c)
      PROVE  FileTypes'
  BY <1>5 DEF CheckDuplicate, SpawnRun, Insert, SealStatic, files
<1>6. ASSUME NEW g \in Gens, TaskRuns(g) \/ TaskEnds(g) PROVE FileTypes'
  <2>1. PICK t \in todo[g], s \in {"running"} \cup Terminal :
            meta' \in {meta, [meta EXCEPT ![t] = Meta(g, s)]}
    BY <1>6 DEF TaskRuns, TaskEnds
  <2>2. Meta(g, s) \in MetaType /\ Meta(g, s).gen \in Gens
    BY DEF Meta, MetaType
  <2>3. t \in Tasks
    BY DEF RunTypes
  <2>4. litter' \in SUBSET {"logs", "outputs"} /\ UNCHANGED run
    BY <1>6 DEF TaskRuns, TaskEnds
  <2>5. CASE UNCHANGED meta
    BY <2>4, <2>5
  <2>6. CASE meta' = [meta EXCEPT ![t] = Meta(g, s)]
    BY <2>2, <2>3, <2>4, <2>6, MetaSaved
  <2>7. QED
    BY <2>1, <2>5, <2>6
<1>7. ASSUME NEW g \in Gens, SaveVerdict(g) PROVE FileTypes'
  BY <1>7 DEF SaveVerdict, RunType, Final
<1>8. ASSUME NEW g \in Gens, RunEnds(g) \/ RunPanics(g) \/ Leave(g) PROVE FileTypes'
  BY <1>8 DEF RunEnds, RunPanics, Leave, files
<1>9. CASE Resume
  <2>1. UNCHANGED run /\ litter' \in SUBSET {"logs", "outputs"}
    BY <1>9 DEF Resume, ResumeStarts, ResumeEnds
  <2>2. PICK s \in {"running"} \cup Final : ResumeSaves(s) \/ UNCHANGED meta
    BY <1>9 DEF Resume, ResumeStarts, ResumeEnds
  <2>3. job.task \in Tasks /\ job.gen \in Gens
    BY <1>9 DEF Resume, ResumeStarts, ResumeEnds, JobTypes
  <2>4. CASE meta' = meta
    BY <2>1, <2>4
  <2>5. CASE meta' = [meta EXCEPT ![job.task] = [gen |-> job.gen, status |-> s, resumed |-> TRUE]]
    <3>1. [gen |-> job.gen, status |-> s, resumed |-> TRUE] \in MetaType
      BY <2>3 DEF MetaType, Terminal, Final
    <3>2. QED
      BY <2>1, <2>3, <2>5, <3>1, MetaSaved
  <2>6. QED
    BY <2>2, <2>4, <2>5 DEF ResumeSaves
<1>10. CASE Tools \/ GetStatus \/ Stop
  BY <1>10 DEF Tools, CancelRun, SealRun, CheckResume, LookAtRun, GetStatus, LookAtTask, Answer, Stop,
     files
<1>11. CASE Rest
  BY <1>11 DEF Rest, vars, files
<1>12. QED
  BY <1>1, <1>2, <1>3, <1>4, <1>5, <1>6, <1>7, <1>8, <1>9, <1>10, <1>11
     DEF Next, StartRun, Background

\* Whether nobody will replace a Running status is a fact.
LEMMA OrphanTyped == ASSUME HistoryTypes, Next PROVE orphaned' \in BOOLEAN
<1>. USE DEF HistoryTypes, history
<1>1. ASSUME NEW c \in Callers, StartRun(c) PROVE orphaned' \in BOOLEAN
  BY <1>1 DEF StartRun, CheckDuplicate, CleanLogs, CleanOutputs, RejectStale, MakeDirs,
     SaveRunMeta, SaveTaskMetas, SpawnRun, Insert, SealStatic
<1>2. ASSUME NEW g \in Gens, Background(g) PROVE orphaned' \in BOOLEAN
  BY <1>2 DEF Background, TaskRuns, TaskEnds, RunEnds, RunPanics, SaveVerdict, Leave
<1>3. CASE Tools \/ Resume \/ GetStatus
  BY <1>3 DEF Tools, CancelRun, SealRun, CheckResume, LookAtRun, Resume, ResumeStarts, ResumeEnds,
     GetStatus, LookAtTask, Answer
<1>4. CASE Stop
  BY <1>4 DEF Stop
<1>5. CASE Rest
  BY <1>5 DEF Rest, vars
<1>6. QED
  BY <1>1, <1>2, <1>3, <1>4, <1>5 DEF Next

\* Failed saves of tasks are only ever added to the history.
LEMMA UnsavedGrows ==
    ASSUME RunTypes, HistoryTypes, Next
    PROVE  unsaved \subseteq unsaved' /\ unsaved' \in SUBSET (Gens \X Tasks)
<1>. USE DEF HistoryTypes, history
<1>1. ASSUME NEW c \in Callers, StartRun(c) PROVE UNCHANGED unsaved
  BY <1>1 DEF StartRun, CheckDuplicate, CleanLogs, CleanOutputs, RejectStale, MakeDirs,
     SaveRunMeta, SaveTaskMetas, SpawnRun, Insert, SealStatic
<1>2. ASSUME NEW g \in Gens, TaskEnds(g) PROVE \E t \in Tasks : unsaved' \in {unsaved, unsaved \cup {<<g, t>>}}
  BY <1>2 DEF TaskEnds, RunTypes
<1>3. ASSUME NEW g \in Gens, Background(g), ~TaskEnds(g) PROVE UNCHANGED unsaved
  BY <1>3 DEF Background, TaskRuns, RunEnds, RunPanics, SaveVerdict, Leave
<1>4. CASE Tools \/ Resume \/ GetStatus
  BY <1>4 DEF Tools, CancelRun, SealRun, CheckResume, LookAtRun, Resume, ResumeStarts, ResumeEnds,
     GetStatus, LookAtTask, Answer
<1>5. CASE Stop \/ Rest
  BY <1>5 DEF Stop, Rest, vars
<1>6. QED
  BY <1>1, <1>2, <1>3, <1>4, <1>5 DEF Next

\* The counters stay within their bounds.
LEMMA HistoryTyped == ASSUME RunTypes, HistoryTypes, Next PROVE HistoryTypes'
<1>. DEFINE Counters == made \in 0..MaxGen /\ resumes \in 0..MaxResumes /\ stops \in 0..MaxStops
<1>0. Counters
  BY DEF HistoryTypes
<1>. SUFFICES Counters'
  BY OrphanTyped, UnsavedGrows DEF HistoryTypes
<1>. USE BoundsAssumption DEF history
<1>1. ASSUME NEW c \in Callers, StartRun(c) PROVE Counters'
  <2>1. CASE CheckDuplicate(c)
    BY <1>0, <2>1 DEF CheckDuplicate
  <2>2. CASE CleanLogs(c) \/ CleanOutputs(c) \/ RejectStale(c) \/ MakeDirs(c)
    BY <1>0, <2>2 DEF CleanLogs, CleanOutputs, RejectStale, MakeDirs
  <2>3. CASE SaveRunMeta(c) \/ SaveTaskMetas(c) \/ SpawnRun(c) \/ Insert(c) \/ SealStatic(c)
    BY <1>0, <2>3 DEF SaveRunMeta, SaveTaskMetas, SpawnRun, Insert, SealStatic
  <2>4. QED
    BY <1>1, <2>1, <2>2, <2>3 DEF StartRun
<1>2. ASSUME NEW g \in Gens, Background(g) PROVE Counters'
  BY <1>0, <1>2 DEF Background, TaskRuns, TaskEnds, RunEnds, RunPanics, SaveVerdict, Leave
<1>3. CASE CheckResume
  BY <1>0, <1>3 DEF CheckResume
<1>4. CASE CancelRun \/ SealRun \/ LookAtRun \/ Resume \/ GetStatus
  BY <1>0, <1>4 DEF CancelRun, SealRun, LookAtRun, Resume, ResumeStarts, ResumeEnds,
     GetStatus, LookAtTask, Answer
<1>5. CASE Stop
  BY <1>0, <1>5 DEF Stop
<1>6. CASE Rest
  BY <1>0, <1>6 DEF Rest, vars
<1>7. QED
  BY <1>1, <1>2, <1>3, <1>4, <1>5, <1>6 DEF Next, Tools

\* Every step keeps the types.
LEMMA TypesKept == ASSUME TypeOK, GenInv, Next PROVE TypeOK'
BY MemoryTyped, RunTyped, JobTyped, LookTyped, FilesTyped, HistoryTyped DEF TypeOK

-----------------------------------------------------------------------------
(* The mutex and the generations *)

\* The invariant holds when the server has just started on an empty directory.
LEMMA InitHolds == Init => IInv
<1>. SUFFICES ASSUME Init PROVE IInv
  OBVIOUS
<1>. USE BoundsAssumption DEF Init
<1>1. TypeOK
  BY InitTyped
<1>2. LockInv
  BY DEF LockInv, Preflight
<1>3. GenInv
  BY DEF GenInv, Preflight
<1>4. OneLiveRun
  BY DEF OneLiveRun, LiveRuns, Live
<1>5. RunInv
  BY DEF RunInv, RunStatusIsTrue, NoRun, Final
<1>6. EndInv
  BY DEF EndInv, NoMeta, NoJob, Terminal
<1>7. DoneInv
  BY DEF DoneInv, AnswerIsConsistent, NoRun, Idle
<1>8. QED
  BY <1>1, <1>2, <1>3, <1>4, <1>5, <1>6, <1>7 DEF IInv

\* A call inside the mutex goes on inside it, is inserted, or gives it back.
LEMMA StartLock ==
    ASSUME MemoryTypes, LockInv, NEW c \in Callers, StartRun(c) PROVE LockInv'
<1>. USE DEF MemoryTypes, LockInv, Preflight, Step, Return
<1>1. CASE CheckDuplicate(c)
  BY <1>1 DEF CheckDuplicate, Acquire
<1>2. CASE CleanLogs(c)
  BY <1>2 DEF CleanLogs
<1>3. CASE CleanOutputs(c)
  BY <1>3 DEF CleanOutputs
<1>4. CASE RejectStale(c)
  BY <1>4 DEF RejectStale
<1>5. CASE MakeDirs(c)
  BY <1>5 DEF MakeDirs
<1>6. CASE SaveRunMeta(c)
  BY <1>6 DEF SaveRunMeta
<1>7. CASE SaveTaskMetas(c)
  BY <1>7 DEF SaveTaskMetas
<1>8. CASE SpawnRun(c)
  BY <1>8 DEF SpawnRun
<1>9. CASE Insert(c)
  BY <1>9 DEF Insert
<1>10. CASE SealStatic(c)
  BY <1>10 DEF SealStatic
<1>11. QED
  BY <1>1, <1>2, <1>3, <1>4, <1>5, <1>6, <1>7, <1>8, <1>9, <1>10 DEF StartRun

\* Nothing else takes the mutex or registers a run.
LEMMA LockKept == ASSUME MemoryTypes, LockInv, Next PROVE LockInv'
<1>. USE DEF LockInv
<1>1. ASSUME NEW c \in Callers, StartRun(c) PROVE LockInv'
  BY <1>1, StartLock
<1>2. ASSUME NEW g \in Gens, Background(g) PROVE LockInv'
  BY <1>2 DEF Background, TaskRuns, TaskEnds, RunEnds, RunPanics, SaveVerdict, Leave, memory
<1>3. CASE Tools \/ Resume \/ GetStatus
  BY <1>3 DEF Tools, CancelRun, SealRun, CheckResume, LookAtRun, Resume, ResumeStarts, ResumeEnds,
     GetStatus, LookAtTask, Answer, memory
<1>4. CASE Stop
  BY <1>4 DEF Stop, Preflight
<1>5. CASE Rest
  BY <1>5 DEF Rest, vars, memory
<1>6. QED
  BY <1>1, <1>2, <1>3, <1>4, <1>5 DEF Next

\* While a call prepares the directory no run of it executes.
LEMMA NoRunInside ==
    ASSUME LockInv, OneLiveRun, NEW c \in Callers, at[c] \in Preflight PROVE LiveRuns = {}
BY DEF LockInv, OneLiveRun, LiveRuns, Preflight

\* What a step of start_run does to the generations.
LEMMA StartGen ==
    ASSUME MemoryTypes, RunTypes, HistoryTypes, LockInv, GenInv, NEW c \in Callers, StartRun(c)
    PROVE  GenInv'
<1>. USE DEF MemoryTypes, GenInv, Preflight, Step, Return, runVars, history
<1>1. CASE CheckDuplicate(c)
  <2>1. made \in 0..MaxGen /\ made + 1 \in Gens
    BY <1>1, BoundsAssumption DEF CheckDuplicate, HistoryTypes
  <2>2. \A d \in Callers : gen[d] # made + 1
    BY <2>1, BoundsAssumption
  <2>3. QED
    BY <1>1, <2>1, <2>2, BoundsAssumption DEF CheckDuplicate
<1>2. CASE CleanLogs(c)
  BY <1>2 DEF CleanLogs
<1>3. CASE CleanOutputs(c)
  BY <1>3 DEF CleanOutputs
<1>4. CASE RejectStale(c)
  BY <1>4 DEF RejectStale
<1>5. CASE MakeDirs(c)
  BY <1>5 DEF MakeDirs
<1>6. CASE SaveRunMeta(c)
  BY <1>6 DEF SaveRunMeta
<1>7. CASE SaveTaskMetas(c)
  BY <1>7 DEF SaveTaskMetas
<1>8. CASE SpawnRun(c)
  <2>1. \A d \in Callers : at'[d] \in Preflight => d # c /\ gen[d] # gen[c] /\ at[d] = at'[d]
    BY <1>8 DEF SpawnRun
  <2>2. made \in 0..MaxGen
    BY DEF HistoryTypes
  <2>3. \A g \in Gens : g # gen[c] => bg'[g] = bg[g]
    BY <1>8 DEF SpawnRun, RunTypes
  <2>4. \A d \in Callers : at[d] # "idle" <=> at'[d] # "idle"
    BY <1>8 DEF SpawnRun
  <2>5. QED
    BY <1>8, <2>1, <2>2, <2>3, <2>4, BoundsAssumption DEF SpawnRun
<1>9. CASE Insert(c)
  BY <1>9 DEF Insert
<1>10. CASE SealStatic(c)
  BY <1>10 DEF SealStatic
<1>11. QED
  BY <1>1, <1>2, <1>3, <1>4, <1>5, <1>6, <1>7, <1>8, <1>9, <1>10 DEF StartRun

\* A background task only moves on a generation that was spawned.
LEMMA BackgroundMoves ==
    ASSUME RunTypes, NEW g \in Gens, Background(g)
    PROVE  /\ bg[g] # "none" /\ bg'[g] # "none"
           /\ bg' \in [Gens -> {"none", "finished", "panicked", "lost"} \cup Live]
           /\ \A h \in Gens \ {g} : bg'[h] = bg[h]
           /\ UNCHANGED <<locked, at, gen, left, made>>
BY AdvanceTyped DEF Background, TaskRuns, TaskEnds, RunEnds, RunPanics, SaveVerdict, Leave, Live,
   RunTypes, runVars, memory, history

\* Generations stay fresh.
LEMMA GenKept == ASSUME TypeOK, LockInv, GenInv, Next PROVE GenInv'
<1>. USE DEF GenInv
<1>1. ASSUME NEW c \in Callers, StartRun(c) PROVE GenInv'
  BY <1>1, StartGen DEF TypeOK
<1>2. ASSUME NEW g \in Gens, Background(g) PROVE GenInv'
  <2>1. \A c \in Callers : at[c] \in Preflight => gen[c] # g /\ gen[c] \in Gens
    BY <1>2, BackgroundMoves DEF TypeOK, Preflight
  <2>2. QED
    BY <1>2, <2>1, BackgroundMoves DEF TypeOK
<1>3. CASE Tools \/ Resume \/ GetStatus
  BY <1>3 DEF Tools, CancelRun, SealRun, CheckResume, LookAtRun, Resume, ResumeStarts, ResumeEnds,
     GetStatus, LookAtTask, Answer, memory, runVars, history
<1>4. CASE Stop
  BY <1>4 DEF Stop, Preflight, Live
<1>5. CASE Rest
  BY <1>5 DEF Rest, vars, memory, runVars, history
<1>6. QED
  BY <1>1, <1>2, <1>3, <1>4, <1>5 DEF Next

-----------------------------------------------------------------------------
(* One run at a time *)

\* Only the insertion and the background tasks touch what the registry says of
\* a live run.
LEMMA OneLiveKept == ASSUME TypeOK, LockInv, GenInv, OneLiveRun, Next PROVE OneLiveRun'
<1>. USE DEF OneLiveRun, LiveRuns
<1>0. MemoryTypes /\ RunTypes
  BY DEF TypeOK
<1>1. ASSUME NEW c \in Callers, CheckDuplicate(c) PROVE OneLiveRun'
  BY <1>1 DEF CheckDuplicate, runVars
<1>2. ASSUME NEW c \in Callers,
             CleanLogs(c) \/ CleanOutputs(c) \/ RejectStale(c) \/ MakeDirs(c) \/ SaveRunMeta(c)
             \/ SaveTaskMetas(c)
      PROVE  OneLiveRun'
  <2>1. at[c] \in Preflight /\ bg' = bg
    BY <1>2 DEF CleanLogs, CleanOutputs, RejectStale, MakeDirs, SaveRunMeta, SaveTaskMetas, Preflight,
       runVars
  <2>2. QED
    BY <2>1, NoRunInside
<1>3. ASSUME NEW c \in Callers, SpawnRun(c) PROVE OneLiveRun'
  <2>1. LiveRuns = {}
    BY <1>3, NoRunInside DEF SpawnRun, Preflight
  <2>2. \A g \in LiveRuns' : g = gen[c]
    BY <1>0, <1>3, <2>1 DEF SpawnRun, RunTypes
  <2>3. locked = {c}
    BY <1>0, <1>3 DEF SpawnRun, Preflight, LockInv, MemoryTypes
  <2>4. QED
    BY <1>0, <1>3, <2>2, <2>3 DEF SpawnRun, Step, MemoryTypes
<1>4. ASSUME NEW c \in Callers, Insert(c) PROVE OneLiveRun'
  <2>1. locked = {c} /\ entry = NoGen
    BY <1>0, <1>4 DEF Insert, LockInv, MemoryTypes
  <2>2. QED
    BY <1>4, <2>1 DEF Insert, runVars
<1>5. ASSUME NEW c \in Callers, SealStatic(c) PROVE OneLiveRun'
  <2>1. c \notin locked
    BY <1>5 DEF SealStatic, LockInv, Preflight
  <2>2. QED
    BY <1>0, <1>5, <2>1 DEF SealStatic, Return, MemoryTypes
<1>6. ASSUME NEW g \in Gens, Background(g), ~Leave(g) PROVE OneLiveRun'
  <2>1. g \in LiveRuns /\ UNCHANGED memory
    BY <1>6 DEF Background, TaskRuns, TaskEnds, RunEnds, RunPanics, SaveVerdict, Live
  <2>2. QED
    BY <1>0, <1>6, <2>1, BackgroundMoves DEF memory
<1>7. ASSUME NEW g \in Gens, Leave(g) PROVE OneLiveRun'
  <2>1. entry = g /\ \A h \in LiveRuns : h = g
    BY <1>7 DEF Leave, Live
  <2>2. bg'[g] = "finished" /\ \A h \in Gens \ {g} : bg'[h] = bg[h]
    BY <1>0, <1>7, AdvanceTyped DEF Leave, Live
  <2>3. QED
    BY <2>1, <2>2 DEF Live
<1>8. CASE CancelRun \/ SealRun
  BY <1>8 DEF CancelRun, SealRun
<1>9. CASE CheckResume \/ LookAtRun \/ Resume \/ GetStatus
  BY <1>9 DEF CheckResume, LookAtRun, Resume, ResumeStarts, ResumeEnds, GetStatus, LookAtTask, Answer,
     memory, runVars
<1>10. CASE Stop
  BY <1>10 DEF Stop, Live
<1>11. CASE Rest
  BY <1>11 DEF Rest, vars, memory, runVars
<1>12. QED
  BY <1>1, <1>2, <1>3, <1>4, <1>5, <1>6, <1>7, <1>8, <1>9, <1>10, <1>11
     DEF Next, StartRun, Background, Tools

\* run.meta.json names the run that executes.
LEMMA RunKept ==
    ASSUME TypeOK, LockInv, GenInv, OneLiveRun, RunInv, Next PROVE RunInv'
<1>. USE DEF RunInv, RunStatusIsTrue
<1>0. MemoryTypes /\ RunTypes
  BY DEF TypeOK
<1>1. ASSUME NEW c \in Callers, CheckDuplicate(c) PROVE RunInv'
  <2>1. \A d \in Callers : at[d] \notin {"tasks", "spawn"}
    BY <1>1 DEF CheckDuplicate, LockInv, Preflight
  <2>2. QED
    BY <1>0, <1>1, <2>1 DEF CheckDuplicate, runVars, files, MemoryTypes
<1>2. ASSUME NEW c \in Callers,
             CleanLogs(c) \/ CleanOutputs(c) \/ RejectStale(c) \/ MakeDirs(c)
      PROVE  RunInv'
  <2>1. UNCHANGED <<bg, run, orphaned>> /\ at[c] \in {"clean", "outputs", "dirs"}
    BY <1>2 DEF CleanLogs, CleanOutputs, RejectStale, MakeDirs, runVars, files, history
  <2>2. at'[c] \notin {"tasks", "spawn"} /\ \A d \in Callers \ {c} : at'[d] = at[d] /\ gen'[d] = gen[d]
    BY <1>0, <1>2 DEF CleanLogs, CleanOutputs, RejectStale, MakeDirs, Step, Return, MemoryTypes
  <2>3. QED
    BY <2>1, <2>2
<1>3. ASSUME NEW c \in Callers, SaveRunMeta(c) PROVE RunInv'
  <2>1. LiveRuns = {} /\ gen[c] \in Gens /\ \A d \in Callers \ {c} : at[d] \notin {"tasks", "spawn"}
    BY <1>3, NoRunInside DEF SaveRunMeta, Preflight, LockInv, GenInv
  <2>2. \A d \in Callers \ {c} : at'[d] = at[d] /\ gen'[d] = gen[d]
    BY <1>0, <1>3 DEF SaveRunMeta, Step, Return, MemoryTypes
  <2>3. \A g \in Gens : bg'[g] \notin {"run", "verdict"}
    BY <1>3, <2>1 DEF SaveRunMeta, runVars, LiveRuns, Live
  <2>4. CASE Return(c) /\ UNCHANGED <<run, orphaned>>
    <3>1. at'[c] = "idle"
      BY <1>0, <2>4 DEF Return, MemoryTypes
    <3>2. QED
      BY <1>3, <2>1, <2>2, <2>3, <2>4, <3>1 DEF SaveRunMeta, runVars
  <2>5. CASE ~(Return(c) /\ UNCHANGED <<run, orphaned>>)
    <3>1. at'[c] = "tasks" /\ gen'[c] = gen[c] /\ run' = [gen |-> gen[c], status |-> "running", by |-> gen[c]]
      BY <1>0, <1>3, <2>5 DEF SaveRunMeta, Step, MemoryTypes
    <3>2. QED
      BY <2>1, <2>2, <2>3, <3>1 DEF Final
  <2>6. QED
    BY <2>4, <2>5
<1>4. ASSUME NEW c \in Callers, SaveTaskMetas(c) PROVE RunInv'
  <2>1. UNCHANGED <<bg, run>> /\ at[c] = "tasks"
    BY <1>4 DEF SaveTaskMetas, runVars
  <2>2. \A d \in Callers \ {c} : at'[d] = at[d] /\ gen'[d] = gen[d]
    BY <1>0, <1>4 DEF SaveTaskMetas, Step, Return, MemoryTypes
  <2>3. \/ at'[c] \in {"tasks", "spawn"} /\ gen'[c] = gen[c] /\ UNCHANGED orphaned
        \/ at'[c] = "idle" /\ orphaned' = TRUE
    BY <1>0, <1>4 DEF SaveTaskMetas, Step, Return, MemoryTypes
  <2>4. CASE at'[c] \in {"tasks", "spawn"} /\ gen'[c] = gen[c] /\ UNCHANGED orphaned
    BY <2>1, <2>2, <2>4
  <2>5. CASE at'[c] = "idle" /\ orphaned' = TRUE
    BY <2>1, <2>2, <2>5
  <2>6. QED
    BY <2>3, <2>4, <2>5
<1>5. ASSUME NEW c \in Callers, SpawnRun(c) PROVE RunInv'
  <2>1. LiveRuns = {} /\ run.gen = gen[c] /\ run.status = "running" /\ gen[c] \in Gens
    BY <1>5, NoRunInside DEF SpawnRun, Preflight, GenInv
  <2>2. at'[c] = "insert" /\ \A d \in Callers \ {c} : at'[d] = at[d] /\ gen'[d] = gen[d]
    BY <1>0, <1>5 DEF SpawnRun, Step, MemoryTypes
  <2>3. bg'[gen[c]] = "run" /\ \A g \in Gens : g # gen[c] => bg'[g] = bg[g]
    BY <1>0, <1>5, <2>1 DEF SpawnRun, RunTypes
  <2>4. \A g \in Gens : g # gen[c] => bg'[g] \notin {"run", "verdict"}
    BY <2>1, <2>3 DEF LiveRuns, Live
  <2>5. run' = run
    BY <1>5 DEF SpawnRun, files
  <2>6. QED
    BY <2>1, <2>2, <2>3, <2>4, <2>5 DEF Final
<1>6. ASSUME NEW c \in Callers, Insert(c) \/ SealStatic(c) PROVE RunInv'
  <2>1. UNCHANGED <<bg, run, orphaned>> /\ at[c] \in {"insert", "seal"}
    BY <1>6 DEF Insert, SealStatic, runVars, files, history
  <2>2. at'[c] \in {"seal", "idle"} /\ \A d \in Callers \ {c} : at'[d] = at[d] /\ gen'[d] = gen[d]
    BY <1>0, <1>6 DEF Insert, SealStatic, Return, MemoryTypes
  <2>3. QED
    BY <2>1, <2>2
<1>7. ASSUME NEW g \in Gens, Background(g) PROVE RunInv'
  <2>1. UNCHANGED <<at, gen>> /\ \A c \in Callers : at[c] \notin {"tasks", "spawn"}
    <3>1. g \in LiveRuns /\ UNCHANGED <<at, gen>>
      BY <1>7 DEF Background, TaskRuns, TaskEnds, RunEnds, RunPanics, SaveVerdict, Leave, LiveRuns, Live,
         memory
    <3>2. QED
      BY <3>1, NoRunInside DEF Preflight
  <2>2. CASE TaskRuns(g) \/ TaskEnds(g)
    BY <2>1, <2>2 DEF TaskRuns, TaskEnds, runVars, history
  <2>3. CASE RunEnds(g)
    BY <1>0, <2>1, <2>3, AdvanceTyped DEF RunEnds, files, history, Live
  <2>4. CASE RunPanics(g)
    <3>1. bg'[g] = "panicked" /\ \A h \in Gens \ {g} : bg'[h] = bg[h]
      BY <1>0, <2>4 DEF RunPanics, RunTypes
    <3>2. run' = run /\ orphaned' = TRUE
      BY <2>4 DEF RunPanics, files
    <3>3. run.gen = g /\ run.status = "running"
      BY <2>4 DEF RunPanics
    <3>4. QED
      BY <2>1, <3>1, <3>2, <3>3 DEF Final
  <2>5. CASE SaveVerdict(g)
    <3>1. bg'[g] = "leave" /\ \A h \in Gens \ {g} : bg'[h] = bg[h]
      BY <1>0, <2>5, AdvanceTyped DEF SaveVerdict, Live
    <3>2. run.gen = g /\ run.status = "running" /\ \A h \in Gens \ {g} : bg[h] \notin {"run", "verdict"}
      BY <2>5 DEF SaveVerdict
    <3>3. \/ run'.gen = g /\ run'.status \in Final /\ run'.by = g
          \/ run' = run /\ orphaned' = TRUE
      BY <2>5, <3>2 DEF SaveVerdict, Final
    <3>4. QED
      BY <2>1, <3>1, <3>2, <3>3 DEF Final
  <2>6. CASE Leave(g)
    <3>1. bg'[g] = "finished" /\ \A h \in Gens \ {g} : bg'[h] = bg[h]
      BY <1>0, <2>6, AdvanceTyped DEF Leave, Live
    <3>2. bg[g] = "leave" /\ UNCHANGED <<run, orphaned>>
      BY <2>6 DEF Leave, files, history
    <3>3. QED
      BY <2>1, <3>1, <3>2 DEF Final
  <2>7. QED
    BY <1>7, <2>2, <2>3, <2>4, <2>5, <2>6 DEF Background
<1>8. CASE Tools \/ Resume \/ GetStatus
  BY <1>8 DEF Tools, CancelRun, SealRun, CheckResume, LookAtRun, Resume, ResumeStarts, ResumeEnds,
     GetStatus, LookAtTask, Answer, memory, runVars, files, history
<1>9. CASE Stop
  <2>1. \A g \in Gens : bg'[g] \notin {"run", "verdict"}
    BY <1>9 DEF Stop, Live
  <2>2. \A c \in Callers : at'[c] = "idle"
    BY <1>9 DEF Stop
  <2>3. run' = run /\ (run.status = "running" => orphaned')
    BY <1>9 DEF Stop, files
  <2>4. QED
    BY <2>1, <2>2, <2>3 DEF Final
<1>10. CASE Rest
  BY <1>10 DEF Rest, vars, memory, runVars, files, history
<1>11. QED
  BY <1>1, <1>2, <1>3, <1>4, <1>5, <1>6, <1>7, <1>8, <1>9, <1>10 DEF Next, StartRun

-----------------------------------------------------------------------------
(* What is over stays over *)

\* Spawning gives a generation that left no trace all its tasks.
LEMMA Spawned ==
    ASSUME RunTypes, GenInv, NEW c \in Callers, SpawnRun(c)
    PROVE  /\ gen[c] \in Gens /\ bg[gen[c]] = "none"
           /\ bg'[gen[c]] = "run" /\ todo'[gen[c]] = Tasks
           /\ \A g \in Gens : g # gen[c] => bg'[g] = bg[g] /\ todo'[g] = todo[g]
           /\ UNCHANGED <<allOk, job, look, run, meta>>
BY DEF SpawnRun, RunTypes, GenInv, Preflight, files

\* A task that has ended in a file or in the hands of a resume has ended in its
\* generation.
LEMMA EndKept == ASSUME TypeOK, GenInv, EndInv, Next PROVE EndInv'
<1>. USE DEF EndInv
<1>0. RunTypes /\ FileTypes /\ JobTypes
  BY DEF TypeOK
<1>1. ASSUME NEW c \in Callers, SpawnRun(c) PROVE EndInv'
  BY <1>0, <1>1, Spawned DEF FileTypes, JobTypes, Terminal
<1>2. ASSUME NEW c \in Callers, CleanLogs(c) \/ SaveTaskMetas(c) PROVE EndInv'
  <2>1. UNCHANGED <<bg, todo, job>>
    BY <1>2 DEF CleanLogs, SaveTaskMetas, runVars
  <2>2. \A t \in Tasks : meta'[t].status \in Terminal => meta'[t] = meta[t]
    BY <1>0, <1>2 DEF CleanLogs, SaveTaskMetas, FileTypes, NoMeta, Meta, Terminal
  <2>3. QED
    BY <2>1, <2>2
<1>3. ASSUME NEW c \in Callers, StartRun(c), ~SpawnRun(c), ~CleanLogs(c), ~SaveTaskMetas(c)
      PROVE  EndInv'
  BY <1>3 DEF StartRun, CheckDuplicate, CleanOutputs, RejectStale, MakeDirs, SaveRunMeta, Insert,
     SealStatic, runVars, files
<1>4. ASSUME NEW g \in Gens, TaskRuns(g) PROVE EndInv'
  <2>1. PICK t \in todo[g] : meta' = [meta EXCEPT ![t] = Meta(g, "running")]
    BY <1>4 DEF TaskRuns
  <2>2. QED
    BY <1>0, <1>4, <2>1 DEF TaskRuns, runVars, FileTypes, Meta, Terminal
<1>5. ASSUME NEW g \in Gens, TaskEnds(g) PROVE EndInv'
  <2>1. PICK t \in todo[g], s \in Terminal :
            /\ meta' \in {meta, [meta EXCEPT ![t] = Meta(g, s)]}
            /\ todo' = [todo EXCEPT ![g] = @ \ {t}]
    BY <1>5 DEF TaskEnds
  <2>2. t \in Tasks /\ bg[g] = "run" /\ UNCHANGED <<bg, job>>
    BY <1>0, <1>5 DEF TaskEnds, RunTypes
  <2>3. (meta'[t].gen = g \/ meta'[t] = meta[t]) /\ \A u \in Tasks \ {t} : meta'[u] = meta[u]
    BY <1>0, <2>1, <2>2 DEF FileTypes, Meta
  <2>4. t \notin todo'[g] /\ \A h \in Gens : todo'[h] \subseteq todo[h]
    BY <1>0, <2>1 DEF RunTypes
  <2>5. QED
    BY <1>0, <2>2, <2>3, <2>4 DEF FileTypes, JobTypes, Terminal
<1>6. ASSUME NEW g \in Gens, RunEnds(g) \/ SaveVerdict(g) PROVE EndInv'
  <2>1. \A h \in Gens : bg[h] # "none" => bg'[h] # "none"
    BY <1>0, <1>6, BackgroundMoves DEF Background
  <2>2. UNCHANGED <<todo, meta, job>>
    BY <1>6 DEF RunEnds, SaveVerdict, files
  <2>3. QED
    BY <1>0, <2>1, <2>2 DEF FileTypes, JobTypes, Terminal
<1>7. ASSUME NEW g \in Gens, RunPanics(g) \/ Leave(g) PROVE EndInv'
  <2>1. \A h \in Gens : bg[h] # "none" => bg'[h] # "none"
    BY <1>0, <1>7, BackgroundMoves DEF Background
  <2>2. UNCHANGED <<meta, job>> /\ \A h \in Gens : todo'[h] \subseteq todo[h]
    BY <1>0, <1>7 DEF RunPanics, Leave, Dropped, files, RunTypes
  <2>3. QED
    BY <1>0, <2>1, <2>2 DEF FileTypes, JobTypes, Terminal
<1>8. CASE CheckResume
  BY <1>0, <1>8 DEF CheckResume, Resumable, runVars, files
<1>9. CASE Resume
  <2>1. job.task \in Tasks /\ bg[job.gen] # "none" /\ job.task \notin todo[job.gen]
    BY <1>0, <1>9 DEF Resume, ResumeStarts, ResumeEnds, JobTypes
  <2>2. \A t \in Tasks : meta'[t] = meta[t] \/ (t = job.task /\ meta'[t].gen = job.gen)
    <3>1. PICK s \in {"running"} \cup Final : ResumeSaves(s) \/ UNCHANGED meta
      BY <1>9 DEF Resume, ResumeStarts, ResumeEnds
    <3>2. QED
      BY <1>0, <3>1 DEF ResumeSaves, FileTypes
  <2>3. UNCHANGED <<bg, todo>> /\ (job'.at # "idle" => job'.gen = job.gen /\ job'.task = job.task)
    BY <1>0, <1>9 DEF Resume, ResumeStarts, ResumeEnds, runVars, NoJob, JobTypes
  <2>4. QED
    BY <2>1, <2>2, <2>3
<1>10. CASE CancelRun \/ SealRun \/ LookAtRun \/ GetStatus
  BY <1>10 DEF CancelRun, SealRun, LookAtRun, GetStatus, LookAtTask, Answer, runVars, files
<1>11. CASE Stop
  <2>1. \A g \in Gens : todo'[g] = {} /\ (bg[g] # "none" => bg'[g] # "none")
    BY <1>11 DEF Stop
  <2>2. UNCHANGED meta /\ job'.at = "idle"
    BY <1>11 DEF Stop, files, NoJob
  <2>3. QED
    BY <1>0, <2>1, <2>2 DEF FileTypes, Terminal
<1>12. CASE Rest
  BY <1>12 DEF Rest, vars, runVars, files
<1>13. QED
  BY <1>1, <1>2, <1>3, <1>4, <1>5, <1>6, <1>7, <1>8, <1>9, <1>10, <1>11, <1>12
     DEF Next, StartRun, Background, Tools

\* Whoever writes the meta of a generation that was spawned is its own running
\* coordinator, or a resume that says so.
LEMMA MetaOf ==
    ASSUME TypeOK, GenInv, Next, NEW g \in Gens, bg[g] # "none", ~TaskRuns(g), ~TaskEnds(g),
           NEW t \in Tasks, meta'[t] # meta[t]
    PROVE  meta'[t].gen # g \/ meta'[t].resumed
<1>0. RunTypes /\ FileTypes
  BY DEF TypeOK
<1>1. ASSUME NEW c \in Callers, CleanLogs(c) PROVE meta'[t].gen # g
  BY <1>0, <1>1 DEF CleanLogs, NoMeta, FileTypes
<1>2. ASSUME NEW c \in Callers, SaveTaskMetas(c) PROVE meta'[t].gen # g
  <2>1. gen[c] # g
    BY <1>2 DEF SaveTaskMetas, GenInv, Preflight
  <2>2. QED
    BY <1>0, <1>2, <2>1 DEF SaveTaskMetas, FileTypes, Meta
<1>3. ASSUME NEW h \in Gens, TaskRuns(h) \/ TaskEnds(h) PROVE meta'[t].gen # g
  BY <1>0, <1>3 DEF TaskRuns, TaskEnds, FileTypes, Meta
<1>4. CASE Resume
  <2>1. PICK s \in {"running"} \cup Final : ResumeSaves(s) \/ UNCHANGED meta
    BY <1>4 DEF Resume, ResumeStarts, ResumeEnds
  <2>2. QED
    BY <1>0, <2>1 DEF ResumeSaves, FileTypes
<1>5. ASSUME NEW c \in Callers, StartRun(c), ~CleanLogs(c), ~SaveTaskMetas(c) PROVE FALSE
  BY <1>5 DEF StartRun, CheckDuplicate, CleanOutputs, RejectStale, MakeDirs, SaveRunMeta, SpawnRun,
     Insert, SealStatic, files
<1>6. ASSUME NEW h \in Gens, Background(h), ~TaskRuns(h), ~TaskEnds(h) PROVE FALSE
  BY <1>6 DEF Background, RunEnds, RunPanics, SaveVerdict, Leave, files
<1>7. ASSUME Tools \/ GetStatus \/ Stop PROVE FALSE
  BY <1>7 DEF Tools, CancelRun, SealRun, CheckResume, LookAtRun, GetStatus, LookAtTask, Answer, Stop,
     files
<1>8. ASSUME Rest PROVE FALSE
  BY <1>8 DEF Rest, vars, files
<1>9. QED
  BY <1>1, <1>2, <1>3, <1>4, <1>5, <1>6, <1>7, <1>8 DEF Next

\* What is done stays done, as long as the generation's own tasks stand still.
LEMMA DoneStays ==
    ASSUME TypeOK, GenInv, Next, NEW g \in Gens, bg[g] # "none", ~TaskRuns(g), ~TaskEnds(g),
           AllDone(g), todo[g] \subseteq todo'[g]
    PROVE  AllDone(g)'
BY MetaOf, UnsavedGrows DEF AllDone, DoneOrUnsaved, TypeOK

\* A generation that goes on executing keeps its tasks, unless one ends.
LEMMA LoopFrame ==
    ASSUME TypeOK, GenInv, Next, NEW g \in Gens, ~TaskEnds(g), bg[g] # "none",
           bg'[g] \in {"run", "verdict"}
    PROVE  bg[g] \in {"run", "verdict"} /\ todo'[g] = todo[g] /\ (allOk'[g] => allOk[g])
<1>0. RunTypes
  BY DEF TypeOK
<1>. DEFINE Same == bg[g] \in {"run", "verdict"} /\ todo'[g] = todo[g] /\ (allOk'[g] => allOk[g])
<1>. SUFFICES Same
  OBVIOUS
<1>1. ASSUME NEW c \in Callers, SpawnRun(c) PROVE Same
  BY <1>0, <1>1, Spawned
<1>2. ASSUME NEW c \in Callers, StartRun(c), ~SpawnRun(c) PROVE Same
  BY <1>2 DEF StartRun, CheckDuplicate, CleanLogs, CleanOutputs, RejectStale, MakeDirs, SaveRunMeta,
     SaveTaskMetas, Insert, SealStatic, runVars
<1>3. ASSUME NEW h \in Gens, TaskRuns(h) PROVE Same
  BY <1>3 DEF TaskRuns, runVars
<1>4. ASSUME NEW h \in Gens, TaskEnds(h) PROVE Same
  <2>1. h # g
    BY <1>4
  <2>2. bg' = bg /\ todo'[g] = todo[g] /\ allOk'[g] = allOk[g]
    BY <1>0, <1>4, <2>1 DEF TaskEnds, RunTypes
  <2>3. QED
    BY <2>2
<1>5. ASSUME NEW h \in Gens, RunEnds(h) PROVE Same
  <2>1. bg[g] \in {"run", "verdict"} /\ todo' = todo
    BY <1>0, <1>5, AdvanceTyped DEF RunEnds, Live
  <2>2. PICK noticed \in {FALSE, token[h]} : allOk' = [allOk EXCEPT ![h] = @ /\ ~noticed]
    BY <1>5 DEF RunEnds
  <2>3. allOk'[g] => allOk[g]
    BY <1>0, <2>2, Zenon DEF RunTypes
  <2>4. QED
    BY <2>1, <2>3
<1>6. ASSUME NEW h \in Gens, RunPanics(h) PROVE Same
  <2>1. h # g
    BY <1>0, <1>6 DEF RunPanics, RunTypes
  <2>2. QED
    BY <1>0, <1>6, <2>1 DEF RunPanics, Dropped, RunTypes
<1>7. ASSUME NEW h \in Gens, SaveVerdict(h) PROVE Same
  BY <1>0, <1>7, AdvanceTyped DEF SaveVerdict, Live
<1>8. ASSUME NEW h \in Gens, Leave(h) PROVE Same
  <2>1. h # g /\ bg'[g] = bg[g]
    BY <1>0, <1>8, AdvanceTyped DEF Leave, Live
  <2>2. QED
    BY <1>0, <1>8, <2>1 DEF Leave, Dropped, RunTypes
<1>9. CASE Tools \/ Resume \/ GetStatus
  BY <1>9 DEF Tools, CancelRun, SealRun, CheckResume, LookAtRun, Resume, ResumeStarts, ResumeEnds,
     GetStatus, LookAtTask, Answer, runVars
<1>10. CASE Stop
  BY <1>10 DEF Stop, Live
<1>11. CASE Rest
  BY <1>11 DEF Rest, vars, runVars
<1>12. QED
  BY <1>1, <1>2, <1>3, <1>4, <1>5, <1>6, <1>7, <1>8, <1>9, <1>10, <1>11 DEF Next, Background

\* A generation starts to execute with all its tasks.
LEMMA FreshRun ==
    ASSUME TypeOK, GenInv, Next, NEW g \in Gens, bg[g] = "none", bg'[g] # "none"
    PROVE  todo'[g] = Tasks /\ bg'[g] = "run" /\ UNCHANGED <<run, look, meta>>
<1>0. RunTypes
  BY DEF TypeOK
<1>. DEFINE Fresh == todo'[g] = Tasks /\ bg'[g] = "run" /\ UNCHANGED <<run, look, meta>>
<1>. SUFFICES Fresh
  OBVIOUS
<1>1. ASSUME NEW c \in Callers, SpawnRun(c) PROVE Fresh
  BY <1>0, <1>1, Spawned
<1>2. ASSUME NEW c \in Callers, StartRun(c), ~SpawnRun(c) PROVE FALSE
  BY <1>2 DEF StartRun, CheckDuplicate, CleanLogs, CleanOutputs, RejectStale, MakeDirs,
     SaveRunMeta, SaveTaskMetas, Insert, SealStatic, runVars
<1>3. ASSUME NEW h \in Gens, Background(h) PROVE FALSE
  BY <1>0, <1>3, BackgroundMoves
<1>4. ASSUME Tools \/ Resume \/ GetStatus PROVE FALSE
  BY <1>4 DEF Tools, CancelRun, SealRun, CheckResume, LookAtRun, Resume, ResumeStarts,
     ResumeEnds, GetStatus, LookAtTask, Answer, runVars
<1>5. ASSUME Stop \/ Rest PROVE FALSE
  BY <1>5 DEF Stop, Rest, vars, runVars, Live
<1>6. QED
  BY <1>1, <1>2, <1>3, <1>4, <1>5 DEF Next

\* While a generation may still be judged done, what has ended of it is done.
LEMMA LoopDone ==
    ASSUME TypeOK, GenInv, EndInv, DoneInv, Next, NEW g \in Gens, bg'[g] \in {"run", "verdict"},
           allOk'[g]
    PROVE  AllDone(g)'
<1>0. RunTypes /\ FileTypes
  BY DEF TypeOK
<1>1. CASE bg[g] = "none"
  BY <1>1, FreshRun DEF AllDone
<1>2. CASE bg[g] # "none" /\ TaskEnds(g)
  <2>1. PICK t \in todo[g], s \in Terminal :
            /\ \/ meta' = [meta EXCEPT ![t] = Meta(g, s)]
               \/ unsaved' = unsaved \cup {<<g, t>>} /\ UNCHANGED meta
            /\ todo' = [todo EXCEPT ![g] = @ \ {t}]
            /\ allOk' = [allOk EXCEPT ![g] = @ /\ s = "done"]
    BY <1>2 DEF TaskEnds
  <2>2. allOk[g] /\ s = "done"
    BY <1>0, <2>1, Zenon DEF RunTypes
  <2>3. bg[g] = "run" /\ AllDone(g)
    BY <1>2, <2>2 DEF TaskEnds, DoneInv
  <2>4. \A u \in Tasks : u \notin todo'[g] => u = t \/ (u \notin todo[g] /\ meta'[u] = meta[u])
    BY <1>0, <2>1 DEF RunTypes, FileTypes
  <2>5. t \in Tasks /\ (meta[t].gen = g => meta[t].status \notin Terminal)
    BY <1>0, <2>1 DEF RunTypes, EndInv
  <2>6. meta'[t].gen = g => DoneOrUnsaved(meta[t], g, t)'
    BY <1>0, <2>1, <2>2, <2>5 DEF FileTypes, Meta, DoneOrUnsaved
  <2>7. QED
    BY <2>3, <2>4, <2>6, UnsavedGrows DEF AllDone, DoneOrUnsaved, TypeOK
<1>3. CASE bg[g] # "none" /\ TaskRuns(g)
  <2>1. PICK t \in todo[g] : meta' = [meta EXCEPT ![t] = Meta(g, "running")]
    BY <1>3 DEF TaskRuns
  <2>2. UNCHANGED <<todo, allOk>> /\ AllDone(g)
    BY <1>3 DEF TaskRuns, runVars, DoneInv
  <2>3. \A u \in Tasks : u \notin todo[g] => meta'[u] = meta[u]
    BY <1>0, <2>1 DEF FileTypes
  <2>4. QED
    BY <2>2, <2>3, UnsavedGrows DEF AllDone, DoneOrUnsaved, TypeOK
<1>4. CASE bg[g] # "none" /\ ~TaskEnds(g) /\ ~TaskRuns(g)
  <2>1. bg[g] \in {"run", "verdict"} /\ todo'[g] = todo[g] /\ allOk[g]
    BY <1>4, LoopFrame
  <2>2. QED
    BY <1>4, <2>1, DoneStays DEF DoneInv
<1>5. QED
  BY <1>1, <1>2, <1>3, <1>4

\* What a generation keeps in memory is only ever emptied, except when it starts.
LEMMA NoTasks ==
    ASSUME TypeOK, GenInv, DoneInv, Next, NEW g \in Gens, bg'[g] # "run" PROVE todo'[g] = {}
<1>0. RunTypes
  BY DEF TypeOK
<1>1. bg[g] # "run" => todo[g] = {}
  BY DEF DoneInv
<1>2. ASSUME NEW c \in Callers, SpawnRun(c) PROVE todo'[g] = {}
  BY <1>0, <1>1, <1>2, Spawned
<1>3. ASSUME NEW c \in Callers, StartRun(c), ~SpawnRun(c) PROVE todo'[g] = {}
  BY <1>1, <1>3 DEF StartRun, CheckDuplicate, CleanLogs, CleanOutputs, RejectStale, MakeDirs,
     SaveRunMeta, SaveTaskMetas, Insert, SealStatic, runVars
<1>4. ASSUME NEW h \in Gens, TaskRuns(h) \/ TaskEnds(h) PROVE todo'[g] = {}
  BY <1>0, <1>1, <1>4 DEF TaskRuns, TaskEnds, runVars, RunTypes
<1>5. ASSUME NEW h \in Gens, RunEnds(h) PROVE todo'[g] = {}
  <2>1. todo' = todo /\ bg[h] = "run" /\ todo[h] = {}
    BY <1>5 DEF RunEnds, Over
  <2>2. \A f \in Gens \ {h} : bg'[f] = bg[f]
    BY <1>0, <1>5, AdvanceTyped DEF RunEnds, Live
  <2>3. QED
    BY <1>1, <2>1, <2>2
<1>6. ASSUME NEW h \in Gens, SaveVerdict(h) PROVE todo'[g] = {}
  BY <1>0, <1>1, <1>6, AdvanceTyped DEF SaveVerdict, Live
<1>7. ASSUME NEW h \in Gens, RunPanics(h) PROVE todo'[g] = {}
  BY <1>0, <1>1, <1>7 DEF RunPanics, Dropped, RunTypes
<1>8. ASSUME NEW h \in Gens, Leave(h) PROVE todo'[g] = {}
  BY <1>0, <1>1, <1>8, AdvanceTyped DEF Leave, Live, Dropped, RunTypes
<1>9. CASE Tools \/ Resume \/ GetStatus
  BY <1>1, <1>9 DEF Tools, CancelRun, SealRun, CheckResume, LookAtRun, Resume, ResumeStarts,
     ResumeEnds, GetStatus, LookAtTask, Answer, runVars
<1>10. CASE Stop
  BY <1>10 DEF Stop
<1>11. CASE Rest
  BY <1>1, <1>11 DEF Rest, vars, runVars
<1>12. QED
  BY <1>2, <1>3, <1>4, <1>5, <1>6, <1>7, <1>8, <1>9, <1>10, <1>11 DEF Next, Background

\* A generation that is past its verdict stays past it.
LEMMA PastKept ==
    ASSUME TypeOK, GenInv, Next, NEW g \in Gens, bg[g] \notin {"none", "run", "verdict"}
    PROVE  bg'[g] \notin {"none", "run", "verdict"}
<1>0. RunTypes
  BY DEF TypeOK
<1>. DEFINE Past == bg'[g] \notin {"none", "run", "verdict"}
<1>1. ASSUME NEW c \in Callers, SpawnRun(c) PROVE Past
  BY <1>0, <1>1, Spawned
<1>2. ASSUME NEW c \in Callers, StartRun(c), ~SpawnRun(c) PROVE Past
  BY <1>2 DEF StartRun, CheckDuplicate, CleanLogs, CleanOutputs, RejectStale, MakeDirs, SaveRunMeta,
     SaveTaskMetas, Insert, SealStatic, runVars
<1>3. ASSUME NEW h \in Gens, Background(h), h # g PROVE Past
  BY <1>0, <1>3, BackgroundMoves
<1>4. ASSUME Background(g) PROVE Past
  <2>1. Leave(g)
    BY <1>4 DEF Background, TaskRuns, TaskEnds, RunEnds, RunPanics, SaveVerdict
  <2>2. QED
    BY <1>0, <2>1, AdvanceTyped DEF Leave, Live
<1>5. CASE Tools \/ Resume \/ GetStatus
  BY <1>5 DEF Tools, CancelRun, SealRun, CheckResume, LookAtRun, Resume, ResumeStarts,
     ResumeEnds, GetStatus, LookAtTask, Answer, runVars
<1>6. CASE Stop
  BY <1>6 DEF Stop
<1>7. CASE Rest
  BY <1>7 DEF Rest, vars, runVars
<1>8. QED
  BY <1>1, <1>2, <1>3, <1>4, <1>5, <1>6, <1>7 DEF Next

\* A generation that is concluded stays so: nobody writes its metas any more.
LEMMA ConcludedKept ==
    ASSUME TypeOK, GenInv, DoneInv, Next, NEW g \in Gens, Concluded(g) PROVE Concluded(g)'
<1>1. bg'[g] \notin {"none", "run", "verdict"} /\ todo'[g] = {}
  BY PastKept, NoTasks DEF Concluded
<1>2. ~TaskRuns(g) /\ ~TaskEnds(g)
  BY DEF Concluded, TaskRuns, TaskEnds
<1>3. AllDone(g)'
  BY <1>1, <1>2, DoneStays DEF Concluded
<1>4. QED
  BY <1>1, <1>3 DEF Concluded

\* The verdict "done" is only saved for a generation that is concluded.
LEMMA RunDone ==
    ASSUME TypeOK, GenInv, RunInv, DoneInv, Next, run'.status = "done"
    PROVE  run'.gen \in Gens /\ Concluded(run.gen)'
<1>0. RunTypes
  BY DEF TypeOK
<1>1. ASSUME NEW g \in Gens, SaveVerdict(g), run' # run PROVE run'.gen \in Gens /\ Concluded(run.gen)'
  <2>1. allOk[g] /\ run'.gen = g
    BY <1>1 DEF SaveVerdict, RunInv
  <2>2. bg'[g] = "leave" /\ UNCHANGED <<todo, meta, unsaved>> /\ bg[g] = "verdict"
    BY <1>0, <1>1, AdvanceTyped DEF SaveVerdict, Live
  <2>3. todo[g] = {} /\ AllDone(g)
    BY <2>1, <2>2 DEF DoneInv
  <2>4. AllDone(g)'
    BY <2>2, <2>3 DEF AllDone, DoneOrUnsaved
  <2>5. QED
    BY <2>1, <2>2, <2>3, <2>4 DEF Concluded, AllDone, DoneOrUnsaved
<1>2. CASE run' = run
  <2>1. run.gen \in Gens /\ Concluded(run.gen)
    BY <1>2 DEF RunInv, DoneInv
  <2>2. \A g \in Gens : Concluded(g) => Concluded(g)'
    BY ConcludedKept
  <2>3. QED
    BY <1>2, <2>1, <2>2 DEF Concluded, AllDone, DoneOrUnsaved
<1>3. ASSUME run' # run PROVE \E g \in Gens : SaveVerdict(g)
  <2>1. ASSUME NEW c \in Callers, StartRun(c) PROVE FALSE
    BY <1>3, <2>1 DEF StartRun, CheckDuplicate, CleanLogs, CleanOutputs, RejectStale, MakeDirs,
       SaveRunMeta, SaveTaskMetas, SpawnRun, Insert, SealStatic, files
  <2>2. ASSUME NEW g \in Gens, Background(g), ~SaveVerdict(g) PROVE FALSE
    BY <1>3, <2>2 DEF Background, TaskRuns, TaskEnds, RunEnds, RunPanics, Leave, files
  <2>3. ASSUME Tools \/ Resume \/ GetStatus PROVE FALSE
    BY <1>3, <2>3 DEF Tools, CancelRun, SealRun, CheckResume, LookAtRun, Resume, ResumeStarts,
       ResumeEnds, GetStatus, LookAtTask, Answer, files
  <2>4. ASSUME Stop \/ Rest PROVE FALSE
    BY <1>3, <2>4 DEF Stop, Rest, vars, files
  <2>5. QED
    BY <2>1, <2>2, <2>3, <2>4 DEF Next
<1>4. QED
  BY <1>1, <1>2, <1>3

\* What a poll holds is about a generation that is concluded.
LEMMA LookDone ==
    ASSUME TypeOK, GenInv, RunInv, DoneInv, Next
    PROVE  AnswerIsConsistent' /\ (look'.gen # NoGen => Concluded(look.gen)')
<1>0. LookTypes /\ FileTypes
  BY DEF TypeOK
<1>1. \A g \in Gens : Concluded(g) => Concluded(g)'
  BY ConcludedKept
<1>2. CASE look' = look
  <2>1. look.gen # NoGen => look.gen \in Gens /\ Concluded(look.gen)
    BY <1>0 DEF LookTypes, DoneInv
  <2>2. look.gen # NoGen => Concluded(look.gen)'
    BY <1>1, <1>2, <2>1 DEF Concluded, AllDone, DoneOrUnsaved
  <2>3. AnswerIsConsistent'
    BY <1>2, UnsavedGrows DEF DoneInv, AnswerIsConsistent, TypeOK
  <2>4. QED
    BY <1>2, <2>2, <2>3
<1>3. CASE look' = Idle
  BY <1>3 DEF Idle, AnswerIsConsistent
<1>4. CASE LookAtRun
  <2>1. look'.gen = run.gen /\ look'.unread = Tasks /\ run.gen \in Gens /\ Concluded(run.gen)
    BY <1>0, <1>4 DEF LookAtRun, LookTypes, RunInv, DoneInv
  <2>2. Concluded(look.gen)'
    BY <1>1, <2>1 DEF Concluded, AllDone, DoneOrUnsaved
  <2>3. QED
    BY <2>1, <2>2 DEF AnswerIsConsistent
<1>5. CASE LookAtTask
  <2>1. PICK t \in look.unread :
            look' = [look EXCEPT !.unread = @ \ {t}, !.seen = [@ EXCEPT ![t] = meta[t]]]
    BY <1>5 DEF LookAtTask
  <2>2. look'.gen = look.gen /\ look'.seen[t] = meta[t]
        /\ \A u \in Tasks \ look'.unread : u = t \/ (u \notin look.unread /\ look'.seen[u] = look.seen[u])
    BY <1>0, <2>1 DEF LookTypes
  <2>3. look.gen # NoGen => Concluded(look.gen) /\ look.gen \in Gens
    BY <1>0 DEF LookTypes, DoneInv
  <2>4. ASSUME look.gen # NoGen, meta[t].gen = look.gen, ~meta[t].resumed
        PROVE  DoneOrUnsaved(meta[t], look.gen, t)
    BY <1>0, <2>3, <2>4 DEF Concluded, AllDone, LookTypes, DoneOrUnsaved
  <2>5. AnswerIsConsistent'
    BY <2>2, <2>4, UnsavedGrows DEF AnswerIsConsistent, DoneInv, DoneOrUnsaved, TypeOK
  <2>6. look.gen # NoGen => Concluded(look.gen)'
    BY <1>1, <2>2, <2>3 DEF Concluded, AllDone, DoneOrUnsaved
  <2>7. QED
    BY <2>2, <2>5, <2>6
<1>6. look' \in {look, Idle} \/ LookAtRun \/ LookAtTask
  <2>1. ASSUME NEW c \in Callers, StartRun(c) PROVE look' = look
    BY <2>1 DEF StartRun, CheckDuplicate, CleanLogs, CleanOutputs, RejectStale, MakeDirs,
       SaveRunMeta, SaveTaskMetas, SpawnRun, Insert, SealStatic
  <2>2. ASSUME NEW g \in Gens, Background(g) PROVE look' = look
    BY <2>2 DEF Background, TaskRuns, TaskEnds, RunEnds, RunPanics, SaveVerdict, Leave
  <2>3. ASSUME CancelRun \/ SealRun \/ CheckResume \/ Resume PROVE look' = look
    BY <2>3 DEF CancelRun, SealRun, CheckResume, Resume, ResumeStarts, ResumeEnds
  <2>4. ASSUME Answer \/ Stop \/ Rest PROVE look' \in {look, Idle}
    BY <2>4 DEF Answer, Stop, Rest, vars
  <2>5. QED
    BY <2>1, <2>2, <2>3, <2>4 DEF Next, Tools, GetStatus
<1>7. QED
  BY <1>2, <1>3, <1>4, <1>5, <1>6

\* What has been shown or saved as done is done.
LEMMA DoneKept == ASSUME TypeOK, GenInv, RunInv, EndInv, DoneInv, Next PROVE DoneInv'
<1>1. (\A g \in Gens : bg[g] \in {"run", "verdict"} /\ allOk[g] => AllDone(g))'
  BY LoopDone DEF AllDone, DoneOrUnsaved
<1>2. (\A g \in Gens : bg[g] # "run" => todo[g] = {})'
  BY NoTasks
<1>3. QED
  BY <1>1, <1>2, RunDone, LookDone DEF DoneInv

-----------------------------------------------------------------------------
(* The theorems *)

\* Every step keeps the invariant.
LEMMA StepHolds == ASSUME IInv, [Next]_vars PROVE IInv'
<1>1. CASE Next
  BY <1>1, TypesKept, LockKept, GenKept, OneLiveKept, RunKept, EndKept, DoneKept DEF IInv, TypeOK
<1>2. CASE UNCHANGED vars
  <2>. USE <1>2 DEF vars, memory, runVars, files, history
  <2>1. TypeOK'
    BY DEF IInv, TypeOK, MemoryTypes, RunTypes, JobTypes, LookTypes, FileTypes, HistoryTypes
  <2>2. LockInv' /\ GenInv' /\ OneLiveRun'
    BY DEF IInv, LockInv, GenInv, OneLiveRun, LiveRuns
  <2>3. RunInv' /\ EndInv'
    BY DEF IInv, RunInv, RunStatusIsTrue, EndInv
  <2>4. DoneInv'
    BY DEF IInv, DoneInv, Concluded, AllDone, DoneOrUnsaved, AnswerIsConsistent
  <2>5. QED
    BY <2>1, <2>2, <2>3, <2>4 DEF IInv
<1>3. QED
  BY <1>1, <1>2

\* The invariant holds in every reachable state.
THEOREM Invariance == Spec => []IInv
BY InitHolds, StepHolds, PTL DEF Spec

\* The registry, the runs, the files and the polls keep their types.
THEOREM TypeCorrect == Spec => []TypeOK
<1>1. IInv => TypeOK
  BY DEF IInv
<1>2. QED
  BY <1>1, Invariance, PTL

\* start_run never has two coordinators of one directory executing, and the one
\* that does is the one the registry names or is about to name.
THEOREM OneRun == Spec => []OneLiveRun
<1>1. IInv => OneLiveRun
  BY DEF IInv
<1>2. QED
  BY <1>1, Invariance, PTL

\* The status in run.meta.json is that of the generation it describes.
THEOREM StatusIsTrue == Spec => []RunStatusIsTrue
<1>1. IInv => RunStatusIsTrue
  BY DEF IInv, RunInv
<1>2. QED
  BY <1>1, Invariance, PTL

\* resume_agent never resumes a task its own coordinator still has to run.
THEOREM ResumesAfterRun == Spec => []ResumeAfterRun
<1>1. IInv => ResumeAfterRun
  BY DEF IInv, EndInv, ResumeAfterRun
<1>2. QED
  BY <1>1, Invariance, PTL

\* get_status shows a run as done only with all its own tasks done, or left
\* unfinished in a file by a final save that failed.
THEOREM AnswersAreConsistent == Spec => []AnswerIsConsistent
<1>1. IInv => AnswerIsConsistent
  BY DEF IInv, DoneInv
<1>2. QED
  BY <1>1, Invariance, PTL

\* While a run executes, its files are written by it, or by a resume of a task
\* of an earlier generation that says so.
LEMMA OwnFiles == ASSUME IInv, Next, NEW g \in LiveRuns PROVE TouchedBy(g)
<1>0. MemoryTypes /\ RunTypes /\ FileTypes /\ JobTypes
  BY DEF IInv, TypeOK
<1>1. \A c \in Callers : at[c] \notin Preflight
  BY NoRunInside DEF IInv
<1>2. \A h \in LiveRuns : h = g
  <2>1. SUFFICES ASSUME NEW h \in LiveRuns PROVE h = g
    OBVIOUS
  <2>2. g # NoGen /\ h # NoGen
    BY BoundsAssumption DEF LiveRuns
  <2>3. locked # {} => entry = NoGen
    BY DEF IInv, LockInv
  <2>4. QED
    BY <2>2, <2>3 DEF IInv, OneLiveRun
<1>3. ASSUME NEW c \in Callers, StartRun(c) PROVE UNCHANGED files
  BY <1>1, <1>3 DEF StartRun, CheckDuplicate, CleanLogs, CleanOutputs, RejectStale, MakeDirs,
     SaveRunMeta, SaveTaskMetas, SpawnRun, Insert, SealStatic, Preflight
<1>4. ASSUME NEW h \in Gens, TaskRuns(h) \/ TaskEnds(h) PROVE TouchedBy(g)
  <2>1. h = g
    BY <1>2, <1>4 DEF TaskRuns, TaskEnds, LiveRuns, Live
  <2>2. PICK t \in todo[g], s \in {"running"} \cup Terminal :
            meta' \in {meta, [meta EXCEPT ![t] = Meta(g, s)]}
    BY <1>4, <2>1 DEF TaskRuns, TaskEnds
  <2>3. UNCHANGED run
    BY <1>4 DEF TaskRuns, TaskEnds
  <2>4. QED
    BY <1>0, <2>2, <2>3 DEF TouchedBy, FileTypes, Meta
<1>5. ASSUME NEW h \in Gens, SaveVerdict(h) PROVE TouchedBy(g)
  <2>1. h = g
    BY <1>2, <1>5 DEF SaveVerdict, LiveRuns, Live
  <2>2. QED
    BY <1>5, <2>1 DEF SaveVerdict, TouchedBy
<1>6. ASSUME NEW h \in Gens, RunEnds(h) \/ RunPanics(h) \/ Leave(h) PROVE UNCHANGED files
  BY <1>6 DEF RunEnds, RunPanics, Leave, files
<1>7. CASE Resume
  <2>1. PICK s \in {"running"} \cup Final : ResumeSaves(s) \/ UNCHANGED meta
    BY <1>7 DEF Resume, ResumeStarts, ResumeEnds
  <2>2. UNCHANGED run /\ job.at # "idle"
    BY <1>7 DEF Resume, ResumeStarts, ResumeEnds
  <2>3. \A t \in Tasks : meta'[t] # meta[t] => t = job.task /\ meta'[t].gen = job.gen
    BY <1>0, <2>1 DEF ResumeSaves, FileTypes
  <2>4. QED
    BY <2>2, <2>3 DEF TouchedBy
<1>8. ASSUME Tools \/ GetStatus \/ Stop \/ Rest PROVE UNCHANGED files
  BY <1>8 DEF Tools, CancelRun, SealRun, CheckResume, LookAtRun, GetStatus, LookAtTask, Answer, Stop,
     Rest, vars
<1>9. UNCHANGED files => TouchedBy(g)
  BY DEF files, TouchedBy
<1>10. QED
  BY <1>3, <1>4, <1>5, <1>6, <1>7, <1>8, <1>9 DEF Next, Background

\* A registered run is live, so no call is inside the mutex: whoever drops the
\* entry is the run itself, or the stop of the server.
LEMMA OwnEntry == ASSUME IInv, Next, NEW g \in LiveRuns PROVE KeepsEntry(g)
<1>. SUFFICES ASSUME entry = g PROVE entry' = g \/ bg'[g] \notin Live
  BY DEF KeepsEntry
<1>0. MemoryTypes /\ RunTypes /\ g \in Gens /\ g # NoGen /\ bg[g] \in Live
  BY BoundsAssumption DEF IInv, TypeOK, LiveRuns
<1>1. locked = {}
  BY <1>0 DEF IInv, LockInv
<1>2. ASSUME NEW c \in Callers, StartRun(c) PROVE entry' = g
  <2>1. at[c] \notin Preflight \cup {"insert"}
    BY <1>1 DEF IInv, LockInv
  <2>2. ~CheckDuplicate(c)
    BY <1>0 DEF CheckDuplicate
  <2>3. SealStatic(c)
    BY <1>2, <2>1, <2>2 DEF StartRun, CleanLogs, CleanOutputs, RejectStale, MakeDirs, SaveRunMeta,
       SaveTaskMetas, SpawnRun, Insert, Preflight
  <2>4. QED
    BY <2>3 DEF SealStatic, Return
<1>3. ASSUME NEW h \in Gens, Leave(h) PROVE bg'[g] \notin Live
  <2>1. h = g
    BY <1>1, <1>3 DEF IInv, OneLiveRun, LiveRuns, Live, Leave
  <2>2. bg'[g] = "finished"
    BY <1>0, <1>3, <2>1 DEF Leave, Advance, Then, RunTypes
  <2>3. QED
    BY <2>2 DEF Live
<1>4. ASSUME NEW h \in Gens, Background(h), ~Leave(h) PROVE entry' = g
  BY <1>4 DEF Background, TaskRuns, TaskEnds, RunEnds, RunPanics, SaveVerdict, memory
<1>5. CASE Tools
  BY <1>0, <1>5 DEF Tools, CancelRun, SealRun, CheckResume, LookAtRun, memory
<1>6. CASE Resume \/ GetStatus \/ Rest
  BY <1>6 DEF Resume, ResumeStarts, ResumeEnds, GetStatus, LookAtTask, Answer, Rest, memory, vars
<1>7. CASE Stop
  BY <1>0, <1>7 DEF Stop, Live
<1>8. QED
  BY <1>2, <1>3, <1>4, <1>5, <1>6, <1>7 DEF Next

\* No preflight, clean or verdict of another generation reaches the files of a
\* run that executes, and nobody else takes its place in the registry.
THEOREM FilesAreOwn == Spec => FilesAreTheRuns
<1>1. ASSUME IInv, [Next]_vars PROVE [\A g \in LiveRuns : TouchedBy(g) /\ KeepsEntry(g)]_vars
  <2>1. CASE Next
    BY <1>1, <2>1, OwnFiles, OwnEntry
  <2>2. CASE UNCHANGED vars
    BY <2>2
  <2>3. QED
    BY <1>1, <2>1, <2>2
<1>2. QED
  BY <1>1, Invariance, PTL DEF Spec, FilesAreTheRuns
=============================================================================
