----------------------------- MODULE FactsStore -----------------------------
(***************************************************************************)
(* shared/facts.json of one run directory: write_fact reads the file, adds *)
(* a fact, writes facts.tmp and renames it.  Calls are kept apart by the   *)
(* lock in the registry entry of the run; a directory with no entry has no *)
(* lock, and a new run of it has a new one.  The temporary file has one    *)
(* name, so two calls without a lock in common may share its inode.        *)
(***************************************************************************)
EXTENDS Naturals

CONSTANTS
    Writers,    \* concurrent callers of write_fact
    Keys,       \* names of facts
    MaxLocks    \* bound: runs that are registered for this directory

ASSUME LocksAssumption == MaxLocks \in Nat
ASSUME KeysAssumption == "-" \notin Keys

VARIABLES
    entry,    \* facts_lock of the registered run, NoLock where there is none
    locks,    \* locks made so far
    pc,       \* where each call stands
    call,     \* the key it writes
    lock,     \* the lock its lookup found
    snap,     \* the facts it is going to save
    fd,       \* where the file it has opened is now: at a path, or unlinked
    file,     \* facts.json
    tmp,      \* facts.tmp
    reply,    \* what the last call of each caller was told
    safe      \* history: no two calls overlapped without a lock in common

calls == <<pc, call, lock, snap, fd, reply>>
vars == <<entry, locks, calls, file, tmp, safe>>

NoLock == 0
NoFacts == [k \in Keys |-> "none"]
NoFile == [kind |-> "none", facts |-> NoFacts]
Empty == [kind |-> "empty", facts |-> NoFacts]
Torn == [kind |-> "torn", facts |-> NoFacts]
Saved(f) == [kind |-> "map", facts |-> f]

Init ==
    /\ entry = NoLock /\ locks = 0
    /\ pc = [w \in Writers |-> "idle"]
    /\ call = [w \in Writers |-> "-"]
    /\ lock = [w \in Writers |-> NoLock]
    /\ snap = [w \in Writers |-> NoFacts]
    /\ fd = [w \in Writers |-> "gone"]
    /\ file = NoFile /\ tmp = NoFile
    /\ reply = [w \in Writers |-> "none"]
    /\ safe = TRUE

-----------------------------------------------------------------------------
(* The registry *)

\* start_run inserts an entry with a lock of its own.
Register ==
    /\ entry = NoLock /\ locks < MaxLocks
    /\ locks' = locks + 1
    /\ entry' = locks + 1
    /\ UNCHANGED <<calls, file, tmp, safe>>

\* The run leaves the registry; calls that hold its lock go on.
Unregister ==
    /\ entry # NoLock
    /\ entry' = NoLock
    /\ UNCHANGED <<locks, calls, file, tmp, safe>>

-----------------------------------------------------------------------------
(* write_fact *)

\* Faulty variant: a call that failed is not forgotten.
ReturnOfSuccess(w, told) ==
    /\ pc' = [pc EXCEPT ![w] = "idle"]
    /\ call' = [call EXCEPT ![w] = IF told = "written" THEN "-" ELSE @]
    /\ lock' = [lock EXCEPT ![w] = NoLock]
    /\ snap' = [snap EXCEPT ![w] = NoFacts]
    /\ reply' = [reply EXCEPT ![w] = told]

\* A call that ends is answered, and gives its lock back.
Return(w, told) ==
    /\ pc' = [pc EXCEPT ![w] = "idle"]
    /\ call' = [call EXCEPT ![w] = "-"]
    /\ lock' = [lock EXCEPT ![w] = NoLock]
    /\ snap' = [snap EXCEPT ![w] = NoFacts]
    /\ reply' = [reply EXCEPT ![w] = told]

\* Two calls are kept apart by a lock both have found.
Apart(v) == entry # NoLock /\ lock[v] = entry

\* The lookup of the lock, or of its absence.
Ask(w) ==
    /\ pc[w] = "idle"
    /\ \E k \in Keys : call' = [call EXCEPT ![w] = k]
    /\ lock' = [lock EXCEPT ![w] = entry]
    /\ pc' = [pc EXCEPT ![w] = "wait"]
    /\ reply' = [reply EXCEPT ![w] = "none"]
    /\ safe' = (safe /\ \A v \in Writers : pc[v] # "idle" => Apart(v))
    /\ UNCHANGED <<entry, locks, snap, fd, file, tmp>>

Inside == {"read", "open", "write", "rename"}

\* Faulty variant: the guard of the lock is dropped at once.
AcquireAndDrop(w) ==
    /\ pc[w] = "wait"
    /\ pc' = [pc EXCEPT ![w] = "read"]
    /\ UNCHANGED <<entry, locks, call, lock, snap, fd, file, tmp, reply, safe>>

Acquire(w) ==
    /\ pc[w] = "wait"
    /\ lock[w] # NoLock => \A v \in Writers : lock[v] = lock[w] => pc[v] \notin Inside
    /\ pc' = [pc EXCEPT ![w] = "read"]
    /\ UNCHANGED <<entry, locks, call, lock, snap, fd, file, tmp, reply, safe>>

\* read_all: a missing file is an empty map, an unreadable one an error.
Readable(c) == c.kind \in {"none", "map"}

\* The shared directory is made, the file read, the fact put into the map.
ReadAll(w) ==
    /\ pc[w] = "read" /\ Readable(file)
    /\ snap' = [snap EXCEPT ![w] = [file.facts EXCEPT ![call[w]] = w]]
    /\ pc' = [pc EXCEPT ![w] = "open"]
    /\ UNCHANGED <<entry, locks, call, lock, fd, file, tmp, reply, safe>>

\* std::fs::write opens and truncates the file that has the name, or makes one.
Open(w) ==
    /\ pc[w] = "open"
    /\ tmp' = Empty
    /\ fd' = [fd EXCEPT ![w] = "tmp"]
    /\ pc' = [pc EXCEPT ![w] = "write"]
    /\ UNCHANGED <<entry, locks, call, lock, snap, file, reply, safe>>

\* What is in a file after facts were written over what was there: a longer
\* text of another call keeps its tail.
Overlaid(c, f) == IF c.kind = "empty" THEN {Saved(f)} ELSE {Saved(f), Torn}

\* It then writes from the start of the file, wherever that has been moved.
Write(w) ==
    /\ pc[w] = "write"
    /\ IF fd[w] = "tmp" THEN tmp' \in Overlaid(tmp, snap[w]) ELSE UNCHANGED tmp
    /\ IF fd[w] = "facts" THEN file' \in Overlaid(file, snap[w]) ELSE UNCHANGED file
    /\ fd' = [fd EXCEPT ![w] = "gone"]
    /\ pc' = [pc EXCEPT ![w] = "rename"]
    /\ UNCHANGED <<entry, locks, call, lock, snap, reply, safe>>

\* Where a file is after facts.tmp has replaced facts.json.
Moved == [tmp |-> "facts", facts |-> "gone", gone |-> "gone"]

Rename(w) ==
    /\ pc[w] = "rename" /\ tmp # NoFile
    /\ file' = tmp
    /\ tmp' = NoFile
    /\ fd' = [v \in Writers |-> Moved[fd[v]]]
    /\ Return(w, "written")
    /\ UNCHANGED <<entry, locks, safe>>

\* Any of the file operations fails: the temporary file stays, empty or cut
\* short; a rename finds it gone when another call has renamed it.
Fail(w) ==
    /\ pc[w] \in Inside
    /\ Return(w, "error")
    /\ IF pc[w] = "write" /\ fd[w] = "tmp" THEN tmp' \in {tmp, Torn} ELSE UNCHANGED tmp
    /\ IF pc[w] = "write" /\ fd[w] = "facts" THEN file' \in {file, Torn} ELSE UNCHANGED file
    /\ fd' = [fd EXCEPT ![w] = "gone"]
    /\ UNCHANGED <<entry, locks, safe>>

\* The server stops; the files stay as they are.
Stop ==
    /\ entry' = NoLock
    /\ pc' = [w \in Writers |-> "idle"]
    /\ call' = [w \in Writers |-> "-"]
    /\ lock' = [w \in Writers |-> NoLock]
    /\ snap' = [w \in Writers |-> NoFacts]
    /\ fd' = [w \in Writers |-> "gone"]
    /\ reply' = [w \in Writers |-> "none"]
    /\ UNCHANGED <<locks, file, tmp, safe>>

Work(w) == Acquire(w) \/ ReadAll(w) \/ Open(w) \/ Write(w) \/ Rename(w) \/ Fail(w)

Next ==
    \/ Register \/ Unregister \/ Stop
    \/ \E w \in Writers : Ask(w) \/ Work(w)

Spec == Init /\ [][Next]_vars

\* A call runs to its end without waiting, except for the mutex, which is
\* granted in the order of requests.
Fairness == \A w \in Writers : WF_vars(Work(w)) /\ SF_vars(Acquire(w))

FairSpec == Spec /\ Fairness

-----------------------------------------------------------------------------
(* Properties *)

FactsType == [Keys -> Writers \cup {"none"}]
FileType == [kind : {"none", "empty", "torn", "map"}, facts : FactsType]

TypeOK ==
    /\ entry \in 0..locks /\ locks \in 0..MaxLocks
    /\ pc \in [Writers -> {"idle", "wait"} \cup Inside]
    /\ call \in [Writers -> Keys \cup {"-"}]
    /\ lock \in [Writers -> 0..locks]
    /\ snap \in [Writers -> FactsType]
    /\ fd \in [Writers -> {"tmp", "facts", "gone"}]
    /\ file \in FileType /\ tmp \in FileType
    /\ reply \in [Writers -> {"none", "written", "error"}]
    /\ safe \in BOOLEAN
    /\ \A w \in Writers : pc[w] = "idle" <=> call[w] = "-"

\* What read_facts and build_preamble make of the file.
Shown(c) == IF Readable(c) THEN c.facts ELSE [k \in Keys |-> "unreadable"]

Map == INSTANCE FactsMap WITH facts <- Shown(file)

\* write_fact is atomic as long as overlapping calls have a lock in common: no
\* fact that was reported written is lost or undone by another call, none that
\* was reported failed shows up, readers never meet a torn file, and every call
\* is answered.
ImplementsMap == Map!FairSpec
=============================================================================
