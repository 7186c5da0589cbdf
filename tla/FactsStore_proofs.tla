-------------------------- MODULE FactsStore_proofs --------------------------
(***************************************************************************)
(* write_fact implements the atomic map of FactsMap, for any number of     *)
(* callers, keys and registered runs, as long as overlapping calls have a  *)
(* lock in common.                                                         *)
(***************************************************************************)
EXTENDS FactsStore, TLAPS

USE DEF NoLock

-----------------------------------------------------------------------------
(* The inductive invariant *)

\* Types of what a call keeps, of what is on disk, and of the registry.
CallTypes ==
    /\ pc \in [Writers -> {"idle", "wait"} \cup Inside]
    /\ call \in [Writers -> Keys \cup {"-"}]
    /\ snap \in [Writers -> FactsType]
    /\ fd \in [Writers -> {"tmp", "facts", "gone"}]
    /\ reply \in [Writers -> {"none", "written", "error"}]
    /\ \A w \in Writers : pc[w] = "idle" <=> call[w] = "-"

DiskTypes == file \in FileType /\ tmp \in FileType

LockTypes ==
    /\ entry \in 0..locks /\ locks \in 0..MaxLocks
    /\ lock \in [Writers -> 0..locks]

\* The mutex admits one of the calls that have found it.
Mutex ==
    \A v, w \in Writers :
        v # w /\ lock[v] = lock[w] /\ lock[w] # NoLock => ~(pc[v] \in Inside /\ pc[w] \in Inside)

\* As long as it is safe, all calls under way have found the same one.
SameLock ==
    safe => \A v, w \in Writers :
        v # w /\ pc[v] # "idle" /\ pc[w] # "idle" => lock[v] = lock[w] /\ lock[w] # NoLock

\* So the one inside works on the file as it is, and on its own temporary file.
Progress ==
    safe =>
        /\ Readable(file)
        /\ \A w \in Writers :
            /\ pc[w] \in {"open", "write", "rename"} => snap[w] = [file.facts EXCEPT ![call[w]] = w]
            /\ pc[w] = "write" => tmp.kind = "empty" /\ fd[w] = "tmp"
            /\ pc[w] = "rename" => tmp = Saved(snap[w])

IInv == CallTypes /\ DiskTypes /\ LockTypes /\ safe \in BOOLEAN /\ Mutex /\ SameLock /\ Progress

\* The parts are the type invariant and more.
LEMMA InvTypes == IInv => TypeOK
BY DEF IInv, TypeOK, CallTypes, DiskTypes, LockTypes

-----------------------------------------------------------------------------
(* The steps *)

\* A directory without facts and without calls.
LEMMA InitHolds == Init => IInv
<1>. SUFFICES ASSUME Init PROVE IInv
  OBVIOUS
<1>. USE LocksAssumption, KeysAssumption DEF Init
<1>1. CallTypes
  BY DEF CallTypes, Inside, FactsType, NoFacts
<1>2. DiskTypes
  BY DEF DiskTypes, FileType, FactsType, NoFile, NoFacts
<1>3. LockTypes
  BY DEF LockTypes
<1>4. Mutex /\ SameLock
  BY DEF Mutex, SameLock, Inside
<1>5. Progress
  BY DEF Progress, Readable, NoFile
<1>6. safe \in BOOLEAN
  OBVIOUS
<1>7. QED
  BY <1>1, <1>2, <1>3, <1>4, <1>5, <1>6 DEF IInv

\* Facts with one more among them are facts.
LEMMA FactPut ==
    ASSUME NEW f \in FactsType, NEW k \in Keys, NEW w \in Writers
    PROVE  [f EXCEPT ![k] = w] \in FactsType /\ Saved(f) \in FileType
BY DEF FactsType, FileType, Saved

\* Every step keeps the types.
LEMMA TypesKept ==
    ASSUME CallTypes, DiskTypes, LockTypes, Next
    PROVE  CallTypes' /\ DiskTypes' /\ LockTypes'
<1>. DEFINE Goal == CallTypes' /\ DiskTypes' /\ LockTypes'
<1>. USE LocksAssumption, KeysAssumption
<1>1. CASE Register \/ Unregister
  <2>1. UNCHANGED <<pc, call, snap, fd, reply, lock, file, tmp, safe>>
    BY <1>1 DEF Register, Unregister, calls
  <2>2. LockTypes'
    BY <1>1, <2>1 DEF Register, Unregister, LockTypes
  <2>3. QED
    BY <2>1, <2>2 DEF CallTypes, DiskTypes
<1>2. CASE Stop
  <2>1. NoFacts \in FactsType
    BY DEF NoFacts, FactsType
  <2>2. QED
    BY <1>2, <2>1 DEF Stop, CallTypes, DiskTypes, LockTypes
<1>3. ASSUME NEW w \in Writers, Ask(w) PROVE Goal
  <2>1. PICK k \in Keys : call' = [call EXCEPT ![w] = k]
    BY <1>3 DEF Ask
  <2>2. CallTypes'
    BY <1>3, <2>1 DEF Ask, CallTypes
  <2>3. DiskTypes' /\ LockTypes'
    BY <1>3 DEF Ask, DiskTypes, LockTypes
  <2>4. QED
    BY <2>2, <2>3
<1>4. ASSUME NEW w \in Writers, Acquire(w) PROVE Goal
  BY <1>4 DEF Acquire, CallTypes, DiskTypes, LockTypes, Inside
<1>5. ASSUME NEW w \in Writers, ReadAll(w) PROVE Goal
  <2>1. call[w] \in Keys /\ file.facts \in FactsType
    BY <1>5 DEF ReadAll, CallTypes, DiskTypes, FileType
  <2>2. [file.facts EXCEPT ![call[w]] = w] \in FactsType
    BY <2>1, FactPut
  <2>3. QED
    BY <1>5, <2>1, <2>2 DEF ReadAll, CallTypes, DiskTypes, LockTypes, Inside
<1>6. ASSUME NEW w \in Writers, Open(w) PROVE Goal
  <2>1. Empty \in FileType
    BY DEF Empty, FileType, FactsType, NoFacts
  <2>2. QED
    BY <1>6, <2>1 DEF Open, CallTypes, DiskTypes, LockTypes, Inside
<1>7. ASSUME NEW w \in Writers, Write(w) PROVE Goal
  <2>1. \A c : Overlaid(c, snap[w]) \subseteq FileType
    BY DEF CallTypes, Overlaid, Saved, Torn, FileType, FactsType, NoFacts
  <2>2. DiskTypes'
    BY <1>7, <2>1 DEF Write, DiskTypes
  <2>3. QED
    BY <1>7, <2>2 DEF Write, CallTypes, LockTypes, Inside
<1>8. ASSUME NEW w \in Writers, Rename(w) PROVE Goal
  <2>1. NoFile \in FileType /\ NoFacts \in FactsType
    BY DEF NoFile, FileType, FactsType, NoFacts
  <2>2. fd' \in [Writers -> {"tmp", "facts", "gone"}]
    BY <1>8 DEF Rename, Moved, CallTypes
  <2>3. QED
    BY <1>8, <2>1, <2>2 DEF Rename, Return, CallTypes, DiskTypes, LockTypes
<1>9. ASSUME NEW w \in Writers, Fail(w) PROVE Goal
  <2>1. Torn \in FileType /\ NoFacts \in FactsType
    BY DEF Torn, FileType, FactsType, NoFacts
  <2>2. DiskTypes'
    BY <1>9, <2>1 DEF Fail, DiskTypes
  <2>3. QED
    BY <1>9, <2>1, <2>2 DEF Fail, Return, CallTypes, LockTypes
<1>10. QED
  BY <1>1, <1>2, <1>3, <1>4, <1>5, <1>6, <1>7, <1>8, <1>9 DEF Next, Work

LEMMA SafeTyped == ASSUME safe \in BOOLEAN, Next PROVE safe' \in BOOLEAN
BY DEF Next, Work, Register, Unregister, Stop, Ask, Acquire, ReadAll, Open, Write, Rename, Fail

\* The locks keep calls apart.
LEMMA LocksKept ==
    ASSUME CallTypes, LockTypes, Mutex, SameLock, Next PROVE Mutex' /\ SameLock'
<1>. USE DEF Mutex, SameLock
<1>1. CASE Register \/ Unregister
  BY <1>1 DEF Register, Unregister, calls
<1>2. CASE Stop
  BY <1>2 DEF Stop, Inside
<1>3. ASSUME NEW w \in Writers, Ask(w) PROVE Mutex' /\ SameLock'
  <2>1. pc'[w] = "wait" /\ lock'[w] = entry
        /\ \A v \in Writers \ {w} : pc'[v] = pc[v] /\ lock'[v] = lock[v]
    BY <1>3 DEF Ask, CallTypes, LockTypes
  <2>2. safe' => safe /\ \A v \in Writers \ {w} : pc[v] # "idle" => entry # NoLock /\ lock[v] = entry
    BY <1>3 DEF Ask, Apart
  <2>3. QED
    BY <2>1, <2>2 DEF Inside
<1>4. ASSUME NEW w \in Writers, Acquire(w) PROVE Mutex' /\ SameLock'
  <2>1. pc[w] = "wait" /\ \A v \in Writers \ {w} : pc'[v] = pc[v]
    BY <1>4 DEF Acquire, CallTypes
  <2>2. \A v \in Writers \ {w} : lock[v] = lock[w] /\ lock[w] # NoLock => pc[v] \notin Inside
    BY <1>4 DEF Acquire
  <2>3. UNCHANGED <<lock, safe>>
    BY <1>4 DEF Acquire
  <2>4. QED
    BY <2>1, <2>2, <2>3
<1>5. ASSUME NEW w \in Writers, ReadAll(w) \/ Open(w) \/ Write(w) PROVE Mutex' /\ SameLock'
  <2>1. pc[w] \in Inside /\ \A v \in Writers \ {w} : pc'[v] = pc[v]
    BY <1>5 DEF ReadAll, Open, Write, CallTypes, Inside
  <2>2. UNCHANGED <<lock, safe>>
    BY <1>5 DEF ReadAll, Open, Write
  <2>3. QED
    BY <2>1, <2>2 DEF Inside
<1>6. ASSUME NEW w \in Writers, Rename(w) \/ Fail(w) PROVE Mutex' /\ SameLock'
  <2>1. pc'[w] = "idle" /\ \A v \in Writers \ {w} : pc'[v] = pc[v] /\ lock'[v] = lock[v]
    BY <1>6 DEF Rename, Fail, Return, CallTypes, LockTypes
  <2>2. UNCHANGED safe
    BY <1>6 DEF Rename, Fail
  <2>3. QED
    BY <2>1, <2>2 DEF Inside
<1>7. QED
  BY <1>1, <1>2, <1>3, <1>4, <1>5, <1>6 DEF Next, Work

\* As long as it is safe nobody is inside beside the one that moves.
LEMMA Alone ==
    ASSUME Mutex, SameLock, safe, NEW v \in Writers, NEW w \in Writers,
           pc[v] \in Inside, pc[w] \in Inside
    PROVE  v = w
BY DEF Mutex, SameLock, Inside

\* The one inside reads, writes and renames without being disturbed.
LEMMA ProgressKept == ASSUME IInv, Next PROVE Progress'
<1>. USE DEF IInv, Progress
<1>0. SUFFICES ASSUME safe' PROVE Progress'
  OBVIOUS
<1>1. CASE Register \/ Unregister
  BY <1>1 DEF Register, Unregister, calls
<1>2. CASE Stop
  BY <1>2 DEF Stop
<1>3. ASSUME NEW w \in Writers, Ask(w) PROVE Progress'
  <2>1. safe
    BY <1>0, <1>3 DEF Ask
  <2>2. pc'[w] = "wait" /\ \A v \in Writers \ {w} : pc'[v] = pc[v] /\ call'[v] = call[v]
    BY <1>3 DEF Ask, CallTypes
  <2>3. QED
    BY <1>3, <2>1, <2>2 DEF Ask
<1>4. ASSUME NEW w \in Writers, Acquire(w) PROVE Progress'
  BY <1>4 DEF Acquire, CallTypes
<1>5. ASSUME NEW w \in Writers, ReadAll(w) PROVE Progress'
  BY <1>5 DEF ReadAll, CallTypes
<1>. DEFINE Others(w) == \A v \in Writers \ {w} : pc[v] \notin Inside
<1>6. ASSUME NEW w \in Writers, Open(w) PROVE Progress'
  <2>1. safe /\ Others(w)
    BY <1>0, <1>6, Alone DEF Open, Inside
  <2>2. pc'[w] = "write" /\ fd'[w] = "tmp" /\ \A v \in Writers \ {w} : pc'[v] = pc[v]
    BY <1>6 DEF Open, CallTypes
  <2>3. tmp'.kind = "empty" /\ UNCHANGED <<snap, file, call>>
    BY <1>6 DEF Open, Empty
  <2>4. QED
    BY <1>6, <2>1, <2>2, <2>3 DEF Open, Inside
<1>7. ASSUME NEW w \in Writers, Write(w) PROVE Progress'
  <2>1. safe /\ Others(w)
    BY <1>0, <1>7, Alone DEF Write, Inside
  <2>2. tmp' = Saved(snap[w]) /\ UNCHANGED file
    BY <1>7, <2>1 DEF Write, Overlaid
  <2>3. pc'[w] = "rename" /\ \A v \in Writers \ {w} : pc'[v] = pc[v]
    BY <1>7 DEF Write, CallTypes
  <2>4. QED
    BY <1>7, <2>1, <2>2, <2>3 DEF Write, Inside
<1>8. ASSUME NEW w \in Writers, Rename(w) PROVE Progress'
  <2>1. safe /\ Others(w)
    BY <1>0, <1>8, Alone DEF Rename, Inside
  <2>2. file' = Saved(snap[w])
    BY <1>8, <2>1 DEF Rename
  <2>3. pc'[w] = "idle" /\ \A v \in Writers \ {w} : pc'[v] = pc[v]
    BY <1>8 DEF Rename, Return, CallTypes
  <2>4. QED
    BY <2>1, <2>2, <2>3 DEF Inside, Readable, Saved
<1>9. ASSUME NEW w \in Writers, Fail(w) PROVE Progress'
  <2>1. safe /\ Others(w)
    BY <1>0, <1>9, Alone DEF Fail
  <2>2. UNCHANGED file
    BY <1>9, <2>1 DEF Fail
  <2>3. pc'[w] = "idle" /\ \A v \in Writers \ {w} : pc'[v] = pc[v]
    BY <1>9 DEF Fail, Return, CallTypes
  <2>4. QED
    BY <2>1, <2>2, <2>3 DEF Inside
<1>10. QED
  BY <1>1, <1>2, <1>3, <1>4, <1>5, <1>6, <1>7, <1>8, <1>9 DEF Next, Work

LEMMA StepHolds == ASSUME IInv, [Next]_vars PROVE IInv'
<1>1. CASE Next
  BY <1>1, TypesKept, SafeTyped, LocksKept, ProgressKept DEF IInv
<1>2. CASE UNCHANGED vars
  BY <1>2 DEF vars, calls, IInv, CallTypes, DiskTypes, LockTypes, Mutex, SameLock, Progress
<1>3. QED
  BY <1>1, <1>2

\* The invariant holds in every reachable state.
THEOREM Invariance == Spec => []IInv
BY InitHolds, StepHolds, PTL DEF Spec

\* The registry entry, the calls and the files keep their types.
THEOREM TypeCorrect == Spec => []TypeOK
BY Invariance, InvTypes, PTL

-----------------------------------------------------------------------------
(* Refinement *)

\* The empty directory is the empty map.
LEMMA MapInit == Init => Map!Init
BY DEF Init, Map!Init, Map!NoFacts, Shown, Readable, NoFile, NoFacts

\* A rename is the instant of the write, a failure leaves the map alone, and
\* nothing else touches it, unless calls have overlapped without a lock.
LEMMA MapStep == ASSUME IInv, [Next]_vars PROVE [Map!Next]_(Map!vars)
<1>. DEFINE Goal == Map!Next \/ UNCHANGED <<Shown(file), call, reply, safe>>
<1>. SUFFICES Goal
  BY DEF Map!vars
<1>. USE DEF IInv, Map!Next
<1>1. CASE Register \/ Unregister
  BY <1>1 DEF Register, Unregister, calls, Map!vars
<1>2. CASE Stop
  BY <1>2 DEF Stop, Map!Stop
<1>3. ASSUME NEW w \in Writers, Ask(w) PROVE Goal
  <2>1. call[w] = "-" /\ UNCHANGED file
    BY <1>3 DEF Ask, CallTypes
  <2>2. safe' \in {safe, FALSE}
    BY <1>3 DEF Ask
  <2>3. Map!Ask(w)
    BY <1>3, <2>1, <2>2 DEF Ask, Map!Ask
  <2>4. QED
    BY <2>3
<1>4. ASSUME NEW w \in Writers, Acquire(w) \/ ReadAll(w) \/ Open(w) PROVE Goal
  BY <1>4 DEF Acquire, ReadAll, Open
<1>5. ASSUME NEW w \in Writers, Write(w) PROVE Goal
  <2>1. UNCHANGED <<call, reply, safe>>
    BY <1>5 DEF Write
  <2>2. safe => UNCHANGED file
    BY <1>5 DEF Write, Progress
  <2>3. CASE safe
    BY <2>1, <2>2, <2>3
  <2>4. CASE ~safe
    BY <2>1, <2>4 DEF Map!Damage
  <2>5. QED
    BY <2>3, <2>4
<1>6. ASSUME NEW w \in Writers, Rename(w) PROVE Goal
  <2>1. call[w] # "-"
    BY <1>6 DEF Rename, CallTypes
  <2>2. safe => Shown(file)' = [Shown(file) EXCEPT ![call[w]] = w]
    BY <1>6 DEF Rename, Progress, Shown, Readable, Saved
  <2>3. Map!Put(w)
    BY <1>6, <2>1, <2>2 DEF Rename, Return, Map!Put, Map!Reply
  <2>4. QED
    BY <2>3
<1>7. ASSUME NEW w \in Writers, Fail(w) PROVE Goal
  <2>1. call[w] # "-"
    BY <1>7 DEF Fail, CallTypes, Inside
  <2>2. safe => UNCHANGED file
    BY <1>7 DEF Fail, Progress
  <2>3. Map!Fail(w)
    BY <1>7, <2>1, <2>2 DEF Fail, Return, Map!Fail, Map!Reply, Shown
  <2>4. QED
    BY <2>3
<1>8. CASE UNCHANGED vars
  BY <1>8 DEF vars, calls, Map!vars
<1>9. QED
  BY <1>1, <1>2, <1>3, <1>4, <1>5, <1>6, <1>7, <1>8 DEF Next, Work

\* write_fact is atomic, for any number of callers.
THEOREM Implementation == Spec => Map!Spec
BY MapInit, MapStep, Invariance, PTL DEF Spec, Map!Spec
=============================================================================
