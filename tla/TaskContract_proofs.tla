----------------------- MODULE TaskContract_proofs ------------------------
(***************************************************************************)
(* What TaskContract is worth: the properties that every implementation of *)
(* it inherits.  TaskRunner_proofs does.                                   *)
(***************************************************************************)
EXTENDS TaskContract, TLAPS

\* A file that shows no verdict, or the true one, while the work goes on.
IInv ==
    /\ TypeOK
    /\ FileIsTrue
    /\ RepeatedIsSaved

\* The invariant of the task is inductive as it stands.
THEOREM Invariance == Spec => []IInv
<1>. USE DEF IInv, TypeOK, FileIsTrue, RepeatedIsSaved, Verdicts
<1>1. Init => IInv
  BY DEF Init
<1>2. IInv /\ [Next]_vars => IInv'
  <2>. SUFFICES ASSUME IInv, [Next]_vars PROVE IInv'
    OBVIOUS
  <2>1. CASE Announce \/ GiveUp \/ Start \/ SaveRunning
    BY <2>1 DEF Announce, GiveUp, Start, SaveRunning
  <2>2. ASSUME NEW v \in Verdicts, End(v) PROVE IInv'
    <3>1. work = "running" /\ work' = v /\ again' = again /\ stop' = stop
      BY <2>2 DEF End
    <3>2. again \/ file \notin Verdicts
      BY <3>1
    <3>3. CASE again
      <4>1. file' = v
        BY <2>2, <3>3 DEF End
      <4>2. QED
        BY <3>1, <3>3, <4>1
    <3>4. CASE ~again
      <4>1. file' = v \/ file' = file
        BY <2>2, <3>4 DEF End
      <4>2. QED
        BY <3>1, <3>2, <3>4, <4>1
    <3>5. QED
      BY <3>3, <3>4
  <2>3. CASE Panic \/ Repair
    BY <2>3 DEF Panic, Repair
  <2>4. CASE Refuse
    BY <2>4 DEF Refuse
  <2>5. CASE Stop
    BY <2>5 DEF Stop
  <2>6. CASE UNCHANGED vars
    BY <2>6 DEF vars
  <2>7. QED
    BY <2>1, <2>2, <2>3, <2>4, <2>5, <2>6 DEF Next
<1>3. QED
  BY <1>1, <1>2, PTL DEF Spec

\* Whoever reads a verdict in a task's file reads the true one.
THEOREM FilesAreTrue == Spec => []FileIsTrue
BY Invariance, PTL DEF IInv

\* A resumption that returns a status has saved it.
THEOREM RepeatedAreSaved == Spec => []RepeatedIsSaved
BY Invariance, PTL DEF IInv

\* It is never taken back.
THEOREM VerdictsStay == Spec => VerdictStays
<1>1. IInv /\ [Next]_vars =>
        [~again /\ file \in Verdicts => file' = file]_vars
  <2>. SUFFICES ASSUME IInv, Next, ~again, file \in Verdicts PROVE file' = file
    OBVIOUS
  <2>. USE DEF IInv, TypeOK, FileIsTrue, Verdicts
  <2>1. QED
    BY DEF Next, Announce, GiveUp, Start, SaveRunning, End,
       Panic, Repair, Refuse, Stop
<1>2. QED
  BY <1>1, Invariance, PTL DEF Spec, VerdictStays

\* What was given up never works.
THEOREM GivenUpStay == Spec => GivenUpStays
<1>1. [Next]_vars =>
        [~again /\ work = "idle" /\ file \in Verdicts => work' = work]_vars
  BY DEF Next, Announce, GiveUp, Start, SaveRunning, End,
     Panic, Repair, Refuse, Stop
<1>2. QED
  BY <1>1, PTL DEF Spec, GivenUpStays
=============================================================================
