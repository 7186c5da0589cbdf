------------------------ MODULE RunContract_proofs ------------------------
(***************************************************************************)
(* What RunContract is worth: the properties that every implementation of  *)
(* it inherits.  Coordinator_proofs and Waves_proofs do.                   *)
(***************************************************************************)
EXTENDS RunContract, TLAPS

IInv == TypeOK /\ NeedsAreDone /\ VerdictCovers

\* Before anything starts nothing has to be done.
LEMMA RunInit == Init => IInv
<1>. SUFFICES ASSUME Init PROVE IInv
  OBVIOUS
<1>1. PICK I \in SUBSET Tasks : phase = [t \in Tasks |-> IF t \in I THEN "waiting" ELSE "absent"]
  BY DEF Init
<1>2. \A t \in Tasks : phase[t] \in {"waiting", "absent"}
  BY <1>1
<1>3. TypeOK
  BY <1>1 DEF Init, TypeOK, Phases
<1>4. QED
  BY <1>2, <1>3 DEF Init, IInv, NeedsAreDone, VerdictCovers

\* What the actions do to the phase of a task.
LEMMA RunStep ==
  ASSUME IInv, Next, NEW t \in Tasks
  PROVE  /\ phase[t] \in Outcomes => phase'[t] = phase[t]
         /\ phase[t] # "absent" => phase'[t] # "absent" /\ needs'[t] = needs[t]
         /\ verdict # "running" => phase'[t] = phase[t] /\ verdict' = verdict
<1>. USE DEF IInv, TypeOK, Phases, Outcomes
<1>0. verdict # "running" => ~open /\ phase[t] \notin {"waiting", "running"}
  BY DEF VerdictCovers, Live
<1>1. ASSUME NEW S \in SUBSET Tasks, Admit(S)
      PROVE  /\ phase[t] # "absent" => phase'[t] = phase[t] /\ needs'[t] = needs[t]
             /\ verdict = "running"
  BY <1>0, <1>1 DEF Admit
<1>2. ASSUME NEW S \in SUBSET Tasks, Start(S)
      PROVE  /\ phase[t] # "waiting" => phase'[t] = phase[t]
             /\ phase'[t] \in {phase[t], "running"}
             /\ UNCHANGED <<needs, verdict>>
  BY <1>2 DEF Start
<1>3. ASSUME NEW u \in Tasks, NEW r \in Outcomes, Settle(u, r)
      PROVE  /\ phase[t] # "running" => phase'[t] = phase[t]
             /\ phase'[t] \in {phase[t]} \cup Outcomes
             /\ UNCHANGED <<needs, verdict>>
  BY <1>3 DEF Settle
<1>4. CASE Close \/ Stop
  BY <1>4 DEF Close, Stop
<1>5. CASE Abandon
  BY <1>0, <1>5 DEF Abandon
<1>6. ASSUME NEW v \in {"done", "failed"}, Conclude(v)
      PROVE  UNCHANGED <<phase, needs>> /\ verdict = "running"
  BY <1>6 DEF Conclude
<1>7. QED
  BY <1>0, <1>1, <1>2, <1>3, <1>4, <1>5, <1>6 DEF Next

\* Types.
LEMMA RunTyped == ASSUME TypeOK, Next PROVE TypeOK'
<1>. USE DEF TypeOK, Phases, Outcomes
<1>1. ASSUME NEW S \in SUBSET Tasks, Admit(S) \/ Start(S) PROVE TypeOK'
  BY <1>1 DEF Admit, Start
<1>2. ASSUME NEW t \in Tasks, NEW r \in Outcomes, Settle(t, r) PROVE TypeOK'
  BY <1>2 DEF Settle
<1>3. CASE Close \/ Stop \/ Abandon
  BY <1>3 DEF Close, Stop, Abandon
<1>4. ASSUME NEW v \in {"done", "failed"}, Conclude(v) PROVE TypeOK'
  BY <1>4 DEF Conclude
<1>5. QED
  BY <1>1, <1>2, <1>3, <1>4 DEF Next

\* A task starts on needs that are done, and what is done stays done.
LEMMA RunNeeds == ASSUME IInv, Next PROVE NeedsAreDone'
<1>. DEFINE Begun(p) == p \in {"running", "done", "failed", "panicked"}
<1>1. SUFFICES ASSUME NEW t \in Tasks, Begun(phase'[t]), NEW n \in needs'[t]
               PROVE  phase'[n] = "done"
  BY DEF NeedsAreDone
<1>2. needs'[t] \subseteq Tasks
  BY RunTyped DEF IInv, TypeOK
<1>3. SUFFICES phase[n] = "done"
  BY <1>1, <1>2, RunStep DEF Outcomes
<1>4. CASE Begun(phase[t])
  <2>1. needs'[t] = needs[t]
    BY <1>4, RunStep
  <2>2. QED
    BY <1>1, <1>4, <2>1 DEF IInv, NeedsAreDone
<1>5. CASE ~Begun(phase[t])
  <2>1. PICK S \in SUBSET Tasks : Start(S) /\ t \in S
    <3>1. \A S \in SUBSET Tasks : ~Admit(S)
      BY <1>1, <1>5 DEF Admit
    <3>2. \A u \in Tasks, r \in Outcomes : ~Settle(u, r)
      BY <1>1, <1>5 DEF Settle, IInv, TypeOK
    <3>3. ~Close /\ ~Stop /\ ~Abandon /\ \A v \in {"done", "failed"} : ~Conclude(v)
      BY <1>1, <1>5 DEF Close, Stop, Abandon, Conclude
    <3>4. PICK S \in SUBSET Tasks : Start(S)
      BY <3>1, <3>2, <3>3 DEF Next
    <3>5. t \in S
      BY <1>1, <1>5, <3>4 DEF Start
    <3>6. QED
      BY <3>4, <3>5
  <2>2. QED
    BY <1>1, <2>1 DEF Start
<1>6. QED
  BY <1>4, <1>5

\* The verdict is given when nothing is left, and nothing can be added then.
LEMMA RunVerdict == ASSUME IInv, Next PROVE VerdictCovers'
<1>. USE DEF VerdictCovers, Live
<1>1. CASE verdict # "running"
  <2>0. verdict' = verdict
    BY <1>1 DEF Next, Admit, Start, Settle, Close, Stop, Abandon, Conclude
  <2>1. verdict' = verdict /\ \A t \in Tasks : phase'[t] = phase[t]
    BY <1>1, <2>0, RunStep
  <2>2. ~open' /\ (stopping => stopping')
    BY <1>1 DEF Next, Admit, Start, Settle, Close, Stop, Abandon, Conclude, IInv
  <2>3. QED
    BY <1>1, <2>1, <2>2 DEF IInv
<1>2. CASE verdict = "running"
  <2>1. ASSUME NEW v \in {"done", "failed"}, Conclude(v) PROVE VerdictCovers'
    BY <2>1 DEF Conclude
  <2>2. CASE verdict' = "running"
    BY <2>2
  <2>3. QED
    BY <1>2, <2>1, <2>2 DEF Next, Admit, Start, Settle, Close, Stop, Abandon
<1>3. QED
  BY <1>1, <1>2

\* The contract's own invariant.
THEOREM Invariance == Spec => []IInv
<1>1. IInv /\ [Next]_vars => IInv'
  <2>. SUFFICES ASSUME IInv, [Next]_vars PROVE IInv'
    OBVIOUS
  <2>1. CASE Next
    BY <2>1, RunTyped, RunNeeds, RunVerdict DEF IInv
  <2>2. CASE UNCHANGED vars
    BY <2>2 DEF vars, IInv, TypeOK, NeedsAreDone, VerdictCovers, Live
  <2>3. QED
    BY <2>1, <2>2
<1>2. QED
  BY <1>1, RunInit, PTL DEF Spec

\* Whatever implements the contract starts tasks only on needs that are done.
THEOREM NeedsAreMet == Spec => []NeedsAreDone
BY Invariance, PTL DEF IInv

\* Its verdict covers every task that was admitted.
THEOREM VerdictsCover == Spec => []VerdictCovers
BY Invariance, PTL DEF IInv

\* It gives one verdict, and nothing moves behind it.
THEOREM VerdictsAreLast == Spec => VerdictIsLast
<1>1. IInv /\ [Next]_vars => [verdict # "running" => verdict' = verdict /\ phase' = phase]_vars
  <2>. SUFFICES ASSUME IInv, Next, verdict # "running"
                PROVE  verdict' = verdict /\ phase' = phase
    OBVIOUS
  <2>1. \A t \in Tasks : phase'[t] = phase[t]
    BY RunStep
  <2>2. verdict' = verdict
    BY DEF Next, Admit, Start, Settle, Close, Stop, Abandon, Conclude
  <2>3. phase \in [Tasks -> Phases] /\ phase' \in [Tasks -> Phases]
    BY RunTyped DEF IInv, TypeOK
  <2>4. QED
    BY <2>1, <2>2, <2>3
<1>2. QED
  BY <1>1, Invariance, PTL DEF Spec, VerdictIsLast

\* No outcome is ever changed, and no admitted task forgotten.
THEOREM NothingIsUndone == Spec => OutcomesStay
<1>1. IInv /\ [Next]_vars =>
        [\A t \in Tasks :
           /\ phase[t] \in Outcomes => phase'[t] = phase[t]
           /\ phase[t] # "absent" => phase'[t] # "absent" /\ needs'[t] = needs[t]]_vars
  BY RunStep
<1>2. QED
  BY <1>1, Invariance, PTL DEF Spec, OutcomesStay
=============================================================================
