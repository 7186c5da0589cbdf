---------------------------- MODULE RunContract ----------------------------
(***************************************************************************)
(* What a served run promises, without the channel, the select loop, the   *)
(* join set or the files: tasks are admitted while the run is open, a task *)
(* starts only after everything it needs is done, a stopped run abandons   *)
(* what has not started, and one verdict is given when nothing is left.    *)
(***************************************************************************)

CONSTANT Tasks

VARIABLES
    phase,      \* Tasks -> Phases
    needs,      \* Tasks -> SUBSET Tasks: what must be done before it starts
    open,       \* may tasks still be admitted?
    stopping,   \* has somebody, or a failure, asked the run to stop?
    verdict     \* "running" until the run concludes

vars == <<phase, needs, open, stopping, verdict>>

Outcomes == {"done", "failed", "cancelled", "panicked"}

Phases == {"absent", "waiting", "running"} \cup Outcomes

Live(t) == phase[t] \in {"waiting", "running"}

Init ==
    /\ \E I \in SUBSET Tasks :
         phase = [t \in Tasks |-> IF t \in I THEN "waiting" ELSE "absent"]
    /\ needs \in [Tasks -> SUBSET Tasks]
    /\ open = TRUE
    /\ stopping = FALSE
    /\ verdict = "running"

\* New tasks join the run; what earlier tasks need is not touched.
Admit(S) ==
    /\ open
    /\ \A t \in S : phase[t] = "absent"
    /\ phase' = [t \in Tasks |-> IF t \in S THEN "waiting" ELSE phase[t]]
    /\ needs' \in [Tasks -> SUBSET Tasks]
    /\ \A t \in Tasks \ S : needs'[t] = needs[t]
    /\ UNCHANGED <<open, stopping, verdict>>

\* Any number of tasks start together once all they need is done.
Start(S) ==
    /\ ~stopping
    /\ \A t \in S : phase[t] = "waiting" /\ \A n \in needs[t] : phase[n] = "done"
    /\ phase' = [t \in Tasks |-> IF t \in S THEN "running" ELSE phase[t]]
    /\ UNCHANGED <<needs, open, stopping, verdict>>

Settle(t, r) ==
    /\ phase[t] = "running"
    /\ r = "cancelled" => stopping
    /\ phase' = [phase EXCEPT ![t] = r]
    /\ UNCHANGED <<needs, open, stopping, verdict>>

Close ==
    /\ open' = FALSE
    /\ UNCHANGED <<phase, needs, stopping, verdict>>

Stop ==
    /\ stopping' = TRUE
    /\ UNCHANGED <<phase, needs, open, verdict>>

\* Everything that has not started is given up at once, and the run closes.
Abandon ==
    /\ stopping
    /\ phase' = [t \in Tasks |-> IF phase[t] = "waiting" THEN "cancelled" ELSE phase[t]]
    /\ open' = FALSE
    /\ UNCHANGED <<needs, stopping, verdict>>

Conclude(v) ==
    /\ verdict = "running"
    /\ ~open
    /\ \A t \in Tasks : ~Live(t)
    /\ v = "done" => \A t \in Tasks : phase[t] \in {"absent", "done"}
    /\ v = "failed" => stopping
    /\ verdict' = v
    /\ UNCHANGED <<phase, needs, open, stopping>>

Next ==
    \/ \E S \in SUBSET Tasks : Admit(S) \/ Start(S)
    \/ \E t \in Tasks, r \in Outcomes : Settle(t, r)
    \/ Close
    \/ Stop
    \/ Abandon
    \/ \E v \in {"done", "failed"} : Conclude(v)

Spec == Init /\ [][Next]_vars

-----------------------------------------------------------------------------
(* What follows for whoever relies on the contract *)

TypeOK ==
    /\ phase \in [Tasks -> Phases]
    /\ needs \in [Tasks -> SUBSET Tasks]
    /\ open \in BOOLEAN /\ stopping \in BOOLEAN
    /\ verdict \in {"running", "done", "failed"}

\* A task that has run, or runs, found all it needs done, and it still is.
NeedsAreDone ==
    \A t \in Tasks : phase[t] \in {"running", "done", "failed", "panicked"} =>
        \A n \in needs[t] : phase[n] = "done"

\* The verdict covers every task that was ever admitted: nothing is at work
\* behind it, done means that all are, failed that somebody asked or something
\* failed.
VerdictCovers ==
    /\ verdict # "running" => ~open /\ \A t \in Tasks : ~Live(t)
    /\ verdict = "done" => \A t \in Tasks : phase[t] \in {"absent", "done"}
    /\ verdict = "failed" => stopping

\* It is given once, and nothing moves after it.
VerdictIsLast == [][verdict # "running" => verdict' = verdict /\ phase' = phase]_vars

\* No task leaves an outcome, is admitted twice, or gets new needs.
OutcomesStay ==
    [][\A t \in Tasks :
         /\ phase[t] \in Outcomes => phase'[t] = phase[t]
         /\ phase[t] # "absent" => phase'[t] # "absent" /\ needs'[t] = needs[t]]_vars
=============================================================================
