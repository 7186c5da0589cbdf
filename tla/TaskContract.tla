---------------------------- MODULE TaskContract ----------------------------
(***************************************************************************)
(* What one task promises to those who see only its report and its meta    *)
(* file.  It is announced, works at most once, reports once, and a verdict *)
(* in the file is the last word.  A task that is given up never starts.    *)
(* Saves of the file may fail, so the file may lag behind for ever.        *)
(*                                                                         *)
(* A task may be worked on again, by a call of its own that starts over a  *)
(* verdict in the file; that call may also end in an error.                *)
(***************************************************************************)

VARIABLES
    again,  \* the task is worked on again: the file has an earlier verdict
    work,   \* "idle", "running", or how the work ended
    file,   \* status in the meta file
    stop    \* has its run been asked to stop, or failed?

vars == <<again, work, file, stop>>

Verdicts == {"done", "failed", "cancelled"}

Init ==
    /\ again \in BOOLEAN
    /\ work = "idle"
    /\ file \in IF again THEN Verdicts ELSE {"absent", "pending"}
    /\ stop = FALSE

Announce ==
    /\ work = "idle" /\ file = "absent"
    /\ file' = "pending"
    /\ UNCHANGED <<again, work, stop>>

\* A stopped run gives up what has not started.
GiveUp ==
    /\ work = "idle" /\ ~again
    /\ file \notin Verdicts
    /\ stop
    /\ file' = "cancelled"
    /\ UNCHANGED <<again, work, stop>>

\* No work without a Running file over an earlier verdict.
Start ==
    /\ work = "idle"
    /\ IF again THEN file' = "running" ELSE file \notin Verdicts /\ file' \in {"running", file}
    /\ work' = "running"
    /\ UNCHANGED <<again, stop>>

SaveRunning ==
    /\ work = "running"
    /\ file' = "running"
    /\ UNCHANGED <<again, work, stop>>

End(v) ==
    /\ work = "running"
    /\ v = "cancelled" => stop
    /\ work' = v
    /\ file' \in IF again THEN {v} ELSE {v, file}
    /\ UNCHANGED <<again, stop>>

\* A panic writes nothing; somebody else may repair the file.
Panic ==
    /\ work = "running"
    /\ work' = "panicked"
    /\ UNCHANGED <<again, file, stop>>

Repair ==
    /\ work = "panicked"
    /\ file' = "failed"
    /\ UNCHANGED <<again, work, stop>>

\* Only work that is done again may end in an error, started or not.
Refuse ==
    /\ again
    /\ work \in {"idle", "running"}
    /\ work' = "error"
    /\ file' \in {file} \cup (IF work = "running" THEN {"failed"} ELSE {})
    /\ UNCHANGED <<again, stop>>

Stop ==
    /\ stop' = TRUE
    /\ UNCHANGED <<again, work, file>>

Next ==
    \/ Announce \/ GiveUp \/ Start \/ SaveRunning \/ Panic \/ Repair \/ Refuse \/ Stop
    \/ \E v \in Verdicts : End(v)

Spec == Init /\ [][Next]_vars

-----------------------------------------------------------------------------
(* What follows for whoever polls the file *)

TypeOK ==
    /\ again \in BOOLEAN /\ stop \in BOOLEAN
    /\ work \in {"idle", "running", "panicked", "error"} \cup Verdicts
    /\ file \in {"absent", "pending", "running"} \cup Verdicts

\* A verdict in the file, other than the one a repeated work starts over, is
\* true: nothing is at work, and the report, if there is one, says the same.
FileIsTrue ==
    file \in Verdicts /\ ~again =>
        \/ work = file
        \/ work = "panicked" /\ file = "failed"
        \/ work = "idle" /\ file = "cancelled" /\ stop

\* Work done again is reported by a status only if the file has it.
RepeatedIsSaved == again /\ work \in Verdicts => file = work

\* A verdict that was read is never taken back, unless the work is started again.
VerdictStays == [][~again /\ file \in Verdicts => file' = file]_vars

\* What was given up never works.
GivenUpStays == [][~again /\ work = "idle" /\ file \in Verdicts => work' = work]_vars
=============================================================================
