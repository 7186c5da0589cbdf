------------------------------ MODULE FactsMap ------------------------------
(***************************************************************************)
(* What write_fact promises: the shared facts are one map, a call that is  *)
(* told "written" has put its fact there at one instant, a call that is    *)
(* told of an error has changed nothing.  The promise ends with the first  *)
(* two calls that overlap without the lock of one registered run between   *)
(* them.                                                                   *)
(***************************************************************************)
CONSTANTS Writers, Keys

VARIABLES
    facts,   \* what a reader of facts.json is shown
    call,    \* the key each write_fact call is to write, "-" where there is none
    reply,   \* what the last call of each caller was told
    safe     \* no unprotected overlap so far

vars == <<facts, call, reply, safe>>

NoFacts == [k \in Keys |-> "none"]

Init ==
    /\ facts = NoFacts
    /\ call = [w \in Writers |-> "-"]
    /\ reply = [w \in Writers |-> "none"]
    /\ safe = TRUE

Ask(w) ==
    /\ call[w] = "-"
    /\ \E k \in Keys : call' = [call EXCEPT ![w] = k]
    /\ reply' = [reply EXCEPT ![w] = "none"]
    /\ safe' \in {safe, FALSE}
    /\ UNCHANGED facts

Reply(w, told) ==
    /\ call[w] # "-"
    /\ call' = [call EXCEPT ![w] = "-"]
    /\ reply' = [reply EXCEPT ![w] = told]
    /\ UNCHANGED safe

Put(w) ==
    /\ Reply(w, "written")
    /\ safe => facts' = [facts EXCEPT ![call[w]] = w]

Fail(w) ==
    /\ Reply(w, "error")
    /\ safe => facts' = facts

\* After an unprotected overlap the file may hold anything.
Damage == ~safe /\ UNCHANGED <<call, reply, safe>>

\* The server stops, nobody is told.
Stop ==
    /\ call' = [w \in Writers |-> "-"]
    /\ reply' = [w \in Writers |-> "none"]
    /\ UNCHANGED <<facts, safe>>

Next == (\E w \in Writers : Ask(w) \/ Put(w) \/ Fail(w)) \/ Damage \/ Stop

Spec == Init /\ [][Next]_vars

\* Every call is answered.
FairSpec == Spec /\ \A w \in Writers : WF_<<call, reply>>(\E told \in {"written", "error"} : Reply(w, told))
=============================================================================
