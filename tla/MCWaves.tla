------------------------------ MODULE MCWaves ------------------------------
(* Instances of Waves: a few tasks, and a name that is no task's.           *)
EXTENDS Waves

CONSTANT ghost    \* a name that is no task's

MCNames == Tasks \cup {ghost}
=============================================================================
