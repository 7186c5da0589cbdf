----------------------------- MODULE MCRegistry -----------------------------
(* Bounds for the run of Registry: as many generations as it takes to start *)
(* over after a failed start and after a run, one resumed task, one stop.   *)
EXTENDS Registry

MCMaxGen == 2
MCMaxResumes == 1
MCMaxStops == 1
=============================================================================
