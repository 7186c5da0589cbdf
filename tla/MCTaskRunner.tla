--------------------------- MODULE MCTaskRunner ---------------------------
(* Bounds for the runs of TaskRunner: a pipe of one line and a child with  *)
(* more to print than fits, on either output.                              *)
EXTENDS TaskRunner

MCOutLines == 2
MCErrLines == 2
MCPipeCap == 1
=============================================================================
