----------------------------- MODULE MCMailbox -----------------------------
(* Bounds for the run of Mailbox: a message is two writes and a newline, and *)
(* the directory is cleaned once.                                            *)
EXTENDS Mailbox, TLC

MCPieces == 2
MCMaxCleans == 1

Symmetry == Permutations(Messages) \cup Permutations(Threads)
=============================================================================
