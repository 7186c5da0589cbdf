------------------------------ MODULE Mailbox ------------------------------
(***************************************************************************)
(* The mailbox of one run directory: send_message appends one line of JSON *)
(* to the file of a thread, piece by piece and without a lock, while other *)
(* calls do the same, list_mailbox reads every file, a start_run with      *)
(* clean removes them all, or the server stops.                            *)
(*                                                                         *)
(* A message is Pieces writes and its newline.  A listing reads a file to  *)
(* its end; files only grow, so it sees what the file holds at the instant *)
(* it meets the end.                                                       *)
(***************************************************************************)
EXTENDS Naturals, Sequences, FiniteSets

CONSTANTS
    Messages,   \* calls of send_message
    Threads,    \* the threads they may name
    Pieces,     \* bound: writes that serialize one message
    MaxCleans   \* bound: runs started with clean

ASSUME PiecesAssumption == Pieces \in Nat \ {0}
ASSUME CleansAssumption == MaxCleans \in Nat

VARIABLES
    metas,    \* some task of the run has a meta file, with its run_id
    file,     \* the files of the threads that have one
    st,       \* where each send_message stands
    on,       \* the thread it writes to
    at,       \* how much it has written: Pieces and a newline
    linked,   \* its file is still in the directory
    list,     \* a list_mailbox call
    cleans,   \* counter for the bound
    hurt,     \* history: threads whose file two sends shared, or one left unfinished
    kept      \* history: messages reported sent and not cleaned away since

vars == <<metas, file, st, on, at, linked, list, cleans, hurt, kept>>

NoThread == "-"
NL == <<"newline", 0>>
NoFiles == [t \in {} |-> <<>>]
IdleList == [at |-> "idle", todo |-> {}, msgs |-> {}, owed |-> {}, met |-> FALSE]

Init ==
    /\ metas = FALSE
    /\ file = NoFiles
    /\ st = [m \in Messages |-> "new"]
    /\ on = [m \in Messages |-> NoThread]
    /\ at = [m \in Messages |-> 0]
    /\ linked = [m \in Messages |-> TRUE]
    /\ list = IdleList
    /\ cleans = 0 /\ hurt = {} /\ kept = {}

-----------------------------------------------------------------------------
(* The run *)

\* start_run writes the task metas.
SaveMetas ==
    /\ ~metas
    /\ metas' = TRUE
    /\ UNCHANGED <<file, st, on, at, linked, list, cleans, hurt, kept>>

\* start_run removes logs/ with everything in it; a file that is open lives on
\* out of sight.
Clean ==
    /\ cleans < MaxCleans
    /\ cleans' = cleans + 1
    /\ metas' = FALSE
    /\ file' = NoFiles
    /\ linked' = [m \in Messages |-> st[m] = "write" => FALSE]
    /\ list' = [list EXCEPT !.owed = {}, !.met = TRUE]
    /\ hurt' = {} /\ kept' = {}
    /\ UNCHANGED <<st, on, at>>

-----------------------------------------------------------------------------
(* send_message *)

Writing(m) == st[m] = "write" /\ linked[m]

\* Without a task meta that has a run_id the call is refused.
Resolve(m) ==
    /\ st[m] = "new" /\ metas
    /\ st' = [st EXCEPT ![m] = "open"]
    /\ \E t \in Threads : on' = [on EXCEPT ![m] = t]
    /\ UNCHANGED <<metas, file, at, linked, list, cleans, hurt, kept>>

Refuse(m) ==
    /\ st[m] = "new"
    /\ st' = [st EXCEPT ![m] = "error"]
    /\ UNCHANGED <<metas, file, on, at, linked, list, cleans, hurt, kept>>

\* The directories are made again if they are gone; the file is opened for append.
Open(m) ==
    /\ st[m] = "open"
    /\ st' = [st EXCEPT ![m] = "write"]
    /\ file' = [t \in DOMAIN file \cup {on[m]} |-> IF t \in DOMAIN file THEN file[t] ELSE <<>>]
    /\ hurt' = hurt \cup {on[o] : o \in {o \in Messages : Writing(o) /\ on[o] = on[m]}}
    /\ list' = [list EXCEPT !.met = TRUE]
    /\ UNCHANGED <<metas, on, at, linked, cleans, kept>>

Append1(m, piece) ==
    file' = IF linked[m] THEN [file EXCEPT ![on[m]] = Append(@, piece)] ELSE file

\* Faulty variant: the last piece is written twice.
WritePieceAgain(m) ==
    /\ st[m] = "write" /\ at[m] <= Pieces
    /\ Append1(m, <<m, at[m] + 1>>)
    /\ at' = [at EXCEPT ![m] = @ + 1]
    /\ UNCHANGED <<metas, st, on, linked, list, cleans, hurt, kept>>

WritePiece(m) ==
    /\ st[m] = "write" /\ at[m] < Pieces
    /\ Append1(m, <<m, at[m] + 1>>)
    /\ at' = [at EXCEPT ![m] = @ + 1]
    /\ UNCHANGED <<metas, st, on, linked, list, cleans, hurt, kept>>

\* The newline is a write of its own; then the call is answered.
WriteNewline(m) ==
    /\ st[m] = "write" /\ at[m] = Pieces
    /\ Append1(m, NL)
    /\ st' = [st EXCEPT ![m] = "sent"]
    /\ kept' = kept \cup (IF linked[m] THEN {m} ELSE {})
    /\ UNCHANGED <<metas, on, at, linked, list, cleans, hurt>>

\* The open or a write fails, and what has been written stays.
FailSend(m) ==
    /\ st[m] \in {"open", "write"}
    /\ st' = [st EXCEPT ![m] = "error"]
    /\ hurt' = IF Writing(m) /\ at[m] > 0 THEN hurt \cup {on[m]} ELSE hurt
    /\ UNCHANGED <<metas, file, on, at, linked, list, cleans, kept>>

-----------------------------------------------------------------------------
(* list_mailbox *)

\* The names of the files are read at once; a missing directory is no mail.
StartList ==
    /\ list.at = "idle"
    /\ list' = [at |-> "read", todo |-> DOMAIN file, msgs |-> {}, owed |-> kept,
                met |-> \E m \in Messages : Writing(m)]
    /\ UNCHANGED <<metas, file, st, on, at, linked, cleans, hurt, kept>>

\* A piece goes on where the one before it ended, and is gone on from.
Follows(c, i) ==
    IF c[i][2] = 1 THEN i = 1 \/ c[i - 1] = NL ELSE i > 1 /\ c[i - 1] = <<c[i][1], c[i][2] - 1>>
Leads(c, i) ==
    IF c[i][2] = Pieces
    THEN i = Len(c) \/ c[i + 1] = NL
    ELSE i < Len(c) /\ c[i + 1] = <<c[i][1], c[i][2] + 1>>

\* Every line that is not empty is one message, whole; the last one may still
\* be without its newline.
Parses(c) == \A i \in 1..Len(c) : c[i] # NL => Follows(c, i) /\ Leads(c, i)

\* The messages of a file that parses: their last piece is there.
Mail(c) == {m \in Messages : \E i \in 1..Len(c) : c[i] = <<m, Pieces>>}

\* What cannot be read fails the whole call.
Abort == list' = [list EXCEPT !.todo = {}, !.at = "error"]

\* Faulty variant: what cannot be read is passed over.
ReadOrSkip(t) ==
    list' = [list EXCEPT !.todo = @ \ {t},
                         !.msgs = IF Parses(file[t]) THEN @ \cup Mail(file[t]) ELSE @]

ReadFile(t) ==
    IF Parses(file[t]) THEN list' = [list EXCEPT !.todo = @ \ {t}, !.msgs = @ \cup Mail(file[t])]
    ELSE Abort

\* One file after the other.  One that is gone is passed over, or missed when
\* it was there a moment ago.
ReadThread ==
    /\ list.at = "read"
    /\ \E t \in list.todo :
        \/ t \in DOMAIN file /\ ReadFile(t)
        \/ t \notin DOMAIN file /\ (Abort \/ list' = [list EXCEPT !.todo = @ \ {t}])
    /\ UNCHANGED <<metas, file, st, on, at, linked, cleans, hurt, kept>>

EndList ==
    /\ list.at = "read" /\ list.todo = {}
    /\ list' = [list EXCEPT !.at = "ok"]
    /\ UNCHANGED <<metas, file, st, on, at, linked, cleans, hurt, kept>>

\* The answer is gone.
ForgetList ==
    /\ list.at \in {"ok", "error"}
    /\ list' = IdleList
    /\ UNCHANGED <<metas, file, st, on, at, linked, cleans, hurt, kept>>

-----------------------------------------------------------------------------
\* The server stops; what has been written of a message stays.
Stop ==
    /\ hurt' = hurt \cup {on[m] : m \in {m \in Messages : Writing(m) /\ at[m] > 0}}
    /\ st' = [m \in Messages |-> IF st[m] \in {"open", "write"} THEN "error" ELSE st[m]]
    /\ list' = IdleList
    /\ UNCHANGED <<metas, file, on, at, linked, cleans, kept>>

Send(m) == Resolve(m) \/ Refuse(m) \/ Open(m) \/ WritePiece(m) \/ WriteNewline(m) \/ FailSend(m)

Next ==
    \/ SaveMetas \/ Clean \/ Stop
    \/ \E m \in Messages : Send(m)
    \/ StartList \/ ReadThread \/ EndList \/ ForgetList

Spec == Init /\ [][Next]_vars

-----------------------------------------------------------------------------
(* Properties *)

TypeOK ==
    /\ metas \in BOOLEAN
    /\ st \in [Messages -> {"new", "open", "write", "sent", "error"}]
    /\ on \in [Messages -> Threads \cup {NoThread}]
    /\ at \in [Messages -> 0..Pieces]
    /\ linked \in [Messages -> BOOLEAN]
    /\ list \in [at : {"idle", "read", "ok", "error"}, todo : SUBSET Threads,
                 msgs : SUBSET Messages, owed : SUBSET Messages, met : BOOLEAN]
    /\ cleans \in 0..MaxCleans /\ hurt \in SUBSET Threads /\ kept \in SUBSET Messages
    /\ DOMAIN file \subseteq Threads
    /\ \A t \in DOMAIN file : file[t] \in Seq({NL} \cup (Messages \X (1..Pieces)))
    /\ \A m \in Messages : Writing(m) => on[m] \in DOMAIN file

\* A listing that succeeds has every message that was reported sent before it
\* began; one that fails has met a send or a clean at work, or a file in which
\* sends overlapped or one was cut short.  So a torn line is never passed over
\* in silence, and nothing but a torn line fails the call.
ListIsTrue ==
    /\ list.at = "ok" => list.owed \subseteq list.msgs
    /\ list.at = "error" => list.met \/ hurt # {}
=============================================================================
