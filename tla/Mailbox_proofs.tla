--------------------------- MODULE Mailbox_proofs ---------------------------
(***************************************************************************)
(* A listing of the mailbox is complete or fails, and only fails for a     *)
(* reason, for any number of messages, threads and pieces.                 *)
(***************************************************************************)
EXTENDS Mailbox, TLAPS

Piece == {NL} \cup (Messages \X (1..Pieces))

-----------------------------------------------------------------------------
(* The inductive invariant *)

SendTypes ==
    /\ st \in [Messages -> {"new", "open", "write", "sent", "error"}]
    /\ on \in [Messages -> Threads \cup {NoThread}]
    /\ at \in [Messages -> 0..Pieces]
    /\ linked \in [Messages -> BOOLEAN]
    /\ \A m \in Messages : st[m] \in {"open", "write", "sent"} => on[m] \in Threads
    /\ \A m \in Messages : st[m] \in {"new", "open"} => at[m] = 0

FileTypes ==
    /\ DOMAIN file \subseteq Threads
    /\ file \in [DOMAIN file -> Seq(Piece)]

ListTypes ==
    /\ list \in [at : {"idle", "read", "ok", "error"}, todo : SUBSET Threads,
                 msgs : SUBSET Messages, owed : SUBSET Messages, met : BOOLEAN]
    /\ hurt \in SUBSET Threads /\ kept \in SUBSET Messages

\* Whoever has a file open that is still in the directory finds it there.
FileThere == \A m \in Messages : Writing(m) => on[m] \in DOMAIN file

Has(t, p) == t \in DOMAIN file /\ \E i \in 1..Len(file[t]) : file[t][i] = p

\* What has been written of a message is there, and all of it when it has been
\* reported sent.
PieceThere == \A m \in Messages : Writing(m) /\ at[m] # 0 => Has(on[m], <<m, at[m]>>)
KeptThere == \A m \in kept : st[m] = "sent" /\ Has(on[m], <<m, Pieces>>)

\* Every piece is where it belongs, the last one may wait for the next.
Chain(c) == \A i \in 1..Len(c) : c[i] # NL => Follows(c, i) /\ (i < Len(c) => Leads(c, i))

\* Nothing waits for the next piece.
Settled(c) == c = <<>> \/ c[Len(c)] = NL

\* The file ends with what m has written so far.
EndsWith(c, m) == IF at[m] = 0 THEN Settled(c) ELSE c # <<>> /\ c[Len(c)] = <<m, at[m]>>

\* A thread that is not hurt has one sender at a time, and a file in order.
Sound(t) ==
    /\ \A m, n \in Messages : Writing(m) /\ Writing(n) /\ on[m] = t /\ on[n] = t => m = n
    /\ Chain(file[t])
    /\ \A m \in Messages : Writing(m) /\ on[m] = t => EndsWith(file[t], m)
    /\ (\A m \in Messages : ~(Writing(m) /\ on[m] = t)) => Settled(file[t])

AllSound == \A t \in DOMAIN file \ hurt : Sound(t)

\* A listing has read, or will read, what it owes; it notices every send.
ListInv ==
    /\ list.at \in {"read", "ok"} =>
          list.owed \subseteq kept /\ \A m \in list.owed : on[m] \in list.todo \/ m \in list.msgs
    /\ list.at = "ok" => list.todo = {}
    /\ list.at = "read" /\ ~list.met =>
          list.todo \subseteq DOMAIN file /\ \A m \in Messages : ~Writing(m)
    /\ list.at = "error" => list.met \/ hurt # {}

IInv == SendTypes /\ FileTypes /\ ListTypes /\ FileThere /\ PieceThere /\ KeptThere /\ AllSound /\ ListInv

\* A listing that ends shows what it owes.
LEMMA InvTrue == IInv => ListIsTrue
BY DEF IInv, ListInv, ListIsTrue

-----------------------------------------------------------------------------
(* Files *)

\* What appending a piece does to a file.
LEMMA Appended ==
    ASSUME NEW c \in Seq(Piece), NEW p \in Piece
    PROVE  /\ Append(c, p) \in Seq(Piece) /\ Append(c, p) # <<>>
           /\ Len(c) \in Nat /\ Len(Append(c, p)) = Len(c) + 1
           /\ Append(c, p)[Len(c) + 1] = p
           /\ \A i \in 1..Len(c) : Append(c, p)[i] = c[i]
OBVIOUS

\* A file in order that nobody is writing to parses.
LEMMA SettledParses ==
    ASSUME NEW c \in Seq(Piece), Chain(c), Settled(c) PROVE Parses(c)
<1>1. CASE c = <<>>
  BY <1>1 DEF Parses
<1>2. CASE c # <<>> /\ c[Len(c)] = NL
  <2>1. SUFFICES ASSUME NEW i \in 1..Len(c), c[i] # NL PROVE Follows(c, i) /\ Leads(c, i)
    BY DEF Parses
  <2>2. i < Len(c)
    BY <1>2, <2>1
  <2>3. QED
    BY <2>1, <2>2 DEF Chain
<1>3. QED
  BY <1>1, <1>2 DEF Settled

\* A sender's next piece belongs where its last one is.
LEMMA PieceFits ==
    ASSUME NEW c \in Seq(Piece), Chain(c), NEW m \in Messages, SendTypes, at[m] < Pieces,
           EndsWith(c, m)
    PROVE  Chain(Append(c, <<m, at[m] + 1>>))
<1>. DEFINE p == <<m, at[m] + 1>>
            d == Append(c, p)
<1>0. at[m] \in 0..Pieces /\ at[m] + 1 \in 1..Pieces /\ Pieces \in Nat /\ p \in Piece
  BY PiecesAssumption DEF SendTypes, Piece
<1>1. Len(c) \in Nat /\ Len(d) = Len(c) + 1 /\ d[Len(c) + 1] = p /\ \A i \in 1..Len(c) : d[i] = c[i]
  BY <1>0, Appended
<1>2. SUFFICES ASSUME NEW i \in 1..Len(d), d[i] # NL
               PROVE  Follows(d, i) /\ (i < Len(d) => Leads(d, i))
  BY DEF Chain
<1>3. CASE i = Len(c) + 1
  <2>1. d[i] = p /\ d[i][1] = m /\ d[i][2] = at[m] + 1 /\ ~(i < Len(d))
    BY <1>1, <1>3
  <2>2. CASE at[m] = 0
    BY <1>0, <1>1, <1>3, <2>1, <2>2 DEF EndsWith, Settled, Follows
  <2>3. CASE at[m] # 0
    <3>1. c # <<>> /\ c[Len(c)] = <<m, at[m]>>
      BY <2>3 DEF EndsWith
    <3>2. Len(c) \in 1..Len(c) /\ d[i - 1] = <<m, at[m]>> /\ i > 1
      BY <1>1, <1>3, <3>1
    <3>3. QED
      BY <1>0, <2>1, <2>3, <3>2 DEF Follows
  <2>4. QED
    BY <2>2, <2>3
<1>4. CASE i \in 1..Len(c)
  <2>1. c[i] # NL /\ d[i] = c[i] /\ (i > 1 => d[i - 1] = c[i - 1])
    BY <1>1, <1>2, <1>4
  <2>2. Follows(d, i)
    BY <1>4, <2>1 DEF Chain, Follows
  <2>3. CASE i < Len(c)
    <3>1. d[i + 1] = c[i + 1]
      BY <1>1, <1>4, <2>3
    <3>2. QED
      BY <1>1, <1>4, <2>1, <2>2, <2>3, <3>1 DEF Chain, Leads
  <2>4. CASE i = Len(c)
    <3>1. at[m] # 0 /\ c[i] = <<m, at[m]>>
      BY <1>4, <2>1, <2>4 DEF EndsWith, Settled
    <3>2. d[i][1] = m /\ d[i][2] = at[m] /\ d[i + 1] = p /\ i < Len(d)
      BY <1>1, <2>1, <2>4, <3>1
    <3>3. QED
      BY <1>0, <2>2, <3>2 DEF Leads
  <2>5. QED
    BY <1>1, <1>4, <2>3, <2>4
<1>5. QED
  BY <1>1, <1>3, <1>4

\* The newline ends the line of the sender whose last piece is there.
LEMMA NewlineFits ==
    ASSUME NEW c \in Seq(Piece), Chain(c), NEW m \in Messages, at[m] = Pieces, EndsWith(c, m)
    PROVE  Chain(Append(c, NL)) /\ Settled(Append(c, NL))
<1>. DEFINE d == Append(c, NL)
<1>0. Pieces \in Nat /\ Pieces # 0 /\ NL \in Piece
  BY PiecesAssumption DEF Piece
<1>1. Len(c) \in Nat /\ Len(d) = Len(c) + 1 /\ d[Len(c) + 1] = NL /\ \A i \in 1..Len(c) : d[i] = c[i]
  BY <1>0, Appended
<1>2. Settled(d)
  BY <1>1 DEF Settled
<1>3. c # <<>> /\ c[Len(c)] = <<m, Pieces>>
  BY <1>0 DEF EndsWith
<1>4. ASSUME NEW i \in 1..Len(d), d[i] # NL PROVE Follows(d, i) /\ (i < Len(d) => Leads(d, i))
  <2>1. i \in 1..Len(c) /\ c[i] # NL /\ d[i] = c[i] /\ (i > 1 => d[i - 1] = c[i - 1])
    BY <1>1, <1>4
  <2>2. Follows(d, i)
    BY <2>1 DEF Chain, Follows
  <2>3. CASE i < Len(c)
    <3>1. d[i + 1] = c[i + 1]
      BY <1>1, <2>1, <2>3
    <3>2. QED
      BY <1>1, <2>1, <2>2, <2>3, <3>1 DEF Chain, Leads
  <2>4. CASE i = Len(c)
    <3>1. d[i][2] = Pieces /\ d[i + 1] = NL
      BY <1>1, <1>3, <2>1, <2>4
    <3>2. QED
      BY <2>2, <3>1 DEF Leads
  <2>5. QED
    BY <1>1, <2>1, <2>3, <2>4
<1>5. QED
  BY <1>2, <1>4 DEF Chain

\* A write changes the file of its thread, if that is still there.
LEMMA WriteFile ==
    ASSUME SendTypes, FileTypes, FileThere, NEW m \in Messages, st[m] = "write", NEW p \in Piece,
           Append1(m, p)
    PROVE  /\ FileTypes' /\ DOMAIN file' = DOMAIN file
           /\ linked[m] => /\ on[m] \in DOMAIN file /\ file[on[m]] \in Seq(Piece)
                           /\ file'[on[m]] = Append(file[on[m]], p)
           /\ \A t \in DOMAIN file : ~linked[m] \/ t # on[m] => file'[t] = file[t]
<1>1. CASE ~linked[m]
  BY <1>1 DEF Append1, FileTypes
<1>2. CASE linked[m]
  <2>1. on[m] \in DOMAIN file
    BY <1>2 DEF FileThere, Writing
  <2>2. file[on[m]] \in Seq(Piece) /\ Append(file[on[m]], p) \in Seq(Piece)
    BY <2>1 DEF FileTypes
  <2>3. file' = [file EXCEPT ![on[m]] = Append(@, p)]
    BY <1>2 DEF Append1
  <2>4. QED
    BY <1>2, <2>1, <2>2, <2>3 DEF FileTypes
<1>3. QED
  BY <1>1, <1>2

\* Opening makes the file if need be.
LEMMA OpenFile ==
    ASSUME SendTypes, FileTypes, NEW m \in Messages, Open(m)
    PROVE  /\ FileTypes' /\ DOMAIN file' = DOMAIN file \cup {on[m]}
           /\ \A t \in DOMAIN file : file'[t] = file[t]
           /\ on[m] \notin DOMAIN file => file'[on[m]] = <<>>
<1>1. on[m] \in Threads
  BY DEF Open, SendTypes
<1>2. file' = [t \in DOMAIN file \cup {on[m]} |-> IF t \in DOMAIN file THEN file[t] ELSE <<>>]
  BY DEF Open
<1>3. <<>> \in Seq(Piece)
  OBVIOUS
<1>4. QED
  BY <1>1, <1>2, <1>3 DEF FileTypes

\* The pieces written are pieces.
LEMMA NextPiece ==
    ASSUME SendTypes, NEW m \in Messages
    PROVE  /\ NL \in Piece /\ Pieces \in Nat /\ at[m] \in Nat
           /\ at[m] < Pieces => <<m, at[m] + 1>> \in Piece /\ at[m] + 1 \in 0..Pieces
BY PiecesAssumption DEF SendTypes, Piece

-----------------------------------------------------------------------------
(* Types *)

LEMMA InitHolds == Init => IInv
<1>. SUFFICES ASSUME Init PROVE IInv
  OBVIOUS
<1>. USE PiecesAssumption DEF Init
<1>1. SendTypes
  <2>1. linked \in [Messages -> BOOLEAN]
    OBVIOUS
  <2>2. QED
    BY <2>1 DEF SendTypes
<1>2. FileTypes
  BY DEF FileTypes, NoFiles
<1>3. ListTypes
  BY DEF ListTypes, IdleList
<1>4. FileThere /\ PieceThere /\ KeptThere
  BY DEF FileThere, PieceThere, KeptThere, Writing
<1>5. AllSound
  BY DEF AllSound, NoFiles
<1>6. ListInv
  BY DEF ListInv, IdleList
<1>7. QED
  BY <1>1, <1>2, <1>3, <1>4, <1>5, <1>6 DEF IInv

\* What a send keeps stays typed.
LEMMA SendTyped == ASSUME SendTypes, Next PROVE SendTypes'
<1>1. CASE SaveMetas \/ StartList \/ ReadThread \/ EndList \/ ForgetList
  BY <1>1 DEF SaveMetas, StartList, ReadThread, EndList, ForgetList, SendTypes
<1>2. CASE Clean
  <2>1. linked' \in [Messages -> BOOLEAN]
    BY <1>2 DEF Clean
  <2>2. UNCHANGED <<st, on, at>>
    BY <1>2 DEF Clean
  <2>3. QED
    BY <2>1, <2>2 DEF SendTypes
<1>3. CASE Stop
  <2>1. st' = [m \in Messages |-> IF st[m] \in {"open", "write"} THEN "error" ELSE st[m]]
        /\ UNCHANGED <<on, at, linked>>
    BY <1>3 DEF Stop
  <2>2. QED
    BY <2>1 DEF SendTypes
<1>4. ASSUME NEW m \in Messages, Resolve(m) PROVE SendTypes'
  <2>1. PICK t \in Threads : on' = [on EXCEPT ![m] = t]
    BY <1>4 DEF Resolve
  <2>2. QED
    BY <1>4, <2>1 DEF Resolve, SendTypes
<1>5. ASSUME NEW m \in Messages, Refuse(m) \/ Open(m) \/ FailSend(m) PROVE SendTypes'
  BY <1>5 DEF Refuse, Open, FailSend, SendTypes
<1>6. ASSUME NEW m \in Messages, WritePiece(m) PROVE SendTypes'
  <2>1. at[m] + 1 \in 0..Pieces
    BY <1>6, NextPiece DEF WritePiece
  <2>2. QED
    BY <1>6, <2>1 DEF WritePiece, SendTypes
<1>7. ASSUME NEW m \in Messages, WriteNewline(m) PROVE SendTypes'
  BY <1>7 DEF WriteNewline, SendTypes
<1>8. QED
  BY <1>1, <1>2, <1>3, <1>4, <1>5, <1>6, <1>7 DEF Next, Send

\* So do the files.
LEMMA FilesTyped == ASSUME SendTypes, FileTypes, FileThere, Next PROVE FileTypes'
<1>1. CASE Clean
  BY <1>1 DEF Clean, FileTypes, NoFiles
<1>2. ASSUME NEW m \in Messages, Open(m) PROVE FileTypes'
  BY <1>2, OpenFile
<1>3. ASSUME NEW m \in Messages, WritePiece(m) PROVE FileTypes'
  BY <1>3, NextPiece, WriteFile DEF WritePiece
<1>4. ASSUME NEW m \in Messages, WriteNewline(m) PROVE FileTypes'
  BY <1>4, NextPiece, WriteFile DEF WriteNewline
<1>5. ASSUME UNCHANGED file PROVE FileTypes'
  BY <1>5 DEF FileTypes
<1>6. QED
  BY <1>1, <1>2, <1>3, <1>4, <1>5 DEF Next, Send, SaveMetas, Stop, Resolve, Refuse, FailSend, StartList,
     ReadThread, EndList, ForgetList

\* So do the listing and what is remembered.
LEMMA ListTyped == ASSUME SendTypes, FileTypes, ListTypes, Next PROVE ListTypes'
<1>. USE DEF ListTypes
<1>1. CASE SaveMetas \/ EndList
  BY <1>1 DEF SaveMetas, EndList
<1>11. CASE ForgetList
  BY <1>11 DEF ForgetList, IdleList
<1>2. CASE Clean
  BY <1>2 DEF Clean
<1>3. CASE Stop
  <2>1. \A m \in Messages : Writing(m) => on[m] \in Threads
    BY DEF Writing, SendTypes
  <2>2. QED
    BY <1>3, <2>1 DEF Stop, IdleList
<1>4. CASE StartList
  <2>1. (\E m \in Messages : Writing(m)) \in BOOLEAN
    OBVIOUS
  <2>2. QED
    BY <1>4, <2>1 DEF StartList, FileTypes
<1>5. CASE ReadThread
  <2>1. PICK t \in list.todo :
          \/ t \in DOMAIN file /\ ReadFile(t)
          \/ t \notin DOMAIN file /\ (Abort \/ list' = [list EXCEPT !.todo = @ \ {t}])
    BY <1>5 DEF ReadThread
  <2>2. Mail(file[t]) \subseteq Messages
    BY DEF Mail
  <2>3. UNCHANGED <<hurt, kept>>
    BY <1>5 DEF ReadThread
  <2>4. QED
    BY <2>1, <2>2, <2>3 DEF ReadFile, Abort
<1>6. ASSUME NEW m \in Messages, Open(m) PROVE ListTypes'
  <2>1. \A o \in Messages : Writing(o) => on[o] \in Threads
    BY DEF Writing, SendTypes
  <2>2. QED
    BY <1>6, <2>1 DEF Open
<1>7. ASSUME NEW m \in Messages, WriteNewline(m) PROVE ListTypes'
  BY <1>7 DEF WriteNewline
<1>8. ASSUME NEW m \in Messages, FailSend(m) PROVE ListTypes'
  <2>1. Writing(m) => on[m] \in Threads
    BY DEF Writing, SendTypes
  <2>2. QED
    BY <1>8, <2>1 DEF FailSend
<1>9. ASSUME NEW m \in Messages, Resolve(m) \/ Refuse(m) \/ WritePiece(m) PROVE ListTypes'
  BY <1>9 DEF Resolve, Refuse, WritePiece
<1>10. QED
  BY <1>1, <1>2, <1>3, <1>4, <1>5, <1>6, <1>7, <1>8, <1>9, <1>11 DEF Next, Send

-----------------------------------------------------------------------------
(* What is there *)

\* Files only grow, as long as nobody cleans.
LEMMA FilesGrow ==
    ASSUME SendTypes, FileTypes, FileThere, Next, ~Clean, NEW t \in Threads, NEW p, Has(t, p)
    PROVE  Has(t, p)'
<1>1. ASSUME NEW m \in Messages, Open(m) PROVE Has(t, p)'
  BY <1>1, OpenFile DEF Has
<1>2. ASSUME NEW m \in Messages, NEW q \in Piece, st[m] = "write", Append1(m, q) PROVE Has(t, p)'
  <2>1. PICK i \in 1..Len(file[t]) : file[t][i] = p
    BY DEF Has
  <2>2. file[t] \in Seq(Piece)
    BY DEF Has, FileTypes
  <2>3. file'[t] = file[t] \/ file'[t] = Append(file[t], q)
    BY <1>2, WriteFile DEF Has
  <2>4. Len(file'[t]) \in Nat /\ Len(file[t]) \in Nat /\ Len(file'[t]) >= Len(file[t])
        /\ file'[t][i] = file[t][i]
    BY <2>2, <2>3, <1>2, Appended
  <2>5. t \in DOMAIN file'
    BY <1>2, WriteFile DEF Has
  <2>6. QED
    BY <2>1, <2>4, <2>5 DEF Has
<1>3. ASSUME NEW m \in Messages, WritePiece(m) \/ WriteNewline(m) PROVE Has(t, p)'
  BY <1>2, <1>3, NextPiece DEF WritePiece, WriteNewline
<1>4. ASSUME UNCHANGED file PROVE Has(t, p)'
  BY <1>4 DEF Has
<1>5. QED
  BY <1>1, <1>3, <1>4 DEF Next, Send, SaveMetas, Stop, Resolve, Refuse, FailSend, StartList, ReadThread,
     EndList, ForgetList

\* A step writes for one message, or opens its file, or ends it.
LEMMA WritersMove ==
    ASSUME SendTypes, Next, NEW m \in Messages, Writing(m)'
    PROVE  /\ on'[m] = on[m]
           /\ ~Clean /\ ~Stop
           /\ \/ Writing(m) /\ at'[m] = at[m]
              \/ WritePiece(m) /\ Writing(m) /\ at'[m] = at[m] + 1
              \/ Open(m) /\ at'[m] = 0
<1>. DEFINE Goal == /\ on'[m] = on[m] /\ ~Clean /\ ~Stop
                    /\ \/ Writing(m) /\ at'[m] = at[m]
                       \/ WritePiece(m) /\ Writing(m) /\ at'[m] = at[m] + 1
                       \/ Open(m) /\ at'[m] = 0
<1>. SUFFICES Goal
  OBVIOUS
<1>. USE DEF Writing
<1>1. ~Clean /\ ~Stop
  <2>1. ASSUME Clean PROVE FALSE
    <3>1. st'[m] = "write" /\ linked'[m] /\ st' = st /\ linked' = [o \in Messages |-> st[o] = "write" => FALSE]
      BY <2>1 DEF Clean
    <3>2. QED
      BY <3>1
  <2>2. ASSUME Stop PROVE FALSE
    <3>1. st'[m] = "write" /\ st' = [o \in Messages |-> IF st[o] \in {"open", "write"} THEN "error" ELSE st[o]]
      BY <2>2 DEF Stop
    <3>2. QED
      BY <3>1
  <2>3. QED
    BY <2>1, <2>2
<1>2. ASSUME SaveMetas \/ StartList \/ ReadThread \/ EndList \/ ForgetList PROVE Goal
  BY <1>1, <1>2 DEF SaveMetas, StartList, ReadThread, EndList, ForgetList
<1>3. ASSUME NEW n \in Messages, Resolve(n) \/ Refuse(n) \/ WriteNewline(n) \/ FailSend(n) PROVE Goal
  BY <1>1, <1>3 DEF Resolve, Refuse, WriteNewline, FailSend, SendTypes
<1>4. ASSUME NEW n \in Messages, Open(n) PROVE Goal
  BY <1>1, <1>4 DEF Open, SendTypes
<1>5. ASSUME NEW n \in Messages, WritePiece(n) PROVE Goal
  BY <1>1, <1>5 DEF WritePiece, SendTypes
<1>6. QED
  BY <1>1, <1>2, <1>3, <1>4, <1>5 DEF Next, Send

\* Whoever writes finds the file, and in it what it has written.
LEMMA ThereKept ==
    ASSUME SendTypes, FileTypes, FileThere, PieceThere, Next PROVE FileThere' /\ PieceThere'
<1>1. SUFFICES ASSUME NEW m \in Messages, Writing(m)'
               PROVE  on'[m] \in DOMAIN file' /\ (at'[m] # 0 => Has(on[m], <<m, at[m]>>)')
  BY DEF FileThere, PieceThere
<1>2. on'[m] = on[m] /\ ~Clean
  BY <1>1, WritersMove
<1>3. CASE Writing(m) /\ at'[m] = at[m]
  <2>1. on[m] \in DOMAIN file /\ on[m] \in Threads
    BY <1>3 DEF FileThere, FileTypes
  <2>2. on[m] \in DOMAIN file'
    <3>1. ASSUME NEW n \in Messages, Open(n) PROVE on[m] \in DOMAIN file'
      BY <2>1, <3>1, OpenFile
    <3>2. ASSUME NEW n \in Messages, WritePiece(n) \/ WriteNewline(n) PROVE on[m] \in DOMAIN file'
      BY <2>1, <3>2, NextPiece, WriteFile DEF WritePiece, WriteNewline
    <3>3. QED
      BY <1>2, <2>1, <3>1, <3>2 DEF Next, Send, SaveMetas, Stop, Resolve, Refuse, FailSend, StartList,
         ReadThread, EndList, ForgetList
  <2>3. at[m] # 0 => \E p : p = <<m, at[m]>> /\ Has(on[m], p)'
    BY <1>2, <1>3, <2>1, FilesGrow DEF PieceThere
  <2>4. QED
    BY <1>2, <1>3, <2>2, <2>3 DEF Has
<1>4. CASE WritePiece(m) /\ Writing(m) /\ at'[m] = at[m] + 1
  <2>1. <<m, at[m] + 1>> \in Piece /\ st[m] = "write" /\ linked[m] /\ Append1(m, <<m, at[m] + 1>>)
    BY <1>4, NextPiece DEF WritePiece, Writing
  <2>2. DOMAIN file' = DOMAIN file /\ on[m] \in DOMAIN file /\ file[on[m]] \in Seq(Piece)
        /\ file'[on[m]] = Append(file[on[m]], <<m, at[m] + 1>>)
    BY <2>1, WriteFile
  <2>3. Len(file'[on[m]]) = Len(file[on[m]]) + 1 /\ Len(file[on[m]]) \in Nat
        /\ file'[on[m]][Len(file[on[m]]) + 1] = <<m, at[m] + 1>>
    BY <2>1, <2>2, Appended
  <2>4. QED
    BY <1>2, <1>4, <2>2, <2>3 DEF Has
<1>5. CASE Open(m) /\ at'[m] = 0
  BY <1>2, <1>5, OpenFile
<1>6. QED
  BY <1>1, <1>3, <1>4, <1>5, WritersMove

\* A message that was reported sent stays, until its file is cleaned away.
LEMMA KeptKept ==
    ASSUME SendTypes, FileTypes, ListTypes, FileThere, PieceThere, KeptThere, Next PROVE KeptThere'
<1>1. CASE Clean
  BY <1>1 DEF Clean, KeptThere
<1>2. CASE ~Clean
  <2>1. \A m \in kept : m \in Messages /\ st[m] = "sent" /\ on[m] \in Threads
    BY DEF ListTypes, KeptThere, SendTypes
  <2>2. \A m \in kept : st'[m] = "sent" /\ on'[m] = on[m]
    BY <1>2, <2>1 DEF Next, Send, SendTypes, SaveMetas, Stop, Resolve, Refuse, Open, WritePiece, WriteNewline,
       FailSend, StartList, ReadThread, EndList, ForgetList
  <2>3. \A m \in kept : Has(on[m], <<m, Pieces>>)'
    <3>1. SUFFICES ASSUME NEW m \in kept PROVE Has(on[m], <<m, Pieces>>)'
      OBVIOUS
    <3>2. Has(on[m], <<m, Pieces>>)
      BY DEF KeptThere
    <3>3. \E t, p : t = on[m] /\ p = <<m, Pieces>> /\ Has(t, p)'
      BY <1>2, <2>1, <3>2, FilesGrow
    <3>4. QED
      BY <2>2, <3>3 DEF Has
  <2>4. ASSUME NEW m \in Messages, WriteNewline(m), linked[m]
        PROVE  st'[m] = "sent" /\ Has(on[m], <<m, Pieces>>)'
    <3>1. Has(on[m], <<m, Pieces>>) /\ st'[m] = "sent" /\ on' = on /\ on[m] \in Threads
      BY <2>4, PiecesAssumption DEF WriteNewline, PieceThere, Writing, SendTypes
    <3>2. \E t, p : t = on[m] /\ p = <<m, Pieces>> /\ Has(t, p)'
      BY <1>2, <3>1, FilesGrow
    <3>3. QED
      BY <3>1, <3>2 DEF Has
  <2>5. \A m \in kept' : m \in kept \/ (m \in Messages /\ WriteNewline(m) /\ linked[m])
    BY <1>2 DEF Next, Send, SaveMetas, Stop, Resolve, Refuse, Open, WritePiece, WriteNewline,
       FailSend, StartList, ReadThread, EndList, ForgetList
  <2>6. QED
    BY <2>2, <2>3, <2>4, <2>5 DEF KeptThere
<1>3. QED
  BY <1>1, <1>2

-----------------------------------------------------------------------------
(* Files in order *)

\* A file stays sound when neither it nor its senders move.
LEMMA SoundStays ==
    ASSUME NEW t, Sound(t), file'[t] = file[t],
           \A m \in Messages : (Writing(m)' /\ on'[m] = t) <=> (Writing(m) /\ on[m] = t),
           \A m \in Messages : Writing(m) /\ on[m] = t => at'[m] = at[m]
    PROVE  Sound(t)'
<1>1. Chain(file[t])'
  BY DEF Sound, Chain, Follows, Leads
<1>2. \A m \in Messages : Writing(m)' /\ on'[m] = t => EndsWith(file[t], m)'
  BY DEF Sound, EndsWith, Settled
<1>3. (\A m \in Messages : ~(Writing(m)' /\ on'[m] = t)) => Settled(file[t])'
  BY DEF Sound, Settled
<1>4. \A m, n \in Messages : Writing(m)' /\ Writing(n)' /\ on'[m] = t /\ on'[n] = t => m = n
  BY DEF Sound
<1>5. QED
  BY <1>1, <1>2, <1>3, <1>4 DEF Sound

\* A file that nobody writes to any more is sound if it is in order and settled.
LEMMA SoundSettled ==
    ASSUME NEW t, Chain(file[t])', Settled(file[t])', \A m \in Messages : ~(Writing(m)' /\ on'[m] = t)
    PROVE  Sound(t)'
BY DEF Sound

\* So is one with a single sender, whose last piece ends it.
LEMMA SoundAlone ==
    ASSUME NEW t, NEW m \in Messages, Chain(file[t])', EndsWith(file[t], m)', Writing(m)', on'[m] = t,
           \A n \in Messages : Writing(n)' /\ on'[n] = t => n = m
    PROVE  Sound(t)'
<1>1. \A n \in Messages : Writing(n)' /\ on'[n] = t => EndsWith(file[t], n)'
  OBVIOUS
<1>2. QED
  BY <1>1 DEF Sound

\* A thread opened, stopped or failed on by its only senders, or left alone.
LEMMA StopSound == ASSUME SendTypes, AllSound, Stop PROVE AllSound'
<1>1. SUFFICES ASSUME NEW t \in DOMAIN file, t \notin hurt' PROVE Sound(t)'
  BY DEF AllSound, Stop
<1>2. /\ Sound(t) /\ file' = file /\ on' = on
      /\ \A m \in Messages : Writing(m) /\ on[m] = t => ~(at[m] > 0)
  BY <1>1 DEF AllSound, Stop
<1>3. \A m \in Messages : ~Writing(m)'
  <2>1. st' = [m \in Messages |-> IF st[m] \in {"open", "write"} THEN "error" ELSE st[m]]
    BY DEF Stop
  <2>2. QED
    BY <2>1 DEF Writing
<1>4. Settled(file[t])
  <2>1. ASSUME NEW m \in Messages, Writing(m), on[m] = t PROVE Settled(file[t])
    <3>1. at[m] \in Nat /\ ~(at[m] > 0)
      BY <1>2, <2>1, NextPiece
    <3>2. at[m] = 0
      BY <3>1
    <3>3. QED
      BY <1>2, <2>1, <3>2 DEF Sound, EndsWith
  <2>2. QED
    BY <1>2, <2>1 DEF Sound
<1>5. Chain(file[t])' /\ Settled(file[t])'
  BY <1>2, <1>4 DEF Sound, Chain, Settled, Follows, Leads
<1>6. QED
  BY <1>3, <1>5, SoundSettled

LEMMA FailSound == ASSUME SendTypes, AllSound, NEW m \in Messages, FailSend(m) PROVE AllSound'
<1>1. SUFFICES ASSUME NEW t \in DOMAIN file, t \notin hurt' PROVE Sound(t)'
  BY DEF AllSound, FailSend
<1>2. /\ file' = file /\ on' = on /\ at' = at /\ linked' = linked
      /\ st' = [st EXCEPT ![m] = "error"] /\ hurt \subseteq hurt'
      /\ Writing(m) /\ at[m] > 0 => on[m] \in hurt'
  BY DEF FailSend
<1>3. Sound(t)
  BY <1>1, <1>2 DEF AllSound
<1>4. ~Writing(m)' /\ \A n \in Messages : n # m => (Writing(n)' <=> Writing(n))
  BY <1>2 DEF Writing, SendTypes
<1>5. CASE Writing(m) /\ on[m] = t
  <2>1. at[m] = 0
    <3>1. at[m] \in Nat /\ ~(at[m] > 0)
      BY <1>1, <1>2, <1>5, NextPiece
    <3>2. QED
      BY <3>1
  <2>2. Chain(file[t]) /\ Settled(file[t]) /\ \A n \in Messages : n # m => ~(Writing(n) /\ on[n] = t)
    BY <1>3, <1>5, <2>1 DEF Sound, EndsWith
  <2>3. Chain(file[t])' /\ Settled(file[t])'
    BY <1>2, <2>2 DEF Chain, Settled, Follows, Leads
  <2>4. QED
    BY <1>2, <1>4, <2>2, <2>3, SoundSettled
<1>6. CASE ~(Writing(m) /\ on[m] = t)
  <2>1. \A n \in Messages : (Writing(n)' /\ on'[n] = t) <=> (Writing(n) /\ on[n] = t)
    BY <1>2, <1>4, <1>6
  <2>2. QED
    BY <1>2, <1>3, <2>1, SoundStays
<1>7. QED
  BY <1>5, <1>6

LEMMA OpenSound == ASSUME SendTypes, FileTypes, AllSound, NEW m \in Messages, Open(m) PROVE AllSound'
<1>1. SUFFICES ASSUME NEW t \in DOMAIN file', t \notin hurt' PROVE Sound(t)'
  BY DEF AllSound
<1>2. /\ on' = on /\ at' = at /\ linked' = linked /\ st' = [st EXCEPT ![m] = "write"]
      /\ hurt' = hurt \cup {on[o] : o \in {o \in Messages : Writing(o) /\ on[o] = on[m]}}
      /\ st[m] = "open" /\ at[m] = 0
  BY DEF Open, SendTypes
<1>3. ~Writing(m) /\ \A n \in Messages : n # m => (Writing(n)' <=> Writing(n))
  BY <1>2 DEF Writing, SendTypes
<1>4. t \in DOMAIN file \/ t = on[m]
  BY <1>1, OpenFile
<1>5. CASE on[m] # t
  <2>1. Sound(t) /\ file'[t] = file[t]
    BY <1>1, <1>2, <1>4, <1>5, OpenFile DEF AllSound
  <2>2. \A n \in Messages : (Writing(n)' /\ on'[n] = t) <=> (Writing(n) /\ on[n] = t)
    BY <1>2, <1>3, <1>5
  <2>3. QED
    BY <1>2, <2>1, <2>2, SoundStays
<1>6. CASE on[m] = t
  <2>1. \A n \in Messages : ~(Writing(n) /\ on[n] = t)
    BY <1>1, <1>2, <1>6
  <2>2. Chain(file[t])' /\ Settled(file[t])'
    <3>1. CASE t \in DOMAIN file
      <4>1. Chain(file[t]) /\ Settled(file[t]) /\ file'[t] = file[t]
        BY <1>1, <1>2, <2>1, <3>1, OpenFile DEF AllSound, Sound
      <4>2. QED
        BY <4>1 DEF Chain, Settled, Follows, Leads
    <3>2. CASE t \notin DOMAIN file
      <4>1. file'[t] = <<>>
        BY <1>6, <3>2, OpenFile
      <4>2. QED
        BY <4>1 DEF Chain, Settled
    <3>3. QED
      BY <3>1, <3>2
  <2>3. EndsWith(file[t], m)'
    BY <1>2, <2>2 DEF EndsWith
  <2>4. \A n \in Messages : Writing(n)' /\ on'[n] = t => n = m
    BY <1>2, <1>3, <2>1
  <2>5. CASE Writing(m)'
    BY <1>2, <1>6, <2>2, <2>3, <2>4, <2>5, SoundAlone
  <2>6. CASE ~Writing(m)'
    BY <2>2, <2>4, <2>6, SoundSettled
  <2>7. QED
    BY <2>5, <2>6
<1>7. QED
  BY <1>5, <1>6

LEMMA PieceSound ==
    ASSUME SendTypes, FileTypes, FileThere, AllSound, NEW m \in Messages, WritePiece(m) PROVE AllSound'
<1>0. /\ <<m, at[m] + 1>> \in Piece /\ at[m] \in Nat /\ st[m] = "write" /\ at[m] < Pieces
      /\ Append1(m, <<m, at[m] + 1>>) /\ UNCHANGED <<st, on, linked, hurt>>
      /\ at' = [at EXCEPT ![m] = @ + 1]
  BY NextPiece DEF WritePiece
<1>1. SUFFICES ASSUME NEW t \in DOMAIN file, t \notin hurt PROVE Sound(t)'
  BY <1>0, WriteFile DEF AllSound
<1>2. Sound(t) /\ \A n \in Messages : Writing(n)' <=> Writing(n)
  BY <1>0, <1>1 DEF AllSound, Writing
<1>3. CASE linked[m] /\ on[m] = t
  <2>1. file[t] \in Seq(Piece) /\ file'[t] = Append(file[t], <<m, at[m] + 1>>)
    BY <1>0, <1>3, WriteFile
  <2>2. Writing(m) /\ EndsWith(file[t], m) /\ Chain(file[t])
    BY <1>0, <1>2, <1>3 DEF Sound, Writing
  <2>3. Chain(Append(file[t], <<m, at[m] + 1>>))
    BY <1>0, <2>1, <2>2, PieceFits
  <2>4. Chain(file[t])'
    BY <2>1, <2>3 DEF Chain, Follows, Leads
  <2>5. at'[m] = at[m] + 1
    BY <1>0 DEF SendTypes
  <2>6. EndsWith(file[t], m)'
    <3>1. /\ file'[t] # <<>> /\ Len(file'[t]) = Len(file[t]) + 1
          /\ file'[t][Len(file[t]) + 1] = <<m, at[m] + 1>>
      BY <1>0, <2>1, Appended
    <3>2. QED
      BY <1>0, <2>5, <3>1 DEF EndsWith
  <2>7. \A n \in Messages : Writing(n)' /\ on'[n] = t => n = m
    BY <1>0, <1>2, <1>3, <2>2 DEF Sound
  <2>8. QED
    BY <1>0, <1>2, <1>3, <2>2, <2>4, <2>6, <2>7, SoundAlone
<1>4. CASE ~(linked[m] /\ on[m] = t)
  <2>1. file'[t] = file[t]
    BY <1>0, <1>4, WriteFile
  <2>2. \A n \in Messages : (Writing(n)' /\ on'[n] = t) <=> (Writing(n) /\ on[n] = t)
    BY <1>0, <1>2
  <2>3. \A n \in Messages : Writing(n) /\ on[n] = t => at'[n] = at[n]
    BY <1>0, <1>4 DEF Writing, SendTypes
  <2>4. QED
    BY <1>2, <2>1, <2>2, <2>3, SoundStays
<1>5. QED
  BY <1>3, <1>4

LEMMA NewlineSound ==
    ASSUME SendTypes, FileTypes, FileThere, AllSound, NEW m \in Messages, WriteNewline(m) PROVE AllSound'
<1>0. /\ NL \in Piece /\ st[m] = "write" /\ at[m] = Pieces
      /\ Append1(m, NL) /\ UNCHANGED <<on, linked, hurt, at>> /\ st' = [st EXCEPT ![m] = "sent"]
  BY NextPiece DEF WriteNewline
<1>1. SUFFICES ASSUME NEW t \in DOMAIN file, t \notin hurt PROVE Sound(t)'
  BY <1>0, WriteFile DEF AllSound
<1>2. Sound(t) /\ ~Writing(m)' /\ \A n \in Messages : n # m => (Writing(n)' <=> Writing(n))
  BY <1>0, <1>1 DEF AllSound, Writing, SendTypes
<1>3. CASE linked[m] /\ on[m] = t
  <2>1. file[t] \in Seq(Piece) /\ file'[t] = Append(file[t], NL)
    BY <1>0, <1>3, WriteFile
  <2>2. Writing(m) /\ EndsWith(file[t], m) /\ Chain(file[t])
    BY <1>0, <1>2, <1>3 DEF Sound, Writing
  <2>3. Chain(Append(file[t], NL)) /\ Settled(Append(file[t], NL))
    BY <1>0, <2>1, <2>2, NewlineFits
  <2>4. Chain(file[t])' /\ Settled(file[t])'
    BY <2>1, <2>3 DEF Chain, Follows, Leads, Settled
  <2>5. \A n \in Messages : ~(Writing(n)' /\ on'[n] = t)
    BY <1>0, <1>2, <1>3, <2>2 DEF Sound
  <2>6. QED
    BY <2>4, <2>5, SoundSettled
<1>4. CASE ~(linked[m] /\ on[m] = t)
  <2>1. file'[t] = file[t]
    BY <1>0, <1>4, WriteFile
  <2>2. \A n \in Messages : (Writing(n)' /\ on'[n] = t) <=> (Writing(n) /\ on[n] = t)
    BY <1>0, <1>2, <1>4 DEF Writing
  <2>3. QED
    BY <1>0, <1>2, <2>1, <2>2, SoundStays
<1>5. QED
  BY <1>3, <1>4

\* Every step leaves the threads that are not hurt in order.
LEMMA SoundKept == ASSUME SendTypes, FileTypes, FileThere, AllSound, Next PROVE AllSound'
<1>1. CASE Clean
  BY <1>1 DEF Clean, AllSound, NoFiles
<1>2. ASSUME UNCHANGED <<file, at, hurt>>,
             \A m \in Messages : (Writing(m)' <=> Writing(m)) /\ (Writing(m) => on'[m] = on[m])
      PROVE  AllSound'
  <2>1. SUFFICES ASSUME NEW t \in DOMAIN file, t \notin hurt PROVE Sound(t)'
    BY <1>2 DEF AllSound
  <2>2. Sound(t) /\ \A m \in Messages : (Writing(m)' /\ on'[m] = t) <=> (Writing(m) /\ on[m] = t)
    BY <1>2, <2>1 DEF AllSound
  <2>3. QED
    BY <1>2, <2>2, SoundStays
<1>3. CASE SaveMetas \/ StartList \/ ReadThread \/ EndList \/ ForgetList
  BY <1>2, <1>3 DEF SaveMetas, StartList, ReadThread, EndList, ForgetList, Writing
<1>4. ASSUME NEW m \in Messages, Resolve(m) \/ Refuse(m) PROVE AllSound'
  BY <1>2, <1>4 DEF Resolve, Refuse, Writing, SendTypes
<1>5. QED
  BY <1>1, <1>3, <1>4, StopSound, FailSound, OpenSound, PieceSound, NewlineSound DEF Next, Send

-----------------------------------------------------------------------------
(* The listing *)

\* What is owed to a listing stays owed or is met, and a listing fails for a reason.
LEMMA ListKept ==
    ASSUME SendTypes, FileTypes, ListTypes, KeptThere, AllSound, ListInv, Next PROVE ListInv'
<1>. DEFINE sameList == list' = list
<1>1. CASE Clean
  <2>1. list' = [list EXCEPT !.owed = {}, !.met = TRUE]
    BY <1>1 DEF Clean
  <2>2. QED
    BY <2>1 DEF ListInv, ListTypes
<1>2. CASE Stop \/ ForgetList
  BY <1>2 DEF Stop, ForgetList, IdleList, ListInv
<1>3. CASE StartList
  <2>1. /\ list' = [at |-> "read", todo |-> DOMAIN file, msgs |-> {}, owed |-> kept,
                    met |-> \E m \in Messages : Writing(m)]
        /\ UNCHANGED <<file, st, on, linked, kept>>
    BY <1>3 DEF StartList
  <2>2. \A m \in kept : on[m] \in DOMAIN file
    BY DEF KeptThere, Has
  <2>3. list'.at = "read" /\ list'.todo = DOMAIN file /\ list'.owed = kept
        /\ (~list'.met => \A m \in Messages : ~Writing(m))
    BY <2>1
  <2>4. QED
    BY <2>1, <2>2, <2>3 DEF ListInv, Writing
<1>4. CASE ReadThread
  <2>1. PICK t \in list.todo :
          \/ t \in DOMAIN file /\ ReadFile(t)
          \/ t \notin DOMAIN file /\ (Abort \/ list' = [list EXCEPT !.todo = @ \ {t}])
    BY <1>4 DEF ReadThread
  <2>2. UNCHANGED <<file, st, on, linked, hurt, kept>> /\ list.at = "read"
    BY <1>4 DEF ReadThread
  <2>3. CASE t \in DOMAIN file /\ Parses(file[t])
    <3>1. list' = [list EXCEPT !.todo = list.todo \ {t}, !.msgs = list.msgs \cup Mail(file[t])]
      BY <2>1, <2>3 DEF ReadFile
    <3>2. \A m \in list.owed : m \in kept /\ m \in Messages
      BY <2>2 DEF ListInv, ListTypes
    <3>3. \A m \in list.owed : on[m] = t => m \in Mail(file[t])
      BY <3>2 DEF KeptThere, Has, Mail
    <3>4. /\ list'.at = "read" /\ list'.todo = list.todo \ {t} /\ list'.owed = list.owed
          /\ list'.msgs = list.msgs \cup Mail(file[t]) /\ list'.met = list.met
      BY <2>2, <3>1 DEF ListTypes
    <3>5. QED
      BY <2>2, <3>3, <3>4 DEF ListInv, Writing
  <2>4. CASE ~(t \in DOMAIN file /\ Parses(file[t])) /\ Abort
    <3>1. list' = [list EXCEPT !.todo = {}, !.at = "error"]
      BY <2>4 DEF Abort
    <3>2. list'.at = "error" /\ list'.met = list.met
      BY <3>1 DEF ListTypes
    <3>3. ASSUME ~list.met, hurt = {} PROVE FALSE
      <4>1. t \in DOMAIN file /\ \A m \in Messages : ~Writing(m)
        BY <2>2, <3>3 DEF ListInv
      <4>2. file[t] \in Seq(Piece) /\ Chain(file[t]) /\ Settled(file[t])
        BY <3>3, <4>1 DEF AllSound, Sound, FileTypes
      <4>3. QED
        BY <2>4, <4>1, <4>2, SettledParses
    <3>4. QED
      BY <2>2, <3>2, <3>3 DEF ListInv
  <2>5. CASE t \notin DOMAIN file /\ list' = [list EXCEPT !.todo = list.todo \ {t}]
    <3>1. \A m \in list.owed : on[m] # t
      BY <2>2, <2>5 DEF ListInv, KeptThere, Has
    <3>2. /\ list'.at = "read" /\ list'.todo = list.todo \ {t} /\ list'.owed = list.owed
          /\ list'.msgs = list.msgs /\ list'.met = list.met
      BY <2>2, <2>5 DEF ListTypes
    <3>3. QED
      BY <2>2, <3>1, <3>2 DEF ListInv, Writing
  <2>6. QED
    BY <2>1, <2>3, <2>4, <2>5 DEF ReadFile
<1>5. CASE EndList
  <2>1. list' = [list EXCEPT !.at = "ok"] /\ list.at = "read" /\ list.todo = {}
        /\ UNCHANGED <<on, kept>>
    BY <1>5 DEF EndList
  <2>2. list'.at = "ok" /\ list'.todo = {} /\ list'.owed = list.owed /\ list'.msgs = list.msgs
    BY <2>1 DEF ListTypes
  <2>3. QED
    BY <2>1, <2>2 DEF ListInv
<1>6. ASSUME NEW m \in Messages, Send(m) PROVE ListInv'
  <2>1. /\ list'.at = list.at /\ list'.todo = list.todo /\ list'.owed = list.owed
        /\ list'.msgs = list.msgs /\ (list.met => list'.met)
        /\ kept \subseteq kept' /\ hurt \subseteq hurt' /\ DOMAIN file \subseteq DOMAIN file'
    <3>1. CASE Open(m)
      BY <3>1, OpenFile DEF Open, ListTypes
    <3>2. CASE Resolve(m) \/ Refuse(m) \/ FailSend(m)
      BY <3>2 DEF Resolve, Refuse, FailSend
    <3>3. CASE WritePiece(m) \/ WriteNewline(m)
      BY <3>3 DEF WritePiece, WriteNewline, Append1
    <3>4. QED
      BY <1>6, <3>1, <3>2, <3>3 DEF Send
  <2>2. \A o \in kept : on'[o] = on[o]
    <3>1. \A o \in kept : o \in Messages /\ st[o] = "sent"
      BY DEF KeptThere, ListTypes
    <3>2. QED
      BY <1>6, <3>1 DEF Send, Resolve, Refuse, Open, WritePiece, WriteNewline, FailSend, SendTypes
  <2>3. ~list'.met => \A o \in Messages : Writing(o)' => Writing(o)
    <3>1. CASE Open(m)
      BY <3>1 DEF Open, ListTypes
    <3>2. CASE Resolve(m) \/ Refuse(m) \/ FailSend(m) \/ WriteNewline(m)
      BY <3>2 DEF Resolve, Refuse, FailSend, WriteNewline, Writing, SendTypes
    <3>3. CASE WritePiece(m)
      BY <3>3 DEF WritePiece, Writing
    <3>4. QED
      BY <1>6, <3>1, <3>2, <3>3 DEF Send
  <2>4. QED
    BY <2>1, <2>2, <2>3 DEF ListInv
<1>7. CASE SaveMetas
  BY <1>7 DEF SaveMetas, ListInv, Writing
<1>8. QED
  BY <1>1, <1>2, <1>3, <1>4, <1>5, <1>6, <1>7 DEF Next

-----------------------------------------------------------------------------
(* Theorems *)

LEMMA StutterHolds == ASSUME IInv, UNCHANGED vars PROVE IInv'
<1>. USE DEF IInv, vars
<1>1. SendTypes' /\ FileTypes' /\ ListTypes'
  BY DEF SendTypes, FileTypes, ListTypes
<1>2. FileThere' /\ PieceThere' /\ KeptThere'
  BY DEF FileThere, PieceThere, KeptThere, Writing, Has
<1>3. AllSound'
  <2>1. SUFFICES ASSUME NEW t \in DOMAIN file \ hurt PROVE Sound(t)'
    BY DEF AllSound
  <2>2. Sound(t) /\ \A m \in Messages : (Writing(m)' /\ on'[m] = t) <=> (Writing(m) /\ on[m] = t)
    BY <2>1 DEF AllSound, Writing
  <2>3. QED
    BY <2>2, SoundStays
<1>4. ListInv'
  BY DEF ListInv, Writing
<1>5. QED
  BY <1>1, <1>2, <1>3, <1>4

\* The strengthened invariant holds in every state, for any messages, threads
\* and number of pieces.
THEOREM Invariance == Spec => []IInv
<1>1. IInv /\ [Next]_vars => IInv'
  BY StutterHolds, SendTyped, FilesTyped, ListTyped, ThereKept, KeptKept, SoundKept, ListKept DEF IInv
<1>2. QED
  BY InitHolds, <1>1, PTL DEF Spec

\* A listing that succeeds has every message sent before it began, and one that
\* fails has met a send or a clean at work or a file that was written to by two
\* at once or left unfinished.
THEOREM ListsAreTrue == Spec => []ListIsTrue
BY Invariance, InvTrue, PTL

\* Every part of the state keeps its type.
THEOREM TypeCorrect == Spec => []TypeOK
<1>. DEFINE Flag == metas \in BOOLEAN
            Count == cleans \in 0..MaxCleans
<1>1. Init => Flag
  BY DEF Init
<1>2. Init => Count
  BY CleansAssumption DEF Init
<1>3. Flag /\ [Next]_vars => Flag'
  <2>1. Clean => metas' = FALSE
    BY DEF Clean
  <2>2. SaveMetas => metas' = TRUE
    BY DEF SaveMetas
  <2>3. [Next]_vars => Clean \/ SaveMetas \/ metas' = metas
    BY DEF Next, Send, vars, Stop, Resolve, Refuse, Open, WritePiece,
     WriteNewline, FailSend, StartList, ReadThread, EndList, ForgetList
  <2>4. QED
    BY <2>1, <2>2, <2>3
<1>4. Count /\ [Next]_vars => Count'
  <2>1. Clean => cleans < MaxCleans /\ cleans' = cleans + 1
    BY DEF Clean
  <2>2. [Next]_vars => Clean \/ cleans' = cleans
    BY DEF SaveMetas, Next, Send, vars, Stop, Resolve, Refuse, Open, WritePiece,
     WriteNewline, FailSend, StartList, ReadThread, EndList, ForgetList
  <2>3. QED
    BY <2>1, <2>2, CleansAssumption
<1>5. IInv /\ Flag /\ Count => TypeOK
  BY DEF IInv, SendTypes, FileTypes, ListTypes, FileThere, TypeOK, Piece
<1>6. QED
  BY <1>1, <1>2, <1>3, <1>4, <1>5, Invariance, PTL DEF Spec
=============================================================================
