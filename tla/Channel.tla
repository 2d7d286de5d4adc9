------------------------------ MODULE Channel -------------------------------
(***************************************************************************)
(* What a pipe promises: a bounded queue of bytes between those who hold   *)
(* the write end and those who hold the read end.  A byte put in after the *)
(* read end is closed is lost; one left when the write end closes is not.  *)
(***************************************************************************)
EXTENDS Naturals, Sequences

CONSTANTS Byte, Room

VARIABLES
    queue,      \* the bytes on their way
    writers,    \* the write end is open
    readers     \* the read end is open

cvars == <<queue, writers, readers>>

CInit == queue = <<>> /\ writers = TRUE /\ readers = TRUE

Put ==
    /\ writers = TRUE
    /\ Len(queue) < Room
    /\ \E b \in Byte : queue' = Append(queue, b)
    /\ UNCHANGED <<writers, readers>>

Take ==
    /\ readers = TRUE
    /\ queue # <<>>
    /\ queue' = Tail(queue)
    /\ UNCHANGED <<writers, readers>>

CloseWrite == writers = TRUE /\ writers' = FALSE /\ UNCHANGED <<queue, readers>>

CloseRead  == readers = TRUE /\ readers' = FALSE /\ UNCHANGED <<queue, writers>>

CNext == Put \/ Take \/ CloseWrite \/ CloseRead

CSpec == CInit /\ [][CNext]_cvars
=============================================================================
