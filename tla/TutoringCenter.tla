--------------------------- MODULE TutoringCenter ---------------------------
(***************************************************************************)
(* What csmc.c promises: a centre with Chairs waiting chairs and some      *)
(* tutors in which every student is helped Help times and then stays away. *)
(* Nothing here says how students, coordinator and tutors find each other. *)
(***************************************************************************)
EXTENDS Integers, FiniteSets

CONSTANTS Students, Tutors, Chairs, Help, Nobody

VARIABLES
    waiting,    \* the students on a chair
    with,       \* the student each tutor is with, or Nobody
    helped      \* how often each student has been helped

cvars == <<waiting, with, helped>>

Busy(s) == s \in waiting \/ \E t \in Tutors : with[t] = s

CInit ==
    /\ waiting = {}
    /\ with = [t \in Tutors |-> Nobody]
    /\ helped = [s \in Students |-> 0]

\* A student who needs help and is not getting any takes a free chair.
Sit(s) ==
    /\ ~Busy(s)
    /\ helped[s] < Help
    /\ Cardinality(waiting) < Chairs
    /\ waiting' = waiting \union {s}
    /\ UNCHANGED <<with, helped>>

\* A free tutor calls a waiting student in.
Call(t, s) ==
    /\ with[t] = Nobody
    /\ s \in waiting
    /\ waiting' = waiting \ {s}
    /\ with' = [with EXCEPT ![t] = s]
    /\ UNCHANGED helped

\* The session ends.
Finish(t, s) ==
    /\ with[t] = s
    /\ with' = [with EXCEPT ![t] = Nobody]
    /\ helped' = [helped EXCEPT ![s] = @ + 1]
    /\ UNCHANGED waiting

CNext ==
    \/ \E s \in Students : Sit(s)
    \/ \E t \in Tutors, s \in Students : Call(t, s) \/ Finish(t, s)

CSpec == CInit /\ [][CNext]_cvars
==============================================================================
