------------------------------ MODULE CsmcInv -------------------------------
(***************************************************************************)
(* The properties of Csmc, the inductive invariant behind them, and the    *)
(* mapping to TutoringCenter.                                              *)
(***************************************************************************)
EXTENDS Csmc

\* Every variable of Csmc has its type.
TypeOK ==
    /\ occupied_chair_num \in Nat
    /\ totalRequests \in Nat
    /\ totalSessions \in Nat
    /\ tutoringNow \in Nat
    /\ done \in Nat
    /\ newArrivedStudentQueue \in [Students -> Int]
    /\ priorityQueue \in [Students -> Int \X Int]
    /\ tutorFinishedQueue \in [Students -> Tutors \union {None}]
    /\ student_priority \in [Students -> Nat]
    /\ sem_student \in Nat
    /\ sem_coordinator \in Nat
    /\ student \in [Students -> {"program", "seated", "spin", "reset", "count", "farewell", "gone"}]
    /\ tutor \in [Tutors -> {"check", "wait", "pick", "tutor", "tell", "gone"}]
    /\ id_student \in [Tutors -> Students \union {None}]
    /\ coordinator \in {"check", "wait", "collect", "dismiss", "gone"}
    /\ dismissed \in 0..NumTutors

-----------------------------------------------------------------------------
(* Where a student is *)

With(t)     == IF tutor[t] \in {"tutor", "tell"} THEN id_student[t] ELSE None
Tutored(s)  == \E t \in Tutors : With(t) = s
Answered(s) == tutorFinishedQueue[s] # None
Waiting     == Arrived \union Queued

(***************************************************************************)
(* A student in the centre is in exactly one place: just seated, queued,   *)
(* with one tutor, or told that its session is over; nobody else is        *)
(* anywhere.  So no session is given twice, no student is with two tutors, *)
(* and no tutor's answer is overwritten before the student has read it,    *)
(* although student, coordinator and tutor write these arrays under        *)
(* different locks or none.                                                *)
(***************************************************************************)
OnePlace ==
    /\ \A s \in Students :
         /\ s \in Arrived  => s \notin Queued /\ ~Tutored(s) /\ ~Answered(s)
         /\ s \in Queued   => ~Tutored(s) /\ ~Answered(s)
         /\ Tutored(s)     => ~Answered(s)
         /\ (s \in Waiting \/ Tutored(s)) => student[s] \in {"seated", "spin"}
         /\ Answered(s) => student[s] \in {"seated", "spin", "reset"}
         /\ student[s] \in {"seated", "spin"} => s \in Waiting \/ Tutored(s) \/ Answered(s)
         /\ student[s] = "reset" => Answered(s)
    /\ \A t, u \in Tutors : With(t) = With(u) /\ With(t) # None => t = u
    /\ \A t \in Tutors : tutor[t] \in {"tutor", "tell"} => With(t) \in Students

\* occupied_chair_num, counted by students and tutors, is the number of
\* students on chairs, and never more than there are chairs.
SeatCount ==
    /\ occupied_chair_num = Cardinality(Waiting)
    /\ occupied_chair_num <= Chairs

\* Every request is waiting, being served or served: the three counters that
\* the printed lines rely on agree at every moment.
BooksBalance == totalRequests = totalSessions + occupied_chair_num + tutoringNow

(***************************************************************************)
(* A student that has just been seated has a sem_student signal on its     *)
(* way, although students' farewells ring the same semaphore; and when the *)
(* unlocked test of done makes the coordinator dismiss the tutors, nobody  *)
(* is left waiting.                                                        *)
(***************************************************************************)
NobodyForgotten ==
    /\ Arrived # {} => \/ sem_student > 0
                       \/ coordinator = "collect"
                       \/ \E s \in Arrived : student[s] = "seated"
    /\ coordinator \in {"dismiss", "gone"} => Waiting = {}

\* Every student gets exactly the help it asked for: nobody leaves early and
\* nobody is tutored once more.
ExactHelp ==
    \A s \in Students :
        /\ student_priority[s] <= Help
        /\ student[s] \in {"farewell", "gone"} => student_priority[s] = Help
        /\ student[s] \in {"seated", "spin", "reset", "count"} => student_priority[s] < Help

-----------------------------------------------------------------------------
(* The inductive invariant: the properties above, and what the two         *)
(* remaining counters count.                                               *)

Serving == {t \in Tutors : tutor[t] = "tutor"}
Left    == {s \in Students : student[s] \in {"farewell", "gone"}}

Counters ==
    /\ tutoringNow = Cardinality(Serving)
    /\ done = Cardinality(Left)
    /\ coordinator \in {"dismiss", "gone"} => Left = Students

\* The inductive invariant of CsmcProofs: the parts above hold together.
IInv ==
    /\ TypeOK
    /\ OnePlace
    /\ SeatCount
    /\ BooksBalance
    /\ NobodyForgotten
    /\ ExactHelp
    /\ Counters

-----------------------------------------------------------------------------
(* csmc.c implements TutoringCenter *)

\* A session counts from the moment the tutor has said so.
Helped(s) == student_priority[s] + IF Answered(s) \/ student[s] = "count" THEN 1 ELSE 0

Center == INSTANCE TutoringCenter WITH
    waiting <- Waiting,
    with <- [t \in Tutors |-> With(t)],
    helped <- [s \in Students |-> Helped(s)],
    Nobody <- None

\* Seen from outside, csmc.c is the tutoring centre: whatever the coordinator
\* and the semaphores do, a student sits down, is called in by one tutor and
\* is helped once.
ImplementsCenter == Center!CSpec

\* Every thread ends: no student waits for ever for a chair, a tutor or an
\* answer, and the last student's farewell reaches coordinator and tutors.
Termination == <>AllGone

(***************************************************************************)
(* csmc.c:200 "find student from queue with highest priority" and          *)
(* csmc.c:225 "if students with same tutored times, who come first has     *)
(* higher priority": a tutor never picks a student while one that was      *)
(* tutored less often is queued.                                           *)
(***************************************************************************)
PicksHighest ==
    [][\A t \in Tutors : \A s \in Queued : Pick(t, s) =>
          \A r \in Queued : priorityQueue[s][1] <= priorityQueue[r][1]]_vars
=============================================================================
