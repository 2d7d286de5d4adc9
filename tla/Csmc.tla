-------------------------------- MODULE Csmc --------------------------------
(***************************************************************************)
(* The tutoring centre of src/csmc.c: one thread per student and per       *)
(* tutor, a coordinator between them, two counting semaphores, seatLock    *)
(* and tutorFinishedQueueLock, and unlocked reads of done and of           *)
(* tutorFinishedQueue.                                                     *)
(*                                                                         *)
(* The code between a lock and its unlock is one step, every sem_post,     *)
(* sem_wait and unlocked read is one of its own.  The shipped binary is    *)
(* not optimised: the loop `while(tutorFinishedQueue[..]==-1);' reads      *)
(* memory every time.                                                      *)
(***************************************************************************)
EXTENDS Integers, FiniteSets

CONSTANTS
    NumStudents,   \* student_num
    NumTutors,     \* tutor_num
    Chairs,        \* chair_num
    Help           \* help_num

ASSUME CsmcAssumption ==
    /\ NumStudents \in Nat
    /\ NumTutors \in Nat
    /\ Chairs \in Nat
    /\ Help \in Nat

Students == 1..NumStudents                               \* student_ids
Tutors   == NumStudents + 1 .. NumStudents + NumTutors   \* tutor_ids
None     == -1                                           \* an empty entry

VARIABLES
    occupied_chair_num,
    totalRequests,
    totalSessions,
    tutoringNow,
    done,
    newArrivedStudentQueue,   \* request number of a student just seated
    priorityQueue,            \* <<times tutored, request number>> or empty
    tutorFinishedQueue,       \* the tutor who finished with the student
    student_priority,         \* times tutored
    sem_student,
    sem_coordinator,
    student,                  \* where each student thread stands
    tutor,                    \* where each tutor thread stands
    id_student,               \* the student a tutor has picked
    coordinator,              \* where the coordinator stands
    dismissed                 \* i of its last loop: tutors told to leave

seats   == <<occupied_chair_num, totalRequests, newArrivedStudentQueue>>
queue   == <<priorityQueue>>
counts  == <<totalSessions, tutoringNow>>
threads == <<student, tutor, id_student, coordinator, dismissed>>
vars    == <<seats, queue, counts, done, tutorFinishedQueue,
             student_priority, sem_student, sem_coordinator, threads>>

Empty == <<None, None>>

Arrived == {s \in Students : newArrivedStudentQueue[s] > -1}
Queued  == {s \in Students : priorityQueue[s][1] > -1}

Init ==
    /\ occupied_chair_num = 0
    /\ totalRequests = 0
    /\ totalSessions = 0
    /\ tutoringNow = 0
    /\ done = 0
    /\ newArrivedStudentQueue = [s \in Students |-> None]
    /\ priorityQueue = [s \in Students |-> Empty]
    /\ tutorFinishedQueue = [s \in Students |-> None]
    /\ student_priority = [s \in Students |-> 0]
    /\ sem_student = 0
    /\ sem_coordinator = 0
    /\ student = [s \in Students |-> "program"]
    /\ tutor = [t \in Tutors |-> "check"]
    /\ id_student = [t \in Tutors |-> None]
    /\ coordinator = "check"
    /\ dismissed = 0

-----------------------------------------------------------------------------
(* student_thread                                                          *)

GoesTo(s, place) == student' = [student EXCEPT ![s] = place]

OthersWait == UNCHANGED <<tutor, id_student, coordinator, dismissed>>

\* A student that comes once too often.
Enough_OffByOne(s) == student_priority[s] > Help

Enough(s) == student_priority[s] >= Help

\* Enough help: done++ under seatLock ...
Leave(s) ==
    /\ student[s] = "program"
    /\ Enough(s)
    /\ done' = done + 1
    /\ GoesTo(s, "farewell")
    /\ OthersWait
    /\ UNCHANGED <<seats, queue, counts, tutorFinishedQueue, student_priority,
                   sem_student, sem_coordinator>>

\* A farewell that forgets to ring the coordinator.
FarewellRing_Silent == sem_student' = sem_student

FarewellRing == sem_student' = sem_student + 1

\* ... and only then the coordinator is told.
Farewell(s) ==
    /\ student[s] = "farewell"
    /\ FarewellRing
    /\ GoesTo(s, "gone")
    /\ OthersWait
    /\ UNCHANGED <<seats, queue, counts, done, tutorFinishedQueue,
                   student_priority, sem_coordinator>>

ChairFree == occupied_chair_num < Chairs

\* All chairs taken: program on and try again.
NoChair(s) ==
    /\ student[s] = "program"
    /\ ~Enough(s)
    /\ ~ChairFree
    /\ UNCHANGED vars

TakeSeat(s) ==
    /\ student[s] = "program"
    /\ ~Enough(s)
    /\ ChairFree
    /\ occupied_chair_num' = occupied_chair_num + 1
    /\ totalRequests' = totalRequests + 1
    /\ newArrivedStudentQueue' = [newArrivedStudentQueue EXCEPT ![s] = totalRequests + 1]
    /\ GoesTo(s, "seated")
    /\ OthersWait
    /\ UNCHANGED <<queue, counts, done, tutorFinishedQueue, student_priority,
                   sem_student, sem_coordinator>>

Ring(s) ==
    /\ student[s] = "seated"
    /\ sem_student' = sem_student + 1
    /\ GoesTo(s, "spin")
    /\ OthersWait
    /\ UNCHANGED <<seats, queue, counts, done, tutorFinishedQueue,
                   student_priority, sem_coordinator>>

\* The spin on tutorFinishedQueue ends.
Notice(s) ==
    /\ student[s] = "spin"
    /\ tutorFinishedQueue[s] # None
    /\ GoesTo(s, "reset")
    /\ OthersWait
    /\ UNCHANGED <<seats, queue, counts, done, tutorFinishedQueue,
                   student_priority, sem_student, sem_coordinator>>

\* A student that leaves the old answer for its next session.
Forget_Kept(s) == UNCHANGED tutorFinishedQueue

Forget(s) == tutorFinishedQueue' = [tutorFinishedQueue EXCEPT ![s] = None]

Reset(s) ==
    /\ student[s] = "reset"
    /\ Forget(s)
    /\ GoesTo(s, "count")
    /\ OthersWait
    /\ UNCHANGED <<seats, queue, counts, done, student_priority, sem_student,
                   sem_coordinator>>

Count(s) ==
    /\ student[s] = "count"
    /\ student_priority' = [student_priority EXCEPT ![s] = @ + 1]
    /\ GoesTo(s, "program")
    /\ OthersWait
    /\ UNCHANGED <<seats, queue, counts, done, tutorFinishedQueue, sem_student,
                   sem_coordinator>>

Student(s) ==
    \/ Leave(s) \/ Farewell(s) \/ NoChair(s) \/ TakeSeat(s) \/ Ring(s)
    \/ Notice(s) \/ Reset(s) \/ Count(s)

-----------------------------------------------------------------------------
(* tutor_thread                                                            *)

TutorGoes(t, place) == tutor' = [tutor EXCEPT ![t] = place]

StudentsWait == UNCHANGED <<student, coordinator, dismissed>>

\* Both tests of done read it without a lock.
TutorLeaves(t) ==
    /\ tutor[t] = "check"
    /\ done = NumStudents
    /\ TutorGoes(t, "gone")
    /\ StudentsWait
    /\ UNCHANGED <<seats, queue, counts, done, tutorFinishedQueue,
                   student_priority, sem_student, sem_coordinator, id_student>>

TutorStays(t) ==
    /\ tutor[t] = "check"
    /\ done # NumStudents
    /\ id_student' = [id_student EXCEPT ![t] = None]
    /\ TutorGoes(t, "wait")
    /\ StudentsWait
    /\ UNCHANGED <<seats, queue, counts, done, tutorFinishedQueue,
                   student_priority, sem_student, sem_coordinator>>

TutorWakes(t) ==
    /\ tutor[t] = "wait"
    /\ sem_coordinator > 0
    /\ sem_coordinator' = sem_coordinator - 1
    /\ TutorGoes(t, "pick")
    /\ StudentsWait
    /\ UNCHANGED <<seats, queue, counts, done, tutorFinishedQueue,
                   student_priority, sem_student, id_student>>

(***************************************************************************)
(* The scan of priorityQueue: an entry replaces the best one so far only   *)
(* if it is no worse in times tutored AND strictly earlier in arrival.     *)
(***************************************************************************)
Scanned ==
    LET best[i \in 0..NumStudents] ==
          IF i = 0 THEN [times |-> Help - 1, seq |-> NumStudents * Help + 1, id |-> None]
          ELSE IF /\ i \in Queued
                  /\ priorityQueue[i][1] <= best[i - 1].times
                  /\ priorityQueue[i][2] < best[i - 1].seq
               THEN [times |-> priorityQueue[i][1], seq |-> priorityQueue[i][2], id |-> i]
               ELSE best[i - 1]
    IN  best[NumStudents].id

FreeChair == occupied_chair_num' = occupied_chair_num - 1

\* A tutor that leaves the picked student in the queue.
Pop_Kept(s) == UNCHANGED priorityQueue

Pop(s) == priorityQueue' = [priorityQueue EXCEPT ![s] = Empty]

Pick(t, s) ==
    /\ tutor[t] = "pick"
    /\ s = Scanned
    /\ id_student' = [id_student EXCEPT ![t] = s]
    /\ Pop(s)
    /\ FreeChair
    /\ tutoringNow' = tutoringNow + 1
    /\ TutorGoes(t, "tutor")
    /\ StudentsWait
    /\ UNCHANGED <<totalRequests, newArrivedStudentQueue, totalSessions, done,
                   tutorFinishedQueue, student_priority, sem_student, sem_coordinator>>

\* Nobody in the queue: the bell was the coordinator's last.
PickNobody(t) ==
    /\ tutor[t] = "pick"
    /\ Scanned = None
    /\ TutorGoes(t, "check")
    /\ StudentsWait
    /\ UNCHANGED <<seats, queue, counts, done, tutorFinishedQueue,
                   student_priority, sem_student, sem_coordinator, id_student>>

EndSession(t) ==
    /\ tutor[t] = "tutor"
    /\ tutoringNow' = tutoringNow - 1
    /\ totalSessions' = totalSessions + 1
    /\ TutorGoes(t, "tell")
    /\ StudentsWait
    /\ UNCHANGED <<seats, queue, done, tutorFinishedQueue, student_priority,
                   sem_student, sem_coordinator, id_student>>

Tell(t) ==
    /\ tutor[t] = "tell"
    /\ tutorFinishedQueue' = [tutorFinishedQueue EXCEPT ![id_student[t]] = t]
    /\ TutorGoes(t, "check")
    /\ StudentsWait
    /\ UNCHANGED <<seats, queue, counts, done, student_priority, sem_student,
                   sem_coordinator, id_student>>

Tutor(t) ==
    \/ TutorLeaves(t) \/ TutorStays(t) \/ TutorWakes(t) \/ PickNobody(t)
    \/ \E s \in Queued : Pick(t, s)
    \/ EndSession(t) \/ Tell(t)

-----------------------------------------------------------------------------
(* coordinator_thread                                                      *)

AllWait == UNCHANGED <<student, tutor, id_student>>

\* A coordinator that leaves one student early.
AllDone_OffByOne == done >= NumStudents - 1

AllDone == done = NumStudents

CoordinatorCheck ==
    /\ coordinator = "check"
    /\ coordinator' = IF AllDone THEN "dismiss" ELSE "wait"
    /\ AllWait
    /\ UNCHANGED <<seats, queue, counts, done, tutorFinishedQueue,
                   student_priority, sem_student, sem_coordinator, dismissed>>

CoordinatorWakes ==
    /\ coordinator = "wait"
    /\ sem_student > 0
    /\ sem_student' = sem_student - 1
    /\ coordinator' = "collect"
    /\ AllWait
    /\ UNCHANGED <<seats, queue, counts, done, tutorFinishedQueue,
                   student_priority, sem_coordinator, dismissed>>

Bells == Cardinality(Arrived)

\* Every student just seated goes to the priority queue and rings a tutor.
Collect ==
    /\ coordinator = "collect"
    /\ priorityQueue' =
         [s \in Students |-> IF s \in Arrived
                             THEN <<student_priority[s], newArrivedStudentQueue[s]>>
                             ELSE priorityQueue[s]]
    /\ newArrivedStudentQueue' = [s \in Students |-> None]
    /\ sem_coordinator' = sem_coordinator + Bells
    /\ coordinator' = "check"
    /\ AllWait
    /\ UNCHANGED <<occupied_chair_num, totalRequests, counts, done,
                   tutorFinishedQueue, student_priority, sem_student, dismissed>>

MoreTutors == dismissed < NumTutors

\* The last loop: one bell per tutor, then the coordinator is gone.
Dismiss ==
    /\ coordinator = "dismiss"
    /\ MoreTutors
    /\ dismissed' = dismissed + 1
    /\ sem_coordinator' = sem_coordinator + 1
    /\ AllWait
    /\ UNCHANGED <<seats, queue, counts, done, tutorFinishedQueue,
                   student_priority, sem_student, coordinator>>

CoordinatorLeaves ==
    /\ coordinator = "dismiss"
    /\ ~MoreTutors
    /\ coordinator' = "gone"
    /\ AllWait
    /\ UNCHANGED <<seats, queue, counts, done, tutorFinishedQueue,
                   student_priority, sem_student, sem_coordinator, dismissed>>

Coordinator ==
    \/ CoordinatorCheck \/ CoordinatorWakes \/ Collect
    \/ Dismiss \/ CoordinatorLeaves

-----------------------------------------------------------------------------
AllGone ==
    /\ \A s \in Students : student[s] = "gone"
    /\ \A t \in Tutors : tutor[t] = "gone"
    /\ coordinator = "gone"

\* main() has joined every thread.
Joined == AllGone /\ UNCHANGED vars

Next ==
    \/ \E s \in Students : Student(s)
    \/ \E t \in Tutors : Tutor(t)
    \/ Coordinator
    \/ Joined

Spec == Init /\ [][Next]_vars

(***************************************************************************)
(* The threads are preempted, never stopped: each goes on as long as its   *)
(* next step can be taken.  seatLock is held for a bounded scan only.      *)
(***************************************************************************)
Fairness ==
    /\ \A s \in Students : WF_vars(Student(s))
    /\ \A t \in Tutors : WF_vars(Tutor(t))
    /\ WF_vars(Coordinator)

LiveSpec == Spec /\ Fairness
=============================================================================
