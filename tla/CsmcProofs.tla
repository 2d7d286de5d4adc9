----------------------------- MODULE CsmcProofs -----------------------------
(***************************************************************************)
(* Theorems about csmc.c for every number of students, tutors, chairs and  *)
(* sessions: the invariants of CsmcInv, and that Csmc implements the       *)
(* TutoringCenter.  IInv is inductive; each action has a lemma of its own. *)
(***************************************************************************)
EXTENDS CsmcInv, FiniteSetTheorems, TLAPS

LEMMA Ids ==
  /\ Students \in SUBSET (Nat \ {0}) /\ IsFiniteSet(Students)
  /\ Cardinality(Students) = NumStudents
  /\ Tutors \in SUBSET (Nat \ {0}) /\ IsFiniteSet(Tutors)
  /\ None \notin Students /\ None \notin Tutors
<1>1. /\ IsFiniteSet(Students) /\ Cardinality(Students) = NumStudents
      /\ IsFiniteSet(Tutors)
  BY CsmcAssumption, FS_Interval DEF Students, Tutors
<1> QED BY <1>1, CsmcAssumption DEF Students, Tutors, None

LEMMA Finite ==
  /\ IsFiniteSet(Waiting) /\ Cardinality(Waiting) \in Nat
  /\ IsFiniteSet(Serving) /\ Cardinality(Serving) \in Nat
  /\ IsFiniteSet(Left) /\ Cardinality(Left) \in Nat
<1>1. /\ Waiting \in SUBSET Students /\ Left \in SUBSET Students
      /\ Serving \in SUBSET Tutors
  BY DEF Waiting, Arrived, Queued, Left, Serving
<1>2. IsFiniteSet(Waiting) /\ IsFiniteSet(Left) /\ IsFiniteSet(Serving)
  BY <1>1, Ids, FS_Subset
<1> QED BY <1>2, FS_CardinalityType

LEMMA Parts ==
  ASSUME IInv
  PROVE  /\ TypeOK /\ OnePlace /\ SeatCount /\ BooksBalance
         /\ NobodyForgotten /\ ExactHelp /\ Counters
BY DEF IInv

LEMMA LeaveStep ==
  ASSUME IInv, NEW s \in Students, Leave(s)
  PROVE  IInv'
<1> USE Parts, Ids DEF Leave, GoesTo, OthersWait, Enough, seats, queue, counts
<1>1. TypeOK'
  BY Finite, CsmcAssumption DEF TypeOK, Empty, None
<1>2. Waiting' = Waiting /\ Serving' = Serving /\ Left' = Left \cup {s} /\ s \notin Left
  BY DEF TypeOK, OnePlace, Waiting, Arrived, Queued, Serving, Left, Empty, None
<1>3. OnePlace'
  BY DEF TypeOK, OnePlace, With, Tutored, Answered, Waiting, Arrived, Queued, Empty, None
<1>4. SeatCount'
  BY <1>2 DEF SeatCount
<1>5. BooksBalance'
  BY DEF BooksBalance, TypeOK
<1>6. Counters'
  <2>1. Cardinality(Left') = Cardinality(Left) + 1
    BY <1>2, Finite, FS_AddElement
  <2>2. done' = Cardinality(Left') /\ tutoringNow' = Cardinality(Serving')
    BY <1>2, <2>1 DEF Counters
  <2>3. coordinator' = coordinator /\ (Left = Students => Left' = Students)
    BY <1>2
  <2> QED BY <2>2, <2>3 DEF Counters
<1>7. ExactHelp'
  BY CsmcAssumption DEF ExactHelp, TypeOK, Enough
<1>8. NobodyForgotten'
  BY <1>2 DEF NobodyForgotten, TypeOK, Waiting, Arrived
<1> QED BY <1>1, <1>3, <1>4, <1>5, <1>6, <1>7, <1>8 DEF IInv

LEMMA FarewellStep ==
  ASSUME IInv, NEW s \in Students, Farewell(s)
  PROVE  IInv'
<1> USE Parts, Ids DEF Farewell, GoesTo, OthersWait, FarewellRing, seats, queue, counts
<1>1. TypeOK'
  BY Finite, CsmcAssumption DEF TypeOK, Empty, None
<1>2. Waiting' = Waiting /\ Serving' = Serving /\ Left' = Left
  BY DEF TypeOK, OnePlace, Waiting, Arrived, Queued, Serving, Left, Empty, None
<1>3. OnePlace'
  BY DEF TypeOK, OnePlace, With, Tutored, Answered, Waiting, Arrived, Queued, Empty, None
<1>4. SeatCount'
  BY <1>2 DEF SeatCount
<1>5. BooksBalance'
  BY DEF BooksBalance, TypeOK
<1>6. Counters'
  BY <1>2 DEF Counters, TypeOK
<1>7. ExactHelp'
  BY CsmcAssumption DEF ExactHelp, TypeOK, Enough
<1>8. NobodyForgotten'
  BY <1>2 DEF NobodyForgotten, TypeOK, Waiting, Arrived
<1> QED BY <1>1, <1>3, <1>4, <1>5, <1>6, <1>7, <1>8 DEF IInv

LEMMA TakeSeatStep ==
  ASSUME IInv, NEW s \in Students, TakeSeat(s)
  PROVE  IInv'
<1> USE Parts, Ids DEF TakeSeat, GoesTo, OthersWait, ChairFree, Enough, seats, queue, counts
<1>1. TypeOK'
  BY Finite, CsmcAssumption DEF TypeOK, Empty, None
<1>2. Waiting' = Waiting \cup {s} /\ s \notin Waiting /\ Serving' = Serving /\ Left' = Left
  BY DEF TypeOK, OnePlace, Waiting, Arrived, Queued, Serving, Left, Empty, None
<1>3. OnePlace'
  BY DEF TypeOK, OnePlace, With, Tutored, Answered, Waiting, Arrived, Queued, Empty, None
<1>4. SeatCount'
  <2>1. Cardinality(Waiting \cup {s}) = Cardinality(Waiting) + 1
    BY <1>2, Finite, FS_AddElement
  <2> QED BY <1>2, <2>1, Finite, CsmcAssumption DEF SeatCount, ChairFree, TypeOK
<1>5. BooksBalance'
  BY DEF BooksBalance, TypeOK
<1>6. Counters'
  BY <1>2 DEF Counters, TypeOK
<1>7. ExactHelp'
  BY CsmcAssumption DEF ExactHelp, TypeOK, Enough
<1>8. NobodyForgotten'
  BY <1>2 DEF NobodyForgotten, TypeOK, Waiting, Arrived, Counters, Left
<1> QED BY <1>1, <1>3, <1>4, <1>5, <1>6, <1>7, <1>8 DEF IInv

LEMMA RingStep ==
  ASSUME IInv, NEW s \in Students, Ring(s)
  PROVE  IInv'
<1> USE Parts, Ids DEF Ring, GoesTo, OthersWait, seats, queue, counts
<1>1. TypeOK'
  BY Finite, CsmcAssumption DEF TypeOK, Empty, None
<1>2. Waiting' = Waiting /\ Serving' = Serving /\ Left' = Left
  BY DEF TypeOK, OnePlace, Waiting, Arrived, Queued, Serving, Left, Empty, None
<1>3. OnePlace'
  BY DEF TypeOK, OnePlace, With, Tutored, Answered, Waiting, Arrived, Queued, Empty, None
<1>4. SeatCount'
  BY <1>2 DEF SeatCount
<1>5. BooksBalance'
  BY DEF BooksBalance, TypeOK
<1>6. Counters'
  BY <1>2 DEF Counters, TypeOK
<1>7. ExactHelp'
  BY CsmcAssumption DEF ExactHelp, TypeOK, Enough
<1>8. NobodyForgotten'
  BY <1>2 DEF NobodyForgotten, TypeOK, Waiting, Arrived
<1> QED BY <1>1, <1>3, <1>4, <1>5, <1>6, <1>7, <1>8 DEF IInv

LEMMA NoticeStep ==
  ASSUME IInv, NEW s \in Students, Notice(s)
  PROVE  IInv'
<1> USE Parts, Ids DEF Notice, GoesTo, OthersWait, seats, queue, counts
<1>1. TypeOK'
  BY Finite, CsmcAssumption DEF TypeOK, Empty, None
<1>2. Waiting' = Waiting /\ Serving' = Serving /\ Left' = Left
  BY DEF TypeOK, OnePlace, Waiting, Arrived, Queued, Serving, Left, Empty, None
<1>3. OnePlace'
  BY DEF TypeOK, OnePlace, With, Tutored, Answered, Waiting, Arrived, Queued, Empty, None
<1>4. SeatCount'
  BY <1>2 DEF SeatCount
<1>5. BooksBalance'
  BY DEF BooksBalance, TypeOK
<1>6. Counters'
  BY <1>2 DEF Counters, TypeOK
<1>7. ExactHelp'
  BY CsmcAssumption DEF ExactHelp, TypeOK, Enough
<1>8. NobodyForgotten'
  BY <1>2 DEF NobodyForgotten, TypeOK, Waiting, Arrived
<1> QED BY <1>1, <1>3, <1>4, <1>5, <1>6, <1>7, <1>8 DEF IInv

LEMMA ResetStep ==
  ASSUME IInv, NEW s \in Students, Reset(s)
  PROVE  IInv'
<1> USE Parts, Ids DEF Reset, GoesTo, OthersWait, Forget, seats, queue, counts
<1>1. TypeOK'
  BY Finite, CsmcAssumption DEF TypeOK, Empty, None
<1>2. Waiting' = Waiting /\ Serving' = Serving /\ Left' = Left
  BY DEF TypeOK, OnePlace, Waiting, Arrived, Queued, Serving, Left, Empty, None
<1>3. OnePlace'
  BY DEF TypeOK, OnePlace, With, Tutored, Answered, Waiting, Arrived, Queued, Empty, None
<1>4. SeatCount'
  BY <1>2 DEF SeatCount
<1>5. BooksBalance'
  BY DEF BooksBalance, TypeOK
<1>6. Counters'
  BY <1>2 DEF Counters, TypeOK
<1>7. ExactHelp'
  BY CsmcAssumption DEF ExactHelp, TypeOK, Enough
<1>8. NobodyForgotten'
  BY <1>2 DEF NobodyForgotten, TypeOK, Waiting, Arrived
<1> QED BY <1>1, <1>3, <1>4, <1>5, <1>6, <1>7, <1>8 DEF IInv

LEMMA CountStep ==
  ASSUME IInv, NEW s \in Students, Count(s)
  PROVE  IInv'
<1> USE Parts, Ids DEF Count, GoesTo, OthersWait, seats, queue, counts
<1>1. TypeOK'
  BY Finite, CsmcAssumption DEF TypeOK, Empty, None
<1>2. Waiting' = Waiting /\ Serving' = Serving /\ Left' = Left
  BY DEF TypeOK, OnePlace, Waiting, Arrived, Queued, Serving, Left, Empty, None
<1>3. OnePlace'
  BY DEF TypeOK, OnePlace, With, Tutored, Answered, Waiting, Arrived, Queued, Empty, None
<1>4. SeatCount'
  BY <1>2 DEF SeatCount
<1>5. BooksBalance'
  BY DEF BooksBalance, TypeOK
<1>6. Counters'
  BY <1>2 DEF Counters, TypeOK
<1>7. ExactHelp'
  BY CsmcAssumption DEF ExactHelp, TypeOK, Enough
<1>8. NobodyForgotten'
  BY <1>2 DEF NobodyForgotten, TypeOK, Waiting, Arrived
<1> QED BY <1>1, <1>3, <1>4, <1>5, <1>6, <1>7, <1>8 DEF IInv

LEMMA TutorLeavesStep ==
  ASSUME IInv, NEW t \in Tutors, TutorLeaves(t)
  PROVE  IInv'
<1> USE Parts, Ids DEF TutorLeaves, TutorGoes, StudentsWait, seats, queue, counts
<1>1. TypeOK'
  BY Finite, CsmcAssumption DEF TypeOK, Empty, None
<1>2. Waiting' = Waiting /\ Serving' = Serving /\ Left' = Left
  BY DEF TypeOK, OnePlace, Waiting, Arrived, Queued, Serving, Left, Empty, None
<1>3. OnePlace'
  BY DEF TypeOK, OnePlace, With, Tutored, Answered, Waiting, Arrived, Queued, Empty, None
<1>4. SeatCount'
  BY <1>2 DEF SeatCount
<1>5. BooksBalance'
  BY DEF BooksBalance, TypeOK
<1>6. Counters'
  BY <1>2 DEF Counters, TypeOK
<1>7. ExactHelp'
  BY CsmcAssumption DEF ExactHelp, TypeOK, Enough
<1>8. NobodyForgotten'
  BY <1>2 DEF NobodyForgotten, TypeOK, Waiting, Arrived
<1> QED BY <1>1, <1>3, <1>4, <1>5, <1>6, <1>7, <1>8 DEF IInv

LEMMA TutorStaysStep ==
  ASSUME IInv, NEW t \in Tutors, TutorStays(t)
  PROVE  IInv'
<1> USE Parts, Ids DEF TutorStays, TutorGoes, StudentsWait, seats, queue, counts
<1>1. TypeOK'
  BY Finite, CsmcAssumption DEF TypeOK, Empty, None
<1>2. Waiting' = Waiting /\ Serving' = Serving /\ Left' = Left
  BY DEF TypeOK, OnePlace, Waiting, Arrived, Queued, Serving, Left, Empty, None
<1>3. OnePlace'
  BY DEF TypeOK, OnePlace, With, Tutored, Answered, Waiting, Arrived, Queued, Empty, None
<1>4. SeatCount'
  BY <1>2 DEF SeatCount
<1>5. BooksBalance'
  BY DEF BooksBalance, TypeOK
<1>6. Counters'
  BY <1>2 DEF Counters, TypeOK
<1>7. ExactHelp'
  BY CsmcAssumption DEF ExactHelp, TypeOK, Enough
<1>8. NobodyForgotten'
  BY <1>2 DEF NobodyForgotten, TypeOK, Waiting, Arrived
<1> QED BY <1>1, <1>3, <1>4, <1>5, <1>6, <1>7, <1>8 DEF IInv

LEMMA TutorWakesStep ==
  ASSUME IInv, NEW t \in Tutors, TutorWakes(t)
  PROVE  IInv'
<1> USE Parts, Ids DEF TutorWakes, TutorGoes, StudentsWait, seats, queue, counts
<1>1. TypeOK'
  BY Finite, CsmcAssumption DEF TypeOK, Empty, None
<1>2. Waiting' = Waiting /\ Serving' = Serving /\ Left' = Left
  BY DEF TypeOK, OnePlace, Waiting, Arrived, Queued, Serving, Left, Empty, None
<1>3. OnePlace'
  BY DEF TypeOK, OnePlace, With, Tutored, Answered, Waiting, Arrived, Queued, Empty, None
<1>4. SeatCount'
  BY <1>2 DEF SeatCount
<1>5. BooksBalance'
  BY DEF BooksBalance, TypeOK
<1>6. Counters'
  BY <1>2 DEF Counters, TypeOK
<1>7. ExactHelp'
  BY CsmcAssumption DEF ExactHelp, TypeOK, Enough
<1>8. NobodyForgotten'
  BY <1>2 DEF NobodyForgotten, TypeOK, Waiting, Arrived
<1> QED BY <1>1, <1>3, <1>4, <1>5, <1>6, <1>7, <1>8 DEF IInv

LEMMA PickNobodyStep ==
  ASSUME IInv, NEW t \in Tutors, PickNobody(t)
  PROVE  IInv'
<1> USE Parts, Ids DEF PickNobody, TutorGoes, StudentsWait, seats, queue, counts
<1>1. TypeOK'
  BY Finite, CsmcAssumption DEF TypeOK, Empty, None
<1>2. Waiting' = Waiting /\ Serving' = Serving /\ Left' = Left
  BY DEF TypeOK, OnePlace, Waiting, Arrived, Queued, Serving, Left, Empty, None
<1>3. OnePlace'
  BY DEF TypeOK, OnePlace, With, Tutored, Answered, Waiting, Arrived, Queued, Empty, None
<1>4. SeatCount'
  BY <1>2 DEF SeatCount
<1>5. BooksBalance'
  BY DEF BooksBalance, TypeOK
<1>6. Counters'
  BY <1>2 DEF Counters, TypeOK
<1>7. ExactHelp'
  BY CsmcAssumption DEF ExactHelp, TypeOK, Enough
<1>8. NobodyForgotten'
  BY <1>2 DEF NobodyForgotten, TypeOK, Waiting, Arrived
<1> QED BY <1>1, <1>3, <1>4, <1>5, <1>6, <1>7, <1>8 DEF IInv

LEMMA PickStep ==
  ASSUME IInv, NEW t \in Tutors, NEW s \in Queued, Pick(t, s)
  PROVE  IInv'
<1> USE Parts, Ids DEF Pick, TutorGoes, StudentsWait, FreeChair, Pop, seats, queue, counts
<1>1. TypeOK'
  <2>1. s \in Waiting
    BY DEF Waiting
  <2>2. occupied_chair_num \in Nat \ {0}
    BY <2>1, Finite, FS_EmptySet DEF SeatCount
  <2>3. Empty \in Int \X Int
    BY DEF Empty, None
  <2> QED BY <2>2, <2>3 DEF TypeOK, Queued
<1>2. Waiting' = Waiting \ {s} /\ s \in Waiting /\ Serving' = Serving \cup {t} /\ t \notin Serving /\ Left' = Left
  BY DEF TypeOK, OnePlace, Waiting, Arrived, Queued, Serving, Left, Empty, None
<1>3. OnePlace'
  BY DEF TypeOK, OnePlace, With, Tutored, Answered, Waiting, Arrived, Queued, Empty, None
<1>4. SeatCount'
  <2>1. Cardinality(Waiting \ {s}) = Cardinality(Waiting) - 1
    BY <1>2, Finite, FS_RemoveElement
  <2> QED BY <1>2, <2>1, Finite, CsmcAssumption DEF SeatCount, TypeOK
<1>5. BooksBalance'
  BY DEF BooksBalance, TypeOK
<1>6. Counters'
  BY <1>2, Finite, FS_AddElement DEF Counters, TypeOK
<1>7. ExactHelp'
  BY CsmcAssumption DEF ExactHelp, TypeOK, Enough
<1>8. NobodyForgotten'
  BY <1>2 DEF NobodyForgotten, TypeOK, Waiting, Arrived
<1> QED BY <1>1, <1>3, <1>4, <1>5, <1>6, <1>7, <1>8 DEF IInv

LEMMA EndSessionStep ==
  ASSUME IInv, NEW t \in Tutors, EndSession(t)
  PROVE  IInv'
<1> USE Parts, Ids DEF EndSession, TutorGoes, StudentsWait, seats, queue, counts
<1>1. TypeOK'
  BY Finite, FS_EmptySet, CsmcAssumption DEF TypeOK, Counters, Serving
<1>2. Waiting' = Waiting /\ Serving' = Serving \ {t} /\ t \in Serving /\ Left' = Left
  BY DEF TypeOK, OnePlace, Waiting, Arrived, Queued, Serving, Left, Empty, None
<1>3. OnePlace'
  BY DEF TypeOK, OnePlace, With, Tutored, Answered, Waiting, Arrived, Queued, Empty, None
<1>4. SeatCount'
  BY <1>2 DEF SeatCount
<1>5. BooksBalance'
  BY DEF BooksBalance, TypeOK
<1>6. Counters'
  BY <1>2, Finite, FS_RemoveElement DEF Counters, TypeOK
<1>7. ExactHelp'
  BY CsmcAssumption DEF ExactHelp, TypeOK, Enough
<1>8. NobodyForgotten'
  BY <1>2 DEF NobodyForgotten, TypeOK, Waiting, Arrived
<1> QED BY <1>1, <1>3, <1>4, <1>5, <1>6, <1>7, <1>8 DEF IInv

LEMMA TellStep ==
  ASSUME IInv, NEW t \in Tutors, Tell(t)
  PROVE  IInv'
<1> USE Parts, Ids DEF Tell, TutorGoes, StudentsWait, seats, queue, counts
<1>1. TypeOK'
  BY Finite, CsmcAssumption DEF TypeOK, Empty, None
<1>2. Waiting' = Waiting /\ Serving' = Serving /\ Left' = Left
  BY DEF TypeOK, OnePlace, Waiting, Arrived, Queued, Serving, Left, Empty, None
<1>3. OnePlace'
  BY DEF TypeOK, OnePlace, With, Tutored, Answered, Waiting, Arrived, Queued, Empty, None
<1>4. SeatCount'
  BY <1>2 DEF SeatCount
<1>5. BooksBalance'
  BY DEF BooksBalance, TypeOK
<1>6. Counters'
  BY <1>2 DEF Counters, TypeOK
<1>7. ExactHelp'
  BY CsmcAssumption DEF ExactHelp, TypeOK, Enough
<1>8. NobodyForgotten'
  BY <1>2 DEF NobodyForgotten, TypeOK, Waiting, Arrived
<1> QED BY <1>1, <1>3, <1>4, <1>5, <1>6, <1>7, <1>8 DEF IInv

LEMMA CoordinatorCheckStep ==
  ASSUME IInv, CoordinatorCheck
  PROVE  IInv'
<1> USE Parts, Ids DEF CoordinatorCheck, AllDone, AllWait, seats, queue, counts
<1>1. TypeOK'
  BY Finite, CsmcAssumption DEF TypeOK, Empty, None
<1>2. Waiting' = Waiting /\ Serving' = Serving /\ Left' = Left
  BY DEF TypeOK, OnePlace, Waiting, Arrived, Queued, Serving, Left, Empty, None
<1>3. OnePlace'
  BY DEF TypeOK, OnePlace, With, Tutored, Answered, Waiting, Arrived, Queued, Empty, None
<1>4. SeatCount'
  BY <1>2 DEF SeatCount
<1>5. BooksBalance'
  BY DEF BooksBalance, TypeOK
<1>6. Counters'
  BY <1>2, Finite, FS_Subset DEF Counters, TypeOK, Left
<1>7. ExactHelp'
  BY CsmcAssumption DEF ExactHelp, TypeOK, Enough
<1>8. NobodyForgotten'
  BY <1>2, <1>6 DEF NobodyForgotten, TypeOK, Waiting, Arrived, Queued, OnePlace, Counters, Left
<1> QED BY <1>1, <1>3, <1>4, <1>5, <1>6, <1>7, <1>8 DEF IInv

LEMMA CoordinatorWakesStep ==
  ASSUME IInv, CoordinatorWakes
  PROVE  IInv'
<1> USE Parts, Ids DEF CoordinatorWakes, AllWait, seats, queue, counts
<1>1. TypeOK'
  BY Finite, CsmcAssumption DEF TypeOK, Empty, None
<1>2. Waiting' = Waiting /\ Serving' = Serving /\ Left' = Left
  BY DEF TypeOK, OnePlace, Waiting, Arrived, Queued, Serving, Left, Empty, None
<1>3. OnePlace'
  BY DEF TypeOK, OnePlace, With, Tutored, Answered, Waiting, Arrived, Queued, Empty, None
<1>4. SeatCount'
  BY <1>2 DEF SeatCount
<1>5. BooksBalance'
  BY DEF BooksBalance, TypeOK
<1>6. Counters'
  BY <1>2 DEF Counters, TypeOK
<1>7. ExactHelp'
  BY CsmcAssumption DEF ExactHelp, TypeOK, Enough
<1>8. NobodyForgotten'
  BY <1>2 DEF NobodyForgotten, TypeOK, Waiting, Arrived
<1> QED BY <1>1, <1>3, <1>4, <1>5, <1>6, <1>7, <1>8 DEF IInv

LEMMA CollectEmpties ==
  ASSUME Collect
  PROVE  Arrived' = {}
<1>1. \A s \in Students : newArrivedStudentQueue'[s] = None
  BY DEF Collect
<1>2. None = -1
  BY DEF None
<1> QED BY <1>1, <1>2 DEF Arrived

LEMMA CollectStep ==
  ASSUME IInv, Collect
  PROVE  IInv'
<1> USE Parts, Ids DEF Collect, AllWait, seats, queue, counts
<1>a. Arrived' = {}
  BY CollectEmpties
<1>1. TypeOK'
  <2>1. Bells \in Nat
    <3>1. Arrived \in SUBSET Students
      BY DEF Arrived
    <3> QED BY <3>1, FS_Subset, FS_CardinalityType DEF Bells
  <2>2. priorityQueue' \in [Students -> Int \X Int]
    BY DEF TypeOK
  <2> QED BY <2>1, <2>2 DEF TypeOK, None
<1>2. Waiting' = Waiting /\ Serving' = Serving /\ Left' = Left
  <2>1. \A s \in Students : priorityQueue'[s][1] > -1 <=> s \in Arrived \/ s \in Queued
    BY DEF TypeOK, Queued
  <2>2. Queued' = Arrived \cup Queued
    BY <2>1 DEF Queued, Arrived
  <2> QED BY <2>2, <1>a DEF Waiting, Serving, Left
<1>3. OnePlace'
  BY DEF TypeOK, OnePlace, With, Tutored, Answered, Waiting, Arrived, Queued, Empty, None
<1>4. SeatCount'
  BY <1>2 DEF SeatCount
<1>5. BooksBalance'
  BY DEF BooksBalance, TypeOK
<1>6. Counters'
  BY <1>2 DEF Counters, TypeOK
<1>7. ExactHelp'
  BY CsmcAssumption DEF ExactHelp, TypeOK, Enough
<1>8. NobodyForgotten'
  BY <1>2, <1>a DEF NobodyForgotten, TypeOK
<1> QED BY <1>1, <1>3, <1>4, <1>5, <1>6, <1>7, <1>8 DEF IInv

LEMMA DismissStep ==
  ASSUME IInv, Dismiss
  PROVE  IInv'
<1> USE Parts, Ids DEF Dismiss, AllWait, MoreTutors, seats, queue, counts
<1>1. TypeOK'
  BY Finite, CsmcAssumption DEF TypeOK, Empty, None
<1>2. Waiting' = Waiting /\ Serving' = Serving /\ Left' = Left
  BY DEF TypeOK, OnePlace, Waiting, Arrived, Queued, Serving, Left, Empty, None
<1>3. OnePlace'
  BY DEF TypeOK, OnePlace, With, Tutored, Answered, Waiting, Arrived, Queued, Empty, None
<1>4. SeatCount'
  BY <1>2 DEF SeatCount
<1>5. BooksBalance'
  BY DEF BooksBalance, TypeOK
<1>6. Counters'
  BY <1>2 DEF Counters, TypeOK
<1>7. ExactHelp'
  BY CsmcAssumption DEF ExactHelp, TypeOK, Enough
<1>8. NobodyForgotten'
  BY <1>2 DEF NobodyForgotten, TypeOK, Waiting, Arrived
<1> QED BY <1>1, <1>3, <1>4, <1>5, <1>6, <1>7, <1>8 DEF IInv

LEMMA CoordinatorLeavesStep ==
  ASSUME IInv, CoordinatorLeaves
  PROVE  IInv'
<1> USE Parts, Ids DEF CoordinatorLeaves, AllWait, MoreTutors, seats, queue, counts
<1>1. TypeOK'
  BY Finite, CsmcAssumption DEF TypeOK, Empty, None
<1>2. Waiting' = Waiting /\ Serving' = Serving /\ Left' = Left
  BY DEF TypeOK, OnePlace, Waiting, Arrived, Queued, Serving, Left, Empty, None
<1>3. OnePlace'
  BY DEF TypeOK, OnePlace, With, Tutored, Answered, Waiting, Arrived, Queued, Empty, None
<1>4. SeatCount'
  BY <1>2 DEF SeatCount
<1>5. BooksBalance'
  BY DEF BooksBalance, TypeOK
<1>6. Counters'
  BY <1>2 DEF Counters, TypeOK
<1>7. ExactHelp'
  BY CsmcAssumption DEF ExactHelp, TypeOK, Enough
<1>8. NobodyForgotten'
  BY <1>2 DEF NobodyForgotten, TypeOK, Waiting, Arrived
<1> QED BY <1>1, <1>3, <1>4, <1>5, <1>6, <1>7, <1>8 DEF IInv

LEMMA StutterStep ==
  ASSUME IInv, UNCHANGED vars
  PROVE  IInv'
<1> USE DEF vars, seats, queue, counts, threads
<1>1. TypeOK' /\ OnePlace' /\ SeatCount' /\ BooksBalance'
  BY Parts DEF TypeOK, OnePlace, With, Tutored, Answered, Waiting, Arrived, Queued,
     SeatCount, BooksBalance
<1>2. NobodyForgotten' /\ ExactHelp' /\ Counters'
  BY Parts DEF NobodyForgotten, Waiting, Arrived, Queued, ExactHelp, Counters, Serving, Left
<1> QED BY <1>1, <1>2 DEF IInv

LEMMA InitInv ==
  ASSUME Init
  PROVE  IInv
<1> USE Ids DEF Init
<1>1. /\ Arrived = {} /\ Queued = {} /\ Waiting = {}
      /\ Serving = {} /\ Left = {}
  BY DEF Arrived, Queued, Waiting, Serving, Left, Empty, None
<1>2. TypeOK
  BY CsmcAssumption DEF TypeOK, Empty, None
<1>3. OnePlace
  BY <1>1 DEF OnePlace, With, Tutored, Answered, None
<1>4. SeatCount /\ BooksBalance
  BY <1>1, FS_EmptySet, CsmcAssumption DEF SeatCount, BooksBalance
<1>5. NobodyForgotten /\ ExactHelp
  BY <1>1, CsmcAssumption DEF NobodyForgotten, ExactHelp
<1>6. Counters
  BY <1>1, FS_EmptySet DEF Counters
<1> QED BY <1>2, <1>3, <1>4, <1>5, <1>6 DEF IInv

LEMMA NextInv ==
  ASSUME IInv, [Next]_vars
  PROVE  IInv'
<1>1. ASSUME NEW s \in Students, Student(s)
      PROVE  IInv'
  BY <1>1, LeaveStep, FarewellStep, TakeSeatStep, RingStep, NoticeStep,
     ResetStep, CountStep, StutterStep DEF Student, NoChair
<1>2. ASSUME NEW t \in Tutors, Tutor(t)
      PROVE  IInv'
  BY <1>2, TutorLeavesStep, TutorStaysStep, TutorWakesStep, PickNobodyStep,
     PickStep, EndSessionStep, TellStep DEF Tutor
<1>3. CASE Coordinator
  BY <1>3, CoordinatorCheckStep, CoordinatorWakesStep, CollectStep, DismissStep,
     CoordinatorLeavesStep DEF Coordinator
<1>4. CASE Joined \/ UNCHANGED vars
  BY <1>4, StutterStep DEF Joined
<1> QED BY <1>1, <1>2, <1>3, <1>4 DEF Next

\* The inductive invariant holds whatever the threads do.
THEOREM Invariance == Spec => []IInv
<1>1. Init => IInv
  BY InitInv
<1>2. IInv /\ [Next]_vars => IInv'
  BY NextInv
<1> QED BY <1>1, <1>2, PTL DEF Spec

\* Every shared variable and every thread of csmc.c keeps its type; in
\* particular no counter ever becomes negative.
THEOREM TypeCorrect == Spec => []TypeOK
<1>1. IInv => TypeOK
  BY DEF IInv
<1> QED BY <1>1, Invariance, PTL

\* No student is tutored by two tutors or twice for one visit, and no
\* tutor's answer is overwritten before the student has read it.
THEOREM OnePlaceOnly == Spec => []OnePlace
<1>1. IInv => OnePlace
  BY DEF IInv
<1> QED BY <1>1, Invariance, PTL

\* occupied_chair_num is the number of waiting students and respects the
\* number of chairs.
THEOREM SeatsCounted == Spec => []SeatCount
<1>1. IInv => SeatCount
  BY DEF IInv
<1> QED BY <1>1, Invariance, PTL

\* The printed totals agree with each other in every state.
THEOREM TotalsAgree == Spec => []BooksBalance
<1>1. IInv => BooksBalance
  BY DEF IInv
<1> QED BY <1>1, Invariance, PTL

\* A seated student has a signal on its way to the coordinator, and the
\* tutors are dismissed only when nobody is waiting.
THEOREM NobodyIsForgotten == Spec => []NobodyForgotten
<1>1. IInv => NobodyForgotten
  BY DEF IInv
<1> QED BY <1>1, Invariance, PTL

\* A student leaves after exactly Help sessions.
THEOREM HelpIsExact == Spec => []ExactHelp
<1>1. IInv => ExactHelp
  BY DEF IInv
<1> QED BY <1>1, Invariance, PTL

-----------------------------------------------------------------------------
(* Csmc implements TutoringCenter: TakeSeat is Sit, Pick is Call, Tell is  *)
(* Finish, every other step is invisible.                                  *)

LEMMA Invisible ==
  ASSUME Waiting' = Waiting,
         \A t \in Tutors : With(t)' = With(t),
         \A s \in Students : Helped(s)' = Helped(s)
  PROVE  UNCHANGED Center!cvars
BY DEF Center!cvars

LEMMA LeaveInvisible ==
  ASSUME IInv, NEW s \in Students, Leave(s)
  PROVE  UNCHANGED Center!cvars
BY Parts, Ids, Invisible DEF Leave, GoesTo, OthersWait, seats, queue, counts, TypeOK, OnePlace, Waiting,
   Arrived, Queued, With, Helped, Answered

LEMMA FarewellInvisible ==
  ASSUME IInv, NEW s \in Students, Farewell(s)
  PROVE  UNCHANGED Center!cvars
BY Parts, Ids, Invisible DEF Farewell, GoesTo, OthersWait, FarewellRing, seats, queue, counts, TypeOK, OnePlace, Waiting,
   Arrived, Queued, With, Helped, Answered

LEMMA RingInvisible ==
  ASSUME IInv, NEW s \in Students, Ring(s)
  PROVE  UNCHANGED Center!cvars
BY Parts, Ids, Invisible DEF Ring, GoesTo, OthersWait, seats, queue, counts, TypeOK, OnePlace, Waiting,
   Arrived, Queued, With, Helped, Answered

LEMMA NoticeInvisible ==
  ASSUME IInv, NEW s \in Students, Notice(s)
  PROVE  UNCHANGED Center!cvars
BY Parts, Ids, Invisible DEF Notice, GoesTo, OthersWait, seats, queue, counts, TypeOK, OnePlace, Waiting,
   Arrived, Queued, With, Helped, Answered

LEMMA ResetInvisible ==
  ASSUME IInv, NEW s \in Students, Reset(s)
  PROVE  UNCHANGED Center!cvars
BY Parts, Ids, Invisible DEF Reset, GoesTo, OthersWait, Forget, seats, queue, counts, TypeOK, OnePlace, Waiting,
   Arrived, Queued, With, Helped, Answered

LEMMA CountInvisible ==
  ASSUME IInv, NEW s \in Students, Count(s)
  PROVE  UNCHANGED Center!cvars
BY Parts, Ids, Invisible DEF Count, GoesTo, OthersWait, seats, queue, counts, TypeOK, OnePlace, Waiting,
   Arrived, Queued, With, Helped, Answered

LEMMA TutorLeavesInvisible ==
  ASSUME IInv, NEW t \in Tutors, TutorLeaves(t)
  PROVE  UNCHANGED Center!cvars
BY Parts, Ids, Invisible DEF TutorLeaves, TutorGoes, StudentsWait, seats, queue, counts, TypeOK, OnePlace, Waiting,
   Arrived, Queued, With, Helped, Answered

LEMMA TutorStaysInvisible ==
  ASSUME IInv, NEW t \in Tutors, TutorStays(t)
  PROVE  UNCHANGED Center!cvars
BY Parts, Ids, Invisible DEF TutorStays, TutorGoes, StudentsWait, seats, queue, counts, TypeOK, OnePlace, Waiting,
   Arrived, Queued, With, Helped, Answered

LEMMA TutorWakesInvisible ==
  ASSUME IInv, NEW t \in Tutors, TutorWakes(t)
  PROVE  UNCHANGED Center!cvars
BY Parts, Ids, Invisible DEF TutorWakes, TutorGoes, StudentsWait, seats, queue, counts, TypeOK, OnePlace, Waiting,
   Arrived, Queued, With, Helped, Answered

LEMMA PickNobodyInvisible ==
  ASSUME IInv, NEW t \in Tutors, PickNobody(t)
  PROVE  UNCHANGED Center!cvars
BY Parts, Ids, Invisible DEF PickNobody, TutorGoes, StudentsWait, seats, queue, counts, TypeOK, OnePlace, Waiting,
   Arrived, Queued, With, Helped, Answered

LEMMA EndSessionInvisible ==
  ASSUME IInv, NEW t \in Tutors, EndSession(t)
  PROVE  UNCHANGED Center!cvars
BY Parts, Ids, Invisible DEF EndSession, TutorGoes, StudentsWait, seats, queue, counts, TypeOK, OnePlace, Waiting,
   Arrived, Queued, With, Helped, Answered

LEMMA CoordinatorCheckInvisible ==
  ASSUME IInv, CoordinatorCheck
  PROVE  UNCHANGED Center!cvars
BY Parts, Ids, Invisible DEF CoordinatorCheck, AllDone, AllWait, seats, queue, counts, TypeOK, OnePlace, Waiting,
   Arrived, Queued, With, Helped, Answered

LEMMA CoordinatorWakesInvisible ==
  ASSUME IInv, CoordinatorWakes
  PROVE  UNCHANGED Center!cvars
BY Parts, Ids, Invisible DEF CoordinatorWakes, AllWait, seats, queue, counts, TypeOK, OnePlace, Waiting,
   Arrived, Queued, With, Helped, Answered

LEMMA CollectInvisible ==
  ASSUME IInv, Collect
  PROVE  UNCHANGED Center!cvars
<1> USE Parts, Ids DEF Collect, AllWait, seats, queue, counts
<1>1. /\ \A s \in Students : newArrivedStudentQueue'[s] = None /\ None = -1
      /\ \A s \in Students : priorityQueue'[s][1] > -1 <=> s \in Arrived \/ s \in Queued
  BY DEF TypeOK, Queued, None
<1>2. Waiting' = Waiting
  <2>1. Arrived' = {}
    BY CollectEmpties
  <2>2. Queued' = Arrived \cup Queued
    BY <1>1 DEF Queued, Arrived
  <2> QED BY <2>1, <2>2 DEF Waiting
<1> QED BY <1>2, Invisible DEF With, Helped, Answered

LEMMA DismissInvisible ==
  ASSUME IInv, Dismiss
  PROVE  UNCHANGED Center!cvars
BY Parts, Ids, Invisible DEF Dismiss, AllWait, seats, queue, counts, TypeOK, OnePlace, Waiting,
   Arrived, Queued, With, Helped, Answered

LEMMA CoordinatorLeavesInvisible ==
  ASSUME IInv, CoordinatorLeaves
  PROVE  UNCHANGED Center!cvars
BY Parts, Ids, Invisible DEF CoordinatorLeaves, AllWait, seats, queue, counts, TypeOK, OnePlace, Waiting,
   Arrived, Queued, With, Helped, Answered

LEMMA SitStep ==
  ASSUME IInv, NEW s \in Students, TakeSeat(s)
  PROVE  Center!Sit(s)
<1> USE Parts, Ids DEF TakeSeat, Enough, ChairFree, GoesTo, OthersWait, queue, counts
<1>1. ~Center!Busy(s) /\ Helped(s) < Help
  BY CsmcAssumption DEF Center!Busy, TypeOK, OnePlace, Tutored, Helped, Answered
<1>2. Center!Cardinality(Waiting) < Chairs
  <2>1. Cardinality(Waiting) < Chairs
    BY DEF SeatCount
  <2>2. Center!Cardinality(Waiting) = Cardinality(Waiting)
    BY DEF Cardinality, Center!Cardinality
  <2> QED BY <2>1, <2>2
<1>3. Waiting' = Waiting \cup {s}
  BY DEF Waiting, Arrived, Queued, TypeOK
<1>4. /\ \A t \in Tutors : With(t)' = With(t)
      /\ \A r \in Students : Helped(r)' = Helped(r)
  BY DEF With, Helped, Answered, TypeOK
<1>5. /\ [t \in Tutors |-> With(t)]' = [t \in Tutors |-> With(t)]
      /\ [r \in Students |-> Helped(r)]' = [r \in Students |-> Helped(r)]
  BY <1>4
<1>6. [r \in Students |-> Helped(r)][s] < Help
  BY <1>1
<1> QED BY <1>1, <1>2, <1>3, <1>5, <1>6 DEF Center!Sit

LEMMA CallStep ==
  ASSUME IInv, NEW t \in Tutors, NEW s \in Queued, Pick(t, s)
  PROVE  Center!Call(t, s)
<1> USE Parts, Ids DEF Pick, Pop, TutorGoes, StudentsWait
<1>1. s \in Waiting /\ With(t) = None
  BY DEF Waiting, With, None
<1>2. Waiting' = Waiting \ {s}
  BY DEF Waiting, Arrived, Queued, OnePlace, TypeOK, Empty, None
<1>3. /\ With(t)' = s
      /\ \A u \in Tutors \ {t} : With(u)' = With(u)
      /\ \A r \in Students : Helped(r)' = Helped(r)
  BY DEF With, Helped, Answered, TypeOK
<1> QED BY <1>1, <1>2, <1>3 DEF Center!Call

LEMMA FinishStep ==
  ASSUME IInv, NEW t \in Tutors, Tell(t)
  PROVE  \E s \in Students : Center!Finish(t, s)
<1> USE Parts, Ids DEF Tell, TutorGoes, StudentsWait, seats, queue, counts
<1>1. With(t) = id_student[t] /\ With(t) # None
  BY DEF With, OnePlace, TypeOK, Counters
<1>2. PICK s \in Students : s = id_student[t]
  BY <1>1 DEF TypeOK, With
<1>3. Tutored(s) /\ ~Answered(s) /\ student[s] # "count"
  BY <1>1, <1>2 DEF OnePlace, Tutored
<1>4. /\ With(t)' = None
      /\ \A u \in Tutors \ {t} : With(u)' = With(u)
  BY DEF With, TypeOK
<1>5. /\ Helped(s)' = Helped(s) + 1
      /\ \A r \in Students \ {s} : Helped(r)' = Helped(r)
  BY <1>2, <1>3 DEF Helped, Answered, TypeOK
<1>6. Waiting' = Waiting
  BY DEF Waiting, Arrived, Queued
<1>7. [u \in Tutors |-> With(u)]' = [[u \in Tutors |-> With(u)] EXCEPT ![t] = None]
  BY <1>4
<1>8. [r \in Students |-> Helped(r)]' = [[r \in Students |-> Helped(r)] EXCEPT ![s] = @ + 1]
  BY <1>5
<1>9. Center!Finish(t, s)
  BY <1>1, <1>2, <1>6, <1>7, <1>8 DEF Center!Finish
<1> QED BY <1>9

LEMMA CenterStep ==
  ASSUME IInv, [Next]_vars
  PROVE  [Center!CNext]_(Center!cvars)
<1>1. ASSUME NEW s \in Students, Student(s)
      PROVE  Center!Sit(s) \/ UNCHANGED Center!cvars
  <2>1. CASE NoChair(s)
    BY <2>1, Invisible DEF NoChair, vars, seats, queue, counts, threads, Waiting, Arrived,
       Queued, With, Helped, Answered
  <2> QED
    BY <1>1, <2>1, SitStep, LeaveInvisible, FarewellInvisible, RingInvisible,
       NoticeInvisible, ResetInvisible, CountInvisible DEF Student
<1>2. ASSUME NEW t \in Tutors, Tutor(t)
      PROVE  \/ \E s \in Students : Center!Call(t, s) \/ Center!Finish(t, s)
             \/ UNCHANGED Center!cvars
  <2>1. Queued \in SUBSET Students
    BY DEF Queued
  <2> QED
    BY <1>2, <2>1, CallStep, FinishStep, TutorLeavesInvisible, TutorStaysInvisible,
       TutorWakesInvisible, PickNobodyInvisible, EndSessionInvisible DEF Tutor
<1>3. CASE Coordinator
  BY <1>3, CoordinatorCheckInvisible, CoordinatorWakesInvisible, CollectInvisible,
     DismissInvisible, CoordinatorLeavesInvisible DEF Coordinator
<1>4. CASE Joined \/ UNCHANGED vars
  BY <1>4, Invisible DEF Joined, vars, seats, queue, counts, threads, Waiting, Arrived,
     Queued, With, Helped, Answered
<1> QED BY <1>1, <1>2, <1>3, <1>4 DEF Next, Center!CNext

LEMMA CenterInit ==
  ASSUME Init
  PROVE  Center!CInit
<1>1. Waiting = {}
  BY DEF Init, Waiting, Arrived, Queued, Empty, None
<1>2. /\ \A t \in Tutors : With(t) = None
      /\ \A s \in Students : Helped(s) = 0
  BY DEF Init, With, Helped, Answered
<1> QED BY <1>1, <1>2 DEF Center!CInit

\* Whatever the coordinator and the semaphores do, csmc.c seen from outside
\* is the tutoring centre of TutoringCenter.
THEOREM CsmcImplementsCenter == Spec => ImplementsCenter
<1>1. Init => Center!CInit
  BY CenterInit
<1>2. IInv /\ [Next]_vars => [Center!CNext]_(Center!cvars)
  BY CenterStep
<1> QED BY <1>1, <1>2, Invariance, PTL DEF Spec, ImplementsCenter, Center!CSpec
=============================================================================
