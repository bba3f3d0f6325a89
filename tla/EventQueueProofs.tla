-------------------------- MODULE EventQueueProofs --------------------------
(***************************************************************************)
(* Proofs about EventQueue, for any number of threads, any entries, any    *)
(* bound on the length and any range of the semaphore.                     *)
(*                                                                         *)
(* The inductive invariant is TypeOK /\ PermitsCovered.  Neither part is   *)
(* inductive alone: that the list is not empty when a thread pops, which   *)
(* TypeOK needs for Tail, follows from the accounting of the permits.      *)
(***************************************************************************)
EXTENDS EventQueue, FiniteSetTheorems, SequenceTheorems, TLAPS

Count(k) == Cardinality(InOp(k))

(* The entries nobody holds a permit for, or will be given one. *)
Surplus == Len(queue) - (sem + Count("pop") + Count("release"))

IInv == TypeOK /\ PermitsCovered

(* The numbers of threads in an operation are numbers. *)
LEMMA CountIsNat ==
    ASSUME NEW k
    PROVE  IsFiniteSet(InOp(k)) /\ Count(k) \in Nat
BY FS_Subset, FS_CardinalityType, ThreadsAssumption DEF InOp, Count

(* A thread that moves from one place of a call to another adds itself to  *)
(* those that are there, and all other places keep their threads.          *)
LEMMA GotoCounts ==
    ASSUME TypeOK, NEW t \in Threads, NEW from \in OpStates, NEW to \in OpStates,
           from # to, Goto(t, from, to)
    PROVE  /\ op' \in [Threads -> OpStates]
           /\ Count(from)' = Count(from) - 1
           /\ Count(from) \in Nat \ {0}
           /\ Count(to)' = Count(to) + 1
           /\ \A k \in OpStates \ {from, to} : InOp(k)' = InOp(k) /\ Count(k)' = Count(k)
           /\ InOp(from)' = InOp(from) \ {t}
           /\ InOp(to)' = InOp(to) \cup {t}
<1>1. op' \in [Threads -> OpStates]
  BY DEF TypeOK, Goto
<1>2. InOp(from)' = InOp(from) \ {t} /\ t \in InOp(from)
  BY DEF TypeOK, Goto, InOp
<1>3. InOp(to)' = InOp(to) \cup {t} /\ t \notin InOp(to)
  BY DEF TypeOK, Goto, InOp
<1>4. \A k \in OpStates \ {from, to} : InOp(k)' = InOp(k)
  BY DEF TypeOK, Goto, InOp
<1>5. Count(from)' = Count(from) - 1
  BY <1>2, CountIsNat, FS_RemoveElement DEF Count
<1>6. Count(to)' = Count(to) + 1
  BY <1>3, CountIsNat, FS_AddElement DEF Count
<1>7. Count(from) # 0
  BY <1>2, CountIsNat, FS_EmptySet DEF Count
<1>8. \A k \in OpStates \ {from, to} : Count(k)' = Count(k)
  BY <1>4 DEF Count
<1> QED
  BY <1>1, <1>2, <1>3, <1>4, <1>5, <1>6, <1>7, <1>8, CountIsNat

(* The accounting invariants in terms of the surplus. *)
LEMMA SurplusMeaning ==
    TypeOK => /\ Surplus \in Int
              /\ PermitsCovered <=> Surplus >= 0
              /\ PermitsExact <=> Surplus = 0
<1> SUFFICES ASSUME TypeOK
             PROVE  /\ Surplus \in Int
                    /\ PermitsCovered <=> Surplus >= 0
                    /\ PermitsExact <=> Surplus = 0
  OBVIOUS
<1>1. Len(queue) \in Nat /\ sem \in Nat /\ Count("pop") \in Nat /\ Count("release") \in Nat
  BY CountIsNat, LenProperties DEF TypeOK
<1> QED
  BY <1>1 DEF PermitsCovered, PermitsExact, Surplus, Count

LEMMA InitIInv == Init => IInv
<1> SUFFICES ASSUME Init PROVE IInv
  OBVIOUS
<1>1. TypeOK
  BY DEF Init, TypeOK, OpStates
<1>2. Count("pop") = 0 /\ Count("release") = 0
  BY FS_EmptySet DEF Init, Count, InOp
<1> QED
  BY <1>1, <1>2, CountIsNat DEF Init, IInv, PermitsCovered, Count

(* An enqueue adds an entry before it gives the permit for it. *)
LEMMA InsertStep ==
    ASSUME TypeOK, NEW t \in Threads, Goto(t, "idle", "release"),
           queue' \in Seq(Entries), Len(queue') = Len(queue) + 1, UNCHANGED sem
    PROVE  TypeOK' /\ Surplus' = Surplus
<1>1. TypeOK' /\ Count("release")' = Count("release") + 1 /\ Count("pop")' = Count("pop")
  BY GotoCounts DEF TypeOK, OpStates
<1>2. Len(queue) \in Nat /\ sem \in Nat /\ Count("pop") \in Nat /\ Count("release") \in Nat
  BY CountIsNat, LenProperties DEF TypeOK
<1>3. Surplus' = Surplus
  BY <1>1, <1>2 DEF Surplus
<1> QED
  BY <1>1, <1>3

(* No step changes the surplus, but a release() beyond max() that loses    *)
(* its permit, which leaves one entry more without one.                    *)
LEMMA StepEffect ==
    ASSUME TypeOK, PopHasEntry, [Next]_vars
    PROVE  /\ TypeOK'
           /\ \/ Surplus' = Surplus
              \/ (sem >= SemMax /\ Count("release") > 0 /\ Surplus' = Surplus + 1)
<1>0. Len(queue) \in Nat
  BY LenProperties DEF TypeOK
<1>1. ASSUME NEW t \in Threads, NEW e \in Entries, EnqueueBack(t, e)
      PROVE  TypeOK' /\ Surplus' = Surplus
  <2>1. Append(queue, e) \in Seq(Entries) /\ Len(Append(queue, e)) = Len(queue) + 1
    BY AppendProperties DEF TypeOK
  <2> QED
    BY <1>1, <2>1, InsertStep DEF EnqueueBack
<1>2. ASSUME NEW t \in Threads, NEW e \in Entries, EnqueueFront(t, e)
      PROVE  TypeOK' /\ Surplus' = Surplus
  <2>1. <<e>> \in Seq(Entries) /\ Len(<<e>>) = 1
    OBVIOUS
  <2>2. <<e>> \o queue \in Seq(Entries) /\ Len(<<e>> \o queue) = Len(queue) + 1
    BY <2>1, ConcatProperties, LenProperties DEF TypeOK
  <2> QED
    BY <1>2, <2>2, InsertStep DEF EnqueueFront
<1>3. ASSUME NEW t \in Threads, Release(t)
      PROVE  /\ TypeOK'
             /\ \/ Surplus' = Surplus
                \/ (sem >= SemMax /\ Count("release") > 0 /\ Surplus' = Surplus + 1)
  <2>1. /\ op' \in [Threads -> OpStates]
        /\ Count("release")' = Count("release") - 1
        /\ Count("release") \in Nat \ {0}
        /\ Count("pop")' = Count("pop")
    BY <1>3, GotoCounts DEF Release, OpStates
  <2>2. sem' \in Nat /\ (sem' = sem + 1 \/ (sem >= SemMax /\ sem' = sem)) /\ queue' = queue
    BY <1>3, SemMaxAssumption DEF Release, SemAfterRelease, TypeOK
  <2>3. TypeOK'
    BY <2>1, <2>2 DEF TypeOK
  <2>4. sem \in Nat /\ Count("pop") \in Nat
    BY CountIsNat DEF TypeOK
  <2>5. CASE sem' = sem + 1
    <3>1. Surplus' = Surplus
      BY <1>0, <2>1, <2>2, <2>4, <2>5 DEF Surplus
    <3> QED
      BY <2>3, <3>1
  <2>6. CASE sem >= SemMax /\ sem' = sem
    <3>1. Count("release") > 0
      BY <2>1
    <3>2. Surplus' = Surplus + 1
      BY <1>0, <2>1, <2>2, <2>4, <2>6 DEF Surplus
    <3> QED
      BY <2>3, <2>6, <3>1, <3>2
  <2> QED
    BY <2>2, <2>5, <2>6
<1>4. ASSUME NEW t \in Threads, CallDequeue(t)
      PROVE  TypeOK' /\ Surplus' = Surplus
  <2>1. /\ op' \in [Threads -> OpStates]
        /\ Count("release")' = Count("release")
        /\ Count("pop")' = Count("pop")
    BY <1>4, GotoCounts DEF CallDequeue, OpStates
  <2> QED
    BY <1>4, <2>1 DEF CallDequeue, TypeOK, Surplus
<1>5. ASSUME NEW t \in Threads, Acquire(t)
      PROVE  TypeOK' /\ Surplus' = Surplus
  <2>1. /\ op' \in [Threads -> OpStates]
        /\ Count("release")' = Count("release")
        /\ Count("pop")' = Count("pop") + 1
    BY <1>5, GotoCounts DEF Acquire, OpStates
  <2>2. sem' \in Nat /\ sem' = sem - 1 /\ queue' = queue
    BY <1>5 DEF Acquire, TypeOK
  <2> QED
    BY <1>0, <2>1, <2>2, CountIsNat DEF TypeOK, Surplus
<1>6. ASSUME NEW t \in Threads, Dequeue(t)
      PROVE  TypeOK' /\ Surplus' = Surplus
  <2>1. /\ op' \in [Threads -> OpStates]
        /\ Count("release")' = Count("release")
        /\ Count("pop")' = Count("pop") - 1
        /\ Count("pop") \in Nat \ {0}
    BY <1>6, GotoCounts DEF Dequeue, OpStates
  <2>2. queue' \in Seq(Entries) /\ Len(queue') = Len(queue) - 1
    BY <1>0, <1>6, <2>1, HeadTailProperties, EmptySeq
    DEF Dequeue, TypeOK, PopHasEntry, Count
  <2>3. TypeOK' /\ sem' = sem
    BY <1>6, <2>1, <2>2 DEF Dequeue, TypeOK
  <2>4. sem \in Nat /\ Count("release") \in Nat
    BY CountIsNat DEF TypeOK
  <2>5. Surplus' = Surplus
    BY <1>0, <2>1, <2>2, <2>3, <2>4 DEF Surplus
  <2> QED
    BY <2>3, <2>5
<1>7. CASE UNCHANGED vars
  BY <1>7 DEF vars, TypeOK, Surplus, Count, InOp
<1> QED
  BY <1>1, <1>2, <1>3, <1>4, <1>5, <1>6, <1>7 DEF Next

-----------------------------------------------------------------------------
LEMMA CoveredHasEntry == IInv => PopHasEntry
BY CountIsNat, LenProperties DEF IInv, TypeOK, PermitsCovered, PopHasEntry, Count

LEMMA NextIInv == IInv /\ [Next]_vars => IInv'
<1> SUFFICES ASSUME IInv, [Next]_vars PROVE IInv'
  OBVIOUS
<1>1. Surplus >= 0 /\ Surplus \in Int
  BY SurplusMeaning DEF IInv
<1>2. TypeOK' /\ Surplus' >= 0
  BY <1>1, StepEffect, CoveredHasEntry DEF IInv
<1>3. (TypeOK /\ Surplus >= 0 => PermitsCovered)'
  BY SurplusMeaning, PTL
<1> QED
  BY <1>2, <1>3 DEF IInv

THEOREM SpecIInv == SafeSpec => []IInv
BY InitIInv, NextIInv, PTL DEF SafeSpec

(* The list holds entries, the counter is never negative and every thread  *)
(* is in a known place of a call.                                          *)
THEOREM TypeCorrect == SafeSpec => []TypeOK
<1>1. IInv => TypeOK
  BY DEF IInv
<1> QED
  BY <1>1, SpecIInv, PTL

(* The semaphore never counts an entry that is not in the list, in every   *)
(* interleaving of the two steps of the enqueues and of Dequeue().         *)
THEOREM PermitsAreCovered == SafeSpec => []PermitsCovered
<1>1. IInv => PermitsCovered
  BY DEF IInv
<1> QED
  BY <1>1, SpecIInv, PTL

(* front() and pop_front() in Dequeue() never meet an empty list, for any  *)
(* number of threads and any semaphore.                                    *)
THEOREM PopNeverMeetsEmptyList == SafeSpec => []PopHasEntry
BY SpecIInv, CoveredHasEntry, PTL

-----------------------------------------------------------------------------
(* A semaphore that can count all the entries.                             *)

WideSemaphore == SemMax >= MaxLen

ExactInv == IInv /\ PermitsExact /\ Len(queue) <= MaxLen

LEMMA LengthBounded ==
    ASSUME TypeOK, PopHasEntry, Len(queue) <= MaxLen, [Next]_vars
    PROVE  Len(queue') <= MaxLen
<1> USE MaxLenAssumption DEF TypeOK
<1>0. Len(queue) \in Nat
  BY LenProperties
<1>1. ASSUME NEW t \in Threads, NEW e \in Entries, EnqueueBack(t, e)
      PROVE  Len(queue') <= MaxLen
  BY <1>0, <1>1, AppendProperties DEF EnqueueBack
<1>2. ASSUME NEW t \in Threads, NEW e \in Entries, EnqueueFront(t, e)
      PROVE  Len(queue') <= MaxLen
  <2>1. <<e>> \in Seq(Entries) /\ Len(<<e>>) = 1
    OBVIOUS
  <2> QED
    BY <1>0, <1>2, <2>1, ConcatProperties DEF EnqueueFront
<1>3. ASSUME NEW t \in Threads, Dequeue(t)
      PROVE  Len(queue') <= MaxLen
  <2>1. Count("pop") \in Nat \ {0}
    BY <1>3, GotoCounts DEF Dequeue, OpStates
  <2> QED
    BY <1>0, <1>3, <2>1, HeadTailProperties, EmptySeq DEF Dequeue, PopHasEntry, Count
<1> QED
  BY <1>1, <1>2, <1>3 DEF Next, Release, CallDequeue, Acquire, vars

(* With a semaphore wide enough, permits and entries are always equal in   *)
(* number: no wake-up is ever lost, and release() is never called beyond   *)
(* max().                                                                  *)
THEOREM PermitsAreExact ==
    ASSUME WideSemaphore
    PROVE  SafeSpec => []PermitsExact
<1>1. Init => ExactInv
  <2> SUFFICES ASSUME Init PROVE ExactInv
    OBVIOUS
  <2>1. Count("pop") = 0 /\ Count("release") = 0
    BY FS_EmptySet DEF Init, Count, InOp
  <2> QED
    BY <2>1, InitIInv, MaxLenAssumption DEF ExactInv, PermitsExact, Init, Count
<1>2. ExactInv /\ [Next]_vars => ExactInv'
  <2> SUFFICES ASSUME ExactInv, [Next]_vars PROVE ExactInv'
    OBVIOUS
  <2>1. Surplus = 0 /\ (sem >= SemMax => Count("release") = 0)
    BY CountIsNat, LenProperties, SemMaxAssumption, MaxLenAssumption
    DEF ExactInv, IInv, TypeOK, PermitsExact, Surplus, Count, WideSemaphore
  <2>2. Surplus' = 0
    BY <2>1, StepEffect, CoveredHasEntry DEF ExactInv, IInv
  <2>3. IInv' /\ Len(queue') <= MaxLen
    BY NextIInv, LengthBounded, CoveredHasEntry DEF ExactInv, IInv
  <2>4. (TypeOK /\ Surplus = 0 => PermitsExact)'
    BY SurplusMeaning, PTL
  <2> QED
    BY <2>2, <2>3, <2>4 DEF ExactInv, IInv
<1>3. ExactInv => PermitsExact
  BY DEF ExactInv
<1> QED
  BY <1>1, <1>2, <1>3, PTL DEF SafeSpec

(* With a semaphore wide enough, no thread waits in Dequeue() for an entry *)
(* that is in the list and that no other thread is about to take or to     *)
(* announce: Dequeue() blocks until there is an entry, and no longer.      *)
THEOREM NoWaiterIsStranded ==
    ASSUME WideSemaphore
    PROVE  SafeSpec => []NoStrandedWaiter
<1>1. TypeOK /\ PermitsExact => NoStrandedWaiter
  <2> SUFFICES ASSUME TypeOK, PermitsExact, ~(sem > 0), InOp("pop") = {}, InOp("release") = {}
               PROVE  queue = <<>>
    BY DEF NoStrandedWaiter
  <2>1. Cardinality(InOp("pop")) = 0 /\ Cardinality(InOp("release")) = 0
    BY FS_EmptySet
  <2>2. Len(queue) = 0
    BY <2>1 DEF TypeOK, PermitsExact
  <2> QED
    BY <2>2, EmptySeq DEF TypeOK
<1> QED
  BY <1>1, TypeCorrect, PermitsAreExact, PTL

(* Every step of the queue is a step of the deque that IEventQueue         *)
(* promises, or none: the inserts and the pop are the instants at which    *)
(* the operations take effect.                                             *)
THEOREM RefinesDeque == SafeSpec => Promise!SafeSpec
<1>1. Init => Promise!Init
  BY DEF Init, Promise!Init, InOp
<1>2. IInv /\ [Next]_vars => [Promise!Next]_Promise!vars
  <2> SUFFICES ASSUME IInv, [Next]_vars PROVE [Promise!Next]_Promise!vars
    OBVIOUS
  <2> DEFINE W == InOp("acquire") \cup InOp("pop")
  <2> USE DEF IInv
  <2>1. ASSUME NEW t \in Threads, NEW e \in Entries,
               EnqueueBack(t, e) \/ EnqueueFront(t, e)
        PROVE  Promise!EnqueueBack(t, e) \/ Promise!EnqueueFront(t, e)
    <3>1. t \notin W /\ W' = W
      BY <2>1, GotoCounts DEF EnqueueBack, EnqueueFront, Goto, OpStates, InOp, TypeOK
    <3> QED
      BY <2>1, <3>1
      DEF EnqueueBack, EnqueueFront, Promise!EnqueueBack, Promise!EnqueueFront
  <2>2. ASSUME NEW t \in Threads, Release(t)
        PROVE  UNCHANGED Promise!vars
    <3>1. W' = W
      BY <2>2, GotoCounts DEF Release, OpStates
    <3> QED
      BY <2>2, <3>1 DEF Release, Promise!vars
  <2>3. ASSUME NEW t \in Threads, CallDequeue(t)
        PROVE  Promise!CallDequeue(t)
    <3>1. t \notin W /\ W' = W \cup {t}
      BY <2>3, GotoCounts DEF CallDequeue, Goto, OpStates, InOp, TypeOK
    <3> QED
      BY <2>3, <3>1 DEF CallDequeue, Promise!CallDequeue
  <2>4. ASSUME NEW t \in Threads, Acquire(t)
        PROVE  UNCHANGED Promise!vars
    <3>1. W' = W
      BY <2>4 DEF Acquire, Goto, OpStates, InOp, TypeOK
    <3> QED
      BY <2>4, <3>1 DEF Acquire, Promise!vars
  <2>5. ASSUME NEW t \in Threads, Dequeue(t)
        PROVE  Promise!Dequeue(t)
    <3>1. t \in W /\ W' = W \ {t}
      BY <2>5 DEF Dequeue, Goto, OpStates, InOp, TypeOK
    <3>2. Count("pop") \in Nat \ {0}
      BY <2>5, GotoCounts DEF Dequeue, OpStates
    <3>3. queue # <<>>
      BY <3>2, CoveredHasEntry DEF PopHasEntry, Count
    <3> QED
      BY <2>5, <3>1, <3>3 DEF Dequeue, Promise!Dequeue
  <2>6. CASE UNCHANGED vars
    BY <2>6 DEF vars, Promise!vars, InOp
  <2> QED
    BY <2>1, <2>2, <2>3, <2>4, <2>5, <2>6 DEF Next, Promise!Next
<1> QED
  BY <1>1, <1>2, SpecIInv, PTL DEF SafeSpec, Promise!SafeSpec
=============================================================================
