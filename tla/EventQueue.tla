----------------------------- MODULE EventQueue -----------------------------
(***************************************************************************)
(* EventQueue<SemaphoreType, MutexType>: a std::list guarded by a mutex,   *)
(* and a semaphore that counts its entries.  An enqueue inserts under the  *)
(* mutex and releases the semaphore AFTER unlocking; a dequeue acquires    *)
(* the semaphore BEFORE locking.  Both are therefore two steps, and other  *)
(* threads run between them.  A critical section is one step: it contains  *)
(* no blocking call and all accesses to the list are inside one.           *)
(***************************************************************************)
EXTENDS Naturals, Sequences, FiniteSets

CONSTANTS Threads,   \* the threads that use the queue
          Entries,   \* the (target, event) pairs that can be enqueued
          MaxLen,    \* bound of the model: no more entries than this at once
          SemMax     \* SemaphoreType::max(): what release() may count up to

ASSUME ThreadsAssumption == IsFiniteSet(Threads)
ASSUME MaxLenAssumption == MaxLen \in Nat
ASSUME SemMaxAssumption == SemMax \in Nat

VARIABLES queue,     \* queue_, first to be dequeued at the head
          sem,       \* the counter of sem_
          op         \* where each thread is in a call on the queue

vars == <<queue, sem, op>>

(* "idle"     not in a call on the queue                                   *)
(* "release"  in Enqueue*, mutex unlocked, sem_.release() still to come    *)
(* "acquire"  in Dequeue, in sem_.acquire()                                *)
(* "pop"      in Dequeue, past sem_.acquire(), mutex not yet taken         *)
OpStates == {"idle", "release", "acquire", "pop"}

InOp(k) == {t \in Threads : op[t] = k}

Mutant_Init ==   \* the semaphore starts at 1
    /\ queue = <<>>
    /\ sem = 1
    /\ op = [t \in Threads |-> "idle"]

Init ==
    /\ queue = <<>>
    /\ sem = 0
    /\ op = [t \in Threads |-> "idle"]

Goto(t, from, to) ==
    /\ op[t] = from
    /\ op' = [op EXCEPT ![t] = to]

-----------------------------------------------------------------------------
Mutant_EnqueueBackSilent(t, e) ==   \* release() forgotten
    /\ Len(queue) < MaxLen
    /\ op[t] = "idle"
    /\ queue' = Append(queue, e)
    /\ UNCHANGED <<sem, op>>

EnqueueBack(t, e) ==
    /\ Len(queue) < MaxLen
    /\ Goto(t, "idle", "release")
    /\ queue' = Append(queue, e)
    /\ UNCHANGED sem

Mutant_EnqueueFrontSilent(t, e) ==   \* release() forgotten
    /\ Len(queue) < MaxLen
    /\ op[t] = "idle"
    /\ queue' = <<e>> \o queue
    /\ UNCHANGED <<sem, op>>

EnqueueFront(t, e) ==
    /\ Len(queue) < MaxLen
    /\ Goto(t, "idle", "release")
    /\ queue' = <<e>> \o queue
    /\ UNCHANGED sem

(* SemaphoreType::release(), a library call.  The standard requires that   *)
(* the counter be below max(); beyond it the outcome is the library's.     *)
(* Some count on, as libstdc++'s binary_semaphore (its max() is 1, its     *)
(* counter an int), a two-valued counter keeps its value.                  *)
SemAfterRelease == IF sem < SemMax THEN {sem + 1} ELSE {sem, sem + 1}

Release(t) ==
    /\ Goto(t, "release", "idle")
    /\ sem' \in SemAfterRelease
    /\ UNCHANGED queue

CallDequeue(t) ==
    /\ Goto(t, "idle", "acquire")
    /\ UNCHANGED <<queue, sem>>

Mutant_AcquireAlways(t) ==   \* does not wait for a permit
    /\ Goto(t, "acquire", "pop")
    /\ sem' = sem - 1
    /\ UNCHANGED queue

Mutant_AcquireKeeps(t) ==   \* looks at the counter and does not take the permit
    /\ sem > 0
    /\ Goto(t, "acquire", "pop")
    /\ UNCHANGED <<queue, sem>>

(* SemaphoreType::acquire(), a library call: blocks while the counter is 0. *)
Acquire(t) ==
    /\ sem > 0
    /\ Goto(t, "acquire", "pop")
    /\ sem' = sem - 1
    /\ UNCHANGED queue

Mutant_DequeueLast(t) ==   \* back() and pop_back()
    /\ Goto(t, "pop", "idle")
    /\ queue' = SubSeq(queue, 1, Len(queue) - 1)
    /\ UNCHANGED sem

(* front() and pop_front() under the mutex: undefined on an empty list,    *)
(* and nothing in the code looks.                                          *)
Dequeue(t) ==
    /\ Goto(t, "pop", "idle")
    /\ queue' = Tail(queue)
    /\ UNCHANGED sem

Next ==
    \E t \in Threads :
        \/ \E e \in Entries : EnqueueBack(t, e) \/ EnqueueFront(t, e)
        \/ Release(t)
        \/ CallDequeue(t)
        \/ Acquire(t)
        \/ Dequeue(t)

(* A thread inside a call goes on: the scheduler runs it, the mutex is     *)
(* only held for a bounded time, and a semaphore whose counter is positive *)
(* lets a waiting thread through.  No thread is obliged to start a call.   *)
Fairness == \A t \in Threads : WF_vars(Release(t)) /\ WF_vars(Acquire(t)) /\ WF_vars(Dequeue(t))

SafeSpec == Init /\ [][Next]_vars

Spec == SafeSpec /\ Fairness

-----------------------------------------------------------------------------
(* Type invariant. *)
TypeOK ==
    /\ queue \in Seq(Entries)
    /\ sem \in Nat
    /\ op \in [Threads -> OpStates]

(* Dequeue's front()/pop_front() never meets an empty list: every thread   *)
(* that got past sem_.acquire() has an entry of its own waiting in the     *)
(* list, however the threads interleave between the two steps of their     *)
(* calls and whatever the range of the semaphore.                          *)
PopHasEntry == Cardinality(InOp("pop")) <= Len(queue)

(* The semaphore never counts an entry that is not in the list: permits    *)
(* given and permits already taken by a thread before its pop, plus the    *)
(* ones still to be given, do not exceed the entries (queue_ and sem_ are  *)
(* updated in different steps of EnqueueBack, EnqueueFront and Dequeue).   *)
PermitsCovered ==
    sem + Cardinality(InOp("pop")) + Cardinality(InOp("release")) <= Len(queue)

(* Dequeue blocks "until there is an entry in the queue": a thread that    *)
(* waits in sem_.acquire() while the list has an entry is about to be let  *)
(* through, or another thread is about to take or announce that entry.     *)
NoStrandedWaiter ==
    (InOp("acquire") # {} /\ queue # <<>>) =>
        \/ sem > 0
        \/ InOp("pop") # {}
        \/ InOp("release") # {}

(* Exact accounting: with a semaphore that can count as many permits as    *)
(* the list holds entries, no permit is ever lost.  Then release() is also *)
(* always called within its precondition.                                  *)
PermitsExact ==
    sem + Cardinality(InOp("pop")) + Cardinality(InOp("release")) = Len(queue)

(* The queue implements the interface's promise; a thread is waiting from  *)
(* the call of Dequeue() to the instant it pops.                           *)
Promise == INSTANCE BlockingDeque WITH
    items <- queue,
    waiting <- InOp("acquire") \cup InOp("pop")

ImplementsDeque == Promise!Spec
=============================================================================
