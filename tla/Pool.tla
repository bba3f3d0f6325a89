-------------------------------- MODULE Pool --------------------------------
(***************************************************************************)
(* Pool: the free elements of a block of memory wait in a std::queue,      *)
(* which is used in critical sections of mutex_ only: each is one step.    *)
(* FillLevel() reads the size of the queue without the mutex, and is left  *)
(* out.                                                                    *)
(***************************************************************************)
EXTENDS Integers, Sequences, FiniteSets

CONSTANTS Threads,   \* the threads that use the pool
          Count,     \* the constructor's count
          Nobody     \* no thread

Elements == 1..Count

VARIABLES pool,      \* pool_, its front first
          holder     \* for each element the thread it was handed to, or Nobody

vars == <<pool, holder>>

Init ==
    /\ pool = [i \in 1..Count |-> i]
    /\ holder = [e \in Elements |-> Nobody]

(* do_allocate() asserts that the queue is not empty: without a free       *)
(* element the program ends.                                               *)
Allocate(t) ==
    /\ pool # <<>>
    /\ holder' = [holder EXCEPT ![Head(pool)] = t]
    /\ pool' = Tail(pool)

Mutant_Deallocate(e) ==   \* pushed by the pool and by its caller
    /\ holder[e] # Nobody
    /\ holder' = [holder EXCEPT ![e] = Nobody]
    /\ pool' = pool \o <<e, e>>

(* do_deallocate() of an element that is held, by any thread.              *)
Deallocate(e) ==
    /\ holder[e] # Nobody
    /\ holder' = [holder EXCEPT ![e] = Nobody]
    /\ pool' = Append(pool, e)

Next ==
    \/ \E t \in Threads : Allocate(t)
    \/ \E e \in Elements : Deallocate(e)

Spec == Init /\ [][Next]_vars

-----------------------------------------------------------------------------
(* Type invariant. *)
TypeOK ==
    /\ pool \in Seq(Elements)
    /\ holder \in [Elements -> Threads \cup {Nobody}]

(* No element is lost and none waits twice: each is held by a thread or    *)
(* stands at one place of the queue, after any history of do_allocate()    *)
(* and do_deallocate() by different threads.                               *)
EachElementOnce ==
    \A e \in Elements :
        LET places == {i \in 1..Len(pool) : pool[i] = e}
        IN Cardinality(places) = IF holder[e] = Nobody THEN 1 ELSE 0

(* Handed out to one holder at a time: the pool is an allocator.           *)
Promise == INSTANCE Allocator

ImplementsAllocator == Promise!Spec
=============================================================================
