----------------------------- MODULE StaticPool -----------------------------
(***************************************************************************)
(* StaticPool: a fixed array of elements, the free ones linked through     *)
(* their own memory.  The link is a union with what the user stores, so    *)
(* the pool must never follow the link of an element it has handed out.    *)
(*                                                                         *)
(* mutex_ guards the list.  A critical section is several steps: FillLevel *)
(* reads the counter without the mutex, and that the mutex is what keeps   *)
(* the threads apart is not assumed.                                       *)
(***************************************************************************)
EXTENDS Integers, FiniteSets

CONSTANTS Threads,      \* the threads that allocate and deallocate
          NumElements,  \* the template argument
          Nobody,       \* no thread
          Junk          \* what a link reads as after the user wrote the element

ASSUME NumElementsAssumption == NumElements \in Nat \ {0}
ASSUME NobodyAssumption == Nobody \notin Threads
ASSUME JunkAssumption == Junk \notin 0..NumElements

(* The elements of pool_mem_; 0 stands for nullptr.                        *)
Elements == 1..NumElements

Null == 0

VARIABLES next,     \* the link of each element, valid while it is free
          first,    \* first_
          fill,     \* fill_level_
          mutex,    \* the thread that has locked mutex_, or Nobody
          pc,       \* where each thread is in a call
          elem,     \* do_allocate()'s result, do_deallocate()'s argument
          holder    \* for each element the thread it was handed to, or Nobody

vars == <<next, first, fill, mutex, pc, elem, holder>>

(* The constructor: pool_mem_ is zeroed, then each element is linked to    *)
(* the one after it.                                                       *)
Init ==
    /\ next = [e \in Elements |-> IF e < NumElements THEN e + 1 ELSE Null]
    /\ first = 1
    /\ fill = NumElements
    /\ mutex = Nobody
    /\ pc = [t \in Threads |-> "idle"]
    /\ elem = [t \in Threads |-> Null]
    /\ holder = [e \in Elements |-> Nobody]

Goto(t, from, to) ==
    /\ pc[t] = from
    /\ pc' = [pc EXCEPT ![t] = to]

Mutant_Lock(t) == mutex' = t   \* does not wait

(* std::scoped_lock; Unlock is its destructor.                             *)
Lock(t) == mutex = Nobody /\ mutex' = t

Unlock == mutex' = Nobody

-----------------------------------------------------------------------------
(* do_allocate(): it locks, asserts that FillLevel() is not 0, and takes   *)
(* first_.  Where the assertion fails the program ends: no step follows.   *)
EnterAllocate(t) ==
    /\ Goto(t, "idle", "take")
    /\ Lock(t)
    /\ UNCHANGED <<next, first, fill, elem, holder>>

TakeFirst(t) ==
    /\ Goto(t, "take", "unlink")
    /\ fill # 0
    /\ elem' = [elem EXCEPT ![t] = first]
    /\ UNCHANGED <<next, first, fill, mutex, holder>>

Mutant_Unlink(t) ==   \* first_ is not moved on
    /\ Goto(t, "unlink", "decrement")
    /\ UNCHANGED <<next, first, fill, mutex, elem, holder>>

Unlink(t) ==
    /\ Goto(t, "unlink", "decrement")
    /\ first' = next[elem[t]]
    /\ UNCHANGED <<next, fill, mutex, elem, holder>>

Mutant_Decrement(t) ==   \* the counter is forgotten
    /\ Goto(t, "decrement", "idle")
    /\ holder' = [holder EXCEPT ![elem[t]] = t]
    /\ elem' = [elem EXCEPT ![t] = Null]
    /\ Unlock
    /\ UNCHANGED <<next, first, fill>>

Decrement(t) ==
    /\ Goto(t, "decrement", "idle")
    /\ fill' = fill - 1
    /\ holder' = [holder EXCEPT ![elem[t]] = t]
    /\ elem' = [elem EXCEPT ![t] = Null]
    /\ Unlock
    /\ UNCHANGED <<next, first>>

(* Whoever holds an element writes to it, and to the link with it.         *)
Use(e) ==
    /\ holder[e] # Nobody
    /\ next' = [next EXCEPT ![e] = Junk]
    /\ UNCHANGED <<first, fill, mutex, pc, elem, holder>>

(* do_deallocate() of an element that is held, by any thread.              *)
EnterDeallocate(t, e) ==
    /\ holder[e] # Nobody
    /\ Goto(t, "idle", "link")
    /\ Lock(t)
    /\ elem' = [elem EXCEPT ![t] = e]
    /\ holder' = [holder EXCEPT ![e] = Nobody]
    /\ UNCHANGED <<next, first, fill>>

Mutant_Link(t) ==   \* the link keeps what the user stored there
    /\ Goto(t, "link", "push")
    /\ UNCHANGED <<next, first, fill, mutex, elem, holder>>

Link(t) ==
    /\ Goto(t, "link", "push")
    /\ next' = [next EXCEPT ![elem[t]] = first]
    /\ UNCHANGED <<first, fill, mutex, elem, holder>>

Push(t) ==
    /\ Goto(t, "push", "increment")
    /\ first' = elem[t]
    /\ UNCHANGED <<next, fill, mutex, elem, holder>>

Increment(t) ==
    /\ Goto(t, "increment", "idle")
    /\ fill' = fill + 1
    /\ elem' = [elem EXCEPT ![t] = Null]
    /\ Unlock
    /\ UNCHANGED <<next, first, holder>>

Next ==
    \/ \E t \in Threads :
        \/ EnterAllocate(t) \/ TakeFirst(t) \/ Unlink(t) \/ Decrement(t)
        \/ \E e \in Elements : EnterDeallocate(t, e)
        \/ Link(t) \/ Push(t) \/ Increment(t)
    \/ \E e \in Elements : Use(e)

Spec == Init /\ [][Next]_vars

-----------------------------------------------------------------------------
(* Type invariant. *)
TypeOK ==
    /\ next \in [Elements -> Elements \cup {Null, Junk}]
    /\ first \in Elements \cup {Null}
    /\ fill \in 0..NumElements
    /\ mutex \in Threads \cup {Nobody}
    /\ pc \in [Threads -> {"idle", "take", "unlink", "decrement", "link", "push", "increment"}]
    /\ elem \in [Threads -> Elements \cup {Null}]
    /\ holder \in [Elements -> Threads \cup {Nobody}]

InCall(k) == {t \in Threads : pc[t] = k}

(* The elements nobody was handed, but the one a thread inside the         *)
(* critical section has already unlinked or has still to link.             *)
Free ==
    {e \in Elements : holder[e] = Nobody} \
        {elem[t] : t \in InCall("decrement") \cup InCall("link") \cup InCall("push")}

Orders == UNION {[1..n -> Elements] : n \in 0..NumElements}

(* The links lead from first_ through the elements of c to nullptr.        *)
IsFreeList(c) ==
    LET n == Cardinality(DOMAIN c)
    IN /\ first = IF n = 0 THEN Null ELSE c[1]
       /\ \A i \in 1..n : next[c[i]] = IF i = n THEN Null ELSE c[i + 1]
       /\ \A i, j \in 1..n : c[i] = c[j] => i = j
       /\ {c[i] : i \in 1..n} = Free

(* Between any two steps the list holds each free element once and no      *)
(* other: no link of an element in use is followed, whatever the user      *)
(* stored there, no element is lost, and the list has no cycle.            *)
FreeListIntact == \E c \in Orders : IsFreeList(c)

(* FillLevel() is read without the mutex: at any instant it is the number  *)
(* of elements in the list, but for the one operation under way between    *)
(* its change of the list and its change of the counter.                   *)
FillLevelTracks ==
    fill + Cardinality(InCall("increment"))
        = Cardinality(Free) + Cardinality(InCall("decrement"))

(* Handed out to one holder at a time: the pool is an allocator.           *)
Promise == INSTANCE Allocator

ImplementsAllocator == Promise!Spec
=============================================================================
