------------------------------ MODULE Allocator ------------------------------
(***************************************************************************)
(* What a pool promises to those who allocate from it, and std::pmr of any *)
(* memory_resource: an element is handed to one caller at a time, from the *)
(* instant do_allocate() returns it until it is given to do_deallocate(),  *)
(* by whichever thread.  Modules StaticPool and Pool implement this one.   *)
(***************************************************************************)
CONSTANTS Threads,   \* the threads that allocate and deallocate
          Elements,  \* the elements of the pool
          Nobody     \* what is written for the holder of a free element

VARIABLE holder      \* for each element the thread it was handed to, or Nobody

Init == holder = [e \in Elements |-> Nobody]

(* do_allocate() returns e to thread t.                                    *)
Allocate(t, e) ==
    /\ holder[e] = Nobody
    /\ holder' = [holder EXCEPT ![e] = t]

(* do_deallocate() is given e; events are released by other threads than   *)
(* the one that made them.                                                 *)
Deallocate(e) ==
    /\ holder[e] # Nobody
    /\ holder' = [holder EXCEPT ![e] = Nobody]

Next ==
    \E e \in Elements :
        \/ \E t \in Threads : Allocate(t, e)
        \/ Deallocate(e)

Spec == Init /\ [][Next]_holder
=============================================================================
