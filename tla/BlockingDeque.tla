---------------------------- MODULE BlockingDeque ----------------------------
(***************************************************************************)
(* What IEventQueue promises to its callers: a double-ended queue whose    *)
(* operations take effect at one instant, and whose Dequeue() blocks while *)
(* there is nothing to return and no longer than that.  No semaphore, no   *)
(* mutex: module EventQueue is shown to implement this one.                *)
(***************************************************************************)
EXTENDS Naturals, Sequences

CONSTANTS Threads,   \* the threads that use the queue
          Entries,   \* the (target, event) pairs that can be enqueued
          MaxLen     \* bound of the model: no more entries than this at once

VARIABLES items,     \* the entries, first to be dequeued at the head
          waiting    \* the threads inside Dequeue()

vars == <<items, waiting>>

Init == items = <<>> /\ waiting = {}

(* EnqueueBack() and EnqueueFront() of a thread that is not in Dequeue().  *)
EnqueueBack(t, e) ==
    /\ t \notin waiting
    /\ Len(items) < MaxLen
    /\ items' = Append(items, e)
    /\ UNCHANGED waiting

EnqueueFront(t, e) ==
    /\ t \notin waiting
    /\ Len(items) < MaxLen
    /\ items' = <<e>> \o items
    /\ UNCHANGED waiting

(* Dequeue() from its call to the instant it takes the first entry.        *)
CallDequeue(t) ==
    /\ t \notin waiting
    /\ waiting' = waiting \cup {t}
    /\ UNCHANGED items

Dequeue(t) ==
    /\ t \in waiting
    /\ items # <<>>
    /\ items' = Tail(items)
    /\ waiting' = waiting \ {t}

Next ==
    \E t \in Threads :
        \/ \E e \in Entries : EnqueueBack(t, e) \/ EnqueueFront(t, e)
        \/ CallDequeue(t)
        \/ Dequeue(t)

(* The safety part, and the promise that a waiting thread does not wait    *)
(* while the queue holds an entry for it.                                  *)
SafeSpec == Init /\ [][Next]_vars

Spec == SafeSpec /\ WF_vars(\E t \in Threads : Dequeue(t))
=============================================================================
