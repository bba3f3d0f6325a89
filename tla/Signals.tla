------------------------------ MODULE Signals ------------------------------
(***************************************************************************)
(* Signal classes and the memory of their events: the ids that a chain of  *)
(* NextSignal declarations gives them, the pool size the calculator finds, *)
(* CustomAllocator with its two pointers, and events from MakeShared() to  *)
(* their release by the last owner, which may be long after the owner of   *)
(* the pool has let go of it.  A pool is an Allocator of Count elements.   *)
(***************************************************************************)
EXTENDS TypeNames, FiniteSets

CONSTANTS Classes,       \* the signal classes
          Previous,      \* for each the class NextSignal names, NoClass for SignalBase
          FirstId,       \* the id SignalBase is given
          CustomClasses, \* classes without Previous that use the CustomAllocator
          Args,          \* the classes listed for SignalPoolElementSizeCalculator
          Sizeof,        \* sizeof of each class
          ControlBlock,  \* what std::allocate_shared adds to it
          Pools,         \* the pools the application creates
          Count,         \* the number of elements of each
          ClassName,     \* the name of each class, for TypeNames
          Events,        \* bound of the model: events at a time
          NoClass, Null, Heap

VARIABLES allocator,         \* CustomAllocator::allocator
          shared_allocator,  \* CustomAllocator::shared_allocator
          plain,             \* the pools given to SetAllocator() as a pointer
          held,              \* the pools the application holds itself
          event              \* for each event its class, id_ and pool, or Null

vars == <<allocator, shared_allocator, plain, held, event>>

-----------------------------------------------------------------------------
(* SignalBase's id, and NextSignal's: one more than that of Previous.      *)
NextId(id) == id + 1

kId[c \in Classes] == IF Previous[c] = NoClass THEN FirstId[c] ELSE NextId(kId[Previous[c]])

(* The Allocator of a class: NextSignal takes over that of Previous.       *)
UsesCustom[c \in Classes] ==
    IF Previous[c] = NoClass THEN c \in CustomClasses ELSE UsesCustom[Previous[c]]

Pooled == {c \in Classes : UsesCustom[c]}

(* What MakeShared() asks the allocator for.                               *)
SptrSize(c) == Sizeof[c] + ControlBlock

(* SignalPoolElementSizeCalculator, of a list that is written by hand.     *)
kSptrSize == Max({SptrSize(c) : c \in Args} \cup {0})

(* The pool's element_size_: kSptrSize, rounded up to the next word.       *)
ElementSize == ((kSptrSize + 8) \div 8) * 8

-----------------------------------------------------------------------------
Init ==
    /\ allocator = Null /\ shared_allocator = Null
    /\ plain = {} /\ held = Pools
    /\ event = [e \in Events |-> Null]

(* A pool exists while the application, or shared_allocator, holds it.     *)
Exists(p) == p \in held \/ p = shared_allocator

(* Both assert that no allocator is set.                                   *)
SetAllocator(p) ==
    /\ p \in held
    /\ allocator = Null
    /\ allocator' = p
    /\ plain' = plain \cup {p}
    /\ UNCHANGED <<shared_allocator, held, event>>

Mutant_SetAnotherAllocator(p) ==   \* without the assertion
    /\ p \in held
    /\ shared_allocator' = p
    /\ allocator' = p
    /\ UNCHANGED <<plain, held, event>>

SetSharedAllocator(p) ==
    /\ p \in held
    /\ allocator = Null
    /\ shared_allocator' = p
    /\ allocator' = p
    /\ UNCHANGED <<plain, held, event>>

(* The application lets go of a pool: it must not, while it is used by     *)
(* plain pointer.                                                          *)
LetGo(p) ==
    /\ p \in held \ plain
    /\ held' = held \ {p}
    /\ UNCHANGED <<allocator, shared_allocator, plain, event>>

GetAllocator(c) == IF c \in Pooled THEN allocator ELSE Heap

InUse(p) == {e \in Events : event[e] # Null /\ event[e].pool = p}

Mutant_Constructed(c, p) ==   \* with the default constructor of Previous
    [class |-> c, id |-> kId[IF Previous[c] = NoClass THEN c ELSE Previous[c]], pool |-> p]

(* What the constructors of SignalBase, or NextSignal, hand down to        *)
(* Signal(): the id of the class that is made, past any class between.     *)
Constructed(c, p) == [class |-> c, id |-> kId[c], pool |-> p]

(* MakeShared(): the event remembers the memory_resource it came from, by  *)
(* plain pointer.  An exhausted pool fails its assertion, and so does one  *)
(* whose elements are too small, for want of a class in Args; nothing in   *)
(* the code looks whether an allocator was set.                            *)
MakeShared(c, e) ==
    /\ event[e] = Null
    /\ GetAllocator(c) # Null
    /\ GetAllocator(c) \in Pools =>
          SptrSize(c) <= ElementSize /\ Cardinality(InUse(allocator)) < Count
    /\ event' = [event EXCEPT ![e] = Constructed(c, GetAllocator(c))]
    /\ UNCHANGED <<allocator, shared_allocator, plain, held>>

(* The last owner releases the event.                                      *)
Release(e) ==
    /\ event[e] # Null
    /\ event' = [event EXCEPT ![e] = Null]
    /\ UNCHANGED <<allocator, shared_allocator, plain, held>>

Next ==
    \/ \E p \in Pools : SetAllocator(p) \/ SetSharedAllocator(p) \/ LetGo(p)
    \/ \E e \in Events : (\E c \in Classes : MakeShared(c, e)) \/ Release(e)

Spec == Init /\ [][Next]_vars

-----------------------------------------------------------------------------
(* Type invariant. *)
TypeOK ==
    /\ allocator \in Pools \cup {Null} /\ shared_allocator \in Pools \cup {Null}
    /\ plain \subseteq Pools /\ held \subseteq Pools
    /\ event \in [Events -> [class : Classes, id : Nat, pool : Pools \cup {Heap}] \cup {Null}]

Id(e) == event[e].id

(* Check(), and what FromSignal() asserts before it casts.                 *)
Check(e, c) == Id(e) = kId[c]

(* c is d, or comes after it in a chain of NextSignal.                     *)
Continues(c, d) ==
    \A after \in SUBSET Classes :
        (d \in after /\ \A x \in Classes : Previous[x] \in after => x \in after) => c \in after

(* FromSignal() takes no event of another class of its chain for one of    *)
(* its own, "Check if event is of this kind" (Signal.hxx:209), through all *)
(* the constructors that hand an id down.  It may take one of another      *)
(* chain: that the ids of two chains do not meet is up to the application. *)
CastSound ==
    \A e \in Events, c \in Classes :
        (event[e] # Null /\ Check(e, c)) =>
            LET class == event[e].class
            IN Continues(c, class) \/ Continues(class, c) => class = c

(* An event's memory lives as long as the event: the pool it came from and *)
(* will be given back to exists, although the event does not own it.       *)
PoolOutlivesEvents ==
    \A e \in Events :
        (event[e] # Null /\ event[e].pool # Heap) => Exists(event[e].pool)

(* Name(): GetDemangledTypeName() is the name of the event's class and     *)
(* nothing else, "Get the Demangled type name" (DemangledTypeName.hxx:81), *)
(* also where the name contains the words the code looks for, as that of a *)
(* class local to a template function does.                                *)
NameIsTypes ==
    \A e \in Events :
        LET name == ClassName[event[e].class]
        IN event[e] # Null => Compiles(name) /\ TypeNameArray(name) = name \o <<"NUL">>
=============================================================================
