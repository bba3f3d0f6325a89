----------------------------- MODULE EventMemory -----------------------------
(***************************************************************************)
(* The memory of events: StaticPool and Pool with threads that allocate    *)
(* and deallocate, their layout, and the families of signals whose events  *)
(* come from pools.  The two pools and the signals share no variable: a    *)
(* behaviour is about one of them, and signals rely on what Allocator      *)
(* promises, which both pools are shown to implement.                      *)
(***************************************************************************)
EXTENDS StaticPool, Sequences

CONSTANTS ElementSizes,  \* the element sizes pools are made for
          Alignments     \* their template arguments Alignment

VARIABLES part,              \* what the behaviour is about
          pool, poolHolder,  \* of Pool
          allocator, shared_allocator, plain, held, event  \* of Signals

poolVars == <<pool, poolHolder>>
signalVars == <<allocator, shared_allocator, plain, held, event>>

CONSTANTS Before, After, kPrefix, kSuffix, npos, ClassName,
          Classes, Previous, FirstId, CustomClasses, Args, Sizeof, ControlBlock,
          Pools, Count, Events, NoClass, nullptr, Heap

(* A class can name as Previous only one that is declared before it.       *)
ASSUME ChainAssumption ==
    /\ IsFiniteSet(Classes) /\ NoClass \notin Classes
    /\ \E declared \in [Classes -> 1..Cardinality(Classes)] :
          \A c \in Classes : Previous[c] # NoClass =>
              Previous[c] \in Classes /\ declared[Previous[c]] < declared[c]

ASSUME NumbersAssumption ==
    FirstId \in [Classes -> Nat] /\ Sizeof \in [Classes -> Nat] /\ ControlBlock \in Nat

ASSUME AlignmentAssumption == ElementSizes \subseteq Nat /\ Alignments \subseteq Nat \ {0}

HeapPool == INSTANCE Pool WITH Count <- NumElements, holder <- poolHolder
Family == INSTANCE Signals WITH Null <- nullptr
Layout == INSTANCE PoolLayout

MemoryInit ==
    /\ Init /\ HeapPool!Init /\ Family!Init
    /\ part \in {"StaticPool", "Pool", "Signals"}

MemoryNext ==
    /\ UNCHANGED part
    /\ \/ part = "StaticPool" /\ Next /\ UNCHANGED <<poolVars, signalVars>>
       \/ part = "Pool" /\ HeapPool!Next /\ UNCHANGED <<vars, signalVars>>
       \/ part = "Signals" /\ Family!Next /\ UNCHANGED <<vars, poolVars>>

MemorySpec == MemoryInit /\ [][MemoryNext]_<<part, vars, poolVars, signalVars>>

-----------------------------------------------------------------------------
(* Type invariant. *)
MemoryTypeOK == TypeOK /\ HeapPool!TypeOK /\ Family!TypeOK

(* The blocks in use of a StaticPool, which begins at a multiple of a      *)
(* word, and of a Pool, whose memory from operator new begins at one of    *)
(* two words; each block as large as do_allocate() admits.                 *)
InUse == {e \in Elements : holder[e] # Nobody}
PoolInUse == {e \in Elements : poolHolder[e] # Nobody}

StaticApart(size, alignment) ==
    LET stride == Layout!SizeofQueueElement(size, alignment)
    IN Layout!Apart(InUse, stride, Layout!AlignedSize(size, alignment), stride * NumElements)

StaticAligned(size, alignment) ==
    Layout!Aligned(InUse, Layout!SizeofQueueElement(size, alignment), Layout!Word, alignment)

PoolApart(size, alignment) ==
    Layout!Apart(PoolInUse, Layout!Stride(size, alignment), Layout!AlignedSize(size, alignment),
                 Layout!MemorySize(size, alignment, NumElements))

PoolAligned(size, alignment) ==
    Layout!Aligned(PoolInUse, Layout!Stride(size, alignment), 2 * Layout!Word, alignment)

(* Blocks that are handed out at the same time share no byte and lie       *)
(* within the pool's memory: those of a Pool for every element size and    *)
(* Alignment, those of a StaticPool if what it admits is whole words or    *)
(* less than one.  They are aligned as Alignment asks if the memory is.    *)
BlocksSound ==
    \A size \in ElementSizes, alignment \in Alignments :
        /\ Layout!WholeWords(size, alignment) => StaticApart(size, alignment)
        /\ Layout!Word % alignment = 0 => StaticAligned(size, alignment)
        /\ PoolApart(size, alignment)
        /\ (2 * Layout!Word) % alignment = 0 => PoolAligned(size, alignment)

(* A block that the assertion of do_allocate() admits, "bytes <=           *)
(* kAlignedElementSize" (StaticPool.hxx:83), does not reach into the next  *)
(* element, whatever the template argument "Alignment requirement"         *)
(* (StaticPool.hxx:32).                                                    *)
AdmittedBlocksApart ==
    \A size \in ElementSizes, alignment \in Alignments : StaticApart(size, alignment)

(* What the ids of signals must be for all classes to be told apart: no    *)
(* two name the same Previous, and the first id of a chain is given to no  *)
(* other class.  The ids of the repository's test are not so.              *)
IdsApart ==
    \A c, d \in Classes :
        /\ Previous[c] = Previous[d] /\ Previous[c] # NoClass => c = d
        /\ Previous[c] = NoClass /\ Family!kId[c] = Family!kId[d] => c = d

(* With such ids FromSignal() casts to the event's own class only.         *)
EveryCastSound ==
    \A e \in Events, c \in Classes :
        (event[e] # nullptr /\ Family!Check(e, c)) => event[e].class = c

(* What the text of the compiler must be for a name to be found: kPrefix   *)
(* ends what comes before the name and is nowhere else in it, kSuffix      *)
(* begins what comes after it and is nowhere else in it.                   *)
TextAsExpected ==
    /\ Before \in Seq(STRING) /\ After \in Seq(STRING) /\ Before # <<>> /\ After # <<>>
    /\ \A i \in 1..Len(Before) : Before[i] = kPrefix <=> i = Len(Before)
    /\ \A i \in 1..Len(After) : After[i] = kSuffix <=> i = 1
    /\ npos \in Nat /\ Len(Before) <= npos
    /\ \A c \in Classes : ClassName[c] \in Seq(STRING) /\ ClassName[c] # <<>>

(* Both pools hand each element to one holder at a time, as Allocator      *)
(* promises.                                                               *)
PoolsImplementAllocator == ImplementsAllocator /\ HeapPool!ImplementsAllocator

(* The properties of the parts, which are stated there: no element of Pool *)
(* is lost or waits twice, the classes of a chain are told apart, a pool   *)
(* outlives its events, and an event's name is that of its class.          *)
EachElementOnce == HeapPool!EachElementOnce
CastSound == Family!CastSound
PoolOutlivesEvents == Family!PoolOutlivesEvents
NameIsTypes == Family!NameIsTypes
=============================================================================
