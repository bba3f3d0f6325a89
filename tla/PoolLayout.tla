----------------------------- MODULE PoolLayout -----------------------------
(***************************************************************************)
(* Where the elements of a Pool and of a StaticPool lie in memory, and how *)
(* many bytes of one do_allocate() admits.  Sizes are in bytes.            *)
(***************************************************************************)
EXTENDS Integers

Word == 8  \* sizeof(uint64_t), and of a pointer

(* element_size_ of Pool, kAlignedElementSize of StaticPool: at least a    *)
(* byte more than asked for.  do_allocate() asserts that a block is not    *)
(* larger.                                                                 *)
AlignedSize(elementSize, alignment) ==
    ((elementSize + alignment) \div alignment) * alignment

Mutant_SizeofQueueElement(elementSize, alignment) ==   \* made for the size asked for
    IF elementSize < Word THEN Word ELSE Word * (elementSize \div Word)

(* sizeof(QueueElement): the union of an array of words and a pointer.     *)
SizeofQueueElement(elementSize, alignment) ==
    LET size == AlignedSize(elementSize, alignment)
    IN IF size < Word THEN Word ELSE Word * (size \div Word)

(* What a StaticPool admits is a number of whole words, or less than one.  *)
WholeWords(elementSize, alignment) ==
    LET size == AlignedSize(elementSize, alignment)
    IN size < Word \/ size % Word = 0

(* Pool: from one element to the next.                                     *)
Stride(elementSize, alignment) == AlignedSize(elementSize, alignment)

(* Pool: pool_mem_.resize().                                               *)
MemorySize(elementSize, alignment, count) == AlignedSize(elementSize, alignment) * count

-----------------------------------------------------------------------------
(* Blocks of up to size bytes at the multiples of stride, one for each of  *)
(* the numbers in used, share no byte and lie within the memory.           *)
Apart(used, stride, size, memory) ==
    \A i \in used :
        /\ (i - 1) * stride + size <= memory
        /\ \A j \in used : i < j => (i - 1) * stride + size <= (j - 1) * stride

(* They are aligned, wherever the memory begins at a multiple of base.     *)
Aligned(used, stride, base, alignment) ==
    used # {} => base % alignment = 0 /\ \A i \in used : ((i - 1) * stride) % alignment = 0
=============================================================================
