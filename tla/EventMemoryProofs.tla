------------------------- MODULE EventMemoryProofs -------------------------
(***************************************************************************)
(* Proofs about EventMemory and StaticPool, which it extends: first        *)
(* StaticPool by itself, for any number of threads and elements, then      *)
(* Pool, the signals with their allocators, ids and names, and all of them *)
(* as one specification.                                                   *)
(*                                                                         *)
(* That the mutex keeps the threads apart is not assumed by the model of   *)
(* StaticPool: it is Locked.  With it only one element at a time is        *)
(* neither in the list nor handed out (Places), and the list and the       *)
(* counter differ by the one operation under way.                          *)
(***************************************************************************)
EXTENDS EventMemory, FiniteSetTheorems, SequenceTheorems, WellFoundedInduction, TLAPS

-----------------------------------------------------------------------------
(* StaticPool.                                                             *)

(* A thread is inside a call when and only when it has locked the mutex.   *)
Locked == \A t \in Threads : pc[t] # "idle" <=> mutex = t

(* What a thread in a call works on is in nobody's hands.                  *)
Places ==
    \A t \in Threads :
        /\ pc[t] = "unlink" => elem[t] = first /\ first \in Elements
        /\ pc[t] \in {"unlink", "decrement"} => fill # 0
        /\ pc[t] \in {"decrement", "link", "push"} =>
              elem[t] \in Elements /\ holder[elem[t]] = Nobody
        /\ pc[t] = "push" => next[elem[t]] = first
        /\ pc[t] = "increment" => elem[t] \in Elements

IInv == TypeOK /\ Locked /\ Places /\ FreeListIntact /\ FillLevelTracks

-----------------------------------------------------------------------------
(* The critical section.                                                   *)

(* The element the thread in the critical section has in its hands, if any.*)
Between ==
    {elem[t] : t \in {u \in Threads : mutex = u /\ pc[u] \in {"decrement", "link", "push"}}}

LEMMA FreeMeaning ==
    TypeOK /\ Locked => Free = {e \in Elements : holder[e] = Nobody} \ Between
BY DEF TypeOK, Locked, Free, InCall, Between

(* Of those in a call there is at most one.                                *)
LEMMA InCallMeaning ==
    ASSUME TypeOK, Locked, NEW k, k # "idle"
    PROVE  /\ \A t \in Threads : pc[t] = k => InCall(k) = {t} /\ Cardinality(InCall(k)) = 1
           /\ (\A t \in Threads : mutex = t => pc[t] # k) => Cardinality(InCall(k)) = 0
<1>1. ASSUME NEW t \in Threads, pc[t] = k
      PROVE  InCall(k) = {t}
  BY <1>1 DEF Locked, InCall
<1>2. ASSUME \A t \in Threads : mutex = t => pc[t] # k
      PROVE  InCall(k) = {}
  BY <1>2 DEF Locked, InCall
<1> QED
  BY <1>1, <1>2, FS_Singleton, FS_EmptySet

LEMMA FreeFinite ==
    IsFiniteSet(Free) /\ Cardinality(Free) \in 0..NumElements
<1>1. IsFiniteSet(Elements) /\ Cardinality(Elements) = NumElements
  BY FS_Interval, NumElementsAssumption DEF Elements
<1>2. Free \in SUBSET Elements
  BY DEF Free
<1> QED
  BY <1>1, <1>2, FS_Subset, FS_CardinalityType, NumElementsAssumption

-----------------------------------------------------------------------------
(* The list.                                                               *)

(* A list as IsFreeList describes it, of n elements: the set of its orders *)
(* is bounded by the number of elements, which follows from the list.      *)
ListOf(n, c) ==
    /\ first = IF n = 0 THEN Null ELSE c[1]
    /\ \A i \in 1..n : next[c[i]] = IF i = n THEN Null ELSE c[i + 1]
    /\ \A i, j \in 1..n : c[i] = c[j] => i = j
    /\ {c[i] : i \in 1..n} = Free

LEMMA ListLength ==
    ASSUME NEW n \in Nat, NEW c \in [1..n -> Elements], ListOf(n, c)
    PROVE  Cardinality(Free) = n
<1>1. c \in [1..n -> Free]
  BY DEF ListOf
<1>2. \A e \in Free : \E i \in 1..n : c[i] = e
  BY DEF ListOf
<1>3. \A i, j \in 1..n : c[i] = c[j] => i = j
  BY DEF ListOf
<1>4. c \in Bijection(1..n, Free)
  BY <1>1, <1>2, <1>3 DEF Bijection, Injection, Surjection, IsInjective
<1> QED
  BY <1>4, FS_CountingElements DEF ExistsBijection

SomeList == \E n \in Nat : \E c \in [1..n -> Elements] : ListOf(n, c)

LEMMA ListIntact == FreeListIntact <=> SomeList
<1>1. ASSUME NEW n \in Nat, NEW c \in [1..n -> Elements]
      PROVE  IsFreeList(c) <=> ListOf(n, c)
  <2>1. DOMAIN c = 1..n /\ Cardinality(1..n) = n
    BY FS_Interval
  <2> QED
    BY <2>1 DEF IsFreeList, ListOf
<1>2. ASSUME FreeListIntact
      PROVE  SomeList
  <2>1. PICK c \in Orders : IsFreeList(c)
    BY <1>2 DEF FreeListIntact
  <2>2. PICK n \in 0..NumElements : c \in [1..n -> Elements]
    BY DEF Orders
  <2>3. n \in Nat
    BY NumElementsAssumption
  <2> QED
    BY <1>1, <2>1, <2>2, <2>3 DEF SomeList
<1>3. ASSUME NEW n \in Nat, NEW c \in [1..n -> Elements], ListOf(n, c)
      PROVE  FreeListIntact
  <2>1. n \in 0..NumElements
    BY <1>3, ListLength, FreeFinite
  <2>2. c \in Orders
    BY <2>1 DEF Orders
  <2> QED
    BY <1>1, <1>3, <2>2 DEF FreeListIntact
<1> QED
  BY <1>2, <1>3 DEF SomeList

(* A step that leaves first_, the free elements and their links alone      *)
(* leaves the list alone.                                                  *)
LEMMA KeepList ==
    ASSUME FreeListIntact, first' = first, Free' = Free,
           \A e \in Free : next'[e] = next[e]
    PROVE  FreeListIntact'
<1>1. PICK n \in Nat : \E c \in [1..n -> Elements] : ListOf(n, c)
  BY ListIntact DEF SomeList
<1>2. PICK c \in [1..n -> Elements] : ListOf(n, c)
  BY <1>1
<1>3. ListOf(n, c)'
  BY <1>2 DEF ListOf
<1>4. (FreeListIntact <=> SomeList)'
  BY ListIntact, PTL
<1> QED
  BY <1>3, <1>4 DEF SomeList

(* Unlinking the first element.                                            *)
LEMMA ShortenList ==
    ASSUME FreeListIntact, first \in Elements, first' = next[first], next' = next,
           Free' = Free \ {first}
    PROVE  FreeListIntact'
<1>1. PICK n \in Nat : \E c \in [1..n -> Elements] : ListOf(n, c)
  BY ListIntact DEF SomeList
<1>2. PICK c \in [1..n -> Elements] : ListOf(n, c)
  BY <1>1
<1>3. n # 0 /\ n - 1 \in Nat /\ first = c[1]
  BY <1>2 DEF ListOf, Elements, Null
<1> DEFINE d == [i \in 1..(n - 1) |-> c[i + 1]]
<1>4. d \in [1..(n - 1) -> Elements]
  BY <1>3
<1>5. first' = IF n - 1 = 0 THEN Null ELSE d[1]
  BY <1>2, <1>3 DEF ListOf
<1>6. \A i \in 1..(n - 1) : next'[d[i]] = IF i = n - 1 THEN Null ELSE d[i + 1]
  BY <1>2, <1>3 DEF ListOf
<1>7. \A i, j \in 1..(n - 1) : d[i] = d[j] => i = j
  BY <1>2, <1>3 DEF ListOf
<1>8. {d[i] : i \in 1..(n - 1)} = Free'
  <2>1. ASSUME NEW i \in 1..(n - 1) PROVE d[i] \in Free'
    BY <1>2, <1>3 DEF ListOf
  <2>2. ASSUME NEW e \in Free' PROVE \E i \in 1..(n - 1) : d[i] = e
    <3>1. PICK j \in 1..n : c[j] = e
      BY <1>2 DEF ListOf
    <3>2. j # 1
      BY <1>3, <3>1
    <3>3. j - 1 \in 1..(n - 1) /\ d[j - 1] = e
      BY <3>1, <3>2
    <3> QED
      BY <3>3
  <2> QED
    BY <2>1, <2>2
<1>9. ListOf(n - 1, d)'
  BY <1>5, <1>6, <1>7, <1>8 DEF ListOf
<1>10. (FreeListIntact <=> SomeList)'
  BY ListIntact, PTL
<1> QED
  BY <1>3, <1>4, <1>9, <1>10 DEF SomeList

(* Pushing an element that is linked to the first one.                     *)
LEMMA LengthenList ==
    ASSUME FreeListIntact, NEW e \in Elements, e \notin Free, next[e] = first,
           first' = e, next' = next, Free' = Free \cup {e}
    PROVE  FreeListIntact'
<1>1. PICK n \in Nat : \E c \in [1..n -> Elements] : ListOf(n, c)
  BY ListIntact DEF SomeList
<1>2. PICK c \in [1..n -> Elements] : ListOf(n, c)
  BY <1>1
<1> DEFINE d == [i \in 1..(n + 1) |-> IF i = 1 THEN e ELSE c[i - 1]]
<1>3. n + 1 \in Nat /\ d \in [1..(n + 1) -> Elements]
  OBVIOUS
<1>4. first' = d[1] /\ n + 1 # 0
  OBVIOUS
<1>5. ASSUME NEW i \in 1..(n + 1)
      PROVE  next'[d[i]] = IF i = n + 1 THEN Null ELSE d[i + 1]
  <2>1. CASE i = 1
    BY <1>2, <2>1 DEF ListOf
  <2>2. CASE i # 1
    <3>1. i - 1 \in 1..n /\ d[i] = c[i - 1] /\ (i # n + 1 => d[i + 1] = c[i])
      BY <2>2
    <3> QED
      BY <1>2, <3>1 DEF ListOf
  <2> QED
    BY <2>1, <2>2
<1>6. ASSUME NEW i \in 1..(n + 1), i # 1
      PROVE  i - 1 \in 1..n /\ d[i] = c[i - 1] /\ d[i] \in Free /\ d[i] # e
  BY <1>2, <1>6 DEF ListOf
<1>7. \A i, j \in 1..(n + 1) : d[i] = d[j] => i = j
  <2>1. ASSUME NEW i \in 1..(n + 1), NEW j \in 1..(n + 1), i # 1, j # 1, d[i] = d[j]
        PROVE  i = j
    <3>1. c[i - 1] = c[j - 1] /\ i - 1 \in 1..n /\ j - 1 \in 1..n
      BY <1>6, <2>1
    <3>2. i - 1 = j - 1
      BY <1>2, <3>1 DEF ListOf
    <3> QED
      BY <3>2
  <2>2. d[1] = e
    OBVIOUS
  <2> QED
    BY <1>6, <2>1, <2>2
<1>8. {d[i] : i \in 1..(n + 1)} = Free'
  <2>1. ASSUME NEW i \in 1..(n + 1) PROVE d[i] \in Free'
    <3>1. CASE i = 1
      BY <3>1
    <3>2. CASE i # 1
      BY <1>6, <3>2
    <3> QED
      BY <3>1, <3>2
  <2>2. ASSUME NEW g \in Free' PROVE \E i \in 1..(n + 1) : d[i] = g
    <3>1. CASE g = e
      BY <3>1
    <3>2. CASE g # e
      <4>1. PICK j \in 1..n : c[j] = g
        BY <1>2, <3>2 DEF ListOf
      <4>2. j + 1 \in 1..(n + 1) /\ d[j + 1] = g
        BY <4>1
      <4> QED
        BY <4>2
    <3> QED
      BY <3>1, <3>2
  <2> QED
    BY <2>1, <2>2
<1> HIDE DEF d
<1>9. ListOf(n + 1, d)'
  BY <1>4, <1>5, <1>7, <1>8 DEF ListOf
<1>10. (FreeListIntact <=> SomeList)'
  BY ListIntact, PTL
<1> QED
  BY <1>3, <1>9, <1>10 DEF SomeList

-----------------------------------------------------------------------------
(* The steps.                                                              *)

(* The counter, whether or not a thread is in the critical section.        *)
Counted ==
    fill + (IF \E t \in Threads : pc[t] = "increment" THEN 1 ELSE 0)
        = Cardinality(Free) + (IF \E t \in Threads : pc[t] = "decrement" THEN 1 ELSE 0)

LEMMA FillMeaning == TypeOK /\ Locked => (FillLevelTracks <=> Counted)
<1> SUFFICES ASSUME TypeOK, Locked PROVE FillLevelTracks <=> Counted
  OBVIOUS
<1>1. Cardinality(InCall("increment"))
         = IF \E t \in Threads : pc[t] = "increment" THEN 1 ELSE 0
  BY InCallMeaning
<1>2. Cardinality(InCall("decrement"))
         = IF \E t \in Threads : pc[t] = "decrement" THEN 1 ELSE 0
  BY InCallMeaning
<1> QED
  BY <1>1, <1>2 DEF FillLevelTracks, Counted

LEMMA InitIInv == Init => IInv
<1> SUFFICES ASSUME Init PROVE IInv
  OBVIOUS
<1>1. TypeOK
  BY NumElementsAssumption DEF Init, TypeOK, Elements, Null
<1>2. Locked /\ Places
  BY NobodyAssumption DEF Init, Locked, Places
<1>3. Free = Elements
  BY <1>1, <1>2, FreeMeaning DEF Init, Between
<1>4. FreeListIntact
  <2> DEFINE c == [i \in 1..NumElements |-> i]
  <2>1. NumElements \in Nat /\ c \in [1..NumElements -> Elements]
    BY NumElementsAssumption DEF Elements
  <2>2. {c[i] : i \in 1..NumElements} = Free
    BY <1>3 DEF Elements
  <2>3. \A i \in 1..NumElements : next[c[i]] = IF i = NumElements THEN Null ELSE c[i + 1]
    BY NumElementsAssumption DEF Init, Elements
  <2>4. ListOf(NumElements, c)
    BY <2>2, <2>3, NumElementsAssumption DEF ListOf, Init
  <2> QED
    BY <2>1, <2>4, ListIntact DEF SomeList
<1>5. FillLevelTracks
  <2>1. Cardinality(Free) = NumElements
    BY <1>3, FS_Interval, NumElementsAssumption DEF Elements
  <2>2. \A t \in Threads : pc[t] # "increment" /\ pc[t] # "decrement"
    BY DEF Init
  <2> QED
    BY <1>1, <1>2, <2>1, <2>2, FillMeaning, NumElementsAssumption DEF Init, Counted
<1> QED
  BY <1>1, <1>2, <1>4, <1>5 DEF IInv

(* The thread t goes on from one place of a call to another, and nobody    *)
(* else is in one.                                                         *)
LEMMA GotoMeaning ==
    ASSUME IInv, NEW t \in Threads, NEW from, NEW to, Goto(t, from, to),
           from # "idle" \/ mutex = Nobody
    PROVE  /\ \A u \in Threads : pc'[u] = IF u = t THEN to ELSE "idle"
           /\ \A u \in Threads : pc[u] = IF u = t THEN from ELSE "idle"
           /\ from # "idle" => mutex = t
BY NobodyAssumption DEF IInv, TypeOK, Locked, Goto

LEMMA StepTyped ==
    ASSUME IInv, [Next]_vars
    PROVE  TypeOK' /\ Locked' /\ Places'
<1> USE DEF IInv
<1>1. ASSUME NEW t \in Threads, EnterAllocate(t) PROVE TypeOK' /\ Locked' /\ Places'
  <2>1. /\ \A u \in Threads : pc'[u] = IF u = t THEN "take" ELSE "idle"
        /\ mutex = Nobody
    BY <1>1, GotoMeaning DEF EnterAllocate, Lock
  <2>2. TypeOK'
    BY <1>1 DEF EnterAllocate, Lock, TypeOK, Goto
  <2> QED
    BY <1>1, <2>1, <2>2 DEF EnterAllocate, Lock, Locked, Places
<1>2. ASSUME NEW t \in Threads, TakeFirst(t) PROVE TypeOK' /\ Locked' /\ Places'
  <2>1. /\ \A u \in Threads : pc'[u] = IF u = t THEN "unlink" ELSE "idle"
        /\ \A u \in Threads : pc[u] = IF u = t THEN "take" ELSE "idle"
        /\ mutex = t
    BY <1>2, GotoMeaning DEF TakeFirst
  <2>2. TypeOK'
    BY <1>2 DEF TakeFirst, TypeOK, Goto
  <2>3. first \in Elements
    <3>1. Cardinality(Free) # 0
      BY <1>2, <2>1, FillMeaning, FreeFinite DEF TakeFirst, TypeOK, Counted
    <3>2. PICK n \in Nat : \E c \in [1..n -> Elements] : ListOf(n, c)
      BY ListIntact DEF SomeList
    <3>3. PICK c \in [1..n -> Elements] : ListOf(n, c)
      BY <3>2
    <3>4. n # 0
      BY <3>1, <3>3, ListLength
    <3> QED
      BY <3>3, <3>4 DEF ListOf
  <2> QED
    BY <1>2, <2>1, <2>2, <2>3 DEF TakeFirst, Locked, Places, TypeOK
<1>3. ASSUME NEW t \in Threads, Unlink(t) PROVE TypeOK' /\ Locked' /\ Places'
  <2>1. /\ \A u \in Threads : pc'[u] = IF u = t THEN "decrement" ELSE "idle"
        /\ \A u \in Threads : pc[u] = IF u = t THEN "unlink" ELSE "idle"
        /\ mutex = t /\ elem[t] = first /\ first \in Elements /\ fill # 0
    BY <1>3, GotoMeaning DEF Unlink, Places
  <2>2. PICK n \in Nat : \E c \in [1..n -> Elements] : ListOf(n, c)
    BY ListIntact DEF SomeList
  <2>3. PICK c \in [1..n -> Elements] : ListOf(n, c)
    BY <2>2
  <2>4. n # 0 /\ first = c[1]
    BY <2>1, <2>3 DEF ListOf, Elements, Null
  <2>5. first' \in Elements \cup {Null} /\ holder[elem[t]] = Nobody
    <3>1. next[c[1]] = IF 1 = n THEN Null ELSE c[2]
      BY <2>3, <2>4 DEF ListOf
    <3>2. first \in Free
      BY <2>3, <2>4 DEF ListOf
    <3> QED
      BY <1>3, <2>1, <2>4, <3>1, <3>2 DEF Unlink, Free
  <2>6. TypeOK'
    BY <1>3, <2>5 DEF Unlink, TypeOK, Goto
  <2> QED
    BY <1>3, <2>1, <2>5, <2>6 DEF Unlink, Locked, Places, TypeOK
<1>4. ASSUME NEW t \in Threads, Decrement(t) PROVE TypeOK' /\ Locked' /\ Places'
  <2>1. /\ \A u \in Threads : pc'[u] = "idle"
        /\ fill # 0 /\ elem[t] \in Elements
    BY <1>4, GotoMeaning DEF Decrement, Places
  <2>2. TypeOK'
    BY <1>4, <2>1, NumElementsAssumption DEF Decrement, Unlock, TypeOK, Goto
  <2> QED
    BY <1>4, <2>1, <2>2, NobodyAssumption DEF Decrement, Unlock, Locked, Places, TypeOK
<1>5. ASSUME NEW e \in Elements, Use(e) PROVE TypeOK' /\ Locked' /\ Places'
  <2>1. TypeOK'
    BY <1>5 DEF Use, TypeOK
  <2> QED
    BY <1>5, <2>1 DEF Use, Locked, Places, TypeOK
<1>6. ASSUME NEW t \in Threads, NEW e \in Elements, EnterDeallocate(t, e)
      PROVE  TypeOK' /\ Locked' /\ Places'
  <2>1. /\ \A u \in Threads : pc'[u] = IF u = t THEN "link" ELSE "idle"
        /\ mutex = Nobody
    BY <1>6, GotoMeaning DEF EnterDeallocate, Lock
  <2>2. TypeOK'
    BY <1>6 DEF EnterDeallocate, Lock, TypeOK, Goto
  <2>3. elem'[t] = e /\ holder'[e] = Nobody /\ mutex' = t
    BY <1>6 DEF EnterDeallocate, Lock, TypeOK
  <2> QED
    BY <2>1, <2>2, <2>3 DEF Locked, Places
<1>7. ASSUME NEW t \in Threads, Link(t) PROVE TypeOK' /\ Locked' /\ Places'
  <2>1. /\ \A u \in Threads : pc'[u] = IF u = t THEN "push" ELSE "idle"
        /\ \A u \in Threads : pc[u] = IF u = t THEN "link" ELSE "idle"
        /\ mutex = t /\ elem[t] \in Elements /\ holder[elem[t]] = Nobody
    BY <1>7, GotoMeaning DEF Link, Places
  <2>2. TypeOK'
    BY <1>7, <2>1 DEF Link, TypeOK, Goto
  <2>3. next'[elem'[t]] = first'
    BY <1>7, <2>1 DEF Link, TypeOK
  <2> QED
    BY <1>7, <2>1, <2>2, <2>3 DEF Link, Locked, Places, TypeOK
<1>8. ASSUME NEW t \in Threads, Push(t) PROVE TypeOK' /\ Locked' /\ Places'
  <2>1. /\ \A u \in Threads : pc'[u] = IF u = t THEN "increment" ELSE "idle"
        /\ \A u \in Threads : pc[u] = IF u = t THEN "push" ELSE "idle"
        /\ mutex = t /\ elem[t] \in Elements
    BY <1>8, GotoMeaning DEF Push, Places
  <2>2. TypeOK'
    BY <1>8, <2>1 DEF Push, TypeOK, Goto
  <2> QED
    BY <1>8, <2>1, <2>2 DEF Push, Locked, Places, TypeOK
<1>9. ASSUME NEW t \in Threads, Increment(t) PROVE TypeOK' /\ Locked' /\ Places'
  <2>1. /\ \A u \in Threads : pc'[u] = "idle"
        /\ \A u \in Threads : pc[u] = IF u = t THEN "increment" ELSE "idle"
        /\ elem[t] \in Elements
    BY <1>9, GotoMeaning DEF Increment, Places
  <2>2. fill + 1 = Cardinality(Free)
    BY <2>1, FillMeaning, FreeFinite DEF TypeOK, Counted
  <2>3. TypeOK'
    BY <1>9, <2>1, <2>2, FreeFinite DEF Increment, Unlock, TypeOK, Goto
  <2> QED
    BY <1>9, <2>1, <2>3, NobodyAssumption DEF Increment, Unlock, Locked, Places, TypeOK
<1>10. CASE UNCHANGED vars
  BY <1>10 DEF vars, TypeOK, Locked, Places
<1> QED
  BY <1>1, <1>2, <1>3, <1>4, <1>5, <1>6, <1>7, <1>8, <1>9, <1>10 DEF Next

(* The free elements after a step of thread t.                             *)
FreeAt(t) ==
    {e \in Elements : holder[e] = Nobody} \
        (IF pc[t] \in {"decrement", "link", "push"} THEN {elem[t]} ELSE {})

LEMMA FreeAlone ==
    ASSUME NEW t \in Threads
    PROVE  (\A u \in Threads : u # t => pc[u] = "idle") => Free = FreeAt(t)
BY DEF Free, InCall, FreeAt

LEMMA StepList ==
    ASSUME IInv, [Next]_vars
    PROVE  FreeListIntact' /\ Counted'
<1> USE DEF IInv
<1>1. TypeOK' /\ Locked' /\ Places'
  BY StepTyped
<1>2. Counted
  BY FillMeaning
<1> DEFINE Alone(t) == \A u \in Threads : u # t => pc[u] = "idle" /\ pc'[u] = "idle"
<1>3. ASSUME NEW t \in Threads, Alone(t)
      PROVE  Free = FreeAt(t) /\ Free' = FreeAt(t)'
  <2>1. \A u \in Threads : u # t => pc[u] = "idle"
    BY <1>3
  <2>2. (\A u \in Threads : u # t => pc[u] = "idle")'
    BY <1>3
  <2>3. ((\A u \in Threads : u # t => pc[u] = "idle") => Free = FreeAt(t))'
    BY FreeAlone, PTL
  <2> QED
    BY <2>1, <2>2, <2>3, FreeAlone
<1>4. ASSUME NEW t \in Threads, EnterAllocate(t) PROVE FreeListIntact' /\ Counted'
  <2>1. /\ \A u \in Threads : pc'[u] = IF u = t THEN "take" ELSE "idle"
        /\ \A u \in Threads : pc[u] = IF u = t THEN "idle" ELSE "idle"
    BY <1>4, GotoMeaning DEF EnterAllocate, Lock
  <2>2. Free' = Free
    BY <1>3, <1>4, <2>1 DEF FreeAt, EnterAllocate
  <2> QED
    BY <1>2, <1>4, <2>1, <2>2, KeepList DEF EnterAllocate, Counted
<1>5. ASSUME NEW t \in Threads, TakeFirst(t) PROVE FreeListIntact' /\ Counted'
  <2>1. /\ \A u \in Threads : pc'[u] = IF u = t THEN "unlink" ELSE "idle"
        /\ \A u \in Threads : pc[u] = IF u = t THEN "take" ELSE "idle"
    BY <1>5, GotoMeaning DEF TakeFirst
  <2>2. Free' = Free
    BY <1>3, <1>5, <2>1 DEF FreeAt, TakeFirst
  <2> QED
    BY <1>2, <1>5, <2>1, <2>2, KeepList DEF TakeFirst, Counted
<1>6. ASSUME NEW t \in Threads, Unlink(t) PROVE FreeListIntact' /\ Counted'
  <2>1. /\ \A u \in Threads : pc'[u] = IF u = t THEN "decrement" ELSE "idle"
        /\ \A u \in Threads : pc[u] = IF u = t THEN "unlink" ELSE "idle"
        /\ elem[t] = first /\ first \in Elements /\ holder'[elem'[t]] = Nobody
    BY <1>1, <1>6, GotoMeaning DEF Unlink, Places
  <2>2. Free' = Free \ {first} /\ first \in Free
    BY <1>3, <1>6, <2>1 DEF FreeAt, Unlink
  <2>3. Cardinality(Free') = Cardinality(Free) - 1
    BY <2>2, FreeFinite, FS_RemoveElement
  <2>4. FreeListIntact'
    BY <1>6, <2>1, <2>2, ShortenList DEF Unlink
  <2> QED
    BY <1>2, <1>6, <2>1, <2>3, <2>4, FreeFinite DEF Unlink, Counted, TypeOK
<1>7. ASSUME NEW t \in Threads, Decrement(t) PROVE FreeListIntact' /\ Counted'
  <2>1. /\ \A u \in Threads : pc'[u] = IF u = t THEN "idle" ELSE "idle"
        /\ \A u \in Threads : pc[u] = IF u = t THEN "decrement" ELSE "idle"
        /\ elem[t] \in Elements /\ holder[elem[t]] = Nobody
    BY <1>7, GotoMeaning DEF Decrement, Places
  <2>2. Free' = Free
    BY <1>3, <1>7, <2>1, NobodyAssumption DEF FreeAt, Decrement, TypeOK
  <2> QED
    BY <1>2, <1>7, <2>1, <2>2, KeepList, FreeFinite DEF Decrement, Counted, TypeOK
<1>8. ASSUME NEW e \in Elements, Use(e) PROVE FreeListIntact' /\ Counted'
  <2>1. Free' = Free /\ e \notin Free
    BY <1>8 DEF Use, Free, InCall
  <2>2. \A f \in Free : next'[f] = next[f]
    BY <1>8, <2>1 DEF Use, TypeOK
  <2> QED
    BY <1>2, <1>8, <2>1, <2>2, KeepList DEF Use, Counted
<1>9. ASSUME NEW t \in Threads, NEW e \in Elements, EnterDeallocate(t, e)
      PROVE  FreeListIntact' /\ Counted'
  <2>1. /\ \A u \in Threads : pc'[u] = IF u = t THEN "link" ELSE "idle"
        /\ \A u \in Threads : pc[u] = IF u = t THEN "idle" ELSE "idle"
    BY <1>9, GotoMeaning DEF EnterDeallocate, Lock
  <2>2. Free' = Free
    BY <1>3, <1>9, <2>1 DEF FreeAt, EnterDeallocate, TypeOK
  <2> QED
    BY <1>2, <1>9, <2>1, <2>2, KeepList DEF EnterDeallocate, Counted
<1>10. ASSUME NEW t \in Threads, Link(t) PROVE FreeListIntact' /\ Counted'
  <2>1. /\ \A u \in Threads : pc'[u] = IF u = t THEN "push" ELSE "idle"
        /\ \A u \in Threads : pc[u] = IF u = t THEN "link" ELSE "idle"
    BY <1>10, GotoMeaning DEF Link
  <2>2. Free' = Free /\ elem[t] \notin Free
    BY <1>3, <1>10, <2>1 DEF FreeAt, Link
  <2>3. \A f \in Free : next'[f] = next[f]
    BY <1>10, <2>2 DEF Link, TypeOK, Free
  <2> QED
    BY <1>2, <1>10, <2>1, <2>2, <2>3, KeepList DEF Link, Counted
<1>11. ASSUME NEW t \in Threads, Push(t) PROVE FreeListIntact' /\ Counted'
  <2>1. /\ \A u \in Threads : pc'[u] = IF u = t THEN "increment" ELSE "idle"
        /\ \A u \in Threads : pc[u] = IF u = t THEN "push" ELSE "idle"
        /\ elem[t] \in Elements /\ holder[elem[t]] = Nobody /\ next[elem[t]] = first
    BY <1>11, GotoMeaning DEF Push, Places
  <2>2. Free' = Free \cup {elem[t]} /\ elem[t] \notin Free
    BY <1>3, <1>11, <2>1 DEF FreeAt, Push
  <2>3. Cardinality(Free') = Cardinality(Free) + 1
    BY <2>2, FreeFinite, FS_AddElement
  <2>4. FreeListIntact'
    BY <1>11, <2>1, <2>2, LengthenList DEF Push
  <2> QED
    BY <1>2, <1>11, <2>1, <2>3, <2>4, FreeFinite DEF Push, Counted, TypeOK
<1>12. ASSUME NEW t \in Threads, Increment(t) PROVE FreeListIntact' /\ Counted'
  <2>1. /\ \A u \in Threads : pc'[u] = IF u = t THEN "idle" ELSE "idle"
        /\ \A u \in Threads : pc[u] = IF u = t THEN "increment" ELSE "idle"
    BY <1>12, GotoMeaning DEF Increment
  <2>2. Free' = Free
    BY <1>3, <1>12, <2>1 DEF FreeAt, Increment
  <2> QED
    BY <1>2, <1>12, <2>1, <2>2, KeepList, FreeFinite DEF Increment, Counted, TypeOK
<1>13. CASE UNCHANGED vars
  <2>1. Free' = Free
    BY <1>13 DEF vars, Free, InCall
  <2> QED
    BY <1>2, <1>13, <2>1, KeepList DEF vars, Counted
<1> QED
  BY <1>4, <1>5, <1>6, <1>7, <1>8, <1>9, <1>10, <1>11, <1>12, <1>13 DEF Next

LEMMA NextIInv == IInv /\ [Next]_vars => IInv'
<1> SUFFICES ASSUME IInv, [Next]_vars PROVE IInv'
  OBVIOUS
<1>1. TypeOK' /\ Locked' /\ Places' /\ FreeListIntact' /\ Counted'
  BY StepTyped, StepList
<1>2. (TypeOK /\ Locked => (FillLevelTracks <=> Counted))'
  BY FillMeaning, PTL
<1> QED
  BY <1>1, <1>2 DEF IInv

(* The variables of the pool keep their types: first_ and the counter are  *)
(* in range, whoever calls.                                                *)
THEOREM TypeCorrect == Spec => []TypeOK
<1>1. IInv => TypeOK
  BY DEF IInv
<1> QED
  BY <1>1, InitIInv, NextIInv, PTL DEF Spec

(* The mutex keeps the threads apart: no two are inside do_allocate() or   *)
(* do_deallocate() at once.                                                *)
THEOREM MutualExclusion ==
    Spec => [](\A t, u \in Threads : pc[t] # "idle" /\ pc[u] # "idle" => t = u)
<1>1. IInv => \A t, u \in Threads : pc[t] # "idle" /\ pc[u] # "idle" => t = u
  BY DEF IInv, Locked
<1> QED
  BY <1>1, InitIInv, NextIInv, PTL DEF Spec

(* The list holds each free element once and no other, between any two     *)
(* steps, whatever the users write to the elements they hold.              *)
THEOREM FreeListStaysIntact == Spec => []FreeListIntact
<1>1. IInv => FreeListIntact
  BY DEF IInv
<1> QED
  BY <1>1, InitIInv, NextIInv, PTL DEF Spec

(* FillLevel() is at most one operation away from the length of the list.  *)
THEOREM FillLevelKeepsTrack == Spec => []FillLevelTracks
<1>1. IInv => FillLevelTracks
  BY DEF IInv
<1> QED
  BY <1>1, InitIInv, NextIInv, PTL DEF Spec

(* No element is handed to a second holder before the first returns it.    *)
THEOREM RefinesAllocator == Spec => ImplementsAllocator
<1>1. Init => Promise!Init
  BY DEF Init, Promise!Init
<1>2. IInv /\ [Next]_vars => [Promise!Next]_holder
  <2> SUFFICES ASSUME IInv, Next, holder' # holder PROVE Promise!Next
    BY DEF vars
  <2>1. ASSUME NEW t \in Threads, Decrement(t) PROVE Promise!Next
    <3>1. elem[t] \in Elements /\ holder[elem[t]] = Nobody
      BY <2>1 DEF IInv, Places, Decrement, Goto
    <3> QED
      BY <2>1, <3>1 DEF Decrement, Promise!Next, Promise!Allocate
  <2>2. ASSUME NEW t \in Threads, NEW e \in Elements, EnterDeallocate(t, e)
        PROVE  Promise!Next
    BY <2>2 DEF EnterDeallocate, Promise!Next, Promise!Deallocate
  <2> QED
    BY <2>1, <2>2
       DEF Next, EnterAllocate, TakeFirst, Unlink, Use, Link, Push, Increment
<1> QED
  BY <1>1, <1>2, InitIInv, NextIInv, PTL DEF Spec, ImplementsAllocator, Promise!Spec

-----------------------------------------------------------------------------
(* Pool.                                                                   *)

(* The queue holds each free element at one place and no other element.    *)
WaitsOnce ==
    /\ \A i, j \in 1..Len(pool) : pool[i] = pool[j] => i = j
    /\ \A e \in Elements :
          poolHolder[e] = Nobody <=> \E i \in 1..Len(pool) : pool[i] = e

PoolInv == HeapPool!TypeOK /\ WaitsOnce

LEMMA InitPoolInv == HeapPool!Init => PoolInv
<1> SUFFICES ASSUME HeapPool!Init PROVE PoolInv
  OBVIOUS
<1> USE DEF HeapPool!Init, HeapPool!Elements, Elements
<1>1. /\ pool \in Seq(Elements) /\ Len(pool) = NumElements
      /\ \A i \in 1..NumElements : pool[i] = i
  <2>1. pool \in [1..NumElements -> Elements] /\ NumElements \in Nat
    BY NumElementsAssumption
  <2> QED
    BY <2>1
<1> QED
  BY <1>1 DEF PoolInv, WaitsOnce, HeapPool!TypeOK

LEMMA TailFacts ==
    ASSUME NEW S, NEW s \in Seq(S), s # <<>>
    PROVE  /\ Len(s) \in Nat /\ Len(s) > 0 /\ Head(s) = s[1] /\ s[1] \in S
           /\ Tail(s) \in Seq(S) /\ Len(Tail(s)) = Len(s) - 1
           /\ \A i \in 1..Len(Tail(s)) : Tail(s)[i] = s[i + 1]
<1>1. Len(s) \in Nat /\ Len(s) > 0
  BY EmptySeq
<1>2. Head(s) = s[1] /\ s[1] \in S
  BY <1>1
<1> QED
  BY <1>1, <1>2, HeadTailProperties

LEMMA AppendFacts ==
    ASSUME NEW S, NEW s \in Seq(S), NEW e \in S
    PROVE  /\ Len(s) \in Nat
           /\ Append(s, e) \in Seq(S) /\ Len(Append(s, e)) = Len(s) + 1
           /\ \A i \in 1..Len(s) : Append(s, e)[i] = s[i]
           /\ Append(s, e)[Len(s) + 1] = e
BY AppendProperties, LenProperties

LEMMA NextPoolInv ==
    PoolInv /\ [HeapPool!Next]_poolVars => PoolInv'
<1> SUFFICES ASSUME PoolInv, [HeapPool!Next]_poolVars PROVE PoolInv'
  OBVIOUS
<1>0. HeapPool!Elements = Elements
  BY DEF HeapPool!Elements, Elements
<1> USE <1>0 DEF PoolInv, WaitsOnce, HeapPool!TypeOK
<1>1. ASSUME NEW t \in Threads, HeapPool!Allocate(t) PROVE PoolInv'
  <2>1. /\ Len(pool) \in Nat /\ Len(pool) > 0 /\ Head(pool) = pool[1] /\ pool[1] \in Elements
        /\ pool' \in Seq(Elements) /\ Len(pool') = Len(pool) - 1
        /\ \A i \in 1..Len(pool') : pool'[i] = pool[i + 1]
    <3>1. pool \in Seq(Elements) /\ pool # <<>> /\ pool' = Tail(pool)
      BY <1>1 DEF HeapPool!Allocate
    <3> QED
      BY <3>1, TailFacts
  <2>2. /\ poolHolder' \in [Elements -> Threads \cup {Nobody}]
        /\ \A e \in Elements : poolHolder'[e] = IF e = pool[1] THEN t ELSE poolHolder[e]
    BY <1>1, <2>1 DEF HeapPool!Allocate
  <2>3. \A i, j \in 1..Len(pool') : pool'[i] = pool'[j] => i = j
    BY <2>1
  <2>4. ASSUME NEW e \in Elements
        PROVE  poolHolder'[e] = Nobody <=> \E i \in 1..Len(pool') : pool'[i] = e
    <3>1. CASE e = pool[1]
      BY <2>1, <2>2, <3>1, NobodyAssumption
    <3>2. CASE e # pool[1]
      <4>1. ASSUME NEW i \in 1..Len(pool), pool[i] = e
            PROVE  i - 1 \in 1..Len(pool') /\ pool'[i - 1] = e
        BY <2>1, <3>2, <4>1
      <4>2. ASSUME NEW i \in 1..Len(pool'), pool'[i] = e
            PROVE  i + 1 \in 1..Len(pool) /\ pool[i + 1] = e
        BY <2>1, <4>2
      <4> QED
        BY <2>2, <3>2, <4>1, <4>2
    <3> QED
      BY <3>1, <3>2
  <2> QED
    BY <2>1, <2>2, <2>3, <2>4
<1>2. ASSUME NEW e \in Elements, HeapPool!Deallocate(e) PROVE PoolInv'
  <2>1. /\ Len(pool) \in Nat
        /\ pool' \in Seq(Elements) /\ Len(pool') = Len(pool) + 1
        /\ \A i \in 1..Len(pool) : pool'[i] = pool[i]
        /\ pool'[Len(pool) + 1] = e
    <3>1. pool \in Seq(Elements) /\ pool' = Append(pool, e)
      BY <1>2 DEF HeapPool!Deallocate
    <3> QED
      BY <3>1, AppendFacts
  <2>2. /\ poolHolder' \in [Elements -> Threads \cup {Nobody}]
        /\ \A f \in Elements : poolHolder'[f] = IF f = e THEN Nobody ELSE poolHolder[f]
    BY <1>2 DEF HeapPool!Deallocate
  <2>3. \A i \in 1..Len(pool) : pool[i] # e
    BY <1>2 DEF HeapPool!Deallocate
  <2>4. \A i, j \in 1..Len(pool') : pool'[i] = pool'[j] => i = j
    BY <2>1, <2>3
  <2>5. ASSUME NEW f \in Elements
        PROVE  poolHolder'[f] = Nobody <=> \E i \in 1..Len(pool') : pool'[i] = f
    <3>1. CASE f = e
      BY <2>1, <2>2, <3>1
    <3>2. CASE f # e
      <4>1. \A i \in 1..Len(pool') : pool'[i] = f => i \in 1..Len(pool) /\ pool[i] = f
        BY <2>1, <3>2
      <4>2. \A i \in 1..Len(pool) : i \in 1..Len(pool') /\ pool'[i] = pool[i]
        BY <2>1
      <4> QED
        BY <2>2, <3>2, <4>1, <4>2
    <3> QED
      BY <3>1, <3>2
  <2> QED
    BY <2>1, <2>2, <2>4, <2>5
<1>3. CASE UNCHANGED poolVars
  BY <1>3 DEF poolVars
<1> QED
  BY <1>1, <1>2, <1>3 DEF HeapPool!Next

(* Module Pool's Cardinality is that of FiniteSets.                        *)
LEMMA SameCardinality == \A S : HeapPool!Cardinality(S) = Cardinality(S)
BY DEF HeapPool!Cardinality, Cardinality

LEMMA PoolInvMeans == PoolInv => EachElementOnce
<1> SUFFICES ASSUME PoolInv, NEW e \in Elements
             PROVE  Cardinality({i \in 1..Len(pool) : pool[i] = e})
                        = IF poolHolder[e] = Nobody THEN 1 ELSE 0
  BY SameCardinality DEF EachElementOnce, HeapPool!EachElementOnce, HeapPool!Elements, Elements
<1> DEFINE places == {i \in 1..Len(pool) : pool[i] = e}
<1>1. CASE poolHolder[e] = Nobody
  <2>1. PICK i \in 1..Len(pool) : places = {i}
    BY <1>1 DEF PoolInv, WaitsOnce
  <2> QED
    BY <1>1, <2>1, FS_Singleton
<1>2. CASE poolHolder[e] # Nobody
  <2>1. places = {}
    BY <1>2 DEF PoolInv, WaitsOnce
  <2> QED
    BY <1>2, <2>1, FS_EmptySet
<1> QED
  BY <1>1, <1>2

-----------------------------------------------------------------------------
(* The ids of signals.                                                     *)

LEMMA NatSetInduction ==
    ASSUME NEW S \in SUBSET Nat, 0 \in S, \A n \in S : n + 1 \in S
    PROVE  S = Nat
<1>1. SUFFICES ASSUME Nat \ S # {} PROVE FALSE
  BY <1>1
<1>2. PICK n \in Nat \ S : \A m \in Nat \ S : <<m, n>> \notin OpToRel(<, Nat)
  BY <1>1, WFMin, NatLessThanWellFounded, Zenon
<1>3. n # 0 /\ n - 1 \in Nat /\ n - 1 < n
  OBVIOUS
<1>4. n - 1 \in Nat \ S
  BY <1>3
<1>5. <<n - 1, n>> \in OpToRel(<, Nat)
  BY <1>3 DEF OpToRel
<1> QED
  BY <1>2, <1>4, <1>5

(* What the declaration of a class makes of the ids of the other classes.  *)
Declares(id, c) ==
    IF Previous[c] = NoClass THEN FirstId[c] ELSE Family!NextId(id[Previous[c]])

(* The order of declaration, in which the ids are given.                   *)
IsOrder(declared) ==
    \A c \in Classes : Previous[c] # NoClass =>
        Previous[c] \in Classes /\ declared[Previous[c]] < declared[c]

(* There are ids as the declarations ask for, and they are numbers.        *)
LEMMA IdsExist ==
    \E id : id = [c \in Classes |-> Declares(id, c)]
<1>1. PICK declared \in [Classes -> 1..Cardinality(Classes)] : IsOrder(declared)
  BY ChainAssumption DEF IsOrder
<1>2. Cardinality(Classes) \in Nat
  BY FS_CardinalityType, ChainAssumption
<1> DEFINE Right(n) ==
               \E id \in [Classes -> Nat] :
                   \A c \in Classes : declared[c] <= n => id[c] = Declares(id, c)
           S == {n \in Nat : Right(n)}
<1>3. 0 \in S
  <2>1. [c \in Classes |-> 0] \in [Classes -> Nat]
    OBVIOUS
  <2>2. \A c \in Classes : ~(declared[c] <= 0)
    BY <1>2
  <2> QED
    BY <2>1, <2>2
<1>4. ASSUME NEW n \in S PROVE n + 1 \in S
  <2>1. PICK id \in [Classes -> Nat] :
            \A c \in Classes : declared[c] <= n => id[c] = Declares(id, c)
    OBVIOUS
  <2> DEFINE more == [c \in Classes |-> Declares(id, c)]
  <2>2. more \in [Classes -> Nat]
    BY <1>1, NumbersAssumption DEF Declares, IsOrder, Family!NextId
  <2>3. ASSUME NEW c \in Classes, declared[c] <= n + 1
        PROVE  more[c] = Declares(more, c)
    <3>1. CASE Previous[c] = NoClass
      BY <3>1 DEF Declares
    <3>2. CASE Previous[c] # NoClass
      <4>1. Previous[c] \in Classes /\ declared[Previous[c]] <= n
        BY <1>1, <1>2, <2>3, <3>2 DEF IsOrder
      <4>2. more[Previous[c]] = id[Previous[c]]
        BY <2>1, <4>1
      <4> QED
        BY <3>2, <4>2 DEF Declares
    <3> QED
      BY <3>1, <3>2
  <2> HIDE DEF more
  <2>4. Right(n + 1)
    BY <2>2, <2>3
  <2> QED
    BY <2>4
<1> HIDE DEF Right
<1>5. S = Nat
  BY <1>3, <1>4, NatSetInduction
<1>6. Right(Cardinality(Classes))
  BY <1>2, <1>5
<1>7. PICK id \in [Classes -> Nat] : \A c \in Classes : id[c] = Declares(id, c)
  <2>1. \A c \in Classes : declared[c] <= Cardinality(Classes)
    BY <1>2
  <2> QED
    BY <1>6, <2>1 DEF Right
<1> QED
  BY <1>7

LEMMA IdLaw == \A c \in Classes : Family!kId[c] = Declares(Family!kId, c)
<1> DEFINE Law(id) == id = [c \in Classes |-> Declares(id, c)]
<1>1. Family!kId = CHOOSE id : Law(id)
  BY DEF Family!kId, Declares
<1>2. \E id : Law(id)
  BY IdsExist
<1>3. Law(Family!kId)
  BY <1>1, <1>2, Zenon
<1> QED
  BY <1>3

LEMMA IdTyped == \A c \in Classes : Family!kId[c] \in Nat
<1>1. PICK declared \in [Classes -> 1..Cardinality(Classes)] : IsOrder(declared)
  BY ChainAssumption DEF IsOrder
<1>2. Cardinality(Classes) \in Nat
  BY FS_CardinalityType, ChainAssumption
<1> DEFINE S == {n \in Nat : \A c \in Classes : declared[c] <= n => Family!kId[c] \in Nat}
<1>3. 0 \in S
  BY <1>2
<1>4. ASSUME NEW n \in S, NEW c \in Classes, declared[c] <= n + 1
      PROVE  Family!kId[c] \in Nat
  <2>1. CASE Previous[c] = NoClass
    BY <2>1, IdLaw, NumbersAssumption DEF Declares
  <2>2. CASE Previous[c] # NoClass
    <3>1. Previous[c] \in Classes /\ declared[Previous[c]] <= n
      BY <1>1, <1>2, <1>4, <2>2 DEF IsOrder
    <3> QED
      BY <2>2, <3>1, IdLaw DEF Declares, Family!NextId
  <2> QED
    BY <2>1, <2>2
<1>5. \A n \in S : n + 1 \in S
  BY <1>4
<1>6. S = Nat
  BY <1>3, <1>5, NatSetInduction
<1> QED
  BY <1>2, <1>6

-----------------------------------------------------------------------------
(* Signals.                                                                *)

(* Who sees to it that the pool lives: the application, which must not let *)
(* go of a pool given as a plain pointer, or shared_allocator.  An event   *)
(* out of a pool is out of the only pool there is, and of a class that     *)
(* uses it.                                                                *)
Owners ==
    /\ plain \subseteq held
    /\ allocator # nullptr => allocator \in plain \/ allocator = shared_allocator
    /\ \A e \in Events : event[e] # nullptr =>
          /\ event[e].id = Family!kId[event[e].class]
          /\ event[e].pool # Heap =>
                /\ allocator # nullptr /\ event[e].pool = allocator
                /\ event[e].class \in Family!Pooled

SignalInv == Family!TypeOK /\ Owners

LEMMA InitSignalInv == Family!Init => SignalInv
BY DEF Family!Init, SignalInv, Owners, Family!TypeOK

LEMMA NextSignalInv ==
    SignalInv /\ [Family!Next]_signalVars => SignalInv'
<1> SUFFICES ASSUME SignalInv, [Family!Next]_signalVars PROVE SignalInv'
  OBVIOUS
<1> USE DEF SignalInv
<1>1. ASSUME NEW p \in Pools, Family!SetAllocator(p) PROVE SignalInv'
  BY <1>1 DEF Family!SetAllocator, Family!TypeOK, Owners
<1>2. ASSUME NEW p \in Pools, Family!SetSharedAllocator(p) PROVE SignalInv'
  BY <1>2 DEF Family!SetSharedAllocator, Family!TypeOK, Owners
<1>3. ASSUME NEW p \in Pools, Family!LetGo(p) PROVE SignalInv'
  BY <1>3 DEF Family!LetGo, Family!TypeOK, Owners
<1>4. ASSUME NEW e \in Events, NEW c \in Classes, Family!MakeShared(c, e) PROVE SignalInv'
  <2> DEFINE new == Family!Constructed(c, Family!GetAllocator(c))
  <2>1. /\ new \in [class : Classes, id : Nat, pool : Pools \cup {Heap}]
        /\ new.id = Family!kId[new.class]
        /\ new.pool # Heap => /\ allocator # nullptr /\ new.pool = allocator
                              /\ new.class \in Family!Pooled
    BY <1>4, IdTyped
       DEF Family!MakeShared, Family!Constructed, Family!GetAllocator, Family!TypeOK
  <2>2. event' = [event EXCEPT ![e] = new]
        /\ UNCHANGED <<allocator, shared_allocator, plain, held>>
    BY <1>4 DEF Family!MakeShared
  <2> HIDE DEF new
  <2>3. Family!TypeOK'
    BY <2>1, <2>2 DEF Family!TypeOK
  <2>4. \A d \in Events : event'[d] = IF d = e THEN new ELSE event[d]
    BY <2>2 DEF Family!TypeOK
  <2> QED
    BY <2>1, <2>2, <2>3, <2>4 DEF Owners
<1>5. ASSUME NEW e \in Events, Family!Release(e) PROVE SignalInv'
  <2>1. Family!TypeOK'
    BY <1>5 DEF Family!Release, Family!TypeOK
  <2>2. \A d \in Events : event'[d] = IF d = e THEN nullptr ELSE event[d]
    BY <1>5 DEF Family!Release, Family!TypeOK
  <2> QED
    BY <1>5, <2>1, <2>2 DEF Family!Release, Owners
<1>6. CASE UNCHANGED signalVars
  BY <1>6 DEF signalVars, Family!TypeOK, Owners
<1> QED
  BY <1>1, <1>2, <1>3, <1>4, <1>5, <1>6 DEF Family!Next

LEMMA OwnersKeepPool == SignalInv => PoolOutlivesEvents
BY DEF SignalInv, Owners, PoolOutlivesEvents, Family!PoolOutlivesEvents, Family!Exists

-----------------------------------------------------------------------------
(* Casts.                                                                  *)

LEMMA IdsDiffer ==
    ASSUME IdsApart
    PROVE  \A c, d \in Classes : Family!kId[c] = Family!kId[d] => c = d
<1>1. PICK declared \in [Classes -> 1..Cardinality(Classes)] : IsOrder(declared)
  BY ChainAssumption DEF IsOrder
<1>2. Cardinality(Classes) \in Nat
  BY FS_CardinalityType, ChainAssumption
<1> DEFINE Alone(n) == \A c, d \in Classes :
               declared[c] <= n /\ Family!kId[c] = Family!kId[d] => c = d
           S == {n \in Nat : Alone(n)}
<1>3. 0 \in S
  BY <1>2
<1>4. ASSUME NEW n \in S, NEW c \in Classes, NEW d \in Classes,
             declared[c] <= n + 1, Family!kId[c] = Family!kId[d]
      PROVE  c = d
  <2>1. CASE Previous[c] = NoClass \/ Previous[d] = NoClass
    BY <1>4, <2>1 DEF IdsApart
  <2>2. CASE Previous[c] # NoClass /\ Previous[d] # NoClass
    <3>1. /\ Previous[c] \in Classes /\ declared[Previous[c]] <= n
          /\ Previous[d] \in Classes
      BY <1>1, <1>2, <1>4, <2>2 DEF IsOrder
    <3>2. Family!kId[Previous[c]] = Family!kId[Previous[d]]
      BY <1>4, <2>2, <3>1, IdLaw, IdTyped DEF Declares, Family!NextId
    <3>3. Previous[c] = Previous[d]
      BY <3>1, <3>2
    <3> QED
      BY <2>2, <3>3 DEF IdsApart
  <2> QED
    BY <2>1, <2>2
<1>5. \A n \in S : n + 1 \in S
  BY <1>4
<1> HIDE DEF Alone
<1>6. S = Nat
  BY <1>3, <1>5, NatSetInduction
<1>7. Alone(Cardinality(Classes))
  BY <1>2, <1>6
<1> QED
  BY <1>2, <1>7 DEF Alone

LEMMA CastsToOwnClass ==
    ASSUME IdsApart
    PROVE  SignalInv => EveryCastSound
<1> SUFFICES ASSUME SignalInv, NEW e \in Events, NEW c \in Classes,
                    event[e] # nullptr, Family!Check(e, c)
             PROVE  event[e].class = c
  BY DEF EveryCastSound
<1>1. event[e].class \in Classes
  BY DEF SignalInv, Family!TypeOK
<1>2. Family!kId[event[e].class] = Family!kId[c]
  BY DEF SignalInv, Owners, Family!Check, Family!Id
<1> QED
  BY <1>1, <1>2, IdsDiffer

(* Ids grow along a chain.                                                 *)
LEMMA LaterIdsAreGreater ==
    ASSUME NEW c \in Classes, NEW d \in Classes, Family!Continues(c, d)
    PROVE  c = d \/ Family!kId[c] > Family!kId[d]
<1> DEFINE after == {x \in Classes : x = d \/ Family!kId[x] > Family!kId[d]}
<1>1. ASSUME NEW x \in Classes, Previous[x] \in after PROVE x \in after
  <2>1. Previous[x] \in Classes /\ Previous[x] # NoClass
    BY <1>1, ChainAssumption
  <2>2. Family!kId[x] = Family!kId[Previous[x]] + 1
    BY <2>1, IdLaw DEF Declares, Family!NextId
  <2> QED
    BY <1>1, <2>1, <2>2, IdTyped
<1>2. after \in SUBSET Classes /\ d \in after
  OBVIOUS
<1> HIDE DEF after
<1>3. c \in after
  BY <1>1, <1>2 DEF Family!Continues
<1> QED
  BY <1>3 DEF after

LEMMA CastsAreSound == SignalInv => CastSound
<1> SUFFICES ASSUME SignalInv, NEW e \in Events, NEW c \in Classes,
                    event[e] # nullptr, Family!Check(e, c),
                    \/ Family!Continues(c, event[e].class)
                    \/ Family!Continues(event[e].class, c)
             PROVE  event[e].class = c
  BY DEF CastSound, Family!CastSound
<1>1. event[e].class \in Classes
  BY DEF SignalInv, Family!TypeOK
<1>2. Family!kId[event[e].class] = Family!kId[c]
  BY DEF SignalInv, Owners, Family!Check, Family!Id
<1> QED
  BY <1>1, <1>2, IdTyped, LaterIdsAreGreater

-----------------------------------------------------------------------------
(* The layout of the pools.                                                *)

LEMMA TimesMonotonic ==
    \A a, b \in Int, c \in Nat : a <= b => a * c <= b * c
OBVIOUS

(* Blocks no larger than the distance between them do not overlap.         *)
LEMMA BlocksApart ==
    ASSUME NEW count \in Nat, NEW used \in SUBSET (1..count),
           NEW stride \in Nat, NEW size \in Nat, size <= stride
    PROVE  Layout!Apart(used, stride, size, stride * count)
<1>1. ASSUME NEW i \in 1..count, NEW j \in Int, i <= j
      PROVE  (i - 1) * stride + size <= j * stride
  <2>1. i * stride <= j * stride
    BY <1>1, TimesMonotonic
  <2>2. (i - 1) * stride = i * stride - stride
    OBVIOUS
  <2>3. i * stride \in Int /\ j * stride \in Int
    BY <1>1
  <2> QED
    BY <2>1, <2>2, <2>3
<1>2. ASSUME NEW i \in used PROVE (i - 1) * stride + size <= stride * count
  <2>1. (i - 1) * stride + size <= count * stride
    BY <1>1
  <2>2. count * stride = stride * count
    OBVIOUS
  <2> QED
    BY <2>1, <2>2
<1>3. ASSUME NEW i \in used, NEW j \in used, i < j
      PROVE  (i - 1) * stride + size <= (j - 1) * stride
  <2>1. i <= j - 1
    BY <1>3
  <2> QED
    BY <1>1, <2>1
<1> QED
  BY <1>2, <1>3 DEF Layout!Apart

(* They are aligned if every multiple of the distance is.                  *)
LEMMA BlocksAligned ==
    ASSUME NEW count \in Nat, NEW used \in SUBSET (1..count),
           NEW stride, NEW base, NEW alignment, base % alignment = 0,
           \A k \in Int : (k * stride) % alignment = 0
    PROVE  Layout!Aligned(used, stride, base, alignment)
<1>1. ASSUME NEW i \in used PROVE ((i - 1) * stride) % alignment = 0
  <2>1. i - 1 \in Int
    OBVIOUS
  <2> QED
    BY <2>1
<1> QED
  BY <1>1 DEF Layout!Aligned

LEMMA MultiplesDivide ==
    ASSUME NEW a \in Nat \ {0}, NEW m \in Int
    PROVE  (m * a) % a = 0
<1> DEFINE x == m * a
           q == x \div a
           r == x % a
<1>1. x \in Int /\ q \in Int /\ r \in 0..(a - 1) /\ x = a * q + r
  OBVIOUS
<1>2. (m - q) * a = r
  BY <1>1
<1>3. CASE m - q >= 1
  <2>1. 1 * a <= (m - q) * a
    BY <1>1, <1>3, TimesMonotonic
  <2> QED
    BY <1>1, <1>2, <2>1
<1>4. CASE m - q <= -1
  <2>1. (m - q) * a <= (-1) * a
    BY <1>1, <1>4, TimesMonotonic
  <2> QED
    BY <1>1, <1>2, <2>1
<1>5. CASE m - q = 0
  BY <1>2, <1>5
<1> QED
  BY <1>1, <1>3, <1>4, <1>5

LEMMA AlignedMultiples ==
    ASSUME NEW size \in Nat, NEW a \in Nat \ {0}
    PROVE  /\ Layout!AlignedSize(size, a) \in Nat
           /\ \A k \in Int : (k * Layout!AlignedSize(size, a)) % a = 0
<1> DEFINE q == (size + a) \div a
<1>1. q \in Nat
  OBVIOUS
<1>2. Layout!AlignedSize(size, a) = q * a
  BY DEF Layout!AlignedSize
<1> HIDE DEF q
<1>3. ASSUME NEW k \in Int PROVE (k * (q * a)) % a = 0
  <2>1. k * (q * a) = (k * q) * a /\ k * q \in Int
    BY <1>1
  <2> QED
    BY <2>1, MultiplesDivide
<1>4. q * a \in Nat
  BY <1>1
<1> QED
  BY <1>2, <1>3, <1>4

(* A block of the size that do_allocate() of a StaticPool admits fits into *)
(* an element (lines 39, 44 and 83) if that size is a number of whole      *)
(* words or less than one, and otherwise it does not.                      *)
THEOREM AdmittedFitsOnlyWholeWords ==
    ASSUME NEW size \in Nat, NEW alignment \in Nat \ {0}
    PROVE  Layout!AlignedSize(size, alignment) <= Layout!SizeofQueueElement(size, alignment)
               <=> Layout!WholeWords(size, alignment)
<1> DEFINE admitted == Layout!AlignedSize(size, alignment)
<1>1. admitted \in Nat
  BY AlignedMultiples
<1>2. /\ Layout!SizeofQueueElement(size, alignment) =
            IF admitted < 8 THEN 8 ELSE 8 * (admitted \div 8)
      /\ Layout!WholeWords(size, alignment) <=> admitted < 8 \/ admitted % 8 = 0
  BY DEF Layout!SizeofQueueElement, Layout!WholeWords, Layout!Word
<1> HIDE DEF admitted
<1>3. admitted <= (IF admitted < 8 THEN 8 ELSE 8 * (admitted \div 8))
          <=> admitted < 8 \/ admitted % 8 = 0
  BY <1>1
<1> QED
  BY <1>2, <1>3 DEF admitted

LEMMA ElementsOfWords ==
    ASSUME NEW size \in Nat, NEW a \in Nat \ {0}
    PROVE  /\ Layout!SizeofQueueElement(size, a) \in Nat
           /\ 8 % a = 0 => \A k \in Int : (k * Layout!SizeofQueueElement(size, a)) % a = 0
<1> DEFINE admitted == Layout!AlignedSize(size, a)
<1>1. admitted \in Nat
  BY AlignedMultiples
<1>2. Layout!SizeofQueueElement(size, a) = IF admitted < 8 THEN 8 ELSE 8 * (admitted \div 8)
  BY DEF Layout!SizeofQueueElement, Layout!Word
<1> HIDE DEF admitted
<1>3. PICK words \in Nat : Layout!SizeofQueueElement(size, a) = 8 * words
  <2>1. CASE admitted < 8
    BY <1>2, <2>1
  <2>2. CASE ~(admitted < 8)
    BY <1>1, <1>2, <2>2
  <2> QED
    BY <2>1, <2>2
<1>4. ASSUME 8 % a = 0, NEW k \in Int PROVE (k * (8 * words)) % a = 0
  <2>1. a \in {1, 2, 4, 8}
    BY <1>4
  <2> DEFINE n == k * words
  <2>2. n \in Int /\ k * (8 * words) = 8 * n
    OBVIOUS
  <2> HIDE DEF n
  <2>3. (8 * n) % a = 0
    BY <2>1, <2>2
  <2> QED
    BY <2>2, <2>3
<1> QED
  BY <1>3, <1>4

LEMMA BlocksAreSound == BlocksSound
<1>1. NumElements \in Nat /\ InUse \in SUBSET (1..NumElements)
                         /\ PoolInUse \in SUBSET (1..NumElements)
  BY NumElementsAssumption DEF Elements, InUse, PoolInUse
<1>2. SUFFICES ASSUME NEW size \in Nat, NEW alignment \in Nat \ {0}
               PROVE  /\ Layout!WholeWords(size, alignment) => StaticApart(size, alignment)
                      /\ Layout!Word % alignment = 0 => StaticAligned(size, alignment)
                      /\ PoolApart(size, alignment)
                      /\ (2 * Layout!Word) % alignment = 0 => PoolAligned(size, alignment)
  BY AlignmentAssumption DEF BlocksSound
<1> DEFINE admitted == Layout!AlignedSize(size, alignment)
           element == Layout!SizeofQueueElement(size, alignment)
<1>3. /\ admitted \in Nat /\ \A k \in Int : (k * admitted) % alignment = 0
      /\ element \in Nat
      /\ 8 % alignment = 0 => \A k \in Int : (k * element) % alignment = 0
      /\ Layout!WholeWords(size, alignment) => admitted <= element
  BY AlignedMultiples, ElementsOfWords, AdmittedFitsOnlyWholeWords
<1>4. Layout!Word = 8 /\ 2 * Layout!Word = 16
  BY DEF Layout!Word
<1> HIDE DEF admitted, element
<1>5. ASSUME Layout!WholeWords(size, alignment)
      PROVE  Layout!Apart(InUse, element, admitted, element * NumElements)
  BY <1>1, <1>3, <1>5, BlocksApart
<1>6. ASSUME 8 % alignment = 0 PROVE Layout!Aligned(InUse, element, 8, alignment)
  BY <1>1, <1>3, <1>6, BlocksAligned, Zenon
<1>7. Layout!Apart(PoolInUse, admitted, admitted, admitted * NumElements)
  <2>1. admitted <= admitted
    BY <1>3
  <2> QED
    BY <1>1, <1>3, <2>1, BlocksApart
<1>8. ASSUME 16 % alignment = 0 PROVE Layout!Aligned(PoolInUse, admitted, 16, alignment)
  BY <1>1, <1>3, <1>8, BlocksAligned, Zenon
<1> QED
  BY <1>4, <1>5, <1>6, <1>7, <1>8
     DEF StaticApart, StaticAligned, PoolApart, PoolAligned, admitted, element,
         Layout!Stride, Layout!MemorySize

-----------------------------------------------------------------------------
(* The names of types.                                                     *)

LEMMA ConcatWords ==
    ASSUME NEW S, NEW s \in Seq(S), NEW t \in Seq(S)
    PROVE  /\ s \o t \in Seq(S) /\ Len(s \o t) = Len(s) + Len(t)
           /\ \A i \in 1..Len(s) : (s \o t)[i] = s[i]
           /\ \A i \in 1..Len(t) : (s \o t)[Len(s) + i] = t[i]
<1>1. Len(s) \in Nat /\ Len(t) \in Nat
  OBVIOUS
<1>2. /\ s \o t \in Seq(S) /\ Len(s \o t) = Len(s) + Len(t)
      /\ \A i \in 1..(Len(s) + Len(t)) :
            (s \o t)[i] = IF i <= Len(s) THEN s[i] ELSE t[i - Len(s)]
  BY ConcatProperties, Zenon
<1> QED
  BY <1>1, <1>2

LEMMA WordsBetween ==
    ASSUME NEW S, NEW s, NEW m \in Nat, NEW n \in Nat,
           \A i \in 1..n : s[m + i] \in S
    PROVE  /\ SubSeq(s, m + 1, m + n) \in Seq(S)
           /\ Len(SubSeq(s, m + 1, m + n)) = n
           /\ \A i \in 1..n : SubSeq(s, m + 1, m + n)[i] = s[m + i]
<1>1. ASSUME NEW i \in (m + 1)..(m + n) PROVE s[i] \in S
  <2>1. i - m \in 1..n /\ m + (i - m) = i
    OBVIOUS
  <2> QED
    BY <2>1
<1>2. ASSUME NEW k \in Int, NEW l \in Int, \A i \in k..l : s[i] \in S
      PROVE  /\ SubSeq(s, k, l) \in Seq(S)
             /\ Len(SubSeq(s, k, l)) = (IF k <= l THEN l - k + 1 ELSE 0)
             /\ \A i \in 1..(l - k + 1) : SubSeq(s, k, l)[i] = s[k + i - 1]
  BY <1>2
<1>3. /\ m + n - (m + 1) + 1 = n /\ \A i \in 1..n : m + 1 + i - 1 = m + i
      /\ m + 1 \in Int /\ m + n \in Int
  OBVIOUS
<1> QED
  BY <1>1, <1>2, <1>3

(* Words that stand in a text in their order are cut out of it as they are. *)
LEMMA WordsOf ==
    ASSUME NEW S, NEW s, NEW m \in Nat, NEW t \in Seq(S), NEW n \in Nat, n = Len(t),
           \A i \in 1..n : s[m + i] = t[i]
    PROVE  SubSeq(s, m + 1, m + n) = t
<1>1. \A i \in 1..n : t[i] \in S
  BY ElementOfSeq
<1>2. \A i \in 1..n : s[m + i] \in S
  BY <1>1
<1>3. /\ SubSeq(s, m + 1, m + n) \in Seq(S)
      /\ Len(SubSeq(s, m + 1, m + n)) = n
      /\ \A i \in 1..n : SubSeq(s, m + 1, m + n)[i] = s[m + i]
  BY <1>2, WordsBetween
<1> QED
  BY <1>3, SeqEqual

LEMMA ThreeParts ==
    ASSUME NEW S, NEW r \in Seq(S), NEW s \in Seq(S), NEW t \in Seq(S)
    PROVE  /\ Len(r \o s \o t) = Len(r) + Len(s) + Len(t)
           /\ \A i \in 1..Len(r) : (r \o s \o t)[i] = r[i]
           /\ \A i \in 1..Len(s) : (r \o s \o t)[Len(r) + i] = s[i]
           /\ \A i \in 1..Len(t) : (r \o s \o t)[Len(r) + Len(s) + i] = t[i]
<1> DEFINE start == r \o s
<1>1. Len(r) \in Nat /\ Len(s) \in Nat /\ Len(t) \in Nat
  OBVIOUS
<1>2. /\ start \in Seq(S) /\ Len(start) = Len(r) + Len(s)
      /\ \A i \in 1..Len(r) : start[i] = r[i]
      /\ \A i \in 1..Len(s) : start[Len(r) + i] = s[i]
  BY ConcatWords
<1> HIDE DEF start
<1>3. /\ Len(start \o t) = Len(start) + Len(t)
      /\ \A i \in 1..Len(start) : (start \o t)[i] = start[i]
      /\ \A i \in 1..Len(t) : (start \o t)[Len(start) + i] = t[i]
  <2>1. ASSUME NEW q \in Seq(S)
        PROVE  /\ Len(q \o t) = Len(q) + Len(t)
               /\ \A i \in 1..Len(q) : (q \o t)[i] = q[i]
               /\ \A i \in 1..Len(t) : (q \o t)[Len(q) + i] = t[i]
    BY ConcatWords
  <2>2. start \in Seq(S)
    BY <1>2
  <2> QED
    BY <2>1, <2>2
<1>4. /\ \A i \in 1..Len(r) : i \in 1..Len(start)
      /\ \A i \in 1..Len(s) : Len(r) + i \in 1..Len(start)
  BY <1>1, <1>2
<1>5. /\ Len(start \o t) = Len(r) + Len(s) + Len(t)
      /\ \A i \in 1..Len(r) : (start \o t)[i] = r[i]
      /\ \A i \in 1..Len(s) : (start \o t)[Len(r) + i] = s[i]
      /\ \A i \in 1..Len(t) : (start \o t)[Len(r) + Len(s) + i] = t[i]
  BY <1>2, <1>3, <1>4
<1> QED
  BY <1>5 DEF start

(* The words of the compiler's text, where they come from.                 *)
LEMMA TextWords ==
    ASSUME TextAsExpected, NEW T \in Seq(STRING)
    PROVE  LET text == Family!kFunction(T)
               b == Len(Before)
               n == Len(T)
           IN  /\ Len(text) = b + n + Len(After)
               /\ \A i \in 1..b : text[i] = Before[i]
               /\ \A i \in 1..n : text[b + i] = T[i]
               /\ \A i \in 1..Len(After) : text[b + n + i] = After[i]
<1>1. Before \in Seq(STRING) /\ After \in Seq(STRING)
  BY DEF TextAsExpected
<1> QED
  BY <1>1, ThreeParts DEF Family!kFunction

(* Whatever words the name has, what the code cuts out is the name.        *)
LEMMA NameIsCutOut ==
    ASSUME TextAsExpected, NEW T \in Seq(STRING), T # <<>>
    PROVE  Family!Compiles(T) /\ Family!TypeNameArray(T) = T \o <<"NUL">>
<1> DEFINE text == Family!kFunction(T)
           b == Len(Before)
           n == Len(T)
           a == Len(After)
<1>1. b \in Nat /\ n \in Nat /\ a \in Nat /\ b >= 1 /\ n >= 1 /\ a >= 1
  BY EmptySeq, LenProperties DEF TextAsExpected
<1>2. /\ Len(text) = b + n + a
      /\ \A i \in 1..b : text[i] = Before[i]
      /\ \A i \in 1..n : text[b + i] = T[i]
      /\ \A i \in 1..a : text[b + n + i] = After[i]
  BY TextWords
<1>3. /\ \A i \in 1..b : Before[i] = kPrefix <=> i = b
      /\ \A i \in 1..a : After[i] = kSuffix <=> i = 1
      /\ npos \in Nat /\ b <= npos
  BY DEF TextAsExpected
<1> HIDE DEF text, b, n, a
<1>4. Family!find(text, kPrefix) = b - 1
  <2> DEFINE places == Family!Places(text, kPrefix)
  <2>1. places \subseteq Int /\ b - 1 \in places
    <3>1. text[b] = kPrefix /\ b - 1 \in 0..(Len(text) - 1) /\ b - 1 + 1 = b
      BY <1>1, <1>2, <1>3
    <3> QED
      BY <3>1 DEF Family!Places
  <2>2. ASSUME NEW i \in places PROVE b - 1 <= i
    <3>1. i \in Int /\ i >= 0 /\ text[i + 1] = kPrefix
      BY <1>1, <1>2 DEF Family!Places
    <3>2. ~(i + 1 \in 1..b /\ i + 1 # b)
      BY <1>2, <1>3, <3>1
    <3> QED
      BY <1>1, <3>1, <3>2
  <2> HIDE DEF places
  <2> DEFINE found == Family!Min(places)
  <2>3. found \in places /\ \A i \in places : found <= i
    BY <2>1, <2>2, Zenon DEF Family!Min
  <2> HIDE DEF found
  <2>4. found = b - 1
    <3>1. found \in Int /\ found <= b - 1 /\ b - 1 <= found
      BY <2>1, <2>2, <2>3
    <3> QED
      BY <1>1, <3>1
  <2> QED
    BY <2>1, <2>4 DEF places, found, Family!find
<1>5. Family!rfind(text, kSuffix) = b + n
  <2> DEFINE places == Family!Places(text, kSuffix)
  <2>1. places \subseteq Int /\ b + n \in places
    <3>1. text[b + n + 1] = kSuffix /\ b + n \in 0..(Len(text) - 1)
      BY <1>1, <1>2, <1>3
    <3> QED
      BY <3>1 DEF Family!Places
  <2>2. ASSUME NEW i \in places PROVE b + n >= i
    <3>1. i \in Int /\ i <= b + n + a - 1 /\ text[i + 1] = kSuffix
      BY <1>1, <1>2 DEF Family!Places
    <3>2. ASSUME i > b + n PROVE FALSE
      <4> DEFINE j == i + 1 - (b + n)
      <4>1. j \in 1..a /\ j # 1 /\ b + n + j = i + 1
        BY <1>1, <3>1, <3>2
      <4> HIDE DEF j
      <4> QED
        BY <1>2, <1>3, <3>1, <4>1
    <3> QED
      BY <1>1, <3>1, <3>2
  <2> HIDE DEF places
  <2> DEFINE found == Family!Max(places)
  <2>3. found \in places /\ \A i \in places : found >= i
    BY <2>1, <2>2, Zenon DEF Family!Max
  <2> HIDE DEF found
  <2>4. found = b + n
    <3>1. found \in Int /\ found >= b + n /\ b + n >= found
      BY <2>1, <2>2, <2>3
    <3> QED
      BY <1>1, <3>1
  <2> QED
    BY <2>1, <2>4 DEF places, found, Family!rfind
<1>6. Family!kStart(T) = b
  <2>1. b - 1 + 1 = b /\ b % (npos + 1) = b
    BY <1>1, <1>3
  <2> QED
    BY <1>4, <2>1 DEF text, Family!kStart
<1>7. Family!kEnd(T) = b + n
  BY <1>5 DEF text, Family!kEnd
<1>8. SubSeq(text, b + 1, b + n) = T
  <2>1. \A i \in 1..n : text[b + i] = T[i]
    BY <1>2, Zenon
  <2>2. n = Len(T)
    BY DEF n
  <2>3. b \in Nat /\ n \in Nat
    BY <1>1
  <2> QED
    BY <2>1, <2>2, <2>3, WordsOf
<1>9. Family!TypeNameArray(T)
          = SubSeq(text, Family!kStart(T) + 1,
                   Family!kStart(T) + (Family!kEnd(T) - Family!kStart(T))) \o <<"NUL">>
  BY Zenon DEF text, Family!TypeNameArray, Family!SubstringAsArray
<1>10. /\ Family!kStart(T) + (Family!kEnd(T) - Family!kStart(T)) = b + n
       /\ Family!kStart(T) + 1 = b + 1 /\ b < b + n
  BY <1>1, <1>6, <1>7
<1>11. Family!TypeNameArray(T) = T \o <<"NUL">>
  BY <1>8, <1>9, <1>10, Zenon
<1> QED
  BY <1>6, <1>7, <1>10, <1>11 DEF Family!Compiles

LEMMA NamesAreRight ==
    ASSUME TextAsExpected
    PROVE  SignalInv => NameIsTypes
<1> SUFFICES ASSUME SignalInv, NEW e \in Events, event[e] # nullptr
             PROVE  LET name == ClassName[event[e].class]
                    IN Family!Compiles(name)
                       /\ Family!TypeNameArray(name) = name \o <<"NUL">>
  BY DEF NameIsTypes, Family!NameIsTypes
<1>1. event[e].class \in Classes
  BY DEF SignalInv, Family!TypeOK
<1>2. ClassName[event[e].class] \in Seq(STRING) /\ ClassName[event[e].class] # <<>>
  BY <1>1 DEF TextAsExpected
<1> QED
  BY <1>2, NameIsCutOut

-----------------------------------------------------------------------------
(* The specification of the three parts.                                   *)

(* Each part behaves as it does alone: the parts share nothing.            *)
THEOREM PartsUndisturbed == MemorySpec => Spec /\ HeapPool!Spec /\ Family!Spec
<1>1. MemoryInit => Init /\ HeapPool!Init /\ Family!Init
  BY DEF MemoryInit
<1>2. [MemoryNext]_<<part, vars, poolVars, signalVars>> =>
          [Next]_vars /\ [HeapPool!Next]_HeapPool!vars /\ [Family!Next]_Family!vars
  BY DEF MemoryNext, poolVars, signalVars, HeapPool!vars, Family!vars
<1> QED
  BY <1>1, <1>2, PTL DEF MemorySpec, Spec, HeapPool!Spec, Family!Spec

LEMMA PoolInvariant == HeapPool!Spec => []PoolInv
<1>1. HeapPool!vars = poolVars
  BY DEF HeapPool!vars, poolVars
<1>2. PoolInv /\ [HeapPool!Next]_HeapPool!vars => PoolInv'
  BY NextPoolInv, <1>1 DEF HeapPool!vars, poolVars
<1> QED
  BY InitPoolInv, <1>2, PTL DEF HeapPool!Spec

LEMMA SignalInvariant == Family!Spec => []SignalInv
<1>1. SignalInv /\ [Family!Next]_Family!vars => SignalInv'
  BY NextSignalInv DEF Family!vars, signalVars
<1> QED
  BY InitSignalInv, <1>1, PTL DEF Family!Spec

(* The variables of both pools and of the signals keep their types; the    *)
(* ids are numbers, for the chains of declarations have a beginning.       *)
THEOREM MemoryTypeCorrect == MemorySpec => []MemoryTypeOK
<1>1. TypeOK /\ PoolInv /\ SignalInv => MemoryTypeOK
  BY DEF MemoryTypeOK, PoolInv, SignalInv
<1> QED
  BY <1>1, PartsUndisturbed, TypeCorrect, PoolInvariant, SignalInvariant, PTL

(* No element of a Pool is lost and none waits twice, after any history of *)
(* do_allocate() and do_deallocate().                                      *)
THEOREM NoElementIsLost == MemorySpec => []EachElementOnce
BY PartsUndisturbed, PoolInvariant, PoolInvMeans, PTL

(* StaticPool and Pool never hand out an element that is held.             *)
THEOREM PoolsRefineAllocator == MemorySpec => PoolsImplementAllocator
<1>1. HeapPool!Init => HeapPool!Promise!Init
  BY DEF HeapPool!Init, HeapPool!Promise!Init
<1>2. PoolInv /\ [HeapPool!Next]_HeapPool!vars => [HeapPool!Promise!Next]_poolHolder
  <2> SUFFICES ASSUME PoolInv, HeapPool!Next, poolHolder' # poolHolder
               PROVE  HeapPool!Promise!Next
    BY DEF HeapPool!vars
  <2>1. HeapPool!Elements = Elements
    BY DEF HeapPool!Elements, Elements
  <2>2. ASSUME NEW t \in Threads, HeapPool!Allocate(t) PROVE HeapPool!Promise!Next
    <3>1. pool \in Seq(Elements) /\ pool # <<>>
      BY <2>1, <2>2 DEF PoolInv, HeapPool!TypeOK, HeapPool!Allocate
    <3>2. Head(pool) = pool[1] /\ pool[1] \in Elements /\ 1 \in 1..Len(pool)
      BY <3>1, TailFacts
    <3>3. poolHolder[Head(pool)] = Nobody
      BY <3>2 DEF PoolInv, WaitsOnce
    <3> QED
      BY <2>1, <2>2, <3>2, <3>3
         DEF HeapPool!Allocate, HeapPool!Promise!Next, HeapPool!Promise!Allocate
  <2>3. ASSUME NEW e \in Elements, HeapPool!Deallocate(e) PROVE HeapPool!Promise!Next
    BY <2>1, <2>3
       DEF HeapPool!Deallocate, HeapPool!Promise!Next, HeapPool!Promise!Deallocate
  <2> QED
    BY <2>1, <2>2, <2>3 DEF HeapPool!Next
<1>3. HeapPool!Spec => HeapPool!ImplementsAllocator
  BY <1>1, <1>2, PoolInvariant, PTL
     DEF HeapPool!Spec, HeapPool!ImplementsAllocator, HeapPool!Promise!Spec
<1> QED
  BY <1>3, PartsUndisturbed, RefinesAllocator, PTL DEF PoolsImplementAllocator

(* An event's pool exists as long as the event: the plain pointer that the *)
(* event keeps is never left dangling, whichever way the allocator was set *)
(* and whenever the application lets go of its own pointers.               *)
THEOREM PoolsOutliveEvents == MemorySpec => []PoolOutlivesEvents
BY PartsUndisturbed, SignalInvariant, OwnersKeepPool, PTL

(* Blocks handed out at the same time share no byte, lie within the pool   *)
(* and are aligned, as far as BlocksSound says, for every element size,    *)
(* Alignment and number of elements.                                       *)
THEOREM BlocksDoNotOverlap == MemorySpec => []BlocksSound
BY BlocksAreSound, PTL

(* FromSignal() of a class takes no event of another class of its chain,   *)
(* whatever ids the chains begin with and however they branch.             *)
THEOREM CastsAreWithinTheClass == MemorySpec => []CastSound
BY PartsUndisturbed, SignalInvariant, CastsAreSound, PTL

(* FromSignal() casts to the class of the event, provided that the ids of  *)
(* the chains were chosen apart: no first id within another chain, and no  *)
(* two classes after the same one.                                         *)
THEOREM CastsAreToTheClass ==
    ASSUME IdsApart PROVE MemorySpec => []EveryCastSound
BY PartsUndisturbed, SignalInvariant, CastsToOwnClass, PTL

(* Name() is the name of the class, whatever words it consists of, with    *)
(* every compiler whose text is as the code expects.                       *)
THEOREM NamesAreOfTheClass ==
    ASSUME TextAsExpected PROVE MemorySpec => []NameIsTypes
BY PartsUndisturbed, SignalInvariant, NamesAreRight, PTL
=============================================================================
