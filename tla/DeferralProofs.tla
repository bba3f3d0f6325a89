--------------------------- MODULE DeferralProofs ---------------------------
(***************************************************************************)
(* Proofs about Deferral, for any machine and any number of messages.      *)
(*                                                                         *)
(* What holds of the machine is taken from StatemachineProofs: every step  *)
(* of Deferral is a step of the machine or leaves it alone.  That no       *)
(* message is lost holds whatever the handlers and actions do; where the   *)
(* deferring states are, and in which order messages are handled, depends  *)
(* on RecallsOnExit and DefersFirmly.                                      *)
(***************************************************************************)
EXTENDS Deferral, StatemachineProofs, SequenceTheorems

(* The message in the hands of React().                                    *)
Hand == IF pc = "handle" THEN <<message>> ELSE <<>>

DeferredMessages == [message : Messages, by : States]

(* A recall runs in an entry or exit action, and before Start() nothing    *)
(* was entered or deferred.                                                *)
CallsInv ==
    /\ inbox \in Seq(Messages) /\ handled \in Seq(Messages)
    /\ deferred \in Seq(DeferredMessages)
    /\ taken \in 0..MaxMessages
    /\ recalling \in BOOLEAN /\ cursor \in 0..Len(deferred)
    /\ pc = "handle" => message \in Messages /\ message.event = event
    /\ recalling => pc \notin {"idle", "handle"}
    /\ current = Null =>
          /\ pc = "idle" /\ ~recalling /\ deferred = <<>>
          /\ \A x \in States : entered[x] = 0

BaseInv == ControlInv /\ CallsInv

(* Each message that was sent is in one place.                             *)
CountInv ==
    \A n \in Nat \ {0} :
        Times(inbox, n) + Times(StillDeferred, n) + Times(handled, n) + Times(Hand, n)
            = IF n <= taken THEN 1 ELSE 0

(* What is deferred was deferred by a state that is still active, until    *)
(* its exit action recalls it.                                             *)
DeferrersInv ==
    ~recalling => \A i \in 1..Len(deferred) : deferred[i].by \in Active

Deferrers ==
    \A i \in 1..Len(deferred) :
        kDeferEvent \in Handler[<<deferred[i].by, deferred[i].message.event>>]

(* React() asks upwards and does not get past a state that defers.         *)
AskedInv ==
    pc = "handle" =>
        \A x \in Up[current] : kDeferEvent \in Handler[<<x, event>>] => x \in Up[s]

(* Of two messages of a kind the first was sent before the second, ...     *)
InOrder(q) ==
    \A i, j \in 1..Len(q) : i < j /\ q[i].event = q[j].event => q[i].id < q[j].id
Older(p, q) ==
    \A i \in 1..Len(p), j \in 1..Len(q) : p[i].event = q[j].event => p[i].id < q[j].id
Known(q, n) == \A i \in 1..Len(q) : q[i].id <= n

(* ... from those handled to those just sent.                              *)
OrderInv ==
    /\ InOrder(handled) /\ InOrder(StillDeferred) /\ InOrder(inbox)
    /\ Older(handled, StillDeferred) /\ Older(handled, Hand) /\ Older(handled, inbox)
    /\ Older(StillDeferred, Hand) /\ Older(StillDeferred, inbox)
    /\ Older(Hand, inbox)
    /\ Known(handled, taken) /\ Known(StillDeferred, taken) /\ Known(Hand, taken)
    /\ Known(inbox, taken)

-----------------------------------------------------------------------------
(* Sequences of messages.                                                  *)

LEMMA MessagesTyped ==
    /\ \A m \in Messages : m.event \in Events /\ m.id \in Nat \ {0} /\ m.id <= MaxMessages
    /\ MaxMessages \in Nat
BY RecallAssumption DEF Messages

LEMMA One ==
    ASSUME NEW S, NEW m \in S
    PROVE  <<m>> \in Seq(S) /\ Len(<<m>>) = 1 /\ <<m>>[1] = m
OBVIOUS

(* A message is put at the end or in front.                                *)
Has(q, m) == \E i \in 1..Len(q) : q[i] = m
Joins(q, m, r) == r = Append(q, m) \/ r = <<m>> \o q

LEMMA Joined ==
    ASSUME NEW q \in Seq(Messages), NEW m \in Messages, NEW r, Joins(q, m, r)
    PROVE  /\ r \in Seq(Messages)
           /\ \A i \in 1..Len(r) : r[i] = m \/ Has(q, r[i])
           /\ Has(r, m)
           /\ \A j \in 1..Len(q) : Has(r, q[j])
<1>0. q \in Seq(Messages) /\ Len(q) \in Nat /\ Len(<<m>>) = 1 /\ <<m>>[1] = m
  BY One, LenProperties
<1>1. CASE r = Append(q, m)
  <2>1. r \in Seq(Messages) /\ Len(r) = Len(q) + 1 /\ r[Len(q) + 1] = m
        /\ \A i \in 1..Len(q) : r[i] = q[i]
    BY <1>1, AppendProperties
  <2>2. \A i \in 1..Len(r) : i = Len(q) + 1 \/ i \in 1..Len(q)
    BY <1>0, <2>1
  <2>3. Len(q) + 1 \in 1..Len(r) /\ \A j \in 1..Len(q) : j \in 1..Len(r)
    BY <1>0, <2>1
  <2> QED
    BY <2>1, <2>2, <2>3 DEF Has
<1>2. CASE r = <<m>> \o q
  <2>1. r \in Seq(Messages) /\ Len(r) = Len(q) + 1
        /\ \A i \in 1..(1 + Len(q)) : r[i] = IF i <= 1 THEN <<m>>[i] ELSE q[i - 1]
    BY <1>0, <1>2, One, ConcatProperties
  <2>2. \A i \in 1..Len(r) : i = 1 \/ (i - 1 \in 1..Len(q) /\ r[i] = q[i - 1])
    BY <1>0, <2>1
  <2>3. 1 \in 1..Len(r) /\ r[1] = m
    BY <1>0, <2>1
  <2>4. \A j \in 1..Len(q) : j + 1 \in 1..Len(r) /\ r[j + 1] = q[j]
    BY <1>0, <2>1
  <2>5. \A i \in 1..Len(r) : r[i] = m \/ Has(q, r[i])
    <3> SUFFICES ASSUME NEW i \in 1..Len(r), r[i] # m PROVE Has(q, r[i])
      OBVIOUS
    <3>1. i - 1 \in 1..Len(q) /\ r[i] = q[i - 1]
      BY <2>2, <2>3
    <3> QED
      BY <3>1 DEF Has
  <2> QED
    BY <2>1, <2>3, <2>4, <2>5 DEF Has
<1> QED
  BY <1>1, <1>2 DEF Joins

(* How often a message occurs.                                             *)
LEMMA TimesEmpty == \A n : Times(<<>>, n) = 0
<1> SUFFICES ASSUME NEW n PROVE Times(<<>>, n) = 0
  OBVIOUS
<1>1. {i \in 1..Len(<<>>) : <<>>[i].id = n} = {}
  OBVIOUS
<1> QED
  BY <1>1, FS_EmptySet DEF Times

LEMMA TimesTyped ==
    ASSUME NEW q \in Seq(Messages), NEW n
    PROVE  Times(q, n) \in Nat /\ IsFiniteSet({i \in 1..Len(q) : q[i].id = n})
<1>1. Len(q) \in Nat
  BY LenProperties
<1>2. IsFiniteSet(1..Len(q))
  BY <1>1, FS_Interval
<1> QED
  BY <1>2, FS_Subset, FS_CardinalityType DEF Times

LEMMA TimesAppend ==
    ASSUME NEW q \in Seq(Messages), NEW m \in Messages, NEW n
    PROVE  Times(Append(q, m), n) = Times(q, n) + (IF m.id = n THEN 1 ELSE 0)
<1> DEFINE A == {i \in 1..Len(q) : q[i].id = n}
           B == {i \in 1..Len(Append(q, m)) : Append(q, m)[i].id = n}
<1>1. /\ Len(q) \in Nat /\ Len(Append(q, m)) = Len(q) + 1 /\ Append(q, m)[Len(q) + 1] = m
      /\ \A i \in 1..Len(q) : Append(q, m)[i] = q[i]
  BY AppendProperties, LenProperties
<1>2. B = IF m.id = n THEN A \cup {Len(q) + 1} ELSE A
  <2>1. \A i : i \in 1..(Len(q) + 1) <=> i \in 1..Len(q) \/ i = Len(q) + 1
    BY <1>1
  <2> QED
    BY <1>1, <2>1
<1>3. IsFiniteSet(A) /\ Cardinality(A) \in Nat
  BY TimesTyped, FS_CardinalityType
<1>4. Len(q) + 1 \notin A
  BY <1>1
<1> HIDE DEF A, B
<1>6. Cardinality(A \cup {Len(q) + 1}) = Cardinality(A) + 1
  BY <1>3, <1>4, FS_AddElement
<1>5. Cardinality(B) = Cardinality(A) + (IF m.id = n THEN 1 ELSE 0)
  BY <1>2, <1>3, <1>6
<1> QED
  BY <1>5 DEF Times, A, B

LEMMA TimesPrepend ==
    ASSUME NEW q \in Seq(Messages), NEW m \in Messages, NEW n
    PROVE  Times(<<m>> \o q, n) = Times(q, n) + (IF m.id = n THEN 1 ELSE 0)
<1> DEFINE r == <<m>> \o q
           A == {i \in 1..Len(q) : q[i].id = n}
           B == {i \in 1..Len(r) : r[i].id = n}
           C == B \ {1}
           f == [i \in A |-> i + 1]
<1>1. /\ Len(q) \in Nat /\ Len(r) = Len(q) + 1 /\ r[1] = m
      /\ \A i \in 1..Len(q) : i + 1 \in 1..Len(r) /\ i + 1 # 1 /\ r[i + 1] = q[i]
      /\ \A i \in 1..Len(r) : i # 1 => i - 1 \in 1..Len(q) /\ r[i] = q[i - 1]
  <2>1. r \in Seq(Messages) /\ Len(r) = 1 + Len(q) /\ Len(q) \in Nat
        /\ \A i \in 1..(1 + Len(q)) : r[i] = IF i <= 1 THEN <<m>>[i] ELSE q[i - 1]
    BY One, ConcatProperties, LenProperties
  <2>2. <<m>>[1] = m
    BY One
  <2> HIDE DEF r
  <2> QED
    BY <2>1, <2>2
<1>2. f \in Bijection(A, C)
  <2>1. \A i \in A : i + 1 \in C
    BY <1>1
  <2>2. \A j \in C : j - 1 \in A /\ (j - 1) + 1 = j
    BY <1>1
  <2>3. f \in [A -> C]
    BY <2>1
  <2>4. \A i, j \in A : f[i] = f[j] => i = j
    OBVIOUS
  <2>5. \A j \in C : \E i \in A : f[i] = j
    BY <2>2
  <2> HIDE DEF A, C, f
  <2> QED
    BY <2>3, <2>4, <2>5 DEF Bijection, Injection, Surjection, IsInjective
<1>3. IsFiniteSet(A) /\ Cardinality(A) \in Nat
  BY TimesTyped, FS_CardinalityType
<1>4. IsFiniteSet(C) /\ Cardinality(C) = Cardinality(A)
  BY <1>2, <1>3, FS_Bijection DEF ExistsBijection
<1>5. B = IF m.id = n THEN C \cup {1} ELSE C
  BY <1>1
<1> HIDE DEF A, B
<1>6. Cardinality(C \cup {1}) = Cardinality(C) + 1
  <2>1. 1 \notin C
    OBVIOUS
  <2> HIDE DEF C
  <2> QED
    BY <1>4, <2>1, FS_AddElement
<1>7. Cardinality(B) = Cardinality(A) + (IF m.id = n THEN 1 ELSE 0)
  <2> HIDE DEF C
  <2> QED
    BY <1>3, <1>4, <1>5, <1>6
<1> QED
  BY <1>7 DEF Times, A, B

LEMMA TimesTail ==
    ASSUME NEW q \in Seq(Messages), q # <<>>, NEW n
    PROVE  /\ Head(q) \in Messages /\ Tail(q) \in Seq(Messages) /\ q = <<Head(q)>> \o Tail(q)
           /\ Times(q, n) = Times(Tail(q), n) + (IF Head(q).id = n THEN 1 ELSE 0)
<1>1. Head(q) \in Messages /\ Tail(q) \in Seq(Messages) /\ Len(q) \in Nat \ {0}
      /\ Len(Tail(q)) = Len(q) - 1 /\ Head(q) = q[1]
      /\ \A i \in 1..Len(Tail(q)) : Tail(q)[i] = q[i + 1]
  BY HeadTailProperties, EmptySeq
<1>2. q = <<Head(q)>> \o Tail(q)
  <2> DEFINE r == <<Head(q)>> \o Tail(q)
  <2>1. r \in Seq(Messages) /\ Len(r) = 1 + Len(Tail(q))
        /\ \A i \in 1..(1 + Len(Tail(q))) : r[i] = IF i <= 1 THEN <<Head(q)>>[i] ELSE Tail(q)[i - 1]
    BY <1>1, One, ConcatProperties
  <2>2. <<Head(q)>>[1] = Head(q)
    OBVIOUS
  <2> HIDE DEF r
  <2>3. Len(r) = Len(q) /\ \A i \in 1..Len(q) : q[i] = r[i]
    BY <1>1, <2>1, <2>2
  <2>4. q = r
    BY <2>1, <2>3, SeqEqual
  <2> QED
    BY <2>4 DEF r
<1>3. Times(<<Head(q)>> \o Tail(q), n) = Times(Tail(q), n) + (IF Head(q).id = n THEN 1 ELSE 0)
  BY <1>1, TimesPrepend
<1> QED
  BY <1>1, <1>2, <1>3

-----------------------------------------------------------------------------
(* What a step does to the messages.                                       *)

SentOne ==
    \E m \in Messages :
        /\ m.id = taken + 1 /\ taken' = taken + 1
        /\ inbox' = Append(inbox, m)
        /\ StillDeferred' = StillDeferred /\ Hand' = Hand /\ handled' = handled

TakenOne ==
    /\ inbox # <<>>
    /\ Hand = <<>> /\ Hand' = <<Head(inbox)>>
    /\ inbox' = Tail(inbox)
    /\ StillDeferred' = StillDeferred /\ handled' = handled /\ taken' = taken

StoredOne ==
    /\ message \in Messages
    /\ Hand = <<message>> /\ Hand' = <<>>
    /\ StillDeferred' = Append(StillDeferred, message)
    /\ inbox' = inbox /\ handled' = handled /\ taken' = taken

HandledOne ==
    /\ pc = "handle" /\ ~recalling /\ pc' # "handle"
    /\ NoTransition \/ UnhandledEvent \/ \E x \in States : TransitionTo(x)
    /\ message \in Messages
    /\ Hand = <<message>> /\ Hand' = <<>>
    /\ handled' = Append(handled, message)
    /\ inbox' = inbox /\ StillDeferred' = StillDeferred /\ taken' = taken

RecalledOne ==
    \E m \in Messages :
        /\ StillDeferred = Append(StillDeferred', m)
        /\ inbox' = <<m>> \o inbox
        /\ Hand = <<>> /\ Hand' = <<>> /\ handled' = handled /\ taken' = taken

MovedNone ==
    /\ inbox' = inbox /\ StillDeferred' = StillDeferred /\ Hand' = Hand
    /\ handled' = handled /\ taken' = taken

StillShape ==
    /\ StillDeferred \in Seq(Messages) /\ Len(deferred) \in Nat
    /\ Len(StillDeferred) = (IF recalling THEN cursor ELSE Len(deferred))
    /\ \A i \in 1..Len(StillDeferred) :
          i \in 1..Len(deferred) /\ StillDeferred[i] = deferred[i].message

LEMMA StillTyped == CallsInv => StillShape
<1> SUFFICES ASSUME CallsInv PROVE StillShape
  OBVIOUS
<1> DEFINE n == IF recalling THEN cursor ELSE Len(deferred)
<1>1. deferred \in Seq(DeferredMessages) /\ Len(deferred) \in Nat /\ n \in 0..Len(deferred)
  BY LenProperties DEF CallsInv
<1>2. \A i \in 1..n : i \in 1..Len(deferred) /\ deferred[i].message \in Messages
  <2> SUFFICES ASSUME NEW i \in 1..n
               PROVE  i \in 1..Len(deferred) /\ deferred[i].message \in Messages
    OBVIOUS
  <2>1. i \in 1..Len(deferred)
    BY <1>1
  <2>2. deferred[i] \in DeferredMessages
    BY <1>1, <2>1, ElementOfSeq
  <2> QED
    BY <2>1, <2>2 DEF DeferredMessages
<1>3. StillDeferred = [i \in 1..n |-> deferred[i].message]
  BY DEF StillDeferred
<1> HIDE DEF n
<1>4. StillDeferred \in [1..n -> Messages] /\ n \in Nat
  BY <1>1, <1>2, <1>3
<1>5. StillDeferred \in Seq(Messages) /\ Len(StillDeferred) = n
  BY <1>4
<1> QED
  BY <1>1, <1>2, <1>3, <1>5 DEF n, StillShape

LEMMA MachineSteps ==
    ASSUME CallsInv, DeferralNext \/ UNCHANGED allVars
    PROVE  [Next]_vars
<1>1. ASSUME Dispatch PROVE Next
  <2>1. Head(inbox) \in Messages
    BY <1>1, HeadTailProperties DEF Dispatch, CallsInv
  <2> QED
    BY <1>1, <2>1, MessagesTyped DEF Dispatch, Next
<1>2. MachineStep => Next
  BY DEF MachineStep, Next, Running
<1>3. StoreDeferred => Next
  BY DEF StoreDeferred, Next, Running
<1>4. (\E e \in Events : Send(e)) \/ RecallOne \/ RecallDone => UNCHANGED vars
  BY DEF Send, RecallOne, RecallDone
<1> QED
  BY <1>1, <1>2, <1>3, <1>4 DEF DeferralNext, allVars

(* The steps of the machine that run an entry or exit action, and those    *)
(* that do not.                                                            *)
Acts == ExitSelf \/ Exit \/ EnterInitial \/ \E x \in States : Enter(x)
Moves ==
    \/ UnhandledEvent \/ NoTransition \/ \E x \in States : TransitionTo(x)
    \/ ExecuteActions \/ Finish

LEMMA WhatMachineSteps ==
    ASSUME BaseInv, MachineStep
    PROVE  /\ current' # Null
           /\ \/ /\ Acts /\ pc # "handle" /\ pc' \notin {"idle", "handle"}
              \/ /\ Moves \/ (current = Null /\ \E x \in StartStates : Start(x))
                 /\ \A x \in States : entered'[x] = entered[x]
                 /\ recalling' = FALSE
<1>1. \A x \in States : entered[x] \in Int
  BY DEF BaseInv, ControlInv, TypeOK
<1>2. ASSUME \A x \in States : entered'[x] = entered[x]
      PROVE  recalling' = FALSE
  <2>1. ~CallsRecall
    BY <1>1, <1>2 DEF CallsRecall
  <2> QED
    BY <2>1 DEF MachineStep
<1>3. ASSUME Acts PROVE /\ pc # "handle" /\ pc' \notin {"idle", "handle"}
                        /\ current' = current /\ pc # "idle"
  BY <1>3 DEF Acts, ExitSelf, Exit, EnterInitial, Enter
<1>4. ASSUME Moves
      PROVE  (\A x \in States : entered'[x] = entered[x]) /\ current' # Null
  <2>1. entered' = entered
    BY <1>4 DEF Moves, UnhandledEvent, NoTransition, TransitionTo, ExecuteActions, Finish
  <2>2. pc # "idle"
    BY <1>4
    DEF Moves, UnhandledEvent, NoTransition, TransitionTo, ExecuteActions, Finish, Replies
  <2>3. current # Null
    BY <2>2 DEF BaseInv, CallsInv
  <2>4. CASE Finish
    <3>1. target \in States
      BY <2>4 DEF Finish, BaseInv, ControlInv
    <3> QED
      BY <2>1, <2>4, <3>1, TreeAssumption DEF Finish
  <2>5. CASE UnhandledEvent \/ NoTransition \/ ExecuteActions
    BY <2>1, <2>3, <2>5 DEF UnhandledEvent, NoTransition, ExecuteActions
  <2>6. CASE \E x \in States : TransitionTo(x)
    BY <2>1, <2>6, TreeAssumption DEF TransitionTo
  <2> QED
    BY <1>4, <2>4, <2>5, <2>6 DEF Moves
<1>5. ASSUME current = Null, NEW x \in StartStates, Start(x)
      PROVE  (\A y \in States : entered'[y] = entered[y]) /\ current' # Null
  BY <1>5, TreeAssumption DEF Start, BaseInv, CallsInv
<1>6. \/ Acts \/ Moves
      \/ current = Null /\ \E x \in StartStates : Start(x)
  BY DEF MachineStep, Acts, Moves
<1>7. CASE Acts
  <2>1. current # Null
    BY <1>3, <1>7 DEF BaseInv, CallsInv
  <2> QED
    BY <1>3, <1>7, <2>1
<1>8. CASE Moves
  BY <1>2, <1>4, <1>8
<1>9. CASE current = Null /\ \E x \in StartStates : Start(x)
  BY <1>2, <1>5, <1>9
<1> QED
  BY <1>6, <1>7, <1>8, <1>9

LEMMA CallsStep ==
    ASSUME BaseInv, DeferralNext \/ UNCHANGED allVars
    PROVE  CallsInv'
<1> USE DEF BaseInv
<1>0. Len(deferred) \in Nat
  BY LenProperties DEF CallsInv
<1>1. ASSUME NEW e \in Events, Send(e) PROVE CallsInv'
  <2>1. [event |-> e, id |-> taken + 1] \in Messages /\ taken' \in 0..MaxMessages
    BY <1>1, MessagesTyped DEF Send, CallsInv, Messages
  <2>2. inbox' \in Seq(Messages)
    BY <1>1, <2>1, AppendProperties DEF Send, CallsInv
  <2> QED
    BY <1>1, <2>1, <2>2 DEF Send, CallsInv, vars, locals
<1>2. CASE Dispatch
  <2>1. Head(inbox) \in Messages /\ Tail(inbox) \in Seq(Messages)
    BY <1>2, HeadTailProperties DEF Dispatch, CallsInv
  <2> QED
    BY <1>2, <2>1 DEF Dispatch, React, CallsInv
<1>3. CASE StoreDeferred
  <2>1. pc = "handle" /\ current \in States /\ s \in States /\ message \in Messages /\ ~recalling
    BY <1>3, UpTyped DEF StoreDeferred, DeferEvent, Replies, ControlInv, CallsInv
  <2>2. [message |-> message, by |-> s] \in DeferredMessages
    BY <2>1 DEF DeferredMessages
  <2>3. deferred' \in Seq(DeferredMessages) /\ Len(deferred') = Len(deferred) + 1
    BY <1>3, <2>2, AppendProperties DEF StoreDeferred, CallsInv
  <2>4. current' \in States /\ current' # Null /\ pc' = "idle"
    BY <1>3, <2>1, TreeAssumption DEF StoreDeferred, DeferEvent
  <2> QED
    BY <1>0, <1>3, <2>1, <2>3, <2>4 DEF StoreDeferred, CallsInv
<1>4. CASE MachineStep
  <2>1. current' # Null /\ (recalling' => pc' \notin {"idle", "handle"})
    BY <1>4, WhatMachineSteps
  <2>2. recalling' \in BOOLEAN
    BY <1>4 DEF MachineStep, CallsRecall
  <2>3. cursor' \in 0..Len(deferred)
    BY <1>0, <1>4 DEF MachineStep
  <2>4. pc' = "handle" => pc = "handle" /\ event' = event
    BY <1>4
    DEF MachineStep, Start, UnhandledEvent, NoTransition, TransitionTo, Enter, ExitSelf, Exit,
        ExecuteActions, EnterInitial, Finish, Replies, locals
  <2>5. handled' \in Seq(Messages)
    BY <1>4, AppendProperties DEF MachineStep, CallsInv
  <2> QED
    BY <1>4, <2>1, <2>2, <2>3, <2>4, <2>5 DEF MachineStep, CallsInv
<1>5. CASE RecallOne
  <2>1. cursor \in 1..Len(deferred)
    BY <1>5 DEF RecallOne, CallsInv
  <2>2. deferred[cursor] \in DeferredMessages
    BY <2>1, ElementOfSeq DEF CallsInv
  <2>3. deferred[cursor].message \in Messages
    BY <2>2 DEF DeferredMessages
  <2>4. inbox' \in Seq(Messages)
    <3>1. Joins(inbox, deferred[cursor].message, inbox')
      BY <1>5 DEF RecallOne, Joins
    <3> QED
      BY <2>3, <3>1, Joined DEF CallsInv
  <2> QED
    BY <1>5, <2>1, <2>4 DEF RecallOne, CallsInv, vars, locals
<1>6. CASE RecallDone
  <2>1. deferred' \in Seq(DeferredMessages) /\ Len(deferred') = 0 /\ cursor' = 0
    BY <1>6, EmptySeq DEF RecallDone
  <2>2. UNCHANGED <<inbox, handled, taken, pc, message, event, current, entered>>
    BY <1>6 DEF RecallDone, vars, locals
  <2>3. recalling' = FALSE /\ current # Null
    BY <1>6 DEF RecallDone, CallsInv
  <2>4. cursor' \in 0..Len(deferred')
    BY <2>1
  <2>5. current' # Null
    BY <2>2, <2>3
  <2> QED
    BY <2>1, <2>2, <2>3, <2>4, <2>5 DEF CallsInv
<1>7. CASE UNCHANGED allVars
  BY <1>7 DEF CallsInv, allVars, messageVars, vars, locals
<1> QED
  BY <1>1, <1>2, <1>3, <1>4, <1>5, <1>6, <1>7 DEF DeferralNext

LEMMA WhatStepsDo ==
    ASSUME BaseInv, DeferralNext \/ UNCHANGED allVars
    PROVE  SentOne \/ TakenOne \/ StoredOne \/ HandledOne \/ RecalledOne \/ MovedNone
<1> USE DEF BaseInv
<1>0. CallsInv'
  BY CallsStep
<1>8. StillShape'
  BY <1>0, StillTyped, PTL
<1>9. StillShape
  BY StillTyped
<1>1. ASSUME NEW e \in Events, Send(e) PROVE SentOne
  <2>1. [event |-> e, id |-> taken + 1] \in Messages /\ taken' = taken + 1
    BY <1>1, MessagesTyped DEF Send, CallsInv, Messages
  <2>2. StillDeferred' = StillDeferred /\ Hand' = Hand /\ handled' = handled
    BY <1>1 DEF Send, StillDeferred, Hand, vars
  <2> QED
    BY <1>1, <2>1, <2>2 DEF Send, SentOne
<1>2. CASE Dispatch
  <2>1. StillDeferred' = StillDeferred /\ Hand = <<>> /\ Hand' = <<Head(inbox)>>
    BY <1>2 DEF Dispatch, React, StillDeferred, Hand
  <2> QED
    BY <1>2, <2>1 DEF Dispatch, TakenOne
<1>3. CASE StoreDeferred
  <2>1. /\ pc = "handle" /\ pc' = "idle" /\ message \in Messages /\ ~recalling /\ ~recalling'
        /\ deferred' = Append(deferred, [message |-> message, by |-> s]) /\ s \in States
        /\ deferred \in Seq(DeferredMessages)
    BY <1>3, UpTyped DEF StoreDeferred, DeferEvent, Replies, ControlInv, CallsInv
  <2>2. [message |-> message, by |-> s] \in DeferredMessages
    BY <2>1 DEF DeferredMessages
  <2>3. /\ Len(deferred) \in Nat /\ Len(deferred') = Len(deferred) + 1
        /\ \A i \in 1..Len(deferred) : deferred'[i] = deferred[i]
        /\ deferred'[Len(deferred) + 1].message = message
    BY <2>1, <2>2, AppendProperties, LenProperties
  <2>4. StillDeferred' = Append(StillDeferred, message)
    <3> DEFINE p == StillDeferred'
               q == Append(StillDeferred, message)
    <3>1. /\ p \in Seq(Messages) /\ Len(p) = Len(deferred) + 1
          /\ \A i \in 1..Len(p) : p[i] = deferred'[i].message
      BY <1>8, <2>1, <2>3 DEF StillShape
    <3>2. /\ StillDeferred \in Seq(Messages) /\ Len(StillDeferred) = Len(deferred)
          /\ \A i \in 1..Len(StillDeferred) : StillDeferred[i] = deferred[i].message
      BY <1>9, <2>1 DEF StillShape
    <3>3. /\ q \in Seq(Messages) /\ Len(q) = Len(deferred) + 1
          /\ \A i \in 1..Len(deferred) : q[i] = deferred[i].message
          /\ q[Len(deferred) + 1] = message
      BY <2>1, <3>2, AppendProperties
    <3> HIDE DEF p, q
    <3>4. \A i \in 1..Len(p) : p[i] = q[i]
      <4>1. \A i \in 1..Len(p) : i \in 1..Len(deferred) \/ i = Len(deferred) + 1
        BY <2>3, <3>1
      <4> QED
        BY <2>3, <3>1, <3>3, <4>1
    <3>5. p = q
      BY <3>1, <3>3, <3>4, SeqEqual
    <3> QED
      BY <3>5 DEF p, q
  <2>5. Hand = <<message>> /\ Hand' = <<>>
    BY <2>1 DEF Hand
  <2> QED
    BY <1>3, <2>1, <2>4, <2>5 DEF StoreDeferred, StoredOne
<1>4. CASE MachineStep
  <2>1. /\ inbox' = inbox /\ taken' = taken /\ message' = message /\ deferred' = deferred
        /\ ~recalling
    BY <1>4 DEF MachineStep
  <2>2. StillDeferred' = StillDeferred
    BY <1>4 DEF MachineStep, StillDeferred
  <2>3. CASE pc = "handle" /\ pc' # "handle"
    <3>1. message \in Messages /\ Hand = <<message>> /\ Hand' = <<>>
      BY <2>3 DEF CallsInv, Hand
    <3>2. handled' = Append(handled, message)
      BY <1>4, <2>3 DEF MachineStep
    <3>3. NoTransition \/ UnhandledEvent \/ \E x \in States : TransitionTo(x)
      BY <1>4, <2>3
      DEF MachineStep, Start, Enter, ExitSelf, Exit, ExecuteActions, EnterInitial, Finish
    <3> QED
      BY <2>1, <2>2, <2>3, <3>1, <3>2, <3>3 DEF HandledOne
  <2>4. CASE ~(pc = "handle" /\ pc' # "handle")
    <3>1. handled' = handled
      BY <1>4, <2>4 DEF MachineStep
    <3>2. pc' = "handle" => pc = "handle"
      BY <1>4
      DEF MachineStep, Start, UnhandledEvent, NoTransition, TransitionTo, Enter, ExitSelf, Exit,
          ExecuteActions, EnterInitial, Finish, Replies
    <3>3. Hand' = Hand
      BY <2>1, <2>4, <3>2 DEF Hand
    <3> QED
      BY <2>1, <2>2, <3>1, <3>3 DEF MovedNone
  <2> QED
    BY <2>3, <2>4
<1>5. CASE RecallOne
  <2> DEFINE m == deferred[cursor].message
             p == StillDeferred'
             q == Append(StillDeferred', deferred[cursor].message)
  <2>1. /\ recalling /\ recalling' /\ cursor > 0 /\ cursor' = cursor - 1
        /\ cursor \in 0..Len(deferred) /\ Len(deferred) \in Nat
        /\ deferred' = deferred /\ pc' = pc /\ pc # "handle"
        /\ inbox' = <<m>> \o inbox /\ handled' = handled /\ taken' = taken
    BY <1>5, LenProperties DEF RecallOne, CallsInv, vars
  <2>2. m \in Messages
    <3>1. deferred[cursor] \in DeferredMessages
      BY <2>1, ElementOfSeq DEF CallsInv
    <3> QED
      BY <3>1 DEF DeferredMessages
  <2>3. /\ p \in Seq(Messages) /\ Len(p) = cursor - 1
        /\ \A i \in 1..Len(p) : p[i] = deferred[i].message
    BY <1>8, <2>1 DEF StillShape
  <2>4. /\ StillDeferred \in Seq(Messages) /\ Len(StillDeferred) = cursor
        /\ \A i \in 1..Len(StillDeferred) : StillDeferred[i] = deferred[i].message
    BY <1>9, <2>1 DEF StillShape
  <2>5. /\ q \in Seq(Messages) /\ Len(q) = cursor
        /\ \A i \in 1..(cursor - 1) : q[i] = deferred[i].message
        /\ q[cursor] = m
    <3> HIDE DEF m, p
    <3>1. /\ Append(p, m) \in Seq(Messages) /\ Len(Append(p, m)) = cursor
          /\ \A i \in 1..(cursor - 1) : Append(p, m)[i] = deferred[i].message
          /\ Append(p, m)[cursor] = m
      BY <2>1, <2>2, <2>3, AppendProperties
    <3> QED
      BY <3>1 DEF m, p
  <2>6. StillDeferred = q
    <3> HIDE DEF q
    <3>1. \A i \in 1..Len(q) : i \in 1..(cursor - 1) \/ i = cursor
      BY <2>1, <2>5
    <3>2. \A i \in 1..Len(q) : StillDeferred[i] = q[i]
      BY <2>4, <2>5, <3>1
    <3> QED
      BY <2>4, <2>5, <3>2, SeqEqual
  <2>7. Hand = <<>> /\ Hand' = <<>>
    BY <2>1 DEF Hand
  <2> QED
    BY <2>1, <2>2, <2>6, <2>7 DEF RecalledOne
<1>6. CASE RecallDone
  <2>1. recalling /\ ~recalling' /\ cursor = 0 /\ deferred' = <<>>
    BY <1>6 DEF RecallDone
  <2>2. StillDeferred = <<>>
    BY <1>9, <2>1, EmptySeq DEF StillShape
  <2>3. StillDeferred' = <<>>
    <3>1. StillDeferred' \in Seq(Messages) /\ Len(StillDeferred') = 0
      BY <1>8, <2>1, EmptySeq DEF StillShape
    <3> QED
      BY <3>1, EmptySeq
  <2>4. Hand' = Hand
    BY <1>6 DEF RecallDone, Hand, vars
  <2> QED
    BY <1>6, <2>2, <2>3, <2>4 DEF RecallDone, MovedNone
<1>7. CASE UNCHANGED allVars
  BY <1>7 DEF allVars, messageVars, vars, MovedNone, StillDeferred, Hand
<1> QED
  BY <1>1, <1>2, <1>3, <1>4, <1>5, <1>6, <1>7 DEF DeferralNext

-----------------------------------------------------------------------------
(* No message is lost or doubled.                                          *)

LEMMA InitCalls == DeferralInit => BaseInv /\ CountInv
<1> SUFFICES ASSUME DeferralInit PROVE BaseInv /\ CountInv
  OBVIOUS
<1>1. ControlInv
  BY InitControl DEF DeferralInit
<1>2. CallsInv
  <2>1. /\ Len(deferred) = 0 /\ pc = "idle" /\ cursor = 0 /\ taken = 0
        /\ \A x \in States : entered[x] = 0
    BY DEF DeferralInit, Init
  <2>2. deferred \in Seq(DeferredMessages) /\ inbox \in Seq(Messages) /\ handled \in Seq(Messages)
    BY EmptySeq DEF DeferralInit
  <2>3. deferred = <<>> /\ recalling = FALSE /\ cursor \in 0..0 /\ taken \in 0..MaxMessages
    BY MessagesTyped DEF DeferralInit
  <2> QED
    BY <2>1, <2>2, <2>3 DEF CallsInv
<1>3. CountInv
  <2>1. StillDeferred = <<>>
    BY <1>2, StillTyped, EmptySeq DEF StillShape, DeferralInit
  <2>2. inbox = <<>> /\ handled = <<>> /\ Hand = <<>> /\ taken = 0
    BY DEF DeferralInit, Init, Hand
  <2>3. Times(<<>>, 0) = 0 /\ \A n : Times(<<>>, n) = 0
    BY TimesEmpty
  <2> QED
    BY <2>1, <2>2, <2>3 DEF CountInv
<1> QED
  BY <1>1, <1>2, <1>3 DEF BaseInv

LEMMA HandTyped ==
    CallsInv => Hand \in Seq(Messages)
BY EmptySeq, One DEF CallsInv, Hand

LEMMA CountStep ==
    ASSUME BaseInv, CountInv, DeferralNext \/ UNCHANGED allVars
    PROVE  CountInv'
<1> DEFINE Found(n) ==
               Times(inbox, n) + Times(StillDeferred, n) + Times(handled, n) + Times(Hand, n)
           Finds(n) ==
               Times(inbox', n) + Times(StillDeferred', n) + Times(handled', n) + Times(Hand', n)
<1>0. CallsInv /\ CallsInv'
  BY CallsStep DEF BaseInv
<1>1. /\ inbox \in Seq(Messages) /\ StillDeferred \in Seq(Messages)
      /\ handled \in Seq(Messages) /\ Hand \in Seq(Messages) /\ taken \in Nat
  BY <1>0, HandTyped, StillTyped DEF StillShape, CallsInv
<1>2. StillShape'
  BY <1>0, StillTyped, PTL
<1>3. inbox' \in Seq(Messages) /\ StillDeferred' \in Seq(Messages) /\ handled' \in Seq(Messages)
  BY <1>0, <1>2 DEF StillShape, CallsInv
<1>4. ASSUME NEW n \in Nat \ {0}
      PROVE  Finds(n) = IF n <= taken' THEN 1 ELSE 0
  <2>1. Found(n) = IF n <= taken THEN 1 ELSE 0
    BY DEF CountInv
  <2>2. /\ Times(inbox, n) \in Nat /\ Times(StillDeferred, n) \in Nat /\ Times(handled, n) \in Nat
        /\ Times(Hand, n) \in Nat /\ Times(inbox', n) \in Nat /\ Times(StillDeferred', n) \in Nat
    BY <1>1, <1>3, TimesTyped
  <2>3. \A m \in Messages : Times(<<m>>, n) = (IF m.id = n THEN 1 ELSE 0)
    <3> SUFFICES ASSUME NEW m \in Messages PROVE Times(<<m>>, n) = (IF m.id = n THEN 1 ELSE 0)
      OBVIOUS
    <3>1. <<>> \in Seq(Messages) /\ Append(<<>>, m) = <<m>>
      OBVIOUS
    <3>2. Times(Append(<<>>, m), n) = Times(<<>>, n) + (IF m.id = n THEN 1 ELSE 0)
      BY <3>1, TimesAppend
    <3> QED
      BY <3>1, <3>2, TimesEmpty
  <2>4. Times(<<>>, n) = 0
    BY TimesEmpty
  <2>5. CASE SentOne
    <3>1. PICK m \in Messages :
              /\ m.id = taken + 1 /\ taken' = taken + 1
              /\ inbox' = Append(inbox, m)
              /\ StillDeferred' = StillDeferred /\ Hand' = Hand /\ handled' = handled
      BY <2>5 DEF SentOne
    <3>2. Times(inbox', n) = Times(inbox, n) + (IF m.id = n THEN 1 ELSE 0)
      BY <1>1, <3>1, TimesAppend
    <3> QED
      BY <1>1, <2>1, <2>2, <3>1, <3>2
  <2>6. CASE TakenOne
    <3>1. Head(inbox) \in Messages
          /\ Times(inbox, n) = Times(inbox', n) + (IF Head(inbox).id = n THEN 1 ELSE 0)
      BY <1>1, <2>6, TimesTail DEF TakenOne
    <3>2. Times(Hand, n) = 0 /\ Times(Hand', n) = (IF Head(inbox).id = n THEN 1 ELSE 0)
      BY <2>3, <2>4, <2>6, <3>1 DEF TakenOne
    <3>3. /\ Times(StillDeferred', n) = Times(StillDeferred, n)
          /\ Times(handled', n) = Times(handled, n) /\ taken' = taken
      BY <2>6 DEF TakenOne
    <3> QED
      BY <2>1, <2>2, <3>1, <3>2, <3>3
  <2>7. CASE StoredOne
    <3>1. Times(StillDeferred', n) = Times(StillDeferred, n) + (IF message.id = n THEN 1 ELSE 0)
      BY <1>1, <2>7, TimesAppend DEF StoredOne
    <3>2. Times(Hand, n) = (IF message.id = n THEN 1 ELSE 0) /\ Times(Hand', n) = 0
      BY <2>3, <2>4, <2>7 DEF StoredOne
    <3>3. /\ Times(inbox', n) = Times(inbox, n) /\ Times(handled', n) = Times(handled, n)
          /\ taken' = taken
      BY <2>7 DEF StoredOne
    <3> QED
      BY <2>1, <2>2, <3>1, <3>2, <3>3
  <2>8. CASE HandledOne
    <3>1. Times(handled', n) = Times(handled, n) + (IF message.id = n THEN 1 ELSE 0)
      BY <1>1, <2>8, TimesAppend DEF HandledOne
    <3>2. Times(Hand, n) = (IF message.id = n THEN 1 ELSE 0) /\ Times(Hand', n) = 0
      BY <2>3, <2>4, <2>8 DEF HandledOne
    <3>3. Times(inbox', n) = Times(inbox, n) /\ Times(StillDeferred', n) = Times(StillDeferred, n)
          /\ taken' = taken
      BY <2>8 DEF HandledOne
    <3> QED
      BY <2>1, <2>2, <3>1, <3>2, <3>3
  <2>9. CASE RecalledOne
    <3>1. PICK m \in Messages :
              /\ StillDeferred = Append(StillDeferred', m)
              /\ inbox' = <<m>> \o inbox
              /\ Hand' = Hand /\ handled' = handled /\ taken' = taken
      BY <2>9 DEF RecalledOne
    <3>2. Times(inbox', n) = Times(inbox, n) + (IF m.id = n THEN 1 ELSE 0)
      BY <1>1, <3>1, TimesPrepend
    <3>3. Times(Append(StillDeferred', m), n)
            = Times(StillDeferred', n) + (IF m.id = n THEN 1 ELSE 0)
      BY <1>3, TimesAppend
    <3>4. Times(StillDeferred, n) = Times(StillDeferred', n) + (IF m.id = n THEN 1 ELSE 0)
      BY <3>1, <3>3
    <3> QED
      BY <2>1, <2>2, <3>1, <3>2, <3>4
  <2>10. CASE MovedNone
    BY <2>1, <2>10 DEF MovedNone
  <2> QED
    BY <2>5, <2>6, <2>7, <2>8, <2>9, <2>10, WhatStepsDo
<1> QED
  BY <1>4 DEF CountInv, Times

LEMMA BaseStep ==
    BaseInv /\ (DeferralNext \/ UNCHANGED allVars) => BaseInv'
<1> SUFFICES ASSUME BaseInv, DeferralNext \/ UNCHANGED allVars PROVE BaseInv'
  OBVIOUS
<1>1. [Next]_vars
  BY MachineSteps DEF BaseInv
<1>2. ControlInv'
  BY <1>1, NextControl DEF BaseInv
<1> QED
  BY <1>2, CallsStep DEF BaseInv

(* Whatever the handlers reply and whichever actions recall, a message     *)
(* that was sent is in the queue, deferred, being handled or was handled,  *)
(* in one of these places and once.                                        *)
THEOREM NoMessageIsLost == DeferralSpec => []EachMessageOnce
<1>1. BaseInv /\ CountInv /\ [DeferralNext]_allVars => BaseInv' /\ CountInv'
  BY BaseStep, CountStep
<1>2. BaseInv /\ CountInv => EachMessageOnce
  <2> SUFFICES ASSUME BaseInv, CountInv, NEW n \in 1..taken
               PROVE  Times(inbox, n) + Times(StillDeferred, n) + Times(handled, n)
                        + (IF pc = "handle" /\ message.id = n THEN 1 ELSE 0) = 1
    BY DEF EachMessageOnce
  <2>1. taken \in Nat /\ (pc = "handle" => message \in Messages)
    BY DEF BaseInv, CallsInv
  <2>2. Times(Hand, n) = (IF pc = "handle" /\ message.id = n THEN 1 ELSE 0)
    <3>1. CASE pc = "handle"
      <4>1. <<>> \in Seq(Messages) /\ Append(<<>>, message) = <<message>>
        OBVIOUS
      <4>2. Times(Append(<<>>, message), n) = Times(<<>>, n) + (IF message.id = n THEN 1 ELSE 0)
        BY <2>1, <3>1, <4>1, TimesAppend
      <4> QED
        BY <3>1, <4>1, <4>2, TimesEmpty DEF Hand
    <3>2. CASE pc # "handle"
      BY <3>2, TimesEmpty DEF Hand
    <3> QED
      BY <3>1, <3>2
  <2>3. n \in Nat \ {0} /\ n <= taken
    BY <2>1
  <2> QED
    BY <2>2, <2>3 DEF CountInv
<1> QED
  BY <1>1, <1>2, InitCalls, PTL DEF DeferralSpec

-----------------------------------------------------------------------------
(* Deferred until the state is exited.                                     *)

LEMMA DeferredTyped ==
    ASSUME CallsInv, NEW i \in 1..Len(deferred)
    PROVE  /\ deferred[i].by \in States /\ deferred[i].message \in Messages
           /\ deferred[i].message.event \in Events
<1>1. deferred[i] \in DeferredMessages
  BY ElementOfSeq DEF CallsInv
<1> QED
  BY <1>1, MessagesTyped DEF DeferredMessages

(* The state asked is one of the active ones.                              *)
LEMMA AskedIsActive ==
    ASSUME ControlInv, PairingInv, pc = "handle"
    PROVE  /\ current \in States /\ Active = Up[current] /\ s \in Active /\ s \in States
           /\ event \in Events
BY UpTyped, TreeAssumption DEF ControlInv, PairingInv, UpTo

LEMMA StoredFacts ==
    ASSUME BaseInv, StoreDeferred
    PROVE  /\ pc = "handle" /\ kDeferEvent \in Handler[<<s, event>>] /\ message.event = event
           /\ Len(deferred) \in Nat /\ Len(deferred') = Len(deferred) + 1
           /\ \A i \in 1..Len(deferred) : deferred'[i] = deferred[i]
           /\ deferred'[Len(deferred) + 1].by = s
           /\ deferred'[Len(deferred) + 1].message = message
           /\ UNCHANGED <<current, entered>>
<1>1. /\ pc = "handle" /\ kDeferEvent \in Handler[<<s, event>>] /\ message.event = event
      /\ s \in States /\ message \in Messages
      /\ UNCHANGED <<current, entered>>
      /\ deferred' = Append(deferred, [message |-> message, by |-> s])
  BY UpTyped
  DEF StoreDeferred, DeferEvent, Replies, BaseInv, CallsInv, ControlInv
<1>2. [message |-> message, by |-> s] \in DeferredMessages /\ deferred \in Seq(DeferredMessages)
  BY <1>1 DEF DeferredMessages, BaseInv, CallsInv
<1> QED
  BY <1>1, <1>2, AppendProperties, LenProperties

LEMMA DeferrersStep ==
    ASSUME BaseInv, Deferrers, DeferralNext \/ UNCHANGED allVars
    PROVE  Deferrers'
<1>1. CASE UNCHANGED deferred
  BY <1>1 DEF Deferrers
<1>2. CASE StoreDeferred
  <2>1. \A i \in 1..Len(deferred') : i \in 1..Len(deferred) \/ i = Len(deferred) + 1
    BY <1>2, StoredFacts
  <2> QED
    BY <1>2, <2>1, StoredFacts DEF Deferrers
<1>3. CASE RecallDone
  BY <1>3 DEF RecallDone, Deferrers
<1> QED
  BY <1>1, <1>2, <1>3
  DEF DeferralNext, Send, Dispatch, MachineStep, RecallOne, allVars, messageVars

LEMMA ActiveStaysSame ==
    ASSUME entered' = entered PROVE Active' = Active
BY DEF Active

(* An exit of a state that deferred an event recalls it.                   *)
LEMMA StillActiveStep ==
    ASSUME RecallsOnExit, BaseInv, PairingInv, PairingInv', Deferrers, DeferrersInv,
           DeferralNext \/ UNCHANGED allVars
    PROVE  DeferrersInv'
<1>1. CASE (\E e \in Events : Send(e)) \/ Dispatch \/ UNCHANGED allVars
  <2>1. entered' = entered /\ recalling' = recalling /\ deferred' = deferred
    BY <1>1 DEF Send, Dispatch, React, allVars, messageVars, vars
  <2> QED
    BY <2>1, ActiveStaysSame DEF DeferrersInv
<1>2. CASE StoreDeferred
  <2>1. s \in Active /\ Active' = Active
    BY <1>2, StoredFacts, AskedIsActive, ActiveStaysSame DEF BaseInv
  <2>2. ~recalling
    BY <1>2, StoredFacts DEF BaseInv, CallsInv
  <2>3. \A i \in 1..Len(deferred') : i \in 1..Len(deferred) \/ i = Len(deferred) + 1
    BY <1>2, StoredFacts
  <2> QED
    BY <1>2, <2>1, <2>2, <2>3, StoredFacts DEF DeferrersInv
<1>3. CASE MachineStep
  <2> SUFFICES ASSUME ~recalling', NEW i \in 1..Len(deferred)
               PROVE  deferred[i].by \in Active'
    BY <1>3 DEF DeferrersInv, MachineStep
  <2> DEFINE y == deferred[i].by
  <2>1. y \in Active /\ y \in States /\ deferred[i].message.event \in Events
    BY <1>3, DeferredTyped DEF DeferrersInv, MachineStep, BaseInv
  <2>2. y \in RecallOnExit
    BY <2>1 DEF Deferrers, RecallsOnExit
  <2>3. entered'[y] # entered[y] - 1
    BY <1>3, <2>1, <2>2 DEF MachineStep, CallsRecall
  <2>4. entered[y] = 1 /\ entered'[y] \in {0, 1}
    BY <2>1 DEF Active, PairingInv, EntryExitAlternate
  <2> QED
    BY <2>1, <2>3, <2>4 DEF Active
<1>4. CASE RecallOne \/ RecallDone
  BY <1>4 DEF RecallOne, RecallDone, DeferrersInv
<1> QED
  BY <1>1, <1>2, <1>3, <1>4 DEF DeferralNext

LEMMA InitDeferrers == DeferralInit => Deferrers /\ DeferrersInv /\ AskedInv
<1> SUFFICES ASSUME DeferralInit PROVE Deferrers /\ DeferrersInv /\ AskedInv
  OBVIOUS
<1>1. Len(deferred) = 0 /\ pc = "idle"
  BY DEF DeferralInit, Init
<1> QED
  BY <1>1 DEF Deferrers, DeferrersInv, AskedInv

PlaceInv == BaseInv /\ PairingInv /\ Deferrers /\ DeferrersInv

LEMMA PlaceStep ==
    ASSUME LevelTransitions, RecallsOnExit
    PROVE  PlaceInv /\ [DeferralNext]_allVars => PlaceInv'
<1> SUFFICES ASSUME PlaceInv, DeferralNext \/ UNCHANGED allVars PROVE PlaceInv'
  OBVIOUS
<1>1. BaseInv'
  BY BaseStep DEF PlaceInv
<1>2. [Next]_vars
  BY MachineSteps DEF PlaceInv, BaseInv
<1>3. PairingInv'
  BY <1>2, NextPairing DEF PlaceInv, BaseInv
<1> QED
  BY <1>1, <1>3, DeferrersStep, StillActiveStep DEF PlaceInv

LEMMA InitPlace == DeferralInit => PlaceInv
BY InitCalls, InitDeferrers, InitPairing DEF PlaceInv, DeferralInit

(* If the states that defer recall on exit, what is deferred between two   *)
(* calls was deferred by a state that is active.                           *)
THEOREM DeferredWhileActive ==
    ASSUME LevelTransitions, RecallsOnExit
    PROVE  DeferralSpec => []DeferredUntilExit
<1>1. PlaceInv => DeferredUntilExit
  BY DEF PlaceInv, DeferrersInv, DeferredUntilExit, Active
<1>2. PlaceInv /\ [DeferralNext]_allVars => PlaceInv'
  BY PlaceStep
<1> QED
  BY <1>1, <1>2, InitPlace, PTL DEF DeferralSpec

-----------------------------------------------------------------------------
(* The order.                                                              *)

(* An event is handled when none of its kind is deferred any more.         *)
LEMMA AskedStep ==
    ASSUME DefersFirmly, BaseInv, AskedInv, DeferralNext \/ UNCHANGED allVars
    PROVE  AskedInv'
<1> SUFFICES ASSUME pc' = "handle", NEW x \in Up[current'],
                    kDeferEvent \in Handler[<<x, event'>>]
             PROVE  x \in Up[s']
  BY DEF AskedInv
<1>1. CASE Dispatch
  BY <1>1 DEF Dispatch, React
<1>2. CASE UNCHANGED vars
  BY <1>2 DEF AskedInv, vars, locals
<1>3. CASE MachineStep
  <2>1. UnhandledEvent
    BY <1>3
    DEF MachineStep, Start, NoTransition, TransitionTo, Enter, ExitSelf, Exit, ExecuteActions,
        EnterInitial, Finish, Replies
  <2>2. /\ pc = "handle" /\ Null \in Handler[<<s, event>>] /\ s' = Parent[s]
        /\ current' = current /\ event' = event /\ Parent[s] # Null
    BY <2>1 DEF UnhandledEvent, Replies
  <2>3. /\ x \in Up[s] /\ s \in States /\ current \in States /\ event \in Events
        /\ x \in States
    BY <2>2, UpTyped DEF AskedInv, BaseInv, ControlInv
  <2>4. x # s
    BY <2>2, <2>3, HandlerAssumption DEF DefersFirmly
  <2> QED
    BY <2>2, <2>3, <2>4, UpStep
<1>4. CASE StoreDeferred
  BY <1>4 DEF StoreDeferred, DeferEvent
<1>5. (\E e \in Events : Send(e)) \/ RecallOne \/ RecallDone => UNCHANGED vars
  BY DEF Send, RecallOne, RecallDone
<1> QED
  BY <1>1, <1>2, <1>3, <1>4, <1>5 DEF DeferralNext, allVars

LEMMA NoneLeftOfItsKind ==
    ASSUME DefersFirmly, PlaceInv, AskedInv, HandledOne
    PROVE  \A i \in 1..Len(deferred) : deferred[i].message.event # message.event
<1> SUFFICES ASSUME NEW i \in 1..Len(deferred), deferred[i].message.event = message.event
             PROVE  FALSE
  OBVIOUS
<1> DEFINE x == deferred[i].by
<1>1. pc = "handle" /\ pc' # "handle" /\ ~recalling /\ message.event = event
  BY DEF HandledOne, PlaceInv, BaseInv, CallsInv
<1>2. x \in Active /\ x \in States /\ kDeferEvent \in Handler[<<x, event>>]
  BY <1>1, DeferredTyped DEF PlaceInv, BaseInv, DeferrersInv, Deferrers
<1>3. current \in States /\ Active = Up[current] /\ s \in States /\ event \in Events
  BY <1>1, AskedIsActive DEF PlaceInv, BaseInv
<1>4. x \in Up[s]
  BY <1>1, <1>2, <1>3 DEF AskedInv
<1>5. PICK reply \in States \cup {Null, kNone} :
          reply \in Handler[<<s, event>>] /\ (reply = Null => Parent[s] = Null)
  <2>1. CASE NoTransition
    <3>1. kNone \in Handler[<<s, event>>] /\ kNone # Null
      BY <2>1, HandlerAssumption DEF NoTransition, Replies
    <3> QED
      BY <3>1
  <2>2. CASE UnhandledEvent
    BY <1>1, <2>2 DEF UnhandledEvent, Replies
  <2>3. CASE \E y \in States : TransitionTo(y)
    BY <2>3, TreeAssumption DEF TransitionTo, Replies
  <2> QED
    BY <2>1, <2>2, <2>3 DEF HandledOne
<1>6. CASE s = x
  BY <1>2, <1>3, <1>5, <1>6, HandlerAssumption DEF DefersFirmly
<1>7. CASE s # x
  <2>1. Parent[s] # Null
    BY <1>3, <1>4, <1>7, UpStep, TreeAssumption
  <2>2. reply = Null
    BY <1>2, <1>3, <1>4, <1>5, <1>7 DEF DefersFirmly
  <2> QED
    BY <1>5, <2>1, <2>2
<1> QED
  BY <1>6, <1>7

LEMMA OrderEmpty ==
    /\ InOrder(<<>>) /\ \A n : Known(<<>>, n)
    /\ \A p : Older(<<>>, p) /\ Older(p, <<>>)
BY DEF InOrder, Older, Known

LEMMA OrderOne ==
    ASSUME NEW m \in Messages, NEW n
    PROVE  InOrder(<<m>>) /\ (Known(<<m>>, n) <=> m.id <= n)
<1>1. \A i \in 1..Len(<<m>>) : i = 1 /\ <<m>>[i] = m
  OBVIOUS
<1>2. 1 \in 1..Len(<<m>>)
  OBVIOUS
<1> QED
  BY <1>1, <1>2 DEF InOrder, Known

LEMMA OrderOfKnown ==
    ASSUME NEW q \in Seq(Messages), NEW m \in Messages, Known(q, m.id - 1)
    PROVE  Older(q, <<m>>) /\ Known(q, m.id)
<1>1. \A j \in 1..Len(<<m>>) : <<m>>[j] = m
  OBVIOUS
<1>2. \A i \in 1..Len(q) : q[i].id \in Nat /\ m.id \in Nat
  BY ElementOfSeq, MessagesTyped
<1> QED
  BY <1>1, <1>2 DEF Older, Known

LEMMA OrderOfDifferent ==
    ASSUME NEW q, NEW m, \A i \in 1..Len(q) : q[i].event # m.event
    PROVE  Older(<<m>>, q)
<1>1. \A j \in 1..Len(<<m>>) : <<m>>[j] = m
  OBVIOUS
<1> QED
  BY <1>1 DEF Older

(* A message in front or at the end, and others.                           *)
LEMMA OrderJoined ==
    ASSUME NEW q \in Seq(Messages), NEW m \in Messages, NEW r, Joins(q, m, r)
    PROVE  /\ \A p : Older(p, r) <=> Older(p, q) /\ Older(p, <<m>>)
           /\ \A p : Older(r, p) <=> Older(q, p) /\ Older(<<m>>, p)
           /\ \A n : Known(r, n) <=> Known(q, n) /\ Known(<<m>>, n)
<1>0. /\ \A i \in 1..Len(r) : r[i] = m \/ Has(q, r[i])
      /\ Has(r, m)
      /\ \A j \in 1..Len(q) : Has(r, q[j])
  BY Joined
<1>1. /\ \A i \in 1..Len(r) : r[i] = m \/ \E j \in 1..Len(q) : r[i] = q[j]
      /\ \E i \in 1..Len(r) : r[i] = m
      /\ \A j \in 1..Len(q) : \E i \in 1..Len(r) : r[i] = q[j]
  BY <1>0 DEF Has
<1>2. (\A j \in 1..Len(<<m>>) : <<m>>[j] = m) /\ 1 \in 1..Len(<<m>>)
  OBVIOUS
<1>3. ASSUME NEW p PROVE Older(p, r) <=> Older(p, q) /\ Older(p, <<m>>)
  <2>1. Older(p, <<m>>) <=> \A i \in 1..Len(p) : p[i].event = m.event => p[i].id < m.id
    BY <1>2 DEF Older
  <2>2. ASSUME Older(p, r) PROVE Older(p, q) /\ Older(p, <<m>>)
    <3>1. Older(p, q)
      BY <1>1, <2>2 DEF Older
    <3>2. Older(p, <<m>>)
      BY <1>1, <2>1, <2>2 DEF Older
    <3> QED
      BY <3>1, <3>2
  <2>3. ASSUME Older(p, q), Older(p, <<m>>) PROVE Older(p, r)
    <3> SUFFICES ASSUME NEW i \in 1..Len(p), NEW j \in 1..Len(r), p[i].event = r[j].event
                 PROVE  p[i].id < r[j].id
      BY DEF Older
    <3>1. CASE r[j] = m
      BY <2>1, <2>3, <3>1
    <3>2. CASE \E k \in 1..Len(q) : r[j] = q[k]
      BY <2>3, <3>2 DEF Older
    <3> QED
      BY <1>1, <3>1, <3>2
  <2> QED
    BY <2>2, <2>3
<1>4. ASSUME NEW p PROVE Older(r, p) <=> Older(q, p) /\ Older(<<m>>, p)
  <2>1. Older(<<m>>, p) <=> \A i \in 1..Len(p) : p[i].event = m.event => m.id < p[i].id
    BY <1>2 DEF Older
  <2>2. ASSUME Older(r, p) PROVE Older(q, p) /\ Older(<<m>>, p)
    <3>1. Older(q, p)
      <4> SUFFICES ASSUME NEW j \in 1..Len(q), NEW k \in 1..Len(p), q[j].event = p[k].event
                   PROVE  q[j].id < p[k].id
        BY DEF Older
      <4>1. PICK i \in 1..Len(r) : r[i] = q[j]
        BY <1>1
      <4> QED
        BY <2>2, <4>1 DEF Older
    <3>2. Older(<<m>>, p)
      BY <1>1, <2>1, <2>2 DEF Older
    <3> QED
      BY <3>1, <3>2
  <2>3. ASSUME Older(q, p), Older(<<m>>, p) PROVE Older(r, p)
    <3> SUFFICES ASSUME NEW i \in 1..Len(r), NEW j \in 1..Len(p), r[i].event = p[j].event
                 PROVE  r[i].id < p[j].id
      BY DEF Older
    <3>1. CASE r[i] = m
      BY <2>1, <2>3, <3>1
    <3>2. CASE \E k \in 1..Len(q) : r[i] = q[k]
      BY <2>3, <3>2 DEF Older
    <3> QED
      BY <1>1, <3>1, <3>2
  <2> QED
    BY <2>2, <2>3
<1>5. ASSUME NEW n PROVE Known(r, n) <=> Known(q, n) /\ Known(<<m>>, n)
  <2>1. Known(<<m>>, n) <=> m.id <= n
    BY <1>2 DEF Known
  <2> QED
    BY <1>1, <2>1 DEF Known
<1> QED
  BY <1>3, <1>4, <1>5

LEMMA OrderAppended ==
    ASSUME NEW q \in Seq(Messages), NEW m \in Messages
    PROVE  InOrder(Append(q, m)) <=> InOrder(q) /\ Older(q, <<m>>)
<1> DEFINE r == Append(q, m)
<1>1. /\ Len(q) \in Nat /\ Len(r) = Len(q) + 1 /\ r[Len(q) + 1] = m
      /\ \A i \in 1..Len(q) : r[i] = q[i]
  BY AppendProperties, LenProperties
<1>2. Older(q, <<m>>) <=> \A i \in 1..Len(q) : q[i].event = m.event => q[i].id < m.id
  <2>1. (\A j \in 1..Len(<<m>>) : <<m>>[j] = m) /\ 1 \in 1..Len(<<m>>)
    OBVIOUS
  <2> QED
    BY <2>1 DEF Older
<1> HIDE DEF r
<1>3. \A i \in 1..Len(r) : i \in 1..Len(q) \/ i = Len(q) + 1
  BY <1>1
<1>4. Len(q) + 1 \in 1..Len(r) /\ \A i \in 1..Len(q) : i \in 1..Len(r) /\ i < Len(q) + 1
  BY <1>1
<1>5. ASSUME InOrder(r) PROVE InOrder(q) /\ Older(q, <<m>>)
  <2>1. InOrder(q)
    BY <1>1, <1>4, <1>5 DEF InOrder
  <2>2. Older(q, <<m>>)
    BY <1>1, <1>2, <1>4, <1>5 DEF InOrder
  <2> QED
    BY <2>1, <2>2
<1>6. ASSUME InOrder(q), Older(q, <<m>>) PROVE InOrder(r)
  <2> SUFFICES ASSUME NEW i \in 1..Len(r), NEW j \in 1..Len(r), i < j,
                      r[i].event = r[j].event
               PROVE  r[i].id < r[j].id
    BY DEF InOrder
  <2>1. i \in 1..Len(q)
    BY <1>1
  <2>2. CASE j \in 1..Len(q)
    BY <1>1, <1>6, <2>1, <2>2 DEF InOrder
  <2>3. CASE j = Len(q) + 1
    BY <1>1, <1>2, <1>6, <2>1, <2>3
  <2> QED
    BY <1>3, <2>2, <2>3
<1> QED
  BY <1>5, <1>6 DEF r

LEMMA OrderPrepended ==
    ASSUME NEW q \in Seq(Messages), NEW m \in Messages
    PROVE  InOrder(<<m>> \o q) <=> InOrder(q) /\ Older(<<m>>, q)
<1> DEFINE r == <<m>> \o q
<1>1. /\ Len(q) \in Nat /\ Len(r) = Len(q) + 1 /\ r[1] = m
      /\ \A i \in 1..Len(r) : i # 1 => i - 1 \in 1..Len(q) /\ r[i] = q[i - 1]
      /\ \A i \in 1..Len(q) : i + 1 \in 1..Len(r) /\ r[i + 1] = q[i]
  <2>1. r \in Seq(Messages) /\ Len(r) = 1 + Len(q) /\ Len(q) \in Nat
        /\ \A i \in 1..(1 + Len(q)) : r[i] = IF i <= 1 THEN <<m>>[i] ELSE q[i - 1]
    BY One, ConcatProperties, LenProperties
  <2>2. <<m>>[1] = m
    BY One
  <2> HIDE DEF r
  <2> QED
    BY <2>1, <2>2
<1>2. Older(<<m>>, q) <=> \A i \in 1..Len(q) : q[i].event = m.event => m.id < q[i].id
  <2>1. (\A j \in 1..Len(<<m>>) : <<m>>[j] = m) /\ 1 \in 1..Len(<<m>>)
    OBVIOUS
  <2> QED
    BY <2>1 DEF Older
<1> HIDE DEF r
<1>3. 1 \in 1..Len(r)
  BY <1>1
<1>5. ASSUME InOrder(r) PROVE InOrder(q) /\ Older(<<m>>, q)
  <2>1. InOrder(q)
    <3> SUFFICES ASSUME NEW i \in 1..Len(q), NEW j \in 1..Len(q), i < j,
                        q[i].event = q[j].event
                 PROVE  q[i].id < q[j].id
      BY DEF InOrder
    <3>1. /\ i + 1 \in 1..Len(r) /\ j + 1 \in 1..Len(r) /\ i + 1 < j + 1
          /\ r[i + 1] = q[i] /\ r[j + 1] = q[j]
      BY <1>1
    <3> QED
      BY <1>5, <3>1 DEF InOrder
  <2>2. ASSUME NEW i \in 1..Len(q), q[i].event = m.event PROVE m.id < q[i].id
    <3>1. i + 1 \in 1..Len(r) /\ 1 < i + 1 /\ r[i + 1] = q[i]
      BY <1>1
    <3> QED
      BY <1>1, <1>3, <1>5, <2>2, <3>1 DEF InOrder
  <2> QED
    BY <1>2, <2>1, <2>2
<1>6. ASSUME InOrder(q), Older(<<m>>, q) PROVE InOrder(r)
  <2> SUFFICES ASSUME NEW i \in 1..Len(r), NEW j \in 1..Len(r), i < j,
                      r[i].event = r[j].event
               PROVE  r[i].id < r[j].id
    BY DEF InOrder
  <2>1. j # 1 /\ j - 1 \in 1..Len(q) /\ r[j] = q[j - 1]
    BY <1>1
  <2>2. CASE i = 1
    BY <1>1, <1>2, <1>6, <2>1, <2>2
  <2>3. CASE i # 1
    <3>1. i - 1 \in 1..Len(q) /\ r[i] = q[i - 1] /\ i - 1 < j - 1
      BY <1>1, <2>3
    <3> QED
      BY <1>6, <2>1, <3>1 DEF InOrder
  <2> QED
    BY <2>2, <2>3
<1> QED
  BY <1>5, <1>6 DEF r

LEMMA HandledKinds ==
    ASSUME DefersFirmly, PlaceInv, AskedInv, HandledOne
    PROVE  Older(<<message>>, StillDeferred)
<1>1. StillShape /\ ~recalling
  BY StillTyped DEF PlaceInv, BaseInv, HandledOne
<1>2. \A i \in 1..Len(StillDeferred) : StillDeferred[i].event # message.event
  BY <1>1, NoneLeftOfItsKind DEF StillShape
<1> QED
  BY <1>2, OrderOfDifferent

(* The order is kept when a message moves from one place to the next.      *)
LEMMA OrderStep ==
    ASSUME DefersFirmly, PlaceInv, AskedInv, OrderInv, DeferralNext \/ UNCHANGED allVars
    PROVE  OrderInv'
<1> DEFINE Ordered(h, d, x, q, n) ==
        /\ InOrder(h) /\ InOrder(d) /\ InOrder(q)
        /\ Older(h, d) /\ Older(h, x) /\ Older(h, q)
        /\ Older(d, x) /\ Older(d, q) /\ Older(x, q)
        /\ Known(h, n) /\ Known(d, n) /\ Known(x, n) /\ Known(q, n)
<1>1. Ordered(handled, StillDeferred, Hand, inbox, taken)
  BY DEF OrderInv
<1>2. CallsInv /\ CallsInv'
  BY CallsStep DEF PlaceInv, BaseInv
<1>3. StillShape'
  BY <1>2, StillTyped, PTL
<1>4. /\ handled \in Seq(Messages) /\ StillDeferred \in Seq(Messages) /\ inbox \in Seq(Messages)
      /\ inbox' \in Seq(Messages) /\ StillDeferred' \in Seq(Messages) /\ taken \in Nat
  BY <1>2, <1>3, StillTyped DEF StillShape, CallsInv
<1> SUFFICES Ordered(handled', StillDeferred', Hand', inbox', taken')
  BY DEF OrderInv, InOrder, Older, Known
<1>5. CASE SentOne
  <2>1. PICK m \in Messages :
            /\ m.id = taken + 1 /\ taken' = taken + 1
            /\ inbox' = Append(inbox, m)
            /\ StillDeferred' = StillDeferred /\ Hand' = Hand /\ handled' = handled
    BY <1>5 DEF SentOne
  <2>2. m.id - 1 = taken
    BY <1>4, <2>1
  <2>3. Hand \in Seq(Messages)
    BY <1>2, HandTyped
  <2>4. ASSUME NEW p \in Seq(Messages), Known(p, taken)
        PROVE  Older(p, <<m>>) /\ Known(p, taken')
    BY <2>1, <2>2, <2>4, OrderOfKnown
  <2>5. InOrder(inbox')
    BY <1>1, <1>4, <2>1, <2>4, OrderAppended
  <2>8. Joins(inbox, m, inbox')
    BY <2>1 DEF Joins
  <2>6. /\ \A p : Older(p, inbox') <=> Older(p, inbox) /\ Older(p, <<m>>)
        /\ Known(inbox', taken') <=> Known(inbox, taken') /\ Known(<<m>>, taken')
    BY <1>4, <2>8, OrderJoined
  <2>7. Known(<<m>>, taken')
    BY <1>4, <2>1, OrderOne
  <2> QED
    BY <1>1, <1>4, <2>1, <2>3, <2>4, <2>5, <2>6, <2>7
<1>6. CASE TakenOne
  <2>1. /\ Head(inbox) \in Messages /\ inbox' \in Seq(Messages) /\ inbox = <<Head(inbox)>> \o inbox'
        /\ Hand' = <<Head(inbox)>> /\ handled' = handled /\ StillDeferred' = StillDeferred /\ taken' = taken
    BY <1>4, <1>6, TimesTail DEF TakenOne
  <2>8. Joins(inbox', Head(inbox), inbox)
    BY <2>1 DEF Joins
  <2>2. /\ \A p : Older(p, inbox) <=> Older(p, inbox') /\ Older(p, <<Head(inbox)>>)
        /\ Known(inbox, taken) <=> Known(inbox', taken) /\ Known(<<Head(inbox)>>, taken)
    BY <2>1, <2>8, OrderJoined
  <2>3. InOrder(inbox) <=> InOrder(inbox') /\ Older(<<Head(inbox)>>, inbox')
    BY <2>1, OrderPrepended
  <2> QED
    BY <1>1, <2>1, <2>2, <2>3
<1>7. CASE StoredOne
  <2>1. /\ message \in Messages /\ Hand = <<message>> /\ Hand' = <<>>
        /\ StillDeferred' = Append(StillDeferred, message) /\ inbox' = inbox /\ handled' = handled /\ taken' = taken
    BY <1>7 DEF StoredOne
  <2>8. Joins(StillDeferred, message, StillDeferred')
    BY <2>1 DEF Joins
  <2>2. /\ \A p : Older(p, StillDeferred') <=> Older(p, StillDeferred) /\ Older(p, <<message>>)
        /\ \A p : Older(StillDeferred', p) <=> Older(StillDeferred, p) /\ Older(<<message>>, p)
        /\ Known(StillDeferred', taken) <=> Known(StillDeferred, taken) /\ Known(<<message>>, taken)
    BY <1>4, <2>1, <2>8, OrderJoined
  <2>3. InOrder(StillDeferred') <=> InOrder(StillDeferred) /\ Older(StillDeferred, <<message>>)
    BY <1>4, <2>1, OrderAppended
  <2>4. \A p : Older(p, <<>>) /\ Older(<<>>, p) /\ Known(<<>>, taken)
    BY OrderEmpty
  <2> QED
    BY <1>1, <2>1, <2>2, <2>3, <2>4
<1>8. CASE HandledOne
  <2>1. /\ message \in Messages /\ Hand = <<message>> /\ Hand' = <<>>
        /\ handled' = Append(handled, message) /\ inbox' = inbox /\ StillDeferred' = StillDeferred /\ taken' = taken
    BY <1>8 DEF HandledOne
  <2>5. Older(<<message>>, StillDeferred)
    BY <1>8, HandledKinds
  <2>8. Joins(handled, message, handled')
    BY <2>1 DEF Joins
  <2>2. /\ \A p : Older(handled', p) <=> Older(handled, p) /\ Older(<<message>>, p)
        /\ Known(handled', taken) <=> Known(handled, taken) /\ Known(<<message>>, taken)
    BY <1>4, <2>1, <2>8, OrderJoined
  <2>3. InOrder(handled') <=> InOrder(handled) /\ Older(handled, <<message>>)
    BY <1>4, <2>1, OrderAppended
  <2>4. \A p : Older(p, <<>>) /\ Older(<<>>, p) /\ Known(<<>>, taken)
    BY OrderEmpty
  <2> QED
    BY <1>1, <2>1, <2>2, <2>3, <2>4, <2>5
<1>9. CASE RecalledOne
  <2>1. PICK m \in Messages :
            /\ StillDeferred = Append(StillDeferred', m) /\ inbox' = <<m>> \o inbox
            /\ Hand = <<>> /\ Hand' = <<>> /\ handled' = handled /\ taken' = taken
    BY <1>9 DEF RecalledOne
  <2>8. Joins(StillDeferred', m, StillDeferred)
    BY <2>1 DEF Joins
  <2>9. Joins(inbox, m, inbox')
    BY <2>1 DEF Joins
  <2>2. /\ \A p : Older(p, StillDeferred) <=> Older(p, StillDeferred') /\ Older(p, <<m>>)
        /\ \A p : Older(StillDeferred, p) <=> Older(StillDeferred', p) /\ Older(<<m>>, p)
        /\ Known(StillDeferred, taken) <=> Known(StillDeferred', taken) /\ Known(<<m>>, taken)
    BY <1>4, <2>1, <2>8, OrderJoined
  <2>3. InOrder(StillDeferred) <=> InOrder(StillDeferred') /\ Older(StillDeferred', <<m>>)
    BY <1>4, <2>1, OrderAppended
  <2>4. /\ \A p : Older(p, inbox') <=> Older(p, inbox) /\ Older(p, <<m>>)
        /\ Known(inbox', taken) <=> Known(inbox, taken) /\ Known(<<m>>, taken)
    BY <1>4, <2>1, <2>9, OrderJoined
  <2>5. InOrder(inbox') <=> InOrder(inbox) /\ Older(<<m>>, inbox)
    BY <1>4, <2>1, OrderPrepended
  <2>6. \A p : Older(p, <<>>) /\ Older(<<>>, p) /\ Known(<<>>, taken)
    BY OrderEmpty
  <2> QED
    BY <1>1, <2>1, <2>2, <2>3, <2>4, <2>5, <2>6
<1>10. CASE MovedNone
  BY <1>1, <1>10 DEF MovedNone
<1> QED
  BY <1>5, <1>6, <1>7, <1>8, <1>9, <1>10, WhatStepsDo DEF PlaceInv

LEMMA InitOrder == DeferralInit => OrderInv
<1> SUFFICES ASSUME DeferralInit PROVE OrderInv
  OBVIOUS
<1>1. inbox = <<>> /\ handled = <<>> /\ Hand = <<>>
  BY DEF DeferralInit, Init, Hand
<1>2. StillDeferred = <<>>
  BY InitCalls, StillTyped, EmptySeq DEF StillShape, DeferralInit, BaseInv
<1> QED
  BY <1>1, <1>2, OrderEmpty DEF OrderInv

(* If, besides, a state that defers an event always does and the states    *)
(* within it leave the event to it, the messages of a kind are handled in  *)
(* the order in which they were sent, the deferred ones among them.        *)
THEOREM HandledAsSent ==
    ASSUME LevelTransitions, RecallsOnExit, DefersFirmly
    PROVE  DeferralSpec => []HandledInOrder
<1> DEFINE Inv == PlaceInv /\ AskedInv /\ OrderInv
<1>1. DeferralInit => Inv
  BY InitPlace, InitDeferrers, InitOrder
<1>2. Inv /\ [DeferralNext]_allVars => Inv'
  <2> SUFFICES ASSUME Inv, DeferralNext \/ UNCHANGED allVars PROVE Inv'
    OBVIOUS
  <2>1. PlaceInv'
    BY PlaceStep
  <2>2. AskedInv'
    BY AskedStep DEF PlaceInv
  <2>3. OrderInv'
    BY OrderStep
  <2> QED
    BY <2>1, <2>2, <2>3
<1>3. Inv => HandledInOrder
  BY DEF OrderInv, InOrder, HandledInOrder
<1> QED
  BY <1>1, <1>2, <1>3, PTL DEF DeferralSpec
=============================================================================
