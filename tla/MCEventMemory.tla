---------------------------- MODULE MCEventMemory ----------------------------
(***************************************************************************)
(* Two threads at pools of four elements, and the two chains of signals of *)
(* test/Events_unittest.cxx, with sizes as on x86-64: a vtable pointer and *)
(* an id, and the members, of which the second pooled signal has one here. *)
(* Some classes have names that contain the words the code looks for.      *)
(***************************************************************************)
EXTENDS EventMemory, TLC

CONSTANTS t1, t2, pool1, pool2, e1, e2, e3,
          SimpleTestEvent, SimpleTestEvent2, PayloadTestEvent, TestEventWithBaseClass,
          PooledSimpleTestEvent, PooledSimpleTestEvent2

TwoThreads == {t1, t2}
TwoPools == {pool1, pool2}
ThreeEvents == {e1, e2, e3}
SizesAsked == 1..33
AlignmentsAsked == {1, 4, 8, 16, 32}

TwoChains == {SimpleTestEvent, SimpleTestEvent2, PayloadTestEvent, TestEventWithBaseClass,
              PooledSimpleTestEvent, PooledSimpleTestEvent2}
ChainOf == (SimpleTestEvent :> NoClass) @@ (SimpleTestEvent2 :> SimpleTestEvent)
           @@ (PayloadTestEvent :> SimpleTestEvent2)
           @@ (TestEventWithBaseClass :> PayloadTestEvent)
           @@ (PooledSimpleTestEvent :> NoClass)
           @@ (PooledSimpleTestEvent2 :> PooledSimpleTestEvent)
OnlyPooled == {PooledSimpleTestEvent}
PoolSizeCalculatorArgs == {PooledSimpleTestEvent, PooledSimpleTestEvent2}
Sizes == [c \in TwoChains |-> CASE c = PayloadTestEvent -> 40
                             [] c = PooledSimpleTestEvent2 -> 24
                             [] OTHER -> 16]

(* The first ids, those of the test: at 3 the chains meet.                 *)
TestIds == [c \in TwoChains |-> IF c = PooledSimpleTestEvent THEN 3 ELSE 0]

GccBefore == <<"constexpr auto ", "TypeNameArray()", " ", "[", "with T = ">>
GccAfter == <<"]">>
Names == (SimpleTestEvent :> <<"SimpleTestEvent">>)
         @@ (SimpleTestEvent2 :> <<"Event", "<int ", "[", "2", "]", ">">>)
         @@ (PayloadTestEvent :> <<"Make()", " ", "[", "with T = ", "int", "]", "::Event">>)
         @@ (TestEventWithBaseClass :> <<"Event", "]">>)
         @@ (PooledSimpleTestEvent :> <<"[", "with T = ">>)
         @@ (PooledSimpleTestEvent2 :> <<"]">>)

(* What the theorem about names assumes holds here.                        *)
ASSUME HypothesesAssumption == TextAsExpected
=============================================================================
