------------------------- MODULE StatemachineProofs -------------------------
(***************************************************************************)
(* Proofs about Statemachine, for any finite tree of states, any handlers  *)
(* and any events.                                                         *)
(*                                                                         *)
(* ControlInv says where each phase of Start() and React() stands; it is   *)
(* inductive whatever the handlers reply.  What was entered and exited is  *)
(* only paired when LevelTransitions holds: then PairingInv, which says    *)
(* which part of the tree is active in each phase, is inductive relative   *)
(* to ControlInv, and so is MemoryInv, which relates the saved children to *)
(* the entered ones, relative to both.                                     *)
(*                                                                         *)
(* CallInv relates what a call under way has done so far to where the      *)
(* machine rested before it.  From it follows that the machine implements  *)
(* Statechart, transitions into or out of composite states included: the   *)
(* state reached and the children remembered are what the abstract machine *)
(* says even where entries and exits are not paired.                       *)
(***************************************************************************)
EXTENDS StatechartRefinement, FiniteSetTheorems, WellFoundedInduction, TLAPS

-----------------------------------------------------------------------------
(* The tree.                                                               *)

(* Induction from the top of the tree downwards, over a set of states: the *)
(* parent of a state has fewer ancestors than the state.                   *)
LEMMA TreeInduction ==
    ASSUME NEW S \in SUBSET States,
           \A x \in States : (Parent[x] = Null \/ Parent[x] \in S) => x \in S
    PROVE  S = States
<1> DEFINE depth(x) == Cardinality(Up[x])
           Depths == {depth(x) : x \in States \ S}
<1>1. \A x \in States : IsFiniteSet(Up[x]) /\ depth(x) \in Nat
  BY FS_Subset, FS_CardinalityType, TreeAssumption
<1>2. ASSUME NEW x \in States, Parent[x] # Null
      PROVE  Parent[x] \in States /\ depth(Parent[x]) < depth(x)
  <2>1. Parent[x] \in States /\ x \in Up[x] /\ Up[Parent[x]] = Up[x] \ {x}
    BY <1>2, TreeAssumption
  <2>2. Cardinality(Up[x] \ {x}) = Cardinality(Up[x]) - 1
    BY <1>1, <2>1, FS_RemoveElement
  <2>3. depth(Parent[x]) = depth(x) - 1 /\ depth(x) \in Nat
    BY <1>1, <2>1, <2>2
  <2> QED
    BY <2>1, <2>3
<1>3. SUFFICES ASSUME Depths # {} PROVE FALSE
  BY <1>3
<1>4. PICK d \in Depths : \A e \in Depths : <<e, d>> \notin OpToRel(<, Nat)
  <2>1. Depths \subseteq Nat
    BY <1>1
  <2> QED
    BY <1>3, <2>1, WFMin, NatLessThanWellFounded, Zenon
<1>5. PICK x \in States \ S : d = depth(x)
  BY <1>4
<1>6. Parent[x] # Null /\ Parent[x] \in States \ S
  BY <1>2
<1>7. depth(Parent[x]) \in Depths /\ depth(Parent[x]) \in Nat /\ depth(x) \in Nat
  BY <1>1, <1>6
<1>8. <<depth(Parent[x]), d>> \in OpToRel(<, Nat)
  BY <1>2, <1>5, <1>6, <1>7 DEF OpToRel
<1> QED
  BY <1>4, <1>7, <1>8

LEMMA UpTyped == \A x \in States : Up[x] \subseteq States /\ x \in Up[x]
BY TreeAssumption

LEMMA UpStep ==
    ASSUME NEW x \in States, NEW y \in Up[x], y # x
    PROVE  Parent[x] \in States /\ y \in Up[Parent[x]]
BY TreeAssumption

(* An ancestor's ancestors are ancestors.                                  *)
LEMMA UpTransitive ==
    \A x \in States : \A y \in Up[x] : Up[y] \subseteq Up[x]
<1> DEFINE S == {x \in States : \A y \in Up[x] : Up[y] \subseteq Up[x]}
<1>1. ASSUME NEW x \in States, Parent[x] = Null \/ Parent[x] \in S
      PROVE  x \in S
  <2> SUFFICES ASSUME NEW y \in Up[x], y # x PROVE Up[y] \subseteq Up[x]
    OBVIOUS
  <2>1. Parent[x] \in States /\ y \in Up[Parent[x]]
    BY UpStep
  <2>2. Up[y] \subseteq Up[Parent[x]]
    BY <1>1, <2>1, TreeAssumption
  <2> QED
    BY <2>1, <2>2, TreeAssumption
<1>2. S = States
  BY <1>1, TreeInduction
<1> QED
  BY <1>2

LEMMA UpAntisymmetric ==
    ASSUME NEW x \in States, NEW y \in Up[x], x \in Up[y]
    PROVE  x = y
<1> SUFFICES ASSUME y # x PROVE FALSE
  OBVIOUS
<1>1. Parent[x] \in States /\ y \in Up[Parent[x]]
  BY UpStep
<1>2. x \in Up[Parent[x]]
  BY <1>1, UpTransitive
<1> QED
  BY <1>1, <1>2, TreeAssumption

(* The ancestors of a state are a chain.                                   *)
LEMMA UpChain ==
    \A x \in States : \A y, z \in Up[x] : y \in Up[z] \/ z \in Up[y]
<1> DEFINE S == {x \in States : \A y, z \in Up[x] : y \in Up[z] \/ z \in Up[y]}
<1>1. ASSUME NEW x \in States, Parent[x] = Null \/ Parent[x] \in S
      PROVE  x \in S
  <2> SUFFICES ASSUME NEW y \in Up[x], NEW z \in Up[x], y # x, z # x
               PROVE  y \in Up[z] \/ z \in Up[y]
    OBVIOUS
  <2>1. Parent[x] \in States /\ y \in Up[Parent[x]] /\ z \in Up[Parent[x]]
    BY UpStep
  <2> QED
    BY <1>1, <2>1, TreeAssumption
<1>2. S = States
  BY <1>1, TreeInduction
<1> QED
  BY <1>2

(* Two states in one chain with the same parent are the same.              *)
LEMMA NoSiblings ==
    ASSUME NEW x \in States, NEW y \in Up[x], NEW z \in Up[x],
           Parent[y] = Parent[z], Parent[y] # Null
    PROVE  y = z
<1>1. y \in States /\ z \in States
  BY UpTyped
<1>2. ASSUME NEW u \in States, NEW v \in Up[u], u # v, Parent[u] = Parent[v], Parent[u] # Null
      PROVE  FALSE
  BY <1>2, UpStep, UpTyped, TreeAssumption
<1> QED
  BY <1>1, <1>2, UpChain

(* FindCommonParent() finds the innermost of the states that contain both. *)
LEMMA CommonParent ==
    ASSUME NEW x \in States, NEW y \in States
    PROVE  /\ FindCommonParent(x, y) \in States \cup {Null}
           /\ UpTo(FindCommonParent(x, y)) = Up[x] \cap Up[y]
<1> DEFINE Common(z) == Up[z] \cap Up[y]
           S == {z \in States : Common(z) # {} => \E c \in Common(z) : Common(z) \subseteq Up[c]}
<1>1. ASSUME NEW z \in States, Parent[z] = Null \/ Parent[z] \in S
      PROVE  z \in S
  <2>1. CASE z \in Up[y]
    BY <2>1, UpTyped
  <2>2. CASE z \notin Up[y] /\ Parent[z] = Null
    BY <2>2, TreeAssumption
  <2>3. CASE z \notin Up[y] /\ Parent[z] \in S
    <3>1. Common(z) = Common(Parent[z])
      BY <2>3, TreeAssumption
    <3> QED
      BY <2>3, <3>1
  <2> QED
    BY <1>1, <2>1, <2>2, <2>3
<1>2. S = States
  BY <1>1, TreeInduction
<1>3. CASE Common(x) = {}
  BY <1>3 DEF FindCommonParent, UpTo
<1>4. CASE Common(x) # {}
  <2> DEFINE top0 == FindCommonParent(x, y)
  <2>1. top0 = CHOOSE c \in Common(x) : Common(x) \subseteq Up[c]
    BY <1>4 DEF FindCommonParent
  <2>2. \E c \in Common(x) : Common(x) \subseteq Up[c]
    BY <1>2, <1>4
  <2>3. top0 \in Common(x) /\ Common(x) \subseteq Up[top0]
    BY <2>1, <2>2
  <2>4. Up[top0] \subseteq Common(x)
    BY <2>3, UpTransitive
  <2>5. top0 \in States /\ top0 # Null
    BY <2>3, UpTyped, TreeAssumption
  <2> QED
    BY <2>3, <2>4, <2>5 DEF UpTo
<1> QED
  BY <1>3, <1>4

-----------------------------------------------------------------------------
(* The inductive invariants.                                               *)

(* Where each phase stands: what is still to be exited when exiting, and   *)
(* what the machine rests in when nothing is under way.                    *)
ControlInv ==
    /\ TypeOK
    /\ \A h \in HistoryStates : history[h] # Null => Parent[history[h]] = h
    /\ pc \in {"idle", "handle"} =>
          /\ current \in States \cup {Null}
          /\ current # Null => GetInitialState(current) = Null
    /\ pc = "idle" => ~working
    /\ pc = "handle" =>
          event \in Events /\ current \in States /\ s \in Up[current]
    /\ pc = "exitSelf" => s \in States
    /\ pc = "exit" => s \in States /\ s \notin UpTo(top) /\ UpTo(top) \subseteq Up[s]
    /\ pc \in {"exitSelf", "exit", "actions", "enter", "descend"} => target \in States

(* Which states are active in each phase.                                  *)
PairingInv ==
    /\ EntryExitAlternate
    /\ ParentsActive
    /\ pc \in {"idle", "handle"} => Active = UpTo(current)
    /\ pc = "exitSelf" => Active = Up[s] /\ top = s /\ target = s
    /\ pc = "exit" =>
          Active = Up[s] /\ UpTo(top) \subseteq Up[target] /\ target \notin UpTo(top)
    /\ pc = "actions" => Active = Up[target] \ EntryPath(top, target)
    /\ pc = "enter" => path \subseteq Up[target] /\ Active = Up[target] \ path
    /\ pc = "descend" => Active = Up[target]

(* Once all is exited, the children of the target's ancestors are entered. *)
Held == IF pc \in {"actions", "enter", "descend"} THEN Up[target] ELSE Active

(* An active state is the child its parent entered last, and a history     *)
(* state has saved the child entered last unless that one is, or is going  *)
(* to be, active.                                                          *)
MemoryInv ==
    /\ \A x \in States : lastChild[x] # Null => Parent[lastChild[x]] = x
    /\ \A x \in Active : Parent[x] # Null => lastChild[Parent[x]] = x
    /\ \A h \in HistoryStates : history[h] = lastChild[h] \/ lastChild[h] \in Held

-----------------------------------------------------------------------------
(* Control, whatever the handlers reply.                                   *)

LEMMA InitControl == Init => ControlInv
<1> SUFFICES ASSUME Init PROVE ControlInv
  OBVIOUS
<1>1. TypeOK
  <2>1. entered \in [States -> Int]
    BY DEF Init
  <2>2. history \in [HistoryStates -> States \cup {Null}]
        /\ lastChild \in [States -> States \cup {Null}]
    BY DEF Init
  <2> QED
    BY <2>1, <2>2 DEF Init, TypeOK
<1>2. \A h \in HistoryStates : history[h] = Null
  BY DEF Init
<1> QED
  BY <1>1, <1>2 DEF Init, ControlInv

(* The states on the way from a target down are states.                    *)
LEMMA EntryPathTyped ==
    ASSUME NEW x \in States, NEW t
    PROVE  EntryPath(t, x) \subseteq States
BY UpTyped DEF EntryPath

LEMMA InitialStateTyped ==
    ASSUME ControlInv, NEW x \in States, GetInitialState(x) # Null
    PROVE  GetInitialState(x) \in States /\ Parent[GetInitialState(x)] = x
BY InitialAssumption DEF ControlInv, TypeOK, GetInitialState

LEMMA EnterTyped ==
    ASSUME TypeOK, NEW x \in States, EnterState(x)
    PROVE  /\ entered' \in [States -> Int]
           /\ lastChild' \in [States -> States \cup {Null}]
<1>1. entered' = [entered EXCEPT ![x] = entered[x] + 1]
  BY DEF EnterState
<1>2. lastChild' = IF Parent[x] = Null THEN lastChild
                   ELSE [lastChild EXCEPT ![Parent[x]] = x]
  BY DEF EnterState
<1>3. Parent[x] # Null => Parent[x] \in States
  BY TreeAssumption
<1>4. lastChild' \in [States -> States \cup {Null}]
  BY <1>2, <1>3 DEF TypeOK
<1>5. entered' \in [States -> Int]
  BY <1>1 DEF TypeOK
<1> QED
  BY <1>4, <1>5

LEMMA StartControl ==
    ASSUME ControlInv, NEW x \in StartStates, Start(x)
    PROVE  ControlInv'
<1>1. x \in States
  BY HandlerAssumption
<1>2. EntryPath(Null, x) \subseteq States
  BY <1>1, EntryPathTyped
<1> QED
  BY <1>1, <1>2 DEF ControlInv, TypeOK, Start

LEMMA ReactControl ==
    ASSUME ControlInv, NEW e \in Events, React(e)
    PROVE  ControlInv'
<1>1. current \in States /\ current \in Up[current]
  BY UpTyped DEF ControlInv, React
<1> QED
  BY <1>1 DEF ControlInv, TypeOK, React, GetInitialState

LEMMA HandlerControl ==
    ASSUME ControlInv, DeferEvent \/ UnhandledEvent \/ NoTransition
    PROVE  ControlInv'
<1>1. current \in States /\ s \in Up[current] /\ s \in States /\ pc = "handle"
  BY UpTyped DEF ControlInv, DeferEvent, UnhandledEvent, NoTransition, Replies
<1>2. Parent[s] # Null => Parent[s] \in States /\ Parent[s] \in Up[current]
  BY <1>1, UpTransitive, UpTyped, TreeAssumption
<1> QED
  BY <1>1, <1>2
     DEF ControlInv, TypeOK, DeferEvent, UnhandledEvent, NoTransition, locals, GetInitialState

LEMMA TransitionControl ==
    ASSUME ControlInv, NEW x \in States, TransitionTo(x)
    PROVE  ControlInv'
<1> DEFINE common == FindCommonParent(current, x)
<1>1. current \in States /\ pc = "handle"
  BY DEF ControlInv, TransitionTo, Replies
<1>2. common \in States \cup {Null} /\ UpTo(common) = Up[current] \cap Up[x]
  BY <1>1, CommonParent
<1>3. common # current => current \notin UpTo(common)
  <2> SUFFICES ASSUME common # current, current \in UpTo(common) PROVE FALSE
    OBVIOUS
  <2>1. common \in States /\ common \in Up[current] /\ current \in Up[common]
    BY <1>2, UpTyped DEF UpTo
  <2> QED
    BY <1>1, <2>1, UpAntisymmetric
<1>4. top' = common /\ s' = current /\ target' = x /\ pc' \in {"exitSelf", "exit"}
  BY DEF TransitionTo
<1>5. pc' = "exit" => s' \notin UpTo(top') /\ UpTo(top') \subseteq Up[s']
  BY <1>2, <1>3, <1>4 DEF TransitionTo
<1>6. TypeOK'
  BY <1>1, <1>2, <1>4 DEF ControlInv, TypeOK, TransitionTo
<1> QED
  BY <1>1, <1>4, <1>5, <1>6 DEF ControlInv, TransitionTo, UpTo

LEMMA ExitControl ==
    ASSUME ControlInv, Exit
    PROVE  ControlInv'
<1>1. pc = "exit" /\ s \in States /\ s \notin UpTo(top) /\ UpTo(top) \subseteq Up[s]
      /\ target \in States
  BY DEF ControlInv, Exit
<1>2. /\ history' \in [HistoryStates -> States \cup {Null}]
      /\ \A h \in HistoryStates : history'[h] # Null => Parent[history'[h]] = h
  BY <1>1 DEF ControlInv, TypeOK, Exit, SaveHistory
<1>3. UpTo(top) \subseteq UpTo(Parent[s])
  BY <1>1, TreeAssumption DEF UpTo
<1>4. ASSUME Parent[s] # top
      PROVE  Parent[s] \in States /\ Parent[s] \notin UpTo(top)
  <2>1. top \in States \cup {Null} /\ (top \in States => top \in UpTo(top))
    BY UpTyped, TreeAssumption DEF ControlInv, TypeOK, UpTo
  <2>2. Parent[s] # Null
    BY <1>3, <1>4, <2>1 DEF UpTo
  <2>3. Parent[s] \in States
    BY <1>1, <2>2, TreeAssumption
  <2>4. ASSUME Parent[s] \in UpTo(top) PROVE FALSE
    <3>1. top \in States /\ Parent[s] \in Up[top]
      BY <2>1, <2>4 DEF UpTo
    <3>2. top \in Up[Parent[s]]
      BY <1>3, <2>1, <2>2, <3>1 DEF UpTo
    <3> QED
      BY <1>4, <2>3, <3>1, <3>2, UpAntisymmetric
  <2> QED
    BY <2>3, <2>4
<1>5. top' = top /\ target' = target /\ s' = Parent[s] /\ s' \in States \cup {Null}
  BY <1>1, TreeAssumption DEF Exit
<1>6. pc' = IF Parent[s] = top THEN "actions" ELSE "exit"
  BY <1>5 DEF Exit
<1>7. pc' = "exit" => s' \in States /\ s' \notin UpTo(top') /\ UpTo(top') \subseteq Up[s']
  BY <1>3, <1>4, <1>5, <1>6 DEF UpTo, ControlInv, TypeOK
<1>8. TypeOK'
  BY <1>1, <1>2, <1>5, <1>6 DEF ControlInv, TypeOK, Exit, ExitState
<1> QED
  BY <1>1, <1>2, <1>5, <1>6, <1>7, <1>8 DEF ControlInv

LEMMA EnterControl ==
    ASSUME ControlInv, NEW x \in States, Enter(x)
    PROVE  ControlInv'
BY EnterTyped DEF ControlInv, TypeOK, Enter

LEMMA EnterInitialControl ==
    ASSUME ControlInv, EnterInitial
    PROVE  ControlInv'
<1>1. target \in States
  BY DEF ControlInv, EnterInitial
<1>2. GetInitialState(target) \in States
  BY <1>1, InitialStateTyped DEF EnterInitial
<1> QED
  BY <1>2, EnterTyped DEF ControlInv, TypeOK, EnterInitial

LEMMA NextControl == ControlInv /\ [Next]_vars => ControlInv'
<1> SUFFICES ASSUME ControlInv, [Next]_vars PROVE ControlInv'
  OBVIOUS
<1>1. ASSUME ExitSelf PROVE ControlInv'
  BY <1>1 DEF ControlInv, TypeOK, ExitSelf, ExitState, locals
<1>2. ASSUME ExecuteActions PROVE ControlInv'
  <2>1. EntryPath(top, target) \subseteq States
    BY <1>2, EntryPathTyped DEF ControlInv, ExecuteActions
  <2> QED
    BY <1>2, <2>1 DEF ControlInv, TypeOK, ExecuteActions
<1>3. ASSUME Finish PROVE ControlInv'
  BY <1>3 DEF ControlInv, TypeOK, Finish, GetInitialState, locals
<1>4. CASE UNCHANGED vars
  BY <1>4 DEF ControlInv, TypeOK, vars, locals, GetInitialState, UpTo
<1> QED
  BY <1>1, <1>2, <1>3, <1>4, StartControl, ReactControl, HandlerControl, TransitionControl,
     ExitControl, EnterControl, EnterInitialControl DEF Next, Running

(* The machine's variables keep their types.                               *)
THEOREM TypeCorrect == SafeSpec => []TypeOK
<1>1. ControlInv => TypeOK
  BY DEF ControlInv
<1> QED
  BY <1>1, InitControl, NextControl, PTL DEF SafeSpec

(* Whatever handlers reply, and however transitions cross the tree, every  *)
(* call of React() and Start() leaves the machine ready for the next one,  *)
(* in a state that has no substate to go to.                               *)
THEOREM ReadyAfterEachCall == SafeSpec => []ReadyWhenIdle
<1>1. ControlInv => ReadyWhenIdle
  BY DEF ControlInv, ReadyWhenIdle
<1> QED
  BY <1>1, InitControl, NextControl, PTL DEF SafeSpec

-----------------------------------------------------------------------------
(* Entries and exits, when transitions are level.                          *)

LEMMA InitPairing == Init => PairingInv
<1> SUFFICES ASSUME Init PROVE PairingInv
  OBVIOUS
<1>1. \A x \in States : entered[x] = 0
  BY DEF Init
<1>2. Active = {}
  BY <1>1 DEF Active
<1> QED
  BY <1>1, <1>2 DEF Init, PairingInv, EntryExitAlternate, ParentsActive, UpTo

(* Entering a state that is not active adds it, exiting an active one      *)
(* removes it.                                                             *)
LEMMA EnterActive ==
    ASSUME TypeOK, EntryExitAlternate, NEW x \in States \ Active, EnterState(x)
    PROVE  EntryExitAlternate' /\ Active' = Active \cup {x}
<1>1. entered' = [entered EXCEPT ![x] = entered[x] + 1]
  BY DEF EnterState
<1>2. entered[x] = 0
  BY DEF EntryExitAlternate, Active
<1>3. \A y \in States : entered'[y] = IF y = x THEN 1 ELSE entered[y]
  BY <1>1, <1>2 DEF TypeOK
<1> QED
  BY <1>3 DEF EntryExitAlternate, Active

LEMMA ExitActive ==
    ASSUME TypeOK, EntryExitAlternate, NEW x \in Active, ExitState(x)
    PROVE  EntryExitAlternate' /\ Active' = Active \ {x}
<1>1. entered' = [entered EXCEPT ![x] = entered[x] - 1] /\ x \in States
  BY DEF ExitState, Active
<1>2. entered[x] = 1
  BY DEF Active
<1>3. \A y \in States : entered'[y] = IF y = x THEN 0 ELSE entered[y]
  BY <1>1, <1>2 DEF TypeOK
<1> QED
  BY <1>1, <1>3 DEF EntryExitAlternate, Active

(* A state with its ancestors has the parents of all of them.              *)
LEMMA UpHasParents ==
    ASSUME NEW x \in States, NEW y \in Up[x], Parent[y] # Null
    PROVE  Parent[y] \in Up[x]
<1>1. y \in States /\ Parent[y] \in States
  BY UpTyped, TreeAssumption
<1>2. Parent[y] \in Up[y]
  BY <1>1, UpTyped, TreeAssumption
<1> QED
  BY <1>2, UpTransitive

LEMMA StartPairing ==
    ASSUME NEW x \in StartStates, Start(x)
    PROVE  PairingInv'
<1>1. x \in States
  BY HandlerAssumption
<1>2. \A y \in States : entered'[y] = 0
  BY DEF Start
<1>3. Active' = {} /\ EntryExitAlternate' /\ ParentsActive'
  BY <1>2 DEF Active, EntryExitAlternate, ParentsActive
<1>4. path' = Up[x] /\ target' = x /\ pc' = "enter"
  BY <1>1, UpTyped DEF Start, EntryPath, UpTo
<1> QED
  BY <1>3, <1>4 DEF PairingInv

(* While the handlers are asked nothing is entered or exited.              *)
LEMMA AskPairing ==
    ASSUME ControlInv, PairingInv, UNCHANGED <<current, entered>>,
           pc \in {"idle", "handle"}, pc' \in {"idle", "handle"}
    PROVE  PairingInv'
<1>1. Active' = Active /\ (EntryExitAlternate => EntryExitAlternate')
      /\ (ParentsActive => ParentsActive')
  BY DEF Active, EntryExitAlternate, ParentsActive
<1> QED
  BY <1>1 DEF PairingInv, UpTo

LEMMA TransitionPairing ==
    ASSUME LevelTransitions, ControlInv, PairingInv, NEW x \in States, TransitionTo(x)
    PROVE  PairingInv'
<1> DEFINE common == FindCommonParent(current, x)
<1>1. /\ current \in States /\ pc = "handle" /\ current # Null
      /\ s \in Up[current] /\ event \in Events
      /\ GetInitialState(current) = Null
      /\ x \in Handler[<<s, event>>]
  BY TreeAssumption DEF ControlInv, TransitionTo, Replies
<1>2. Initial[current] = Null
  BY <1>1 DEF GetInitialState
<1>3. x = current \/ (x \notin Up[current] /\ current \notin Up[x])
  <2>1. s \in States
    BY <1>1, UpTyped
  <2>2. LevelReply(s, x)
    BY <1>1, <2>1 DEF LevelTransitions
  <2> QED
    BY <1>1, <1>2, <2>2 DEF LevelReply
<1>4. common \in States \cup {Null} /\ UpTo(common) = Up[current] \cap Up[x]
  BY <1>1, CommonParent
<1>5. /\ target' = x /\ top' = common /\ s' = current
      /\ pc' = IF common = current THEN "exitSelf" ELSE "exit"
      /\ UNCHANGED entered
  BY DEF TransitionTo
<1>6. Active' = Active /\ Active = Up[current] /\ EntryExitAlternate' /\ ParentsActive'
  BY <1>1, <1>5 DEF PairingInv, Active, EntryExitAlternate, ParentsActive, UpTo
<1>7. CASE common = current
  <2>1. x = current
    BY <1>1, <1>3, <1>4, <1>7, UpTyped DEF UpTo
  <2> QED
    BY <1>5, <1>6, <1>7, <2>1 DEF PairingInv
<1>8. CASE common # current
  <2>1. x # current
    <3> SUFFICES ASSUME x = current PROVE FALSE
      OBVIOUS
    <3>1. UpTo(common) = Up[current] /\ current \in UpTo(common)
      BY <1>1, <1>4, UpTyped
    <3>2. common \in States /\ common \in Up[current] /\ current \in Up[common]
      BY <1>4, <3>1, UpTyped DEF UpTo
    <3> QED
      BY <1>1, <1>8, <3>2, UpAntisymmetric
  <2>2. UpTo(top') \subseteq Up[target'] /\ target' \notin UpTo(top')
    BY <1>3, <1>4, <1>5, <2>1
  <2> QED
    BY <1>5, <1>6, <1>8, <2>2 DEF PairingInv, UpTo
<1> QED
  BY <1>7, <1>8

LEMMA ExitSelfPairing ==
    ASSUME ControlInv, PairingInv, ExitSelf
    PROVE  PairingInv'
<1>1. /\ pc = "exitSelf" /\ s \in States /\ Active = Up[s] /\ top = s /\ target = s
      /\ s # Null
  BY TreeAssumption DEF ControlInv, PairingInv, ExitSelf
<1>2. s \in Active
  BY <1>1, UpTyped
<1>3. EntryExitAlternate' /\ Active' = Up[s] \ {s}
  BY <1>1, <1>2, ExitActive DEF ControlInv, PairingInv, ExitSelf
<1>4. top' = s /\ target' = s /\ pc' = "actions"
  BY <1>1 DEF ExitSelf, locals
<1>5. EntryPath(top', target') = {s}
  BY <1>1, <1>4 DEF EntryPath, UpTo
<1>6. ParentsActive'
  <2> SUFFICES ASSUME NEW y \in Active', Parent[y] # Null PROVE Parent[y] \in Active'
    BY DEF ParentsActive
  <2>1. y \in Up[s] /\ y # s
    BY <1>3
  <2>2. Parent[s] \in States /\ y \in Up[Parent[s]]
    BY <1>1, <2>1, UpStep
  <2>3. Parent[y] \in Up[Parent[s]]
    BY <2>2, UpHasParents
  <2> QED
    BY <1>1, <1>3, <2>2, <2>3, TreeAssumption
<1> QED
  BY <1>3, <1>4, <1>5, <1>6 DEF PairingInv, EntryPath, UpTo

(* Exiting s leaves its parent and what is around that.                    *)
LEMMA ExitPairing ==
    ASSUME ControlInv, PairingInv, Exit
    PROVE  PairingInv' /\ s \in Active /\ Active' = Active \ {s}
<1>1. /\ pc = "exit" /\ s \in States /\ s # Null /\ Active = Up[s]
      /\ UpTo(top) \subseteq Up[target] /\ target \notin UpTo(top) /\ target \in States
      /\ s \notin UpTo(top) /\ UpTo(top) \subseteq Up[s]
  BY TreeAssumption DEF ControlInv, PairingInv, Exit
<1>2. s \in Active
  BY <1>1, UpTyped
<1>3. EntryExitAlternate' /\ Active' = Up[s] \ {s}
  BY <1>1, <1>2, ExitActive DEF ControlInv, PairingInv, Exit
<1>4. Active' = UpTo(Parent[s])
  BY <1>1, <1>3, TreeAssumption DEF UpTo
<1>5. /\ top' = top /\ target' = target /\ s' = Parent[s]
      /\ pc' = IF Parent[s] = top THEN "actions" ELSE "exit"
  BY DEF Exit
<1>6. ParentsActive'
  <2>1. Parent[s] = Null \/ Parent[s] \in States
    BY <1>1, TreeAssumption
  <2> QED
    BY <1>4, <2>1, UpHasParents DEF ParentsActive, UpTo
<1>7. CASE Parent[s] = top
  <2>1. Active' = Up[target'] \ EntryPath(top', target')
    BY <1>1, <1>4, <1>5, <1>7 DEF EntryPath
  <2> QED
    BY <1>1, <1>2, <1>3, <1>5, <1>6, <1>7, <2>1 DEF PairingInv, EntryPath, UpTo
<1>8. CASE Parent[s] # top
  <2>1. s' # Null
    BY <1>5, <1>8, ExitControl, TreeAssumption DEF ControlInv
  <2>2. Active' = Up[s']
    BY <1>4, <1>5, <2>1 DEF UpTo
  <2> QED
    BY <1>1, <1>2, <1>3, <1>5, <1>6, <1>8, <2>2 DEF PairingInv, UpTo
<1> QED
  BY <1>7, <1>8

LEMMA ActionsPairing ==
    ASSUME ControlInv, PairingInv, ExecuteActions
    PROVE  PairingInv'
<1>1. /\ pc = "actions" /\ target \in States
      /\ Active = Up[target] \ EntryPath(top, target)
  BY DEF ControlInv, PairingInv, ExecuteActions
<1>2. target' = target /\ path' = EntryPath(top, target) /\ pc' = "enter"
      /\ UNCHANGED entered
  BY DEF ExecuteActions
<1>3. path' \subseteq Up[target]
  BY <1>1, <1>2, UpTyped DEF EntryPath
<1>4. Active' = Active /\ EntryExitAlternate' /\ ParentsActive'
  BY <1>2 DEF PairingInv, Active, EntryExitAlternate, ParentsActive
<1> QED
  BY <1>1, <1>2, <1>3, <1>4 DEF PairingInv

(* The outermost state of the path has an active parent, or none.          *)
LEMMA EnterPairing ==
    ASSUME ControlInv, PairingInv, NEW x \in States, Enter(x)
    PROVE  PairingInv' /\ x \notin Active /\ Active' = Active \cup {x} /\ x \in Up[target]
<1>1. /\ pc = "enter" /\ target \in States /\ path \subseteq Up[target]
      /\ Active = Up[target] \ path /\ x \in path /\ Parent[x] \notin path
  BY DEF ControlInv, PairingInv, Enter
<1>2. x \notin Active /\ x \in Up[target]
  BY <1>1
<1>3. EntryExitAlternate' /\ Active' = Active \cup {x}
  BY <1>2, EnterActive DEF ControlInv, PairingInv, Enter
<1>4. target' = target /\ path' = path \ {x} /\ pc' = IF path' = {} THEN "descend" ELSE "enter"
  BY DEF Enter
<1>5. Parent[x] # Null => Parent[x] \in Active
  BY <1>1, <1>2, UpHasParents
<1>6. ParentsActive'
  BY <1>3, <1>5 DEF ParentsActive, PairingInv
<1>7. path' \subseteq Up[target'] /\ Active' = Up[target'] \ path'
  BY <1>1, <1>3, <1>4
<1> QED
  BY <1>2, <1>3, <1>4, <1>6, <1>7 DEF PairingInv

LEMMA EnterInitialPairing ==
    ASSUME ControlInv, PairingInv, EnterInitial
    PROVE  /\ PairingInv'
           /\ target' \in States \ Active
           /\ Active' = Active \cup {target'}
           /\ Parent[target'] = target
<1> DEFINE child == GetInitialState(target)
<1>1. pc = "descend" /\ target \in States /\ Active = Up[target]
  BY DEF ControlInv, PairingInv, EnterInitial
<1>2. child \in States /\ Parent[child] = target
  BY <1>1, InitialStateTyped DEF EnterInitial
<1>3. Up[child] = Active \cup {child} /\ child \notin Active
  BY <1>1, <1>2, TreeAssumption
<1>4. EntryExitAlternate' /\ Active' = Active \cup {child}
  BY <1>2, <1>3, EnterActive DEF ControlInv, PairingInv, EnterInitial
<1>5. target' = child /\ pc' = "descend"
  BY DEF EnterInitial
<1>6. ParentsActive'
  BY <1>1, <1>2, <1>4, UpTyped DEF ParentsActive, PairingInv
<1> QED
  BY <1>2, <1>3, <1>4, <1>5, <1>6 DEF PairingInv

LEMMA FinishPairing ==
    ASSUME ControlInv, PairingInv, Finish
    PROVE  PairingInv'
<1>1. pc = "descend" /\ target \in States /\ target # Null /\ Active = Up[target]
  BY TreeAssumption DEF ControlInv, PairingInv, Finish
<1>2. current' = target /\ pc' = "idle" /\ UNCHANGED entered
  BY DEF Finish
<1>3. Active' = Active /\ EntryExitAlternate' /\ ParentsActive'
  BY <1>2 DEF PairingInv, Active, EntryExitAlternate, ParentsActive
<1> QED
  BY <1>1, <1>2, <1>3 DEF PairingInv, UpTo

LEMMA NextPairing ==
    ASSUME LevelTransitions
    PROVE  ControlInv /\ PairingInv /\ [Next]_vars => PairingInv'
<1> SUFFICES ASSUME ControlInv, PairingInv, [Next]_vars
             PROVE  PairingInv'
  OBVIOUS
<1>1. ASSUME NEW e \in Events, React(e) PROVE PairingInv'
  BY <1>1, AskPairing DEF React
<1>2. ASSUME DeferEvent \/ UnhandledEvent \/ NoTransition PROVE PairingInv'
  BY <1>2, AskPairing DEF DeferEvent, UnhandledEvent, NoTransition, Replies
<1>3. CASE UNCHANGED vars
  <2>1. Active' = Active
    BY <1>3 DEF Active, vars
  <2> QED
    BY <1>3, <2>1
       DEF PairingInv, EntryExitAlternate, ParentsActive, vars, locals, UpTo, EntryPath
<1> QED
  BY <1>1, <1>2, <1>3, StartPairing, TransitionPairing, ExitSelfPairing, ExitPairing,
     ActionsPairing, EnterPairing, EnterInitialPairing, FinishPairing DEF Next, Running

(* When transitions are level, no entry action runs twice without the exit *)
(* action between them, nor an exit action without the entry.              *)
THEOREM EntriesAndExitsAlternate ==
    ASSUME LevelTransitions
    PROVE  SafeSpec => []EntryExitAlternate
<1>1. PairingInv => EntryExitAlternate
  BY DEF PairingInv
<1>2. ControlInv /\ PairingInv /\ [Next]_vars => PairingInv'
  BY NextPairing
<1> QED
  BY <1>1, <1>2, InitControl, NextControl, InitPairing, PTL DEF SafeSpec

(* When transitions are level, a state is entered after the one around it  *)
(* and exited before it.                                                   *)
THEOREM ParentsAreActive ==
    ASSUME LevelTransitions
    PROVE  SafeSpec => []ParentsActive
<1>1. PairingInv => ParentsActive
  BY DEF PairingInv
<1>2. ControlInv /\ PairingInv /\ [Next]_vars => PairingInv'
  BY NextPairing
<1> QED
  BY <1>1, <1>2, InitControl, NextControl, InitPairing, PTL DEF SafeSpec

(* When transitions are level, the states that are active between two      *)
(* calls are the current state and those around it.                        *)
THEOREM CurrentStateIsWhatIsActive ==
    ASSUME LevelTransitions
    PROVE  SafeSpec => []ActiveIsCurrent
<1>1. PairingInv => ActiveIsCurrent
  BY DEF PairingInv, ActiveIsCurrent, UpTo
<1>2. ControlInv /\ PairingInv /\ [Next]_vars => PairingInv'
  BY NextPairing
<1> QED
  BY <1>1, <1>2, InitControl, NextControl, InitPairing, PTL DEF SafeSpec

-----------------------------------------------------------------------------
(* History.                                                                *)

LEMMA InitMemory == Init => MemoryInv
<1> SUFFICES ASSUME Init PROVE MemoryInv
  OBVIOUS
<1>1. /\ \A x \in States : lastChild[x] = Null /\ entered[x] = 0
      /\ \A h \in HistoryStates : history[h] = Null
  BY DEF Init
<1>2. Active = {}
  BY <1>1 DEF Active
<1> QED
  BY <1>1, <1>2, TreeAssumption DEF MemoryInv

LEMMA StartMemory ==
    ASSUME NEW x \in StartStates, Start(x)
    PROVE  MemoryInv'
<1>1. /\ \A y \in States : lastChild'[y] = Null /\ entered'[y] = 0
      /\ \A h \in HistoryStates : history'[h] = Null
  BY DEF Start
<1>2. Active' = {}
  BY <1>1 DEF Active
<1> QED
  BY <1>1, <1>2, TreeAssumption DEF MemoryInv

(* Steps that neither enter nor save, and keep what is or will be active.  *)
LEMMA KeepMemory ==
    ASSUME MemoryInv, UNCHANGED <<history, lastChild>>, Active' \subseteq Active, Held' = Held
    PROVE  MemoryInv'
BY DEF MemoryInv

(* The child of a history state that is exited is saved.                   *)
LEMMA ExitMemory ==
    ASSUME ControlInv, PairingInv, MemoryInv, Exit
    PROVE  MemoryInv'
<1>1. s \in Active /\ Active' = Active \ {s} /\ PairingInv'
  BY ExitPairing
<1>2. /\ lastChild' = lastChild /\ s \in States /\ pc = "exit"
      /\ \A h \in HistoryStates : history'[h] = IF h = Parent[s] THEN s ELSE history[h]
  BY DEF ControlInv, TypeOK, Exit, SaveHistory
<1>3. Held = Active /\ Active' \subseteq Held'
  <2>1. target' = target /\ pc' \in {"actions", "exit"}
    BY DEF Exit
  <2>2. pc' = "actions" => Active' \subseteq Up[target']
    BY <1>1 DEF PairingInv
  <2> QED
    BY <1>2, <2>1, <2>2 DEF Held, Active
<1>4. ASSUME NEW h \in HistoryStates
      PROVE  history'[h] = lastChild'[h] \/ lastChild'[h] \in Held'
  <2>1. h \in States /\ h # Null
    BY TreeAssumption
  <2>2. CASE h = Parent[s]
    BY <1>1, <1>2, <2>1, <2>2 DEF MemoryInv
  <2>3. CASE h # Parent[s]
    <3>1. lastChild[h] # s
      BY <1>2, <2>1, <2>3, TreeAssumption DEF MemoryInv
    <3> QED
      BY <1>1, <1>2, <1>3, <2>3, <3>1 DEF MemoryInv
  <2> QED
    BY <2>2, <2>3
<1> QED
  BY <1>1, <1>2, <1>4 DEF MemoryInv

(* A state x that is entered becomes the last child of its parent, which   *)
(* has no other active child.                                              *)
LEMMA EnterMemory ==
    ASSUME ControlInv, MemoryInv, NEW x \in States, NEW t \in States,
           EnterState(x), UNCHANGED history, x \in Up[t], Active \subseteq Up[t],
           Active' = Active \cup {x}, Held \subseteq Held', x \in Held'
    PROVE  MemoryInv'
<1>1. \A y \in States :
          lastChild'[y] = IF y = Parent[x] THEN x ELSE lastChild[y]
  BY TreeAssumption DEF ControlInv, TypeOK, EnterState
<1>2. \A y \in States : lastChild'[y] # Null => Parent[lastChild'[y]] = y
  BY <1>1 DEF MemoryInv
<1>3. ASSUME NEW y \in Active', Parent[y] # Null
      PROVE  lastChild'[Parent[y]] = y
  <2>1. y \in States /\ Parent[y] \in States /\ y \in Up[t]
    BY <1>3, TreeAssumption, UpTyped
  <2>2. y # x => Parent[y] # Parent[x]
    BY <1>3, <2>1, NoSiblings
  <2> QED
    BY <1>1, <1>3, <2>1, <2>2 DEF MemoryInv
<1>4. ASSUME NEW h \in HistoryStates
      PROVE  history'[h] = lastChild'[h] \/ lastChild'[h] \in Held'
  BY <1>1, TreeAssumption DEF MemoryInv
<1> QED
  BY <1>2, <1>3, <1>4 DEF MemoryInv

LEMMA NextMemory ==
    ASSUME LevelTransitions
    PROVE  ControlInv /\ PairingInv /\ MemoryInv /\ [Next]_vars => MemoryInv'
<1> SUFFICES ASSUME ControlInv, PairingInv, MemoryInv, [Next]_vars
             PROVE  MemoryInv'
  OBVIOUS
<1>1. ASSUME NEW e \in Events, React(e) PROVE MemoryInv'
  BY <1>1, KeepMemory DEF React, Held, Active
<1>2. ASSUME DeferEvent \/ UnhandledEvent \/ NoTransition PROVE MemoryInv'
  BY <1>2, KeepMemory DEF DeferEvent, UnhandledEvent, NoTransition, Replies, Held, Active, locals
<1>3. ASSUME NEW x \in States, TransitionTo(x) PROVE MemoryInv'
  BY <1>3, KeepMemory DEF TransitionTo, Replies, Held, Active
<1>4. ASSUME ExitSelf PROVE MemoryInv'
  <2>1. /\ pc = "exitSelf" /\ Active = Up[target] /\ s = target /\ target \in States
        /\ s \in Active /\ TypeOK /\ EntryExitAlternate
    BY <1>4, UpTyped DEF ExitSelf, ControlInv, PairingInv
  <2>2. Active' = Active \ {s}
    BY <1>4, <2>1, ExitActive DEF ExitSelf
  <2>3. Held = Active /\ Held' = Up[target]
    BY <1>4, <2>1 DEF ExitSelf, Held, locals, Active
  <2> QED
    BY <1>4, <2>1, <2>2, <2>3, KeepMemory DEF ExitSelf
<1>5. ASSUME ExecuteActions PROVE MemoryInv'
  BY <1>5, KeepMemory DEF ExecuteActions, Held, Active
<1>6. ASSUME NEW x \in States, Enter(x) PROVE MemoryInv'
  <2>1. /\ Active' = Active \cup {x} /\ x \in Up[target] /\ target \in States
        /\ Active \subseteq Up[target] /\ pc = "enter"
    BY <1>6, EnterPairing DEF Enter, ControlInv, PairingInv
  <2>2. Held = Up[target] /\ Held' = Up[target]
    BY <1>6, <2>1 DEF Enter, Held
  <2> QED
    BY <1>6, <2>1, <2>2, EnterMemory DEF Enter
<1>7. ASSUME EnterInitial PROVE MemoryInv'
  <2>1. /\ target' \in States /\ Active' = Active \cup {target'} /\ Parent[target'] = target
        /\ pc = "descend" /\ Active = Up[target] /\ target \in States
    BY <1>7, EnterInitialPairing DEF EnterInitial, ControlInv, PairingInv
  <2>2. Held = Up[target] /\ Held' = Up[target']
    BY <1>7, <2>1 DEF EnterInitial, Held
  <2>3. Up[target'] = {target'} \cup Up[target]
    BY <2>1, TreeAssumption
  <2>4. EnterState(target') /\ UNCHANGED history
    BY <1>7 DEF EnterInitial
  <2>5. PICK t \in States : t = target'
    BY <2>1
  <2> QED
    BY <2>1, <2>2, <2>3, <2>4, <2>5, EnterMemory
<1>8. ASSUME Finish PROVE MemoryInv'
  <2>1. pc = "descend" /\ pc' = "idle" /\ Active = Up[target] /\ UNCHANGED entered
    BY <1>8 DEF Finish, PairingInv
  <2>2. Active' = Active
    BY <2>1 DEF Active
  <2>3. Held = Up[target] /\ Held' = Active'
    BY <2>1 DEF Held
  <2> QED
    BY <1>8, <2>1, <2>2, <2>3, KeepMemory DEF Finish
<1>9. CASE UNCHANGED vars
  BY <1>9, KeepMemory DEF vars, locals, Held, Active
<1> QED
  BY <1>1, <1>2, <1>3, <1>4, <1>5, <1>6, <1>7, <1>8, <1>9, StartMemory, ExitMemory
     DEF Next, Running

(* When transitions are level, a history state that is not active          *)
(* remembers the child it was left in, whatever was entered since.         *)
THEOREM HistoryRemembersLastChild ==
    ASSUME LevelTransitions
    PROVE  SafeSpec => []HistoryIsLastChild
<1>1. PairingInv /\ MemoryInv => HistoryIsLastChild
  <2> SUFFICES ASSUME PairingInv, MemoryInv, pc = "idle",
                      NEW h \in HistoryStates, entered[h] = 0
               PROVE  history[h] = lastChild[h]
    BY DEF HistoryIsLastChild
  <2>1. h \in States /\ h # Null /\ h \notin Active /\ Held = Active
    BY TreeAssumption DEF Active, Held
  <2>2. lastChild[h] \notin Active
    BY <2>1, TreeAssumption DEF MemoryInv, PairingInv, ParentsActive, Active
  <2> QED
    BY <2>1, <2>2 DEF MemoryInv
<1>2. ControlInv /\ PairingInv /\ [Next]_vars => PairingInv'
  BY NextPairing
<1>3. ControlInv /\ PairingInv /\ MemoryInv /\ [Next]_vars => MemoryInv'
  BY NextMemory
<1> QED
  BY <1>1, <1>2, <1>3, InitControl, NextControl, InitPairing, InitMemory, PTL DEF SafeSpec

-----------------------------------------------------------------------------
(* A call is one step of the statechart.                                   *)

(* The handlers of the resting state, asked from the innermost outwards,   *)
(* lead to x.                                                              *)
AskedFor(x) ==
    /\ restState \in States
    /\ event \in Events
    /\ \E level \in Up[restState] :
          /\ \A inner \in Up[restState] \ Up[level] : Null \in Handler[<<inner, event>>]
          /\ x \in Handler[<<level, event>>]

(* The history after the states in left were left, when it was old.        *)
Remembering(left, old) ==
    [h \in HistoryStates |->
        IF \E y \in left : Parent[y] = h
        THEN CHOOSE y \in left : Parent[y] = h
        ELSE old[h]]

NoHistory == [h \in HistoryStates |-> Null]

(* The call goes to x, and history is what it has to be then.              *)
GoesTo(x) ==
    /\ x \in States
    /\ \/ x \in StartStates /\ history = NoHistory
       \/ AskedFor(x) /\ history = Remembering(Up[restState] \ Up[x], restHistory)

CallInv ==
    /\ restHistory \in [HistoryStates -> States \cup {Null}]
    /\ pc \in {"idle", "handle"} => restState = current /\ restHistory = history
    /\ pc = "handle" =>
          \A inner \in Up[current] \ Up[s] : Null \in Handler[<<inner, event>>]
    /\ pc = "exitSelf" =>
          AskedFor(target) /\ history = restHistory /\ Up[restState] \subseteq Up[target]
    /\ pc = "exit" =>
          /\ AskedFor(target)
          /\ UpTo(top) = Up[restState] \cap Up[target]
          /\ s \in Up[restState]
          /\ history = Remembering(Up[restState] \ Up[s], restHistory)
    /\ pc \in {"actions", "enter"} => GoesTo(target)
    /\ pc = "descend" => \E x \in States : GoesTo(x) /\ Chart!LeadsTo(x, target, history)

ChartStep == [Chart!Next]_Recorded

-----------------------------------------------------------------------------
(* Where child after child leads.                                          *)

(* A state below which another one is has a child on the way to it.        *)
LEMMA ChildOnTheWay ==
    ASSUME NEW p
    PROVE  \A r \in States :
              (p \in Up[r] /\ p # r) => \E w \in Up[r] : Parent[w] = p
<1> DEFINE S == {r \in States : (p \in Up[r] /\ p # r) => \E w \in Up[r] : Parent[w] = p}
<1>1. ASSUME NEW r \in States, Parent[r] = Null \/ Parent[r] \in S
      PROVE  r \in S
  <2> SUFFICES ASSUME p \in Up[r], p # r PROVE \E w \in Up[r] : Parent[w] = p
    OBVIOUS
  <2>1. Parent[r] \in S /\ p \in Up[Parent[r]]
    BY <1>1, UpStep, TreeAssumption
  <2>2. CASE Parent[r] = p
    BY <2>2, UpTyped
  <2>3. CASE Parent[r] # p
    <3>1. PICK w \in Up[Parent[r]] : Parent[w] = p
      BY <2>1, <2>3
    <3> QED
      BY <2>1, <3>1, TreeAssumption
  <2> QED
    BY <2>2, <2>3
<1>2. S = States
  BY <1>1, TreeInduction
<1> QED
  BY <1>2

(* Whatever x leads to is on the way to where it ends ...                  *)
LEMMA LeadsWithin ==
    ASSUME NEW h, NEW x \in States, NEW r1 \in States, NEW r2 \in States,
           Chart!LeadsTo(x, r1, h), Chart!LeadsTo(x, r2, h), Chart!Child(r1, h) = Null
    PROVE  r2 \in Up[r1]
<1> DEFINE S == {z \in States : (z \in Up[r2] /\ x \in Up[z]) => z \in Up[r1]}
<1>1. ASSUME NEW z \in States, Parent[z] = Null \/ Parent[z] \in S
      PROVE  z \in S
  <2> SUFFICES ASSUME z \in Up[r2], x \in Up[z], z # x PROVE z \in Up[r1]
    BY DEF Chart!LeadsTo
  <2>1. Parent[z] \in S /\ x \in Up[Parent[z]] /\ Parent[z] # Null
    BY <1>1, UpStep, TreeAssumption
  <2>2. Parent[z] \in Up[r2]
    BY <2>1, UpHasParents
  <2>3. Parent[z] \in Up[r1]
    BY <2>1, <2>2
  <2>4. z \notin Up[x]
    BY UpAntisymmetric
  <2>5. Chart!Child(Parent[z], h) = z
    BY <2>4 DEF Chart!LeadsTo
  <2>6. Parent[z] # r1
    BY <2>5, TreeAssumption
  <2>7. PICK w \in Up[r1] : Parent[w] = Parent[z]
    BY <2>3, <2>6, ChildOnTheWay
  <2>8. w \in States
    BY UpTyped
  <2>9. w \notin Up[x]
    <3> SUFFICES ASSUME w \in Up[x] PROVE FALSE
      OBVIOUS
    <3>1. Parent[w] \in States /\ x \in Up[Parent[w]]
      BY <2>1, <2>7
    <3>2. w \in Up[Parent[w]]
      BY <3>1, UpTransitive
    <3> QED
      BY <2>1, <2>7, <2>8, <3>2, TreeAssumption
  <2>10. Chart!Child(Parent[w], h) = w
    BY <2>9 DEF Chart!LeadsTo
  <2> QED
    BY <2>5, <2>7, <2>10
<1>2. S = States
  BY <1>1, TreeInduction
<1> QED
  BY <1>2, UpTyped DEF Chart!LeadsTo

(* ... so it ends in one state only.                                       *)
LEMMA RestIsUnique ==
    ASSUME NEW h, NEW x \in States, NEW r \in States,
           Chart!LeadsTo(x, r, h), Chart!Child(r, h) = Null
    PROVE  Chart!Rest(x, h) = r
<1> DEFINE Ends(q) == Chart!LeadsTo(x, q, h) /\ Chart!Child(q, h) = Null
<1>1. ASSUME NEW q \in States, Ends(q) PROVE q = r
  BY <1>1, LeadsWithin, UpAntisymmetric
<1>2. Chart!Rest(x, h) = CHOOSE q \in States : Ends(q)
  BY DEF Chart!Rest
<1> HIDE DEF Ends
<1>3. Ends(r)
  BY DEF Ends
<1> QED
  BY <1>1, <1>2, <1>3

-----------------------------------------------------------------------------
(* What is remembered.                                                     *)

(* The states left are a chain: each parent has one child among them.      *)
LEMMA RememberingMeaning ==
    ASSUME NEW old, NEW x \in States, NEW left \in SUBSET Up[x], NEW h \in HistoryStates
    PROVE  /\ \A y \in left : Parent[y] = h => Remembering(left, old)[h] = y
           /\ (\A y \in left : Parent[y] # h) => Remembering(left, old)[h] = old[h]
<1>1. h # Null
  BY TreeAssumption
<1>2. ASSUME NEW y \in left, NEW z \in left, Parent[y] = h, Parent[z] = h
      PROVE  y = z
  BY <1>1, <1>2, NoSiblings
<1>3. Remembering(left, old)[h] = IF \E y \in left : Parent[y] = h
                             THEN CHOOSE y \in left : Parent[y] = h
                             ELSE old[h]
  BY DEF Remembering
<1> QED
  BY <1>2, <1>3

LEMMA RememberingNothing ==
    ASSUME CallInv
    PROVE  Remembering({}, restHistory) = restHistory
BY DEF CallInv, Remembering

(* Leaving one state more remembers that one in addition.                  *)
LEMMA RememberingOneMore ==
    ASSUME NEW old, NEW x \in States, NEW left \in SUBSET Up[x], NEW y \in Up[x]
    PROVE  Remembering(left \cup {y}, old) =
              [h \in HistoryStates |->
                  IF h = Parent[y] THEN y ELSE Remembering(left, old)[h]]
<1> DEFINE more == left \cup {y}
<1>1. more \in SUBSET Up[x]
  OBVIOUS
<1>1a. \A z : z \in more <=> z \in left \/ z = y
  OBVIOUS
<1> HIDE DEF more
<1>2. ASSUME NEW h \in HistoryStates
      PROVE  Remembering(more, old)[h] =
                 IF h = Parent[y] THEN y ELSE Remembering(left, old)[h]
  <2>0. \A z \in more : Parent[z] = h => Remembering(more, old)[h] = z
    BY <1>1, RememberingMeaning
  <2>1. CASE h = Parent[y]
    BY <1>1a, <2>0, <2>1
  <2>2. CASE h # Parent[y] /\ \E z \in left : Parent[z] = h
    <3>1. PICK z \in left : Parent[z] = h
      BY <2>2
    <3>2. Remembering(left, old)[h] = z
      BY <3>1, RememberingMeaning
    <3>3. Remembering(more, old)[h] = z
      BY <1>1a, <2>0, <3>1
    <3> QED
      BY <2>2, <3>2, <3>3
  <2>3. CASE h # Parent[y] /\ \A z \in left : Parent[z] # h
    BY <1>1a, <1>1, <2>3, RememberingMeaning
  <2> QED
    BY <2>1, <2>2, <2>3
<1> QED
  BY <1>2 DEF Remembering, more

-----------------------------------------------------------------------------
(* The steps.                                                              *)

LEMMA InitCall == RecordedInit => ControlInv /\ CallInv /\ Chart!Init
<1> SUFFICES ASSUME RecordedInit PROVE CallInv /\ Chart!Init
  BY InitControl DEF RecordedInit
<1>1. restHistory = NoHistory /\ restState = Null /\ pc = "idle" /\ restHistory = history
      /\ restState = current
  BY DEF RecordedInit, Init, NoHistory
<1> QED
  BY <1>1 DEF CallInv, NoHistory, Chart!Init

(* A step within a call records nothing.                                   *)
LEMMA RecordKeeps ==
    ASSUME Record, pc = "idle" \/ pc' # "idle"
    PROVE  UNCHANGED Recorded /\ restState' = restState /\ restHistory' = restHistory
BY DEF Record, Recorded

LEMMA StartCall ==
    ASSUME ControlInv, CallInv, NEW x \in StartStates, Start(x), Record
    PROVE  CallInv' /\ ChartStep
<1>1. /\ x \in States /\ pc' = "enter" /\ target' = x /\ history' = NoHistory
      /\ pc = "idle"
  BY HandlerAssumption DEF Start, NoHistory
<1>2. UNCHANGED Recorded /\ restHistory' = restHistory
  BY <1>1, RecordKeeps
<1>3. GoesTo(target)'
  BY <1>1 DEF GoesTo, NoHistory
<1> QED
  BY <1>1, <1>2, <1>3 DEF CallInv, ChartStep

LEMMA ReactCall ==
    ASSUME ControlInv, CallInv, NEW e \in Events, React(e), Record
    PROVE  CallInv' /\ ChartStep
<1>1. pc = "idle" /\ pc' = "handle" /\ s' = current /\ current' = current /\ history' = history
  BY DEF React
<1>2. UNCHANGED Recorded /\ restHistory' = restHistory /\ restState' = restState
  BY <1>1, RecordKeeps
<1> QED
  BY <1>1, <1>2 DEF CallInv, ChartStep

(* Asking goes on with the parent, or ends where it began.                 *)
LEMMA HandlerCall ==
    ASSUME ControlInv, CallInv, DeferEvent \/ UnhandledEvent \/ NoTransition, Record
    PROVE  CallInv' /\ ChartStep
<1>1. /\ pc = "handle" /\ pc' \in {"handle", "idle"}
      /\ UNCHANGED <<current, history, event>>
  BY DEF DeferEvent, UnhandledEvent, NoTransition, Replies, locals
<1>2. restState' = restState /\ restHistory' = restHistory
  BY <1>1 DEF Record, Recorded, CallInv
<1>3. s \in States /\ current \in States /\ s \in Up[current]
  BY <1>1, UpTyped DEF ControlInv
<1>4. CASE pc' = "handle"
  <2>1. Null \in Handler[<<s, event>>] /\ s' = Parent[s] /\ Parent[s] # Null
    BY <1>4 DEF DeferEvent, UnhandledEvent, NoTransition, Replies
  <2>2. Up[s] = {s} \cup Up[s']
    BY <1>3, <2>1, TreeAssumption
  <2>3. \A inner \in Up[current'] \ Up[s'] : Null \in Handler[<<inner, event'>>]
    BY <1>1, <2>1, <2>2 DEF CallInv
  <2> QED
    BY <1>1, <1>2, <1>4, <2>3 DEF CallInv, ChartStep, Recorded
<1>5. CASE pc' = "idle"
  BY <1>1, <1>2, <1>5 DEF CallInv, ChartStep, Recorded
<1> QED
  BY <1>1, <1>4, <1>5

LEMMA TransitionCall ==
    ASSUME ControlInv, CallInv, NEW x \in States, TransitionTo(x), Record
    PROVE  CallInv' /\ ChartStep
<1> DEFINE common == FindCommonParent(current, x)
<1>1. /\ pc = "handle" /\ current \in States /\ s \in Up[current] /\ event \in Events
      /\ x \in Handler[<<s, event>>]
  BY DEF ControlInv, TransitionTo, Replies
<1>2. /\ target' = x /\ top' = common /\ s' = current /\ event' = event
      /\ history' = history /\ pc' = IF common = current THEN "exitSelf" ELSE "exit"
  BY DEF TransitionTo
<1>3. UNCHANGED Recorded /\ restState' = restState /\ restHistory' = restHistory
  BY <1>1, <1>2, RecordKeeps
<1>4. restState = current /\ restHistory = history
  BY <1>1 DEF CallInv
<1>5. AskedFor(target)'
  <2>1. \A inner \in Up[current] \ Up[s] : Null \in Handler[<<inner, event>>]
    BY <1>1 DEF CallInv
  <2> QED
    BY <1>1, <1>2, <1>3, <1>4, <2>1 DEF AskedFor
<1>6. UpTo(common) = Up[current] \cap Up[x]
  BY <1>1, CommonParent
<1>7. CASE common = current
  <2>1. Up[restState'] \subseteq Up[target']
    BY <1>1, <1>2, <1>3, <1>4, <1>6, <1>7, TreeAssumption DEF UpTo
  <2> QED
    BY <1>2, <1>3, <1>4, <1>5, <1>7, <2>1 DEF CallInv, ChartStep
<1>8. CASE common # current
  <2>1. UpTo(top') = Up[restState'] \cap Up[target'] /\ s' \in Up[restState']
    BY <1>1, <1>2, <1>3, <1>4, <1>6, UpTyped
  <2>2. history' = Remembering({}, restHistory')
    BY <1>2, <1>3, <1>4, RememberingNothing
  <2>3. Up[restState'] \ Up[s'] = {}
    BY <1>2, <1>3, <1>4
  <2> QED
    BY <1>2, <1>3, <1>5, <1>8, <2>1, <2>2, <2>3 DEF CallInv, ChartStep
<1> QED
  BY <1>7, <1>8

LEMMA ExitSelfCall ==
    ASSUME ControlInv, CallInv, ExitSelf, Record
    PROVE  CallInv' /\ ChartStep
<1>1. /\ pc = "exitSelf" /\ pc' = "actions" /\ UNCHANGED <<target, history, event>>
      /\ target \in States
  BY DEF ExitSelf, locals, ControlInv
<1>2. UNCHANGED Recorded /\ restState' = restState /\ restHistory' = restHistory
  BY <1>1, RecordKeeps
<1>3. AskedFor(target) /\ history = restHistory /\ Up[restState] \ Up[target] = {}
  BY <1>1 DEF CallInv
<1>4. GoesTo(target)
  BY <1>1, <1>3, RememberingNothing DEF GoesTo
<1>5. GoesTo(target)'
  BY <1>1, <1>2, <1>4 DEF GoesTo, AskedFor
<1> QED
  BY <1>1, <1>2, <1>5 DEF CallInv, ChartStep

(* Each exit leaves one state more, and remembers it.                      *)
LEMMA ExitCall ==
    ASSUME ControlInv, CallInv, Exit, Record
    PROVE  CallInv' /\ ChartStep
<1> DEFINE left == Up[restState] \ Up[s]
<1>1. /\ pc = "exit" /\ s \in States /\ target \in States /\ restState \in States
      /\ s \in Up[restState] /\ AskedFor(target) /\ history = Remembering(left, restHistory)
      /\ UpTo(top) = Up[restState] \cap Up[target]
  BY DEF ControlInv, CallInv, Exit, AskedFor
<1>2. /\ UNCHANGED <<target, top, event>> /\ s' = Parent[s]
      /\ pc' = IF Parent[s] = top THEN "actions" ELSE "exit"
  BY DEF Exit
<1>3. UNCHANGED Recorded /\ restState' = restState /\ restHistory' = restHistory
  BY <1>1, <1>2, RecordKeeps
<1>4. left \cup {s} = Up[restState] \ UpTo(Parent[s])
  <2>1. UpTo(Parent[s]) = Up[s] \ {s} /\ s \in Up[s]
    BY <1>1, TreeAssumption DEF UpTo
  <2> QED
    BY <1>1, <2>1
<1>5. history' = Remembering(left \cup {s}, restHistory)
  <2>1. history' = [h \in HistoryStates |-> IF h = Parent[s] THEN s ELSE history[h]]
    BY <1>1 DEF Exit, SaveHistory, ControlInv, TypeOK
  <2>2. \A h \in HistoryStates : history[h] = Remembering(left, restHistory)[h]
    BY <1>1
  <2>3. Remembering(left \cup {s}, restHistory)
           = [h \in HistoryStates |->
                 IF h = Parent[s] THEN s ELSE Remembering(left, restHistory)[h]]
    <3>1. left \in SUBSET Up[restState]
      OBVIOUS
    <3> HIDE DEF left
    <3> QED
      BY <1>1, <3>1, RememberingOneMore
  <2> HIDE DEF left
  <2> QED
    BY <2>1, <2>2, <2>3
<1>6. AskedFor(target)'
  BY <1>1, <1>2, <1>3 DEF AskedFor
<1>7. CASE Parent[s] = top
  <2>1. left \cup {s} = Up[restState] \ Up[target]
    BY <1>1, <1>4, <1>7
  <2>2. history' = Remembering(Up[restState] \ Up[target], restHistory)'
    BY <1>2, <1>3, <1>5, <2>1
  <2>3. GoesTo(target)'
    BY <1>1, <1>2, <1>3, <1>6, <2>2 DEF GoesTo
  <2> QED
    BY <1>2, <1>3, <1>7, <2>3 DEF CallInv, ChartStep
<1>8. CASE Parent[s] # top
  <2>1. s' \in States /\ s' # Null
    BY <1>2, <1>8, ExitControl, TreeAssumption DEF ControlInv
  <2>2. s' \in Up[restState']
    BY <1>1, <1>2, <1>3, <2>1, UpHasParents
  <2>3. history' = Remembering(Up[restState] \ Up[s], restHistory)'
    BY <1>2, <1>3, <1>4, <1>5, <2>1 DEF UpTo
  <2> QED
    BY <1>1, <1>2, <1>3, <1>6, <1>8, <2>2, <2>3 DEF CallInv, ChartStep, UpTo
<1> QED
  BY <1>7, <1>8

(* Where the call goes to does not change while its way is entered.        *)
LEMMA GoalKept ==
    ASSUME NEW x, GoesTo(x), UNCHANGED <<history, event, restState, restHistory>>
    PROVE  GoesTo(x)'
BY DEF GoesTo, AskedFor

LEMMA EnterCall ==
    ASSUME ControlInv, CallInv, ExecuteActions \/ (\E x \in States : Enter(x)), Record
    PROVE  CallInv' /\ ChartStep
<1>1. /\ pc \in {"actions", "enter"} /\ pc' \in {"enter", "descend"}
      /\ UNCHANGED <<target, history, event>> /\ target \in States /\ GoesTo(target)
  BY DEF ExecuteActions, Enter, ControlInv, CallInv
<1>2. UNCHANGED Recorded /\ restState' = restState /\ restHistory' = restHistory
  BY <1>1, RecordKeeps
<1>3. GoesTo(target)'
  BY <1>1, <1>2, GoalKept DEF GoesTo, AskedFor
<1>4. Chart!LeadsTo(target, target, history)'
  BY <1>1, UpTyped DEF Chart!LeadsTo
<1>5. target' \in States
  BY <1>1
<1> QED
  BY <1>1, <1>2, <1>3, <1>4, <1>5 DEF CallInv, ChartStep

LEMMA ChildIsInitial ==
    ASSUME NEW y
    PROVE  Chart!Child(y, history) = GetInitialState(y)
BY DEF Chart!Child, GetInitialState

LEMMA EnterInitialCall ==
    ASSUME ControlInv, CallInv, EnterInitial, Record
    PROVE  CallInv' /\ ChartStep
<1> DEFINE child == GetInitialState(target)
<1>1. /\ pc = "descend" /\ pc' = "descend" /\ UNCHANGED <<history, event>>
      /\ target \in States /\ target' = child /\ child # Null
  BY DEF EnterInitial, ControlInv
<1>2. UNCHANGED Recorded /\ restState' = restState /\ restHistory' = restHistory
  BY <1>1, RecordKeeps
<1>3. child \in States /\ Parent[child] = target
  BY <1>1, InitialStateTyped
<1>4. PICK x \in States : GoesTo(x) /\ Chart!LeadsTo(x, target, history)
  BY <1>1 DEF CallInv
<1>5. GoesTo(x)'
  BY <1>1, <1>2, <1>4, GoalKept
<1>6. Chart!LeadsTo(x, child, history)
  <2>1. Up[child] = {child} \cup Up[target]
    BY <1>1, <1>3, TreeAssumption
  <2>2. Chart!Child(Parent[child], history) = child
    BY <1>3, ChildIsInitial
  <2> QED
    BY <1>4, <2>1, <2>2 DEF Chart!LeadsTo
<1>7. Chart!LeadsTo(x, target', history')
  BY <1>1, <1>6
<1> QED
  BY <1>1, <1>2, <1>5, <1>7 DEF CallInv, ChartStep

(* The end of the call is the step of the abstract machine.                *)
LEMMA FinishCall ==
    ASSUME ControlInv, CallInv, Finish, Record
    PROVE  CallInv' /\ ChartStep
<1>1. /\ pc = "descend" /\ pc' = "idle" /\ history' = history /\ current' = target
      /\ target \in States /\ GetInitialState(target) = Null
  BY DEF Finish, ControlInv
<1>2. restState' = target /\ restHistory' = history
  BY <1>1 DEF Record
<1>3. CallInv'
  BY <1>1, <1>2 DEF CallInv, ControlInv, TypeOK
<1>4. PICK x \in States : GoesTo(x) /\ Chart!LeadsTo(x, target, history)
  BY <1>1 DEF CallInv
<1>5. Chart!Rest(x, history) = target
  BY <1>1, <1>4, ChildIsInitial, RestIsUnique
<1>6. CASE x \in StartStates /\ history = NoHistory
  <2>1. Chart!Start(x)
    BY <1>2, <1>5, <1>6 DEF Chart!Start, NoHistory
  <2> QED
    BY <1>3, <1>6, <2>1 DEF ChartStep, Chart!Next
<1>7. CASE AskedFor(x) /\ history = Remembering(Up[restState] \ Up[x], restHistory)
  <2>1. Chart!TransitionTo(x)
    BY <1>2, <1>5, <1>7 DEF Chart!TransitionTo, Chart!Left, Remembering
  <2>2. Chart!React(event)
    BY <1>4, <1>7, <2>1 DEF AskedFor, Chart!React
  <2> QED
    BY <1>3, <1>7, <2>2, TreeAssumption DEF AskedFor, ChartStep, Chart!Next
<1> QED
  BY <1>4, <1>6, <1>7 DEF GoesTo

LEMMA NextCall ==
    ControlInv /\ CallInv /\ [RecordedNext]_<<vars, Recorded>> =>
        ControlInv' /\ CallInv' /\ ChartStep
<1> SUFFICES ASSUME ControlInv, CallInv, [RecordedNext]_<<vars, Recorded>>
             PROVE  ControlInv' /\ CallInv' /\ ChartStep
  OBVIOUS
<1>1. ControlInv'
  <2>1. RecordedNext => Next
    BY DEF RecordedNext, Next
  <2> QED
    BY <2>1, NextControl
<1>2. CASE UNCHANGED <<vars, Recorded>>
  BY <1>1, <1>2 DEF CallInv, ChartStep, vars, locals, Recorded, GoesTo, AskedFor, UpTo, Chart!LeadsTo, Chart!Child
<1>3. CASE (\E x \in StartStates : Start(x)) /\ Record
  BY <1>1, <1>3, StartCall
<1>4. CASE (\E e \in Events : React(e)) /\ Record
  BY <1>1, <1>4, ReactCall
<1>5. CASE Running /\ Record
  <2>1. CASE DeferEvent \/ UnhandledEvent \/ NoTransition
    BY <1>1, <1>5, <2>1, HandlerCall
  <2>2. CASE \E x \in States : TransitionTo(x)
    BY <1>1, <1>5, <2>2, TransitionCall
  <2>3. CASE ExecuteActions \/ (\E x \in States : Enter(x))
    BY <1>1, <1>5, <2>3, EnterCall
  <2>4. CASE ExitSelf \/ Exit
    BY <1>1, <1>5, <2>4, ExitSelfCall, ExitCall
  <2>5. CASE EnterInitial \/ Finish
    BY <1>1, <1>5, <2>5, EnterInitialCall, FinishCall
  <2> QED
    BY <1>1, <1>5, <2>1, <2>2, <2>3, <2>4, <2>5 DEF Running
<1> QED
  BY <1>1, <1>2, <1>3, <1>4, <1>5 DEF RecordedNext

(* Every call of Start() and React() ends in the state and with the        *)
(* history of one step of the abstract machine from where the last call    *)
(* ended, and nothing in between is a step of it.                          *)
THEOREM RefinesStatechart == RecordedSpec => ImplementsStatechart
<1>1. RecordedInit => ControlInv /\ CallInv /\ Chart!Init
  BY InitCall
<1>2. ControlInv /\ CallInv /\ [RecordedNext]_<<vars, Recorded>> =>
          ControlInv' /\ CallInv' /\ [Chart!Next]_<<restState, restHistory>>
  BY NextCall DEF ChartStep, Recorded
<1> QED
  BY <1>1, <1>2, PTL DEF RecordedSpec, ImplementsStatechart, Chart!Spec

(* The recording variables only watch: what is proved of Statemachine      *)
(* holds while they are there.                                             *)
THEOREM RecordingOnlyWatches == RecordedSpec => SafeSpec
<1>1. RecordedInit => Init
  BY DEF RecordedInit
<1>2. [RecordedNext]_<<vars, Recorded>> => [Next]_vars
  BY DEF RecordedNext, Next
<1> QED
  BY <1>1, <1>2, PTL DEF RecordedSpec, SafeSpec
=============================================================================
