---------------------------- MODULE Statemachine ----------------------------
(***************************************************************************)
(* Statemachine<Impl, Event>: a hierarchical state machine.  Start() and   *)
(* React() run the user's handlers and entry, exit and transition actions, *)
(* each of which is a step of its own here: what happens in between is     *)
(* what those functions, and a thread that looks at CurrentState(), see.   *)
(***************************************************************************)
EXTENDS Integers, FiniteSets

CONSTANTS States,        \* the states of the machine, kNone and the like excluded
          Parent,        \* parent_ of each state, Null for a top-level state
          Initial,       \* initial_ of each state, Null if it has none
          HistoryStates, \* the states with the flag kHistory
          Up,            \* each state with all its ancestors
          Events,        \* the events React() is called with
          Handler,       \* for a state and an event, the replies the handler may give
          StartStates,   \* the states Start() is called with
          Null,          \* nullptr
          kInTransition, kNone, kDeferEvent

ASSUME TreeAssumption ==
    /\ IsFiniteSet(States)
    /\ Null \notin States
    /\ kInTransition \notin States \cup {Null}
    /\ Parent \in [States -> States \cup {Null}]
    /\ HistoryStates \subseteq States
    /\ Up \in [States -> SUBSET States]
    /\ \A s \in States :
          Up[s] = {s} \cup IF Parent[s] = Null THEN {} ELSE Up[Parent[s]]
    /\ \A s \in States : Parent[s] # Null => s \notin Up[Parent[s]]

(* initial_ is a substate: a child of the state.                           *)
ASSUME InitialAssumption ==
    /\ Initial \in [States -> States \cup {Null}]
    /\ \A s \in States : Initial[s] # Null => Parent[Initial[s]] = s

ASSUME HandlerAssumption ==
    /\ kNone \notin States \cup {Null} /\ kDeferEvent \notin States \cup {Null, kNone}
    /\ Handler \in [States \X Events -> SUBSET (States \cup {Null, kNone, kDeferEvent})]
    /\ StartStates \subseteq States

(* A transition to x from a handler of c leads neither into nor out of the *)
(* composite states around it: wherever the machine rests when c is asked, *)
(* x is that state itself or neither within it nor around it.              *)
LevelReply(c, x) ==
    \A rest \in States :
        (Initial[rest] = Null /\ c \in Up[rest]) =>
            (x = rest \/ (x \notin Up[rest] /\ rest \notin Up[x]))

(* What the machine needs of its handlers to keep entries and exits paired.*)
LevelTransitions ==
    \A c \in States, e \in Events :
        \A x \in Handler[<<c, e>>] \cap States : LevelReply(c, x)

VARIABLES current,     \* current_state_
          working,     \* working_
          history,     \* initial_: the child a history state was left in, or Null
          pc,          \* where Start() or React() is
          event,       \* React()'s event
          s,           \* the state asked or exited next
          top,         \* React()'s common_parent
          target,      \* the transition's target, then the state entered last
          path,        \* the states still to be entered before target's substates
          entered,     \* how often each state was entered, less how often exited
          lastChild    \* for each state the child of it that was entered last

locals == <<event, s, top, target, path>>
vars == <<current, working, history, pc, locals, entered, lastChild>>

Init ==
    /\ current = Null
    /\ working = FALSE
    /\ history = [h \in HistoryStates |-> Null]
    /\ pc = "idle"
    /\ event = Null /\ s = Null /\ top = Null /\ target = Null /\ path = {}
    /\ entered = [x \in States |-> 0]
    /\ lastChild = [x \in States |-> Null]

-----------------------------------------------------------------------------
UpTo(x) == IF x = Null THEN {} ELSE Up[x]

(* The first of state1 and its ancestors that is state2 or one of its      *)
(* ancestors.                                                              *)
FindCommonParent(state1, state2) ==
    LET common == Up[state1] \cap Up[state2]
    IN IF common = {} THEN Null ELSE CHOOSE c \in common : common \subseteq Up[c]

GetInitialState(x) ==
    IF x \in HistoryStates /\ history[x] # Null THEN history[x] ELSE Initial[x]

(* EnterStatesFromDownTo(t, x): all states below t down to x, and x itself *)
(* even if it is t.                                                        *)
Mutant_EntryPath(t, x) == {x}   \* the states between t and x are not entered

EntryPath(t, x) == (Up[x] \ UpTo(t)) \cup {x}

EnterState(x) ==
    /\ entered' = [entered EXCEPT ![x] = @ + 1]
    /\ lastChild' = IF Parent[x] = Null THEN lastChild
                    ELSE [lastChild EXCEPT ![Parent[x]] = x]

ExitState(x) == entered' = [entered EXCEPT ![x] = @ - 1]

-----------------------------------------------------------------------------
(* Start().  It forgets what was active: no exit action runs.              *)
Start(initial) ==
    /\ pc = "idle"
    /\ current' = kInTransition
    /\ history' = [h \in HistoryStates |-> Null]
    /\ top' = Null
    /\ target' = initial
    /\ path' = EntryPath(Null, initial)
    /\ pc' = "enter"
    /\ entered' = [x \in States |-> 0]
    /\ lastChild' = [x \in States |-> Null]
    /\ UNCHANGED <<working, event, s>>

(* React() asserts that the machine was started and that it is not already *)
(* reacting.                                                               *)
React(e) ==
    /\ pc = "idle"
    /\ current # Null
    /\ ~working
    /\ working' = TRUE
    /\ event' = e
    /\ s' = current
    /\ pc' = "handle"
    /\ UNCHANGED <<current, history, top, target, path, entered, lastChild>>

(* The handler of s is called, and replies ...                             *)
Replies(reply) == pc = "handle" /\ reply \in Handler[<<s, event>>]

Mutant_DeferEvent ==   \* returns with working_ set
    /\ Replies(kDeferEvent)
    /\ pc' = "idle"
    /\ UNCHANGED <<current, working, history, locals, entered, lastChild>>

Mutant_DeferAsTransition ==   \* kDeferEvent is taken for a target
    /\ Replies(kDeferEvent)
    /\ working' = FALSE
    /\ pc' = "idle"
    /\ current' = kDeferEvent
    /\ UNCHANGED <<history, locals, entered, lastChild>>

DeferEvent ==
    /\ Replies(kDeferEvent)
    /\ working' = FALSE
    /\ pc' = "idle"
    /\ UNCHANGED <<current, history, locals, entered, lastChild>>

Mutant_UnhandledEvent ==   \* at the top, begins again with the current state
    /\ Replies(Null)
    /\ s' = IF Parent[s] # Null THEN Parent[s] ELSE current
    /\ UNCHANGED <<current, working, history, pc, event, top, target, path, entered, lastChild>>

UnhandledEvent ==
    /\ Replies(Null)
    /\ IF Parent[s] # Null
       THEN s' = Parent[s] /\ UNCHANGED <<working, pc>>
       ELSE working' = FALSE /\ pc' = "idle" /\ UNCHANGED s
    /\ UNCHANGED <<current, history, event, top, target, path, entered, lastChild>>

NoTransition ==
    /\ Replies(kNone)
    /\ working' = FALSE
    /\ pc' = "idle"
    /\ UNCHANGED <<current, history, locals, entered, lastChild>>

TransitionTo(x) ==
    /\ Replies(x)
    /\ target' = x
    /\ top' = FindCommonParent(current, x)
    /\ s' = current
    /\ current' = kInTransition
    /\ pc' = IF top' = s' THEN "exitSelf" ELSE "exit"
    /\ UNCHANGED <<working, history, event, path, entered, lastChild>>

(* ExitStatesFromUpTo(): the source alone if it is the common parent ...   *)
Mutant_ExitSelf ==   \* a self transition does not exit
    /\ pc = "exitSelf"
    /\ pc' = "actions"
    /\ UNCHANGED <<current, working, history, locals, entered, lastChild>>

ExitSelf ==
    /\ pc = "exitSelf"
    /\ ExitState(s)
    /\ pc' = "actions"
    /\ UNCHANGED <<current, working, history, locals, lastChild>>

(* ... otherwise each state from the source up to the common parent.       *)
Mutant_SaveHistory(x) ==   \* keeps what was saved first
    history' = IF Parent[x] \in HistoryStates /\ history[Parent[x]] = Null
               THEN [history EXCEPT ![Parent[x]] = x]
               ELSE history

SaveHistory(x) ==
    history' = IF Parent[x] \in HistoryStates
               THEN [history EXCEPT ![Parent[x]] = x]
               ELSE history

Mutant_Exit ==   \* exits the source only
    /\ pc = "exit"
    /\ SaveHistory(s)
    /\ ExitState(s)
    /\ pc' = "actions"
    /\ UNCHANGED <<current, working, locals, lastChild>>

Exit ==
    /\ pc = "exit"
    /\ SaveHistory(s)
    /\ ExitState(s)
    /\ s' = Parent[s]
    /\ pc' = IF s' = top THEN "actions" ELSE "exit"
    /\ UNCHANGED <<current, working, event, top, target, path, lastChild>>

ExecuteActions ==
    /\ pc = "actions"
    /\ path' = EntryPath(top, target)
    /\ pc' = "enter"
    /\ UNCHANGED <<current, working, history, event, s, top, target, entered, lastChild>>

(* EnterStatesFromDownTo(): the states of the path, outermost first ...    *)
Enter(x) ==
    /\ pc = "enter"
    /\ x \in path
    /\ Parent[x] \notin path
    /\ EnterState(x)
    /\ path' = path \ {x}
    /\ pc' = IF path' = {} THEN "descend" ELSE "enter"
    /\ UNCHANGED <<current, working, history, event, s, top, target>>

(* ... then the initial, or last, substates.                               *)
EnterInitial ==
    /\ pc = "descend"
    /\ GetInitialState(target) # Null
    /\ EnterState(GetInitialState(target))
    /\ target' = GetInitialState(target)
    /\ UNCHANGED <<current, working, history, pc, event, s, top, path>>

(* React() clears working_; after Start() it is as clear as it was.        *)
Finish ==
    /\ pc = "descend"
    /\ GetInitialState(target) = Null
    /\ current' = target
    /\ working' = FALSE
    /\ pc' = "idle"
    /\ UNCHANGED <<history, locals, entered, lastChild>>

-----------------------------------------------------------------------------
Running ==
    \/ DeferEvent \/ UnhandledEvent \/ NoTransition
    \/ \E x \in States : TransitionTo(x) \/ Enter(x)
    \/ ExitSelf \/ Exit \/ ExecuteActions
    \/ EnterInitial \/ Finish

Next ==
    \/ \E x \in StartStates : Start(x)
    \/ \E e \in Events : React(e)
    \/ Running

SafeSpec == Init /\ [][Next]_vars

(* The user's functions return; nobody has to call React().                *)
Spec == SafeSpec /\ WF_vars(Running)

-----------------------------------------------------------------------------
(* Type invariant. *)
TypeOK ==
    /\ current \in States \cup {Null, kInTransition}
    /\ working \in BOOLEAN
    /\ history \in [HistoryStates -> States \cup {Null}]
    /\ pc \in {"idle", "handle", "exitSelf", "exit", "actions", "enter", "descend"}
    /\ event \in Events \cup {Null}
    /\ s \in States \cup {Null} /\ top \in States \cup {Null} /\ target \in States \cup {Null}
    /\ path \subseteq States
    /\ entered \in [States -> Int]
    /\ lastChild \in [States -> States \cup {Null}]

Active == {x \in States : entered[x] = 1}

(* Between two calls the states that were entered and not exited are the   *)
(* current state and its ancestors, whatever chain of transitions led      *)
(* there: each transition exits and enters what it has to.                 *)
ActiveIsCurrent == (pc = "idle" /\ current # Null) => Active = Up[current]

(* Between two calls the machine rests in a state that has no substate to  *)
(* go to, and is ready for the next event: each way out of React() clears  *)
(* working_ and leaves a state of the machine in current_state_.           *)
ReadyWhenIdle ==
    (pc = "idle" /\ current # Null) =>
        /\ ~working
        /\ current \in States
        /\ GetInitialState(current) = Null

(* Entry and exit actions of a state alternate: none is entered twice, and *)
(* none is exited that was not entered.                                    *)
EntryExitAlternate == \A x \in States : entered[x] \in {0, 1}

(* A state is entered after its parent and exited before it: at no instant *)
(* is a state active within a parent that is not.                          *)
ParentsActive == \A x \in Active : Parent[x] # Null => Parent[x] \in Active

(* Between two calls, a history state that is not active remembers the     *)
(* child of it that was active when it was left.                           *)
HistoryIsLastChild ==
    pc = "idle" => \A h \in HistoryStates : entered[h] = 0 => history[h] = lastChild[h]

(* Start() and React() return: a chain of initial or last substates ends.  *)
CallsReturn == (pc # "idle") ~> (pc = "idle")
=============================================================================
