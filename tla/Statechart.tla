----------------------------- MODULE Statechart -----------------------------
(***************************************************************************)
(* What a Statemachine promises to the outside: an event takes it, in one  *)
(* step, from the state it rests in to the one the transition leads to,    *)
(* and each history state that is left remembers the child it was left in. *)
(* Module StatechartRefinement shows that Statemachine implements this.    *)
(***************************************************************************)
CONSTANTS States, Parent, Initial, HistoryStates, Up, Events, Handler, StartStates, Null

VARIABLES state,    \* the state the machine rests in, Null before Start()
          history   \* the child each history state was left in, or Null

Init ==
    /\ state = Null
    /\ history = [h \in HistoryStates |-> Null]

(* The child entering y goes on to, with children remembered as in h.      *)
Child(y, h) == IF y \in HistoryStates /\ h[y] # Null THEN h[y] ELSE Initial[y]

(* From x, child after child leads to r.                                   *)
LeadsTo(x, r, h) == x \in Up[r] /\ \A y \in Up[r] \ Up[x] : Child(Parent[y], h) = y

(* Where entering x ends.                                                  *)
Rest(x, h) == CHOOSE r \in States : LeadsTo(x, r, h) /\ Child(r, h) = Null

Start(x) ==
    /\ history' = [h \in HistoryStates |-> Null]
    /\ state' = Rest(x, history')

(* The states left for x: those that do not contain both; the state itself *)
(* when x is a substate of it, and then nothing is remembered.             *)
Left(x) == Up[state] \ Up[x]

TransitionTo(x) ==
    /\ history' = [h \in HistoryStates |->
                      IF \E y \in Left(x) : Parent[y] = h
                      THEN CHOOSE y \in Left(x) : Parent[y] = h
                      ELSE history[h]]
    /\ state' = Rest(x, history')

(* The innermost state whose handler has an answer decides.                *)
React(e) ==
    \E level \in Up[state] :
        /\ \A inner \in Up[state] \ Up[level] : Null \in Handler[<<inner, e>>]
        /\ \E x \in Handler[<<level, e>>] \cap States : TransitionTo(x)

Next ==
    \/ \E x \in StartStates : Start(x)
    \/ state # Null /\ \E e \in Events : React(e)

Spec == Init /\ [][Next]_<<state, history>>
=============================================================================
