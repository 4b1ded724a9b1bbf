--------------------------- MODULE CaseLifecycle ---------------------------
(***************************************************************************)
(* What the platform promises about a case, with no request, transaction,  *)
(* lock or version in sight: a case is opened in the initial state of its  *)
(* workflow, moves along the edges of that workflow one at a time, and is  *)
(* closed exactly by the move that reaches a terminal state.               *)
(*                                                                         *)
(* The two variables are what a client reads back from the cases table:    *)
(* the denormalised status column and whether closed_at is set.            *)
(***************************************************************************)
CONSTANTS
    Cases,        \* case identifiers
    States,       \* state keys of the workflow definition
    Initial,      \* its initial_state
    Terminal,     \* the states marked terminal
    ClosedNames,  \* state keys the cases table itself treats as closing
    Transitions,  \* its active edges: records [key, from, to]
    NoState       \* the status of a case that does not exist yet

VARIABLES
    status,       \* status[c]: state of case c, or NoState
    closed        \* closed[c]: closed_at is set

lifecycleVars == <<status, closed>>

Init ==
    /\ status = [c \in Cases |-> NoState]
    /\ closed = [c \in Cases |-> FALSE]

(* A case is opened in the workflow's initial state.  The insert sets      *)
(* closed_at by the name of that state alone.                              *)
Open(c) ==
    /\ status[c] = NoState
    /\ status' = [status EXCEPT ![c] = Initial]
    /\ closed' = [closed EXCEPT ![c] = Initial \in ClosedNames]

(* A case follows one edge out of its current state.                       *)
Move(c, t) ==
    /\ t \in Transitions
    /\ status[c] = t.from
    /\ status' = [status EXCEPT ![c] = t.to]
    /\ closed' = [closed EXCEPT ![c] = t.to \in Terminal]

Next == \E c \in Cases : Open(c) \/ \E t \in Transitions : Move(c, t)

Spec == Init /\ [][Next]_lifecycleVars
=============================================================================
