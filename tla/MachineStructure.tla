-------------------------- MODULE MachineStructure --------------------------
(***************************************************************************)
(* The data of crates/mercurio-sysml/src/behavior/mod.rs: a projected      *)
(* state machine, the default initial state the projection gives it, the   *)
(* findings of validate_structure, and what it means for a list of states  *)
(* to be a legal active configuration.                                     *)
(*                                                                         *)
(* A machine is a record                                                   *)
(*   states      the ids of its states                                     *)
(*   parent      parent_state_id of every id, NoState when there is none   *)
(*   initial     the states flagged is_initial                             *)
(*   orthogonal  the states flagged is_orthogonal                          *)
(*   rank        source_order of every id                                  *)
(*   transitions the transitions, sorted by id as the projection sorts     *)
(* The code keeps states in a Vec and takes the first match of a search:   *)
(* ids are numbers here, and the order of the Vec is their order.          *)
(***************************************************************************)
EXTENDS Integers, Sequences

CONSTANTS
    State,      \* every id a machine may mention, present or missing
    NoState,    \* parent_state_id = None, initial_state_id = None
    Trigger,    \* the triggers of transitions and of scenario events
    NoTrigger   \* trigger = None

ASSUME NoStateIsNoId == NoState \notin State
ASSUME NoTriggerIsNoTrigger == NoTrigger \notin Trigger

Transition == [source : State, target : State,
               trigger : Trigger \cup {NoTrigger}, guarded : BOOLEAN]

Machine == [states : SUBSET State, parent : [State -> State \cup {NoState}],
            initial : SUBSET State, orthogonal : SUBSET State,
            rank : [State -> Nat], transitions : Seq(Transition)]

Scenario == [initial : State \cup {NoState}, events : Seq(Trigger), max : Nat]

\* What Iterator::find returns among the candidates S of a Vec scan.
IsFirst(s, S) == s \in S /\ \A x \in S : s <= x

\* A Vec has a first match whenever it has a match.
ASSUME StateIsListed ==
    State \subseteq Int /\ \A S \in SUBSET State : S # {} => \E s \in S : IsFirst(s, S)

Roots(m) == {s \in m.states : m.parent[s] = NoState}

Children(m, p) == {s \in m.states : m.parent[s] = p}

InitialChildren(m, p) == Children(m, p) \cap m.initial

TopInitial(m) == Roots(m) \cap m.initial

\* The one root of a machine, if it is compound with an initial child.
DefaultRoot(m) == {r \in Roots(m) : Roots(m) = {r} /\ InitialChildren(m, r) # {}}

-----------------------------------------------------------------------------
(***************************************************************************)
(* Projection: a machine without any initial state gets one, the earliest  *)
(* child of its first root in source order, else its earliest root.        *)
(***************************************************************************)
EarliestInSource(m, S) ==
    {s \in S : \A x \in S : m.rank[s] < m.rank[x]
                            \/ (m.rank[s] = m.rank[x] /\ s <= x)}

DefaultInitial(m) ==
    LET nested == UNION {Children(m, r) : r \in {s \in Roots(m) : IsFirst(s, Roots(m))}}
    IN  EarliestInSource(m, IF nested # {} THEN nested ELSE Roots(m))

ApplyDefaultInitialState(m) ==
    IF m.initial # {} THEN m ELSE [m EXCEPT !.initial = DefaultInitial(m)]

-----------------------------------------------------------------------------
(***************************************************************************)
(* validate_structure: a finding is a code, a severity and its subject.    *)
(***************************************************************************)
Arrows(m) == {m.transitions[k] : k \in 1..Len(m.transitions)}

ClosedUnder(m, R) == \A t \in Arrows(m) : t.source \in R => t.target \in R

ReachableStates(m) ==
    {s \in State : \A R \in SUBSET State :
                       (m.initial \subseteq R /\ ClosedUnder(m, R)) => s \in R}

Finding(code, severity, subjects) ==
    {[code |-> code, severity |-> severity, subject |-> s] : s \in subjects}

OnMachine(condition) == IF condition THEN {NoState} ELSE {}

StartErrors(m) ==
    Finding("no_initial_state", "Error",
            OnMachine(TopInitial(m) = {} /\ m.states # {} /\ DefaultRoot(m) = {}))
    \cup Finding("multiple_initial_states", "Error",
            OnMachine(\E s, r \in TopInitial(m) : s # r))

ParentErrors(m) ==
    Finding("missing_parent_state", "Error",
            {s \in m.states : m.parent[s] \notin m.states \cup {NoState}})

CompoundErrors(m) ==
    Finding("compound_state_multiple_initial_children", "Error",
            {p \in m.states \ m.orthogonal : \E s, r \in InitialChildren(m, p) : s # r})

\* Seeded fault: only the source of a transition is looked up.
SourceErrorsOnly(m) ==
    Finding("missing_transition_source", "Error",
            {s \in State \ m.states : \E t \in Arrows(m) : t.source = s})

TransitionErrors(m) ==
    Finding("missing_transition_source", "Error",
            {s \in State \ m.states : \E t \in Arrows(m) : t.source = s})
    \cup Finding("missing_transition_target", "Error",
            {s \in State \ m.states : \E t \in Arrows(m) : t.target = s})

Errors(m) == StartErrors(m) \cup ParentErrors(m) \cup CompoundErrors(m) \cup TransitionErrors(m)

Unreachable(m) ==
    IF ReachableStates(m) = {} THEN {} ELSE m.states \ ReachableStates(m)

Warnings(m) ==
    Finding("no_states", "Warning", OnMachine(m.states = {}))
    \cup Finding("compound_state_missing_initial_child", "Warning",
            {p \in m.states : Children(m, p) # {} /\ InitialChildren(m, p) = {}})
    \cup Finding("unreachable_state", "Warning", Unreachable(m))

ValidateStructure(m) == Errors(m) \cup Warnings(m)

-----------------------------------------------------------------------------
(***************************************************************************)
(* Configurations, stated declaratively: a chain of states from a root     *)
(* down to a state with no initial child.                                  *)
(***************************************************************************)
IsChain(m, c) ==
    /\ c \in Seq(m.states)
    /\ c # <<>>
    /\ \A i \in 1..(Len(c) - 1) : m.parent[c[i + 1]] = c[i]

IsConfiguration(m, c) ==
    /\ IsChain(m, c)
    /\ m.parent[c[1]] = NoState
    /\ InitialChildren(m, c[Len(c)]) = {}

\* c is the configuration entered when t is: t's ancestors, t, and below it
\* default initial children only.
EntersAt(m, c, t) ==
    /\ IsConfiguration(m, c)
    /\ \E i \in 1..Len(c) :
          /\ c[i] = t
          /\ \A j \in (i + 1)..Len(c) : IsFirst(c[j], InitialChildren(m, c[j - 1]))

\* Seeded fault: guards are not looked at.
FiredFromDespiteGuard(m, s, trigger) ==
    {k \in 1..Len(m.transitions) :
        m.transitions[k].source = s /\ m.transitions[k].trigger = trigger}

\* The transitions out of state s that trigger fires (select_transition).
FiredFrom(m, s, trigger) ==
    {k \in 1..Len(m.transitions) :
        LET t == m.transitions[k]
        IN  t.source = s /\ t.trigger = trigger /\ ~t.guarded}

\* k is what select_transition returns: innermost active state first, then
\* the first transition in the order of the machine.
Selects(m, c, trigger, k) ==
    \E i \in 1..Len(c) :
        /\ IsFirst(k, FiredFrom(m, c[i], trigger))
        /\ \A j \in (i + 1)..Len(c) : FiredFrom(m, c[j], trigger) = {}

NothingFires(m, c, trigger) == \A i \in 1..Len(c) : FiredFrom(m, c[i], trigger) = {}
=============================================================================
