--------------------------- MODULE MCStateMachine ---------------------------
(***************************************************************************)
(* Two families of machines. "Structures": every acyclic hierarchy of at   *)
(* most three states, id 4 never being a state (a missing parent, source   *)
(* or target), with every choice of initial states, under a few transition *)
(* lists. "Routes": one nested hierarchy of four states under every pair   *)
(* of transitions, for the selection of a transition.                      *)
(***************************************************************************)
EXTENDS StateMachine, FiniteSets

MCState == 1..4
MCNone == 0
MCTriggers == {"a", "b"}
MCNoTrigger == "none"

Arrow(s, t, trigger, guarded) ==
    [source |-> s, target |-> t, trigger |-> trigger, guarded |-> guarded]

\* No state is its own ancestor: three steps up reach a root or a missing id.
Acyclic(parent) ==
    LET up == [s \in 0..4 |-> IF s = 0 THEN 0 ELSE parent[s]]
    IN  \A s \in 1..3 : up[up[up[s]]] \in {0, 4}

Parents(ids) ==
    {p \in [MCState -> {0, 4} \cup ids] :
        p[4] = 4 /\ (\A s \in MCState \ (ids \cup {4}) : p[s] = 0) /\ Acyclic(p)}

\* Source order runs against the order of the ids, or is unknown.
Ranks == {[s \in MCState |-> 4 - s], [s \in MCState |-> 9]}

StructureArrows == {
    <<>>,
    <<Arrow(1, 2, "a", FALSE), Arrow(2, 3, "b", FALSE)>>,
    <<Arrow(1, 3, "a", FALSE), Arrow(3, 1, "a", FALSE)>>,
    <<Arrow(4, 1, "a", FALSE)>>,
    <<Arrow(1, 4, "a", FALSE), Arrow(2, 1, "none", FALSE)>>}

Structures ==
    UNION {{[states |-> ids, parent |-> p, initial |-> i, orthogonal |-> o,
             rank |-> r, transitions |-> t] :
                p \in Parents(ids), i \in SUBSET ids, o \in {{}, ids},
                r \in Ranks, t \in StructureArrows}
           : ids \in {{}, {1, 2}, {1, 2, 3}}}

\* 1 holds 2 and 3, 3 holds 4; 2 is where 1 starts, 4 where 3 starts.
Nested == [states |-> 1..4, parent |-> <<0, 1, 1, 3>>, initial |-> {2, 4},
           orthogonal |-> {}, rank |-> <<1, 2, 3, 4>>, transitions |-> <<>>]

RouteArrows ==
    {Arrow(s, t, l.trigger, l.guarded) :
        s \in 1..4, t \in {1, 2, 3},
        l \in {[trigger |-> "a", guarded |-> FALSE],
               [trigger |-> "a", guarded |-> TRUE],
               [trigger |-> "b", guarded |-> FALSE]}}

Routes == {[Nested EXCEPT !.transitions = <<x, y>>] : x, y \in RouteArrows}

Run(initial, events, max) == [initial |-> initial, events |-> events, max |-> max]

MCScenarios == {
    Run(0, <<"a", "a", "b">>, 64),
    Run(0, <<"a", "a">>, 0),
    Run(3, <<"b">>, 64),
    Run(4, <<"b", "a">>, 64)}

AllMachines == Structures \cup Routes
RouteMachines == Routes
=============================================================================
