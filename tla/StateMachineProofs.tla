------------------------- MODULE StateMachineProofs -------------------------
(***************************************************************************)
(* Proofs about StateMachine for every set of machines and scenarios,      *)
(* hierarchies with a parent cycle included: a run on one may never end,   *)
(* but no state it reaches breaks what is stated here.                     *)
(***************************************************************************)
EXTENDS StateMachine, SequenceTheorems, TLAPS

-----------------------------------------------------------------------------
(***************************************************************************)
(* The inductive invariant.                                                *)
(***************************************************************************)
\* From target on, c holds the states the descent picks.
DescendsFrom(m, c, t) ==
    \E i \in 1..Len(c) :
        /\ c[i] = t
        /\ \A j \in (i + 1)..Len(c) : IsFirst(c[j], InitialChildren(m, c[j - 1]))

AscendInv ==
    phase = "ascend" =>
        /\ cursor \in machine.states /\ target \in machine.states
        /\ \/ path = <<>> /\ cursor = target
           \/ /\ IsChain(machine, path)
              /\ machine.parent[path[1]] = cursor
              /\ path[Len(path)] = target

DescendInv ==
    phase = "descend" =>
        /\ IsChain(machine, path)
        /\ machine.parent[path[1]] = NoState
        /\ path[Len(path)] = cursor
        /\ DescendsFrom(machine, path, target)

\* What is being entered: the start state, or the target of the transition
\* that the pending event selects in the configuration still active.
InFlight ==
    phase \in {"ascend", "descend"} =>
        /\ Errors(machine) = {}
        /\ via = 0 => active = <<>> /\ steps = <<>>
        /\ via # 0 => /\ IsConfiguration(machine, active)
                      /\ EventPending
                      /\ via \in 1..Len(machine.transitions)
                      /\ Selects(machine, active, PendingTrigger, via)
                      /\ target = machine.transitions[via].target

RunInv == phase = "run" => Errors(machine) = {} /\ IsConfiguration(machine, active)

BeforeInv == phase = "validate" => active = <<>> /\ steps = <<>>

DoneInv ==
    phase = "done" =>
        /\ status \in {"Completed", "Blocked", "Failed"}
        /\ status # "Failed" => IsConfiguration(machine, active)
        /\ FailureIsExplained

IInv ==
    /\ TypeOK
    /\ phase # "done" => status = "Running"
    /\ AscendInv /\ DescendInv /\ InFlight /\ RunInv /\ BeforeInv /\ DoneInv

-----------------------------------------------------------------------------
(***************************************************************************)
(* Structure.                                                              *)
(***************************************************************************)
LEMMA NoFinding ==
    ASSUME NEW code, NEW severity, NEW S, Finding(code, severity, S) = {}
    PROVE  S = {}
BY DEF Finding

\* A machine that passes validation names only states it has.
LEMMA CleanMachine ==
    ASSUME NEW m \in Machine, Errors(m) = {}
    PROVE  /\ \A s \in m.states : m.parent[s] \in m.states \cup {NoState}
           /\ \A k \in 1..Len(m.transitions) : m.transitions[k].target \in m.states
           /\ m.states # {} => TopInitial(m) # {} \/ DefaultRoot(m) # {}
<1>1. /\ Finding("no_initial_state", "Error",
              OnMachine(TopInitial(m) = {} /\ m.states # {} /\ DefaultRoot(m) = {})) = {}
      /\ Finding("missing_parent_state", "Error",
              {s \in m.states : m.parent[s] \notin m.states \cup {NoState}}) = {}
      /\ Finding("missing_transition_target", "Error",
              {s \in State \ m.states : \E t \in Arrows(m) : t.target = s}) = {}
  BY DEF Errors, StartErrors, ParentErrors, TransitionErrors
<1>2. \A s \in m.states : m.parent[s] \in m.states \cup {NoState}
  BY <1>1, NoFinding, Zenon
<1>3. \A k \in 1..Len(m.transitions) : m.transitions[k].target \in m.states
  <2>1. {s \in State \ m.states : \E t \in Arrows(m) : t.target = s} = {}
    BY <1>1, NoFinding, Zenon
  <2>2. TAKE k \in 1..Len(m.transitions)
  <2>3. m.transitions[k] \in Arrows(m)
    BY DEF Arrows
  <2>4. m.transitions[k] \in Transition
    BY ElementOfSeq DEF Machine
  <2>5. m.transitions[k].target \in State
    BY <2>4 DEF Transition
  <2>6. QED
    BY <2>1, <2>3, <2>5
<1>4. OnMachine(TopInitial(m) = {} /\ m.states # {} /\ DefaultRoot(m) = {}) = {}
  BY <1>1, NoFinding, Zenon
<1>5. QED
  BY <1>2, <1>3, <1>4 DEF OnMachine

LEMMA ChainIsSeq ==
    ASSUME NEW m \in Machine, NEW c, IsChain(m, c)
    PROVE  c \in Seq(State) /\ Len(c) \in Nat /\ Len(c) > 0
<1>1. c \in Seq(m.states) /\ c # <<>>
  BY DEF IsChain
<1>2. m.states \subseteq State
  BY DEF Machine
<1>3. c \in Seq(State)
  BY <1>1, <1>2, SeqMonotonic, Zenon
<1>4. QED
  BY <1>1, <1>3, EmptySeq

LEMMA SingletonSeq ==
    ASSUME NEW S, NEW s \in S
    PROVE  /\ <<s>> \in Seq(S) /\ <<s>> # <<>>
           /\ Len(<<s>>) = 1 /\ <<s>>[1] = s
<1>1. <<s>> \in Seq(S)
  OBVIOUS
<1>2. Len(<<s>>) = 1 /\ <<s>>[1] = s
  OBVIOUS
<1>3. QED
  BY <1>1, <1>2, EmptySeq

LEMMA ChildrenAreStates ==
    ASSUME NEW m \in Machine, NEW s
    PROVE  /\ InitialChildren(m, s) \subseteq m.states
           /\ m.states \subseteq State
           /\ \A c \in InitialChildren(m, s) : m.parent[c] = s
BY DEF InitialChildren, Children, Machine

\* Pushing a state on a chain at the side of its root.
LEMMA PrependChain ==
    ASSUME NEW m, NEW s \in m.states, NEW c, IsChain(m, c), m.parent[c[1]] = s
    PROVE  /\ IsChain(m, <<s>> \o c)
           /\ (<<s>> \o c)[1] = s
           /\ (<<s>> \o c)[Len(<<s>> \o c)] = c[Len(c)]
<1> DEFINE d == <<s>> \o c
<1>1. c \in Seq(m.states) /\ Len(c) \in Nat /\ Len(c) > 0 /\ c # <<>>
  BY DEF IsChain
<1>a. <<s>> \in Seq(m.states) /\ Len(<<s>>) = 1 /\ <<s>>[1] = s
  BY SingletonSeq
<1>2. /\ d \in Seq(m.states) /\ Len(d) = Len(c) + 1
      /\ \A i \in 1..(Len(c) + 1) : d[i] = IF i <= 1 THEN <<s>>[i] ELSE c[i - 1]
  BY <1>1, <1>a, ConcatProperties
<1>3. d[1] = s /\ \A i \in 2..Len(d) : d[i] = c[i - 1]
  BY <1>1, <1>2, <1>a
<1>4. d[Len(d)] = c[Len(c)]
  BY <1>1, <1>2, <1>3
<1>5. \A i \in 1..(Len(d) - 1) : m.parent[d[i + 1]] = d[i]
  <2>1. TAKE i \in 1..(Len(d) - 1)
  <2>2. d[i + 1] = c[i]
    BY <1>1, <1>2, <1>3
  <2>3. CASE i = 1
    BY <2>2, <2>3, <1>3
  <2>4. CASE i # 1
    <3>1. d[i] = c[i - 1]
      BY <1>1, <1>2, <1>3, <2>4
    <3>2. i - 1 \in 1..(Len(c) - 1)
      BY <1>1, <1>2, <2>4
    <3>3. m.parent[c[(i - 1) + 1]] = c[i - 1]
      BY <3>2 DEF IsChain
    <3>4. QED
      BY <2>2, <3>1, <3>3, <1>1, <1>2
  <2>5. QED
    BY <2>3, <2>4
<1>6. d # <<>>
  BY <1>1, <1>2
<1>7. QED
  BY <1>2, <1>3, <1>4, <1>5, <1>6 DEF IsChain

\* Pushing a state on a chain at the side of its leaf.
LEMMA AppendChain ==
    ASSUME NEW m, NEW s \in m.states, NEW c, IsChain(m, c), m.parent[s] = c[Len(c)]
    PROVE  /\ IsChain(m, Append(c, s))
           /\ Append(c, s)[1] = c[1]
           /\ Append(c, s)[Len(Append(c, s))] = s
           /\ Len(Append(c, s)) = Len(c) + 1
           /\ \A i \in 1..Len(c) : Append(c, s)[i] = c[i]
<1> DEFINE d == Append(c, s)
<1>1. c \in Seq(m.states) /\ Len(c) \in Nat /\ Len(c) > 0 /\ c # <<>>
  BY DEF IsChain
<1>2. d \in Seq(m.states) /\ Len(d) = Len(c) + 1
  BY <1>1
<1>3. d[Len(d)] = s /\ \A i \in 1..Len(c) : d[i] = c[i]
  BY <1>1, <1>2
<1>4. \A i \in 1..(Len(d) - 1) : m.parent[d[i + 1]] = d[i]
  <2>1. TAKE i \in 1..(Len(d) - 1)
  <2>2. CASE i = Len(c)
    BY <2>2, <1>1, <1>2, <1>3
  <2>3. CASE i # Len(c)
    <3>1. i \in 1..(Len(c) - 1) /\ i + 1 \in 1..Len(c)
      BY <1>1, <1>2, <2>3
    <3>2. QED
      BY <3>1, <1>3 DEF IsChain
  <2>4. QED
    BY <2>2, <2>3
<1>5. d # <<>>
  BY <1>1, <1>2
<1>6. QED
  BY <1>1, <1>2, <1>3, <1>4, <1>5 DEF IsChain

\* One state is a chain.
LEMMA SingletonChain ==
    ASSUME NEW m, NEW s \in m.states
    PROVE  /\ IsChain(m, <<s>> \o <<>>)
           /\ (<<s>> \o <<>>)[1] = s
           /\ (<<s>> \o <<>>)[Len(<<s>> \o <<>>)] = s
<1>1. <<s>> \in Seq(m.states) /\ Len(<<s>>) = 1 /\ <<s>> # <<>> /\ <<s>>[1] = s
  BY SingletonSeq
<1>2. <<s>> \o <<>> = <<s>>
  BY <1>1, ConcatEmptySeq
<1>3. QED
  BY <1>1, <1>2 DEF IsChain

LEMMA FindingSeverity ==
    ASSUME NEW code, NEW severity, NEW S, NEW f \in Finding(code, severity, S)
    PROVE  f.severity = severity
BY DEF Finding

LEMMA Severities ==
    ASSUME NEW m
    PROVE  /\ \A f \in Errors(m) : f.severity = "Error"
           /\ \A f \in ValidateStructure(m) : f.severity \in {"Warning", "Error"}
           /\ Errors(m) \subseteq ValidateStructure(m)
<1>1. \A f \in Errors(m) : f.severity = "Error"
  BY FindingSeverity, Zenon DEF Errors, StartErrors, ParentErrors, CompoundErrors, TransitionErrors
<1>2. \A f \in Warnings(m) : f.severity = "Warning"
  BY DEF Finding, Warnings
<1>3. Errors(m) \subseteq ValidateStructure(m)
  BY DEF ValidateStructure
<1>4. \A f \in ValidateStructure(m) : f \in Errors(m) \/ f \in Warnings(m)
  BY DEF ValidateStructure
<1>5. QED
  BY <1>1, <1>2, <1>3, <1>4

-----------------------------------------------------------------------------
(***************************************************************************)
(* The initial states.                                                     *)
(***************************************************************************)
LEMMA ProjectedAreMachines == ProjectedMachines \subseteq Machine
<1>1. SUFFICES ASSUME NEW m \in Machine PROVE ApplyDefaultInitialState(m) \in Machine
  BY MachinesAssumption DEF ProjectedMachines
<1>2. DefaultInitial(m) \subseteq m.states
  BY DEF DefaultInitial, EarliestInSource, Children, Roots
<1>3. DefaultInitial(m) \in SUBSET State
  BY <1>2 DEF Machine
<1>4. QED
  BY <1>3 DEF ApplyDefaultInitialState, Machine

LEMMA InitInv == Init => IInv
<1> SUFFICES ASSUME Init PROVE IInv
  OBVIOUS
<1>1. machine \in Machine /\ scenario \in Scenarios
  BY ProjectedAreMachines DEF Init
<1>2. path \in Seq(State) /\ active \in Seq(State) /\ steps \in Seq(TraceSteps)
  BY EmptySeq DEF Init
<1>3. TypeOK
  BY <1>1, <1>2 DEF TypeOK, Init, Phases
<1>4. QED
  BY <1>3 DEF IInv, Init, AscendInv, DescendInv, InFlight, RunInv, BeforeInv, DoneInv

-----------------------------------------------------------------------------
(***************************************************************************)
(* The steps.                                                              *)
(***************************************************************************)
\* The start state is missing only for a machine without states.
LEMMA StartExists ==
    ASSUME IInv, Errors(machine) = {}, StartState = {}
    PROVE  machine.states = {}
<1>1. machine \in Machine
  BY DEF IInv, TypeOK
<1>2. scenario.initial = NoState
  BY DEF StartState
<1>3. TopInitial(machine) = {}
  <2>1. TopInitial(machine) \in SUBSET State
    BY <1>1 DEF TopInitial, Roots, Machine
  <2>2. TopInitial(machine) # {} => \E s \in TopInitial(machine) : IsFirst(s, TopInitial(machine))
    BY <2>1, StateIsListed
  <2>3. TopInitial(machine) # {} => {s \in TopInitial(machine) : IsFirst(s, TopInitial(machine))} = {}
    BY <1>2 DEF StartState
  <2>4. QED
    BY <2>2, <2>3
<1>4. DefaultRoot(machine) = {}
  BY <1>2, <1>3 DEF StartState
<1>5. QED
  BY <1>1, <1>3, <1>4, CleanMachine

\* Failing to enter the start state leaves an explained failure.
LEMMA StartFailsExplained ==
    ASSUME IInv, phase = "validate", EntryFailed(0, ValidateStructure(machine)),
           \/ machine.states = {}
           \/ scenario.initial \notin machine.states \cup {NoState}
    PROVE  IInv'
<1>1. active = <<>> /\ steps = <<>>
  BY DEF IInv, BeforeInv
<1>2. /\ phase' = "done" /\ status' = "Failed"
      /\ diagnostics' = ValidateStructure(machine)
                         \cup Finding("no_executable_initial_state", "Error", {NoState})
      /\ UNCHANGED <<machine, scenario, target, cursor, path, via, active, steps>>
  BY DEF EntryFailed, Finish, inputs, entry
<1>3. /\ \A f \in diagnostics' : f.severity \in {"Warning", "Error"}
      /\ \E f \in diagnostics' : f.severity = "Error"
  <2>1. [code |-> "no_executable_initial_state", severity |-> "Error", subject |-> NoState]
          \in Finding("no_executable_initial_state", "Error", {NoState})
    BY DEF Finding
  <2>2. QED
    BY <2>1, <1>2, FindingSeverity, Severities
<1>4. TypeOK'
  BY <1>2, <1>3 DEF IInv, TypeOK, Phases
<1>5. QED
  BY <1>1, <1>2, <1>3, <1>4
     DEF IInv, AscendInv, DescendInv, InFlight, RunInv, BeforeInv, DoneInv, FailureIsExplained

LEMMA ValidateInv == IInv /\ Validate => IInv'
<1> SUFFICES ASSUME IInv, Validate PROVE IInv'
  OBVIOUS
<1>1. /\ phase = "validate" /\ machine \in Machine /\ active = <<>> /\ steps = <<>>
      /\ status = "Running" /\ scenario \in Scenario
  BY ScenariosAssumption DEF Validate, IInv, TypeOK, BeforeInv
<1>2. CASE Errors(machine) # {}
  <2>1. /\ phase' = "done" /\ status' = "Failed" /\ diagnostics' = ValidateStructure(machine)
        /\ UNCHANGED <<machine, scenario, target, cursor, path, via, active, steps>>
    BY <1>2 DEF Validate, Finish, inputs, entry
  <2>2. /\ \A f \in diagnostics' : f.severity \in {"Warning", "Error"}
        /\ \E f \in diagnostics' : f.severity = "Error"
    BY <1>2, <2>1, Severities
  <2>3. TypeOK'
    BY <2>1, <2>2 DEF IInv, TypeOK, Phases
  <2>4. QED
    BY <1>1, <1>2, <2>1, <2>2, <2>3
       DEF IInv, AscendInv, DescendInv, InFlight, RunInv, BeforeInv, DoneInv, FailureIsExplained
<1>3. CASE Errors(machine) = {} /\ \E s \in StartState : Enter(s, 0, ValidateStructure(machine))
  <2>1. PICK s \in StartState : Enter(s, 0, ValidateStructure(machine))
    BY <1>3
  <2>2. CASE s \in machine.states
    <3>1. /\ phase' = "ascend" /\ target' = s /\ cursor' = s /\ path' = <<>> /\ via' = 0
          /\ diagnostics' = ValidateStructure(machine)
          /\ UNCHANGED <<machine, scenario, active, steps, status>>
      BY <2>1, <2>2 DEF Enter, inputs
    <3>2. s \in State
      BY <1>1, <2>2 DEF Machine
    <3>3. TypeOK'
      BY <3>1, <3>2, Severities, EmptySeq DEF IInv, TypeOK, Phases
    <3>4. QED
      BY <1>1, <1>3, <2>2, <3>1, <3>3
         DEF IInv, AscendInv, DescendInv, InFlight, RunInv, BeforeInv, DoneInv
  <2>3. CASE s \notin machine.states
    <3>1. EntryFailed(0, ValidateStructure(machine))
      BY <2>1, <2>3 DEF Enter
    <3>2. scenario.initial \notin machine.states \cup {NoState}
      BY <2>1, <2>3 DEF StartState, TopInitial, DefaultRoot, Roots, IsFirst
    <3>3. QED
      BY <1>1, <3>1, <3>2, StartFailsExplained
  <2>4. QED
    BY <2>2, <2>3
<1>4. CASE Errors(machine) = {} /\ StartState = {} /\ EntryFailed(0, ValidateStructure(machine))
  BY <1>1, <1>4, StartExists, StartFailsExplained
<1>5. QED
  BY <1>2, <1>3, <1>4 DEF Validate

\* The climb adds the parent side of the chain; on a machine that passed
\* validation it never finds a parent missing.
LEMMA AscendPreserves == IInv /\ Ascend => IInv'
<1> SUFFICES ASSUME IInv, Ascend PROVE IInv'
  OBVIOUS
<1> DEFINE parent == machine.parent[cursor]
           longer == <<cursor>> \o path
<1>1. /\ phase = "ascend" /\ machine \in Machine /\ status = "Running"
      /\ cursor \in machine.states /\ target \in machine.states
      /\ Errors(machine) = {}
  BY DEF Ascend, IInv, TypeOK, AscendInv, InFlight
<1>2. parent \in machine.states \cup {NoState} /\ machine.states \subseteq State
  BY <1>1, CleanMachine, ChildrenAreStates
<1>3. /\ path' = longer
      /\ IF parent = NoState THEN phase' = "descend" /\ cursor' = target
                             ELSE phase' = "ascend" /\ cursor' = parent
      /\ UNCHANGED <<machine, scenario, target, via, active, steps, status, diagnostics>>
  BY <1>2 DEF Ascend, inputs
<1>4. /\ IsChain(machine, longer)
      /\ longer[1] = cursor
      /\ longer[Len(longer)] = target
  <2>1. CASE path = <<>> /\ cursor = target
    BY <1>1, <2>1, SingletonChain
  <2>2. CASE /\ IsChain(machine, path) /\ machine.parent[path[1]] = cursor
             /\ path[Len(path)] = target
    BY <1>1, <2>2, PrependChain
  <2>3. QED
    BY <1>1, <2>1, <2>2 DEF IInv, AscendInv
<1>6. longer \in Seq(State) /\ Len(longer) \in Nat /\ Len(longer) > 0
  BY <1>1, <1>4, ChainIsSeq
<1>7. TypeOK'
  BY <1>1, <1>2, <1>3, <1>6 DEF IInv, TypeOK, Phases
<1>8. AscendInv'
  BY <1>1, <1>2, <1>3, <1>4 DEF AscendInv
<1>9. DescendInv'
  <2>1. DescendsFrom(machine, longer, target)
    BY <1>4, <1>6 DEF DescendsFrom
  <2>2. QED
    BY <1>1, <1>3, <1>4, <2>1 DEF DescendInv
<1>10. InFlight'
  BY <1>1, <1>3 DEF IInv, InFlight, EventPending, PendingTrigger
<1>11. QED
  BY <1>1, <1>3, <1>7, <1>8, <1>9, <1>10 DEF IInv, RunInv, BeforeInv, DoneInv

\* The descent adds first initial children at the leaf side of the chain.
LEMMA DescendPreserves == IInv /\ Descend => IInv'
<1> SUFFICES ASSUME IInv, Descend PROVE IInv'
  OBVIOUS
<1>1. /\ phase = "descend" /\ machine \in Machine /\ status = "Running"
      /\ IsChain(machine, path) /\ machine.parent[path[1]] = NoState
      /\ path[Len(path)] = cursor
  BY DEF Descend, IInv, TypeOK, DescendInv
<1>2. PICK child \in InitialChildren(machine, cursor) :
            /\ IsFirst(child, InitialChildren(machine, cursor))
            /\ path' = Append(path, child) /\ cursor' = child
  BY DEF Descend
<1>3. UNCHANGED <<machine, scenario, phase, target, via, active, steps, status, diagnostics>>
  BY DEF Descend, inputs
<1>4. /\ child \in machine.states /\ child \in State
      /\ machine.parent[child] = cursor /\ machine.states \subseteq State
  BY <1>1, <1>2, ChildrenAreStates
<1> DEFINE longer == Append(path, child)
<1>5. /\ IsChain(machine, longer)
      /\ longer[1] = path[1] /\ longer[Len(longer)] = child
      /\ Len(longer) = Len(path) + 1
      /\ \A i \in 1..Len(path) : longer[i] = path[i]
  BY <1>1, <1>4, AppendChain
<1>6. longer \in Seq(State) /\ Len(path) \in Nat /\ Len(path) > 0
  BY <1>1, <1>5, ChainIsSeq
<1>7. TypeOK'
  BY <1>1, <1>2, <1>3, <1>4, <1>6 DEF IInv, TypeOK, Phases
<1>8. DescendsFrom(machine, longer, target)
  <2>1. PICK i \in 1..Len(path) :
            /\ path[i] = target
            /\ \A j \in (i + 1)..Len(path) :
                  IsFirst(path[j], InitialChildren(machine, path[j - 1]))
    BY <1>1 DEF IInv, DescendInv, DescendsFrom
  <2>2. i \in 1..Len(longer) /\ longer[i] = target
    BY <2>1, <1>5, <1>6
  <2>3. ASSUME NEW j \in (i + 1)..Len(longer)
        PROVE  IsFirst(longer[j], InitialChildren(machine, longer[j - 1]))
    <3>1. j - 1 \in 1..Len(path) /\ longer[j - 1] = path[j - 1]
      BY <1>5, <1>6, <2>1
    <3>2. CASE j = Len(longer)
      BY <3>1, <3>2, <1>1, <1>2, <1>5, <1>6
    <3>3. CASE j # Len(longer)
      <4>1. j \in (i + 1)..Len(path) /\ longer[j] = path[j]
        BY <3>3, <1>5, <1>6, <2>1
      <4>2. QED
        BY <4>1, <3>1, <2>1
    <3>4. QED
      BY <3>2, <3>3
  <2>4. QED
    BY <2>2, <2>3 DEF DescendsFrom
<1>9. DescendInv'
  BY <1>1, <1>2, <1>3, <1>5, <1>8 DEF DescendInv
<1>10. InFlight'
  BY <1>1, <1>3 DEF IInv, InFlight, EventPending, PendingTrigger
<1>11. QED
  BY <1>1, <1>3, <1>7, <1>9, <1>10 DEF IInv, AscendInv, RunInv, BeforeInv, DoneInv

\* A step appended to the trace keeps it a trace.
LEMMA TraceGrows ==
    ASSUME TypeOK, NEW k \in Nat, NEW c \in Seq(State)
    PROVE  /\ Append(steps, TraceStep(k, active, c)) \in Seq(TraceSteps)
           /\ Len(Append(steps, TraceStep(k, active, c))) = Len(steps) + 1
<1>1. TraceStep(k, active, c) \in TraceSteps
  BY DEF TypeOK, TraceStep, TraceSteps
<1>2. steps \in Seq(TraceSteps)
  BY DEF TypeOK
<1>3. QED
  BY <1>1, <1>2, AppendProperties

LEMMA EnteredPreserves == IInv /\ Entered => IInv'
<1> SUFFICES ASSUME IInv, Entered PROVE IInv'
  OBVIOUS
<1>1. /\ phase = "descend" /\ machine \in Machine /\ status = "Running"
      /\ IsChain(machine, path) /\ machine.parent[path[1]] = NoState
      /\ path[Len(path)] = cursor /\ Errors(machine) = {} /\ via \in Nat
  BY DEF Entered, IInv, TypeOK, DescendInv, InFlight
<1>2. /\ InitialChildren(machine, cursor) = {} /\ active' = path
      /\ steps' = (IF via = 0 THEN steps ELSE Append(steps, TraceStep(via, active, path)))
      /\ phase' = "run"
      /\ UNCHANGED <<machine, scenario, target, cursor, path, via, status, diagnostics>>
  BY DEF Entered, inputs, entry
<1>3. IsConfiguration(machine, path)
  BY <1>1, <1>2 DEF IsConfiguration
<1>4. path \in Seq(State)
  BY <1>1, ChainIsSeq
<1>5. steps' \in Seq(TraceSteps)
  BY <1>1, <1>2, <1>4, TraceGrows DEF IInv, TypeOK
<1>6. TypeOK'
  BY <1>1, <1>2, <1>4, <1>5 DEF IInv, TypeOK, Phases
<1>7. QED
  BY <1>1, <1>2, <1>3, <1>6 DEF IInv, AscendInv, DescendInv, InFlight, RunInv, BeforeInv, DoneInv

\* The target of a selected transition is always a state that can be entered.
LEMMA TakeTransitionPreserves == IInv /\ TakeTransition => IInv'
<1> SUFFICES ASSUME IInv, TakeTransition PROVE IInv'
  OBVIOUS
<1>1. /\ phase = "run" /\ machine \in Machine /\ status = "Running"
      /\ Errors(machine) = {} /\ IsConfiguration(machine, active)
  BY DEF TakeTransition, IInv, TypeOK, RunInv
<1>2. PICK k \in 1..Len(machine.transitions) :
            /\ Selects(machine, active, PendingTrigger, k)
            /\ Enter(machine.transitions[k].target, k, diagnostics)
  BY DEF TakeTransition
<1> DEFINE t == machine.transitions[k].target
<1>3. t \in machine.states /\ machine.states \subseteq State
  BY <1>1, CleanMachine, ChildrenAreStates
<1>4. /\ phase' = "ascend" /\ target' = t /\ cursor' = t /\ path' = <<>> /\ via' = k
      /\ UNCHANGED <<machine, scenario, active, steps, status, diagnostics>>
  BY <1>2, <1>3 DEF Enter, inputs
<1>5. EventPending /\ EventPending' /\ PendingTrigger' = PendingTrigger
  BY <1>4 DEF TakeTransition, EventPending, PendingTrigger
<1>6. k \in Nat /\ k # 0
  <2>1. machine.transitions \in Seq(Transition)
    BY <1>1 DEF Machine
  <2>2. QED
    BY <2>1, LenProperties
<1>7. TypeOK'
  BY <1>3, <1>4, <1>6, EmptySeq DEF IInv, TypeOK, Phases
<1>8. AscendInv'
  BY <1>3, <1>4 DEF AscendInv
<1>9. InFlight'
  BY <1>1, <1>2, <1>4, <1>5, <1>6 DEF InFlight
<1>10. QED
  BY <1>1, <1>4, <1>7, <1>8, <1>9 DEF IInv, DescendInv, RunInv, BeforeInv, DoneInv

LEMMA BlockPreserves == IInv /\ Block => IInv'
<1> SUFFICES ASSUME IInv, Block PROVE IInv'
  OBVIOUS
<1>1. /\ phase = "run" /\ IsConfiguration(machine, active) /\ active \in Seq(State)
      /\ steps' = Append(steps, TraceStep(0, active, active))
      /\ phase' = "done" /\ status' = "Blocked"
      /\ UNCHANGED <<machine, scenario, target, cursor, path, via, active, diagnostics>>
  BY DEF Block, Finish, inputs, entry, IInv, RunInv, TypeOK
<1>2. steps' \in Seq(TraceSteps)
  BY <1>1, TraceGrows DEF IInv
<1>3. TypeOK'
  BY <1>1, <1>2 DEF IInv, TypeOK, Phases
<1>4. QED
  BY <1>1, <1>3
     DEF IInv, AscendInv, DescendInv, InFlight, RunInv, BeforeInv, DoneInv, FailureIsExplained

LEMMA CompletePreserves == IInv /\ Complete => IInv'
<1> SUFFICES ASSUME IInv, Complete PROVE IInv'
  OBVIOUS
<1>1. /\ phase = "run" /\ IsConfiguration(machine, active)
      /\ phase' = "done" /\ status' = "Completed"
      /\ UNCHANGED <<machine, scenario, target, cursor, path, via, active, steps, diagnostics>>
  BY DEF Complete, Finish, inputs, entry, IInv, RunInv
<1>2. TypeOK'
  BY <1>1 DEF IInv, TypeOK, Phases
<1>3. QED
  BY <1>1, <1>2
     DEF IInv, AscendInv, DescendInv, InFlight, RunInv, BeforeInv, DoneInv, FailureIsExplained

LEMMA StutterPreserves == IInv /\ UNCHANGED vars => IInv'
BY DEF vars, IInv, TypeOK, AscendInv, DescendInv, InFlight, RunInv, BeforeInv, DoneInv,
       EventPending, PendingTrigger, FailureIsExplained

THEOREM Invariance == Spec => []IInv
<1>1. IInv /\ [Next]_vars => IInv'
  BY ValidateInv, AscendPreserves, DescendPreserves, EnteredPreserves,
     TakeTransitionPreserves, BlockPreserves, CompletePreserves, StutterPreserves DEF Next
<1>2. QED
  BY InitInv, <1>1, PTL DEF Spec

-----------------------------------------------------------------------------
(***************************************************************************)
(* The theorems.                                                           *)
(***************************************************************************)
\* Every variable of a run keeps its type, paths and traces included.
THEOREM TypeCorrect == Spec => []TypeOK
<1>1. IInv => TypeOK
  BY DEF IInv
<1>2. QED
  BY Invariance, <1>1, PTL

\* In every run, on every machine, the configuration events are taken in and
\* reports give is a root-to-leaf chain.
THEOREM ConfigurationsAreLegal == Spec => []ActiveIsConfiguration
<1>1. IInv => ActiveIsConfiguration
  BY DEF IInv, ActiveIsConfiguration, TypeOK, Phases, BeforeInv, InFlight, RunInv, DoneInv,
         FailureIsExplained
<1>2. QED
  BY Invariance, <1>1, PTL

\* execute_scenario fails before its first step or not at all, and only for a
\* structural error, a machine without states or a wrong initial_state_id.
THEOREM FailuresAreExplained == Spec => []FailureIsExplained
<1>1. IInv => FailureIsExplained
  BY DEF IInv, DoneInv, FailureIsExplained
<1>2. QED
  BY Invariance, <1>1, PTL

-----------------------------------------------------------------------------
(***************************************************************************)
(* The loops implement ScenarioRun.                                        *)
(***************************************************************************)
\* The abstract specification speaks of the same configurations, errors and
\* selections.
LEMMA SameNotions ==
    /\ Abstract!Machine = Machine /\ Abstract!Scenario = Scenario
    /\ \A m : Abstract!Errors(m) = Errors(m)
    /\ \A m, c, t : Abstract!EntersAt(m, c, t) = EntersAt(m, c, t)
    /\ \A m, c, e, k : Abstract!Selects(m, c, e, k) = Selects(m, c, e, k)
    /\ \A m, c, e : Abstract!NothingFires(m, c, e) = NothingFires(m, c, e)
<1>1. Abstract!Machine = Machine /\ Abstract!Scenario = Scenario
  BY DEF Abstract!Machine, Machine, Abstract!Scenario, Scenario, Abstract!Transition, Transition
<1>2. \A m : Abstract!Errors(m) = Errors(m)
  BY DEF Abstract!Errors, Abstract!StartErrors, Abstract!ParentErrors, Abstract!CompoundErrors,
         Abstract!TransitionErrors, Abstract!Finding, Abstract!OnMachine, Abstract!Arrows,
         Abstract!TopInitial, Abstract!DefaultRoot, Abstract!Roots, Abstract!InitialChildren,
         Abstract!Children, Errors, StartErrors, ParentErrors, CompoundErrors, TransitionErrors,
         Finding, OnMachine, Arrows, TopInitial, DefaultRoot, Roots, InitialChildren, Children
<1>3. \A m, c, t : Abstract!EntersAt(m, c, t) = EntersAt(m, c, t)
  BY DEF Abstract!EntersAt, Abstract!IsConfiguration, Abstract!IsChain, Abstract!IsFirst,
         Abstract!InitialChildren, Abstract!Children,
         EntersAt, IsConfiguration, IsChain, IsFirst, InitialChildren, Children
<1>4. \A m, s, e : Abstract!FiredFrom(m, s, e) = FiredFrom(m, s, e)
  BY DEF Abstract!FiredFrom, FiredFrom
<1>5. \A m, c, e, k : Abstract!Selects(m, c, e, k) = Selects(m, c, e, k)
  BY DEF Abstract!Selects, Selects, Abstract!IsFirst, IsFirst, Abstract!FiredFrom, FiredFrom
<1>6. \A m, c, e : Abstract!NothingFires(m, c, e) = NothingFires(m, c, e)
  BY <1>4 DEF Abstract!NothingFires, NothingFires
<1>7. QED
  BY <1>1, <1>2, <1>3, <1>5, <1>6

LEMMA ConfigurationNotEmpty ==
    ASSUME NEW m, NEW c, IsConfiguration(m, c) PROVE c # <<>>
BY DEF IsConfiguration, IsChain

LEMMA InitImplements == Init => Abstract!Init
<1> SUFFICES ASSUME Init PROVE Abstract!Init
  OBVIOUS
<1>1. machine \in Machine /\ scenario \in Scenario
  BY ProjectedAreMachines, ScenariosAssumption DEF Init
<1>2. Len(steps) = 0
  BY EmptySeq DEF Init
<1>3. QED
  BY <1>1, <1>2, SameNotions DEF Init, Abstract!Init

\* The end of the descent is the step that starts the run or fires.
LEMMA EnteredImplements == IInv /\ Entered => Abstract!Next
<1> SUFFICES ASSUME IInv, Entered PROVE Abstract!Next
  OBVIOUS
<1>1. /\ IInv' /\ phase' = "run" /\ phase = "descend" /\ status = "Running" /\ active' = path
      /\ steps' = (IF via = 0 THEN steps ELSE Append(steps, TraceStep(via, active, path)))
      /\ UNCHANGED <<machine, scenario, status>>
  BY EnteredPreserves DEF Entered, inputs, IInv
<1>2. IsConfiguration(machine, path) /\ path \in Seq(machine.states) /\ machine \in Machine
  BY <1>1 DEF IInv, RunInv, TypeOK, IsConfiguration, IsChain
<1>3. EntersAt(machine, path, target)
  BY <1>1, <1>2 DEF IInv, DescendInv, DescendsFrom, EntersAt
<1>4. CASE via = 0
  <2>1. active = <<>> /\ steps' = steps /\ Errors(machine) = {}
    BY <1>1, <1>4 DEF IInv, InFlight
  <2>2. target \in machine.states
    BY <1>2, <1>3, ElementOfSeq DEF EntersAt
  <2>3. Abstract!Start
    BY <1>1, <1>3, <2>1, <2>2, SameNotions DEF Abstract!Start
  <2>4. QED
    BY <2>3 DEF Abstract!Next
<1>5. CASE via # 0
  <2>1. /\ IsConfiguration(machine, active) /\ EventPending
        /\ via \in 1..Len(machine.transitions)
        /\ Selects(machine, active, PendingTrigger, via)
        /\ target = machine.transitions[via].target
    BY <1>1, <1>5 DEF IInv, InFlight
  <2>2. active # <<>>
    BY <2>1, ConfigurationNotEmpty
  <2>3. Len(steps') = Len(steps) + 1
    BY <1>1, <1>2, <1>5, TraceGrows, ChainIsSeq DEF IInv, TypeOK, IsConfiguration
  <2>4. Abstract!Fire
    BY <1>1, <1>3, <2>1, <2>2, <2>3, SameNotions
       DEF Abstract!Fire, EventPending, PendingTrigger
  <2>5. QED
    BY <2>4 DEF Abstract!Next
<1>6. QED
  BY <1>4, <1>5

LEMMA BlockImplements == IInv /\ Block => Abstract!Block
<1> SUFFICES ASSUME IInv, Block PROVE Abstract!Block
  OBVIOUS
<1>1. /\ status = "Running" /\ active # <<>> /\ active \in Seq(State)
      /\ steps' = Append(steps, TraceStep(0, active, active))
  BY ConfigurationNotEmpty DEF Block, IInv, RunInv, TypeOK
<1>2. Len(steps') = Len(steps) + 1
  BY <1>1, TraceGrows DEF IInv
<1>3. QED
  BY <1>1, <1>2, SameNotions
     DEF Block, Abstract!Block, EventPending, PendingTrigger, Finish, inputs

LEMMA CompleteImplements == IInv /\ Complete => Abstract!Complete
BY ConfigurationNotEmpty DEF IInv, RunInv, Complete, Abstract!Complete, Finish, inputs

\* Before the run starts, a step fails the run or is invisible.
LEMMA ValidateImplements == IInv /\ Validate => Abstract!FailToStart \/ UNCHANGED Abstract!vars
<1> SUFFICES ASSUME IInv, Validate PROVE Abstract!FailToStart \/ UNCHANGED Abstract!vars
  OBVIOUS
<1>1. status = "Running" /\ active = <<>> /\ UNCHANGED <<machine, scenario, active, steps>>
  BY DEF Validate, IInv, BeforeInv, Enter, EntryFailed, inputs
<1>2. status' = "Failed" \/ status' = status
  BY DEF Validate, Enter, EntryFailed, Finish
<1>3. QED
  BY <1>1, <1>2 DEF Abstract!FailToStart, Abstract!vars

\* While a configuration is being built, the one in force is untouched.
LEMMA EntryIsInvisible ==
    IInv /\ (Ascend \/ Descend \/ TakeTransition)
        => UNCHANGED <<machine, scenario, active, steps, status>>
<1> SUFFICES ASSUME IInv, Ascend \/ Descend \/ TakeTransition
             PROVE  UNCHANGED <<machine, scenario, active, steps, status>>
  OBVIOUS
<1>1. CASE Ascend
  <2>1. machine.parent[cursor] \in machine.states \cup {NoState}
    BY <1>1, CleanMachine DEF Ascend, IInv, TypeOK, AscendInv, InFlight
  <2>2. QED
    BY <1>1, <2>1 DEF Ascend, inputs
<1>2. CASE Descend
  BY <1>2 DEF Descend, inputs
<1>3. CASE TakeTransition
  <2>1. machine \in Machine /\ Errors(machine) = {}
    BY <1>3 DEF TakeTransition, IInv, TypeOK, RunInv
  <2>2. \A k \in 1..Len(machine.transitions) : machine.transitions[k].target \in machine.states
    BY <2>1, CleanMachine
  <2>3. QED
    BY <1>3, <2>2 DEF TakeTransition, Enter, inputs
<1>4. QED
  BY <1>1, <1>2, <1>3

\* Every run of execute_scenario, seen without its loops, is a run of
\* ScenarioRun: one legal configuration after another, one per event.
THEOREM Implementation == Spec => ImplementsScenarioRun
<1>1. IInv /\ [Next]_vars => [Abstract!Next]_(Abstract!vars)
  <2> SUFFICES ASSUME IInv, [Next]_vars PROVE Abstract!Next \/ UNCHANGED Abstract!vars
    OBVIOUS
  <2>1. CASE Validate
    BY <2>1, ValidateImplements DEF Abstract!Next
  <2>2. CASE Ascend \/ Descend \/ TakeTransition
    BY <2>2, EntryIsInvisible DEF Abstract!vars
  <2>3. CASE Entered
    BY <2>3, EnteredImplements
  <2>4. CASE Block
    BY <2>4, BlockImplements DEF Abstract!Next
  <2>5. CASE Complete
    BY <2>5, CompleteImplements DEF Abstract!Next
  <2>6. CASE UNCHANGED vars
    BY <2>6 DEF vars, Abstract!vars
  <2>7. QED
    BY <2>1, <2>2, <2>3, <2>4, <2>5, <2>6 DEF Next
<1>2. QED
  BY InitImplements, Invariance, <1>1, PTL DEF Spec, Abstract!Spec, ImplementsScenarioRun

-----------------------------------------------------------------------------
(***************************************************************************)
(* The trace: what each step appends to it keeps it continuous and         *)
(* justified.                                                              *)
(***************************************************************************)
\* Step s of a trace is one machine m allows on the event trigger.
Justified(m, s, trigger) ==
    LET Answers(x) == \E t \in Arrows(m) :
                          t.source = x /\ t.trigger = trigger /\ ~t.guarded
    IN  IF s.transition = 0
        THEN \A j \in 1..Len(s.before) : ~Answers(s.before[j])
        ELSE LET t == m.transitions[s.transition]
             IN  /\ t.trigger = trigger /\ ~t.guarded
                 /\ \E j \in 1..Len(s.after) : s.after[j] = t.target
                 /\ \E j \in 1..Len(s.before) :
                       /\ s.before[j] = t.source
                       /\ \A d \in (j + 1)..Len(s.before) : ~Answers(s.before[d])

TraceInv == TraceIsContinuous /\ StepsAreJustified

LEMMA JustifiedSteps ==
    StepsAreJustified <=>
        \A i \in 1..Len(steps) : Justified(machine, steps[i], scenario.events[i])
BY DEF StepsAreJustified, Justified

LEMMA NoneFired ==
    ASSUME NEW m, NEW x, NEW trigger, FiredFrom(m, x, trigger) = {}
    PROVE  ~\E t \in Arrows(m) : t.source = x /\ t.trigger = trigger /\ ~t.guarded
BY DEF FiredFrom, Arrows

\* What select_transition returns justifies the step it leads to.
LEMMA SelectionJustifies ==
    ASSUME NEW m, NEW k, k # 0, NEW before, NEW after, NEW trigger,
           Len(before) \in Nat, Selects(m, before, trigger, k),
           \E j \in 1..Len(after) : after[j] = m.transitions[k].target
    PROVE  Justified(m, TraceStep(k, before, after), trigger)
<1> DEFINE s == TraceStep(k, before, after)
<1>1. s.transition = k /\ s.before = before /\ s.after = after
  BY DEF TraceStep
<1>2. PICK i \in 1..Len(before) :
            /\ k \in FiredFrom(m, before[i], trigger)
            /\ \A j \in (i + 1)..Len(before) : FiredFrom(m, before[j], trigger) = {}
  BY DEF Selects, IsFirst
<1>3. /\ m.transitions[k].source = before[i]
      /\ m.transitions[k].trigger = trigger /\ ~m.transitions[k].guarded
  BY <1>2 DEF FiredFrom
<1>4. \A d \in (i + 1)..Len(before) :
          ~\E t \in Arrows(m) : t.source = before[d] /\ t.trigger = trigger /\ ~t.guarded
  BY <1>2, NoneFired
<1> HIDE DEF s
<1>5. QED
  BY <1>1, <1>3, <1>4 DEF Justified, s

LEMMA BlockingJustifies ==
    ASSUME NEW m, NEW c, NEW trigger, NothingFires(m, c, trigger)
    PROVE  Justified(m, TraceStep(0, c, c), trigger)
<1>1. \A j \in 1..Len(c) :
          ~\E t \in Arrows(m) : t.source = c[j] /\ t.trigger = trigger /\ ~t.guarded
  BY NoneFired DEF NothingFires
<1>2. QED
  BY <1>1 DEF Justified, TraceStep

\* A justified step for the pending event, from the configuration in force to
\* the next one, extends the trace.
LEMMA TraceExtends ==
    ASSUME TypeOK, TraceInv, EventPending, NEW k \in Nat, NEW c \in Seq(State),
           steps' = Append(steps, TraceStep(k, active, c)), active' = c,
           UNCHANGED <<machine, scenario>>,
           Justified(machine, TraceStep(k, active, c), PendingTrigger)
    PROVE  TraceInv'
<1> DEFINE n == Len(steps)
           s == TraceStep(k, active, c)
<1>1. s.before = active /\ s.after = c
  BY DEF TraceStep
<1>2. /\ n \in Nat /\ Len(steps') = n + 1 /\ steps'[n + 1] = s
      /\ \A i \in 1..n : steps'[i] = steps[i]
  <2>1. steps \in Seq(TraceSteps) /\ s \in TraceSteps
    BY DEF TypeOK, TraceStep, TraceSteps
  <2>2. QED
    BY <2>1, AppendProperties
<1>3. Len(scenario.events) \in Nat /\ scenario.max \in Nat
  BY ScenariosAssumption DEF TypeOK, Scenario
<1> HIDE DEF n, s
<1>4. ASSUME NEW i \in 1..(Len(steps') - 1)
      PROVE  steps'[i].after = steps'[i + 1].before
  <2>1. CASE i = n
    <3>1. steps # <<>> /\ steps[n].after = active
      BY <1>2, <2>1, EmptySeq DEF TraceInv, TraceIsContinuous, n
    <3>2. QED
      BY <1>1, <1>2, <2>1, <3>1
  <2>2. CASE i # n
    <3>1. i \in 1..(n - 1) /\ i \in 1..n /\ i + 1 \in 1..n
      BY <1>2, <2>2
    <3>2. steps[i].after = steps[i + 1].before
      BY <3>1 DEF TraceInv, TraceIsContinuous, n
    <3>3. QED
      BY <1>2, <3>1, <3>2
  <2>3. QED
    BY <2>1, <2>2
<1>5. steps'[Len(steps')].after = active'
  BY <1>1, <1>2
<1>6. Len(steps') <= Len(scenario'.events) /\ Len(steps') <= AtLeastOne(scenario'.max)
  BY <1>2, <1>3 DEF EventPending, AtLeastOne, n
<1>7. ASSUME NEW i \in 1..Len(steps')
      PROVE  Justified(machine', steps'[i], scenario'.events[i])
  <2>1. CASE i = n + 1
    BY <1>2, <2>1 DEF PendingTrigger, n, s
  <2>2. CASE i # n + 1
    <3>1. i \in 1..n
      BY <1>2, <2>2
    <3>2. Justified(machine, steps[i], scenario.events[i])
      BY <3>1, JustifiedSteps DEF TraceInv, n
    <3>3. QED
      BY <1>2, <3>1, <3>2
  <2>3. QED
    BY <2>1, <2>2
<1>8. TraceIsContinuous'
  BY <1>4, <1>5, <1>6 DEF TraceIsContinuous, AtLeastOne
<1>9. StepsAreJustified'
  BY <1>7 DEF StepsAreJustified, Justified
<1>10. QED
  BY <1>8, <1>9 DEF TraceInv

LEMMA TraceKept ==
    ASSUME TraceInv, UNCHANGED <<machine, scenario, steps>>, steps = <<>> \/ active' = active
    PROVE  TraceInv'
BY DEF TraceInv, TraceIsContinuous, StepsAreJustified, Justified, AtLeastOne, Arrows

\* Entering the target of the selected transition.
LEMMA EnteredKeepsTrace == IInv /\ TraceInv /\ Entered => TraceInv'
<1> SUFFICES ASSUME IInv, TraceInv, Entered PROVE TraceInv'
  OBVIOUS
<1>1. /\ phase = "descend" /\ machine \in Machine /\ via \in Nat /\ active' = path
      /\ steps' = (IF via = 0 THEN steps ELSE Append(steps, TraceStep(via, active, path)))
      /\ UNCHANGED <<machine, scenario>>
      /\ active \in Seq(State) /\ path \in Seq(State)
  BY DEF Entered, IInv, TypeOK, inputs
<1>2. CASE via = 0
  <2>1. steps = <<>>
    BY <1>1, <1>2 DEF IInv, InFlight
  <2>2. QED
    BY <1>1, <1>2, <2>1, TraceKept
<1>3. CASE via # 0
  <2>1. /\ EventPending /\ Selects(machine, active, PendingTrigger, via)
        /\ target = machine.transitions[via].target
    BY <1>1, <1>3 DEF IInv, InFlight
  <2>2. \E j \in 1..Len(path) : path[j] = machine.transitions[via].target
    BY <1>1, <2>1 DEF IInv, DescendInv, DescendsFrom
  <2>3. Justified(machine, TraceStep(via, active, path), PendingTrigger)
    BY <1>1, <1>3, <2>1, <2>2, SelectionJustifies
  <2>4. QED
    BY <1>1, <1>3, <2>1, <2>3, TraceExtends DEF IInv
<1>4. QED
  BY <1>2, <1>3

LEMMA BlockKeepsTrace == IInv /\ TraceInv /\ Block => TraceInv'
<1> SUFFICES ASSUME IInv, TraceInv, Block PROVE TraceInv'
  OBVIOUS
<1>1. /\ EventPending /\ NothingFires(machine, active, PendingTrigger)
      /\ steps' = Append(steps, TraceStep(0, active, active)) /\ active' = active
      /\ UNCHANGED <<machine, scenario>> /\ active \in Seq(State)
  BY DEF Block, inputs, IInv, TypeOK
<1>2. Justified(machine, TraceStep(0, active, active), PendingTrigger)
  BY <1>1, BlockingJustifies
<1>3. QED
  BY <1>1, <1>2, TraceExtends DEF IInv

THEOREM TraceInvariance == Spec => []TraceInv
<1>1. Init => TraceInv
  <2>1. Init => Len(steps) = 0 /\ Len(scenario.events) \in Nat /\ scenario.max \in Nat
    BY EmptySeq, ScenariosAssumption DEF Init, Scenario
  <2>2. QED
    BY <2>1 DEF Init, TraceInv, TraceIsContinuous, StepsAreJustified, AtLeastOne
<1>2. IInv /\ TraceInv /\ [Next]_vars => TraceInv'
  <2> SUFFICES ASSUME IInv, TraceInv, [Next]_vars PROVE TraceInv'
    OBVIOUS
  <2>1. CASE Validate
    <3>1. steps = <<>> /\ UNCHANGED <<machine, scenario, steps>>
      BY <2>1 DEF Validate, IInv, BeforeInv, Enter, EntryFailed, inputs
    <3>2. QED
      BY <3>1, TraceKept
  <2>2. CASE Ascend \/ Descend \/ TakeTransition
    <3>1. UNCHANGED <<machine, scenario, active, steps>>
      BY <2>2, EntryIsInvisible
    <3>2. QED
      BY <3>1, TraceKept
  <2>3. CASE Entered
    BY <2>3, EnteredKeepsTrace
  <2>4. CASE Block
    BY <2>4, BlockKeepsTrace
  <2>5. CASE Complete
    BY <2>5, TraceKept DEF Complete, inputs
  <2>6. CASE UNCHANGED vars
    BY <2>6, TraceKept DEF vars
  <2>7. QED
    BY <2>1, <2>2, <2>3, <2>4, <2>5, <2>6 DEF Next
<1>3. QED
  BY Invariance, <1>1, <1>2, PTL DEF Spec

\* Each step of a trace starts where the one before it ended, the last one
\* ends in the reported configuration, and the events bound their number.
THEOREM TracesAreContinuous == Spec => []TraceIsContinuous
<1>1. TraceInv => TraceIsContinuous
  BY DEF TraceInv
<1>2. QED
  BY TraceInvariance, <1>1, PTL

\* select_transition is right at every step of every run: unguarded, on the
\* event, from the innermost state that answers it, and blocked only if none.
THEOREM RecordedStepsAreJustified == Spec => []StepsAreJustified
<1>1. TraceInv => StepsAreJustified
  BY DEF TraceInv
<1>2. QED
  BY TraceInvariance, <1>1, PTL
=============================================================================
