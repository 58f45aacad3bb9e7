---------------------------- MODULE AnalysisCase ----------------------------
(***************************************************************************)
(* The two readings of an analysis case. project_analysis_spec             *)
(* (crates/mercurio-sysml/src/analysis.rs) says what a run of the case     *)
(* should do, and scenario_from_analysis_case (simulation/adapter.rs) what *)
(* its simulation is given. Both find the subjects of the case, their      *)
(* machines and their initial values, each in its own way.                 *)
(*                                                                         *)
(* A case c is                                                             *)
(*   usage       an analysis case usage, not a definition                  *)
(*   asked       what it is asked for by: its "id", its "name", or, when   *)
(*               it has no name, the last "segment" of its id              *)
(*   listed      the property `subjects`: there or not                     *)
(*   entries     what is in it: [object, subject, machine, events]         *)
(*   named       the elements the property `subject` refers to             *)
(*   native      the subjects the case owns                                *)
(*   type        the type of an element, None of the untyped               *)
(*   machines    the state machines of the model, in their order:          *)
(*               [id, roots, nested], the owners of their states           *)
(*   owner       the owner of every action of the model                    *)
(*   flows       the flows of the model: [owner, source, target]           *)
(*   has         what else the case declares or owns                       *)
(*   scripted    the property `simulation_script` or `events` of the case  *)
(*   script      its events: [trigger, subject]                            *)
(*   direct, assumed  the subjects with an initial value of their own, and *)
(*               those an assumption names                                 *)
(*   defaults    the types whose attribute has a default                   *)
(* An initial value is known by where it comes from, that of one feature.  *)
(***************************************************************************)
EXTENDS Naturals, Sequences, FiniteSets, SequencesExt

CONSTANTS
    Subject,  \* the elements that may be subjects
    None      \* a property that is not there

Elements(c) == Subject \cup DOMAIN c.type \cup {c.machines[i].id : i \in DOMAIN c.machines}

-----------------------------------------------------------------------------
(* What the case is about: analysis.rs *)

\* collect_subjects. Every string in the list that is the id of an element is a
\* subject, that of a machine too.
Subjects(c) ==
    c.named \cup c.native
    \cup IF c.listed
           THEN {s \in Elements(c) : \E e \in Range(c.entries) : s \in {e.subject, e.machine}}
           ELSE {}

Listed(c) == IF c.listed THEN DOMAIN c.entries ELSE {}

\* Seeded fault: the entry of any subject is taken.
EntriesForAny(c, s) == {i \in Listed(c) : c.entries[i].object /\ c.entries[i].machine # None}

\* explicit_subject_machine_id takes the first of these.
EntriesFor(c, s) ==
    {i \in Listed(c) : LET e == c.entries[i] IN e.object /\ e.subject = s /\ e.machine # None}

\* The first machine with a root state of one of these owners is taken.
MachinesOf(c, owners) == {i \in DOMAIN c.machines : c.machines[i].roots \cap owners # {}}

TypeOf(c, s) == IF s \in DOMAIN c.type THEN c.type[s] ELSE None

\* subject_behavior_owner_candidates
Candidates(c, s) == {TypeOf(c, s), s} \ {None}

Binding(s, behavior, kind) == [subject |-> s, behavior |-> behavior, kind |-> kind]

\* collect_dynamic_behavior_bindings
MachineBindings(c) ==
    UNION {LET given == EntriesFor(c, s)
               own == MachinesOf(c, Candidates(c, s))
           IN  CASE given # {} -> {Binding(s, c.entries[Min(given)].machine, "state machine")}
                 [] given = {} /\ own # {} -> {Binding(s, c.machines[Min(own)].id, "state machine")}
                 [] OTHER -> {} : s \in Subjects(c)}

ActivityBindings(c) ==
    UNION {{Binding(s, a, "activity") : a \in {x \in DOMAIN c.owner : c.owner[x] \in Candidates(c, s)}}
             : s \in Subjects(c)}

Bindings(c) == MachineBindings(c) \cup ActivityBindings(c)

\* dynamic_behavior_required. A subject whose type owns a machine has a binding.
DynamicRequired(c) ==
    \/ Bindings(c) # {}
    \/ {"clock", "simulation"} \cap c.has # {}
    \/ c.scripted
    \/ c.listed /\ \E e \in Range(c.entries) : e.object /\ (e.machine # None \/ e.events # "none")

\* infer_techniques
Techniques(c) ==
    (c.has \cap {"calculation", "constraint", "trade study", "query", "provider"})
    \cup (IF DynamicRequired(c) THEN {"dynamic"} ELSE {})
    \cup (IF {"requirement", "verification"} \cap c.has # {} THEN {"verification"} ELSE {})
    \cup (IF {"view", "concern"} \cap c.has # {} THEN {"view"} ELSE {})

\* readiness_diagnostics: the errors, then the warnings.
SubjectFaults(c) ==
    {e \in Range(c.entries) :
        \/ ~ e.object
        \/ e.subject \notin Elements(c)
        \/ DynamicRequired(c) /\ e.machine = None /\ \A b \in Bindings(c) : b.subject # e.subject}

Blocking(c) == Subjects(c) = {} \/ (c.listed /\ SubjectFaults(c) # {})

Warned(c) ==
    \/ "requirement" \in c.has /\ "verification" \notin c.has
    \/ ActivityBindings(c) # {}
    \/ Techniques(c) = {}

\* readiness_status
Readiness(c) == IF Blocking(c) THEN "Blocked" ELSE IF Warned(c) THEN "Partial" ELSE "Ready"

\* expected_artifacts
Artifacts(c) ==
    LET dynamic == "dynamic" \in Techniques(c)
        expected == [simulation_trace |-> dynamic /\ (MachineBindings(c) # {} \/ Bindings(c) = {}),
                     activity_execution_summary |-> dynamic /\ ActivityBindings(c) # {},
                     constraint_analysis_summary |-> "constraint" \in Techniques(c),
                     requirement_verdicts |-> "verification" \in Techniques(c),
                     analysis_view |-> "view" \in Techniques(c)]
    IN  {a \in DOMAIN expected : expected[a]}

\* execution_context_from_case, of one subject: an assumption is taken before a
\* value of the case. An assumption names its subject by the label.
SpecValue(c, s) ==
    CASE s \in c.assumed \cap Subjects(c) -> "assumed"
      [] s \notin c.assumed \cap Subjects(c) /\ s \in c.direct -> "direct"
      [] OTHER -> None

\* execution_plan: its steps, whose order never changes.
Plan(c) ==
    {step \in {"subjects", "assumptions", "inputs", "calculation", "constraint", "dynamic",
               "requirement", "verification", "views", "result"} :
        CASE step \in {"subjects", "result"} -> TRUE
          [] step = "assumptions" -> c.direct \cup c.assumed # {} \/ "assumption" \in c.has
          [] step = "inputs" -> "input" \in c.has
          [] step = "dynamic" -> DynamicRequired(c)
          [] step = "views" -> {"view", "concern"} \cap c.has # {}
          [] OTHER -> step \in c.has}

-----------------------------------------------------------------------------
(* What is simulated: simulation/adapter.rs *)

Pair(s, machine) == [subject |-> s, machine |-> machine]

\* subject_scenario_from_analysis_value
BadEntry(e) == ~ e.object \/ e.subject = None \/ e.machine = None \/ e.events = "bad"

\* native_analysis_subjects: the machine of the type, never its own.
Typed(c, s) == TypeOf(c, s) # None /\ MachinesOf(c, {TypeOf(c, s)}) # {}

Simulated(c) == IF c.listed THEN {e.subject : e \in Range(c.entries)} ELSE c.native

Pairs(c) ==
    IF c.listed THEN {Pair(e.subject, e.machine) : e \in Range(c.entries)}
                ELSE {Pair(s, c.machines[Min(MachinesOf(c, {TypeOf(c, s)}))].id) : s \in c.native}

\* apply_analysis_script_events. A name that is a native of the case but not a
\* subject of the scenario is an error; one that is nothing goes to the only
\* subject there is.
Addressed(c, event) ==
    CASE event.subject \in Simulated(c) -> TRUE
      [] event.subject \in c.native \ Simulated(c) -> FALSE
      [] OTHER -> (IF c.listed THEN Len(c.entries) ELSE Cardinality(c.native)) = 1

ScriptFails(c) == c.scripted /\ \E e \in Range(c.script) : ~ e.trigger \/ ~ Addressed(c, e)

\* scenario_from_analysis_case
NotFound(c) == c.usage \/ c.asked = "segment"

ScenarioFails(c) ==
    \/ NotFound(c)
    \/ c.listed /\ \E e \in Range(c.entries) : BadEntry(e)
    \/ ~ c.listed /\ \E s \in c.native : ~ Typed(c, s)
    \/ Simulated(c) = {}
    \/ ScriptFails(c)

\* core_runner_can_handle
Handled(c) == \A p \in Pairs(c) : \E i \in DOMAIN c.machines : c.machines[i].id = p.machine

\* The initial value of one subject: defaults of its type, values of the case,
\* assumptions that name a native.
ScenarioValue(c, s) ==
    CASE s \in c.assumed \cap c.native -> "assumed"
      [] s \notin c.assumed \cap c.native /\ s \in c.direct -> "direct"
      [] s \notin (c.assumed \cap c.native) \cup c.direct /\ TypeOf(c, s) \in c.defaults -> "default"
      [] OTHER -> None
=============================================================================
