--------------------------- MODULE ImportAliases ---------------------------
(***************************************************************************)
(* The table of names that the imports of a module bind to elements        *)
(* (imports.rs).  Imports are taken in the order of the source; every one  *)
(* binds names, and a name that two of them bind to different elements is  *)
(* ambiguous from then on and stands for nothing.                          *)
(***************************************************************************)
CONSTANTS Names, Targets

VARIABLES
  made,      \* the bindings [alias, target] made so far
  bound,     \* value_aliases
  ambiguous  \* ambiguous_value_aliases

vars == <<made, bound, ambiguous>>

Without(f, name) == [x \in DOMAIN f \ {name} |-> f[x]]

Init ==
  /\ made = {}
  /\ bound = [x \in {} |-> x]
  /\ ambiguous = {}

\* Seeded fault: the last import wins.
BindLast(alias, target) ==
  /\ made' = made \cup {[alias |-> alias, target |-> target]}
  /\ bound' = [x \in DOMAIN bound \cup {alias} |-> IF x = alias THEN target ELSE bound[x]]
  /\ UNCHANGED ambiguous

\* bind_value_alias
Bind(alias, target) ==
  /\ made' = made \cup {[alias |-> alias, target |-> target]}
  /\ \/ /\ alias \in ambiguous
        /\ UNCHANGED <<bound, ambiguous>>
     \/ /\ alias \notin ambiguous
        /\ alias \in DOMAIN bound
        /\ bound[alias] # target
        /\ bound' = Without(bound, alias)
        /\ ambiguous' = ambiguous \cup {alias}
     \/ /\ alias \notin ambiguous
        /\ alias \in DOMAIN bound => bound[alias] = target
        /\ bound' = [x \in DOMAIN bound \cup {alias} |-> IF x = alias THEN target ELSE bound[x]]
        /\ UNCHANGED ambiguous

\* ImportAliases::default, for every attempt at compiling the module.
Restart ==
  /\ made' = {}
  /\ bound' = [x \in {} |-> x]
  /\ ambiguous' = {}

Next ==
  \/ Restart
  \/ \E alias \in Names, target \in Targets : Bind(alias, target)

Spec == Init /\ [][Next]_vars

---------------------------------------------------------------------------

TypeOK ==
  /\ made \subseteq [alias : Names, target : Targets]
  /\ DOMAIN bound \subseteq Names
  /\ \A x \in DOMAIN bound : bound[x] \in Targets
  /\ ambiguous \subseteq Names

\* What the bindings made so far bind a name to.
TargetsOf(name) == {b.target : b \in {m \in made : m.alias = name}}

\* A name stands for an element when every import that binds it binds it to
\* that element, and for nothing when two of them differ: what a name means
\* does not depend on the order of the imports (imports.rs, bind_value_alias).
ValueAliasesAreUnanimous ==
  \A name \in {m.alias : m \in made} \cup DOMAIN bound \cup ambiguous :
    /\ name \in DOMAIN bound <=> \E t \in TargetsOf(name) : TargetsOf(name) = {t}
    /\ name \in DOMAIN bound => TargetsOf(name) = {bound[name]}
    /\ name \in ambiguous <=> \E t1, t2 \in TargetsOf(name) : t1 # t2
===========================================================================
