---------------------------- MODULE CompileProofs ----------------------------
(***************************************************************************)
(* What holds of every compilation that recovers from faults, and of every *)
(* table of import aliases, however many declarations and imports there    *)
(* are.                                                                    *)
(***************************************************************************)
EXTENDS CompileRecovery, TLAPS

CONSTANTS Names, Targets
VARIABLES made, bound, ambiguous

Aliases == INSTANCE ImportAliases

---------------------------------------------------------------------------
(* Recovery *)

\* The variables of a recovery stay of their types (parser.rs, the loop of
\* compile_sysml_module_with_resolver_context_report_with_limit).
THEOREM RecoveryTypes == Spec => []TypeOK
<1>1. Init => TypeOK
  BY DEF Init, TypeOK, Places
<1>2. TypeOK /\ [Next]_vars => TypeOK'
  <2> SUFFICES ASSUME TypeOK, [Next]_vars PROVE TypeOK'
    OBVIOUS
  <2> USE DEF TypeOK, Places, given
  <2>1. CASE Finish
    BY <2>1 DEF Finish
  <2>2. ASSUME NEW d \in declared, StripType(d) PROVE TypeOK'
    BY <2>2 DEF StripType, Again
  <2>3. ASSUME NEW d \in declared, NEW R \in SUBSET kept, Prune(d, R) PROVE TypeOK'
    BY <2>3 DEF Prune, Again
  <2>4. ASSUME NEW d \in Places, GiveUp(d) PROVE TypeOK'
    BY <2>4 DEF GiveUp
  <2>5. CASE Overflow
    BY <2>5 DEF Overflow
  <2>6. CASE UNCHANGED vars
    BY <2>6 DEF vars
  <2> QED
    BY <2>1, <2>2, <2>3, <2>4, <2>5, <2>6 DEF Next
<1> QED
  BY <1>1, <1>2, PTL DEF Spec

\* Every declaration that is left out was reported itself or stands in one that
\* is left out (parser.rs, prune_declaration_for_span).
THEOREM DropsAreReported == Spec => []NothingIsDroppedSilently
<1>1. Init => NothingIsDroppedSilently
  BY DEF Init, NothingIsDroppedSilently
<1>2. TypeOK /\ NothingIsDroppedSilently /\ [Next]_vars => NothingIsDroppedSilently'
  <2> SUFFICES ASSUME TypeOK, NothingIsDroppedSilently, [Next]_vars PROVE NothingIsDroppedSilently'
    OBVIOUS
  <2> USE DEF NothingIsDroppedSilently, given
  <2>1. CASE Finish
    BY <2>1 DEF Finish
  <2>2. ASSUME NEW d \in declared, StripType(d) PROVE NothingIsDroppedSilently'
    BY <2>2 DEF StripType, Again
  <2>3. ASSUME NEW d \in declared, NEW R \in SUBSET kept, Prune(d, R) PROVE NothingIsDroppedSilently'
    <3>1. declared' = declared /\ parent' = parent /\ kept' = kept \ R /\ reported' = reported \cup {d}
      BY <2>3 DEF Prune, Again
    <3>2. ASSUME NEW x \in declared, x \notin kept' PROVE x \in reported' \/ parent[x] \in declared \ kept'
      <4>1. CASE x \notin kept
        BY <3>1, <4>1
      <4>2. CASE x = d
        BY <3>1, <4>2
      <4>3. CASE x \in kept /\ x # d
        BY <2>3, <3>1, <3>2, <4>3 DEF Prune, TypeOK
      <4> QED
        BY <4>1, <4>2, <4>3
    <3> QED
      BY <3>1, <3>2
  <2>4. ASSUME NEW d \in Places, GiveUp(d) PROVE NothingIsDroppedSilently'
    BY <2>4 DEF GiveUp
  <2>5. CASE Overflow
    BY <2>5 DEF Overflow
  <2>6. CASE UNCHANGED vars
    BY <2>6 DEF vars
  <2> QED
    BY <2>1, <2>2, <2>3, <2>4, <2>5, <2>6 DEF Next
<1> QED
  BY <1>1, <1>2, RecoveryTypes, PTL DEF Spec

\* The strengthening of OkMeansComplete: nothing was left out but by an attempt.
Untouched == attempts = 0 /\ status # "failed" => kept = declared

Complete == OkMeansComplete /\ Untouched /\ (reported = {} => attempts = 0)

\* "ok" is said only of a module compiled as it was written, "partial" only
\* with a report, and no more attempts are begun than the limit allows
\* (parser.rs, the loop and partial_compile_attempt_limit).
THEOREM OkIsComplete == Spec => []OkMeansComplete
<1> USE DEF OkMeansComplete, Untouched, given
<1>1. Init => Complete
  BY DEF Init, Complete
<1>2. TypeOK /\ Complete /\ [Next]_vars => Complete'
  <2> SUFFICES ASSUME TypeOK, Complete, [Next]_vars PROVE Complete'
    OBVIOUS
  <2> USE DEF TypeOK, Complete
  <2>1. CASE Finish
    BY <2>1 DEF Finish
  <2>2. ASSUME NEW d \in declared, StripType(d) PROVE Complete'
    BY <2>2 DEF StripType, Again
  <2>3. ASSUME NEW d \in declared, NEW R \in SUBSET kept, Prune(d, R) PROVE Complete'
    BY <2>3 DEF Prune, Again
  <2>4. ASSUME NEW d \in Places, GiveUp(d) PROVE Complete'
    BY <2>4 DEF GiveUp
  <2>5. CASE Overflow
    BY <2>5 DEF Overflow
  <2>6. CASE UNCHANGED vars
    BY <2>6 DEF vars
  <2> QED
    BY <2>1, <2>2, <2>3, <2>4, <2>5, <2>6 DEF Next
<1>3. Complete => OkMeansComplete
  BY DEF Complete
<1> QED
  BY <1>1, <1>2, <1>3, RecoveryTypes, PTL DEF Spec

---------------------------------------------------------------------------
(* Import aliases *)

\* What the bindings made so far say of one name.
Of(name) == {b.target : b \in {m \in made : m.alias = name}}

Unanimous(name) ==
  /\ name \in DOMAIN bound <=> \E t \in Of(name) : Of(name) = {t}
  /\ name \in DOMAIN bound => Of(name) = {bound[name]}
  /\ name \in ambiguous <=> \E t1, t2 \in Of(name) : t1 # t2

\* A name that no import binds is bound to nothing.
LEMMA OfEveryName == Aliases!ValueAliasesAreUnanimous <=> \A name : Unanimous(name)
<1>1. \A name : name \notin {m.alias : m \in made} => Of(name) = {}
  BY DEF Of
<1>2. \A name : name \notin {m.alias : m \in made} \cup DOMAIN bound \cup ambiguous => Unanimous(name)
  BY <1>1 DEF Unanimous
<1> QED
  BY <1>2 DEF Aliases!ValueAliasesAreUnanimous, Aliases!TargetsOf, Unanimous, Of

\* One more binding, of this name or of another.
LEMMA BindingIsUnanimous ==
  ASSUME NEW name, Unanimous(name), NEW alias, NEW target, Aliases!Bind(alias, target)
  PROVE  Unanimous(name)'
<1>1. made' = made \cup {[alias |-> alias, target |-> target]}
  BY DEF Aliases!Bind
<1>2. CASE name # alias
  <2>1. Of(name)' = Of(name)
    BY <1>1, <1>2 DEF Of
  <2>2. /\ name \in DOMAIN bound' <=> name \in DOMAIN bound
        /\ name \in DOMAIN bound => bound'[name] = bound[name]
        /\ name \in ambiguous' <=> name \in ambiguous
    BY <1>2 DEF Aliases!Bind, Aliases!Without
  <2> QED
    BY <2>1, <2>2 DEF Unanimous
<1>3. CASE name = alias
  <2> DEFINE new == [alias |-> alias, target |-> target]
  <2>1. Of(name)' = Of(name) \cup {target}
    <3>1. new.alias = name /\ new.target = target
      BY <1>3
    <3>2. Of(name)' = {b.target : b \in {m \in made \cup {new} : m.alias = name}}
      BY <1>1 DEF Of
    <3>3. \A x : x \in Of(name)' <=> \E b \in made \cup {new} : b.alias = name /\ b.target = x
      BY <3>2
    <3>4. \A x : x \in Of(name) <=> \E b \in made : b.alias = name /\ b.target = x
      BY DEF Of
    <3> HIDE DEF new
    <3>5. \A x : x \in Of(name)' <=> x \in Of(name) \/ x = target
      BY <3>1, <3>3, <3>4
    <3> QED
      BY <3>5
  <2>2. CASE name \in ambiguous
    BY <1>3, <2>1, <2>2 DEF Aliases!Bind, Unanimous
  <2>3. CASE name \notin ambiguous /\ name \in DOMAIN bound /\ bound[name] # target
    <3>1. name \notin DOMAIN bound' /\ name \in ambiguous'
      BY <1>3, <2>3 DEF Aliases!Bind, Aliases!Without
    <3> QED
      BY <2>1, <2>3, <3>1 DEF Unanimous
  <2>4. CASE name \notin ambiguous /\ (name \in DOMAIN bound => bound[name] = target)
    <3>1. name \in DOMAIN bound' /\ bound'[name] = target /\ name \notin ambiguous'
      BY <1>3, <2>4 DEF Aliases!Bind
    <3>2. Of(name) \subseteq {target}
      BY <2>4 DEF Unanimous
    <3> QED
      BY <2>1, <3>1, <3>2 DEF Unanimous
  <2> QED
    BY <2>2, <2>3, <2>4
<1> QED
  BY <1>2, <1>3

\* Every name an import binds stands for the only element it is bound to, and
\* for nothing once two imports differ, in whatever order they come (imports.rs,
\* bind_value_alias).
THEOREM AliasesUnanimous == Aliases!Spec => []Aliases!ValueAliasesAreUnanimous
<1> DEFINE Agreed == \A name : Unanimous(name)
<1>1. Aliases!Init => Agreed
  BY DEF Aliases!Init, Unanimous, Of
<1>2. Agreed /\ [Aliases!Next]_Aliases!vars => Agreed'
  <2> SUFFICES ASSUME Agreed, [Aliases!Next]_Aliases!vars, NEW name PROVE Unanimous(name)'
    OBVIOUS
  <2>1. CASE Aliases!Restart
    BY <2>1 DEF Aliases!Restart, Unanimous, Of
  <2>2. ASSUME NEW alias \in Names, NEW target \in Targets, Aliases!Bind(alias, target)
        PROVE Unanimous(name)'
    BY <2>2, BindingIsUnanimous
  <2>3. CASE UNCHANGED Aliases!vars
    <3>1. made' = made /\ bound' = bound /\ ambiguous' = ambiguous
      BY <2>3 DEF Aliases!vars
    <3>2. Unanimous(name)
      OBVIOUS
    <3>3. Of(name)' = Of(name)
      BY <3>1 DEF Of
    <3> QED
      BY <3>1, <3>2, <3>3 DEF Unanimous
  <2> QED
    BY <2>1, <2>2, <2>3 DEF Aliases!Next
<1> HIDE DEF Agreed
<1>3. Aliases!ValueAliasesAreUnanimous <=> Agreed
  BY OfEveryName DEF Agreed
<1> QED
  BY <1>1, <1>2, <1>3, PTL DEF Aliases!Spec
===========================================================================
