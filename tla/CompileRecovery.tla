-------------------------- MODULE CompileRecovery --------------------------
(***************************************************************************)
(* What compiling a module that is partly in error promises: a report of   *)
(* whatever is left out, and a result after a bounded number of attempts.  *)
(*                                                                         *)
(* The declarations of the module form a forest.  An attempt that fails is *)
(* reported at a declaration, and either the type of this declaration is   *)
(* dropped, or the declaration is, with all that stands in it.             *)
(***************************************************************************)
EXTENDS Naturals

VARIABLES
  declared,  \* the declarations of the module as it was parsed
  parent,    \* the declaration that one stands in, 0 at the top
  limit,     \* the attempts that may be made
  kept,      \* the declarations that are still compiled
  typed,     \* those of them that still have their type
  reported,  \* where something was reported; 0 stands for the parse
  attempts,  \* the attempts that failed and were recovered from
  status     \* "running", "ok", "partial", "failed" or "overflow"

given == <<declared, parent, limit>>
vars  == <<declared, parent, limit, kept, typed, reported, attempts, status>>

Places == declared \cup {0}

Init ==
  /\ declared \subseteq Nat \ {0}
  /\ parent \in [declared -> Places]
  /\ limit \in Nat \ {0}
  /\ kept = declared
  /\ typed \subseteq declared
  /\ reported \subseteq {0}
  /\ attempts = 0
  /\ status = "running"

Finish ==
  /\ status = "running"
  /\ status' = IF reported = {} THEN "ok" ELSE "partial"
  /\ UNCHANGED <<given, kept, typed, reported, attempts>>

\* The attempt after the last is never made.
Again(d) ==
  /\ reported' = reported \cup {d}
  /\ attempts' = attempts + 1
  /\ status' = IF attempts + 1 = limit THEN "failed" ELSE "running"

StripType(d) ==
  /\ status = "running"
  /\ d \in typed
  /\ typed' = typed \ {d}
  /\ Again(d)
  /\ UNCHANGED <<given, kept>>

\* R is d and what stands in it.
Prune(d, R) ==
  /\ status = "running"
  /\ d \in R
  /\ \A x \in kept \ {d} : x \in R <=> parent[x] \in R
  /\ kept' = kept \ R
  /\ typed' = typed \ R
  /\ Again(d)
  /\ UNCHANGED given

GiveUp(d) ==
  /\ status = "running"
  /\ reported' = reported \cup {d}
  /\ status' = "failed"
  /\ UNCHANGED <<given, kept, typed, attempts>>

\* The stack of the process ends before the resolution does.
Overflow ==
  /\ status = "running"
  /\ status' = "overflow"
  /\ UNCHANGED <<given, kept, typed, reported, attempts>>

Next ==
  \/ Finish
  \/ \E d \in declared : StripType(d)
  \/ \E d \in declared, R \in SUBSET kept : Prune(d, R)
  \/ \E d \in Places : GiveUp(d)
  \/ Overflow

Spec == Init /\ [][Next]_vars

---------------------------------------------------------------------------

TypeOK ==
  /\ declared \subseteq Nat \ {0}
  /\ parent \in [declared -> Places]
  /\ limit \in Nat \ {0}
  /\ kept \subseteq declared
  /\ typed \subseteq kept
  /\ reported \subseteq Places
  /\ attempts \in Nat
  /\ status \in {"running", "ok", "partial", "failed", "overflow"}

\* Whatever is left out was reported itself or stands in something that is
\* left out: no declaration disappears without a report at it or around it
\* (parser.rs, prune_declaration_for_span).
NothingIsDroppedSilently ==
  \A d \in declared \ kept : d \in reported \/ parent[d] \in declared \ kept

\* "ok" is said of a module that was compiled as it was written; every attempt
\* that was recovered from cost a declaration or a type (parser.rs, the loop
\* of compile_sysml_module_with_resolver_context_report_with_limit).
OkMeansComplete ==
  /\ status = "ok" => kept = declared /\ attempts = 0 /\ reported = {}
  /\ status = "partial" => reported # {}
  /\ status = "running" => attempts < limit
  /\ attempts > 0 => reported # {}
===========================================================================
