---------------------------- MODULE BaselineCache ----------------------------
(***************************************************************************)
(* shared_sysml_baseline_from_locator (crates/mercurio-sysml/src/parser.rs)*)
(* called from several threads: the process-wide cache is looked up under  *)
(* its mutex, the standard library is loaded without it, and the result is *)
(* entered under it again. Each locked section is one step.                *)
(***************************************************************************)
EXTENDS Naturals, FiniteSets

CONSTANTS
    Thread,     \* the callers
    Locator,    \* the keys of the cache
    NoDocument, \* the entry of a locator that is not cached
    MaxLoads    \* bound: how many documents are ever loaded

ASSUME MaxLoadsAssumption == MaxLoads \in Nat
ASSUME NoDocumentAssumption == NoDocument \notin Nat

\* An Arc<KirDocument>: documents are numbered in the order they are loaded.
Document == 1..MaxLoads

VARIABLES
    entries,    \* the document of each cached locator
    loads,      \* how many documents were loaded
    pc,         \* where each thread is: "idle", "lookup", "load", "enter"
    key,        \* the locator each thread asks for
    loaded,     \* the document each thread has loaded, NoDocument if none
    returned    \* the documents returned for each locator

vars == <<entries, loads, pc, key, loaded, returned>>

Init ==
    /\ entries = [k \in Locator |-> NoDocument]
    /\ loads = 0
    /\ pc = [t \in Thread |-> "idle"]
    /\ key \in [Thread -> Locator]
    /\ loaded = [t \in Thread |-> NoDocument]
    /\ returned = [k \in Locator |-> {}]

Goto(t, place) == pc' = [pc EXCEPT ![t] = place]

Return(t, document) ==
    /\ returned' = [returned EXCEPT ![key[t]] = @ \cup {document}]
    /\ loaded' = [loaded EXCEPT ![t] = NoDocument]
    /\ Goto(t, "idle")

Call(t, k) ==
    /\ pc[t] = "idle"
    /\ key' = [key EXCEPT ![t] = k]
    /\ Goto(t, "lookup")
    /\ UNCHANGED <<entries, loads, loaded, returned>>

\* The first locked section: the cached document, if there is one.
Hit(t) ==
    /\ pc[t] = "lookup"
    /\ entries[key[t]] # NoDocument
    /\ Return(t, entries[key[t]])
    /\ UNCHANGED <<entries, loads, key>>

Miss(t) ==
    /\ pc[t] = "lookup"
    /\ entries[key[t]] = NoDocument
    /\ Goto(t, "load")
    /\ UNCHANGED <<entries, loads, key, loaded, returned>>

\* load_sysml_baseline_from_locator reads a new document,
Load(t) ==
    /\ pc[t] = "load"
    /\ loads < MaxLoads
    /\ loads' = loads + 1
    /\ loaded' = [loaded EXCEPT ![t] = loads']
    /\ Goto(t, "enter")
    /\ UNCHANGED <<entries, key, returned>>

\* or fails: the caller gets the error and nothing is entered.
LoadFails(t) ==
    /\ pc[t] = "load"
    /\ Goto(t, "idle")
    /\ UNCHANGED <<entries, loads, key, loaded, returned>>

\* Seeded fault: the second locked section overwrites the entry.
EnterOverwriting(t) ==
    /\ pc[t] = "enter"
    /\ entries' = [entries EXCEPT ![key[t]] = loaded[t]]
    /\ Return(t, loaded[t])
    /\ UNCHANGED <<loads, key>>

\* The second locked section: entry(key).or_insert_with(document).
Enter(t) ==
    /\ pc[t] = "enter"
    /\ LET document == IF entries[key[t]] = NoDocument THEN loaded[t] ELSE entries[key[t]]
       IN  /\ entries' = [entries EXCEPT ![key[t]] = document]
           /\ Return(t, document)
    /\ UNCHANGED <<loads, key>>

Next ==
    \E t \in Thread :
        \/ \E k \in Locator : Call(t, k)
        \/ Hit(t) \/ Miss(t) \/ Load(t) \/ LoadFails(t) \/ Enter(t)

Spec == Init /\ [][Next]_vars

-----------------------------------------------------------------------------
TypeOK ==
    /\ entries \in [Locator -> Document \cup {NoDocument}]
    /\ loads \in 0..MaxLoads
    /\ pc \in [Thread -> {"idle", "lookup", "load", "enter"}]
    /\ key \in [Thread -> Locator]
    /\ loaded \in [Thread -> Document \cup {NoDocument}]
    /\ returned \in [Locator -> SUBSET Document]
    /\ \A t \in Thread : pc[t] = "enter" <=> loaded[t] # NoDocument

\* shared_baseline_reuses_cached_document for callers that race: everybody who
\* ever got the document of a locator got the very same Arc, also those who
\* loaded a copy of their own because they missed at the same time.
OneDocumentPerLocator ==
    \A k \in Locator : \A d \in returned[k] : d = entries[k]
=============================================================================
