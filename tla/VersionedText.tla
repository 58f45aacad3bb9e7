---------------------------- MODULE VersionedText ----------------------------
(***************************************************************************)
(* What a parse session promises its clients about the text: a client      *)
(* changes the text it has read, or nothing. A revision number names one   *)
(* text for ever, and only the latest one can be changed.                  *)
(***************************************************************************)
EXTENDS Naturals

CONSTANT Client     \* the editors of the document

VARIABLES
    text,       \* the text
    revision,   \* its number
    seen        \* what each client has last read: [revision, text]

vars == <<text, revision, seen>>

Current == [revision |-> revision, text |-> text]

Init ==
    /\ revision = 0
    /\ seen = [c \in Client |-> Current]

Read(c) ==
    /\ seen' = [seen EXCEPT ![c] = Current]
    /\ UNCHANGED <<text, revision>>

\* c changes the text, all of which it knows, into any other.
Change(c) ==
    /\ seen[c] = Current
    /\ revision' = revision + 1
    /\ UNCHANGED seen

Next == \E c \in Client : Read(c) \/ Change(c)

Spec == Init /\ [][Next]_vars
=============================================================================
