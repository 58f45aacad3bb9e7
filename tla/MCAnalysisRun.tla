---------------------------- MODULE MCAnalysisRun ----------------------------
(***************************************************************************)
(* Three families of cases: one native subject whose only activity is any  *)
(* of at most four nodes and four flows, or a ragged one beside another;   *)
(* every way to give one or two subjects their machines; and everything    *)
(* else a case can declare.                                                *)
(***************************************************************************)
EXTENDS AnalysisRun, TLC

\* Two subjects of a type that owns a machine, an activity and a lone action.
X == <<"subject", "x">>
Y == <<"subject", "y">>
T == <<"type", "T">>
U == <<"type", "U">>
Machine == <<"state", "m">>

Act == <<"action", "T", "act">>
Lone == <<"action", "U", "lone">>
In(name) == Append(Act, name)
In2(name) == Append(Lone, name)

MCSubject == {X, Y}
\* A reference that is the id of no element.
Nobody == <<"nobody">>

Plain ==
    [usage |-> FALSE, asked |-> "name", listed |-> FALSE, entries |-> <<>>, named |-> {}, native |-> {X},
     type |-> X :> T @@ Y :> U, machines |-> <<[id |-> Machine, roots |-> {T}, nested |-> {}]>>,
     owner |-> Act :> T @@ In("a") :> Act @@ In("b") :> Act,
     flows |-> {[owner |-> Act, source |-> In("a"), target |-> In("b")]},
     has |-> {}, scripted |-> FALSE, script |-> <<>>, direct |-> {}, assumed |-> {}, defaults |-> {}]

-----------------------------------------------------------------------------
\* Every activity of four nodes with at most four flows between them.
Letters == {"a", "b", "c", "d"}
Inside == {In(l) : l \in Letters}

UpToFour(F) == {{}} \cup {{f1, f2, f3, f4} : f1 \in F, f2 \in F, f3 \in F, f4 \in F}
UpToTwo(F) == {{}} \cup {{f1, f2} : f1 \in F, f2 \in F}

Flows(owners, ends) == [owner : owners, source : ends, target : ends]

Whole ==
    {[Plain EXCEPT !.machines = <<>>, !.owner = Act :> T @@ [n \in Inside |-> Act], !.flows = flows]
       : flows \in UpToFour(Flows({Act}, Inside))}

\* Two activities, of which one may be a lone action, whose nodes share a name;
\* flows of either, by ids, by names, chained, without an end, to nobody.
Ragged ==
    {[Plain EXCEPT !.machines = <<>>, !.owner = owner, !.flows = flows]
       : owner \in {Act :> T @@ Lone :> U @@ In("a") :> Act @@ In("b") :> Act @@ In2("a") :> Lone,
                    Act :> T @@ Lone :> T},
         flows \in UpToTwo(Flows({Act, Lone}, {<<>>, In("a"), <<"b", "done">>, In2("a"), Nobody}))}

-----------------------------------------------------------------------------
\* The machines of the model: of a type, of a subject itself, of a nested state.
Models ==
    {<<>>, <<[id |-> Machine, roots |-> {T}, nested |-> {}]>>,
     <<[id |-> Machine, roots |-> {X}, nested |-> {T}], [id |-> T, roots |-> {T, U}, nested |-> {}]>>}

Entry(s, machine) == [object |-> TRUE, subject |-> s, machine |-> machine, events |-> "none"]

Entries ==
    {<<>>, <<[Entry(X, None) EXCEPT !.object = FALSE]>>, <<[Entry(X, Machine) EXCEPT !.events = "bad"]>>,
     <<[Entry(Y, None) EXCEPT !.events = "good"]>>, <<Entry(None, Machine)>>}
    \cup {<<Entry(s, m)>> : s \in {X, Y, Nobody}, m \in {Machine, T, Nobody, None}}
    \cup {<<Entry(X, Machine), Entry(s, m)>> : s \in {X, Y}, m \in {T, None}}

Lists == {[Plain EXCEPT !.listed = TRUE, !.entries = e, !.native = n, !.machines = m, !.usage = u]
            : e \in Entries, n \in SUBSET {X}, m \in Models, u \in BOOLEAN}

Natives == {[Plain EXCEPT !.native = n, !.named = r, !.machines = m, !.type = t, !.asked = a]
              : n \in SUBSET {X, Y}, r \in SUBSET {Y}, m \in Models, a \in {"id", "name", "segment"},
                t \in {X :> T @@ Y :> U, X :> T @@ Y :> None, X :> U @@ Y :> U}}

-----------------------------------------------------------------------------
Scripts == {<<>>} \cup {<<[trigger |-> g, subject |-> s]>> : g \in BOOLEAN, s \in {X, Y, None, Nobody}}

Scripted == {[Plain EXCEPT !.scripted = TRUE, !.script = e, !.listed = l, !.entries = <<Entry(Y, Machine)>>, !.native = n]
               : e \in Scripts, l \in BOOLEAN, n \in {{}, {X}, {X, Y}}}

Valued == {[Plain EXCEPT !.direct = d, !.assumed = a, !.defaults = {T}, !.listed = l, !.entries = <<Entry(Y, Machine)>>,
                         !.native = n]
             : d \in SUBSET {X, Y}, a \in SUBSET {X, Y}, l \in BOOLEAN, n \in {{X}, {X, Y}}}

Asking == {[Plain EXCEPT !.has = h, !.machines = m, !.owner = o, !.flows = {}]
             : h \in SUBSET {"calculation", "constraint", "requirement", "verification", "view", "clock"},
               m \in Models, o \in {<<>>, Act :> T, Plain.owner @@ Lone :> T}}

MCCases == Whole \cup Ragged \cup Lists \cup Natives \cup Scripted \cup Valued \cup Asking

MCIdOrder == <<Act>> \o <<In("a"), In("b"), In("c"), In("d")>> \o <<Lone, In2("a")>>
MCNode == Range(MCIdOrder)
MCActivities == {Idle} \cup {ActivityOf(c, n) : c \in MCCases, n \in {Act, Lone}}
=============================================================================
