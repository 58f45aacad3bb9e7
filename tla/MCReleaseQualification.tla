----------------------- MODULE MCReleaseQualification -----------------------
(***************************************************************************)
(* Two runs that promote one of two new profiles from one of two output    *)
(* directories: the same profile or another, one after the other, a retry  *)
(* after a crash, or at the same time. Two threads load the libraries.     *)
(***************************************************************************)
EXTENDS ReleaseQualification, TLC

CONSTANTS t1, t2, r1, r2, default, june, july, here, there, bundled, foreign

MCThread == {t1, t2}
MCLocator == {default, june, july}
MCRun == {r1, r2}
MCOutDir == {here, there}
MCLibrary == {bundled, foreign}

MCGenerated == [o \in MCOutDir |-> IF o = there THEN foreign ELSE NoFile]

Full(profile, out) ==
    [profile |-> profile, out |-> out, skipBuild |-> FALSE, skipParity |-> FALSE,
     promote |-> TRUE, latest |-> TRUE]
MCArgs ==
    {Full(june, here), Full(july, here), Full(july, there),
     [Full(june, there) EXCEPT !.skipBuild = TRUE, !.latest = FALSE],
     [Full(june, there) EXCEPT !.skipParity = TRUE],
     [Full(default, here) EXCEPT !.promote = FALSE, !.latest = FALSE]}

\* Bound: the processes load promoted profiles only, not the default one, whose
\* directory no run can ever change.
PromotedAreLoaded == \A t \in Thread : pc'[t] # "idle" => key'[t] # Default

Symmetry == Permutations(MCThread) \cup Permutations(MCRun)
=============================================================================
