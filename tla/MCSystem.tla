----------------------------- MODULE MCSystem -------------------------------
(***************************************************************************)
(* The small instances of the components of System.                        *)
(***************************************************************************)
EXTENDS System, TLC

\* Version 2.0.0 drops a member of 1.0.0, keeps one and brings a new one.
MCVersions == {"1.0.0", "2.0.0"}
MCHas == [v \in MCVersions |-> IF v = "1.0.0" THEN {"kept", "dropped"} ELSE {"kept", "added"}]

CONSTANTS t1, t2, p2, p3, p4

MCWorkers == {t1, t2}
MCNumbers == {p2, p3, p4}
MCSymmetry == Permutations(MCWorkers) \cup Permutations(MCNumbers)

=============================================================================
