--------------------------- MODULE MCActivities -----------------------------
(***************************************************************************)
(* The small instances of the components of Activities.                    *)
(***************************************************************************)
EXTENDS Activities, TLC

CONSTANTS t1, t2

MCWorkers == {t1, t2}
MCSymmetry == Permutations(MCWorkers)

MCEnvSettings == [remote |-> TRUE, key |-> 1, url |-> "default"]

\* Two records of one action, and one that belongs to no application.
MCApis == {"a1", "a2", "a3"}
MCAppOf == [a1 |-> "app", a2 |-> "app", a3 |-> "no app"]
MCActionOf == [a1 |-> "act", a2 |-> "act", a3 |-> "play"]
MCPathOf == [a1 |-> "POST /act", a2 |-> "POST /act", a3 |-> "POST /play"]

=============================================================================
