-------------------------- MODULE MCAccessControl ---------------------------
(* An administrator's key, a user's key, one in two lists, two spare ones.  *)
EXTENDS AccessControl, TLC

CONSTANTS root, user, n1, n2, w1, w2

MCKeys == {root, user, n1, n2}
MCLists == root :> {"admin"} @@ user :> {"operator"} @@ n1 :> {} @@ n2 :> {}
MCWorkers == {w1, w2}
MCSymmetry == Permutations({n1, n2}) \cup Permutations({w1, w2})

=============================================================================
