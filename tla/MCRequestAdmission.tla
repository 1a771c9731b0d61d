------------------------ MODULE MCRequestAdmission ------------------------
(* Five requests of three principals.  r1, r2 and r3 belong to one noisy    *)
(* caller, which shares its rate bucket with the caller of r4 (the same     *)
(* first eight characters of two keys); r5 has a bucket of its own.        *)
EXTENDS RequestAdmission

CONSTANTS r1, r2, r3, r4, r5, noisy, quiet, other, k1, k2

MCPrincipalOf ==
    [r \in Requests |-> CASE r \in {r1, r2, r3} -> noisy
                          [] r = r4 -> quiet
                          [] r = r5 -> other]

MCRateKeyOf == [r \in Requests |-> IF r = r5 THEN k2 ELSE k1]

=============================================================================
