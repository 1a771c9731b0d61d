\* Limit 3 with quota 2: two active principals can fill the process, one cannot.
CONSTANTS
  r1 = r1
  r2 = r2
  r3 = r3
  r4 = r4
  r5 = r5
  noisy = noisy
  quiet = quiet
  other = other
  k1 = k1
  k2 = k2
  Requests = {r1, r2, r3, r4, r5}
  Principals = {noisy, quiet, other}
  RateKeys = {k1, k2}
  PrincipalOf <- MCPrincipalOf
  RateKeyOf <- MCRateKeyOf
  Limit = 3
  Quota = 2
  RateLimit = 3
  Window = 1
  MaxTime = 3
SPECIFICATION AdmissionSpec
INVARIANTS AdmissionTypeOK GateCountsRequests SlidingWindow
PROPERTIES NoisyNeighbour
