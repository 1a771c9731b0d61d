-------------------------- MODULE MCAdapterEngine ---------------------------
EXTENDS AdapterEngine, TLC

CONSTANTS t1, t2
MCThreads == {t1, t2}
MCSymmetry == Permutations({t1, t2})

=============================================================================
