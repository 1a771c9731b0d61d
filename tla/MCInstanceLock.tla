--------------------------- MODULE MCInstanceLock ---------------------------
(* Processes are interchangeable: symmetric in the run that checks no       *)
(* liveness.                                                               *)
EXTENDS InstanceLock, TLC

ProcSymmetry == Permutations(Procs)

=============================================================================
