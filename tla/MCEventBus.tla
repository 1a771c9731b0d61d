----------------------------- MODULE MCEventBus -----------------------------
(* Events of one and of two bytes; a budget that two subscribers can       *)
(* exhaust before their queues are full.                                   *)
EXTENDS EventBus

MCSizeOf == [e \in 1..MaxEvents |-> IF e % 2 = 0 THEN 2 ELSE 1]

=============================================================================
