---------------------------- MODULE DurableSet ------------------------------
(***************************************************************************)
(* What a persistent registry promises (apps/api_registry/store.py,        *)
(* "versioned, crash-safe store"): changes go to memory, a save makes all  *)
(* of them durable at once, a change is acknowledged only when durable,    *)
(* and a restart brings back exactly what is durable.                      *)
(***************************************************************************)
EXTENDS Naturals

CONSTANT Changes

VARIABLES
    mem,      \* changes the running process has applied
    durable,  \* changes a restart would find
    acked     \* changes whose caller got an answer

vars == <<mem, durable, acked>>

Init == mem = {} /\ durable = {} /\ acked = {}

Change(c) == mem' = mem \cup {c} /\ UNCHANGED <<durable, acked>>

Commit == durable' = mem /\ UNCHANGED <<mem, acked>>

Acknowledge(c) == c \in durable /\ acked' = acked \cup {c} /\ UNCHANGED <<mem, durable>>

Restart == mem' = durable /\ UNCHANGED <<durable, acked>>

Next == Commit \/ Restart \/ \E c \in Changes : Change(c) \/ Acknowledge(c)

Spec == Init /\ [][Next]_vars

=============================================================================
