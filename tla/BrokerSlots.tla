---------------------------- MODULE BrokerSlots ----------------------------
(* The broker implements ExecutionSlots. *)
EXTENDS Broker

\* An execution runs as long as a workload process lives; before that it waits
\* at the launch gate.
SlotState(e) ==
    IF e.workload THEN "running"
    ELSE IF e.init \in {"none", "gated"} THEN "idle" ELSE "over"

Slots == INSTANCE ExecutionSlots WITH
    Executions <- Conn,
    Keys <- Key,
    state <- [c \in Conn |-> SlotState(exec[c])],
    slots <- [c \in Conn |-> IF exec[c].workload THEN exec[c].slot ELSE {}],
    reported <- [c \in Conn |-> reply[c] = "exited"]

\* Every behaviour of the event loop, with its supervisors, failures and
\* restarts, is one of the abstract slot allocator.
ImplementsSlots == Slots!Spec
============================================================================
