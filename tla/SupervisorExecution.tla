------------------------ MODULE SupervisorExecution ------------------------
(***************************************************************************)
(* agent-supervisor.c implements the process tree that module Execution    *)
(* gives to the broker: what the broker sees of one execution, from Popen  *)
(* to the end of init and of the helper.                                   *)
(***************************************************************************)
EXTENDS Supervisor

\* A namespace counts as occupied for as long as its init lives.
Workload ==
    \/ init = "prepare" \/ procs # {}
    \/ ~host /\ init = "loop"

ProcessTree ==
    [slot |-> {}, host |-> host,
     helper |-> IF outer = "dead" THEN "dead" ELSE "up",
     init |-> CASE init \in {"none", "gated"} -> "gated"
                [] init \in {"prepare", "loop"} -> "up"
                [] init = "dead" -> "dead",
     recorded |-> recorded, workload |-> Workload,
     group |-> host, killed |-> killed, dir |-> TRUE]

Life == INSTANCE Execution WITH
    MaxConn <- 1, Key <- {}, Faults <- {"guardian", "helper"},
    exec <- [c \in {1} |-> ProcessTree]

\* Every statement of the supervisor is one step of the process tree, or none.
ImplementsExecution ==
    /\ ProcessTree = Life!NewExecution({}, host)
    /\ [][Life!ExecutionStep(1)]_ProcessTree
=============================================================================
