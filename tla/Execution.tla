----------------------------- MODULE Execution -----------------------------
(***************************************************************************)
(* The process tree of one provider execution as the broker sees it:       *)
(* broker -> outer supervisor ("helper") -> namespace init or host guardian*)
(* ("init") -> the workload and all its descendants.  The helper is the    *)
(* child that the broker polls; init is the process whose identity         *)
(* namespace.stat records; "workload" says that descendants are alive.     *)
(* The steps here belong to agent-supervisor.c and to the kernel.  The     *)
(* broker's own steps on the same record are in module Broker.             *)
(***************************************************************************)
EXTENDS Naturals

CONSTANTS
    MaxConn,   \* bound: connections that one behaviour accepts
    Key,       \* <<provider, agent id>> pairs that serialise executions
    Faults     \* which failures may happen, a subset of FaultKinds

FaultKinds == {"guardian", "helper", "cgroup", "ssh-exit", "ssh-start"}

ASSUME ConnAssumption == MaxConn \in Nat
ASSUME FaultAssumption == Faults \subseteq FaultKinds

Conn == 1..MaxConn

VARIABLE exec

(***************************************************************************)
(* slot      the keys it occupies: one, or none for a keyless execution    *)
(* host      host tier (cgroup guardian) instead of a PID namespace        *)
(* recorded  namespace.stat holds init's identity                          *)
(* group     the cgroup of a host execution exists                         *)
(* killed    somebody wrote cgroup.kill                                    *)
(* dir       the execution directory exists in the broker's runtime state  *)
(***************************************************************************)
ExecutionRecord ==
    [slot : SUBSET Key, host : BOOLEAN,
     helper : {"none", "up", "dead"}, init : {"none", "gated", "up", "dead"},
     recorded : BOOLEAN, workload : BOOLEAN,
     group : BOOLEAN, killed : BOOLEAN, dir : BOOLEAN]

NoExecution ==
    [slot |-> {}, host |-> FALSE, helper |-> "none", init |-> "none",
     recorded |-> FALSE, workload |-> FALSE,
     group |-> FALSE, killed |-> FALSE, dir |-> FALSE]

\* What Popen leaves behind: the helper and its gated child, nothing released.
NewExecution(slot, host) ==
    [slot |-> slot, host |-> host, helper |-> "up", init |-> "gated",
     recorded |-> FALSE, workload |-> FALSE,
     group |-> host, killed |-> FALSE, dir |-> TRUE]

ExecutionInit == exec = [c \in Conn |-> NoExecution]

----------------------------------------------------------------------------
(* The supervisor and the kernel.                                          *)

\* The helper writes namespace.stat while init waits at the launch gate.
RecordIdentity(c) ==
    /\ exec[c].helper = "up" /\ exec[c].init = "gated" /\ ~exec[c].recorded
    /\ exec' = [exec EXCEPT ![c].recorded = TRUE]

\* The helper exits during its set-up: an error, or SIGTERM before its handlers
\* are installed.
SetupFails(c) ==
    /\ exec[c].helper = "up" /\ exec[c].init = "gated"
    /\ exec' = [exec EXCEPT ![c].helper = "dead"]

\* Mutant: the gate opens before the identity is on disk.
ReleaseUnrecordedInit(c) ==
    /\ exec[c].helper = "up" /\ exec[c].init = "gated"
    /\ exec' = [exec EXCEPT ![c].init = "up", ![c].workload = TRUE]

\* Only with the record written does it open the gate: init starts the workload.
ReleaseInit(c) ==
    /\ exec[c].helper = "up" /\ exec[c].init = "gated" /\ exec[c].recorded
    /\ exec' = [exec EXCEPT ![c].init = "up", ![c].workload = TRUE]

\* PID 1 of a namespace exits when its leader does or when the two seconds of
\* grace after SIGTERM end; the kernel kills the whole namespace with it.
NamespaceFinishes(c) ==
    /\ ~exec[c].host /\ exec[c].init = "up"
    /\ exec' = [exec EXCEPT ![c].init = "dead", ![c].workload = FALSE]

\* A gated init sees its gate close, a namespace init gets PDEATHSIG; the host
\* guardian survives its helper and cleans up itself.
OrphanedInitDies(c) ==
    /\ exec[c].helper = "dead"
    /\ \/ exec[c].init = "gated"
       \/ exec[c].init = "up" /\ ~exec[c].host
    /\ exec' = [exec EXCEPT ![c].init = "dead", ![c].workload = FALSE]

\* The guardian kills the group once the leader has finished, the grace has
\* ended or its owner has died.
GuardianKillsGroup(c) ==
    /\ exec[c].host /\ exec[c].init = "up" /\ ~exec[c].killed
    /\ exec' = [exec EXCEPT ![c].killed = TRUE]

\* The last process of a host execution exits, by itself or killed.
GroupEmpties(c) ==
    /\ exec[c].host /\ exec[c].workload
    /\ exec' = [exec EXCEPT ![c].workload = FALSE]

\* The guardian reports a result only from an empty group ...
GuardianExits(c) ==
    /\ exec[c].host /\ exec[c].init = "up"
    /\ exec[c].killed /\ ~exec[c].workload
    /\ exec' = [exec EXCEPT ![c].init = "dead"]

\* ... but it may be killed, give up after ten seconds, or fail before it has
\* started a workload at all.
GuardianFails(c) ==
    /\ "guardian" \in Faults
    /\ exec[c].host /\ exec[c].init = "up"
    /\ \E w \in {FALSE, exec[c].workload} :
          exec' = [exec EXCEPT ![c].init = "dead", ![c].workload = w]

\* The helper returns from waitpid(init).
HelperExits(c) ==
    /\ exec[c].helper = "up" /\ exec[c].init = "dead"
    /\ exec' = [exec EXCEPT ![c].helper = "dead"]

\* Somebody kills the helper.
HelperKilled(c) ==
    /\ "helper" \in Faults
    /\ exec[c].helper = "up"
    /\ exec' = [exec EXCEPT ![c].helper = "dead"]

ExecutionStep(c) ==
    \/ RecordIdentity(c) \/ SetupFails(c) \/ ReleaseInit(c)
    \/ NamespaceFinishes(c) \/ OrphanedInitDies(c)
    \/ GuardianKillsGroup(c) \/ GroupEmpties(c)
    \/ GuardianExits(c) \/ GuardianFails(c)
    \/ HelperExits(c) \/ HelperKilled(c)

\* The steps that nothing but a kernel bug can prevent for ever.
KernelStep(c) ==
    \/ OrphanedInitDies(c)
    \/ exec[c].helper = "dead" /\ GuardianKillsGroup(c)
    \/ exec[c].killed /\ GroupEmpties(c)
    \/ GuardianExits(c)
    \/ HelperExits(c)

----------------------------------------------------------------------------
(* What the broker can find out, and do, about an execution.               *)

\* Mutant: the helper's death counts as the teardown of its namespace.
SupervisorExitedWithHelper(e) == e.helper = "dead"

\* No record means that the gate cannot have released a workload.
SupervisorExited(e) == ~e.recorded \/ e.init = "dead"

\* Mutant: a populated group is only looked at, not killed.
NamespaceExitedWithoutKill(e) ==
    IF ~SupervisorExited(e) \/ (e.group /\ e.workload)
    THEN {[done |-> FALSE, exec |-> e]}
    ELSE {[done |-> TRUE, exec |-> [e EXCEPT !.group = FALSE]]}

\* The outcomes of one namespace_has_exited: the answer and the record after
\* it.  For a host execution the call itself kills and removes the cgroup.
NamespaceExited(e) ==
    IF ~SupervisorExited(e)
    THEN {[done |-> FALSE, exec |-> e]}
    ELSE IF ~e.group
    THEN {[done |-> TRUE, exec |-> e]}
    ELSE {IF e.workload
          THEN [done |-> FALSE, exec |-> [e EXCEPT !.killed = TRUE]]
          ELSE [done |-> TRUE, exec |-> [e EXCEPT !.killed = TRUE, !.group = FALSE]]}
         \cup {[done |-> FALSE, exec |-> e] : f \in Faults \cap {"cgroup"}}

\* SIGKILL to a helper, from the broker or from its parent-death link.
KillHelper(e) == IF e.helper = "up" THEN [e EXCEPT !.helper = "dead"] ELSE e

\* Removing the directory of an execution whose teardown is complete.
RemoveDirectory(e) == [e EXCEPT !.dir = FALSE]
============================================================================
