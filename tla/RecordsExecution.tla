-------------------------- MODULE RecordsExecution --------------------------
(***************************************************************************)
(* What namespace_has_exited answers from the records on disk is what      *)
(* module Execution lets the broker find out in one step.                  *)
(***************************************************************************)
EXTENDS Records

InitLives == init \in {"gated", "open", "move", "watch"}

\* The execution as module Execution has it; "recorded" asks for the identity
\* of the init that this execution has, not for a file of that name.
Evidence ==
    [slot |-> {}, host |-> host,
     helper |-> IF helper \in {"none", "dead"} THEN helper ELSE "up",
     init |-> IF InitLives THEN IF init = "gated" THEN "gated" ELSE "up"
              ELSE IF init = "none" THEN "none" ELSE "dead",
     recorded |-> identity = me, workload |-> workload # "none",
     group |-> group, killed |-> workload = "killed", dir |-> exists]

Seen == INSTANCE Execution WITH
    MaxConn <- 1, Key <- {}, Faults <- {"cgroup"}, exec <- [c \in {1} |-> Evidence]

AskingInit == {"lookBoot", "lookIdentity", "lookPidfd", "lookStat", "lookSelect"}
AskingGroup == {"lookGroup", "lookEvents", "lookRmdir"}

\* The process that a look has a pidfd of has been reaped.
Vanished == broker = "lookStat" /\ proc[fd.pid] # fd.start

\* What a step of a look may conclude, and when it may put its answer off.
TrueAnswer ==
    /\ broker \in AskingInit =>
          /\ broker' = "lookGroup" => Seen!SupervisorExited(Evidence)
          /\ broker' = "again" => ~Seen!SupervisorExited(Evidence) \/ Stuck
    /\ broker \in AskingGroup =>
          /\ broker' = "scan" => ~group' /\ (host => workload = "none")
          /\ broker' = "again" => (group /\ workload # "none") \/ Stuck \/ faults' # faults
    /\ broker \in AskingInit \cup AskingGroup /\ broker' = "down" =>
          Stuck \/ faults' # faults \/ boot' # boot \/ Vanished

\* Process numbers that are reused, records of an earlier boot and files that
\* are half removed do not mislead a look: it takes the init for dead only if
\* SupervisorExited holds at that moment, and for alive only if it does not;
\* it is done only with a group that is gone, and puts the answer off only if
\* something still runs or a command failed.  The exceptions are in Stuck; a
\* broker that gives no answer was killed, or the process vanished under its eyes.
AnswersTrue == [][TrueAnswer]_vars
=============================================================================
