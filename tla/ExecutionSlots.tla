--------------------------- MODULE ExecutionSlots ---------------------------
(***************************************************************************)
(* What the broker promises about provider executions, without clients,    *)
(* supervisors, cgroups or restarts: an execution holds its slots for as   *)
(* long as any of its processes lives, no slot has two holders, and an     *)
(* execution is reported once, never while it runs.                        *)
(***************************************************************************)
CONSTANTS Executions, Keys

VARIABLES
    state,     \* "idle" (not started), "running" or "over"
    slots,     \* the slots that an execution holds
    reported   \* its end was reported

vars == <<state, slots, reported>>

TypeOK ==
    /\ state \in [Executions -> {"idle", "running", "over"}]
    /\ slots \in [Executions -> SUBSET Keys]
    /\ reported \in [Executions -> BOOLEAN]

Init ==
    /\ state = [e \in Executions |-> "idle"]
    /\ slots = [e \in Executions |-> {}]
    /\ reported = [e \in Executions |-> FALSE]

\* The slots must be free, and a reported execution never starts.
Begin(e, s) ==
    /\ state[e] = "idle" /\ ~reported[e]
    /\ \A d \in Executions : slots[d] \cap s = {}
    /\ state' = [state EXCEPT ![e] = "running"]
    /\ slots' = [slots EXCEPT ![e] = s]
    /\ UNCHANGED reported

End(e) ==
    /\ state[e] = "running"
    /\ state' = [state EXCEPT ![e] = "over"]
    /\ slots' = [slots EXCEPT ![e] = {}]
    /\ UNCHANGED reported

\* A launch that dies before its workload exists.
Abandon(e) ==
    /\ state[e] = "idle"
    /\ state' = [state EXCEPT ![e] = "over"]
    /\ UNCHANGED <<slots, reported>>

Report(e) ==
    /\ state[e] # "running" /\ ~reported[e]
    /\ reported' = [reported EXCEPT ![e] = TRUE]
    /\ UNCHANGED <<state, slots>>

Next ==
    \E e \in Executions :
        \/ \E s \in SUBSET Keys : Begin(e, s)
        \/ End(e) \/ Abandon(e) \/ Report(e)

Spec == Init /\ [][Next]_vars

----------------------------------------------------------------------------
(* What follows.                                                           *)

\* Two executions never share a slot, slots are held by what runs only, and
\* nothing runs of which the end was reported.
Exclusive ==
    /\ \A d, e \in Executions : d # e => slots[d] \cap slots[e] = {}
    /\ \A e \in Executions : slots[e] # {} => state[e] = "running"
    /\ \A e \in Executions : reported[e] => state[e] # "running"

\* No execution begins twice, and a report is not taken back.
Final ==
    [][\A e \in Executions :
          /\ state[e] = "over" => state'[e] = "over"
          /\ state[e] = "running" => state'[e] # "idle"
          /\ reported[e] => reported'[e]]_vars
=============================================================================
