---------------------------- MODULE RuntimeLease ----------------------------
(***************************************************************************)
(* What the manager of a shared Podman runtime promises to its sessions:   *)
(* they enter an engine that is up, and it is replaced or removed only     *)
(* while nobody uses it.  It may fail by itself.  A manager that is lost   *)
(* leaves orders behind; they are given while nobody uses the engine, and  *)
(* carried out at any time.                                                *)
(***************************************************************************)
EXTENDS Naturals

CONSTANT Session

VARIABLES
    engine,     \* "down", "up", there but of no use ("failed"), or "taken" by
                \* an order that came late
    users,      \* the sessions that rely on it
    orders      \* how many removals and starts of lost managers are under way

vars == <<engine, users, orders>>

Order == {"rm", "run"}

Init == engine = "down" /\ users = {} /\ orders = [c \in Order |-> 0]

Enter(s) ==
    /\ engine = "up" /\ s \notin users
    /\ users' = users \cup {s}
    /\ UNCHANGED <<engine, orders>>

Leave(s) ==
    /\ users' = users \ {s}
    /\ UNCHANGED <<engine, orders>>

Manage ==
    /\ users = {}
    /\ engine' \in {"down", "failed"}
    /\ UNCHANGED <<users, orders>>

Lose(c) ==
    /\ users = {}
    /\ orders' = [orders EXCEPT ![c] = @ + 1]
    /\ UNCHANGED <<engine, users>>

Late(c) ==
    /\ orders[c] > 0
    /\ orders' = [orders EXCEPT ![c] = @ - 1]
    /\ \/ c = "rm" /\ engine' = IF engine = "down" THEN "down" ELSE "taken"
       \/ c = "run" /\ engine' = IF engine \in {"down", "taken"} THEN "failed" ELSE engine
    /\ UNCHANGED users

Answer ==
    /\ engine = "failed"
    /\ engine' = "up"
    /\ UNCHANGED <<users, orders>>

Fail ==
    /\ engine = "up"
    /\ engine' = "failed"
    /\ UNCHANGED <<users, orders>>

Reboot ==
    /\ engine' \in {"down", "failed"}
    /\ users' = {} /\ orders' = [c \in Order |-> 0]

Next ==
    \/ \E s \in Session : Enter(s) \/ Leave(s)
    \/ \E c \in Order : Lose(c) \/ Late(c)
    \/ Manage \/ Answer \/ Fail \/ Reboot

Spec == Init /\ [][Next]_vars
=============================================================================
