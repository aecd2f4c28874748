----------------------------- MODULE DaemonHome -----------------------------
(***************************************************************************)
(* What "paseo-service run" promises about ~/.paseo, whatever happens to   *)
(* the services: there is one namespace at most that could use it, it is   *)
(* on record before its daemon begins, and its directory, with the sockets *)
(* and the temporary files, is removed only when no daemon runs in it and  *)
(* none will.                                                              *)
(***************************************************************************)
CONSTANT Dir    \* names for the directory of a namespace

VARIABLE home   \* what each directory is

Init == home = [d \in Dir |-> "absent"]

Becomes(d, before, after) ==
    home[d] \in before /\ home' = [home EXCEPT ![d] = after]

\* A namespace is put on record, while no other is.
Record(d) ==
    /\ \A e \in Dir : home[e] = "absent"
    /\ Becomes(d, {"absent"}, "idle")

Begin(d) == Becomes(d, {"idle"}, "daemon")

End(d) == Becomes(d, {"idle", "daemon"}, "ended")

\* The directory of a namespace in which no daemon has begun may go before its
\* end: none will begin.
Discard(d) == Becomes(d, {"idle", "ended"}, "absent")

Next == \E d \in Dir : Record(d) \/ Begin(d) \/ End(d) \/ Discard(d)

Spec == Init /\ [][Next]_home

\* One namespace at a time, and so one daemon.
OneHome == \A d, e \in Dir : home[d] # "absent" /\ home[e] # "absent" => d = e
=============================================================================
