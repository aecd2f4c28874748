-------------------------- MODULE BrokerInvariant --------------------------
(***************************************************************************)
(* The inductive invariant of the broker.  None of the safety properties   *)
(* of module Broker is inductive: that two workloads of one key never      *)
(* overlap rests on which clients own processes, on what the launch pass   *)
(* takes for occupied, on what is on disk at each moment of an execution,  *)
(* and on where the broker is.  The conjuncts below say so one by one.     *)
(***************************************************************************)
EXTENDS BrokerSlots

\* One execution: a workload is never ahead of its records, and its init, or
\* for the host tier its cgroup, is there for whoever has to find it.
Tree(e) ==
    /\ e.workload =>
          /\ e.recorded /\ e.dir /\ e.init \in {"up", "dead"}
          /\ IF e.host THEN e.group ELSE e.init = "up"
    /\ e.init = "up" => e.recorded
    /\ e.helper = "up" => e.dir /\ (e.host => e.group)
    /\ e.helper = "none" => e.init = "none"

\* Nothing of the execution is left, in the kernel or on disk.
Finished(e) ==
    /\ ~e.workload /\ e.init # "up" /\ e.helper = "dead"
    /\ ~e.group /\ ~e.dir

\* A connection that was never accepted is no client and has no process.
UnusedConnections ==
    \A c \in Conn : c > accepted => exec[c].helper = "none" /\ c \notin clients

\* A client has a process only after a start request, and a refresh is no
\* start request.  A closed client leaves no job behind.
JobKinds ==
    \A c \in Conn :
        /\ c \notin clients => job[c] = NoJob
        /\ job[c].refresh => job[c].req = NoRequest
        /\ c \in clients /\ HasProcess(c) => job[c].req # NoRequest

\* A pass visits clients only.
PassesOverClients ==
    /\ phase \in {"sweep", "launch", "handle", "finally"}
           => todo \subseteq clients \cup {Listener}
    /\ phase \in {"down", "starting"} => clients = {}

\* Processes belong to clients while the loop serves; afterwards no helper
\* is left, and a starting broker still has to visit every live workload.
Owners ==
    \A c \in Conn :
        /\ phase \in LoopPhase /\ (exec[c].helper = "up" \/ exec[c].workload)
               => c \in clients
        /\ phase \notin LoopPhase => exec[c].helper # "up"
        /\ phase = "starting" /\ exec[c].workload => c \in todo

\* Clients with processes hold disjoint slots, all of them known to the
\* launch pass.
DisjointSlots ==
    /\ \A c, d \in clients :
          c # d /\ HasProcess(c) /\ HasProcess(d)
          => exec[c].slot \cap exec[d].slot = {}
    /\ phase = "launch" =>
          \A c \in clients : HasProcess(c) => exec[c].slot \subseteq active

\* A reported execution is finished, and its client has gone.
Reports ==
    \A c \in Conn :
        reply[c] = "exited" => Finished(exec[c]) /\ c \notin clients

IInv ==
    /\ TypeOK
    /\ \A c \in Conn : Tree(exec[c])
    /\ UnusedConnections
    /\ JobKinds
    /\ PassesOverClients
    /\ Owners
    /\ DisjointSlots
    /\ ReplacementBarrier
    /\ Reports
=============================================================================
