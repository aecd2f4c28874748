---------------------------- MODULE PaseoService ----------------------------
(***************************************************************************)
(* service.py run, with a sandbox policy: the service owns one supervised  *)
(* namespace in which a helper loads SSH keys, answers with the mounts,    *)
(* waits for a command on its standard input and becomes the Paseo daemon. *)
(* Shepherd, or the user, may start a second service at any time; signals  *)
(* come at any statement.  The directory of a namespace holds its records  *)
(* (module Records), its SSH sockets and its temporary files.              *)
(***************************************************************************)
EXTENDS Naturals, FiniteSets

CONSTANTS
    Service,    \* processes that run "paseo-service run" at the same time
    Dirs,       \* bound: directory names
    MaxSignals, \* bound: SIGTERM and SIGINT
    MaxFaults   \* bound: SIGKILL, failing preparations, time limits at the start

ASSUME ServiceBounds == Dirs \in Nat /\ MaxSignals \in Nat /\ MaxFaults \in Nat

Dir == 1..Dirs

VARIABLES
    pc,         \* where each service is
    lock,       \* who holds the lock of the state directory: at most one
    mine,       \* the directory that a service owns, in a set
    process,    \* Popen has returned
    broken,     \* the command did not get through
    todo,       \* directories that a starting service has still to look at
    gone,       \* the directory that it is about to remove, in a set
    exists,     \* directories that exist
    recorded,   \* those with namespace.stat
    stdin,      \* of the helper: "open", "command" or "closed"
    sup,        \* the supervisor of a directory
    init,       \* its namespace: what the helper in it does
    signals, faults

service == <<pc, lock, mine, process, broken, todo, gone>>
space == <<exists, recorded, stdin, sup, init>>
bounds == <<signals, faults>>
vars == <<service, space, bounds>>

Starting == {"probe", "policy", "lock", "sweep", "sweepRemove", "mkdir", "handlers"}
Guarded == {"popen", "prepare", "command", "stream"}
Finally == {"restore", "terminate", "reap", "close", "clean", "cleanRemove"}

TypeOK ==
    /\ pc \in [Service -> {"off"} \cup Starting \cup Guarded \cup Finally]
    /\ lock \subseteq Service
    /\ mine \in [Service -> SUBSET Dir]
    /\ process \subseteq Service /\ broken \subseteq Service
    /\ todo \in [Service -> SUBSET Dir] /\ gone \in [Service -> SUBSET Dir]
    /\ exists \subseteq Dir /\ recorded \subseteq exists
    /\ stdin \in [Dir -> {"open", "command", "closed"}]
    /\ sup \in [Dir -> {"none", "setup", "ready", "up", "dead"}]
    /\ init \in [Dir -> {"none", "gated", "prepare", "answered", "daemon", "dead"}]
    /\ signals \in 0..MaxSignals /\ faults \in 0..MaxFaults

Init ==
    /\ pc = [s \in Service |-> "off"] /\ lock = {}
    /\ mine = [s \in Service |-> {}]
    /\ process = {} /\ broken = {}
    /\ todo = [s \in Service |-> {}] /\ gone = [s \in Service |-> {}]
    /\ exists = {} /\ recorded = {}
    /\ stdin = [d \in Dir |-> "closed"]
    /\ sup = [d \in Dir |-> "none"] /\ init = [d \in Dir |-> "none"]
    /\ signals = 0 /\ faults = 0

Fault == faults < MaxFaults /\ faults' = faults + 1 /\ UNCHANGED signals

----------------------------------------------------------------------------
(* The service.                                                            *)

At(s, stage) == pc[s] = stage
Go(s, stage) == pc' = [pc EXCEPT ![s] = stage]

\* The process ends: with it go its lock, its pipes and its pidfd.
Leave(s) ==
    /\ Go(s, "off") /\ lock' = lock \ {s}
    /\ mine' = [mine EXCEPT ![s] = {}]
    /\ process' = process \ {s} /\ broken' = broken \ {s}
    /\ todo' = [todo EXCEPT ![s] = {}] /\ gone' = [gone EXCEPT ![s] = {}]
    /\ stdin' = [d \in Dir |-> IF d \in mine[s] /\ stdin[d] = "open" THEN "closed" ELSE stdin[d]]
    /\ UNCHANGED <<sup, init>>

Exit(s) == Leave(s) /\ UNCHANGED <<exists, recorded>>

Start(s) ==
    /\ At(s, "off") /\ Go(s, "probe")
    /\ UNCHANGED <<lock, mine, process, broken, todo, gone, space, bounds>>

\* The broker answers within a minute, or the service gives up.
Probe(s) ==
    /\ At(s, "probe")
    /\ \/ Go(s, "policy") /\ UNCHANGED <<lock, mine, process, broken, todo, gone, space, bounds>>
       \/ Exit(s) /\ Fault

\* SOPS delivers within ten seconds and nothing conflicts, or the service gives up.
Policy(s) ==
    /\ At(s, "policy")
    /\ \/ Go(s, "lock") /\ UNCHANGED <<lock, mine, process, broken, todo, gone, space, bounds>>
       \/ Exit(s) /\ Fault

\* LOCK_NB: a second service ends.
Lock(s) ==
    /\ At(s, "lock")
    /\ \/ /\ lock = {} /\ lock' = {s}
          /\ Go(s, "sweep") /\ todo' = [todo EXCEPT ![s] = exists]
          /\ UNCHANGED <<mine, process, broken, gone, space, bounds>>
       \/ lock # {} /\ Exit(s) /\ UNCHANGED bounds

\* Mutant: no record means that the namespace has not started yet.
ExitedRecorded(d) == d \in recorded /\ init[d] \in {"none", "dead"}

\* What namespace_has_exited answers: see module Records.
Exited(d) == d \notin recorded \/ init[d] \in {"none", "dead"}

\* Mutant: only the supervisor is looked at.
SweepSupervisors(s) ==
    /\ At(s, "sweep")
    /\ \/ /\ todo[s] = {} /\ Go(s, "mkdir")
          /\ UNCHANGED <<lock, mine, process, broken, todo, gone, space, bounds>>
       \/ \E d \in todo[s] :
             /\ sup[d] = "dead" \/ Exited(d)
             /\ Go(s, "sweepRemove")
             /\ todo' = [todo EXCEPT ![s] = @ \ {d}] /\ gone' = [gone EXCEPT ![s] = {d}]
             /\ UNCHANGED <<lock, mine, process, broken, space, bounds>>
       \/ (\E d \in todo[s] : ~Exited(d)) /\ Exit(s) /\ UNCHANGED bounds

\* wait_for_old_execution_and_remove_directory for each directory that it found;
\* one that is still used ends the service after ten seconds.
Sweep(s) ==
    /\ At(s, "sweep")
    /\ \/ /\ todo[s] = {} /\ Go(s, "mkdir")
          /\ UNCHANGED <<lock, mine, process, broken, todo, gone, space, bounds>>
       \/ \E d \in todo[s] :
             /\ Exited(d) /\ Go(s, "sweepRemove")
             /\ todo' = [todo EXCEPT ![s] = @ \ {d}] /\ gone' = [gone EXCEPT ![s] = {d}]
             /\ UNCHANGED <<lock, mine, process, broken, space, bounds>>
       \/ (\E d \in todo[s] : ~Exited(d)) /\ Exit(s) /\ UNCHANGED bounds

Remove(s) == exists' = exists \ gone[s] /\ recorded' = recorded \ gone[s]

SweepRemove(s) ==
    /\ At(s, "sweepRemove") /\ Remove(s)
    /\ Go(s, "sweep") /\ gone' = [gone EXCEPT ![s] = {}]
    /\ UNCHANGED <<lock, mine, process, broken, todo, stdin, sup, init, bounds>>

\* mkdtemp, with a name that nothing uses.
Mkdir(s) ==
    /\ At(s, "mkdir") /\ Go(s, "handlers")
    /\ \E d \in Dir \ exists :
          /\ sup[d] \in {"none", "dead"} /\ init[d] \in {"none", "dead"}
          /\ exists' = exists \cup {d} /\ mine' = [mine EXCEPT ![s] = {d}]
          /\ sup' = [sup EXCEPT ![d] = "none"] /\ init' = [init EXCEPT ![d] = "none"]
          /\ stdin' = [stdin EXCEPT ![d] = "closed"]
    /\ UNCHANGED <<lock, process, broken, todo, gone, recorded, bounds>>

InstallHandlers(s) ==
    /\ At(s, "handlers") /\ Go(s, "popen")
    /\ UNCHANGED <<lock, mine, process, broken, todo, gone, space, bounds>>

Spawn(s, input) ==
    /\ sup' = [d \in Dir |-> IF d \in mine[s] THEN "setup" ELSE sup[d]]
    /\ init' = [d \in Dir |-> IF d \in mine[s] THEN "gated" ELSE init[d]]
    /\ stdin' = [d \in Dir |-> IF d \in mine[s] THEN input ELSE stdin[d]]
    /\ UNCHANGED <<exists, recorded>>

Popen(s) ==
    /\ At(s, "popen") /\ Go(s, "prepare") /\ process' = process \cup {s}
    /\ Spawn(s, "open")
    /\ UNCHANGED <<lock, mine, broken, todo, gone, bounds>>

\* The helper has answered; or it has ended, or sent too much; or two minutes
\* have passed.
Prepare(s) ==
    /\ At(s, "prepare")
    /\ \/ (\E d \in mine[s] : init[d] = "answered") /\ Go(s, "command")
       \/ Go(s, "restore")
    /\ UNCHANGED <<lock, mine, process, broken, todo, gone, space, bounds>>

\* Both ends that the namespace inherited, of init and of the supervisor.
Closed(d) == init[d] = "dead" /\ sup[d] = "dead"

\* Once nobody holds the other end the pipe is broken, and what is left in the
\* buffer will break stdin.close() as well.
Command(s) ==
    /\ At(s, "command")
    /\ \/ /\ \E d \in mine[s] : ~Closed(d)
          /\ Go(s, "stream") /\ UNCHANGED broken
          /\ stdin' = [d \in Dir |-> IF d \in mine[s] THEN "command" ELSE stdin[d]]
       \/ /\ \E d \in mine[s] : Closed(d)
          /\ Go(s, "restore") /\ broken' = broken \cup {s} /\ UNCHANGED stdin
    /\ UNCHANGED <<lock, mine, process, todo, gone, exists, recorded, sup, init, bounds>>

\* Output is passed on until nobody can write any more; wait() follows at once.
Stream(s) ==
    /\ At(s, "stream") /\ (\E d \in mine[s] : Closed(d)) /\ Go(s, "restore")
    /\ UNCHANGED <<lock, mine, process, broken, todo, gone, space, bounds>>

\* finally: the handlers first, and then the process, if Popen returned one.
Restore(s) ==
    /\ At(s, "restore") /\ Go(s, IF s \in process THEN "terminate" ELSE "close")
    /\ UNCHANGED <<lock, mine, process, broken, todo, gone, space, bounds>>

\* SIGTERM: what is in the namespace may end, or not (Terminated, DaemonEnds).
Terminate(s) ==
    /\ At(s, "terminate") /\ Go(s, "reap")
    /\ UNCHANGED <<lock, mine, process, broken, todo, gone, space, bounds>>

\* Mutant: wait() has no timeout.
ReapForever(s) ==
    /\ At(s, "reap") /\ Go(s, "close") /\ \E d \in mine[s] : sup[d] = "dead"
    /\ UNCHANGED <<lock, mine, process, broken, todo, gone, space, bounds>>

\* wait(timeout=10), then SIGKILL.
Reap(s) ==
    /\ At(s, "reap") /\ Go(s, "close")
    /\ sup' = [d \in Dir |-> IF d \in mine[s] THEN "dead" ELSE sup[d]]
    /\ UNCHANGED <<lock, mine, process, broken, todo, gone, exists, recorded, stdin, init, bounds>>

\* A broken pipe raises once more, and the rest of the clause is not run.
Close(s) ==
    /\ At(s, "close")
    /\ \/ /\ s \notin broken /\ Go(s, "clean")
          /\ stdin' = [d \in Dir |-> IF d \in mine[s] /\ stdin[d] = "open" THEN "closed" ELSE stdin[d]]
          /\ UNCHANGED <<lock, mine, process, broken, todo, gone, exists, recorded, sup, init>>
       \/ s \in broken /\ Exit(s)
    /\ UNCHANGED bounds

\* Ten seconds for the rest of the namespace.
Clean(s) ==
    /\ At(s, "clean")
    /\ \/ /\ \A d \in mine[s] : Exited(d)
          /\ Go(s, "cleanRemove") /\ gone' = [gone EXCEPT ![s] = mine[s]]
          /\ UNCHANGED <<lock, mine, process, broken, todo, space>>
       \/ (\E d \in mine[s] : ~Exited(d)) /\ Exit(s)
    /\ UNCHANGED bounds

CleanRemove(s) ==
    At(s, "cleanRemove") /\ Remove(s) /\ Leave(s) /\ UNCHANGED bounds

----------------------------------------------------------------------------
(* Signals, and SIGKILL.                                                   *)

\* The default action outside of the handlers, and an exception that nothing
\* catches while they are being installed or removed.
SignalEnds(s) ==
    /\ pc[s] \in Starting \cup Finally /\ Exit(s)
    /\ signals < MaxSignals /\ signals' = signals + 1 /\ UNCHANGED faults

\* InterruptedError inside try.
SignalRaises(s) ==
    /\ pc[s] \in Guarded /\ Go(s, "restore")
    /\ signals < MaxSignals /\ signals' = signals + 1
    /\ UNCHANGED <<lock, mine, process, broken, todo, gone, space, faults>>

\* InterruptedError inside Popen, after fork: the pipes are closed, and nobody
\* remembers the child.
SignalInPopen(s) ==
    /\ At(s, "popen") /\ Go(s, "restore") /\ Spawn(s, "closed")
    /\ signals < MaxSignals /\ signals' = signals + 1
    /\ UNCHANGED <<lock, mine, process, broken, todo, gone, faults>>

KillService(s) == pc[s] # "off" /\ Exit(s) /\ Fault

----------------------------------------------------------------------------
(* The namespace of a directory: agent-supervisor.c and paseo-sandbox.scm. *)

Owned(d) == \E s \in Service : d \in mine[s]

\* Mutant: the record is created wherever the path leads.
RecordAnywhere(d) ==
    /\ sup[d] = "setup"
    /\ sup' = [sup EXCEPT ![d] = "ready"] /\ recorded' = recorded \cup {d}
    /\ UNCHANGED <<service, exists, stdin, init, bounds>>

\* namespace.stat cannot be created in a directory that has been removed.
Record(d) ==
    /\ sup[d] = "setup"
    /\ IF d \in exists
       THEN sup' = [sup EXCEPT ![d] = "ready"] /\ recorded' = recorded \cup {d}
       ELSE sup' = [sup EXCEPT ![d] = "dead"] /\ UNCHANGED recorded
    /\ UNCHANGED <<service, exists, stdin, init, bounds>>

Release(d) ==
    /\ sup[d] = "ready" /\ init[d] = "gated"
    /\ sup' = [sup EXCEPT ![d] = "up"] /\ init' = [init EXCEPT ![d] = "prepare"]
    /\ UNCHANGED <<service, exists, recorded, stdin, bounds>>

Helper(d, from, to) ==
    /\ init[d] = from /\ init' = [init EXCEPT ![d] = to]
    /\ UNCHANGED <<service, exists, recorded, stdin, sup>>

\* The keys are unlocked, which may take for ever.
Answer(d) == Helper(d, "prepare", "answered") /\ UNCHANGED bounds
PrepareFails(d) == Helper(d, "prepare", "dead") /\ Fault

\* Mutant: end of file counts as a command.
BecomeDaemonAnyway(d) ==
    /\ stdin[d] # "open" /\ Helper(d, "answered", "daemon") /\ UNCHANGED bounds

BecomeDaemon(d) ==
    /\ stdin[d] = "command" /\ Helper(d, "answered", "daemon") /\ UNCHANGED bounds

\* "Paseo launcher disconnected"
Disconnect(d) ==
    /\ stdin[d] = "closed" /\ Helper(d, "answered", "dead") /\ UNCHANGED bounds

DaemonEnds(d) == Helper(d, "daemon", "dead") /\ UNCHANGED bounds

\* The supervisor hands SIGTERM on.
Terminated(d) ==
    /\ sup[d] = "up" /\ \E s \in Service : d \in mine[s] /\ At(s, "reap")
    /\ \E at \in {"prepare", "answered"} : Helper(d, at, "dead")
    /\ UNCHANGED bounds

\* waitpid returns to the supervisor.
SupervisorEnds(d) ==
    /\ sup[d] \in {"ready", "up"} /\ init[d] = "dead" /\ sup' = [sup EXCEPT ![d] = "dead"]
    /\ UNCHANGED <<service, exists, recorded, stdin, init, bounds>>

\* The parent-death links, from the service to the namespace.
SupervisorFollows(d) ==
    /\ ~Owned(d) /\ sup[d] \in {"setup", "ready", "up"} /\ sup' = [sup EXCEPT ![d] = "dead"]
    /\ UNCHANGED <<service, exists, recorded, stdin, init, bounds>>

NamespaceFollows(d) ==
    /\ sup[d] = "dead" /\ init[d] \notin {"none", "dead"} /\ init' = [init EXCEPT ![d] = "dead"]
    /\ UNCHANGED <<service, exists, recorded, stdin, sup, bounds>>

KillSupervisor(d) ==
    /\ sup[d] \in {"setup", "ready", "up"} /\ sup' = [sup EXCEPT ![d] = "dead"]
    /\ Fault /\ UNCHANGED <<service, exists, recorded, stdin, init>>

----------------------------------------------------------------------------
Step(s) ==
    \/ Probe(s) \/ Policy(s) \/ Lock(s) \/ Sweep(s) \/ SweepRemove(s) \/ Mkdir(s)
    \/ InstallHandlers(s) \/ Popen(s) \/ Prepare(s) \/ Command(s) \/ Stream(s)
    \/ Restore(s) \/ Terminate(s) \/ Reap(s) \/ Close(s) \/ Clean(s) \/ CleanRemove(s)

Kernel(d) == SupervisorEnds(d) \/ SupervisorFollows(d) \/ NamespaceFollows(d)

Namespace(d) ==
    \/ Record(d) \/ Release(d) \/ Answer(d) \/ PrepareFails(d) \/ BecomeDaemon(d)
    \/ Disconnect(d) \/ DaemonEnds(d) \/ Terminated(d) \/ KillSupervisor(d)

Next ==
    \/ \E s \in Service :
          Start(s) \/ Step(s) \/ SignalEnds(s) \/ SignalRaises(s) \/ SignalInPopen(s) \/ KillService(s)
    \/ \E d \in Dir : Kernel(d) \/ Namespace(d)

Spec == Init /\ [][Next]_vars

\* Services run on, and the kernel delivers what is due.  Nobody has to start a
\* service, no helper has to answer and no daemon has to end.
Fairness ==
    /\ \A s \in Service : WF_vars(Step(s))
    /\ \A d \in Dir : WF_vars(Kernel(d))

FairSpec == Spec /\ Fairness

----------------------------------------------------------------------------
(* Properties.                                                             *)

\* "Own one namespace": however services are killed, interrupted and started
\* again, two daemons never share ~/.paseo.
OneDaemon == \A d, e \in Dir : init[d] = "daemon" /\ init[e] = "daemon" => d = e

\* "Never remove live sockets": the directory of a daemon stays, with its record.
DaemonKept == \A d \in Dir : init[d] = "daemon" => d \in recorded

\* What is on record of each directory, and whether its daemon runs.
HomeOf(d) ==
    IF init[d] = "daemon" THEN "daemon"
    ELSE IF d \notin recorded THEN "absent"
    ELSE IF init[d] = "dead" THEN "ended" ELSE "idle"

Home == INSTANCE DaemonHome WITH home <- [d \in Dir |-> HomeOf(d)]

\* However services are killed, interrupted and started again, what they do to
\* ~/.paseo is what one of them would do: a namespace is on record before its
\* daemon begins, stays so until it has ended, and is the only one on record.
ImplementsHome == Home!Spec

\* Neither the start nor the end of a service hangs: it streams, or it is off.
Settles == \A s \in Service : pc[s] \notin {"off", "stream"} ~> pc[s] \in {"off", "stream"}

\* What a service leaves behind is removed, if services are started again.
Cleaned ==
    []<><<\E s \in Service : Start(s)>>_vars =>
        \A d \in Dir : (d \in exists /\ ~Owned(d)) ~> (d \notin exists \/ Owned(d))
=============================================================================
