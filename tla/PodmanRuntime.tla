--------------------------- MODULE PodmanRuntime ----------------------------
(***************************************************************************)
(* One shared project runtime of contained_podman.py: sessions attach to a *)
(* container that they start, repair and share, podman-stop and the idle   *)
(* collection of the host service remove it.  The three kinds of processes *)
(* meet in two files that they flock, startup.lock and sessions.lock, and  *)
(* in ready.json; any of them may be killed between any two steps.  Their  *)
(* commands are carried out by the outer Podman service: a process that is *)
(* killed frees its locks, and leaves what it has asked for under way.     *)
(***************************************************************************)
EXTENDS Naturals

CONSTANTS
    Session,    \* launchers, each with one agent
    Stopper,    \* contained-agent podman-stop
    Collector,  \* the host service, which stops idle runtimes
    Nobody,
    Faults,     \* the failures that may happen
    MaxFaults   \* bound: how many do

Manager == Session \cup {Stopper, Collector}

ASSUME ProcessAssumption ==
    /\ Stopper \notin Session /\ Collector \notin Session
    /\ Stopper # Collector /\ Nobody \notin Manager
ASSUME FaultAssumption ==
    /\ Faults \subseteq {"kill", "interrupt", "outer", "timeout", "container", "reboot"}
    /\ MaxFaults \in Nat

VARIABLES
    pc,         \* where each process is
    startup,    \* who holds startup.lock
    lease,      \* sessions.lock: "shared", "exclusive" or "none"
    container,  \* the outer container: "absent", "starting", "up", "hung" or
                \* "broken"
    pending,    \* commands under way whose client is gone
    late,       \* for the properties: one of them has taken the container
    ready,      \* ready.json: "absent", of this boot ("here") or "old"
    fresh,      \* which of ready.json, last-detach are younger than the grace
    agent,      \* the agent of each session; an "orphan" has outlived it
    tasks,      \* detached tasks run in the runtime
    faults      \* failures so far

vars == <<pc, startup, lease, container, pending, late, ready, fresh, agent,
          tasks, faults>>
engineState == <<container, late, ready, fresh, tasks>>

\* The commands of the outer engine that change the container.
Command == {"rm", "run"}

\* attach() holds startup.lock from "probe" to "share"; what follows needs a
\* lease only.
Attaching == {"probe", "claim", "clean", "unmark", "boot", "await", "mark",
              "undo", "unmarkFailed", "share"}
Attached == {"spawn", "serve", "leave", "release"}
\* An exclusive lease is held.
Mutating == {"judge"} \cup (Attaching \ {"probe", "claim", "share"})
Stage == {"idle", "queue", "judge"} \cup Attaching \cup Attached

TypeOK ==
    /\ pc \in [Manager -> Stage]
    /\ startup \in Manager \cup {Nobody}
    /\ lease \in [Manager -> {"none", "shared", "exclusive"}]
    /\ container \in {"absent", "starting", "up", "hung", "broken"}
    /\ pending \in [Command -> Nat] /\ late \in BOOLEAN
    /\ ready \in {"absent", "here", "old"}
    /\ fresh \subseteq {"ready", "detach"}
    /\ agent \in [Session -> {"none", "child", "orphan"}]
    /\ tasks \in BOOLEAN
    /\ faults \in 0..MaxFaults

StartupHeld ==
    \A p \in Manager : startup = p <=> pc[p] \in Attaching \cup {"judge"}

LeaseHeld ==
    \A p \in Manager :
        /\ lease[p] = "shared" <=> pc[p] \in Attached
        /\ pc[p] \in Mutating => lease[p] = "exclusive"
        /\ lease[p] = "exclusive" => pc[p] \in Mutating \cup {"share"}

LeaseAlone ==
    \A p, q \in Manager : lease[p] = "exclusive" /\ p # q => lease[q] = "none"

StagesHeld ==
    /\ \A s \in Session : (agent[s] = "child" => pc[s] = "serve") /\ pc[s] # "judge"
    /\ pc[Collector] \in {"idle", "judge", "clean", "unmark"}
    /\ pc[Collector] = "clean" => fresh = {}

\* The discipline of the two locks: startup.lock is held exactly from the probe
\* to the shared lease, a process is at work on the engine under an exclusive
\* lease only, and an exclusive lease is the only one.  attach() needs this
\* although it turns its exclusive lease into a shared one, which flock does not
\* do atomically.  A command whose client is gone is under no lock.
LocksHeld == StartupHeld /\ LeaseHeld /\ LeaseAlone /\ StagesHeld

Init ==
    /\ pc = [p \in Manager |-> "idle"]
    /\ startup = Nobody /\ lease = [p \in Manager |-> "none"]
    /\ container = "absent" /\ pending = [c \in Command |-> 0] /\ late = FALSE
    /\ ready = "absent" /\ fresh = {}
    /\ agent = [s \in Session |-> "none"] /\ tasks = FALSE /\ faults = 0

Go(p, stage) == pc' = [pc EXCEPT ![p] = stage]

\* Both files are closed, by the code or by the kernel.
Quit(p) ==
    /\ Go(p, "idle")
    /\ lease' = [lease EXCEPT ![p] = "none"]
    /\ startup' = IF startup = p THEN Nobody ELSE startup

KeepLocks == UNCHANGED <<startup, lease>>
KeepUsers == UNCHANGED <<agent, pending, faults>>

Fault(kind) ==
    /\ kind \in Faults /\ faults < MaxFaults
    /\ faults' = faults + 1

----------------------------------------------------------------------------
(* mutation_lock, attach and stop.                                         *)

\* session_main for a session, stop for podman-stop; both block on startup.lock.
Arrive(p) ==
    /\ p # Collector /\ pc[p] = "idle"
    /\ p \in Session => agent[p] = "none"
    /\ Go(p, "queue")
    /\ KeepLocks /\ KeepUsers /\ UNCHANGED engineState

LockStartup(p) ==
    /\ pc[p] = "queue" /\ startup = Nobody
    /\ startup' = p
    /\ Go(p, IF p \in Session THEN "probe" ELSE "claim")
    /\ KeepUsers /\ UNCHANGED <<lease, engineState>>

Healthy == ready = "here" /\ container = "up"

\* Mutant: a readiness file of this boot is believed without an inspection.
ProbeFileOnly(s) ==
    /\ pc[s] = "probe"
    /\ Go(s, IF ready = "here" THEN "share" ELSE "claim")
    /\ KeepLocks /\ KeepUsers /\ UNCHANGED engineState

\* healthy(): the readiness file is of this boot, the container runs and its
\* API answers.
Probe(s) ==
    /\ pc[s] = "probe"
    /\ Go(s, IF Healthy THEN "share" ELSE "claim")
    /\ KeepLocks /\ KeepUsers /\ UNCHANGED engineState

Unleased(p) == \A q \in Manager \ {p} : lease[q] = "none"

\* Mutant: the lease is not asked for.
ClaimUnleased(p) ==
    /\ pc[p] = "claim"
    /\ Go(p, "clean")
    /\ lease' = [lease EXCEPT ![p] = "exclusive"] /\ UNCHANGED startup
    /\ KeepUsers /\ UNCHANGED engineState

\* Mutant: flock without LOCK_NB.
ClaimBlocking(p) ==
    /\ pc[p] = "claim" /\ Unleased(p)
    /\ Go(p, "clean")
    /\ lease' = [lease EXCEPT ![p] = "exclusive"] /\ UNCHANGED startup
    /\ KeepUsers /\ UNCHANGED engineState

\* flock(lease, LOCK_EX | LOCK_NB): repair and removal need a runtime without
\* sessions, and are refused otherwise.
Claim(p) ==
    /\ pc[p] = "claim"
    /\ IF Unleased(p)
       THEN /\ Go(p, "clean")
            /\ lease' = [lease EXCEPT ![p] = "exclusive"] /\ UNCHANGED startup
       ELSE Quit(p)
    /\ KeepUsers /\ UNCHANGED engineState

\* Engine.stop within stop_engine, also when a start has failed ("undo"):
\* "rm --force --ignore" takes the container and its tasks.
RemoveContainer(p) ==
    /\ pc[p] \in {"clean", "undo"}
    /\ Go(p, IF pc[p] = "clean" THEN "unmark" ELSE "unmarkFailed")
    /\ container' = "absent" /\ tasks' = FALSE /\ late' = FALSE
    /\ KeepLocks /\ KeepUsers /\ UNCHANGED <<ready, fresh>>

\* The rest of stop_engine: run state, cgroup, and last ready.json.  attach
\* goes on to start, everybody else is done.
Unmark(p) ==
    /\ pc[p] \in {"unmark", "unmarkFailed"}
    /\ ready' = "absent" /\ fresh' = fresh \ {"ready"}
    /\ IF pc[p] = "unmark" /\ p \in Session
       THEN Go(p, "boot") /\ KeepLocks
       ELSE Quit(p)
    /\ KeepUsers /\ UNCHANGED <<container, late, tasks>>

\* Engine.start up to "run --detach", which refuses a name that is taken.
CreateContainer(s) ==
    /\ pc[s] = "boot"
    /\ IF container = "absent"
       THEN Go(s, "await") /\ container' = "starting" /\ late' = FALSE
       ELSE Go(s, "undo") /\ UNCHANGED <<container, late>>
    /\ KeepLocks /\ KeepUsers /\ UNCHANGED <<ready, fresh, tasks>>

\* Its last loop: the inner API answers.
AwaitApi(s) ==
    /\ pc[s] = "await" /\ container = "up"
    /\ Go(s, "mark")
    /\ KeepLocks /\ KeepUsers /\ UNCHANGED engineState

\* The container does not run, or 45 seconds are over.
AwaitFails(s) ==
    /\ pc[s] = "await" /\ container # "up"
    /\ Go(s, "undo")
    /\ KeepLocks /\ KeepUsers /\ UNCHANGED engineState

\* Mutant: ready.json is written in place, and may be seen half written.
MarkInPlace(s) ==
    /\ pc[s] = "mark"
    /\ Go(s, "share")
    /\ ready' \in {"here", "torn"} /\ fresh' = fresh \cup {"ready"}
    /\ KeepLocks /\ KeepUsers /\ UNCHANGED <<container, late, tasks>>

\* atomic_json(ready.json), with the identifier of this boot.
Mark(s) ==
    /\ pc[s] = "mark"
    /\ Go(s, "share")
    /\ ready' = "here" /\ fresh' = fresh \cup {"ready"}
    /\ KeepLocks /\ KeepUsers /\ UNCHANGED <<container, late, tasks>>

\* flock(lease, LOCK_SH), then startup.lock is released.
Share(s) ==
    /\ pc[s] = "share"
    /\ \A q \in Manager \ {s} : lease[q] # "exclusive"
    /\ Go(s, "spawn")
    /\ lease' = [lease EXCEPT ![s] = "shared"] /\ startup' = Nobody
    /\ KeepUsers /\ UNCHANGED engineState

----------------------------------------------------------------------------
(* session_main after attach(), and the agent.                             *)

Spawn(s) ==
    /\ pc[s] = "spawn"
    /\ Go(s, "serve")
    /\ agent' = [agent EXCEPT ![s] = "child"]
    /\ KeepLocks /\ UNCHANGED <<engineState, pending, faults>>

AgentExits(s) ==
    /\ agent[s] # "none"
    /\ agent' = [agent EXCEPT ![s] = "none"]
    /\ KeepLocks /\ UNCHANGED <<pc, engineState, pending, faults>>

\* child.wait() returns.
AgentReaped(s) ==
    /\ pc[s] = "serve" /\ agent[s] = "none"
    /\ Go(s, "leave")
    /\ KeepLocks /\ KeepUsers /\ UNCHANGED engineState

\* detach(): last-detach is touched before the lease is closed.
Touch(s) ==
    /\ pc[s] = "leave"
    /\ Go(s, "release")
    /\ fresh' = fresh \cup {"detach"}
    /\ KeepLocks /\ KeepUsers /\ UNCHANGED <<container, late, ready, tasks>>

Release(s) ==
    /\ pc[s] = "release"
    /\ Quit(s)
    /\ KeepUsers /\ UNCHANGED engineState

TaskStarts ==
    /\ container = "up" /\ \E s \in Session : agent[s] # "none"
    /\ tasks' = TRUE
    /\ KeepLocks /\ KeepUsers /\ UNCHANGED <<pc, container, late, ready, fresh>>

TaskEnds ==
    /\ tasks /\ tasks' = FALSE
    /\ KeepLocks /\ KeepUsers /\ UNCHANGED <<pc, container, late, ready, fresh>>

\* The service within the container listens.
ApiAnswers ==
    /\ container = "starting" /\ container' = "up"
    /\ KeepLocks /\ KeepUsers /\ UNCHANGED <<pc, late, ready, fresh, tasks>>

----------------------------------------------------------------------------
(* stop_if_idle.                                                           *)

\* Mutant: only the lease is taken.
LockIdleLeaseOnly ==
    /\ pc[Collector] = "idle" /\ Unleased(Collector)
    /\ lease' = [lease EXCEPT ![Collector] = "exclusive"]
    /\ Go(Collector, "judge")
    /\ KeepUsers /\ UNCHANGED <<startup, engineState>>

\* Both locks, or nothing: it never waits.
LockIdle ==
    /\ pc[Collector] = "idle" /\ startup = Nobody /\ Unleased(Collector)
    /\ startup' = Collector
    /\ lease' = [lease EXCEPT ![Collector] = "exclusive"]
    /\ Go(Collector, "judge")
    /\ KeepUsers /\ UNCHANGED engineState

\* Mutant: the grace is measured from the start only.
JudgeByStart ==
    /\ pc[Collector] = "judge"
    /\ IF ready = "here" /\ "ready" \notin fresh /\ ~(container = "up" /\ tasks)
       THEN Go(Collector, "clean") /\ KeepLocks
       ELSE Quit(Collector)
    /\ KeepUsers /\ UNCHANGED engineState

\* Mutant: tasks are not asked about.
JudgeByAge ==
    /\ pc[Collector] = "judge"
    /\ IF ready = "here" /\ fresh = {}
       THEN Go(Collector, "clean") /\ KeepLocks
       ELSE Quit(Collector)
    /\ KeepUsers /\ UNCHANGED engineState

\* Mutant: an API that does not answer keeps the runtime.
JudgeUnanswered ==
    /\ pc[Collector] = "judge"
    /\ IF ready = "here" /\ fresh = {} /\ (container = "up" /\ ~tasks)
       THEN Go(Collector, "clean") /\ KeepLocks
       ELSE Quit(Collector)
    /\ KeepUsers /\ UNCHANGED engineState

\* Started in this boot, unused for the grace, and its API does not list tasks:
\* an API that does not answer keeps nothing alive.
Judge ==
    /\ pc[Collector] = "judge"
    /\ IF ready = "here" /\ fresh = {} /\ ~(container = "up" /\ tasks)
       THEN Go(Collector, "clean") /\ KeepLocks
       ELSE Quit(Collector)
    /\ KeepUsers /\ UNCHANGED engineState

GraceOver ==
    /\ \E f \in fresh : fresh' = fresh \ {f}
    /\ KeepLocks /\ KeepUsers /\ UNCHANGED <<pc, container, late, ready, tasks>>

----------------------------------------------------------------------------
(* Failures.                                                               *)

\* The client of a command under way is gone: "podman --remote" dies, but not the
\* request that the outer service has received, if it has.
Abandon(p) ==
    \/ UNCHANGED pending
    \/ pc[p] \in {"clean", "undo"} /\ pending' = [pending EXCEPT !["rm"] = @ + 1]
    \/ pc[p] = "boot" /\ pending' = [pending EXCEPT !["run"] = @ + 1]

\* A command of the outer engine, the removal of run state or Popen fails.  A
\* probe that fails is an unhealthy runtime; a start that fails is undone.  After
\* 120 seconds subprocess.run kills the client and raises as well.
OuterFails(p) ==
    /\ \/ Fault("outer") /\ UNCHANGED pending
       \/ Fault("timeout") /\ Abandon(p)
    /\ \/ pc[p] = "probe" /\ Go(p, "claim") /\ KeepLocks
       \/ pc[p] \in {"boot", "await"} /\ Go(p, "undo") /\ KeepLocks
       \/ pc[p] \in {"clean", "unmark", "undo", "unmarkFailed"} /\ Quit(p)
       \/ pc[p] = "spawn" /\ Go(p, "leave") /\ KeepLocks
    /\ UNCHANGED <<agent, engineState>>

\* The first signal of a session without an agent raises InterruptedError
\* wherever the code is, also within subprocess.run, which then kills its client.
\* Popen may have forked when it does; in detach() it skips the touch.  A running
\* agent is sent the signal instead.
Interrupt(s) ==
    /\ Fault("interrupt")
    /\ \/ pc[s] \in {"boot", "await", "mark"} /\ Go(s, "undo") /\ KeepLocks
          /\ UNCHANGED agent
       \/ pc[s] \in (Attaching \ {"boot", "await", "mark"}) \cup {"queue", "leave", "release"}
          /\ Quit(s) /\ UNCHANGED agent
       \/ pc[s] = "spawn" /\ Go(s, "leave") /\ KeepLocks
          /\ agent' \in {agent, [agent EXCEPT ![s] = "orphan"]}
    /\ Abandon(s)
    /\ UNCHANGED engineState

\* SIGKILL.  The agent of a killed session lives on, and so may its command.
Kill(p) ==
    /\ Fault("kill") /\ pc[p] # "idle"
    /\ Quit(p)
    /\ agent' = [s \in Session |->
                    IF s = p /\ agent[s] = "child" THEN "orphan" ELSE agent[s]]
    /\ Abandon(p)
    /\ UNCHANGED engineState

CarriedOut(c) ==
    /\ pending[c] > 0
    /\ pending' = [pending EXCEPT ![c] = @ - 1]

\* "rm --force --ignore" without a client, and without its locks.
LateRemove ==
    /\ CarriedOut("rm")
    /\ container' = "absent" /\ tasks' = FALSE
    /\ late' = (late \/ container # "absent")
    /\ KeepLocks /\ UNCHANGED <<pc, agent, ready, fresh, faults>>

\* "run --detach" without a client; the name may be taken by now.
LateCreate ==
    /\ CarriedOut("run")
    /\ IF container = "absent"
       THEN container' = "starting" /\ late' = FALSE
       ELSE UNCHANGED <<container, late>>
    /\ KeepLocks /\ UNCHANGED <<pc, agent, ready, fresh, tasks, faults>>

ContainerFails ==
    /\ Fault("container")
    /\ \/ container \in {"starting", "up"} /\ container' = "hung" /\ UNCHANGED tasks
       \/ container \in {"starting", "up", "hung"} /\ container' = "broken"
          /\ tasks' = FALSE
    /\ KeepLocks /\ UNCHANGED <<pc, pending, late, agent, ready, fresh>>

\* The storage of the host service knows the container still.
Reboot ==
    /\ Fault("reboot")
    /\ pc' = [p \in Manager |-> "idle"]
    /\ startup' = Nobody /\ lease' = [p \in Manager |-> "none"]
    /\ container' = IF container = "absent" THEN "absent" ELSE "broken"
    /\ tasks' = FALSE /\ pending' = [c \in Command |-> 0] /\ late' = FALSE
    /\ ready' = IF ready = "here" THEN "old" ELSE ready
    /\ agent' = [s \in Session |-> "none"]
    /\ UNCHANGED fresh

----------------------------------------------------------------------------
SessionStep(s) ==
    \/ Probe(s) \/ CreateContainer(s) \/ AwaitApi(s) \/ AwaitFails(s) \/ Mark(s)
    \/ Share(s) \/ Spawn(s) \/ AgentReaped(s) \/ Touch(s) \/ Release(s)

ManagerStep(p) == Claim(p) \/ RemoveContainer(p) \/ Unmark(p)

Next ==
    \/ \E s \in Session : SessionStep(s) \/ AgentExits(s) \/ Interrupt(s)
    \/ \E p \in Manager :
          Arrive(p) \/ LockStartup(p) \/ ManagerStep(p) \/ OuterFails(p) \/ Kill(p)
    \/ LockIdle \/ Judge \/ GraceOver
    \/ TaskStarts \/ TaskEnds \/ ApiAnswers
    \/ LateRemove \/ LateCreate \/ ContainerFails \/ Reboot

Spec == Init /\ [][Next]_vars

\* The processes: session_main, stop, and the loop of the host service.
Launcher(s) == SessionStep(s) \/ ManagerStep(s)
PodmanStop == ManagerStep(Stopper)
HostService == LockIdle \/ Judge \/ ManagerStep(Collector)

\* They run on, flock wakes its waiters, the service looks again and again and
\* half an hour passes.  Agents and tasks need not end, and a container need not
\* come up.
Fairness ==
    /\ \A s \in Session : WF_vars(Launcher(s)) /\ SF_vars(LockStartup(s))
    /\ WF_vars(PodmanStop) /\ SF_vars(LockStartup(Stopper))
    /\ WF_vars(HostService) /\ WF_vars(GraceOver)

FairSpec == Spec /\ Fairness

----------------------------------------------------------------------------
(* Properties.                                                             *)

\* No process takes the runtime of a supervised agent away: whoever removes the
\* container has made sure that no session uses it.  An agent may lose it if it
\* has lost its launcher, or to a removal that has outlived its client, which no
\* lock holds back: a session may have attached since.
AgentKeepsRuntime ==
    [][container # "absent" /\ container' = "absent" =>
          \/ \A s \in Session : agent'[s] # "child"
          \/ pending'["rm"] < pending["rm"]]_vars

\* The idle collection leaves the grace after the last detach and after the
\* start, although both stamps are read in an earlier step.
GraceKept ==
    [][pc[Collector] = "clean" /\ pc'[Collector] = "unmark" => fresh = {}]_vars

\* Detached tasks keep a runtime that answers: a task is lost to the idle
\* collection only if an agent without a launcher started it too late to be seen.
TasksKept ==
    [][pc'[Collector] = "clean" /\ container' = "up" /\ tasks' =>
          \/ pc[Collector] = "clean" /\ tasks
          \/ \E s \in Session : agent[s] = "orphan"]_vars

\* What a session can see of the runtime, and who has seen it up and holds on to it.
Condition ==
    IF container = "absent" THEN IF late THEN "taken" ELSE "down"
    ELSE IF container = "up" THEN "up" ELSE "failed"
Users == {s \in Session : pc[s] \in {"mark", "share"} \cup Attached}

Lease == INSTANCE RuntimeLease WITH engine <- Condition, users <- Users, orders <- pending

\* The two locks implement the lease table, with commands that come late: a
\* process starts, repairs or removes the engine only while nobody uses it, and
\* what may still happen under its users was ordered when there were none.
ImplementsLease == Lease!Spec

\* A runtime that was started and that nobody uses any more is removed in the
\* end, also when processes are killed in the middle of removing it.  Two kinds
\* are left to the next session, as they have no ready.json of this boot: one
\* that a reboot has stopped, and one that a late start has created again before
\* its removal was done.
IdleStops ==
    ready = "here" /\ container # "absent" ~>
        \/ container = "absent" \/ ready # "here" \/ tasks
        \/ \E s \in Session : lease[s] = "shared"

\* A session that waits at startup.lock is let in or turned away.
AttachSettles ==
    \A s \in Session : pc[s] = "queue" ~> pc[s] \in {"serve", "idle"}
=============================================================================
