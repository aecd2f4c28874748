----------------------------- MODULE Supervisor -----------------------------
(***************************************************************************)
(* agent-supervisor.c for one execution, statement by statement where the  *)
(* order matters.  "outer" is main(), the broker's child; "init" is what it *)
(* forks: PID 1 of a namespace, or the guardian of a cgroup (--host).      *)
(* Signals arrive between any two statements.  A namespace dies with its   *)
(* init; a cgroup has to be killed and may outlive its guardian.           *)
(***************************************************************************)
EXTENDS Naturals

CONSTANTS
    Leader,     \* the program that is run
    Others,     \* processes that may descend from it
    MaxTerms,   \* bound: SIGTERMs that the broker sends
    Kills       \* who may be hit by a stray SIGKILL

ASSUME ProcessAssumption == Leader \notin Others
ASSUME TermsAssumption == MaxTerms \in Nat
ASSUME KillsAssumption == Kills \subseteq {"owner", "outer", "init"}

VARIABLES
    host,       \* --host
    owner,      \* the broker lives
    outer,      \* where main() is
    pending,    \* main()'s copy of "stopping"
    init,       \* where init is
    told,       \* init's copy of "stopping"
    deadline,   \* init's "deadline", for the grace and then for the kill
    killed,     \* init wrote cgroup.kill
    finished,   \* the leader has been reaped, and init will report its status
    procs,      \* the live processes of the workload
    signalled,  \* init has sent SIGTERM to them
    recorded,   \* namespace.stat is written
    terms,      \* SIGTERMs sent so far
    status      \* what outer reports when it returns

vars == <<host, owner, outer, pending, init, told, deadline, killed, finished, procs,
          signalled, recorded, terms, status>>

Outer == {"setup", "armed", "record", "release", "check", "clear", "enter",
          "wait", "dead"}
Inner == {"none", "gated", "prepare", "loop", "dead"}

TypeOK ==
    /\ host \in BOOLEAN /\ owner \in BOOLEAN
    /\ outer \in Outer /\ pending \in BOOLEAN
    /\ init \in Inner /\ told \in BOOLEAN
    /\ deadline \in {"none", "set", "passed"}
    /\ killed \in BOOLEAN /\ finished \in BOOLEAN
    /\ procs \subseteq {Leader} \cup Others
    /\ signalled \in BOOLEAN /\ recorded \in BOOLEAN
    /\ terms \in 0..MaxTerms
    /\ status \in {"none", "workload", "failure"}

Init ==
    /\ host \in BOOLEAN
    /\ owner = TRUE /\ outer = "setup" /\ pending = FALSE
    /\ init = "none" /\ told = FALSE /\ deadline = "none"
    /\ killed = FALSE /\ finished = FALSE /\ procs = {}
    /\ signalled = FALSE /\ recorded = FALSE /\ terms = 0 /\ status = "none"

InitState == <<init, told, deadline, killed, finished, signalled>>
OuterState == <<outer, pending, recorded, status>>
World == <<host, owner, terms>>

----------------------------------------------------------------------------
(* main().                                                                 *)

\* The links, unshare, the signal handlers.
InstallHandlers ==
    /\ outer = "setup"
    /\ outer' = "armed"
    /\ UNCHANGED <<pending, recorded, status, procs, InitState, World>>

\* fork: the child inherits "stopping", and waits at the launch gate.
ForkInit ==
    /\ outer = "armed"
    /\ outer' = "record" /\ init' = "gated" /\ told' = pending
    /\ UNCHANGED <<pending, recorded, status, deadline, killed, finished,
                   signalled, procs>>
    /\ UNCHANGED World

\* exit_with_error anywhere before the loop.
SetupError ==
    /\ outer \in {"setup", "armed", "record", "release"}
    /\ outer' = "dead" /\ status' = "failure"
    /\ UNCHANGED <<pending, recorded, procs, InitState, World>>

WriteRecord ==
    /\ outer = "record"
    /\ recorded' = TRUE /\ outer' = "release"
    /\ UNCHANGED <<pending, status, procs, InitState, World>>

\* Mutant: the gate opens before the identity is on disk.
OpenGateUnrecorded ==
    /\ outer \in {"record", "release"} /\ init = "gated"
    /\ outer' = "check" /\ init' = "prepare"
    /\ UNCHANGED <<pending, recorded, status, told, deadline, killed, finished,
                   signalled, procs, World>>

OpenGate ==
    /\ outer = "release" /\ init = "gated"
    /\ outer' = "check" /\ init' = "prepare"
    /\ UNCHANGED <<pending, recorded, status, told, deadline, killed, finished,
                   signalled, procs, World>>

\* if (stopping) kill(child, stopping) ...
CheckStop ==
    /\ outer = "check"
    /\ outer' = IF pending THEN "clear" ELSE "enter"
    /\ told' = (told \/ (pending /\ init # "dead"))
    /\ UNCHANGED <<pending, recorded, status, init, deadline, killed, finished,
                   signalled, procs, World>>

\* ... stopping = 0.
ClearStop ==
    /\ outer = "clear"
    /\ outer' = "enter" /\ pending' = FALSE
    /\ UNCHANGED <<recorded, status, procs, InitState, World>>

\* From the test of "stopping" to the system call is a step of its own.
EnterWait ==
    /\ outer = "enter"
    /\ outer' = "wait"
    /\ UNCHANGED <<pending, recorded, status, procs, InitState, World>>

\* waitpid(child) returns, and the leader's status is waiting in the channel
\* if init has exited with 0.
WaitForInit ==
    /\ outer = "wait" /\ init = "dead"
    /\ outer' = "dead"
    /\ status' = IF finished THEN "workload" ELSE "failure"
    /\ UNCHANGED <<pending, recorded, procs, InitState, World>>

----------------------------------------------------------------------------
(* run_namespace_init and run_host_init.                                   *)

\* Mounts or cgroup files, handlers, fork; a host leader joins its group
\* before it may run.
StartLeader ==
    /\ init = "prepare"
    /\ init' = "loop" /\ procs' = {Leader}
    /\ UNCHANGED <<told, deadline, killed, finished, signalled, OuterState, World>>

PrepareError ==
    /\ init = "prepare"
    /\ init' = "dead"
    /\ UNCHANGED <<told, deadline, killed, finished, signalled, procs, OuterState, World>>

\* Mutant: the guardian watches the broker instead of main().
NoticeBrokerGone ==
    /\ host /\ init = "loop" /\ ~owner /\ ~told
    /\ told' = TRUE
    /\ UNCHANGED <<init, deadline, killed, finished, signalled, procs, OuterState, World>>

\* The guardian watches the pidfd of main().
NoticeOwnerGone ==
    /\ host /\ init = "loop" /\ outer = "dead" /\ ~told
    /\ told' = TRUE
    /\ UNCHANGED <<init, deadline, killed, finished, signalled, procs, OuterState, World>>

\* Mutant: the grace has a deadline of its own, which nothing else looks at.
BeginGraceSeparately ==
    /\ init = "loop" /\ told /\ deadline = "none"
    /\ host => ~finished
    /\ signalled' = TRUE /\ deadline' = "grace"
    /\ UNCHANGED <<init, told, killed, finished, procs, OuterState, World>>

\* SIGTERM to every process, two seconds.
BeginGrace ==
    /\ init = "loop" /\ told /\ deadline = "none"
    /\ host => ~finished
    /\ signalled' = TRUE /\ deadline' = "set"
    /\ UNCHANGED <<init, told, killed, finished, procs, OuterState, World>>

\* The leader is reaped.  Init of a namespace reports and exits, and the kernel
\* takes the rest of the namespace with it.
ReapLeader ==
    /\ init = "loop" /\ Leader \notin procs /\ ~finished
    /\ finished' = TRUE
    /\ IF host THEN UNCHANGED <<init, procs>> ELSE init' = "dead" /\ procs' = {}
    /\ UNCHANGED <<told, deadline, killed, signalled, OuterState, World>>

\* The grace of a namespace is over: report SIGKILL and exit.
NamespaceGraceOver ==
    /\ ~host /\ init = "loop" /\ deadline = "passed"
    /\ init' = "dead" /\ procs' = {} /\ finished' = TRUE
    /\ UNCHANGED <<told, deadline, killed, signalled, OuterState, World>>

\* Mutant: the group is killed as soon as it has been told to stop.
KillGroupAtOnce ==
    /\ host /\ init = "loop" /\ ~killed
    /\ finished \/ deadline # "none"
    /\ killed' = TRUE /\ deadline' = "set"
    /\ UNCHANGED <<init, told, finished, signalled, procs, OuterState, World>>

\* The leader is gone or the grace is over: kill the cgroup, ten seconds.
KillGroup ==
    /\ host /\ init = "loop" /\ ~killed
    /\ finished \/ deadline = "passed"
    /\ killed' = TRUE /\ deadline' = "set"
    /\ UNCHANGED <<init, told, finished, signalled, procs, OuterState, World>>

\* Mutant: the guardian leaves as soon as it has killed.
GuardianLeavesEarly ==
    /\ host /\ init = "loop" /\ killed /\ finished
    /\ init' = "dead"
    /\ UNCHANGED <<told, deadline, killed, finished, signalled, procs, OuterState, World>>

\* Nothing left to reap, "populated 0": report and exit.
GuardianDone ==
    /\ host /\ init = "loop" /\ killed /\ finished /\ procs = {}
    /\ init' = "dead"
    /\ UNCHANGED <<told, deadline, killed, finished, signalled, procs, OuterState, World>>

\* Ten seconds were not enough: exit with 125, whatever is left.
GuardianGivesUp ==
    /\ host /\ init = "loop" /\ killed /\ deadline = "passed"
    /\ init' = "dead" /\ finished' = FALSE
    /\ UNCHANGED <<told, deadline, killed, signalled, procs, OuterState, World>>

----------------------------------------------------------------------------
(* The broker, the kernel and the workload.                                *)

\* Before the handlers SIGTERM is fatal; in waitpid it interrupts the call;
\* anywhere else it only sets a flag.
Term ==
    /\ owner /\ outer # "dead" /\ terms < MaxTerms
    /\ terms' = terms + 1
    /\ IF outer = "setup"
       THEN outer' = "dead" /\ status' = "failure" /\ UNCHANGED pending
       ELSE /\ pending' = TRUE
            /\ outer' = IF outer = "wait" THEN "check" ELSE outer
            /\ UNCHANGED status
    /\ UNCHANGED <<host, owner, recorded, procs, InitState>>

OwnerDies ==
    /\ "owner" \in Kills /\ owner
    /\ owner' = FALSE
    /\ UNCHANGED <<host, terms, procs, InitState, OuterState>>

\* PDEATHSIG and the check of the owner's pidfd, or a stray SIGKILL.
OuterKilled ==
    /\ outer # "dead"
    /\ ~owner \/ "outer" \in Kills
    /\ outer' = "dead" /\ status' = "failure"
    /\ UNCHANGED <<pending, recorded, procs, InitState, World>>

\* A closed gate, or PDEATHSIG; the guardian has no such link.
InitFollows ==
    /\ outer = "dead"
    /\ init = "gated" \/ (~host /\ init \in {"prepare", "loop"})
    /\ init' = "dead" /\ procs' = {}
    /\ UNCHANGED <<told, deadline, killed, finished, signalled, OuterState, World>>

InitKilled ==
    /\ "init" \in Kills /\ init \in {"prepare", "loop"}
    /\ init' = "dead" /\ finished' = FALSE
    /\ procs' = IF host THEN procs ELSE {}
    /\ UNCHANGED <<told, deadline, killed, signalled, OuterState, World>>

DeadlinePasses ==
    /\ init = "loop" /\ deadline = "set"
    /\ deadline' = "passed"
    /\ UNCHANGED <<init, told, killed, finished, signalled, procs, OuterState, World>>

\* A process of the workload exits, by itself, on a signal or killed.
ProcessExits(p) ==
    /\ p \in procs
    /\ procs' = procs \ {p}
    /\ UNCHANGED <<InitState, OuterState, World>>

ProcessForks(p) ==
    /\ procs # {} /\ ~killed /\ p \in Others \ procs
    /\ procs' = procs \cup {p}
    /\ UNCHANGED <<InitState, OuterState, World>>

OuterStep ==
    \/ InstallHandlers \/ ForkInit \/ SetupError \/ WriteRecord \/ OpenGate
    \/ CheckStop \/ ClearStop \/ EnterWait \/ WaitForInit

InitStep ==
    \/ StartLeader \/ PrepareError \/ NoticeOwnerGone \/ BeginGrace
    \/ ReapLeader \/ NamespaceGraceOver
    \/ KillGroup \/ GuardianDone \/ GuardianGivesUp

Next ==
    \/ OuterStep \/ InitStep
    \/ Term \/ OwnerDies \/ OuterKilled \/ InitFollows \/ InitKilled
    \/ DeadlinePasses
    \/ \E p \in procs : ProcessExits(p)
    \/ \E p \in Others : ProcessForks(p)

Spec == Init /\ [][Next]_vars

\* main() and init run, the clock advances, the kernel follows the links and
\* finishes what cgroup.kill has begun.
Fairness ==
    /\ WF_vars(OuterStep) /\ WF_vars(InitStep)
    /\ WF_vars(DeadlinePasses) /\ WF_vars(InitFollows)
    /\ WF_vars(~owner /\ OuterKilled)
    /\ \A p \in {Leader} \cup Others : WF_vars(killed /\ ProcessExits(p))

FairSpec == Spec /\ Fairness

----------------------------------------------------------------------------
(* Properties.                                                             *)

\* A status of the workload comes only when all of its processes are gone
\* ("waitpid completes only after namespace teardown, before returning a
\* result"); only a failure of the guardian can leave some behind.
StatusAfterTeardown == status = "workload" => procs = {}

\* The supervisor kills a workload, by cgroup.kill or by the exit of PID 1, only
\* when its leader is done or after SIGTERM and two seconds.
GraceBeforeKill ==
    [][\/ killed' /\ ~killed
       \/ ~host /\ finished' /\ ~finished
       => Leader \notin procs \/ (signalled /\ deadline = "passed")]_vars

\* When the broker or main() dies at any moment, no process stays behind, except
\* those of a guardian that was killed before it could kill its group.
OrphansEnd ==
    ~owner \/ outer = "dead" ~> procs = {} \/ (host /\ init = "dead" /\ ~killed)

\* SIGTERM reaches init, whenever it arrives: the workload gets its two seconds
\* and ends without further help from the broker.
TermEndsWorkload == terms > 0 ~> procs = {} /\ (init = "dead" \/ outer = "dead")
=============================================================================
