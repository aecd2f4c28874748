------------------------------ MODULE Records ------------------------------
(***************************************************************************)
(* The records of one execution on disk: boot-id and host-cgroup, written  *)
(* by the broker before it starts a supervisor, and namespace.stat, written*)
(* by the supervisor before it releases its init.  A broker that finds the *)
(* directory, in the loop or after a restart, concludes from these files   *)
(* alone whether anything of the execution still runs.  service.py uses    *)
(* the same functions for the namespace of the Paseo daemon.               *)
(* Files are created and written in two steps, process numbers are reused, *)
(* and the host may lose power.                                            *)
(***************************************************************************)
EXTENDS Integers

CONSTANTS
    Pids,       \* bound: process numbers
    MaxClock,   \* bound: processes that start during one boot
    MaxBoots,   \* bound: boots
    MaxFaults   \* bound: processes killed, calls that fail

ASSUME RecordBounds ==
    Pids \in Nat /\ MaxClock \in Nat /\ MaxBoots \in Nat \ {0} /\ MaxFaults \in Nat

Pid == 1..Pids
Time == 1..MaxClock
Boot == 1..MaxBoots

\* The contents of a file; every other value is what was written.
Absent == -1
Torn == 0

Process == [pid : Pid, start : Time]
Nobody == [pid |-> 0, start |-> 0]
None == [pid |-> Absent, start |-> 0]
Half == [pid |-> Torn, start |-> 0]

VARIABLES
    host,       \* host tier, with a cgroup, or a PID namespace
    broker,     \* what the broker does
    owner,      \* the broker that started the execution lives
    exists,     \* the directory of the execution
    bootId, identity, groupFile,   \* boot-id, namespace.stat, host-cgroup
    listed,     \* what rmtree has still to remove
    fd,         \* the process that a look has a pidfd of
    helper,     \* the supervisor
    init, me,   \* namespace init or host guardian, and its identity
    workload,   \* its descendants: "killed" are about to die
    group,      \* the cgroup exists
    boot, proc, clock,   \* the kernel: which process has a number, by its start
    faults

files == <<exists, bootId, identity, groupFile>>
tree == <<helper, init, me, workload>>
kernel == <<boot, proc, clock>>
vars == <<host, broker, owner, files, listed, fd, tree, group, kernel, faults>>

Launching == {"mkdir", "bootCreate", "bootWrite", "groupCreate", "groupWrite",
              "groupMake", "popen", "running"}
Looking == {"lookBoot", "lookIdentity", "lookPidfd", "lookStat", "lookSelect",
            "lookGroup", "lookEvents", "lookRmdir", "again"}
Ending == {"scan", "remove", "done", "down"}
Names == {"boot-id", "namespace.stat", "host-cgroup"}

TypeOK ==
    /\ host \in BOOLEAN /\ owner \in BOOLEAN /\ exists \in BOOLEAN /\ group \in BOOLEAN
    /\ broker \in Launching \cup Looking \cup Ending
    /\ bootId \in {Absent, Torn} \cup Boot
    /\ identity \in {None, Half} \cup Process
    /\ groupFile \in {Absent, Torn, 1}
    /\ listed \subseteq Names
    /\ fd \in {Nobody} \cup Process
    /\ helper \in {"none", "fork", "create", "write", "release", "wait", "dead"}
    /\ init \in {"none", "gated", "open", "move", "watch", "zombie", "gone"}
    /\ me \in {Nobody} \cup Process
    /\ workload \in {"none", "up", "killed"}
    /\ boot \in Boot /\ proc \in [Pid -> {0} \cup Time]
    /\ clock \in {0} \cup Time /\ faults \in 0..MaxFaults
    /\ broker \in {"lookPidfd", "lookStat", "lookSelect"} => identity \in Process
    /\ broker \in {"lookStat", "lookSelect"} => fd \in Process
    /\ init \in {"gated", "open", "move", "watch", "zombie"} => me \in Process

Init ==
    /\ host \in BOOLEAN /\ broker = "mkdir" /\ owner = TRUE
    /\ exists = FALSE /\ bootId = Absent /\ identity = None /\ groupFile = Absent
    /\ listed = {} /\ fd = Nobody
    /\ helper = "none" /\ init = "none" /\ me = Nobody /\ workload = "none"
    /\ group = FALSE
    /\ boot = 1 /\ proc = [p \in Pid |-> 0] /\ clock = 0 /\ faults = 0

Fault == faults < MaxFaults /\ faults' = faults + 1

----------------------------------------------------------------------------
(* launch_execution, execution_directory and allocate_host_cgroup.         *)

Goto(from, to) == broker = from /\ broker' = to

Mkdir ==
    /\ Goto("mkdir", "bootCreate") /\ exists' = TRUE
    /\ UNCHANGED <<host, owner, bootId, identity, groupFile, listed, fd, tree, group, kernel, faults>>

BootCreate ==
    /\ Goto("bootCreate", "bootWrite") /\ bootId' = Torn
    /\ UNCHANGED <<host, owner, exists, identity, groupFile, listed, fd, tree, group, kernel, faults>>

BootWrite ==
    /\ Goto("bootWrite", IF host THEN "groupCreate" ELSE "popen") /\ bootId' = boot
    /\ UNCHANGED <<host, owner, exists, identity, groupFile, listed, fd, tree, group, kernel, faults>>

GroupCreate ==
    /\ Goto("groupCreate", "groupWrite") /\ groupFile' = Torn
    /\ UNCHANGED <<host, owner, exists, bootId, identity, listed, fd, tree, group, kernel, faults>>

\* Mutant: the group is made before its record.
GroupWriteLate ==
    /\ Goto("groupWrite", "groupMake") /\ group' = TRUE
    /\ UNCHANGED <<host, owner, files, listed, fd, tree, kernel, faults>>

GroupWrite ==
    /\ Goto("groupWrite", "groupMake") /\ groupFile' = 1
    /\ UNCHANGED <<host, owner, exists, bootId, identity, listed, fd, tree, group, kernel, faults>>

\* The group is made and can be used, or the launch fails and closes the job.
GroupMake ==
    /\ broker = "groupMake"
    /\ \/ broker' = "popen" /\ group' = TRUE /\ UNCHANGED faults
       \/ broker' = "lookBoot" /\ group' \in BOOLEAN /\ Fault
    /\ UNCHANGED <<host, owner, files, listed, fd, tree, kernel>>

Popen ==
    /\ broker = "popen"
    /\ \/ broker' = "running" /\ helper' = "fork" /\ UNCHANGED faults
       \/ broker' = "lookBoot" /\ Fault /\ UNCHANGED helper
    /\ UNCHANGED <<host, owner, files, listed, fd, init, me, workload, group, kernel>>

\* process.poll() says that the helper is gone.
HelperSeen ==
    /\ Goto("running", "lookBoot") /\ helper = "dead"
    /\ UNCHANGED <<host, owner, files, listed, fd, tree, group, kernel, faults>>

\* The loop or its finally clause kills the helper and waits for it.
KillHelper ==
    /\ broker = "running" /\ helper # "dead"
    /\ helper' = "dead"
    /\ UNCHANGED <<host, broker, owner, files, listed, fd, init, me, workload, group, kernel, faults>>

----------------------------------------------------------------------------
(* namespace_has_exited.                                                   *)

Look(from, to) ==
    /\ Goto(from, to)
    /\ UNCHANGED <<host, owner, files, listed, tree, group, kernel, faults>>

\* Another boot: nothing of it can run.  A torn record differs as well.
LookBoot ==
    /\ Look("lookBoot", IF bootId \notin {Absent, boot} THEN "lookGroup" ELSE "lookIdentity")
    /\ fd' = Nobody

\* Mutant: what is not there and what is torn are the same.
LookIdentityAny ==
    /\ Look("lookIdentity", IF identity = None THEN "lookGroup" ELSE "lookPidfd")
    /\ UNCHANGED fd

LookIdentity ==
    /\ \/ identity.pid = Absent /\ Look("lookIdentity", "lookGroup")
       \/ identity.pid \in Pid /\ Look("lookIdentity", "lookPidfd")
    /\ UNCHANGED fd

\* int("") raises, and the broker ends.
LookTorn ==
    /\ Goto("lookIdentity", "down") /\ identity.pid = Torn
    /\ owner' = FALSE
    /\ UNCHANGED <<host, files, listed, fd, tree, group, kernel, faults>>

\* pidfd_open
LookPidfd ==
    \/ /\ Look("lookPidfd", "lookGroup") /\ proc[identity.pid] = 0
       /\ UNCHANGED fd
    \/ /\ Look("lookPidfd", "lookStat") /\ proc[identity.pid] # 0
       /\ fd' = [pid |-> identity.pid, start |-> proc[identity.pid]]

\* Mutant: whoever has the number is taken for the execution.
LookStatAny ==
    /\ Look("lookStat", "lookSelect")
    /\ UNCHANGED fd

\* /proc/PID/stat: the same process started at the same time.
LookStat ==
    /\ \/ Look("lookStat", "lookSelect") /\ proc[identity.pid] = identity.start
       \/ Look("lookStat", "lookGroup") /\ proc[identity.pid] # identity.start
    /\ UNCHANGED fd

\* A process that is reaped after the file was opened makes the read fail with
\* ESRCH, which is not expected: the broker ends.
LookReaped ==
    /\ Goto("lookStat", "down") /\ proc[fd.pid] # fd.start
    /\ owner' = FALSE
    /\ UNCHANGED <<host, files, listed, fd, tree, group, kernel, faults>>

Readable(p) == IF p = me THEN init \in {"zombie", "gone"} ELSE proc[p.pid] # p.start

\* Mutant: the answer of select is not used.
LookSelectAnyway ==
    Look("lookSelect", "lookGroup") /\ fd' = Nobody

LookSelect ==
    /\ Look("lookSelect", IF Readable(fd) THEN "lookGroup" ELSE "again")
    /\ fd' = Nobody

\* The group is killed as a whole.  Path("") exists and has no cgroup.kill.
LookGroup ==
    /\ broker = "lookGroup"
    /\ \/ /\ groupFile = Absent \/ (groupFile = 1 /\ ~group)
          /\ broker' = "scan" /\ UNCHANGED <<workload, faults>>
       \/ groupFile = Torn /\ broker' = "again" /\ UNCHANGED <<workload, faults>>
       \/ /\ groupFile = 1 /\ group
          /\ broker' = "lookEvents"
          /\ workload' = IF workload = "up" THEN "killed" ELSE workload
          /\ UNCHANGED faults
       \/ groupFile = 1 /\ group /\ broker' = "again" /\ Fault /\ UNCHANGED workload
    /\ UNCHANGED <<host, owner, files, listed, fd, helper, init, me, group, kernel>>

\* cgroup.events
LookEvents ==
    /\ Look("lookEvents", IF workload = "none" THEN "lookRmdir" ELSE "again")
    /\ UNCHANGED fd

\* A cgroup with processes cannot be removed.
LookRmdir ==
    /\ broker = "lookRmdir"
    /\ group' = (workload # "none")
    /\ broker' = IF workload = "none" THEN "scan" ELSE "again"
    /\ UNCHANGED <<host, owner, files, listed, fd, tree, kernel, faults>>

\* The next sweep, or the next try of a starting broker ...
LookAgain ==
    Look("again", "lookBoot") /\ UNCHANGED fd

\* ... which refuses to start after ten seconds, as the finally clause does not
\* wait: the records stay.
GiveUp ==
    /\ Goto("again", "down") /\ owner' = FALSE
    /\ UNCHANGED <<host, files, listed, fd, tree, group, kernel, faults>>

----------------------------------------------------------------------------
(* shutil.rmtree                                                           *)

Present ==
    {n \in Names : CASE n = "boot-id" -> bootId # Absent
                     [] n = "namespace.stat" -> identity # None
                     [] OTHER -> groupFile # Absent}

Scan ==
    /\ Goto("scan", "remove") /\ listed' = Present
    /\ UNCHANGED <<host, owner, files, fd, tree, group, kernel, faults>>

Unlink(name) ==
    /\ broker = "remove" /\ name \in listed /\ listed' = listed \ {name}
    /\ bootId' = IF name = "boot-id" THEN Absent ELSE bootId
    /\ identity' = IF name = "namespace.stat" THEN None ELSE identity
    /\ groupFile' = IF name = "host-cgroup" THEN Absent ELSE groupFile
    /\ UNCHANGED <<host, broker, owner, exists, fd, tree, group, kernel, faults>>

\* A file that was created meanwhile makes rmdir fail, and the broker end.
Rmdir ==
    /\ broker = "remove" /\ listed = {}
    /\ \/ /\ Present = {} /\ exists' = FALSE /\ broker' = "done"
          /\ UNCHANGED owner
       \/ /\ Present # {} /\ broker' = "down" /\ owner' = FALSE
          /\ UNCHANGED exists
    /\ UNCHANGED <<host, bootId, identity, groupFile, listed, fd, tree, group, kernel, faults>>

----------------------------------------------------------------------------
(* agent-supervisor.c                                                      *)

\* fork, and a read of /proc/CHILD/stat, which cannot be anybody else's.
HelperForks ==
    /\ helper = "fork" /\ clock < MaxClock
    /\ \E p \in Pid :
          /\ proc[p] = 0
          /\ me' = [pid |-> p, start |-> clock + 1]
          /\ proc' = [proc EXCEPT ![p] = clock + 1]
    /\ clock' = clock + 1 /\ helper' = "create" /\ init' = "gated"
    /\ UNCHANGED <<host, broker, owner, files, listed, fd, workload, group, boot, faults>>

\* O_CREAT | O_EXCL, in a directory that may be gone.
HelperCreates ==
    /\ helper = "create"
    /\ IF exists /\ identity = None
       THEN helper' = "write" /\ identity' = Half
       ELSE helper' = "dead" /\ UNCHANGED identity
    /\ UNCHANGED <<host, broker, owner, exists, bootId, groupFile, listed, fd, init, me, workload, group, kernel, faults>>

\* Into a file that may have been unlinked.
HelperWrites ==
    /\ helper = "write" /\ helper' = "release"
    /\ identity' = IF identity = None THEN None ELSE me
    /\ UNCHANGED <<host, broker, owner, exists, bootId, groupFile, listed, fd, init, me, workload, group, kernel, faults>>

\* Mutant: the gate is opened before the identity has been written.
HelperReleasesEarly ==
    /\ helper \in {"write", "release"} /\ init = "gated" /\ helper' = "wait"
    /\ init' = IF host THEN "open" ELSE "watch"
    /\ workload' = IF host THEN workload ELSE "up"
    /\ UNCHANGED <<host, broker, owner, files, listed, fd, me, group, kernel, faults>>

HelperReleases ==
    /\ helper = "release" /\ init = "gated" /\ helper' = "wait"
    /\ init' = IF host THEN "open" ELSE "watch"
    /\ workload' = IF host THEN workload ELSE "up"
    /\ UNCHANGED <<host, broker, owner, files, listed, fd, me, group, kernel, faults>>

\* waitpid returns, and frees the number; the gate of a dead init does not open.
HelperExits ==
    /\ helper \in {"release", "wait"} /\ init = "zombie"
    /\ helper' = "dead" /\ init' = "gone"
    /\ proc' = [proc EXCEPT ![me.pid] = 0]
    /\ UNCHANGED <<host, broker, owner, files, listed, fd, me, workload, group, boot, clock, faults>>

\* The guardian opens cgroup.kill.
GuardianOpens ==
    /\ init = "open" /\ init' = (IF group THEN "move" ELSE "zombie")
    /\ UNCHANGED <<host, broker, owner, files, listed, fd, helper, me, workload, group, kernel, faults>>

\* It moves the workload into the group before it lets it run.
GuardianMoves ==
    /\ init = "move"
    /\ IF group THEN init' = "watch" /\ workload' = "up"
                ELSE init' = "zombie" /\ UNCHANGED workload
    /\ UNCHANGED <<host, broker, owner, files, listed, fd, helper, me, group, kernel, faults>>

GuardianKills ==
    /\ host /\ init = "watch" /\ workload = "up" /\ workload' = "killed"
    /\ UNCHANGED <<host, broker, owner, files, listed, fd, helper, init, me, group, kernel, faults>>

GuardianExits ==
    /\ host /\ init = "watch" /\ workload = "none" /\ init' = "zombie"
    /\ UNCHANGED <<host, broker, owner, files, listed, fd, helper, me, workload, group, kernel, faults>>

\* It is killed, or gives up: its descendants stay.
GuardianFails ==
    /\ host /\ init \in {"gated", "open", "move", "watch"} /\ Fault /\ init' = "zombie"
    /\ UNCHANGED <<host, broker, owner, files, listed, fd, helper, me, workload, group, kernel>>

\* The kernel ends a namespace with its init.
NamespaceEnds ==
    /\ ~host /\ init = "watch"
    /\ init' = "zombie" /\ workload' = "none"
    /\ UNCHANGED <<host, broker, owner, files, listed, fd, helper, me, group, kernel, faults>>

----------------------------------------------------------------------------
(* The kernel, and others.                                                 *)

\* SIGKILL to the helper, from anybody, and from the kernel once its broker is
\* gone.
HelperKilled ==
    /\ helper \notin {"none", "dead"} /\ helper' = "dead"
    /\ IF owner THEN Fault ELSE UNCHANGED faults
    /\ UNCHANGED <<host, broker, owner, files, listed, fd, init, me, workload, group, kernel>>

\* Mutant: a namespace init has no parent-death link.
InitGateCloses ==
    /\ helper = "dead" /\ init = "gated"
    /\ init' = "zombie" /\ workload' = "none"
    /\ UNCHANGED <<host, broker, owner, files, listed, fd, helper, me, group, kernel, faults>>

\* The gate of an init closes, a namespace init gets its signal.
InitFollows ==
    /\ helper = "dead" /\ (init = "gated" \/ (init = "watch" /\ ~host))
    /\ init' = "zombie" /\ workload' = "none"
    /\ UNCHANGED <<host, broker, owner, files, listed, fd, helper, me, group, kernel, faults>>

\* Somebody reaps the child of a dead helper.
InitReaped ==
    /\ helper = "dead" /\ init = "zombie"
    /\ init' = "gone" /\ proc' = [proc EXCEPT ![me.pid] = 0]
    /\ UNCHANGED <<host, broker, owner, files, listed, fd, helper, me, workload, group, boot, clock, faults>>

WorkloadEnds ==
    /\ host /\ workload # "none" /\ workload' = "none"
    /\ UNCHANGED <<host, broker, owner, files, listed, fd, helper, init, me, group, kernel, faults>>

OtherStarts(p) ==
    /\ proc[p] = 0 /\ clock < MaxClock
    /\ clock' = clock + 1 /\ proc' = [proc EXCEPT ![p] = clock + 1]
    /\ UNCHANGED <<host, broker, owner, files, listed, fd, tree, group, boot, faults>>

OtherExits(p) ==
    /\ proc[p] # 0 /\ (me.pid = p => proc[p] # me.start \/ init = "gone")
    /\ proc' = [proc EXCEPT ![p] = 0]
    /\ UNCHANGED <<host, broker, owner, files, listed, fd, tree, group, boot, clock, faults>>

BrokerKilled ==
    /\ broker \notin {"down", "done"} /\ Fault
    /\ broker' = "down" /\ owner' = FALSE /\ fd' = Nobody
    /\ UNCHANGED <<host, files, listed, tree, group, kernel>>

\* The next broker has the lock, perhaps before the old helper has been killed.
BrokerStarts ==
    /\ Goto("down", IF exists THEN "lookBoot" ELSE "done")
    /\ UNCHANGED <<host, owner, files, listed, fd, tree, group, kernel, faults>>

\* Nothing is synced: contents that were written may be lost with the power.
Reboot ==
    /\ boot < MaxBoots /\ boot' = boot + 1
    /\ proc' = [p \in Pid |-> 0] /\ clock' = 0
    /\ broker' = "down" /\ owner' = FALSE /\ fd' = Nobody
    /\ helper' = "dead" /\ init' = "gone" /\ me' = Nobody /\ workload' = "none" /\ group' = FALSE
    /\ bootId' \in {bootId} \cup (IF bootId = Absent THEN {} ELSE {Torn})
    /\ identity' \in {identity} \cup (IF identity = None THEN {} ELSE {Half})
    /\ groupFile' \in {groupFile} \cup (IF groupFile = Absent THEN {} ELSE {Torn})
    /\ UNCHANGED <<host, exists, listed, faults>>

----------------------------------------------------------------------------
Launch ==
    \/ Mkdir \/ BootCreate \/ BootWrite \/ GroupCreate \/ GroupWrite \/ GroupMake \/ Popen

Check ==
    \/ HelperSeen \/ LookBoot \/ LookIdentity \/ LookTorn \/ LookPidfd \/ LookStat
    \/ LookReaped \/ LookSelect \/ LookGroup \/ LookEvents \/ LookRmdir \/ LookAgain
    \/ Scan \/ (\E n \in Names : Unlink(n)) \/ Rmdir

Supervisor ==
    \/ HelperForks \/ HelperCreates \/ HelperWrites \/ HelperReleases \/ HelperExits
    \/ GuardianOpens \/ GuardianMoves

Kernel == InitFollows \/ InitReaped \/ (~owner /\ HelperKilled)

\* The end of a workload that is being killed, or whose owner is dead.
Teardown ==
    \/ helper = "dead" /\ GuardianKills
    \/ workload = "killed" /\ WorkloadEnds
    \/ GuardianExits

Others ==
    \/ KillHelper \/ GiveUp \/ GuardianKills \/ GuardianFails \/ NamespaceEnds
    \/ HelperKilled \/ WorkloadEnds \/ BrokerKilled \/ Reboot
    \/ \E p \in Pid : OtherStarts(p) \/ OtherExits(p)

Next == Launch \/ Check \/ Supervisor \/ Kernel \/ Teardown \/ Others \/ BrokerStarts

Spec == Init /\ [][Next]_vars

\* Programs run on, the kernel delivers what is due, and a broker is started
\* again.  No workload has to end, no other process has to exit.
Fairness ==
    /\ WF_vars(Launch) /\ WF_vars(Check) /\ WF_vars(BrokerStarts)
    /\ WF_vars(Kernel) /\ WF_vars(Teardown) /\ WF_vars(Supervisor)

FairSpec == Spec /\ Fairness

----------------------------------------------------------------------------
(* Properties.                                                             *)

\* What runs is on record: as long as a workload runs, the directory and the
\* exact identity of its init are there, so that no look can call it gone.  The
\* one exception is a namespace whose broker is dead.
Recorded ==
    workload = "up" => \/ exists /\ identity = me
                       \/ ~host /\ ~owner

\* allocate_host_cgroup records a cgroup before it makes it: none is ever left
\* without a directory that names it.
GroupRecorded == group => exists /\ groupFile = 1

\* The exception to Recorded ends by itself.
Forgotten == workload # "none" /\ ~(exists /\ identity = me)
ForgottenEnds == Forgotten ~> workload = "none"

\* Three things block a broker: a torn host-cgroup, an identity that was torn in
\* this boot, and an identity of an earlier boot, if rmtree had got to boot-id but
\* not to namespace.stat and another process has both its number and its start.
Stuck ==
    \/ groupFile = Torn
    \/ identity = Half /\ bootId \in {boot, Absent}
    \/ /\ bootId = Absent /\ identity \in Process /\ identity # me
       /\ proc[identity.pid] = identity.start

\* Once its broker is dead, an execution is cleaned up in the end, whoever has
\* the number of its init by then.
Recovers == exists /\ ~owner ~> ~exists \/ Stuck
=============================================================================
