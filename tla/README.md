# TLA+ verification of the execution core of uraj

uraj is one person's infrastructure: Guix systems, dotfiles, and a set of
programs that run coding agents in containment.  This directory models the
part of it with the hardest behaviour: the **Paseo execution broker**, its
**agent supervisor** and the **records** they leave on disk, and the three
programs around them that share state with others, **branch GC**, the **shared
Podman runtime** and the **Paseo daemon service**.  TLC checks the models, and
TLAPS proves their safety properties for all values of the bounds.  Paths below
are relative to the repository.

## 1. Inventory

| Component | State | Operations | Interacts by |
|---|---|---|---|
| Execution broker, `src/python/uraj/paseo/broker.py` | clients and their jobs, executions with their directories, the shared SSH preparation, the branch GC queue, `stopping` | accept, start, refresh, status, terminate, sweep, launch, GC, shutdown, reconciliation on start | seqpacket socket with clients, `Popen` and signals with supervisors, pipe with the SSH service, files with its next incarnation |
| Execution supervisor, `src/c/uraj/paseo/agent-supervisor.c` | `stopping`, deadline, leader, the namespace or the cgroup | set-up, record, launch gate, relay of signals, grace, kill, report | PDEATHSIG, pidfds, a socketpair as gate and result channel, `namespace.stat` |
| Execution records (`boot-id`, `namespace.stat`, `host-cgroup`) | files in the execution directory | write, look, remove | written by broker and supervisor, read by the next broker and by the service |
| Provider client, `provider_client` in `broker.py` | one connection | send a request, relay signals, map the reply to a status | the broker's socket |
| Branch GC helper, `paseo/branch_gc.py` | flock; what it has read of the registry, of git and of GitHub | find merged branches, recheck, delete by compare-and-swap | started by the broker or by hand; git, GitHub, Paseo's registry |
| Shared SSH service, `src/guile/uraj/bin/contained-ssh.scm` | agent, policy, unlocked keys | start, unlock, answer, stop | pipe to the broker; ssh-agent |
| Paseo daemon service, `paseo/service.py` | lock of the state directory, one directory with a supervised namespace, pipes to its helper | activate; probe the broker, wait for SOPS, sweep, spawn, prepare, command, stream, clean up | the agent supervisor and its records, Shepherd, signals |
| Contained Podman runtime, `contained_podman.py` | `startup.lock`, leases on `sessions.lock`, `ready.json`, `last-detach`, the outer container | attach, repair, start, share, detach, stop, collect idle | sessions, `podman-stop` and the host service, by locks and files |
| Contained agent launcher, `bin/contained-agent.scm` | approval files | compose a bubblewrap command, exec | reads configuration |
| Configuration and activation, `config/*.py`, `home/activation.py` | documents | merge, replace | files |
| OpenClaw plugin, `scripts/openclaw/config-plugin/*.mjs` | personas, bindings, pauses | switch, verify, announce, retry | chat API |
| OpenClaw reconciler, `scripts/openclaw/config.mjs` | configuration and the record of what was declared | reconcile, set | renames |
| Gateway patches, `env/docker/openclaw-gateway` | progress cards | update, finish | chat API |

Guix declarations, dotfiles, editor configuration, deployment and style
scripts keep no state of their own and are not modelled.

**What is hard.** The broker is single-threaded, but everything around it is
not: four generations of processes end in any order, and each end becomes
visible at a different time; the helper the broker polls may die before the
processes it supervises; the broker itself may be killed between any two
steps, and its successor knows only what is on disk; a guardian may fail with
its group populated; a prompt for a passphrase may stay open for ever; four
timers race with the events they bound.  In the supervisor a signal may arrive
between any two statements, and a parent may die before the link to it exists.  The records
are created and written in separate system calls, removed file by file, and
read when their process number may belong to somebody else or to an earlier
boot.  Branch GC reads three sources one after the other while their owners
change them, and can only compare one of them at the moment it deletes.  The
Podman runtime is started, repaired and removed by processes that die while they
hold a lock, and whose commands go on without them, and judged by two stamps read
before they are used.  The service
has signal handlers for part of its life only, an exception may leave `Popen`
with a child that nobody remembers, and the record it relies on is written by a
supervisor that may not have got there yet.

**What makes each component correct.**

- Broker: executions with one provider and agent id never overlap; no workload
  is without an owner; "exited" means completely gone; whatever the broker's
  death leaves behind is found by the next start; branch GC runs alone; a
  running execution is killed only after its grace; requests, stops and the
  shutdown come to an end.
- Supervisor: the gate opens only after the record; everything below ends when
  the broker or the supervisor dies; the workload gets SIGTERM and two seconds;
  a result implies an empty namespace or group.
- Records: what runs is on record with its exact identity, a cgroup always has a
  directory that names it, a dead execution is cleaned up although its process
  number has been reused.
- Branch GC: only a branch that is integrated at exactly the tip that was
  checked, that is archived and has no worktree, is deleted, and those that may
  go do go.
- Podman runtime: no live process takes a runtime from a supervised agent; the
  idle collection keeps the grace and the tasks, and removes what nobody uses; no
  session waits forever.
- Paseo service: at most one daemon; its sockets and its record stay as long as
  it; neither start nor end hangs; nothing is left behind for ever.
- Not modelled: no key is usable in the SSH service before its unlock; the
  plugin sends nothing under a persona that was paused or changed; user changes
  survive a crash of the reconciler.

## 2. Modules

| Module | Models | Uses |
|---|---|---|
| `Execution` | the process tree of one execution as the broker sees it, and what the broker can find out about it | |
| `Broker` | the event loop, its clients, timers, SSH preparation, GC queue, crash and restart | `Execution` |
| `ExecutionSlots` | the abstract promise: an allocator of slots with at most one holder, and one truthful report | |
| `BrokerSlots` | the refinement mapping from `Broker` to `ExecutionSlots` | both |
| `BrokerInvariant` | the inductive invariant `IInv` | `BrokerSlots` |
| `BrokerProofs`, `BrokerSlotsProofs` | the proofs about the broker | `BrokerInvariant`, TLAPS |
| `BrokerPromisesProofs` | the proofs about branch GC, the client limit and the grace, some of which hold only without certain failures | `BrokerProofs` |
| `Supervisor` | `agent-supervisor.c`: `main`, the namespace init and the host guardian | |
| `SupervisorExecution` | the refinement mapping from `Supervisor` to the steps of `Execution` | both |
| `SupervisorProofs` | the proofs about the supervisor | `SupervisorExecution`, TLAPS |
| `Records` | the files of one execution, written, read and removed step by step, with kernel and boots | |
| `RecordsExecution` | what a look at the files may answer, in terms of `Execution` | `Records`, `Execution` |
| `RecordsProofs` | the proofs about the records | `RecordsExecution`, TLAPS |
| `BranchGC`, `BranchGCProofs` | a pass of the helper, and what others change during it | |
| `RuntimeLease` | the abstract lease table of a shared runtime | |
| `PodmanRuntime`, `PodmanRuntimeProofs` | `SharedRuntime` with sessions, `podman-stop`, the idle collection, and the refinement to the lease table | `RuntimeLease` |
| `DaemonHome` | the abstract promise about `~/.paseo`: one namespace on record at most, its daemon begins and ends inside that record | |
| `PaseoService`, `PaseoServiceProofs` | `paseo-service run`, statement by statement, its namespaces, and the refinement to `DaemonHome` | `DaemonHome` |
| `MCBroker`, `MCSupervisor`, `MCRecords`, `MCBranchGC`, `MCPodmanRuntime`, `MCPaseoService` | instances for TLC | |

The three levels fit together: `Supervisor` implements the steps that
`Execution` gives to the environment of the broker, and `Broker`, with those
steps, implements `ExecutionSlots`.  So the barrier between two executions of
one agent rests on the C code statement by statement, and both links are
proved.  `Records` looks into two things that these three take as single steps:
the bit `recorded`, and the question whether an execution has exited.
`RecordsExecution` maps its files and processes to a record of `Execution`
(`Evidence`), and `AnswersTrue` says of every step of a look that it takes the
init for dead exactly when `Execution!SupervisorExited` holds of it, and is done
only with a group that is gone.  This is why a look may be a single truthful
step in `Broker` and in `PaseoService`, which ask the same functions.  The
states in which torn or half removed records may mislead a look are named, in
`Stuck`, and so is the one in which a process that is being reaped ends the
broker (`Vanished`); section 6 describes them.  Beside these, `PodmanRuntime` implements
`RuntimeLease`, and `PaseoService` implements `DaemonHome`.

### How the state corresponds to the code

`Execution.exec[c]` is the execution of connection `c`: `helper` is the
`Popen` object (`none`, `up`, `dead`), `init` the process whose identity is in
`namespace.stat` (`recorded`), `workload` whether any descendant of init's
leader lives, `group`/`killed` the cgroup and its `cgroup.kill`, `dir` the
execution directory.

`Broker`: `clients` are the keys of `self.clients` and `job[c]` its job;
`phase` and `todo` say where in `run_event_loop` the process is.  One pass is
`poll` (branch GC), `ssh` (`SharedSSHPreparation.poll`), `sweep` (ended
executions and deadlines), `launch`, `handle` (packets, then one `accept`).
Each of the last three loops visits the clients one at a time in the order of
acceptance, as iterating over a `dict` does, so whatever else happens in the
system can happen between two visits.  `active` is the set that the launch pass
computes once before it starts and extends as it goes.  `finally` is the
clean-up clause, `down` no broker, `starting` the reconciliation in
`BrokerServer.__init__`.  `reply[c]` is the last reply sent to `c`, `gone` the
clients that have closed their side.

`Supervisor`: `outer` is the program counter of `main`, `init` that of the
child it forks; `pending` and `told` are the two copies of the C variable
`stopping`; `deadline` is the one variable that the guardian uses twice.

`Records`: a file is `Absent`, `Torn` (created, not yet written) or what was
written; `identity` is `namespace.stat`.  `broker` is the program counter of
`allocate_execution`, of the four questions of `namespace_has_exited` and of
`rmtree`, which removes the files in any order; `helper` and `init` those of the
supervisor and of the namespace init or host guardian.  `proc` gives each process
number the start time of its present owner, so numbers are reused and `me`
remains the identity that was.  A reboot loses torn contents.

`BranchGC`: `refs`, `base`, `wt`, `registry`, `prs` and `fetched` are the world,
`seen[g]` the copies that helper `g` made of it, `pc[g]` the read or the check it
is at.  A tip is the set of commits it reaches, so ancestry is inclusion.
`late[g]` is a history variable: what has changed after the helper began to check
again, the window that `docs/paseo-gc.org` calls "not a transaction".

`PodmanRuntime`: `startup` and `lease` are the two flocks, `pc` where each
session, `podman-stop` and the host service are; `container`, `ready` (of this
boot or an old one), `fresh` (which of `ready.json` and `last-detach` is younger
than the grace) and `tasks` are what they find.  `Engine.run` starts a `podman
--remote`, whose work the outer service does.  If the caller is killed, is
interrupted or runs into the time limit, its locks are free but the command may
be under way: `pending` counts these, `LateRemove` and `LateCreate` carry them
out, with whatever is there by then, and `late` records that a removal of this
kind took the container.  A reboot leaves the container in the storage of the
host service, not running.  `Condition`, `Users` and `pending` map the state to
`RuntimeLease`, whose users are the sessions that have seen the engine up and
hold on to it.

`PaseoService`: `pc[s]` walks through `run` and its `finally` clause, `mine[s]`
is the directory from `mkdtemp`, `todo[s]` the directories of the sweep; each
directory has a supervisor (`sup`), an init or helper (`init`), a record and the
helper's standard input, whose end of file or command decides what the helper
becomes.  `HomeOf` maps a directory to what `DaemonHome` calls it: on record and
idle, with a daemon, ended, or absent.  `Starting`, `Guarded` and `Finally` are the places where a signal
kills, raises inside `try`, or raises where nothing catches it.

### Abstractions

- A packet is received, and its content chosen, at the moment the loop reads
  it.  Requests are reduced to provider, agent id, probe, cwd and tier; every
  reason for which `validate_start_request` may refuse is one outcome.
- Timers are three-valued: not set, set, passed; they pass at any moment after
  they are set.
- The parent-death links of the helpers act together with the broker's death:
  the supervisor module shows separately that they do, from any statement.
- In `Broker`, `Supervisor` and `PaseoService`, `shutil.rmtree` and the writing
  of one record are atomic; their steps are in `Records`.  The directories
  `ssh-*` of the shared SSH service's own supervisor are not tracked.
- A comparison of the registry's bytes is one of its values: a workspace that was
  restored and archived again would make the code raise where the model goes on,
  so the model deletes more often than the code.
- Of the commands of the outer Podman that outlive their client, `rm` and `run` of
  the container are modelled.  The container of `remove_run_state` that outlives
  its client may remove the API socket of a later engine, whose API then does not
  answer (`ContainerFails`).  `podman-check` is a session whose agent is its checks.
- A look at the records is one step of `Broker` and `PaseoService`, which do not
  end in it; `Records` has the two cases in which it raises (section 6).
- A broker that is not ready, a SOPS secret that does not arrive and a
  preparation that fails are faults of the service's environment; unlocking keys
  may take for ever.
- `select` with its 50 ms timeout never blocks the loop.
- Bounds on counters: `MaxConn` connections, `MaxCrashes` kills of the broker,
  `MaxTerms` and `MaxSignals` signals, `Pids` process numbers, `MaxClock` starts
  in a boot, `MaxBoots`, `MaxChanges` by others, `Branches`, `Dirs` directory
  names, `MaxFaults` failures.  The proofs hold for all their values.

## 3. Runs

| Run | Asks | Bounds |
|---|---|---|
| `broker_barrier` | can two executions overlap, leak, be reported early or be lost by a restart; is the loop a slot allocator | two connections that share a key across both tiers, one crash, failing helpers, guardians and cgroups |
| `broker_ssh` | does the branch GC helper ever run beside a workload, with rejected unlocks, refreshes and a service that does not start, or exits and ends the loop | two connections, a keyed daily request and a keyless probe, failing helpers |
| `broker_teardown` | is an abandoned workload always torn down | two connections, a limit of one client, one crash, failing helpers and guardians; fairness |
| `broker_settles` | do shutdown and waiting requests come to an end, is the grace kept, although a prompt may stay open for ever | two connections with one key, branch GC and refreshes, no failures; fairness |
| `supervisor` | does a reported status imply an empty tree; is there always a grace; does everything end when the broker or `main` dies; is each statement a step of `Execution` | both tiers, three processes, two SIGTERMs, SIGKILL to the broker, `main` or init; fairness |
| `records` | can a look call a live workload gone, or keep asking for one that is dead; is a cgroup ever leaked, is a dead execution cleaned up in the end | one execution of either tier, two process numbers, three starts per boot, two boots, two failures; fairness |
| `branch_gc` | does a branch that is in use or not integrated ever go; does every branch that may go do so | two branches, two helpers, two changes by others, one failure; fairness |
| `podman_runtime` | does a stop, a repair or the idle collection take a runtime that is used; are both locks where they must be; do they implement a lease table; is an unused runtime removed; does a session wait for ever | two sessions, `podman-stop` and the host service, three failures of any kind, late commands and reboots among them; fairness |
| `paseo_service` | can there be two daemons, or two namespaces that could have one; can a daemon lose its sockets or its record (`DaemonHome`); does a start or an end hang; is anything left behind | two services, two directories, two signals, two failures; fairness |
| `broker_gc_crash` | violated, see below | one crash |
| `broker_ssh_exit` | violated, see below | service that exits |
| `supervisor_term` | violated, see below | one SIGTERM, no failures; fairness |

**Why the bounds are enough.**  The barrier, ownership and the GC's exclusion
are relations between two executions, and each conjunct of the code's own
bookkeeping mentions at most two clients.  A second crash finds nothing that the
first could not have left, because everything but `exec` is forgotten.  For the
safety properties this is moot: they are proved for all values, branch GC's
exclusion, for the helper of a killed broker, for those without a crash.  Two SIGTERMs cover a signal in each half of the loop in `main`;
two other processes cover one that forks while another dies.

In `records` two process numbers let another process take the number of init,
three starts let it do so in the boot of the execution and still be told from
it, and the second boot brings identities of the first; two failures are a
killed helper and a killed broker.  In `branch_gc` the second branch is the
neighbour that blocks or is blocked, the second helper what a killed one with a
running `update-ref` meets, and two changes are the pair that could cancel out
(a worktree added and removed, a base moved and reset).  In `podman_runtime` two
sessions are one that uses the runtime and one that repairs or joins it; three
failures suffice to kill a remover in the middle, its successor as well, and
break the container, or to leave two commands behind that are carried out under
a session that has attached since.  In `paseo_service` two directories are the one of a
predecessor and one's own, two failures kill a service and its supervisor, two
signals interrupt both a try and its `finally`.  All safety properties of these
four runs are proved for every bound, so the bounds matter to their liveness
properties only.

**Fairness.**  The loop of the broker and the two loops of the supervisor run
(weak fairness on their steps: they never block except in calls whose end the
model waits for); set timers expire; the kernel delivers a parent-death signal
and finishes what `cgroup.kill` began; the branch GC helper ends or reaches its
limit of a minute; Shepherd restarts a broker that is down.  Nothing is assumed
of clients, of workloads, of prompts or of who sends signals: a workload may
ignore SIGTERM for ever, a client may stay silent.

- `records`: broker, supervisor and kernel go on, and a broker is started again;
  no workload and no other process has to end.
- `branch_gc`: a helper goes on and is started again (the broker starts one after
  every agent).  Others have to do nothing.
- `podman_runtime`: launchers, `podman-stop` and the host service go on, and the
  grace passes.  Strong fairness is assumed for one step only, taking
  `startup.lock`: a blocking `flock` queues its waiters, so nobody is passed over
  for ever.  Agents and tasks need not end, a container need not come up, and a
  command without a client need not be carried out.
- `paseo_service`: a service that runs goes on, and the kernel finishes what is
  due.  `Settles` needs nothing else, a helper may hang and a daemon may ignore
  SIGTERM.  `Cleaned` says what it depends on itself: services are started again
  and again.  No fairness makes them.
  
`RequestsSettle` says "launched, refused or gone", and is claimed for requests that need no SSH
(section 6).

**Deadlock** is checked in every run but those of the supervisor and of the
records: a supervisor ends, and so does the life of one execution.

## 4. Disagreements between code and text

1. `broker_gc_crash`: the GC helper has no parent-death link; it survives a
   SIGKILL of the broker and the next broker launches beside it
   (`broker.py:629`; `docs/paseo-gc.org:56` says launches wait while it runs).
2. `broker_ssh_exit`: the exception for an exited SSH service leaves
   `run_event_loop` and its `finally` clause kills every execution, while the
   message asks for a restart "when safe" (`broker.py:423`, `672`).
3. `supervisor_term`: `main` tests `stopping` and then calls `waitpid` with
   signals unmasked; a SIGTERM in between is not relayed, and the execution is
   killed after five seconds without its grace (`agent-supervisor.c:306-310`;
   `docs/paseo-broker.org:54`).

## 5. Proofs

All proofs assume only the named assumptions of their modules: natural bounds,
failures out of the listed kinds, distinct processes, and, in `Broker`, that the
slots of the requests are keys.  They hold for any number of connections, keys,
crashes, sessions, branches, services and failures.

| Theorem | In | Says |
|---|---|---|
| `Invariance`, `TypeCorrect` | `BrokerProofs` | `IInv` and the types are invariant |
| `Barrier` | | executions of one provider and agent id never overlap |
| `Ownership` | | no live workload without a tracked client |
| `Teardown` | | "exited" means gone |
| `Records` | | what lives is on disk for the next start |
| `Refinement` | `BrokerSlotsProofs` | `Broker` implements `ExecutionSlots` |
| `AllocatorPromises` | | `ExecutionSlots` gives no slot to two executions, begins none twice, and its reports are true and final |
| `ExitIsFinal` | | after "exited" a client hears nothing else and its workload does not come back |
| `GCOfLivingBroker` | `BrokerPromisesProofs` | the branch GC helper of a broker that lives runs beside no workload, across any crashes |
| `GCRunsAlone` | | branch GC runs beside no workload, if no broker is killed (`MaxCrashes = 0`) |
| `ExecutionsLimited` | | never more executions than the limit of clients, those of earlier brokers included |
| `KillsWithGrace` | | no running execution is killed before its grace, if nobody else kills helpers and the SSH service does not exit |
| `Implementation` | `SupervisorProofs` | `Supervisor` implements the steps of `Execution` |
| `Teardown` | | a status implies an empty tree |
| `Grace` | | SIGTERM and two seconds before any kill, while supervision lives |
| `OnRecord` | `RecordsProofs` | what runs is on record with its exact identity, or is a namespace about to follow its dead broker |
| `GroupsOnRecord` | | a cgroup has a directory that names it |
| `TrueAnswers` | | a look concludes what is so, up to `Stuck` |
| `KeepsActive`, `KeepsTrees`, `KeepsWork` | `BranchGCProofs` | no deletion of an active branch, of one with a worktree, of work that is not integrated, up to what changed after the recheck began |
| `DeletesProven` | | the tip that is deleted is the tip that was proved to be merged, also by a helper that was killed |
| `KeepsWorkOfGrowingBase` | | if the base is only added to, whatever is deleted is integrated at that moment |
| `PassesExclude` | | two helpers are never in a pass at the same time |
| `LockDiscipline` | `PodmanRuntimeProofs` | both locks are held where they are needed, an exclusive lease is the only one, and whatever process works on the engine has it |
| `KeepsRuntime`, `KeepsGrace`, `KeepsTasks` | | what a stop, a repair or a collection that lives never takes |
| `LeaseRefinement` | | `PodmanRuntime` implements `RuntimeLease`: what happens to an engine in use was ordered while nobody used it |
| `LeaseServes`, `AttachedServed` | | a lease implies an engine, or one that a late removal has taken: of the table by itself, and so of every attached session |
| `ShareNeverWaits` | | the shared lease at the end of `attach` is always free |
| `GentleRuntime` | | without kills, commands out of time, and signals to a session that has no agent, an attached session has its container, and no agent and no task loses its runtime |
| `Alone`, `Kept` | `PaseoServiceProofs` | one daemon, whose directory and record stay |
| `ServicesImplementHome` | | `PaseoService` implements `DaemonHome` |
| `HomeAlone` | | `DaemonHome` has one directory at most that is not absent |

Each of the other five modules has its `TypeCorrect` as well.

**The broker.**  None of its properties is inductive.  `IInv` adds what they rest
on:

- `Tree`: an execution's workload is never ahead of its records, and its init or
  its cgroup is there for whoever has to find it;
- `Owners`: a helper or a workload belongs to a tracked client while the loop
  serves, and to the list still to be reconciled while the broker starts;
- `DisjointSlots`: clients with processes hold disjoint slots, all of them in
  `active` while the launch pass runs, which is why computing `active` once is
  sound;
- `JobKinds`, `PassesOverClients`, `UnusedConnections`, `Reports`: the
  bookkeeping that connects a pass with the clients it visits.

The induction has one lemma per kind of step instead of one case per conjunct:
most steps of the loop are *quiet* (`QuietStep`: nothing is launched, only idle
clients are closed, only finished executions are reported), and `QuietSteps`
proves once that they preserve `IInv`; launching, crash, restart and
reconciliation have their own.  `Calm` is the relation between the records of
one execution before and after any step that launches nothing.

The two conditional theorems, `GCRunsAlone` and `KillsWithGrace`, are the
positive side of the first two findings of section 4: with the failure that
breaks it excluded, each promise holds for any number of clients and beside
every other failure.  `Alone` (while a helper is listed, every execution is
still) is inductive without a bound on crashes, because a new broker lists none
and `IInv` lets it serve only when nothing is left of its predecessor; so
`GCOfLivingBroker` needs no condition, and the orphan of a killed broker is all
that breaks the exclusion.

`ExecutionsLimited` follows the same line: in the loop what lives belongs to clients,
which `accept` counts, and outside of the loop executions only end (`LiveStep`).

The abstract allocator is proved about as well (`AllocatorPromises`), and
`ExitIsFinal` is what the broker inherits from it through `Refinement`.

**The supervisor.**  `SInv` ties the two program counters together (`Stages`: the
record is written exactly between fork and gate), says that nothing runs before
the leader is started (`Quiet`), that a namespace ends with its init (`Ended`),
and what has to precede a deadline (`Graced`).

**The records.**  `Recorded` needs to know why nobody removes the files of a
running namespace: `OwnerLooks` says that the broker that started it looks only
after the helper has ended, that its `boot-id` is this boot's, and that the pidfd
it waits for is that of the right process.  `HostRecorded` covers the tier in
which the cgroup outlives the broker, and there `GroupFirst` (record before
group, group away before record) does the work.  `TrueAnswers` needs three more
facts: start times only grow, so that a number that was reused never carries the
start on record again (`Clocked`); a record of this boot names the init of this
execution or nobody (`Named`); and the process behind the pidfd is the one on
record, or the comparison of start times that follows will tell it from it
(`Opened`).

**Branch GC.**  `Knows` says, check by check, that what a helper found still holds
or that `late` says it does not; the last comparison is `update-ref`'s own, so
no commit is ever lost to a change of the tip (`DeletesProven`).  The excuse for
lost work is then the base alone: it was compared and moved afterwards.  Where
the integration branch is never reset the excuse is not needed
(`KeepsWorkOfGrowingBase`).

**The Podman runtime.**  `LocksHeld` is inductive with the types, and says nothing
of commands without a client, which hold no lock.  Its part `StagesHeld` is what
the stamps and leases are for: an agent that is a child has a launcher with a
lease, and a collector past its judgement still finds both stamps old, because
whoever could touch them needs a lease.  The refinement goes step by step:
a process that works on the engine has the exclusive lease, so that there are no
users (`NoUsers`); only a step on an engine that is up adds one (`Enters`); and a
process that is lost with a command under way had the exclusive lease as well, so
that the table's `Lose` happens without users.  What the table calls `Late` has no
such guard, in the table as in the code.  The table is therefore proved to serve
whom it lets in up to `taken`, and `AttachedServed` carries that over to the two
locks by the refinement.  Two exceptions remain in the action properties, orphans
and late removals: `GentleRuntime` drops both under `Gentle`, which excludes
the failures that make them and keeps every other.

**The service.**  `OneDaemon` rests on a chain: only the holder of the lock is past
it (`LockHeld`); a pipe is open only for a directory that is owned (`Pipes`); a
namespace with a command is on record (`OnRecord`), because the helper answers
only after its release; and therefore the holder either owns whatever has a
command or still has it on the list of its sweep (`OneArmed`), while what it is
about to remove is dead or can no longer get a command (`Unneeded`).  The
refinement to `DaemonHome` says more, that at most one namespace is on record at
all.  It needs `OneDirectory` (the sweep has removed every other directory
before `mkdtemp`) and `Fresh` (what is not on record has not begun).

**Only model-checked.**  Liveness under fairness and anything about `ENABLED` is
out of the prover's reach: `GoneClientsTornDown`, `StopCompletes`,
`RequestsSettle`, `OrphansEnd`, `ForgottenEnds`, `Recovers`, `Collected`,
`IdleStops`, `AttachSettles`, `Settles`, `Cleaned`.  So is induction over data,
and anything that reaches a `RECURSIVE` operator; no module has one.  Every
invariant and every action property of the passing runs is proved.

## 6. Limits of the models

**Broker.**  The shared SSH service is an external that answers, rejects, stalls
or exits; with shared SSH the wait for a key is not bounded by the code
(`broker.py:729`, `769`), so `RequestsSettle` is not claimed for requests that
need it; `shell` and configuration requests are reduced to their status.

**Records.**  `Recovers` excepts what `Stuck` names, and the code does behave so: a
`host-cgroup` that was created and not written reads as the empty path and
blocks for ever; a `namespace.stat` of that kind makes `int` raise until the next
boot; and if `rmtree` is killed after `boot-id` and before `namespace.stat`, an
identity of an earlier boot counts as one of this.  A process that is reaped
between the opening and the reading of its `/proc/PID/stat` makes the read fail
with `ESRCH`, and only `FileNotFoundError` is caught (`broker.py:200`): the broker
ends, and the next one finds the process gone (`LookReaped`).  Whole contents that
a power loss takes after `close` are not modelled.

**Branch GC.**  What the deletion cannot compare, the registry, the base and the
worktrees, may change between the last check and `update-ref`
(`docs/paseo-gc.org`: not a transaction); the properties say so with `Excused`.
`Collected` excepts branches behind one whose merge commit was not fetched:
`git merge-base` fails on it and ends every pass (`Blocked`, `branch_gc.py:185`).
A preview deletes nothing and is left out.

**Podman runtime.**  A removal or a start that has outlived its client is held back
by no lock (`contained_podman.py:132`, `439`): a session that finds the runtime
healthy in the meantime attaches, and loses it under its supervised agent.
`docs/contained-agent.org` says that shared session locks prevent an ordinary stop
while a session is attached, and that an idle runtime is stopped only when no
startup or session holds its locks.  The model has this for processes, and not for
the commands they leave behind; `AgentKeepsRuntime`, the lease table and
`AttachedServed` except it by name.  `GraceKept` and `TasksKept` speak of a
collector that lives.  `IdleStops` speaks of runtimes with a `ready.json` of this
boot: a start that was killed before it wrote one leaves a container that the
collection does not look at, until a session or `podman-stop` does
(`contained_podman.py:685`), and so do a reboot, and a late start that follows the
removal of the container and precedes that of the file.  An agent whose launcher was killed may lose its
runtime and its tasks (`docs/contained-agent.org` says as much).  Not modelled:
the translation of mounts and policy into a specification, and the diagnosis of
`runtime_checks` and `list_main`.

**Paseo service.**  Without a sandbox policy `run` ends in `execvp` and takes no
lock (`service.py:498`); `activate` rewrites settings once.  Neither is modelled.

### Not modelled

- *Provider client*: a loop around one connection; its packets and its end of file
  are in the broker's environment.
- *Shared SSH service*: in Guile, with `ssh-agent` doing most of the work; what the
  broker sees of it is in `Broker`.  Its own unlock and policy would be the next
  module, composed with `SharedSSHPreparation`.
- *Contained agent launcher*, *home activation*, *configuration merging*: one pass
  over documents, and `rename` at the end; nothing runs beside them.
- *OpenClaw plugin, reconciler and gateway patches*: another program, which shares
  no state with the execution core.  The plugin verifies a binding before an
  `await` and uses it after (`config-plugin/persona.mjs:370`), the reconciler
  renames two files with a crash possible in between (`config.mjs:197`): a module
  each, `Persona` and `Reconcile`, would be the next part of this development.
- *GitHub token helper, deployment and developer scripts*: sequential input and
  output against other services.
- *Guix declarations, desktop and editor configuration*: no behaviour of their own.
