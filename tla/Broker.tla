------------------------------- MODULE Broker -------------------------------
(***************************************************************************)
(* The Paseo execution broker: one single-threaded event loop that accepts *)
(* provider clients, prepares SSH through a shared service, launches       *)
(* supervised executions, and answers each client when its execution is    *)
(* gone.  One pass of the loop is                                          *)
(*                                                                         *)
(*   poll -> ssh -> sweep -> launch -> handle -> poll ...                  *)
(*                                                                         *)
(* and each of the last three visits its clients one at a time, in the     *)
(* order in which they were accepted.  Supervisors, clients, the SSH       *)
(* service, the branch GC helper, timers and signals act between any two   *)
(* of these steps.  "finally" is the clean-up of run_event_loop,           *)
(* "starting" the reconciliation in BrokerServer.__init__.                 *)
(***************************************************************************)
EXTENDS Execution, FiniteSets

CONSTANTS
    Requests,    \* the start requests that clients may make
    NoRequest,   \* job["request"] is absent
    MaxClients,  \* the client limit (64 in the code)
    MaxCrashes,  \* bound: SIGKILLs of the broker
    SharedSSH,   \* --shared-ssh
    BranchGC     \* --branch-gc is configured

HostTier == "host"
Home == "home"      \* the cwd of probes and projectless starts
HostOnlyProviders == {"opencode"}

\* job["request"], reduced to what the loop tells apart.
StartRequest ==
    [provider : STRING, agent : STRING, probe : BOOLEAN,
     cwd : STRING, tier : {"daily", "host"}]

\* The serialisation key: provider and agent id, none for probes.
Slot(r) == IF r.probe \/ r.agent = "" THEN {} ELSE {<<r.provider, r.agent>>}

\* validate_start_request accepts a request.
Valid(r) == r.provider \in HostOnlyProviders => r.tier = HostTier

ASSUME RequestAssumption ==
    /\ Requests \subseteq StartRequest
    /\ NoRequest \notin Requests
    /\ \A r \in Requests : Slot(r) \subseteq Key
ASSUME LimitAssumption == MaxClients \in Nat /\ MaxCrashes \in Nat
ASSUME OptionAssumption == SharedSSH \in BOOLEAN /\ BranchGC \in BOOLEAN

NeedsSSH(r) == SharedSSH /\ r.tier # HostTier /\ r.cwd # Home /\ ~r.probe

WantsBranchGC(r) ==
    BranchGC /\ r.cwd # Home /\ r.provider \notin HostOnlyProviders /\ ~r.probe

VARIABLES
    phase,      \* where the broker process is
    todo,       \* clients (and listener) the current pass still has to visit
    active,     \* the keys the launch pass takes for occupied
    clients,    \* the keys of self.clients
    accepted,   \* how many connections were accepted so far
    job,        \* the job of each client
    reply,      \* the last reply sent on each connection
    gone,       \* clients whose peer has closed the socket
    stopping,   \* self.stopping
    ssh,        \* SharedSSHPreparation and the service behind it
    gcJob,      \* self.branch_gc_jobs: at most one helper
    gcPending,  \* self.branch_gc_pending
    gcOrphan,   \* a helper of a broker that was killed is still running
    crashes     \* SIGKILLs so far

vars == <<exec, phase, todo, active, clients, accepted, job, reply, gone,
          stopping, ssh, gcJob, gcPending, gcOrphan, crashes>>

LoopPhase == {"poll", "ssh", "sweep", "launch", "handle"}
Phase == LoopPhase \cup {"finally", "down", "starting"}
Listener == MaxConn + 1        \* select reports the listener last
NoConn == 0

Job ==
    [req : Requests \cup {NoRequest}, refresh : BOOLEAN,
     ssh : {"none", "ready", "error"}, sshWaiting : BOOLEAN,
     waited : BOOLEAN,                         \* thirty seconds in "accepted"
     deadline : {"none", "set", "passed"},     \* five seconds to stop
     cleanup : {"no", "pending", "overdue", "failed"},
     disconnected : BOOLEAN]

NoJob ==
    [req |-> NoRequest, refresh |-> FALSE, ssh |-> "none", sshWaiting |-> FALSE,
     waited |-> FALSE, deadline |-> "none", cleanup |-> "no",
     disconnected |-> FALSE]

Reply == {"none", "started", "exited", "error", "ssh-refreshed", "status"}

SSHState ==
    [service : {"none", "up", "exited"}, pending : Conn \cup {NoConn},
     answer : {"none", "ready", "error"}]
NoSSH == [service |-> "none", pending |-> NoConn, answer |-> "none"]

Cwds == {r.cwd : r \in Requests}

TypeOK ==
    /\ exec \in [Conn -> ExecutionRecord]
    /\ phase \in Phase
    /\ todo \subseteq Conn \cup {Listener}
    /\ active \subseteq Key
    /\ clients \subseteq Conn
    /\ accepted \in 0..MaxConn
    /\ job \in [Conn -> Job]
    /\ reply \in [Conn -> Reply]
    /\ gone \subseteq Conn
    /\ stopping \in BOOLEAN
    /\ ssh \in SSHState
    /\ gcJob \in {"none", "running", "overdue", "finished"}
    /\ gcPending \subseteq Cwds
    /\ gcOrphan \in BOOLEAN
    /\ crashes \in 0..MaxCrashes

Init ==
    /\ ExecutionInit
    /\ phase = "poll" /\ todo = {} /\ active = {}
    /\ clients = {} /\ accepted = 0
    /\ job = [c \in Conn |-> NoJob]
    /\ reply = [c \in Conn |-> "none"]
    /\ gone = {} /\ stopping = FALSE /\ ssh = NoSSH
    /\ gcJob = "none" /\ gcPending = {} /\ gcOrphan = FALSE
    /\ crashes = 0

HasProcess(c) == exec[c].helper # "none"
\* Mutant: an execution whose helper has exited no longer blocks its key.
OccupiedByHelpers ==
    UNION {exec[c].slot : c \in {d \in clients : exec[d].helper = "up"}}

Occupied == UNION {exec[c].slot : c \in {d \in clients : HasProcess(d)}}

----------------------------------------------------------------------------
(* Small pieces that the handlers share.                                   *)

\* The pass p visits c now: nobody accepted earlier is still to be visited.
Visits(p, c) ==
    /\ phase = p /\ c \in todo
    /\ \A d \in todo : c <= d

Visited(c) == todo' = todo \ {c} /\ UNCHANGED phase

Send(c, r) == reply' = [reply EXCEPT ![c] = r]

Update(c, j) ==
    /\ job' = [job EXCEPT ![c] = j]
    /\ UNCHANGED <<clients, gone>>

\* Mutant: the entry is overwritten with nothing instead of being dropped.
CloseLeavesNone(c) ==
    /\ clients' = clients \ {c}
    /\ job' = [job EXCEPT ![c] = NoRequest]
    /\ gone' = gone \ {c}

\* close_client_and_release_resources, but for the execution directory.
Close(c) ==
    /\ clients' = clients \ {c}
    /\ job' = [job EXCEPT ![c] = NoJob]
    /\ gone' = gone \ {c}

KeepClients == UNCHANGED <<clients, job, gone>>
KeepGC == UNCHANGED <<gcJob, gcPending, gcOrphan>>
KeepWorld == UNCHANGED <<accepted, stopping, crashes>>

\* request_execution_stop: a second request leaves the deadline alone.
StopRequested(j) == IF j.deadline = "none" THEN [j EXCEPT !.deadline = "set"] ELSE j

\* The finally clause: kill the GC helper and every owned helper, wait for
\* the helpers, then close the clients one by one.
EnterFinally ==
    /\ phase' = "finally" /\ todo' = clients
    /\ exec' = [c \in Conn |-> IF c \in clients THEN KillHelper(exec[c]) ELSE exec[c]]
    /\ gcJob' = "none"
    /\ UNCHANGED <<active, gcPending, gcOrphan, reply, ssh>>
    /\ KeepClients /\ KeepWorld

\* Mutant: other clients do not delay the helper.
BranchGCLaunchesBesideClients(cs, running, pending) ==
    IF stopping \/ running # "none" \/ pending = {}
    THEN {[job |-> running, pending |-> pending]}
    ELSE {[job |-> j, pending |-> pending \ {w}] :
              j \in {"running", "none"}, w \in pending}

\* launch_pending_branch_gc: the possible new values of its two lists.
BranchGCLaunches(cs, running, pending) ==
    IF stopping \/ cs # {} \/ running # "none" \/ pending = {}
    THEN {[job |-> running, pending |-> pending]}
    ELSE {[job |-> j, pending |-> pending \ {w}] :
              j \in {"running", "none"}, w \in pending}

----------------------------------------------------------------------------
(* Top of the loop: poll_branch_gc, then SharedSSHPreparation.poll.        *)

PollBranchGC ==
    /\ phase = "poll"
    /\ ~stopping \/ clients # {}
    /\ LET left == IF gcJob = "running" /\ ~stopping THEN "running" ELSE "none" IN
       IF stopping
       THEN gcJob' = left /\ UNCHANGED gcPending
       ELSE \E o \in BranchGCLaunches(clients, left, gcPending) :
               gcJob' = o.job /\ gcPending' = o.pending
    /\ phase' = "ssh"
    /\ UNCHANGED <<exec, todo, active, reply, ssh, gcOrphan>>
    /\ KeepClients /\ KeepWorld

\* Mutant: the end of the loop waits for the answer of an open prompt.
LeaveLoopAnswered ==
    /\ phase = "poll"
    /\ stopping /\ clients = {}
    /\ ssh.pending = NoConn \/ ssh.answer # "none"
    /\ EnterFinally

LeaveLoop ==
    /\ phase = "poll"
    /\ stopping /\ clients = {}
    /\ EnterFinally

BeginSweep == phase' = "sweep" /\ todo' = clients

\* Mutant: reading the service's answer blocks until there is one.
PollBlockingSSH ==
    /\ phase = "ssh"
    /\ ssh.service # "exited" /\ ssh.answer = "none" /\ ssh.pending = NoConn
    /\ BeginSweep
    /\ UNCHANGED <<exec, active, reply, ssh>>
    /\ KeepClients /\ KeepGC /\ KeepWorld

\* No service, or nothing to read from it.
PollIdleSSH ==
    /\ phase = "ssh"
    /\ ssh.service # "exited" /\ ssh.answer = "none"
    /\ BeginSweep
    /\ UNCHANGED <<exec, active, reply, ssh>>
    /\ KeepClients /\ KeepGC /\ KeepWorld

\* The answer goes to the job that asked, which may be closed by now.
PollSSHAnswer ==
    /\ phase = "ssh"
    /\ ssh.service = "up" /\ ssh.answer # "none"
    /\ job' = [c \in Conn |->
                 IF c = ssh.pending /\ c \in clients
                 THEN [job[c] EXCEPT !.ssh = ssh.answer] ELSE job[c]]
    /\ ssh' = [ssh EXCEPT !.pending = NoConn, !.answer = "none"]
    /\ BeginSweep
    /\ UNCHANGED <<exec, active, reply, clients, gone>>
    /\ KeepGC /\ KeepWorld

\* poll raises ValueError, and nothing in the loop catches it.
PollDeadSSH ==
    /\ phase = "ssh"
    /\ ssh.service = "exited"
    /\ EnterFinally

\* prepare(job) on service state s: a single request may be outstanding, and
\* writing to a service that has exited raises BrokenPipeError.
PrepareFails(s) == s.pending = NoConn /\ s.service = "exited"
Prepared(s, c) == IF s.pending = NoConn THEN [s EXCEPT !.pending = c] ELSE s

----------------------------------------------------------------------------
(* First pass: report refreshes and ended executions, enforce deadlines.   *)

SweepRefreshAnswered(c) ==
    /\ Visits("sweep", c)
    /\ job[c].refresh /\ job[c].ssh # "none"
    /\ Send(c, IF job[c].ssh = "error" THEN "error" ELSE "ssh-refreshed")
    /\ Close(c) /\ Visited(c)
    /\ UNCHANGED <<exec, active, ssh>>
    /\ KeepGC /\ KeepWorld

SweepRefreshPrepares(c) ==
    /\ Visits("sweep", c)
    /\ job[c].refresh /\ job[c].ssh = "none" /\ ~stopping
    /\ IF PrepareFails(ssh)
       THEN EnterFinally
       ELSE /\ ssh' = Prepared(ssh, c)
            /\ Visited(c)
            /\ UNCHANGED <<exec, active, reply>>
            /\ KeepClients /\ KeepGC /\ KeepWorld

\* The helper is gone but its namespace, guardian or group is not: wait, and
\* say so once after ten seconds.
SweepTeardownPending(c) ==
    /\ Visits("sweep", c)
    /\ exec[c].helper = "dead"
    /\ \E o \in NamespaceExited(exec[c]) :
          /\ ~o.done
          /\ exec' = [exec EXCEPT ![c] = o.exec]
    /\ IF job[c].cleanup = "overdue"
       THEN Update(c, [job[c] EXCEPT !.cleanup = "failed"]) /\ Send(c, "error")
       ELSE /\ Update(c, IF job[c].cleanup = "no"
                         THEN [job[c] EXCEPT !.cleanup = "pending"] ELSE job[c])
            /\ UNCHANGED reply
    /\ Visited(c)
    /\ UNCHANGED <<active, ssh>>
    /\ KeepGC /\ KeepWorld

\* Mutant: the helper's exit alone ends the execution.
SweepExitedWithHelper(c) ==
    /\ Visits("sweep", c)
    /\ exec[c].helper = "dead"
    /\ Send(c, "exited")
    /\ Close(c) /\ Visited(c)
    /\ UNCHANGED <<exec, active, ssh>>
    /\ KeepGC /\ KeepWorld

\* Teardown is complete: report, remove the directory, queue branch GC.
SweepExited(c) ==
    /\ Visits("sweep", c)
    /\ exec[c].helper = "dead"
    /\ \E o \in NamespaceExited(exec[c]) :
          /\ o.done
          /\ exec' = [exec EXCEPT ![c] = RemoveDirectory(o.exec)]
    /\ Send(c, "exited")
    /\ Close(c) /\ Visited(c)
    /\ IF stopping \/ ~WantsBranchGC(job[c].req)
       THEN UNCHANGED <<gcJob, gcPending>>
       ELSE \E o \in BranchGCLaunches(clients \ {c}, gcJob,
                                      gcPending \cup {job[c].req.cwd}) :
               gcJob' = o.job /\ gcPending' = o.pending
    /\ UNCHANGED <<active, ssh, gcOrphan>>
    /\ KeepWorld

\* Mutant: the helper is killed as soon as it has been asked to stop.
SweepRunningImpatient(c) ==
    /\ Visits("sweep", c)
    /\ exec[c].helper = "up"
    /\ Update(c, IF stopping THEN StopRequested(job[c]) ELSE job[c])
    /\ exec' = [exec EXCEPT ![c] =
                  IF job[c].deadline # "none" THEN KillHelper(exec[c]) ELSE exec[c]]
    /\ Visited(c)
    /\ UNCHANGED <<active, reply, ssh>>
    /\ KeepGC /\ KeepWorld

\* A running execution: stop it on shutdown, kill its helper when late.
SweepRunning(c) ==
    /\ Visits("sweep", c)
    /\ exec[c].helper = "up"
    /\ Update(c, IF stopping THEN StopRequested(job[c]) ELSE job[c])
    /\ exec' = [exec EXCEPT ![c] =
                  IF job[c].deadline = "passed" THEN KillHelper(exec[c]) ELSE exec[c]]
    /\ Visited(c)
    /\ UNCHANGED <<active, reply, ssh>>
    /\ KeepGC /\ KeepWorld

\* Nothing launched yet: close on shutdown, give up after thirty seconds.
SweepWaiting(c) ==
    /\ Visits("sweep", c)
    /\ ~HasProcess(c)
    /\ job[c].refresh => stopping /\ job[c].ssh = "none"
    /\ IF stopping
       THEN Close(c) /\ UNCHANGED reply
       ELSE IF job[c].waited /\ ~job[c].sshWaiting
       THEN Close(c) /\ Send(c, "error")
       ELSE KeepClients /\ UNCHANGED reply
    /\ Visited(c)
    /\ UNCHANGED <<exec, active, ssh>>
    /\ KeepGC /\ KeepWorld

EndSweep ==
    /\ phase = "sweep" /\ todo = {}
    /\ phase' = "launch" /\ todo' = clients
    /\ active' = Occupied
    /\ UNCHANGED <<exec, reply, ssh>>
    /\ KeepClients /\ KeepGC /\ KeepWorld

----------------------------------------------------------------------------
(* Second pass: launch what may be launched.                               *)

\* c has a request whose key is free, and no branch GC helper is listed.
MayLaunch(c) ==
    /\ Visits("launch", c)
    /\ job[c].req # NoRequest /\ ~HasProcess(c)
    /\ gcJob = "none"
    /\ Slot(job[c].req) \cap active = {}

\* Nothing to launch, or another execution still holds the key.
LaunchNotDue(c) ==
    /\ Visits("launch", c)
    /\ \/ job[c].req = NoRequest
       \/ HasProcess(c)
       \/ /\ job[c].req # NoRequest /\ gcJob = "none"
          /\ Slot(job[c].req) \cap active # {}
    /\ Visited(c)
    /\ UNCHANGED <<exec, active, reply, ssh>>
    /\ KeepClients /\ KeepGC /\ KeepWorld

\* A branch GC helper runs: hold the launch and restart its thirty seconds.
LaunchHeld(c) ==
    /\ Visits("launch", c)
    /\ job[c].req # NoRequest /\ ~HasProcess(c)
    /\ gcJob # "none"
    /\ Update(c, [job[c] EXCEPT !.waited = FALSE])
    /\ Visited(c)
    /\ UNCHANGED <<exec, active, reply, ssh>>
    /\ KeepGC /\ KeepWorld

AwaitsSSH(c) == NeedsSSH(job[c].req) /\ job[c].ssh # "ready"

\* Ask the shared service, starting it first if there is none.
LaunchPreparesSSH(c) ==
    /\ MayLaunch(c)
    /\ AwaitsSSH(c) /\ job[c].ssh = "none"
    /\ LET s == IF ssh.service = "none" THEN [NoSSH EXCEPT !.service = "up"] ELSE ssh IN
       /\ ~PrepareFails(s)
       /\ ssh' = Prepared(s, c)
    /\ Update(c, [job[c] EXCEPT !.sshWaiting = TRUE])
    /\ Visited(c)
    /\ UNCHANGED <<exec, active, reply>>
    /\ KeepGC /\ KeepWorld

\* Preparation failed, the service cannot be started or reached, or Popen
\* and its preparation raise: the client gets an error.
LaunchFails(c) ==
    /\ MayLaunch(c)
    /\ AwaitsSSH(c) =>
          \/ job[c].ssh = "error"
          \/ ssh.service = "none" /\ "ssh-start" \in Faults
          \/ PrepareFails(ssh)
    \* A host group that cannot be removed keeps its directory and record.
    /\ \/ UNCHANGED exec
       \/ /\ ~AwaitsSSH(c) /\ job[c].req.tier = HostTier /\ "cgroup" \in Faults
          /\ exec' = [exec EXCEPT ![c].dir = TRUE, ![c].group = TRUE, ![c].host = TRUE]
    /\ Send(c, "error")
    /\ Close(c) /\ Visited(c)
    /\ UNCHANGED <<active, ssh>>
    /\ KeepGC /\ KeepWorld

\* launch_execution succeeds: from here on c occupies its key.
LaunchStarts(c) ==
    /\ MayLaunch(c)
    /\ ~AwaitsSSH(c)
    /\ LET r == job[c].req IN
       /\ exec' = [exec EXCEPT ![c] = NewExecution(Slot(r), r.tier = HostTier)]
       /\ active' = active \cup Slot(r)
    /\ Update(c, [job[c] EXCEPT !.sshWaiting = FALSE, !.waited = FALSE])
    /\ Send(c, "started")
    /\ Visited(c)
    /\ UNCHANGED ssh
    /\ KeepGC /\ KeepWorld

EndLaunch ==
    /\ phase = "launch" /\ todo = {}
    /\ phase' = "handle"
    /\ todo' = {c \in clients : ~job[c].disconnected}
               \cup (IF stopping THEN {} ELSE {Listener})
    /\ UNCHANGED <<exec, active, reply, ssh>>
    /\ KeepClients /\ KeepGC /\ KeepWorld

----------------------------------------------------------------------------
(* Third pass: one packet from each readable client, then one connection.  *)

\* Nothing to read; a closed peer is always readable.
HandleQuiet(c) ==
    /\ Visits("handle", c)
    /\ c \notin gone
    /\ Visited(c)
    /\ UNCHANGED <<exec, active, reply, ssh>>
    /\ KeepClients /\ KeepGC /\ KeepWorld

\* At the client limit the peer is closed without a word.
Accept ==
    /\ Visits("handle", Listener)
    /\ accepted < MaxConn
    /\ accepted' = accepted + 1
    /\ clients' = IF Cardinality(clients) >= MaxClients
                  THEN clients ELSE clients \cup {accepted + 1}
    /\ Visited(Listener)
    /\ UNCHANGED <<exec, active, reply, ssh, job, gone, stopping, crashes>>
    /\ KeepGC

Fresh(c) == job[c].req = NoRequest /\ ~job[c].refresh

ReceiveStart(c) ==
    /\ Visits("handle", c) /\ c \in Conn
    /\ Fresh(c)
    /\ \E r \in Requests :
          /\ Valid(r)
          /\ Update(c, [job[c] EXCEPT !.req = r])
    /\ Visited(c)
    /\ UNCHANGED <<exec, active, reply, ssh>>
    /\ KeepGC /\ KeepWorld

\* The request itself is sent to the service by the next sweep.
ReceiveRefresh(c) ==
    /\ Visits("handle", c) /\ c \in Conn
    /\ Fresh(c) /\ SharedSSH
    /\ ssh' = IF ssh.service = "none" THEN [NoSSH EXCEPT !.service = "up"] ELSE ssh
    /\ Update(c, [job[c] EXCEPT !.refresh = TRUE, !.sshWaiting = TRUE])
    /\ Visited(c)
    /\ UNCHANGED <<exec, active, reply>>
    /\ KeepGC /\ KeepWorld

ReceiveStatus(c) ==
    /\ Visits("handle", c) /\ c \in Conn
    /\ Fresh(c)
    /\ Send(c, "status")
    /\ Close(c) /\ Visited(c)
    /\ UNCHANGED <<exec, active, ssh>>
    /\ KeepGC /\ KeepWorld

\* A peer that has closed sent finitely many packets, so one counts.
ReceiveTerminate(c) ==
    /\ Visits("handle", c) /\ c \in Conn
    /\ ~Fresh(c)
    /\ c \in gone => job[c].deadline = "none"
    /\ IF HasProcess(c) THEN Update(c, StopRequested(job[c])) ELSE Close(c)
    /\ Visited(c)
    /\ UNCHANGED <<exec, active, reply, ssh>>
    /\ KeepGC /\ KeepWorld

\* End of file, a truncated or invalid packet, a rejected request.
ReceiveBad(c) ==
    /\ Visits("handle", c) /\ c \in Conn
    /\ Send(c, "error")
    /\ IF HasProcess(c)
       THEN Update(c, [StopRequested(job[c]) EXCEPT !.disconnected = TRUE])
       ELSE Close(c)
    /\ Visited(c)
    /\ UNCHANGED <<exec, active, ssh>>
    /\ KeepGC /\ KeepWorld

EndHandle ==
    /\ phase = "handle" /\ todo = {}
    /\ phase' = "poll" /\ UNCHANGED todo
    /\ UNCHANGED <<exec, active, reply, ssh>>
    /\ KeepClients /\ KeepGC /\ KeepWorld

----------------------------------------------------------------------------
(* The finally clause, the end of the process and the next start.          *)

\* The directory survives unless teardown is already complete.
FinallyCloses(c) ==
    /\ Visits("finally", c)
    /\ IF exec[c].dir
       THEN \E o \in NamespaceExited(exec[c]) :
              exec' = [exec EXCEPT ![c] = IF o.done THEN RemoveDirectory(o.exec) ELSE o.exec]
       ELSE UNCHANGED exec
    /\ Close(c) /\ Visited(c)
    /\ UNCHANGED <<active, reply, ssh>>
    /\ KeepGC /\ KeepWorld

\* What the next broker process does not inherit.
Forget ==
    /\ phase' = "down" /\ todo' = {} /\ active' = {}
    /\ clients' = {} /\ gone' = {} /\ job' = [c \in Conn |-> NoJob]
    /\ stopping' = FALSE
    /\ ssh' = NoSSH        \* its supervisor is killed with the broker
    /\ gcJob' = "none" /\ gcPending' = {}

BrokerExits ==
    /\ phase = "finally" /\ todo = {}
    /\ Forget
    /\ UNCHANGED <<exec, reply, gcOrphan, accepted, crashes>>

\* SIGKILL: parent-death links kill the helpers, nothing kills a GC helper.
BrokerCrashes ==
    /\ crashes < MaxCrashes /\ phase # "down"
    /\ crashes' = crashes + 1
    /\ exec' = [c \in Conn |-> KillHelper(exec[c])]
    /\ gcOrphan' = (gcOrphan \/ gcJob \in {"running", "overdue"})
    /\ Forget
    /\ UNCHANGED <<reply, accepted>>

Restart ==
    /\ phase = "down"
    /\ phase' = "starting" /\ todo' = {c \in Conn : exec[c].dir}
    /\ UNCHANGED <<exec, active, reply, ssh>>
    /\ KeepClients /\ KeepGC /\ KeepWorld

\* wait_for_old_execution_and_remove_directory, one look at a time.
Reconcile(c) ==
    /\ phase = "starting" /\ c \in todo
    /\ \E o \in NamespaceExited(exec[c]) :
          IF o.done
          THEN exec' = [exec EXCEPT ![c] = RemoveDirectory(o.exec)] /\ Visited(c)
          ELSE exec' = [exec EXCEPT ![c] = o.exec] /\ UNCHANGED <<todo, phase>>
    /\ UNCHANGED <<active, reply, ssh>>
    /\ KeepClients /\ KeepGC /\ KeepWorld

\* Ten seconds were not enough, and another look would change nothing:
\* refuse to start.
RefuseStartup ==
    /\ phase = "starting"
    /\ \E c \in todo :
          [done |-> FALSE, exec |-> exec[c]] \in NamespaceExited(exec[c])
    /\ phase' = "down" /\ todo' = {}
    /\ UNCHANGED <<exec, active, reply, ssh>>
    /\ KeepClients /\ KeepGC /\ KeepWorld

\* Mutant: clients are admitted before every old execution is reconciled.
BeginServingEarly ==
    /\ phase = "starting"
    /\ phase' = "poll" /\ todo' = {}
    /\ UNCHANGED <<exec, active, reply, ssh>>
    /\ KeepClients /\ KeepGC /\ KeepWorld

BeginServing ==
    /\ phase = "starting" /\ todo = {}
    /\ phase' = "poll" /\ UNCHANGED todo
    /\ UNCHANGED <<exec, active, reply, ssh>>
    /\ KeepClients /\ KeepGC /\ KeepWorld

----------------------------------------------------------------------------
(* What happens around the broker between two of its steps.                *)

KeepBroker ==
    UNCHANGED <<phase, todo, active, clients, accepted, reply, crashes>>

ExecutionSteps ==
    /\ \E c \in Conn : ExecutionStep(c)
    /\ KeepBroker /\ UNCHANGED <<job, gone, stopping, ssh>> /\ KeepGC

ClientCloses(c) ==
    /\ c \in clients \ gone
    /\ gone' = gone \cup {c}
    /\ KeepBroker /\ UNCHANGED <<exec, job, stopping, ssh>> /\ KeepGC

Signalled ==
    /\ phase \in LoopPhase /\ ~stopping
    /\ stopping' = TRUE
    /\ KeepBroker /\ UNCHANGED <<exec, job, gone, ssh>> /\ KeepGC

\* Thirty seconds since "accepted", five since the stop request, ten since
\* teardown was first found incomplete.
WaitExpires(c) ==
    /\ c \in clients /\ ~HasProcess(c) /\ ~job[c].waited
    /\ job' = [job EXCEPT ![c].waited = TRUE]
    /\ KeepBroker /\ UNCHANGED <<exec, gone, stopping, ssh>> /\ KeepGC

DeadlineExpires(c) ==
    /\ job[c].deadline = "set"
    /\ job' = [job EXCEPT ![c].deadline = "passed"]
    /\ KeepBroker /\ UNCHANGED <<exec, gone, stopping, ssh>> /\ KeepGC

CleanupExpires(c) ==
    /\ job[c].cleanup = "pending"
    /\ job' = [job EXCEPT ![c].cleanup = "overdue"]
    /\ KeepBroker /\ UNCHANGED <<exec, gone, stopping, ssh>> /\ KeepGC

\* The service answers a request: keys loaded, or unlocking rejected.
SSHAnswers ==
    /\ ssh.service = "up" /\ ssh.pending # NoConn /\ ssh.answer = "none"
    /\ \E a \in {"ready", "error"} : ssh' = [ssh EXCEPT !.answer = a]
    /\ KeepBroker /\ UNCHANGED <<exec, job, gone, stopping>> /\ KeepGC

SSHServiceExits ==
    /\ "ssh-exit" \in Faults
    /\ ssh.service = "up"
    /\ ssh' = [ssh EXCEPT !.service = "exited"]
    /\ KeepBroker /\ UNCHANGED <<exec, job, gone, stopping>> /\ KeepGC

\* The GC helper finishes, or has run for a minute; an orphan just finishes.
GCHelperAdvances ==
    /\ \/ /\ gcJob = "running"
          /\ gcJob' \in {"finished", "overdue"}
          /\ UNCHANGED gcOrphan
       \/ /\ gcOrphan
          /\ gcOrphan' = FALSE
          /\ UNCHANGED gcJob
    /\ KeepBroker /\ UNCHANGED <<exec, job, gone, stopping, ssh, gcPending>>

----------------------------------------------------------------------------
ClientStep(c) ==
    \/ SweepRefreshAnswered(c) \/ SweepRefreshPrepares(c)
    \/ SweepTeardownPending(c) \/ SweepExited(c)
    \/ SweepRunning(c) \/ SweepWaiting(c)
    \/ LaunchNotDue(c) \/ LaunchHeld(c) \/ LaunchPreparesSSH(c)
    \/ LaunchFails(c) \/ LaunchStarts(c)
    \/ ReceiveStart(c) \/ ReceiveRefresh(c) \/ ReceiveStatus(c)
    \/ ReceiveTerminate(c) \/ ReceiveBad(c)
    \/ FinallyCloses(c) \/ Reconcile(c)

BrokerStep ==
    \/ PollBranchGC \/ LeaveLoop
    \/ PollIdleSSH \/ PollSSHAnswer \/ PollDeadSSH
    \/ \E c \in Conn : ClientStep(c)
    \/ \E c \in Conn \cup {Listener} : HandleQuiet(c)
    \/ Accept
    \/ EndSweep \/ EndLaunch \/ EndHandle
    \/ BrokerExits \/ BeginServing

Timers ==
    \E c \in Conn : WaitExpires(c) \/ DeadlineExpires(c) \/ CleanupExpires(c)

Environment ==
    \/ ExecutionSteps \/ Timers
    \/ \E c \in Conn : ClientCloses(c)
    \/ Signalled \/ SSHAnswers \/ SSHServiceExits \/ GCHelperAdvances
    \/ BrokerCrashes \/ Restart \/ RefuseStartup

Next == BrokerStep \/ Environment

Spec == Init /\ [][Next]_vars
----------------------------------------------------------------------------
(* Fairness: the loop runs, select never blocks longer than 50 ms, timers  *)
(* expire, the kernel delivers what it owes, Shepherd respawns the broker. *)
(* Clients, workloads, unlock prompts and signals are left unconstrained.  *)

Kernel(c) ==
    /\ KernelStep(c)
    /\ KeepBroker /\ UNCHANGED <<job, gone, stopping, ssh>> /\ KeepGC

Fairness ==
    /\ WF_vars(BrokerStep) /\ WF_vars(Restart) /\ WF_vars(GCHelperAdvances)
    /\ \A c \in Conn :
          /\ WF_vars(Kernel(c))
          /\ WF_vars(WaitExpires(c)) /\ WF_vars(DeadlineExpires(c))

FairSpec == Spec /\ Fairness

----------------------------------------------------------------------------
(* Properties.                                                             *)

\* Two workloads with the same provider and agent id never overlap, whatever
\* their tiers, across cancellation, failed teardown, a killed supervisor or
\* guardian and a restart of the broker (the replacement barrier of the
\* launch pass, of SweepTeardownPending and of Reconcile).
ReplacementBarrier ==
    \A c, d \in Conn :
        c # d /\ exec[c].slot \cap exec[d].slot # {}
        => ~(exec[c].workload /\ exec[d].workload)

\* While the loop serves, every live workload belongs to a connected client of
\* this broker: nothing leaks through an early close, a failed launch or a
\* restart that admits clients before old executions are gone.
OwnedWorkloads ==
    phase \in LoopPhase =>
        \A c \in Conn : exec[c].workload => c \in clients

\* "exited" is reported only when no process of the execution is left and its
\* cgroup and directory are gone.
ExitedAfterTeardown ==
    \A c \in Conn : reply[c] = "exited" =>
        /\ ~exec[c].workload /\ exec[c].init # "up" /\ exec[c].helper = "dead"
        /\ ~exec[c].group /\ ~exec[c].dir

\* Whatever the moment at which the broker dies, each live workload has its
\* identity and its directory on disk for the next start to find.
RecordedWorkloads ==
    \A c \in Conn : exec[c].workload => exec[c].recorded /\ exec[c].dir

\* The branch GC helper never runs beside a workload.
GCExclusive ==
    gcJob \in {"running", "overdue"} \/ gcOrphan =>
        \A c \in Conn : ~exec[c].workload

\* A helper whose workload runs is killed only after a stop request and the
\* five seconds of grace that follow it.
KillsOnlyAfterGrace ==
    [][\A c \in Conn :
         /\ exec[c].helper = "up" /\ exec'[c].helper = "dead"
         /\ exec[c].init = "up" /\ phase' # "down"
         => job[c].deadline = "passed"]_vars

\* A client that closes its socket, or is killed, has its workload torn down,
\* even if the broker or the guardian dies meanwhile.
GoneClientsTornDown ==
    \A c \in Conn : c \in gone ~> ~exec[c].workload

\* SIGTERM ends the broker: no client, helper or GC child holds it up forever.
StopCompletes == stopping ~> phase = "down"

\* A start request that needs no SSH is launched, refused or abandoned: its
\* wait for a key, for branch GC or for an unresponsive predecessor is bounded,
\* and an unlock prompt that somebody else has open, however long, is no wait.
RequestsSettle ==
    \A c \in Conn :
        job[c].req # NoRequest /\ ~NeedsSSH(job[c].req)
            ~> HasProcess(c) \/ c \notin clients
============================================================================
