---------------------------- MODULE BrokerProofs ----------------------------
(***************************************************************************)
(* IInv is an inductive invariant of the broker for every set of requests, *)
(* every bound on connections, clients and crashes and every set of        *)
(* failures; the safety properties of module Broker follow from it.        *)
(***************************************************************************)
EXTENDS BrokerInvariant, TLAPS

\* What every step but a launch does to an execution: it winds it down.
Calm(e, f) ==
    /\ f \in ExecutionRecord /\ Tree(f)
    /\ f.slot = e.slot
    /\ f.helper = "none" <=> e.helper = "none"
    /\ f.helper = "up" => e.helper = "up"
    /\ f.workload => e.workload \/ e.helper = "up"
    /\ Finished(e) => Finished(f)

LEMMA CalmReflexive ==
    ASSUME NEW e \in ExecutionRecord, Tree(e)
    PROVE  Calm(e, e)
BY DEF Calm

LEMMA CalmKill ==
    ASSUME NEW e \in ExecutionRecord, Tree(e)
    PROVE  Calm(e, KillHelper(e)) /\ KillHelper(e).helper # "up"
BY DEF Calm, Tree, Finished, KillHelper, ExecutionRecord

\* One look at a namespace: if the answer is "exited" the execution's
\* directory may go, and nothing of it is left.
LEMMA CalmLook ==
    ASSUME NEW e \in ExecutionRecord, Tree(e), e.helper # "up",
           NEW o \in NamespaceExited(e)
    PROVE  /\ Calm(e, o.exec)
           /\ o.done =>
                 /\ Calm(e, RemoveDirectory(o.exec))
                 /\ ~o.exec.workload
                 /\ e.helper = "dead" => Finished(RemoveDirectory(o.exec))
<1>1. CASE o = [done |-> FALSE, exec |-> e]
  BY <1>1, CalmReflexive
<1>2. CASE SupervisorExited(e) /\ o = [done |-> TRUE, exec |-> e] /\ ~e.group
  BY <1>2 DEF Calm, Tree, Finished, RemoveDirectory, ExecutionRecord, SupervisorExited
<1>3. CASE o = [done |-> FALSE, exec |-> [e EXCEPT !.killed = TRUE]]
  BY <1>3 DEF Calm, Tree, Finished, ExecutionRecord
<1>4. CASE /\ SupervisorExited(e) /\ ~e.workload
           /\ o = [done |-> TRUE, exec |-> [e EXCEPT !.killed = TRUE, !.group = FALSE]]
  BY <1>4 DEF Calm, Tree, Finished, RemoveDirectory, ExecutionRecord, SupervisorExited
<1>5. QED
  BY <1>1, <1>2, <1>3, <1>4 DEF NamespaceExited

LEMMA CalmSteps ==
    ASSUME exec \in [Conn -> ExecutionRecord], \A c \in Conn : Tree(exec[c]),
           NEW c \in Conn, ExecutionStep(c)
    PROVE  /\ exec' = [exec EXCEPT ![c] = exec'[c]]
           /\ Calm(exec[c], exec'[c])
<1> USE DEF Calm, Tree, Finished, ExecutionRecord
<1>1. CASE RecordIdentity(c)
  BY <1>1 DEF RecordIdentity
<1>2. CASE SetupFails(c)
  BY <1>2 DEF SetupFails
<1>3. CASE ReleaseInit(c)
  BY <1>3 DEF ReleaseInit
<1>4. CASE NamespaceFinishes(c)
  BY SMTT(60), ZenonT(60), <1>4 DEF NamespaceFinishes
<1>5. CASE OrphanedInitDies(c)
  BY <1>5 DEF OrphanedInitDies
<1>6. CASE GuardianKillsGroup(c)
  BY SMTT(60), ZenonT(60), <1>6 DEF GuardianKillsGroup
<1>7. CASE GroupEmpties(c)
  BY SMTT(60), ZenonT(60), <1>7 DEF GroupEmpties
<1>8. CASE GuardianExits(c)
  BY <1>8 DEF GuardianExits
<1>9. CASE GuardianFails(c)
  <2>1. PICK w \in {FALSE, exec[c].workload} :
           exec' = [exec EXCEPT ![c].init = "dead", ![c].workload = w]
    BY <1>9 DEF GuardianFails
  <2>2. CASE w = FALSE
    BY ZenonT(60), <1>9, <2>1, <2>2 DEF GuardianFails
  <2>3. CASE w = exec[c].workload
    <3>1. exec' = [exec EXCEPT ![c].init = "dead"]
      BY <2>1, <2>3
    <3>2. QED
      BY ZenonT(60), <1>9, <3>1 DEF GuardianFails
  <2>4. QED
    BY <2>1, <2>2, <2>3
<1>10. CASE HelperExits(c)
  BY <1>10 DEF HelperExits
<1>11. CASE HelperKilled(c)
  BY <1>11 DEF HelperKilled
<1>12. QED
  BY <1>1, <1>2, <1>3, <1>4, <1>5, <1>6, <1>7, <1>8, <1>9, <1>10, <1>11
     DEF ExecutionStep

----------------------------------------------------------------------------
(* A step of the event loop that launches nothing preserves IInv.  It winds *)
(* executions down, closes only clients without processes, and reports only *)
(* what is finished.                                                       *)

ClosesOnlyIdle ==
    /\ clients' \subseteq clients
    /\ \A d \in Conn :
          d \in clients /\ d \notin clients'
          => exec'[d].helper # "up" /\ ~exec'[d].workload

ReportsOnlyFinished ==
    \A d \in Conn :
        reply'[d] = "exited"
        => reply[d] = "exited" \/ (d \notin clients' /\ Finished(exec'[d]))

KnowsSlots ==
    phase' = "launch" =>
        \/ phase = "launch" /\ active' = active
        \/ active' = Occupied

QuietStep ==
    /\ TypeOK'
    /\ \A d \in Conn : Calm(exec[d], exec'[d])
    /\ phase \in LoopPhase /\ phase' \in LoopPhase
    /\ accepted' = accepted
    /\ ClosesOnlyIdle
    /\ JobKinds'
    /\ PassesOverClients'
    /\ KnowsSlots
    /\ ReportsOnlyFinished

LEMMA QuietSteps ==
    ASSUME IInv, QuietStep
    PROVE  IInv'
<1> USE DEF IInv, QuietStep
<1>1. /\ \A d \in Conn : Tree(exec[d])' /\ exec'[d].slot = exec[d].slot
      /\ \A d \in Conn : Calm(exec[d], exec'[d])
  BY DEF Calm
<1>2. clients \subseteq Conn /\ clients' \subseteq Conn
  BY DEF TypeOK
<1>3. UnusedConnections'
  BY <1>1 DEF UnusedConnections, Calm, ClosesOnlyIdle
<1>4. Owners'
  BY <1>1 DEF Owners, Calm, ClosesOnlyIdle, LoopPhase
<1>5. DisjointSlots'
  <2>1. \A c, d \in clients' :
           c # d /\ HasProcess(c)' /\ HasProcess(d)'
           => exec'[c].slot \cap exec'[d].slot = {}
    BY <1>1, <1>2 DEF DisjointSlots, Calm, HasProcess, ClosesOnlyIdle
  <2>2. ASSUME phase' = "launch", NEW c \in clients', HasProcess(c)'
        PROVE  exec'[c].slot \subseteq active'
    BY <1>1, <1>2, <2>2
       DEF DisjointSlots, Calm, HasProcess, ClosesOnlyIdle, KnowsSlots, Occupied
  <2>3. QED
    BY <2>1, <2>2 DEF DisjointSlots
<1>6. ReplacementBarrier'
  <2>1. \A c \in Conn : exec'[c].workload => c \in clients /\ HasProcess(c)
    BY <1>1 DEF Owners, Calm, HasProcess, Tree
  <2>2. QED
    BY <1>1, <1>2, <2>1 DEF ReplacementBarrier, DisjointSlots
<1>7. Reports'
  BY <1>1 DEF Reports, Calm, ReportsOnlyFinished, ClosesOnlyIdle
<1>8. QED
  BY <1>1, <1>3, <1>4, <1>5, <1>6, <1>7

LEMMA CalmUnchanged ==
    ASSUME IInv, UNCHANGED exec
    PROVE  \A d \in Conn : Calm(exec[d], exec'[d])
BY CalmReflexive DEF IInv, TypeOK

LEMMA CalmAt ==
    ASSUME IInv, NEW c \in Conn, NEW f, Calm(exec[c], f),
           exec' = [exec EXCEPT ![c] = f]
    PROVE  /\ \A d \in Conn : Calm(exec[d], exec'[d])
           /\ exec' \in [Conn -> ExecutionRecord]
<1>1. \A d \in Conn : d # c => exec'[d] = exec[d] /\ Calm(exec[d], exec[d])
  BY CalmReflexive DEF IInv, TypeOK
<1>2. exec'[c] = f /\ f \in ExecutionRecord
  BY DEF IInv, TypeOK, Calm
<1>3. QED
  BY <1>1, <1>2 DEF IInv, TypeOK

----------------------------------------------------------------------------
(* A visit ends in one of two ways: the client stays or it is closed.      *)

LEMMA VisitsClients ==
    ASSUME IInv, NEW c \in Conn, NEW p \in {"sweep", "launch", "handle", "finally"},
           Visits(p, c)
    PROVE  c \in clients /\ phase = p
BY ConnAssumption DEF IInv, PassesOverClients, Visits, Conn, Listener

\* What the other variables do in a visit that ends well.
VisitFrame ==
    /\ ssh' \in SSHState /\ reply' \in [Conn -> Reply]
    /\ gcJob' \in {"none", "running", "overdue", "finished"}
    /\ gcPending' \subseteq Cwds /\ gcOrphan' \in BOOLEAN
    /\ KeepWorld

LEMMA ClientStays ==
    ASSUME IInv, NEW c \in Conn, NEW p \in {"sweep", "launch", "handle"},
           Visits(p, c), Visited(c), VisitFrame, active' = active,
           exec' \in [Conn -> ExecutionRecord],
           \A d \in Conn : Calm(exec[d], exec'[d]),
           NEW j \in Job, Update(c, j),
           j.refresh => j.req = NoRequest,
           HasProcess(c) => j.req # NoRequest,
           \A d \in Conn : reply'[d] = "exited" => reply[d] = "exited"
    PROVE  QuietStep
<1>1. c \in clients /\ phase = p /\ phase' = p /\ clients' = clients
  BY VisitsClients DEF Visited, Update
<1>2. TypeOK'
  BY <1>1 DEF IInv, TypeOK, Visited, Update, VisitFrame, KeepWorld
<1>3. JobKinds'
  <2>1. job' = [job EXCEPT ![c] = j] /\ job \in [Conn -> Job]
    BY DEF IInv, TypeOK, Update
  <2>2. \A d \in Conn : HasProcess(d)' <=> HasProcess(d)
    BY DEF Calm, HasProcess
  <2>3. QED
    BY <1>1, <2>1, <2>2 DEF IInv, JobKinds
<1>4. PassesOverClients'
  BY <1>1 DEF IInv, PassesOverClients, Visited
<1>5. ClosesOnlyIdle /\ ReportsOnlyFinished
  BY <1>1 DEF ClosesOnlyIdle, ReportsOnlyFinished
<1>6. QED
  BY <1>1, <1>2, <1>3, <1>4, <1>5
     DEF QuietStep, VisitFrame, KeepWorld, KnowsSlots, LoopPhase

LEMMA ClientIsClosed ==
    ASSUME IInv, NEW c \in Conn, NEW p \in {"sweep", "launch", "handle"},
           Visits(p, c), Visited(c), VisitFrame, active' = active,
           exec' \in [Conn -> ExecutionRecord],
           \A d \in Conn : Calm(exec[d], exec'[d]),
           Close(c), exec'[c].helper # "up", ~exec'[c].workload,
           ReportsOnlyFinished
    PROVE  QuietStep
<1>1. c \in clients /\ phase = p /\ phase' = p /\ clients' = clients \ {c}
  BY VisitsClients DEF Visited, Close
<1>2. TypeOK'
  BY <1>1 DEF IInv, TypeOK, Visited, Close, VisitFrame, KeepWorld, Job, NoJob
<1>3. JobKinds'
  <2>1. job' = [job EXCEPT ![c] = NoJob] /\ job \in [Conn -> Job]
    BY DEF IInv, TypeOK, Close
  <2>2. \A d \in Conn : HasProcess(d)' <=> HasProcess(d)
    BY DEF Calm, HasProcess
  <2>3. ~NoJob.refresh
    BY DEF NoJob
  <2>4. QED
    BY <1>1, <2>1, <2>2, <2>3 DEF IInv, JobKinds
<1>4. PassesOverClients'
  BY <1>1 DEF IInv, PassesOverClients, Visited
<1>5. ClosesOnlyIdle
  BY <1>1 DEF ClosesOnlyIdle
<1>6. QED
  BY <1>1, <1>2, <1>3, <1>4, <1>5
     DEF QuietStep, VisitFrame, KeepWorld, KnowsSlots, LoopPhase

\* The frame of a visit that leaves the service and branch GC alone.
LEMMA PlainFrame ==
    ASSUME IInv, ssh' = ssh, KeepGC, KeepWorld, reply' \in [Conn -> Reply]
    PROVE  VisitFrame
BY DEF IInv, TypeOK, KeepGC, VisitFrame

LEMMA Idle ==
    ASSUME IInv, NEW c \in Conn, ~HasProcess(c)
    PROVE  exec[c].helper # "up" /\ ~exec[c].workload
BY DEF IInv, Tree, HasProcess

\* A client that stays as it is, or that only learns about its deadlines.
LEMMA SameRequest ==
    ASSUME IInv, NEW c \in clients, NEW j \in Job,
           j.req = job[c].req, j.refresh = job[c].refresh
    PROVE  /\ c \in Conn
           /\ j.refresh => j.req = NoRequest
           /\ HasProcess(c) => j.req # NoRequest
BY DEF IInv, TypeOK, JobKinds

LEMMA SendKeepsReports ==
    ASSUME IInv, NEW c \in Conn, NEW r \in Reply, r # "exited", Send(c, r)
    PROVE  /\ reply' \in [Conn -> Reply]
           /\ \A d \in Conn : reply'[d] = "exited" => reply[d] = "exited"
           /\ ReportsOnlyFinished
BY DEF IInv, TypeOK, Send, ReportsOnlyFinished

----------------------------------------------------------------------------
(* The sweep.                                                              *)

LEMMA SweepSteps ==
    ASSUME IInv, NEW c \in Conn
    PROVE  /\ SweepRefreshAnswered(c) => QuietStep
           /\ SweepTeardownPending(c) => QuietStep
           /\ SweepExited(c) => QuietStep
           /\ SweepRunning(c) => QuietStep
           /\ SweepWaiting(c) => QuietStep
<1>0. /\ exec \in [Conn -> ExecutionRecord] /\ job \in [Conn -> Job]
      /\ reply \in [Conn -> Reply] /\ ssh \in SSHState
      /\ \A d \in Conn : Tree(exec[d])
  BY DEF IInv, TypeOK
<1>1. ASSUME SweepRefreshAnswered(c) PROVE QuietStep
  <2>1. c \in clients
    BY <1>1, VisitsClients DEF SweepRefreshAnswered
  <2>2. ~HasProcess(c)
    BY <1>1, <2>1 DEF SweepRefreshAnswered, IInv, JobKinds
  <2>3. PICK r \in {"error", "ssh-refreshed"} : Send(c, r)
    BY <1>1 DEF SweepRefreshAnswered
  <2>4. VisitFrame /\ ReportsOnlyFinished
    BY <1>1, <2>3, SendKeepsReports, PlainFrame DEF SweepRefreshAnswered, Reply
  <2>5. QED
    BY <1>0, <1>1, <2>2, <2>4, ClientIsClosed, Idle, CalmUnchanged
       DEF SweepRefreshAnswered
<1>2. ASSUME SweepTeardownPending(c) PROVE QuietStep
  <2>0. c \in clients
    BY <1>2, VisitsClients DEF SweepTeardownPending
  <2>1. PICK o \in NamespaceExited(exec[c]) : exec' = [exec EXCEPT ![c] = o.exec]
    BY <1>2 DEF SweepTeardownPending
  <2>2. Calm(exec[c], o.exec)
    BY <1>0, <1>2, CalmLook DEF SweepTeardownPending
  <2>3. PICK k \in {"no", "pending", "overdue", "failed"} :
           Update(c, [job[c] EXCEPT !.cleanup = k])
    <3>1. [job[c] EXCEPT !.cleanup = job[c].cleanup] = job[c]
      BY <1>0 DEF Job
    <3>2. job[c].cleanup \in {"no", "pending", "overdue", "failed"}
      BY <1>0 DEF Job
    <3>3. QED
      BY <1>2, <3>1, <3>2 DEF SweepTeardownPending
  <2>4. /\ [job[c] EXCEPT !.cleanup = k] \in Job
        /\ [job[c] EXCEPT !.cleanup = k].req = job[c].req
        /\ [job[c] EXCEPT !.cleanup = k].refresh = job[c].refresh
    BY <1>0 DEF Job
  <2>5. UNCHANGED reply \/ Send(c, "error")
    BY <1>2 DEF SweepTeardownPending
  <2>6. /\ VisitFrame
        /\ \A d \in Conn : reply'[d] = "exited" => reply[d] = "exited"
    BY <1>0, <1>2, <2>5, SendKeepsReports, PlainFrame
       DEF SweepTeardownPending, Reply
  <2>7. QED
    BY <1>2, <2>0, <2>1, <2>2, <2>3, <2>4, <2>6, CalmAt, SameRequest, ClientStays
       DEF SweepTeardownPending
<1>3. ASSUME SweepExited(c) PROVE QuietStep
  <2>1. PICK o \in NamespaceExited(exec[c]) :
           o.done /\ exec' = [exec EXCEPT ![c] = RemoveDirectory(o.exec)]
    BY <1>3 DEF SweepExited
  <2>2. /\ Calm(exec[c], RemoveDirectory(o.exec))
        /\ Finished(RemoveDirectory(o.exec))
    BY <1>0, <1>3, <2>1, CalmLook DEF SweepExited
  <2>3. exec'[c] = RemoveDirectory(o.exec)
    BY <1>0, <2>1
  <2>4. VisitFrame
    <3>1. reply' \in [Conn -> Reply]
      BY <1>0, <1>3 DEF SweepExited, Send, Reply
    <3>2. /\ gcJob' \in {"none", "running", "overdue", "finished"}
          /\ gcPending' \subseteq Cwds
      <4>1. CASE stopping \/ ~WantsBranchGC(job[c].req)
        BY <1>3, <4>1 DEF SweepExited, IInv, TypeOK
      <4>2. CASE ~(stopping \/ ~WantsBranchGC(job[c].req))
        <5>1. job[c].req \in Requests
          <6>1. c \in clients /\ HasProcess(c)
            BY <1>3, VisitsClients DEF SweepExited, HasProcess
          <6>2. QED
            BY <1>0, <6>1 DEF IInv, JobKinds, Job
        <5>2. gcPending \cup {job[c].req.cwd} \subseteq Cwds
          BY <5>1 DEF Cwds, IInv, TypeOK
        <5>3. QED
          BY <1>3, <4>2, <5>2 DEF SweepExited, BranchGCLaunches, IInv, TypeOK
      <4>3. QED
        BY <4>1, <4>2
    <3>3. QED
      BY <1>0, <1>3, <3>1, <3>2 DEF SweepExited, VisitFrame, IInv, TypeOK
  <2>5. ReportsOnlyFinished
    BY <1>0, <1>3, <2>2, <2>3 DEF SweepExited, ReportsOnlyFinished, Send, Close
  <2>6. exec'[c].helper # "up" /\ ~exec'[c].workload
    BY <2>2, <2>3 DEF Finished
  <2>7. QED
    BY <1>3, <2>1, <2>2, <2>4, <2>5, <2>6, CalmAt, ClientIsClosed DEF SweepExited
<1>4. ASSUME SweepRunning(c) PROVE QuietStep
  <2>0. c \in clients
    BY <1>4, VisitsClients DEF SweepRunning
  <2>1. PICK f : exec' = [exec EXCEPT ![c] = f] /\ Calm(exec[c], f)
    BY <1>0, <1>4, CalmKill, CalmReflexive DEF SweepRunning
  <2>2. PICK j \in Job : /\ Update(c, j)
                         /\ j.req = job[c].req /\ j.refresh = job[c].refresh
    BY <1>0, <1>4 DEF SweepRunning, StopRequested, Job
  <2>3. VisitFrame
    BY <1>0, <1>4, PlainFrame DEF SweepRunning
  <2>4. QED
    BY <1>4, <2>0, <2>1, <2>2, <2>3, CalmAt, SameRequest, ClientStays DEF SweepRunning
<1>5. ASSUME SweepWaiting(c) PROVE QuietStep
  <2>0. c \in clients
    BY <1>5, VisitsClients DEF SweepWaiting
  <2>1. UNCHANGED reply \/ Send(c, "error")
    BY <1>5 DEF SweepWaiting
  <2>2. /\ VisitFrame /\ ReportsOnlyFinished
        /\ \A d \in Conn : reply'[d] = "exited" => reply[d] = "exited"
    BY <1>0, <1>5, <2>1, SendKeepsReports, PlainFrame
       DEF SweepWaiting, Reply, ReportsOnlyFinished
  <2>3. CASE Close(c)
    BY <1>0, <1>5, <2>2, <2>3, ClientIsClosed, Idle, CalmUnchanged DEF SweepWaiting
  <2>4. CASE KeepClients
    <3>1. Update(c, job[c]) /\ job[c] \in Job
      BY <1>0, <2>4 DEF Update, KeepClients
    <3>2. QED
      BY <1>0, <1>5, <2>0, <2>2, <3>1, SameRequest, ClientStays, CalmUnchanged
         DEF SweepWaiting
  <2>5. QED
    BY <1>5, <2>3, <2>4 DEF SweepWaiting
<1>6. QED
  BY <1>1, <1>2, <1>3, <1>4, <1>5

----------------------------------------------------------------------------
(* The launch pass.                                                        *)

LEMMA PreparedType ==
    ASSUME NEW s \in SSHState, NEW c \in Conn
    PROVE  Prepared(s, c) \in SSHState
BY DEF Prepared, SSHState

LEMMA StartedServiceType ==
    [NoSSH EXCEPT !.service = "up"] \in SSHState
BY DEF NoSSH, SSHState

LEMMA QuietLaunchSteps ==
    ASSUME IInv, NEW c \in Conn
    PROVE  /\ LaunchNotDue(c) => QuietStep
           /\ LaunchHeld(c) => QuietStep
           /\ LaunchPreparesSSH(c) => QuietStep
           /\ LaunchFails(c) => QuietStep
<1>0. /\ exec \in [Conn -> ExecutionRecord] /\ job \in [Conn -> Job]
      /\ reply \in [Conn -> Reply] /\ ssh \in SSHState
      /\ \A d \in Conn : Tree(exec[d])
  BY DEF IInv, TypeOK
<1>1. ASSUME LaunchNotDue(c) PROVE QuietStep
  <2>1. c \in clients /\ Update(c, job[c]) /\ job[c] \in Job
    BY <1>0, <1>1, VisitsClients DEF LaunchNotDue, Update, KeepClients
  <2>2. VisitFrame
    BY <1>0, <1>1, PlainFrame DEF LaunchNotDue
  <2>3. QED
    BY <1>0, <1>1, <2>1, <2>2, SameRequest, ClientStays, CalmUnchanged DEF LaunchNotDue
<1>2. ASSUME LaunchHeld(c) PROVE QuietStep
  <2>1. c \in clients
    BY <1>2, VisitsClients DEF LaunchHeld
  <2>2. PICK j \in Job : /\ Update(c, j)
                         /\ j.req = job[c].req /\ j.refresh = job[c].refresh
    <3> DEFINE k == [job[c] EXCEPT !.waited = FALSE]
    <3>1. k \in Job /\ k.req = job[c].req /\ k.refresh = job[c].refresh
      BY <1>0 DEF Job
    <3>2. Update(c, k)
      BY <1>2 DEF LaunchHeld
    <3>3. QED
      BY <3>1, <3>2
  <2>3. VisitFrame
    BY <1>0, <1>2, PlainFrame DEF LaunchHeld
  <2>4. QED
    BY <1>0, <1>2, <2>1, <2>2, <2>3, SameRequest, ClientStays, CalmUnchanged
       DEF LaunchHeld
<1>3. ASSUME LaunchPreparesSSH(c) PROVE QuietStep
  <2>1. c \in clients
    BY <1>3, VisitsClients DEF LaunchPreparesSSH, MayLaunch
  <2>2. PICK j \in Job : /\ Update(c, j)
                         /\ j.req = job[c].req /\ j.refresh = job[c].refresh
    <3> DEFINE k == [job[c] EXCEPT !.sshWaiting = TRUE]
    <3>1. k \in Job /\ k.req = job[c].req /\ k.refresh = job[c].refresh
      BY <1>0 DEF Job
    <3>2. Update(c, k)
      BY <1>3 DEF LaunchPreparesSSH
    <3>3. QED
      BY <3>1, <3>2
  <2>3. ssh' \in SSHState
    BY <1>0, <1>3, PreparedType, StartedServiceType DEF LaunchPreparesSSH
  <2>4. VisitFrame
    BY <1>0, <1>3, <2>3 DEF LaunchPreparesSSH, VisitFrame, KeepGC, IInv, TypeOK
  <2>5. QED
    BY <1>0, <1>3, <2>1, <2>2, <2>4, SameRequest, ClientStays, CalmUnchanged
       DEF LaunchPreparesSSH, MayLaunch
<1>4. ASSUME LaunchFails(c) PROVE QuietStep
  <2>1. ~HasProcess(c) /\ Visits("launch", c)
    BY <1>4 DEF LaunchFails, MayLaunch
  <2>2. VisitFrame /\ ReportsOnlyFinished
    BY <1>0, <1>4, PlainFrame, SendKeepsReports DEF LaunchFails, Reply
  <2>3. CASE UNCHANGED exec
    BY <1>0, <1>4, <2>1, <2>2, <2>3, Idle, ClientIsClosed, CalmUnchanged DEF LaunchFails
  <2>4. CASE exec' = [exec EXCEPT ![c].dir = TRUE, ![c].group = TRUE, ![c].host = TRUE]
    <3>1. PICK f : /\ f = [exec[c] EXCEPT !.dir = TRUE, !.group = TRUE, !.host = TRUE]
                   /\ exec' = [exec EXCEPT ![c] = f]
      BY <1>0, <2>4
    <3>2. Calm(exec[c], f) /\ f.helper # "up" /\ ~f.workload
      BY <1>0, <2>1, <3>1, Idle
         DEF Calm, Tree, Finished, HasProcess, ExecutionRecord
    <3>3. exec'[c] = f
      BY <1>0, <3>1
    <3>4. QED
      BY <1>4, <2>1, <2>2, <3>1, <3>2, <3>3, CalmAt, ClientIsClosed DEF LaunchFails
  <2>5. QED
    BY <1>4, <2>3, <2>4 DEF LaunchFails
<1>5. QED
  BY <1>1, <1>2, <1>3, <1>4

\* The one step that lets an execution begin.
LEMMA LaunchStep ==
    ASSUME IInv, NEW c \in Conn, LaunchStarts(c)
    PROVE  IInv'
<1> DEFINE r == job[c].req
           n == NewExecution(Slot(r), r.tier = HostTier)
<1>0. /\ exec \in [Conn -> ExecutionRecord] /\ job \in [Conn -> Job]
      /\ reply \in [Conn -> Reply] /\ ssh \in SSHState
      /\ clients \subseteq Conn /\ accepted \in 0..MaxConn /\ active \subseteq Key
      /\ \A d \in Conn : Tree(exec[d])
  BY DEF IInv, TypeOK
<1>1. /\ c \in clients /\ phase = "launch" /\ phase' = "launch"
      /\ clients' = clients /\ accepted' = accepted
      /\ todo' = todo \ {c}
      /\ active' = active \cup Slot(r)
      /\ exec' = [exec EXCEPT ![c] = n]
  BY VisitsClients DEF LaunchStarts, MayLaunch, Visited, Update, KeepWorld
<1>2. r \in Requests /\ Slot(r) \subseteq Key /\ Slot(r) \cap active = {}
  BY <1>0, RequestAssumption DEF LaunchStarts, MayLaunch, Job
<1>3. /\ exec' \in [Conn -> ExecutionRecord]
      /\ exec'[c] = n /\ n.slot = Slot(r) /\ n.helper = "up" /\ ~n.workload
      /\ Tree(n)
      /\ \A d \in Conn : d # c => exec'[d] = exec[d]
  BY <1>0, <1>1, <1>2 DEF NewExecution, ExecutionRecord, Tree
<1>4. PICK j \in Job : /\ job' = [job EXCEPT ![c] = j]
                       /\ j.req = r /\ j.refresh = job[c].refresh
  <2> DEFINE k == [job[c] EXCEPT !.sshWaiting = FALSE, !.waited = FALSE]
  <2>1. k \in Job /\ k.req = job[c].req /\ k.refresh = job[c].refresh
    BY <1>0 DEF Job
  <2>2. job' = [job EXCEPT ![c] = k]
    BY DEF LaunchStarts, Update
  <2>3. QED
    BY <2>1, <2>2
<1>5. TypeOK'
  <2>1. reply' \in [Conn -> Reply]
    BY <1>0 DEF LaunchStarts, Send, Reply
  <2>2. active' \subseteq Key /\ job' \in [Conn -> Job]
    BY <1>0, <1>1, <1>2, <1>4
  <2>3. QED
    BY <1>1, <1>3, <2>1, <2>2
       DEF IInv, TypeOK, LaunchStarts, Update, KeepGC, KeepWorld
<1>6. \A d \in Conn : Tree(exec[d])'
  BY <1>0, <1>3
<1>7. UnusedConnections'
  BY <1>0, <1>1, <1>3 DEF IInv, UnusedConnections
<1>8. JobKinds'
  BY <1>0, <1>1, <1>2, <1>3, <1>4, RequestAssumption DEF IInv, JobKinds, HasProcess
<1>9. PassesOverClients'
  BY <1>1 DEF IInv, PassesOverClients
<1>10. Owners'
  BY <1>1, <1>3 DEF IInv, Owners, LoopPhase
<1>11. DisjointSlots'
  <2>1. \A d \in clients : d # c /\ HasProcess(d)' =>
           HasProcess(d) /\ exec'[d].slot = exec[d].slot /\ exec[d].slot \subseteq active
    BY <1>0, <1>1, <1>3 DEF IInv, DisjointSlots, HasProcess
  <2>2. QED
    BY <1>0, <1>1, <1>2, <1>3, <2>1 DEF IInv, DisjointSlots
<1>12. ReplacementBarrier'
  BY <1>0, <1>3 DEF IInv, ReplacementBarrier
<1>13. Reports'
  <2>1. \A d \in Conn : reply'[d] = "exited" => d # c /\ reply[d] = "exited"
    BY <1>0 DEF LaunchStarts, Send
  <2>2. QED
    BY <1>0, <1>1, <1>3, <2>1 DEF IInv, Reports
<1>14. QED
  BY <1>5, <1>6, <1>7, <1>8, <1>9, <1>10, <1>11, <1>12, <1>13 DEF IInv

----------------------------------------------------------------------------
(* The packets of the clients.                                             *)

\* A request on a client that has none changes what the job is for.
LEMMA FreshIsIdle ==
    ASSUME IInv, NEW c \in clients, Fresh(c)
    PROVE  ~HasProcess(c)
BY DEF IInv, TypeOK, JobKinds, Fresh

LEMMA StopKeepsRequest ==
    ASSUME NEW j \in Job
    PROVE  /\ StopRequested(j) \in Job
           /\ StopRequested(j).req = j.req /\ StopRequested(j).refresh = j.refresh
BY DEF StopRequested, Job

LEMMA DisconnectKeepsRequest ==
    ASSUME NEW j \in Job
    PROVE  /\ [j EXCEPT !.disconnected = TRUE] \in Job
           /\ [j EXCEPT !.disconnected = TRUE].req = j.req
           /\ [j EXCEPT !.disconnected = TRUE].refresh = j.refresh
BY DEF Job

LEMMA ReceiveSteps ==
    ASSUME IInv, NEW c \in Conn
    PROVE  /\ HandleQuiet(c) => QuietStep
           /\ ReceiveStart(c) => QuietStep
           /\ ReceiveRefresh(c) => QuietStep
           /\ ReceiveStatus(c) => QuietStep
           /\ ReceiveTerminate(c) => QuietStep
           /\ ReceiveBad(c) => QuietStep
<1>0. /\ exec \in [Conn -> ExecutionRecord] /\ job \in [Conn -> Job]
      /\ reply \in [Conn -> Reply] /\ ssh \in SSHState
  BY DEF IInv, TypeOK
<1>1. ASSUME HandleQuiet(c) PROVE QuietStep
  <2>1. c \in clients /\ Update(c, job[c]) /\ job[c] \in Job
    BY <1>0, <1>1, VisitsClients DEF HandleQuiet, Update, KeepClients
  <2>2. VisitFrame
    BY <1>0, <1>1, PlainFrame DEF HandleQuiet
  <2>3. QED
    BY <1>0, <1>1, <2>1, <2>2, SameRequest, ClientStays, CalmUnchanged DEF HandleQuiet
<1>2. ASSUME ReceiveStart(c) PROVE QuietStep
  <2>1. c \in clients
    BY <1>2, VisitsClients DEF ReceiveStart
  <2>2. PICK r \in Requests : Update(c, [job[c] EXCEPT !.req = r])
    BY <1>2 DEF ReceiveStart
  <2>3. /\ [job[c] EXCEPT !.req = r] \in Job
        /\ [job[c] EXCEPT !.req = r].req = r
        /\ [job[c] EXCEPT !.req = r].refresh = FALSE
    BY <1>0, <1>2 DEF Job, ReceiveStart, Fresh
  <2>4. r # NoRequest
    BY <2>2, RequestAssumption
  <2>5. VisitFrame
    BY <1>0, <1>2, PlainFrame DEF ReceiveStart
  <2>6. QED
    BY <1>0, <1>2, <2>1, <2>2, <2>3, <2>4, <2>5, ClientStays, CalmUnchanged
       DEF ReceiveStart
<1>3. ASSUME ReceiveRefresh(c) PROVE QuietStep
  <2>1. c \in clients /\ Fresh(c)
    BY <1>3, VisitsClients DEF ReceiveRefresh
  <2> DEFINE j == [job[c] EXCEPT !.refresh = TRUE, !.sshWaiting = TRUE]
  <2>2. j \in Job /\ j.req = NoRequest
    BY ZenonT(60), <1>0, <2>1 DEF Job, Fresh
  <2>3. Update(c, j)
    BY <1>3 DEF ReceiveRefresh
  <2>4. VisitFrame
    BY <1>0, <1>3, StartedServiceType DEF ReceiveRefresh, VisitFrame, KeepGC, IInv, TypeOK
  <2>5. QED
    BY <1>0, <1>3, <2>1, <2>2, <2>3, <2>4, FreshIsIdle, ClientStays, CalmUnchanged
       DEF ReceiveRefresh
<1>4. ASSUME ReceiveStatus(c) PROVE QuietStep
  <2>1. c \in clients /\ Fresh(c)
    BY <1>4, VisitsClients DEF ReceiveStatus
  <2>2. VisitFrame /\ ReportsOnlyFinished
    BY <1>0, <1>4, PlainFrame, SendKeepsReports DEF ReceiveStatus, Reply
  <2>3. QED
    BY <1>0, <1>4, <2>1, <2>2, FreshIsIdle, Idle, ClientIsClosed, CalmUnchanged
       DEF ReceiveStatus
<1>5. ASSUME ReceiveTerminate(c) PROVE QuietStep
  <2>1. c \in clients
    BY <1>5, VisitsClients DEF ReceiveTerminate
  <2>2. VisitFrame /\ ReportsOnlyFinished
    BY <1>0, <1>5, PlainFrame DEF ReceiveTerminate, ReportsOnlyFinished
  <2>3. CASE HasProcess(c)
    BY <1>0, <1>5, <2>1, <2>2, <2>3, StopKeepsRequest, SameRequest, ClientStays,
       CalmUnchanged DEF ReceiveTerminate
  <2>4. CASE ~HasProcess(c)
    BY <1>0, <1>5, <2>2, <2>4, Idle, ClientIsClosed, CalmUnchanged
       DEF ReceiveTerminate
  <2>5. QED
    BY <2>3, <2>4
<1>6. ASSUME ReceiveBad(c) PROVE QuietStep
  <2>1. c \in clients
    BY <1>6, VisitsClients DEF ReceiveBad
  <2>2. /\ VisitFrame /\ ReportsOnlyFinished
        /\ \A d \in Conn : reply'[d] = "exited" => reply[d] = "exited"
    BY <1>0, <1>6, PlainFrame, SendKeepsReports DEF ReceiveBad, Reply
  <2>3. CASE HasProcess(c)
    <3> DEFINE j == [StopRequested(job[c]) EXCEPT !.disconnected = TRUE]
    <3>1. j \in Job /\ j.req = job[c].req /\ j.refresh = job[c].refresh
      BY <1>0, StopKeepsRequest, DisconnectKeepsRequest
    <3>2. Update(c, j)
      BY <1>6, <2>3 DEF ReceiveBad
    <3>3. QED
      BY <1>0, <1>6, <2>1, <2>2, <3>1, <3>2, SameRequest, ClientStays, CalmUnchanged
         DEF ReceiveBad
  <2>4. CASE ~HasProcess(c)
    BY <1>0, <1>6, <2>2, <2>4, Idle, ClientIsClosed, CalmUnchanged DEF ReceiveBad
  <2>5. QED
    BY <2>3, <2>4
<1>7. QED
  BY <1>1, <1>2, <1>3, <1>4, <1>5, <1>6

----------------------------------------------------------------------------
(* The loop between its passes.                                            *)

LEMMA BetweenPasses ==
    ASSUME IInv
    PROVE  /\ PollBranchGC => QuietStep
           /\ PollIdleSSH => QuietStep
           /\ PollSSHAnswer => QuietStep
           /\ EndSweep => QuietStep
           /\ EndLaunch => QuietStep
           /\ EndHandle => QuietStep
           /\ HandleQuiet(Listener) => QuietStep
<1>0. /\ exec \in [Conn -> ExecutionRecord] /\ job \in [Conn -> Job]
      /\ \A d \in Conn : Tree(exec[d])
  BY DEF IInv, TypeOK
<1> USE DEF KeepClients, KeepGC, KeepWorld, LoopPhase, Phase
<1>1. ASSUME UNCHANGED <<exec, clients, reply>>
      PROVE  /\ \A d \in Conn : Calm(exec[d], exec'[d])
             /\ ClosesOnlyIdle /\ ReportsOnlyFinished
             /\ UNCHANGED job => JobKinds'
  BY <1>1, CalmUnchanged DEF ClosesOnlyIdle, ReportsOnlyFinished, IInv, JobKinds, HasProcess
<1>2. ASSUME PollBranchGC PROVE QuietStep
  <2>1. TypeOK'
    <3>1. /\ gcJob' \in {"none", "running", "overdue", "finished"}
          /\ gcPending' \subseteq Cwds
      BY <1>2 DEF PollBranchGC, BranchGCLaunches, IInv, TypeOK
    <3>2. QED
      BY <1>2, <3>1 DEF PollBranchGC, IInv, TypeOK
  <2>2. QED
    BY <1>1, <1>2, <2>1 DEF PollBranchGC, QuietStep, PassesOverClients, KnowsSlots
<1>3. ASSUME PollIdleSSH PROVE QuietStep
  <2>1. TypeOK'
    BY <1>3 DEF PollIdleSSH, BeginSweep, IInv, TypeOK
  <2>2. QED
    BY <1>1, <1>3, <2>1
       DEF PollIdleSSH, BeginSweep, QuietStep, PassesOverClients, KnowsSlots
<1>4. ASSUME PollSSHAnswer PROVE QuietStep
  <2>1. \A d \in Conn : /\ job'[d] \in Job
                        /\ job'[d].req = job[d].req /\ job'[d].refresh = job[d].refresh
                        /\ d \notin clients => job'[d] = job[d]
    BY <1>0, <1>4 DEF PollSSHAnswer, Job, IInv, TypeOK, SSHState
  <2>2. TypeOK'
    <3>1. ssh' \in SSHState
      <4>1. ssh' = [ssh EXCEPT !.pending = NoConn, !.answer = "none"]
        BY <1>4 DEF PollSSHAnswer
      <4>2. ssh \in SSHState
        BY DEF IInv, TypeOK
      <4>3. QED
        BY <4>1, <4>2 DEF SSHState
    <3>2. job' \in [Conn -> Job]
      BY <1>4, <2>1 DEF PollSSHAnswer
    <3>3. QED
      BY <1>4, <3>1, <3>2 DEF PollSSHAnswer, BeginSweep, IInv, TypeOK
  <2>3. JobKinds'
    BY <1>4, <2>1 DEF PollSSHAnswer, IInv, JobKinds, HasProcess
  <2>4. QED
    BY <1>1, <1>4, <2>2, <2>3
       DEF PollSSHAnswer, BeginSweep, QuietStep, PassesOverClients, KnowsSlots
<1>5. ASSUME EndSweep PROVE QuietStep
  <2>1. Occupied \subseteq Key
    BY <1>0 DEF Occupied, ExecutionRecord, IInv, TypeOK
  <2>2. TypeOK'
    BY <1>5, <2>1 DEF EndSweep, IInv, TypeOK
  <2>3. QED
    BY <1>1, <1>5, <2>2 DEF EndSweep, QuietStep, PassesOverClients, KnowsSlots
<1>6. ASSUME EndLaunch PROVE QuietStep
  <2>1. todo' \subseteq clients \cup {Listener}
    BY <1>6 DEF EndLaunch
  <2>2. TypeOK'
    BY <1>6, <2>1 DEF EndLaunch, IInv, TypeOK
  <2>3. QED
    BY <1>1, <1>6, <2>1, <2>2 DEF EndLaunch, QuietStep, PassesOverClients, KnowsSlots
<1>7. ASSUME EndHandle PROVE QuietStep
  <2>1. TypeOK'
    BY <1>7 DEF EndHandle, IInv, TypeOK
  <2>2. QED
    BY <1>1, <1>7, <2>1 DEF EndHandle, QuietStep, PassesOverClients, KnowsSlots
<1>8. ASSUME HandleQuiet(Listener) PROVE QuietStep
  <2>1. TypeOK'
    BY <1>8 DEF HandleQuiet, Visits, Visited, IInv, TypeOK
  <2>2. PassesOverClients'
    BY <1>8 DEF HandleQuiet, Visits, Visited, IInv, PassesOverClients
  <2>3. QED
    BY <1>1, <1>8, <2>1, <2>2 DEF HandleQuiet, Visits, Visited, QuietStep, KnowsSlots
<1>9. QED
  BY <1>2, <1>3, <1>4, <1>5, <1>6, <1>7, <1>8

LEMMA AcceptStep ==
    ASSUME IInv, Accept
    PROVE  IInv'
<1> DEFINE n == accepted + 1
<1>0. /\ exec \in [Conn -> ExecutionRecord] /\ job \in [Conn -> Job]
      /\ accepted \in 0..MaxConn /\ clients \subseteq Conn /\ accepted < MaxConn
  BY DEF IInv, TypeOK, Accept
<1>1. n \in Conn /\ n > accepted /\ accepted' = n /\ n \in 0..MaxConn
  BY <1>0, ConnAssumption DEF Conn, Accept
<1>2. exec[n].helper = "none" /\ n \notin clients
  BY <1>1 DEF IInv, UnusedConnections
<1>3. /\ clients' \in {clients, clients \cup {n}}
      /\ todo' = todo \ {Listener} /\ phase = "handle" /\ phase' = "handle"
      /\ UNCHANGED <<exec, active, reply, ssh, job, gone, stopping, crashes,
                     gcJob, gcPending, gcOrphan>>
  BY DEF Accept, Visits, Visited, KeepGC
<1>4. TypeOK'
  BY <1>0, <1>1, <1>3 DEF IInv, TypeOK
<1>5. \A c \in Conn : Tree(exec[c])'
  BY <1>3 DEF IInv
<1>6. UnusedConnections'
  BY <1>0, <1>1, <1>3, ConnAssumption DEF IInv, UnusedConnections, Conn
<1>7. JobKinds'
  BY <1>2, <1>3 DEF IInv, JobKinds, HasProcess
<1>8. PassesOverClients'
  BY <1>3 DEF IInv, PassesOverClients
<1>9. Owners'
  BY <1>3 DEF IInv, Owners, LoopPhase
<1>10. DisjointSlots'
  BY <1>2, <1>3 DEF IInv, DisjointSlots, HasProcess
<1>11. ReplacementBarrier'
  BY <1>3 DEF IInv, ReplacementBarrier
<1>12. Reports'
  BY <1>2, <1>3 DEF IInv, Reports, Finished
<1>13. QED
  BY <1>4, <1>5, <1>6, <1>7, <1>8, <1>9, <1>10, <1>11, <1>12 DEF IInv

----------------------------------------------------------------------------
(* The end of the process and the next start.                              *)

\* From the moment the loop is left no helper runs, so nothing can begin.
LEMMA EnteringFinally ==
    ASSUME IInv, phase \in LoopPhase, EnterFinally
    PROVE  IInv'
<1>0. /\ exec \in [Conn -> ExecutionRecord] /\ clients \subseteq Conn
      /\ \A d \in Conn : Tree(exec[d])
  BY DEF IInv, TypeOK
<1>1. /\ phase' = "finally" /\ todo' = clients
      /\ UNCHANGED <<active, clients, job, gone, reply, ssh, accepted, stopping,
                     crashes, gcPending, gcOrphan>>
      /\ gcJob' = "none"
  BY DEF EnterFinally, KeepClients, KeepWorld
<1>2. \A d \in Conn : Calm(exec[d], exec'[d]) /\ exec'[d].helper # "up"
  BY <1>0, CalmKill, CalmReflexive DEF EnterFinally, IInv, Owners
<1>3. exec' \in [Conn -> ExecutionRecord]
  BY <1>2 DEF Calm, EnterFinally
<1>4. TypeOK'
  BY <1>0, <1>1, <1>3 DEF IInv, TypeOK, Phase
<1>5. \A d \in Conn : Tree(exec[d])'
  BY <1>2 DEF Calm
<1>6. UnusedConnections'
  BY <1>1, <1>2 DEF IInv, UnusedConnections, Calm
<1>7. JobKinds'
  BY <1>1, <1>2 DEF IInv, JobKinds, HasProcess, Calm
<1>8. PassesOverClients' /\ Owners'
  BY <1>1, <1>2 DEF PassesOverClients, Owners, LoopPhase
<1>9. DisjointSlots'
  BY <1>0, <1>1, <1>2 DEF IInv, DisjointSlots, HasProcess, Calm
<1>10. ReplacementBarrier'
  <2>1. \A c \in Conn : exec'[c].workload => c \in clients /\ HasProcess(c)
    BY <1>0, <1>2 DEF IInv, Owners, Calm, HasProcess, Tree
  <2>2. QED
    BY <1>0, <1>2, <2>1 DEF IInv, ReplacementBarrier, DisjointSlots, Calm
<1>11. Reports'
  BY <1>1, <1>2 DEF IInv, Reports, Calm
<1>12. QED
  BY <1>4, <1>5, <1>6, <1>7, <1>8, <1>9, <1>10, <1>11 DEF IInv

LEMMA LeavingSteps ==
    ASSUME IInv
    PROVE  /\ LeaveLoop => IInv'
           /\ PollDeadSSH => IInv'
<1>1. ASSUME LeaveLoop PROVE IInv'
  BY <1>1, EnteringFinally DEF LeaveLoop, LoopPhase
<1>2. ASSUME PollDeadSSH PROVE IInv'
  BY <1>2, EnteringFinally DEF PollDeadSSH, LoopPhase
<1>3. QED
  BY <1>1, <1>2

LEMMA RefreshPreparesStep ==
    ASSUME IInv, NEW c \in Conn, SweepRefreshPrepares(c)
    PROVE  IInv'
<1>0. /\ exec \in [Conn -> ExecutionRecord] /\ job \in [Conn -> Job]
      /\ reply \in [Conn -> Reply] /\ ssh \in SSHState
      /\ c \in clients /\ phase = "sweep"
  BY VisitsClients DEF IInv, TypeOK, SweepRefreshPrepares
<1>1. CASE PrepareFails(ssh)
  BY <1>0, <1>1, EnteringFinally DEF SweepRefreshPrepares, LoopPhase
<1>2. CASE ~PrepareFails(ssh)
  <2>1. Update(c, job[c]) /\ job[c] \in Job
    BY <1>0, <1>2 DEF SweepRefreshPrepares, Update, KeepClients
  <2>2. VisitFrame
    BY <1>0, <1>2, PreparedType
       DEF SweepRefreshPrepares, VisitFrame, KeepGC, IInv, TypeOK
  <2>3. QuietStep
    BY <1>0, <1>2, <2>1, <2>2, SameRequest, ClientStays, CalmUnchanged
       DEF SweepRefreshPrepares
  <2>4. QED
    BY <2>3, QuietSteps
<1>3. QED
  BY <1>1, <1>2

\* Outside the loop only the executions wind down and clients leave.
Aftermath ==
    /\ TypeOK'
    /\ \A d \in Conn : Calm(exec[d], exec'[d]) /\ exec'[d].helper # "up"
    /\ phase \notin LoopPhase /\ phase' \notin LoopPhase
    /\ accepted' = accepted /\ reply' = reply
    /\ clients' \subseteq clients
    /\ JobKinds'
    /\ PassesOverClients'
    /\ phase' = "starting" => \A d \in Conn : exec'[d].workload => d \in todo'

LEMMA AftermathSteps ==
    ASSUME IInv, Aftermath
    PROVE  IInv'
<1>0. clients \subseteq Conn
  BY DEF IInv, TypeOK
<1>1. \A d \in Conn : Tree(exec[d])'
  BY DEF Aftermath, Calm
<1>2. UnusedConnections'
  BY DEF IInv, Aftermath, UnusedConnections, Calm
<1>3. Owners'
  BY DEF Aftermath, Owners
<1>4. DisjointSlots'
  BY <1>0 DEF IInv, Aftermath, DisjointSlots, HasProcess, Calm, LoopPhase
<1>5. ReplacementBarrier'
  <2>1. \A d \in Conn : exec'[d].workload => exec[d].workload
    BY DEF IInv, Aftermath, Owners, Calm
  <2>2. QED
    BY <2>1 DEF IInv, Aftermath, ReplacementBarrier, Calm
<1>6. Reports'
  BY DEF IInv, Aftermath, Reports, Calm
<1>7. QED
  BY <1>1, <1>2, <1>3, <1>4, <1>5, <1>6 DEF IInv, Aftermath

LEMMA FinallyStep ==
    ASSUME IInv, NEW c \in Conn, FinallyCloses(c)
    PROVE  IInv'
<1>0. /\ exec \in [Conn -> ExecutionRecord] /\ job \in [Conn -> Job]
      /\ clients \subseteq Conn
      /\ \A d \in Conn : Tree(exec[d])
  BY DEF IInv, TypeOK
<1>1. /\ phase = "finally" /\ phase' = "finally" /\ todo' = todo \ {c}
      /\ clients' = clients \ {c} /\ job' = [job EXCEPT ![c] = NoJob]
      /\ gone' = gone \ {c}
      /\ UNCHANGED <<active, reply, ssh, accepted, stopping, crashes, gcJob,
                     gcPending, gcOrphan>>
  BY DEF FinallyCloses, Visits, Visited, Close, KeepGC, KeepWorld
<1>2. \A d \in Conn : exec[d].helper # "up"
  BY <1>1 DEF IInv, Owners, LoopPhase
<1>3. PICK f : exec' = [exec EXCEPT ![c] = f] /\ Calm(exec[c], f)
  BY <1>0, <1>2, CalmLook, CalmReflexive DEF FinallyCloses
<1>4. /\ exec' \in [Conn -> ExecutionRecord]
      /\ \A d \in Conn : Calm(exec[d], exec'[d]) /\ exec'[d].helper # "up"
  BY <1>2, <1>3, CalmAt DEF Calm
<1>5. TypeOK'
  BY <1>0, <1>1, <1>4 DEF IInv, TypeOK, Job, NoJob
<1>6. JobKinds'
  <2>1. ~NoJob.refresh
    BY DEF NoJob
  <2>2. QED
    BY <1>0, <1>1, <1>4, <2>1 DEF IInv, JobKinds, HasProcess, Calm
<1>7. PassesOverClients'
  BY <1>1 DEF IInv, PassesOverClients
<1>8. Aftermath
  BY <1>1, <1>4, <1>5, <1>6, <1>7 DEF Aftermath, LoopPhase
<1>9. QED
  BY <1>8, AftermathSteps

LEMMA ReconcileStep ==
    ASSUME IInv, NEW c \in Conn, Reconcile(c)
    PROVE  IInv'
<1>0. /\ exec \in [Conn -> ExecutionRecord]
      /\ \A d \in Conn : Tree(exec[d])
  BY DEF IInv, TypeOK
<1>1. /\ phase = "starting" /\ phase' = "starting"
      /\ UNCHANGED <<clients, job, gone, active, reply, ssh, accepted, stopping,
                     crashes, gcJob, gcPending, gcOrphan>>
  BY DEF Reconcile, Visited, KeepClients, KeepGC, KeepWorld
<1>2. \A d \in Conn : exec[d].helper # "up"
  BY <1>1 DEF IInv, Owners, LoopPhase
<1>3. PICK o \in NamespaceExited(exec[c]) :
         \/ o.done /\ exec' = [exec EXCEPT ![c] = RemoveDirectory(o.exec)]
                   /\ todo' = todo \ {c}
         \/ ~o.done /\ exec' = [exec EXCEPT ![c] = o.exec] /\ todo' = todo
  BY DEF Reconcile, Visited
<1>4. PICK f : /\ exec' = [exec EXCEPT ![c] = f] /\ Calm(exec[c], f)
               /\ todo' = todo \/ (todo' = todo \ {c} /\ ~f.workload)
  <2>1. RemoveDirectory(o.exec).workload = o.exec.workload
    BY <1>0, <1>2, CalmLook DEF RemoveDirectory, Calm, ExecutionRecord
  <2>2. QED
    BY <1>0, <1>2, <1>3, <2>1, CalmLook
<1>5. /\ exec' \in [Conn -> ExecutionRecord]
      /\ \A d \in Conn : Calm(exec[d], exec'[d]) /\ exec'[d].helper # "up"
      /\ exec'[c] = f
  BY <1>0, <1>2, <1>4, CalmAt DEF Calm
<1>6. TypeOK'
  BY <1>1, <1>4, <1>5 DEF IInv, TypeOK
<1>7. JobKinds' /\ PassesOverClients'
  BY <1>1, <1>5 DEF IInv, JobKinds, PassesOverClients, HasProcess, Calm
<1>8. \A d \in Conn : exec'[d].workload => d \in todo'
  BY <1>1, <1>2, <1>4, <1>5 DEF IInv, Owners, Calm
<1>9. Aftermath
  BY <1>1, <1>5, <1>6, <1>7, <1>8 DEF Aftermath, LoopPhase
<1>10. QED
  BY <1>9, AftermathSteps

LEMMA StartupSteps ==
    ASSUME IInv
    PROVE  /\ Restart => IInv'
           /\ RefuseStartup => IInv'
           /\ BeginServing => IInv'
<1>0. /\ exec \in [Conn -> ExecutionRecord] /\ clients \subseteq Conn
      /\ \A d \in Conn : Tree(exec[d])
  BY DEF IInv, TypeOK
<1> USE DEF KeepClients, KeepGC, KeepWorld
<1>1. ASSUME UNCHANGED <<exec, clients, job>>
      PROVE  JobKinds' /\ \A d \in Conn : Calm(exec[d], exec'[d])
  BY <1>1, CalmUnchanged DEF IInv, JobKinds, HasProcess
<1>2. ASSUME Restart PROVE IInv'
  <2>1. \A d \in Conn : exec'[d].helper # "up"
    BY <1>2 DEF Restart, IInv, Owners, LoopPhase
  <2>2. \A d \in Conn : exec'[d].workload => d \in todo'
    BY <1>0, <1>2 DEF Restart, Tree
  <2>3. TypeOK'
    BY <1>2 DEF Restart, IInv, TypeOK, Phase
  <2>4. PassesOverClients'
    BY <1>2 DEF Restart, IInv, PassesOverClients
  <2>5. Aftermath
    BY <1>1, <1>2, <2>1, <2>2, <2>3, <2>4 DEF Restart, Aftermath, LoopPhase
  <2>6. QED
    BY <2>5, AftermathSteps
<1>3. ASSUME RefuseStartup PROVE IInv'
  <2>1. \A d \in Conn : exec'[d].helper # "up"
    BY <1>3 DEF RefuseStartup, IInv, Owners, LoopPhase
  <2>2. TypeOK'
    BY <1>3 DEF RefuseStartup, IInv, TypeOK, Phase
  <2>3. PassesOverClients'
    BY <1>3 DEF RefuseStartup, IInv, PassesOverClients
  <2>4. Aftermath
    BY <1>1, <1>3, <2>1, <2>2, <2>3 DEF RefuseStartup, Aftermath, LoopPhase
  <2>5. QED
    BY <2>4, AftermathSteps
<1>4. ASSUME BeginServing PROVE IInv'
  <2>1. /\ phase = "starting" /\ todo = {} /\ phase' = "poll" /\ todo' = {}
        /\ clients = {}
        /\ UNCHANGED <<exec, active, reply, ssh, clients, job, gone, gcJob, gcPending,
                       gcOrphan, accepted, stopping, crashes>>
    BY <1>4 DEF BeginServing, IInv, PassesOverClients
  <2>2. \A d \in Conn : exec[d].helper # "up" /\ ~exec[d].workload
    BY <2>1 DEF IInv, Owners, LoopPhase
  <2>3. TypeOK'
    BY <2>1 DEF IInv, TypeOK, Phase, LoopPhase
  <2>4. Owners' /\ PassesOverClients' /\ DisjointSlots' /\ JobKinds'
    BY <1>1, <2>1, <2>2 DEF Owners, PassesOverClients, DisjointSlots, LoopPhase
  <2>5. UnusedConnections' /\ ReplacementBarrier' /\ Reports'
    BY <2>1, <2>2 DEF IInv, UnusedConnections, ReplacementBarrier, Reports
  <2>6. QED
    BY <1>0, <2>1, <2>3, <2>4, <2>5 DEF IInv
<1>5. QED
  BY <1>2, <1>3, <1>4

\* Both ends of the process take the helpers along; the records stay.
LEMMA EndingSteps ==
    ASSUME IInv
    PROVE  /\ BrokerExits => IInv'
           /\ BrokerCrashes => IInv'
<1>0. /\ exec \in [Conn -> ExecutionRecord]
      /\ \A d \in Conn : Tree(exec[d])
  BY DEF IInv, TypeOK
<1>1. ASSUME Forget, \A d \in Conn : Calm(exec[d], exec'[d]) /\ exec'[d].helper # "up",
             exec' \in [Conn -> ExecutionRecord], crashes' \in 0..MaxCrashes,
             gcOrphan' \in BOOLEAN, UNCHANGED <<reply, accepted>>
      PROVE  IInv'
  <2>1. TypeOK'
    BY <1>1 DEF Forget, IInv, TypeOK, Phase, Job, NoJob, NoSSH, SSHState
  <2>2. \A d \in Conn : Tree(exec[d])'
    BY <1>1 DEF Calm
  <2>3. PassesOverClients' /\ Owners' /\ DisjointSlots'
    BY <1>1 DEF Forget, PassesOverClients, Owners, DisjointSlots, LoopPhase
  <2>4. JobKinds'
    BY <1>1 DEF Forget, JobKinds, NoJob
  <2>5. UnusedConnections' /\ Reports'
    BY <1>1 DEF Forget, IInv, UnusedConnections, Reports, Calm
  <2>6. ReplacementBarrier'
    <3>1. \A d \in Conn :
             exec'[d].workload => exec[d].workload \/ (d \in clients /\ HasProcess(d))
      BY <1>1 DEF IInv, Owners, Calm, HasProcess
    <3>2. \A d \in Conn : phase \in LoopPhase /\ exec'[d].workload
                          => d \in clients /\ HasProcess(d)
      BY <1>0, <1>1 DEF IInv, Owners, Calm, HasProcess, Tree
    <3>3. \A d \in Conn : phase \notin LoopPhase /\ exec'[d].workload => exec[d].workload
      BY <1>1 DEF IInv, Owners, Calm
    <3>4. QED
      BY <1>1, <3>2, <3>3 DEF IInv, ReplacementBarrier, DisjointSlots, Calm
  <2>7. QED
    BY <2>1, <2>2, <2>3, <2>4, <2>5, <2>6 DEF IInv
<1>2. ASSUME BrokerExits PROVE IInv'
  <2>1. \A d \in Conn : Calm(exec[d], exec'[d]) /\ exec'[d].helper # "up"
    BY <1>2, CalmUnchanged DEF BrokerExits, IInv, Owners, LoopPhase
  <2>2. QED
    BY <1>0, <1>1, <1>2, <2>1 DEF BrokerExits, IInv, TypeOK
<1>3. ASSUME BrokerCrashes PROVE IInv'
  <2>1. \A d \in Conn : Calm(exec[d], exec'[d]) /\ exec'[d].helper # "up"
    BY <1>0, <1>3, CalmKill DEF BrokerCrashes
  <2>2. exec' \in [Conn -> ExecutionRecord]
    BY <1>3, <2>1 DEF BrokerCrashes, Calm
  <2>3. crashes' \in 0..MaxCrashes
    BY <1>3, LimitAssumption DEF BrokerCrashes, IInv, TypeOK
  <2>4. gcOrphan' \in BOOLEAN
    BY <1>3 DEF BrokerCrashes, IInv, TypeOK
  <2>5. QED
    BY <1>1, <1>3, <2>1, <2>2, <2>3, <2>4 DEF BrokerCrashes
<1>4. QED
  BY <1>2, <1>3

----------------------------------------------------------------------------
(* What happens around the broker.                                         *)

Background ==
    /\ TypeOK'
    /\ \A d \in Conn : Calm(exec[d], exec'[d])
    /\ UNCHANGED <<phase, todo, active, clients, accepted, reply>>
    /\ JobKinds'

LEMMA BackgroundSteps ==
    ASSUME IInv, Background
    PROVE  IInv'
<1>0. /\ clients \subseteq Conn
      /\ \A d \in Conn : Tree(exec[d])
  BY DEF IInv, TypeOK
<1>1. \A d \in Conn : Tree(exec[d])'
  BY DEF Background, Calm
<1>2. UnusedConnections'
  BY DEF IInv, Background, UnusedConnections, Calm
<1>3. PassesOverClients'
  BY DEF IInv, Background, PassesOverClients
<1>4. Owners'
  BY DEF IInv, Background, Owners, Calm, LoopPhase
<1>5. DisjointSlots'
  BY <1>0 DEF IInv, Background, DisjointSlots, HasProcess, Calm
<1>6. ReplacementBarrier'
  <2>1. CASE phase \in LoopPhase
    <3>1. \A c \in Conn : exec'[c].workload => c \in clients /\ HasProcess(c)
      BY <1>0, <2>1 DEF IInv, Background, Owners, Calm, HasProcess, Tree
    <3>2. QED
      BY <3>1 DEF IInv, Background, ReplacementBarrier, DisjointSlots, Calm
  <2>2. CASE phase \notin LoopPhase
    <3>1. \A c \in Conn : exec'[c].workload => exec[c].workload
      BY <2>2 DEF IInv, Background, Owners, Calm
    <3>2. QED
      BY <3>1 DEF IInv, Background, ReplacementBarrier, Calm
  <2>3. QED
    BY <2>1, <2>2
<1>7. Reports'
  BY DEF IInv, Background, Reports, Calm
<1>8. QED
  BY <1>1, <1>2, <1>3, <1>4, <1>5, <1>6, <1>7 DEF IInv, Background

LEMMA SignalSteps ==
    ASSUME IInv
    PROVE  /\ Signalled => Background
           /\ SSHAnswers => Background
           /\ SSHServiceExits => Background
           /\ GCHelperAdvances => Background
           /\ \A c \in Conn : ClientCloses(c) => Background
<1> USE DEF KeepBroker, KeepGC
<1>1. ASSUME UNCHANGED <<exec, clients, job>>
      PROVE  JobKinds' /\ \A d \in Conn : Calm(exec[d], exec'[d])
  BY <1>1, CalmUnchanged DEF IInv, JobKinds, HasProcess
<1>2. ASSUME Signalled PROVE Background
  BY <1>1, <1>2 DEF Signalled, Background, IInv, TypeOK
<1>3. ASSUME SSHAnswers PROVE Background
  <2>1. ssh' \in SSHState
    BY <1>3 DEF SSHAnswers, IInv, TypeOK, SSHState
  <2>2. QED
    BY <1>1, <1>3, <2>1 DEF SSHAnswers, Background, IInv, TypeOK
<1>4. ASSUME SSHServiceExits PROVE Background
  <2>1. ssh' \in SSHState
    BY <1>4 DEF SSHServiceExits, IInv, TypeOK, SSHState
  <2>2. QED
    BY <1>1, <1>4, <2>1 DEF SSHServiceExits, Background, IInv, TypeOK
<1>5. ASSUME GCHelperAdvances PROVE Background
  BY <1>1, <1>5 DEF GCHelperAdvances, Background, IInv, TypeOK
<1>6. ASSUME NEW c \in Conn, ClientCloses(c) PROVE Background
  BY <1>1, <1>6 DEF ClientCloses, Background, IInv, TypeOK
<1>7. QED
  BY <1>2, <1>3, <1>4, <1>5, <1>6

LEMMA TimerSteps ==
    ASSUME IInv, NEW c \in Conn,
           WaitExpires(c) \/ DeadlineExpires(c) \/ CleanupExpires(c)
    PROVE  Background
<1>0. job \in [Conn -> Job]
  BY DEF IInv, TypeOK
<1>1. PICK j \in Job : /\ job' = [job EXCEPT ![c] = j]
                       /\ j.req = job[c].req /\ j.refresh = job[c].refresh
  <2>1. CASE WaitExpires(c)
    <3> DEFINE k == [job[c] EXCEPT !.waited = TRUE]
    <3>1. k \in Job /\ k.req = job[c].req /\ k.refresh = job[c].refresh
      BY <1>0 DEF Job
    <3>2. job' = [job EXCEPT ![c] = k]
      BY <2>1 DEF WaitExpires
    <3>3. QED
      BY <3>1, <3>2
  <2>2. CASE DeadlineExpires(c)
    <3> DEFINE k == [job[c] EXCEPT !.deadline = "passed"]
    <3>1. k \in Job /\ k.req = job[c].req /\ k.refresh = job[c].refresh
      BY <1>0 DEF Job
    <3>2. job' = [job EXCEPT ![c] = k]
      BY <2>2 DEF DeadlineExpires
    <3>3. QED
      BY <3>1, <3>2
  <2>3. CASE CleanupExpires(c)
    <3> DEFINE k == [job[c] EXCEPT !.cleanup = "overdue"]
    <3>1. k \in Job /\ k.req = job[c].req /\ k.refresh = job[c].refresh
      BY <1>0 DEF Job
    <3>2. job' = [job EXCEPT ![c] = k]
      BY <2>3 DEF CleanupExpires
    <3>3. QED
      BY <3>1, <3>2
  <2>4. QED
    BY <2>1, <2>2, <2>3
<1>2. c \in clients
  BY DEF WaitExpires, DeadlineExpires, CleanupExpires, IInv, JobKinds, NoJob
<1>3. UNCHANGED <<exec, phase, todo, active, clients, accepted, reply, crashes, gone,
                  stopping, ssh, gcJob, gcPending, gcOrphan>>
  BY DEF WaitExpires, DeadlineExpires, CleanupExpires, KeepBroker, KeepGC
<1>4. TypeOK'
  BY <1>0, <1>1, <1>3 DEF IInv, TypeOK
<1>5. JobKinds'
  BY <1>0, <1>1, <1>2, <1>3 DEF IInv, JobKinds, HasProcess
<1>6. QED
  BY <1>3, <1>4, <1>5, CalmUnchanged DEF Background

LEMMA SupervisorSteps ==
    ASSUME IInv, ExecutionSteps
    PROVE  Background
<1>1. PICK c \in Conn : ExecutionStep(c)
  BY DEF ExecutionSteps
<1>2. PICK f : exec' = [exec EXCEPT ![c] = f] /\ Calm(exec[c], f)
  BY <1>1, CalmSteps DEF IInv, TypeOK
<1>3. \A d \in Conn : Calm(exec[d], exec'[d])
  BY <1>2, CalmAt
<1>4. exec' \in [Conn -> ExecutionRecord]
  BY <1>2, CalmAt
<1>5. TypeOK'
  BY <1>4 DEF ExecutionSteps, KeepBroker, KeepGC, IInv, TypeOK
<1>6. JobKinds'
  BY <1>3 DEF ExecutionSteps, KeepBroker, IInv, JobKinds, HasProcess, Calm
<1>7. QED
  BY <1>3, <1>5, <1>6 DEF Background, ExecutionSteps, KeepBroker

----------------------------------------------------------------------------
(* The theorems.                                                           *)

LEMMA InitEstablishes ==
    Init => IInv
<1> SUFFICES ASSUME Init PROVE IInv
  OBVIOUS
<1>0. /\ exec = [c \in Conn |-> NoExecution] /\ phase = "poll" /\ todo = {} /\ active = {}
      /\ clients = {} /\ accepted = 0 /\ job = [c \in Conn |-> NoJob]
      /\ reply = [c \in Conn |-> "none"] /\ gone = {} /\ stopping = FALSE /\ ssh = NoSSH
      /\ gcJob = "none" /\ gcPending = {} /\ gcOrphan = FALSE /\ crashes = 0
  BY DEF Init, ExecutionInit
<1>1. NoExecution \in ExecutionRecord /\ Tree(NoExecution)
  BY DEF NoExecution, ExecutionRecord, Tree
<1>2. TypeOK
  <2>1. NoJob \in Job
    BY DEF Job, NoJob
  <2>2. NoSSH \in SSHState
    BY DEF SSHState, NoSSH
  <2>3. /\ exec \in [Conn -> ExecutionRecord] /\ job \in [Conn -> Job]
        /\ reply \in [Conn -> Reply] /\ ssh \in SSHState
    BY <1>0, <1>1, <2>1, <2>2 DEF Reply
  <2>4. accepted \in 0..MaxConn /\ crashes \in 0..MaxCrashes
    BY <1>0, ConnAssumption, LimitAssumption
  <2>5. QED
    BY <1>0, <2>3, <2>4 DEF TypeOK, Phase, LoopPhase
<1>3. \A c \in Conn : /\ Tree(exec[c]) /\ exec[c].helper = "none" /\ ~exec[c].workload
  BY <1>0, <1>1 DEF NoExecution
<1>4. UnusedConnections /\ PassesOverClients /\ Owners /\ DisjointSlots
  BY <1>0, <1>3 DEF UnusedConnections, PassesOverClients, Owners, DisjointSlots, LoopPhase
<1>5. JobKinds
  BY <1>0 DEF JobKinds, NoJob
<1>6. ReplacementBarrier /\ Reports
  BY <1>0, <1>3 DEF ReplacementBarrier, Reports
<1>7. QED
  BY <1>2, <1>3, <1>4, <1>5, <1>6 DEF IInv

LEMMA StutterPreserves ==
    ASSUME IInv, UNCHANGED vars
    PROVE  IInv'
<1>1. UNCHANGED <<exec, phase, todo, active, clients, accepted, job, reply, gone,
                  stopping, ssh, gcJob, gcPending, gcOrphan, crashes>>
  BY DEF vars
<1>2. TypeOK'
  BY <1>1 DEF IInv, TypeOK
<1>3. JobKinds'
  BY <1>1 DEF IInv, JobKinds, HasProcess
<1>4. Background
  BY <1>1, <1>2, <1>3, CalmUnchanged DEF Background
<1>5. QED
  BY <1>4, BackgroundSteps

LEMMA BrokerPreserves ==
    ASSUME IInv, BrokerStep
    PROVE  IInv'
<1>1. ASSUME NEW c \in Conn, ClientStep(c)
      PROVE  IInv'
  <2>1. CASE \/ SweepRefreshAnswered(c) \/ SweepTeardownPending(c) \/ SweepExited(c)
             \/ SweepRunning(c) \/ SweepWaiting(c)
    BY <2>1, SweepSteps, QuietSteps
  <2>2. CASE SweepRefreshPrepares(c)
    BY <2>2, RefreshPreparesStep
  <2>3. CASE \/ LaunchNotDue(c) \/ LaunchHeld(c) \/ LaunchPreparesSSH(c) \/ LaunchFails(c)
    BY <2>3, QuietLaunchSteps, QuietSteps
  <2>4. CASE LaunchStarts(c)
    BY <2>4, LaunchStep
  <2>5. CASE \/ ReceiveStart(c) \/ ReceiveRefresh(c) \/ ReceiveStatus(c)
             \/ ReceiveTerminate(c) \/ ReceiveBad(c)
    BY <2>5, ReceiveSteps, QuietSteps
  <2>6. CASE FinallyCloses(c)
    BY <2>6, FinallyStep
  <2>7. CASE Reconcile(c)
    BY <2>7, ReconcileStep
  <2>8. QED
    BY <1>1, <2>1, <2>2, <2>3, <2>4, <2>5, <2>6, <2>7 DEF ClientStep
<1>2. CASE \/ PollBranchGC \/ PollIdleSSH \/ PollSSHAnswer \/ EndSweep \/ EndLaunch
           \/ EndHandle
  BY <1>2, BetweenPasses, QuietSteps
<1>3. ASSUME NEW c \in Conn \cup {Listener}, HandleQuiet(c)
      PROVE  IInv'
  BY <1>3, BetweenPasses, ReceiveSteps, QuietSteps
<1>4. CASE LeaveLoop \/ PollDeadSSH
  BY <1>4, LeavingSteps
<1>5. CASE Accept
  BY <1>5, AcceptStep
<1>6. CASE BrokerExits \/ BeginServing
  BY <1>6, EndingSteps, StartupSteps
<1>7. QED
  BY <1>1, <1>2, <1>3, <1>4, <1>5, <1>6 DEF BrokerStep

LEMMA EnvironmentPreserves ==
    ASSUME IInv, Environment
    PROVE  IInv'
<1>1. CASE ExecutionSteps
  BY <1>1, SupervisorSteps, BackgroundSteps
<1>2. CASE Timers
  BY <1>2, TimerSteps, BackgroundSteps DEF Timers
<1>3. CASE \/ \E c \in Conn : ClientCloses(c)
           \/ Signalled \/ SSHAnswers \/ SSHServiceExits \/ GCHelperAdvances
  BY <1>3, SignalSteps, BackgroundSteps
<1>4. CASE BrokerCrashes
  BY <1>4, EndingSteps
<1>5. CASE Restart \/ RefuseStartup
  BY <1>5, StartupSteps
<1>6. QED
  BY <1>1, <1>2, <1>3, <1>4, <1>5 DEF Environment

\* IInv holds in every state of every behaviour of the broker.
THEOREM Invariance == Spec => []IInv
<1>1. Init => IInv
  BY InitEstablishes
<1>2. IInv /\ [Next]_vars => IInv'
  BY BrokerPreserves, EnvironmentPreserves, StutterPreserves DEF Next
<1>3. QED
  BY <1>1, <1>2, PTL DEF Spec

\* Every variable of the event loop keeps its type.
THEOREM TypeCorrect == Spec => []TypeOK
<1>1. IInv => TypeOK
  BY DEF IInv
<1>2. QED
  BY <1>1, Invariance, PTL

\* Two workloads with the same provider and agent id never overlap, across any
\* number of clients, failures, crashes and restarts.
THEOREM Barrier == Spec => []ReplacementBarrier
<1>1. IInv => ReplacementBarrier
  BY DEF IInv
<1>2. QED
  BY <1>1, Invariance, PTL

\* A serving broker owns every live workload through a connected client.
THEOREM Ownership == Spec => []OwnedWorkloads
<1>1. IInv => OwnedWorkloads
  BY DEF IInv, Owners, OwnedWorkloads
<1>2. QED
  BY <1>1, Invariance, PTL

\* "exited" is reported only for executions of which nothing is left, and no
\* later step brings anything back.
THEOREM Teardown == Spec => []ExitedAfterTeardown
<1>1. IInv => ExitedAfterTeardown
  BY DEF IInv, Reports, Finished, ExitedAfterTeardown
<1>2. QED
  BY <1>1, Invariance, PTL

\* At whatever moment the broker dies, its records lead to every workload.
THEOREM Records == Spec => []RecordedWorkloads
<1>1. IInv => RecordedWorkloads
  BY DEF IInv, Tree, RecordedWorkloads
<1>2. QED
  BY <1>1, Invariance, PTL
=============================================================================
