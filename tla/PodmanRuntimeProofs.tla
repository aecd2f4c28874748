------------------------ MODULE PodmanRuntimeProofs -------------------------
(***************************************************************************)
(* The shared runtime for any number of sessions and of failures: its      *)
(* locks keep every process off an engine that a supervised agent uses,    *)
(* and they implement the lease table of RuntimeLease, in which commands   *)
(* that outlive their client come late.                                    *)
(***************************************************************************)
EXTENDS PodmanRuntime, TLAPS

Inv == TypeOK /\ LocksHeld
Locks == StartupHeld /\ LeaseHeld /\ LeaseAlone

USE DEF Manager

LEMMA InitInv == Init => Inv
<1> SUFFICES ASSUME Init PROVE Inv
  OBVIOUS
<1>1. TypeOK
  <2>1. pc \in [Manager -> Stage] /\ tasks \in BOOLEAN
    BY DEF Init, Stage
  <2>3. pending \in [Command -> Nat] /\ late \in BOOLEAN
    BY DEF Init
  <2>2. faults \in 0..MaxFaults
    BY FaultAssumption DEF Init
  <2> QED  BY <2>1, <2>2, <2>3 DEF Init, TypeOK
<1>2. StartupHeld /\ LeaseHeld
  BY ProcessAssumption DEF Init, StartupHeld, LeaseHeld, Attaching, Attached, Mutating
<1>3. LeaseAlone /\ StagesHeld
  BY ProcessAssumption DEF Init, LeaseAlone, StagesHeld
<1> QED  BY <1>1, <1>2, <1>3 DEF Inv, LocksHeld

----------------------------------------------------------------------------
(* Types.                                                                  *)

LEMMA GoType ==
  ASSUME TypeOK, NEW p \in Manager, NEW stage \in Stage, Go(p, stage)
  PROVE  pc' \in [Manager -> Stage]
  BY DEF TypeOK, Go

LEMMA QuitType ==
  ASSUME TypeOK, NEW p \in Manager, Quit(p)
  PROVE  /\ pc' \in [Manager -> Stage]
         /\ lease' \in [Manager -> {"none", "shared", "exclusive"}]
         /\ startup' \in Manager \cup {Nobody}
  BY DEF TypeOK, Quit, Go, Stage

LEMMA AbandonType ==
  ASSUME TypeOK, NEW p, Abandon(p) PROVE pending' \in [Command -> Nat]
  BY DEF TypeOK, Abandon, Command

LEMMA CarriedOutType ==
  ASSUME TypeOK, NEW c \in Command, CarriedOut(c) PROVE pending' \in [Command -> Nat]
  BY DEF TypeOK, CarriedOut

LEMMA FaultType ==
  ASSUME TypeOK, NEW kind, Fault(kind) PROVE faults' \in 0..MaxFaults
  BY FaultAssumption DEF TypeOK, Fault

----------------------------------------------------------------------------
(* Locks.                                                                  *)

\* One process moves on and keeps its locks.
LEMMA MoveKeeps ==
  ASSUME Inv, NEW p \in Manager, NEW stage \in Stage, Go(p, stage), KeepLocks,
         stage \in Attaching \cup {"judge"} <=> pc[p] \in Attaching \cup {"judge"},
         stage \in Attached <=> pc[p] \in Attached,
         stage \in Mutating => lease[p] = "exclusive",
         lease[p] = "exclusive" => stage \in Mutating \cup {"share"}
  PROVE  Locks'
<1> USE DEF Inv, TypeOK, LocksHeld, Go, KeepLocks
<1>1. pc' \in [Manager -> Stage] /\ pc'[p] = stage /\ \A q \in Manager \ {p} : pc'[q] = pc[q]
  OBVIOUS
<1>2. StartupHeld'
  BY <1>1 DEF StartupHeld
<1>3. LeaseHeld'
  BY <1>1 DEF LeaseHeld
<1>4. LeaseAlone'
  BY DEF LeaseAlone
<1> QED  BY <1>2, <1>3, <1>4 DEF Locks

\* One process gives up its locks.
LEMMA QuitKeeps ==
  ASSUME Inv, NEW p \in Manager, Quit(p)
  PROVE  Locks'
<1> USE DEF Inv, TypeOK, LocksHeld, Quit, Go
<1>1. /\ pc'[p] = "idle" /\ \A q \in Manager \ {p} : pc'[q] = pc[q]
      /\ lease'[p] = "none" /\ \A q \in Manager \ {p} : lease'[q] = lease[q]
  OBVIOUS
<1>2. "idle" \notin Attaching \cup Attached \cup Mutating \cup {"judge"}
  BY DEF Attaching, Attached, Mutating
<1>3. StartupHeld'
  BY <1>1, <1>2, ProcessAssumption DEF StartupHeld
<1>4. LeaseHeld'
  BY <1>1, <1>2 DEF LeaseHeld
<1>5. LeaseAlone'
  BY <1>1 DEF LeaseAlone
<1> QED  BY <1>3, <1>4, <1>5 DEF Locks

\* While a process may change the engine, nobody else has got past startup.lock
\* or is attached.
LEMMA OthersOut ==
  ASSUME Inv, NEW p \in Manager, lease[p] = "exclusive", NEW q \in Manager, p # q
  PROVE  pc[q] \in {"idle", "queue"}
<1>1. pc[p] \in Attaching \cup {"judge"}
  BY DEF Inv, LocksHeld, LeaseHeld, Mutating, Attaching
<1>2. pc[q] \notin Attaching \cup {"judge"}
  BY <1>1 DEF Inv, LocksHeld, StartupHeld
<1>3. pc[q] \notin Attached
  BY DEF Inv, LocksHeld, LeaseHeld, LeaseAlone
<1> QED  BY <1>2, <1>3 DEF Inv, TypeOK, Stage

LEMMA LocksStep == Inv /\ [Next]_vars => Locks'
<1> SUFFICES ASSUME Inv, [Next]_vars PROVE Locks'
  OBVIOUS
<1> USE DEF Stage, Attaching, Attached, Mutating
<1>u. UNCHANGED <<pc, startup, lease>> => Locks'
  BY DEF Inv, LocksHeld, Locks, StartupHeld, LeaseHeld, LeaseAlone
<1>h. /\ \A p \in Manager : lease[p] = "exclusive" => pc[p] \in Mutating \cup {"share"}
      /\ \A p \in Manager : pc[p] \in Mutating => lease[p] = "exclusive"
  BY DEF Inv, LocksHeld, LeaseHeld
<1>1. ASSUME NEW s \in Session, SessionStep(s) PROVE Locks'
  <2>1. CASE Probe(s)
    BY <2>1, <1>h, MoveKeeps DEF Probe
  <2>2. CASE CreateContainer(s)
    BY <2>2, <1>h, MoveKeeps DEF CreateContainer
  <2>3. CASE AwaitApi(s) \/ AwaitFails(s)
    BY <2>3, <1>h, MoveKeeps DEF AwaitApi, AwaitFails
  <2>4. CASE Mark(s)
    BY <2>4, <1>h, MoveKeeps DEF Mark
  <2>5. CASE Share(s)
    <3> USE <2>5 DEF Share, Inv, TypeOK, LocksHeld, Go
    <3>1. /\ pc'[s] = "spawn" /\ \A q \in Manager \ {s} : pc'[q] = pc[q]
          /\ lease'[s] = "shared" /\ \A q \in Manager \ {s} : lease'[q] = lease[q]
      OBVIOUS
    <3>2. StartupHeld'
      BY <3>1, ProcessAssumption DEF StartupHeld
    <3>3. LeaseHeld'
      BY <3>1 DEF LeaseHeld
    <3>4. LeaseAlone'
      BY <3>1 DEF LeaseAlone
    <3> QED  BY <3>2, <3>3, <3>4 DEF Locks
  <2>6. CASE Spawn(s)
    BY <2>6, <1>h, MoveKeeps DEF Spawn
  <2>7. CASE AgentReaped(s)
    BY <2>7, <1>h, MoveKeeps DEF AgentReaped
  <2>8. CASE Touch(s)
    BY <2>8, <1>h, MoveKeeps DEF Touch
  <2>9. CASE Release(s)
    BY <2>9, QuitKeeps DEF Release
  <2> QED  BY <1>1, <2>1, <2>2, <2>3, <2>4, <2>5, <2>6, <2>7, <2>8, <2>9 DEF SessionStep
<1>2. ASSUME NEW s \in Session, Interrupt(s) PROVE Locks'
  <2>1. CASE pc[s] \in {"boot", "await", "mark"} /\ Go(s, "undo") /\ KeepLocks
    BY <2>1, <1>h, MoveKeeps
  <2>2. CASE Quit(s)
    BY <2>2, QuitKeeps
  <2>3. CASE pc[s] = "spawn" /\ Go(s, "leave") /\ KeepLocks
    BY <2>3, <1>h, MoveKeeps
  <2> QED  BY <1>2, <2>1, <2>2, <2>3 DEF Interrupt
<1>3. ASSUME NEW p \in Manager, Arrive(p) PROVE Locks'
  BY <1>3, <1>h, MoveKeeps DEF Arrive
<1>4. ASSUME NEW p \in Manager, LockStartup(p) PROVE Locks'
  <2> USE <1>4 DEF LockStartup, Inv, TypeOK, LocksHeld, Go
  <2>1. /\ pc'[p] \in {"probe", "claim"} /\ \A q \in Manager \ {p} : pc'[q] = pc[q]
        /\ startup' = p /\ startup = Nobody /\ UNCHANGED lease /\ pc[p] = "queue"
    OBVIOUS
  <2>2. StartupHeld'
    BY <2>1, ProcessAssumption DEF StartupHeld
  <2>3. LeaseHeld'
    BY <2>1 DEF LeaseHeld
  <2>4. LeaseAlone'
    BY <2>1 DEF LeaseAlone
  <2> QED  BY <2>2, <2>3, <2>4 DEF Locks
<1>5. ASSUME NEW p \in Manager, ManagerStep(p) PROVE Locks'
  <2>1. CASE Claim(p) /\ Unleased(p)
    <3> USE <2>1 DEF Claim, Inv, TypeOK, LocksHeld, Go
    <3>1. /\ pc'[p] = "clean" /\ \A q \in Manager \ {p} : pc'[q] = pc[q]
          /\ lease'[p] = "exclusive" /\ \A q \in Manager \ {p} : lease'[q] = lease[q]
          /\ UNCHANGED startup /\ pc[p] = "claim"
      OBVIOUS
    <3>2. StartupHeld'
      BY <3>1 DEF StartupHeld
    <3>3. LeaseHeld'
      BY <3>1 DEF LeaseHeld
    <3>4. LeaseAlone'
      BY <3>1 DEF LeaseAlone, Unleased
    <3> QED  BY <3>2, <3>3, <3>4 DEF Locks
  <2>2. CASE Claim(p) /\ ~Unleased(p)
    BY <2>2, QuitKeeps DEF Claim
  <2>3. CASE RemoveContainer(p)
    BY <2>3, <1>h, MoveKeeps DEF RemoveContainer
  <2>4. CASE Unmark(p)
    <3>1. CASE Go(p, "boot") /\ KeepLocks
      BY <2>4, <3>1, <1>h, MoveKeeps DEF Unmark
    <3>2. CASE Quit(p)
      BY <3>2, QuitKeeps
    <3> QED  BY <2>4, <3>1, <3>2 DEF Unmark
  <2> QED  BY <1>5, <2>1, <2>2, <2>3, <2>4 DEF ManagerStep
<1>6. ASSUME NEW p \in Manager, OuterFails(p) PROVE Locks'
  <2>1. CASE pc[p] = "probe" /\ Go(p, "claim") /\ KeepLocks
    BY <2>1, <1>h, MoveKeeps
  <2>2. CASE pc[p] \in {"boot", "await"} /\ Go(p, "undo") /\ KeepLocks
    BY <2>2, <1>h, MoveKeeps
  <2>3. CASE Quit(p)
    BY <2>3, QuitKeeps
  <2>4. CASE pc[p] = "spawn" /\ Go(p, "leave") /\ KeepLocks
    BY <2>4, <1>h, MoveKeeps
  <2> QED  BY <1>6, <2>1, <2>2, <2>3, <2>4 DEF OuterFails
<1>7. ASSUME NEW p \in Manager, Kill(p) PROVE Locks'
  BY <1>7, QuitKeeps DEF Kill
<1>8. CASE LockIdle
  <2> USE <1>8 DEF LockIdle, Inv, TypeOK, LocksHeld, Go
  <2>1. /\ pc'[Collector] = "judge" /\ \A q \in Manager \ {Collector} : pc'[q] = pc[q]
        /\ lease'[Collector] = "exclusive"
        /\ \A q \in Manager \ {Collector} : lease'[q] = lease[q]
        /\ startup' = Collector /\ startup = Nobody
    OBVIOUS
  <2>2. StartupHeld'
    BY <2>1, ProcessAssumption DEF StartupHeld
  <2>3. LeaseHeld'
    BY <2>1 DEF LeaseHeld
  <2>4. LeaseAlone'
    BY <2>1 DEF LeaseAlone, Unleased
  <2> QED  BY <2>2, <2>3, <2>4 DEF Locks
<1>9. CASE Judge
  <2>1. CASE pc[Collector] = "judge" /\ Go(Collector, "clean") /\ KeepLocks
    BY <2>1, <1>h, MoveKeeps
  <2>2. CASE Quit(Collector)
    BY <2>2, QuitKeeps
  <2> QED  BY <1>9, <2>1, <2>2 DEF Judge
<1>10. CASE GraceOver \/ TaskStarts \/ TaskEnds \/ ApiAnswers \/ LateRemove \/ LateCreate
           \/ ContainerFails \/ UNCHANGED vars
            \/ \E s \in Session : AgentExits(s)
  BY <1>10, <1>u DEF GraceOver, TaskStarts, TaskEnds, ApiAnswers, LateRemove, LateCreate,
        ContainerFails, AgentExits, KeepLocks, vars
<1>11. CASE Reboot
  BY <1>11, ProcessAssumption DEF Reboot, Locks, StartupHeld, LeaseHeld, LeaseAlone
<1> QED
  BY <1>1, <1>2, <1>3, <1>4, <1>5, <1>6, <1>7, <1>8, <1>9, <1>10, <1>11 DEF Next

----------------------------------------------------------------------------
(* Types and stages.                                                       *)

LEMMA TypeStep == Inv /\ [Next]_vars => TypeOK'
<1> SUFFICES ASSUME TypeOK, [Next]_vars PROVE TypeOK'
  BY DEF Inv
<1>u. UNCHANGED <<pc, startup, lease>> =>
        /\ pc' \in [Manager -> Stage] /\ startup' \in Manager \cup {Nobody}
        /\ lease' \in [Manager -> {"none", "shared", "exclusive"}]
  BY DEF TypeOK
<1>g. \A p \in Manager, stage \in Stage : Go(p, stage) => pc' \in [Manager -> Stage]
  BY GoType
<1>q. ASSUME NEW p \in Manager, Quit(p)
      PROVE  /\ pc' \in [Manager -> Stage]
             /\ lease' \in [Manager -> {"none", "shared", "exclusive"}]
             /\ startup' \in Manager \cup {Nobody}
  BY <1>q, QuitType
<1>1. pc' \in [Manager -> Stage]
  <2> USE DEF Stage, Attaching, Attached
  <2>1. ASSUME NEW s \in Session, SessionStep(s) \/ AgentExits(s) \/ Interrupt(s)
        PROVE  pc' \in [Manager -> Stage]
    <3>1. CASE SessionStep(s)
      BY <3>1, <1>g, <1>q DEF SessionStep, Probe, CreateContainer, AwaitApi, AwaitFails, Mark, Share, Spawn,
                              AgentReaped, Touch, Release
    <3>2. CASE AgentExits(s)
      BY <3>2 DEF AgentExits, TypeOK
    <3>3. CASE Interrupt(s)
      BY <3>3, <1>g, <1>q DEF Interrupt
    <3> QED  BY <2>1, <3>1, <3>2, <3>3
  <2>2. ASSUME NEW p \in Manager,
               Arrive(p) \/ LockStartup(p) \/ ManagerStep(p) \/ OuterFails(p) \/ Kill(p)
        PROVE  pc' \in [Manager -> Stage]
    <3>1. CASE ManagerStep(p)
      BY <3>1, <1>g, <1>q DEF ManagerStep, Claim, RemoveContainer, Unmark
    <3>2. CASE OuterFails(p)
      BY <3>2, <1>g, <1>q DEF OuterFails
    <3>3. CASE LockStartup(p)
      <4>1. Go(p, "probe") \/ Go(p, "claim")
        BY <3>3 DEF LockStartup
      <4> QED  BY <4>1, <1>g
    <3>4. CASE Arrive(p) \/ Kill(p)
      BY <3>4, <1>g, <1>q DEF Arrive, Kill
    <3> QED  BY <2>2, <3>1, <3>2, <3>3, <3>4
  <2>3. CASE LockIdle \/ Judge
    BY <2>3, <1>g, <1>q DEF LockIdle, Judge
  <2>4. CASE GraceOver \/ TaskStarts \/ TaskEnds \/ ApiAnswers \/ LateRemove \/ LateCreate
           \/ ContainerFails \/ UNCHANGED vars
    BY <2>4 DEF GraceOver, TaskStarts, TaskEnds, ApiAnswers, LateRemove, LateCreate,
        ContainerFails, vars, TypeOK
  <2>5. CASE Reboot
    BY <2>5 DEF Reboot
  <2> QED  BY <2>1, <2>2, <2>3, <2>4, <2>5 DEF Next
<1>2. /\ startup' \in Manager \cup {Nobody}
      /\ lease' \in [Manager -> {"none", "shared", "exclusive"}]
  <2>1. ASSUME NEW s \in Session, SessionStep(s) \/ AgentExits(s) \/ Interrupt(s)
        PROVE  /\ startup' \in Manager \cup {Nobody}
               /\ lease' \in [Manager -> {"none", "shared", "exclusive"}]
    BY <2>1, <1>q DEF SessionStep, Probe, CreateContainer, AwaitApi, AwaitFails, Mark, Share, Spawn,
                      AgentReaped, Touch, Release, AgentExits, Interrupt, KeepLocks, TypeOK
  <2>2. ASSUME NEW p \in Manager,
               Arrive(p) \/ LockStartup(p) \/ ManagerStep(p) \/ OuterFails(p) \/ Kill(p)
        PROVE  /\ startup' \in Manager \cup {Nobody}
               /\ lease' \in [Manager -> {"none", "shared", "exclusive"}]
    BY <2>2, <1>q DEF ManagerStep, Claim, RemoveContainer, Unmark, OuterFails, LockStartup,
                      Arrive, Kill, KeepLocks, TypeOK
  <2>3. CASE LockIdle \/ Judge
    BY <2>3, <1>q DEF LockIdle, Judge, KeepLocks, TypeOK
  <2>4. CASE GraceOver \/ TaskStarts \/ TaskEnds \/ ApiAnswers \/ LateRemove \/ LateCreate
           \/ ContainerFails \/ UNCHANGED vars \/ Reboot
    BY <2>4 DEF GraceOver, TaskStarts, TaskEnds, ApiAnswers, LateRemove, LateCreate,
        ContainerFails, Reboot, KeepLocks, vars, TypeOK
  <2> QED  BY <2>1, <2>2, <2>3, <2>4 DEF Next
<1>3. /\ container' \in {"absent", "starting", "up", "hung", "broken"}
      /\ pending' \in [Command -> Nat]
      /\ late' \in BOOLEAN
      /\ ready' \in {"absent", "here", "old"}
      /\ fresh' \subseteq {"ready", "detach"}
      /\ tasks' \in BOOLEAN
      /\ agent' \in [Session -> {"none", "child", "orphan"}]
      /\ faults' \in 0..MaxFaults
  <2> DEFINE World == /\ container' \in {"absent", "starting", "up", "hung", "broken"}
                      /\ late' \in BOOLEAN
                      /\ ready' \in {"absent", "here", "old"}
                      /\ fresh' \subseteq {"ready", "detach"}
                      /\ tasks' \in BOOLEAN
      People == /\ agent' \in [Session -> {"none", "child", "orphan"}]
                /\ pending' \in [Command -> Nat]
                /\ faults' \in 0..MaxFaults
  <2>w. UNCHANGED engineState => World
    BY DEF engineState, TypeOK
  <2>p. KeepUsers => People
    BY DEF KeepUsers, TypeOK
  <2>1. ASSUME NEW s \in Session, SessionStep(s) \/ AgentExits(s) \/ Interrupt(s)
        PROVE  World /\ People
    <3>1. World
      <4>1. CASE CreateContainer(s) \/ Mark(s) \/ Touch(s)
        BY <4>1 DEF CreateContainer, Mark, Touch, TypeOK
      <4>2. CASE ~(CreateContainer(s) \/ Mark(s) \/ Touch(s))
        <5>1. UNCHANGED engineState
          BY <2>1, <4>2 DEF SessionStep, Probe, AwaitApi, AwaitFails, Share, Spawn, AgentReaped,
                            Release, AgentExits, Interrupt, engineState
        <5> QED  BY <5>1, <2>w
      <4> QED  BY <4>1, <4>2
    <3>2. People
      <4>1. CASE Spawn(s) \/ AgentExits(s)
        BY <4>1 DEF Spawn, AgentExits, TypeOK
      <4>2. CASE Interrupt(s)
        <5>1. faults' \in 0..MaxFaults
          BY <4>2, FaultType DEF Interrupt
        <5>2. agent' \in {agent, [agent EXCEPT ![s] = "orphan"]}
          BY <4>2 DEF Interrupt
        <5>3. pending' \in [Command -> Nat]
          BY <4>2, AbandonType DEF Interrupt
        <5> QED  BY <5>1, <5>2, <5>3 DEF TypeOK
      <4>3. CASE SessionStep(s) /\ ~Spawn(s)
        <5>1. KeepUsers
          BY <4>3 DEF SessionStep, Probe, CreateContainer, AwaitApi, AwaitFails, Mark, Share,
                      AgentReaped, Touch, Release
        <5> QED  BY <5>1, <2>p
      <4> QED  BY <2>1, <4>1, <4>2, <4>3
    <3> QED  BY <3>1, <3>2
  <2>2. ASSUME NEW p \in Manager,
               Arrive(p) \/ LockStartup(p) \/ ManagerStep(p) \/ OuterFails(p) \/ Kill(p)
        PROVE  World /\ People
    <3>1. World
      <4>1. CASE RemoveContainer(p) \/ Unmark(p)
        BY <4>1 DEF RemoveContainer, Unmark, TypeOK
      <4>2. CASE Arrive(p) \/ LockStartup(p) \/ Claim(p) \/ OuterFails(p) \/ Kill(p)
        <5>1. UNCHANGED engineState
          BY <4>2 DEF Arrive, LockStartup, Claim, OuterFails, Kill, engineState
        <5> QED  BY <5>1, <2>w
      <4> QED  BY <2>2, <4>1, <4>2 DEF ManagerStep
    <3>2. People
      <4>1. CASE OuterFails(p) \/ Kill(p)
        <5>1. faults' \in 0..MaxFaults
          BY <4>1, FaultType DEF OuterFails, Kill
        <5>2. agent' \in [Session -> {"none", "child", "orphan"}]
          BY <4>1 DEF OuterFails, Kill, TypeOK
        <5>3. pending' \in [Command -> Nat]
          BY <4>1, AbandonType DEF OuterFails, Kill, TypeOK
        <5> QED  BY <5>1, <5>2, <5>3
      <4>2. CASE Arrive(p) \/ LockStartup(p) \/ ManagerStep(p)
        <5>1. KeepUsers
          BY <4>2 DEF Arrive, LockStartup, ManagerStep, Claim, RemoveContainer, Unmark
        <5> QED  BY <5>1, <2>p
      <4> QED  BY <2>2, <4>1, <4>2
    <3> QED  BY <3>1, <3>2
  <2>3. CASE LockIdle \/ Judge
    <3>1. UNCHANGED engineState /\ KeepUsers
      BY <2>3 DEF LockIdle, Judge
    <3> QED  BY <3>1, <2>w, <2>p
  <2>4. CASE GraceOver \/ TaskStarts \/ TaskEnds \/ ApiAnswers
    <3>1. World
      BY <2>4 DEF GraceOver, TaskStarts, TaskEnds, ApiAnswers, TypeOK
    <3>2. KeepUsers
      BY <2>4 DEF GraceOver, TaskStarts, TaskEnds, ApiAnswers
    <3> QED  BY <3>1, <3>2, <2>p
  <2>5. CASE LateRemove \/ LateCreate
    <3>1. pending' \in [Command -> Nat]
      BY <2>5, CarriedOutType DEF LateRemove, LateCreate, Command
    <3>2. World
      BY <2>5 DEF LateRemove, LateCreate, TypeOK
    <3> QED  BY <2>5, <3>1, <3>2 DEF LateRemove, LateCreate, TypeOK
  <2>6. CASE ContainerFails
    <3>1. faults' \in 0..MaxFaults
      BY <2>6, FaultType DEF ContainerFails
    <3>2. tasks' \in BOOLEAN
      BY <2>6 DEF ContainerFails, TypeOK
    <3> QED  BY <2>6, <3>1, <3>2 DEF ContainerFails, TypeOK
  <2>7. CASE Reboot
    <3>1. faults' \in 0..MaxFaults
      BY <2>7, FaultType DEF Reboot
    <3>2. pending' \in [Command -> Nat]
      BY <2>7 DEF Reboot
    <3> QED  BY <2>7, <3>1, <3>2 DEF Reboot, TypeOK
  <2>8. CASE UNCHANGED vars
    BY <2>8 DEF vars, TypeOK
  <2> QED  BY <2>1, <2>2, <2>3, <2>4, <2>5, <2>6, <2>7, <2>8 DEF Next
<1> QED  BY <1>1, <1>2, <1>3 DEF TypeOK

\* A session has a child where it waits for one, and the collector holds its
\* lease without a session that could stamp the runtime.
LEMMA StagesStep == Inv /\ [Next]_vars => StagesHeld'
<1> SUFFICES ASSUME Inv, [Next]_vars PROVE StagesHeld'
  OBVIOUS
<1> USE DEF Go
<1>t. TypeOK /\ StagesHeld
  BY DEF Inv, LocksHeld
<1>x. \A p \in Manager : pc[p] \in Mutating => lease[p] = "exclusive"
  BY DEF Inv, LocksHeld, LeaseHeld
<1>o. \A p, q \in Manager : lease[p] = "exclusive" /\ p # q => pc[q] \in {"idle", "queue"}
  BY OthersOut
<1>1. \A s \in Session : agent'[s] = "child" => pc'[s] = "serve"
  <2> SUFFICES ASSUME NEW s \in Session, agent'[s] = "child" PROVE pc'[s] = "serve"
    OBVIOUS
  <2>h. agent[s] = "child" => pc[s] = "serve"
    BY <1>t DEF StagesHeld
  <2>1. ASSUME NEW r \in Session, SessionStep(r) PROVE pc'[s] = "serve"
    <3>1. CASE Spawn(r)
      BY <3>1, <2>h, <1>t DEF Spawn, TypeOK
    <3>2. CASE AgentReaped(r)
      BY <3>2, <2>h, <1>t DEF AgentReaped, KeepUsers, TypeOK
    <3>3. CASE Probe(r) \/ CreateContainer(r) \/ AwaitApi(r) \/ AwaitFails(r) \/ Mark(r)
               \/ Share(r) \/ Touch(r)
      BY <3>3, <2>h, <1>t DEF Probe, CreateContainer, AwaitApi, AwaitFails, Mark, Share, Touch, KeepUsers, TypeOK
    <3>4. CASE Release(r)
      BY <3>4, <2>h, <1>t DEF Release, Quit, KeepUsers, TypeOK
    <3> QED  BY <2>1, <3>1, <3>2, <3>3, <3>4 DEF SessionStep
  <2>2. ASSUME NEW r \in Session, AgentExits(r) PROVE pc'[s] = "serve"
    BY <2>2, <2>h, <1>t DEF AgentExits, TypeOK
  <2>3. ASSUME NEW r \in Session, Interrupt(r) PROVE pc'[s] = "serve"
    <3>1. agent[s] = "child" /\ pc[s] = "serve"
      BY <2>3, <2>h, <1>t DEF Interrupt, TypeOK
    <3>2. pc[r] # "serve"
      BY <2>3 DEF Interrupt, Attaching
    <3>3. \A q \in Manager \ {r} : pc'[q] = pc[q]
      BY <2>3, <1>t DEF Interrupt, Quit, TypeOK
    <3> QED  BY <3>1, <3>2, <3>3
  <2>4. ASSUME NEW p \in Manager, Arrive(p) \/ LockStartup(p) \/ ManagerStep(p)
        PROVE  pc'[s] = "serve"
    <3>1. agent' = agent
      BY <2>4 DEF Arrive, LockStartup, ManagerStep, Claim, RemoveContainer, Unmark, KeepUsers
    <3>2. pc[p] # "serve"
      BY <2>4 DEF Arrive, LockStartup, ManagerStep, Claim, RemoveContainer, Unmark
    <3>3. \A q \in Manager \ {p} : pc'[q] = pc[q]
      BY <2>4, <1>t DEF Arrive, LockStartup, ManagerStep, Claim, RemoveContainer, Unmark, Quit, TypeOK
    <3> QED  BY <2>h, <3>1, <3>2, <3>3
  <2>5. ASSUME NEW p \in Manager, OuterFails(p) PROVE pc'[s] = "serve"
    <3>1. agent' = agent /\ pc[p] # "serve"
      BY <2>5 DEF OuterFails
    <3>2. \A q \in Manager \ {p} : pc'[q] = pc[q]
      BY <2>5, <1>t DEF OuterFails, Quit, TypeOK
    <3> QED  BY <2>h, <3>1, <3>2
  <2>6. ASSUME NEW p \in Manager, Kill(p) PROVE pc'[s] = "serve"
    BY <2>6, <2>h, <1>t DEF Kill, Quit, TypeOK
  <2>7. CASE LockIdle \/ Judge
    <3>1. agent' = agent /\ pc[Collector] # "serve"
      BY <2>7 DEF LockIdle, Judge, KeepUsers
    <3>2. \A q \in Manager \ {Collector} : pc'[q] = pc[q]
      BY <2>7, <1>t DEF LockIdle, Judge, Quit, TypeOK
    <3> QED  BY <2>h, <3>1, <3>2
  <2>8. CASE GraceOver \/ TaskStarts \/ TaskEnds \/ ApiAnswers \/ LateRemove \/ LateCreate
           \/ ContainerFails \/ UNCHANGED vars
    BY <2>8, <2>h DEF GraceOver, TaskStarts, TaskEnds, ApiAnswers, LateRemove, LateCreate,
        ContainerFails, KeepUsers, vars
  <2>9. CASE Reboot
    BY <2>9 DEF Reboot
  <2> QED  BY <2>1, <2>2, <2>3, <2>4, <2>5, <2>6, <2>7, <2>8, <2>9 DEF Next
<1>2. \A s \in Session : pc'[s] # "judge"
  <2> SUFFICES ASSUME NEW s \in Session PROVE pc'[s] # "judge"
    OBVIOUS
  <2>h. pc[s] # "judge"
    BY <1>t DEF StagesHeld
  <2>1. ASSUME NEW r \in Session, SessionStep(r) \/ AgentExits(r) \/ Interrupt(r)
        PROVE  pc'[s] # "judge"
    BY <2>1, <2>h, <1>t DEF SessionStep, Probe, CreateContainer, AwaitApi, AwaitFails, Mark, Share, Spawn,
                            AgentReaped, Touch, Release, AgentExits, Interrupt, Quit, TypeOK
  <2>2. ASSUME NEW p \in Manager,
               Arrive(p) \/ LockStartup(p) \/ ManagerStep(p) \/ OuterFails(p) \/ Kill(p)
        PROVE  pc'[s] # "judge"
    BY <2>2, <2>h, <1>t DEF Arrive, LockStartup, ManagerStep, Claim, RemoveContainer, Unmark,
                            OuterFails, Kill, Quit, TypeOK
  <2>3. CASE LockIdle \/ Judge
    BY <2>3, <2>h, <1>t, ProcessAssumption DEF LockIdle, Judge, Quit, TypeOK
  <2>4. CASE GraceOver \/ TaskStarts \/ TaskEnds \/ ApiAnswers \/ LateRemove \/ LateCreate
           \/ ContainerFails \/ UNCHANGED vars \/ Reboot
    BY <2>4, <2>h DEF GraceOver, TaskStarts, TaskEnds, ApiAnswers, LateRemove, LateCreate,
        ContainerFails, Reboot, vars
  <2> QED  BY <2>1, <2>2, <2>3, <2>4 DEF Next
<1>3. pc'[Collector] = "clean" => fresh' = {}
  <2> SUFFICES ASSUME pc'[Collector] = "clean" PROVE fresh' = {}
    OBVIOUS
  <2>h. pc[Collector] = "clean" => fresh = {}
    BY <1>t DEF StagesHeld
  \* No session stamps the runtime while the collector holds the lease.
  <2>o. \A s \in Session : pc[Collector] = "clean" => pc[s] \in {"idle", "queue"}
    BY <1>x, <1>o, ProcessAssumption DEF Mutating, Attaching
  <2>1. ASSUME NEW r \in Session, SessionStep(r) \/ AgentExits(r) \/ Interrupt(r)
        PROVE  fresh' = {}
    <3>1. pc[Collector] = "clean"
      BY <2>1, <1>t, ProcessAssumption
      DEF SessionStep, Probe, CreateContainer, AwaitApi, AwaitFails, Mark, Share, Spawn,
          AgentReaped, Touch, Release, AgentExits, Interrupt, Quit, TypeOK
    <3>2. pc[r] \in {"idle", "queue"}
      BY <3>1, <2>o
    <3>3. ~SessionStep(r)
      BY <3>2 DEF SessionStep, Probe, CreateContainer, AwaitApi, AwaitFails, Mark, Share, Spawn,
                  AgentReaped, Touch, Release
    <3>4. UNCHANGED fresh
      BY <2>1, <3>3 DEF AgentExits, Interrupt, engineState
    <3> QED  BY <3>1, <3>4, <2>h
  <2>2. ASSUME NEW p \in Manager,
               Arrive(p) \/ LockStartup(p) \/ RemoveContainer(p) \/ Unmark(p)
               \/ OuterFails(p) \/ Kill(p)
        PROVE  fresh' = {}
    <3>1. fresh' \subseteq fresh
      BY <2>2 DEF Arrive, LockStartup, RemoveContainer, Unmark, OuterFails, Kill, engineState
    <3>2. pc[Collector] = "clean"
      BY <2>2, <1>t DEF Arrive, LockStartup, RemoveContainer, Unmark, OuterFails, Kill, Quit, TypeOK
    <3> QED  BY <3>1, <3>2, <2>h
  <2>3. ASSUME NEW p \in Manager, Claim(p) PROVE fresh' = {}
    <3>1. p # Collector
      BY <2>3, <1>t DEF Claim, StagesHeld
    <3>2. pc[Collector] = "clean" /\ UNCHANGED fresh
      BY <2>3, <3>1, <1>t DEF Claim, Quit, engineState, TypeOK
    <3> QED  BY <3>2, <2>h
  <2>4. CASE LockIdle \/ Judge
    BY <2>4, <2>h, <1>t DEF LockIdle, Judge, Quit, engineState, TypeOK
  <2>5. CASE GraceOver
    BY <2>5, <2>h DEF GraceOver
  <2>6. CASE TaskStarts \/ TaskEnds \/ ApiAnswers \/ LateRemove \/ LateCreate
           \/ ContainerFails \/ UNCHANGED vars
    BY <2>6, <2>h DEF TaskStarts, TaskEnds, ApiAnswers, LateRemove, LateCreate,
        ContainerFails, vars
  <2>7. CASE Reboot
    BY <2>7 DEF Reboot
  <2> QED  BY <2>1, <2>2, <2>3, <2>4, <2>5, <2>6, <2>7 DEF Next, ManagerStep
<1>4. pc'[Collector] \in {"idle", "judge", "clean", "unmark"}
  <2>h. pc[Collector] \in {"idle", "judge", "clean", "unmark"}
    BY <1>t DEF StagesHeld
  <2>1. ASSUME NEW s \in Session, SessionStep(s) \/ AgentExits(s) \/ Interrupt(s)
        PROVE  pc'[Collector] = pc[Collector]
    BY <2>1, <1>t, ProcessAssumption
    DEF SessionStep, Probe, CreateContainer, AwaitApi, AwaitFails, Mark, Share, Spawn,
        AgentReaped, Touch, Release, AgentExits, Interrupt, Quit, TypeOK
  <2>2. ASSUME NEW p \in Manager,
               Arrive(p) \/ LockStartup(p) \/ ManagerStep(p) \/ OuterFails(p) \/ Kill(p)
        PROVE  pc'[Collector] \in {"idle", "judge", "clean", "unmark"}
    <3>1. CASE p # Collector
      <4>1. pc'[Collector] = pc[Collector]
        BY <2>2, <3>1, <1>t
        DEF Arrive, LockStartup, ManagerStep, Claim, RemoveContainer, Unmark, OuterFails, Kill,
            Quit, TypeOK
      <4> QED  BY <4>1, <2>h
    <3>2. CASE p = Collector
      BY <2>2, <3>2, <2>h, <1>t, ProcessAssumption
      DEF Arrive, LockStartup, ManagerStep, Claim, RemoveContainer, Unmark, OuterFails, Kill,
          Quit, TypeOK
    <3> QED  BY <3>1, <3>2
  <2>3. CASE LockIdle \/ Judge
    BY <2>3, <1>t DEF LockIdle, Judge, Quit, TypeOK
  <2>4. CASE GraceOver \/ TaskStarts \/ TaskEnds \/ ApiAnswers \/ LateRemove \/ LateCreate
           \/ ContainerFails \/ UNCHANGED vars \/ Reboot
    BY <2>4, <2>h DEF GraceOver, TaskStarts, TaskEnds, ApiAnswers, LateRemove, LateCreate,
        ContainerFails, Reboot, vars
  <2> QED  BY <2>1, <2>2, <2>3, <2>4, <2>h DEF Next
<1> QED  BY <1>1, <1>2, <1>3, <1>4 DEF StagesHeld

LEMMA InvStep == Inv /\ [Next]_vars => Inv'
  BY LocksStep, TypeStep, StagesStep DEF Inv, Locks, LocksHeld

----------------------------------------------------------------------------
(* Theorems.                                                               *)

LEMMA Invariance == Spec => []Inv
<1>1. Init => Inv
  BY InitInv
<1>2. Inv /\ [Next]_vars => Inv'
  BY InvStep
<1> QED  BY <1>1, <1>2, PTL DEF Spec

\* Every variable of the runtime's model keeps its type.
THEOREM TypeCorrect == Spec => []TypeOK
  BY Invariance, PTL DEF Inv

\* startup.lock and sessions.lock are held as attach(), stop() and stop_if_idle()
\* need them, with any number of sessions and failures.
THEOREM LockDiscipline == Spec => []LocksHeld
  BY Invariance, PTL DEF Inv

\* No process takes the runtime away from an agent whose launcher is alive: if it
\* goes, then by a removal whose client is gone.
THEOREM KeepsRuntime == Spec => AgentKeepsRuntime
<1>1. Inv /\ [Next]_vars =>
        [container # "absent" /\ container' = "absent" =>
            \/ \A s \in Session : agent'[s] # "child"
            \/ pending'["rm"] < pending["rm"]]_vars
  <2> SUFFICES ASSUME Inv, Inv', [Next]_vars, container # "absent", container' = "absent",
                      ~(pending'["rm"] < pending["rm"]),
                      NEW s \in Session, agent'[s] = "child"
               PROVE  FALSE
    BY InvStep
  <2>0. pc'[s] = "serve"
    BY DEF Inv, LocksHeld, StagesHeld
  <2>1. ASSUME NEW p \in Manager, RemoveContainer(p) PROVE FALSE
    <3>1. lease[p] = "exclusive" /\ pc'[p] # "serve"
      BY <2>1 DEF RemoveContainer, Inv, LocksHeld, LeaseHeld, Mutating, Attaching, Go, TypeOK
    <3>2. lease'[p] = "exclusive"
      BY <2>1, <3>1 DEF RemoveContainer, KeepLocks
    <3>3. pc'[s] \in {"idle", "queue"}
      BY <3>1, <3>2, <2>0 DEF Inv, LocksHeld, LeaseHeld, LeaseAlone, Attached
    <3> QED  BY <3>3, <2>0
  <2>2. CASE Reboot
    BY <2>2 DEF Reboot
  <2>3. CASE LateRemove
    BY <2>3 DEF LateRemove, CarriedOut, Command, Inv, TypeOK
  <2>4. CASE ~Reboot /\ ~LateRemove /\ ~\E p \in Manager : RemoveContainer(p)
    <3>1. ASSUME NEW r \in Session, SessionStep(r) \/ AgentExits(r) \/ Interrupt(r) PROVE FALSE
      BY <3>1 DEF SessionStep, Probe, CreateContainer, AwaitApi, AwaitFails, Mark, Share, Spawn,
                  AgentReaped, Touch, Release, AgentExits, Interrupt, engineState
    <3>2. ASSUME NEW p \in Manager,
                 Arrive(p) \/ LockStartup(p) \/ ManagerStep(p) \/ OuterFails(p) \/ Kill(p)
          PROVE  FALSE
      BY <2>4, <3>2 DEF Arrive, LockStartup, ManagerStep, Claim, Unmark, OuterFails, Kill,
                        engineState
    <3>3. CASE LockIdle \/ Judge \/ GraceOver \/ TaskStarts \/ TaskEnds \/ UNCHANGED vars
      BY <3>3 DEF LockIdle, Judge, GraceOver, TaskStarts, TaskEnds, engineState, vars
    <3>4. CASE ApiAnswers \/ LateCreate \/ ContainerFails
      BY <3>4 DEF ApiAnswers, LateCreate, ContainerFails
    <3> QED  BY <2>4, <3>1, <3>2, <3>3, <3>4 DEF Next
  <2> QED  BY <2>1, <2>2, <2>3, <2>4
<1> QED  BY <1>1, Invariance, PTL DEF Spec, AgentKeepsRuntime

\* The idle collection removes nothing that was started or left within the grace.
THEOREM KeepsGrace == Spec => GraceKept
<1>1. Inv => [pc[Collector] = "clean" /\ pc'[Collector] = "unmark" => fresh = {}]_vars
  BY DEF Inv, LocksHeld, StagesHeld
<1> QED  BY <1>1, Invariance, PTL DEF Spec, GraceKept

\* No task that a supervised agent started is lost to the idle collection.
THEOREM KeepsTasks == Spec => TasksKept
<1>1. Inv /\ [Next]_vars =>
        [pc'[Collector] = "clean" /\ container' = "up" /\ tasks' =>
            \/ pc[Collector] = "clean" /\ tasks
            \/ \E s \in Session : agent[s] = "orphan"]_vars
  <2> SUFFICES ASSUME Inv, Inv', [Next]_vars,
                      pc'[Collector] = "clean", container' = "up", tasks',
                      \A s \in Session : agent[s] # "orphan"
               PROVE  pc[Collector] = "clean" /\ tasks
    BY InvStep
  <2> USE DEF Go
  <2>t. TypeOK /\ StagesHeld
    BY DEF Inv, LocksHeld
  <2>x. \A p \in Manager : pc[p] \in Mutating => lease[p] = "exclusive"
    BY DEF Inv, LocksHeld, LeaseHeld
  <2>o. \A s \in Session : pc[Collector] = "clean" => pc[s] \in {"idle", "queue"}
    BY <2>x, OthersOut, ProcessAssumption DEF Mutating, Attaching
  <2>1. ASSUME NEW r \in Session, SessionStep(r) \/ AgentExits(r) \/ Interrupt(r)
        PROVE  pc[Collector] = "clean" /\ tasks
    <3>1. pc[Collector] = "clean"
      BY <2>1, <2>t, ProcessAssumption
      DEF SessionStep, Probe, CreateContainer, AwaitApi, AwaitFails, Mark, Share, Spawn,
          AgentReaped, Touch, Release, AgentExits, Interrupt, Quit, TypeOK
    <3>2. tasks' = tasks
      BY <2>1 DEF SessionStep, Probe, CreateContainer, AwaitApi, AwaitFails, Mark, Share, Spawn,
                  AgentReaped, Touch, Release, AgentExits, Interrupt, engineState
    <3> QED  BY <3>1, <3>2
  <2>2. ASSUME NEW p \in Manager, Arrive(p) \/ LockStartup(p) \/ Unmark(p) \/ OuterFails(p) \/ Kill(p)
        PROVE  pc[Collector] = "clean" /\ tasks
    <3>1. pc[Collector] = "clean"
      BY <2>2, <2>t DEF Arrive, LockStartup, Unmark, OuterFails, Kill, Quit, TypeOK
    <3>2. tasks' = tasks
      BY <2>2 DEF Arrive, LockStartup, Unmark, OuterFails, Kill, engineState
    <3> QED  BY <3>1, <3>2
  <2>3. ASSUME NEW p \in Manager, Claim(p)
        PROVE  pc[Collector] = "clean" /\ tasks
    <3>1. p # Collector
      BY <2>3, <2>t DEF Claim, StagesHeld
    <3>2. pc[Collector] = "clean" /\ tasks' = tasks
      BY <2>3, <3>1, <2>t DEF Claim, Quit, engineState, TypeOK
    <3> QED  BY <3>2
  <2>4. ASSUME NEW p \in Manager, RemoveContainer(p) PROVE FALSE
    BY <2>4 DEF RemoveContainer
  <2>5. CASE LockIdle
    BY <2>5, <2>t DEF LockIdle, TypeOK
  <2>6. CASE Judge
    <3>1. UNCHANGED <<container, tasks>>
      BY <2>6 DEF Judge, engineState
    <3>2. ~Quit(Collector)
      BY <2>t DEF Quit, TypeOK
    <3> QED  BY <2>6, <3>1, <3>2 DEF Judge
  <2>7. CASE TaskStarts
    <3>1. pc[Collector] = "clean"
      BY <2>7 DEF TaskStarts
    <3>2. \A s \in Session : agent[s] # "child"
      BY <3>1, <2>o, <2>t DEF StagesHeld
    <3> QED  BY <2>7, <3>2, <2>t DEF TaskStarts, TypeOK
  <2>8. CASE TaskEnds \/ Reboot
    BY <2>8 DEF TaskEnds, Reboot
  <2>9. CASE GraceOver \/ UNCHANGED vars
    BY <2>9 DEF GraceOver, vars
  <2>10. CASE ContainerFails \/ LateRemove
    BY <2>10 DEF ContainerFails, LateRemove
  <2>11. CASE ApiAnswers \/ LateCreate
    BY <2>11 DEF ApiAnswers, LateCreate
  <2> QED
    BY <2>1, <2>2, <2>3, <2>4, <2>5, <2>6, <2>7, <2>8, <2>9, <2>10, <2>11 DEF Next, ManagerStep
<1> QED  BY <1>1, Invariance, PTL DEF Spec, TasksKept

----------------------------------------------------------------------------
(* The refinement.                                                         *)

Using == {"mark", "share"} \cup Attached

LEMMA UsersMove ==
  ASSUME Inv, NEW p \in Manager, NEW stage \in Stage, Go(p, stage)
  PROVE  Users' = IF p \in Session /\ stage \in Using THEN Users \cup {p} ELSE Users \ {p}
  BY DEF Users, Using, Go, Inv, TypeOK

\* Whoever starts, repairs or removes an engine does it while nobody uses it.
LEMMA NoUsers ==
  ASSUME Inv, NEW p \in Manager, pc[p] \in Mutating \ {"mark"}
  PROVE  Users = {}
<1> SUFFICES ASSUME NEW s \in Session, pc[s] \in Using PROVE FALSE
  BY DEF Users, Using
<1>1. lease[p] = "exclusive"
  BY DEF Inv, LocksHeld, LeaseHeld
<1>2. s # p
  BY DEF Using, Mutating, Attaching, Attached
<1> QED  BY <1>1, <1>2, OthersOut DEF Using, Attached

\* A process that goes on, leaves, or is lost with a command under way.
LEMMA Proceeds ==
  ASSUME Inv, NEW p \in Manager, NEW stage \in Stage, Go(p, stage),
         stage \in Using => pc[p] \in Using,
         Abandon(p), UNCHANGED <<container, late>>
  PROVE  [Lease!Next]_(Lease!vars)
<1>1. UNCHANGED Condition
  BY DEF Condition
<1>2. Users' = Users \/ (p \in Session /\ Users' = Users \ {p})
  BY UsersMove DEF Users, Using
<1>3. CASE UNCHANGED pending
  BY <1>1, <1>2, <1>3 DEF Lease!Next, Lease!Leave, Lease!vars
<1>4. ASSUME NEW c \in Command, pc[p] \in {"clean", "undo", "boot"},
             pending' = [pending EXCEPT ![c] = @ + 1]
      PROVE  [Lease!Next]_(Lease!vars)
  <2>1. Users = {}
    BY <1>4, NoUsers DEF Mutating, Attaching
  <2>2. Users' = Users
    BY <1>2, <2>1
  <2>3. Lease!Lose(c)
    BY <1>1, <1>4, <2>1, <2>2 DEF Lease!Lose
  <2> QED  BY <2>3, <1>4 DEF Lease!Next, Lease!Order, Command
<1> QED  BY <1>3, <1>4 DEF Abandon, Command

\* A session that has seen the engine up enters.
LEMMA Enters ==
  ASSUME Inv, NEW s \in Session, NEW stage \in {"mark", "share"}, Go(s, stage),
         pc[s] \in {"probe", "await"}, container = "up",
         UNCHANGED <<container, late, pending>>
  PROVE  [Lease!Next]_(Lease!vars)
<1>1. Users' = Users \cup {s}
  BY UsersMove DEF Using, Stage, Attaching
<1>2. s \notin Users
  BY DEF Users, Attached
<1>3. Condition = "up" /\ UNCHANGED Condition
  BY DEF Condition
<1> QED  BY <1>1, <1>2, <1>3 DEF Lease!Next, Lease!Enter

LEMMA Manages ==
  ASSUME Inv, NEW p \in Manager, pc[p] \in Mutating \ {"mark"},
         NEW stage \in Stage \ Using, Go(p, stage),
         UNCHANGED pending, Condition' \in {"down", "failed"}
  PROVE  [Lease!Next]_(Lease!vars)
<1>1. Users = {} /\ Users' = Users
  BY NoUsers, UsersMove
<1> QED  BY <1>1 DEF Lease!Next, Lease!Manage

\* What the lease table does not see.
LEMMA Unseen ==
  ASSUME UNCHANGED <<pc, container, late, pending>>
  PROVE  [Lease!Next]_(Lease!vars)
  BY DEF Lease!vars, Users, Condition

LEMMA LeaseStep == Inv /\ [Next]_vars => [Lease!Next]_(Lease!vars)
<1> SUFFICES ASSUME Inv, [Next]_vars PROVE [Lease!Next]_(Lease!vars)
  OBVIOUS
<1> USE DEF KeepUsers, engineState
<1>p. ASSUME NEW p \in Manager, NEW stage \in Stage, Go(p, stage),
             stage \in Using => pc[p] \in Using,
             UNCHANGED <<container, late, pending>>
      PROVE  [Lease!Next]_(Lease!vars)
  BY <1>p, Proceeds DEF Abandon
<1>s. /\ {"idle", "queue", "claim", "judge", "clean", "unmark", "unmarkFailed", "boot",
          "await", "undo"} \subseteq Stage \ Using
      /\ {"share", "spawn", "serve", "leave", "release"} \subseteq Stage \cap Using
      /\ {"mark", "probe"} \subseteq Stage
  BY DEF Stage, Attaching, Attached, Using
<1>1. ASSUME NEW s \in Session, SessionStep(s) PROVE [Lease!Next]_(Lease!vars)
  <2>1. CASE Probe(s)
    <3>1. CASE Healthy
      BY <2>1, <3>1, Enters DEF Probe, Healthy
    <3>2. CASE ~Healthy
      BY <2>1, <3>2, <1>p, <1>s DEF Probe
    <3> QED  BY <3>1, <3>2
  <2>2. CASE CreateContainer(s)
    <3>1. CASE container = "absent"
      <4>1. Condition' \in {"down", "failed"}
        BY <2>2, <3>1 DEF CreateContainer, Condition
      <4>2. pc[s] \in Mutating \ {"mark"} /\ Go(s, "await")
        BY <2>2, <3>1 DEF CreateContainer, Mutating, Attaching
      <4> QED  BY <2>2, <4>1, <4>2, <1>s, Manages DEF CreateContainer
    <3>2. CASE container # "absent"
      BY <2>2, <3>2, <1>p, <1>s DEF CreateContainer
    <3> QED  BY <3>1, <3>2
  <2>3. CASE AwaitApi(s)
    BY <2>3, Enters DEF AwaitApi
  <2>4. CASE AwaitFails(s)
    BY <2>4, <1>p, <1>s DEF AwaitFails
  <2>5. CASE Mark(s) \/ Share(s) \/ Spawn(s) \/ AgentReaped(s) \/ Touch(s)
    <3>1. pc[s] \in Using
      BY <2>5 DEF Mark, Share, Spawn, AgentReaped, Touch, Using, Attached
    <3> QED  BY <2>5, <3>1, <1>p, <1>s DEF Mark, Share, Spawn, AgentReaped, Touch
  <2>6. CASE Release(s)
    BY <2>6, <1>p, <1>s DEF Release, Quit
  <2> QED  BY <1>1, <2>1, <2>2, <2>3, <2>4, <2>5, <2>6 DEF SessionStep
<1>2. ASSUME NEW s \in Session, Interrupt(s) PROVE [Lease!Next]_(Lease!vars)
  <2>1. Abandon(s) /\ UNCHANGED <<container, late>>
    BY <1>2 DEF Interrupt
  <2>2. CASE Go(s, "undo") \/ Go(s, "idle")
    BY <2>1, <2>2, <1>s, Proceeds
  <2>3. CASE pc[s] = "spawn" /\ Go(s, "leave")
    BY <2>1, <2>3, <1>s, Proceeds
  <2> QED  BY <1>2, <2>2, <2>3 DEF Interrupt, Quit
<1>3. ASSUME NEW p \in Manager, Arrive(p) \/ LockStartup(p) PROVE [Lease!Next]_(Lease!vars)
  <2>1. Go(p, "queue") \/ Go(p, "probe") \/ Go(p, "claim")
    BY <1>3 DEF Arrive, LockStartup
  <2>2. "probe" \notin Using
    BY DEF Using, Attached
  <2> QED  BY <1>3, <2>1, <2>2, <1>p, <1>s DEF Arrive, LockStartup
<1>4. ASSUME NEW p \in Manager, Claim(p) PROVE [Lease!Next]_(Lease!vars)
  <2>1. Go(p, "clean") \/ Go(p, "idle")
    BY <1>4 DEF Claim, Quit
  <2> QED  BY <1>4, <2>1, <1>p, <1>s DEF Claim
<1>5. ASSUME NEW p \in Manager, RemoveContainer(p) PROVE [Lease!Next]_(Lease!vars)
  <2>1. Condition' \in {"down", "failed"}
    BY <1>5 DEF RemoveContainer, Condition
  <2>2. pc[p] \in Mutating \ {"mark"} /\ (Go(p, "unmark") \/ Go(p, "unmarkFailed"))
    BY <1>5 DEF RemoveContainer, Mutating, Attaching
  <2> QED  BY <1>5, <2>1, <2>2, <1>s, Manages DEF RemoveContainer
<1>6. ASSUME NEW p \in Manager, Unmark(p) PROVE [Lease!Next]_(Lease!vars)
  <2>1. Go(p, "boot") \/ Go(p, "idle")
    BY <1>6 DEF Unmark, Quit
  <2> QED  BY <1>6, <2>1, <1>p, <1>s DEF Unmark
<1>7. ASSUME NEW p \in Manager, OuterFails(p) \/ Kill(p) PROVE [Lease!Next]_(Lease!vars)
  <2>1. Abandon(p) /\ UNCHANGED <<container, late>>
    BY <1>7 DEF OuterFails, Kill, Abandon
  <2>2. CASE Go(p, "claim") \/ Go(p, "undo") \/ Go(p, "idle")
    BY <2>1, <2>2, <1>s, Proceeds
  <2>3. CASE pc[p] = "spawn" /\ Go(p, "leave")
    BY <2>1, <2>3, <1>s, Proceeds
  <2> QED  BY <1>7, <2>2, <2>3 DEF OuterFails, Kill, Quit
<1>8. CASE LockIdle \/ Judge
  <2>1. Go(Collector, "judge") \/ Go(Collector, "clean") \/ Go(Collector, "idle")
    BY <1>8 DEF LockIdle, Judge, Quit
  <2> QED  BY <1>8, <2>1, <1>p, <1>s DEF LockIdle, Judge
<1>9. CASE GraceOver \/ TaskStarts \/ TaskEnds \/ UNCHANGED vars
           \/ \E s \in Session : AgentExits(s)
  BY <1>9, Unseen DEF GraceOver, TaskStarts, TaskEnds, AgentExits, vars
<1>10. CASE ContainerFails \/ ApiAnswers
  <2>1. UNCHANGED <<Users, pending>>
    BY <1>10 DEF ContainerFails, ApiAnswers, Users
  <2>2. \/ Condition' = "failed" /\ Condition \in {"up", "failed"}
        \/ Condition' = "up" /\ Condition = "failed"
    BY <1>10 DEF ContainerFails, ApiAnswers, Condition
  <2> QED  BY <2>1, <2>2 DEF Lease!Next, Lease!Fail, Lease!Answer, Lease!vars
<1>11. CASE LateRemove
  <2>1. UNCHANGED Users
    BY <1>11 DEF LateRemove, Users
  <2>2. Condition' = IF Condition = "down" THEN "down" ELSE "taken"
    BY <1>11 DEF LateRemove, Condition, Inv, TypeOK
  <2>3. Lease!Late("rm")
    BY <1>11, <2>1, <2>2 DEF LateRemove, CarriedOut, Lease!Late
  <2> QED  BY <2>3 DEF Lease!Next, Lease!Order
<1>12. CASE LateCreate
  <2>1. UNCHANGED Users
    BY <1>12 DEF LateCreate, Users
  <2>2. Condition' = IF Condition \in {"down", "taken"} THEN "failed" ELSE Condition
    BY <1>12 DEF LateCreate, Condition
  <2>3. Lease!Late("run")
    BY <1>12, <2>1, <2>2 DEF LateCreate, CarriedOut, Lease!Late
  <2> QED  BY <2>3 DEF Lease!Next, Lease!Order
<1>13. CASE Reboot
  <2>1. Users' = {}
    BY <1>13 DEF Reboot, Users, Attached
  <2>2. Condition' \in {"down", "failed"}
    BY <1>13 DEF Reboot, Condition
  <2> QED  BY <1>13, <2>1, <2>2 DEF Reboot, Lease!Next, Lease!Reboot, Lease!Order, Command
<1> QED
  BY <1>1, <1>2, <1>3, <1>4, <1>5, <1>6, <1>7, <1>8, <1>9, <1>10, <1>11, <1>12, <1>13
  DEF Next, ManagerStep

\* The sessions that rely on the engine, the engine, and the commands that lost
\* processes have left under way behave like RuntimeLease.
THEOREM LeaseRefinement == Spec => ImplementsLease
<1>1. Init => Lease!Init
  BY DEF Init, Lease!Init, Lease!Order, Command, Users, Condition, Attached
<1>2. Inv /\ [Next]_vars => [Lease!Next]_(Lease!vars)
  BY LeaseStep
<1> QED  BY <1>1, <1>2, Invariance, PTL DEF Spec, ImplementsLease, Lease!Spec

\* A lease is worth having: an engine that is used is not down, unless an order
\* that came late has taken it.
THEOREM LeaseServes == Lease!Spec => [](Users # {} => Condition # "down")
<1>1. Lease!Init => (Users # {} => Condition # "down")
  BY DEF Lease!Init
<1>2. (Users # {} => Condition # "down") /\ [Lease!Next]_(Lease!vars)
        => (Users # {} => Condition # "down")'
  <2> SUFFICES ASSUME Users # {} => Condition # "down", [Lease!Next]_(Lease!vars), Users' # {}
               PROVE  Condition' # "down"
    OBVIOUS
  <2>1. ASSUME NEW s \in Session, Lease!Enter(s) \/ Lease!Leave(s) PROVE Condition' # "down"
    <3>1. Condition' = Condition
      BY <2>1 DEF Lease!Enter, Lease!Leave
    <3>2. Condition # "down"
      BY <2>1 DEF Lease!Enter, Lease!Leave
    <3> QED  BY <3>1, <3>2
  <2>2. ASSUME NEW c \in Lease!Order, Lease!Lose(c) \/ Lease!Late(c) PROVE Condition' # "down"
    BY <2>2 DEF Lease!Lose, Lease!Late
  <2>3. CASE Lease!Manage \/ Lease!Answer \/ Lease!Fail \/ Lease!Reboot
    BY <2>3 DEF Lease!Manage, Lease!Answer, Lease!Fail, Lease!Reboot
  <2>4. CASE UNCHANGED Lease!vars
    BY <2>4 DEF Lease!vars
  <2> QED  BY <2>1, <2>2, <2>3, <2>4 DEF Lease!Next
<1> QED  BY <1>1, <1>2, PTL DEF Lease!Spec

\* A session whose agent runs, or is about to, without a container has lost it to
\* a removal whose client is gone: no process that lives takes it, whatever else
\* fails.
THEOREM AttachedServed ==
    Spec => []((\E s \in Session : lease[s] = "shared") => container # "absent" \/ late)
<1>1. Inv /\ (Users # {} => Condition # "down")
        => ((\E s \in Session : lease[s] = "shared") => container # "absent" \/ late)
  <2> SUFFICES ASSUME Inv, Users # {} => Condition # "down",
                      NEW s \in Session, lease[s] = "shared"
               PROVE  container # "absent" \/ late
    OBVIOUS
  <2>1. s \in Users
    BY DEF Inv, LocksHeld, LeaseHeld, Users
  <2> QED  BY <2>1 DEF Condition
<1> QED  BY <1>1, Invariance, LeaseRefinement, LeaseServes, PTL DEF ImplementsLease

----------------------------------------------------------------------------
(* What follows from the locks.                                            *)

\* The flock(lease, LOCK_SH) at the end of attach() never waits, so a session
\* holds startup.lock for no longer than its own work on the engine takes.
THEOREM ShareNeverWaits ==
    Spec => [](\A s \in Session : pc[s] = "share" =>
                    \A q \in Manager \ {s} : lease[q] # "exclusive")
<1>1. Inv => \A s \in Session : pc[s] = "share" =>
                \A q \in Manager \ {s} : lease[q] # "exclusive"
  <2> SUFFICES ASSUME Inv, NEW s \in Session, pc[s] = "share",
                      NEW q \in Manager \ {s}, lease[q] = "exclusive"
               PROVE  FALSE
    OBVIOUS
  <2>1. startup = s
    BY DEF Inv, LocksHeld, StartupHeld, Attaching
  <2>2. pc[q] \in Attaching \cup {"judge"}
    BY DEF Inv, LocksHeld, LeaseHeld, Mutating, Attaching
  <2>3. startup = q
    BY <2>2 DEF Inv, LocksHeld, StartupHeld
  <2> QED  BY <2>1, <2>3
<1> QED  BY <1>1, Invariance, PTL

----------------------------------------------------------------------------
(* Without SIGKILL, without a signal to a session that has no agent yet    *)
(* and without a command that takes more than its 120 seconds no agent     *)
(* outlives its launcher and no command its client.  Commands and          *)
(* containers may still fail and machines reboot.                          *)

Gentle == Faults \cap {"kill", "interrupt", "timeout"} = {}
NoOrphans == \A s \in Session : agent[s] # "orphan"
NothingLate == pending = [c \in Command |-> 0] /\ late = FALSE

\* The idle collection has seen that nothing runs, and nothing starts.
Quiet == pc[Collector] = "clean" /\ container = "up" => ~tasks

TasksInside == tasks => container \in {"hung", "up"}

LEMMA OrphanStep ==
  Gentle /\ Inv /\ NoOrphans /\ NothingLate /\ [Next]_vars => NoOrphans' /\ NothingLate'
<1> SUFFICES ASSUME Gentle, TypeOK, NoOrphans, NothingLate, [Next]_vars
             PROVE  NoOrphans' /\ NothingLate'
  BY DEF Inv
<1> DEFINE Same == UNCHANGED pending /\ late' \in {late, FALSE}
<1>e. Same => NothingLate'
  BY DEF NothingLate
<1>a. UNCHANGED agent => NoOrphans'
  BY DEF NoOrphans
<1> HIDE DEF Same
<1>1. ASSUME NEW s \in Session, Spawn(s) \/ AgentExits(s) PROVE NoOrphans' /\ Same
  BY <1>1 DEF Spawn, AgentExits, NoOrphans, TypeOK, engineState, Same
<1>2. ASSUME NEW s \in Session, SessionStep(s), ~Spawn(s) PROVE UNCHANGED agent /\ Same
  BY <1>2 DEF SessionStep, Probe, CreateContainer, AwaitApi, AwaitFails, Mark, Share, AgentReaped,
              Touch, Release, KeepUsers, engineState, Same
<1>3. ASSUME NEW s \in Session PROVE ~Interrupt(s)
  BY DEF Interrupt, Fault, Gentle
<1>4. ASSUME NEW p \in Manager PROVE ~Kill(p)
  BY DEF Kill, Fault, Gentle
<1>5. ASSUME NEW p \in Manager, Arrive(p) \/ LockStartup(p) \/ ManagerStep(p)
      PROVE  UNCHANGED agent /\ Same
  BY <1>5 DEF Arrive, LockStartup, ManagerStep, Claim, RemoveContainer, Unmark, KeepUsers,
              engineState, Same
<1>6. ASSUME NEW p \in Manager, OuterFails(p) PROVE UNCHANGED agent /\ Same
  <2>1. ~Fault("timeout")
    BY DEF Fault, Gentle
  <2> QED  BY <1>6, <2>1 DEF OuterFails, engineState, Same
<1>7. CASE LockIdle \/ Judge \/ GraceOver \/ TaskStarts \/ TaskEnds \/ ApiAnswers
           \/ ContainerFails \/ UNCHANGED vars
  <2>1. UNCHANGED agent /\ Same
    BY <1>7 DEF LockIdle, Judge, GraceOver, TaskStarts, TaskEnds, ApiAnswers, ContainerFails,
                KeepUsers, engineState, vars, Same
  <2> QED  BY <2>1, <1>a, <1>e
<1>8. ASSUME NEW c \in Command PROVE ~CarriedOut(c)
  BY DEF CarriedOut, NothingLate
<1>9. ~LateRemove /\ ~LateCreate
  BY <1>8 DEF LateRemove, LateCreate, Command
<1>10. CASE Reboot
  BY <1>10 DEF Reboot, NoOrphans, NothingLate
<1> QED
  BY <1>1, <1>2, <1>3, <1>4, <1>5, <1>6, <1>7, <1>9, <1>10, <1>a, <1>e DEF Next

\* Tasks run within a container, and end with it.
LEMMA InsideStep == Inv /\ TasksInside /\ [Next]_vars => TasksInside'
<1> SUFFICES ASSUME TypeOK, TasksInside, [Next]_vars PROVE TasksInside'
  BY DEF Inv
<1>u. UNCHANGED <<container, tasks>> => TasksInside'
  BY DEF TasksInside
<1>1. ASSUME NEW s \in Session, SessionStep(s) \/ AgentExits(s) \/ Interrupt(s)
      PROVE  TasksInside'
  <2>1. CASE CreateContainer(s)
    BY <2>1 DEF CreateContainer, TasksInside
  <2>2. CASE ~CreateContainer(s)
    <3>1. UNCHANGED <<container, tasks>>
      BY <1>1, <2>2 DEF SessionStep, Probe, AwaitApi, AwaitFails, Mark, Share, Spawn, AgentReaped,
                        Touch, Release, AgentExits, Interrupt, engineState
    <3> QED  BY <3>1, <1>u
  <2> QED  BY <2>1, <2>2
<1>2. ASSUME NEW p \in Manager,
             Arrive(p) \/ LockStartup(p) \/ ManagerStep(p) \/ OuterFails(p) \/ Kill(p)
      PROVE  TasksInside'
  BY <1>2 DEF Arrive, LockStartup, ManagerStep, Claim, RemoveContainer, Unmark, OuterFails, Kill,
              engineState, TasksInside
<1>3. CASE LockIdle \/ Judge \/ GraceOver \/ TaskStarts \/ TaskEnds \/ UNCHANGED vars
  BY <1>3 DEF LockIdle, Judge, GraceOver, TaskStarts, TaskEnds, engineState, vars, TasksInside
<1>4. CASE ApiAnswers \/ LateRemove \/ LateCreate \/ ContainerFails \/ Reboot
  BY <1>4 DEF ApiAnswers, LateRemove, LateCreate, ContainerFails, Reboot, TasksInside
<1> QED  BY <1>1, <1>2, <1>3, <1>4 DEF Next

\* KeepsTasks says what may reach "clean" with a task; a task that was there
\* before needs an agent, and the exclusive lease leaves room for orphans only.
LEMMA QuietStep ==
    /\ NoOrphans /\ Quiet /\ TasksInside
    /\ [pc'[Collector] = "clean" /\ container' = "up" /\ tasks' =>
           \/ pc[Collector] = "clean" /\ tasks
           \/ \E s \in Session : agent[s] = "orphan"]_vars
    /\ Inv /\ [Next]_vars
    => Quiet'
<1> SUFFICES ASSUME NoOrphans, Quiet, TasksInside, Inv, [Next]_vars,
                    [pc'[Collector] = "clean" /\ container' = "up" /\ tasks' =>
                        \/ pc[Collector] = "clean" /\ tasks
                        \/ \E s \in Session : agent[s] = "orphan"]_vars,
                    pc'[Collector] = "clean", container' = "up", tasks'
             PROVE  FALSE
  BY DEF Quiet
<1>1. CASE UNCHANGED vars
  BY <1>1 DEF vars, Quiet
<1>2. CASE ~UNCHANGED vars
  <2>1. pc[Collector] = "clean" /\ tasks
    BY <1>2 DEF NoOrphans
  <2>2. container = "hung"
    BY <2>1 DEF Quiet, TasksInside
  \* Nothing brings a container back that hangs.
  <2>3. ASSUME NEW s \in Session, SessionStep(s) \/ AgentExits(s) \/ Interrupt(s)
        PROVE  container' # "up"
    BY <2>2, <2>3 DEF SessionStep, Probe, CreateContainer, AwaitApi, AwaitFails, Mark, Share, Spawn,
                      AgentReaped, Touch, Release, AgentExits, Interrupt, engineState
  <2>4. ASSUME NEW p \in Manager,
               Arrive(p) \/ LockStartup(p) \/ ManagerStep(p) \/ OuterFails(p) \/ Kill(p)
        PROVE  container' # "up"
    BY <2>2, <2>4 DEF Arrive, LockStartup, ManagerStep, Claim, RemoveContainer, Unmark, OuterFails,
                      Kill, engineState
  <2>5. CASE LockIdle \/ Judge \/ GraceOver \/ TaskStarts \/ TaskEnds
    BY <2>2, <2>5 DEF LockIdle, Judge, GraceOver, TaskStarts, TaskEnds, engineState
  <2>6. CASE ApiAnswers \/ LateRemove \/ LateCreate \/ ContainerFails \/ Reboot
    BY <2>2, <2>6 DEF ApiAnswers, LateRemove, LateCreate, ContainerFails, Reboot
  <2> QED  BY <1>2, <2>3, <2>4, <2>5, <2>6 DEF Next
<1> QED  BY <1>1, <1>2

\* Without kills, interrupted sessions and commands that are given up no agent
\* loses its runtime, an attached session has its container, and the idle
\* collection takes no detached task away: whatever a failing command or container
\* does, only a process that ended before its agent or its command can cost
\* somebody a runtime that is in use.
THEOREM GentleRuntime ==
  ASSUME Gentle
  PROVE  Spec => /\ []NoOrphans /\ []Quiet
                 /\ []((\E s \in Session : lease[s] = "shared") => container # "absent")
                 /\ [][container # "absent" /\ container' = "absent" =>
                          \A s \in Session : agent'[s] = "none"]_vars
<1>1. Init => NoOrphans /\ NothingLate /\ Quiet /\ TasksInside
  BY DEF Init, NoOrphans, NothingLate, Quiet, TasksInside
<1>2. Inv /\ NoOrphans /\ NothingLate /\ [Next]_vars => NoOrphans' /\ NothingLate'
  BY OrphanStep
<1>3. Inv /\ TasksInside /\ [Next]_vars => TasksInside'
  BY InsideStep
<1>4. NoOrphans /\ Quiet /\ TasksInside
        /\ [pc'[Collector] = "clean" /\ container' = "up" /\ tasks' =>
              \/ pc[Collector] = "clean" /\ tasks
              \/ \E s \in Session : agent[s] = "orphan"]_vars
        /\ Inv /\ [Next]_vars
        => Quiet'
  BY QuietStep
<1>5. NothingLate /\ ((\E s \in Session : lease[s] = "shared") => container # "absent" \/ late)
        => ((\E s \in Session : lease[s] = "shared") => container # "absent")
  BY DEF NothingLate
<1>6. Inv /\ Inv' /\ NoOrphans' /\ NothingLate /\ NothingLate'
        /\ [container # "absent" /\ container' = "absent" =>
              \/ \A s \in Session : agent'[s] # "child"
              \/ pending'["rm"] < pending["rm"]]_vars
        => [container # "absent" /\ container' = "absent" =>
              \A s \in Session : agent'[s] = "none"]_vars
  BY DEF Inv, TypeOK, NoOrphans, NothingLate, Command
<1> QED
  BY <1>1, <1>2, <1>3, <1>4, <1>5, <1>6, Invariance, KeepsTasks, KeepsRuntime, AttachedServed, PTL
  DEF Spec, TasksKept, AgentKeepsRuntime
=============================================================================
