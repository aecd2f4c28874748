------------------------- MODULE PaseoServiceProofs -------------------------
(***************************************************************************)
(* Proofs that two daemons never run at the same time, and that none loses *)
(* its directory, for any number of services, directories, signals and     *)
(* faults.                                                                  *)
(***************************************************************************)
EXTENDS PaseoService, TLAPS

Sweeping == {"sweep", "sweepRemove", "mkdir"}
Owning == ({"handlers"} \cup Guarded \cup Finally)
Live(d) == init[d] \in {"prepare", "answered", "daemon"}
Armed(d) == Live(d) /\ stdin[d] = "command"

\* Whoever has come past the lock holds it alone.
LockHeld ==
    /\ \A s \in Service : s \in lock <=> pc[s] \in Sweeping \cup Owning
    /\ \A s, t \in lock : s = t

\* A service owns at most one directory, and only after mkdtemp.
Stages ==
    \A s \in Service :
        /\ mine[s] # {} => pc[s] \in Owning
        /\ \A d, e \in mine[s] : d = e
        /\ todo[s] # {} => pc[s] \in {"sweep", "sweepRemove"}
        /\ gone[s] # {} => pc[s] \in {"sweepRemove", "cleanRemove"}

\* What a service knows of the pipe to its helper.
Pipes ==
    /\ \A d \in Dir : stdin[d] = "open" => Owned(d)
    /\ \A s \in Service : \A d \in mine[s] :
          /\ pc[s] \in {"prepare", "command"} => stdin[d] = "open"
          /\ pc[s] = "command" => init[d] \in {"answered", "dead"}
          /\ pc[s] \in {"clean", "cleanRemove"} => stdin[d] # "open"

\* A helper that may still get a command, or has one, is on record.
OnRecord ==
    \A d \in Dir :
        /\ stdin[d] # "closed" /\ Live(d) => d \in recorded
        /\ stdin[d] # "closed" /\ sup[d] = "ready" /\ init[d] = "gated" => d \in recorded
        /\ stdin[d] = "command" => init[d] \notin {"none", "gated"}
        /\ init[d] = "daemon" => stdin[d] = "command"

\* What is about to be removed is not needed.
Unneeded ==
    \A s \in Service : \A d \in gone[s] : init[d] \in {"none", "dead"} \/ stdin[d] = "closed"

\* The holder of the lock owns whatever has a command, or has still to look at it.
OneArmed ==
    /\ \A s \in lock : \A d \in Dir : Armed(d) => d \in mine[s] \cup todo[s]
    /\ \A d, e \in Dir : Armed(d) /\ Armed(e) => d = e

\* There is one directory at most: the sweep removes the others before mkdtemp.
OneDirectory ==
    /\ \A d, e \in exists : d = e
    /\ \A s \in Service :
          /\ pc[s] \in {"sweep", "sweepRemove"} => exists \subseteq todo[s] \cup gone[s]
          /\ pc[s] = "mkdir" => exists = {}
          /\ pc[s] \in Owning => exists \subseteq mine[s]

\* What has not been recorded yet has not begun.
Fresh ==
    /\ \A d \in Dir : sup[d] = "setup" => init[d] = "gated" /\ d \notin recorded
    /\ \A s \in Service : pc[s] \in {"handlers", "popen"} =>
          \A d \in mine[s] : sup[d] = "none" /\ d \notin recorded

Inv ==
    /\ TypeOK /\ LockHeld /\ Stages /\ Pipes
    /\ OnRecord /\ Unneeded /\ OneArmed /\ OneDirectory /\ Fresh

(* The parts of TypeOK.                                                     *)

ServiceTyped ==
    /\ pc \in [Service -> {"off"} \cup Starting \cup Guarded \cup Finally]
    /\ lock \subseteq Service
    /\ mine \in [Service -> SUBSET Dir]
    /\ process \subseteq Service /\ broken \subseteq Service
    /\ todo \in [Service -> SUBSET Dir] /\ gone \in [Service -> SUBSET Dir]
FilesTyped ==
    exists \subseteq Dir /\ recorded \subseteq exists
NamespaceTyped ==
    /\ stdin \in [Dir -> {"open", "command", "closed"}]
    /\ sup \in [Dir -> {"none", "setup", "ready", "up", "dead"}]
    /\ init \in [Dir -> {"none", "gated", "prepare", "answered", "daemon", "dead"}]
BoundsTyped ==
    signals \in 0..MaxSignals /\ faults \in 0..MaxFaults

\* Where the services are.
LEMMA ServiceStep ==
  ASSUME ServiceTyped, FilesTyped, Next
  PROVE  ServiceTyped'
<1> USE DEF At, Go, Leave, Exit, Fault, service, space, bounds, ServiceTyped, FilesTyped,
         Starting, Guarded, Finally
<1>1. ASSUME NEW s \in Service, Start(s) \/ Probe(s) \/ Policy(s)
     PROVE  ServiceTyped'
  BY <1>1 DEF Start, Probe, Policy
<1>2. ASSUME NEW s \in Service, Lock(s)
     PROVE  ServiceTyped'
  BY <1>2 DEF Lock
<1>3. ASSUME NEW s \in Service, Sweep(s) \/ SweepRemove(s)
     PROVE  ServiceTyped'
  BY <1>3 DEF Sweep, SweepRemove, Exited, Remove
<1>4. ASSUME NEW s \in Service, Mkdir(s)
     PROVE  ServiceTyped'
  BY <1>4 DEF Mkdir
<1>5. ASSUME NEW s \in Service, InstallHandlers(s) \/ Popen(s) \/ Prepare(s)
     PROVE  ServiceTyped'
  BY <1>5 DEF InstallHandlers, Popen, Prepare, Spawn
<1>6. ASSUME NEW s \in Service, Command(s) \/ Stream(s)
     PROVE  ServiceTyped'
  BY <1>6 DEF Command, Stream, Closed
<1>7. ASSUME NEW s \in Service, Restore(s) \/ Terminate(s) \/ Reap(s)
     PROVE  ServiceTyped'
  BY <1>7 DEF Restore, Terminate, Reap
<1>8. ASSUME NEW s \in Service, Close(s) \/ Clean(s)
     PROVE  ServiceTyped'
  BY <1>8 DEF Close, Clean, Exited
<1>9. ASSUME NEW s \in Service, CleanRemove(s)
     PROVE  ServiceTyped'
  BY <1>9 DEF CleanRemove, Remove
<1>10. ASSUME NEW s \in Service, SignalEnds(s) \/ KillService(s)
     PROVE  ServiceTyped'
  BY <1>10 DEF SignalEnds, KillService
<1>11. ASSUME NEW s \in Service, SignalRaises(s) \/ SignalInPopen(s)
     PROVE  ServiceTyped'
  BY <1>11 DEF SignalRaises, SignalInPopen, Spawn
<1>12. ASSUME NEW d \in Dir, Record(d) \/ Release(d)
     PROVE  ServiceTyped'
  BY <1>12 DEF Record, Release
<1>13. ASSUME NEW d \in Dir, Answer(d) \/ PrepareFails(d) \/ BecomeDaemon(d)
          \/ Disconnect(d) \/ DaemonEnds(d) \/ Terminated(d)
     PROVE  ServiceTyped'
  BY <1>13 DEF Answer, PrepareFails, BecomeDaemon, Disconnect, DaemonEnds, Terminated,
         Helper
<1>14. ASSUME NEW d \in Dir, SupervisorEnds(d) \/ SupervisorFollows(d)
          \/ NamespaceFollows(d) \/ KillSupervisor(d)
     PROVE  ServiceTyped'
  BY <1>14 DEF SupervisorEnds, SupervisorFollows, NamespaceFollows, KillSupervisor
<1> QED
  BY <1>1, <1>2, <1>3, <1>4, <1>5, <1>6, <1>7, <1>8, <1>9, <1>10, <1>11, <1>12, <1>13,
         <1>14 DEF Next, Step, Kernel, Namespace

\* Which files there are.
LEMMA FilesStep ==
  ASSUME FilesTyped, ServiceTyped, Next
  PROVE  FilesTyped'
<1> USE DEF At, Go, Leave, Exit, Fault, service, space, bounds, ServiceTyped, FilesTyped
<1>1. ASSUME NEW s \in Service, Start(s) \/ Probe(s) \/ Policy(s)
     PROVE  FilesTyped'
  BY <1>1 DEF Start, Probe, Policy
<1>2. ASSUME NEW s \in Service, Lock(s)
     PROVE  FilesTyped'
  BY <1>2 DEF Lock
<1>3. ASSUME NEW s \in Service, Sweep(s) \/ SweepRemove(s)
     PROVE  FilesTyped'
  BY <1>3 DEF Sweep, SweepRemove, Exited, Remove
<1>4. ASSUME NEW s \in Service, Mkdir(s)
     PROVE  FilesTyped'
  BY <1>4 DEF Mkdir
<1>5. ASSUME NEW s \in Service, InstallHandlers(s) \/ Popen(s) \/ Prepare(s)
     PROVE  FilesTyped'
  BY <1>5 DEF InstallHandlers, Popen, Prepare, Spawn
<1>6. ASSUME NEW s \in Service, Command(s) \/ Stream(s)
     PROVE  FilesTyped'
  BY <1>6 DEF Command, Stream, Closed
<1>7. ASSUME NEW s \in Service, Restore(s) \/ Terminate(s) \/ Reap(s)
     PROVE  FilesTyped'
  BY <1>7 DEF Restore, Terminate, Reap
<1>8. ASSUME NEW s \in Service, Close(s) \/ Clean(s)
     PROVE  FilesTyped'
  BY <1>8 DEF Close, Clean, Exited
<1>9. ASSUME NEW s \in Service, CleanRemove(s)
     PROVE  FilesTyped'
  BY <1>9 DEF CleanRemove, Remove
<1>10. ASSUME NEW s \in Service, SignalEnds(s) \/ KillService(s)
     PROVE  FilesTyped'
  BY <1>10 DEF SignalEnds, KillService
<1>11. ASSUME NEW s \in Service, SignalRaises(s) \/ SignalInPopen(s)
     PROVE  FilesTyped'
  BY <1>11 DEF SignalRaises, SignalInPopen, Spawn
<1>12. ASSUME NEW d \in Dir, Record(d) \/ Release(d)
     PROVE  FilesTyped'
  BY <1>12 DEF Record, Release
<1>13. ASSUME NEW d \in Dir, Answer(d) \/ PrepareFails(d) \/ BecomeDaemon(d)
          \/ Disconnect(d) \/ DaemonEnds(d) \/ Terminated(d)
     PROVE  FilesTyped'
  BY <1>13 DEF Answer, PrepareFails, BecomeDaemon, Disconnect, DaemonEnds, Terminated,
         Helper
<1>14. ASSUME NEW d \in Dir, SupervisorEnds(d) \/ SupervisorFollows(d)
          \/ NamespaceFollows(d) \/ KillSupervisor(d)
     PROVE  FilesTyped'
  BY <1>14 DEF SupervisorEnds, SupervisorFollows, NamespaceFollows, KillSupervisor
<1> QED
  BY <1>1, <1>2, <1>3, <1>4, <1>5, <1>6, <1>7, <1>8, <1>9, <1>10, <1>11, <1>12, <1>13,
         <1>14 DEF Next, Step, Kernel, Namespace

\* What runs in a namespace.
LEMMA NamespaceStep ==
  ASSUME NamespaceTyped, Next
  PROVE  NamespaceTyped'
<1> USE DEF At, Go, Leave, Exit, Fault, service, space, bounds, NamespaceTyped
<1>1. ASSUME NEW s \in Service, Start(s) \/ Probe(s) \/ Policy(s)
     PROVE  NamespaceTyped'
  BY <1>1 DEF Start, Probe, Policy
<1>2. ASSUME NEW s \in Service, Lock(s)
     PROVE  NamespaceTyped'
  BY <1>2 DEF Lock
<1>3. ASSUME NEW s \in Service, Sweep(s) \/ SweepRemove(s)
     PROVE  NamespaceTyped'
  BY <1>3 DEF Sweep, SweepRemove, Exited, Remove
<1>4. ASSUME NEW s \in Service, Mkdir(s)
     PROVE  NamespaceTyped'
  BY <1>4 DEF Mkdir
<1>5. ASSUME NEW s \in Service, InstallHandlers(s) \/ Popen(s) \/ Prepare(s)
     PROVE  NamespaceTyped'
  BY <1>5 DEF InstallHandlers, Popen, Prepare, Spawn
<1>6. ASSUME NEW s \in Service, Command(s) \/ Stream(s)
     PROVE  NamespaceTyped'
  BY <1>6 DEF Command, Stream, Closed
<1>7. ASSUME NEW s \in Service, Restore(s) \/ Terminate(s) \/ Reap(s)
     PROVE  NamespaceTyped'
  BY <1>7 DEF Restore, Terminate, Reap
<1>8. ASSUME NEW s \in Service, Close(s) \/ Clean(s)
     PROVE  NamespaceTyped'
  BY <1>8 DEF Close, Clean, Exited
<1>9. ASSUME NEW s \in Service, CleanRemove(s)
     PROVE  NamespaceTyped'
  BY <1>9 DEF CleanRemove, Remove
<1>10. ASSUME NEW s \in Service, SignalEnds(s) \/ KillService(s)
     PROVE  NamespaceTyped'
  BY <1>10 DEF SignalEnds, KillService
<1>11. ASSUME NEW s \in Service, SignalRaises(s) \/ SignalInPopen(s)
     PROVE  NamespaceTyped'
  BY <1>11 DEF SignalRaises, SignalInPopen, Spawn
<1>12. ASSUME NEW d \in Dir, Record(d) \/ Release(d)
     PROVE  NamespaceTyped'
  BY <1>12 DEF Record, Release
<1>13. ASSUME NEW d \in Dir, Answer(d) \/ PrepareFails(d) \/ BecomeDaemon(d)
          \/ Disconnect(d) \/ DaemonEnds(d) \/ Terminated(d)
     PROVE  NamespaceTyped'
  BY <1>13 DEF Answer, PrepareFails, BecomeDaemon, Disconnect, DaemonEnds, Terminated,
         Helper
<1>14. ASSUME NEW d \in Dir, SupervisorEnds(d) \/ SupervisorFollows(d)
          \/ NamespaceFollows(d) \/ KillSupervisor(d)
     PROVE  NamespaceTyped'
  BY <1>14 DEF SupervisorEnds, SupervisorFollows, NamespaceFollows, KillSupervisor
<1> QED
  BY <1>1, <1>2, <1>3, <1>4, <1>5, <1>6, <1>7, <1>8, <1>9, <1>10, <1>11, <1>12, <1>13,
         <1>14 DEF Next, Step, Kernel, Namespace

\* The bounds.
LEMMA BoundsStep ==
  ASSUME BoundsTyped, Next
  PROVE  BoundsTyped'
<1> USE DEF At, Go, Leave, Exit, Fault, service, space, bounds, BoundsTyped
<1>1. ASSUME NEW s \in Service, Start(s) \/ Probe(s) \/ Policy(s)
     PROVE  BoundsTyped'
  BY ServiceBounds, <1>1 DEF Start, Probe, Policy
<1>2. ASSUME NEW s \in Service, Lock(s)
     PROVE  BoundsTyped'
  BY ServiceBounds, <1>2 DEF Lock
<1>3. ASSUME NEW s \in Service, Sweep(s) \/ SweepRemove(s)
     PROVE  BoundsTyped'
  BY ServiceBounds, <1>3 DEF Sweep, SweepRemove, Exited, Remove
<1>4. ASSUME NEW s \in Service, Mkdir(s)
     PROVE  BoundsTyped'
  BY ServiceBounds, <1>4 DEF Mkdir
<1>5. ASSUME NEW s \in Service, InstallHandlers(s) \/ Popen(s) \/ Prepare(s)
     PROVE  BoundsTyped'
  BY ServiceBounds, <1>5 DEF InstallHandlers, Popen, Prepare, Spawn
<1>6. ASSUME NEW s \in Service, Command(s) \/ Stream(s)
     PROVE  BoundsTyped'
  BY ServiceBounds, <1>6 DEF Command, Stream, Closed
<1>7. ASSUME NEW s \in Service, Restore(s) \/ Terminate(s) \/ Reap(s)
     PROVE  BoundsTyped'
  BY ServiceBounds, <1>7 DEF Restore, Terminate, Reap
<1>8. ASSUME NEW s \in Service, Close(s) \/ Clean(s)
     PROVE  BoundsTyped'
  BY ServiceBounds, <1>8 DEF Close, Clean, Exited
<1>9. ASSUME NEW s \in Service, CleanRemove(s)
     PROVE  BoundsTyped'
  BY ServiceBounds, <1>9 DEF CleanRemove, Remove
<1>10. ASSUME NEW s \in Service, SignalEnds(s) \/ KillService(s)
     PROVE  BoundsTyped'
  BY ServiceBounds, <1>10 DEF SignalEnds, KillService
<1>11. ASSUME NEW s \in Service, SignalRaises(s) \/ SignalInPopen(s)
     PROVE  BoundsTyped'
  BY ServiceBounds, <1>11 DEF SignalRaises, SignalInPopen, Spawn
<1>12. ASSUME NEW d \in Dir, Record(d) \/ Release(d)
     PROVE  BoundsTyped'
  BY ServiceBounds, <1>12 DEF Record, Release
<1>13. ASSUME NEW d \in Dir, Answer(d) \/ PrepareFails(d) \/ BecomeDaemon(d)
          \/ Disconnect(d) \/ DaemonEnds(d) \/ Terminated(d)
     PROVE  BoundsTyped'
  BY ServiceBounds, <1>13 DEF Answer, PrepareFails, BecomeDaemon, Disconnect, DaemonEnds,
         Terminated, Helper
<1>14. ASSUME NEW d \in Dir, SupervisorEnds(d) \/ SupervisorFollows(d)
          \/ NamespaceFollows(d) \/ KillSupervisor(d)
     PROVE  BoundsTyped'
  BY ServiceBounds, <1>14 DEF SupervisorEnds, SupervisorFollows, NamespaceFollows,
         KillSupervisor
<1> QED
  BY <1>1, <1>2, <1>3, <1>4, <1>5, <1>6, <1>7, <1>8, <1>9, <1>10, <1>11, <1>12, <1>13,
         <1>14 DEF Next, Step, Kernel, Namespace

\* Only Lock takes the lock, and only when nobody has it.
LEMMA LockStep ==
  ASSUME TypeOK, LockHeld, Next
  PROVE  LockHeld'
<1> USE DEF At, Go, Leave, Exit, Fault, service, space, bounds, TypeOK, Starting,
         Guarded, Finally, Sweeping, Owning, LockHeld
<1>1. ASSUME NEW s \in Service, Start(s) \/ Probe(s) \/ Policy(s)
     PROVE  LockHeld'
  BY <1>1 DEF Start, Probe, Policy
<1>2. ASSUME NEW s \in Service, Lock(s)
     PROVE  LockHeld'
  BY <1>2 DEF Lock
<1>3. ASSUME NEW s \in Service, Sweep(s) \/ SweepRemove(s)
     PROVE  LockHeld'
  BY <1>3 DEF Sweep, SweepRemove, Exited, Remove
<1>4. ASSUME NEW s \in Service, Mkdir(s)
     PROVE  LockHeld'
  BY <1>4 DEF Mkdir
<1>5. ASSUME NEW s \in Service, InstallHandlers(s) \/ Popen(s) \/ Prepare(s)
     PROVE  LockHeld'
  BY <1>5 DEF InstallHandlers, Popen, Prepare, Spawn
<1>6. ASSUME NEW s \in Service, Command(s) \/ Stream(s)
     PROVE  LockHeld'
  BY <1>6 DEF Command, Stream, Closed
<1>7. ASSUME NEW s \in Service, Restore(s) \/ Terminate(s) \/ Reap(s)
     PROVE  LockHeld'
  BY <1>7 DEF Restore, Terminate, Reap
<1>8. ASSUME NEW s \in Service, Close(s) \/ Clean(s)
     PROVE  LockHeld'
  BY <1>8 DEF Close, Clean, Exited
<1>9. ASSUME NEW s \in Service, CleanRemove(s)
     PROVE  LockHeld'
  BY <1>9 DEF CleanRemove, Remove
<1>10. ASSUME NEW s \in Service, SignalEnds(s) \/ KillService(s)
     PROVE  LockHeld'
  BY <1>10 DEF SignalEnds, KillService
<1>11. ASSUME NEW s \in Service, SignalRaises(s) \/ SignalInPopen(s)
     PROVE  LockHeld'
  BY <1>11 DEF SignalRaises, SignalInPopen, Spawn
<1>12. ASSUME NEW d \in Dir, Record(d) \/ Release(d)
     PROVE  LockHeld'
  BY <1>12 DEF Record, Release
<1>13. ASSUME NEW d \in Dir, Answer(d) \/ PrepareFails(d) \/ BecomeDaemon(d)
          \/ Disconnect(d) \/ DaemonEnds(d) \/ Terminated(d)
     PROVE  LockHeld'
  BY <1>13 DEF Answer, PrepareFails, BecomeDaemon, Disconnect, DaemonEnds, Terminated,
         Helper
<1>14. ASSUME NEW d \in Dir, SupervisorEnds(d) \/ SupervisorFollows(d)
          \/ NamespaceFollows(d) \/ KillSupervisor(d)
     PROVE  LockHeld'
  BY <1>14 DEF SupervisorEnds, SupervisorFollows, NamespaceFollows, KillSupervisor
<1> QED
  BY <1>1, <1>2, <1>3, <1>4, <1>5, <1>6, <1>7, <1>8, <1>9, <1>10, <1>11, <1>12, <1>13,
         <1>14 DEF Next, Step, Kernel, Namespace

\* A service that ends forgets everything.
LEMMA StagesStep ==
  ASSUME TypeOK, LockHeld, Stages, Next
  PROVE  Stages'
<1> USE DEF At, Go, Leave, Exit, Fault, service, space, bounds, TypeOK, Starting,
         Guarded, Finally, Sweeping, Owning, LockHeld, Stages
<1>1. ASSUME NEW s \in Service, Start(s) \/ Probe(s) \/ Policy(s)
     PROVE  Stages'
  BY <1>1 DEF Start, Probe, Policy
<1>2. ASSUME NEW s \in Service, Lock(s)
     PROVE  Stages'
  BY <1>2 DEF Lock
<1>3. ASSUME NEW s \in Service, Sweep(s) \/ SweepRemove(s)
     PROVE  Stages'
  BY <1>3 DEF Sweep, SweepRemove, Exited, Remove
<1>4. ASSUME NEW s \in Service, Mkdir(s)
     PROVE  Stages'
  BY <1>4 DEF Mkdir
<1>5. ASSUME NEW s \in Service, InstallHandlers(s) \/ Popen(s) \/ Prepare(s)
     PROVE  Stages'
  BY <1>5 DEF InstallHandlers, Popen, Prepare, Spawn
<1>6. ASSUME NEW s \in Service, Command(s) \/ Stream(s)
     PROVE  Stages'
  BY <1>6 DEF Command, Stream, Closed
<1>7. ASSUME NEW s \in Service, Restore(s) \/ Terminate(s) \/ Reap(s)
     PROVE  Stages'
  BY <1>7 DEF Restore, Terminate, Reap
<1>8. ASSUME NEW s \in Service, Close(s) \/ Clean(s)
     PROVE  Stages'
  BY <1>8 DEF Close, Clean, Exited
<1>9. ASSUME NEW s \in Service, CleanRemove(s)
     PROVE  Stages'
  BY <1>9 DEF CleanRemove, Remove
<1>10. ASSUME NEW s \in Service, SignalEnds(s) \/ KillService(s)
     PROVE  Stages'
  BY <1>10 DEF SignalEnds, KillService
<1>11. ASSUME NEW s \in Service, SignalRaises(s) \/ SignalInPopen(s)
     PROVE  Stages'
  BY <1>11 DEF SignalRaises, SignalInPopen, Spawn
<1>12. ASSUME NEW d \in Dir, Record(d) \/ Release(d)
     PROVE  Stages'
  BY <1>12 DEF Record, Release
<1>13. ASSUME NEW d \in Dir, Answer(d) \/ PrepareFails(d) \/ BecomeDaemon(d)
          \/ Disconnect(d) \/ DaemonEnds(d) \/ Terminated(d)
     PROVE  Stages'
  BY <1>13 DEF Answer, PrepareFails, BecomeDaemon, Disconnect, DaemonEnds, Terminated,
         Helper
<1>14. ASSUME NEW d \in Dir, SupervisorEnds(d) \/ SupervisorFollows(d)
          \/ NamespaceFollows(d) \/ KillSupervisor(d)
     PROVE  Stages'
  BY <1>14 DEF SupervisorEnds, SupervisorFollows, NamespaceFollows, KillSupervisor
<1> QED
  BY <1>1, <1>2, <1>3, <1>4, <1>5, <1>6, <1>7, <1>8, <1>9, <1>10, <1>11, <1>12, <1>13,
         <1>14 DEF Next, Step, Kernel, Namespace

\* The pipe of an owned namespace is as its service left it.
LEMMA PipesStep ==
  ASSUME TypeOK, LockHeld, Stages, OnRecord, Pipes, Next
  PROVE  Pipes'
<1> USE DEF At, Go, Leave, Exit, Fault, service, space, bounds, TypeOK, Starting,
         Guarded, Finally, Sweeping, Owning, LockHeld, Stages, Pipes, OnRecord, Live,
         Owned
<1>1. ASSUME NEW s \in Service, Start(s) \/ Probe(s) \/ Policy(s)
     PROVE  Pipes'
  BY <1>1 DEF Start, Probe, Policy
<1>2. ASSUME NEW s \in Service, Lock(s)
     PROVE  Pipes'
  BY <1>2 DEF Lock
<1>3. ASSUME NEW s \in Service, Sweep(s) \/ SweepRemove(s)
     PROVE  Pipes'
  BY <1>3 DEF Sweep, SweepRemove, Exited, Remove
<1>4. ASSUME NEW s \in Service, Mkdir(s)
     PROVE  Pipes'
  BY <1>4 DEF Mkdir
<1>5. ASSUME NEW s \in Service, InstallHandlers(s) \/ Popen(s) \/ Prepare(s)
     PROVE  Pipes'
  BY <1>5 DEF InstallHandlers, Popen, Prepare, Spawn
<1>6. ASSUME NEW s \in Service, Command(s) \/ Stream(s)
     PROVE  Pipes'
  BY <1>6 DEF Command, Stream, Closed
<1>7. ASSUME NEW s \in Service, Restore(s) \/ Terminate(s) \/ Reap(s)
     PROVE  Pipes'
  BY <1>7 DEF Restore, Terminate, Reap
<1>8. ASSUME NEW s \in Service, Close(s) \/ Clean(s)
     PROVE  Pipes'
  BY <1>8 DEF Close, Clean, Exited
<1>9. ASSUME NEW s \in Service, CleanRemove(s)
     PROVE  Pipes'
  BY <1>9 DEF CleanRemove, Remove
<1>10. ASSUME NEW s \in Service, SignalEnds(s) \/ KillService(s)
     PROVE  Pipes'
  BY <1>10 DEF SignalEnds, KillService
<1>11. ASSUME NEW s \in Service, SignalRaises(s) \/ SignalInPopen(s)
     PROVE  Pipes'
  BY <1>11 DEF SignalRaises, SignalInPopen, Spawn
<1>12. ASSUME NEW d \in Dir, Record(d) \/ Release(d)
     PROVE  Pipes'
  BY <1>12 DEF Record, Release
<1>13. ASSUME NEW d \in Dir, Answer(d) \/ PrepareFails(d) \/ BecomeDaemon(d)
          \/ Disconnect(d) \/ DaemonEnds(d) \/ Terminated(d)
     PROVE  Pipes'
  BY <1>13 DEF Answer, PrepareFails, BecomeDaemon, Disconnect, DaemonEnds, Terminated,
         Helper
<1>14. ASSUME NEW d \in Dir, SupervisorEnds(d) \/ SupervisorFollows(d)
          \/ NamespaceFollows(d) \/ KillSupervisor(d)
     PROVE  Pipes'
  BY <1>14 DEF SupervisorEnds, SupervisorFollows, NamespaceFollows, KillSupervisor
<1> QED
  BY <1>1, <1>2, <1>3, <1>4, <1>5, <1>6, <1>7, <1>8, <1>9, <1>10, <1>11, <1>12, <1>13,
         <1>14 DEF Next, Step, Kernel, Namespace

\* Nothing that is removed is needed.
LEMMA RecordStep ==
  ASSUME TypeOK, LockHeld, Stages, Pipes, Unneeded, OnRecord, Next
  PROVE  OnRecord'
<1> USE DEF At, Go, Leave, Exit, Fault, service, space, bounds, TypeOK, Starting,
         Guarded, Finally, Sweeping, Owning, LockHeld, Stages, Pipes, OnRecord, Live,
         Owned, Unneeded
<1>1. ASSUME NEW s \in Service, Start(s) \/ Probe(s) \/ Policy(s)
     PROVE  OnRecord'
  BY <1>1 DEF Start, Probe, Policy
<1>2. ASSUME NEW s \in Service, Lock(s)
     PROVE  OnRecord'
  BY <1>2 DEF Lock
<1>3. ASSUME NEW s \in Service, Sweep(s) \/ SweepRemove(s)
     PROVE  OnRecord'
  BY <1>3 DEF Sweep, SweepRemove, Exited, Remove
<1>4. ASSUME NEW s \in Service, Mkdir(s)
     PROVE  OnRecord'
  BY <1>4 DEF Mkdir
<1>5. ASSUME NEW s \in Service, InstallHandlers(s) \/ Popen(s) \/ Prepare(s)
     PROVE  OnRecord'
  BY <1>5 DEF InstallHandlers, Popen, Prepare, Spawn
<1>6. ASSUME NEW s \in Service, Command(s) \/ Stream(s)
     PROVE  OnRecord'
  BY <1>6 DEF Command, Stream, Closed
<1>7. ASSUME NEW s \in Service, Restore(s) \/ Terminate(s) \/ Reap(s)
     PROVE  OnRecord'
  BY <1>7 DEF Restore, Terminate, Reap
<1>8. ASSUME NEW s \in Service, Close(s) \/ Clean(s)
     PROVE  OnRecord'
  BY <1>8 DEF Close, Clean, Exited
<1>9. ASSUME NEW s \in Service, CleanRemove(s)
     PROVE  OnRecord'
  BY <1>9 DEF CleanRemove, Remove
<1>10. ASSUME NEW s \in Service, SignalEnds(s) \/ KillService(s)
     PROVE  OnRecord'
  BY <1>10 DEF SignalEnds, KillService
<1>11. ASSUME NEW s \in Service, SignalRaises(s) \/ SignalInPopen(s)
     PROVE  OnRecord'
  BY <1>11 DEF SignalRaises, SignalInPopen, Spawn
<1>12. ASSUME NEW d \in Dir, Record(d) \/ Release(d)
     PROVE  OnRecord'
  BY <1>12 DEF Record, Release
<1>13. ASSUME NEW d \in Dir, Answer(d) \/ PrepareFails(d) \/ BecomeDaemon(d)
          \/ Disconnect(d) \/ DaemonEnds(d) \/ Terminated(d)
     PROVE  OnRecord'
  BY <1>13 DEF Answer, PrepareFails, BecomeDaemon, Disconnect, DaemonEnds, Terminated,
         Helper
<1>14. ASSUME NEW d \in Dir, SupervisorEnds(d) \/ SupervisorFollows(d)
          \/ NamespaceFollows(d) \/ KillSupervisor(d)
     PROVE  OnRecord'
  BY <1>14 DEF SupervisorEnds, SupervisorFollows, NamespaceFollows, KillSupervisor
<1> QED
  BY <1>1, <1>2, <1>3, <1>4, <1>5, <1>6, <1>7, <1>8, <1>9, <1>10, <1>11, <1>12, <1>13,
         <1>14 DEF Next, Step, Kernel, Namespace

\* What has ended stays so, and what lost its pipe gets no new one.
LEMMA UnneededStep ==
  ASSUME TypeOK, LockHeld, Stages, Pipes, OnRecord, Unneeded, Next
  PROVE  Unneeded'
<1> USE DEF At, Go, Leave, Exit, Fault, service, space, bounds, TypeOK, Starting,
         Guarded, Finally, Sweeping, Owning, LockHeld, Stages, Pipes, OnRecord, Live,
         Owned, Unneeded
<1>1. ASSUME NEW s \in Service, Start(s) \/ Probe(s) \/ Policy(s)
     PROVE  Unneeded'
  BY <1>1 DEF Start, Probe, Policy
<1>2. ASSUME NEW s \in Service, Lock(s)
     PROVE  Unneeded'
  BY <1>2 DEF Lock
<1>3. ASSUME NEW s \in Service, Sweep(s) \/ SweepRemove(s)
     PROVE  Unneeded'
  BY <1>3 DEF Sweep, SweepRemove, Exited, Remove
<1>4. ASSUME NEW s \in Service, Mkdir(s)
     PROVE  Unneeded'
  BY <1>4 DEF Mkdir
<1>5. ASSUME NEW s \in Service, InstallHandlers(s) \/ Popen(s) \/ Prepare(s)
     PROVE  Unneeded'
  BY <1>5 DEF InstallHandlers, Popen, Prepare, Spawn
<1>6. ASSUME NEW s \in Service, Command(s) \/ Stream(s)
     PROVE  Unneeded'
  BY <1>6 DEF Command, Stream, Closed
<1>7. ASSUME NEW s \in Service, Restore(s) \/ Terminate(s) \/ Reap(s)
     PROVE  Unneeded'
  BY <1>7 DEF Restore, Terminate, Reap
<1>8. ASSUME NEW s \in Service, Close(s) \/ Clean(s)
     PROVE  Unneeded'
  BY <1>8 DEF Close, Clean, Exited
<1>9. ASSUME NEW s \in Service, CleanRemove(s)
     PROVE  Unneeded'
  BY <1>9 DEF CleanRemove, Remove
<1>10. ASSUME NEW s \in Service, SignalEnds(s) \/ KillService(s)
     PROVE  Unneeded'
  BY <1>10 DEF SignalEnds, KillService
<1>11. ASSUME NEW s \in Service, SignalRaises(s) \/ SignalInPopen(s)
     PROVE  Unneeded'
  BY <1>11 DEF SignalRaises, SignalInPopen, Spawn
<1>12. ASSUME NEW d \in Dir, Record(d) \/ Release(d)
     PROVE  Unneeded'
  BY <1>12 DEF Record, Release
<1>13. ASSUME NEW d \in Dir, Answer(d) \/ PrepareFails(d) \/ BecomeDaemon(d)
          \/ Disconnect(d) \/ DaemonEnds(d) \/ Terminated(d)
     PROVE  Unneeded'
  BY <1>13 DEF Answer, PrepareFails, BecomeDaemon, Disconnect, DaemonEnds, Terminated,
         Helper
<1>14. ASSUME NEW d \in Dir, SupervisorEnds(d) \/ SupervisorFollows(d)
          \/ NamespaceFollows(d) \/ KillSupervisor(d)
     PROVE  Unneeded'
  BY <1>14 DEF SupervisorEnds, SupervisorFollows, NamespaceFollows, KillSupervisor
<1> QED
  BY <1>1, <1>2, <1>3, <1>4, <1>5, <1>6, <1>7, <1>8, <1>9, <1>10, <1>11, <1>12, <1>13,
         <1>14 DEF Next, Step, Kernel, Namespace

\* A command is sent by the holder of the lock, when nothing else has one.
LEMMA ArmedStep ==
  ASSUME TypeOK, LockHeld, Stages, Pipes, OnRecord, OneArmed, Next
  PROVE  OneArmed'
<1> USE DEF At, Go, Leave, Exit, Fault, service, space, bounds, TypeOK, Starting,
         Guarded, Finally, Sweeping, Owning, LockHeld, Stages, Pipes, OnRecord, Live,
         Owned, Armed, OneArmed
<1>1. ASSUME NEW s \in Service, Start(s) \/ Probe(s) \/ Policy(s)
     PROVE  OneArmed'
  BY <1>1 DEF Start, Probe, Policy
<1>2. ASSUME NEW s \in Service, Lock(s)
     PROVE  OneArmed'
  BY <1>2 DEF Lock
<1>3. ASSUME NEW s \in Service, Sweep(s) \/ SweepRemove(s)
     PROVE  OneArmed'
  BY <1>3 DEF Sweep, SweepRemove, Exited, Remove
<1>4. ASSUME NEW s \in Service, Mkdir(s)
     PROVE  OneArmed'
  BY <1>4 DEF Mkdir
<1>5. ASSUME NEW s \in Service, InstallHandlers(s) \/ Popen(s) \/ Prepare(s)
     PROVE  OneArmed'
  BY <1>5 DEF InstallHandlers, Popen, Prepare, Spawn
<1>6. ASSUME NEW s \in Service, Command(s) \/ Stream(s)
     PROVE  OneArmed'
  BY <1>6 DEF Command, Stream, Closed
<1>7. ASSUME NEW s \in Service, Restore(s) \/ Terminate(s) \/ Reap(s)
     PROVE  OneArmed'
  BY <1>7 DEF Restore, Terminate, Reap
<1>8. ASSUME NEW s \in Service, Close(s) \/ Clean(s)
     PROVE  OneArmed'
  BY <1>8 DEF Close, Clean, Exited
<1>9. ASSUME NEW s \in Service, CleanRemove(s)
     PROVE  OneArmed'
  BY <1>9 DEF CleanRemove, Remove
<1>10. ASSUME NEW s \in Service, SignalEnds(s) \/ KillService(s)
     PROVE  OneArmed'
  BY <1>10 DEF SignalEnds, KillService
<1>11. ASSUME NEW s \in Service, SignalRaises(s) \/ SignalInPopen(s)
     PROVE  OneArmed'
  BY <1>11 DEF SignalRaises, SignalInPopen, Spawn
<1>12. ASSUME NEW d \in Dir, Record(d) \/ Release(d)
     PROVE  OneArmed'
  BY <1>12 DEF Record, Release
<1>13. ASSUME NEW d \in Dir, Answer(d) \/ PrepareFails(d) \/ BecomeDaemon(d)
          \/ Disconnect(d) \/ DaemonEnds(d) \/ Terminated(d)
     PROVE  OneArmed'
  BY <1>13 DEF Answer, PrepareFails, BecomeDaemon, Disconnect, DaemonEnds, Terminated,
         Helper
<1>14. ASSUME NEW d \in Dir, SupervisorEnds(d) \/ SupervisorFollows(d)
          \/ NamespaceFollows(d) \/ KillSupervisor(d)
     PROVE  OneArmed'
  BY <1>14 DEF SupervisorEnds, SupervisorFollows, NamespaceFollows, KillSupervisor
<1> QED
  BY <1>1, <1>2, <1>3, <1>4, <1>5, <1>6, <1>7, <1>8, <1>9, <1>10, <1>11, <1>12, <1>13,
         <1>14 DEF Next, Step, Kernel, Namespace

\* Only the holder of the lock makes a directory, after it has removed the others.
LEMMA DirectoryStep ==
  ASSUME TypeOK, LockHeld, Stages, OneDirectory, Next
  PROVE  OneDirectory'
<1> USE DEF At, Go, Leave, Exit, Fault, service, space, bounds, TypeOK, Starting,
         Guarded, Finally, Sweeping, Owning, LockHeld, Stages, OneDirectory
<1>1. ASSUME NEW s \in Service, Start(s) \/ Probe(s) \/ Policy(s)
     PROVE  OneDirectory'
  BY <1>1 DEF Start, Probe, Policy
<1>2. ASSUME NEW s \in Service, Lock(s)
     PROVE  OneDirectory'
  BY <1>2 DEF Lock
<1>3. ASSUME NEW s \in Service, Sweep(s) \/ SweepRemove(s)
     PROVE  OneDirectory'
  BY <1>3 DEF Sweep, SweepRemove, Exited, Remove
<1>4. ASSUME NEW s \in Service, Mkdir(s)
     PROVE  OneDirectory'
  BY <1>4 DEF Mkdir
<1>5. ASSUME NEW s \in Service, InstallHandlers(s) \/ Popen(s) \/ Prepare(s)
     PROVE  OneDirectory'
  BY <1>5 DEF InstallHandlers, Popen, Prepare, Spawn
<1>6. ASSUME NEW s \in Service, Command(s) \/ Stream(s)
     PROVE  OneDirectory'
  BY <1>6 DEF Command, Stream, Closed
<1>7. ASSUME NEW s \in Service, Restore(s) \/ Terminate(s) \/ Reap(s)
     PROVE  OneDirectory'
  BY <1>7 DEF Restore, Terminate, Reap
<1>8. ASSUME NEW s \in Service, Close(s) \/ Clean(s)
     PROVE  OneDirectory'
  BY <1>8 DEF Close, Clean, Exited
<1>9. ASSUME NEW s \in Service, CleanRemove(s)
     PROVE  OneDirectory'
  BY <1>9 DEF CleanRemove, Remove
<1>10. ASSUME NEW s \in Service, SignalEnds(s) \/ KillService(s)
     PROVE  OneDirectory'
  BY <1>10 DEF SignalEnds, KillService
<1>11. ASSUME NEW s \in Service, SignalRaises(s) \/ SignalInPopen(s)
     PROVE  OneDirectory'
  BY <1>11 DEF SignalRaises, SignalInPopen, Spawn
<1>12. ASSUME NEW d \in Dir, Record(d) \/ Release(d)
     PROVE  OneDirectory'
  BY <1>12 DEF Record, Release
<1>13. ASSUME NEW d \in Dir, Answer(d) \/ PrepareFails(d) \/ BecomeDaemon(d)
          \/ Disconnect(d) \/ DaemonEnds(d) \/ Terminated(d)
     PROVE  OneDirectory'
  BY <1>13 DEF Answer, PrepareFails, BecomeDaemon, Disconnect, DaemonEnds, Terminated,
         Helper
<1>14. ASSUME NEW d \in Dir, SupervisorEnds(d) \/ SupervisorFollows(d)
          \/ NamespaceFollows(d) \/ KillSupervisor(d)
     PROVE  OneDirectory'
  BY <1>14 DEF SupervisorEnds, SupervisorFollows, NamespaceFollows, KillSupervisor
<1> QED
  BY <1>1, <1>2, <1>3, <1>4, <1>5, <1>6, <1>7, <1>8, <1>9, <1>10, <1>11, <1>12, <1>13,
         <1>14 DEF Next, Step, Kernel, Namespace

\* A supervisor that has not recorded its namespace has a new directory.
LEMMA FreshStep ==
  ASSUME TypeOK, LockHeld, Stages, Fresh, Next
  PROVE  Fresh'
<1> USE DEF At, Go, Leave, Exit, Fault, service, space, bounds, TypeOK, Starting,
         Guarded, Finally, Sweeping, Owning, LockHeld, Stages, Fresh
<1>1. ASSUME NEW s \in Service, Start(s) \/ Probe(s) \/ Policy(s)
     PROVE  Fresh'
  BY <1>1 DEF Start, Probe, Policy
<1>2. ASSUME NEW s \in Service, Lock(s)
     PROVE  Fresh'
  BY <1>2 DEF Lock
<1>3. ASSUME NEW s \in Service, Sweep(s) \/ SweepRemove(s)
     PROVE  Fresh'
  BY <1>3 DEF Sweep, SweepRemove, Exited, Remove
<1>4. ASSUME NEW s \in Service, Mkdir(s)
     PROVE  Fresh'
  BY <1>4 DEF Mkdir
<1>5. ASSUME NEW s \in Service, InstallHandlers(s) \/ Popen(s) \/ Prepare(s)
     PROVE  Fresh'
  BY <1>5 DEF InstallHandlers, Popen, Prepare, Spawn
<1>6. ASSUME NEW s \in Service, Command(s) \/ Stream(s)
     PROVE  Fresh'
  BY <1>6 DEF Command, Stream, Closed
<1>7. ASSUME NEW s \in Service, Restore(s) \/ Terminate(s) \/ Reap(s)
     PROVE  Fresh'
  BY <1>7 DEF Restore, Terminate, Reap
<1>8. ASSUME NEW s \in Service, Close(s) \/ Clean(s)
     PROVE  Fresh'
  BY <1>8 DEF Close, Clean, Exited
<1>9. ASSUME NEW s \in Service, CleanRemove(s)
     PROVE  Fresh'
  BY <1>9 DEF CleanRemove, Remove
<1>10. ASSUME NEW s \in Service, SignalEnds(s) \/ KillService(s)
     PROVE  Fresh'
  BY <1>10 DEF SignalEnds, KillService
<1>11. ASSUME NEW s \in Service, SignalRaises(s) \/ SignalInPopen(s)
     PROVE  Fresh'
  BY <1>11 DEF SignalRaises, SignalInPopen, Spawn
<1>12. ASSUME NEW d \in Dir, Record(d) \/ Release(d)
     PROVE  Fresh'
  BY <1>12 DEF Record, Release
<1>13. ASSUME NEW d \in Dir, Answer(d) \/ PrepareFails(d) \/ BecomeDaemon(d)
          \/ Disconnect(d) \/ DaemonEnds(d) \/ Terminated(d)
     PROVE  Fresh'
  BY <1>13 DEF Answer, PrepareFails, BecomeDaemon, Disconnect, DaemonEnds, Terminated,
         Helper
<1>14. ASSUME NEW d \in Dir, SupervisorEnds(d) \/ SupervisorFollows(d)
          \/ NamespaceFollows(d) \/ KillSupervisor(d)
     PROVE  Fresh'
  BY <1>14 DEF SupervisorEnds, SupervisorFollows, NamespaceFollows, KillSupervisor
<1> QED
  BY <1>1, <1>2, <1>3, <1>4, <1>5, <1>6, <1>7, <1>8, <1>9, <1>10, <1>11, <1>12, <1>13,
         <1>14 DEF Next, Step, Kernel, Namespace

LEMMA TypeParts == TypeOK <=> ServiceTyped /\ FilesTyped /\ NamespaceTyped /\ BoundsTyped
  BY Zenon DEF TypeOK, ServiceTyped, FilesTyped, NamespaceTyped, BoundsTyped

LEMMA TypePartsNext ==
  TypeOK' <=> ServiceTyped' /\ FilesTyped' /\ NamespaceTyped' /\ BoundsTyped'
  BY Zenon DEF TypeOK, ServiceTyped, FilesTyped, NamespaceTyped, BoundsTyped

\* Before any service has started nothing exists.
LEMMA InitInv == Init => Inv
<1> SUFFICES ASSUME Init PROVE Inv
  OBVIOUS
<1> USE DEF Init
<1>1. TypeOK
  <2>1. ServiceTyped
    BY DEF ServiceTyped
  <2>2. FilesTyped
    BY DEF FilesTyped
  <2>3. NamespaceTyped
    BY DEF NamespaceTyped
  <2>4. BoundsTyped
    BY ServiceBounds DEF BoundsTyped
  <2> QED  BY <2>1, <2>2, <2>3, <2>4, TypeParts
<1>2. LockHeld /\ Stages
  BY DEF LockHeld, Stages, Sweeping, Owning, Guarded, Finally
<1>3. Pipes /\ OnRecord /\ Unneeded /\ OneArmed
  BY DEF Pipes, OnRecord, Unneeded, OneArmed, Armed, Live
<1>4. OneDirectory /\ Fresh
  BY DEF OneDirectory, Fresh, Owning, Guarded, Finally
<1> QED  BY <1>1, <1>2, <1>3, <1>4 DEF Inv

\* Every step of a service, a namespace or the kernel keeps the invariant.
LEMMA NextInv == ASSUME Inv, [Next]_vars PROVE Inv'
<1>1. CASE Next
  <2> USE <1>1
  <2>1. TypeOK /\ LockHeld /\ Stages /\ Pipes /\ OnRecord /\ Unneeded /\ OneArmed
       /\ OneDirectory /\ Fresh
    BY DEF Inv
  <2>2. ServiceTyped /\ FilesTyped /\ NamespaceTyped /\ BoundsTyped
    BY <2>1, TypeParts
  <2>3. TypeOK'
    BY <2>2, ServiceStep, FilesStep, NamespaceStep, BoundsStep, TypePartsNext
  <2>4. LockHeld' /\ Stages'
    BY <2>1, LockStep, StagesStep
  <2>5. Pipes' /\ OnRecord' /\ Unneeded' /\ OneArmed'
    BY <2>1, PipesStep, RecordStep, UnneededStep, ArmedStep
  <2>6. OneDirectory' /\ Fresh'
    BY <2>1, DirectoryStep, FreshStep
  <2> QED  BY <2>3, <2>4, <2>5, <2>6 DEF Inv
<1>2. CASE UNCHANGED vars
  <2> USE <1>2 DEF Inv, vars, service, space, bounds
  <2>1. TypeOK' /\ LockHeld' /\ Stages'
    BY DEF TypeOK, LockHeld, Stages
  <2>2. Pipes' /\ OnRecord'
    BY DEF Pipes, OnRecord, Owned, Live
  <2>3. Unneeded' /\ OneArmed'
    BY DEF Unneeded, OneArmed, Armed, Live
  <2>4. OneDirectory' /\ Fresh'
    BY DEF OneDirectory, Fresh
  <2> QED  BY <2>1, <2>2, <2>3, <2>4
<1> QED  BY <1>1, <1>2

THEOREM Invariant == Spec => []Inv
  BY InitInv, NextInv, PTL DEF Spec

\* Type correctness: nothing is on record in a directory that has been removed.
THEOREM TypeCorrect == Spec => []TypeOK
  BY Invariant, PTL DEF Inv

\* Two daemons never share ~/.paseo, however services are killed, interrupted
\* and started again.
THEOREM Alone == Spec => []OneDaemon
<1>1. Inv => OneDaemon
  BY DEF Inv, OneDaemon, OneArmed, OnRecord, Armed, Live
<1> QED  BY <1>1, Invariant, PTL

\* The directory with the sockets of a daemon, and the record of its namespace,
\* stay as long as the daemon.
THEOREM Kept == Spec => []DaemonKept
<1>1. Inv => DaemonKept
  BY DEF Inv, DaemonKept, OnRecord, Live
<1> QED  BY <1>1, Invariant, PTL

----------------------------------------------------------------------------
(* The services implement DaemonHome.                                       *)

Homes == [d \in Dir |-> HomeOf(d)]

\* One directory changes at a time.
LEMMA HomeChanges ==
  ASSUME NEW d \in Dir, \A e \in Dir \ {d} : HomeOf(e)' = HomeOf(e)
  PROVE  Homes' = [Homes EXCEPT ![d] = HomeOf(d)']
  BY DEF Homes

\* Who runs in a directory that is on record changes only forward.
LEMMA HomeForward ==
  ASSUME Inv, NEW d \in Dir, UNCHANGED recorded,
         \A e \in Dir \ {d} : init'[e] = init[e],
         \/ init'[d] = init[d]
         \/ init[d] # "dead" /\ init'[d] = "dead"
         \/ init[d] \notin {"dead", "daemon"} /\ init'[d] \in {"gated", "prepare", "answered"}
         \/ init[d] = "answered" /\ stdin[d] = "command" /\ init'[d] = "daemon"
  PROVE  Home!Next \/ Homes' = Homes
<1>1. \A e \in Dir \ {d} : HomeOf(e)' = HomeOf(e)
  BY DEF HomeOf
<1>2. init[d] = "daemon" \/ (init[d] = "answered" /\ stdin[d] = "command") => d \in recorded
  BY DEF Inv, OnRecord, Live
<1>3. \/ HomeOf(d)' = HomeOf(d)
      \/ HomeOf(d) \in {"idle", "daemon"} /\ HomeOf(d)' = "ended"
      \/ HomeOf(d) = "idle" /\ HomeOf(d)' = "daemon"
  BY <1>2 DEF HomeOf
<1>4. Homes' = [Homes EXCEPT ![d] = HomeOf(d)']
  BY <1>1, HomeChanges
<1>5. CASE HomeOf(d)' = HomeOf(d)
  BY <1>4, <1>5 DEF Homes
<1>6. CASE HomeOf(d) \in {"idle", "daemon"} /\ HomeOf(d)' = "ended"
  BY <1>4, <1>6 DEF Homes, Home!Next, Home!End, Home!Becomes
<1>7. CASE HomeOf(d) = "idle" /\ HomeOf(d)' = "daemon"
  BY <1>4, <1>7 DEF Homes, Home!Next, Home!Begin, Home!Becomes
<1> QED  BY <1>3, <1>5, <1>6, <1>7

\* The directory that is removed is the only one, and no daemon is or will be in it.
LEMMA HomeDiscarded ==
  ASSUME Inv, NEW s \in Service, Remove(s), UNCHANGED init
  PROVE  Home!Next \/ Homes' = Homes
<1>1. \A d \in Dir : init[d] = "daemon" => d \in recorded \ gone[s]
  BY DEF Inv, OnRecord, Unneeded, Live
<1>2. CASE recorded \cap gone[s] = {}
  BY <1>1, <1>2 DEF Remove, Homes, HomeOf
<1>3. ASSUME NEW d \in recorded \cap gone[s] PROVE Home!Next
  <2>1. d \in Dir /\ recorded = {d}
    BY <1>3 DEF Inv, TypeOK, OneDirectory
  <2>2. recorded' = {}
    BY <1>3, <2>1 DEF Remove
  <2>3. \A e \in Dir : HomeOf(e)' = "absent"
    BY <1>1, <1>3, <2>1, <2>2 DEF HomeOf
  <2>4. \A e \in Dir \ {d} : HomeOf(e)' = HomeOf(e)
    BY <1>1, <1>3, <2>1, <2>3 DEF HomeOf
  <2>5. HomeOf(d) \in {"idle", "ended"}
    BY <1>1, <1>3, <2>1 DEF HomeOf
  <2>6. Homes' = [Homes EXCEPT ![d] = "absent"]
    BY <2>1, <2>3, <2>4, HomeChanges
  <2> QED  BY <2>1, <2>5, <2>6 DEF Homes, Home!Next, Home!Discard, Home!Becomes
<1> QED  BY <1>2, <1>3

\* What starts in a directory that is not on record does not show.
LEMMA HomeHidden ==
  ASSUME Inv, UNCHANGED recorded,
         \A d \in Dir : \/ init'[d] = init[d]
                        \/ d \notin recorded /\ init[d] # "daemon" /\ init'[d] \in {"none", "gated"}
  PROVE  Homes' = Homes
  BY DEF Homes, HomeOf

\* A namespace is recorded in the only directory there is.
LEMMA HomeRecorded ==
  ASSUME Inv, NEW d \in Dir, Record(d)
  PROVE  Home!Next \/ Homes' = Homes
<1>1. init[d] = "gated" /\ d \notin recorded /\ UNCHANGED init
  BY DEF Record, Inv, Fresh
<1>2. CASE d \in exists
  <2>1. recorded = {} /\ recorded' = {d}
    BY <1>1, <1>2 DEF Record, Inv, TypeOK, OneDirectory
  <2>2. \A e \in Dir : HomeOf(e) = "absent"
    BY <2>1 DEF HomeOf, Inv, OnRecord, Live
  <2>3. HomeOf(d)' = "idle" /\ \A e \in Dir \ {d} : HomeOf(e)' = HomeOf(e)
    BY <1>1, <2>1, <2>2 DEF HomeOf
  <2>4. Homes' = [Homes EXCEPT ![d] = "idle"]
    BY <2>3, HomeChanges
  <2> QED  BY <2>2, <2>4 DEF Homes, Home!Next, Home!Record, Home!Becomes
<1>3. CASE d \notin exists
  <2>1. UNCHANGED recorded /\ UNCHANGED init
    BY <1>1, <1>3 DEF Record
  <2> QED  BY <2>1 DEF Homes, HomeOf
<1> QED  BY <1>2, <1>3

\* Every step of a service, a namespace or the kernel is one of DaemonHome, or none.
LEMMA HomeStep ==
  ASSUME Inv, Next
  PROVE  Home!Next \/ Homes' = Homes
<1> USE DEF At, Go, Leave, Exit, Fault, service, space, bounds
<1>1. ASSUME NEW s \in Service, \/ Start(s) \/ Probe(s) \/ Policy(s) \/ Lock(s) \/ Sweep(s)
                                \/ InstallHandlers(s) \/ Prepare(s)
      PROVE  Homes' = Homes
  BY <1>1 DEF Start, Probe, Policy, Lock, Sweep, InstallHandlers, Prepare, Homes, HomeOf
<1>2. ASSUME NEW s \in Service, \/ Command(s) \/ Stream(s) \/ Restore(s) \/ Terminate(s)
                                \/ Reap(s) \/ Close(s) \/ Clean(s)
                                \/ SignalEnds(s) \/ SignalRaises(s) \/ KillService(s)
      PROVE  Homes' = Homes
  BY <1>2 DEF Command, Stream, Restore, Terminate, Reap, Close, Clean, SignalEnds,
         SignalRaises, KillService, Homes, HomeOf
<1>3. ASSUME NEW s \in Service, SweepRemove(s) \/ CleanRemove(s)
      PROVE  Home!Next \/ Homes' = Homes
  BY <1>3, HomeDiscarded DEF SweepRemove, CleanRemove
<1>4. ASSUME NEW s \in Service, Mkdir(s) PROVE Homes' = Homes
  <2>1. PICK d \in Dir \ exists : init[d] \in {"none", "dead"} /\ init' = [init EXCEPT ![d] = "none"]
    BY <1>4 DEF Mkdir
  <2>2. UNCHANGED recorded /\ d \in Dir /\ d \notin recorded
    BY <1>4, <2>1 DEF Mkdir, Inv, TypeOK
  <2>3. \A e \in Dir : \/ init'[e] = init[e]
                       \/ e \notin recorded /\ init[e] # "daemon" /\ init'[e] \in {"none", "gated"}
    BY <2>1, <2>2 DEF Inv, TypeOK
  <2> QED  BY <2>2, <2>3, HomeHidden
<1>5. ASSUME NEW s \in Service, Popen(s) \/ SignalInPopen(s) PROVE Homes' = Homes
  <2>1. \A d \in mine[s] : d \notin recorded /\ init[d] # "daemon"
    BY <1>5 DEF Popen, SignalInPopen, Inv, Fresh, OnRecord, Live, TypeOK
  <2>2. UNCHANGED recorded
        /\ \A d \in Dir : init'[d] = IF d \in mine[s] THEN "gated" ELSE init[d]
    BY <1>5 DEF Popen, SignalInPopen, Spawn
  <2>3. \A d \in Dir : \/ init'[d] = init[d]
                       \/ d \notin recorded /\ init[d] # "daemon" /\ init'[d] \in {"none", "gated"}
    BY <2>1, <2>2
  <2>4. UNCHANGED recorded
    BY <2>2
  <2> QED  BY <2>3, <2>4, HomeHidden
<1>6. ASSUME NEW d \in Dir, Record(d) PROVE Home!Next \/ Homes' = Homes
  BY <1>6, HomeRecorded
<1>7. ASSUME NEW d \in Dir, \/ Release(d) \/ Answer(d) \/ PrepareFails(d) \/ BecomeDaemon(d)
                            \/ Disconnect(d) \/ DaemonEnds(d) \/ Terminated(d) \/ NamespaceFollows(d)
      PROVE  Home!Next \/ Homes' = Homes
  <2>1. UNCHANGED recorded /\ \E to : init' = [init EXCEPT ![d] = to]
    BY <1>7 DEF Release, Answer, PrepareFails, BecomeDaemon, Disconnect, DaemonEnds,
           Terminated, NamespaceFollows, Helper
  <2>2. \/ init[d] # "dead" /\ init'[d] = "dead"
        \/ init[d] \notin {"dead", "daemon"} /\ init'[d] \in {"gated", "prepare", "answered"}
        \/ init[d] = "answered" /\ stdin[d] = "command" /\ init'[d] = "daemon"
    BY <1>7 DEF Release, Answer, PrepareFails, BecomeDaemon, Disconnect, DaemonEnds,
           Terminated, NamespaceFollows, Helper, Inv, TypeOK
  <2> QED  BY <2>1, <2>2, HomeForward DEF Inv, TypeOK
<1>8. ASSUME NEW d \in Dir, SupervisorEnds(d) \/ SupervisorFollows(d) \/ KillSupervisor(d)
      PROVE  Homes' = Homes
  BY <1>8 DEF SupervisorEnds, SupervisorFollows, KillSupervisor, Homes, HomeOf
<1> QED
  BY <1>1, <1>2, <1>3, <1>4, <1>5, <1>6, <1>7, <1>8 DEF Next, Step, Kernel, Namespace

\* DaemonHome by itself promises what it is there for: as long as one namespace
\* is on record nobody begins another one.
THEOREM HomeAlone == Home!Spec => []Home!OneHome
<1>1. Home!Init => Home!OneHome
  BY DEF Home!Init, Home!OneHome
<1>2. Home!OneHome /\ [Home!Next]_Homes => Home!OneHome'
  <2> SUFFICES ASSUME Home!OneHome, [Home!Next]_Homes PROVE Home!OneHome'
    OBVIOUS
  <2>1. CASE UNCHANGED Homes
    BY <2>1 DEF Home!OneHome, Homes
  <2>2. ASSUME NEW d \in Dir, Home!Record(d) PROVE Home!OneHome'
    BY <2>2 DEF Home!Record, Home!Becomes, Home!OneHome
  <2>3. ASSUME NEW d \in Dir, Home!Begin(d) \/ Home!End(d) \/ Home!Discard(d)
        PROVE  Home!OneHome'
    BY <2>3 DEF Home!Begin, Home!End, Home!Discard, Home!Becomes, Home!OneHome
  <2> QED  BY <2>1, <2>2, <2>3 DEF Home!Next
<1> QED  BY <1>1, <1>2, PTL DEF Home!Spec, Homes

\* run_configured_container: however services are killed, interrupted and started
\* again, they treat the directories of their namespaces as one service would.
THEOREM ServicesImplementHome == Spec => ImplementsHome
<1>1. Init => Home!Init
  BY DEF Init, Home!Init, HomeOf
<1>2. Inv /\ [Next]_vars => [Home!Next]_Homes
  <2>1. ASSUME UNCHANGED vars PROVE Homes' = Homes
    BY <2>1 DEF vars, space, Homes, HomeOf
  <2> QED  BY <2>1, HomeStep
<1> QED  BY <1>1, <1>2, Invariant, PTL DEF Spec, ImplementsHome, Home!Spec, Homes
=============================================================================
