---------------------------- MODULE ProcessProofs ----------------------------
(***************************************************************************)
(* The daemon as a process.  First its life on one interface, for any      *)
(* number of queues, ports and starts: what a crash or a shutdown at any   *)
(* step leaves pinned, configured and reachable (Lifecycle).  Then the     *)
(* daemons of a host, for any number of interfaces, pids and inodes: what  *)
(* PidFile::create excludes, whom a signal of pesigitg-ctl reaches and     *)
(* what its cleanup leaves alone (Instances).                              *)
(***************************************************************************)
EXTENDS Lifecycle, Instances, TLAPS


\* From here on load_ebpf has returned, and EbpfHandle is not being dropped.
Loaded == {"reconcile", "reconcile_adopted", "inherit", "spawn", "init", "running", "join", "export", "export_umem"}

\* The inductive invariant about pins: who may have unpinned what, where.
PinInv ==
  /\ LinkPinIsWhole
  /\ pc = "pin" => {"XSKS", "PORTS"} \subseteq pins
  /\ pc \in Loaded => pins = Pin
  /\ pc \in Loaded \cup {"drop"} => (handoff <=> ended = "handoff")
  /\ pc = "drop" /\ handoff => pins = Pin
  /\ pc \notin {"join", "export", "export_umem", "drop"} => ~handoff
  /\ pc \notin {"join", "export", "export_umem", "drop", "down"} => ended = "never"
  /\ pins \subseteq Pin
  /\ pc = "down" => ShutdownIsCompleteOrKept

Unspawned == {"down", "adopt", "clear", "cold", "pin", "reconcile", "reconcile_adopted",
              "inherit", "spawn"}

\* The inductive invariant about threads: a worker past its bind or adoption owns its
\* queue's socket, and nothing closes sockets in bulk while a worker is alive.
ThreadInv ==
  /\ holders \in [Queue -> SUBSET {"process", "store", "kernel"}]
  /\ worker \in [Queue -> {"none", "starting", "bound", "running", "exited"}]
  /\ pc \in Unspawned => \A q \in Queue : worker[q] = "none"
  /\ pc \in {"export", "export_umem", "drop"} => Alive = {}
  /\ pc = "spawn" => \A q \in Queue : q \in inherited => "process" \in holders[q]
  /\ \A q \in Queue :
       /\ worker[q] = "starting" /\ q \in inherited => "process" \in holders[q]
       /\ worker[q] \in {"bound", "running"} => "process" \in holders[q]
       /\ worker[q] = "running" => q \in xsks

LEMMA PinInit == Init => PinInv
BY Zenon DEF Init, PinInv, LinkPinIsWhole, Loaded, Pin, ShutdownIsCompleteOrKept

\* Steps that touch neither the pins nor the place in main.
LEMMA PinQuiet ==
  ASSUME PinInv, UNCHANGED <<pins, pc, handoff, ended>>
  PROVE  PinInv'
BY DEF PinInv, LinkPinIsWhole, ShutdownIsCompleteOrKept, attached, Pin

\* The end of a process that was not shut down: the pins stay as they are.
LEMMA PinGone ==
  ASSUME PinInv, NEW why, Gone(why),
         why \in {"cold", "worker"} => pins = {}, why = "handoff" => pins = Pin
  PROVE  PinInv'
<1>1. "link" \in Pin
  BY SMTT(30) DEF Pin
<1> QED BY <1>1 DEF PinInv, Gone, config, LinkPinIsWhole, ShutdownIsCompleteOrKept, attached, Loaded

LEMMA PinStep == PinInv /\ [Next]_vars => PinInv'
<1> SUFFICES ASSUME PinInv, [Next]_vars PROVE PinInv'
  OBVIOUS
<1> DEFINE Quiet == UNCHANGED <<pins, pc, handoff, ended>>
<1> USE DEF PinInv, LinkPinIsWhole, ShutdownIsCompleteOrKept, Loaded, Pin
<1>1. ASSUME NEW ps \in SUBSET Port, NEW n \in 1..NQUEUES, Start(ps, n) PROVE PinInv'
  BY <1>1, Zenon DEF Start, kernel
<1>2. CASE LoadEbpf
  <2>1. CASE AdoptEbpf
    BY <2>1 DEF AdoptEbpf, kernel
  <2>2. CASE AdoptEbpfFails
    BY <2>2 DEF AdoptEbpfFails, kernel
  <2>3. CASE ClearStalePin
    BY <2>3 DEF ClearStalePin, NextPin
  <2>4. ASSUME NEW name \in Pin, LoadMap(name) PROVE PinInv'
    BY <2>4, Zenon DEF LoadMap
  <2>5. CASE Attach
    BY <2>5 DEF Attach, kernel
  <2>6. CASE PinLink
    BY <2>6, Zenon DEF PinLink
  <2>7. CASE ReconcilePorts
    BY <2>7, Zenon DEF ReconcilePorts
  <2>8. CASE ReconcileFails
    BY <2>8, Zenon DEF ReconcileFails, kernel
  <2>9. CASE ColdBootFails
    BY <2>9, PinGone, Zenon DEF ColdBootFails
  <2> QED BY <1>2, <2>1, <2>2, <2>3, <2>4, <2>5, <2>6, <2>7, <2>8, <2>9, Zenon DEF LoadEbpf
<1>3. CASE InheritFromSystemd \/ StartFails \/ Spawn \/ EnterLoop
  BY <1>3 DEF InheritFromSystemd, StartFails, Spawn, EnterLoop, kernel
<1>4. CASE InitFails
  <2>1. CASE Alive = {}
    BY <1>4, <2>1, Zenon DEF InitFails, kernel
  <2>2. CASE Alive # {}
    BY <1>4, <2>2, PinGone, Zenon DEF InitFails
  <2> QED BY <2>1, <2>2, Zenon
<1>5. ASSUME NEW q \in Queue, Worker(q) PROVE PinInv'
  <2>1. Quiet
    BY <1>5, Zenon DEF Worker, CreateSocket, AdoptSocket, WorkerFails, RegisterXsk, WorkerStops, kernel
  <2> QED BY <2>1, PinQuiet, Zenon
<1>6. CASE HandoffSignal \/ TermSignal \/ WorkerExited
  BY <1>6 DEF HandoffSignal, TermSignal, WorkerExited, kernel
<1>7. CASE Join
  BY <1>7, Zenon DEF Join
<1>8. ASSUME NEW q \in Queue, ExportSock(q) \/ ExportUmem(q) PROVE PinInv'
  BY <1>8 DEF ExportSock, ExportUmem, threads
<1>9. CASE ExportEnds
  BY <1>9, Zenon DEF ExportEnds
<1>10. CASE DropEbpf
  <2>1. CASE handoff \/ pins = {}
    BY <1>10, <2>1, PinGone, Zenon DEF DropEbpf
  <2>2. CASE ~(handoff \/ pins = {})
    BY <1>10, <2>2, Zenon DEF DropEbpf, NextPin
  <2> QED BY <2>1, <2>2, Zenon
<1>11. ASSUME NEW q \in Queue, Release(q) PROVE PinInv'
  BY <1>11, PinQuiet, Zenon DEF Release
<1>12. CASE StoreDropped
  BY <1>12, PinQuiet, Zenon DEF StoreDropped
<1>13. CASE Crash \/ NoFirstPort
  BY <1>13, PinGone, Zenon DEF Crash, NoFirstPort
<1>14. CASE UNCHANGED vars
  BY <1>14, PinQuiet, Zenon DEF vars
<1>15. ASSUME NEW ps \in SUBSET Port, Sighup(ps) PROVE PinInv'
  BY <1>15, PinQuiet, Zenon DEF Sighup, kernel
<1> HIDE DEF PinInv, LinkPinIsWhole, ShutdownIsCompleteOrKept, Loaded, Pin
<1> QED
  BY <1>1, <1>2, <1>3, <1>4, <1>5, <1>6, <1>7, <1>8, <1>9, <1>10, <1>11, <1>12, <1>13, <1>14, <1>15,
     Zenon DEF Next, Boot, Stop

LEMMA PortsStep == PortsAreAsStarted /\ [Next]_vars => PortsAreAsStarted'
<1> SUFFICES ASSUME PortsAreAsStarted, [Next]_vars PROVE PortsAreAsStarted'
  OBVIOUS
<1> USE DEF PortsAreAsStarted
<1>1. ASSUME NEW why, Gone(why) PROVE PortsAreAsStarted'
  BY <1>1 DEF Gone
<1>2. ASSUME NEW ps \in SUBSET Port, NEW n \in 1..NQUEUES, Start(ps, n)
      PROVE  PortsAreAsStarted'
  BY <1>2 DEF Start
<1>3. CASE LoadEbpf
  BY <1>1, <1>3, Zenon
     DEF LoadEbpf, AdoptEbpf, AdoptEbpfFails, ClearStalePin, LoadMap, Attach, PinLink,
         ReconcilePorts, ReconcileFails, ColdBootFails, config
<1>4. CASE InheritFromSystemd \/ StartFails \/ Spawn \/ EnterLoop
  BY <1>4, Zenon DEF InheritFromSystemd, StartFails, Spawn, EnterLoop, kernel, config
<1>5. CASE InitFails
  BY <1>1, <1>5, Zenon DEF InitFails
<1>6. ASSUME NEW q \in Queue, Worker(q) PROVE PortsAreAsStarted'
  BY <1>6, Zenon DEF Worker, CreateSocket, AdoptSocket, WorkerFails, RegisterXsk, WorkerStops, kernel,
              config
<1>7. CASE HandoffSignal \/ TermSignal \/ WorkerExited
  BY <1>7, Zenon DEF HandoffSignal, TermSignal, WorkerExited, kernel, config
<1>8. CASE Join \/ ExportEnds
  BY SMTT(30), <1>8 DEF Join, ExportEnds, config
<1>9. ASSUME NEW q \in Queue, ExportSock(q) \/ ExportUmem(q) PROVE PortsAreAsStarted'
  BY <1>9, Zenon DEF ExportSock, ExportUmem, config
<1>10. CASE DropEbpf
  BY <1>1, <1>10 DEF DropEbpf, config
<1>11. ASSUME NEW q \in Queue, Release(q) PROVE PortsAreAsStarted'
  BY <1>11 DEF Release, config
<1>12. CASE StoreDropped
  BY <1>12, Zenon DEF StoreDropped, config
<1>13. CASE Crash \/ NoFirstPort
  BY <1>1, <1>13, Zenon DEF Crash, NoFirstPort
<1>14. CASE UNCHANGED vars
  BY <1>14 DEF vars
<1>15. ASSUME NEW ps \in SUBSET Port, Sighup(ps) PROVE PortsAreAsStarted'
  BY <1>15, Zenon DEF Sighup, kernel
<1> QED
  BY <1>2, <1>3, <1>4, <1>5, <1>6, <1>7, <1>8, <1>9, <1>10, <1>11, <1>12, <1>13, <1>14, <1>15, Zenon
     DEF Next, Boot, Stop

LEMMA InductivePins == Spec => []PinInv
BY PinInit, PinStep, PTL DEF Spec

\* Wherever processes are cut off, a link pin means a whole install.
THEOREM PinsAreWhole == Spec => []LinkPinIsWhole
<1>1. PinInv => LinkPinIsWhole
  BY DEF PinInv
<1> QED BY <1>1, InductivePins, PTL

\* Whatever earlier processes left behind, SIGTERM leaves no pin and SIGUSR2 leaves them
\* all with the program attached.
THEOREM ShutdownLeavesAllOrNothing == Spec => []ShutdownIsCompleteOrKept
<1>1. PinInv => ShutdownIsCompleteOrKept
  BY DEF PinInv, ShutdownIsCompleteOrKept
<1> QED BY <1>1, InductivePins, PTL

\* A daemon past reconcile_ports filters exactly the ports it was started with, whatever
\* the processes before it left behind and however often SIGHUP reloads the file.
THEOREM PortsAreThoseOfTheStart == Spec => []PortsAreAsStarted
<1>1. Init => PortsAreAsStarted
  BY DEF Init, PortsAreAsStarted
<1> QED BY <1>1, PortsStep, PTL DEF Spec

-----------------------------------------------------------------------------
(* Threads and sockets                                                      *)

\* Closing sockets leaves the holders of every other queue alone.
LEMMA ClosedFacts ==
  ASSUME NEW h \in [Queue -> SUBSET {"process", "store", "kernel"}], NEW qs
  PROVE  /\ Closed(h, qs) \in [Queue -> SUBSET {"process", "store", "kernel"}]
         /\ \A q \in Queue : q \notin qs => Closed(h, qs)[q] = h[q]
BY DEF Closed

LEMMA ThreadInit == Init => ThreadInv
BY DEF Init, ThreadInv, Unspawned

LEMMA ThreadGone == ASSUME ThreadInv, NEW why, Gone(why) PROVE ThreadInv'
<1>1. holders' \in [Queue -> SUBSET {"process", "store", "kernel"}]
  BY ClosedFacts, Zenon DEF ThreadInv, Gone, Close
<1> QED BY <1>1, Zenon DEF ThreadInv, Gone, Unspawned

\* Steps of the main thread that touch neither sockets nor workers.
LEMMA ThreadQuiet ==
  ASSUME ThreadInv, UNCHANGED <<holders, worker, xsks, inherited>>,
         pc' \in Unspawned => pc \in Unspawned,
         pc' \in {"export", "export_umem", "drop"} => Alive = {},
         pc' = "spawn" => pc = "spawn"
  PROVE  ThreadInv'
BY Zenon DEF ThreadInv, Alive

\* Steps of one worker.
LEMMA ThreadWorker ==
  ASSUME ThreadInv, NEW q \in Queue, Worker(q)
  PROVE  ThreadInv'
<1>1. pc' = pc /\ pc \notin Unspawned \cup {"export", "export_umem", "drop"} /\ inherited' = inherited
  <2>1. worker[q] \notin {"none", "exited"}
    BY Zenon DEF Worker, CreateSocket, AdoptSocket, WorkerFails, RegisterXsk, WorkerStops
  <2>2. pc' = pc /\ inherited' = inherited
    BY Zenon DEF Worker, CreateSocket, AdoptSocket, WorkerFails, RegisterXsk, WorkerStops, kernel
  <2> QED BY <2>1, <2>2 DEF ThreadInv, Alive
<1>2. worker' \in [Queue -> {"none", "starting", "bound", "running", "exited"}]
  BY Zenon DEF ThreadInv, Worker, CreateSocket, AdoptSocket, WorkerFails, RegisterXsk, WorkerStops
<1>3. \A r \in Queue \ {q} : worker'[r] = worker[r]
  BY Zenon DEF ThreadInv, Worker, CreateSocket, AdoptSocket, WorkerFails, RegisterXsk, WorkerStops
<1>4. /\ holders' \in [Queue -> SUBSET {"process", "store", "kernel"}]
      /\ \A r \in Queue \ {q} : holders'[r] = holders[r]
  <2>1. CASE CreateSocket(q) \/ AdoptSocket(q) \/ RegisterXsk(q)
    BY <2>1 DEF ThreadInv, CreateSocket, AdoptSocket, RegisterXsk, kernel
  <2>2. CASE WorkerFails(q) \/ WorkerStops(q)
    BY <2>2, ClosedFacts DEF ThreadInv, WorkerFails, WorkerStops, Close
  <2> QED BY <2>1, <2>2, Zenon DEF Worker
<1>5. \A r \in Queue \ {q} : holders'[r] = holders[r]
  BY <1>4
<1>6. \A r \in Queue \ {q} : worker[r] = "running" => r \in xsks'
  BY <1>5, Zenon
     DEF ThreadInv, Worker, CreateSocket, AdoptSocket, WorkerFails, RegisterXsk, WorkerStops,
         Close, Slots, kernel
<1>7. /\ worker'[q] # "starting"
      /\ worker'[q] \in {"bound", "running"} => "process" \in holders'[q]
      /\ worker'[q] = "running" => q \in xsks'
  BY DEF ThreadInv, Worker, CreateSocket, AdoptSocket, WorkerFails, RegisterXsk, WorkerStops,
         kernel
<1> QED BY <1>1, <1>2, <1>3, <1>4, <1>5, <1>6, <1>7, Zenon DEF ThreadInv, Unspawned

LEMMA ThreadStep == ThreadInv /\ [Next]_vars => ThreadInv'
<1> SUFFICES ASSUME ThreadInv, [Next]_vars PROVE ThreadInv'
  OBVIOUS
<1>1. ASSUME NEW ps \in SUBSET Port, NEW n \in 1..NQUEUES, Start(ps, n)
      PROVE  ThreadInv'
  BY <1>1, ThreadQuiet DEF Start, kernel, threads, Unspawned
<1>2. CASE LoadEbpf
  <2>1. ASSUME NEW name \in Pin, LoadMap(name) PROVE ThreadInv'
    BY <2>1 DEF ThreadInv, LoadMap, threads, Unspawned
  <2>2. CASE \/ AdoptEbpf \/ AdoptEbpfFails \/ ClearStalePin \/ Attach \/ PinLink
             \/ ReconcilePorts \/ ReconcileFails
    BY <2>2, ThreadQuiet, Zenon
       DEF AdoptEbpf, AdoptEbpfFails, ClearStalePin, Attach, PinLink, ReconcilePorts,
           ReconcileFails, kernel, threads, Unspawned
  <2>3. CASE ColdBootFails
    BY <2>3, ThreadGone DEF ColdBootFails
  <2> QED BY <1>2, <2>1, <2>2, <2>3 DEF LoadEbpf
<1>3. CASE InheritFromSystemd
  BY <1>3, Zenon DEF ThreadInv, InheritFromSystemd, threads, Unspawned
<1>4. CASE StartFails \/ EnterLoop
  <2>1. pc \in Unspawned => Alive = {}
    BY Zenon DEF ThreadInv, Alive
  <2> QED BY <1>4, <2>1, ThreadQuiet, Zenon DEF StartFails, EnterLoop, kernel, threads, Unspawned
<1>5. CASE Spawn
  <2>1. holders' \in [Queue -> SUBSET {"process", "store", "kernel"}]
    BY <1>5, ClosedFacts, Zenon DEF ThreadInv, Spawn, Close
  <2>2. \A q \in Queue : q \in planned => holders'[q] = holders[q]
    BY <1>5, ClosedFacts DEF ThreadInv, Spawn, Close
  <2> QED BY <1>5, <2>1, <2>2, Zenon DEF ThreadInv, Spawn, Unspawned
<1>6. CASE InitFails
  <2>1. CASE Alive = {}
    BY <1>6, <2>1, ThreadQuiet, Zenon DEF InitFails, kernel, threads, Unspawned
  <2> QED BY <1>6, <2>1, ThreadGone DEF InitFails
<1>7. ASSUME NEW q \in Queue, Worker(q) PROVE ThreadInv'
  BY <1>7, ThreadWorker
<1>8. CASE HandoffSignal \/ TermSignal \/ WorkerExited
  BY <1>8, ThreadQuiet, Zenon DEF HandoffSignal, TermSignal, WorkerExited, kernel, Unspawned
<1>9. CASE Join
  <2>1. Alive = {} /\ UNCHANGED <<worker, inherited>> /\ pc' \in {"export", "drop"}
    BY <1>9 DEF Join
  <2>2. holders' \in [Queue -> SUBSET {"process", "store", "kernel"}]
    BY <1>9, ClosedFacts DEF ThreadInv, Join, Close
  <2> QED BY <2>1, <2>2, Zenon DEF ThreadInv, Alive, Unspawned
<1>10. ASSUME NEW q \in Queue, ExportSock(q) \/ ExportUmem(q) PROVE ThreadInv'
  <2>1. Alive = {} /\ UNCHANGED <<worker, inherited>> /\ pc' \in {"export", "export_umem"}
    BY <1>10, Zenon DEF ThreadInv, ExportSock, ExportUmem, threads
  <2>2. holders' \in [Queue -> SUBSET {"process", "store", "kernel"}]
    BY <1>10, ClosedFacts DEF ThreadInv, ExportSock, ExportUmem, Close
  <2> QED BY <2>1, <2>2, Zenon DEF ThreadInv, Alive, Unspawned
<1>11. CASE ExportEnds
  <2>1. Alive = {} /\ UNCHANGED <<worker, inherited>> /\ pc' = "drop"
    BY <1>11 DEF ThreadInv, ExportEnds
  <2>2. holders' \in [Queue -> SUBSET {"process", "store", "kernel"}]
    BY <1>11, ClosedFacts, Zenon DEF ThreadInv, ExportEnds, Close
  <2> QED BY <2>1, <2>2 DEF ThreadInv, Alive, Unspawned
<1>12. CASE DropEbpf
  <2>1. CASE handoff \/ pins = {}
    BY <1>12, <2>1, ThreadGone DEF DropEbpf
  <2>2. CASE ~(handoff \/ pins = {})
    <3>1. Alive = {}
      BY <1>12, Zenon DEF ThreadInv, DropEbpf
    <3> QED BY <1>12, <2>2, <3>1, ThreadQuiet DEF DropEbpf, threads
  <2> QED BY <2>1, <2>2
<1>13. ASSUME NEW q \in Queue, Release(q) PROVE ThreadInv'
  <2>1. "process" \notin holders[q]
    BY <1>13, Zenon DEF Release
  <2>2. holders' \in [Queue -> SUBSET {"process", "store", "kernel"}]
    BY <1>13, Zenon DEF ThreadInv, Release
  <2>3. \A r \in Queue \ {q} : holders'[r] = holders[r] /\ (r \in xsks => r \in xsks')
    BY <1>13 DEF ThreadInv, Release
  <2> QED BY <1>13, <2>1, <2>2, <2>3, Zenon DEF ThreadInv, Release, threads, Alive
<1>14. CASE StoreDropped
  BY <1>14, Zenon DEF ThreadInv, StoreDropped, threads, Unspawned
<1>15. CASE Crash \/ NoFirstPort
  BY <1>15, ThreadGone, Zenon DEF Crash, NoFirstPort
<1>16. CASE UNCHANGED vars
  BY <1>16, ThreadQuiet, Zenon DEF vars, ThreadInv
<1>17. ASSUME NEW ps \in SUBSET Port, Sighup(ps) PROVE ThreadInv'
  BY <1>17, ThreadQuiet, Zenon DEF Sighup, kernel, threads, Unspawned
<1> QED
  BY <1>1, <1>2, <1>3, <1>4, <1>5, <1>6, <1>7, <1>8, <1>9, <1>10, <1>11, <1>12, <1>13, <1>14,
     <1>15, <1>16, <1>17, Zenon
     DEF Next, Boot, Stop

\* For any number of queues, the slot of a worker in its loop refers to the worker's own
\* socket, across adoption, failures and release of earlier sockets.
THEOREM WorkersAreReachable == Spec => []RunningIsReachable
<1>1. ThreadInv => RunningIsReachable
  BY Zenon DEF ThreadInv, RunningIsReachable
<1> QED BY <1>1, ThreadInit, ThreadStep, PTL DEF Spec

-----------------------------------------------------------------------------
(* The daemons of a host.  The flock says nothing of paths and the path     *)
(* nothing of locks, so the invariant has both halves: who has an           *)
(* interface's pid file open has the inode at its path (HasThePath), and an *)
(* inode has one holder (OneHolder).                                        *)

Places == {"none", "boot", "opened", "locked", "written", "stopping", "removed"}

HostTypes ==
  /\ proc \in [Pid -> [is: {"none", "daemon", "other"}, start: Starts \cup {NoStart},
                       pc: Places, fd: Inode \cup {0}]]
  /\ file \in [Iface -> Inode \cup {0}]
  /\ \A p \in Pid : IsDaemon(p) => iface(p) \in Iface
  /\ \A p \in Pid : proc[p].pc # "none" => IsDaemon(p)
  /\ \A p \in Pid : proc[p].fd # 0 => proc[p].pc \notin {"none", "boot"}

\* Until it is unlinked under somebody, the path leads to what the daemons have open.
HasThePath ==
  \A p \in Pid : proc[p].fd # 0 /\ proc[p].pc # "removed" /\ iface(p) \notin unlinked
                   => file[iface(p)] = proc[p].fd

\* flock: one process holds an inode's lock.
OneHolder ==
  \A p, q \in Pid : proc[p].fd # 0 /\ proc[p].fd = proc[q].fd
                    /\ proc[p].pc # "opened" /\ proc[q].pc # "opened" => p = q

HostInv == HostTypes /\ HasThePath /\ OneHolder

\* Nobody runs and no file is there.
LEMMA HostInitInv == HostInit => HostInv
BY DEF HostInit, HostInv, HostTypes, HasThePath, OneHolder, NoProc, IsDaemon, Places

\* A process that ends takes its descriptor with it, and leaves the path as it is.
LEMMA EndsInv ==
  ASSUME HostInv, NEW p \in Pid, ProcessEnds(p), UNCHANGED <<file, unlinked>>
  PROVE  HostInv'
BY DEF HostInv, HostTypes, HasThePath, OneHolder, ProcessEnds, NoProc, IsDaemon, iface, Places

\* A start opens what is at the path, or puts there what it opens.
LEMMA OpenInv ==
  ASSUME HostInv, NEW p \in Pid, OpenTruncate(p)
  PROVE  HostInv'
<1> DEFINE i == iface(p)
           free == Inode \ (Range(file) \cup {proc[q].fd : q \in Pid})
           x == IF file[i] # 0 THEN file[i] ELSE CHOOSE y \in free : TRUE
<1>1. i \in Iface /\ proc[p].pc = "boot"
  BY Zenon DEF HostInv, HostTypes, OpenTruncate
<1>2. x \in Inode /\ x # 0 /\ (file[i] # 0 => x = file[i])
  <2>1. file[i] \in Inode \cup {0}
    BY <1>1 DEF HostInv, HostTypes
  <2>2. file[i] # 0 \/ free # {}
    BY Zenon DEF OpenTruncate
  <2>3. 0 \notin Inode
    BY InstancesAssumption
  <2> QED BY <2>1, <2>2, <2>3
<1>3. /\ file' = [file EXCEPT ![i] = x]
      /\ proc' = [proc EXCEPT ![p].pc = "opened", ![p].fd = x]
      /\ unlinked' = unlinked
  BY Zenon DEF OpenTruncate
<1> HIDE DEF i, x
<1>4. i = proc[p].start.iface
  BY DEF i, iface
<1>5. HostTypes'
  BY <1>1, <1>2, <1>3 DEF HostInv, HostTypes, IsDaemon, iface, Places
<1>6. HasThePath'
  BY <1>1, <1>2, <1>3, <1>4 DEF HostInv, HostTypes, HasThePath, IsDaemon, iface
<1>7. OneHolder'
  BY <1>3 DEF HostInv, HostTypes, OneHolder
<1> QED BY <1>5, <1>6, <1>7, Zenon DEF HostInv

\* Only who finds the inode unlocked gets its lock.
LEMMA LockInv ==
  ASSUME HostInv, NEW p \in Pid, Lock(p)
  PROVE  HostInv'
<1>1. HostTypes' /\ HasThePath'
  BY DEF HostInv, HostTypes, HasThePath, Lock, IsDaemon, iface, Places
<1>2. OneHolder'
  <2>1. \A q \in Pid : proc[q].fd = proc[p].fd /\ proc[q].fd # 0 => proc[q].pc = "opened"
    BY Zenon DEF Lock, Holders, HostInv, HostTypes
  <2> QED BY <2>1 DEF HostInv, HostTypes, OneHolder, Lock
<1> QED BY <1>1, <1>2 DEF HostInv

\* A path goes only with its opener, or the interface is in unlinked from then on.
LEMMA UnlinkInv ==
  ASSUME HostInv, NEW i, NEW p, Unlink(i, p), NEW q \in Pid, q # p,
         proc[q].fd # 0, proc[q].pc # "removed", iface(q) \notin unlinked'
  PROVE  file'[iface(q)] = proc[q].fd
<1>1. iface(q) \in Iface /\ iface(q) \notin unlinked
  BY DEF HostInv, HostTypes, Unlink
<1>2. file[iface(q)] = proc[q].fd
  BY <1>1, Zenon DEF HostInv, HasThePath
<1>3. CASE i = iface(q)
  <2>1. q \in Openers(file[i]) \ {p}
    BY <1>2, <1>3 DEF Openers
  <2>2. i \in unlinked'
    BY <1>2, <1>3, <2>1 DEF Unlink
  <2> QED BY <1>3, <2>2
<1>4. CASE i # iface(q)
  BY <1>1, <1>2, <1>4 DEF Unlink, HostInv, HostTypes
<1> QED BY <1>3, <1>4, Zenon

\* Drop removes the path and keeps the lock.
LEMMA DropInv ==
  ASSUME HostInv, NEW p \in Pid, DropPidfile(p)
  PROVE  HostInv'
<1>1. HostTypes'
  BY DEF HostInv, HostTypes, DropPidfile, Unlink, IsDaemon, iface, Places
<1>2. HasThePath'
  <2> SUFFICES ASSUME NEW q \in Pid, proc'[q].fd # 0, proc'[q].pc # "removed",
                      iface(q)' \notin unlinked'
               PROVE  file'[iface(q)'] = proc'[q].fd
    BY DEF HasThePath
  <2>1. q # p /\ proc'[q] = proc[q]
    BY DEF DropPidfile, HostInv, HostTypes
  <2>2. iface(q)' = iface(q)
    BY <2>1, Zenon DEF iface
  <2> QED BY <2>1, <2>2, UnlinkInv, Zenon DEF DropPidfile
<1>3. OneHolder'
  BY DEF HostInv, HostTypes, OneHolder, DropPidfile
<1> QED BY <1>1, <1>2, <1>3 DEF HostInv

\* So does a cleanup, which has nothing open.
LEMMA CleanupInv ==
  ASSUME HostInv, RemoveStale
  PROVE  HostInv'
<1>1. Unlink(Min(stale), 0) /\ proc' = proc
  BY DEF RemoveStale
<1>2. 0 \notin Pid
  BY DEF Pid
<1>3. HostTypes'
  BY <1>1, Zenon DEF HostInv, HostTypes, Unlink, IsDaemon, iface
<1>4. HasThePath'
  <2> SUFFICES ASSUME NEW q \in Pid, proc[q].fd # 0, proc[q].pc # "removed",
                      iface(q) \notin unlinked'
               PROVE  file'[iface(q)] = proc[q].fd
    BY <1>1, Zenon DEF HasThePath, iface
  <2> QED BY <1>1, <1>2, UnlinkInv
<1>5. OneHolder'
  BY <1>1 DEF HostInv, OneHolder
<1> QED BY <1>3, <1>4, <1>5, Zenon DEF HostInv

LEMMA HostNextInv == HostInv /\ [HostNext]_hostVars => HostInv'
<1> SUFFICES ASSUME HostInv, [HostNext]_hostVars PROVE HostInv'
  OBVIOUS
<1>1. ASSUME NEW p \in Pid, NEW s \in Starts, Exec(p, s) PROVE HostInv'
  <2>1. s.iface \in Iface
    BY InstancesAssumption
  <2> QED BY <1>1, <2>1 DEF Exec, HostInv, HostTypes, HasThePath, OneHolder, IsDaemon, iface, Places
<1>2. ASSUME NEW p \in Pid, WritePid(p) \/ DaemonStop(p) PROVE HostInv'
  BY <1>2, SMTT(20) DEF WritePid, DaemonStop, HostInv, HostTypes, HasThePath, OneHolder, IsDaemon, iface, Places
<1>3. ASSUME NEW p \in Pid, OtherStarts(p) PROVE HostInv'
  BY <1>3 DEF OtherStarts, HostInv, HostTypes, HasThePath, OneHolder, IsDaemon, iface, Places
<1>4. ASSUME NEW p \in Pid, LockFails(p) \/ Exit(p) \/ DaemonCrash(p) \/ OtherEnds(p) PROVE HostInv'
  BY <1>4, EndsInv, Zenon DEF LockFails, Exit, DaemonCrash, OtherEnds
<1>5. ASSUME UNCHANGED <<proc, file, unlinked>> PROVE HostInv'
  BY <1>5, Zenon DEF HostInv, HostTypes, HasThePath, OneHolder, IsDaemon, iface
<1>6. CASE Ctl
  <2>1. CASE RemoveStale
    BY <2>1, CleanupInv
  <2> QED BY <1>5, <1>6, <2>1, Zenon
       DEF Ctl, ReadPidfiles, ScanProc, resolve, Send, CleanupDone
<1>7. CASE UNCHANGED hostVars
  BY <1>5, <1>7 DEF hostVars
<1> QED BY <1>1, <1>2, <1>3, <1>4, <1>6, <1>7, OpenInv, LockInv, DropInv, Zenon DEF HostNext, Daemon

LEMMA InductiveInstances == HostSpec => []HostInv
BY HostInitInv, HostNextInv, PTL DEF HostSpec

\* PidFile::create keeps a second daemon off an interface, whatever execs, crashes,
\* truncations and cleanups come between, until its pid file is unlinked while a
\* process other than the remover has it open.
THEOREM PidfileExcludes == HostSpec => []OneDaemonUntilUnlinked
<1>1. HostInv => OneDaemonUntilUnlinked
  <2> SUFFICES ASSUME HostInv, NEW p \in Pid, NEW q \in Pid, Locked(p), Locked(q),
                      iface(p) = iface(q), iface(p) \notin unlinked
               PROVE  p = q
    BY DEF OneDaemonUntilUnlinked
  <2>1. proc[p].fd # 0 /\ proc[p].fd = proc[q].fd
    BY Zenon DEF HostInv, HasThePath, Locked
  <2> QED BY <2>1, Zenon DEF HostInv, OneHolder, Locked
<1> QED BY <1>1, InductiveInstances, PTL
-----------------------------------------------------------------------------
(* What pesigitg-ctl makes of the daemons                                   *)

Seen == [Iface -> [pid: Pid \cup {0}, pidfile: BOOLEAN, cmdline: BOOLEAN]]

Command ==
  [pc: {"idle", "proc", "resolve", "send", "cleanup"}, cmd: {"none", "signal", "cleanup"},
   target: Target, seen: Seen, resolved: SUBSET [iface: Iface, pid: Pid \cup {0}],
   since: SUBSET Pid]

CtlTypes ==
  /\ ctl \in Command
  /\ data \in [Inode -> Pid \cup {0}]
  /\ \A p \in ctl.since : proc[p].is # "none"

\* An inode is the pid file of one interface, that of whoever has it open.
PathsApart ==
  /\ \A i, j \in Iface : file[i] # 0 /\ file[i] = file[j] => i = j
  /\ \A p \in Pid, j \in Iface : proc[p].fd # 0 /\ proc[p].fd = file[j] => iface(p) = j

\* Process p wrote the pid file with inode x, and still has it open and locked.
Owns(p, x) ==
  p \in Pid /\ IsDaemon(p) /\ proc[p].fd = x /\ proc[p].pc \in {"written", "stopping"}

\* A pid in the file of an interface without crashes is that of a daemon that owns it.
PidfileNamesOwner ==
  \A i \in Iface \ crashed : file[i] # 0 /\ data[file[i]] # 0 => Owns(data[file[i]], file[i])

\* What pesigitg-ctl holds of an interface without crashes is one of its daemons, for as
\* long as the process found lives.
HitIsRight(i, p) == i \notin crashed /\ p \in ctl.since => IsDaemon(p) /\ iface(p) = i

HitsAreRight ==
  /\ \A i \in Iface : HitIsRight(i, ctl.seen[i].pid)
  /\ \A r \in ctl.resolved : HitIsRight(r.iface, r.pid)

\* A cleanup has seen the command line of every named daemon it found.
NamedAreSeen ==
  ctl.pc = "cleanup" =>
    \A p \in ctl.since : IsDaemon(p) /\ proc[p].start.named => ctl.seen[iface(p)].cmdline

CtlInv == CtlTypes /\ PathsApart /\ PidfileNamesOwner /\ HitsAreRight /\ NamedAreSeen

LEMMA IdleIsACommand == Idle \in Command /\ Idle.since = {} /\ Idle.pc = "idle"
                        /\ Idle.seen = [i \in Iface |-> Unseen] /\ Idle.resolved = {}
BY DEF Idle, Command, Target, AutoTarget, Seen, Unseen

\* An idle command holds nothing.
LEMMA IdleHolds ==
  ASSUME ctl = Idle
  PROVE  HitsAreRight /\ NamedAreSeen /\ \A p \in ctl.since : proc[p].is # "none"
BY IdleIsACommand DEF HitsAreRight, HitIsRight, NamedAreSeen

LEMMA CtlInitInv == HostInit => CtlInv
<1> SUFFICES ASSUME HostInit PROVE CtlInv
  OBVIOUS
<1>1. CtlTypes
  BY IdleIsACommand DEF HostInit, CtlTypes
<1>2. PathsApart /\ PidfileNamesOwner
  BY DEF HostInit, PathsApart, PidfileNamesOwner, NoProc
<1> QED BY <1>1, <1>2, IdleHolds, Zenon DEF HostInit, CtlInv

\* What a daemon's step leaves of the command's half: the processes there stay what they
\* are, and the command stays as it is.
LEMMA CommandStays ==
  ASSUME CtlInv, ctl' = ctl, data' \in [Inode -> Pid \cup {0}], crashed \subseteq crashed',
         \A q \in ctl.since : proc'[q].is = proc[q].is /\ proc'[q].start = proc[q].start
  PROVE  CtlTypes' /\ HitsAreRight' /\ NamedAreSeen'
<1>1. \A q \in ctl.since : IsDaemon(q)' = IsDaemon(q) /\ iface(q)' = iface(q)
  BY Zenon DEF IsDaemon, iface
<1>2. CtlTypes'
  BY Zenon DEF CtlInv, CtlTypes
<1>3. HitsAreRight'
  BY <1>1, Zenon DEF CtlInv, HitsAreRight, HitIsRight
<1>4. NamedAreSeen'
  BY <1>1, Zenon DEF CtlInv, NamedAreSeen
<1> QED BY <1>2, <1>3, <1>4, Zenon

\* A process that ends is no longer one the command found.
LEMMA CommandOutlives ==
  ASSUME HostInv, CtlInv, NEW p \in Pid, ProcessEnds(p), crashed \subseteq crashed', data' = data
  PROVE  CtlTypes' /\ HitsAreRight' /\ NamedAreSeen'
<1> DEFINE since == ctl.since \ {p}
<1>1. /\ ctl' \in Command /\ ctl'.pc = ctl.pc /\ ctl'.seen = ctl.seen
      /\ ctl'.resolved = ctl.resolved /\ ctl'.since = since
  BY DEF CtlInv, CtlTypes, Command, ProcessEnds
<1>2. \A q \in since : q \in Pid /\ proc'[q] = proc[q]
  BY DEF CtlInv, CtlTypes, Command, HostInv, HostTypes, ProcessEnds
<1> HIDE DEF since
<1>3. since \subseteq ctl.since
  BY DEF since
<1>4. \A q \in since : IsDaemon(q)' = IsDaemon(q) /\ iface(q)' = iface(q)
  BY <1>2, Zenon DEF IsDaemon, iface
<1>5. CtlTypes'
  BY <1>1, <1>2, <1>3, Zenon DEF CtlInv, CtlTypes
<1>6. HitsAreRight'
  BY <1>1, <1>3, <1>4, Zenon DEF CtlInv, HitsAreRight, HitIsRight
<1>7. NamedAreSeen'
  BY <1>1, <1>2, <1>3, <1>4, Zenon DEF CtlInv, NamedAreSeen
<1> QED BY <1>5, <1>6, <1>7, Zenon

\* Files and descriptors after a process ends: only its own descriptor goes.
LEMMA FilesOutlive ==
  ASSUME HostInv, CtlInv, NEW p \in Pid, ProcessEnds(p), UNCHANGED <<file, data>>,
         crashed \subseteq crashed',
         proc[p].fd # 0 /\ proc[p].pc \in {"written", "stopping"} => iface(p) \in crashed'
  PROVE  PathsApart' /\ PidfileNamesOwner'
<1>1. proc'[p].fd = 0 /\ \A q \in Pid : q # p => proc'[q] = proc[q]
  BY DEF ProcessEnds, NoProc, HostInv, HostTypes
<1>2. PathsApart'
  BY <1>1 DEF CtlInv, PathsApart, iface
<1>3. PidfileNamesOwner'
  <2> SUFFICES ASSUME NEW i \in Iface, i \notin crashed', file[i] # 0, data[file[i]] # 0
               PROVE  Owns(data[file[i]], file[i])'
    BY DEF PidfileNamesOwner
  <2>1. Owns(data[file[i]], file[i])
    BY Zenon DEF CtlInv, PidfileNamesOwner
  <2>2. data[file[i]] # p
    BY <2>1, Zenon DEF CtlInv, PathsApart, Owns
  <2> QED BY <1>1, <2>1, <2>2, Zenon DEF Owns, IsDaemon
<1> QED BY <1>2, <1>3

\* A start truncates the file, or makes one with an inode nobody has.
LEMMA OpenFiles ==
  ASSUME HostInv, CtlInv, NEW p \in Pid, OpenTruncate(p)
  PROVE  PathsApart' /\ PidfileNamesOwner' /\ data' \in [Inode -> Pid \cup {0}]
<1> DEFINE i == iface(p)
           free == Inode \ (Range(file) \cup {proc[q].fd : q \in Pid})
           x == IF file[i] # 0 THEN file[i] ELSE CHOOSE y \in free : TRUE
<1>1. i \in Iface /\ proc[p].pc = "boot"
  BY Zenon DEF HostInv, HostTypes, OpenTruncate
<1>2. /\ x \in Inode /\ x # 0
      /\ \A j \in Iface : file[j] = x => j = i
      /\ \A q \in Pid : proc[q].fd = x => iface(q) = i
  <2>1. CASE file[i] # 0
    BY <1>1, <2>1, Zenon DEF HostInv, HostTypes, CtlInv, PathsApart
  <2>2. CASE file[i] = 0
    <3>1. x \in free
      BY <2>2, Zenon DEF OpenTruncate
    <3> HIDE DEF x
    <3>2. x \in Inode /\ x # 0 /\ x \notin Range(file) /\ \A q \in Pid : proc[q].fd # x
      BY <3>1, InstancesAssumption, Zenon
    <3>3. \A j \in Iface : file[j] # x
      BY <3>2 DEF Range, HostInv, HostTypes
    <3> QED BY <3>2, <3>3, Zenon
  <2> QED BY <2>1, <2>2, Zenon
<1>3. /\ file' = [file EXCEPT ![i] = x]
      /\ data' = [data EXCEPT ![x] = 0]
      /\ proc' = [proc EXCEPT ![p].pc = "opened", ![p].fd = x]
      /\ crashed' = crashed
  BY Zenon DEF OpenTruncate
<1> HIDE DEF i, x
<1>4. i = iface(p)
  BY DEF i
<1>5. /\ file'[i] = x /\ \A j \in Iface : j # i => file'[j] = file[j]
      /\ data'[x] = 0 /\ \A y \in Inode : y # x => data'[y] = data[y]
      /\ proc'[p].fd = x /\ proc'[p].start = proc[p].start
      /\ \A q \in Pid : q # p => proc'[q] = proc[q]
  BY <1>1, <1>2, <1>3, Zenon DEF HostInv, HostTypes, CtlInv, CtlTypes
<1>6. PathsApart'
  BY <1>2, <1>4, <1>5 DEF CtlInv, PathsApart, iface
<1>7. PidfileNamesOwner'
  <2> SUFFICES ASSUME NEW j \in Iface, j \notin crashed, file'[j] # 0, data'[file'[j]] # 0
               PROVE  Owns(data[file[j]], file[j])'
    BY <1>3, Zenon DEF PidfileNamesOwner
  <2>1. j # i /\ file'[j] = file[j] /\ file[j] # x /\ file[j] \in Inode
    BY <1>2, <1>5 DEF HostInv, HostTypes
  <2>2. data'[file[j]] = data[file[j]]
    BY <1>5, <2>1, Zenon
  <2>3. Owns(data[file[j]], file[j])
    BY <2>1, <2>2, Zenon DEF CtlInv, PidfileNamesOwner
  <2>4. data[file[j]] # p
    BY <1>1, <2>3, Zenon DEF Owns
  <2> QED BY <1>5, <2>1, <2>2, <2>3, <2>4 DEF Owns, IsDaemon
<1>8. data' \in [Inode -> Pid \cup {0}]
  BY <1>3, Zenon DEF CtlInv, CtlTypes
<1> QED BY <1>6, <1>7, <1>8

\* Only the holder writes its pid.
LEMMA WriteFiles ==
  ASSUME HostInv, CtlInv, NEW p \in Pid, WritePid(p)
  PROVE  PathsApart' /\ PidfileNamesOwner' /\ data' \in [Inode -> Pid \cup {0}]
<1> DEFINE x == proc[p].fd
<1>1. /\ data' = [data EXCEPT ![x] = p]
      /\ proc' = [proc EXCEPT ![p].pc = "written"]
      /\ UNCHANGED <<file, crashed>>
      /\ IsDaemon(p) /\ proc[p].pc = "locked"
  BY Zenon DEF WritePid, HostInv, HostTypes
<1>2. /\ proc'[p].pc = "written" /\ proc'[p].fd = x /\ IsDaemon(p)'
      /\ proc'[p].start = proc[p].start
      /\ \A q \in Pid : q # p => proc'[q] = proc[q]
      /\ x \in Inode => data'[x] = p
      /\ \A y \in Inode : y # x => data'[y] = data[y]
  BY <1>1, Zenon DEF HostInv, HostTypes, CtlInv, CtlTypes, IsDaemon
<1>3. PathsApart'
  BY <1>1, <1>2 DEF CtlInv, PathsApart, iface
<1>4. PidfileNamesOwner'
  <2> SUFFICES ASSUME NEW i \in Iface, i \notin crashed, file[i] # 0, data'[file[i]] # 0
               PROVE  Owns(data[file[i]], file[i])'
    BY <1>1, Zenon DEF PidfileNamesOwner
  <2>1. file[i] \in Inode
    BY DEF HostInv, HostTypes
  <2>2. CASE file[i] = x
    BY <1>1, <1>2, <2>1, <2>2, Zenon DEF Owns
  <2>3. CASE file[i] # x
    <3>1. Owns(data[file[i]], file[i]) /\ data'[file[i]] = data[file[i]]
      BY <1>2, <2>1, <2>3, Zenon DEF CtlInv, PidfileNamesOwner
    <3>2. data[file[i]] # p
      BY <2>3, <3>1, Zenon DEF Owns
    <3>3. data[file[i]] \in Pid
      BY <3>1, Zenon DEF Owns
    <3>4. proc'[data[file[i]]] = proc[data[file[i]]]
      BY <1>2, <3>2, <3>3, Zenon
    <3> QED BY <1>1, <3>1, <3>4, Zenon DEF Owns, IsDaemon
  <2> QED BY <2>2, <2>3, Zenon
<1>5. data' \in [Inode -> Pid \cup {0}]
  BY <1>1, Zenon DEF CtlInv, CtlTypes
<1> QED BY <1>3, <1>4, <1>5

\* A path that goes takes what it said with it.
LEMMA UnlinkFiles ==
  ASSUME HostInv, CtlInv, NEW i \in Iface, NEW p, Unlink(i, p), UNCHANGED <<data, crashed>>,
         \A q \in Pid : proc'[q].is = proc[q].is /\ proc'[q].start = proc[q].start
                        /\ proc'[q].fd = proc[q].fd,
         \A q \in Pid : proc'[q].pc = proc[q].pc \/ iface(q) = i
  PROVE  PathsApart' /\ PidfileNamesOwner'
<1>1. file'[i] = 0 /\ \A j \in Iface : j # i => file'[j] = file[j]
  BY Zenon DEF Unlink, HostInv, HostTypes
<1>2. PathsApart'
  BY <1>1 DEF CtlInv, PathsApart, iface
<1>3. PidfileNamesOwner'
  <2> SUFFICES ASSUME NEW j \in Iface, j \notin crashed, file'[j] # 0, data[file'[j]] # 0
               PROVE  Owns(data[file[j]], file[j])'
    BY Zenon DEF PidfileNamesOwner
  <2>1. j # i /\ file'[j] = file[j]
    BY <1>1, Zenon
  <2>2. Owns(data[file[j]], file[j])
    BY <2>1, Zenon DEF CtlInv, PidfileNamesOwner
  <2>3. iface(data[file[j]]) = j
    BY <2>1, <2>2, Zenon DEF CtlInv, PathsApart, Owns
  <2> QED BY <2>1, <2>2, <2>3, Zenon DEF Owns, IsDaemon
<1> QED BY <1>2, <1>3, Zenon
\* discover_instances takes the pid files at their word.
LEMMA ReadInv ==
  ASSUME HostInv, CtlInv, NEW cmd \in {"signal", "cleanup"}, NEW target \in Target,
         ReadPidfiles(cmd, target)
  PROVE  CtlInv'
<1> DEFINE read == [i \in Iface |-> IF file[i] = 0 THEN Unseen
                                   ELSE [Unseen EXCEPT !.pidfile = TRUE, !.pid = data[file[i]]]]
<1>1. read \in Seen /\ \A i \in Iface : read[i].pid = IF file[i] = 0 THEN 0 ELSE data[file[i]]
  BY Zenon DEF Seen, Unseen, HostInv, HostTypes, CtlInv, CtlTypes
<1>2. UNCHANGED <<proc, file, data, crashed>>
  BY DEF ReadPidfiles
<1>3. ctl' = [Idle EXCEPT !.pc = "proc", !.cmd = cmd, !.target = target, !.seen = read,
                          !.since = {p \in Pid : proc[p].is # "none"}]
  BY DEF ReadPidfiles
<1> HIDE DEF read
<1>4. /\ ctl' \in Command /\ ctl'.pc = "proc" /\ ctl'.seen = read /\ ctl'.resolved = {}
      /\ ctl'.since = {p \in Pid : proc[p].is # "none"}
  BY <1>1, <1>3, IdleIsACommand, Zenon DEF Command
<1>5. CtlTypes'
  BY <1>2, <1>4, Zenon DEF CtlInv, CtlTypes
<1>6. PathsApart' /\ PidfileNamesOwner'
  BY <1>2, Zenon DEF CtlInv, PathsApart, PidfileNamesOwner, Owns, IsDaemon, iface
<1>7. HitsAreRight'
  <2> SUFFICES ASSUME NEW i \in Iface, i \notin crashed, read[i].pid \in Pid
               PROVE  IsDaemon(read[i].pid) /\ iface(read[i].pid) = i
    BY <1>2, <1>4, Zenon DEF HitsAreRight, HitIsRight, IsDaemon, iface
  <2>1. file[i] # 0 /\ read[i].pid = data[file[i]] /\ data[file[i]] # 0
    BY <1>1 DEF Pid
  <2>2. Owns(read[i].pid, file[i])
    BY <2>1, Zenon DEF CtlInv, PidfileNamesOwner
  <2> QED BY <2>1, <2>2, Zenon DEF Owns, CtlInv, PathsApart
<1>8. NamedAreSeen'
  BY <1>4 DEF NamedAreSeen
<1> QED BY <1>5, <1>6, <1>7, <1>8 DEF CtlInv

-----------------------------------------------------------------------------
(* The scan of /proc is a recursive function over the pids; the induction   *)
(* is stated over sets, a form the provers can instantiate, and shows that  *)
(* the function exists and what its values are.                             *)

INSTANCE WellFoundedInduction

\* Induction over the naturals for a set, from the well-foundedness of <.
LEMMA NatSetInduction ==
  ASSUME NEW S, 0 \in S, \A n \in Nat : n \in S => n + 1 \in S
  PROVE  Nat \subseteq S
<1> DEFINE R == OpToRel(<, Nat)
           T == Nat \ S
<1>1. IsWellFoundedOn(R, Nat)
  BY NatLessThanWellFounded, Zenon
<1>2. SUFFICES ASSUME T # {} PROVE FALSE
  OBVIOUS
<1> HIDE DEF R
<1>3. PICK m \in T : \A k \in T : ~(<<k, m>> \in R)
  BY <1>1, <1>2, WFMin, Zenon
<1>4. m \in Nat /\ m # 0 /\ m - 1 \in Nat /\ (m - 1) + 1 = m
  BY <1>3
<1>5. m - 1 \notin S
  BY <1>3, <1>4, Zenon
<1>6. <<m - 1, m>> \in R
  BY <1>4 DEF R, OpToRel
<1> QED BY <1>3, <1>4, <1>5, <1>6, Zenon

\* The first interface of a set is one of the set.
LEMMA MinIsMember ==
  ASSUME NEW S, S \subseteq Iface, S # {}
  PROVE  Min(S) \in S
<1>1. S \subseteq Nat
  BY InstancesAssumption, Zenon
<1>2. \E i \in S : \A j \in S : ~(<<j, i>> \in OpToRel(<, Nat))
  BY <1>1, NatLessThanWellFounded, WFMin, Zenon
<1>3. \A i, j \in Nat : ~(<<j, i>> \in OpToRel(<, Nat)) => i <= j
  BY DEF OpToRel
<1>4. \E i \in S : \A j \in S : i <= j
  BY <1>1, <1>2, <1>3, Zenon
<1> QED BY <1>4, Zenon DEF Min

\* AttachAll's recursion, to a length of N.
AttachNext(s, p) == IF IsDaemon(p) THEN AttachHit(s, p) ELSE s
AttachRec(g, seen, N) == [p \in 0..N |-> IF p = 0 THEN seen ELSE AttachNext(g[p - 1], p)]

LEMMA AttachRecursion ==
  ASSUME NEW seen, NEW N \in Nat
  PROVE  \E g : g = AttachRec(g, seen, N)
<1> DEFINE S == {n \in Nat : \E g : g = AttachRec(g, seen, n)}
<1>1. 0 \in S
  <2> DEFINE g == [p \in 0..0 |-> seen]
  <2>1. g = AttachRec(g, seen, 0)
    BY DEF AttachRec
  <2> QED BY <2>1, Zenon
<1>2. ASSUME NEW n \in Nat, n \in S PROVE n + 1 \in S
  <2>1. PICK g : g = AttachRec(g, seen, n)
    BY <1>2
  <2> DEFINE h == [p \in 0..n + 1 |-> IF p = n + 1 THEN AttachNext(g[n], p) ELSE g[p]]
  <2>2. \A p \in 0..n : g[p] = IF p = 0 THEN seen ELSE AttachNext(g[p - 1], p)
    BY <2>1, Zenon DEF AttachRec
  <2>3. h[n + 1] = AttachNext(g[n], n + 1) /\ \A p \in 0..n : h[p] = g[p]
    OBVIOUS
  <2>4. h = [p \in 0..n + 1 |-> h[p]]
    OBVIOUS
  <2> HIDE DEF h
  <2>5. ASSUME NEW p \in 0..n + 1
        PROVE  h[p] = IF p = 0 THEN seen ELSE AttachNext(h[p - 1], p)
    <3>1. CASE p = n + 1
      <4>1. p # 0 /\ p - 1 = n /\ n \in 0..n
        BY <3>1
      <4> QED BY <2>3, <3>1, <4>1, Zenon
    <3>2. CASE p = 0
      BY <2>2, <2>3, <3>2
    <3>3. CASE p \in 1..n
      <4>1. p \in 0..n /\ p - 1 \in 0..n /\ p # 0
        BY <3>3
      <4> QED BY <2>2, <2>3, <4>1, Zenon
    <3> QED BY <3>1, <3>2, <3>3
  <2>6. h = AttachRec(h, seen, n + 1)
    BY <2>4, <2>5, Zenon DEF AttachRec
  <2> QED BY <2>6
<1> HIDE DEF S
<1>3. N \in S
  BY <1>1, <1>2, NatSetInduction, Zenon
<1> QED BY <1>3, Zenon DEF S

\* s is seen after the hits of the pids up to n: an interface has the pid it had, or
\* that of a daemon of its own, and every daemon named so far has its command line seen.
Scanned(s, seen, n) ==
  /\ s \in Seen
  /\ \A i \in Iface : \/ s[i].pid = seen[i].pid
                      \/ s[i].pid \in Pid /\ IsDaemon(s[i].pid) /\ iface(s[i].pid) = i
  /\ \A p \in 1..n : IsDaemon(p) /\ proc[p].start.named => s[iface(p)].cmdline

\* One hit.
LEMMA AttachKeeps ==
  ASSUME HostTypes, NEW seen \in Seen, NEW n \in Nat, n + 1 \in Pid, NEW s, Scanned(s, seen, n)
  PROVE  Scanned(AttachNext(s, n + 1), seen, n + 1)
<1> DEFINE p == n + 1
           same == {i \in Iface : s[i].pid = p}
<1>1. 1..p = (1..n) \cup {p}
  OBVIOUS
<1>2. s \in Seen
  BY Zenon DEF Scanned
<1>3. \A q \in 1..n : q \in Pid
  BY InstancesAssumption DEF Pid
<1>4. CASE ~IsDaemon(p)
  BY <1>1, <1>4, Zenon DEF Scanned, AttachNext
<1>5. CASE IsDaemon(p) /\ proc[p].start.named
  <2> DEFINE t == [s EXCEPT ![iface(p)].pid = p, ![iface(p)].cmdline = TRUE]
  <2>1. iface(p) \in Iface
    BY <1>5, Zenon DEF HostTypes
  <2>2. AttachNext(s, p) = t
    BY <1>5, Zenon DEF AttachNext, AttachHit
  <2>3. t \in Seen /\ t[iface(p)].pid = p /\ t[iface(p)].cmdline
        /\ \A i \in Iface : i # iface(p) => t[i] = s[i]
    BY <1>2, <2>1, Zenon DEF Seen
  <2> HIDE DEF t
  <2>4. \A q \in 1..n : IsDaemon(q) /\ proc[q].start.named => t[iface(q)].cmdline
    BY <1>3, <2>3, Zenon DEF Scanned, HostTypes
  <2> HIDE DEF p
  <2> QED BY <1>1, <1>5, <2>1, <2>2, <2>3, <2>4 DEF Scanned, p
<1>6. CASE IsDaemon(p) /\ ~proc[p].start.named /\ same = {}
  BY <1>1, <1>6, Zenon DEF Scanned, AttachNext, AttachHit
<1>7. CASE IsDaemon(p) /\ ~proc[p].start.named /\ same # {}
  <2> DEFINE k == Min(same)
             t == [s EXCEPT ![k].cmdline = TRUE]
  <2>1. k \in Iface
    BY <1>7, MinIsMember, Zenon
  <2>2. AttachNext(s, p) = t
    BY <1>7, Zenon DEF AttachNext, AttachHit
  <2> HIDE DEF k
  <2>3. t \in Seen /\ \A i \in Iface : t[i].pid = s[i].pid /\ (s[i].cmdline => t[i].cmdline)
    BY <1>2, <2>1, Zenon DEF Seen
  <2> HIDE DEF t
  <2>4. \A q \in 1..n : IsDaemon(q) /\ proc[q].start.named => t[iface(q)].cmdline
    BY <1>3, <2>3, Zenon DEF Scanned, HostTypes
  <2> QED BY <1>1, <1>7, <2>2, <2>3, <2>4, Zenon DEF Scanned
<1> QED BY <1>4, <1>5, <1>6, <1>7, Zenon

\* The whole scan.
LEMMA AttachAllScans ==
  ASSUME HostTypes, NEW seen \in Seen
  PROVE  Scanned(AttachAll(seen), seen, PID_MAX)
<1> DEFINE g == CHOOSE g : g = [p \in 0..PID_MAX |->
                  IF p = 0 THEN seen
                  ELSE IF IsDaemon(p) THEN AttachHit(g[p - 1], p) ELSE g[p - 1]]
           S == {n \in Nat : n <= PID_MAX => Scanned(g[n], seen, n)}
<1>1. PID_MAX \in Nat
  BY InstancesAssumption, Zenon
<1>2. AttachAll(seen) = g[PID_MAX]
  BY DEF AttachAll
<1>3. g = AttachRec(g, seen, PID_MAX)
  <2>1. \E f : f = AttachRec(f, seen, PID_MAX)
    BY <1>1, AttachRecursion
  <2> QED BY <2>1, Zenon DEF AttachRec, AttachNext
<1> HIDE DEF g
<1>4. \A p \in 0..PID_MAX : g[p] = IF p = 0 THEN seen ELSE AttachNext(g[p - 1], p)
  BY <1>3, Zenon DEF AttachRec
<1>5. 0 \in S
  <2>1. g[0] = seen
    BY <1>1, <1>4
  <2> QED BY <2>1 DEF Scanned
<1>6. ASSUME NEW n \in Nat, n \in S PROVE n + 1 \in S
  <2> SUFFICES ASSUME n + 1 <= PID_MAX PROVE Scanned(g[n + 1], seen, n + 1)
    OBVIOUS
  <2>1. Scanned(g[n], seen, n) /\ n + 1 \in Pid
    BY <1>1, <1>6 DEF Pid
  <2>2. g[n + 1] = AttachNext(g[n], n + 1)
    BY <1>1, <1>4
  <2> QED BY <2>1, <2>2, AttachKeeps, Zenon
<1> HIDE DEF S
<1>7. PID_MAX \in S
  BY <1>1, <1>5, <1>6, NatSetInduction, Zenon
<1> QED BY <1>1, <1>2, <1>7 DEF S

\* The scan of /proc.
LEMMA ScanInv ==
  ASSUME HostInv, CtlInv, ScanProc
  PROVE  CtlInv'
<1> DEFINE s == AttachAll(ctl.seen)
<1>1. ctl.seen \in Seen /\ ctl.since \subseteq Pid
  BY DEF CtlInv, CtlTypes, Command
<1>2. Scanned(s, ctl.seen, PID_MAX)
  BY <1>1, AttachAllScans, Zenon DEF HostInv
<1>3. UNCHANGED <<proc, file, data, crashed>>
  BY DEF ScanProc
<1>4. ctl' = [ctl EXCEPT !.seen = s, !.pc = IF ctl.cmd = "cleanup" THEN "cleanup" ELSE "resolve"]
  BY Zenon DEF ScanProc
<1> HIDE DEF s
<1>5. ctl' \in Command /\ ctl'.seen = s /\ ctl'.resolved = ctl.resolved /\ ctl'.since = ctl.since
  BY <1>2, <1>4, Zenon DEF Scanned, CtlInv, CtlTypes, Command
<1>6. CtlTypes'
  BY <1>3, <1>5, Zenon DEF CtlInv, CtlTypes
<1>7. PathsApart' /\ PidfileNamesOwner'
  BY <1>3, Zenon DEF CtlInv, PathsApart, PidfileNamesOwner, Owns, IsDaemon, iface
<1>8. HitsAreRight'
  <2>1. ASSUME NEW i \in Iface PROVE HitIsRight(i, s[i].pid)
    BY <1>2, Zenon DEF Scanned, CtlInv, HitsAreRight, HitIsRight
  <2> QED BY <1>3, <1>5, <2>1, Zenon DEF CtlInv, HitsAreRight, HitIsRight, IsDaemon, iface
<1>9. NamedAreSeen'
  BY <1>1, <1>2, <1>3, <1>5, Zenon DEF NamedAreSeen, Scanned, IsDaemon, iface, Pid
<1> QED BY <1>6, <1>7, <1>8, <1>9, Zenon DEF CtlInv

\* resolve picks among the interfaces it has seen.
LEMMA ChosenAreInterfaces ==
  ASSUME CtlInv
  PROVE  Chosen \subseteq Iface
<1>1. ctl.target.by \in {"auto", "iface", "pid"}
  BY Zenon DEF CtlInv, CtlTypes, Command, Target
<1> DEFINE same == {i \in Iface : ctl.seen[i].pid = ctl.target.pid}
<1>2. same # {} => Min(same) \in Iface
  BY MinIsMember, Zenon
<1>3. identified \subseteq Iface
  BY Zenon DEF identified
<1> QED BY <1>1, <1>2, <1>3, Zenon DEF Chosen

LEMMA ResolveInv ==
  ASSUME HostInv, CtlInv, resolve
  PROVE  CtlInv'
<1>1. UNCHANGED <<proc, file, data, crashed>>
  BY DEF resolve
<1>2. PathsApart' /\ PidfileNamesOwner'
  BY <1>1, Zenon DEF CtlInv, PathsApart, PidfileNamesOwner, Owns, IsDaemon, iface
<1>3. CASE ctl' = Idle
  BY <1>1, <1>2, <1>3, IdleHolds, IdleIsACommand, Zenon
     DEF CtlInv, CtlTypes, HitsAreRight, HitIsRight, NamedAreSeen
<1>4. CASE ctl' # Idle
  <2> DEFINE found == {[iface |-> i, pid |-> ctl.seen[i].pid] : i \in Chosen}
  <2>1. ctl' = [Idle EXCEPT !.pc = "send", !.since = ctl.since, !.resolved = found]
    BY <1>4 DEF resolve
  <2>2. \A r \in found : r.iface \in Iface /\ r.pid = ctl.seen[r.iface].pid
    BY ChosenAreInterfaces
  <2>3. found \in SUBSET [iface: Iface, pid: Pid \cup {0}]
    BY ChosenAreInterfaces DEF CtlInv, CtlTypes, Command, Seen
  <2> HIDE DEF found
  <2>4. /\ ctl' \in Command /\ ctl'.since = ctl.since /\ ctl'.resolved = found /\ ctl'.pc = "send"
        /\ ctl'.seen = [i \in Iface |-> Unseen]
    BY <2>1, <2>3, IdleIsACommand, Zenon DEF CtlInv, CtlTypes, Command
  <2>5. CtlTypes'
    BY <1>1, <2>4, Zenon DEF CtlInv, CtlTypes
  <2>6. \A r \in found : HitIsRight(r.iface, r.pid)
    BY <2>2, Zenon DEF CtlInv, HitsAreRight
  <2>7. 0 \notin ctl.since
    BY DEF CtlInv, CtlTypes, Command, Pid
  <2>8. HitsAreRight'
    BY <1>1, <2>4, <2>6, <2>7 DEF HitsAreRight, HitIsRight, IsDaemon, iface, Unseen
  <2> QED BY <1>2, <2>4, <2>5, <2>8, Zenon DEF CtlInv, NamedAreSeen
<1> QED BY <1>3, <1>4, Zenon

\* cmd_cleanup, one path.
LEMMA RemoveInv ==
  ASSUME HostInv, CtlInv, RemoveStale
  PROVE  CtlInv'
<1> DEFINE k == Min(stale)
<1>1. k \in Iface
  BY MinIsMember, Zenon DEF RemoveStale, stale
<1>2. Unlink(k, 0) /\ UNCHANGED <<proc, data, crashed>>
      /\ ctl' = [ctl EXCEPT !.seen[k].pidfile = FALSE]
  BY Zenon DEF RemoveStale
<1> HIDE DEF k
<1>3. PathsApart' /\ PidfileNamesOwner'
  BY <1>1, <1>2, UnlinkFiles, Zenon
<1>4. /\ ctl' \in Command /\ ctl'.pc = ctl.pc /\ ctl'.since = ctl.since
      /\ ctl'.resolved = ctl.resolved
      /\ \A i \in Iface : ctl'.seen[i].pid = ctl.seen[i].pid
                          /\ ctl'.seen[i].cmdline = ctl.seen[i].cmdline
  <2> DEFINE seen == [ctl.seen EXCEPT ![k].pidfile = FALSE]
  <2>1. ctl \in Command
    BY Zenon DEF CtlInv, CtlTypes
  <2>2. ctl.seen \in Seen
    BY <2>1, Zenon DEF Command
  <2>3. /\ seen \in Seen
        /\ \A i \in Iface : seen[i].pid = ctl.seen[i].pid /\ seen[i].cmdline = ctl.seen[i].cmdline
    BY <1>1, <2>2, Zenon DEF Seen
  <2>4. ctl' = [ctl EXCEPT !.seen = seen]
    BY <1>2, Zenon
  <2> HIDE DEF seen
  <2>5. ctl'.seen = seen /\ ctl' \in Command
    BY <2>1, <2>3, <2>4, Zenon DEF Command
  <2> QED BY <2>1, <2>3, <2>4, <2>5, Zenon DEF Command
<1>5. CtlTypes'
  BY <1>2, <1>4, Zenon DEF CtlInv, CtlTypes
<1>6. HitsAreRight'
  BY <1>2, <1>4, Zenon DEF CtlInv, HitsAreRight, HitIsRight, IsDaemon, iface
<1>7. NamedAreSeen'
  <2>1. \A q \in ctl.since : IsDaemon(q)' = IsDaemon(q) /\ iface(q)' = iface(q)
    BY <1>2, Zenon DEF IsDaemon, iface
  <2>2. \A q \in ctl.since : IsDaemon(q) => iface(q) \in Iface
    BY Zenon DEF CtlInv, CtlTypes, Command, IsDaemon, iface, HostInv, HostTypes
  <2>3. proc' = proc
    BY <1>2, Zenon
  <2> QED BY <1>4, <2>1, <2>2, <2>3, Zenon DEF CtlInv, NamedAreSeen
<1> QED BY <1>3, <1>5, <1>6, <1>7, Zenon DEF CtlInv

LEMMA CtlNextInv == HostInv /\ CtlInv /\ [HostNext]_hostVars => CtlInv'
<1> SUFFICES ASSUME HostInv, CtlInv, [HostNext]_hostVars PROVE CtlInv'
  OBVIOUS
<1>1. data \in [Inode -> Pid \cup {0}] /\ ctl.since \subseteq Pid
      /\ \A p \in ctl.since : proc[p].is # "none"
  BY Zenon DEF CtlInv, CtlTypes, Command
<1>2. ASSUME NEW p \in Pid,
             (\E s \in Starts : Exec(p, s)) \/ OtherStarts(p) \/ Lock(p) \/ DaemonStop(p)
      PROVE  CtlInv'
  <2>1. /\ UNCHANGED <<file, data, ctl, crashed>>
        /\ \A q \in Pid : q # p => proc'[q] = proc[q]
        /\ proc[p].is = "none" \/ (proc'[p].is = proc[p].is /\ proc'[p].start = proc[p].start)
        /\ proc'[p].fd = 0 \/ (proc'[p].fd = proc[p].fd /\ proc'[p].start = proc[p].start)
        /\ proc[p].pc \in {"written", "stopping"} => proc'[p].pc \in {"written", "stopping"}
                                                    /\ proc'[p].fd = proc[p].fd
    BY <1>2 DEF Exec, OtherStarts, Lock, DaemonStop, HostInv, HostTypes, IsDaemon
  <2>2. PathsApart'
    BY <2>1, SMTT(20) DEF CtlInv, PathsApart, iface
  <2>3. PidfileNamesOwner'
    <3>1. \A q \in Pid : IsDaemon(q) =>
            /\ proc'[q].is = proc[q].is
            /\ proc[q].pc \in {"written", "stopping"} =>
                 proc'[q].pc \in {"written", "stopping"} /\ proc'[q].fd = proc[q].fd
      BY <2>1, Zenon DEF IsDaemon
    <3> QED BY <2>1, <3>1 DEF CtlInv, PidfileNamesOwner, Owns, IsDaemon
  <2>4. CtlTypes' /\ HitsAreRight' /\ NamedAreSeen'
    BY <1>1, <2>1, CommandStays, Zenon
  <2> QED BY <2>2, <2>3, <2>4 DEF CtlInv
<1>3. ASSUME NEW p \in Pid, OpenTruncate(p) \/ WritePid(p) PROVE CtlInv'
  <2>1. PathsApart' /\ PidfileNamesOwner' /\ data' \in [Inode -> Pid \cup {0}]
    BY <1>3, OpenFiles, WriteFiles, Zenon
  <2>2. UNCHANGED <<ctl, crashed>>
        /\ \A q \in Pid : proc'[q].is = proc[q].is /\ proc'[q].start = proc[q].start
    BY <1>3 DEF OpenTruncate, WritePid, HostInv, HostTypes
  <2>3. CtlTypes' /\ HitsAreRight' /\ NamedAreSeen'
    BY <1>1, <2>1, <2>2, CommandStays, Zenon
  <2> QED BY <2>1, <2>3, Zenon DEF CtlInv
<1>4. ASSUME NEW p \in Pid, DropPidfile(p) PROVE CtlInv'
  <2>1. /\ Unlink(iface(p), p) /\ iface(p) \in Iface /\ UNCHANGED <<data, ctl, crashed>>
        /\ \A q \in Pid : proc'[q].is = proc[q].is /\ proc'[q].start = proc[q].start
                          /\ proc'[q].fd = proc[q].fd
        /\ \A q \in Pid : proc'[q].pc = proc[q].pc \/ q = p
    BY <1>4, Zenon DEF DropPidfile, HostInv, HostTypes
  <2>2. PathsApart' /\ PidfileNamesOwner'
    BY <2>1, UnlinkFiles, Zenon
  <2>3. CtlTypes' /\ HitsAreRight' /\ NamedAreSeen'
    BY <1>1, <2>1, CommandStays, Zenon
  <2> QED BY <2>2, <2>3, Zenon DEF CtlInv
<1>5. ASSUME NEW p \in Pid, LockFails(p) \/ Exit(p) \/ DaemonCrash(p) \/ OtherEnds(p)
      PROVE  CtlInv'
  <2>1. /\ ProcessEnds(p) /\ UNCHANGED <<file, data>> /\ crashed \subseteq crashed'
        /\ proc[p].fd # 0 /\ proc[p].pc \in {"written", "stopping"} => iface(p) \in crashed'
    BY <1>5, Zenon DEF LockFails, Exit, DaemonCrash, OtherEnds, HostInv, HostTypes, IsDaemon
  <2> QED BY <2>1, FilesOutlive, CommandOutlives, Zenon DEF CtlInv
<1>6. ASSUME UNCHANGED <<proc, file, data, crashed>> PROVE PathsApart' /\ PidfileNamesOwner'
  BY <1>6, Zenon DEF CtlInv, PathsApart, PidfileNamesOwner, Owns, IsDaemon, iface
<1>7. CASE Ctl
  <2>1. AutoTarget \in Target
    BY Zenon DEF AutoTarget, Target
  <2>2. CASE Send \/ CleanupDone
    <3>1. UNCHANGED <<proc, file, data, crashed>> /\ ctl' = Idle
      BY <2>2, Zenon DEF Send, CleanupDone
    <3>2. CtlTypes'
      BY <1>1, <3>1, IdleIsACommand, Zenon DEF CtlTypes
    <3>3. ctl'.since = {} /\ ctl'.pc = "idle" /\ ctl'.resolved = {}
      BY <3>1, IdleIsACommand, Zenon
    <3>4. HitsAreRight' /\ NamedAreSeen'
      BY <3>3, Zenon DEF HitsAreRight, HitIsRight, NamedAreSeen
    <3> QED BY <1>6, <3>1, <3>2, <3>4, Zenon DEF CtlInv
  <2> QED BY <1>7, <2>1, <2>2, ReadInv, ScanInv, ResolveInv, RemoveInv DEF Ctl
<1>8. CASE UNCHANGED hostVars
  <2>1. CtlTypes' /\ HitsAreRight' /\ NamedAreSeen'
    BY <1>1, <1>8, CommandStays, Zenon DEF hostVars
  <2> QED BY <1>6, <1>8, <2>1, Zenon DEF hostVars, CtlInv
<1> HIDE DEF HostInv, CtlInv
<1> QED BY <1>2, <1>3, <1>4, <1>5, <1>7, <1>8, Zenon DEF HostNext, Daemon

LEMMA InductiveCtl == HostSpec => [](HostInv /\ CtlInv)
<1>1. HostInit => HostInv /\ CtlInv
  BY HostInitInv, CtlInitInv, Zenon
<1>2. HostInv /\ CtlInv /\ [HostNext]_hostVars => HostInv' /\ CtlInv'
  BY HostNextInv, CtlNextInv, Zenon
<1> QED BY <1>1, <1>2, PTL DEF HostSpec

\* For any interfaces, pids and starts: a signal goes to a daemon of the interface that
\* pesigitg-ctl prints with it, unless a daemon of that interface once left its pid file
\* behind or the pid passed on while the command ran.
THEOREM SignalsFindTheirDaemon == HostSpec => []SignalFindsItsDaemon
<1>1. CtlInv => SignalFindsItsDaemon
  BY Zenon DEF CtlInv, HitsAreRight, HitIsRight, SignalFindsItsDaemon
<1> QED BY <1>1, InductiveCtl, PTL

\* No step of a cleanup takes the pid file of a daemon that is named on its command line
\* and was running when the cleanup began.
THEOREM CleanupSparesNamed == HostSpec => NamedKeepsPidfile
<1> DEFINE Spared(p) ==
      IsDaemon(p) /\ proc[p].start.named /\ Locked(p) /\ file[iface(p)] = proc[p].fd
      /\ ctl.pc = "cleanup"
      => file'[iface(p)] = file[iface(p)] \/ ctl' = ctl
<1>1. HostInv /\ CtlInv /\ [HostNext]_hostVars => [\A p \in ctl.since : Spared(p)]_hostVars
  <2> SUFFICES ASSUME HostInv, CtlInv, [HostNext]_hostVars, NEW p \in ctl.since,
                      IsDaemon(p), proc[p].start.named, ctl.pc = "cleanup", ctl' # ctl
               PROVE  file'[iface(p)] = file[iface(p)]
    OBVIOUS
  <2>1. p \in Pid /\ iface(p) \in Iface /\ ctl.seen[iface(p)].cmdline
    BY Zenon DEF CtlInv, CtlTypes, Command, NamedAreSeen, HostInv, HostTypes
  <2>2. CASE RemoveStale
    <3> DEFINE k == Min(stale)
    <3>1. k \in stale
      BY <2>2, MinIsMember, Zenon DEF RemoveStale, stale
    <3>2. file' = [file EXCEPT ![k] = 0]
      BY <2>2, Zenon DEF RemoveStale, Unlink
    <3> HIDE DEF k
    <3>3. k # iface(p)
      BY <2>1, <3>1, Zenon DEF stale
    <3> QED BY <2>1, <3>2, <3>3, Zenon DEF HostInv, HostTypes
  <2>3. CASE file' = file
    BY <2>3, Zenon
  <2>4. RemoveStale \/ file' = file
    BY Zenon DEF HostNext, hostVars, Daemon, Exec, OpenTruncate, Lock, LockFails, WritePid, DaemonStop,
           DropPidfile, Exit, DaemonCrash, OtherStarts, OtherEnds, Ctl, ReadPidfiles, ScanProc,
           resolve, Send, CleanupDone
  <2> QED BY <2>2, <2>3, <2>4, Zenon
<1> QED BY <1>1, InductiveCtl, PTL DEF HostSpec, NamedKeepsPidfile
==============================================================================
