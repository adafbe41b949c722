------------------------------ MODULE Lifecycle ------------------------------
(***************************************************************************)
(* One interface's daemon across starts, shutdowns, handoffs and crashes   *)
(* (main.rs, ebpf.rs, fdstore.rs, threading.rs).  What outlives a process: *)
(* the pins in bpffs and the maps behind them, the XDP program a pinned    *)
(* link keeps attached, the descriptors in systemd's FD store, and sockets *)
(* the kernel has not finished releasing.  A crash is possible between any *)
(* two steps.                                                              *)
(***************************************************************************)
EXTENDS Integers, FiniteSets

CONSTANTS
  Port,            \* UDP ports
  NQUEUES,         \* RX queues of the NIC
  InitialStores,   \* what the FD store may hold at first
  SYSTEMD,         \* is NOTIFY_SOCKET set?
  SLOW_RELEASE,    \* does the kernel release a closed socket some time later?
  FAULTS,          \* may calls of a starting daemon fail, and the process crash?
  MAX_STARTS       \* bound: processes started

ASSUME LifecycleAssumption ==
  /\ NQUEUES \in Nat \ {0} /\ MAX_STARTS \in Nat
  /\ SYSTEMD \in BOOLEAN /\ SLOW_RELEASE \in BOOLEAN /\ FAULTS \in BOOLEAN
  /\ InitialStores \subseteq SUBSET ((0..NQUEUES - 1) \X {"sock", "umem"})

Queue == 0..NQUEUES - 1
Pin == {"link", "XSKS", "PORTS"}

VARIABLES
  pins,        \* files under the pin root
  ports_map,   \* the PORTS map behind its pin
  xsks,        \* queues whose XSKS slot refers to the socket bound to the queue
  holders,     \* who keeps the socket bound to a queue alive
  store,       \* the FD store: <<queue, kind>>
  starts,      \* processes started so far
  pc,          \* where the process is
  ports,       \* the ports the process was started with, which load_ebpf is given
  args_ports,  \* Args.ports, which SIGHUP reloads
  planned,     \* queues of the thread plan
  link,        \* does the process hold the link?
  handoff,     \* EbpfHandle.handoff
  inherited,   \* InheritedFds.by_queue
  worker,      \* thread of each queue
  shutdown,    \* the flag the workers poll
  detached,    \* fd_rx: queues whose worker sent its descriptors
  ended        \* how this process ends, or the latest one ended

kernel == <<pins, ports_map, xsks, holders, store>>
config == <<starts, ports, args_ports, planned>>
threads == <<worker, shutdown, detached>>
vars == <<pins, ports_map, xsks, holders, store, starts, pc, ports, args_ports,
          planned, link, handoff, inherited, worker, shutdown, detached, ended>>

attached == link \/ "link" \in pins
Pairs(s) == {q \in Queue : {<<q, "sock">>, <<q, "umem">>} \subseteq s}
InStore(s, q) == <<q, "sock">> \in s
Alive == {q \in Queue : worker[q] \notin {"none", "exited"}}

\* The process closes its descriptors of the sockets of the queues qs.
Closed(h, qs) ==
  [q \in Queue |->
     IF q \in qs /\ h[q] = {"process"} THEN IF SLOW_RELEASE THEN {"kernel"} ELSE {}
     ELSE IF q \in qs THEN h[q] \ {"process"} ELSE h[q]]

\* A slot is emptied when the socket it refers to is released.
Slots(h) == {q \in xsks : h[q] # {}}

Close(qs) == holders' = Closed(holders, qs) /\ xsks' = Slots(holders')

Init ==
  /\ pins = {} /\ ports_map = {} /\ xsks = {}
  /\ store \in InitialStores
  /\ holders = [q \in Queue |-> IF InStore(store, q) THEN {"store"} ELSE {}]
  /\ starts = 0 /\ pc = "down" /\ ports = {} /\ args_ports = {} /\ planned = {}
  /\ link = FALSE /\ handoff = FALSE /\ inherited = {} /\ worker = [q \in Queue |-> "none"]
  /\ shutdown = FALSE /\ detached = {} /\ ended = "never"

\* Process exit, by return or by crash: descriptors close, threads vanish.
Gone(why) ==
  /\ pc' = "down" /\ ended' = why
  /\ Close(Queue)
  /\ link' = FALSE /\ handoff' = FALSE /\ inherited' = {} /\ detached' = {}
  /\ worker' = [q \in Queue |-> "none"] /\ shutdown' = FALSE /\ args_ports' = {}
  /\ UNCHANGED <<pins, ports_map, store, starts, ports, planned>>

-----------------------------------------------------------------------------
(* load_ebpf                                                                *)

Start(ps, n) ==
  /\ pc = "down" /\ starts < MAX_STARTS
  /\ starts' = starts + 1
  /\ ports' = ps /\ args_ports' = ps /\ planned' = 0..n - 1
  /\ pc' = IF "link" \in pins THEN "adopt" ELSE "cold"
  /\ ended' = "never"
  /\ UNCHANGED <<kernel, link, handoff, inherited, threads>>

\* adopt_ebpf opens the three pins.
AdoptEbpf ==
  /\ pc = "adopt" /\ pins = Pin
  /\ link' = TRUE /\ pc' = "reconcile_adopted"
  /\ UNCHANGED <<kernel, config, handoff, inherited, threads, ended>>

AdoptEbpfFails ==
  /\ pc = "adopt" /\ (pins # Pin \/ FAULTS)
  /\ pc' = "clear"
  /\ UNCHANGED <<kernel, config, link, handoff, inherited, threads, ended>>

\* Mutant: the link is the last of the pins to go.
NextPinLinkLast(ps) ==
  IF "XSKS" \in ps THEN "XSKS" ELSE IF "PORTS" \in ps THEN "PORTS" ELSE "link"

\* The order of both unpinning loops.
NextPin(ps) ==
  IF "link" \in ps THEN "link" ELSE IF "XSKS" \in ps THEN "XSKS" ELSE "PORTS"

\* clear_stale_pins, before a cold boot.
ClearStalePin ==
  /\ pc = "clear"
  /\ pins' = pins \ {NextPin(pins)}
  /\ pc' = IF pins' = {} THEN "cold" ELSE "clear"
  /\ link' = (link /\ pins' # {})
  /\ UNCHANGED <<ports_map, xsks, holders, store, config, handoff, inherited, threads, ended>>

\* The loader creates and pins a map, or opens the one it finds pinned.
LoadMap(name) ==
  /\ pc = "cold" /\ name \in {"XSKS", "PORTS"} \ pins
  /\ pins' = pins \cup {name}
  /\ ports_map' = IF name = "PORTS" THEN {} ELSE ports_map
  /\ xsks' = IF name = "XSKS" THEN {} ELSE xsks
  /\ UNCHANGED <<holders, store, config, pc, link, handoff, inherited, threads, ended>>

Attach ==
  /\ pc = "cold" /\ {"XSKS", "PORTS"} \subseteq pins
  /\ link' = TRUE /\ pc' = "pin"
  /\ UNCHANGED <<kernel, config, handoff, inherited, threads, ended>>

PinLink ==
  /\ pc = "pin"
  /\ pins' = pins \cup {"link"} /\ pc' = "reconcile"
  /\ UNCHANGED <<ports_map, xsks, holders, store, config, link, handoff, inherited,
                 threads, ended>>

\* Mutant: ports of an earlier configuration stay.
ReconcileInsertsOnly ==
  /\ pc \in {"reconcile", "reconcile_adopted"}
  /\ IF ports \subseteq ports_map
       THEN pc' = "inherit" /\ ports_map' = ports_map
       ELSE pc' = pc /\ \E p \in ports \ ports_map : ports_map' = ports_map \cup {p}
  /\ UNCHANGED <<pins, xsks, holders, store, config, link, handoff, inherited, threads, ended>>

\* reconcile_ports: stale entries go first, one call each.
ReconcilePorts ==
  /\ pc \in {"reconcile", "reconcile_adopted"}
  /\ IF ports_map = ports
       THEN pc' = "inherit" /\ ports_map' = ports_map
       ELSE /\ pc' = pc
            /\ \/ \E p \in ports_map \ ports : ports_map' = ports_map \ {p}
               \/ /\ ports_map \subseteq ports
                  /\ \E p \in ports \ ports_map : ports_map' = ports_map \cup {p}
  /\ UNCHANGED <<pins, xsks, holders, store, config, link, handoff, inherited, threads, ended>>

\* reconcile_ports fails under adopt_ebpf: dropping the handle unpins everything, and
\* load_ebpf goes on to a cold boot.
ReconcileFails ==
  /\ FAULTS /\ pc = "reconcile_adopted"
  /\ pc' = "clear"
  /\ UNCHANGED <<kernel, config, link, handoff, inherited, threads, ended>>

\* An error of a cold boot before there is a handle to drop: its pins stay.
ColdBootFails ==
  /\ FAULTS /\ pc \in {"cold", "pin"}
  /\ Gone("failed")

-----------------------------------------------------------------------------
(* The rest of main before its loop                                         *)

\* inherit_from_systemd: orphans of a pair are dropped; the store keeps its own copies.
InheritFromSystemd ==
  /\ pc = "inherit"
  /\ inherited' = Pairs(store)
  /\ holders' = [q \in Queue |-> IF q \in Pairs(store) THEN holders[q] \cup {"process"}
                                 ELSE holders[q]]
  /\ pc' = "spawn"
  /\ UNCHANGED <<pins, ports_map, xsks, store, config, link, handoff, threads, ended>>

\* An error from the end of a cold boot to the workers: EbpfHandle is dropped.
StartFails ==
  /\ FAULTS /\ pc \in {"reconcile", "inherit", "spawn"}
  /\ pc' = "drop" /\ ended' = "failed"
  /\ UNCHANGED <<kernel, config, link, handoff, inherited, threads>>

\* WorkerPool::spawn; descriptors no worker is planned for are dropped.
Spawn ==
  /\ pc = "spawn"
  /\ worker' = [q \in Queue |-> IF q \in planned THEN "starting" ELSE "none"]
  /\ Close(inherited \ planned)
  /\ pc' = "init"
  /\ UNCHANGED <<pins, ports_map, store, config, link, handoff, inherited, shutdown,
                 detached, ended>>

EnterLoop ==
  /\ pc = "init" /\ ports # {}
  /\ pc' = "running"
  /\ UNCHANGED <<kernel, config, link, handoff, inherited, threads, ended>>

\* HealthChecker::new or StatusApi::spawn fails and main returns.  EbpfHandle is dropped
\* only if no worker thread is left to share it.
InitFails ==
  /\ FAULTS /\ pc = "init" /\ ports # {}
  /\ IF Alive = {}
       THEN /\ pc' = "drop" /\ ended' = "failed"
            /\ UNCHANGED <<kernel, config, link, handoff, inherited, threads>>
       ELSE Gone("failed")

\* A configuration file without a port line: args.ports[0] panics, and a panic aborts.
NoFirstPort ==
  /\ pc = "init" /\ ports = {}
  /\ Gone("crash")

-----------------------------------------------------------------------------
(* Worker threads                                                           *)

\* worker_loop creates a socket; bind answers EBUSY while another one has the queue.
CreateSocket(q) ==
  /\ worker[q] = "starting" /\ q \notin inherited
  /\ IF holders[q] = {}
       THEN /\ holders' = [holders EXCEPT ![q] = {"process"}]
            /\ worker' = [worker EXCEPT ![q] = "bound"]
       ELSE /\ worker' = [worker EXCEPT ![q] = "exited"]
            /\ UNCHANGED holders
  /\ UNCHANGED <<pins, ports_map, xsks, store, config, pc, link, handoff, inherited,
                 shutdown, detached, ended>>

\* worker_loop_adopt maps the inherited socket.
AdoptSocket(q) ==
  /\ worker[q] = "starting" /\ q \in inherited
  /\ worker' = [worker EXCEPT ![q] = "bound"]
  /\ UNCHANGED <<kernel, config, pc, link, handoff, inherited, shutdown, detached, ended>>

\* Any error on the way to the loop: core pinning, creating or adopting the socket, or
\* registering it.  What the worker holds is closed.
WorkerFails(q) ==
  /\ FAULTS /\ worker[q] \in {"starting", "bound"}
  /\ worker' = [worker EXCEPT ![q] = "exited"]
  /\ Close({q})
  /\ UNCHANGED <<pins, ports_map, store, config, pc, link, handoff, inherited, shutdown,
                 detached, ended>>

\* Mutant: an adopted socket is taken to be in its slot already.
RegisterFreshOnly(q) ==
  /\ worker[q] = "bound"
  /\ xsks' = IF q \in inherited THEN xsks ELSE xsks \cup {q}
  /\ worker' = [worker EXCEPT ![q] = "running"]
  /\ UNCHANGED <<pins, ports_map, holders, store, config, pc, link, handoff, inherited,
                 shutdown, detached, ended>>

RegisterXsk(q) ==
  /\ worker[q] = "bound"
  /\ xsks' = xsks \cup {q}
  /\ worker' = [worker EXCEPT ![q] = "running"]
  /\ UNCHANGED <<pins, ports_map, holders, store, config, pc, link, handoff, inherited,
                 shutdown, detached, ended>>

\* The loop sees the flag.  detach_for_fdstore yields descriptors for an adopted socket only;
\* any other is closed.
WorkerStops(q) ==
  /\ worker[q] = "running" /\ shutdown
  /\ worker' = [worker EXCEPT ![q] = "exited"]
  /\ IF q \in inherited
       THEN detached' = detached \cup {q} /\ UNCHANGED <<holders, xsks>>
       ELSE Close({q}) /\ UNCHANGED detached
  /\ UNCHANGED <<pins, ports_map, store, config, pc, link, handoff, inherited, shutdown, ended>>

-----------------------------------------------------------------------------
(* Signals and shutdown                                                     *)

\* SIGHUP, of a daemon started with -c.  reload_config takes the ports of the file into
\* Args, where the status API reads them, and nothing else here looks at them again.
Sighup(ps) ==
  /\ pc = "running"
  /\ args_ports' = ps
  /\ UNCHANGED <<kernel, starts, pc, ports, planned, link, handoff, inherited, threads, ended>>

\* SIGUSR2.
HandoffSignal ==
  /\ pc = "running"
  /\ handoff' = TRUE /\ shutdown' = TRUE /\ pc' = "join" /\ ended' = "handoff"
  /\ UNCHANGED <<kernel, config, link, inherited, worker, detached>>

\* SIGINT and SIGTERM.
TermSignal ==
  /\ pc = "running"
  /\ shutdown' = TRUE /\ pc' = "join" /\ ended' = "cold"
  /\ UNCHANGED <<kernel, config, link, handoff, inherited, worker, detached>>

\* Mutant: only a daemon without workers gives up.
AllWorkersExited ==
  /\ pc = "running" /\ \A q \in planned : worker[q] = "exited"
  /\ shutdown' = TRUE /\ pc' = "join" /\ ended' = "worker"
  /\ UNCHANGED <<kernel, config, link, handoff, inherited, worker, detached>>

\* dead_queues: a worker that is gone ends the daemon.
WorkerExited ==
  /\ pc = "running" /\ \E q \in planned : worker[q] = "exited"
  /\ shutdown' = TRUE /\ pc' = "join" /\ ended' = "worker"
  /\ UNCHANGED <<kernel, config, link, handoff, inherited, worker, detached>>

\* Every worker has been joined.  A cold shutdown discards what they sent.
Join ==
  /\ pc = "join" /\ Alive = {}
  /\ IF handoff /\ SYSTEMD
       THEN pc' = "export" /\ UNCHANGED <<holders, xsks, detached>>
       ELSE pc' = "drop" /\ Close(detached) /\ detached' = {}
  /\ UNCHANGED <<pins, ports_map, store, config, link, handoff, inherited, worker,
                 shutdown, ended>>

\* send_one, in two messages.
ExportSock(q) ==
  /\ pc = "export" /\ q \in detached
  /\ \A r \in detached \ {q} : r > q
  /\ store' = store \cup {<<q, "sock">>}
  /\ holders' = [holders EXCEPT ![q] = @ \cup {"store"}]
  /\ pc' = "export_umem"
  /\ UNCHANGED <<pins, ports_map, xsks, config, link, handoff, inherited, threads, ended>>

ExportUmem(q) ==
  /\ pc = "export_umem" /\ q \in detached
  /\ \A r \in detached \ {q} : r > q
  /\ store' = store \cup {<<q, "umem">>}
  /\ detached' = detached \ {q} /\ Close({q})
  /\ pc' = "export"
  /\ UNCHANGED <<pins, ports_map, config, link, handoff, inherited, worker, shutdown, ended>>

\* All exported, or a message failed and the rest is closed.
ExportEnds ==
  /\ \/ pc = "export" /\ detached = {}
     \/ FAULTS /\ pc \in {"export", "export_umem"} /\ detached # {}
  /\ Close(detached) /\ detached' = {}
  /\ pc' = "drop"
  /\ UNCHANGED <<pins, ports_map, store, config, link, handoff, inherited, worker,
                 shutdown, ended>>

\* Mutant: the flag is ignored and every shutdown is a cold one.
DropAlwaysUnpins ==
  /\ pc = "drop"
  /\ IF pins = {}
       THEN Gone(ended)
       ELSE /\ pins' = pins \ {NextPin(pins)}
            /\ UNCHANGED <<ports_map, xsks, holders, store, config, pc, link, handoff,
                           inherited, threads, ended>>

\* EbpfHandle::drop, one pin at a time, and the end of the process.
DropEbpf ==
  /\ pc = "drop"
  /\ IF handoff \/ pins = {}
       THEN Gone(ended)
       ELSE /\ pins' = pins \ {NextPin(pins)}
            /\ UNCHANGED <<ports_map, xsks, holders, store, config, pc, link, handoff,
                           inherited, threads, ended>>

-----------------------------------------------------------------------------
(* The kernel, systemd, and crashes                                         *)

\* The kernel is done with a closed socket.
Release(q) ==
  /\ holders[q] = {"kernel"}
  /\ holders' = [holders EXCEPT ![q] = {}]
  /\ xsks' = xsks \ {q}
  /\ UNCHANGED <<pins, ports_map, store, config, pc, link, handoff, inherited, threads, ended>>

\* The service is stopped for good and systemd closes what it kept.
StoreDropped ==
  /\ pc = "down" /\ store # {}
  /\ store' = {}
  /\ holders' = [q \in Queue |-> holders[q] \ {"store"}]
  /\ xsks' = Slots(holders')
  /\ UNCHANGED <<pins, ports_map, config, pc, link, handoff, inherited, threads, ended>>

Crash == FAULTS /\ pc # "down" /\ Gone("crash")

LoadEbpf ==
  \/ AdoptEbpf \/ AdoptEbpfFails \/ ClearStalePin
  \/ \E name \in Pin : LoadMap(name)
  \/ Attach \/ PinLink \/ ReconcilePorts \/ ReconcileFails \/ ColdBootFails

Boot == LoadEbpf \/ InheritFromSystemd \/ StartFails \/ Spawn \/ EnterLoop \/ InitFails
        \/ NoFirstPort

Worker(q) ==
  CreateSocket(q) \/ AdoptSocket(q) \/ WorkerFails(q) \/ RegisterXsk(q) \/ WorkerStops(q)

Stop == Join \/ (\E q \in Queue : ExportSock(q) \/ ExportUmem(q)) \/ ExportEnds \/ DropEbpf

Next ==
  \/ \E ps \in SUBSET Port, n \in 1..NQUEUES : Start(ps, n)
  \/ Boot
  \/ \E q \in Queue : Worker(q)
  \/ \E ps \in SUBSET Port : Sighup(ps)
  \/ HandoffSignal \/ TermSignal \/ WorkerExited
  \/ Stop
  \/ \E q \in Queue : Release(q)
  \/ StoreDropped \/ Crash

Spec == Init /\ [][Next]_vars

\* Threads that can run do; the main loop polls for dead workers.
FairSpec ==
  /\ Spec
  /\ WF_vars(Boot) /\ WF_vars(Stop) /\ WF_vars(WorkerExited)
  /\ \A q \in Queue : WF_vars(Worker(q))

-----------------------------------------------------------------------------
(* Properties                                                               *)

\* load_ebpf decides to adopt by the link pin alone.  Wherever an earlier process was
\* cut off, in a boot, in an unpinning loop or in a fallback, a link pin means that the
\* pins of both maps are there too: adoption never meets half an install.
LinkPinIsWhole == "link" \in pins => pins = Pin

\* From reconcile_ports until the handle is dropped the program filters exactly the ports
\* the process was started with, whatever earlier generations, crashed ones included,
\* left in PORTS, and whatever SIGHUP has reloaded since (pesigitgd.conf(5): changes
\* "require restarting the daemon").
PortsAreAsStarted ==
  pc \in {"inherit", "spawn", "init", "running", "join", "export", "export_umem"}
    => ports_map = ports

\* SIGHUP reloads "the daemon and route configurations" (pesigitgd(8), SIGNALS): in the
\* main loop the program filters the ports of Args, which reload_config assigns.
PortsFollowReload == pc = "running" => ports_map = args_ports

\* The XSKS slot of a worker in its loop refers to that worker's own socket, whether it
\* was created or adopted, into a fresh map or a surviving one.
RunningIsReachable ==
  \A q \in Queue : worker[q] = "running" => q \in xsks /\ "process" \in holders[q]

\* SIGTERM leaves nothing behind, and SIGUSR2 leaves the whole install with the program
\* attached (man page, RESTART).
ShutdownIsCompleteOrKept ==
  pc = "down" => /\ ended \in {"cold", "worker"} => pins = {}
                 /\ ended = "handoff" => pins = Pin /\ attached

\* A worker that is gone ends the daemon, so that systemd sees the failure (the comment
\* at the main loop's check), and every shutdown that is begun ends.
BrokenDaemonEnds ==
  (pc = "join" \/ (pc = "running" /\ \E q \in planned : worker[q] = "exited")) ~> (pc = "down")
=============================================================================
