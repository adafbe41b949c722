# Verification of pesigitgd

pesigitgd is a layer-4 load balancer for QUIC (QUIC-LB). An XDP program steers
the UDP packets of the configured ports to AF_XDP sockets, one per NIC queue;
one worker thread per queue decodes the connection ID of each packet, picks the
backend and sends the frame on; the main thread probes the backends, resolves
their MAC addresses, reloads the configuration on SIGHUP, serves a status API
and hands sockets and program over to its successor on SIGUSR2. `pesigitg-ctl` finds
the daemons of a host, signals them, and tells backends what they need to mint
connection IDs; a small library for backends mints them.

This directory holds TLA+ models of that system, configurations that check them
with TLC on small instances, and proofs that TLAPS checks for every instance.
`PROJECT.json` lists components, runs, the source lines each definition models,
hazards and theorems.

    tlc -workers 2 -config MCRetry.cfg MCRetry      # one run
    tlapm PacketProofs.tla                          # one module of proofs

Paths below are relative to `src/pesigitg-daemon/src/` unless they say otherwise.

## 1. Inventory

### State and operations

| Part | State | Operations | Module |
|------|-------|-----------|--------|
| Route table (`config/route.rs`) | server lists of config slots 0..6, fallback pool | `from_file`, `resolve_macs`, `rebuild_fallback_servers`, lookups | `RouteTable` |
| Health checker (`health.rs`) | address -> health, failures, backoff, due time, transitions | `check`, `apply_probe_results`, `evict_removed`, `reset_backoff` | `HealthChecker` |
| Main loop (`main.rs`, `config/mod.rs`) | published table, drain flags | SIGHUP, drain test, `check_and_rebuild` | `ControlLoop` |
| XDP filter (`src/pesigitg-ebpf`) | none of its own | `pesigitg`, `parse_ipv4`, `parse_ipv6` | `FrameFilter` |
| Packet parsing and routing (`packet.rs`, `cid.rs`) | none of its own | `parse_frame`; `process_udp`, `process_icmp` | `FrameFilter`; `Datapath` |
| CIDs (`src/pesigitg-routing`, `src/contrib/quic-lb-core`, `quic-lb-quinn`) | none; an encoder has its parameters | `encode_into`, `resolve_server_idx`, both ciphers | `Cid`, `Rollover` |
| Connection table (`conntable.rs`) | per worker: 4-tuple -> MAC, DCID -> MAC, with deadlines | `lookup`, `insert`, `record_dcid`, `maybe_sweep` | `Datapath` |
| Key ages (`config/key_age.rs`, `config/route.rs`, `config/retry.rs`) | stamp per key, last stamp warned about | load, `inherit_ages_from`, `check` | `KeyAge` |
| Load tracker (`retry/load.rs`) | second, count, last rate: three atomics | `record_batch`, `rate` | `LoadRate` |
| Retry service (`retry/*.rs`) | none: tokens carry it | `try_handle`, `mint`, `verify` | `Retry` |
| Rings (`xdp_adopt.rs`) | producer and consumer index, descriptor array | `produce`, `consume` | `Ring`, `Fifo` |
| Frames (`xsk.rs`, `xdp_adopt.rs`, `threading.rs`) | four rings, batches, `pending_fill` | `poll_recv`, `transmit`, `refill`, `complete` | `Umem` |
| eBPF install (`ebpf.rs`) | pins, PORTS, XSKS, attachment | `load_ebpf`, `reconcile_ports`, `register_xsk`, `set_handoff`, `Drop` | `Lifecycle` |
| FD store (`fdstore.rs`) | descriptors kept by systemd | inherit, export | `Lifecycle` |
| Worker pool and process (`threading.rs`, `main.rs`) | thread states, shutdown flag | spawn, exit, join, signals, crash | `Lifecycle` |
| Counters (`stats.rs`) | per worker an array of atomics | `flush`, `aggregate`, `delta` | `Stats` |
| Status API (`status_api.rs`) | connections, slot count, flag, socket file | accept loop, handlers, `shutdown` | `StatusApi` |
| PID file (`pidfile.rs`) | path -> inode -> pid, lock | `create`, `Drop` | `Instances` |
| `pesigitg-ctl` (`src/pesigitg-control`) | what one command has seen so far | discovery, `resolve`, signals, `cleanup`; `backend-config`, `whoami` | `Instances`; `Rollover` |

### Interactions

* The main loop publishes a table through an `ArcSwap`; workers load it once per
  batch (`threading.rs`) and work from that snapshot to the end of the batch.
* The prober writes its own map; `check_and_rebuild` mirrors it onto a clone of
  the table and stores the clone only when something changed.
* Workers flush counters that the main loop reads to see whether drained servers
  still get traffic, and that API handlers read at any moment.
* A worker's clock is sampled when a batch arrives and used until it is done:
  connection table, load tracker and tokens all see that sample.
* Retry tokens minted by one worker come back to any other, perhaps after SIGHUP.
* Processes interact with their successors through bpffs pins, map contents, the
  FD store and the kernel's delayed release of sockets.
* The XDP filter and the worker parse the same frame, each with code of its own.
* Operator, daemon, `pesigitg-ctl` and backends each hold a version of the route file
  and move to a new one when they get to it.
* Daemons of one interface meet at the pid file; `pesigitg-ctl` reads, and removes,
  the same files and reads `/proc` a little later.

### What makes it hard

Interleaved batches of workers; tables, snapshots and clock samples that are
stale when used; free-running indices and counters that wrap; process death
between any two steps of start or shutdown; duplicated, lost and reordered
Retry packets; a shutdown that has to wake and join threads; two implementations
of one format on the two sides of it; files that are replaced, and pids that are
reused, under a process that looks at them.

## 2. Modules

The models keep control (guards, early returns, error exits, order of steps) and
abstract data: an address, a key or a CID is a model value, a MAC is known or
not, a token is the record of what is under its MAC.

* **RouteTable** is pure: server lists of all slots concatenated in slot order
  (the order in which all the code walks them), and the pool as a recursive
  function over them. **HealthChecker** is pure too: operators over the prober's
  map. **ControlLoop** EXTENDS both and holds the state: `Sighup`,
  `DetectDrained`, `CheckAndRebuild` and `Tick` are the main loop; `StartBatch`
  and `FinishBatch` are the workers that pin a snapshot; backends go up and down
  on their own.
* **Datapath** EXTENDS RouteTable. `Publish` stores any table of `Tables`; a
  worker polls (samples clock and table) and processes packets one by one. What a CID
  decodes to is part of the packet, so the ciphers are a function the module is
  given; `Cid` is that function. A UDP packet reaches the worker of its flow's queue;
  an ICMP error about a flow reaches any worker, because the NIC hashes the addresses
  of the error. `assigned`, `seen` and the like are history;
  `seen` is kept per worker, as the tables are.
* **FrameFilter** takes a frame as its chain of headers and the number of octets that
  arrived. The filter and the parser are operators over it that read a field only if
  its octets are there; the two steps are the NIC's filter and the worker. `Astray`
  are the frames for which the filter's masked header length differs.
* **Cid** is pure: octets are sets of bits, a block is a set of (octet, bit) pairs,
  `Aes[k]` any permutation of blocks. An index outside a block is the value `Panic`.
  **Rollover** EXTENDS it with the state: the route file, the daemon's table, the
  backends' encoders and a minted CID. `Edit`, `Sighup`, `ProvisionOffline`,
  `ProvisionOnline` and `generate_cid` are the parties' steps; routing and `whoami` are
  operators over the state.
* **Instances**: processes with reused pids, pid files as path, inode and content,
  `PidFile::create` and `Drop` one system call at a time, and one `pesigitg-ctl`
  command that reads the pid files, then `/proc`, then acts. Each of the two reads is
  one step. Signals change nothing by themselves: a daemon may stop at any time.
* **KeyAge**: the keyed entries of a route file, `ages[s].loaded_at`, the main loop's
  `Check`, SIGHUP with any file (`ReloadAges`). A stamp is inherited if `same_key` says so,
  which compares cipher and octets; the history `since` goes by the octets alone.
  Time has a resolution finer than a second because the age is truncated to
  seconds before it is compared.
* **LoadRate**: every atomic operation of `record_batch` is a step of a worker.
* **Retry**: workers poll (clock sample and snapshot), then classify and answer;
  a token that verifies sends the Initial on to the routing path, where the model ends
  (`passed_on`). The client takes one Retry per attempt and continues with the Retry's
  SCID as its DCID; `CHECKS_SCID` says whether it discards a Retry whose SCID is the
  DCID it sent, as RFC 9000 asks (section 17.2.5.1). The network is a set of messages, so duplicates and reordering are built in.
* **Ring** models produce and consume one memory operation at a time, with
  indices modulo `WRAP`. **Fifo** is the bounded queue it promises; `RingIsFifo` is
  the refinement, with the entries between the two indices as the queue.
* **Umem** takes the rings as such queues and follows every frame of the UMEM
  through kernel, worker and hand-over, for both socket flavours.
* **Lifecycle**: start-up, running and shutdown of a sequence of processes, one
  file, map or socket operation per step, each of which may fail or be the last. A
  process starts with any set of ports (`ports`); `Sighup` replaces those of the settings
  (`args_ports`) at any time while the main loop runs, and `ports_map` is what the filter
  sees. Without a port the start ends in a panic (`NoFirstPort`).
* **Stats** models `add` as the load and the store it is and `aggregate` as one
  load after the other: `pending` is what a flush still has to add, per worker and
  counter, and `place` the slot and counter a reader reads next. **StatusApi** EXTENDS it: the handler of a `/stats` request
  and the main loop are its readers.

**MCControlPlane** (`ControlLoop` and `Instances`), **MCPacketPath** (`Datapath`,
`FrameFilter` and `LoadRate`), **MCRingsReload** (`Ring`, `Umem`, `Rollover` and `KeyAge`) and
**MCReload** (the last two) put parts that share no variable into one run: the
initial state picks a part, whose behaviours are explored while the others keep
still. So each part's properties are checked over all of its behaviours, and
nothing is claimed of their interleaving.

Composition: ControlLoop = RouteTable + HealthChecker + main loop + snapshots;
Datapath = RouteTable + connection tables; StatusApi = Stats + API threads; Umem
rests on Ring through Fifo. Datapath receives *any* table of its set where
ControlLoop would publish a particular one, and Retry receives any answer of the
load tracker, so what holds there holds under the real publisher and tracker.

The atomics of `stats.rs` and `retry/load.rs` are relaxed in the code and a single
interleaving here. What is checked of them is about one location at a time
(`NothingLost`, `DeltasAreTraffic`, `CountsConserved`) or about a single worker
(`RateIsExact`); none relates the order in which another thread sees two
locations. The ring indices are acquire
and release in the code, which is what `Ring` assumes.

## 3. Runs

| Run | Instance | Shows |
|-----|----------|-------|
| `control_plane` | two backends, two slots, a key rotation, a shared address; threshold 3, two backoff steps, transitions modulo 4. Two interfaces, two pids, three inodes, three starts, one command at a time | `AllOrNothing`: after a reload the published health is either that of the prober for all servers or the defaults for all; `PoolMatchesSlots`: the pool is what the slots imply; `DownIsNotRouted`; `TransitionsCountFlips` also across the wrap. `OneDaemonUntilUnlinked`: the exact condition under which the lock fails to exclude; `SignalFindsItsDaemon`; `NamedKeepsPidfile` |
| `control_liveness` | one backend that drains or is replaced, one worker | `ProbedForever`, `ReachableJoinsPool`, `DrainIsAnnounced` |
| `control_restore` | one backend | **violated**: see Findings |
| `packet_path` | one queue, two flows, three tables, TTL 3, sweep 2, lag 1. Every header chain of `MCPacketPath.tla` cut at every length from 12 to 172. Two workers, three seconds, two Initials | `FlowPinned`, `DownIsAbandoned`, `RebindReachesSameBackend`, `LingersLessThanAnInterval`; `FilterMatchesParser`, `OnlyCutEchoesPanic`; `CountsConserved`: each Initial that was added is still in the window or was taken by one rotation, once; `RateIsExact` while one worker has seen traffic |
| `datapath_stale_cid` | the datapath of `packet_path` with a long client CID | **violated**: see Findings |
| `rings_reload` | ring of 2, indices of 2 bits from every start value, batches up to 3. Three frames, rings of three, transmit ring of one, batches of two. Octets of two bits, blocks of three, both ciphers and plaintext, eight files of which three do not load. A route key and the retry key, four files, nine half-second ticks | `RingIsFifo`: the ring implements `Fifo`; `FramesConserved`, `FramesReturn`; `CidReachesItsServer`, `WhoamiAgrees`; `WarnsOnlyOldKeys`, `OneWarningPerKey`, `OverdueIsReported` |
| `cid_limits` | the files of `rings_reload` | **violated**: see Findings |
| `lifecycle` | two queues, two ports, three processes, reloads at any time, any initial FD store, every fault | `LinkPinIsWhole`, `PortsAreAsStarted`, `RunningIsReachable`, `ShutdownIsCompleteOrKept`, `BrokenDaemonEnds` |
| `lifecycle_reload` | the same | **violated**: see Findings |
| `retry` | two workers, two addresses, two configurations, four attempts, one reload, one move, three instants; a client that does not check the Retry's SCID | `HonestTokenAccepted`, `ValidatedOwnsAddress`, `GetsThrough` |
| `retry_conforming` | the same with a client that checks it | **violated**: see Findings |
| `status` | two workers with a packet each, two connections, one handler slot | `NothingLost`, `DeltasAreTraffic`, `SlotsAreHandlers`, `ShutdownEnds`, `ConnectionsEnd` |

Each property has a mutant in `PROJECT.json`: a plausible mistake in the modelled
code (a definition marked `Mutant` in its module) under which TLC finds the
property violated.

### Bounds

* *Backends, slots*: two of each give every kind of entry a neighbour of another
  kind (draining and not, MAC known and not, one address in two slots). A
  failure threshold of 3 and two backoff steps have a first, a middle and a last
  step. `TRANSITIONS_MOD` 4 reaches the wrap of the 32-bit counter.
* *Time*: TTL, sweep interval and lag differ, so that each of expiry, sweep and
  late use can come first; clocks run past every threshold they are compared with.
* *Queues*: the datapath's run has one, since workers share nothing but the table they
  snapshot; ICMP errors that reach another worker than the flow's are left to the proof
  of `DownServersAreAbandoned`.
* *Rings*: `WRAP` is twice `SIZE`, every start index is initial, so indices wrap at
  every place, and a batch can be larger than the ring. Of the UMEM's rings the
  transmit ring is smaller than a batch, so frames are left over and
  have to wait in `pending_fill`.
* *Frames*: 172 octets exceed the longest chain the filter follows; six extension
  headers are the limit, seven one more; 32 groups are the first length the mask cuts.
* *CIDs*: the limits keep the order of the real ones (`MAX_SID` = `BLOCK` - 1,
  `MAX_NONCE` and `MAX_PAYLOAD` beyond `BLOCK`); the table of `Aes` is a keyed
  permutation without symmetry between its octets.
* *Instances*: two pids, both of which can be daemon, other program and daemon again;
  three inodes are two open ones and a new one; with three starts a stopping, a
  starting and a third daemon of one interface meet.
* *Processes*: three, so that a crash, the successor that cleans up, and that
  one's successor all occur.
* *Retry*: `MAX_ATTEMPTS` 4 leaves an attempt after a reload, after a move and after
  an expired token; two packets in flight reorder and duplicate.
* *Status*: `WRAP` 256 keeps counters from wrapping, as 64 bits do; one slot makes
  "full" and "free" adjacent.

Deadlock is checked except where the system may stop: `lifecycle` (the last process
is down), `packet_path` (a frame that was handled), `rings_reload` (a worker that has
stopped), `retry` (the client got through, the clock at its bound), `status`
(API shut down and all traffic counted).

### Fairness

* `ControlLoop`: weak fairness of the main loop's steps, which run in sequence on
  a thread of their own; strong fairness of `Tick`, because signals handled in
  between do not stop time; weak fairness of a worker's `FinishBatch`, a bounded
  loop. None on signals, backends or traffic.
* `KeyAge`: the main loop's `Check`. `Lifecycle`: boot, shutdown, worker threads and
  the main loop's poll for dead workers; none on faults, crashes and signals.
* `Umem`: the worker loop; strong fairness of `PollRecv`, which the kernel's
  activity enables again and again; weak fairness of the NIC's `Send`, without which
  no transmitted frame ever completes.
* `Retry`: worker loops, the client's sending, and strong fairness of a Retry
  reaching the client: of packets sent again and again not all are lost.
* `StatusApi`: one weak fairness for the API's threads together, weaker than what
  a scheduler gives. Handlers end because of `IO_TIMEOUT`.
* `PartsSpec` carries the fairness of `Umem` and `KeyAge` over to the
  behaviours of that part. `Rollover`, `FrameFilter` and `Instances` have none: their
  properties are safety properties.

## 4. Proofs

Every safety and action property that a run checks is proved for every instance, and
so is the refinement of `Fifo` by `Ring`. `ProberKeepsItsSchedule` and
`RoutedServersAnswer` state properties that no run checks. Components that share no
state share a module of proofs.

| Module | Theorems | Argument |
|--------|----------|----------|
| `RouteTableProofs` | `PoolCorrect`: for every server list the pool holds exactly the usable servers, once per address, in slot order | The pool is a recursive function over positions. Induction is stated over a *set* of naturals (`NatSetInduction`, from the well-foundedness of `<`), which provers can instantiate; it shows that the function exists and what its values are. |
| `ControlLoopProofs` | `TypeCorrect`, `NeverHalfUpdated`, `PoolInStep`, `FlapsAreCounted`, `DownIsOut` | `IInv` = `TypeOK` + `AllOrNothing` + `PoolMatchesSlots` + "no flip is counted before the first success". The last conjunct is needed because parity alone does not survive the first success. `DownIsNotRouted` follows: published health is either the prober's or the (unhealthy) default. |
| | `ProberKeepsItsSchedule`, `RoutedServersAnswer` | `AllInStep`, on top of `IInv`: a backend that has answered is healthy exactly while fewer than `FAILURE_THRESHOLD` probes in a row have failed, and waits no longer than `backoff_for` of its failures. The clause that a healthy backend has answered is what lets a success keep `ever_healthy`. With `AllOrNothing` it follows that the live table calls only servers healthy that are tracked and answered within their last `FAILURE_THRESHOLD` probes. |
| `DatapathProofs` | `FlowsStayPinned`, `DownServersAreAbandoned`, `RebindingFollowsTheCid`, `SweepsBoundTheTables` | `IInv` ties each index to its history: the entry of a recent assignment is in `by_flow` with at least the time left that its age and the lag of the clock sample leave of the TTL (`FlowsKept`), likewise that of a recorded CID (`CidsKept`). `Swept` bounds an entry's overrun by the time since the last sweep, `UpWhenRecorded` dates every entry after its server was last routable, and `SnapshotsFresh` says that what a snapshot routes to was routable when the batch sampled its clock. All four properties follow from it. |
| `ReloadProofs` | `FourPassInverts`, `CidsReachTheirServer`, `WhoamiTellsTheTruth` | A pass xors one half with a function of the other half, so doing it twice changes nothing (`XorTwice`, `HalvesApart`, `PassTwice`); the decoder runs the passes of the encoder backwards. `RolloverInv` says that loaded configs have the lengths validation asks for, that encoders come from such configs, and that a minted CID is what its encoder makes of some nonce. From there `lookup_config` finds the slot the first octet names and `find_server_idx` the encoder's server. `whoami` makes the same lookup in the same configs, without keys when online. |
| | `NoKeyIsWarnedEarly`, `WarnedAtMostOnce` | `AgeInv`, strengthened with `NotBackdated`: no stamp is older than the octets it dates, whatever `same_key` let it inherit; and with `Remembered`: a key that was warned about is the one whose stamp the warner holds, so `Check` passes it over. |
| `ProcessProofs` | `PinsAreWhole`, `ShutdownLeavesAllOrNothing`, `PortsAreThoseOfTheStart`, `WorkersAreReachable` | `PinInv` says for each place in the start and stop sequences which pins exist and what `handoff` is there; `ThreadInv` that a worker past bind or adoption holds its queue's socket, and that nothing closes sockets in bulk while a worker lives. |
| | `PidfileExcludes`, `SignalsFindTheirDaemon`, `CleanupSparesNamed` | `HostInv`: an inode has at most one lock holder, and until an interface's pid file is unlinked under somebody (`unlinked`), every daemon of it that has the file open has the inode at the path. `CtlInv` adds that no two paths share an inode, that a pid file names its owner unless a daemon of the interface crashed, and that this carries over to what a command has seen for the processes that lived all the while; a cleanup has seen the command line of every named daemon. `CleanupSparesNamed` is an action property. |
| `PacketProofs` | `RetryProvesAddress`, `HonestTokensVerify` | `Trace` follows a token wherever it is (client, packet, Retry, worker): never dated after the clock, hence not after the sample of a worker that polls it later, and only where a Retry to its own address and connection ID took it. |
| | `FilterAndParserAgree`, `PanicsAreCutEchoes` | Filter and parser walk the same extension headers (`WalkExtsLonger`, by induction over their number), so each case of the one has its case in the other (`Ipv4Agrees`, `Ipv6Agrees`); a field both read is there in the longer frame too. Frames have any length, ports, and any sequence of extension headers. |
| | `RingImplementsFifo`: `RingSpec => Abstract!Spec` | First the index arithmetic, without division: what `wrapping_add` and `wrapping_sub` return, how distances move, and that no two of `SIZE` consecutive indices share an array entry, wrap included, because `SIZE` divides `WRAP` (`MaskOfSum`, `MaskApart`). `RingInv` says that each side's load of its own index is current, that the free space and the entries it counted are still there, and that locals agree with the array. Then one lemma per action: both release stores are the abstract steps, all others leave the queue alone. |
| `WorkerProofs` | `NoInitialLost`, `RateOfOneWorkerIsExact` | `CountsInv` = types + `CountsConserved` is inductive. `SoleInv` says what the window and the worker's locals hold at each of its steps while nobody else has used the tracker. |
| | `FramesStayConserved` | `UmemInv` counts: the lengths of all rings and batches sum up to the number of frames, and together they hold every frame. A sequence as long as its finite range is injective, so no frame is there twice. That `pending_fill` is empty for an adopted socket is a conjunct: only then may `LoopEnds` forget it. |
| `StatusProofs` | `SlotsStayCounted` | `SlotInv`: `active` is the number of connections between accept and close, and the accepted one is not yet among them. |
| | `CountersLoseNothing` | `CountInv`: a loaded value is still the counter's, which nobody else writes, and a slot and its pending adds never exceed the worker's packets, so no addition wraps. Sums over workers are recursive functions, with the same induction as above. |
| | `SnapshotsNeverFallBehind` | `ReadInv`: a reader's partial sum is at most that of the slots it has read, and with the slots still ahead at least the snapshot that was the latest when it started. Counters only grow, so both survive every store. |

Assumptions are the named `ASSUME`s of the modules: types of the constants,
non-empty sets, file contents that parse; of AES only that each key permutes
the blocks; of a UMEM that its frames fit its fill ring, as both have `NUM_FRAMES` entries
(`UmemAssumption`); of a ring that its size divides the number of index values, both
powers of two (`RingAssumption`); and of counters that the packets of one life of the
daemon do not fill 64 bits (`StatsAssumption`). The theorems are about the
specifications without fairness, so they hold
under any, and for any number of backends, workers, queues, processes,
attempts or reloads; the bounds of the runs are constants in them.

Type invariants are conjuncts of the proved invariants and are not repeated as
properties of the runs. Where a run puts several parts together (`control_plane`,
`packet_path`, `rings_reload`), the theorem is about the part's own specification, `UmemSpec` or `AgeSpec`, and
the run explores the behaviours of that same specification.

Only model-checked: the liveness properties (`ProbedForever`, `ReachableJoinsPool`,
`DrainIsAnnounced`, `BrokenDaemonEnds`, `GetsThrough`, `ShutdownEnds`, `ConnectionsEnd`,
`FramesReturn`, `OverdueIsReported`), because fairness and `ENABLED` are beyond the prover,
and the violated properties, which are statements of the documentation.

## 5. Findings

* **`control_restore`.** After SIGHUP the new table has every server unhealthy while
  the prober still knows better. The comment at `health.rs:342` says the mirror
  restores this "on the next probe tick rather than waiting for a real
  transition"; but the mirror goes to a clone that `check_and_rebuild`
  (`main.rs:454`) stores only if a server flipped or a MAC is unresolved. With all
  MACs known and all backends steady the live table stays unhealthy.
* **`datapath_stale_cid`.** A CID that is long enough for its configuration but
  whose server id is unknown is dropped (`packet.rs:201`); `packet.rs:100` and
  SCENARIOS.md:110 say that it takes the fallback path.
* **`cid_limits`.** Validation accepts a key with a nonce of 17 or 18 octets, the manual
  (`src/man/pesigitg-lb.toml.5.md:42`) documents `nonce_length` as 4..18, and the sample
  configuration (`src/contrib/etc/pesigitg/lb.toml:24`) lists 1 + 18. The four-pass cipher
  works on blocks of 16 octets. The decoder begins with an odd pass, which indexes such a
  block by every position of the nonce (`src/pesigitg-routing/src/cid.rs:178`): the index
  is out of bounds and the thread panics. The even passes, which copy the nonce into a
  block (line 182), and `encrypt_four_pass` of `quic-lb-core` have the same limit. `FourPassInverts` holds for nonces up to a block.
* **`lifecycle_reload`.** The manual of the daemon says that SIGHUP reloads the daemon
  configuration (`src/man/pesigitgd.8.md:77`). `reload_config` takes the new ports into the
  settings (`config/mod.rs:44`), logs them, and the status API shows them, but only
  `load_ebpf` reconciles PORTS: the filter keeps the ports of the start. The manual of the
  file (`src/man/pesigitgd.conf.5.md:33`) says that changes need a restart, which is
  `PortsAreAsStarted`. The prober's port is that of the start, too.
* **`retry_conforming`.** The Retry's SCID is the DCID of the Initial it answers
  (`retry/datapath.rs:352`; the comment two lines above: "SCID is opaque to the client so we
  reuse the ODCID"). RFC 9000, section 17.2.5.1, forbids that value and has the client
  discard such a packet, so a client that checks never gets a token, and in mode `always` no
  Initial of it gets past the service, where SCENARIOS.md:247 says that it "completes normally".

Further behaviour met while modelling, described here and not stated as a property:

* *Load tracker.* A batch that is processed late carries an older second, and
  `record_batch` rotates the window back to it (it tests for a different second,
  the comment at `retry/load.rs:51` speaks of an advance). Counts are conserved,
  but the newer window is closed early. Rotation needs a batch, so after an idle
  period the first batch is judged by the last busy second. SIGHUP makes a new
  tracker, so the rate starts from zero.
* *Handoff.* A bind that meets EBUSY because the kernel is still releasing the old
  socket is not retried (`threading.rs:389`): the worker exits, the main loop ends
  the daemon, and the program that the handoff kept attached is detached. Only adopted sockets
  give up their descriptors for export; those a process created itself do not,
  though `fdstore.rs:7` speaks of each worker's.
* *Failed start.* When initialisation fails while workers still hold the shared
  handle, `EbpfHandle::drop` does not run and the pins stay; the next process
  adopts or clears them.
* *Rebinding.* The CID index of `conntable.rs:51` "ensures the retransmit reaches the same
  backend" within a queue: tables are per worker, and a rebound 4-tuple that RSS
  steers to another queue starts afresh there. `RebindReachesSameBackend` is about
  one worker.
* *ICMP errors and RSS.* An error about a flow carries the addresses of the router that
  sent it, so the NIC may steer it to a worker without the flow's entry, which passes it
  unless the echoed SCID names a server. A UDP flow's own queue is the only one that
  holds its entry.
* *No port.* With neither a `port` line nor `-p` the settings hold no port and the start
  panics at `args.ports[0]` (`main.rs:229`); `src/man/pesigitgd.conf.5.md:40` says that the
  daemon listens on 443.
* *Key ages.* `same_key` (`src/pesigitg-routing/src/route.rs:66`) tells keys of different
  ciphers apart, so a reload that keeps the octets of a key and changes its cipher restarts
  its age, where `config/route.rs:105` speaks of unchanged key bytes. A warning may be late
  for that, never early (`WarnsOnlyOldKeys`).
* *Key rotation.* A client whose token was made under the old key loses the attempt and
  starts another; SCENARIOS.md:247 counts one more round trip.
* *Draining.* `draining_had_traffic` survives SIGHUP, so a server that begins to drain then
  may be announced as drained for the traffic of another.
* *Tokens.* A wall clock that is set back makes recent tokens future-dated until it
  has caught up (`retry/token.rs:159`); the model's clock does not go back.
* *Counters.* `aggregate` reads `rx_packets` before the verdicts, so one snapshot may
  show more packets forwarded than received.
* *Frames.* The filter masks the length of an extension header with 0x1F, for the
  verifier; the worker does not. The two disagree on headers of 264 octets and more
  (`Astray`), which `FilterMatchesParser` sets aside. The filter needs less of a UDP
  header than the parser, so frames cut inside it are redirected and then not parsed.
* *ICMP errors.* The parser asks for four octets of the echoed UDP header and
  `process_icmp` slices behind eight (`packet.rs:249`). `OnlyCutEchoesPanic` says that
  errors cut in between are the only frames to leave the bounds.
* *backend-config.* Online it always reports `first_octet_encodes_cid_length` as false,
  because `/config` does not show it (`status_api.rs:549`).
* *PID file.* It is opened and truncated before it is locked, and unlinked before the
  lock is released. A start that opens it before the unlink locks an inode without a
  path, and a third daemon can start (`unlinked` in `OneDaemonUntilUnlinked`). A start
  that fails at the lock has already emptied the file of the running daemon; if that
  one's interface is not on its command line, `cleanup` then takes the file for stale.
* *pesigitg-ctl.* A target given as an interface, or none, is signalled by the pid in
  the file without a look at the process, so after a crash a reused pid is signalled
  (`crashed` in `SignalFindsItsDaemon`).
* *Signals.* The README of the repository describes SIGUSR2 as a dump of the
  configuration; the code starts a handoff.

## 6. Not modelled

* Checksums, the computation of AES itself and of the Retry integrity tag, text
  output, TOML and command-line parsing, netlink and bpf system calls themselves:
  data or I/O without control of interest; results are inputs of the models.
* `neigh.rs` beyond the flag it yields, `args.rs`, `config/daemon.rs`, `utils.rs`: parsing
  and I/O.
* Of `pesigitg-ctl`: discovery of status sockets, which yields paths but no pid, and
  the commands that only print an answer of the status API or the pins.
* Test programs (`src/contrib/quic-echo`, `welman`) and build tooling.
* Errors of `unlink` while pins are removed, which the code only logs;
  `pending_fill_peak`; planning of threads to cores.

## 7. Plan

Done: the modules, runs and proofs above. Order of the rest:

1. **MAC values** in `RouteTable` and `Datapath` (a MAC that changes under a resolved
   server), and `Datapath` under `ControlLoop`'s own publications.
2. **Filter and maps**: `FrameFilter` over `Lifecycle`'s PORTS and XSKS during a reconcile.
3. **Proofs** across modules: that `ControlLoop` publishes only tables `Datapath` accepts,
   and `Umem` over `Ring`s instead of queues.
