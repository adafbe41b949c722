------------------------------ MODULE Datapath ------------------------------
(***************************************************************************)
(* The routing decision of the workers (packet.rs, cid.rs, conntable.rs    *)
(* and the loop of threading.rs around them): each worker routes the       *)
(* packets of its queue by a snapshot of the route table and by its own    *)
(* connection table, while the main loop publishes new tables.             *)
(*                                                                         *)
(* A MAC is the address it belongs to.  Time is counted in ticks; a worker *)
(* ages its entries when it samples the clock, so `left` is relative to    *)
(* the worker's `now` and a worker may lag behind the clock.               *)
(***************************************************************************)
EXTENDS RouteTable

CONSTANTS
  Worker,
  Flow,             \* 4-tuples
  Packet,           \* the UDP packets clients may send
  NoServer,         \* what a CID that was not minted for a server decodes to
  Tables,           \* the slot lists the main loop may publish
  PAYLOAD,          \* cid_payload_length of each config
  Queue,            \* RSS: the queue a 4-tuple is steered to
  Hash,             \* FxHasher of a 4-tuple
  ENTRY_TTL, SWEEP_INTERVAL,
  MAX_LAG           \* bound: ticks from a clock sample to the end of its batch

\* A packet: its 4-tuple, header form, the CID's identity, config bits (7: none),
\* the server it decodes to, and how many CID octets the packet has room for
\* (for a long header, the CID's length).
PacketType == [flow: Flow, long: BOOLEAN, id: STRING, config: 0..7,
               server: Addr \cup {NoServer}, octets: Nat]

ASSUME DatapathAssumption ==
  /\ Packet \subseteq PacketType
  /\ NoServer \notin Addr
  /\ Tables \subseteq Seq(Server)
  /\ PAYLOAD \in [ConfigId -> Nat]
  /\ Queue \in [Flow -> Worker]
  /\ Hash \in [Flow -> Nat]
  /\ ENTRY_TTL \in Nat \ {0} /\ SWEEP_INTERVAL \in Nat \ {0} /\ MAX_LAG \in Nat

VARIABLES
  live,       \* the published table
  pc,         \* per worker: "loop", "poll" or "batch"
  snap,       \* per worker: the table its batch loaded, NoTable between batches
  elapsed,    \* per worker: ticks since it sampled the clock
  swept,      \* per worker: its `now` minus last_sweep
  by_flow,    \* per worker: 4-tuple -> entry
  by_dcid,    \* per worker: raw CID -> entry
  down_for,   \* history: ticks since a server was last routable in `live`
  assigned,   \* history: 4-tuple -> a hash assignment and its age
  seen        \* history, per worker: raw CID -> latest backend recorded for it and its age

vars == <<live, pc, snap, elapsed, swept, by_flow, by_dcid, down_for, assigned, seen>>

-----------------------------------------------------------------------------
(* Connection IDs                                                           *)

NoCid == << >>

\* extract_raw_dcid: a long header says how long its CID is, for a short one the
\* caller does.
extract_raw_dcid(p, cid_length) ==
  CASE p.long -> IF p.octets = 0 THEN NoCid ELSE <<p.id, p.octets>>
    [] ~p.long -> IF p.octets < cid_length THEN NoCid ELSE <<p.id, cid_length>>

configs(t) == {t.servers[i].config : i \in DOMAIN t.servers}

cid_length(c) == PAYLOAD[c] + 1

\* The CID by which lookup_config finds a configuration for p, or NoCid.
lookup_config(t, p) ==
  IF p.octets > 0 /\ p.config \in configs(t)
  THEN extract_raw_dcid(p, cid_length(p.config))
  ELSE NoCid

\* resolve_server_idx: the slots of p's configuration its CID decodes to.
resolve_server_idx(t, p, dcid) ==
  {i \in DOMAIN t.servers : /\ t.servers[i].config = p.config
                            /\ t.servers[i].address = p.server
                            /\ dcid # NoCid
                            /\ dcid[2] >= 1 + PAYLOAD[p.config]}

\* The raw CID of the fallback path, cut by the first active configuration.
fallback_dcid(t, p) ==
  IF configs(t) = {} THEN NoCid
  ELSE extract_raw_dcid(p, cid_length(CHOOSE c \in configs(t) :
                                        \A d \in configs(t) : c <= d))

-----------------------------------------------------------------------------
(* Connection table                                                         *)

Entry == [mac: Addr, left: Int]

is_expired(e) == e.left <= 0

Put(map, k, e) == [x \in DOMAIN map \cup {k} |-> IF x = k THEN e ELSE map[x]]

NewEntry(mac) == [mac |-> mac, left |-> ENTRY_TTL]

\* Mutant: an entry is still good in the tick it expires in.
LiveAtDeadline(map, k) == k \in DOMAIN map /\ map[k].left >= 0

Live(map, k) == k \in DOMAIN map /\ ~is_expired(map[k])

\* Mutant: the 4-tuple index only.
LookupFlowOnly(w, flow, dcid) ==
  IF Live(by_flow[w], flow) THEN {by_flow[w][flow].mac} ELSE {}

\* lookup: the 4-tuple first, then the raw CID; {} for None.
lookup(w, flow, dcid) ==
  IF Live(by_flow[w], flow) THEN {by_flow[w][flow].mac}
  ELSE IF dcid # NoCid /\ Live(by_dcid[w], dcid) THEN {by_dcid[w][dcid].mac}
  ELSE {}

\* fallback_mac
fallback_mac(t, flow) ==
  LET n == Len(t.fallback_servers)
  IN  IF n = 0 THEN {} ELSE {t.fallback_servers[(Hash[flow] % n) + 1].address}

-----------------------------------------------------------------------------
(* process_udp: what becomes of packet p in worker w's batch                *)

CidTarget(w, p) ==
  {i \in resolve_server_idx(snap[w], p, lookup_config(snap[w], p)) :
     snap[w].servers[i].healthy /\ snap[w].servers[i].mac}

\* A CID as long as its configuration's that leads to no usable server is
\* dropped (CidUnroutableNoServer, CidUnroutableBadServerId).
Dropped(w, p) ==
  LET dcid == lookup_config(snap[w], p)
  IN  dcid # NoCid /\ CidTarget(w, p) = {} /\ dcid[2] > PAYLOAD[p.config]

Sticky(w, p) == lookup(w, p.flow, fallback_dcid(snap[w], p))

\* The backends p may be sent to: one, or none when it is dropped or passed.
Target(w, p) ==
  IF CidTarget(w, p) # {} THEN {snap[w].servers[i].address : i \in CidTarget(w, p)}
  ELSE IF Dropped(w, p) THEN {}
  ELSE IF Sticky(w, p) # {} THEN Sticky(w, p)
  ELSE fallback_mac(snap[w], p.flow)

\* process_icmp: where worker w sends an error about flow f that echoes a packet with
\* the SCID of p.  Health plays no part.  The NIC hashes the error's own addresses, so
\* w need not be the worker of f's queue; one that has no entry for f passes it.
IcmpTarget(w, f, p) ==
  LET scid == IF p.long THEN <<p.id, p.octets>> ELSE NoCid
      slots == {i \in resolve_server_idx(snap[w], p, scid) : snap[w].servers[i].mac}
  IN  IF p.config \in configs(snap[w]) /\ slots # {}
      THEN {snap[w].servers[i].address : i \in slots}
      ELSE lookup(w, f, NoCid)

-----------------------------------------------------------------------------
(* The main loop and the clock                                              *)

Table(slots) ==
  rebuild_fallback_servers([servers |-> slots, fallback_servers |-> << >>])

\* What a worker holds between batches.
NoTable == Table(<< >>)

AnyTable == {Table(slots) : slots \in Tables}

\* Does the table route connection IDs to address a?
Routable(t, a) ==
  \E i \in DOMAIN t.servers :
    t.servers[i].address = a /\ t.servers[i].healthy /\ t.servers[i].mac

\* Where the history stops counting.
DOWN_CAP == ENTRY_TTL + MAX_LAG

Init ==
  /\ live \in AnyTable
  /\ pc = [w \in Worker |-> "loop"]
  /\ snap = [w \in Worker |-> NoTable]
  /\ elapsed = [w \in Worker |-> 0]
  /\ swept = [w \in Worker |-> 0]
  /\ by_flow = [w \in Worker |-> << >>]
  /\ by_dcid = [w \in Worker |-> << >>]
  /\ down_for = [a \in Addr |-> IF Routable(live, a) THEN 0 ELSE DOWN_CAP]
  /\ assigned = << >>
  /\ seen = [w \in Worker |-> << >>]

\* reload_config or check_and_rebuild stores a table.
Publish(t) ==
  /\ live' = t
  /\ down_for' = [a \in Addr |-> IF Routable(live', a) \/ Routable(live, a)
                                 THEN 0 ELSE down_for[a]]
  /\ UNCHANGED <<pc, snap, elapsed, swept, by_flow, by_dcid, assigned, seen>>

\* The records of a history that are still within the TTL a tick later.
Aged(h) ==
  [k \in {x \in DOMAIN h : h[x].age + 1 < ENTRY_TTL} |-> [h[k] EXCEPT !.age = @ + 1]]

Tick ==
  /\ \A w \in Worker : elapsed[w] < MAX_LAG
  /\ elapsed' = [w \in Worker |-> elapsed[w] + 1]
  /\ down_for' = [a \in Addr |-> IF Routable(live, a) \/ down_for[a] = DOWN_CAP
                                 THEN down_for[a] ELSE down_for[a] + 1]
  /\ assigned' = Aged(assigned)
  /\ seen' = [w \in Worker |-> Aged(seen[w])]
  /\ UNCHANGED <<live, pc, snap, swept, by_flow, by_dcid>>

-----------------------------------------------------------------------------
(* The worker's loop                                                        *)

\* The entries as the new `now` sees them.
Later(map, n) == [k \in DOMAIN map |-> [map[k] EXCEPT !.left = @ - n]]

Retain(map) == [k \in {x \in DOMAIN map : ~is_expired(map[x])} |-> map[k]]

\* Mutant: the CID index is never swept.
SweepFlowsOnly(w) ==
  LET n == elapsed[w] IN
  IF swept[w] + n < SWEEP_INTERVAL
  THEN /\ swept' = [swept EXCEPT ![w] = @ + n]
       /\ by_flow' = [by_flow EXCEPT ![w] = Later(@, n)]
       /\ by_dcid' = [by_dcid EXCEPT ![w] = Later(@, n)]
  ELSE /\ swept' = [swept EXCEPT ![w] = 0]
       /\ by_flow' = [by_flow EXCEPT ![w] = Retain(Later(@, n))]
       /\ by_dcid' = [by_dcid EXCEPT ![w] = Later(@, n)]

\* maybe_sweep with the `now` sampled just before it.
maybe_sweep(w) ==
  LET n == elapsed[w] IN
  IF swept[w] + n < SWEEP_INTERVAL
  THEN /\ swept' = [swept EXCEPT ![w] = @ + n]
       /\ by_flow' = [by_flow EXCEPT ![w] = Later(@, n)]
       /\ by_dcid' = [by_dcid EXCEPT ![w] = Later(@, n)]
  ELSE /\ swept' = [swept EXCEPT ![w] = 0]
       /\ by_flow' = [by_flow EXCEPT ![w] = Retain(Later(@, n))]
       /\ by_dcid' = [by_dcid EXCEPT ![w] = Retain(Later(@, n))]

SampleClock(w) ==
  /\ pc[w] = "loop"
  /\ maybe_sweep(w)
  /\ elapsed' = [elapsed EXCEPT ![w] = 0]
  /\ pc' = [pc EXCEPT ![w] = "poll"]
  /\ UNCHANGED <<live, snap, down_for, assigned, seen>>

PollTimeout(w) ==
  /\ pc[w] = "poll"
  /\ pc' = [pc EXCEPT ![w] = "loop"]
  /\ UNCHANGED <<live, snap, elapsed, swept, by_flow, by_dcid, down_for, assigned, seen>>

LoadSnapshot(w) ==
  /\ pc[w] = "poll"
  /\ snap' = [snap EXCEPT ![w] = live]
  /\ pc' = [pc EXCEPT ![w] = "batch"]
  /\ UNCHANGED <<live, elapsed, swept, by_flow, by_dcid, down_for, assigned, seen>>

\* The end of the iteration drops the snapshot.
EndBatch(w) ==
  /\ pc[w] = "batch"
  /\ pc' = [pc EXCEPT ![w] = "loop"]
  /\ snap' = [snap EXCEPT ![w] = NoTable]
  /\ UNCHANGED <<live, elapsed, swept, by_flow, by_dcid, down_for, assigned, seen>>

\* CidForward, CidForwardDraining: record_dcid
CidForward(w, p) ==
  /\ CidTarget(w, p) # {}
  /\ \E mac \in Target(w, p) :
       LET dcid == lookup_config(snap[w], p) IN
       /\ by_dcid' = [by_dcid EXCEPT ![w] = Put(@, dcid, NewEntry(mac))]
       /\ seen' = [seen EXCEPT ![w] = Put(@, dcid, [mac |-> mac, age |-> 0])]
  /\ UNCHANGED <<by_flow, assigned>>

\* CidUnroutable*, a hit in the connection table, or Pass: nothing is recorded.
NotRecorded(w, p) ==
  /\ CidTarget(w, p) = {}
  /\ Dropped(w, p) \/ Sticky(w, p) # {} \/ fallback_mac(snap[w], p.flow) = {}
  /\ UNCHANGED <<by_flow, by_dcid, assigned, seen>>

\* Is the record recent enough that every worker must still hold it unexpired?
Recent(r) == r.age + MAX_LAG < ENTRY_TTL

\* Mutant: the hash is taken although the connection table has an entry.
AssignAlways(w, p) ==
  /\ CidTarget(w, p) = {} /\ ~Dropped(w, p)
  /\ \E mac \in fallback_mac(snap[w], p.flow) :
       LET dcid == fallback_dcid(snap[w], p)
           now == [mac |-> mac, age |-> 0] IN
       /\ by_flow' = [by_flow EXCEPT ![w] = Put(@, p.flow, NewEntry(mac))]
       /\ by_dcid' = [by_dcid EXCEPT ![w] =
                        IF dcid = NoCid THEN @ ELSE Put(@, dcid, NewEntry(mac))]
       /\ assigned' = IF p.flow \in DOMAIN assigned /\ Recent(assigned[p.flow])
                       THEN assigned ELSE Put(assigned, p.flow, now)
       /\ seen' = [seen EXCEPT ![w] = IF dcid = NoCid THEN @ ELSE Put(@, dcid, now)]

\* A hash assignment: insert
Assign(w, p) ==
  /\ CidTarget(w, p) = {} /\ ~Dropped(w, p) /\ Sticky(w, p) = {}
  /\ \E mac \in fallback_mac(snap[w], p.flow) :
       LET dcid == fallback_dcid(snap[w], p)
           now == [mac |-> mac, age |-> 0] IN
       /\ by_flow' = [by_flow EXCEPT ![w] = Put(@, p.flow, NewEntry(mac))]
       /\ by_dcid' = [by_dcid EXCEPT ![w] =
                        IF dcid = NoCid THEN @ ELSE Put(@, dcid, NewEntry(mac))]
       /\ assigned' = IF p.flow \in DOMAIN assigned /\ Recent(assigned[p.flow])
                       THEN assigned ELSE Put(assigned, p.flow, now)
       /\ seen' = [seen EXCEPT ![w] = IF dcid = NoCid THEN @ ELSE Put(@, dcid, now)]

process_udp(w, p) ==
  /\ pc[w] = "batch"
  /\ Queue[p.flow] = w
  /\ CidForward(w, p) \/ NotRecorded(w, p) \/ Assign(w, p)
  /\ UNCHANGED <<live, pc, snap, elapsed, swept, down_for>>

Next ==
  \/ \E t \in AnyTable : Publish(t)
  \/ Tick
  \/ \E w \in Worker :
       \/ SampleClock(w)
       \/ PollTimeout(w)
       \/ LoadSnapshot(w)
       \/ EndBatch(w)
       \/ \E p \in Packet : process_udp(w, p)

Spec == Init /\ [][Next]_vars

-----------------------------------------------------------------------------
(* Properties                                                               *)

\* Stickiness (conntable.rs): while a hash assignment of a 4-tuple is within its
\* TTL, less the lag of the clock sample, the 4-tuple's worker keeps it, whatever
\* tables are published and whatever other packets are routed in between.
FlowPinned ==
  \A f \in DOMAIN assigned :
    Recent(assigned[f]) => /\ Live(by_flow[Queue[f]], f)
                           /\ by_flow[Queue[f]][f].mac = assigned[f].mac

\* An entry is not refreshed by its use, so a server that stopped being routable
\* gets its last UDP packet within ENTRY_TTL and the lag of one batch (process_udp,
\* ConnectionTable::lookup).  So it does its last ICMP error, whatever worker the NIC
\* steers that to, unless the echoed packet has an SCID of the server: process_icmp
\* routes by it as long as the table lists the server.
DownIsAbandoned ==
  \A w \in Worker, p \in Packet :
    pc[w] = "batch" =>
      /\ Queue[p.flow] = w => \A a \in Target(w, p) : down_for[a] < DOWN_CAP
      /\ p.server = NoServer => \A a \in IcmpTarget(w, p.flow, p) : down_for[a] < DOWN_CAP

\* NAT rebinding (conntable.rs:51, "This index ensures the retransmit reaches the
\* same backend"): a packet that needs the fallback path and whose 4-tuple is not
\* pinned goes to the backend its connection ID was last routed to by the worker
\* of its queue.  The tables are per worker: a 4-tuple that RSS steers to another
\* queue starts afresh there.
RebindReachesSameBackend ==
  \A w \in Worker, p \in Packet :
    LET dcid == fallback_dcid(snap[w], p) IN
    (/\ pc[w] = "batch" /\ Queue[p.flow] = w
     /\ CidTarget(w, p) = {} /\ ~Dropped(w, p)
     /\ ~Live(by_flow[w], p.flow)
     /\ dcid \in DOMAIN seen[w] /\ Recent(seen[w][dcid]))
    => Target(w, p) = {seen[w][dcid].mac}

\* maybe_sweep bounds the tables: an expired entry of either index outlives its
\* deadline by less than SWEEP_INTERVAL of the worker's clock.
LingersLessThanAnInterval ==
  \A w \in Worker :
    /\ \A f \in DOMAIN by_flow[w] : by_flow[w][f].left > -SWEEP_INTERVAL
    /\ \A k \in DOMAIN by_dcid[w] : by_dcid[w][k].left > -SWEEP_INTERVAL

\* Documented (packet.rs:100): "if the CID is unroutable (client-generated, wrong
\* config rotation)", the packet takes the fallback path; SCENARIOS.md:110 says
\* the same of the stale CIDs of a removed server.
UnroutableFallsBack ==
  \A w \in Worker, p \in Packet :
    (/\ pc[w] = "batch" /\ resolve_server_idx(snap[w], p, lookup_config(snap[w], p)) = {}
     /\ snap[w].fallback_servers # << >>)
    => Target(w, p) # {}
=============================================================================
