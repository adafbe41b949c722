--------------------------- MODULE DatapathProofs ---------------------------
(***************************************************************************)
(* The routing promises of the datapath for any number of workers, flows,  *)
(* packets and tables and any TTL, sweep interval and lag.  The argument   *)
(* relates four clocks: an entry's `left` counts from its worker's last    *)
(* clock sample, `elapsed` from that sample to the present, `swept` from   *)
(* the last sweep to the sample, and the ages of the histories are in real *)
(* ticks.                                                                  *)
(***************************************************************************)
EXTENDS Datapath, RouteTableProofs

-----------------------------------------------------------------------------
(* The inductive invariant                                                  *)

Entries(map) == \A k \in DOMAIN map : map[k] \in Entry

Records(h) == \A k \in DOMAIN h : h[k] \in [mac: Addr, age: Nat]

IsTable(t) == t \in AnyTable \cup {NoTable}

Types ==
  /\ live \in AnyTable
  /\ pc \in [Worker -> {"loop", "poll", "batch"}]
  /\ snap \in [Worker -> AnyTable \cup {NoTable}]
  /\ elapsed \in [Worker -> 0..MAX_LAG]
  /\ swept \in [Worker -> 0..SWEEP_INTERVAL - 1]
  /\ DOMAIN by_flow = Worker /\ \A w \in Worker : Entries(by_flow[w])
  /\ DOMAIN by_dcid = Worker /\ \A w \in Worker : Entries(by_dcid[w])
  /\ by_flow = [w \in Worker |-> by_flow[w]] /\ by_dcid = [w \in Worker |-> by_dcid[w]]
  /\ down_for \in [Addr -> Nat]
  /\ Records(assigned)
  /\ seen = [w \in Worker |-> seen[w]] /\ \A w \in Worker : Records(seen[w])
  /\ \A f \in DOMAIN assigned : f \in Flow
  /\ \A w \in Worker : NoCid \notin DOMAIN seen[w]

\* The index still holds the record's backend, and the entry has at least the
\* time left that the record's age, the lag of the clock sample and the ticks
\* since leave of the TTL.
Holds(map, k, r, ticks) ==
  /\ k \in DOMAIN map
  /\ map[k].mac = r.mac
  /\ map[k].left >= ENTRY_TTL - MAX_LAG + ticks - r.age

FlowsKept ==
  \A f \in DOMAIN assigned :
    Recent(assigned[f]) => Holds(by_flow[Queue[f]], f, assigned[f], elapsed[Queue[f]])

CidsKept ==
  \A w \in Worker : \A k \in DOMAIN seen[w] :
    Recent(seen[w][k]) => Holds(by_dcid[w], k, seen[w][k], elapsed[w])

\* Every entry was good at the last sweep or is younger than it.
SweptSince(map, since) == \A k \in DOMAIN map : map[k].left + since > 0

Swept ==
  \A w \in Worker : SweptSince(by_flow[w], swept[w]) /\ SweptSince(by_dcid[w], swept[w])

\* A backend was routable when its entry was made.
MadeWhileUp(map, ticks) ==
  \A k \in DOMAIN map : down_for[map[k].mac] <= ENTRY_TTL - map[k].left + ticks

UpWhenRecorded ==
  \A w \in Worker : MadeWhileUp(by_flow[w], elapsed[w]) /\ MadeWhileUp(by_dcid[w], elapsed[w])

\* What a snapshot routes to was routable when the snapshot was taken, and the
\* clock was sampled before that.
SnapshotsFresh ==
  /\ \A a \in Addr : Routable(live, a) => down_for[a] = 0
  /\ \A w \in Worker : pc[w] = "batch" =>
       \A a \in Addr : Routable(snap[w], a) => down_for[a] <= elapsed[w]

IInv == Types /\ FlowsKept /\ CidsKept /\ Swept /\ UpWhenRecorded /\ SnapshotsFresh

-----------------------------------------------------------------------------
(* The operators                                                            *)

LEMMA NewEntryType ==
  ASSUME NEW mac \in Addr
  PROVE  NewEntry(mac) \in Entry /\ NewEntry(mac).mac = mac /\ NewEntry(mac).left = ENTRY_TTL
BY DatapathAssumption DEF NewEntry, Entry

LEMMA LaterFacts ==
  ASSUME NEW map, Entries(map), NEW n \in Nat
  PROVE  /\ DOMAIN Later(map, n) = DOMAIN map
         /\ Entries(Later(map, n))
         /\ \A k \in DOMAIN map : /\ Later(map, n)[k].mac = map[k].mac
                                  /\ Later(map, n)[k].left = map[k].left - n
BY DEF Later, Entries, Entry

LEMMA RetainFacts ==
  ASSUME NEW map, Entries(map)
  PROVE  /\ DOMAIN Retain(map) = {k \in DOMAIN map : map[k].left > 0}
         /\ Entries(Retain(map))
         /\ \A k \in DOMAIN Retain(map) : Retain(map)[k] = map[k]
BY DEF Retain, is_expired, Entries, Entry

LEMMA AgedFacts ==
  ASSUME NEW h, Records(h)
  PROVE  /\ DOMAIN Aged(h) \subseteq DOMAIN h
         /\ Records(Aged(h))
         /\ \A k \in DOMAIN Aged(h) : Aged(h)[k].mac = h[k].mac /\ Aged(h)[k].age = h[k].age + 1
<1>1. \A k \in DOMAIN h : h[k].mac \in Addr /\ h[k].age \in Nat
  BY DEF Records
<1>2. \A k \in DOMAIN Aged(h) : /\ k \in DOMAIN h
                                /\ Aged(h)[k] = [h[k] EXCEPT !.age = h[k].age + 1]
  BY DEF Aged
<1>3. QED
  BY <1>1, <1>2 DEF Records

\* What rebuild_fallback_servers puts in the pool is a usable server of the table.
LEMMA TableFacts ==
  ASSUME NEW t, IsTable(t)
  PROVE  /\ t.servers \in Seq(Server)
         /\ t.fallback_servers \in Seq(Server)
         /\ \A k \in DOMAIN t.fallback_servers :
              /\ t.fallback_servers[k].address \in Addr
              /\ Routable(t, t.fallback_servers[k].address)
<1>1. PICK s \in Seq(Server) : t = Table(s)
  <2>1. << >> \in Seq(Server)
    OBVIOUS
  <2>2. QED
    BY <2>1, DatapathAssumption, Zenon DEF IsTable, AnyTable, NoTable
<1>2. t.servers = s /\ t.fallback_servers = PoolOf(s)
  BY <1>1 DEF Table, rebuild_fallback_servers
<1>3. PoolOf(s) \in Seq(Server) /\ IsPoolOf(PoolOf(s), s)
  BY PoolCorrect
<1>4. PICK idx \in [DOMAIN PoolOf(s) -> DOMAIN s] :
        /\ {idx[k] : k \in DOMAIN PoolOf(s)} = {i \in DOMAIN s : FirstAssignable(s, i)}
        /\ \A k \in DOMAIN PoolOf(s) : PoolOf(s)[k] = s[idx[k]]
  BY <1>3, Zenon DEF IsPoolOf
<1>5. ASSUME NEW k \in DOMAIN PoolOf(s)
      PROVE  PoolOf(s)[k].address \in Addr /\ Routable(t, PoolOf(s)[k].address)
  <2>1. idx[k] \in DOMAIN s /\ FirstAssignable(s, idx[k])
    BY <1>4
  <2>2. s[idx[k]].healthy /\ s[idx[k]].mac /\ s[idx[k]] \in Server
    BY <2>1 DEF FirstAssignable, Assignable
  <2>3. QED
    BY <1>2, <1>4, <2>1, <2>2, Zenon DEF Routable, Server
<1>6. QED
  BY <1>2, <1>3, <1>5

\* fallback_mac picks from the pool.
LEMMA FallbackFacts ==
  ASSUME NEW t, IsTable(t), NEW f \in Flow
  PROVE  \A a \in fallback_mac(t, f) : a \in Addr /\ Routable(t, a)
<1>1. SUFFICES ASSUME Len(t.fallback_servers) # 0
               PROVE  (Hash[f] % Len(t.fallback_servers)) + 1 \in DOMAIN t.fallback_servers
  BY TableFacts DEF fallback_mac
<1>2. Len(t.fallback_servers) \in Nat /\ DOMAIN t.fallback_servers = 1..Len(t.fallback_servers)
  BY TableFacts
<1>3. Hash[f] \in Nat
  BY DatapathAssumption
<1>4. Hash[f] % Len(t.fallback_servers) \in 0..Len(t.fallback_servers) - 1
  BY <1>1, <1>2, <1>3
<1>5. QED
  BY <1>2, <1>4

LEMMA CidTargetFacts ==
  ASSUME NEW w \in Worker, NEW p, IsTable(snap[w])
  PROVE  \A i \in CidTarget(w, p) : /\ snap[w].servers[i].address \in Addr
                                    /\ Routable(snap[w], snap[w].servers[i].address)
                                    /\ lookup_config(snap[w], p) # NoCid
<1>1. \A i \in CidTarget(w, p) : /\ i \in DOMAIN snap[w].servers
                                 /\ snap[w].servers[i].healthy /\ snap[w].servers[i].mac
                                 /\ lookup_config(snap[w], p) # NoCid
  BY Zenon DEF CidTarget, resolve_server_idx
<1>2. snap[w].servers \in Seq(Server)
  BY TableFacts
<1>3. \A i \in DOMAIN snap[w].servers : snap[w].servers[i] \in Server
  BY <1>2
<1>4. QED
  BY <1>1, <1>3, Zenon DEF Routable, Server

\* An entry that holds a recent record is live.
LEMMA RecentIsLive ==
  ASSUME NEW map, Entries(map), NEW k, NEW r, r.age \in Nat, Recent(r),
         NEW n \in Nat, Holds(map, k, r, n)
  PROVE  Live(map, k) /\ map[k].mac = r.mac
<1>1. k \in DOMAIN map /\ map[k].mac = r.mac /\ map[k].left \in Int
  BY DEF Holds, Entries, Entry
<1>2. map[k].left > 0
  BY <1>1, DatapathAssumption DEF Holds, Recent
<1>3. QED
  BY <1>1, <1>2 DEF Live, is_expired

\* A step that changes nothing keeps everything.
LEMMA Stutter ==
  ASSUME IInv, UNCHANGED vars
  PROVE  IInv'
<1> USE DEF vars
<1>1. Types'
  BY DEF IInv, Types, Entries, Records
<1>2. FlowsKept'
  BY DEF IInv, FlowsKept, Recent, Holds
<1>3. CidsKept'
  BY DEF IInv, CidsKept, Recent, Holds
<1>4. Swept'
  BY DEF IInv, Swept, SweptSince
<1>5. UpWhenRecorded'
  BY Zenon DEF IInv, UpWhenRecorded, MadeWhileUp
<1>6. SnapshotsFresh'
  BY Zenon DEF IInv, SnapshotsFresh, Routable
<1>7. QED
  BY <1>1, <1>2, <1>3, <1>4, <1>5, <1>6 DEF IInv

-----------------------------------------------------------------------------
(* Initial states                                                           *)

LEMMA DatapathInit == Init => IInv
<1> SUFFICES ASSUME Init PROVE IInv
  OBVIOUS
<1> USE DatapathAssumption
<1>1. DOMAIN << >> = {}
  OBVIOUS
<1>2. Entries(<< >>) /\ Records(<< >>) /\ NoCid \notin DOMAIN << >>
  BY <1>1 DEF Entries, Records
<1>3. Types
  <2>1. DOWN_CAP \in Nat
    BY DEF DOWN_CAP
  <2>2. /\ elapsed \in [Worker -> 0..MAX_LAG] /\ swept \in [Worker -> 0..SWEEP_INTERVAL - 1]
        /\ down_for \in [Addr -> Nat]
    BY <2>1 DEF Init
  <2>3. /\ by_flow = [w \in Worker |-> by_flow[w]] /\ by_dcid = [w \in Worker |-> by_dcid[w]]
        /\ DOMAIN by_flow = Worker /\ DOMAIN by_dcid = Worker
        /\ seen = [w \in Worker |-> seen[w]]
        /\ \A w \in Worker : by_flow[w] = << >> /\ by_dcid[w] = << >> /\ seen[w] = << >>
    BY DEF Init
  <2>4. pc \in [Worker -> {"loop", "poll", "batch"}] /\ snap \in [Worker -> AnyTable \cup {NoTable}]
    BY DEF Init
  <2>5. live \in AnyTable /\ assigned = << >>
    BY DEF Init
  <2>6. QED
    BY <1>1, <1>2, <2>2, <2>3, <2>4, <2>5 DEF Types
<1>4. FlowsKept /\ CidsKept
  BY <1>1 DEF Init, FlowsKept, CidsKept
<1>5. Swept /\ UpWhenRecorded
  BY <1>1 DEF Init, Swept, SweptSince, UpWhenRecorded, MadeWhileUp
<1>6. SnapshotsFresh
  BY DEF Init, SnapshotsFresh
<1>7. QED
  BY <1>3, <1>4, <1>5, <1>6 DEF IInv

-----------------------------------------------------------------------------
(* The main loop and the clock                                              *)

LEMMA PublishStep ==
  ASSUME IInv, NEW t \in AnyTable, Publish(t)
  PROVE  IInv'
<1>1. Types'
  BY DEF IInv, Types, Publish, Entries, Records
<1>2. \A a \in Addr : down_for'[a] <= down_for[a] /\ down_for'[a] \in Nat
  BY DEF IInv, Types, Publish
<1>3. FlowsKept' /\ CidsKept' /\ Swept'
  BY ZenonT(30) DEF IInv, Publish, FlowsKept, CidsKept, Swept, SweptSince, Holds, Recent
<1>4. UpWhenRecorded'
  <2>1. ASSUME NEW map, Entries(map), NEW n \in 0..MAX_LAG, MadeWhileUp(map, n)
        PROVE  \A k \in DOMAIN map : down_for'[map[k].mac] <= ENTRY_TTL - map[k].left + n
    <3>1. \A k \in DOMAIN map : map[k].mac \in Addr /\ map[k].left \in Int
      BY <2>1 DEF Entries, Entry
    <3> SUFFICES ASSUME NEW k \in DOMAIN map
                 PROVE  down_for'[map[k].mac] <= ENTRY_TTL - map[k].left + n
      BY Zenon
    <3> DEFINE was == down_for[map[k].mac]
               is == down_for'[map[k].mac]
               left == map[k].left
    <3>2. was <= ENTRY_TTL - left + n /\ left \in Int
      BY <2>1, <3>1, Zenon DEF MadeWhileUp
    <3>3. is \in Nat /\ is <= was /\ was \in Nat
      BY <1>2, <3>1 DEF IInv, Types
    <3>4. ENTRY_TTL \in Nat
      BY DatapathAssumption
    <3> HIDE DEF was, is, left
    <3>5. is <= ENTRY_TTL - left + n
      BY <3>2, <3>3, <3>4
    <3> QED BY <3>5, Zenon DEF is, left
  <2>2. \A w \in Worker : elapsed[w] \in 0..MAX_LAG /\ Entries(by_flow[w]) /\ Entries(by_dcid[w])
    BY DEF IInv, Types
  <2>3. QED
    BY <2>1, <2>2, Zenon DEF IInv, UpWhenRecorded, MadeWhileUp, Publish
<1>5. SnapshotsFresh'
  BY <1>2, DatapathAssumption DEF IInv, Types, SnapshotsFresh, Publish
<1>6. QED
  BY <1>1, <1>3, <1>4, <1>5 DEF IInv

LEMMA TickStep ==
  ASSUME IInv, Tick
  PROVE  IInv'
<1> USE DatapathAssumption
<1>1. /\ elapsed' \in [Worker -> 0..MAX_LAG]
      /\ \A w \in Worker : elapsed'[w] = elapsed[w] + 1 /\ elapsed[w] \in 0..MAX_LAG
  BY DEF IInv, Types, Tick
<1>2. /\ down_for' \in [Addr -> Nat]
      /\ \A a \in Addr : down_for[a] \in Nat /\ down_for'[a] <= down_for[a] + 1
      /\ \A a \in Addr : Routable(live, a) => down_for'[a] = down_for[a]
  BY DEF IInv, Types, Tick
<1>3. Types'
  <2>1. /\ Records(assigned') /\ DOMAIN assigned' \subseteq DOMAIN assigned
        /\ \A w \in Worker : /\ Records(seen[w]) /\ NoCid \notin DOMAIN seen[w]
                             /\ Records(Aged(seen[w])) /\ DOMAIN Aged(seen[w]) \subseteq DOMAIN seen[w]
    BY AgedFacts, Zenon DEF IInv, Types, Tick
  <2>2. /\ seen' = [w \in Worker |-> seen'[w]]
        /\ \A w \in Worker : Records(seen'[w]) /\ NoCid \notin DOMAIN seen'[w]
    BY <2>1 DEF Tick
  <2>3. \A f \in DOMAIN assigned' : f \in Flow
    BY <2>1 DEF IInv, Types
  <2>4. QED
    BY <1>1, <1>2, <2>1, <2>2, <2>3, Zenon DEF IInv, Types, Tick
<1>0. ASSUME NEW map, NEW k, NEW r, NEW q, NEW n \in 0..MAX_LAG, map[k].left \in Int,
             r.age \in Nat, q.mac = r.mac, q.age = r.age + 1, Holds(map, k, r, n)
      PROVE  Holds(map, k, q, n + 1)
  BY <1>0, SMTT(20) DEF Holds
<1>4. ASSUME NEW h, Records(h), NEW map, Entries(map), NEW n \in 0..MAX_LAG,
             \A k \in DOMAIN h : Recent(h[k]) => Holds(map, k, h[k], n)
      PROVE  \A k \in DOMAIN Aged(h) : Recent(Aged(h)[k]) => Holds(map, k, Aged(h)[k], n + 1)
  <2> SUFFICES ASSUME NEW k \in DOMAIN Aged(h), Recent(Aged(h)[k])
               PROVE  Holds(map, k, Aged(h)[k], n + 1)
    OBVIOUS
  <2>1. k \in DOMAIN h /\ Aged(h)[k].mac = h[k].mac /\ Aged(h)[k].age = h[k].age + 1
    BY <1>4, AgedFacts
  <2>2. h[k].age \in Nat
    BY <1>4, <2>1 DEF Records
  <2>3. Holds(map, k, h[k], n)
    BY <1>4, <2>1, <2>2 DEF Recent
  <2>4. map[k].left \in Int
    BY <1>4, <2>3 DEF Holds, Entries, Entry
  <2>5. QED
    BY <1>0, <2>1, <2>2, <2>3, <2>4
<1>5. FlowsKept'
  <2> SUFFICES ASSUME NEW f \in DOMAIN assigned', Recent(assigned'[f])
               PROVE  Holds(by_flow[Queue[f]], f, assigned'[f], elapsed'[Queue[f]])
    BY Zenon DEF FlowsKept, Recent, Holds, Tick
  <2>1. f \in DOMAIN assigned /\ f \in Flow /\ Queue[f] \in Worker
    BY AgedFacts, Zenon DEF IInv, Types, Tick
  <2>2. elapsed'[Queue[f]] = elapsed[Queue[f]] + 1 /\ elapsed[Queue[f]] \in 0..MAX_LAG
    BY <1>1, <2>1
  <2>3. assigned'[f].mac = assigned[f].mac /\ assigned'[f].age = assigned[f].age + 1
    BY AgedFacts DEF IInv, Types, Tick
  <2>4. assigned[f].age \in Nat
    BY <2>1, Zenon DEF IInv, Types, Records
  <2>5. Holds(by_flow[Queue[f]], f, assigned[f], elapsed[Queue[f]])
    BY <2>1, <2>3, <2>4 DEF IInv, FlowsKept, Recent
  <2>6. by_flow[Queue[f]][f].left \in Int
    BY <2>1, <2>5, Zenon DEF IInv, Types, Entries, Entry, Holds
  <2>7. Holds(by_flow[Queue[f]], f, assigned'[f], elapsed[Queue[f]] + 1)
    BY <1>0, <2>2, <2>3, <2>4, <2>5, <2>6, Zenon
  <2>8. QED
    BY <2>2, <2>7
<1>6. CidsKept'
  <2>1. \A w \in Worker : \A k \in DOMAIN Aged(seen[w]) :
          Recent(Aged(seen[w])[k]) => Holds(by_dcid[w], k, Aged(seen[w])[k], elapsed[w] + 1)
    BY <1>1, <1>4, Zenon DEF IInv, Types, CidsKept
  <2>2. \A w \in Worker : seen'[w] = Aged(seen[w]) /\ elapsed'[w] = elapsed[w] + 1
    BY DEF Tick
  <2>3. QED
    BY <2>1, <2>2, ZenonT(30) DEF CidsKept, Recent, Holds, Tick
<1>7. Swept'
  BY Zenon DEF IInv, Swept, SweptSince, Tick
<1>8. UpWhenRecorded'
  <2>1. ASSUME NEW map, Entries(map), NEW n \in 0..MAX_LAG, MadeWhileUp(map, n)
        PROVE  \A k \in DOMAIN map : down_for'[map[k].mac] <= ENTRY_TTL - map[k].left + n + 1
    <3>1. \A k \in DOMAIN map : map[k].mac \in Addr /\ map[k].left \in Int
      BY <2>1 DEF Entries, Entry
    <3> SUFFICES ASSUME NEW k \in DOMAIN map
                 PROVE  down_for'[map[k].mac] <= ENTRY_TTL - map[k].left + n + 1
      BY Zenon
    <3> DEFINE was == down_for[map[k].mac]
               is == down_for'[map[k].mac]
               left == map[k].left
    <3>2. was <= ENTRY_TTL - left + n /\ left \in Int
      BY <2>1, <3>1, Zenon DEF MadeWhileUp
    <3>3. is \in Nat /\ is <= was + 1 /\ was \in Nat
      BY <1>2, <3>1, Zenon
    <3>4. ENTRY_TTL \in Nat
      BY DatapathAssumption
    <3> HIDE DEF was, is, left
    <3>5. is <= ENTRY_TTL - left + n + 1
      BY <3>2, <3>3, <3>4
    <3> QED BY <3>5, Zenon DEF is, left
  <2>2. \A w \in Worker : Entries(by_flow[w]) /\ Entries(by_dcid[w])
    BY Zenon DEF IInv, Types
  <2>3. \A w \in Worker :
          /\ \A k \in DOMAIN by_flow[w] :
               down_for'[by_flow[w][k].mac] <= ENTRY_TTL - by_flow[w][k].left + elapsed[w] + 1
          /\ \A k \in DOMAIN by_dcid[w] :
               down_for'[by_dcid[w][k].mac] <= ENTRY_TTL - by_dcid[w][k].left + elapsed[w] + 1
    BY <1>1, <2>1, <2>2, Zenon DEF IInv, UpWhenRecorded
  <2>4. \A w \in Worker : \A e \in Entry :
          ENTRY_TTL - e.left + elapsed[w] + 1 = ENTRY_TTL - e.left + elapsed'[w]
    BY <1>1 DEF Entry
  <2>5. by_flow' = by_flow /\ by_dcid' = by_dcid
    BY DEF Tick
  <2>6. QED
    BY <2>2, <2>3, <2>4, <2>5, Zenon DEF UpWhenRecorded, MadeWhileUp, Entries
<1>9. SnapshotsFresh'
  <2>1. live' = live /\ pc' = pc /\ snap' = snap
    BY DEF Tick
  <2>2. \A a \in Addr : Routable(live, a) => down_for'[a] = 0
    BY <1>2 DEF IInv, SnapshotsFresh
  <2>3. \A w \in Worker : pc[w] = "batch" =>
          \A a \in Addr : Routable(snap[w], a) => down_for'[a] <= elapsed'[w]
    <3>1. ASSUME NEW w \in Worker, pc[w] = "batch", NEW a \in Addr, Routable(snap[w], a)
          PROVE  down_for'[a] <= elapsed'[w]
      <4>1. down_for[a] <= elapsed[w]
        BY <3>1 DEF IInv, SnapshotsFresh
      <4>2. down_for'[a] \in Nat
        BY <1>2
      <4>3. QED
        BY <1>1, <1>2, <4>1, <4>2
    <3>2. QED
      BY <3>1
  <2>4. QED
    BY <2>1, <2>2, <2>3, Zenon DEF SnapshotsFresh, Routable
<1>10. QED
  BY <1>3, <1>5, <1>6, <1>7, <1>8, <1>9 DEF IInv

-----------------------------------------------------------------------------
(* The worker's loop                                                        *)

\* new is map as a clock sample n ticks later sees it, expired entries possibly
\* evicted.
Sampled(new, map, n) ==
  /\ Entries(new)
  /\ \A k \in DOMAIN new : /\ k \in DOMAIN map
                           /\ new[k].mac = map[k].mac
                           /\ new[k].left = map[k].left - n
  /\ \A k \in DOMAIN map : map[k].left > n => k \in DOMAIN new

LEMMA SampledFacts ==
  ASSUME NEW map, Entries(map), NEW n \in Nat
  PROVE  /\ Sampled(Later(map, n), map, n)
         /\ Sampled(Retain(Later(map, n)), map, n)
         /\ SweptSince(Retain(Later(map, n)), 0)
<1>1. /\ DOMAIN Later(map, n) = DOMAIN map
      /\ Entries(Later(map, n))
      /\ \A k \in DOMAIN map : /\ Later(map, n)[k].mac = map[k].mac
                               /\ Later(map, n)[k].left = map[k].left - n
  BY LaterFacts
<1>2. \A k \in DOMAIN map : map[k].left \in Int
  BY DEF Entries, Entry
<1> DEFINE m == Later(map, n)
<1> HIDE DEF m
<1>3. /\ DOMAIN Retain(m) = {k \in DOMAIN m : m[k].left > 0}
      /\ Entries(Retain(m))
      /\ \A k \in DOMAIN Retain(m) : Retain(m)[k] = m[k]
  BY <1>1, RetainFacts, Zenon DEF m
<1>4. Sampled(m, map, n)
  BY <1>1 DEF Sampled, m
<1>5. Sampled(Retain(m), map, n)
  <2>1. \A k \in DOMAIN map : map[k].left > n => m[k].left > 0
    BY <1>1, <1>2 DEF m
  <2>2. QED
    BY <1>1, <1>3, <2>1, Zenon DEF Sampled, m
<1>6. SweptSince(Retain(m), 0)
  <2>1. \A k \in DOMAIN m : m[k].left \in Int
    BY <1>1 DEF m, Entries, Entry
  <2>2. QED
    BY <1>3, <2>1 DEF SweptSince
<1>7. QED
  BY <1>4, <1>5, <1>6 DEF m

\* maybe_sweep, on either of its paths.
LEMMA SweepFacts ==
  ASSUME IInv, NEW w \in Worker, maybe_sweep(w)
  PROVE  /\ swept' \in [Worker -> 0..SWEEP_INTERVAL - 1]
         /\ by_flow' = [by_flow EXCEPT ![w] = by_flow'[w]]
         /\ by_dcid' = [by_dcid EXCEPT ![w] = by_dcid'[w]]
         /\ swept' = [swept EXCEPT ![w] = swept'[w]]
         /\ Sampled(by_flow'[w], by_flow[w], elapsed[w])
         /\ Sampled(by_dcid'[w], by_dcid[w], elapsed[w])
         /\ SweptSince(by_flow'[w], swept'[w]) /\ SweptSince(by_dcid'[w], swept'[w])
<1> USE DatapathAssumption
<1>1. /\ elapsed[w] \in Nat /\ swept[w] \in 0..SWEEP_INTERVAL - 1
      /\ swept \in [Worker -> 0..SWEEP_INTERVAL - 1]
      /\ Entries(by_flow[w]) /\ Entries(by_dcid[w])
      /\ w \in DOMAIN by_flow /\ w \in DOMAIN by_dcid
      /\ by_flow = [v \in Worker |-> by_flow[v]] /\ by_dcid = [v \in Worker |-> by_dcid[v]]
  BY DEF IInv, Types
<1>2. SweptSince(by_flow[w], swept[w]) /\ SweptSince(by_dcid[w], swept[w])
  BY DEF IInv, Swept
<1>3. CASE swept[w] + elapsed[w] < SWEEP_INTERVAL
  <2>1. /\ swept' = [swept EXCEPT ![w] = swept[w] + elapsed[w]]
        /\ by_flow' = [by_flow EXCEPT ![w] = Later(by_flow[w], elapsed[w])]
        /\ by_dcid' = [by_dcid EXCEPT ![w] = Later(by_dcid[w], elapsed[w])]
    BY <1>3 DEF maybe_sweep
  <2>2. /\ swept'[w] = swept[w] + elapsed[w]
        /\ by_flow'[w] = Later(by_flow[w], elapsed[w])
        /\ by_dcid'[w] = Later(by_dcid[w], elapsed[w])
    BY <1>1, <2>1
  <2>3. swept' \in [Worker -> 0..SWEEP_INTERVAL - 1]
    <3>1. swept[w] + elapsed[w] \in 0..SWEEP_INTERVAL - 1
      BY <1>1, <1>3
    <3>2. QED
      BY <1>1, <2>1, <3>1
  <2>4. ASSUME NEW map, Entries(map), SweptSince(map, swept[w])
        PROVE  SweptSince(Later(map, elapsed[w]), swept[w] + elapsed[w])
    <3>1. \A k \in DOMAIN map : map[k].left \in Int
      BY <2>4 DEF Entries, Entry
    <3>2. \A k \in DOMAIN map : Later(map, elapsed[w])[k].left = map[k].left - elapsed[w]
      BY <1>1, <2>4, LaterFacts, ZenonT(30)
    <3>3. DOMAIN Later(map, elapsed[w]) = DOMAIN map
      BY DEF Later
    <3>4. ASSUME NEW k \in DOMAIN map
          PROVE  (map[k].left - elapsed[w]) + (swept[w] + elapsed[w]) > 0
      BY <1>1, <2>4, <3>1 DEF SweptSince
    <3>5. QED
      BY <3>2, <3>3, <3>4 DEF SweptSince
  <2>5. QED
    BY <1>1, <1>2, <2>1, <2>2, <2>3, <2>4, SampledFacts, Zenon
<1>4. CASE ~(swept[w] + elapsed[w] < SWEEP_INTERVAL)
  <2>1. /\ swept' = [swept EXCEPT ![w] = 0]
        /\ by_flow' = [by_flow EXCEPT ![w] = Retain(Later(by_flow[w], elapsed[w]))]
        /\ by_dcid' = [by_dcid EXCEPT ![w] = Retain(Later(by_dcid[w], elapsed[w]))]
    BY <1>4 DEF maybe_sweep
  <2>2. /\ swept'[w] = 0
        /\ by_flow'[w] = Retain(Later(by_flow[w], elapsed[w]))
        /\ by_dcid'[w] = Retain(Later(by_dcid[w], elapsed[w]))
    BY <1>1, <2>1
  <2>3. swept' \in [Worker -> 0..SWEEP_INTERVAL - 1]
    BY <1>1, <2>1
  <2>4. QED
    BY <1>1, <2>1, <2>2, <2>3, SampledFacts
<1>5. QED
  BY <1>3, <1>4

LEMMA SampleClockStep ==
  ASSUME IInv, NEW w \in Worker, SampleClock(w)
  PROVE  IInv'
<1> USE DatapathAssumption
<1>1. /\ swept' \in [Worker -> 0..SWEEP_INTERVAL - 1]
      /\ by_flow' = [by_flow EXCEPT ![w] = by_flow'[w]]
      /\ by_dcid' = [by_dcid EXCEPT ![w] = by_dcid'[w]]
      /\ swept' = [swept EXCEPT ![w] = swept'[w]]
      /\ Sampled(by_flow'[w], by_flow[w], elapsed[w])
      /\ Sampled(by_dcid'[w], by_dcid[w], elapsed[w])
      /\ SweptSince(by_flow'[w], swept'[w]) /\ SweptSince(by_dcid'[w], swept'[w])
  BY SweepFacts DEF SampleClock
<1>2. /\ elapsed \in [Worker -> 0..MAX_LAG]
      /\ elapsed' = [elapsed EXCEPT ![w] = 0] /\ pc' = [pc EXCEPT ![w] = "poll"]
      /\ live' = live /\ snap' = snap /\ down_for' = down_for
      /\ assigned' = assigned /\ seen' = seen
  BY DEF IInv, Types, SampleClock
<1>3. /\ \A v \in Worker : Entries(by_flow[v]) /\ Entries(by_dcid[v])
      /\ by_flow = [v \in Worker |-> by_flow[v]] /\ by_dcid = [v \in Worker |-> by_dcid[v]]
  BY DEF IInv, Types
<1>4. \A v \in Worker \ {w} : /\ by_flow'[v] = by_flow[v] /\ by_dcid'[v] = by_dcid[v]
                              /\ elapsed'[v] = elapsed[v] /\ swept'[v] = swept[v]
  BY <1>1, <1>2, <1>3, Zenon DEF IInv, Types
<1>5. elapsed'[w] = 0 /\ elapsed[w] \in 0..MAX_LAG
  BY <1>2
<1>6. Types'
  <2>1. /\ DOMAIN by_flow' = Worker /\ DOMAIN by_dcid' = Worker
        /\ by_flow' = [v \in Worker |-> by_flow'[v]] /\ by_dcid' = [v \in Worker |-> by_dcid'[v]]
    BY <1>1, <1>3
  <2>2. \A v \in Worker : Entries(by_flow'[v]) /\ Entries(by_dcid'[v])
    BY <1>1, <1>3, <1>4, Zenon DEF Sampled
  <2>3. elapsed' \in [Worker -> 0..MAX_LAG] /\ pc' \in [Worker -> {"loop", "poll", "batch"}]
    BY <1>2 DEF IInv, Types
  <2>4. QED
    BY <1>1, <1>2, <2>1, <2>2, <2>3, Zenon DEF IInv, Types
<1>7. ASSUME NEW map, NEW new, NEW k, NEW r, r.age \in Nat, Recent(r), Entries(map),
             Sampled(new, map, elapsed[w]), Holds(map, k, r, elapsed[w])
      PROVE  Holds(new, k, r, 0)
  <2>1. map[k].left \in Int /\ k \in DOMAIN map
    BY <1>7 DEF Holds, Entries, Entry
  <2>2. map[k].left > elapsed[w]
    BY <1>5, <1>7, <2>1 DEF Holds, Recent
  <2>3. k \in DOMAIN new
    BY <1>7, <2>1, <2>2 DEF Sampled
  <2>4. new[k].mac = map[k].mac /\ new[k].left = map[k].left - elapsed[w]
    BY <1>7, <2>3 DEF Sampled
  <2>5. QED
    BY <1>5, <1>7, <2>1, <2>3, <2>4 DEF Holds
<1>8. FlowsKept'
  <2> SUFFICES ASSUME NEW f \in DOMAIN assigned, Recent(assigned[f])
               PROVE  Holds(by_flow'[Queue[f]], f, assigned[f], elapsed'[Queue[f]])
    BY <1>2, Zenon DEF FlowsKept, Recent, Holds
  <2>1. Queue[f] \in Worker /\ assigned[f].age \in Nat
    BY DEF IInv, Types, Records
  <2>2. Holds(by_flow[Queue[f]], f, assigned[f], elapsed[Queue[f]])
    BY DEF IInv, FlowsKept
  <2>3. CASE Queue[f] = w
    BY <1>1, <1>3, <1>5, <1>7, <2>1, <2>2, <2>3, Zenon
  <2>4. CASE Queue[f] # w
    BY <1>4, <2>1, <2>2, <2>4
  <2>5. QED
    BY <2>3, <2>4
<1>9. CidsKept'
  <2> SUFFICES ASSUME NEW v \in Worker, NEW k \in DOMAIN seen[v], Recent(seen[v][k])
               PROVE  Holds(by_dcid'[v], k, seen[v][k], elapsed'[v])
    BY <1>2 DEF CidsKept, Recent, Holds
  <2>1. seen[v][k].age \in Nat
    BY Zenon DEF IInv, Types, Records
  <2>2. Holds(by_dcid[v], k, seen[v][k], elapsed[v])
    BY DEF IInv, CidsKept
  <2>3. CASE v = w
    BY <1>1, <1>3, <1>5, <1>7, <2>1, <2>2, <2>3, Zenon
  <2>4. CASE v # w
    BY <1>4, <2>1, <2>2, <2>4, Zenon
  <2>5. QED
    BY <2>3, <2>4
<1>10. Swept'
  BY <1>1, <1>4, Zenon DEF IInv, Swept, SweptSince
<1>11. UpWhenRecorded'
  <2>1. ASSUME NEW map, NEW new, Entries(map), Sampled(new, map, elapsed[w]),
               MadeWhileUp(map, elapsed[w])
        PROVE  MadeWhileUp(new, 0)
    <3> SUFFICES ASSUME NEW k \in DOMAIN new
                 PROVE  down_for[new[k].mac] <= ENTRY_TTL - new[k].left + 0
      BY DEF MadeWhileUp
    <3>1. k \in DOMAIN map /\ new[k].mac = map[k].mac /\ new[k].left = map[k].left - elapsed[w]
      BY <2>1 DEF Sampled
    <3>2. map[k].left \in Int /\ map[k].mac \in Addr
      BY <2>1, <3>1 DEF Entries, Entry
    <3>3. down_for[map[k].mac] \in Nat
      BY <3>2, Zenon DEF IInv, Types
    <3>4. down_for[map[k].mac] <= ENTRY_TTL - map[k].left + elapsed[w]
      BY <2>1, <3>1, Zenon DEF MadeWhileUp
    <3>5. QED
      BY <1>5, <3>1, <3>2, <3>3, <3>4
  <2>2. MadeWhileUp(by_flow'[w], 0) /\ MadeWhileUp(by_dcid'[w], 0)
    BY <1>1, <1>3, <2>1, Zenon DEF IInv, UpWhenRecorded
  <2>3. \A v \in Worker : MadeWhileUp(by_flow'[v], elapsed'[v]) /\ MadeWhileUp(by_dcid'[v], elapsed'[v])
    BY <1>4, <1>5, <2>2, Zenon DEF IInv, UpWhenRecorded
  <2>4. QED
    BY <1>2, <2>3, Zenon DEF UpWhenRecorded, MadeWhileUp
<1>12. SnapshotsFresh'
  <2>1. \A v \in Worker : pc'[v] = "batch" => pc[v] = "batch" /\ v # w
    BY <1>2 DEF IInv, Types
  <2>2. QED
    BY <1>2, <1>4, <2>1, Zenon DEF IInv, SnapshotsFresh, Routable
<1>13. QED
  BY <1>6, <1>8, <1>9, <1>10, <1>11, <1>12 DEF IInv

\* The steps of the loop that move no entry and no clock.
LEMMA LoopStep ==
  ASSUME IInv, NEW w \in Worker, PollTimeout(w) \/ LoadSnapshot(w) \/ EndBatch(w)
  PROVE  IInv'
<1>1. UNCHANGED <<live, elapsed, swept, by_flow, by_dcid, down_for, assigned, seen>>
  BY DEF PollTimeout, LoadSnapshot, EndBatch
<1>2. Types'
  <2>1. pc' \in [Worker -> {"loop", "poll", "batch"}]
    BY ZenonT(30) DEF IInv, Types, PollTimeout, LoadSnapshot, EndBatch
  <2>2. snap' \in [Worker -> AnyTable \cup {NoTable}]
    BY Zenon DEF IInv, Types, PollTimeout, LoadSnapshot, EndBatch
  <2>3. QED
    BY <1>1, <2>1, <2>2, Zenon DEF IInv, Types, Entries, Records
<1>3. FlowsKept' /\ CidsKept' /\ Swept' /\ UpWhenRecorded'
  BY <1>1, ZenonT(30) DEF IInv, FlowsKept, CidsKept, Swept, SweptSince, UpWhenRecorded, MadeWhileUp, Holds, Recent
<1>4. SnapshotsFresh'
  <2>1. ASSUME NEW v \in Worker, pc'[v] = "batch"
        PROVE  snap'[v] = live \/ (pc[v] = "batch" /\ snap'[v] = snap[v])
    BY <2>1, ZenonT(30) DEF IInv, Types, PollTimeout, LoadSnapshot, EndBatch
  <2>2. \A v \in Worker : elapsed[v] \in Nat
    BY DatapathAssumption DEF IInv, Types
  <2>3. QED
    BY <1>1, <2>1, <2>2 DEF IInv, SnapshotsFresh, Routable
<1>5. QED
  BY <1>2, <1>3, <1>4 DEF IInv

-----------------------------------------------------------------------------
(* process_udp                                                              *)

\* The 4-tuple index after a packet of flow f: nothing recorded, or the flow
\* had no live entry and was given a backend the snapshot routes to.
FlowRecorded(w, f, mac) ==
  \/ by_flow' = by_flow /\ assigned' = assigned
  \/ /\ ~Live(by_flow[w], f)
     /\ by_flow' = [by_flow EXCEPT ![w] = Put(by_flow[w], f, NewEntry(mac))]
     /\ assigned' = IF f \in DOMAIN assigned /\ Recent(assigned[f])
                    THEN assigned ELSE Put(assigned, f, [mac |-> mac, age |-> 0])

\* The CID index after it.
CidRecorded(w, dcid, mac) ==
  \/ by_dcid' = by_dcid /\ seen' = seen
  \/ /\ dcid # NoCid
     /\ by_dcid' = [by_dcid EXCEPT ![w] = Put(by_dcid[w], dcid, NewEntry(mac))]
     /\ seen' = [seen EXCEPT ![w] = Put(seen[w], dcid, [mac |-> mac, age |-> 0])]

LEMMA UdpRecords ==
  ASSUME IInv, NEW w \in Worker, NEW p \in Packet, process_udp(w, p)
  PROVE  \/ UNCHANGED <<by_flow, by_dcid, assigned, seen>>
         \/ \E mac \in Addr : /\ Routable(snap[w], mac)
                              /\ FlowRecorded(w, p.flow, mac)
                              /\ \E dcid : CidRecorded(w, dcid, mac)
<1>1. IsTable(snap[w]) /\ p.flow \in Flow
  BY DatapathAssumption, Zenon DEF IInv, Types, IsTable, PacketType
<1>2. CASE CidForward(w, p)
  <2>1. Target(w, p) = {snap[w].servers[i].address : i \in CidTarget(w, p)}
    BY <1>2 DEF CidForward, Target
  <2> DEFINE dcid == lookup_config(snap[w], p)
  <2>2. PICK mac \in Target(w, p) :
          /\ by_dcid' = [by_dcid EXCEPT ![w] = Put(@, dcid, NewEntry(mac))]
          /\ seen' = [seen EXCEPT ![w] = Put(@, dcid, [mac |-> mac, age |-> 0])]
    BY <1>2, Zenon DEF CidForward
  <2>3. mac \in Addr /\ Routable(snap[w], mac) /\ dcid # NoCid
    BY <1>1, <2>1, CidTargetFacts
  <2> HIDE DEF dcid
  <2>4. CidRecorded(w, dcid, mac)
    BY <2>2, <2>3 DEF CidRecorded
  <2>5. FlowRecorded(w, p.flow, mac)
    BY <1>2 DEF CidForward, FlowRecorded
  <2>6. QED
    BY <2>3, <2>4, <2>5
<1>3. CASE NotRecorded(w, p)
  BY <1>3 DEF NotRecorded
<1>4. CASE Assign(w, p)
  <2> DEFINE dcid == fallback_dcid(snap[w], p)
  <2>1. PICK mac \in fallback_mac(snap[w], p.flow) :
          /\ by_flow' = [by_flow EXCEPT ![w] = Put(@, p.flow, NewEntry(mac))]
          /\ by_dcid' = [by_dcid EXCEPT ![w] =
                           IF dcid = NoCid THEN @ ELSE Put(@, dcid, NewEntry(mac))]
          /\ assigned' = IF p.flow \in DOMAIN assigned /\ Recent(assigned[p.flow])
                         THEN assigned ELSE Put(assigned, p.flow, [mac |-> mac, age |-> 0])
          /\ seen' = [seen EXCEPT ![w] = IF dcid = NoCid THEN @
                                          ELSE Put(@, dcid, [mac |-> mac, age |-> 0])]
    BY <1>4, Zenon DEF Assign
  <2>2. mac \in Addr /\ Routable(snap[w], mac)
    BY <1>1, FallbackFacts
  <2>3. ~Live(by_flow[w], p.flow)
    BY <1>4, Zenon DEF Assign, Sticky, lookup
  <2> HIDE DEF dcid
  <2>4. FlowRecorded(w, p.flow, mac)
    BY <2>1, <2>3 DEF FlowRecorded
  <2>5. CidRecorded(w, dcid, mac)
    <3>1. CASE dcid = NoCid
      <4>1. by_dcid = [v \in Worker |-> by_dcid[v]] /\ seen = [v \in Worker |-> seen[v]]
        BY DEF IInv, Types
      <4>2. by_dcid' = [by_dcid EXCEPT ![w] = by_dcid[w]] /\ seen' = [seen EXCEPT ![w] = seen[w]]
        BY <2>1, <3>1
      <4>3. by_dcid' = by_dcid /\ seen' = seen
        BY <4>1, <4>2, Zenon
      <4>4. QED
        BY <4>3 DEF CidRecorded
    <3>2. CASE dcid # NoCid
      BY <2>1, <3>2 DEF CidRecorded
    <3>3. QED
      BY <3>1, <3>2
  <2>6. QED
    BY <2>2, <2>4, <2>5
<1>5. QED
  BY <1>2, <1>3, <1>4 DEF process_udp

\* A map m with a new entry for mac under k keeps what the invariant says of it.
LEMMA PutKeeps ==
  ASSUME IInv, NEW w \in Worker, NEW mac \in Addr, down_for[mac] <= elapsed[w],
         NEW m, Entries(m), SweptSince(m, swept[w]), MadeWhileUp(m, elapsed[w]), NEW k
  PROVE  /\ Entries(Put(m, k, NewEntry(mac)))
         /\ SweptSince(Put(m, k, NewEntry(mac)), swept[w])
         /\ MadeWhileUp(Put(m, k, NewEntry(mac)), elapsed[w])
<1> DEFINE n == Put(m, k, NewEntry(mac))
<1>1. /\ DOMAIN n = DOMAIN m \cup {k} /\ n[k] = NewEntry(mac)
      /\ \A x \in DOMAIN m : x # k => n[x] = m[x]
  BY DEF Put
<1> HIDE DEF n
<1>2. NewEntry(mac) \in Entry /\ NewEntry(mac).mac = mac /\ NewEntry(mac).left = ENTRY_TTL
  BY NewEntryType
<1>3. Entries(n)
  BY <1>1, <1>2 DEF Entries
<1>4. elapsed[w] \in Nat /\ swept[w] \in Nat /\ ENTRY_TTL \in Nat \ {0} /\ down_for[mac] \in Nat
  BY DatapathAssumption DEF IInv, Types
<1>5. SweptSince(n, swept[w])
  <2>1. NewEntry(mac).left + swept[w] > 0
    BY <1>2, <1>4
  <2>2. QED
    BY <1>1, <2>1 DEF SweptSince
<1>6. MadeWhileUp(n, elapsed[w])
  <2>1. down_for[NewEntry(mac).mac] <= ENTRY_TTL - NewEntry(mac).left + elapsed[w]
    BY <1>2, <1>4
  <2>2. QED
    BY <1>1, <2>1, Zenon DEF MadeWhileUp
<1>7. QED
  BY <1>3, <1>5, <1>6 DEF n

\* A new entry and its record of age 0 agree; the others are as before.
LEMMA PutHolds ==
  ASSUME IInv, NEW w \in Worker, NEW mac \in Addr, NEW m, NEW k
  PROVE  /\ Holds(Put(m, k, NewEntry(mac)), k, [mac |-> mac, age |-> 0], elapsed[w])
         /\ \A x, r : x # k /\ Holds(m, x, r, elapsed[w])
                        => Holds(Put(m, k, NewEntry(mac)), x, r, elapsed[w])
<1> DEFINE n == Put(m, k, NewEntry(mac))
           q == [mac |-> mac, age |-> 0]
<1>1. /\ DOMAIN n = DOMAIN m \cup {k} /\ n[k] = NewEntry(mac)
      /\ \A x \in DOMAIN m : x # k => n[x] = m[x]
  BY DEF Put
<1>2. q.mac = mac /\ q.age = 0
  OBVIOUS
<1> HIDE DEF n, q
<1>3. NewEntry(mac).mac = mac /\ NewEntry(mac).left = ENTRY_TTL
  BY NewEntryType
<1>4. elapsed[w] \in 0..MAX_LAG /\ ENTRY_TTL \in Nat /\ MAX_LAG \in Nat
  BY DatapathAssumption DEF IInv, Types
<1>5. Holds(n, k, q, elapsed[w])
  BY <1>1, <1>2, <1>3, <1>4 DEF Holds
<1>6. \A x, r : x # k /\ Holds(m, x, r, elapsed[w]) => Holds(n, x, r, elapsed[w])
  BY <1>1 DEF Holds
<1>7. QED
  BY <1>5, <1>6 DEF n, q

LEMMA RecordStep ==
  ASSUME IInv, NEW w \in Worker, NEW f \in Flow, NEW mac \in Addr, NEW dcid,
         pc[w] = "batch", Queue[f] = w, Routable(snap[w], mac),
         FlowRecorded(w, f, mac), CidRecorded(w, dcid, mac),
         UNCHANGED <<live, pc, snap, elapsed, swept, down_for>>
  PROVE  IInv'
<1> DEFINE F == Put(by_flow[w], f, NewEntry(mac))
           D == Put(by_dcid[w], dcid, NewEntry(mac))
           now == [mac |-> mac, age |-> 0]
<1>1. down_for[mac] <= elapsed[w]
  BY DEF IInv, SnapshotsFresh
<1>2. /\ Entries(by_flow[w]) /\ SweptSince(by_flow[w], swept[w]) /\ MadeWhileUp(by_flow[w], elapsed[w])
      /\ Entries(by_dcid[w]) /\ SweptSince(by_dcid[w], swept[w]) /\ MadeWhileUp(by_dcid[w], elapsed[w])
  BY Zenon DEF IInv, Types, Swept, UpWhenRecorded
<1>3. Entries(F) /\ SweptSince(F, swept[w]) /\ MadeWhileUp(F, elapsed[w])
  BY <1>1, <1>2, PutKeeps, ZenonT(30)
<1>4. Entries(D) /\ SweptSince(D, swept[w]) /\ MadeWhileUp(D, elapsed[w])
  BY <1>1, <1>2, PutKeeps
<1>5. /\ Holds(F, f, now, elapsed[w])
      /\ \A x, r : x # f /\ Holds(by_flow[w], x, r, elapsed[w]) => Holds(F, x, r, elapsed[w])
  BY PutHolds
<1>6. /\ Holds(D, dcid, now, elapsed[w])
      /\ \A x, r : x # dcid /\ Holds(by_dcid[w], x, r, elapsed[w]) => Holds(D, x, r, elapsed[w])
  BY PutHolds
<1>7. now \in [mac: Addr, age: Nat]
  OBVIOUS
<1> HIDE DEF F, D, now
<1>8. /\ by_flow = [v \in Worker |-> by_flow[v]] /\ by_dcid = [v \in Worker |-> by_dcid[v]]
      /\ seen = [v \in Worker |-> seen[v]] /\ Records(assigned)
      /\ \A v \in Worker : Records(seen[v]) /\ NoCid \notin DOMAIN seen[v]
      /\ \A x \in DOMAIN assigned : x \in Flow
      /\ \A v \in Worker : Entries(by_flow[v]) /\ Entries(by_dcid[v])
  BY ZenonT(30) DEF IInv, Types
<1>9. \/ by_flow' = by_flow /\ assigned' = assigned
      \/ /\ ~Live(by_flow[w], f)
         /\ by_flow' = [by_flow EXCEPT ![w] = F]
         /\ assigned' = IF f \in DOMAIN assigned /\ Recent(assigned[f])
                        THEN assigned ELSE Put(assigned, f, now)
  BY DEF FlowRecorded, F, now
<1>10. \/ by_dcid' = by_dcid /\ seen' = seen
       \/ /\ dcid # NoCid
          /\ by_dcid' = [by_dcid EXCEPT ![w] = D]
          /\ seen' = [seen EXCEPT ![w] = Put(seen[w], dcid, now)]
  BY DEF CidRecorded, D, now
<1>11. /\ DOMAIN Put(assigned, f, now) = DOMAIN assigned \cup {f}
       /\ Put(assigned, f, now)[f] = now
       /\ \A x \in DOMAIN assigned : x # f => Put(assigned, f, now)[x] = assigned[x]
       /\ Records(Put(assigned, f, now))
  <2>1. /\ DOMAIN Put(assigned, f, now) = DOMAIN assigned \cup {f}
        /\ Put(assigned, f, now)[f] = now
        /\ \A x \in DOMAIN assigned : x # f => Put(assigned, f, now)[x] = assigned[x]
    BY DEF Put
  <2>2. QED
    BY <1>7, <1>8, <2>1, Zenon DEF Records
<1>12. /\ DOMAIN Put(seen[w], dcid, now) = DOMAIN seen[w] \cup {dcid}
       /\ Put(seen[w], dcid, now)[dcid] = now
       /\ \A x \in DOMAIN seen[w] : x # dcid => Put(seen[w], dcid, now)[x] = seen[w][x]
       /\ Records(Put(seen[w], dcid, now))
  <2>1. /\ DOMAIN Put(seen[w], dcid, now) = DOMAIN seen[w] \cup {dcid}
        /\ Put(seen[w], dcid, now)[dcid] = now
        /\ \A x \in DOMAIN seen[w] : x # dcid => Put(seen[w], dcid, now)[x] = seen[w][x]
    BY DEF Put
  <2>2. QED
    BY <1>7, <1>8, <2>1, Zenon DEF Records
<1>13. /\ by_flow' = [v \in Worker |-> by_flow'[v]]
       /\ by_flow'[w] = by_flow[w] \/ by_flow'[w] = F
       /\ \A v \in Worker : v # w => by_flow'[v] = by_flow[v]
  BY <1>8, <1>9
<1>14. /\ by_dcid' = [v \in Worker |-> by_dcid'[v]]
       /\ by_dcid'[w] = by_dcid[w] \/ by_dcid'[w] = D
       /\ \A v \in Worker : v # w => by_dcid'[v] = by_dcid[v]
  BY <1>8, <1>10
<1>15. Types'
  <2>1. Records(assigned') /\ \A x \in DOMAIN assigned' : x \in Flow
    BY <1>8, <1>9, <1>11
  <2>2. /\ seen' = [v \in Worker |-> seen'[v]]
        /\ \A v \in Worker : Records(seen'[v]) /\ NoCid \notin DOMAIN seen'[v]
    BY <1>8, <1>10, <1>12, ZenonT(30)
  <2>3. \A v \in Worker : Entries(by_flow'[v]) /\ Entries(by_dcid'[v])
    BY <1>3, <1>4, <1>8, <1>13, <1>14, Zenon
  <2>4. DOMAIN by_flow' = Worker /\ DOMAIN by_dcid' = Worker
    BY <1>13, <1>14
  <2>5. QED
    BY <1>13, <1>14, <2>1, <2>2, <2>3, <2>4, Zenon DEF IInv, Types
<1>16. FlowsKept'
  <2> SUFFICES ASSUME NEW x \in DOMAIN assigned', Recent(assigned'[x])
               PROVE  Holds(by_flow'[Queue[x]], x, assigned'[x], elapsed[Queue[x]])
    BY Zenon DEF FlowsKept, Recent, Holds
  <2>1. CASE by_flow' = by_flow /\ assigned' = assigned
    BY <2>1 DEF IInv, FlowsKept
  <2>2. CASE /\ ~Live(by_flow[w], f)
             /\ by_flow' = [by_flow EXCEPT ![w] = F]
             /\ assigned' = IF f \in DOMAIN assigned /\ Recent(assigned[f])
                            THEN assigned ELSE Put(assigned, f, now)
    <3>1. ~(f \in DOMAIN assigned /\ Recent(assigned[f]))
      <4> SUFFICES ASSUME f \in DOMAIN assigned, Recent(assigned[f]) PROVE FALSE
        OBVIOUS
      <4>1. Holds(by_flow[w], f, assigned[f], elapsed[w])
        BY Zenon DEF IInv, FlowsKept
      <4>2. assigned[f].age \in Nat /\ by_flow[w][f].left \in Int /\ elapsed[w] \in Nat
        BY <1>8, <4>1, DatapathAssumption DEF IInv, Types, Records, Entries, Entry, Holds
      <4>3. Live(by_flow[w], f)
        BY <1>8, <4>1, <4>2, RecentIsLive, Zenon
      <4>4. QED
        BY <2>2, <4>3
    <3>2. assigned' = Put(assigned, f, now)
      BY <2>2, <3>1, Zenon
    <3>3. by_flow'[w] = F
      BY <1>8, <2>2, Zenon
    <3>4. CASE x = f
      BY <1>5, <1>11, <3>2, <3>3, <3>4, Zenon
    <3>5. CASE x # f
      <4>1. x \in DOMAIN assigned /\ assigned'[x] = assigned[x]
        BY <1>11, <3>2, <3>5, Zenon
      <4>2. Holds(by_flow[Queue[x]], x, assigned[x], elapsed[Queue[x]]) /\ Queue[x] \in Worker
        BY <1>8, <4>1, DatapathAssumption, Zenon DEF IInv, FlowsKept
      <4>3. CASE Queue[x] = w
        BY <1>5, <3>3, <3>5, <4>1, <4>2, <4>3, Zenon
      <4>4. CASE Queue[x] # w
        BY <1>13, <4>1, <4>2, <4>4, Zenon
      <4>5. QED
        BY <4>3, <4>4, Zenon
    <3>6. QED
      BY <3>4, <3>5
  <2>3. QED
    BY <1>9, <2>1, <2>2, Zenon
<1>17. CidsKept'
  <2> SUFFICES ASSUME NEW v \in Worker, NEW x \in DOMAIN seen'[v], Recent(seen'[v][x])
               PROVE  Holds(by_dcid'[v], x, seen'[v][x], elapsed[v])
    BY Zenon DEF CidsKept, Recent, Holds
  <2>1. CASE by_dcid' = by_dcid /\ seen' = seen
    BY <2>1, ZenonT(30) DEF IInv, CidsKept
  <2>2. CASE /\ by_dcid' = [by_dcid EXCEPT ![w] = D]
             /\ seen' = [seen EXCEPT ![w] = Put(seen[w], dcid, now)]
    <3>1. CASE v # w
      <4>1. by_dcid'[v] = by_dcid[v] /\ seen'[v] = seen[v]
        BY <1>8, <2>2, <3>1, Zenon
      <4>2. QED
        BY <4>1, Zenon DEF IInv, CidsKept
    <3>2. CASE v = w
      <4>1. by_dcid'[w] = D /\ seen'[w] = Put(seen[w], dcid, now)
        BY <1>8, <2>2, Zenon
      <4>2. CASE x = dcid
        BY <1>6, <1>12, <3>2, <4>1, <4>2, Zenon
      <4>3. CASE x # dcid
        <5>1. x \in DOMAIN seen[w] /\ seen'[w][x] = seen[w][x]
          BY <1>12, <3>2, <4>1, <4>3, Zenon
        <5>2. Holds(by_dcid[w], x, seen[w][x], elapsed[w])
          BY <3>2, <5>1, Zenon DEF IInv, CidsKept
        <5>3. QED
          BY <1>6, <3>2, <4>1, <4>3, <5>1, <5>2, Zenon
      <4>4. QED
        BY <4>2, <4>3
    <3>3. QED
      BY <3>1, <3>2, Zenon
  <2>3. QED
    BY <1>10, <2>1, <2>2, Zenon
<1>18. Swept'
  <2>1. \A v \in Worker : SweptSince(by_flow'[v], swept[v]) /\ SweptSince(by_dcid'[v], swept[v])
    BY <1>3, <1>4, <1>13, <1>14, Zenon DEF IInv, Swept
  <2>2. QED
    BY <2>1, Zenon DEF Swept, SweptSince
<1>19. UpWhenRecorded'
  <2>1. \A v \in Worker : MadeWhileUp(by_flow'[v], elapsed[v]) /\ MadeWhileUp(by_dcid'[v], elapsed[v])
    BY <1>3, <1>4, <1>13, <1>14, Zenon DEF IInv, UpWhenRecorded
  <2>2. QED
    BY <2>1, Zenon DEF UpWhenRecorded, MadeWhileUp
<1>20. SnapshotsFresh'
  BY Zenon DEF IInv, SnapshotsFresh, Routable
<1>21. QED
  BY <1>15, <1>16, <1>17, <1>18, <1>19, <1>20, Zenon DEF IInv

LEMMA UdpStep ==
  ASSUME IInv, NEW w \in Worker, NEW p \in Packet, process_udp(w, p)
  PROVE  IInv'
<1>1. /\ pc[w] = "batch" /\ Queue[p.flow] = w /\ p.flow \in Flow
      /\ UNCHANGED <<live, pc, snap, elapsed, swept, down_for>>
  BY DatapathAssumption DEF process_udp, PacketType
<1>2. CASE UNCHANGED <<by_flow, by_dcid, assigned, seen>>
  <2>1. UNCHANGED vars
    BY <1>1, <1>2 DEF vars
  <2>2. QED
    BY <2>1, Stutter
<1>3. CASE \E mac \in Addr : /\ Routable(snap[w], mac)
                             /\ FlowRecorded(w, p.flow, mac)
                             /\ \E dcid : CidRecorded(w, dcid, mac)
  BY <1>1, <1>3, RecordStep
<1>4. QED
  BY <1>2, <1>3, UdpRecords

LEMMA DatapathNext == IInv /\ [Next]_vars => IInv'
<1> SUFFICES ASSUME IInv, [Next]_vars PROVE IInv'
  OBVIOUS
<1>1. CASE UNCHANGED vars
  BY <1>1, Stutter
<1>2. CASE Next
  BY <1>2, PublishStep, TickStep, SampleClockStep, LoopStep, UdpStep DEF Next
<1>3. QED
  BY <1>1, <1>2

LEMMA DatapathInvariant == Spec => []IInv
BY DatapathInit, DatapathNext, PTL DEF Spec

-----------------------------------------------------------------------------
(* The promises                                                             *)

LEMMA PinnedNow == IInv => FlowPinned
<1> SUFFICES ASSUME IInv, NEW f \in DOMAIN assigned, Recent(assigned[f])
             PROVE  /\ Live(by_flow[Queue[f]], f)
                    /\ by_flow[Queue[f]][f].mac = assigned[f].mac
  BY DEF FlowPinned
<1>1. Queue[f] \in Worker /\ assigned[f].age \in Nat
  BY DatapathAssumption DEF IInv, Types, Records
<1>2. Entries(by_flow[Queue[f]]) /\ elapsed[Queue[f]] \in Nat
  BY <1>1, DatapathAssumption DEF IInv, Types
<1>3. Holds(by_flow[Queue[f]], f, assigned[f], elapsed[Queue[f]])
  BY DEF IInv, FlowsKept
<1>4. QED
  BY <1>1, <1>2, <1>3, RecentIsLive

\* Stickiness: a hash assignment of a 4-tuple stays with the worker of its queue
\* for the TTL less the lag of a clock sample (ConnectionTable::insert, lookup
\* and maybe_sweep under any interleaving with the tables the main loop stores).
THEOREM FlowsStayPinned == Spec => []FlowPinned
BY DatapathInvariant, PinnedNow, PTL

\* An SCID that names no server leaves process_icmp with its second strategy.
LEMMA IcmpByFlow ==
  ASSUME IInv, NEW w \in Worker, NEW p \in Packet, p.server = NoServer
  PROVE  IcmpTarget(w, p.flow, p) = lookup(w, p.flow, NoCid)
<1>1. IsTable(snap[w])
  BY Zenon DEF IInv, Types, IsTable
<1>2. \A i \in DOMAIN snap[w].servers : snap[w].servers[i].address # NoServer
  <2>1. snap[w].servers \in Seq(Server)
    BY <1>1, TableFacts
  <2>2. \A i \in DOMAIN snap[w].servers : snap[w].servers[i] \in Server
    BY <2>1
  <2>3. QED
    BY <2>2, DatapathAssumption, Zenon DEF Server
<1>3. \A d : resolve_server_idx(snap[w], p, d) = {}
  BY <1>2, Zenon DEF resolve_server_idx
<1>4. QED
  BY <1>3, Zenon DEF IcmpTarget

LEMMA AbandonedNow == IInv => DownIsAbandoned
<1> SUFFICES ASSUME IInv, NEW w \in Worker, NEW p \in Packet, pc[w] = "batch",
                    NEW a, a \in Target(w, p) \/ a \in lookup(w, p.flow, NoCid)
             PROVE  down_for[a] < DOWN_CAP
  BY IcmpByFlow, Zenon DEF DownIsAbandoned
<1>1. /\ IsTable(snap[w]) /\ p.flow \in Flow
      /\ elapsed[w] \in 0..MAX_LAG /\ MAX_LAG \in Nat /\ ENTRY_TTL \in Nat \ {0}
      /\ down_for \in [Addr -> Nat]
      /\ Entries(by_flow[w]) /\ Entries(by_dcid[w])
  BY DatapathAssumption, Zenon DEF IInv, Types, IsTable, PacketType
<1>2. ASSUME a \in Addr, Routable(snap[w], a) PROVE down_for[a] < DOWN_CAP
  <2>1. down_for[a] <= elapsed[w] /\ down_for[a] \in Nat
    BY <1>1, <1>2 DEF IInv, SnapshotsFresh
  <2>2. QED
    BY <1>1, <2>1 DEF DOWN_CAP
<1>3. ASSUME NEW map, Entries(map), MadeWhileUp(map, elapsed[w]), NEW k, Live(map, k), a = map[k].mac
      PROVE  down_for[a] < DOWN_CAP
  <2>1. k \in DOMAIN map /\ map[k].left \in Int /\ map[k].left > 0 /\ a \in Addr
    BY <1>3 DEF Live, is_expired, Entries, Entry
  <2>2. down_for[a] \in Nat /\ down_for[a] <= ENTRY_TTL - map[k].left + elapsed[w]
    BY <1>1, <1>3, <2>1 DEF MadeWhileUp
  <2>3. QED
    BY <1>1, <2>1, <2>2 DEF DOWN_CAP
<1>4. CASE a \in Target(w, p) /\ CidTarget(w, p) # {}
  <2>1. PICK i \in CidTarget(w, p) : a = snap[w].servers[i].address
    BY <1>4, Zenon DEF Target
  <2>2. QED
    BY <1>1, <1>2, <2>1, CidTargetFacts, Zenon
<1>5. ASSUME NEW dcid, a \in lookup(w, p.flow, dcid) PROVE down_for[a] < DOWN_CAP
  <2>1. MadeWhileUp(by_flow[w], elapsed[w]) /\ MadeWhileUp(by_dcid[w], elapsed[w])
    BY DEF IInv, UpWhenRecorded
  <2>2. \/ Live(by_flow[w], p.flow) /\ a = by_flow[w][p.flow].mac
        \/ \E k : Live(by_dcid[w], k) /\ a = by_dcid[w][k].mac
    BY <1>5, Zenon DEF lookup
  <2>3. QED
    BY <1>1, <1>3, <2>1, <2>2, Zenon
<1>6. CASE a \in fallback_mac(snap[w], p.flow)
  BY <1>1, <1>2, <1>6, FallbackFacts, Zenon
<1>7. QED
  BY <1>4, <1>5, <1>6, Zenon DEF Target, Sticky

\* A server that left the tables is abandoned: no UDP packet, and no ICMP error without
\* its SCID, goes to it once it has been unroutable for the TTL and the lag of one
\* batch, because neither a use of an entry nor a stale snapshot renews it
\* (process_udp, process_icmp, Entry::new).
THEOREM DownServersAreAbandoned == Spec => []DownIsAbandoned
BY DatapathInvariant, AbandonedNow, PTL

LEMMA ReboundNow == IInv => RebindReachesSameBackend
<1> SUFFICES ASSUME IInv, NEW w \in Worker, NEW p \in Packet,
                    CidTarget(w, p) = {}, ~Dropped(w, p), ~Live(by_flow[w], p.flow),
                    fallback_dcid(snap[w], p) \in DOMAIN seen[w],
                    Recent(seen[w][fallback_dcid(snap[w], p)])
             PROVE  Target(w, p) = {seen[w][fallback_dcid(snap[w], p)].mac}
  BY Zenon DEF RebindReachesSameBackend
<1> DEFINE dcid == fallback_dcid(snap[w], p)
<1>1. /\ dcid # NoCid /\ seen[w][dcid].age \in Nat
      /\ Entries(by_dcid[w]) /\ elapsed[w] \in Nat
  BY DatapathAssumption, SMTT(20) DEF IInv, Types, Records
<1>2. Holds(by_dcid[w], dcid, seen[w][dcid], elapsed[w])
  BY DEF IInv, CidsKept
<1>3. Live(by_dcid[w], dcid) /\ by_dcid[w][dcid].mac = seen[w][dcid].mac
  <2> DEFINE map == by_dcid[w]
             r == seen[w][dcid]
             n == elapsed[w]
  <2>1. /\ Entries(map) /\ r.age \in Nat /\ Recent(r) /\ n \in Nat
        /\ Holds(map, dcid, r, n)
    BY <1>1, <1>2, Zenon
  <2> HIDE DEF dcid, map, r, n
  <2>2. Live(map, dcid) /\ map[dcid].mac = r.mac
    BY <2>1, RecentIsLive, ZenonT(30)
  <2> QED BY <2>2, Zenon DEF map, r
<1>4. Sticky(w, p) = {seen[w][dcid].mac}
  BY <1>1, <1>3, Zenon DEF Sticky, lookup
<1>5. QED
  BY <1>4, Zenon DEF Target

\* NAT rebinding: within a queue, a retransmission from another 4-tuple follows
\* its connection ID to the backend the ID was last routed to
\* (ConnectionTable::record_dcid and lookup).
THEOREM RebindingFollowsTheCid == Spec => []RebindReachesSameBackend
BY DatapathInvariant, ReboundNow, PTL

LEMMA LingersNow == IInv => LingersLessThanAnInterval
<1> SUFFICES ASSUME IInv, NEW w \in Worker
             PROVE  /\ \A f \in DOMAIN by_flow[w] : by_flow[w][f].left > -SWEEP_INTERVAL
                    /\ \A k \in DOMAIN by_dcid[w] : by_dcid[w][k].left > -SWEEP_INTERVAL
  BY DEF LingersLessThanAnInterval
<1>1. swept[w] \in 0..SWEEP_INTERVAL - 1 /\ SWEEP_INTERVAL \in Nat \ {0}
  BY DatapathAssumption, Zenon DEF IInv, Types
<1>2. ASSUME NEW map, Entries(map), SweptSince(map, swept[w])
      PROVE  \A k \in DOMAIN map : map[k].left > -SWEEP_INTERVAL
  <2>1. \A k \in DOMAIN map : map[k].left \in Int
    BY <1>2 DEF Entries, Entry
  <2>2. QED
    BY <1>1, <1>2, <2>1 DEF SweptSince
<1>3. QED
  BY <1>2, Zenon DEF IInv, Types, Swept

\* Eviction: no entry of either index outlives its deadline by an interval of
\* its worker's clock (ConnectionTable::maybe_sweep).
THEOREM SweepsBoundTheTables == Spec => []LingersLessThanAnInterval
BY DatapathInvariant, LingersNow, PTL
=============================================================================
