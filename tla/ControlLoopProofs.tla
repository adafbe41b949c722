------------------------- MODULE ControlLoopProofs -------------------------
(***************************************************************************)
(* Proofs about ControlLoop, for every set of backends, workers and route  *)
(* files and every setting of the prober.                                  *)
(*                                                                         *)
(* The inductive invariant is the type invariant, AllOrNothing,            *)
(* PoolMatchesSlots and, for TransitionsCountFlips, that no flip has been  *)
(* counted before the first success.  DownIsNotRouted follows from it.     *)
(* A second invariant, on top of the first, ties each backend's health and *)
(* its wait for the next probe to the number of its failures.              *)
(***************************************************************************)
EXTENDS ControlLoop, RouteTableProofs

\* A well-typed table.
IsTable(t) ==
  /\ t = [servers |-> t.servers, fallback_servers |-> t.fallback_servers]
  /\ t.servers \in Seq(Server)
  /\ t.fallback_servers \in Seq(Server)

-----------------------------------------------------------------------------
(* The route table                                                          *)

\* A sequence mapped entry by entry is a sequence: every operation on the
\* slots has this form.
LEMMA MappedSeq ==
  ASSUME NEW S, NEW s \in Seq(S), NEW T, NEW g \in [DOMAIN s -> T]
  PROVE  g \in Seq(T)
<1>1. DOMAIN s = 1..Len(s) /\ Len(s) \in Nat
  OBVIOUS
<1>2. QED
  BY <1>1

\* from_file publishes the defaults for every server of the file.
LEMMA FromFile ==
  ASSUME NEW f, RouteFile(f)
  PROVE  /\ IsTable(from_file(f))
         /\ \A i \in DOMAIN from_file(f).servers :
              Published(from_file(f).servers[i]) = Default
<1> DEFINE g == [i \in DOMAIN f |->
                  [config |-> f[i].config, address |-> f[i].address,
                   mac |-> f[i].mac, draining |-> f[i].draining,
                   healthy |-> FALSE, transitions |-> 0]]
<1>1. f \in Seq(RawServer)
  BY DEF RouteFile
<1>2. \A i \in DOMAIN f : f[i] \in RawServer
  BY <1>1
<1>3. g \in [DOMAIN f -> Server]
  BY <1>2 DEF RawServer, Server
<1>4. g \in Seq(Server)
  BY <1>1, <1>3, MappedSeq
<1>5. from_file(f) = [servers |-> g, fallback_servers |-> << >>]
  BY DEF from_file
<1>6. \A i \in DOMAIN g : Published(g[i]) = Default
  BY Zenon DEF Published, Default
<1>7. from_file(f).servers = g
  BY <1>5
<1> HIDE DEF g
<1>8. IsTable(from_file(f))
  BY <1>4, <1>5 DEF IsTable
<1>9. QED
  BY <1>6, <1>7, <1>8

LEMMA NewSlots ==
  ASSUME NEW t, IsTable(t), NEW g
  PROVE  [t EXCEPT !.servers = g] = [servers |-> g, fallback_servers |-> t.fallback_servers]
BY DEF IsTable

\* resolve_macs touches no address and no health.
LEMMA ResolveMacs ==
  ASSUME NEW t, IsTable(t), NEW neigh
  PROVE  /\ IsTable(resolve_macs(t, neigh))
         /\ DOMAIN resolve_macs(t, neigh).servers = DOMAIN t.servers
         /\ \A i \in DOMAIN t.servers :
              /\ resolve_macs(t, neigh).servers[i].address = t.servers[i].address
              /\ Published(resolve_macs(t, neigh).servers[i]) = Published(t.servers[i])
<1> DEFINE g == [i \in DOMAIN t.servers |->
                  [t.servers[i] EXCEPT
                     !.mac = t.servers[i].mac
                             \/ t.servers[i].address \in neigh[t.servers[i].config]]]
<1>1. \A i \in DOMAIN t.servers : t.servers[i] \in Server
  BY DEF IsTable
<1>2. g \in [DOMAIN t.servers -> Server]
  BY <1>1, Zenon DEF Server
<1>3. g \in Seq(Server)
  BY <1>2, MappedSeq, Zenon DEF IsTable
<1>4. resolve_macs(t, neigh) = [servers |-> g, fallback_servers |-> t.fallback_servers]
  <2>1. resolve_macs(t, neigh) = [t EXCEPT !.servers = g]
    BY Zenon DEF resolve_macs
  <2> HIDE DEF g
  <2>2. QED
    BY <2>1, NewSlots
<1>5. \A i \in DOMAIN t.servers :
        g[i].address = t.servers[i].address /\ Published(g[i]) = Published(t.servers[i])
  <2> SUFFICES ASSUME NEW i \in DOMAIN t.servers
               PROVE  g[i].address = t.servers[i].address /\ Published(g[i]) = Published(t.servers[i])
    BY Zenon
  <2> DEFINE s == t.servers[i]
             mac == s.mac \/ s.address \in neigh[s.config]
  <2>1. g[i] = [s EXCEPT !.mac = mac] /\ s \in Server
    BY <1>1, Zenon
  <2> HIDE DEF g, s, mac
  <2>2. g[i].address = s.address /\ Published(g[i]) = Published(s)
    BY <2>1 DEF Server, Published
  <2> QED BY <2>2, Zenon DEF s
<1>6. resolve_macs(t, neigh).servers = g /\ DOMAIN g = DOMAIN t.servers
  BY <1>4
<1> HIDE DEF g
<1>7. IsTable(resolve_macs(t, neigh))
  BY <1>3, <1>4 DEF IsTable
<1>8. QED
  BY <1>5, <1>6, <1>7

\* rebuild_fallback_servers touches the pool only, and makes it the pool of
\* the slots.
LEMMA Rebuilt ==
  ASSUME NEW t, IsTable(t)
  PROVE  LET r == rebuild_fallback_servers(t)
         IN  IsTable(r) /\ r.servers = t.servers /\ IsPoolOf(r.fallback_servers, r.servers)
<1>1. PoolOf(t.servers) \in Seq(Server) /\ IsPoolOf(PoolOf(t.servers), t.servers)
  BY PoolCorrect DEF IsTable
<1>2. rebuild_fallback_servers(t) = [servers |-> t.servers, fallback_servers |-> PoolOf(t.servers)]
  BY DEF IsTable, rebuild_fallback_servers
<1>3. QED
  BY <1>1, <1>2 DEF IsTable
-----------------------------------------------------------------------------
(* The prober                                                               *)

\* The index into BACKOFF_SCHEDULE stays in bounds.
LEMMA BackoffType ==
  ASSUME NEW n \in Nat
  PROVE  backoff_for(n) \in Nat
<1>1. /\ Len(BACKOFF_SCHEDULE) \in Nat \ {0}
      /\ \A i \in 1..Len(BACKOFF_SCHEDULE) : BACKOFF_SCHEDULE[i] \in Nat
  BY HealthAssumption
<1>2. CASE n < FAILURE_THRESHOLD
  BY <1>2, HealthAssumption DEF backoff_for
<1>3. CASE ~(n < FAILURE_THRESHOLD)
  <2> DEFINE idx == n - FAILURE_THRESHOLD + 1
             i   == IF idx < Len(BACKOFF_SCHEDULE) THEN idx ELSE Len(BACKOFF_SCHEDULE)
  <2>1. i \in 1..Len(BACKOFF_SCHEDULE)
    BY <1>1, <1>3, HealthAssumption
  <2>2. backoff_for(n) = BACKOFF_SCHEDULE[i]
    BY <1>3 DEF backoff_for
  <2> HIDE DEF i
  <2>3. QED
    BY <1>1, <2>1, <2>2
<1>4. QED
  BY <1>2, <1>3

\* A wrapping increment changes the parity, because the modulus is even.
LEMMA BumpParity ==
  ASSUME NEW n \in 0..TRANSITIONS_MOD - 1
  PROVE  /\ BumpTransitions(n) \in 0..TRANSITIONS_MOD - 1
         /\ BumpTransitions(n) % 2 = 0 <=> n % 2 # 0
<1>1. TRANSITIONS_MOD \in Nat \ {0} /\ TRANSITIONS_MOD % 2 = 0
  BY HealthAssumption
<1>2. CASE n + 1 < TRANSITIONS_MOD
  <2>1. BumpTransitions(n) = n + 1
    BY <1>1, <1>2 DEF BumpTransitions
  <2>2. QED
    BY <1>1, <1>2, <2>1
<1>3. CASE n + 1 = TRANSITIONS_MOD
  <2>1. BumpTransitions(n) = 0
    BY <1>1, <1>3 DEF BumpTransitions
  <2>2. QED
    BY <1>1, <1>3, <2>1
<1>4. QED
  BY <1>1, <1>2, <1>3

\* What the entry of one backend has to satisfy for its flips to be counted:
\* before the first success nothing has been counted.
FlipsCounted(s) ==
  /\ s.healthy <=> s.ever_healthy /\ s.transitions % 2 = 0
  /\ ~s.ever_healthy => s.transitions = 0

\* Either outcome of a probe keeps the count, and changes the count only with
\* the health.
LEMMA ProbeOutcome ==
  ASSUME NEW s \in ServerHealth, NEW r \in {ProbeOk(s), ProbeFailed(s)}
  PROVE  /\ r \in ServerHealth
         /\ r.healthy = s.healthy => r.transitions = s.transitions
         /\ FlipsCounted(s) => FlipsCounted(r)
<1>1. /\ s.failures \in 0..FAILURES_CAP /\ s.healthy \in BOOLEAN
      /\ s.transitions \in 0..TRANSITIONS_MOD - 1 /\ s.ever_healthy \in BOOLEAN
  BY DEF ServerHealth
<1>2. FAILURES_CAP \in Nat /\ FAILURE_THRESHOLD \in Nat /\ PROBE_INTERVAL \in Nat
  BY HealthAssumption DEF FAILURES_CAP
<1>3. CASE r = ProbeOk(s)
  <2> DEFINE m == IF ~s.healthy /\ s.ever_healthy
                  THEN BumpTransitions(s.transitions) ELSE s.transitions
  <2>1. r = [failures |-> 0, healthy |-> TRUE, due_in |-> PROBE_INTERVAL,
             transitions |-> m, ever_healthy |-> s.ever_healthy \/ ~s.healthy]
    BY <1>3 DEF ProbeOk
  <2>2. m \in 0..TRANSITIONS_MOD - 1 /\ (s.healthy => m = s.transitions)
    BY <1>1, BumpParity
  <2>3. FlipsCounted(s) => m % 2 = 0 /\ (s.ever_healthy \/ ~s.healthy)
    BY <1>1, BumpParity DEF FlipsCounted
  <2> HIDE DEF m
  <2>4. r \in ServerHealth
    BY <1>1, <1>2, <2>1, <2>2 DEF ServerHealth
  <2>5. QED
    BY <1>1, <2>1, <2>2, <2>3, <2>4, Zenon DEF FlipsCounted
<1>4. CASE r = ProbeFailed(s)
  <2> DEFINE n    == IF s.failures < FAILURES_CAP THEN s.failures + 1 ELSE FAILURES_CAP
             down == s.healthy /\ n >= FAILURE_THRESHOLD
  <2>1. n \in 0..FAILURES_CAP /\ backoff_for(n) \in Nat
    BY <1>1, <1>2, BackoffType
  <2>2. r = [failures     |-> n,
             healthy      |-> s.healthy /\ ~down,
             due_in       |-> backoff_for(n),
             transitions  |-> IF down THEN BumpTransitions(s.transitions)
                              ELSE s.transitions,
             ever_healthy |-> s.ever_healthy]
    BY <1>4 DEF ProbeFailed
  <2>3. down \in BOOLEAN /\ (down => s.healthy)
    BY <1>1
  <2> HIDE DEF n, down
  <2>4. QED
    BY <1>1, <2>1, <2>2, <2>3, BumpParity, Zenon DEF ServerHealth, FlipsCounted
<1>5. QED
  BY <1>3, <1>4

AllFlipsCounted(h) == \A a \in DOMAIN h : FlipsCounted(h[a])

\* evict_removed and the insertion of new addresses lose nothing that is
\* known of the table's servers.
LEMMA Tracked ==
  ASSUME NEW h, HealthMap(h), NEW addrs \in SUBSET Addr
  PROVE  /\ HealthMap(Track(h, addrs))
         /\ DOMAIN Track(h, addrs) = addrs
         /\ AllFlipsCounted(h) => AllFlipsCounted(Track(h, addrs))
         /\ \A s : s.address \in addrs => Known(Track(h, addrs), s) = Known(h, s)
<1>1. NewHealth \in ServerHealth
  BY HealthAssumption DEF NewHealth, ServerHealth, FAILURES_CAP
<1>2. FlipsCounted(NewHealth) /\ ~NewHealth.healthy /\ NewHealth.transitions = 0
  BY DEF NewHealth, FlipsCounted
<1>3. \A a \in DOMAIN h : h[a] \in ServerHealth
  BY DEF HealthMap
<1>4. HealthMap(Track(h, addrs)) /\ DOMAIN Track(h, addrs) = addrs
  BY <1>1, <1>3 DEF HealthMap, Track
<1>5. AllFlipsCounted(h) => AllFlipsCounted(Track(h, addrs))
  BY <1>2 DEF Track, AllFlipsCounted
<1>6. ASSUME NEW s, s.address \in addrs
      PROVE  Known(Track(h, addrs), s) = Known(h, s)
  BY <1>2, <1>6, Zenon DEF Known, Default, Track, NewHealth
<1>7. QED
  BY <1>4, <1>5, <1>6

\* A probe batch: it reports a change whenever it changes what is known.
LEMMA Probed ==
  ASSUME NEW h, HealthMap(h), NEW due \in SUBSET DOMAIN h, NEW ok
  PROVE  LET r == apply_probe_results(h, due, ok)
         IN  /\ HealthMap(r) /\ DOMAIN r = DOMAIN h
             /\ AllFlipsCounted(h) => AllFlipsCounted(r)
             /\ ~Flipped(h, r, due) =>
                  \A s : s.address \in DOMAIN h => Known(r, s) = Known(h, s)
<1> DEFINE r == apply_probe_results(h, due, ok)
<1>1. \A a \in DOMAIN h : h[a] \in ServerHealth
  BY DEF HealthMap
<1>2. DOMAIN r = DOMAIN h
  BY DEF apply_probe_results
<1>3. \A a \in DOMAIN h \ due : r[a] = h[a]
  BY DEF apply_probe_results
<1>4. \A a \in due : r[a] \in {ProbeOk(h[a]), ProbeFailed(h[a])}
  BY DEF apply_probe_results
<1>5. r = [a \in DOMAIN h |-> r[a]]
  BY DEF apply_probe_results
<1> HIDE DEF r
<1>6. \A a \in DOMAIN h :
        /\ r[a] \in ServerHealth
        /\ FlipsCounted(h[a]) => FlipsCounted(r[a])
        /\ a \in due /\ r[a].healthy = h[a].healthy => r[a].transitions = h[a].transitions
  BY <1>1, <1>3, <1>4, ProbeOutcome
<1>7. HealthMap(r)
  BY <1>2, <1>5, <1>6 DEF HealthMap
<1>8. AllFlipsCounted(h) => AllFlipsCounted(r)
  BY <1>2, <1>6 DEF AllFlipsCounted
<1>9. ASSUME ~Flipped(h, r, due), NEW s, s.address \in DOMAIN h
      PROVE  Known(r, s) = Known(h, s)
  <2>1. r[s.address].healthy = h[s.address].healthy
    BY <1>3, <1>9 DEF Flipped
  <2>2. r[s.address].transitions = h[s.address].transitions
    BY <1>3, <1>6, <1>9, <2>1
  <2>3. QED
    BY <1>2, <1>9, <2>1, <2>2 DEF Known
<1>10. QED
  BY <1>2, <1>7, <1>8, <1>9 DEF r

\* The mirror publishes what is known of every server, whichever were due.
LEMMA Mirrored ==
  ASSUME NEW t, IsTable(t), NEW h, HealthMap(h), DOMAIN h = addresses(t)
  PROVE  /\ IsTable(Mirror(h, t))
         /\ DOMAIN Mirror(h, t).servers = DOMAIN t.servers
         /\ \A i \in DOMAIN t.servers :
              Published(Mirror(h, t).servers[i]) = Known(h, Mirror(h, t).servers[i])
<1> DEFINE g == [i \in DOMAIN t.servers |->
                  LET a == t.servers[i].address
                  IN  IF a \in DOMAIN h
                      THEN [t.servers[i] EXCEPT !.healthy     = h[a].healthy,
                                                !.transitions = h[a].transitions]
                      ELSE t.servers[i]]
<1>1. \A i \in DOMAIN t.servers : t.servers[i] \in Server /\ t.servers[i].address \in DOMAIN h
  BY DEF IsTable, addresses
<1>2. \A a \in DOMAIN h : h[a].healthy \in BOOLEAN /\ h[a].transitions \in Nat
  BY SMTT(30), HealthAssumption DEF HealthMap, ServerHealth
<1>3. \A i \in DOMAIN t.servers :
        g[i] = [t.servers[i] EXCEPT !.healthy     = h[t.servers[i].address].healthy,
                                    !.transitions = h[t.servers[i].address].transitions]
  BY <1>1, Zenon
<1>4. Mirror(h, t) = [servers |-> g, fallback_servers |-> t.fallback_servers]
  <2>1. Mirror(h, t) = [t EXCEPT !.servers = g]
    BY ZenonT(40) DEF Mirror
  <2> HIDE DEF g
  <2>2. QED
    BY <2>1, NewSlots
<1>5. DOMAIN g = DOMAIN t.servers /\ g = [i \in DOMAIN t.servers |-> g[i]]
  BY Zenon
<1> HIDE DEF g
<1>6. \A i \in DOMAIN t.servers :
        /\ g[i] \in Server
        /\ g[i].address = t.servers[i].address
        /\ Published(g[i]) = Known(h, g[i])
  <2> SUFFICES ASSUME NEW i \in DOMAIN t.servers
               PROVE  /\ g[i] \in Server
                      /\ g[i].address = t.servers[i].address
                      /\ Published(g[i]) = Known(h, g[i])
    BY SMTT(30)
  <2> DEFINE a == t.servers[i].address
  <2>1. g[i] \in Server /\ g[i].address = a
    BY <1>1, <1>2, <1>3, ZenonT(40) DEF Server
  <2>2. g[i].healthy = h[a].healthy /\ g[i].transitions = h[a].transitions
    BY <1>1, <1>3, Zenon DEF Server
  <2>3. QED
    BY <1>1, <2>1, <2>2, Zenon DEF Published, Known
<1>7. g \in Seq(Server)
  <2>1. g \in [DOMAIN t.servers -> Server]
    BY <1>5, <1>6
  <2>2. QED
    BY <2>1, MappedSeq DEF IsTable
<1>8. Mirror(h, t).servers = g
  BY <1>4
<1>9. IsTable(Mirror(h, t))
  BY <1>4, <1>7 DEF IsTable
<1>10. QED
  BY <1>5, <1>6, <1>8, <1>9, Zenon

\* HealthChecker::check.  A batch that reports no change leaves everything the
\* prober knows as it was; the table it returns is the one it was given, or it
\* has been mirrored throughout.
LEMMA Checked ==
  ASSUME NEW h, HealthMap(h), NEW t, IsTable(t), NEW ok, NEW r, r = check(h, t, ok)
  PROVE  /\ HealthMap(r.state) /\ IsTable(r.table)
         /\ AllFlipsCounted(h) => AllFlipsCounted(r.state)
         /\ ~r.changed => \A i \in DOMAIN t.servers :
                           Known(r.state, t.servers[i]) = Known(h, t.servers[i])
         /\ \/ r.table = t /\ ~r.changed
            \/ \A i \in DOMAIN r.table.servers :
                 Published(r.table.servers[i]) = Known(r.state, r.table.servers[i])
<1> DEFINE tracked == Track(h, addresses(t))
           due     == Due(tracked)
           probed  == apply_probe_results(tracked, due, ok)
<1>1. /\ addresses(t) \in SUBSET Addr
      /\ \A i \in DOMAIN t.servers : t.servers[i].address \in addresses(t)
  <2>1. \A i \in DOMAIN t.servers : t.servers[i] \in Server
    BY DEF IsTable
  <2>2. \A i \in DOMAIN t.servers : t.servers[i].address \in Addr
    BY <2>1 DEF Server
  <2>3. QED
    BY <2>2 DEF addresses
<1>2. /\ HealthMap(tracked) /\ DOMAIN tracked = addresses(t)
      /\ AllFlipsCounted(h) => AllFlipsCounted(tracked)
      /\ \A s : s.address \in addresses(t) => Known(tracked, s) = Known(h, s)
  BY <1>1, Tracked
<1>3. due \in SUBSET DOMAIN tracked
  BY DEF Due
<1>4. CASE due = {}
  <2>1. r = [state |-> tracked, table |-> t, changed |-> FALSE]
    BY <1>4 DEF check
  <2> HIDE DEF tracked
  <2>2. QED
    BY <1>1, <1>2, <2>1
<1>5. CASE due # {}
  <2>1. r = [state |-> probed, table |-> Mirror(probed, t),
             changed |-> Flipped(tracked, probed, due)]
    BY <1>5 DEF check
  <2> HIDE DEF tracked, due
  <2>2. /\ HealthMap(probed) /\ DOMAIN probed = addresses(t)
        /\ AllFlipsCounted(tracked) => AllFlipsCounted(probed)
        /\ ~Flipped(tracked, probed, due) =>
             \A s : s.address \in addresses(t) => Known(probed, s) = Known(tracked, s)
    BY <1>2, <1>3, Probed
  <2> HIDE DEF probed
  <2>3. /\ IsTable(Mirror(probed, t))
        /\ DOMAIN Mirror(probed, t).servers = DOMAIN t.servers
        /\ \A i \in DOMAIN t.servers :
             Published(Mirror(probed, t).servers[i]) = Known(probed, Mirror(probed, t).servers[i])
    BY <2>2, Mirrored
  <2>4. r.state = probed /\ r.table = Mirror(probed, t) /\ r.changed = Flipped(tracked, probed, due)
    BY <2>1
  <2>5. QED
    BY <1>1, <1>2, <2>2, <2>3, <2>4
<1>6. QED
  BY <1>4, <1>5, Zenon

\* The operations on the map that move no health.
LEMMA TimersOnly ==
  ASSUME NEW h, HealthMap(h), NEW r \in {reset_backoff(h), Elapse(h)}
  PROVE  /\ HealthMap(r) /\ DOMAIN r = DOMAIN h
         /\ AllFlipsCounted(h) => AllFlipsCounted(r)
         /\ \A s : Known(r, s) = Known(h, s)
<1>1. \A a \in DOMAIN h : h[a] \in ServerHealth
  BY DEF HealthMap
<1>2. DOMAIN r = DOMAIN h /\ r = [a \in DOMAIN h |-> r[a]]
  BY DEF reset_backoff, Elapse
<1>3. \A a \in DOMAIN h :
        /\ r[a] \in ServerHealth
        /\ r[a].healthy = h[a].healthy /\ r[a].transitions = h[a].transitions
        /\ r[a].ever_healthy = h[a].ever_healthy
  BY <1>1 DEF reset_backoff, Elapse, ServerHealth
<1>4. HealthMap(r)
  BY <1>2, <1>3 DEF HealthMap
<1>5. AllFlipsCounted(h) => AllFlipsCounted(r)
  BY <1>2, <1>3 DEF AllFlipsCounted, FlipsCounted
<1>6. \A s : Known(r, s) = Known(h, s)
  BY <1>2, <1>3 DEF Known
<1>7. QED
  BY <1>2, <1>4, <1>5, <1>6

-----------------------------------------------------------------------------
(* The main loop                                                            *)

\* A freshly loaded table publishes the defaults.
LEMMA Loaded ==
  ASSUME NEW f, RouteFile(f), NEW neigh
  PROVE  /\ IsTable(LoadedTable(f, neigh))
         /\ IsPoolOf(LoadedTable(f, neigh).fallback_servers, LoadedTable(f, neigh).servers)
         /\ \A i \in DOMAIN LoadedTable(f, neigh).servers :
              Published(LoadedTable(f, neigh).servers[i]) = Default
BY FromFile, ResolveMacs, Rebuilt DEF LoadedTable

\* The inductive invariant.
IInv == TypeOK /\ AllOrNothing /\ PoolMatchesSlots /\ AllFlipsCounted(state)

\* What the steps that leave the table and the prober alone have to show.
OtherTypes ==
  /\ up \in SUBSET Addr
  /\ pc \in {"signals", "rebuild"}
  /\ draining_had_traffic \in BOOLEAN
  /\ draining_delta \in BOOLEAN
  /\ drained \in BOOLEAN
  /\ batch \in [Worker -> {NoBatch} \cup [routable: SUBSET Addr]]
  /\ probed_since_reload \in BOOLEAN

LEMMA TypeParts == TypeOK <=> IsTable(table) /\ HealthMap(state) /\ OtherTypes
BY DEF TypeOK, IsTable, OtherTypes

LEMMA TypePartsNext == TypeOK' <=> IsTable(table') /\ HealthMap(state') /\ OtherTypes'
BY DEF TypeOK, IsTable, OtherTypes

LEMMA InitIInv == Init => IInv
<1> SUFFICES ASSUME Init PROVE IInv
  OBVIOUS
<1>1. PICK f \in BootFiles, neigh \in NeighAnswers : table = LoadedTable(f, neigh)
  BY DEF Init
<1>2. /\ IsTable(table) /\ PoolMatchesSlots
      /\ \A i \in DOMAIN table.servers : Published(table.servers[i]) = Default
  BY <1>1, FilesAssumption, Loaded DEF PoolMatchesSlots
<1>3. HealthMap(state) /\ AllFlipsCounted(state)
  BY DEF Init, HealthMap, AllFlipsCounted
<1>4. OtherTypes
  BY Zenon DEF Init, OtherTypes
<1>5. QED
  BY <1>2, <1>3, <1>4, TypeParts DEF IInv, AllOrNothing

LEMMA SighupIInv == IInv /\ Sighup => IInv'
<1> SUFFICES ASSUME IInv, Sighup PROVE IInv'
  OBVIOUS
<1>1. IsTable(table) /\ HealthMap(state) /\ OtherTypes /\ AllFlipsCounted(state)
  BY TypeParts DEF IInv
<1>2. probed_since_reload' \in BOOLEAN => OtherTypes'
  BY <1>1 DEF Sighup, loopVars, workerVars, OtherTypes
<1>3. /\ HealthMap(state') /\ AllFlipsCounted(state')
      /\ \A s : Known(state', s) = Known(state, s)
  BY <1>1, TimersOnly DEF Sighup
<1>4. CASE ReloadTable
  <2>1. PICK f \in ReloadFiles, neigh \in NeighAnswers : table' = LoadedTable(f, neigh)
    BY <1>4 DEF ReloadTable
  <2>2. /\ IsTable(table') /\ PoolMatchesSlots'
        /\ \A i \in DOMAIN table'.servers : Published(table'.servers[i]) = Default
    BY <2>1, FilesAssumption, Loaded DEF PoolMatchesSlots
  <2>3. OtherTypes'
    BY <1>2, <1>4, Zenon DEF ReloadTable
  <2>4. QED
    BY <1>3, <2>2, <2>3, TypePartsNext DEF IInv, AllOrNothing
<1>5. CASE KeepTable
  <2>1. table' = table /\ OtherTypes'
    BY <1>1, <1>2, <1>5 DEF KeepTable, OtherTypes
  <2>2. AllOrNothing' /\ PoolMatchesSlots'
    BY <1>3, <2>1 DEF IInv, AllOrNothing, PoolMatchesSlots
  <2>3. QED
    BY <1>1, <1>3, <2>1, <2>2, TypePartsNext DEF IInv
<1>6. QED
  BY <1>4, <1>5 DEF Sighup

\* The step that matters: a table is stored only together with the health of
\* all of its servers, or when that health is what it was.
LEMMA CheckAndRebuildIInv == IInv /\ CheckAndRebuild => IInv'
<1> SUFFICES ASSUME IInv, CheckAndRebuild PROVE IInv'
  OBVIOUS
<1>1. IsTable(table) /\ HealthMap(state) /\ OtherTypes /\ AllFlipsCounted(state)
  BY TypeParts DEF IInv
<1> DEFINE unresolved == has_unresolved_macs(table)
           clone(neigh) == IF unresolved THEN resolve_macs(table, neigh) ELSE table
<1>2. PICK neigh \in NeighAnswers :
        LET result == check(state, clone(neigh), up)
        IN  /\ state' = result.state
            /\ table' = IF unresolved \/ result.changed
                        THEN rebuild_fallback_servers(result.table)
                        ELSE table
  BY Zenon DEF CheckAndRebuild
<1> DEFINE c == clone(neigh)
           r == check(state, c, up)
<1>3. /\ IsTable(c) /\ DOMAIN c.servers = DOMAIN table.servers
      /\ \A i \in DOMAIN table.servers :
           /\ c.servers[i].address = table.servers[i].address
           /\ Published(c.servers[i]) = Published(table.servers[i])
      /\ ~unresolved => c = table
  BY <1>1, ResolveMacs, Zenon
<1>4. /\ state' = r.state
      /\ table' = IF unresolved \/ r.changed
                  THEN rebuild_fallback_servers(r.table) ELSE table
  BY <1>2, Zenon
<1> HIDE DEF unresolved, c
<1>5. /\ HealthMap(r.state) /\ IsTable(r.table) /\ AllFlipsCounted(r.state)
      /\ ~r.changed => \A i \in DOMAIN c.servers :
                         Known(r.state, c.servers[i]) = Known(state, c.servers[i])
      /\ \/ r.table = c /\ ~r.changed
         \/ \A i \in DOMAIN r.table.servers :
              Published(r.table.servers[i]) = Known(r.state, r.table.servers[i])
  <2>1. r = check(state, c, up)
    OBVIOUS
  <2> HIDE DEF r
  <2>2. HealthMap(state) /\ IsTable(c) /\ AllFlipsCounted(state)
    BY <1>1, <1>3
  <2>3. HealthMap(r.state) /\ IsTable(r.table) /\ AllFlipsCounted(r.state)
    BY <2>1, <2>2, Checked, Zenon
  <2>4. ~r.changed => \A i \in DOMAIN c.servers :
                       Known(r.state, c.servers[i]) = Known(state, c.servers[i])
    BY <2>1, <2>2, Checked
  <2>5. \/ r.table = c /\ ~r.changed
        \/ \A i \in DOMAIN r.table.servers :
             Published(r.table.servers[i]) = Known(r.state, r.table.servers[i])
    BY SMTT(40), <2>1, <2>2, Checked
  <2>6. QED
    BY <2>3, <2>4, <2>5
<1> HIDE DEF r
<1>6. \A h : \A i \in DOMAIN table.servers : Known(h, c.servers[i]) = Known(h, table.servers[i])
  <2>1. \A h, s1, s2 : s1.address = s2.address => Known(h, s1) = Known(h, s2)
    BY DEF Known
  <2>2. QED
    BY <1>3, <2>1
<1>7. IsTable(table') /\ PoolMatchesSlots'
  BY <1>1, <1>4, <1>5, Rebuilt, Zenon DEF IInv, PoolMatchesSlots
<1>8. AllOrNothing'
  <2>1. CASE ~(unresolved \/ r.changed)
    <3>1. table' = table /\ \A i \in DOMAIN table.servers :
                              Known(state', table.servers[i]) = Known(state, table.servers[i])
      BY <1>3, <1>4, <1>5, <1>6, <2>1
    <3>2. QED
      BY <3>1 DEF IInv, AllOrNothing
  <2>2. CASE /\ unresolved \/ r.changed
             /\ \A i \in DOMAIN r.table.servers :
                  Published(r.table.servers[i]) = Known(r.state, r.table.servers[i])
    <3>1. table'.servers = r.table.servers
      BY <1>4, <1>5, <2>2, Rebuilt
    <3>2. QED
      BY <1>4, <2>2, <3>1 DEF AllOrNothing
  <2>3. CASE unresolved /\ r.table = c /\ ~r.changed
    <3>1. table'.servers = c.servers
      BY <1>3, <1>4, <2>3, Rebuilt
    <3>2. \A i \in DOMAIN table'.servers :
            /\ i \in DOMAIN table.servers
            /\ Published(table'.servers[i]) = Published(table.servers[i])
            /\ Known(state', table'.servers[i]) = Known(state, table.servers[i])
      BY <1>3, <1>4, <1>5, <1>6, <2>3, <3>1
    <3>3. DOMAIN table'.servers = DOMAIN table.servers
      BY <1>3, <3>1
    <3>4. QED
      BY <3>2, <3>3 DEF IInv, AllOrNothing
  <2>4. QED
    BY <1>5, <2>1, <2>2, <2>3
<1>9. OtherTypes'
  BY <1>1, Zenon DEF CheckAndRebuild, workerVars, OtherTypes
<1>10. QED
  BY <1>4, <1>5, <1>7, <1>8, <1>9, TypePartsNext, Zenon DEF IInv

LEMMA NextIInv == IInv /\ [Next]_vars => IInv'
<1> SUFFICES ASSUME IInv, [Next]_vars PROVE IInv'
  OBVIOUS
<1>1. CASE Sighup
  BY <1>1, SighupIInv
<1>2. CASE CheckAndRebuild
  BY <1>2, CheckAndRebuildIInv
<1> USE DEF IInv
<1>3. OtherTypes
  BY TypeParts
<1>4. CASE UNCHANGED <<table, state>> /\ OtherTypes'
  BY <1>4, TypeParts, TypePartsNext DEF IsTable, HealthMap, AllOrNothing, PoolMatchesSlots
<1>5. CASE DetectDrained
  <2>1. DrainComplete \in BOOLEAN
    BY DEF DrainComplete
  <2>2. OtherTypes'
    BY <1>3, <1>5, <2>1, Zenon DEF DetectDrained, OtherTypes
  <2>3. QED
    BY <1>4, <1>5, <2>2 DEF DetectDrained
<1>6. ASSUME NEW w \in Worker, StartBatch(w) PROVE IInv'
  <2>1. Snapshot(table) \in [routable: SUBSET Addr]
    <3>1. \A i \in DOMAIN table.servers : table.servers[i] \in Server
      BY TypeParts DEF IsTable
    <3>2. \A i \in DOMAIN table.servers : table.servers[i].address \in Addr
      BY <3>1 DEF Server
    <3>3. QED
      BY <3>2 DEF Snapshot
  <2>2. OtherTypes'
    BY <1>3, <1>6, <2>1 DEF StartBatch, loopVars, OtherTypes
  <2>3. QED
    BY <1>4, <1>6, <2>2 DEF StartBatch
<1>7. ASSUME NEW w \in Worker, FinishBatch(w) PROVE IInv'
  <2>1. OtherTypes'
    BY <1>3, <1>7 DEF FinishBatch, loopVars, OtherTypes
  <2>2. QED
    BY <1>4, <1>7, <2>1 DEF FinishBatch
<1>8. ASSUME NEW a \in Addr, Flip(a) PROVE IInv'
  <2>1. OtherTypes'
    BY <1>3, <1>8 DEF Flip, loopVars, workerVars, OtherTypes
  <2>2. QED
    BY <1>4, <1>8, <2>1 DEF Flip
<1>9. CASE Tick
  <2>1. table' = table /\ OtherTypes'
    BY <1>3, <1>9 DEF Tick, loopVars, workerVars, OtherTypes
  <2>2. /\ HealthMap(state') /\ AllFlipsCounted(state')
        /\ \A s : Known(state', s) = Known(state, s)
    BY <1>9, TimersOnly, TypeParts DEF Tick
  <2>3. AllOrNothing' /\ PoolMatchesSlots'
    BY <2>1, <2>2 DEF AllOrNothing, PoolMatchesSlots
  <2>4. QED
    BY <2>1, <2>2, <2>3, TypeParts, TypePartsNext
<1>10. CASE UNCHANGED vars
  BY <1>3, <1>4, <1>10 DEF vars, loopVars, workerVars, OtherTypes
<1>11. QED
  BY <1>1, <1>2, <1>5, <1>6, <1>7, <1>8, <1>9, <1>10 DEF Next

THEOREM InductiveInvariant == Spec => []IInv
BY InitIInv, NextIInv, PTL DEF Spec

\* Workers never see a half-updated table: whatever the files, the neighbour
\* answers and the order of signals and probes, the health in the live table
\* is the prober's for every server or the default for every server.
THEOREM NeverHalfUpdated == Spec => []AllOrNothing
<1>1. IInv => AllOrNothing
  BY DEF IInv
<1>2. QED
  BY <1>1, InductiveInvariant, PTL

\* The flap counter and the health flag of every backend agree for ever, also
\* across the wrap of the counter: the modulus being even is all it takes.
THEOREM FlapsAreCounted == Spec => []TransitionsCountFlips
<1>1. IInv => TransitionsCountFlips
  BY DEF IInv, AllFlipsCounted, FlipsCounted, TransitionsCountFlips
<1>2. QED
  BY <1>1, InductiveInvariant, PTL

\* Every variable stays within its Rust type: no index leaves the backoff
\* schedule and the pool holds servers.
THEOREM TypeCorrect == Spec => []TypeOK
<1>1. IInv => TypeOK
  BY DEF IInv
<1>2. QED
  BY <1>1, InductiveInvariant, PTL

\* Every store of the table rebuilt the pool from the slots stored with it.
THEOREM PoolInStep == Spec => []PoolMatchesSlots
<1>1. IInv => PoolMatchesSlots
  BY DEF IInv
<1>2. QED
  BY <1>1, InductiveInvariant, PTL

\* A server the prober holds down is neither healthy in the live table nor in
\* its pool.
THEOREM DownIsOut == Spec => []DownIsNotRouted
<1>1. ASSUME IInv PROVE DownIsNotRouted
  <2>1. ASSUME NEW i \in DOMAIN table.servers, table.servers[i].address \in DOMAIN state,
               ~state[table.servers[i].address].healthy
        PROVE  ~table.servers[i].healthy
    <3>1. Published(table.servers[i]) \in {Known(state, table.servers[i]), Default}
      BY <1>1 DEF IInv, AllOrNothing
    <3>2. QED
      BY <2>1, <3>1, Zenon DEF Published, Known, Default
  <2>2. ASSUME NEW k \in DOMAIN table.fallback_servers
        PROVE  \E i \in DOMAIN table.servers :
                 table.fallback_servers[k] = table.servers[i] /\ table.servers[i].healthy
    BY <1>1 DEF IInv, PoolMatchesSlots, IsPoolOf, FirstAssignable, Assignable
  <2>3. QED
    BY <2>1, <2>2, Zenon DEF DownIsNotRouted
<1>2. QED
  BY <1>1, InductiveInvariant, PTL
-----------------------------------------------------------------------------
(* Thresholds and backoff                                                   *)

\* What the entry of one backend has to satisfy: once it has answered, its health says
\* whether fewer than FAILURE_THRESHOLD probes have failed since the last answer, and
\* the wait for its next probe is no longer than those failures ask for.
InStep(s) ==
  /\ s.healthy => s.ever_healthy
  /\ s.ever_healthy => (s.healthy <=> s.failures < FAILURE_THRESHOLD)
  /\ s.due_in <= backoff_for(s.failures)

AllInStep(h) == \A a \in DOMAIN h : InStep(h[a])

LEMMA OutcomeInStep ==
  ASSUME NEW s \in ServerHealth, InStep(s), NEW r \in {ProbeOk(s), ProbeFailed(s)}
  PROVE  InStep(r)
<1>1. /\ s.failures \in Nat /\ s.failures <= FAILURES_CAP
      /\ s.healthy \in BOOLEAN /\ s.ever_healthy \in BOOLEAN
  BY HealthAssumption DEF ServerHealth, FAILURES_CAP
<1>2. /\ FAILURES_CAP \in Nat /\ FAILURE_THRESHOLD \in Nat \ {0} /\ PROBE_INTERVAL \in Nat
      /\ FAILURE_THRESHOLD <= FAILURES_CAP
  BY HealthAssumption DEF FAILURES_CAP
<1>3. CASE r = ProbeOk(s)
  <2>1. /\ r.failures = 0 /\ r.healthy = TRUE /\ r.due_in = PROBE_INTERVAL
        /\ r.ever_healthy = (s.ever_healthy \/ ~s.healthy)
    BY <1>3 DEF ProbeOk
  <2>2. backoff_for(0) = PROBE_INTERVAL /\ 0 < FAILURE_THRESHOLD /\ PROBE_INTERVAL <= PROBE_INTERVAL
    BY <1>2 DEF backoff_for
  <2> QED BY <1>1, <2>1, <2>2, Zenon DEF InStep
<1>4. CASE r = ProbeFailed(s)
  <2> DEFINE n == IF s.failures < FAILURES_CAP THEN s.failures + 1 ELSE FAILURES_CAP
  <2>1. /\ r.failures = n /\ r.due_in = backoff_for(n) /\ r.ever_healthy = s.ever_healthy
        /\ r.healthy = (s.healthy /\ ~(s.healthy /\ n >= FAILURE_THRESHOLD))
    BY <1>4 DEF ProbeFailed
  <2>2. /\ n \in Nat /\ (n >= FAILURE_THRESHOLD <=> ~(n < FAILURE_THRESHOLD))
        /\ ~(s.failures < FAILURE_THRESHOLD) => ~(n < FAILURE_THRESHOLD)
    BY <1>1, <1>2
  <2>3. backoff_for(n) <= backoff_for(n)
    BY <2>2, BackoffType
  <2> HIDE DEF n
  <2> QED BY <1>1, <2>1, <2>2, <2>3, Zenon DEF InStep
<1> QED BY <1>3, <1>4

LEMMA CheckInStep ==
  ASSUME NEW h, HealthMap(h), AllInStep(h), NEW t, IsTable(t), NEW ok
  PROVE  AllInStep(check(h, t, ok).state)
<1> DEFINE tracked == Track(h, addresses(t))
           due     == Due(tracked)
           probed  == apply_probe_results(tracked, due, ok)
<1>1. addresses(t) \in SUBSET Addr
  <2>1. \A i \in DOMAIN t.servers : t.servers[i] \in Server
    BY DEF IsTable
  <2>2. \A i \in DOMAIN t.servers : t.servers[i].address \in Addr
    BY <2>1 DEF Server
  <2> QED BY <2>2 DEF addresses
<1>2. InStep(NewHealth)
  <2>1. backoff_for(0) = PROBE_INTERVAL /\ 0 <= PROBE_INTERVAL
    BY HealthAssumption DEF backoff_for
  <2> QED BY <2>1 DEF InStep, NewHealth
<1>3. HealthMap(tracked)
  BY <1>1, Tracked
<1>4. AllInStep(tracked)
  BY <1>2 DEF Track, AllInStep
<1>5. AllInStep(probed)
  <2>1. \A a \in DOMAIN tracked : tracked[a] \in ServerHealth
    BY <1>3 DEF HealthMap
  <2> HIDE DEF tracked, due
  <2>2. /\ DOMAIN probed = DOMAIN tracked
        /\ \A a \in DOMAIN tracked :
             probed[a] = tracked[a] \/ probed[a] \in {ProbeOk(tracked[a]), ProbeFailed(tracked[a])}
    BY DEF apply_probe_results
  <2> HIDE DEF probed
  <2> QED BY <1>4, <2>1, <2>2, OutcomeInStep, Zenon DEF AllInStep
<1>6. check(h, t, ok).state = IF due = {} THEN tracked ELSE probed
  BY DEF check
<1> QED BY <1>4, <1>5, <1>6, Zenon

LEMMA TimersInStep ==
  ASSUME NEW h, HealthMap(h), AllInStep(h), NEW r \in {reset_backoff(h), Elapse(h)}
  PROVE  AllInStep(r)
<1>1. \A a \in DOMAIN h : h[a] \in ServerHealth
  BY DEF HealthMap
<1>2. DOMAIN r = DOMAIN h
  BY DEF reset_backoff, Elapse
<1>3. ASSUME NEW a \in DOMAIN h PROVE InStep(r[a])
  <2>1. h[a] \in ServerHealth /\ InStep(h[a])
    BY <1>1 DEF AllInStep
  <2>2. /\ r[a].healthy = h[a].healthy /\ r[a].ever_healthy = h[a].ever_healthy
        /\ r[a].failures = h[a].failures
        /\ r[a].due_in \in {0, h[a].due_in - 1}
        /\ r[a].due_in = h[a].due_in - 1 => h[a].due_in # 0
    BY <2>1 DEF reset_backoff, Elapse, ServerHealth
  <2>3. h[a].due_in \in Nat /\ h[a].failures \in Nat
    BY <2>1, HealthAssumption DEF ServerHealth, FAILURES_CAP
  <2>4. backoff_for(h[a].failures) \in Nat /\ h[a].due_in <= backoff_for(h[a].failures)
    BY <2>1, <2>3, BackoffType, Zenon DEF InStep
  <2>5. r[a].due_in <= backoff_for(h[a].failures)
    BY <2>2, <2>3, <2>4
  <2> QED BY <2>1, <2>2, <2>5, Zenon DEF InStep
<1> QED BY <1>2, <1>3, Zenon DEF AllInStep

LEMMA NextInStep == IInv /\ AllInStep(state) /\ [Next]_vars => AllInStep(state')
<1> SUFFICES ASSUME IInv, AllInStep(state), [Next]_vars PROVE AllInStep(state')
  OBVIOUS
<1>1. IsTable(table) /\ HealthMap(state)
  BY TypeParts DEF IInv
<1>2. CASE Sighup
  BY <1>1, <1>2, TimersInStep, Zenon DEF Sighup
<1>3. CASE Tick
  BY <1>1, <1>3, TimersInStep, Zenon DEF Tick
<1>4. CASE CheckAndRebuild
  <2> DEFINE clone(neigh) == IF has_unresolved_macs(table) THEN resolve_macs(table, neigh) ELSE table
  <2>1. PICK neigh \in NeighAnswers : state' = check(state, clone(neigh), up).state
    BY <1>4 DEF CheckAndRebuild
  <2>2. IsTable(clone(neigh))
    BY <1>1, ResolveMacs
  <2> QED BY <1>1, <2>1, <2>2, CheckInStep, Zenon
<1>5. CASE UNCHANGED state
  BY <1>5
<1>6. CASE \/ DetectDrained \/ (\E w \in Worker : StartBatch(w) \/ FinishBatch(w))
           \/ (\E a \in Addr : Flip(a)) \/ UNCHANGED vars
  BY <1>5, <1>6, Zenon DEF DetectDrained, StartBatch, FinishBatch, Flip, vars
<1> QED BY <1>2, <1>3, <1>4, <1>6, Zenon DEF Next

\* Once a backend has answered a probe, the prober holds it healthy exactly while fewer
\* than FAILURE_THRESHOLD probes in a row have failed; apply_probe_results keeps the flag
\* and the number in step through every mixture of probes, reloads and removals.
HealthFollowsFailures ==
  \A a \in DOMAIN state :
    state[a].ever_healthy => (state[a].healthy <=> state[a].failures < FAILURE_THRESHOLD)

\* No backend waits for its probe longer than backoff_for allows for its failures, whatever
\* signals, reloads and recoveries came in between.
NextProbeIsNear ==
  \A a \in DOMAIN state : state[a].due_in <= backoff_for(state[a].failures)

\* A server that workers may forward to is one the prober tracks, that has answered, and
\* that has failed fewer than FAILURE_THRESHOLD probes since: neither a reload nor a store
\* of check_and_rebuild publishes an older success.
RoutedHasAnswered ==
  \A i \in DOMAIN table.servers :
    table.servers[i].healthy =>
      /\ table.servers[i].address \in DOMAIN state
      /\ state[table.servers[i].address].ever_healthy
      /\ state[table.servers[i].address].failures < FAILURE_THRESHOLD

LEMMA InStepAlways == Spec => [](IInv /\ AllInStep(state))
<1>1. Init => AllInStep(state)
  BY DEF Init, AllInStep
<1>2. IInv /\ AllInStep(state) /\ [Next]_vars => AllInStep(state)'
  BY NextInStep
<1> QED BY <1>1, <1>2, InitIInv, NextIInv, PTL DEF Spec

\* Health and the number of failed probes agree, and no wait exceeds the backoff, for every
\* threshold, interval and schedule.
THEOREM ProberKeepsItsSchedule == Spec => [](HealthFollowsFailures /\ NextProbeIsNear)
<1>1. AllInStep(state) => HealthFollowsFailures /\ NextProbeIsNear
  BY Zenon DEF AllInStep, InStep, HealthFollowsFailures, NextProbeIsNear
<1> QED BY <1>1, InStepAlways, PTL

\* Whatever the order of probes, flips, signals and stores, the live table calls no server
\* healthy that the prober has not heard from within its last FAILURE_THRESHOLD probes.
THEOREM RoutedServersAnswer == Spec => []RoutedHasAnswered
<1>1. ASSUME IInv, AllInStep(state) PROVE RoutedHasAnswered
  <2> SUFFICES ASSUME NEW i \in DOMAIN table.servers, table.servers[i].healthy
               PROVE  LET a == table.servers[i].address
                      IN  a \in DOMAIN state /\ state[a].ever_healthy
                            /\ state[a].failures < FAILURE_THRESHOLD
    BY Zenon DEF RoutedHasAnswered
  <2>1. Published(table.servers[i]) \in {Known(state, table.servers[i]), Default}
    BY <1>1 DEF IInv, AllOrNothing
  <2>2. table.servers[i].address \in DOMAIN state /\ state[table.servers[i].address].healthy
    BY <2>1, Zenon DEF Published, Known, Default
  <2> QED BY <1>1, <2>2, Zenon DEF AllInStep, InStep
<1> QED BY <1>1, InStepAlways, PTL

=============================================================================
