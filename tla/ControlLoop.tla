----------------------------- MODULE ControlLoop -----------------------------
(***************************************************************************)
(* The daemon's main loop (main.rs, config/mod.rs) with the workers that   *)
(* read the table it publishes.  One iteration handles the pending         *)
(* signals, compares the statistics with the last iteration's (drain       *)
(* detection), and runs check_and_rebuild.  The main thread is the only    *)
(* writer of the live table; a worker loads a snapshot of it per batch.    *)
(*                                                                         *)
(* Not here: the keys of the slots (KeyAge), the packets' way through a    *)
(* snapshot (Datapath), start-up and shutdown.                             *)
(***************************************************************************)
EXTENDS HealthChecker

CONSTANTS
  Worker,        \* AF_XDP worker threads
  BootFiles,     \* route files the daemon may be started with
  ReloadFiles,   \* route files SIGHUP may find; it may also find a bad one
  NoBatch        \* a worker between two batches

ASSUME FilesAssumption ==
  /\ \A f \in BootFiles \cup ReloadFiles : RouteFile(f)
  /\ NoBatch \notin [routable: SUBSET Addr]

VARIABLES
  table,                 \* the live ConfigTable behind the ArcSwap
  state,                 \* HealthChecker::state
  up,                    \* addresses that would answer a probe now
  pc,                    \* where the main loop is
  draining_had_traffic,  \* the main loop's local of that name
  draining_delta,        \* draining_forwarded has grown since prev_stats
  drained,               \* the last iteration logged "fully drained"
  batch,                 \* per worker: the snapshot of its batch
  probed_since_reload    \* history: a probe batch ran on the current file

loopVars == <<pc, draining_had_traffic, drained>>
workerVars == <<draining_delta, batch>>
vars == <<table, state, up, loopVars, workerVars, probed_since_reload>>

NeighAnswers == [ConfigId -> SUBSET Addr]

\* A table as main() and reload_config build it from a file.
LoadedTable(f, neigh) ==
  rebuild_fallback_servers(resolve_macs(from_file(f), neigh))

Init ==
  /\ \E f \in BootFiles, neigh \in NeighAnswers : table = LoadedTable(f, neigh)
  /\ state = [a \in {} |-> NewHealth]
  /\ up \in SUBSET Addr
  /\ pc = "signals"
  /\ draining_had_traffic = FALSE
  /\ draining_delta = FALSE
  /\ drained = FALSE
  /\ batch = [w \in Worker |-> NoBatch]
  /\ probed_since_reload = FALSE

-----------------------------------------------------------------------------
(* The main thread                                                          *)

\* reload_config with a route file that parses.
ReloadTable ==
  \E f \in ReloadFiles, neigh \in NeighAnswers :
    /\ table' = LoadedTable(f, neigh)
    /\ probed_since_reload' = FALSE

\* reload_config with a route file that does not: the settings are kept.
KeepTable == UNCHANGED <<table, probed_since_reload>>

\* SIGHUP: reload_config, then reset_backoff whether or not the file was good.
Sighup ==
  /\ pc = "signals"
  /\ ReloadTable \/ KeepTable
  /\ state' = reset_backoff(state)
  /\ UNCHANGED <<up, loopVars, workerVars>>

\* Mutant: the two branches of the drain test are swapped.
DrainCompleteSwapped ==
  draining_delta /\ draining_had_traffic /\ has_draining_servers(table)

\* Nothing was forwarded to draining servers since the last iteration, but
\* something was before that.
DrainComplete ==
  ~draining_delta /\ draining_had_traffic /\ has_draining_servers(table)

\* The statistics part of an iteration, once no signal is pending.
DetectDrained ==
  /\ pc = "signals"
  /\ pc' = "rebuild"
  /\ drained' = DrainComplete
  /\ draining_had_traffic' = ((draining_had_traffic \/ draining_delta)
                              /\ ~drained')
  /\ draining_delta' = FALSE
  /\ UNCHANGED <<table, state, up, batch, probed_since_reload>>

\* check_and_rebuild: clone, resolve, probe, and store only on a rebuild.
CheckAndRebuild ==
  /\ pc = "rebuild"
  /\ pc' = "signals"
  /\ \E neigh \in NeighAnswers :
       LET unresolved == has_unresolved_macs(table)
           clone      == IF unresolved THEN resolve_macs(table, neigh) ELSE table
           result     == check(state, clone, up)
       IN  /\ state' = result.state
           /\ probed_since_reload' = (probed_since_reload
                                      \/ Due(Track(state, addresses(table))) # {})
           /\ table' = IF unresolved \/ result.changed
                       THEN rebuild_fallback_servers(result.table)
                       ELSE table
  /\ drained' = FALSE
  /\ UNCHANGED <<up, draining_had_traffic, workerVars>>

-----------------------------------------------------------------------------
(* Workers, backends and time                                               *)

\* The CID path of process_udp forwards only to a healthy server with a MAC.
Routable(s) == s.healthy /\ s.mac

\* What a batch needs of its snapshot: the draining servers that packets are still
\* forwarded to.
Snapshot(t) ==
  LET draining == {i \in DOMAIN t.servers : t.servers[i].draining}
  IN  [routable |-> {t.servers[i].address :
                       i \in {j \in draining : Routable(t.servers[j])}}]

\* A batch begins: config.load().
StartBatch(w) ==
  /\ batch[w] = NoBatch
  /\ batch' = [batch EXCEPT ![w] = Snapshot(table)]
  /\ UNCHANGED <<table, state, up, loopVars, draining_delta,
                 probed_since_reload>>

\* The batch carried packets that were forwarded to the draining servers `hit`, and
\* its counters are flushed.
FinishBatch(w) ==
  /\ batch[w] # NoBatch
  /\ \E hit \in SUBSET batch[w].routable :
       draining_delta' = (draining_delta \/ hit # {})
  /\ batch' = [batch EXCEPT ![w] = NoBatch]
  /\ UNCHANGED <<table, state, up, loopVars, probed_since_reload>>

\* A backend comes or goes, or the path to it starts or stops losing probes.
Flip(a) ==
  /\ up' = IF a \in up THEN up \ {a} ELSE up \cup {a}
  /\ UNCHANGED <<table, state, loopVars, workerVars, probed_since_reload>>

\* Only check() and reset_backoff compare times, so passing time is shown where
\* the loop waits for it, in recv_timeout.
Tick ==
  /\ pc = "signals"
  /\ state' = Elapse(state)
  /\ UNCHANGED <<table, up, loopVars, workerVars, probed_since_reload>>

Next ==
  \/ Sighup
  \/ DetectDrained
  \/ CheckAndRebuild
  \/ \E w \in Worker : StartBatch(w) \/ FinishBatch(w)
  \/ \E a \in Addr : Flip(a)
  \/ Tick

Spec == Init /\ [][Next]_vars

\* The main thread keeps looping (recv_timeout returns at the latest after
\* LOOP_TIMEOUT), time passes, and a worker that took a batch finishes it.
FairSpec ==
  /\ Spec
  /\ WF_vars(DetectDrained)
  /\ WF_vars(CheckAndRebuild)
  /\ SF_vars(Tick)
  /\ \A w \in Worker : WF_vars(FinishBatch(w))

-----------------------------------------------------------------------------
(* Properties                                                               *)

\* Every variable stays within its Rust type.
TypeOK ==
  /\ table \in [servers: Seq(Server), fallback_servers: Seq(Server)]
  /\ HealthMap(state)
  /\ up \in SUBSET Addr
  /\ pc \in {"signals", "rebuild"}
  /\ draining_had_traffic \in BOOLEAN
  /\ draining_delta \in BOOLEAN
  /\ drained \in BOOLEAN
  /\ batch \in [Worker -> {NoBatch} \cup [routable: SUBSET Addr]]
  /\ probed_since_reload \in BOOLEAN

\* The pool workers hash new flows over is never out of step with the slots
\* published beside it: it holds the first assignable entry of each address
\* that has one, in slot order, and nothing else.  Every store of the table
\* (start-up, SIGHUP, check_and_rebuild) has to rebuild the pool for this.
PoolMatchesSlots == IsPoolOf(table.fallback_servers, table.servers)

Default == [healthy |-> FALSE, transitions |-> 0]

\* What a prober with map h knows of a server.
Known(h, s) == IF s.address \in DOMAIN h
               THEN [healthy     |-> h[s.address].healthy,
                     transitions |-> h[s.address].transitions]
               ELSE Default

Published(s) == [healthy |-> s.healthy, transitions |-> s.transitions]

\* Workers never see a half-updated table (main.rs, check_and_rebuild): the
\* health the live table shows is the prober's for every server at once, or
\* it is the default of a table fresh from disk for every server at once.
AllOrNothing ==
  \/ \A i \in DOMAIN table.servers :
       Published(table.servers[i]) = Known(state, table.servers[i])
  \/ \A i \in DOMAIN table.servers :
       Published(table.servers[i]) = Default

\* "marked unhealthy, which removes it from both the CID and fallback routing
\* paths" (health.rs): no server the prober holds down is healthy in the live
\* table or a member of its pool.
DownIsNotRouted ==
  LET down == {a \in DOMAIN state : ~state[a].healthy}
  IN  /\ \A i \in DOMAIN table.servers :
           table.servers[i].address \in down => ~table.servers[i].healthy
      /\ \A k \in DOMAIN table.fallback_servers :
           table.fallback_servers[k].address \notin down

\* `transitions` counts the flips after the first success (ServerHealth): a
\* server is up exactly when it has been up before and has flipped an even
\* number of times since, also across the wrap of the counter.
TransitionsCountFlips ==
  \A a \in DOMAIN state :
    state[a].healthy <=> state[a].ever_healthy /\ state[a].transitions % 2 = 0

\* No backend drops out of the probe schedule, whatever the mix of backoff,
\* reloads and resets: a configured address is probed again and again.
ProbedForever ==
  \A a \in Addr :
    /\ a \in addresses(table)
         ~> \/ a \in DOMAIN state /\ state[a].due_in > 0
            \/ a \notin addresses(table)
    /\ a \in DOMAIN state /\ state[a].due_in > 0
         ~> \/ a \notin DOMAIN state
            \/ state[a].due_in = 0

InPool(a) == \E k \in DOMAIN table.fallback_servers :
               table.fallback_servers[k].address = a

CouldServe(a) == \E i \in DOMAIN table.servers :
                   /\ table.servers[i].address = a
                   /\ table.servers[i].mac /\ ~table.servers[i].draining

\* The live table is still as the latest SIGHUP published it although the prober holds
\* a up; RestoredByNextProbe is about this state.
AsReloaded(a) ==
  /\ a \in DOMAIN state /\ state[a].healthy
  /\ \A i \in DOMAIN table.servers : Published(table.servers[i]) = Default

\* "A backend returns to service automatically once a subsequent probe
\* succeeds" (pesigitgd.8, HEALTH CHECKING): a backend that answers from some
\* point on ends up in the pool once reloads cease, if it has a MAC and is not
\* draining, or waits there for the next store of the table.
ReachableJoinsPool ==
  \A a \in Addr :
    <>[](a \in up) /\ <>[][~ReloadTable]_vars
      => <>[](InPool(a) \/ ~CouldServe(a) \/ AsReloaded(a))

\* "once traffic was flowing to draining servers and then drops to zero, log
\* that draining is complete" (main.rs): the drain is not forgotten; unless
\* traffic resumes or the draining servers go, the line is logged.
DrainIsAnnounced ==
  draining_had_traffic /\ has_draining_servers(table)
    ~> drained \/ draining_delta \/ ~has_draining_servers(table)

\* health.rs, apply_probe_results: SIGHUP's defaults are restored "on the next
\* probe tick rather than waiting for a real transition".
RestoredByNextProbe ==
  probed_since_reload /\ pc = "signals" =>
    \A i \in DOMAIN table.servers :
      Published(table.servers[i]) = Known(state, table.servers[i])
=============================================================================
