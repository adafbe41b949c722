--------------------------- MODULE HealthChecker ---------------------------
(***************************************************************************)
(* The backend prober (health.rs) as operators on its map `state` from     *)
(* tracked addresses to ServerHealth.  Time is counted in main-loop        *)
(* periods; next_probe_at is kept relative to now, as the time that is     *)
(* left until the probe is due.                                            *)
(***************************************************************************)
EXTENDS RouteTable

CONSTANTS
  FAILURE_THRESHOLD,   \* 3 in the code
  PROBE_INTERVAL,      \* 5 s in the code, one main-loop period
  BACKOFF_SCHEDULE,    \* 10, 30, 60, 300 s in the code
  TRANSITIONS_MOD      \* 2^32 in the code: `transitions` is a u32

ASSUME HealthAssumption ==
  /\ FAILURE_THRESHOLD \in Nat \ {0}
  /\ PROBE_INTERVAL \in Nat \ {0}
  /\ BACKOFF_SCHEDULE \in Seq(Nat \ {0}) /\ BACKOFF_SCHEDULE # << >>
  /\ TRANSITIONS_MOD \in Nat \ {0} /\ TRANSITIONS_MOD % 2 = 0

\* More failures than this change nothing: the schedule stays on its last entry.
FAILURES_CAP == FAILURE_THRESHOLD + Len(BACKOFF_SCHEDULE)

ServerHealth == [failures: 0..FAILURES_CAP, healthy: BOOLEAN, due_in: Nat,
                 transitions: 0..TRANSITIONS_MOD - 1, ever_healthy: BOOLEAN]

HealthMap(state) == DOMAIN state \subseteq Addr /\ state \in [DOMAIN state -> ServerHealth]

\* The entry check() inserts for an address it has not seen.
NewHealth == [failures |-> 0, healthy |-> FALSE, due_in |-> 0,
              transitions |-> 0, ever_healthy |-> FALSE]

reset_backoff(state) == [a \in DOMAIN state |-> [state[a] EXCEPT !.due_in = 0]]

\* Time passes by one unit.
Elapse(state) ==
  [a \in DOMAIN state |->
     [state[a] EXCEPT !.due_in = IF @ = 0 THEN 0 ELSE @ - 1]]

backoff_for(failures) ==
  IF failures < FAILURE_THRESHOLD
  THEN PROBE_INTERVAL
  ELSE LET idx == failures - FAILURE_THRESHOLD + 1
       IN  BACKOFF_SCHEDULE[IF idx < Len(BACKOFF_SCHEDULE)
                            THEN idx ELSE Len(BACKOFF_SCHEDULE)]

BumpTransitions(n) == (n + 1) % TRANSITIONS_MOD

\* Mutant: the first success counts as a flap.
ProbeOkCountsWarmup(s) ==
  [failures     |-> 0,
   healthy      |-> TRUE,
   due_in       |-> PROBE_INTERVAL,
   transitions  |-> IF s.healthy THEN s.transitions ELSE BumpTransitions(s.transitions),
   ever_healthy |-> TRUE]

\* One address of apply_probe_results whose probe succeeded.
ProbeOk(s) ==
  [failures     |-> 0,
   healthy      |-> TRUE,
   due_in       |-> PROBE_INTERVAL,
   transitions  |-> IF ~s.healthy /\ s.ever_healthy
                    THEN BumpTransitions(s.transitions) ELSE s.transitions,
   ever_healthy |-> s.ever_healthy \/ ~s.healthy]

\* One address of apply_probe_results whose probe failed.
ProbeFailed(s) ==
  LET n    == IF s.failures < FAILURES_CAP THEN s.failures + 1 ELSE FAILURES_CAP
      down == s.healthy /\ n >= FAILURE_THRESHOLD
  IN  [failures     |-> n,
       healthy      |-> s.healthy /\ ~down,
       due_in       |-> backoff_for(n),
       transitions  |-> IF down THEN BumpTransitions(s.transitions)
                        ELSE s.transitions,
       ever_healthy |-> s.ever_healthy]

\* Mutant: the map is filled from the first table and never revised.
TrackOnce(state, addrs) ==
  [a \in IF DOMAIN state = {} THEN addrs ELSE DOMAIN state |->
     IF a \in DOMAIN state THEN state[a] ELSE NewHealth]

\* evict_removed, then the insertion of the addresses that are new.
Track(state, addrs) ==
  [a \in addrs |-> IF a \in DOMAIN state THEN state[a] ELSE NewHealth]

Due(state) == {a \in DOMAIN state : state[a].due_in = 0}

\* Mutant: the flap counter is not mirrored.
MirrorHealthOnly(state, t) ==
  [t EXCEPT !.servers = [i \in DOMAIN t.servers |->
     LET a == t.servers[i].address
     IN  IF a \in DOMAIN state
         THEN [t.servers[i] EXCEPT !.healthy = state[a].healthy]
         ELSE t.servers[i]]]

\* The trailing loop of apply_probe_results.
Mirror(state, t) ==
  [t EXCEPT !.servers = [i \in DOMAIN t.servers |->
     LET a == t.servers[i].address
     IN  IF a \in DOMAIN state
         THEN [t.servers[i] EXCEPT !.healthy     = state[a].healthy,
                                   !.transitions = state[a].transitions]
         ELSE t.servers[i]]]

\* `ok` is the set of probed addresses whose handshake completed in time.
apply_probe_results(state, due, ok) ==
  [a \in DOMAIN state |->
     IF a \notin due THEN state[a]
     ELSE IF a \in ok THEN ProbeOk(state[a]) ELSE ProbeFailed(state[a])]

\* Mutants: only recoveries, or only outages, are reported to the caller.
FlippedUp(before, after, due) ==
  \E a \in due : ~before[a].healthy /\ after[a].healthy

FlippedDown(before, after, due) ==
  \E a \in due : before[a].healthy /\ ~after[a].healthy

\* The `changed` result of apply_probe_results.
Flipped(before, after, due) ==
  \E a \in due : before[a].healthy # after[a].healthy

\* HealthChecker::check: the new map, the table it leaves, whether any server
\* flipped.  With nothing due it returns before the mirror.
check(state, t, ok) ==
  LET tracked == Track(state, addresses(t))
      due     == Due(tracked)
      probed  == apply_probe_results(tracked, due, ok)
  IN  IF due = {}
      THEN [state |-> tracked, table |-> t, changed |-> FALSE]
      ELSE [state   |-> probed,
            table   |-> Mirror(probed, t),
            changed |-> Flipped(tracked, probed, due)]
=============================================================================
