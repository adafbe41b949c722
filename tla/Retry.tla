-------------------------------- MODULE Retry --------------------------------
(***************************************************************************)
(* The Retry service (retry/datapath.rs, retry/token.rs, retry/packet.rs   *)
(* and the worker loop around them): Initials of a client are classified   *)
(* by workers that each sample the clock and load the configuration per    *)
(* batch, while SIGHUP replaces mode and key.  The client takes one Retry  *)
(* per connection attempt, may change its address, and packets may be      *)
(* lost, repeated and reordered.  RFC 9000 (17.2.5.1) has a client discard *)
(* a Retry whose SCID is the DCID of its own Initial; CHECKS_SCID says     *)
(* whether it does.  A client that checks has fewer behaviours than one    *)
(* that does not: what is never done to the latter is never done to both.  *)
(*                                                                         *)
(* A token is the tuple its MAC is computed over, with the key.  A batch   *)
(* is one Initial.  The rate that load mode compares with its trigger is   *)
(* the subject of LoadRate; here its answer is arbitrary, so the count of  *)
(* Initials handed to it is left out.                                      *)
(***************************************************************************)
EXTENDS Integers, FiniteSets

CONSTANTS
  Worker, Ip,
  HOME,           \* the client's first address
  RetryConfig,    \* the [retry] sections SIGHUP may load
  PORT,           \* the client's destination port
  CHECKS_SCID,    \* does the client compare a Retry's SCID with its own DCID?
  MAX_TIME,       \* bound: the clock stops here
  MAX_ATTEMPTS,   \* bound: connection attempts
  MAX_FLIGHT,     \* bound: Initials sent and not yet handled
  MAX_RELOADS, MAX_MOVES   \* bounds on disturbances

Mode == {"observe", "always", "load"}

\* What a [retry] section that is not refused looks like.
validate(c) == c.enabled \in BOOLEAN /\ c.mode \in Mode /\ c.token_lifetime \in Nat \ {0}

ASSUME RetryAssumption ==
  /\ \A c \in RetryConfig : validate(c)
  /\ HOME \in Ip /\ CHECKS_SCID \in BOOLEAN
  /\ MAX_TIME \in Nat /\ MAX_ATTEMPTS \in Nat \ {0} /\ MAX_FLIGHT \in Nat \ {0}
  /\ MAX_RELOADS \in Nat /\ MAX_MOVES \in Nat

NoToken == << >>
NoInitial == << >>
NoConfig == << >>
Key == {c.token_key : c \in RetryConfig}
Cid == 0..MAX_ATTEMPTS
Token == [key: Key, ip: Ip, odcid: Cid, ts: 0..MAX_TIME]
Initial == [ip: Ip, dcid: Cid, token: Token \cup {NoToken}]
RetryMessage == [ip: Ip, odcid: Cid, scid: Cid, second: BOOLEAN, token: Token]

VARIABLES
  clock,       \* wall clock
  live,        \* the published configuration
  reloads,
  pc,          \* per worker: place in the loop
  initial,     \* per worker: the Initial of its batch
  now_ms,      \* per worker: its clock sample
  snap,        \* per worker: its snapshot of the configuration
  initials,    \* Initials on their way to the LB
  retries,     \* Retry packets on their way to the client
  ip, dcid, token, attempt, retried,   \* the client's current attempt
  moves,
  passed_on,   \* has an Initial of the client gone on to the routing path?
  got          \* history: <<address, ODCID>> of Retry packets the client took

workerVars == <<pc, initial, now_ms, snap>>
netVars == <<initials, retries>>
clientVars == <<ip, dcid, token, attempt, retried, moves, got>>
vars == <<clock, live, reloads, workerVars, netVars, clientVars, passed_on>>

Init ==
  /\ clock = 0 /\ live \in RetryConfig /\ reloads = 0
  /\ ip = HOME /\ dcid = 1 /\ token = NoToken /\ attempt = 1 /\ retried = FALSE
  /\ moves = 0 /\ passed_on = FALSE /\ got = {}
  /\ initials = {} /\ retries = {}
  /\ pc = [w \in Worker |-> "poll"]
  /\ initial = [w \in Worker |-> NoInitial]
  /\ now_ms = [w \in Worker |-> 0]
  /\ snap = [w \in Worker |-> NoConfig]

-----------------------------------------------------------------------------
(* Tokens                                                                   *)

\* What mint returns is what feed is given.
mint(key, client, odcid, now) == [key |-> key, ip |-> client, odcid |-> odcid, ts |-> now]

\* Mutant: the address is not under the MAC.
VerifyAnyAddress(c, t, client, odcid, now) ==
  IF t.key # c.token_key \/ t.odcid # odcid \/ t.ts > now THEN "invalid"
  ELSE IF now - t.ts > c.token_lifetime THEN "expired" ELSE "valid"

\* Mutant: a token of this very millisecond counts as future-dated.
VerifySameTick(c, t, client, odcid, now) ==
  IF t # mint(c.token_key, client, odcid, t.ts) \/ t.ts >= now THEN "invalid"
  ELSE IF now - t.ts > c.token_lifetime THEN "expired" ELSE "valid"

verify(c, t, client, odcid, now) ==
  IF t # mint(c.token_key, client, odcid, t.ts) \/ t.ts > now THEN "invalid"
  ELSE IF now - t.ts > c.token_lifetime THEN "expired" ELSE "valid"

-----------------------------------------------------------------------------
(* try_handle                                                               *)

\* Disabled, or the port is out of scope: the Initial is not looked at.
Touches(c) == c.enabled /\ (c.ports = {} \/ PORT \in c.ports)

Valid(c, p, now) == p.token # NoToken /\ verify(c, p.token, p.ip, p.dcid, now) = "valid"

\* classify; `over` is the answer of the rate tracker.
Emits(c, p, now, over) ==
  /\ Touches(c) /\ ~Valid(c, p, now)
  /\ c.mode = "always" \/ (c.mode = "load" /\ over)

\* Mutant: the integrity tag is computed over an empty ODCID.
RetryWrongTag(c, p, now) ==
  [ip |-> p.ip, odcid |-> 0, scid |-> p.dcid, second |-> p.token # NoToken,
   token |-> mint(c.token_key, p.ip, p.dcid, now)]

\* emit: the Retry goes back to the sender, with the client's own DCID as its SCID.  (That
\* it is the `second` of a connection, answering an Initial with a token, it does not say.)
RetryPacket(c, p, now) ==
  [ip |-> p.ip, odcid |-> p.dcid, scid |-> p.dcid, second |-> p.token # NoToken,
   token |-> mint(c.token_key, p.ip, p.dcid, now)]

-----------------------------------------------------------------------------
(* The worker's loop                                                        *)

\* poll_recv; then the wall clock is sampled and the configuration loaded.  Nobody sees
\* a packet between these three, so they are one step.
PollRecv(w, p) ==
  /\ pc[w] = "poll" /\ p \in initials
  /\ initials' = initials \ {p}
  /\ initial' = [initial EXCEPT ![w] = p]
  /\ now_ms' = [now_ms EXCEPT ![w] = clock]
  /\ snap' = [snap EXCEPT ![w] = live]
  /\ pc' = [pc EXCEPT ![w] = "handle"]
  /\ UNCHANGED <<clock, live, reloads, retries, clientVars, passed_on>>

\* try_handle; what is not answered by a Retry takes the routing path (Datapath), which
\* may yet drop or pass it.  A Retry overtakes the one still on its way.  The iteration's
\* locals are dropped with it.
Handle(w, over) ==
  LET c == snap[w]
      p == initial[w] IN
  /\ pc[w] = "handle"
  /\ IF Emits(c, p, now_ms[w], over)
       THEN retries' = {RetryPacket(c, p, now_ms[w])} /\ UNCHANGED passed_on
       ELSE passed_on' = TRUE /\ UNCHANGED retries
  /\ pc' = [pc EXCEPT ![w] = "poll"]
  /\ initial' = [initial EXCEPT ![w] = NoInitial]
  /\ now_ms' = [now_ms EXCEPT ![w] = 0]
  /\ snap' = [snap EXCEPT ![w] = NoConfig]
  /\ UNCHANGED <<clock, live, reloads, initials, clientVars>>

-----------------------------------------------------------------------------
(* SIGHUP and the clock                                                     *)

Sighup(c) ==
  /\ reloads < MAX_RELOADS
  /\ reloads' = reloads + 1 /\ live' = c
  /\ UNCHANGED <<clock, workerVars, netVars, clientVars, passed_on>>

Tick ==
  /\ clock < MAX_TIME
  /\ clock' = clock + 1
  /\ UNCHANGED <<live, reloads, workerVars, netVars, clientVars, passed_on>>

-----------------------------------------------------------------------------
(* The client and the network                                               *)

Current == [ip |-> ip, dcid |-> dcid, token |-> token]

\* Initials on their way or in a batch.
Unhandled == Cardinality(initials) + Cardinality({w \in Worker : pc[w] # "poll"})

\* First transmission or retransmission; an Initial that is lost is one not sent.
SendInitial ==
  /\ ~passed_on /\ Unhandled < MAX_FLIGHT
  /\ initials' = initials \cup {Current}
  /\ UNCHANGED <<clock, live, reloads, workerVars, retries, clientVars, passed_on>>

\* A Retry that reaches the client's address and whose tag matches the attempt's ODCID.
Addressed(r) == r.ip = ip /\ r.odcid = dcid

\* Does the check of SCIDs let r through?
Acceptable(r) == CHECKS_SCID => r.scid # dcid

\* The first Retry of an attempt is taken.
TakeRetry(r) ==
  /\ r \in retries /\ Addressed(r) /\ ~retried /\ Acceptable(r)
  /\ retries' = retries \ {r}
  /\ token' = r.token /\ dcid' = r.scid /\ retried' = TRUE
  /\ got' = got \cup {<<ip, dcid>>}
  /\ UNCHANGED <<clock, live, reloads, workerVars, initials, ip, attempt, moves, passed_on>>

\* Later ones are ignored.  When the client can take none of the answers to what it sends,
\* the attempt times out and the client starts another.
TryAgain(r) ==
  /\ r \in retries /\ Addressed(r)
  /\ (retried /\ r.second) \/ ~Acceptable(r)
  /\ attempt < MAX_ATTEMPTS
  /\ retries' = retries \ {r}
  /\ attempt' = attempt + 1 /\ dcid' = attempt + 1
  /\ token' = NoToken /\ retried' = FALSE
  /\ UNCHANGED <<clock, live, reloads, workerVars, initials, ip, moves, got, passed_on>>

\* The client's address changes.
Move(a) ==
  /\ moves < MAX_MOVES /\ a # ip
  /\ moves' = moves + 1 /\ ip' = a
  /\ UNCHANGED <<clock, live, reloads, workerVars, netVars, dcid, token, attempt, retried,
                 got, passed_on>>

\* A Retry is lost, or finds nobody who takes it.
LoseRetry(r) ==
  /\ r \in retries
  /\ retries' = retries \ {r}
  /\ UNCHANGED <<clock, live, reloads, workerVars, initials, clientVars, passed_on>>

Loop(w) ==
  \/ \E p \in initials : PollRecv(w, p)
  \/ \E over \in BOOLEAN : Handle(w, over)

Next ==
  \/ \E w \in Worker : Loop(w)
  \/ \E c \in RetryConfig : Sighup(c)
  \/ Tick
  \/ SendInitial
  \/ \E r \in retries : TakeRetry(r) \/ TryAgain(r) \/ LoseRetry(r)
  \/ \E a \in Ip : Move(a)

Spec == Init /\ [][Next]_vars

\* Workers keep polling, the client retransmits, and the network does not lose every
\* Retry.
FairSpec ==
  /\ Spec
  /\ \A w \in Worker : WF_vars(Loop(w))
  /\ WF_vars(SendInitial)
  /\ SF_vars(\E r \in retries : TakeRetry(r) \/ TryAgain(r))

-----------------------------------------------------------------------------
(* Properties                                                               *)

\* Samples lie in the past, tokens are made of
\* what the service mints them from.
TypeOK ==
  /\ clock \in 0..MAX_TIME /\ live \in RetryConfig /\ reloads \in 0..MAX_RELOADS
  /\ pc \in [Worker -> {"poll", "handle"}]
  /\ initial \in [Worker -> Initial \cup {NoInitial}] /\ now_ms \in [Worker -> 0..clock]
  /\ snap \in [Worker -> RetryConfig \cup {NoConfig}]
  /\ initials \subseteq Initial
  /\ retries \subseteq RetryMessage
  /\ Current \in Initial /\ attempt \in 1..MAX_ATTEMPTS /\ retried \in BOOLEAN
  /\ moves \in 0..MAX_MOVES
  /\ passed_on \in BOOLEAN /\ got \subseteq Ip \X Cid

\* verify's comment: future-dated tokens cannot come from an honest mint.  A token that
\* comes back from the address and with the CID it was minted for, under the same key, is
\* never taken for an invalid one, whichever workers minted and verify it; and it is
\* expired only if its lifetime is over.
HonestTokenAccepted ==
  \A w \in Worker :
    LET c == snap[w]
        p == initial[w]
        verdict == verify(c, p.token, p.ip, p.dcid, now_ms[w]) IN
    (/\ pc[w] = "handle" /\ p.token # NoToken
     /\ p.token = mint(c.token_key, p.ip, p.dcid, p.token.ts))
    => /\ verdict # "invalid"
       /\ verdict = "expired" => clock - p.token.ts > c.token_lifetime

\* The purpose of the service (retry/datapath.rs): an Initial that is forwarded on its
\* token comes from an address at which the client has received a Retry for this very
\* connection ID.
ValidatedOwnsAddress ==
  \A w \in Worker :
    pc[w] = "handle" /\ Valid(snap[w], initial[w], now_ms[w])
      => <<initial[w].ip, initial[w].dcid>> \in got

\* A client that keeps trying gets past the Retry service, whatever reloads, moves and
\* expired tokens it meets on the way: a stale token "recovers naturally" (classify), the
\* client "completes normally" (SCENARIOS.md:247).  A token of a replaced key costs an
\* attempt, not a round trip: an attempt takes one Retry.  And a client that checks
\* SCIDs takes none, since emit reuses its DCID.
GetsThrough == <>passed_on
=============================================================================
