------------------------------ MODULE StatusApi ------------------------------
(***************************************************************************)
(* The status socket (status_api.rs) on top of the counters: one thread    *)
(* accepts, each connection gets a thread of its own as long as fewer than *)
(* MAX_CONCURRENT are counted, and the main loop shuts the API down.  The  *)
(* main loop is itself a reader of the counters.                           *)
(***************************************************************************)
EXTENDS Stats

CONSTANTS
  Conn,             \* connections, each made at most once (bound)
  MAX_CONCURRENT,
  MainLoop          \* the reader that logs deltas

ASSUME ApiAssumption ==
  MAX_CONCURRENT \in Nat \ {0} /\ MainLoop \in Reader \ Conn

VARIABLES
  conn,       \* per connection: "none", "queued", "accepted", "reading", "stats",
              \* "answered" or "closed"
  accepting,  \* accept thread: "accept", "accepted" or "exited"
  stream,     \* the connection accept has just returned
  active,     \* the atomic count of handlers
  shutdown,   \* the flag
  listening,  \* is the socket not yet shut down?
  path,       \* does the socket file exist?
  stopping    \* place of the main loop in StatusApi::shutdown

apiVars == <<conn, accepting, stream, active, shutdown, listening, path, stopping>>
vars == <<statsVars, apiVars>>

Nobody == "nobody"

Init ==
  /\ StatsInit
  /\ conn = [c \in Conn |-> "none"] /\ accepting = "accept" /\ stream = Nobody
  /\ active = 0 /\ shutdown = FALSE /\ listening = TRUE /\ path = TRUE
  /\ stopping = "run"

-----------------------------------------------------------------------------
(* Clients (external) and the accept loop                                   *)

Connect(c) ==
  /\ conn[c] = "none" /\ listening /\ accepting # "exited"
  /\ conn' = [conn EXCEPT ![c] = "queued"]
  /\ UNCHANGED <<statsVars, accepting, stream, active, shutdown, listening, path, stopping>>

\* accept returns a connection.
Accept(c) ==
  /\ accepting = "accept" /\ listening /\ conn[c] = "queued"
  /\ conn' = [conn EXCEPT ![c] = "accepted"]
  /\ stream' = c /\ accepting' = "accepted"
  /\ UNCHANGED <<statsVars, active, shutdown, listening, path, stopping>>

\* accept fails: because the socket is shut down, or for want of a resource, when the loop
\* goes on.  Exiting closes the listener, and with it what is queued.
AcceptError ==
  /\ accepting = "accept" /\ ~listening /\ shutdown
  /\ accepting' = "exited"
  /\ conn' = [c \in Conn |-> IF conn[c] = "queued" THEN "closed" ELSE conn[c]]
  /\ UNCHANGED <<statsVars, stream, active, shutdown, listening, path, stopping>>

\* The flag is looked at first; the connection just accepted is dropped.
SeeShutdown ==
  /\ accepting = "accepted" /\ shutdown
  /\ accepting' = "exited" /\ stream' = Nobody
  /\ conn' = [c \in Conn |-> IF c = stream \/ conn[c] = "queued" THEN "closed" ELSE conn[c]]
  /\ UNCHANGED <<statsVars, active, shutdown, listening, path, stopping>>

\* Mutant: one handler too many.
FullOffByOne == active > MAX_CONCURRENT

\* current >= MAX_CONCURRENT
Full == active >= MAX_CONCURRENT

\* fetch_add, and a thread for the connection.
Spawn ==
  /\ accepting = "accepted" /\ ~shutdown /\ ~Full
  /\ active' = active + 1
  /\ conn' = [conn EXCEPT ![stream] = "reading"]
  /\ accepting' = "accept" /\ stream' = Nobody
  /\ UNCHANGED <<statsVars, shutdown, listening, path, stopping>>

\* Mutant: the busy branch keeps the connection.
RejectKeepsOpen ==
  /\ accepting = "accepted" /\ ~shutdown /\ Full
  /\ accepting' = "accept" /\ stream' = Nobody
  /\ UNCHANGED <<statsVars, conn, active, shutdown, listening, path, stopping>>

\* fetch_add and fetch_sub: "busy" is written and the connection dropped.
Reject ==
  /\ accepting = "accepted" /\ ~shutdown /\ Full
  /\ conn' = [conn EXCEPT ![stream] = "closed"]
  /\ accepting' = "accept" /\ stream' = Nobody
  /\ UNCHANGED <<statsVars, active, shutdown, listening, path, stopping>>

\* fetch_add, no thread, fetch_sub.
SpawnFails ==
  /\ accepting = "accepted" /\ ~shutdown /\ ~Full
  /\ conn' = [conn EXCEPT ![stream] = "closed"]
  /\ accepting' = "accept" /\ stream' = Nobody
  /\ UNCHANGED <<statsVars, active, shutdown, listening, path, stopping>>

-----------------------------------------------------------------------------
(* handle_connection                                                        *)

To(c, s) ==
  /\ conn' = [conn EXCEPT ![c] = s]
  /\ UNCHANGED <<accepting, stream, active, shutdown, listening, path, stopping>>

\* A request for the counters, which the clients in Reader may make.
RequestStats(c) ==
  c \in Reader /\ conn[c] = "reading" /\ To(c, "stats") /\ UNCHANGED statsVars

\* Any other request is answered at once; an error or a timeout of the read, or a request
\* that is too long, ends the connection as well.
RequestOther(c) == conn[c] = "reading" /\ To(c, "answered") /\ UNCHANGED statsVars

Aggregate(c) ==
  /\ conn[c] = "stats" /\ Read(c)
  /\ IF place'[c] = First THEN To(c, "answered") ELSE UNCHANGED apiVars

\* fetch_sub, after the stream is dropped.
HandlerEnds(c) ==
  /\ conn[c] = "answered"
  /\ conn' = [conn EXCEPT ![c] = "closed"]
  /\ active' = active - 1
  /\ UNCHANGED <<statsVars, accepting, stream, shutdown, listening, path, stopping>>

-----------------------------------------------------------------------------
(* The main loop                                                            *)

\* A round of aggregate for the log, while no shutdown is under way.
LogStats ==
  /\ stopping = "run" /\ Read(MainLoop)
  /\ UNCHANGED apiVars

\* StatusApi::shutdown between two rounds: the flag ...
SetFlag ==
  /\ stopping = "run" /\ place[MainLoop] = First
  /\ shutdown' = TRUE /\ stopping' = "kick"
  /\ UNCHANGED <<statsVars, conn, accepting, stream, active, listening, path>>

\* Mutant: the blocking accept is not woken.
NoKick ==
  /\ stopping = "kick"
  /\ stopping' = "join"
  /\ UNCHANGED <<statsVars, conn, accepting, stream, active, shutdown, listening, path>>

\* ... libc::shutdown, which makes accept return an error ...
Kick ==
  /\ stopping = "kick"
  /\ listening' = FALSE /\ stopping' = "join"
  /\ UNCHANGED <<statsVars, conn, accepting, stream, active, shutdown, path>>

\* ... join the accept thread, remove the file.
JoinAndUnlink ==
  /\ stopping = "join" /\ accepting = "exited"
  /\ path' = FALSE /\ stopping' = "done"
  /\ UNCHANGED <<statsVars, conn, accepting, stream, active, shutdown, listening>>

-----------------------------------------------------------------------------
AcceptLoop ==
  \/ \E c \in Conn : Accept(c)
  \/ AcceptError \/ SeeShutdown \/ Spawn \/ Reject \/ SpawnFails

HandleConnection(c) == RequestStats(c) \/ RequestOther(c) \/ Aggregate(c) \/ HandlerEnds(c)

StopApi == Kick \/ JoinAndUnlink

Flush(w) == (AddLoad(w) \/ AddStore(w)) /\ UNCHANGED apiVars

Next ==
  \/ \E w \in Worker : \/ \E batch \in Batches : Batch(w, batch) /\ UNCHANGED apiVars
                       \/ Flush(w)
  \/ \E c \in Conn : Connect(c) \/ HandleConnection(c)
  \/ AcceptLoop \/ LogStats \/ SetFlag \/ StopApi

Spec == Init /\ [][Next]_vars

\* The API's threads do not all stop while one of them can run: weaker than what the
\* scheduler gives each of them, and enough.  (Handlers end by IO_TIMEOUT.)
FairSpec ==
  Spec /\ WF_vars(AcceptLoop \/ StopApi \/ \E c \in Conn : HandleConnection(c))

-----------------------------------------------------------------------------
(* Properties                                                               *)

\* accept_loop: at most MAX_CONCURRENT handler threads exist, and the count of slots is
\* exactly theirs, whatever was rejected or failed in between: no slot leaks.
SlotsAreHandlers ==
  /\ active = Cardinality({c \in Conn : conn[c] \in {"reading", "stats", "answered"}})
  /\ active <= MAX_CONCURRENT

\* shutdown: "so the thread can observe the shutdown flag and exit": wherever the flag and
\* the wake-up meet the accept loop, with connections queued or handlers busy, the main
\* loop gets past the join and the socket file is gone.
ShutdownEnds == stopping = "kick" ~> (stopping = "done" /\ ~path)

\* Nobody who connects is left hanging, not even by a shutdown.
ConnectionsEnd == \A c \in Conn : conn[c] = "queued" ~> conn[c] = "closed"
=============================================================================
