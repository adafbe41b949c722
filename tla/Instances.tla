------------------------------ MODULE Instances ------------------------------
(***************************************************************************)
(* The daemons of one host and what pesigitg-ctl makes of them: the pid    *)
(* file that keeps a second daemon off an interface (pidfile.rs), and the  *)
(* commands that find daemons from pid files and /proc and then signal one *)
(* or clean up.  A file is its inode: a path may be unlinked, and made     *)
(* anew, under a process that has it open.                                 *)
(***************************************************************************)
EXTENDS Integers, FiniteSets, FiniteSetsExt, Functions

CONSTANTS
  Iface,        \* interfaces, numbered in the order of their names
  PID_MAX,      \* the largest process id
  Inode,        \* inodes of pid files, positive
  Starts,       \* how a daemon may be started: [iface, named, systemd]
  MAX_EXECS     \* bound: daemons started

ASSUME InstancesAssumption ==
  /\ Iface \subseteq Nat /\ PID_MAX \in Nat /\ Inode \subseteq Nat \ {0}
  /\ Starts \subseteq [iface: Iface, named: BOOLEAN, systemd: BOOLEAN]
  /\ MAX_EXECS \in Nat

\* Process ids are reused.
Pid == 1..PID_MAX

VARIABLES
  proc,         \* per pid: is, the process there, and for a daemon its start,
                \* its place pc and the inode fd it has open
  file,         \* per interface: the inode at the pid file's path, 0 for none
  data,         \* per inode: the pid written there, 0 for none
  ctl,          \* the command pesigitg-ctl runs
  execs,        \* history: daemons started
  unlinked,     \* history: interfaces whose pid file was unlinked while somebody
                \* other than its remover had it open
  crashed       \* history: interfaces one of whose daemons left its files behind

hostVars == <<proc, file, data, ctl, execs, unlinked, crashed>>

NoStart == CHOOSE s \in Starts : TRUE
NoProc == [is |-> "none", start |-> NoStart, pc |-> "none", fd |-> 0]

IsDaemon(p) == proc[p].is = "daemon"
iface(p) == proc[p].start.iface

\* flock: processes that hold the lock on inode x.
Holders(x) == {p \in Pid : proc[p].fd = x /\ proc[p].pc \notin {"boot", "opened"}}
Openers(x) == {p \in Pid : proc[p].fd = x}

-----------------------------------------------------------------------------
(* pesigitgd                                                                *)

\* A process ends: its descriptors close, and pesigitg-ctl may find the pid reused.
ProcessEnds(p) ==
  /\ proc' = [proc EXCEPT ![p] = NoProc]
  /\ ctl' = [ctl EXCEPT !.since = @ \ {p}]

Exec(p, s) ==
  /\ proc[p].is = "none" /\ execs < MAX_EXECS
  /\ proc' = [proc EXCEPT ![p] = [is |-> "daemon", start |-> s, fd |-> 0,
                                  pc |-> IF s.systemd THEN "written" ELSE "boot"]]
  /\ execs' = execs + 1
  /\ UNCHANGED <<file, data, ctl, unlinked, crashed>>

\* PidFile::create opens, creates and truncates before it asks for the lock.
OpenTruncate(p) ==
  /\ proc[p].pc = "boot"
  /\ LET i == iface(p)
         free == Inode \ (Range(file) \cup {proc[q].fd : q \in Pid})
         x == IF file[i] # 0 THEN file[i] ELSE CHOOSE y \in free : TRUE
     IN  /\ file[i] # 0 \/ free # {}
         /\ file' = [file EXCEPT ![i] = x]
         /\ data' = [data EXCEPT ![x] = 0]
         /\ proc' = [proc EXCEPT ![p].pc = "opened", ![p].fd = x]
  /\ UNCHANGED <<ctl, execs, unlinked, crashed>>

\* Mutant: the lock is taken whoever holds it.
LockAnyway(p) ==
  /\ proc[p].pc = "opened"
  /\ proc' = [proc EXCEPT ![p].pc = "locked"]
  /\ UNCHANGED <<file, data, ctl, execs, unlinked, crashed>>

Lock(p) ==
  /\ proc[p].pc = "opened"
  /\ Holders(proc[p].fd) = {}
  /\ proc' = [proc EXCEPT ![p].pc = "locked"]
  /\ UNCHANGED <<file, data, ctl, execs, unlinked, crashed>>

\* "another instance is already running": there is no PidFile to drop.
LockFails(p) ==
  /\ proc[p].pc = "opened"
  /\ Holders(proc[p].fd) # {}
  /\ ProcessEnds(p)
  /\ UNCHANGED <<file, data, execs, unlinked, crashed>>

WritePid(p) ==
  /\ proc[p].pc = "locked"
  /\ data' = [data EXCEPT ![proc[p].fd] = p]
  /\ proc' = [proc EXCEPT ![p].pc = "written"]
  /\ UNCHANGED <<file, ctl, execs, unlinked, crashed>>

\* A signal, or an error on the way up: main returns.
DaemonStop(p) ==
  /\ proc[p].pc = "written"
  /\ proc' = [proc EXCEPT ![p].pc = "stopping"]
  /\ UNCHANGED <<file, data, ctl, execs, unlinked, crashed>>

\* remove_file on interface i's pid file, by process p (0: pesigitg-ctl).
Unlink(i, p) ==
  /\ file' = [file EXCEPT ![i] = 0]
  /\ unlinked' = IF file[i] # 0 /\ Openers(file[i]) \ {p} # {}
                 THEN unlinked \cup {i} ELSE unlinked

\* Mutant: the file stays.
DropKeepsFile(p) ==
  /\ proc[p].pc = "stopping" /\ proc[p].fd # 0
  /\ proc' = [proc EXCEPT ![p].pc = "removed"]
  /\ UNCHANGED <<file, data, ctl, execs, unlinked, crashed>>

\* Drop removes the path; the lock goes with the descriptor, after it.
DropPidfile(p) ==
  /\ proc[p].pc = "stopping" /\ proc[p].fd # 0
  /\ Unlink(iface(p), p)
  /\ proc' = [proc EXCEPT ![p].pc = "removed"]
  /\ UNCHANGED <<data, ctl, execs, crashed>>

Exit(p) ==
  /\ proc[p].pc = "removed" \/ (proc[p].pc = "stopping" /\ proc[p].fd = 0)
  /\ ProcessEnds(p)
  /\ UNCHANGED <<file, data, execs, unlinked, crashed>>

\* Killed, or exit!(1), which runs no destructor.
DaemonCrash(p) ==
  /\ IsDaemon(p)
  /\ ProcessEnds(p)
  /\ crashed' = crashed \cup {iface(p)}
  /\ UNCHANGED <<file, data, execs, unlinked>>

\* Some other program gets the pid, and ends.
OtherStarts(p) ==
  /\ proc[p].is = "none"
  /\ proc' = [proc EXCEPT ![p].is = "other"]
  /\ UNCHANGED <<file, data, ctl, execs, unlinked, crashed>>

OtherEnds(p) ==
  /\ proc[p].is = "other"
  /\ ProcessEnds(p)
  /\ UNCHANGED <<file, data, execs, unlinked, crashed>>

-----------------------------------------------------------------------------
(* pesigitg-ctl                                                             *)

\* Targets: none given, an interface, or a pid.
Target == [by: {"auto"}, iface: {0}, pid: {0}] \cup [by: {"iface"}, iface: Iface, pid: {0}]
          \cup [by: {"pid"}, iface: {0}, pid: Pid]
AutoTarget == [by |-> "auto", iface |-> 0, pid |-> 0]

\* What is known of an interface: the pid (0: none), and whether there are a pid file
\* and a process (its command line).
Unseen == [pid |-> 0, pidfile |-> FALSE, cmdline |-> FALSE]
Idle == [pc |-> "idle", cmd |-> "none", target |-> AutoTarget, seen |-> [i \in Iface |-> Unseen],
         resolved |-> {}, since |-> {}]

\* discover_instances, source 1: the pid files.  since: the processes there now.
ReadPidfiles(cmd, target) ==
  /\ ctl.pc = "idle"
  /\ ctl' = [Idle EXCEPT
       !.pc = "proc", !.cmd = cmd, !.target = target,
       !.seen = [i \in Iface |-> IF file[i] = 0 THEN Unseen
                                 ELSE [Unseen EXCEPT !.pidfile = TRUE, !.pid = data[file[i]]]],
       !.since = {p \in Pid : proc[p].is # "none"}]
  /\ UNCHANGED <<proc, file, data, execs, unlinked, crashed>>

\* Mutant: only a pid file makes a process an interface's.
AttachByPidOnly(seen, p) ==
  LET same == {i \in Iface : seen[i].pid = p}
  IN  IF same = {} THEN seen ELSE [seen EXCEPT ![Min(same)].cmdline = TRUE]

\* A hit of scan_proc_for_pesigitgd goes to the interface on its command line, or to
\* the first one known under its pid.  (One that finds neither is only listed.)
AttachHit(seen, p) ==
  LET same == {i \in Iface : seen[i].pid = p}
  IN  IF proc[p].start.named
      THEN [seen EXCEPT ![iface(p)].pid = p, ![iface(p)].cmdline = TRUE]
      ELSE IF same = {} THEN seen
      ELSE [seen EXCEPT ![Min(same)].cmdline = TRUE]

\* The hits of /proc, in the order of the pids.
AttachAll(seen) ==
  LET upto[p \in 0..PID_MAX] ==
        IF p = 0 THEN seen
        ELSE IF IsDaemon(p) THEN AttachHit(upto[p - 1], p) ELSE upto[p - 1]
  IN  upto[PID_MAX]

\* Source 3: /proc.
ScanProc ==
  /\ ctl.pc = "proc"
  /\ ctl' = [ctl EXCEPT
       !.seen = AttachAll(@),
       !.pc = IF ctl.cmd = "cleanup" THEN "cleanup" ELSE "resolve"]
  /\ UNCHANGED <<proc, file, data, execs, unlinked, crashed>>

\* resolve: at most one [iface, pid].  Only a pid given as the target is looked up in
\* /proc again.
identified == {i \in Iface : ctl.seen[i].pid # 0}
Chosen ==
  CASE ctl.target.by = "auto"  -> IF Cardinality(identified) = 1 THEN identified ELSE {}
    [] ctl.target.by = "iface" -> identified \cap {ctl.target.iface}
    [] ctl.target.by = "pid"   ->
         LET same == {i \in Iface : ctl.seen[i].pid = ctl.target.pid}
         IN  IF IsDaemon(ctl.target.pid) /\ same # {} THEN {Min(same)} ELSE {}

resolve ==
  /\ ctl.pc = "resolve"
  /\ ctl' = IF Chosen = {} THEN Idle
            ELSE [Idle EXCEPT !.pc = "send", !.since = ctl.since,
                    !.resolved = {[iface |-> i, pid |-> ctl.seen[i].pid] : i \in Chosen}]
  /\ UNCHANGED <<proc, file, data, execs, unlinked, crashed>>

\* send_signal: what a daemon does with SIGTERM, or any other, is its own step.
Send ==
  /\ ctl.pc = "send"
  /\ ctl' = Idle
  /\ UNCHANGED <<proc, file, data, execs, unlinked, crashed>>

\* cmd_cleanup removes, path by path, what had a pid file and no process.
stale == {i \in Iface : ctl.seen[i].pidfile /\ ~ctl.seen[i].cmdline}

RemoveStale ==
  /\ ctl.pc = "cleanup" /\ stale # {}
  /\ Unlink(Min(stale), 0)
  /\ ctl' = [ctl EXCEPT !.seen[Min(stale)].pidfile = FALSE]
  /\ UNCHANGED <<proc, data, execs, crashed>>

CleanupDone ==
  /\ ctl.pc = "cleanup" /\ stale = {}
  /\ ctl' = Idle
  /\ UNCHANGED <<proc, file, data, execs, unlinked, crashed>>

-----------------------------------------------------------------------------

HostInit ==
  /\ proc = [p \in Pid |-> NoProc]
  /\ file = [i \in Iface |-> 0] /\ data = [x \in Inode |-> 0]
  /\ ctl = Idle
  /\ execs = 0 /\ unlinked = {} /\ crashed = {}

Daemon(p) ==
  \/ \E s \in Starts : Exec(p, s)
  \/ OpenTruncate(p) \/ Lock(p) \/ LockFails(p) \/ WritePid(p)
  \/ DaemonStop(p) \/ DropPidfile(p) \/ Exit(p) \/ DaemonCrash(p)

Ctl ==
  \/ \E target \in Target : ReadPidfiles("signal", target)
  \/ ReadPidfiles("cleanup", AutoTarget)
  \/ ScanProc \/ resolve \/ Send \/ RemoveStale \/ CleanupDone

HostNext == (\E p \in Pid : Daemon(p) \/ OtherStarts(p) \/ OtherEnds(p)) \/ Ctl

HostSpec == HostInit /\ [][HostNext]_hostVars

-----------------------------------------------------------------------------
(* Properties                                                               *)

\* Past the lock, and its pid file not yet dropped.
Locked(p) == proc[p].fd # 0 /\ proc[p].pc \in {"locked", "written", "stopping"}

\* Two daemons get past the lock for one interface only after its pid file was
\* unlinked while a process other than the remover had it open: by a Drop while a
\* start is between open and flock, or by a cleanup.  Whatever start truncates the
\* file, crashes, or reuses a pid, nothing else defeats PidFile::create.
OneDaemonUntilUnlinked ==
  \A p, q \in Pid : p # q /\ Locked(p) /\ Locked(q) /\ iface(p) = iface(q)
                      => iface(p) \in unlinked

\* A daemon that names its interface on the command line never loses its pid file to a
\* cleanup that found it running: not when another start truncates the file, and not
\* when its pid is in another interface's stale file.
NamedKeepsPidfile ==
  [][\A p \in ctl.since :
       IsDaemon(p) /\ proc[p].start.named /\ Locked(p) /\ file[iface(p)] = proc[p].fd
       /\ ctl.pc = "cleanup"
       => file'[iface(p)] = file[iface(p)] \/ ctl' = ctl]_hostVars

\* A signal is sent to a process that is not a daemon of the interface printed with it
\* only if a daemon of that interface once left its pid file behind, or the pid passed
\* on while the command ran.
SignalFindsItsDaemon ==
  ctl.pc = "send" =>
    \A r \in ctl.resolved :
      r.pid \in ctl.since /\ r.iface \notin crashed
      => IsDaemon(r.pid) /\ iface(r.pid) = r.iface
=============================================================================
