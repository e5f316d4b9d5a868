----------------------------- MODULE DaemonStart ----------------------------
(***************************************************************************)
(* Who owns the socket: `lad start` processes from their checks to the      *)
(* removal of the socket file (bin/lad.rs, runtime.rs Daemon::bind,         *)
(* la-ipc/transport.rs Listener), and `la` clients that find or start a     *)
(* daemon (la-tui/bootstrap.rs, daemonize.rs).  All use one socket path;    *)
(* the file there is named after the process that bound it, which stands    *)
(* for its inode.  Every system call on the path is a step of its own.      *)
(* A connect fails only if nobody listens (the backlog is not full).        *)
(***************************************************************************)
EXTENDS Naturals

CONSTANTS
  Procs,     \* processes that may run `lad start`
  Clients,   \* processes that run `la`
  None       \* no process: no file, no child

ASSUME NoneAssumption == None \notin Procs

VARIABLES
  pc,        \* where each `lad start` is
  sock,      \* the socket file: the process that bound it, or None
  inode,     \* bound_inode of each listener
  unit,      \* a service unit file is installed
  client,    \* each client: [at, child, note]
  before,    \* history: processes past their probe when p bound
  remover    \* history: who removed the file of p while p was listening

startVars == <<pc, sock, inode, unit, client, before, remover>>

Past == {"open", "unlink", "bind", "chmod", "inode", "seed", "serve", "stat", "remove"}
Listening == {"chmod", "inode", "seed", "serve", "stat", "remove"}
ProcPcs == {"off", "check", "managed", "probe", "exited"} \cup Past
Notes == {"none", "managed", "disabled", "already-up", "missing", "spawned", "failed", "silent"}

StartInit ==
  /\ pc = [p \in Procs |-> "off"] /\ sock = None /\ inode = [p \in Procs |-> None]
  /\ unit = FALSE
  /\ client = [c \in Clients |-> [at |-> "boot", child |-> None, note |-> "none"]]
  /\ before = [p \in Procs |-> {}] /\ remover = [p \in Procs |-> None]

\* A connect to the path is answered (the kernel answers for a listener that is busy).
Reachable == sock # None /\ pc[sock] \in Listening

Goto(p, at) == pc' = [pc EXCEPT ![p] = at]

\* p removes whatever is at the path.
RemoveFile(p) ==
  /\ sock' = None
  /\ remover' = IF Reachable /\ sock # p THEN [remover EXCEPT ![sock] = p] ELSE remover

-----------------------------------------------------------------------------
(* lad start *)

\* By hand, or by the service manager, which sets LAZYAGENTS_MANAGED_BY.
Launch(p) ==
  /\ pc[p] = "off"
  /\ \/ Goto(p, "check")
     \/ unit /\ Goto(p, "managed")
  /\ UNCHANGED <<sock, inode, unit, client, before, remover>>

\* derive_runtime may fail; a start by hand refuses if a unit file is there.
Check(p) ==
  /\ pc[p] \in {"check", "managed"}
  /\ \/ Goto(p, "exited")
     \/ (unit => pc[p] = "managed") /\ Goto(p, "probe")
  /\ UNCHANGED <<sock, inode, unit, client, before, remover>>

\* Mutant: an endpoint that exists is taken for a stale one.
MutProbe(p) ==
  /\ pc[p] = "probe" /\ Goto(p, "open")
  /\ UNCHANGED <<sock, inode, unit, client, before, remover>>

\* ensure_socket_unbound: AlreadyRunning if someone answers.
Probe(p) ==
  /\ pc[p] = "probe" /\ Goto(p, IF Reachable THEN "exited" ELSE "open")
  /\ UNCHANGED <<sock, inode, unit, client, before, remover>>

\* Storage::open, the backends table, reap_orphans, prune and sweep: seconds, perhaps.
OpenState(p) ==
  /\ pc[p] = "open" /\ \E to \in {"unlink", "exited"} : Goto(p, to)
  /\ UNCHANGED <<sock, inode, unit, client, before, remover>>

\* Listener::bind removes a socket file at the path, binds, sets the mode, which fails
\* if the file is gone, and reads the inode back through the path.
Unlink(p) ==
  /\ pc[p] = "unlink" /\ Goto(p, "bind")
  /\ RemoveFile(p)
  /\ UNCHANGED <<inode, unit, client, before>>

BindSocket(p) ==
  /\ pc[p] = "bind"
  /\ IF sock # None
     THEN Goto(p, "exited") /\ UNCHANGED <<sock, before>>
     ELSE /\ Goto(p, "chmod") /\ sock' = p
          /\ before' = [before EXCEPT ![p] = {q \in Procs : pc[q] \in Past}]
  /\ UNCHANGED <<inode, unit, client, remover>>

Chmod(p) ==
  /\ pc[p] = "chmod" /\ Goto(p, IF sock = None THEN "exited" ELSE "inode")
  /\ UNCHANGED <<sock, inode, unit, client, before, remover>>

ReadInode(p) ==
  /\ pc[p] = "inode" /\ Goto(p, "seed") /\ inode' = [inode EXCEPT ![p] = sock]
  /\ UNCHANGED <<sock, unit, client, before, remover>>

\* SchedulerServices::start; if it fails, the listener is dropped.
Seed(p) ==
  /\ pc[p] = "seed" /\ \E to \in {"serve", "stat"} : Goto(p, to)
  /\ UNCHANGED <<sock, inode, unit, client, before, remover>>

\* accept_loop has run its shutdown sequence.
StopServing(p) ==
  /\ pc[p] = "serve" /\ Goto(p, "stat")
  /\ UNCHANGED <<sock, inode, unit, client, before, remover>>

\* Drop for Listener: only a file with another inode is left alone.
DropStat(p) ==
  /\ pc[p] = "stat"
  /\ Goto(p, IF inode[p] # None /\ sock # None /\ sock # inode[p] THEN "exited" ELSE "remove")
  /\ UNCHANGED <<sock, inode, unit, client, before, remover>>

DropRemove(p) ==
  /\ pc[p] = "remove" /\ Goto(p, "exited")
  /\ RemoveFile(p)
  /\ UNCHANGED <<inode, unit, client, before>>

\* A process dies anywhere; its file stays.
Die(p) ==
  /\ pc[p] \notin {"off", "exited"} /\ Goto(p, "exited")
  /\ UNCHANGED <<sock, inode, unit, client, before, remover>>

\* lad install or uninstall in between.
ToggleUnit ==
  /\ unit' = ~unit
  /\ UNCHANGED <<pc, sock, inode, client, before, remover>>

ProcStep(p) ==
  \/ Launch(p) \/ Check(p) \/ Probe(p) \/ OpenState(p) \/ Unlink(p) \/ BindSocket(p)
  \/ Chmod(p) \/ ReadInode(p) \/ Seed(p) \/ StopServing(p) \/ DropStat(p) \/ DropRemove(p)
  \/ Die(p)

-----------------------------------------------------------------------------
(* la: bootstrap_daemon, and the lad daemonize it waits for *)

Finish(c, note) == client' = [client EXCEPT ![c].at = "done", ![c].note = note]

\* The environment decides first, then the probe, then whether there is a lad to run.
Boot(c) ==
  /\ client[c].at = "boot"
  /\ \/ \E note \in {"managed", "disabled"} : Finish(c, note)
     \/ Reachable /\ Finish(c, "already-up")
     \/ ~Reachable /\ Finish(c, "missing")
     \/ ~Reachable /\ client' = [client EXCEPT ![c].at = "spawn"]
  /\ UNCHANGED <<pc, sock, inode, unit, before, remover>>

\* lad daemonize: resolve the configuration and spawn `lad start` detached.
SpawnDaemonized(c) ==
  /\ client[c].at = "spawn"
  /\ \/ Finish(c, "failed") /\ UNCHANGED pc
     \/ \E p \in Procs :
          /\ pc[p] = "off" /\ Goto(p, "check")
          /\ client' = [client EXCEPT ![c].at = "poll", ![c].child = p]
  /\ UNCHANGED <<sock, inode, unit, before, remover>>

\* Every 25 ms: the child has exited, or someone answers on the socket.
Poll(c) ==
  /\ client[c].at = "poll"
  /\ \/ pc[client[c].child] = "exited" /\ Finish(c, "failed")
     \/ Reachable /\ client' = [client EXCEPT ![c].at = "wait"]
  /\ UNCHANGED <<pc, sock, inode, unit, before, remover>>

\* Mutant: gives up without killing the child.
MutPollDeadline(c) ==
  /\ client[c].at = "poll" /\ Finish(c, "failed")
  /\ UNCHANGED <<pc, sock, inode, unit, before, remover>>

\* 10 s have passed: kill the child and reap it.
PollDeadline(c) ==
  /\ client[c].at = "poll"
  /\ Goto(client[c].child, "exited") /\ Finish(c, "failed")
  /\ UNCHANGED <<sock, inode, unit, before, remover>>

\* wait_for_socket, for 10 s more.
WaitForSocket(c) ==
  /\ client[c].at = "wait"
  /\ (Reachable /\ Finish(c, "spawned")) \/ Finish(c, "silent")
  /\ UNCHANGED <<pc, sock, inode, unit, before, remover>>

ClientStep(c) ==
  Boot(c) \/ SpawnDaemonized(c) \/ Poll(c) \/ PollDeadline(c) \/ WaitForSocket(c)

-----------------------------------------------------------------------------
StartNext ==
  \/ \E p \in Procs : ProcStep(p)
  \/ \E c \in Clients : ClientStep(c)
  \/ ToggleUnit

StartSpec == StartInit /\ [][StartNext]_startVars
\* A client's calls return and its clock runs.
StartFairness == \A c \in Clients : WF_startVars(ClientStep(c))

-----------------------------------------------------------------------------
(* Properties *)

\* Every variable keeps its type.
StartTypeOK ==
  /\ pc \in [Procs -> ProcPcs] /\ sock \in Procs \cup {None}
  /\ inode \in [Procs -> Procs \cup {None}]
  /\ unit \in BOOLEAN
  /\ client \in [Clients -> [at : {"boot", "spawn", "poll", "wait", "done"},
                             child : Procs \cup {None}, note : Notes]]
  /\ before \in [Procs -> SUBSET Procs] /\ remover \in [Procs -> Procs \cup {None}]

\* A listening daemon loses its socket file only to a process that was past its own
\* probe when the daemon bound: starts that do not overlap never take a socket over,
\* through stale files, crashes, failed starts and the clean-up of old listeners.
NoTakeover == \A p \in Procs : remover[p] # None => remover[p] \in before[p]

\* Whoever is past the probe while p's own file is at the path was there first.
ProbedBefore ==
  \A p, q \in Procs :
    sock = p /\ pc[p] \in Listening /\ pc[q] \in Past /\ q # p => q \in before[p]

\* When daemonize reports a failure, the process it spawned is gone.
FailedSpawnIsGone ==
  \A c \in Clients :
    client[c].note = "failed" /\ client[c].child # None => pc[client[c].child] = "exited"

\* A client's bootstrap ends, whatever the daemon it started does.
BootstrapEnds == \A c \in Clients : client[c].at = "spawn" ~> client[c].at = "done"

=============================================================================
