---------------------------- MODULE Daemon_proofs ----------------------------
(***************************************************************************)
(* Proofs about the process level of the daemon, for every number of its    *)
(* processes, clients, connections, sessions, runs and writers: a socket is *)
(* taken over only by a start that overlapped the owner's, and a spawn that *)
(* is reported as failed has left no process; no session that was there     *)
(* when the shutdown began is left running; what storage has accepted is    *)
(* kept through failures and power cuts; lad install and uninstall have     *)
(* done what they report; and the two ends of a connection read exactly the *)
(* messages that were written, after a handshake both of them understand.   *)
(***************************************************************************)
EXTENDS DaemonStart, DaemonStop, StorageFiles, ServiceInstall, Wire, SequenceTheorems,
        FiniteSetTheorems, NaturalsInduction, WellFoundedInduction, TLAPS

-----------------------------------------------------------------------------
(* Starting: DaemonStart *)

\* A process that does not listen yet has not lost a socket file.
NotYet == {"off", "check", "managed", "probe", "open", "unlink", "bind"}
NothingLostYet == \A p \in Procs : pc[p] \in NotYet => remover[p] = None

\* A client has a child only after it has spawned one, and "failed" is a last word.
ClientShape ==
  \A c \in Clients :
    /\ client[c].at \in {"boot", "spawn"} => client[c].child = None
    /\ client[c].note = "failed" => client[c].at = "done"

SocketInv == StartTypeOK /\ ProbedBefore /\ NothingLostYet /\ NoTakeover
SpawnInv == StartTypeOK /\ ClientShape /\ FailedSpawnIsGone

-----------------------------------------------------------------------------
\* No process runs, no file is there.
LEMMA StartInitInv == StartInit => SocketInv /\ SpawnInv
<1> SUFFICES ASSUME StartInit PROVE SocketInv /\ SpawnInv
  OBVIOUS
<1> USE DEF StartInit
<1>1. StartTypeOK
  BY DEF StartTypeOK, ProcPcs, Notes
<1>2. ProbedBefore /\ NothingLostYet /\ NoTakeover
  BY NoneAssumption DEF ProbedBefore, NothingLostYet, NoTakeover
<1>3. ClientShape /\ FailedSpawnIsGone
  BY DEF ClientShape, FailedSpawnIsGone
<1> QED
  BY <1>1, <1>2, <1>3 DEF SocketInv, SpawnInv

\* Every step of a process keeps the types.
LEMMA ProcTypes == ASSUME StartTypeOK, NEW p \in Procs, ProcStep(p) PROVE StartTypeOK'
<1> USE DEF StartTypeOK, ProcPcs, Past, Goto
<1>1. CASE Launch(p) \/ Check(p) \/ Probe(p) \/ OpenState(p)
  BY <1>1 DEF Launch, Check, Probe, OpenState
<1>2. CASE Unlink(p) \/ DropRemove(p)
  BY <1>2 DEF Unlink, DropRemove, RemoveFile
<1>3. CASE BindSocket(p)
  BY <1>3 DEF BindSocket
<1>4. CASE Chmod(p) \/ ReadInode(p) \/ Seed(p) \/ StopServing(p) \/ DropStat(p) \/ Die(p)
  BY <1>4 DEF Chmod, ReadInode, Seed, StopServing, DropStat, Die
<1> QED
  BY <1>1, <1>2, <1>3, <1>4 DEF ProcStep

\* Every step of a client keeps the types.
LEMMA ClientTypes == ASSUME StartTypeOK, NEW c \in Clients, ClientStep(c) PROVE StartTypeOK'
<1> USE DEF StartTypeOK, ProcPcs, Notes, Goto, Finish
<1>1. CASE Boot(c)
  BY <1>1 DEF Boot
<1>2. CASE SpawnDaemonized(c)
  BY <1>2 DEF SpawnDaemonized
<1>3. CASE Poll(c) \/ WaitForSocket(c)
  BY <1>3 DEF Poll, WaitForSocket
<1>4. CASE PollDeadline(c)
  BY <1>4 DEF PollDeadline
<1> QED
  BY <1>1, <1>2, <1>3, <1>4 DEF ClientStep

\* Every step of the processes and the clients keeps the types.
LEMMA TypeStep == StartTypeOK /\ [StartNext]_startVars => StartTypeOK'
<1> SUFFICES ASSUME StartTypeOK, [StartNext]_startVars PROVE StartTypeOK'
  OBVIOUS
<1>1. CASE ToggleUnit \/ UNCHANGED startVars
  BY <1>1 DEF StartTypeOK, ToggleUnit, startVars
<1> QED
  BY <1>1, ProcTypes, ClientTypes DEF StartNext

-----------------------------------------------------------------------------
\* Removing the file: it was the remover's own, or its owner was told of the remover
\* when it bound.
LEMMA RemovalIsKnown ==
  ASSUME SocketInv, NEW p \in Procs, pc[p] \in Past, RemoveFile(p),
         UNCHANGED before
  PROVE  NoTakeover'
<1> USE DEF SocketInv, StartTypeOK
<1>1. CASE Reachable /\ sock # p
  <2>1. sock \in Procs /\ p \in before[sock]
    BY <1>1 DEF Reachable, ProbedBefore
  <2>2. remover' = [remover EXCEPT ![sock] = p]
    BY <1>1 DEF RemoveFile
  <2> QED
    BY <2>1, <2>2 DEF NoTakeover
<1>2. CASE ~(Reachable /\ sock # p)
  BY <1>2 DEF RemoveFile, NoTakeover
<1> QED
  BY <1>1, <1>2

\* Every step of a process keeps the invariant of the socket.
LEMMA ProcSocket == ASSUME SocketInv, NEW p \in Procs, ProcStep(p)
                    PROVE ProbedBefore' /\ NothingLostYet' /\ NoTakeover'
<1> USE DEF SocketInv, StartTypeOK, Goto
<1>1. CASE Launch(p) \/ Check(p) \/ OpenState(p)
  BY <1>1 DEF Launch, Check, OpenState, ProbedBefore, NothingLostYet, NoTakeover,
              NotYet, Past, Listening
<1>2. CASE Probe(p)
  \* Nobody gets past the probe while somebody listens at the path.
  <2>1. pc'[p] = "open" => ~Reachable
    BY <1>2 DEF Probe
  <2>2. ProbedBefore'
    <3> SUFFICES ASSUME NEW r \in Procs, NEW q \in Procs, sock = r,
                        pc'[r] \in Listening, pc'[q] \in Past, q # r
                 PROVE  q \in before[r]
      BY <1>2 DEF Probe, ProbedBefore
    <3>1. r # p /\ pc[r] \in Listening /\ r # None
      BY <1>2, NoneAssumption DEF Probe, Listening
    <3>2. q # p
      BY <1>2, <2>1, <3>1 DEF Probe, Reachable, Past
    <3> QED
      BY <1>2, <3>1, <3>2 DEF Probe, ProbedBefore
  <2> QED
    BY <1>2, <2>2 DEF Probe, NothingLostYet, NoTakeover, NotYet
<1>3. CASE Unlink(p) \/ DropRemove(p)
  <2>1. pc[p] \in Past /\ RemoveFile(p) /\ UNCHANGED before
    BY <1>3 DEF Unlink, DropRemove, Past
  <2>2. NoTakeover'
    BY <2>1, RemovalIsKnown
  <2>3. ProbedBefore'
    BY <2>1, NoneAssumption DEF RemoveFile, ProbedBefore
  <2>4. NothingLostYet'
    <3> SUFFICES ASSUME NEW q \in Procs, pc'[q] \in NotYet PROVE remover'[q] = None
      BY DEF NothingLostYet
    <3>1. pc[q] \in NotYet
      BY <1>3 DEF Unlink, DropRemove, NotYet
    <3>2. ~(Reachable /\ sock = q)
      BY <3>1 DEF Reachable, Listening, NotYet
    <3> QED
      BY <2>1, <3>1, <3>2 DEF RemoveFile, NothingLostYet
  <2> QED
    BY <2>2, <2>3, <2>4
<1>4. CASE BindSocket(p)
  <2>1. pc[p] = "bind" /\ remover[p] = None /\ UNCHANGED remover
    BY <1>4 DEF BindSocket, NothingLostYet, NotYet
  <2>2. NoTakeover' /\ NothingLostYet'
    BY <1>4, <2>1 DEF BindSocket, NoTakeover, NothingLostYet, NotYet
  <2>3. ProbedBefore'
    BY <1>4 DEF BindSocket, ProbedBefore, Past, Listening
  <2> QED
    BY <2>2, <2>3
<1>5. CASE Chmod(p) \/ ReadInode(p) \/ Seed(p) \/ StopServing(p) \/ DropStat(p) \/ Die(p)
  BY <1>5 DEF Chmod, ReadInode, Seed, StopServing, DropStat, Die, ProbedBefore,
              NothingLostYet, NoTakeover, NotYet, Past, Listening
<1> QED
  BY <1>1, <1>2, <1>3, <1>4, <1>5 DEF ProcStep

\* A client only starts or kills a process.
LEMMA ClientSocket == ASSUME SocketInv, NEW c \in Clients, ClientStep(c)
                      PROVE ProbedBefore' /\ NothingLostYet' /\ NoTakeover'
<1>1. UNCHANGED <<sock, before, remover>>
  BY DEF ClientStep, Boot, SpawnDaemonized, Poll, PollDeadline, WaitForSocket
<1>2. \A q \in Procs : \/ pc'[q] = pc[q]
                       \/ pc'[q] = "exited"
                       \/ (pc[q] = "off" /\ pc'[q] = "check")
  BY DEF ClientStep, Boot, SpawnDaemonized, Poll, PollDeadline, WaitForSocket, Goto,
         SocketInv, StartTypeOK
<1> QED
  BY <1>1, <1>2 DEF SocketInv, ProbedBefore, NothingLostYet, NoTakeover, NotYet, Past, Listening

\* Every step keeps who may own the socket.
LEMMA SocketStep == SocketInv /\ [StartNext]_startVars => SocketInv'
<1> SUFFICES ASSUME SocketInv, [StartNext]_startVars PROVE SocketInv'
  OBVIOUS
<1>1. StartTypeOK'
  BY TypeStep DEF SocketInv
<1>2. CASE ToggleUnit \/ UNCHANGED startVars
  BY <1>1, <1>2 DEF SocketInv, ToggleUnit, startVars, ProbedBefore, NothingLostYet, NoTakeover
<1> QED
  BY <1>1, <1>2, ProcSocket, ClientSocket DEF StartNext, SocketInv

-----------------------------------------------------------------------------
\* A process that has exited does not come back.
LEMMA ProcSpawn == ASSUME SpawnInv, NEW p \in Procs, ProcStep(p)
                   PROVE ClientShape' /\ FailedSpawnIsGone'
<1>1. UNCHANGED client
  BY DEF ProcStep, Launch, Check, Probe, OpenState, Unlink, BindSocket, Chmod, ReadInode,
         Seed, StopServing, DropStat, DropRemove, Die
<1>2. \A q \in Procs : pc[q] = "exited" => pc'[q] = "exited"
  BY DEF ProcStep, Launch, Check, Probe, OpenState, Unlink, BindSocket, Chmod, ReadInode,
         Seed, StopServing, DropStat, DropRemove, Die, Goto, SpawnInv, StartTypeOK
<1>3. ClientShape'
  BY <1>1 DEF SpawnInv, ClientShape
<1>4. \A c \in Clients : client[c].child # None => client[c].child \in Procs
  BY DEF SpawnInv, StartTypeOK
<1> QED
  BY <1>1, <1>2, <1>3, <1>4 DEF SpawnInv, FailedSpawnIsGone

\* daemonize reports a failure before it has a child, when the child has exited, or
\* when it has killed it.
LEMMA ClientSpawn == ASSUME SpawnInv, NEW c \in Clients, ClientStep(c)
                     PROVE ClientShape' /\ FailedSpawnIsGone'
<1> USE DEF SpawnInv, StartTypeOK, Goto, Finish
<1>1. CASE Boot(c)
  BY <1>1 DEF Boot, ClientShape, FailedSpawnIsGone
<1>2. CASE SpawnDaemonized(c)
  BY <1>2 DEF SpawnDaemonized, ClientShape, FailedSpawnIsGone
<1>3. CASE Poll(c)
  <2>1. \A d \in Clients \ {c} : client'[d] = client[d]
    BY <1>3 DEF Poll
  <2>2. UNCHANGED pc /\ client'[c].child = client[c].child /\ client[c].note # "failed"
    BY <1>3 DEF Poll, ClientShape
  <2>3. CASE pc[client[c].child] = "exited" /\ Finish(c, "failed")
    <3>1. client'[c].at = "done" /\ client'[c].note = "failed"
      BY <2>3
    <3> QED
      BY <2>1, <2>2, <2>3, <3>1 DEF ClientShape, FailedSpawnIsGone
  <2>4. CASE client' = [client EXCEPT ![c].at = "wait"]
    BY <2>1, <2>2, <2>4 DEF ClientShape, FailedSpawnIsGone
  <2> QED
    BY <1>3, <2>3, <2>4 DEF Poll
<1>4. CASE PollDeadline(c)
  BY <1>4 DEF PollDeadline, ClientShape, FailedSpawnIsGone
<1>5. CASE WaitForSocket(c)
  BY <1>5 DEF WaitForSocket, ClientShape, FailedSpawnIsGone
<1> QED
  BY <1>1, <1>2, <1>3, <1>4, <1>5 DEF ClientStep

\* Every step keeps what a client knows about its child.
LEMMA SpawnStep == SpawnInv /\ [StartNext]_startVars => SpawnInv'
<1> SUFFICES ASSUME SpawnInv, [StartNext]_startVars PROVE SpawnInv'
  OBVIOUS
<1>1. StartTypeOK'
  BY TypeStep DEF SpawnInv
<1>2. CASE ToggleUnit \/ UNCHANGED startVars
  BY <1>1, <1>2 DEF SpawnInv, ToggleUnit, startVars, ClientShape, FailedSpawnIsGone
<1> QED
  BY <1>1, <1>2, ProcSpawn, ClientSpawn DEF StartNext, SpawnInv

-----------------------------------------------------------------------------
\* Daemon::bind and the listener's clean-up: however many starts race, crash and clean
\* up, a listening daemon loses its socket only to a start that was past its probe when
\* the daemon bound.
THEOREM SocketsAreNotTakenOver == StartSpec => []NoTakeover
<1>1. StartInit => SocketInv
  BY StartInitInv
<1>2. SocketInv => NoTakeover
  BY DEF SocketInv
<1> QED
  BY <1>1, <1>2, SocketStep, PTL DEF StartSpec

\* spawn_daemonized: a failure it reports leaves no process behind.
THEOREM FailedSpawnsAreGone == StartSpec => []FailedSpawnIsGone
<1>1. StartInit => SpawnInv
  BY StartInitInv
<1>2. SpawnInv => FailedSpawnIsGone
  BY DEF SpawnInv
<1> QED
  BY <1>1, <1>2, SpawnStep, PTL DEF StartSpec

-----------------------------------------------------------------------------
(* Stopping: DaemonStop *)

\* Sessions are recorded once they are signalled, and only those of the registry, which
\* a session enters once.
Before == {"select", "busy", "loops", "term"}
PresentWereStarted ==
  /\ phase \in Before => present = {}
  /\ \A s \in present : sess[s] # "none"

StopInv == StopTypeOK /\ PresentWereStarted /\ NoSurvivor

\* A session is started before it ends and never comes back.
Later(a, b) ==
  \/ a = b
  \/ a = "none" /\ b = "live"
  \/ b = "gone" /\ a # "none"

-----------------------------------------------------------------------------
\* Nothing has happened yet.
LEMMA StopInitInv == StopInit => StopInv
BY DEF StopInit, StopInv, StopTypeOK, PresentWereStarted, NoSurvivor, Phases, ConnStates

\* Connections, runs and agents move sessions on, and do nothing else to the shutdown.
LEMMA OthersKeep ==
  ASSUME StopInv, UNCHANGED <<phase, signalled, present>>,
         conn' \in [Conns -> ConnStates],
         sess' \in [Children -> {"none", "live", "termed", "killed", "gone"}],
         scheduler' = scheduler,
         \A s \in Children : Later(sess[s], sess'[s])
  PROVE  StopInv'
<1>1. StopTypeOK'
  BY DEF StopInv, StopTypeOK
<1>2. \A s \in present : s \in Children /\ sess[s] # "none" /\ (sess'[s] = sess[s] \/ sess'[s] = "gone")
  BY DEF StopInv, StopTypeOK, PresentWereStarted, Later
<1>3. PresentWereStarted'
  BY <1>2 DEF StopInv, PresentWereStarted
<1>4. NoSurvivor'
  BY <1>2 DEF StopInv, NoSurvivor
<1> QED
  BY <1>1, <1>3, <1>4 DEF StopInv

\* The steps of connections, of runs that start and of sessions that end.
LEMMA EnvStep ==
  ASSUME StopInv, (\E c \in Conns : ConnStep(c)) \/ (\E s \in Children : RunSpawns(s) \/ SessionEnds(s))
  PROVE  StopInv'
<1>1. CASE \E c \in Conns : ConnStep(c)
  <2> PICK c \in Conns : ConnStep(c)
    BY <1>1
  <2>1. conn' \in [Conns -> ConnStates]
    BY DEF ConnStep, ConnStates, StopInv, StopTypeOK
  <2>2. /\ sess' \in [Children -> {"none", "live", "termed", "killed", "gone"}]
        /\ \A s \in Children : Later(sess[s], sess'[s])
    BY DEF ConnStep, Later, StopInv, StopTypeOK
  <2>3. UNCHANGED <<phase, signalled, present>> /\ scheduler' = scheduler
    BY DEF ConnStep
  <2> QED
    BY <2>1, <2>2, <2>3, OthersKeep
<1>2. CASE \E s \in Children : RunSpawns(s) \/ SessionEnds(s)
  <2> PICK s \in Children : RunSpawns(s) \/ SessionEnds(s)
    BY <1>2
  <2>1. conn' \in [Conns -> ConnStates]
    BY DEF RunSpawns, SessionEnds, StopInv, StopTypeOK
  <2>2. /\ sess' \in [Children -> {"none", "live", "termed", "killed", "gone"}]
        /\ \A t \in Children : Later(sess[t], sess'[t])
    BY DEF RunSpawns, SessionEnds, ActiveIds, Later, StopInv, StopTypeOK
  <2>3. UNCHANGED <<phase, signalled, present>> /\ scheduler' = scheduler
    BY DEF RunSpawns, SessionEnds
  <2> QED
    BY <2>1, <2>2, <2>3, OthersKeep
<1> QED
  BY <1>1, <1>2

\* The steps of the task that shuts the daemon down.
LEMMA ShutdownStep == ASSUME StopInv, Shutdown PROVE StopInv'
<1> USE DEF StopInv, StopTypeOK, PresentWereStarted, NoSurvivor, Before, Phases
<1>1. CASE StopLoops
  BY <1>1 DEF StopLoops, NotifyWaiters, ConnStates
<1>2. CASE TermSessions
  BY <1>2 DEF TermSessions, ActiveIds
<1>3. CASE Drain
  BY <1>3 DEF Drain, ConnStates
<1>4. CASE AllGone
  \* Nobody is in the registry, and whoever was is not one that never started.
  <2>1. \A s \in present : sess[s] = "gone"
    BY <1>4 DEF AllGone, ActiveIds
  <2> QED
    BY <1>4, <2>1 DEF AllGone
<1>5. CASE Escalate
  <2>1. \A s \in present : sess'[s] \in {"killed", "gone"}
    BY <1>5 DEF Escalate, ActiveIds
  <2>2. sess' \in [Children -> {"none", "live", "termed", "killed", "gone"}]
    BY <1>5 DEF Escalate
  <2> QED
    BY <1>5, <2>1, <2>2 DEF Escalate
<1>6. CASE Landed \/ StopScheduler \/ CloseStorage
  BY <1>6 DEF Landed, StopScheduler, CloseStorage
<1>7. CASE Exit
  BY <1>7 DEF Exit, ConnStates
<1> QED
  BY <1>1, <1>2, <1>3, <1>4, <1>5, <1>6, <1>7 DEF Shutdown

\* Every step keeps who is left to be stopped.
LEMMA StopStep == StopInv /\ [StopNext]_stopVars => StopInv'
<1> SUFFICES ASSUME StopInv, [StopNext]_stopVars PROVE StopInv'
  OBVIOUS
<1>1. CASE Accept \/ BackToSelect
  BY <1>1 DEF Accept, BackToSelect, StopInv, StopTypeOK, PresentWereStarted, NoSurvivor, Before,
              Phases, ConnStates
<1>2. CASE Signal
  BY <1>2 DEF Signal, NotifyWaiters, StopInv, StopTypeOK, PresentWereStarted, NoSurvivor, Before,
              Phases, ConnStates
<1>3. CASE UNCHANGED stopVars
  BY <1>3 DEF stopVars, StopInv, StopTypeOK, PresentWereStarted, NoSurvivor
<1> QED
  BY <1>1, <1>2, <1>3, EnvStep, ShutdownStep DEF StopNext

-----------------------------------------------------------------------------
\* accept_loop's shutdown sequence: every session that was in the registry when it sent
\* SIGTERM has left the registry or has been sent SIGKILL before the scheduler and the
\* storage go, whatever clients, runs and agents do meanwhile.
THEOREM ShutdownLeavesNobody == StopSpec => []NoSurvivor
<1>1. StopInv => NoSurvivor
  BY DEF StopInv
<1> QED
  BY <1>1, StopInitInv, StopStep, PTL DEF StopSpec

-----------------------------------------------------------------------------
(* Files: StorageFiles, the runs archive *)

Passes == [pc : {"idle", "read", "append", "file", "dir", "delete"}, batch : SUBSET Runs,
           left : SUBSET Months, month : Months \cup {0}]

ArchiveTypes ==
  /\ old \subseteq Runs /\ runRows \subseteq old /\ entry \subseteq Months /\ pass \in Passes
  /\ cached \in [Months -> SUBSET Runs] /\ durable \in [Months -> SUBSET Runs]
  /\ \A m \in Months : durable[m] \subseteq cached[m]

\* What a pass has made sure of: the months it has left behind are on the disk, entry
\* and all, and the month at hand as far as it has come.
PassInv ==
  /\ pass.pc \in {"append", "file", "dir", "delete"} =>
       \A r \in pass.batch : MonthOf[r] \notin pass.left => r \in durable[MonthOf[r]] /\ MonthOf[r] \in entry
  /\ pass.pc \in {"file", "dir"} => pass.month \in pass.left
  /\ pass.pc = "file" => \A r \in pass.batch : MonthOf[r] = pass.month => r \in cached[pass.month]
  /\ pass.pc = "dir" => \A r \in pass.batch : MonthOf[r] = pass.month => r \in durable[pass.month]
  /\ pass.pc = "delete" => pass.left = {}

ArchiveInv == ArchiveTypes /\ PassInv /\ NoRunLost

\* A pass moves on; files grow, entries stay.
LEMMA PassMoves ==
  ASSUME ArchiveInv, ReadBatch \/ AppendFrame \/ SyncFile \/ SyncDir
  PROVE  ArchiveInv'
<1>0. /\ old \subseteq Runs /\ runRows \subseteq old /\ entry \subseteq Months
      /\ cached \in [Months -> SUBSET Runs] /\ durable \in [Months -> SUBSET Runs]
      /\ \A m \in Months : durable[m] \subseteq cached[m]
      /\ pass.pc \in {"idle", "read", "append", "file", "dir", "delete"} /\ pass.batch \subseteq Runs
      /\ pass.left \subseteq Months /\ pass.month \in Months \cup {0} /\ pass \in Passes
      /\ MonthOf \in [Runs -> Months]
  BY FilesAssumption DEF ArchiveInv, ArchiveTypes, Passes
<1>1. CASE ReadBatch
  <2>1. NoPass \in Passes /\ NoPass.pc = "idle"
    BY DEF NoPass, Passes
  <2>2. Batch \subseteq Runs /\ {MonthOf[r] : r \in Batch} \subseteq Months
    BY <1>0 DEF Batch
  <2>3. UNCHANGED <<old, runRows, cached, durable, entry>>
    BY <1>1 DEF ReadBatch
  <2>4. CASE pass' = NoPass
    BY <1>0, <2>1, <2>3, <2>4 DEF ArchiveInv, ArchiveTypes, PassInv, NoRunLost
  <2>5. CASE pass' = [pc |-> "append", batch |-> Batch, month |-> 0, left |-> {MonthOf[r] : r \in Batch}]
    <3>1. /\ pass' \in Passes /\ pass'.pc = "append" /\ pass'.batch = Batch
          /\ pass'.left = {MonthOf[r] : r \in Batch}
      BY <2>2, <2>5 DEF Passes
    <3> QED
      BY <1>0, <2>3, <3>1 DEF ArchiveInv, ArchiveTypes, PassInv, NoRunLost
  <2> QED
    BY <1>1, <2>4, <2>5 DEF ReadBatch
<1>2. CASE AppendFrame
  <2>1. UNCHANGED <<old, runRows, durable, entry>> /\ pass.pc = "append"
    BY <1>2 DEF AppendFrame
  <2>2. PICK m \in pass.left :
          /\ cached' = [cached EXCEPT ![m] = @ \cup {r \in pass.batch : MonthOf[r] = m}]
          /\ pass' = [pass EXCEPT !.pc = "file", !.month = m]
    BY <1>2 DEF AppendFrame
  <2>3. /\ cached' \in [Months -> SUBSET Runs] /\ \A n \in Months : cached[n] \subseteq cached'[n]
        /\ {r \in pass.batch : MonthOf[r] = m} \subseteq cached'[m]
    BY <1>0, <2>2
  <2>4. /\ pass' \in Passes /\ pass'.pc = "file" /\ pass'.month = m /\ pass'.batch = pass.batch
        /\ pass'.left = pass.left
    BY <1>0, <2>2 DEF Passes
  <2>5. ArchiveTypes'
    BY <1>0, <2>1, <2>3, <2>4 DEF ArchiveTypes
  <2>6. PassInv'
    BY <2>1, <2>2, <2>3, <2>4 DEF ArchiveInv, PassInv
  <2> QED
    BY <2>1, <2>5, <2>6 DEF ArchiveInv, NoRunLost
<1>3. CASE SyncFile
  <2>1. /\ UNCHANGED <<old, runRows, cached, entry>> /\ pass.pc = "file"
        /\ pass' = [pass EXCEPT !.pc = "dir"] /\ durable' = [durable EXCEPT ![pass.month] = cached[pass.month]]
    BY <1>3 DEF SyncFile
  <2>2. pass.month \in Months
    BY <1>0, <2>1 DEF ArchiveInv, PassInv
  <2>3. /\ durable' \in [Months -> SUBSET Runs] /\ durable'[pass.month] = cached[pass.month]
        /\ \A n \in Months : durable[n] \subseteq durable'[n] /\ durable'[n] \subseteq cached[n]
    BY <1>0, <2>1, <2>2
  <2>4. /\ pass' \in Passes /\ pass'.pc = "dir" /\ pass'.month = pass.month /\ pass'.batch = pass.batch
        /\ pass'.left = pass.left
    BY <1>0, <2>1 DEF Passes
  <2>5. ArchiveTypes'
    BY <1>0, <2>1, <2>3, <2>4 DEF ArchiveTypes
  <2>6. PassInv'
    BY <1>0, <2>1, <2>3, <2>4 DEF ArchiveInv, PassInv
  <2>7. NoRunLost'
    BY <1>0, <2>1, <2>3 DEF ArchiveInv, NoRunLost
  <2> QED
    BY <2>5, <2>6, <2>7 DEF ArchiveInv
<1>4. CASE SyncDir
  <2>1. /\ UNCHANGED <<old, runRows, cached, durable>> /\ pass.pc = "dir"
        /\ entry' = entry \cup {pass.month}
        /\ pass' = [pass EXCEPT !.left = @ \ {pass.month},
                                !.pc = IF pass.left = {pass.month} THEN "delete" ELSE "append"]
    BY <1>4 DEF SyncDir
  <2>2. pass.month \in Months
    BY <1>0, <2>1 DEF ArchiveInv, PassInv
  <2>3. /\ pass' \in Passes /\ pass'.month = pass.month /\ pass'.batch = pass.batch
        /\ pass'.left = pass.left \ {pass.month}
        /\ pass'.pc = IF pass.left = {pass.month} THEN "delete" ELSE "append"
    BY <1>0, <2>1 DEF Passes
  <2>4. ArchiveTypes'
    BY <1>0, <2>1, <2>2, <2>3 DEF ArchiveTypes
  <2>5. PassInv'
    BY <1>0, <2>1, <2>3 DEF ArchiveInv, PassInv
  <2> QED
    BY <2>1, <2>4, <2>5 DEF ArchiveInv, NoRunLost
<1> QED
  BY <1>1, <1>2, <1>3, <1>4

\* The rows that go are those the pass has put on the disk.
LEMMA PassEnds ==
  ASSUME ArchiveInv, DeleteBatch \/ PassFails \/ \E r \in Runs : RunExpires(r)
  PROVE  ArchiveInv'
<1>0. NoPass \in Passes /\ NoPass.pc = "idle" /\ [NoPass EXCEPT !.pc = "read"] \in Passes
      /\ [NoPass EXCEPT !.pc = "read"].pc = "read"
  BY DEF NoPass, Passes
<1>1. CASE DeleteBatch
  <2>1. /\ UNCHANGED <<old, cached, durable, entry>> /\ pass.pc = "delete" /\ runRows' = runRows \ pass.batch
        /\ pass' \in {NoPass, [NoPass EXCEPT !.pc = "read"]}
    BY <1>1 DEF DeleteBatch
  <2>2. \A r \in pass.batch : r \in durable[MonthOf[r]] /\ MonthOf[r] \in entry
    BY <2>1 DEF ArchiveInv, PassInv
  <2>3. ArchiveTypes' /\ PassInv'
    BY <1>0, <2>1 DEF ArchiveInv, ArchiveTypes, PassInv
  <2> QED
    BY <2>1, <2>2, <2>3 DEF ArchiveInv, NoRunLost
<1>2. CASE PassFails
  <2>1. UNCHANGED <<old, runRows, cached, durable, entry>> /\ pass' = NoPass
    BY <1>2 DEF PassFails
  <2> QED
    BY <1>0, <2>1 DEF ArchiveInv, ArchiveTypes, PassInv, NoRunLost
<1>3. ASSUME NEW r \in Runs, RunExpires(r) PROVE ArchiveInv'
  BY <1>3 DEF RunExpires, ArchiveInv, ArchiveTypes, PassInv, NoRunLost
<1> QED
  BY <1>1, <1>2, <1>3

\* A power cut takes nothing that was synced under a synced entry.
LEMMA CrashArchive ==
  ASSUME ArchiveInv, Crash
  PROVE  ArchiveInv'
<1>0. NoPass \in Passes /\ NoPass.pc = "idle"
  BY DEF NoPass, Passes
<1>1. PICK kept \in SUBSET Months, extra \in SUBSET Runs :
        /\ durable' = [m \in Months |-> IF m \in entry \cup kept THEN durable[m] \cup (cached[m] \cap extra) ELSE {}]
        /\ cached' = durable' /\ entry' = entry \cup kept
  BY DEF Crash
<1>2. pass' = NoPass /\ old' = old /\ runRows' = runRows
  BY DEF Crash
<1>3. ArchiveTypes'
  BY <1>0, <1>1, <1>2 DEF ArchiveInv, ArchiveTypes
<1>4. PassInv'
  BY <1>0, <1>2 DEF PassInv
<1>5. NoRunLost'
  BY <1>1, <1>2, FilesAssumption DEF ArchiveInv, ArchiveTypes, NoRunLost
<1> QED
  BY <1>3, <1>4, <1>5 DEF ArchiveInv

-----------------------------------------------------------------------------
(* Files: StorageFiles, the transcript *)

Chunks == [seq : Nat, data : Nat]
Spills == [lines : Seq(Chunks), tail : {"ok", "noeol", "broken"}, synced : Nat]
Appends == [pc : {"idle", "insert", "spill", "line", "sync", "commit"}, chunk : Chunks]

Sorted(q) ==
  \A i, j \in 1..Len(q) : i < j => q[i].seq < q[j].seq /\ q[i].data < q[j].data
Below(q, n) == \A i \in 1..Len(q) : q[i].data <= n
Fresh(c, q) == \A i \in 1..Len(q) : q[i].seq < c.seq /\ q[i].data < c.data

ChunkTypes ==
  /\ tx \in Writers \cup {"none"} /\ rows \in Seq(Chunks) /\ spilled \in BOOLEAN
  /\ file \in Spills /\ file.synced <= Len(file.lines)
  /\ app \in [Writers -> Appends] /\ sent \in Nat /\ acked \subseteq Chunks
  /\ \A w \in Writers : app[w].pc # "idle" => tx = w

\* An append on its way: its chunk comes after all that the transcript holds, until it
\* is the last line of a file that is, or will be, the transcript.
AppendInv(w) ==
  /\ app[w].chunk.data <= sent
  /\ app[w].pc = "line" => spilled
  /\ app[w].pc \in {"insert", "spill"} => ~spilled
  /\ app[w].pc \in {"insert", "spill", "line"} => Fresh(app[w].chunk, Transcript)
  /\ app[w].pc \in {"sync", "commit"} =>
       IF spilled
       THEN \E i \in 1..Len(file.lines) : file.lines[i] = app[w].chunk
       ELSE Fresh(app[w].chunk, rows) /\ file.lines = Append(rows, app[w].chunk)
  /\ app[w].pc = "commit" => file.synced = Len(file.lines)

\* A chunk that was acknowledged is in the table, or in the part of the file that a
\* power cut cannot take without the file.
AckedInv ==
  \A c \in acked \ taken : IF spilled THEN \E i \in 1..file.synced : file.lines[i] = c
                              ELSE \E i \in 1..Len(rows) : rows[i] = c

ChunkInv ==
  /\ ChunkTypes /\ Sorted(Transcript) /\ Below(Transcript, sent)
  /\ (\A w \in Writers : AppendInv(w)) /\ AckedInv

\* A fresh chunk at the end keeps the order.
LEMMA AppendKeepsOrder ==
  ASSUME NEW q \in Seq(Chunks), NEW c \in Chunks, NEW n \in Nat,
         Sorted(q), Below(q, n), Fresh(c, q), c.data <= n
  PROVE  /\ Append(q, c) \in Seq(Chunks) /\ Len(Append(q, c)) = Len(q) + 1
         /\ Sorted(Append(q, c)) /\ Below(Append(q, c), n) /\ Append(q, c)[Len(q) + 1] = c
         /\ \A i \in 1..Len(q) : Append(q, c)[i] = q[i]
<1>1. PICK a \in Seq(Chunks) : a = Append(q, c)
  BY AppendProperties
<1>2. /\ Len(a) = Len(q) + 1 /\ a[Len(q) + 1] = c /\ Len(q) \in Nat
      /\ \A i \in 1..Len(q) : a[i] = q[i]
  BY <1>1, AppendProperties
<1>3. \A i \in 1..Len(q) : q[i] \in Chunks
  BY ElementOfSeq
<1>4. Below(a, n)
  BY <1>2 DEF Below
<1>5. Sorted(a)
  <2> SUFFICES ASSUME NEW i \in 1..Len(a), NEW j \in 1..Len(a), i < j
               PROVE  a[i].seq < a[j].seq /\ a[i].data < a[j].data
    BY DEF Sorted
  <2>1. i \in 1..Len(q) /\ a[i] = q[i]
    BY <1>2
  <2>2. CASE j = Len(q) + 1
    BY <1>2, <2>1, <2>2 DEF Fresh
  <2>3. CASE j \in 1..Len(q)
    BY <1>2, <2>1, <2>3 DEF Sorted
  <2> QED
    BY <1>2, <2>2, <2>3
<1> QED
  BY <1>1, <1>2, <1>4, <1>5

\* So does cutting off an end.
LEMMA PrefixKeepsOrder ==
  ASSUME NEW q \in Seq(Chunks), NEW m \in Nat, m <= Len(q), NEW n \in Nat
  PROVE  /\ SubSeq(q, 1, m) \in Seq(Chunks) /\ Len(SubSeq(q, 1, m)) = m
         /\ \A i \in 1..m : SubSeq(q, 1, m)[i] = q[i]
         /\ Sorted(q) => Sorted(SubSeq(q, 1, m))
         /\ Below(q, n) => Below(SubSeq(q, 1, m), n)
<1>0. Len(q) \in Nat
  BY LenProperties
<1>1. SubSeq(q, 1, m) \in Seq(Chunks) /\ Len(SubSeq(q, 1, m)) = m
  BY <1>0, SubSeqProperties
<1>2. \A i \in 1..m : SubSeq(q, 1, m)[i] = q[i]
  BY <1>0, SubSeqProperties
<1> QED
  BY <1>0, <1>1, <1>2 DEF Sorted, Below

\* The next number is larger than any in use.
LEMMA NextIsFresh ==
  ASSUME NEW q \in Seq(Chunks), NEW n \in Nat, Sorted(q), Below(q, n)
  PROVE  /\ LastSeq(q) \in Nat
         /\ Fresh([seq |-> 1 + LastSeq(q), data |-> n + 1], q)
<1>a. Len(q) \in Nat /\ \A i \in 1..Len(q) : q[i] \in Chunks
  BY LenProperties, ElementOfSeq
<1>0. Len(q) \in Nat /\ \A i \in 1..Len(q) : q[i].seq \in Nat /\ q[i].data \in Nat
  BY <1>a DEF Chunks
<1>1. CASE q = <<>>
  BY <1>1, EmptySeq DEF LastSeq, Fresh
<1>2. CASE q # <<>>
  <2>1. Len(q) \in 1..Len(q)
    BY <1>0, <1>2, EmptySeq
  <2>2. LastSeq(q) = q[Len(q)].seq /\ LastSeq(q) \in Nat
    BY <1>0, <1>2, <2>1 DEF LastSeq
  <2>3. \A i \in 1..Len(q) : q[i].seq <= LastSeq(q)
    <3> TAKE i \in 1..Len(q)
    <3>1. CASE i = Len(q)
      BY <1>0, <2>2, <3>1
    <3>2. CASE i < Len(q)
      BY <1>0, <2>1, <2>2, <3>2 DEF Sorted
    <3> QED
      BY <1>0, <3>1, <3>2
  <2> QED
    BY <1>0, <2>2, <2>3 DEF Below, Fresh
<1> QED
  BY <1>1, <1>2

\* What the types say, field by field.
LEMMA ChunkFields ==
  ASSUME ChunkInv
  PROVE  /\ tx \in Writers \cup {"none"} /\ rows \in Seq(Chunks) /\ spilled \in BOOLEAN
         /\ sent \in Nat /\ acked \subseteq Chunks /\ app \in [Writers -> Appends]
         /\ file.lines \in Seq(Chunks) /\ file.tail \in {"ok", "noeol", "broken"} /\ file.synced \in Nat
         /\ file.synced <= Len(file.lines) /\ Len(file.lines) \in Nat /\ Len(rows) \in Nat
         /\ Transcript \in Seq(Chunks) /\ Len(Transcript) \in Nat
         /\ \A w \in Writers : /\ app[w].chunk \in Chunks /\ (app[w].pc # "idle" => tx = w)
                               /\ app[w].pc \in {"idle", "insert", "spill", "line", "sync", "commit"}
<1>1. /\ rows \in Seq(Chunks) /\ file.lines \in Seq(Chunks) /\ file.synced \in Nat
      /\ file.tail \in {"ok", "noeol", "broken"}
  BY DEF ChunkInv, ChunkTypes, Spills
<1>2. Len(rows) \in Nat /\ Len(file.lines) \in Nat
  BY <1>1, LenProperties
<1>3. \A w \in Writers : /\ app[w].chunk \in Chunks
                         /\ app[w].pc \in {"idle", "insert", "spill", "line", "sync", "commit"}
  BY DEF ChunkInv, ChunkTypes, Appends
<1>4. Transcript \in Seq(Chunks) /\ Len(Transcript) \in Nat
  BY <1>1, <1>2 DEF Transcript
<1> QED
  BY <1>1, <1>2, <1>3, <1>4 DEF ChunkInv, ChunkTypes

\* Nobody else is in an append while one is.
LEMMA OneAppend ==
  ASSUME ChunkInv, NEW w \in Writers, tx \in {w, "none"}
  PROVE  \A v \in Writers \ {w} : app[v].pc = "idle"
<1>1. "none" \notin Writers
  BY FilesAssumption
<1>2. \A v \in Writers : app[v].pc # "idle" => tx = v
  BY DEF ChunkInv, ChunkTypes
<1> QED
  BY <1>1, <1>2

\* An append begins.
LEMMA BeginKeeps ==
  ASSUME ChunkInv, NEW w \in Writers, Begin(w)
  PROVE  ChunkInv'
<1>1. /\ tx = "none" /\ tx' = w /\ sent' = sent + 1 /\ UNCHANGED <<rows, spilled, file, acked, taken>>
  BY DEF Begin
<1>2. \A v \in Writers \ {w} : app[v].pc = "idle"
  BY <1>1, OneAppend
<1>3. PICK c : c = [seq |-> NextSeq, data |-> sent + 1]
  OBVIOUS
<1>4. NextSeq = 1 + LastSeq(Transcript)
  BY DEF NextSeq, Transcript
<1>5. LastSeq(Transcript) \in Nat /\ Fresh(c, Transcript)
  BY <1>3, <1>4, ChunkFields, NextIsFresh DEF ChunkInv
<1>6. c \in Chunks /\ c.data = sent + 1
  BY <1>3, <1>4, <1>5, ChunkFields DEF Chunks
<1>7. PICK a : /\ app' = [app EXCEPT ![w] = a]
               /\ a = [pc |-> IF spilled THEN "line" ELSE IF bytes + 1 > SpillAt THEN "spill" ELSE "insert", chunk |-> c]
  BY <1>3 DEF Begin
<1>8. /\ a \in Appends /\ a.chunk = c /\ a.pc \in {"line", "spill", "insert"}
      /\ spilled => a.pc = "line"
      /\ ~spilled => a.pc \in {"spill", "insert"}
  BY <1>6, <1>7 DEF Appends
<1>9. app' \in [Writers -> Appends] /\ app'[w] = a /\ \A v \in Writers \ {w} : app'[v] = app[v]
  BY <1>7, <1>8, ChunkFields
<1>10. Transcript' = Transcript
  BY <1>1 DEF Transcript
<1>11. ChunkTypes'
  BY <1>1, <1>2, <1>9, ChunkFields DEF ChunkInv, ChunkTypes
<1>12. Sorted(Transcript)' /\ Below(Transcript, sent)'
  <2>1. \A i \in 1..Len(Transcript) : Transcript[i] \in Chunks
    BY ChunkFields, ElementOfSeq
  <2>2. \A i \in 1..Len(Transcript) : Transcript[i].data \in Nat
    BY <2>1 DEF Chunks
  <2>3. Sorted(Transcript) /\ Below(Transcript, sent)
    BY DEF ChunkInv
  <2>4. Sorted(Transcript)'
    BY <1>10, <2>3 DEF Sorted
  <2>5. Below(Transcript, sent)'
    BY <1>1, <1>10, <2>2, <2>3, ChunkFields DEF Below
  <2> QED
    BY <2>4, <2>5
<1>13. AppendInv(w)'
  BY <1>1, <1>5, <1>6, <1>8, <1>9, <1>10, ChunkFields DEF AppendInv
<1>14. \A v \in Writers \ {w} : AppendInv(v)'
  <2> TAKE v \in Writers \ {w}
  <2>0. app[v].chunk \in Chunks /\ app[v].chunk.data <= sent
    BY ChunkFields DEF ChunkInv, AppendInv
  <2>1. app[v].chunk.data \in Nat /\ app[v].chunk.data <= sent
    BY <2>0 DEF Chunks
  <2> QED
    BY <1>1, <1>2, <1>9, <2>1, ChunkFields DEF AppendInv
<1> QED
  BY <1>1, <1>11, <1>12, <1>13, <1>14 DEF ChunkInv, AckedInv

\* An append that ends, one way or the other, leaves all writers idle.
LEMMA EndsIdle ==
  ASSUME ChunkInv, NEW w \in Writers, tx = w, tx' = "none", app' = [app EXCEPT ![w] = Idle],
         sent' = sent, rows' \in Seq(Chunks), spilled' \in BOOLEAN, file' \in Spills,
         file'.synced <= Len(file'.lines), acked' \subseteq Chunks
  PROVE  ChunkTypes' /\ \A v \in Writers : AppendInv(v)'
<1>1. \A v \in Writers \ {w} : app[v].pc = "idle"
  BY OneAppend
<1>2. Idle \in Appends /\ Idle.pc = "idle" /\ Idle.chunk.data = 0
  BY DEF Idle, NoChunk, Appends, Chunks
<1>3. app' \in [Writers -> Appends] /\ app'[w] = Idle /\ \A v \in Writers \ {w} : app'[v] = app[v]
  BY <1>2, ChunkFields
<1>4. ChunkTypes'
  BY <1>1, <1>2, <1>3, ChunkFields DEF ChunkTypes
<1>5. \A v \in Writers : app'[v].pc = "idle" /\ app'[v].chunk.data <= sent'
  BY <1>1, <1>2, <1>3, ChunkFields DEF ChunkInv, AppendInv
<1> QED
  BY <1>4, <1>5 DEF AppendInv

\* The chunk goes to the table.
LEMMA InsertKeeps ==
  ASSUME ChunkInv, NEW w \in Writers, Insert(w)
  PROVE  ChunkInv'
<1>1. /\ app[w].pc = "insert" /\ rows' = Append(rows, app[w].chunk) /\ acked' = acked \cup {app[w].chunk}
      /\ tx' = "none" /\ app' = [app EXCEPT ![w] = Idle] /\ UNCHANGED <<spilled, file, sent, taken>>
  BY DEF Insert, Commit
<1>2. PICK c \in Chunks : c = app[w].chunk
  BY ChunkFields
<1>3. tx = w /\ ~spilled /\ Transcript = rows /\ Fresh(c, rows) /\ c.data <= sent
  BY <1>1, <1>2, ChunkFields DEF ChunkInv, AppendInv, Transcript
<1>4. /\ Append(rows, c) \in Seq(Chunks) /\ Len(Append(rows, c)) = Len(rows) + 1
      /\ Sorted(Append(rows, c)) /\ Below(Append(rows, c), sent) /\ Append(rows, c)[Len(rows) + 1] = c
      /\ \A i \in 1..Len(rows) : Append(rows, c)[i] = rows[i]
  BY <1>3, ChunkFields, AppendKeepsOrder DEF ChunkInv
<1>5. ChunkTypes' /\ \A v \in Writers : AppendInv(v)'
  <2>1. file' \in Spills /\ file'.synced <= Len(file'.lines)
    BY <1>1 DEF ChunkInv, ChunkTypes
  <2> QED
    BY <1>1, <1>2, <1>3, <1>4, <2>1, EndsIdle, ChunkFields
<1>6. Transcript' = Append(rows, c)
  BY <1>1, <1>2, <1>3 DEF Transcript
<1>7. AckedInv'
  <2> SUFFICES ASSUME NEW d \in acked' \ taken
               PROVE  \E i \in 1..Len(rows') : rows'[i] = d
    BY <1>1, <1>3 DEF AckedInv
  <2>1. CASE d = c
    BY <1>1, <1>2, <1>4, <2>1, ChunkFields
  <2>2. CASE d \in acked \ taken
    <3>1. PICK i \in 1..Len(rows) : rows[i] = d
      BY <1>3, <2>2 DEF ChunkInv, AckedInv
    <3> QED
      BY <1>1, <1>2, <1>4, <3>1, ChunkFields
  <2> QED
    BY <1>1, <1>2, <2>1, <2>2
<1> QED
  BY <1>1, <1>4, <1>5, <1>6, <1>7 DEF ChunkInv

\* A step within an append: the table, what was acknowledged and the holder stay.
LEMMA WithinAppend ==
  ASSUME ChunkInv, NEW w \in Writers, NEW p \in {"sync", "commit"},
         app[w].pc # "idle", app' = [app EXCEPT ![w].pc = p],
         UNCHANGED <<tx, rows, spilled, sent, acked, taken>>,
         file' \in Spills, file'.synced <= Len(file'.lines)
  PROVE  /\ ChunkTypes' /\ app'[w].pc = p /\ app'[w].chunk = app[w].chunk
         /\ \A v \in Writers \ {w} : AppendInv(v)'
<1>1. tx = w
  BY ChunkFields
<1>2. \A v \in Writers \ {w} : app[v].pc = "idle"
  BY <1>1, OneAppend
<1>3. PICK a : a = [app[w] EXCEPT !.pc = p]
  OBVIOUS
<1>4. a \in Appends /\ a.pc = p /\ a.chunk = app[w].chunk
  BY <1>3, ChunkFields DEF Appends
<1>5. app' \in [Writers -> Appends] /\ app'[w] = a /\ \A v \in Writers \ {w} : app'[v] = app[v]
  BY <1>3, <1>4, ChunkFields
<1>6. ChunkTypes'
  BY <1>1, <1>2, <1>5, ChunkFields DEF ChunkTypes
<1>7. \A v \in Writers \ {w} : AppendInv(v)'
  BY <1>2, <1>5 DEF ChunkInv, AppendInv
<1> QED
  BY <1>4, <1>5, <1>6, <1>7

\* The spill file is written anew; the table is still the transcript.
LEMMA WriteSpillKeeps ==
  ASSUME ChunkInv, NEW w \in Writers, WriteSpill(w)
  PROVE  ChunkInv'
<1>1. /\ app[w].pc = "spill" /\ app' = [app EXCEPT ![w].pc = "sync"]
      /\ file' = [lines |-> Append(rows, app[w].chunk), tail |-> "ok", synced |-> 0]
      /\ UNCHANGED <<tx, rows, spilled, sent, acked, taken>>
  BY DEF WriteSpill
<1>2. ~spilled /\ Transcript = rows /\ Fresh(app[w].chunk, rows) /\ app[w].chunk.data <= sent
  BY <1>1 DEF ChunkInv, AppendInv, Transcript
<1>3. Append(rows, app[w].chunk) \in Seq(Chunks) /\ Len(Append(rows, app[w].chunk)) \in Nat
  BY ChunkFields, AppendProperties, LenProperties
<1>4. /\ file' \in Spills /\ file'.synced <= Len(file'.lines)
      /\ file'.lines = Append(rows, app[w].chunk)
  BY <1>1, <1>3 DEF Spills
<1>5. /\ ChunkTypes' /\ app'[w].pc = "sync" /\ app'[w].chunk = app[w].chunk
      /\ \A v \in Writers \ {w} : AppendInv(v)'
  BY <1>1, <1>4, WithinAppend
<1>6. AppendInv(w)'
  BY <1>1, <1>2, <1>4, <1>5 DEF AppendInv
<1>7. Transcript' = Transcript
  BY <1>1, <1>2 DEF Transcript
<1> QED
  BY <1>1, <1>2, <1>5, <1>6, <1>7 DEF ChunkInv, AckedInv

\* A line is added to the file, behind what is synced.
LEMMA LineAdded ==
  ASSUME ChunkInv, NEW w \in Writers, app[w].pc = "line", file'.lines = Append(file.lines, app[w].chunk),
         file'.synced = file.synced, UNCHANGED <<rows, spilled, sent, acked, taken>>
  PROVE  /\ file'.lines \in Seq(Chunks) /\ file'.synced <= Len(file'.lines)
         /\ spilled /\ \E i \in 1..Len(file'.lines) : file'.lines[i] = app[w].chunk
         /\ Sorted(Transcript)' /\ Below(Transcript, sent)' /\ AckedInv'
<1>1. PICK c \in Chunks : c = app[w].chunk
  BY ChunkFields
<1>2. spilled /\ Transcript = file.lines /\ Fresh(c, file.lines) /\ c.data <= sent
  BY <1>1, ChunkFields DEF ChunkInv, AppendInv, Transcript
<1>a. Sorted(file.lines) /\ Below(file.lines, sent) /\ file.lines \in Seq(Chunks) /\ sent \in Nat
  BY <1>2, ChunkFields DEF ChunkInv
<1>b. PICK a : a = Append(file.lines, c)
  OBVIOUS
<1>3. /\ a \in Seq(Chunks) /\ Len(a) = Len(file.lines) + 1
      /\ Sorted(a) /\ Below(a, sent) /\ a[Len(file.lines) + 1] = c
      /\ \A i \in 1..Len(file.lines) : a[i] = file.lines[i]
  BY <1>a, <1>b, <1>2, AppendKeepsOrder
<1>4. file'.lines = a /\ Transcript' = a
  BY <1>1, <1>2, <1>b, <1>3 DEF Transcript
<1>5. AckedInv'
  BY <1>2, <1>3, <1>4, ChunkFields DEF ChunkInv, AckedInv
<1>6. file'.synced <= Len(file'.lines) /\ Len(file.lines) + 1 \in 1..Len(file'.lines)
  BY <1>3, <1>4, ChunkFields
<1> QED
  BY <1>1, <1>2, <1>3, <1>4, <1>5, <1>6

\* append_spill_line
LEMMA WriteLineKeeps ==
  ASSUME ChunkInv, NEW w \in Writers, WriteLine(w)
  PROVE  ChunkInv'
<1>1. /\ app[w].pc = "line" /\ app' = [app EXCEPT ![w].pc = "sync"]
      /\ file' = [file EXCEPT !.lines = Append(@, app[w].chunk), !.tail = IF @ = "ok" THEN "ok" ELSE "broken"]
      /\ UNCHANGED <<tx, rows, spilled, sent, acked, taken>>
  BY DEF WriteLine
<1>2. file \in Spills
  BY DEF ChunkInv, ChunkTypes
<1>3. /\ file'.lines = Append(file.lines, app[w].chunk) /\ file'.synced = file.synced
  BY <1>1, <1>2 DEF Spills
<1>4. /\ file'.lines \in Seq(Chunks) /\ file'.synced <= Len(file'.lines)
      /\ spilled /\ \E i \in 1..Len(file'.lines) : file'.lines[i] = app[w].chunk
      /\ Sorted(Transcript)' /\ Below(Transcript, sent)' /\ AckedInv'
  BY <1>1, <1>3, LineAdded
<1>5. file' \in Spills
  BY <1>1, <1>2, <1>3, <1>4 DEF Spills
<1>6. /\ ChunkTypes' /\ app'[w].pc = "sync" /\ app'[w].chunk = app[w].chunk
      /\ \A v \in Writers \ {w} : AppendInv(v)'
  BY <1>1, <1>4, <1>5, WithinAppend
<1>7. AppendInv(w)'
  BY <1>1, <1>4, <1>6 DEF ChunkInv, AppendInv
<1> QED
  BY <1>4, <1>6, <1>7 DEF ChunkInv

\* The file is synced.
LEMMA SyncSpillKeeps ==
  ASSUME ChunkInv, NEW w \in Writers, SyncSpill(w)
  PROVE  ChunkInv'
<1>1. /\ app[w].pc = "sync" /\ app' = [app EXCEPT ![w].pc = "commit"]
      /\ file' = [file EXCEPT !.synced = Len(file.lines)] /\ UNCHANGED <<tx, rows, spilled, sent, acked, taken>>
  BY DEF SyncSpill
<1>2. file \in Spills
  BY DEF ChunkInv, ChunkTypes
<1>3. file' \in Spills /\ file'.lines = file.lines /\ file'.synced = Len(file.lines)
  BY <1>1, <1>2, ChunkFields DEF Spills
<1>a. file'.synced <= Len(file'.lines)
  BY <1>3, ChunkFields
<1>4. /\ ChunkTypes' /\ app'[w].pc = "commit" /\ app'[w].chunk = app[w].chunk
      /\ \A v \in Writers \ {w} : AppendInv(v)'
  BY <1>1, <1>3, <1>a, WithinAppend
<1>5. AppendInv(w)'
  BY <1>1, <1>3, <1>4 DEF ChunkInv, AppendInv
<1>6. Transcript' = Transcript
  BY <1>1, <1>3 DEF Transcript
<1>7. AckedInv'
  <2>1. 1..file.synced \subseteq 1..file'.synced
    BY <1>3, ChunkFields
  <2> QED
    BY <1>1, <1>3, <2>1 DEF ChunkInv, AckedInv
<1> QED
  BY <1>1, <1>4, <1>5, <1>6, <1>7 DEF ChunkInv

\* The transaction commits: from here on the file is the transcript.
LEMMA CommitSpillKeeps ==
  ASSUME ChunkInv, NEW w \in Writers, CommitSpill(w)
  PROVE  ChunkInv'
<1>1. /\ app[w].pc = "commit" /\ rows' = <<>> /\ spilled' = TRUE /\ acked' = acked \cup {app[w].chunk}
      /\ tx' = "none" /\ app' = [app EXCEPT ![w] = Idle] /\ UNCHANGED <<file, sent, taken>>
  BY DEF CommitSpill, Commit
<1>2. PICK c \in Chunks : c = app[w].chunk
  BY ChunkFields
<1>3. tx = w /\ file.synced = Len(file.lines) /\ c.data <= sent
  BY <1>1, <1>2, ChunkFields DEF ChunkInv, AppendInv
<1>4. ChunkTypes' /\ \A v \in Writers : AppendInv(v)'
  <2>1. file' \in Spills /\ file'.synced <= Len(file'.lines) /\ <<>> \in Seq(Chunks) /\ spilled' \in BOOLEAN
    BY <1>1, EmptySeq DEF ChunkInv, ChunkTypes
  <2>2. acked' \subseteq Chunks
    BY <1>1, <1>2, ChunkFields
  <2> QED
    BY <1>1, <1>3, <2>1, <2>2, EndsIdle
<1>5. Transcript' = file.lines
  BY <1>1 DEF Transcript
<1>6. CASE spilled
  <2>1. PICK i \in 1..Len(file.lines) : file.lines[i] = c
    BY <1>1, <1>2, <1>6 DEF ChunkInv, AppendInv
  <2>2. Sorted(file.lines) /\ Below(file.lines, sent)
    BY <1>6 DEF ChunkInv, Transcript
  <2>3. AckedInv'
    BY <1>1, <1>2, <1>3, <1>6, <2>1 DEF ChunkInv, AckedInv
  <2> QED
    BY <1>1, <1>4, <1>5, <2>2, <2>3 DEF ChunkInv
<1>7. CASE ~spilled
  <2>1. Fresh(c, rows) /\ file.lines = Append(rows, c) /\ Sorted(rows) /\ Below(rows, sent)
    BY <1>1, <1>2, <1>7 DEF ChunkInv, AppendInv, Transcript
  <2>2. /\ Sorted(file.lines) /\ Below(file.lines, sent) /\ file.lines[Len(rows) + 1] = c
        /\ Len(file.lines) = Len(rows) + 1 /\ \A i \in 1..Len(rows) : file.lines[i] = rows[i]
    BY <1>3, <2>1, ChunkFields, AppendKeepsOrder
  <2>3. AckedInv'
    <3> SUFFICES ASSUME NEW d \in acked' \ taken
                 PROVE  \E i \in 1..Len(file.lines) : file.lines[i] = d
      BY <1>1, <1>3 DEF AckedInv
    <3>1. CASE d = c
      BY <2>2, <3>1, ChunkFields
    <3>2. CASE d \in acked \ taken
      <4>1. PICK i \in 1..Len(rows) : rows[i] = d
        BY <1>7, <3>2 DEF ChunkInv, AckedInv
      <4> QED
        BY <2>2, <4>1, ChunkFields
    <3> QED
      BY <1>1, <1>2, <3>1, <3>2
  <2> QED
    BY <1>1, <1>4, <1>5, <2>2, <2>3 DEF ChunkInv
<1> QED
  BY <1>6, <1>7

\* The transaction is rolled back; a part of the chunk, or of the file, may be there.
LEMMA AppendFailsKeeps ==
  ASSUME ChunkInv, NEW w \in Writers, AppendFails(w)
  PROVE  ChunkInv'
<1>1. /\ tx = w /\ tx' = "none" /\ app' = [app EXCEPT ![w] = Idle]
      /\ UNCHANGED <<rows, spilled, sent, acked, taken>>
  BY DEF AppendFails
<1>2. file \in Spills
  BY DEF ChunkInv, ChunkTypes
<1> SUFFICES /\ file' \in Spills /\ file'.synced <= Len(file'.lines)
             /\ Sorted(Transcript)' /\ Below(Transcript, sent)' /\ AckedInv'
  BY <1>1, EndsIdle, ChunkFields DEF ChunkInv
<1>3. CASE UNCHANGED file
  <2>1. Transcript' = Transcript
    BY <1>1, <1>3 DEF Transcript
  <2> QED
    BY <1>1, <1>2, <1>3, <2>1, ChunkFields DEF ChunkInv, AckedInv
<1>4. CASE app[w].pc = "line" /\ file' = [file EXCEPT !.tail = "broken"]
  <2>1. file' \in Spills /\ file'.lines = file.lines /\ file'.synced = file.synced
    BY <1>2, <1>4 DEF Spills
  <2>2. Transcript' = Transcript
    BY <1>1, <2>1 DEF Transcript
  <2> QED
    BY <1>1, <2>1, <2>2, ChunkFields DEF ChunkInv, AckedInv
<1>5. CASE app[w].pc = "line" /\ file' = [file EXCEPT !.lines = Append(@, app[w].chunk), !.tail = "noeol"]
  <2>1. file'.lines = Append(file.lines, app[w].chunk) /\ file'.synced = file.synced
    BY <1>2, <1>5 DEF Spills
  <2>2. /\ file'.lines \in Seq(Chunks) /\ file'.synced <= Len(file'.lines)
        /\ Sorted(Transcript)' /\ Below(Transcript, sent)' /\ AckedInv'
    BY <1>1, <1>5, <2>1, LineAdded
  <2>3. file' \in Spills
    BY <1>2, <1>5, <2>1, <2>2 DEF Spills
  <2> QED
    BY <2>2, <2>3
<1>6. CASE /\ app[w].pc = "spill"
           /\ \E n \in 0..Len(rows), t \in {"ok", "broken"} :
                file' = [lines |-> SubSeq(rows, 1, n), tail |-> t, synced |-> 0]
  <2>1. PICK n \in 0..Len(rows), t \in {"ok", "broken"} :
          file' = [lines |-> SubSeq(rows, 1, n), tail |-> t, synced |-> 0]
    BY <1>6
  <2>2. SubSeq(rows, 1, n) \in Seq(Chunks) /\ Len(SubSeq(rows, 1, n)) = n /\ n \in Nat
    BY ChunkFields, PrefixKeepsOrder
  <2>3. file' \in Spills /\ file'.synced <= Len(file'.lines)
    BY <2>1, <2>2 DEF Spills
  <2>4. ~spilled
    BY <1>6 DEF ChunkInv, AppendInv
  <2>5. Transcript' = Transcript
    BY <1>1, <2>4 DEF Transcript
  <2> QED
    BY <1>1, <2>3, <2>4, <2>5 DEF ChunkInv, AckedInv
<1> QED
  BY <1>3, <1>4, <1>5, <1>6 DEF AppendFails

\* A power cut takes nothing of the file that was synced, or it takes the file.
LEMMA CrashChunks ==
  ASSUME ChunkInv, Crash
  PROVE  ChunkInv'
<1>1. /\ tx' = "none" /\ app' = [w \in Writers |-> Idle] /\ UNCHANGED <<rows, spilled, sent, acked>>
      /\ SpillCut
  BY DEF Crash
<1>7. Idle \in Appends /\ Idle.pc = "idle" /\ Idle.chunk.data = 0
  BY DEF Idle, NoChunk, Appends, Chunks
<1>8. app' \in [Writers -> Appends] /\ \A w \in Writers : app'[w] = Idle
  BY <1>1, <1>7
<1>10. \A w \in Writers : AppendInv(w)'
  BY <1>1, <1>7, <1>8, ChunkFields DEF AppendInv
<1> SUFFICES /\ file' \in Spills /\ file'.synced <= Len(file'.lines)
             /\ Sorted(Transcript)' /\ Below(Transcript, sent)' /\ AckedInv'
  BY <1>1, <1>7, <1>8, <1>10, ChunkFields DEF ChunkInv, ChunkTypes
<1>2. CASE /\ taken' = taken
           /\ \E n \in file.synced..Len(file.lines), t \in {"ok", "noeol", "broken"} :
                file' = [lines |-> SubSeq(file.lines, 1, n), synced |-> n,
                         tail |-> IF file.synced = Len(file.lines) THEN file.tail ELSE t]
  <2>1. PICK n \in file.synced..Len(file.lines), t \in {"ok", "noeol", "broken"} :
          file' = [lines |-> SubSeq(file.lines, 1, n), synced |-> n,
                   tail |-> IF file.synced = Len(file.lines) THEN file.tail ELSE t]
    BY <1>2
  <2>2. n \in Nat /\ file.synced <= n /\ n <= Len(file.lines)
    BY ChunkFields
  <2>3. PICK q : q = SubSeq(file.lines, 1, n)
    OBVIOUS
  <2>4. /\ q \in Seq(Chunks) /\ Len(q) = n /\ \A i \in 1..n : q[i] = file.lines[i]
        /\ Sorted(file.lines) => Sorted(q)
        /\ Below(file.lines, sent) => Below(q, sent)
    BY <2>2, <2>3, ChunkFields, PrefixKeepsOrder
  <2>5. /\ file' \in Spills /\ file'.lines = q /\ file'.synced = n
    BY <2>1, <2>2, <2>3, <2>4, ChunkFields DEF Spills
  <2>6. file'.synced <= Len(file'.lines)
    BY <2>2, <2>4, <2>5
  <2>7. CASE spilled
    <3>1. Transcript = file.lines /\ Transcript' = q
      BY <1>1, <2>5, <2>7 DEF Transcript
    <3>2. Sorted(q) /\ Below(q, sent)
      BY <2>4, <3>1 DEF ChunkInv
    <3>3. 1..file.synced \subseteq 1..n
      BY <2>2, ChunkFields
    <3>4. AckedInv'
      BY <1>1, <1>2, <2>4, <2>5, <2>7, <3>3 DEF ChunkInv, AckedInv
    <3> QED
      BY <1>1, <2>5, <2>6, <3>1, <3>2, <3>4
  <2>8. CASE ~spilled
    <3>1. Transcript' = Transcript
      BY <1>1, <2>8 DEF Transcript
    <3> QED
      BY <1>1, <1>2, <2>5, <2>6, <2>8, <3>1 DEF ChunkInv, AckedInv
  <2> QED
    BY <2>7, <2>8
<1>3. CASE /\ file' = NoFile
           /\ taken' = IF spilled THEN taken \cup {file.lines[i] : i \in 1..Len(file.lines)} ELSE taken
  <2>1. file' \in Spills /\ file'.lines = <<>> /\ file'.synced <= Len(file'.lines)
    BY <1>3, EmptySeq DEF NoFile, Spills
  <2>2. CASE spilled
    <3>1. Transcript' = <<>> /\ Len(<<>>) = 0
      BY <1>1, <2>1, <2>2, EmptySeq DEF Transcript
    <3>2. Sorted(Transcript)' /\ Below(Transcript, sent)'
      BY <3>1 DEF Sorted, Below
    <3>3. \A c \in acked \ taken : \E i \in 1..Len(file.lines) : file.lines[i] = c
      BY <2>2, ChunkFields DEF ChunkInv, AckedInv
    <3>4. acked' \subseteq taken'
      BY <1>1, <1>3, <2>2, <3>3
    <3> QED
      BY <2>1, <3>2, <3>4 DEF AckedInv
  <2>3. CASE ~spilled
    <3>1. Transcript' = Transcript
      BY <1>1, <2>3 DEF Transcript
    <3> QED
      BY <1>1, <1>3, <2>1, <2>3, <3>1 DEF ChunkInv, AckedInv
  <2> QED
    BY <2>2, <2>3
<1> QED
  BY <1>1, <1>2, <1>3 DEF SpillCut

\* The kernel writes the directory back: nobody looks at its entry.
LEMMA WriteBackKeeps ==
  ASSUME ChunkInv, WriteBack
  PROVE  ChunkInv'
BY DEF WriteBack, ChunkInv, ChunkTypes, AppendInv, AckedInv, Transcript

\* What storage has accepted is kept: a run on its way to the archive, a chunk on its
\* way from the table to the file, through failed steps and power cuts; a chunk is only
\* lost with the whole spill file, to a power cut before its directory entry is on the
\* disk.
THEOREM StorageKeeps == FilesSpec => []NothingStoredIsLost
<1> DEFINE Inv == ArchiveInv /\ ChunkInv
<1>1. FilesInit => Inv
  <2> SUFFICES ASSUME FilesInit PROVE Inv
    OBVIOUS
  <2>1. ArchiveInv
    <3>1. NoPass \in Passes /\ NoPass.pc = "idle"
      BY DEF NoPass, Passes
    <3> QED
      BY <3>1 DEF FilesInit, ArchiveInv, ArchiveTypes, PassInv, NoRunLost
  <2>2. Idle \in Appends /\ Idle.pc = "idle" /\ Idle.chunk.data = 0
    BY DEF Idle, NoChunk, Appends, Chunks
  <2>3. NoFile \in Spills /\ NoFile.synced = 0 /\ NoFile.lines = <<>>
    BY EmptySeq DEF NoFile, Spills
  <2>4. Transcript = <<>> /\ <<>> \in Seq(Chunks) /\ Len(<<>>) = 0
    BY EmptySeq DEF FilesInit, Transcript
  <2>5. \A w \in Writers : app[w] = Idle
    BY DEF FilesInit
  <2>6. ChunkTypes
    <3>1. app \in [Writers -> Appends] /\ \A w \in Writers : app[w].pc = "idle"
      BY <2>2 DEF FilesInit
    <3>2. file \in Spills /\ file.synced <= Len(file.lines)
      BY <2>3, <2>4 DEF FilesInit
    <3> QED
      BY <2>4, <3>1, <3>2 DEF FilesInit, ChunkTypes
  <2>7. \A w \in Writers : AppendInv(w)
    BY <2>2, <2>5 DEF FilesInit, AppendInv
  <2>8. Sorted(Transcript) /\ Below(Transcript, sent) /\ AckedInv
    BY <2>4 DEF FilesInit, Sorted, Below, AckedInv
  <2> QED
    BY <2>1, <2>6, <2>7, <2>8 DEF ChunkInv
<1>2. Inv /\ [FilesNext]_filesVars => Inv'
  <2> SUFFICES ASSUME Inv, [FilesNext]_filesVars PROVE Inv'
    OBVIOUS
  <2>1. ASSUME UNCHANGED archiveVars PROVE ArchiveInv'
    BY <2>1 DEF archiveVars, ArchiveInv, ArchiveTypes, PassInv, NoRunLost
  <2>2. ASSUME UNCHANGED chunkVars PROVE ChunkInv'
    BY <2>2 DEF chunkVars, ChunkInv, ChunkTypes, AppendInv, AckedInv, Transcript
  <2>3. CASE ArchiveStep
    BY <2>2, <2>3, PassMoves, PassEnds DEF ArchiveStep
  <2>4. CASE ChunkStep
    <3>1. WriteBack \/ \E w \in Writers :
            Begin(w) \/ Insert(w) \/ WriteSpill(w) \/ WriteLine(w) \/ SyncSpill(w)
            \/ CommitSpill(w) \/ AppendFails(w)
      BY <2>4 DEF ChunkStep
    <3>2. ChunkInv'
      BY <3>1, WriteBackKeeps, BeginKeeps, InsertKeeps, WriteSpillKeeps, WriteLineKeeps, SyncSpillKeeps,
         CommitSpillKeeps, AppendFailsKeeps
    <3> QED
      BY <2>1, <2>4, <3>2 DEF ChunkStep
  <2>5. CASE Crash
    BY <2>5, CrashArchive, CrashChunks
  <2>6. CASE UNCHANGED filesVars
    BY <2>1, <2>2, <2>6 DEF filesVars
  <2> QED
    BY <2>3, <2>4, <2>5, <2>6 DEF FilesNext
<1>3. Inv => NothingStoredIsLost
  <2> SUFFICES ASSUME Inv PROVE NothingStoredIsLost
    OBVIOUS
  <2>1. TranscriptInOrder
    BY DEF ChunkInv, Sorted, TranscriptInOrder
  <2>2. ASSUME NEW c \in acked \ taken PROVE \E i \in 1..Len(Transcript) : Transcript[i] = c
    <3>1. CASE spilled
      <4>1. PICK i \in 1..file.synced : file.lines[i] = c
        BY <3>1 DEF ChunkInv, AckedInv
      <4>2. i \in 1..Len(file.lines)
        BY ChunkFields
      <4> QED
        BY <3>1, <4>1, <4>2 DEF Transcript
    <3>2. CASE ~spilled
      BY <3>2 DEF ChunkInv, AckedInv, Transcript
    <3> QED
      BY <3>1, <3>2
  <2> QED
    BY <2>1, <2>2 DEF ArchiveInv, NothingStoredIsLost, AckedChunksKept
<1> QED
  BY <1>1, <1>2, <1>3, PTL DEF FilesSpec

-----------------------------------------------------------------------------
(* Install: ServiceInstall *)

Services == [file : {0, 1, 2}, task : BOOLEAN, enabled : BOOLEAN, active : BOOLEAN]
Outs == [svc : Services, ok : BOOLEAN, sure : BOOLEAN]
Words == {"install", "enable", "start", "stop", "disable", "uninstall"}

\* Only schtasks keeps a task.
TaskIsWindows(s) == mode # "windows-task" => ~s.task

ServiceTypes ==
  mode \in Modes /\ svc \in Services /\ rendering \in {1, 2} /\ TaskIsWindows(svc)

\* A verb of an install that returns Ok leaves s so.
Keeps(verb, s) ==
  /\ verb = "install" => s.file = rendering
  /\ verb = "enable" => s.file = svc.file /\ s.enabled
  /\ verb = "start" => s.file = svc.file /\ (svc.enabled => s.enabled)

\* A verb of an uninstall that returns Ok, its queries answered, leaves s so.
Undoes(verb, s) ==
  /\ verb = "disable" => ~s.enabled
  /\ verb = "stop" => ~s.active /\ (s.enabled => svc.enabled)
  /\ verb = "uninstall" => s.file = 0 /\ ~s.task /\ (s.enabled => svc.enabled) /\ (s.active => svc.active)

Delivers(verb, res) ==
  /\ res \in Outs /\ TaskIsWindows(res.svc)
  /\ res.ok => Keeps(verb, res.svc)
  /\ res.ok /\ res.sure => Undoes(verb, res.svc)

\* A verb that was refused promises nothing.
LEMMA RefusedDelivers ==
  ASSUME NEW verb, NEW s \in Services, TaskIsWindows(s)
  PROVE  Delivers(verb, Refused(s))
<1>1. Refused(s) \in Outs /\ Refused(s).svc = s /\ Refused(s).ok = FALSE
  BY DEF Refused, Outs
<1> QED
  BY <1>1 DEF Delivers

\* A verb that did its work.
LEMMA DidDelivers ==
  ASSUME NEW verb, NEW s \in Services, TaskIsWindows(s), Keeps(verb, s), Undoes(verb, s)
  PROVE  Delivers(verb, Did(s))
<1>1. Did(s) \in Outs /\ Did(s).svc = s
  BY DEF Did, Outs
<1> QED
  BY <1>1 DEF Delivers

\* A verb that did not know the state says so.
LEMMA BlindDelivers ==
  ASSUME ServiceTypes, NEW verb, verb \notin {"install", "enable"}, NEW there
  PROVE  \A res \in BlindIf(there) : Delivers(verb, res)
<1>1. Blind \in Outs /\ Blind.svc = svc /\ Blind.sure = FALSE
  BY DEF Blind, Outs, ServiceTypes
<1>2. Keeps(verb, svc)
  BY DEF Keeps
<1>3. Delivers(verb, Blind)
  BY <1>1, <1>2 DEF Delivers, ServiceTypes
<1> QED
  BY <1>3 DEF BlindIf

\* The service with another value in one of its fields.
LEMMA ServiceWith ==
  ASSUME NEW s \in Services, NEW x \in {0, 1, 2}, NEW b \in BOOLEAN
  PROVE  /\ [s EXCEPT !.file = x] \in Services /\ [s EXCEPT !.file = x].file = x
         /\ [s EXCEPT !.file = x].task = s.task /\ [s EXCEPT !.file = x].enabled = s.enabled
         /\ [s EXCEPT !.file = x].active = s.active
         /\ [s EXCEPT !.enabled = b] \in Services /\ [s EXCEPT !.enabled = b].file = s.file
         /\ [s EXCEPT !.enabled = b].task = s.task /\ [s EXCEPT !.enabled = b].enabled = b
         /\ [s EXCEPT !.enabled = b].active = s.active
         /\ [s EXCEPT !.active = b] \in Services /\ [s EXCEPT !.active = b].file = s.file
         /\ [s EXCEPT !.active = b].task = s.task /\ [s EXCEPT !.active = b].enabled = s.enabled
         /\ [s EXCEPT !.active = b].active = b
BY DEF Services

\* systemd.
LEMMA SystemdDelivers ==
  ASSUME ServiceTypes, mode = "systemd", NEW verb \in Words, NEW res \in Outcomes(verb)
  PROVE  Delivers(verb, res)
<1>0. /\ svc \in Services /\ rendering \in {0, 1, 2} /\ TaskIsWindows(svc)
      /\ svc.enabled \in BOOLEAN /\ svc.active \in BOOLEAN /\ svc.task \in BOOLEAN
  BY DEF ServiceTypes, Services
<1>r. Delivers(verb, Refused(svc))
  BY <1>0, RefusedDelivers
<1>1. CASE verb = "install"
  <2>1. res \in SystemdInstall
    BY <1>1 DEF Outcomes
  <2>2. PICK s : s = [svc EXCEPT !.file = rendering]
    OBVIOUS
  <2>3. /\ s \in Services /\ s.file = rendering /\ s.task = svc.task /\ s.enabled = svc.enabled /\ s.active = svc.active
    BY <1>0, <2>2 DEF Services
  <2>4. Delivers(verb, Did(s))
    BY <1>0, <1>1, <2>3, DidDelivers DEF Keeps, Undoes, TaskIsWindows
  <2> QED
    BY <1>r, <2>1, <2>2, <2>4 DEF SystemdInstall
<1>2. CASE verb = "enable"
  <2>1. res \in SystemdEnable
    BY <1>2 DEF Outcomes
  <2>2. PICK s : s = [svc EXCEPT !.enabled = TRUE]
    OBVIOUS
  <2>3. /\ s \in Services /\ s.enabled = TRUE /\ s.file = svc.file /\ s.task = svc.task /\ s.active = svc.active
    BY <1>0, <2>2, ServiceWith
  <2>4. Delivers(verb, Did(s))
    BY <1>0, <1>2, <2>3, DidDelivers DEF Keeps, Undoes, TaskIsWindows
  <2> QED
    BY <1>r, <2>1, <2>2, <2>4 DEF SystemdEnable
<1>3. CASE verb = "start"
  <2>1. res \in SystemdStart
    BY <1>3 DEF Outcomes
  <2>2. PICK s : s = [svc EXCEPT !.active = TRUE]
    OBVIOUS
  <2>3. /\ s \in Services /\ s.active = TRUE /\ s.file = svc.file /\ s.task = svc.task /\ s.enabled = svc.enabled
    BY <1>0, <2>2, ServiceWith
  <2>4. Delivers(verb, Did(s))
    BY <1>0, <1>3, <2>3, DidDelivers DEF Keeps, Undoes, TaskIsWindows
  <2> QED
    BY <1>r, <2>1, <2>2, <2>4 DEF SystemdStart
<1>4. CASE verb = "stop"
  <2>1. res \in SystemdStop
    BY <1>4 DEF Outcomes
  <2>2. PICK s : s = [svc EXCEPT !.active = FALSE]
    OBVIOUS
  <2>3. /\ s \in Services /\ s.active = FALSE /\ s.file = svc.file /\ s.task = svc.task /\ s.enabled = svc.enabled
    BY <1>0, <2>2, ServiceWith
  <2>4. Delivers(verb, Did(s))
    BY <1>0, <1>4, <2>3, DidDelivers DEF Keeps, Undoes, TaskIsWindows
  <2>5. \A there : \A b \in BlindIf(there) : Delivers(verb, b)
    BY <1>4, BlindDelivers
  <2> QED
    BY <1>r, <2>1, <2>2, <2>4, <2>5 DEF SystemdStop
<1>5. CASE verb = "disable"
  <2>1. res \in SystemdDisable
    BY <1>5 DEF Outcomes
  <2>2. PICK s : s = [svc EXCEPT !.enabled = FALSE]
    OBVIOUS
  <2>3. /\ s \in Services /\ s.enabled = FALSE /\ s.file = svc.file /\ s.task = svc.task /\ s.active = svc.active
    BY <1>0, <2>2, ServiceWith
  <2>4. Delivers(verb, Did(s))
    BY <1>0, <1>5, <2>3, DidDelivers DEF Keeps, Undoes, TaskIsWindows
  <2>5. \A there : \A b \in BlindIf(there) : Delivers(verb, b)
    BY <1>5, BlindDelivers
  <2> QED
    BY <1>r, <2>1, <2>2, <2>4, <2>5 DEF SystemdDisable
<1>6. CASE verb = "uninstall"
  <2>1. res \in SystemdUninstall
    BY <1>6 DEF Outcomes
  <2>2. PICK s : s = [svc EXCEPT !.file = 0]
    OBVIOUS
  <2>3. /\ s \in Services /\ s.file = 0 /\ s.task = svc.task /\ s.enabled = svc.enabled /\ s.active = svc.active
    BY <1>0, <2>2 DEF Services
  <2>4. Delivers(verb, Did(s))
    BY <1>0, <1>6, <2>3, DidDelivers DEF Keeps, Undoes, TaskIsWindows
  <2> QED
    BY <1>r, <2>1, <2>2, <2>4 DEF SystemdUninstall
<1> QED
  BY <1>1, <1>2, <1>3, <1>4, <1>5, <1>6 DEF Words

\* launchd.
LEMMA LaunchdDelivers ==
  ASSUME ServiceTypes, mode = "launchd", NEW verb \in Words, NEW res \in Outcomes(verb)
  PROVE  Delivers(verb, res)
<1>0. /\ svc \in Services /\ rendering \in {0, 1, 2} /\ TaskIsWindows(svc)
      /\ svc.enabled \in BOOLEAN /\ svc.active \in BOOLEAN /\ svc.task \in BOOLEAN
  BY DEF ServiceTypes, Services
<1>r. Delivers(verb, Refused(svc))
  BY <1>0, RefusedDelivers
<1>1. CASE verb = "install"
  <2>1. res \in LaunchdInstall
    BY <1>1 DEF Outcomes
  <2>2. PICK s : s = [svc EXCEPT !.file = rendering]
    OBVIOUS
  <2>3. /\ s \in Services /\ s.file = rendering /\ s.task = svc.task /\ s.enabled = svc.enabled /\ s.active = svc.active
    BY <1>0, <2>2 DEF Services
  <2>4. Delivers(verb, Did(s))
    BY <1>0, <1>1, <2>3, DidDelivers DEF Keeps, Undoes, TaskIsWindows
  <2> QED
    BY <1>r, <2>1, <2>2, <2>4 DEF LaunchdInstall
<1>2. CASE verb = "enable"
  <2>1. res \in LaunchdEnable
    BY <1>2 DEF Outcomes
  <2>2. ASSUME svc.enabled PROVE Delivers(verb, Did(svc))
    BY <1>0, <1>2, <2>2, DidDelivers DEF Keeps, Undoes
  <2>3. ASSUME NEW a \in BOOLEAN PROVE Delivers(verb, Did([svc EXCEPT !.enabled = TRUE, !.active = a]))
    <3>1. PICK s : s = [svc EXCEPT !.enabled = TRUE, !.active = a]
      OBVIOUS
    <3>2. s \in Services /\ s.file = svc.file /\ s.task = svc.task /\ s.enabled = TRUE
      BY <1>0, <3>1 DEF Services
    <3> QED
      BY <1>0, <1>2, <3>1, <3>2, DidDelivers DEF Keeps, Undoes, TaskIsWindows
  <2>4. CASE res = Refused(svc)
    BY <1>r, <2>4
  <2>5. CASE svc.enabled /\ res = Did(svc)
    BY <2>2, <2>5
  <2>6. CASE \E a \in {svc.active, TRUE} : res = Did([svc EXCEPT !.enabled = TRUE, !.active = a])
    BY <1>0, <2>3, <2>6
  <2> QED
    BY <2>1, <2>4, <2>5, <2>6 DEF LaunchdEnable
<1>3. CASE verb = "start"
  <2>1. res \in LaunchdStart
    BY <1>3 DEF Outcomes
  <2>2. PICK loaded \in BOOLEAN : loaded = (svc.enabled \/ svc.file # 0)
    OBVIOUS
  <2>3. PICK booted : booted = [svc EXCEPT !.enabled = loaded]
    OBVIOUS
  <2>4. /\ booted \in Services /\ booted.file = svc.file /\ booted.task = svc.task
        /\ booted.enabled = loaded /\ booted.active = svc.active
    BY <1>0, <2>3 DEF Services
  <2>5. PICK s : s = [booted EXCEPT !.active = TRUE]
    OBVIOUS
  <2>6. s \in Services /\ s.file = svc.file /\ s.task = svc.task /\ s.enabled = loaded
    BY <2>4, <2>5 DEF Services
  <2>7. Delivers(verb, Refused(booted))
    BY <1>0, <2>4, RefusedDelivers DEF TaskIsWindows
  <2>8. Delivers(verb, Did(s))
    BY <1>0, <1>3, <2>2, <2>6, DidDelivers DEF Keeps, Undoes, TaskIsWindows
  <2>9. res = Refused(svc) \/ res = Refused(booted) \/ res = Did(s)
    BY <2>1, <2>2, <2>3, <2>5 DEF LaunchdStart
  <2> QED
    BY <1>r, <2>7, <2>8, <2>9
<1>4. CASE verb = "stop"
  <2>1. res \in LaunchdStop
    BY <1>4 DEF Outcomes
  <2>2. PICK s : s = [svc EXCEPT !.active = FALSE]
    OBVIOUS
  <2>3. /\ s \in Services /\ s.active = FALSE /\ s.file = svc.file /\ s.task = svc.task /\ s.enabled = svc.enabled
    BY <1>0, <2>2, ServiceWith
  <2>4. Delivers(verb, Did(s))
    BY <1>0, <1>4, <2>3, DidDelivers DEF Keeps, Undoes, TaskIsWindows
  <2> QED
    BY <1>r, <2>1, <2>2, <2>4 DEF LaunchdStop
<1>5. CASE verb = "disable"
  <2>1. res \in LaunchdDisable
    BY <1>5 DEF Outcomes
  <2>2. PICK s : s = [svc EXCEPT !.enabled = FALSE, !.active = FALSE]
    OBVIOUS
  <2>3. s \in Services /\ s.task = svc.task /\ s.enabled = FALSE
    BY <1>0, <2>2 DEF Services
  <2>4. Delivers(verb, Did(s))
    BY <1>0, <1>5, <2>3, DidDelivers DEF Keeps, Undoes, TaskIsWindows
  <2>5. ASSUME ~svc.enabled PROVE Delivers(verb, Did(svc))
    BY <1>0, <1>5, <2>5, DidDelivers DEF Keeps, Undoes
  <2>6. \A there : \A b \in BlindIf(there) : Delivers(verb, b)
    BY <1>5, BlindDelivers
  <2> QED
    BY <1>r, <2>1, <2>2, <2>4, <2>5, <2>6 DEF LaunchdDisable
<1>6. CASE verb = "uninstall"
  <2>1. res \in LaunchdUninstall
    BY <1>6 DEF Outcomes
  <2>2. PICK s : s = [svc EXCEPT !.file = 0]
    OBVIOUS
  <2>3. /\ s \in Services /\ s.file = 0 /\ s.task = svc.task /\ s.enabled = svc.enabled /\ s.active = svc.active
    BY <1>0, <2>2 DEF Services
  <2>4. Delivers(verb, Did(s))
    BY <1>0, <1>6, <2>3, DidDelivers DEF Keeps, Undoes, TaskIsWindows
  <2> QED
    BY <1>r, <2>1, <2>2, <2>4 DEF LaunchdUninstall
<1> QED
  BY <1>1, <1>2, <1>3, <1>4, <1>5, <1>6 DEF Words

\* Windows task.
LEMMA TaskDelivers ==
  ASSUME ServiceTypes, mode = "windows-task", NEW verb \in Words, NEW res \in Outcomes(verb)
  PROVE  Delivers(verb, res)
<1>0. /\ svc \in Services /\ rendering \in {0, 1, 2} /\ TaskIsWindows(svc)
      /\ svc.enabled \in BOOLEAN /\ svc.active \in BOOLEAN /\ svc.task \in BOOLEAN
  BY DEF ServiceTypes, Services
<1>r. Delivers(verb, Refused(svc))
  BY <1>0, RefusedDelivers
<1>1. CASE verb = "install"
  <2>1. res \in TaskInstall
    BY <1>1 DEF Outcomes
  <2>2. PICK written : written = [svc EXCEPT !.file = rendering]
    OBVIOUS
  <2>3. written \in Services /\ written.file = rendering
    BY <1>0, <2>2 DEF Services
  <2>4. PICK s : s = [written EXCEPT !.task = TRUE, !.enabled = FALSE]
    OBVIOUS
  <2>5. s \in Services /\ s.file = rendering
    BY <2>3, <2>4 DEF Services
  <2>6. Delivers(verb, Refused(written))
    BY <2>3, RefusedDelivers DEF TaskIsWindows
  <2>7. Delivers(verb, Did(s))
    BY <1>1, <2>5, DidDelivers DEF Keeps, Undoes, TaskIsWindows
  <2>8. res = Refused(svc) \/ res = Refused(written) \/ res = Did(s)
    BY <2>1, <2>2, <2>4 DEF TaskInstall
  <2> QED
    BY <1>r, <2>6, <2>7, <2>8
<1>2. CASE verb = "enable"
  <2>1. res \in TaskEnable
    BY <1>2 DEF Outcomes
  <2>2. PICK s : s = [svc EXCEPT !.enabled = TRUE]
    OBVIOUS
  <2>3. /\ s \in Services /\ s.enabled = TRUE /\ s.file = svc.file /\ s.task = svc.task /\ s.active = svc.active
    BY <1>0, <2>2, ServiceWith
  <2>4. Delivers(verb, Did(s))
    BY <1>0, <1>2, <2>3, DidDelivers DEF Keeps, Undoes, TaskIsWindows
  <2> QED
    BY <1>r, <2>1, <2>2, <2>4 DEF TaskEnable
<1>3. CASE verb = "start"
  <2>1. res \in TaskStart
    BY <1>3 DEF Outcomes
  <2>2. PICK s : s = [svc EXCEPT !.active = TRUE]
    OBVIOUS
  <2>3. s \in Services /\ s.file = svc.file /\ s.enabled = svc.enabled
    BY <1>0, <2>2 DEF Services
  <2>4. Delivers(verb, Did(s))
    BY <1>3, <2>3, DidDelivers DEF Keeps, Undoes, TaskIsWindows
  <2>5. Delivers(verb, Did(svc))
    BY <1>0, <1>3, DidDelivers DEF Keeps, Undoes
  <2>6. \A there : \A b \in BlindIf(there) : Delivers(verb, b)
    BY <1>3, BlindDelivers
  <2> QED
    BY <1>r, <2>1, <2>2, <2>4, <2>5, <2>6 DEF TaskStart
<1>4. CASE verb = "stop"
  <2>1. res \in TaskStop
    BY <1>4 DEF Outcomes
  <2>2. PICK s : s = [svc EXCEPT !.active = FALSE]
    OBVIOUS
  <2>3. /\ s \in Services /\ s.active = FALSE /\ s.file = svc.file /\ s.task = svc.task /\ s.enabled = svc.enabled
    BY <1>0, <2>2, ServiceWith
  <2>4. Delivers(verb, Did(s))
    BY <1>0, <1>4, <2>3, DidDelivers DEF Keeps, Undoes, TaskIsWindows
  <2>5. \A there : \A b \in BlindIf(there) : Delivers(verb, b)
    BY <1>4, BlindDelivers
  <2> QED
    BY <1>r, <2>1, <2>2, <2>4, <2>5 DEF TaskStop
<1>5. CASE verb = "disable"
  <2>1. res \in TaskDisable
    BY <1>5 DEF Outcomes
  <2>2. PICK s : s = [svc EXCEPT !.enabled = FALSE]
    OBVIOUS
  <2>3. /\ s \in Services /\ s.enabled = FALSE /\ s.file = svc.file /\ s.task = svc.task /\ s.active = svc.active
    BY <1>0, <2>2, ServiceWith
  <2>4. Delivers(verb, Did(s))
    BY <1>0, <1>5, <2>3, DidDelivers DEF Keeps, Undoes, TaskIsWindows
  <2>5. \A there : \A b \in BlindIf(there) : Delivers(verb, b)
    BY <1>5, BlindDelivers
  <2> QED
    BY <1>r, <2>1, <2>2, <2>4, <2>5 DEF TaskDisable
<1>6. CASE verb = "uninstall"
  <2>1. res \in TaskUninstall
    BY <1>6 DEF Outcomes
  <2>2. PICK deleted : deleted = [svc EXCEPT !.task = FALSE, !.enabled = FALSE]
    OBVIOUS
  <2>3. /\ deleted \in Services /\ deleted.task = FALSE /\ deleted.enabled = FALSE
        /\ deleted.active = svc.active
    BY <1>0, <2>2 DEF Services
  <2>4. PICK s : s = [deleted EXCEPT !.file = 0]
    OBVIOUS
  <2>5. s \in Services /\ s.file = 0 /\ s.task = FALSE /\ s.enabled = FALSE /\ s.active = svc.active
    BY <2>3, <2>4 DEF Services
  <2>6. Delivers(verb, Refused(deleted))
    BY <2>3, RefusedDelivers DEF TaskIsWindows
  <2>7. Delivers(verb, Did(s))
    BY <1>6, <2>5, DidDelivers DEF Keeps, Undoes, TaskIsWindows
  <2>8. PICK t : t = [svc EXCEPT !.file = 0]
    OBVIOUS
  <2>9. t \in Services
    BY <1>0, <2>8 DEF Services
  <2>10. PICK unsure : unsure = [Blind EXCEPT !.svc = t]
    OBVIOUS
  <2>11. unsure \in Outs /\ unsure.sure = FALSE
    BY <1>0, <2>9, <2>10 DEF Blind, Outs
  <2>12. Delivers(verb, unsure)
    BY <1>6, <2>11 DEF Delivers, Keeps, TaskIsWindows
  <2>13. res = Refused(svc) \/ res = Refused(deleted) \/ res = Did(s) \/ res = unsure
    BY <2>1, <2>2, <2>4, <2>8, <2>10 DEF TaskUninstall
  <2> QED
    BY <1>r, <2>6, <2>7, <2>12, <2>13
<1> QED
  BY <1>1, <1>2, <1>3, <1>4, <1>5, <1>6 DEF Words

Commands == [name : {"none", "install", "install --enable", "uninstall"}, left : Seq(Words), dry : BOOLEAN,
             state : {"idle", "running", "ok", "error"}, sure : BOOLEAN]

\* How far an uninstall has come.
UninstallInv ==
  cmd.name = "uninstall" /\ cmd.state = "running" =>
    \/ cmd.left = UninstallVerbs
    \/ /\ cmd.left = <<"stop", "uninstall">>
       /\ cmd.sure /\ ~cmd.dry => ~svc.enabled
    \/ /\ cmd.left = <<"uninstall">>
       /\ cmd.sure /\ ~cmd.dry => ~svc.enabled /\ ~svc.active

\* How far an install has come.
InstallInv ==
  cmd.name \in {"install", "install --enable"} /\ cmd.state = "running" =>
    \/ \E start \in BOOLEAN : cmd.left = InstallVerbs(cmd.name = "install --enable", start)
    \/ /\ cmd.name = "install --enable"
       /\ cmd.left \in {<<"enable">>, <<"enable", "start">>}
       /\ ~cmd.dry => svc.file = rendering
    \/ /\ cmd.left = <<"start">>
       /\ ~cmd.dry => svc.file = rendering /\ (cmd.name = "install --enable" => svc.enabled)

\* Without a command nothing runs.
IdleInv == cmd.name = "none" => cmd.state = "idle"

CommandInv ==
  ServiceTypes /\ cmd \in Commands /\ IdleInv /\ UninstallInv /\ InstallInv /\ CommandsKeepTheirWord

\* The command lines, verb by verb.
LEMMA CommandLines ==
  /\ \A u \in Words : /\ <<u>> \in Seq(Words) /\ Head(<<u>>) = u /\ Len(<<u>>) = 1
  /\ \A u, v \in Words : /\ <<u, v>> \in Seq(Words) /\ Head(<<u, v>>) = u /\ Tail(<<u, v>>) = <<v>>
                         /\ Len(<<u, v>>) = 2
  /\ \A u, v, w \in Words : /\ <<u, v, w>> \in Seq(Words) /\ Head(<<u, v, w>>) = u
                            /\ Tail(<<u, v, w>>) = <<v, w>> /\ Len(<<u, v, w>>) = 3
OBVIOUS

\* A line of one verb.
LEMMA OneVerb ==
  ASSUME NEW l, NEW u \in Words, l = <<u>>
  PROVE  l # <<>> /\ Head(l) = u /\ Len(l) = 1 /\ Tail(l) \in Seq(Words)
<1>1. l \in Seq(Words) /\ l # <<>> /\ Head(l) = u /\ Len(l) = 1
  OBVIOUS
<1> QED
  BY <1>1, HeadTailProperties

\* A line of two.
LEMMA TwoVerbs ==
  ASSUME NEW l, NEW u \in Words, NEW v \in Words, l = <<u, v>>
  PROVE  l # <<>> /\ Head(l) = u /\ Len(l) # 1 /\ Tail(l) = <<v>> /\ Tail(l) \in Seq(Words)
OBVIOUS

\* A line of three.
LEMMA ThreeVerbs ==
  ASSUME NEW l, NEW u \in Words, NEW v \in Words, NEW w \in Words, l = <<u, v, w>>
  PROVE  l # <<>> /\ Head(l) = u /\ Len(l) # 1 /\ Tail(l) = <<v, w>> /\ Tail(l) \in Seq(Words)
OBVIOUS

\* The install lines.
LEMMA InstallLines ==
  /\ InstallVerbs(FALSE, FALSE) = <<"install">>
  /\ InstallVerbs(FALSE, TRUE) = <<"install", "start">>
  /\ InstallVerbs(TRUE, FALSE) = <<"install", "enable">>
  /\ InstallVerbs(TRUE, TRUE) = <<"install", "enable", "start">>
<1>1. ASSUME NEW s \in Seq(Words) PROVE s \o <<>> = s
  BY <1>1, ConcatEmptySeq
<1>2. ASSUME NEW u \in Words, NEW v \in Words PROVE <<u>> \o <<v>> = <<u, v>>
  <2>1. <<u>> \in Seq(Words) /\ Len(<<u>>) = 1 /\ <<u>>[1] = u
    BY <1>2, CommandLines
  <2>2. <<u, v>> \in Seq(Words) /\ Len(<<u, v>>) = 2 /\ <<u, v>>[1] = u /\ <<u, v>>[2] = v
    BY <1>2, CommandLines
  <2>3. PICK a : a = Append(<<u>>, v)
    OBVIOUS
  <2>4. a \in Seq(Words) /\ Len(a) = 2 /\ a[1] = u /\ a[2] = v
    BY <1>2, <2>1, <2>3, AppendProperties
  <2>5. \A i \in 1..2 : a[i] = <<u, v>>[i]
    BY <2>2, <2>4
  <2>6. a = <<u, v>>
    BY <2>2, <2>4, <2>5, SeqEqual
  <2> QED
    BY <1>2, <2>1, <2>3, <2>6, AppendIsConcat
<1>3. ASSUME NEW u \in Words, NEW v \in Words, NEW w \in Words PROVE <<u, v>> \o <<w>> = <<u, v, w>>
  <2>1. <<u, v>> \in Seq(Words) /\ Len(<<u, v>>) = 2 /\ <<u, v>>[1] = u /\ <<u, v>>[2] = v
    BY <1>3, CommandLines
  <2>2. /\ <<u, v, w>> \in Seq(Words) /\ Len(<<u, v, w>>) = 3
        /\ <<u, v, w>>[1] = u /\ <<u, v, w>>[2] = v /\ <<u, v, w>>[3] = w
    BY <1>3, CommandLines
  <2>3. PICK a : a = Append(<<u, v>>, w)
    OBVIOUS
  <2>4. a \in Seq(Words) /\ Len(a) = 3 /\ a[1] = u /\ a[2] = v /\ a[3] = w
    BY <1>3, <2>1, <2>3, AppendProperties
  <2>5. \A i \in 1..3 : a[i] = <<u, v, w>>[i]
    BY <2>2, <2>4
  <2>6. a = <<u, v, w>>
    BY <2>2, <2>4, <2>5, SeqEqual
  <2> QED
    BY <1>3, <2>1, <2>3, <2>6, AppendIsConcat
<1>4. "install" \in Words /\ "enable" \in Words /\ "start" \in Words
  BY DEF Words
<1>5. <<"install">> \in Seq(Words) /\ <<"install", "enable">> \in Seq(Words)
  BY <1>4, CommandLines
<1>6. InstallVerbs(FALSE, FALSE) = <<"install">>
  BY <1>1, <1>5 DEF InstallVerbs
<1>7. InstallVerbs(FALSE, TRUE) = <<"install", "start">>
  BY <1>1, <1>2, <1>4, <1>5 DEF InstallVerbs
<1>8. InstallVerbs(TRUE, FALSE) = <<"install", "enable">>
  BY <1>1, <1>2, <1>4, <1>5 DEF InstallVerbs
<1>9. InstallVerbs(TRUE, TRUE) = <<"install", "enable", "start">>
  BY <1>2, <1>3, <1>4, <1>5 DEF InstallVerbs
<1> QED
  BY <1>6, <1>7, <1>8, <1>9

\* What a verb leaves, a dry run included.
LEMMA VerbDelivers ==
  ASSUME CommandInv, cmd.left # <<>>, NEW h \in Words, h = Head(cmd.left),
         NEW res \in (IF cmd.dry THEN {Did(svc)} ELSE Outcomes(Head(cmd.left)))
  PROVE  res \in Outs /\ TaskIsWindows(res.svc) /\ (~cmd.dry => Delivers(h, res))
<1>1. CASE cmd.dry
  <2>1. Did(svc) \in Outs /\ Did(svc).svc = svc
    BY DEF CommandInv, ServiceTypes, Did, Outs
  <2> QED
    BY <1>1, <2>1 DEF CommandInv, ServiceTypes
<1>2. CASE ~cmd.dry
  <2>1. res \in Outcomes(h)
    BY <1>2
  <2>2. Delivers(h, res)
    BY <2>1, SystemdDelivers, LaunchdDelivers, TaskDelivers DEF CommandInv, ServiceTypes, Modes
  <2> QED
    BY <1>2, <2>2 DEF Delivers
<1> QED
  BY <1>1, <1>2

\* The next verb of an uninstall.
LEMMA UninstallVerb ==
  ASSUME CommandInv, Verb, cmd.name = "uninstall"
  PROVE  CommandInv'
<1>0. /\ cmd.state = "running" /\ cmd \in Commands /\ UNCHANGED <<mode, rendering>>
      /\ cmd.dry \in BOOLEAN /\ cmd.sure \in BOOLEAN /\ mode \in Modes /\ rendering \in {1, 2}
  BY DEF Verb, CommandInv, Commands, ServiceTypes
<1>1. PICK res \in (IF cmd.dry THEN {Did(svc)} ELSE Outcomes(Head(cmd.left))) :
        /\ svc' = res.svc
        /\ cmd' = [cmd EXCEPT !.left = Tail(@), !.sure = @ /\ res.sure,
                              !.state = IF ~res.ok THEN "error"
                                        ELSE IF Len(cmd.left) = 1 THEN "ok" ELSE "running"]
  BY DEF Verb
<1>2. ASSUME NEW h \in Words, h = Head(cmd.left), cmd.left # <<>>, Tail(cmd.left) \in Seq(Words)
      PROVE  /\ ServiceTypes' /\ cmd' \in Commands /\ cmd'.name = "uninstall"
             /\ cmd'.left = Tail(cmd.left) /\ cmd'.dry = cmd.dry /\ cmd'.sure = (cmd.sure /\ res.sure)
             /\ cmd'.state = IF ~res.ok THEN "error" ELSE IF Len(cmd.left) = 1 THEN "ok" ELSE "running"
             /\ ~cmd.dry /\ res.ok /\ res.sure => Undoes(h, svc')
  <2>1. res \in Outs /\ TaskIsWindows(res.svc) /\ (~cmd.dry => Delivers(h, res))
    BY <1>2, VerbDelivers
  <2>2. res.svc \in Services /\ res.ok \in BOOLEAN /\ res.sure \in BOOLEAN
    BY <2>1 DEF Outs
  <2>3. ServiceTypes'
    BY <1>0, <1>1, <2>1, <2>2 DEF ServiceTypes, TaskIsWindows
  <2>4. /\ cmd' \in Commands /\ cmd'.name = "uninstall"
        /\ cmd'.left = Tail(cmd.left) /\ cmd'.dry = cmd.dry /\ cmd'.sure = (cmd.sure /\ res.sure)
        /\ cmd'.state = IF ~res.ok THEN "error" ELSE IF Len(cmd.left) = 1 THEN "ok" ELSE "running"
    BY <1>0, <1>1, <1>2, <2>2 DEF Commands
  <2> QED
    BY <1>1, <2>1, <2>3, <2>4 DEF Delivers
<1>w. "disable" \in Words /\ "stop" \in Words /\ "uninstall" \in Words
  BY DEF Words
<1>3. CASE cmd.left = UninstallVerbs
  <2>1. /\ Head(cmd.left) = "disable" /\ Tail(cmd.left) = <<"stop", "uninstall">> /\ Len(cmd.left) # 1
        /\ cmd.left # <<>> /\ Tail(cmd.left) \in Seq(Words)
    BY <1>3, <1>w, ThreeVerbs DEF UninstallVerbs
  <2>3. cmd'.state # "ok" /\ (~cmd.dry /\ res.ok /\ res.sure => ~svc'.enabled)
    BY <1>2, <1>w, <2>1 DEF Undoes
  <2> QED
    BY <1>2, <1>w, <2>1, <2>3
    DEF CommandInv, IdleInv, UninstallInv, InstallInv, CommandsKeepTheirWord, UninstallComplete, InstallDelivers
<1>4. CASE cmd.left = <<"stop", "uninstall">> /\ (cmd.sure /\ ~cmd.dry => ~svc.enabled)
  <2>1. /\ Head(cmd.left) = "stop" /\ Tail(cmd.left) = <<"uninstall">> /\ Len(cmd.left) # 1
        /\ cmd.left # <<>> /\ Tail(cmd.left) \in Seq(Words)
    BY <1>4, <1>w, TwoVerbs
  <2>3. cmd'.state # "ok" /\ (~cmd.dry /\ res.ok /\ res.sure => ~svc'.active /\ (svc'.enabled => svc.enabled))
    BY <1>2, <1>w, <2>1 DEF Undoes
  <2> QED
    BY <1>2, <1>4, <1>w, <2>1, <2>3
    DEF CommandInv, IdleInv, UninstallInv, InstallInv, CommandsKeepTheirWord, UninstallComplete, InstallDelivers
<1>5. CASE cmd.left = <<"uninstall">> /\ (cmd.sure /\ ~cmd.dry => ~svc.enabled /\ ~svc.active)
  <2>1. /\ Head(cmd.left) = "uninstall" /\ Len(cmd.left) = 1
        /\ cmd.left # <<>> /\ Tail(cmd.left) \in Seq(Words)
    BY <1>5, <1>w, OneVerb
  <2>2. /\ cmd'.state # "running" /\ (cmd'.state = "ok" => res.ok)
        /\ ~cmd.dry /\ res.ok /\ res.sure =>
             svc'.file = 0 /\ ~svc'.task /\ (svc'.enabled => svc.enabled) /\ (svc'.active => svc.active)
    BY <1>2, <1>w, <2>1 DEF Undoes
  <2>3. UninstallComplete'
    <3> SUFFICES ASSUME cmd'.state = "ok", cmd'.sure, ~cmd'.dry
                 PROVE  svc' = [file |-> 0, task |-> FALSE, enabled |-> FALSE, active |-> FALSE]
      BY DEF UninstallComplete
    <3>1. svc'.file = 0 /\ ~svc'.task /\ ~svc'.enabled /\ ~svc'.active
      BY <1>2, <1>5, <1>w, <2>1, <2>2
    <3>2. svc' \in Services
      BY <1>2, <1>w, <2>1 DEF ServiceTypes
    <3> QED
      BY <3>1, <3>2 DEF Services
  <2> QED
    BY <1>2, <1>w, <2>1, <2>2, <2>3 DEF CommandInv, IdleInv, UninstallInv, InstallInv, CommandsKeepTheirWord, InstallDelivers
<1> QED
  BY <1>0, <1>3, <1>4, <1>5 DEF CommandInv, UninstallInv

\* The next verb of an install.
LEMMA InstallVerb ==
  ASSUME CommandInv, Verb, cmd.name \in {"install", "install --enable"}
  PROVE  CommandInv'
<1>0. /\ cmd.state = "running" /\ cmd \in Commands /\ UNCHANGED <<mode, rendering>>
      /\ cmd.dry \in BOOLEAN /\ cmd.sure \in BOOLEAN /\ mode \in Modes /\ rendering \in {1, 2}
  BY DEF Verb, CommandInv, Commands, ServiceTypes
<1>1. PICK res \in (IF cmd.dry THEN {Did(svc)} ELSE Outcomes(Head(cmd.left))) :
        /\ svc' = res.svc
        /\ cmd' = [cmd EXCEPT !.left = Tail(@), !.sure = @ /\ res.sure,
                              !.state = IF ~res.ok THEN "error"
                                        ELSE IF Len(cmd.left) = 1 THEN "ok" ELSE "running"]
  BY DEF Verb
<1>2. ASSUME NEW h \in Words, h = Head(cmd.left), cmd.left # <<>>, Tail(cmd.left) \in Seq(Words)
      PROVE  /\ ServiceTypes' /\ cmd' \in Commands /\ cmd'.name = cmd.name
             /\ cmd'.left = Tail(cmd.left) /\ cmd'.dry = cmd.dry /\ res.ok \in BOOLEAN
             /\ cmd'.state = IF ~res.ok THEN "error" ELSE IF Len(cmd.left) = 1 THEN "ok" ELSE "running"
             /\ ~cmd.dry /\ res.ok => Keeps(h, svc')
  <2>1. res \in Outs /\ TaskIsWindows(res.svc) /\ (~cmd.dry => Delivers(h, res))
    BY <1>2, VerbDelivers
  <2>2. res.svc \in Services /\ res.ok \in BOOLEAN /\ res.sure \in BOOLEAN
    BY <2>1 DEF Outs
  <2>3. ServiceTypes'
    BY <1>0, <1>1, <2>1, <2>2 DEF ServiceTypes, TaskIsWindows
  <2>4. /\ cmd' \in Commands /\ cmd'.name = cmd.name
        /\ cmd'.left = Tail(cmd.left) /\ cmd'.dry = cmd.dry
        /\ cmd'.state = IF ~res.ok THEN "error" ELSE IF Len(cmd.left) = 1 THEN "ok" ELSE "running"
    BY <1>0, <1>1, <1>2, <2>2 DEF Commands
  <2> QED
    BY <1>1, <2>1, <2>2, <2>3, <2>4 DEF Delivers
<1>w. "install" \in Words /\ "enable" \in Words /\ "start" \in Words
  BY DEF Words
<1>3. CASE cmd.left = <<"install">> /\ cmd.name = "install"
  <2>1. Head(cmd.left) = "install" /\ Tail(cmd.left) \in Seq(Words) /\ Len(cmd.left) = 1 /\ cmd.left # <<>>
    BY <1>3, <1>w, OneVerb
  <2>3. cmd'.state # "running" /\ (cmd'.state = "ok" /\ ~cmd.dry => svc'.file = rendering)
    <3>1. ~cmd.dry /\ res.ok => Keeps(Head(cmd.left), svc')
      BY <1>2, <1>w, <2>1
    <3>2. cmd'.state = IF ~res.ok THEN "error" ELSE IF Len(cmd.left) = 1 THEN "ok" ELSE "running"
      BY <1>2, <1>w, <2>1
    <3>3. Head(cmd.left) = "install" /\ Len(cmd.left) = 1
      BY <2>1
    <3> QED
      BY <3>1, <3>2, <3>3 DEF Keeps
  <2> QED
    BY <1>0, <1>2, <1>3, <1>w, <2>1, <2>3
    DEF CommandInv, IdleInv, UninstallInv, InstallInv, CommandsKeepTheirWord, UninstallComplete, InstallDelivers
<1>4. CASE cmd.left = <<"install", "start">> /\ cmd.name = "install"
  <2>1. /\ Head(cmd.left) = "install" /\ Tail(cmd.left) = <<"start">> /\ Len(cmd.left) # 1
        /\ cmd.left # <<>> /\ Tail(cmd.left) \in Seq(Words)
    BY <1>4, <1>w, TwoVerbs
  <2>3. cmd'.state # "ok" /\ (cmd'.state = "running" /\ ~cmd.dry => svc'.file = rendering)
    <3>1. ~cmd.dry /\ res.ok => Keeps(Head(cmd.left), svc')
      BY <1>2, <1>w, <2>1
    <3>2. cmd'.state = IF ~res.ok THEN "error" ELSE IF Len(cmd.left) = 1 THEN "ok" ELSE "running"
      BY <1>2, <1>w, <2>1
    <3>3. Head(cmd.left) = "install" /\ Len(cmd.left) # 1
      BY <2>1
    <3>4. cmd'.state = IF ~res.ok THEN "error" ELSE "running"
      BY <3>2, <3>3
    <3>5. cmd'.state # "ok" /\ (cmd'.state = "running" => res.ok)
      BY <3>4
    <3> QED
      BY <3>1, <3>3, <3>5 DEF Keeps
  <2> QED
    BY <1>0, <1>2, <1>4, <1>w, <2>1, <2>3
    DEF CommandInv, IdleInv, UninstallInv, InstallInv, CommandsKeepTheirWord, UninstallComplete, InstallDelivers
<1>5. CASE cmd.left \in {<<"install", "enable">>, <<"install", "enable", "start">>} /\ cmd.name = "install --enable"
  <2>1. /\ Head(cmd.left) = "install" /\ Len(cmd.left) # 1 /\ cmd.left # <<>>
        /\ Tail(cmd.left) \in {<<"enable">>, <<"enable", "start">>} /\ Tail(cmd.left) \in Seq(Words)
    <3>1. CASE cmd.left = <<"install", "enable">>
      BY <1>w, <3>1, TwoVerbs
    <3>2. CASE cmd.left = <<"install", "enable", "start">>
      <4>1. PICK u \in Words, v \in Words, w \in Words : u = "install" /\ v = "enable" /\ w = "start"
        BY <1>w
      <4>2. cmd.left = <<u, v, w>>
        BY <3>2, <4>1
      <4>3. /\ cmd.left # <<>> /\ Head(cmd.left) = u /\ Len(cmd.left) # 1 /\ Tail(cmd.left) = <<v, w>>
            /\ Tail(cmd.left) \in Seq(Words)
        BY <4>2, ThreeVerbs
      <4> QED
        BY <4>1, <4>3
    <3> QED
      BY <1>5, <3>1, <3>2
  <2>3. cmd'.state # "ok" /\ (cmd'.state = "running" /\ ~cmd.dry => svc'.file = rendering)
    <3>1. ~cmd.dry /\ res.ok => Keeps(Head(cmd.left), svc')
      BY <1>2, <1>w, <2>1
    <3>2. cmd'.state = IF ~res.ok THEN "error" ELSE IF Len(cmd.left) = 1 THEN "ok" ELSE "running"
      BY <1>2, <1>w, <2>1
    <3>3. Head(cmd.left) = "install" /\ Len(cmd.left) # 1
      BY <2>1
    <3>4. cmd'.state = IF ~res.ok THEN "error" ELSE "running"
      BY <3>2, <3>3
    <3>5. cmd'.state # "ok" /\ (cmd'.state = "running" => res.ok)
      BY <3>4
    <3> QED
      BY <3>1, <3>3, <3>5 DEF Keeps
  <2> QED
    BY <1>0, <1>2, <1>5, <1>w, <2>1, <2>3
    DEF CommandInv, IdleInv, UninstallInv, InstallInv, CommandsKeepTheirWord, UninstallComplete, InstallDelivers
<1>6. CASE cmd.left = <<"enable">> /\ cmd.name = "install --enable" /\ (~cmd.dry => svc.file = rendering)
  <2>1. Head(cmd.left) = "enable" /\ Tail(cmd.left) \in Seq(Words) /\ Len(cmd.left) = 1 /\ cmd.left # <<>>
    BY <1>6, <1>w, OneVerb
  <2>3. cmd'.state # "running" /\ (cmd'.state = "ok" /\ ~cmd.dry => svc'.file = svc.file /\ svc'.enabled)
    <3>1. ~cmd.dry /\ res.ok => Keeps(Head(cmd.left), svc')
      BY <1>2, <1>w, <2>1
    <3>2. cmd'.state = IF ~res.ok THEN "error" ELSE IF Len(cmd.left) = 1 THEN "ok" ELSE "running"
      BY <1>2, <1>w, <2>1
    <3>3. Head(cmd.left) = "enable" /\ Len(cmd.left) = 1
      BY <2>1
    <3> QED
      BY <3>1, <3>2, <3>3 DEF Keeps
  <2> QED
    BY <1>0, <1>2, <1>6, <1>w, <2>1, <2>3
    DEF CommandInv, IdleInv, UninstallInv, InstallInv, CommandsKeepTheirWord, UninstallComplete, InstallDelivers
<1>7. CASE cmd.left = <<"enable", "start">> /\ cmd.name = "install --enable" /\ (~cmd.dry => svc.file = rendering)
  <2>1. /\ Head(cmd.left) = "enable" /\ Tail(cmd.left) = <<"start">> /\ Len(cmd.left) # 1
        /\ cmd.left # <<>> /\ Tail(cmd.left) \in Seq(Words)
    <3>1. PICK u \in Words, v \in Words : u = "enable" /\ v = "start"
      BY <1>w
    <3>2. cmd.left = <<u, v>>
      BY <1>7, <3>1
    <3>3. /\ cmd.left # <<>> /\ Head(cmd.left) = u /\ Len(cmd.left) # 1 /\ Tail(cmd.left) = <<v>>
          /\ Tail(cmd.left) \in Seq(Words)
      BY <3>2, TwoVerbs
    <3> QED
      BY <3>1, <3>3
  <2>3. cmd'.state # "ok" /\ (cmd'.state = "running" /\ ~cmd.dry => svc'.file = svc.file /\ svc'.enabled)
    <3>1. ~cmd.dry /\ res.ok => Keeps(Head(cmd.left), svc')
      BY <1>2, <1>w, <2>1
    <3>2. cmd'.state = IF ~res.ok THEN "error" ELSE IF Len(cmd.left) = 1 THEN "ok" ELSE "running"
      BY <1>2, <1>w, <2>1
    <3>3. Head(cmd.left) = "enable" /\ Len(cmd.left) # 1
      BY <2>1
    <3>4. cmd'.state = IF ~res.ok THEN "error" ELSE "running"
      BY <3>2, <3>3
    <3>5. cmd'.state # "ok" /\ (cmd'.state = "running" => res.ok)
      BY <3>4
    <3> QED
      BY <3>1, <3>3, <3>5 DEF Keeps
  <2> QED
    BY <1>0, <1>2, <1>7, <1>w, <2>1, <2>3
    DEF CommandInv, IdleInv, UninstallInv, InstallInv, CommandsKeepTheirWord, UninstallComplete, InstallDelivers
<1>8. CASE /\ cmd.left = <<"start">>
           /\ ~cmd.dry => svc.file = rendering /\ (cmd.name = "install --enable" => svc.enabled)
  <2>1. Head(cmd.left) = "start" /\ Tail(cmd.left) \in Seq(Words) /\ Len(cmd.left) = 1 /\ cmd.left # <<>>
    BY <1>8, <1>w, OneVerb
  <2>3. /\ cmd'.state # "running"
        /\ cmd'.state = "ok" /\ ~cmd.dry => svc'.file = svc.file /\ (svc.enabled => svc'.enabled)
    <3>1. ~cmd.dry /\ res.ok => Keeps(Head(cmd.left), svc')
      BY <1>2, <1>w, <2>1
    <3>2. cmd'.state = IF ~res.ok THEN "error" ELSE IF Len(cmd.left) = 1 THEN "ok" ELSE "running"
      BY <1>2, <1>w, <2>1
    <3>3. Head(cmd.left) = "start" /\ Len(cmd.left) = 1
      BY <2>1
    <3> QED
      BY <3>1, <3>2, <3>3 DEF Keeps
  <2> QED
    BY <1>0, <1>2, <1>8, <1>w, <2>1, <2>3
    DEF CommandInv, IdleInv, UninstallInv, InstallInv, CommandsKeepTheirWord, UninstallComplete, InstallDelivers
<1>9. ASSUME NEW start \in BOOLEAN, cmd.left = InstallVerbs(cmd.name = "install --enable", start)
      PROVE  \/ cmd.left = <<"install">> /\ cmd.name = "install"
             \/ cmd.left = <<"install", "start">> /\ cmd.name = "install"
             \/ cmd.left \in {<<"install", "enable">>, <<"install", "enable", "start">>}
                /\ cmd.name = "install --enable"
  <2>1. CASE cmd.name = "install"
    <3>1. cmd.left = InstallVerbs(FALSE, start)
      BY <1>9, <2>1 DEF InstallVerbs
    <3> QED
      BY <1>9, <2>1, <3>1, InstallLines
  <2>2. CASE cmd.name = "install --enable"
    <3>1. cmd.left = InstallVerbs(TRUE, start)
      BY <1>9, <2>2 DEF InstallVerbs
    <3> QED
      BY <1>9, <2>2, <3>1, InstallLines
  <2> QED
    BY <2>1, <2>2
<1> QED
  BY <1>0, <1>3, <1>4, <1>5, <1>6, <1>7, <1>8, <1>9 DEF CommandInv, InstallInv

\* A command begins.
LEMMA CommandBegins ==
  ASSUME CommandInv, Run
  PROVE  CommandInv'
<1>1. UNCHANGED <<mode, svc, rendering>> /\ ServiceTypes'
  BY DEF Run, CommandInv, ServiceTypes, TaskIsWindows
<1>2. PICK dry \in BOOLEAN, ok \in BOOLEAN :
        \/ \E enable, start \in BOOLEAN :
             cmd' = [name |-> IF enable THEN "install --enable" ELSE "install",
                     left |-> InstallVerbs(enable, start), dry |-> dry, sure |-> TRUE,
                     state |-> IF ok THEN "running" ELSE "error"]
        \/ cmd' = [name |-> "uninstall", left |-> UninstallVerbs, dry |-> dry, sure |-> TRUE,
                   state |-> IF ok THEN "running" ELSE "error"]
  BY DEF Run
<1>w. Words = {"install", "enable", "start", "stop", "disable", "uninstall"}
  BY DEF Words
<1>3. CASE cmd' = [name |-> "uninstall", left |-> UninstallVerbs, dry |-> dry, sure |-> TRUE,
                   state |-> IF ok THEN "running" ELSE "error"]
  <2>1. UninstallVerbs \in Seq(Words)
    BY <1>w, CommandLines DEF UninstallVerbs
  <2>2. cmd' \in Commands /\ cmd'.name = "uninstall" /\ cmd'.left = UninstallVerbs /\ cmd'.state # "ok"
    BY <1>3, <2>1 DEF Commands
  <2> QED
    BY <1>1, <2>2
    DEF CommandInv, IdleInv, UninstallInv, InstallInv, CommandsKeepTheirWord, UninstallComplete, InstallDelivers
<1>4. ASSUME NEW enable \in BOOLEAN, NEW start \in BOOLEAN,
             cmd' = [name |-> IF enable THEN "install --enable" ELSE "install",
                     left |-> InstallVerbs(enable, start), dry |-> dry, sure |-> TRUE,
                     state |-> IF ok THEN "running" ELSE "error"]
      PROVE  CommandInv'
  <2>1. InstallVerbs(enable, start) \in Seq(Words)
    <3>1. /\ <<"install">> \in Seq(Words) /\ <<"install", "start">> \in Seq(Words)
          /\ <<"install", "enable">> \in Seq(Words) /\ <<"install", "enable", "start">> \in Seq(Words)
      BY <1>w, CommandLines
    <3> QED
      BY <1>4, <3>1, InstallLines
  <2>2. /\ cmd' \in Commands /\ cmd'.name = (IF enable THEN "install --enable" ELSE "install")
        /\ cmd'.left = InstallVerbs(enable, start) /\ cmd'.state # "ok"
    BY <1>4, <2>1 DEF Commands
  <2>3. cmd'.left = InstallVerbs(cmd'.name = "install --enable", start)
    BY <1>4, <2>2 DEF InstallVerbs
  <2> QED
    BY <1>1, <1>4, <2>2, <2>3
    DEF CommandInv, IdleInv, UninstallInv, InstallInv, CommandsKeepTheirWord, UninstallComplete, InstallDelivers
<1> QED
  BY <1>2, <1>3, <1>4

\* A command that reports success has done what it says, on each of the three service
\* managers, after any history of failed, killed and half-done commands.
THEOREM CommandsDeliver == InstallSpec => []CommandsKeepTheirWord
<1>1. InstallInit => CommandInv
  <2> SUFFICES ASSUME InstallInit PROVE CommandInv
    OBVIOUS
  <2>1. svc \in Services /\ svc.task = FALSE
    BY DEF InstallInit, Services
  <2>2. NoCommand \in Commands /\ NoCommand.name = "none" /\ NoCommand.state = "idle"
    BY EmptySeq DEF NoCommand, Commands
  <2> QED
    BY <2>1, <2>2
    DEF InstallInit, CommandInv, ServiceTypes, TaskIsWindows, UninstallInv, InstallInv, CommandsKeepTheirWord,
        UninstallComplete, InstallDelivers, IdleInv
<1>2. CommandInv /\ [InstallNext]_installVars => CommandInv'
  <2> SUFFICES ASSUME CommandInv, [InstallNext]_installVars PROVE CommandInv'
    OBVIOUS
  <2>1. CASE Run
    BY <2>1, CommandBegins
  <2>2. CASE Verb
    <3>1. cmd.name \in {"install", "install --enable", "uninstall"}
      <4>1. cmd.name # "none"
        BY <2>2 DEF CommandInv, Verb, IdleInv
      <4> QED
        BY <4>1 DEF CommandInv, Commands
    <3> QED
      BY <2>2, <3>1, UninstallVerb, InstallVerb
  <2>3. CASE Killed
    <3>1. cmd' \in Commands /\ cmd'.state = "error" /\ cmd'.name = cmd.name
      BY <2>3 DEF Killed, CommandInv, Commands
    <3> QED
      BY <2>3, <3>1
      DEF Killed, CommandInv, ServiceTypes, TaskIsWindows, UninstallInv, InstallInv, CommandsKeepTheirWord,
          UninstallComplete, InstallDelivers, IdleInv
  <2>4. CASE Login
    <3>1. NoCommand \in Commands /\ NoCommand.name = "none" /\ NoCommand.state = "idle"
      BY EmptySeq DEF NoCommand, Commands
    <3>2. svc' \in Services /\ svc'.task = svc.task
      <4>1. svc' = svc \/ \E b \in BOOLEAN : svc' = [svc EXCEPT !.active = b]
        BY <2>4 DEF Login
      <4> QED
        BY <4>1 DEF CommandInv, ServiceTypes, Services
    <3>3. rendering' \in {1, 2} /\ mode' = mode
      BY <2>4 DEF Login, CommandInv, ServiceTypes
    <3> QED
      BY <2>4, <3>1, <3>2, <3>3
      DEF Login, CommandInv, ServiceTypes, TaskIsWindows, UninstallInv, InstallInv, CommandsKeepTheirWord,
          UninstallComplete, InstallDelivers, IdleInv
  <2>5. CASE UNCHANGED installVars
    BY <2>5
    DEF installVars, CommandInv, ServiceTypes, TaskIsWindows, UninstallInv, InstallInv, CommandsKeepTheirWord,
        UninstallComplete, InstallDelivers, IdleInv
  <2> QED
    BY <2>1, <2>2, <2>3, <2>4, <2>5 DEF InstallNext
<1> QED
  BY <1>1, <1>2, PTL DEF InstallSpec, CommandInv

-----------------------------------------------------------------------------
(* The connection: Wire *)

WireMessages == [kind : {"request", "response", "note"}, size : Nat,
                 what : {"initialize", "other", "none", "error"} \cup {Preferred[i] : i \in DOMAIN Preferred}]
Bytes == WireMessages \X Nat

FrameSize(m) == PrefixBytes + m.size

\* Where the frames of the messages begin and end in the stream.
Ruler(p, ms) ==
  /\ p \in [0..Len(ms) -> Nat] /\ p[0] = 0
  /\ \A k \in 1..Len(ms) : p[k] = p[k - 1] + FrameSize(ms[k])

\* The bytes b continue the stream of the messages from the message after d on.
Continues(b, ms, d, p) ==
  /\ Len(b) + p[d] <= p[Len(ms)]
  /\ \A k \in (d + 1)..Len(ms) : \A i \in 1..FrameSize(ms[k]) :
       p[k - 1] - p[d] + i <= Len(b) => b[p[k - 1] - p[d] + i] = <<ms[k], i>>

\* One direction: what arrived and what is still to go out are the frames of what was
\* encoded and not decoded, all of them as long as the connection is whole.
Direction(a, o, enc, dec, broken) ==
  /\ a \in Seq(Bytes) /\ o \in Seq(Bytes)
  /\ enc \in Seq(WireMessages) /\ dec \in Seq(WireMessages)
  /\ Len(dec) <= Len(enc) /\ \A i \in 1..Len(dec) : dec[i] = enc[i]
  /\ \E p : /\ Ruler(p, enc) /\ Continues(a \o o, enc, Len(dec), p)
            /\ ~broken => Len(a \o o) + p[Len(dec)] = p[Len(enc)]

\* The bytes of one message, length first.
LEMMA FrameIs ==
  ASSUME NEW m \in WireMessages
  PROVE  /\ FrameSize(m) \in Nat \ {0} /\ FrameSize(m) >= PrefixBytes
         /\ Frame(m) \in Seq(Bytes) /\ Len(Frame(m)) = FrameSize(m)
         /\ \A i \in 1..FrameSize(m) : Frame(m)[i] = <<m, i>>
<1>1. m.size \in Nat /\ PrefixBytes \in Nat \ {0}
  BY WireAssumption DEF WireMessages
<1>2. FrameSize(m) \in Nat \ {0} /\ FrameSize(m) >= PrefixBytes
  BY <1>1 DEF FrameSize
<1>3. Frame(m) = [i \in 1..FrameSize(m) |-> <<m, i>>]
  BY DEF Frame, FrameSize
<1>4. \A i \in 1..FrameSize(m) : <<m, i>> \in Bytes
  BY <1>2 DEF Bytes
<1>5. Frame(m) \in Seq(Bytes) /\ Len(Frame(m)) = FrameSize(m)
  BY <1>2, <1>3, <1>4
<1> QED
  BY <1>2, <1>3, <1>5

\* A set of numbers that is not empty has a least member.
LEMMA LeastNat ==
  ASSUME NEW T \in SUBSET Nat, T # {}
  PROVE  \E m \in T : \A n \in T : m <= n
<1>1. PICK R : R = OpToRel(<, Nat)
  OBVIOUS
<1>2. IsWellFoundedOn(R, Nat)
  BY <1>1, NatLessThanWellFounded
<1>3. PICK m \in T : \A y \in T : <<y, m>> \notin R
  BY <1>2, WFMin
<1>4. \A x, y \in Nat : y < x => <<y, x>> \in R
  BY <1>1 DEF OpToRel
<1>5. \A n \in T : m \in Nat /\ n \in Nat /\ ~(n < m)
  BY <1>3, <1>4
<1> QED
  BY <1>5

\* The marks of a ruler rise.
LEMMA RulerRises ==
  ASSUME NEW ms \in Seq(WireMessages), NEW p, Ruler(p, ms), NEW j \in 0..Len(ms), NEW k \in 0..Len(ms), j <= k
  PROVE  p[j] <= p[k]
<1> DEFINE n == Len(ms)
           T == {x \in j..n : ~(p[j] <= p[x])}
<1>1. n \in Nat /\ p \in [0..n -> Nat] /\ \A i \in 1..n : p[i] = p[i - 1] + FrameSize(ms[i])
  BY DEF Ruler
<1> SUFFICES ASSUME T # {} PROVE FALSE
  BY <1>1
<1>2. T \in SUBSET Nat
  BY <1>1
<1>3. PICK x \in T : \A y \in T : x <= y
  BY <1>2, LeastNat
<1>4. x # j /\ x \in 1..n /\ x - 1 \in j..n /\ j \in 0..n /\ x - 1 \in 0..n /\ x \in 0..n
  BY <1>1, <1>3
<1>5. x - 1 \notin T
  <2>1. ~(x <= x - 1)
    BY <1>4
  <2> HIDE DEF T
  <2> QED
    BY <1>3, <2>1
<1>6. p[j] <= p[x - 1]
  BY <1>4, <1>5
<1>7. ms[x] \in WireMessages
  BY <1>4
<1> HIDE DEF n, T
<1>8. FrameSize(ms[x]) \in Nat
  BY <1>7, FrameIs
<1>9. p[x] = p[x - 1] + FrameSize(ms[x]) /\ p[j] \in Nat /\ p[x - 1] \in Nat
  BY <1>1, <1>4
<1>10. p[j] <= p[x]
  BY <1>6, <1>8, <1>9
<1> QED
  BY <1>3, <1>10 DEF T

\* A flush moves the border between what arrived and what is to go out.
LEMMA DirectionFlush ==
  ASSUME NEW a, NEW o, NEW enc, NEW dec, NEW k \in 1..Len(o),
         NEW broken, ~broken, Direction(a, o, enc, dec, broken)
  PROVE  Direction(a \o SubSeq(o, 1, k), SubSeq(o, k + 1, Len(o)), enc, dec, broken)
<1>1. a \in Seq(Bytes) /\ o \in Seq(Bytes) /\ k \in Nat /\ 1 <= k /\ k <= Len(o)
  BY DEF Direction
<1> DEFINE f == SubSeq(o, 1, k)
           g == SubSeq(o, k + 1, Len(o))
<1>2. f \in Seq(Bytes) /\ g \in Seq(Bytes) /\ Len(f) = k /\ Len(g) = Len(o) - k
      /\ (\A i \in 1..k : f[i] = o[i]) /\ (\A i \in 1..Len(g) : g[i] = o[k + i])
  BY <1>1, SubSeqProperties
<1> HIDE DEF f, g
<1>3. a \o f \in Seq(Bytes) /\ Len(a \o f) = Len(a) + k
      /\ \A i \in 1..(Len(a) + k) : (a \o f)[i] = IF i <= Len(a) THEN a[i] ELSE f[i - Len(a)]
  <2>1. a \in Seq(Bytes) /\ f \in Seq(Bytes)
    BY <1>1, <1>2
  <2>2. /\ a \o f \in Seq(Bytes) /\ Len(a \o f) = Len(a) + Len(f)
        /\ \A i \in 1..(Len(a) + Len(f)) : (a \o f)[i] = IF i <= Len(a) THEN a[i] ELSE f[i - Len(a)]
    BY ONLY <2>1, ConcatProperties
  <2>3. Len(f) = k
    BY <1>2
  <2> QED
    BY ONLY <2>2, <2>3
<1> DEFINE u == a \o f
           l == u \o g
           r == a \o o
<1>0. Len(a) \in Nat /\ Len(o) \in Nat /\ k \in Nat /\ 1 <= k /\ k <= Len(o)
  BY <1>1
<1>4. l \in Seq(Bytes) /\ Len(l) = Len(a) + Len(o)
      /\ \A i \in 1..(Len(a) + Len(o)) : l[i] = IF i <= Len(a) + k THEN u[i] ELSE g[i - (Len(a) + k)]
  <2>1. u \in Seq(Bytes) /\ Len(u) = Len(a) + k
    BY <1>3
  <2> HIDE DEF u
  <2>2. l \in Seq(Bytes) /\ Len(l) = Len(u) + Len(g)
        /\ \A i \in 1..(Len(u) + Len(g)) : l[i] = IF i <= Len(u) THEN u[i] ELSE g[i - Len(u)]
    <3>1. u \in Seq(Bytes) /\ g \in Seq(Bytes)
      BY <1>2, <2>1
    <3> QED
      BY ONLY <3>1, ConcatProperties
  <2> HIDE DEF l
  <2>3. Len(u) + Len(g) = Len(a) + Len(o)
    BY <1>0, <1>2, <2>1
  <2> QED
    BY <2>1, <2>2, <2>3
<1>5. r \in Seq(Bytes) /\ Len(r) = Len(a) + Len(o)
      /\ \A i \in 1..(Len(a) + Len(o)) : r[i] = IF i <= Len(a) THEN a[i] ELSE o[i - Len(a)]
  <2>1. a \in Seq(Bytes) /\ o \in Seq(Bytes)
    BY <1>1
  <2> QED
    BY ONLY <2>1, ConcatProperties
<1>3a. \A i \in 1..(Len(a) + k) : u[i] = IF i <= Len(a) THEN a[i] ELSE f[i - Len(a)]
  BY <1>3
<1> HIDE DEF l, r, u
<1>6. \A i \in 1..Len(l) : l[i] = r[i]
  <2> SUFFICES ASSUME NEW i \in 1..Len(l) PROVE l[i] = r[i]
    OBVIOUS
  <2>0. i \in Int /\ 1 <= i /\ i <= Len(a) + Len(o) /\ i \in 1..(Len(a) + Len(o))
    BY <1>0, <1>4
  <2>1. CASE i <= Len(a)
    <3>1. i <= Len(a) + k /\ i \in 1..(Len(a) + k)
      BY <1>0, <2>0, <2>1
    <3> QED
      BY <1>3a, <1>4, <1>5, <2>0, <2>1, <3>1
  <2>2. CASE Len(a) < i /\ i <= Len(a) + k
    <3>1. ~(i <= Len(a)) /\ i \in 1..(Len(a) + k) /\ i - Len(a) \in 1..k
      BY <1>0, <2>0, <2>2
    <3> QED
      BY <1>2, <1>3a, <1>4, <1>5, <2>0, <2>2, <3>1
  <2>3. CASE i > Len(a) + k
    <3>1. ~(i <= Len(a)) /\ ~(i <= Len(a) + k) /\ i - (Len(a) + k) \in 1..(Len(o) - k)
          /\ k + (i - (Len(a) + k)) = i - Len(a)
      BY <1>0, <2>0, <2>3
    <3> QED
      BY <1>2, <1>4, <1>5, <2>0, <3>1
  <2> QED
    BY <1>0, <2>0, <2>1, <2>2, <2>3
<1>7. l = r
  BY <1>4, <1>5, <1>6, SeqEqual
<1> QED
  BY <1>2, <1>3, <1>7 DEF Direction, f, g, l, r, u

\* A message is encoded once the one before is flushed.
LEMMA DirectionEncode ==
  ASSUME NEW a, NEW enc, NEW dec, NEW m \in WireMessages,
         NEW broken, ~broken, Direction(a, <<>>, enc, dec, broken)
  PROVE  Direction(a, Frame(m), Append(enc, m), dec, broken)
<1>1. /\ a \in Seq(Bytes) /\ enc \in Seq(WireMessages) /\ dec \in Seq(WireMessages)
      /\ Len(dec) <= Len(enc) /\ \A i \in 1..Len(dec) : dec[i] = enc[i]
  BY DEF Direction
<1>2. a \o <<>> = a
  BY <1>1, ConcatEmptySeq
<1>3. PICK p : Ruler(p, enc) /\ Continues(a, enc, Len(dec), p) /\ Len(a) + p[Len(dec)] = p[Len(enc)]
  BY <1>2 DEF Direction
<1> DEFINE n == Len(enc)
           d == Len(dec)
           e == Append(enc, m)
           q == [k \in 0..(n + 1) |-> IF k <= n THEN p[k] ELSE p[n] + FrameSize(m)]
           b == a \o Frame(m)
<1>4. n \in Nat /\ d \in Nat /\ d <= n
  BY <1>1
<1>5. e \in Seq(WireMessages) /\ Len(e) = n + 1 /\ e[n + 1] = m /\ \A i \in 1..n : e[i] = enc[i]
  BY <1>1, AppendProperties
<1>6. p \in [0..n -> Nat] /\ p[0] = 0 /\ \A k \in 1..n : p[k] = p[k - 1] + FrameSize(enc[k])
  BY <1>3 DEF Ruler
<1>7. FrameSize(m) \in Nat
  BY FrameIs
<1> HIDE DEF n, d, e
<1>8. Ruler(q, e)
  <2>1. q \in [0..Len(e) -> Nat] /\ q[0] = 0
    BY <1>4, <1>5, <1>6, <1>7
  <2>2. ASSUME NEW k \in 1..Len(e) PROVE q[k] = q[k - 1] + FrameSize(e[k])
    <3>1. CASE k <= n
      <4>1. q[k] = p[k] /\ q[k - 1] = p[k - 1] /\ e[k] = enc[k] /\ k \in 1..n
        BY <1>4, <1>5, <3>1
      <4> QED
        BY <1>6, <4>1
    <3>2. CASE k = n + 1
      <4>1. q[k] = p[n] + FrameSize(m) /\ q[k - 1] = p[n] /\ e[k] = m
        BY <1>4, <1>5, <3>2
      <4> QED
        BY <4>1
    <3> QED
      BY <1>4, <1>5, <3>1, <3>2
  <2> QED
    BY <2>1, <2>2 DEF Ruler
<1>9. /\ b \in Seq(Bytes) /\ Len(b) = Len(a) + FrameSize(m)
      /\ \A i \in 1..Len(a) : b[i] = a[i]
      /\ \A i \in 1..FrameSize(m) : b[Len(a) + i] = <<m, i>>
  <2>1. b \in Seq(Bytes) /\ Len(b) = Len(a) + Len(Frame(m))
        /\ \A i \in 1..(Len(a) + Len(Frame(m))) : b[i] = IF i <= Len(a) THEN a[i] ELSE Frame(m)[i - Len(a)]
    BY <1>1, FrameIs, ConcatProperties
  <2>2. Len(a) \in Nat
    BY <1>1
  <2> HIDE DEF b
  <2>3. Len(Frame(m)) = FrameSize(m) /\ \A i \in 1..FrameSize(m) : Frame(m)[i] = <<m, i>>
    BY FrameIs
  <2>4. ASSUME NEW i \in 1..Len(a) PROVE b[i] = a[i]
    <3>1. i \in 1..(Len(a) + Len(Frame(m))) /\ i <= Len(a)
      BY <1>7, <2>2, <2>3
    <3> QED
      BY <2>1, <3>1
  <2>5. ASSUME NEW i \in 1..FrameSize(m) PROVE b[Len(a) + i] = <<m, i>>
    <3>1. Len(a) + i \in 1..(Len(a) + Len(Frame(m))) /\ ~(Len(a) + i <= Len(a)) /\ (Len(a) + i) - Len(a) = i
      BY <1>7, <2>2, <2>3
    <3> QED
      BY <2>1, <2>3, <3>1
  <2> QED
    BY <2>1, <2>3, <2>4, <2>5
<1> HIDE DEF b
<1>10. /\ q[n + 1] = p[n] + FrameSize(m) /\ q[d] = p[d] /\ q[d] \in Nat /\ p[n] \in Nat /\ Len(a) \in Nat
       /\ \A k \in 0..n : q[k] = p[k]
  BY <1>1, <1>4, <1>6
<1> HIDE DEF q
<1>11. Len(a) + p[d] = p[n]
  BY <1>3 DEF n, d
<1>12. Continues(b, e, d, q)
  <2>1. Len(b) + q[d] <= q[Len(e)]
    BY <1>5, <1>7, <1>9, <1>10, <1>11
  <2>2. ASSUME NEW k \in (d + 1)..Len(e), NEW i \in 1..FrameSize(e[k]), q[k - 1] - q[d] + i <= Len(b)
        PROVE  b[q[k - 1] - q[d] + i] = <<e[k], i>>
    <3>0. k \in Int /\ d + 1 <= k /\ k <= n + 1
      BY <1>4, <1>5
    <3>1. CASE k <= n
      <4>1. k \in (d + 1)..n /\ k \in 1..n /\ k - 1 \in 0..n /\ d \in 0..n /\ d <= k - 1
        BY <1>4, <3>0, <3>1
      <4>2. q[k - 1] = p[k - 1] /\ e[k] = enc[k]
        BY <1>5, <1>10, <4>1
      <4>3. p[k - 1] \in Nat /\ p[d] \in Nat /\ p[k] \in Nat /\ p[k] = p[k - 1] + FrameSize(enc[k])
        BY <1>4, <1>6, <4>1
      <4>4. enc[k] \in WireMessages
        BY <1>1, <4>1 DEF n
      <4>5. FrameSize(enc[k]) \in Nat
        BY <4>4, FrameIs
      <4>6. p[d] <= p[k - 1]
        BY <1>1, <1>3, <4>1, RulerRises DEF n
      <4>7. n \in 0..n /\ k \in 0..n /\ k <= n
        BY <1>4, <4>1
      <4>8. p[k] <= p[n]
        BY <1>1, <1>3, <4>7, RulerRises DEF n
      <4>9. p[k - 1] - p[d] + i \in 1..Len(a) /\ i \in 1..FrameSize(enc[k])
        BY <1>10, <1>11, <4>2, <4>3, <4>5, <4>6, <4>8
      <4>10. \A l \in (d + 1)..n : \A h \in 1..FrameSize(enc[l]) :
               p[l - 1] - p[d] + h <= Len(a) => a[p[l - 1] - p[d] + h] = <<enc[l], h>>
        BY <1>3 DEF Continues, n, d
      <4>11. p[k - 1] - p[d] + i <= Len(a)
        BY <1>10, <4>9
      <4>12. a[p[k - 1] - p[d] + i] = <<enc[k], i>>
        BY <4>1, <4>9, <4>10, <4>11
      <4>13. b[p[k - 1] - p[d] + i] = a[p[k - 1] - p[d] + i]
        BY <1>9, <4>9
      <4> QED
        BY <1>10, <4>2, <4>12, <4>13
    <3>2. CASE k = n + 1
      <4>1. k - 1 = n /\ n \in 0..n
        BY <1>4, <3>2
      <4>2. q[k - 1] = p[n] /\ e[k] = m
        BY <1>5, <1>10, <3>2, <4>1
      <4>3. q[k - 1] - q[d] = Len(a) /\ i \in 1..FrameSize(m)
        BY <1>10, <1>11, <4>2
      <4> QED
        BY <1>9, <4>2, <4>3
    <3> QED
      BY <1>4, <3>0, <3>1, <3>2
  <2> QED
    BY <2>1, <2>2 DEF Continues
<1>13. Len(b) + q[d] = q[Len(e)]
  BY <1>5, <1>7, <1>9, <1>10, <1>11
<1>14. d <= Len(e) /\ \A i \in 1..d : dec[i] = e[i]
  <2>1. \A i \in 1..d : i \in 1..n /\ dec[i] = enc[i]
    BY <1>1, <1>4 DEF n, d
  <2> QED
    BY <1>4, <1>5, <2>1
<1> QED
  BY <1>1, <1>5, <1>8, <1>12, <1>13, <1>14, FrameIs DEF Direction, b, d, e

\* A break loses what is still to go out.
LEMMA DirectionBreak ==
  ASSUME NEW a, NEW o, NEW enc, NEW dec, NEW broken, Direction(a, o, enc, dec, broken), NEW wreck, wreck
  PROVE  Direction(a, <<>>, enc, dec, wreck)
<1>1. /\ a \in Seq(Bytes) /\ o \in Seq(Bytes) /\ enc \in Seq(WireMessages) /\ dec \in Seq(WireMessages)
      /\ Len(dec) <= Len(enc) /\ \A i \in 1..Len(dec) : dec[i] = enc[i]
  BY DEF Direction
<1>2. PICK p : Ruler(p, enc) /\ Continues(a \o o, enc, Len(dec), p)
  BY DEF Direction
<1>3. a \o <<>> = a /\ <<>> \in Seq(Bytes)
  BY <1>1, ConcatEmptySeq
<1> DEFINE b == a \o o
<1>4. Len(b) = Len(a) + Len(o) /\ \A i \in 1..(Len(a) + Len(o)) : b[i] = IF i <= Len(a) THEN a[i] ELSE o[i - Len(a)]
  BY <1>1, ConcatProperties
<1>5. Continues(b, enc, Len(dec), p)
  BY <1>2
<1> HIDE DEF b
<1>6. p \in [0..Len(enc) -> Nat] /\ Len(enc) \in Nat /\ Len(dec) \in Nat /\ Len(a) \in Nat /\ Len(o) \in Nat
  BY <1>1, <1>2 DEF Ruler
<1>7. p[Len(dec)] \in Nat /\ p[Len(enc)] \in Nat
  <2>1. Len(dec) \in 0..Len(enc) /\ Len(enc) \in 0..Len(enc)
    BY <1>1, <1>6
  <2> QED
    BY <1>6, <2>1
<1>8. Len(a) + p[Len(dec)] <= p[Len(enc)]
  BY <1>4, <1>5, <1>6, <1>7 DEF Continues
<1>9. ASSUME NEW k \in (Len(dec) + 1)..Len(enc), NEW i \in 1..FrameSize(enc[k]), p[k - 1] - p[Len(dec)] + i <= Len(a)
      PROVE  a[p[k - 1] - p[Len(dec)] + i] = <<enc[k], i>>
  <2>1. k \in Int /\ Len(dec) <= k - 1 /\ k - 1 \in 0..Len(enc) /\ Len(dec) \in 0..Len(enc) /\ k \in 1..Len(enc)
    BY <1>1, <1>6
  <2>2. p[Len(dec)] <= p[k - 1] /\ p[k - 1] \in Nat
    BY <1>1, <1>2, <1>6, <2>1, RulerRises
  <2>3. enc[k] \in WireMessages
    BY <1>1, <2>1
  <2>4. FrameSize(enc[k]) \in Nat
    BY <2>3, FrameIs
  <2>5. p[k - 1] - p[Len(dec)] + i \in 1..Len(a) /\ p[k - 1] - p[Len(dec)] + i <= Len(b)
        /\ p[k - 1] - p[Len(dec)] + i \in 1..(Len(a) + Len(o))
    BY <1>4, <1>6, <1>7, <1>9, <2>2, <2>4
  <2>6. b[p[k - 1] - p[Len(dec)] + i] = <<enc[k], i>>
    BY <1>5, <2>5 DEF Continues
  <2>7. b[p[k - 1] - p[Len(dec)] + i] = a[p[k - 1] - p[Len(dec)] + i]
    BY <1>4, <2>5
  <2> QED
    BY <2>6, <2>7
<1>10. Continues(a, enc, Len(dec), p)
  BY <1>8, <1>9 DEF Continues
<1> QED
  BY <1>1, <1>2, <1>3, <1>10 DEF Direction

\* Where a byte has arrived, the next message is one that was encoded.
LEMMA NextFrame ==
  ASSUME NEW a, NEW o, NEW enc, NEW dec, NEW broken, Direction(a, o, enc, dec, broken), Len(a) >= PrefixBytes
  PROVE  /\ Len(dec) + 1 \in 1..Len(enc)
         /\ a[1] = <<enc[Len(dec) + 1], 1>>
         /\ \A i \in 1..FrameSize(enc[Len(dec) + 1]) : i <= Len(a) => a[i] = <<enc[Len(dec) + 1], i>>
<1>1. /\ a \in Seq(Bytes) /\ o \in Seq(Bytes) /\ enc \in Seq(WireMessages) /\ dec \in Seq(WireMessages)
      /\ Len(dec) <= Len(enc) /\ \A i \in 1..Len(dec) : dec[i] = enc[i]
  BY DEF Direction
<1> DEFINE b == a \o o
           d == Len(dec)
<1>2. PICK p : Ruler(p, enc) /\ Continues(b, enc, d, p)
  BY DEF Direction
<1>3. Len(b) = Len(a) + Len(o) /\ \A i \in 1..(Len(a) + Len(o)) : b[i] = IF i <= Len(a) THEN a[i] ELSE o[i - Len(a)]
  BY <1>1, ConcatProperties
<1> HIDE DEF b
<1>4. /\ p \in [0..Len(enc) -> Nat] /\ Len(enc) \in Nat /\ d \in Nat /\ d <= Len(enc)
      /\ Len(a) \in Nat /\ Len(o) \in Nat /\ Len(a) >= 1
  BY <1>1, <1>2, WireAssumption DEF Ruler
<1> HIDE DEF d
<1>5. p[d] \in Nat /\ p[Len(enc)] \in Nat /\ Len(b) + p[d] <= p[Len(enc)]
  BY <1>2, <1>4 DEF Continues
<1>6. d # Len(enc)
  BY <1>3, <1>4, <1>5
<1>7. d + 1 \in 1..Len(enc) /\ d + 1 \in (d + 1)..Len(enc) /\ (d + 1) - 1 = d
  BY <1>4, <1>6
<1>8. enc[d + 1] \in WireMessages
  BY <1>1, <1>7
<1>9. FrameSize(enc[d + 1]) \in Nat \ {0}
  BY <1>8, FrameIs
<1>10. ASSUME NEW i \in 1..FrameSize(enc[d + 1]), i <= Len(a) PROVE a[i] = <<enc[d + 1], i>>
  <2>1. p[(d + 1) - 1] - p[d] + i = i /\ i <= Len(b) /\ i \in 1..(Len(a) + Len(o))
    BY <1>3, <1>4, <1>5, <1>7, <1>9, <1>10
  <2>2. b[i] = <<enc[d + 1], i>>
    BY <1>2, <1>7, <2>1 DEF Continues
  <2> QED
    BY <1>3, <1>10, <2>1, <2>2
<1>11. 1 \in 1..FrameSize(enc[d + 1])
  BY <1>9
<1> QED
  BY <1>4, <1>7, <1>10, <1>11 DEF d

\* A whole frame is taken for the message it was made of.
LEMMA DirectionDecode ==
  ASSUME NEW a, NEW o, NEW enc, NEW dec, NEW broken, Direction(a, o, enc, dec, broken), Complete(a)
  PROVE  /\ Len(dec) + 1 \in 1..Len(enc) /\ Decoded(a) = enc[Len(dec) + 1]
         /\ Direction(SubSeq(a, FrameLength(a) + 1, Len(a)), o, enc, Append(dec, Decoded(a)), broken)
<1>1. /\ a \in Seq(Bytes) /\ o \in Seq(Bytes) /\ enc \in Seq(WireMessages) /\ dec \in Seq(WireMessages)
      /\ Len(dec) <= Len(enc) /\ \A i \in 1..Len(dec) : dec[i] = enc[i]
  BY DEF Direction
<1> DEFINE d == Len(dec)
           m == enc[d + 1]
           z == FrameSize(m)
<1>2. /\ d + 1 \in 1..Len(enc) /\ a[1] = <<m, 1>> /\ \A i \in 1..z : i <= Len(a) => a[i] = <<m, i>>
  BY NextFrame DEF Complete
<1>3. m \in WireMessages /\ d \in Nat /\ Len(enc) \in Nat /\ Len(a) \in Nat /\ Len(o) \in Nat
  BY <1>1, <1>2
<1>4. z \in Nat \ {0} /\ Frame(m) \in Seq(Bytes) /\ Len(Frame(m)) = z /\ \A i \in 1..z : Frame(m)[i] = <<m, i>>
  BY <1>3, FrameIs
<1>5. a[1][1] = m /\ z = PrefixBytes + m.size
  BY <1>2 DEF FrameSize
<1> HIDE DEF d, m, z
<1>6. z <= Len(a) /\ FrameLength(a) = z
  BY <1>3, <1>4, <1>5 DEF Complete, FrameLength
<1>7. SubSeq(a, 1, z) = Frame(m)
  <2> DEFINE f == SubSeq(a, 1, z)
  <2>1. f \in Seq(Bytes) /\ Len(f) = z /\ \A i \in 1..z : f[i] = a[i]
    BY <1>1, <1>3, <1>4, <1>6, SubSeqProperties
  <2> HIDE DEF f
  <2>2. ASSUME NEW i \in 1..z PROVE f[i] = Frame(m)[i]
    <3>1. i <= Len(a)
      BY <1>3, <1>4, <1>6
    <3>2. f[i] = a[i] /\ a[i] = <<m, i>> /\ Frame(m)[i] = <<m, i>>
      BY <1>2, <1>4, <2>1, <3>1
    <3> QED
      BY <3>2
  <2>3. f = Frame(m)
    BY <1>4, <2>1, <2>2, SeqEqual
  <2> QED
    BY <2>3 DEF f
<1>8. Decoded(a) = m
  BY <1>5, <1>6, <1>7 DEF Decoded
<1> DEFINE r == SubSeq(a, z + 1, Len(a))
           t == Append(dec, m)
           b == a \o o
           c == r \o o
<1>9. r \in Seq(Bytes) /\ Len(r) = Len(a) - z /\ \A i \in 1..Len(r) : r[i] = a[z + i]
  BY <1>1, <1>3, <1>4, <1>6, SubSeqProperties
<1>10. t \in Seq(WireMessages) /\ Len(t) = d + 1 /\ t[d + 1] = m /\ \A i \in 1..d : t[i] = dec[i]
  BY <1>1, <1>3, AppendProperties DEF d
<1>11. Len(b) = Len(a) + Len(o) /\ \A i \in 1..(Len(a) + Len(o)) : b[i] = IF i <= Len(a) THEN a[i] ELSE o[i - Len(a)]
  BY <1>1, ConcatProperties
<1> HIDE DEF r, t
<1>12. Len(c) = Len(r) + Len(o) /\ \A i \in 1..(Len(r) + Len(o)) : c[i] = IF i <= Len(r) THEN r[i] ELSE o[i - Len(r)]
  BY <1>1, <1>9, ConcatProperties
<1>13. PICK p : Ruler(p, enc) /\ Continues(b, enc, d, p) /\ (~broken => Len(b) + p[d] = p[Len(enc)])
  BY DEF Direction, d
<1> HIDE DEF b, c
<1>14. Len(c) = Len(b) - z /\ Len(b) \in Nat /\ Len(c) \in Nat /\ Len(r) \in Nat
  BY <1>3, <1>4, <1>6, <1>9, <1>11, <1>12
<1>15. ASSUME NEW i \in 1..Len(c) PROVE c[i] = b[z + i]
  <2>1. i \in Int /\ i \in 1..(Len(r) + Len(o)) /\ z + i \in 1..(Len(a) + Len(o)) /\ Len(r) = Len(a) - z
    BY <1>3, <1>4, <1>9, <1>11, <1>12, <1>14
  <2>2. CASE i <= Len(r)
    <3>1. z + i <= Len(a) /\ i \in 1..Len(r)
      BY <1>3, <1>4, <2>1, <2>2
    <3> QED
      BY <1>9, <1>11, <1>12, <2>1, <2>2, <3>1
  <2>3. CASE ~(i <= Len(r))
    <3>1. ~(z + i <= Len(a)) /\ (z + i) - Len(a) = i - Len(r)
      BY <1>3, <1>4, <2>1, <2>3
    <3> QED
      BY <1>11, <1>12, <2>1, <2>3, <3>1
  <2> QED
    BY <2>2, <2>3
<1>16. /\ p \in [0..Len(enc) -> Nat] /\ p[d + 1] = p[d] + z /\ p[d] \in Nat /\ p[d + 1] \in Nat /\ p[Len(enc)] \in Nat
       /\ Len(b) + p[d] <= p[Len(enc)]
  <2>1. p \in [0..Len(enc) -> Nat] /\ \A k \in 1..Len(enc) : p[k] = p[k - 1] + FrameSize(enc[k])
    BY <1>13 DEF Ruler
  <2>2. d \in 0..Len(enc) /\ d + 1 \in 0..Len(enc) /\ Len(enc) \in 0..Len(enc) /\ (d + 1) - 1 = d
    BY <1>2, <1>3
  <2>3. p[d + 1] = p[d] + z
    BY <1>2, <2>1, <2>2 DEF z, m
  <2> QED
    BY <1>13, <2>1, <2>2, <2>3 DEF Continues
<1>17. Len(c) + p[d + 1] <= p[Len(enc)] /\ (~broken => Len(c) + p[d + 1] = p[Len(enc)])
  <2>1. Len(c) + p[d + 1] = Len(b) + p[d]
    BY <1>4, <1>14, <1>16
  <2> QED
    BY <1>13, <1>16, <2>1
<1>18. ASSUME NEW k \in (d + 2)..Len(enc), NEW i \in 1..FrameSize(enc[k]), p[k - 1] - p[d + 1] + i <= Len(c)
       PROVE  c[p[k - 1] - p[d + 1] + i] = <<enc[k], i>>
  <2>1. k \in (d + 1)..Len(enc) /\ k \in 1..Len(enc) /\ k - 1 \in 0..Len(enc) /\ d + 1 \in 0..Len(enc) /\ d + 1 <= k - 1
    BY <1>3
  <2>2. p[d + 1] <= p[k - 1] /\ p[k - 1] \in Nat
    BY <1>1, <1>13, <1>16, <2>1, RulerRises
  <2>3. enc[k] \in WireMessages
    BY <1>1, <2>1
  <2>4. FrameSize(enc[k]) \in Nat
    BY <2>3, FrameIs
  <2>5. p[k - 1] - p[d + 1] + i \in 1..Len(c) /\ z + (p[k - 1] - p[d + 1] + i) = p[k - 1] - p[d] + i
        /\ p[k - 1] - p[d] + i <= Len(b)
    <3>1. z \in Nat /\ i \in Nat /\ 1 <= i /\ p[k - 1] \in Nat /\ p[d] \in Nat /\ p[d + 1] = p[d] + z
          /\ Len(c) \in Nat /\ Len(b) \in Nat /\ Len(c) = Len(b) - z
          /\ p[d + 1] <= p[k - 1] /\ p[k - 1] - p[d + 1] + i <= Len(c)
      BY <1>4, <1>14, <1>16, <1>18, <2>2, <2>4
    <3> DEFINE x == p[k - 1]
               y == p[d + 1]
               w == p[d]
    <3>2. x \in Nat /\ w \in Nat /\ y = w + z /\ y <= x /\ x - y + i <= Len(c)
      BY <3>1
    <3> HIDE DEF x, y, w
    <3>3. x - y + i \in 1..Len(c)
      BY <3>1, <3>2
    <3>4. z + (x - y + i) = x - w + i /\ x - w + i <= Len(b)
      BY <3>1, <3>2
    <3> QED
      BY <3>3, <3>4 DEF x, y, w
  <2>6. \A l \in (d + 1)..Len(enc) : \A h \in 1..FrameSize(enc[l]) :
          p[l - 1] - p[d] + h <= Len(b) => b[p[l - 1] - p[d] + h] = <<enc[l], h>>
    BY <1>13 DEF Continues
  <2>7. b[p[k - 1] - p[d] + i] = <<enc[k], i>>
    BY <2>1, <2>5, <2>6
  <2> QED
    BY <1>15, <2>5, <2>7
<1>19. Continues(c, enc, Len(t), p)
  <2>1. (d + 1) + 1 = d + 2
    BY <1>3
  <2> QED
    BY <1>10, <1>17, <1>18, <2>1 DEF Continues
<1>20. Len(t) <= Len(enc) /\ \A i \in 1..Len(t) : t[i] = enc[i]
  <2>1. ASSUME NEW i \in 1..Len(t) PROVE t[i] = enc[i]
    <3>1. CASE i = d + 1
      BY <1>10, <3>1 DEF m
    <3>2. CASE i # d + 1
      <4>1. i \in 1..d
        BY <1>3, <1>10, <3>2
      <4> QED
        BY <1>1, <1>10, <4>1 DEF d
    <3> QED
      BY <3>1, <3>2
  <2> QED
    BY <1>2, <1>10, <2>1
<1>21. Direction(r, o, enc, t, broken)
  BY <1>1, <1>9, <1>10, <1>13, <1>17, <1>19, <1>20 DEF Direction, c
<1> QED
  BY <1>2, <1>6, <1>8, <1>21 DEF r, t, d, m

\* Once all is flushed, a message that was encoded and is not too long is complete.
LEMMA DirectionWhole ==
  ASSUME NEW a, NEW enc, NEW dec, NEW broken, ~broken, Direction(a, <<>>, enc, dec, broken), Len(dec) + 1 <= Len(enc),
         enc[Len(dec) + 1].size <= MaxMessage
  PROVE  Complete(a)
<1>1. /\ a \in Seq(Bytes) /\ enc \in Seq(WireMessages) /\ dec \in Seq(WireMessages)
  BY DEF Direction
<1>2. a \o <<>> = a
  BY <1>1, ConcatEmptySeq
<1> DEFINE d == Len(dec)
           m == enc[d + 1]
<1>3. PICK p : Ruler(p, enc) /\ Len(a) + p[d] = p[Len(enc)]
  BY <1>2 DEF Direction
<1>4. /\ d \in Nat /\ Len(enc) \in Nat /\ d + 1 \in 1..Len(enc) /\ (d + 1) - 1 = d /\ Len(a) \in Nat
      /\ d \in 0..Len(enc) /\ d + 1 \in 0..Len(enc) /\ Len(enc) \in 0..Len(enc) /\ d + 1 <= Len(enc)
  BY <1>1
<1>5. m \in WireMessages
  BY <1>1, <1>4
<1>6. FrameSize(m) \in Nat /\ FrameSize(m) >= PrefixBytes
  BY <1>5, FrameIs
<1>7. p[d + 1] = p[d] + FrameSize(m) /\ p[d] \in Nat /\ p[d + 1] \in Nat /\ p[Len(enc)] \in Nat
  BY <1>3, <1>4 DEF Ruler
<1>8. p[d + 1] <= p[Len(enc)]
  BY <1>1, <1>3, <1>4, RulerRises
<1>9. Len(a) >= FrameSize(m)
  BY <1>3, <1>4, <1>6, <1>7, <1>8
<1>10. Len(a) >= PrefixBytes
  BY <1>4, <1>6, <1>9, WireAssumption
<1>11. a[1] = <<m, 1>>
  BY <1>10, NextFrame
<1>12. a[1][1] = m
  BY <1>11
<1> QED
  BY <1>9, <1>10, <1>12 DEF Complete, FrameSize

WireTypes ==
  /\ out \in [Ends -> Seq(Bytes)] /\ arrived \in [Ends -> Seq(Bytes)]
  /\ encoded \in [Ends -> Seq(WireMessages)] /\ decoded \in [Ends -> Seq(WireMessages)]
  /\ offer \subseteq Offered /\ cut \in BOOLEAN

Flows(e) == Direction(arrived[e], out[e], encoded[e], decoded[e], cut)

\* The first answer is the one the client's first message calls for.
AnswerIsDue ==
  /\ encoded["client"] # <<>>
  /\ encoded["server"][1] = Message("response",
       IF encoded["client"][1].what = "initialize" /\ Common # {} THEN Picked ELSE "error", 1)

\* Nothing is taken in before its turn, and the daemon does not leave before it has answered
\* unless the connection broke or the client left.
TurnsAreKept ==
  /\ cli \in {"start", "await"} => decoded["server"] = <<>>
  /\ srv = "await" => encoded["server"] = <<>> /\ decoded["client"] = <<>>
  /\ srv # "await" /\ (srv = "closed" => ~cut /\ cli \in {"start", "await"}) => encoded["server"] # <<>>
  /\ encoded["server"] # <<>> => AnswerIsDue

WireInv == WireTypes /\ (\A e \in Ends : Flows(e)) /\ TurnsAreKept /\ HandshakeIsExact

\* The version picked is one the client offered.
LEMMA PickedIsCommon ==
  ASSUME Common # {}
  PROVE  Picked \in offer /\ Picked \in {Preferred[i] : i \in DOMAIN Preferred}
<1>1. Common \in SUBSET Nat
  BY WireAssumption DEF Common
<1>2. \E i \in Common : \A j \in Common : i <= j
  BY <1>1, LeastNat
<1> DEFINE k == CHOOSE i \in Common : \A j \in Common : i <= j
<1>3. k \in Common
  BY <1>2
<1> HIDE DEF k
<1>4. Preferred[k] \in offer /\ k \in DOMAIN Preferred
  BY <1>3 DEF Common
<1> QED
  BY <1>4 DEF Picked, k

\* Every message that is sent is one of the connection's.
LEMMA MessagesAre ==
  /\ \A what \in {"initialize", "other"} : Message("request", what, 1) \in WireMessages
  /\ \A n \in 1..MaxMessage : /\ Message("request", "other", n) \in WireMessages
                              /\ Message("response", "other", n) \in WireMessages
  /\ Message("note", "none", 1) \in WireMessages
  /\ \A b \in BOOLEAN : Message("response", IF b /\ Common # {} THEN Picked ELSE "error", 1) \in WireMessages
<1> DEFINE V == {Preferred[i] : i \in DOMAIN Preferred}
<1>1. ASSUME NEW b \in BOOLEAN
      PROVE  (IF b /\ Common # {} THEN Picked ELSE "error") \in {"error"} \cup V
  BY PickedIsCommon
<1> HIDE DEF V
<1>2. WireMessages = [kind : {"request", "response", "note"}, size : Nat,
                      what : {"initialize", "other", "none", "error"} \cup V]
  BY DEF WireMessages, V
<1>3. ASSUME NEW kind \in {"request", "response", "note"}, NEW n \in Nat,
             NEW what \in {"initialize", "other", "none", "error"} \cup V
      PROVE  Message(kind, what, n) \in WireMessages
  BY <1>2 DEF Message
<1>4. 1 \in Nat /\ \A n \in 1..MaxMessage : n \in Nat
  BY WireAssumption
<1>5. ASSUME NEW b \in BOOLEAN
      PROVE  Message("response", IF b /\ Common # {} THEN Picked ELSE "error", 1) \in WireMessages
  <2> DEFINE w == IF b /\ Common # {} THEN Picked ELSE "error"
  <2>1. w \in {"error"} \cup V
    BY <1>1
  <2> HIDE DEF w
  <2>2. Message("response", w, 1) \in WireMessages
    BY <1>3, <1>4, <2>1
  <2> QED
    BY <2>2 DEF w
<1> QED
  BY <1>3, <1>4, <1>5

\* What an encoder does to its own direction and to the other.
LEMMA EncodeFlows ==
  ASSUME WireTypes, NEW e \in Ends, Flows(e), NEW m \in WireMessages, Encode(e, m)
  PROVE  /\ out' \in [Ends -> Seq(Bytes)] /\ encoded' \in [Ends -> Seq(WireMessages)]
         /\ \A d \in Ends : d # e => out'[d] = out[d] /\ encoded'[d] = encoded[d]
         /\ encoded'[e] = Append(encoded[e], m) /\ encoded'[e] # <<>>
         /\ encoded'[e][1] = IF encoded[e] = <<>> THEN m ELSE encoded[e][1]
         /\ cut' = cut /\ arrived'[e] = arrived[e] /\ decoded'[e] = decoded[e] => Flows(e)'
<1>1. out[e] = <<>> /\ ~cut /\ out' = [out EXCEPT ![e] = Frame(m)]
      /\ encoded' = [encoded EXCEPT ![e] = Append(encoded[e], m)]
  BY DEF Encode
<1>2. Frame(m) \in Seq(Bytes) /\ encoded[e] \in Seq(WireMessages)
  BY FrameIs DEF WireTypes
<1>3. Append(encoded[e], m) \in Seq(WireMessages) /\ Append(encoded[e], m) # <<>>
      /\ Append(encoded[e], m)[1] = IF encoded[e] = <<>> THEN m ELSE encoded[e][1]
  <2> DEFINE s == encoded[e]
             t == Append(s, m)
  <2>1. s \in Seq(WireMessages) /\ t \in Seq(WireMessages) /\ Len(t) = Len(s) + 1
        /\ t[Len(s) + 1] = m /\ (\A i \in 1..Len(s) : t[i] = s[i]) /\ Len(s) \in Nat
    BY <1>2, AppendProperties
  <2> HIDE DEF s, t
  <2>2. t # <<>>
    BY <2>1
  <2>3. CASE s = <<>>
    <3>1. Len(s) + 1 = 1
      BY <2>3
    <3> QED
      BY <2>1, <2>2, <2>3, <3>1 DEF s, t
  <2>4. CASE s # <<>>
    <3>1. 1 \in 1..Len(s)
      BY <2>1, <2>4
    <3> QED
      BY <2>1, <2>2, <2>4, <3>1 DEF s, t
  <2> QED
    BY <2>3, <2>4
<1>4. out'[e] = Frame(m) /\ encoded'[e] = Append(encoded[e], m)
      /\ \A d \in Ends : d # e => out'[d] = out[d] /\ encoded'[d] = encoded[d]
  BY <1>1 DEF WireTypes
<1>5. out' \in [Ends -> Seq(Bytes)] /\ encoded' \in [Ends -> Seq(WireMessages)]
  BY <1>1, <1>2, <1>3 DEF WireTypes
<1>6. ASSUME cut' = cut, arrived'[e] = arrived[e], decoded'[e] = decoded[e] PROVE Flows(e)'
  <2>1. Direction(arrived[e], <<>>, encoded[e], decoded[e], cut)
    BY <1>1 DEF Flows
  <2>2. Direction(arrived[e], Frame(m), Append(encoded[e], m), decoded[e], cut)
    BY <1>1, <2>1, DirectionEncode
  <2> QED
    BY <1>4, <1>6, <2>2 DEF Flows
<1> QED
  BY <1>3, <1>4, <1>5, <1>6

\* What a decoder does to the direction it reads and to the other: it gets the next message.
LEMMA DecodeFlows ==
  ASSUME WireTypes, NEW e \in Ends, Flows(e), NEW m, Decode(e, m)
  PROVE  /\ arrived' \in [Ends -> Seq(Bytes)] /\ decoded' \in [Ends -> Seq(WireMessages)]
         /\ \A d \in Ends : d # e => arrived'[d] = arrived[d] /\ decoded'[d] = decoded[d]
         /\ Len(decoded[e]) + 1 \in 1..Len(encoded[e]) /\ m = encoded[e][Len(decoded[e]) + 1]
         /\ m \in WireMessages /\ encoded[e] # <<>> /\ (decoded[e] = <<>> => m = encoded[e][1])
         /\ cut' = cut /\ out'[e] = out[e] /\ encoded'[e] = encoded[e] => Flows(e)'
<1> DEFINE a == arrived[e]
           t == SubSeq(a, FrameLength(a) + 1, Len(a))
<1>1. Complete(a) /\ m = Decoded(a) /\ arrived' = [arrived EXCEPT ![e] = t]
      /\ decoded' = [decoded EXCEPT ![e] = Append(decoded[e], m)]
  BY DEF Decode
<1>2. Direction(a, out[e], encoded[e], decoded[e], cut)
  BY DEF Flows
<1>3. Len(decoded[e]) + 1 \in 1..Len(encoded[e]) /\ m = encoded[e][Len(decoded[e]) + 1]
      /\ Direction(t, out[e], encoded[e], Append(decoded[e], m), cut)
  BY <1>1, <1>2, DirectionDecode
<1> HIDE DEF a, t
<1>4. t \in Seq(Bytes) /\ Append(decoded[e], m) \in Seq(WireMessages) /\ encoded[e] \in Seq(WireMessages)
  BY <1>3 DEF Direction
<1>5. m \in WireMessages /\ encoded[e] # <<>>
  BY <1>3, <1>4
<1>6. decoded[e] = <<>> => m = encoded[e][1]
  BY <1>3
<1>7. arrived'[e] = t /\ decoded'[e] = Append(decoded[e], m)
      /\ \A d \in Ends : d # e => arrived'[d] = arrived[d] /\ decoded'[d] = decoded[d]
  BY <1>1 DEF WireTypes
<1>8. arrived' \in [Ends -> Seq(Bytes)] /\ decoded' \in [Ends -> Seq(WireMessages)]
  BY <1>1, <1>4 DEF WireTypes
<1>9. ASSUME cut' = cut, out'[e] = out[e], encoded'[e] = encoded[e] PROVE Flows(e)'
  BY <1>3, <1>7, <1>9 DEF Flows
<1> QED
  BY <1>3, <1>5, <1>6, <1>7, <1>8, <1>9

\* Where nothing of a direction moves it flows on.
LEMMA QuietFlows ==
  ASSUME NEW e \in Ends, Flows(e), cut' = cut, out'[e] = out[e], arrived'[e] = arrived[e],
         encoded'[e] = encoded[e], decoded'[e] = decoded[e]
  PROVE  Flows(e)'
  BY DEF Flows

\* What the direction's flow means: whole frames, in order.
LEMMA FlowIsWhole ==
  ASSUME WireTypes, NEW e \in Ends, Flows(e)
  PROVE  Len(decoded[e]) <= Len(encoded[e]) /\ decoded[e] = SubSeq(encoded[e], 1, Len(decoded[e]))
<1>1. encoded[e] \in Seq(WireMessages) /\ decoded[e] \in Seq(WireMessages) /\ Len(decoded[e]) <= Len(encoded[e])
      /\ \A i \in 1..Len(decoded[e]) : decoded[e][i] = encoded[e][i]
  BY DEF Flows, Direction
<1> DEFINE enc == encoded[e]
           dec == decoded[e]
           s == SubSeq(enc, 1, Len(dec))
<1>2. Len(dec) \in Nat /\ Len(enc) \in Nat
  BY <1>1
<1>3. CASE dec = <<>>
  BY <1>1, <1>3
<1>4. CASE dec # <<>>
  <2>1. Len(dec) >= 1
    BY <1>1, <1>4
  <2>2. s \in Seq(WireMessages) /\ Len(s) = Len(dec) /\ \A i \in 1..Len(dec) : s[i] = enc[i]
    BY <1>1, <1>2, <2>1, SubSeqProperties
  <2> HIDE DEF s
  <2>3. dec = s
    BY <1>1, <2>2, SeqEqual
  <2> QED
    BY <1>1, <2>3 DEF s
<1> QED
  BY <1>3, <1>4

\* Nothing is wrong at the start.
LEMMA WireStart ==
  ASSUME WireInit
  PROVE  WireInv
<1>1. \A e \in Ends : out[e] = <<>> /\ arrived[e] = <<>> /\ encoded[e] = <<>> /\ decoded[e] = <<>>
  BY DEF WireInit
<1>2. WireTypes
  <2>1. <<>> \in Seq(Bytes) /\ <<>> \in Seq(WireMessages)
    OBVIOUS
  <2> DEFINE f == [e \in Ends |-> <<>>]
  <2>2. f \in [Ends -> Seq(Bytes)] /\ f \in [Ends -> Seq(WireMessages)]
    BY <2>1
  <2>3. out = f /\ arrived = f /\ encoded = f /\ decoded = f
    BY DEF WireInit
  <2> HIDE DEF f
  <2>4. offer \subseteq Offered /\ cut \in BOOLEAN
    BY DEF WireInit
  <2> QED
    BY <2>2, <2>3, <2>4 DEF WireTypes
<1>3. ASSUME NEW e \in Ends PROVE Flows(e)
  <2> DEFINE p == [k \in 0..0 |-> 0]
  <2>1. Len(<<>>) = 0 /\ <<>> \o <<>> = <<>> /\ p \in [0..0 -> Nat] /\ p[0] = 0
    OBVIOUS
  <2>2. Ruler(p, <<>>)
    BY <2>1 DEF Ruler
  <2>3. Continues(<<>>, <<>>, 0, p) /\ Len(<<>>) + p[0] = p[Len(<<>>)]
    BY <2>1 DEF Continues
  <2> HIDE DEF p
  <2>4. Direction(<<>>, <<>>, <<>>, <<>>, cut)
    BY <2>1, <2>2, <2>3 DEF Direction
  <2> QED
    BY <1>1, <2>4 DEF Flows
<1>4. TurnsAreKept /\ HandshakeIsExact
  BY <1>1 DEF WireInit, TurnsAreKept, HandshakeIsExact, Ends
<1> QED
  BY <1>2, <1>3, <1>4 DEF WireInv

\* The answer that is due stays due while neither of the two messages changes.
LEMMA AnswerStays ==
  ASSUME AnswerIsDue, offer' = offer, encoded'["client"] # <<>>,
         encoded'["client"][1] = encoded["client"][1], encoded'["server"][1] = encoded["server"][1]
  PROVE  AnswerIsDue'
<1>1. Common' = Common
  BY DEF Common
<1>2. Picked' = Picked
  BY <1>1 DEF Picked
<1> QED
  BY <1>1, <1>2 DEF AnswerIsDue, Message

\* The handshake's outcome stands while nothing it rests on changes.
LEMMA OutcomeStays ==
  ASSUME HandshakeIsExact, offer' = offer, cli' = cli, agreed' = agreed, cut => cut',
         encoded["client"] # <<>> => encoded'["client"] # <<>> /\ encoded'["client"][1] = encoded["client"][1],
         encoded["client"] = <<>> => encoded'["client"] = <<>> \/ cli \notin {"ready", "refused"}
  PROVE  HandshakeIsExact'
<1>1. Common' = Common
  BY DEF Common
<1>2. Picked' = Picked
  BY <1>1 DEF Picked
<1> QED
  BY <1>1, <1>2 DEF HandshakeIsExact

\* The types and the flows stay when one end encodes and nothing else moves.
LEMMA EncodeKeeps ==
  ASSUME WireTypes, \A d \in Ends : Flows(d), NEW e \in Ends, NEW m \in WireMessages, Encode(e, m),
         UNCHANGED <<offer, arrived, decoded, cut>>
  PROVE  WireTypes' /\ \A d \in Ends : Flows(d)'
<1>1. /\ out' \in [Ends -> Seq(Bytes)] /\ encoded' \in [Ends -> Seq(WireMessages)]
      /\ \A d \in Ends : d # e => out'[d] = out[d] /\ encoded'[d] = encoded[d]
      /\ Flows(e)'
  BY EncodeFlows
<1>2. WireTypes'
  BY <1>1 DEF WireTypes
<1>3. ASSUME NEW d \in Ends, d # e PROVE Flows(d)'
  BY <1>1, <1>3, QuietFlows
<1> QED
  BY <1>1, <1>2, <1>3

\* And when one end decodes.
LEMMA DecodeKeeps ==
  ASSUME WireTypes, \A d \in Ends : Flows(d), NEW e \in Ends, NEW m, Decode(e, m),
         UNCHANGED <<offer, out, encoded, cut>>
  PROVE  WireTypes' /\ \A d \in Ends : Flows(d)'
<1>1. /\ arrived' \in [Ends -> Seq(Bytes)] /\ decoded' \in [Ends -> Seq(WireMessages)]
      /\ \A d \in Ends : d # e => arrived'[d] = arrived[d] /\ decoded'[d] = decoded[d]
      /\ Flows(e)'
  BY DecodeFlows
<1>2. WireTypes'
  BY <1>1 DEF WireTypes
<1>3. ASSUME NEW d \in Ends, d # e PROVE Flows(d)'
  BY <1>1, <1>3, QuietFlows
<1> QED
  BY <1>1, <1>2, <1>3

\* The client's steps keep the invariant.
LEMMA ClientSteps ==
  ASSUME WireInv, ClientHello \/ ClientHandshake \/ ClientRequest \/ ClientReceive \/ ClientEof
  PROVE  WireInv'
<1> USE DEF WireInv
<1>e. "client" \in Ends /\ "server" \in Ends
  BY DEF Ends
<1>1. ASSUME ClientHello PROVE WireInv'
  <2>1. PICK what \in {"initialize", "other"} : Encode("client", Message("request", what, 1))
    BY <1>1 DEF ClientHello
  <2>2. Message("request", what, 1) \in WireMessages
    BY MessagesAre
  <2>3. UNCHANGED <<offer, srv, agreed, sink, answering, arrived, decoded, cut>> /\ cli = "start" /\ cli' = "await"
    BY <1>1 DEF ClientHello
  <2>4. WireTypes' /\ \A d \in Ends : Flows(d)'
    BY <1>e, <2>1, <2>2, <2>3, EncodeKeeps
  <2>5. encoded'["server"] = encoded["server"] /\ encoded'["client"] # <<>>
        /\ (encoded["client"] # <<>> => encoded'["client"][1] = encoded["client"][1])
    BY <1>e, <2>1, <2>2, EncodeFlows
  <2>6. encoded["server"] # <<>> => AnswerIsDue'
    BY <2>3, <2>5, AnswerStays DEF TurnsAreKept, AnswerIsDue
  <2>7. TurnsAreKept'
    BY <2>3, <2>5, <2>6 DEF TurnsAreKept
  <2>8. HandshakeIsExact'
    BY <2>3 DEF HandshakeIsExact
  <2> QED
    BY <2>4, <2>7, <2>8
<1>2. ASSUME ClientHandshake PROVE WireInv'
  <2> DEFINE m == Decoded(arrived["server"])
  <2>1. /\ cli = "await" /\ Decode("server", m) /\ UNCHANGED <<offer, srv, sink, answering, out, encoded, cut>>
        /\ cli' = CASE m.kind = "response" /\ m.what = "error" -> "refused"
                    [] m.kind = "response" /\ m.what \in offer \ {"error"} -> "ready"
                    [] OTHER -> "unexpected"
        /\ agreed' = IF cli' = "ready" THEN m.what ELSE agreed
    BY <1>2 DEF ClientHandshake
  <2> HIDE DEF m
  <2>2. WireTypes' /\ \A d \in Ends : Flows(d)'
    BY <1>e, <2>1, DecodeKeeps
  <2>3. decoded["server"] = <<>>
    BY <2>1 DEF TurnsAreKept
  <2>4. encoded["server"] # <<>> /\ m = encoded["server"][1] /\ decoded'["client"] = decoded["client"]
    BY <1>e, <2>1, <2>3, DecodeFlows
  <2>5. AnswerIsDue
    BY <2>4 DEF TurnsAreKept
  <2> DEFINE due == encoded["client"][1].what = "initialize" /\ Common # {}
             w == IF due THEN Picked ELSE "error"
  <2>6. m = Message("response", w, 1) /\ encoded["client"] # <<>>
    BY <2>4, <2>5 DEF AnswerIsDue
  <2>7. m.kind = "response" /\ m.what = w
    BY <2>6 DEF Message
  <2>8. Common' = Common /\ Picked' = Picked
    <3>1. Common' = Common
      BY <2>1 DEF Common
    <3> QED
      BY <3>1 DEF Picked
  <2>9. HandshakeIsExact'
    <3>1. CASE due
      <4>1. w \in offer /\ w = Picked /\ w # "error"
        BY <3>1, PickedIsCommon, WireAssumption DEF WireTypes
      <4>2. cli' = "ready" /\ agreed' = Picked
        BY <2>1, <2>7, <4>1
      <4> QED
        BY <2>1, <2>6, <2>8, <3>1, <4>2 DEF HandshakeIsExact
    <3>2. CASE ~due
      <4>1. w = "error"
        BY <3>2
      <4>2. cli' = "refused"
        BY <2>1, <2>7, <4>1
      <4>3. encoded["client"][1].what # "initialize" \/ Common = {}
        BY <3>2
      <4> QED
        BY <2>1, <2>8, <4>2, <4>3 DEF HandshakeIsExact
    <3> QED
      BY <3>1, <3>2
  <2>10. AnswerIsDue'
    BY <2>1, <2>5, <2>6, AnswerStays
  <2>11. TurnsAreKept'
    <3>1. cli' \notin {"start", "await"}
      BY <2>1
    <3> QED
      BY <2>1, <2>4, <2>10, <3>1 DEF TurnsAreKept
  <2> QED
    BY <2>2, <2>9, <2>11
<1>3. ASSUME ClientRequest PROVE WireInv'
  <2>1. cli = "ready" /\ UNCHANGED <<offer, srv, agreed, sink, answering, arrived, decoded, cut>>
    BY <1>3 DEF ClientRequest
  <2>2. encoded["client"] # <<>>
    BY <2>1 DEF HandshakeIsExact
  <2>3. CASE cli' = "gone" /\ UNCHANGED <<out, encoded>>
    <3>1. WireTypes' /\ \A d \in Ends : Flows(d)'
      <4>1. WireTypes'
        BY <2>1, <2>3 DEF WireTypes
      <4> QED
        BY <2>1, <2>3, <4>1, QuietFlows
    <3>2. encoded["server"] # <<>> => AnswerIsDue'
      BY <2>1, <2>2, <2>3, AnswerStays DEF TurnsAreKept
    <3>3. TurnsAreKept' /\ HandshakeIsExact'
      BY <2>1, <2>3, <3>2 DEF TurnsAreKept, HandshakeIsExact
    <3> QED
      BY <3>1, <3>3
  <2>4. ASSUME NEW n \in 1..MaxMessage, Encode("client", Message("request", "other", n)), cli' = cli PROVE WireInv'
    <3>1. Message("request", "other", n) \in WireMessages
      BY MessagesAre
    <3>2. WireTypes' /\ \A d \in Ends : Flows(d)'
      BY <1>e, <2>1, <2>4, <3>1, EncodeKeeps
    <3>3. encoded'["server"] = encoded["server"] /\ encoded'["client"] # <<>> /\ encoded'["client"][1] = encoded["client"][1]
      BY <1>e, <2>2, <2>4, <3>1, EncodeFlows
    <3>4. encoded["server"] # <<>> => AnswerIsDue'
      BY <2>1, <3>3, AnswerStays DEF TurnsAreKept
    <3>5. HandshakeIsExact'
      BY <2>1, <2>2, <2>4, <3>3, OutcomeStays
    <3>6. TurnsAreKept'
      BY <2>1, <2>4, <3>3, <3>4 DEF TurnsAreKept
    <3> QED
      BY <3>2, <3>5, <3>6
  <2> QED
    BY <1>3, <2>3, <2>4 DEF ClientRequest
<1>4. ASSUME ClientReceive PROVE WireInv'
  <2>1. cli = "ready" /\ UNCHANGED <<offer, cli, srv, agreed, sink, answering, out, encoded, cut>>
        /\ Decode("server", Decoded(arrived["server"]))
    BY <1>4 DEF ClientReceive
  <2>2. WireTypes' /\ \A d \in Ends : Flows(d)'
    BY <1>e, <2>1, DecodeKeeps
  <2>3. decoded'["client"] = decoded["client"]
    BY <1>e, <2>1, DecodeFlows
  <2>4. encoded["client"] # <<>> /\ HandshakeIsExact'
    BY <2>1, OutcomeStays DEF HandshakeIsExact
  <2>5. encoded["server"] # <<>> => AnswerIsDue'
    BY <2>1, <2>4, AnswerStays DEF TurnsAreKept
  <2>6. TurnsAreKept'
    BY <2>1, <2>3, <2>5 DEF TurnsAreKept
  <2> QED
    BY <2>2, <2>4, <2>6
<1>5. ASSUME ClientEof PROVE WireInv'
  <2>1. /\ cli \in {"await", "ready"} /\ Eof("server") /\ cli' = IF cli = "await" THEN "unexpected" ELSE "gone"
        /\ UNCHANGED <<offer, srv, agreed, sink, answering, out, arrived, encoded, decoded, cut>>
    BY <1>5 DEF ClientEof
  <2>2. WireTypes' /\ \A d \in Ends : Flows(d)'
    <3>1. WireTypes'
      BY <2>1 DEF WireTypes
    <3> QED
      BY <2>1, <3>1, QuietFlows
  <2>3. cli = "await" => cut
    <3> SUFFICES ASSUME cli = "await", ~cut PROVE FALSE
      OBVIOUS
    <3>1. srv = "closed" /\ out["server"] = <<>> /\ ~Complete(arrived["server"])
      BY <2>1 DEF Eof
    <3>2. encoded["server"] # <<>> /\ decoded["server"] = <<>>
      BY <3>1 DEF TurnsAreKept
    <3>3. AnswerIsDue
      BY <3>2 DEF TurnsAreKept
    <3>4. encoded["server"][1].size = 1
      BY <3>3 DEF AnswerIsDue, Message
    <3>5. encoded["server"] \in Seq(WireMessages)
      BY <1>e DEF WireTypes
    <3>6. Len(decoded["server"]) + 1 = 1 /\ 1 <= Len(encoded["server"])
      BY <3>2, <3>5
    <3>7. 1 <= MaxMessage
      BY WireAssumption
    <3>8. Direction(arrived["server"], <<>>, encoded["server"], decoded["server"], cut)
      BY <1>e, <3>1 DEF Flows
    <3>9. Complete(arrived["server"])
      BY <3>4, <3>6, <3>7, <3>8, DirectionWhole
    <3> QED
      BY <3>1, <3>9
  <2>4. encoded["server"] # <<>> => AnswerIsDue'
    BY <2>1, AnswerStays DEF TurnsAreKept, AnswerIsDue
  <2>5. HandshakeIsExact' /\ TurnsAreKept'
    BY <2>1, <2>3, <2>4 DEF HandshakeIsExact, TurnsAreKept
  <2> QED
    BY <2>2, <2>5
<1> QED
  BY <1>1, <1>2, <1>3, <1>4, <1>5

\* The daemon's steps keep it.
LEMMA ServerSteps ==
  ASSUME WireInv,
         ServerHandshake \/ HandshakeDone \/ ServerReceive \/ Respond \/ Notify \/ SendDone \/ ServerEof
  PROVE  WireInv'
<1> USE DEF WireInv
<1>e. "client" \in Ends /\ "server" \in Ends
  BY DEF Ends
\* A step that only the daemon's own state takes part in.
<1>q. ASSUME UNCHANGED <<offer, cli, agreed, out, arrived, encoded, decoded, cut>>,
             srv' \in {srv, "closed", "serving"}, srv' = "serving" => srv # "await",
             srv # "await" \/ srv' = "await" \/ cut \/ cli \notin {"start", "await"},
             srv = "closed" => srv' = "closed"
      PROVE  WireInv'
  <2>1. WireTypes' /\ \A d \in Ends : Flows(d)'
    <3>1. WireTypes'
      BY <1>q DEF WireTypes
    <3> QED
      BY <1>q, <3>1, QuietFlows
  <2>2. encoded["server"] # <<>> => AnswerIsDue'
    BY <1>q, AnswerStays DEF TurnsAreKept, AnswerIsDue
  <2>3. HandshakeIsExact'
    BY <1>q, OutcomeStays
  <2>4. srv' # "await" /\ (srv' = "closed" => ~cut /\ cli \in {"start", "await"}) => encoded["server"] # <<>>
    BY <1>q DEF TurnsAreKept
  <2>5. srv' = "await" => srv = "await"
    BY <1>q
  <2>6. TurnsAreKept'
    BY <1>q, <2>2, <2>4, <2>5 DEF TurnsAreKept
  <2> QED
    BY <2>1, <2>3, <2>6
\* A message after the first.
<1>m. ASSUME NEW m \in WireMessages, Encode("server", m), srv = "serving", srv' = "serving",
             UNCHANGED <<offer, cli, agreed, arrived, decoded, cut>>
      PROVE  WireInv'
  <2>1. WireTypes' /\ \A d \in Ends : Flows(d)'
    BY <1>e, <1>m, EncodeKeeps
  <2>2. encoded["server"] # <<>>
    BY <1>m DEF TurnsAreKept
  <2>3. encoded'["client"] = encoded["client"] /\ encoded'["server"] # <<>> /\ encoded'["server"][1] = encoded["server"][1]
    BY <1>e, <1>m, <2>2, EncodeFlows
  <2>4. AnswerIsDue'
    BY <1>m, <2>2, <2>3, AnswerStays DEF TurnsAreKept, AnswerIsDue
  <2>5. HandshakeIsExact'
    BY <1>m, <2>3, OutcomeStays
  <2>6. TurnsAreKept'
    BY <1>m, <2>3, <2>4 DEF TurnsAreKept
  <2> QED
    BY <2>1, <2>5, <2>6
<1>1. ASSUME ServerHandshake PROVE WireInv'
  <2> DEFINE m == Decoded(arrived["client"])
             w == IF m.what = "initialize" /\ Common # {} THEN Picked ELSE "error"
             r == Message("response", w, 1)
  <2>1. srv = "await" /\ srv' = "reply" /\ Decode("client", m) /\ Encode("server", r)
        /\ UNCHANGED <<offer, cli, agreed, sink, answering, cut>>
    BY <1>1 DEF ServerHandshake
  <2>2. r \in WireMessages
    <3>1. PICK b \in BOOLEAN : b = (m.what = "initialize")
      OBVIOUS
    <3>2. Message("response", IF b /\ Common # {} THEN Picked ELSE "error", 1) \in WireMessages
      BY MessagesAre
    <3> QED
      BY <3>1, <3>2
  <2> HIDE DEF m, r
  <2>3. encoded["server"] = <<>> /\ decoded["client"] = <<>>
    BY <2>1 DEF TurnsAreKept
  <2>4. /\ out' \in [Ends -> Seq(Bytes)] /\ encoded' \in [Ends -> Seq(WireMessages)]
        /\ out'["client"] = out["client"] /\ encoded'["client"] = encoded["client"]
        /\ encoded'["server"] # <<>> /\ encoded'["server"][1] = r
        /\ (arrived'["server"] = arrived["server"] /\ decoded'["server"] = decoded["server"] => Flows("server")')
    BY <1>e, <2>1, <2>2, <2>3, EncodeFlows
  <2>5. /\ arrived' \in [Ends -> Seq(Bytes)] /\ decoded' \in [Ends -> Seq(WireMessages)]
        /\ arrived'["server"] = arrived["server"] /\ decoded'["server"] = decoded["server"]
        /\ encoded["client"] # <<>> /\ m = encoded["client"][1]
        /\ (out'["client"] = out["client"] /\ encoded'["client"] = encoded["client"] => Flows("client")')
    BY <1>e, <2>1, <2>3, DecodeFlows
  <2>6. WireTypes' /\ \A d \in Ends : Flows(d)'
    <3>1. Flows("client")' /\ Flows("server")'
      BY <2>4, <2>5
    <3>2. \A d \in Ends : d = "client" \/ d = "server"
      BY DEF Ends
    <3>3. WireTypes'
      BY <2>1, <2>4, <2>5 DEF WireTypes
    <3> QED
      BY <3>1, <3>2, <3>3
  <2>7. Common' = Common /\ Picked' = Picked
    <3>1. Common' = Common
      BY <2>1 DEF Common
    <3> QED
      BY <3>1 DEF Picked
  <2>8. AnswerIsDue'
    BY <2>4, <2>5, <2>7 DEF AnswerIsDue, r, Message
  <2>9. HandshakeIsExact'
    BY <2>1, <2>4, OutcomeStays
  <2>10. TurnsAreKept'
    BY <2>1, <2>4, <2>5, <2>8 DEF TurnsAreKept
  <2> QED
    BY <2>6, <2>9, <2>10
<1>2. ASSUME HandshakeDone PROVE WireInv'
  <2>1. srv = "reply" /\ srv' \in {"closed", "serving"}
        /\ UNCHANGED <<offer, cli, agreed, out, arrived, encoded, decoded, cut>>
    BY <1>2 DEF HandshakeDone
  <2> QED
    BY <1>q, <2>1
<1>3. ASSUME ServerReceive PROVE WireInv'
  <2>1. srv = "serving" /\ Decode("client", Decoded(arrived["client"]))
        /\ UNCHANGED <<offer, cli, srv, agreed, sink, out, encoded, cut>>
    BY <1>3 DEF ServerReceive
  <2>2. WireTypes' /\ \A d \in Ends : Flows(d)'
    BY <1>e, <2>1, DecodeKeeps
  <2>3. decoded'["server"] = decoded["server"]
    BY <1>e, <2>1, DecodeFlows
  <2>4. encoded["server"] # <<>> => AnswerIsDue'
    BY <2>1, AnswerStays DEF TurnsAreKept, AnswerIsDue
  <2>5. HandshakeIsExact'
    BY <2>1, OutcomeStays
  <2>6. TurnsAreKept'
    BY <2>1, <2>3, <2>4 DEF TurnsAreKept
  <2> QED
    BY <2>2, <2>5, <2>6
<1>4. ASSUME Respond PROVE WireInv'
  <2>1. srv = "serving" /\ UNCHANGED <<offer, cli, agreed, arrived, decoded, cut>>
    BY <1>4 DEF Respond
  <2>2. CASE srv' = "closed" /\ UNCHANGED <<sink, out, encoded>>
    BY <1>q, <2>1, <2>2
  <2>3. ASSUME NEW n \in 1..MaxMessage, Encode("server", Message("response", "other", n)), srv' = srv PROVE WireInv'
    <3>1. Message("response", "other", n) \in WireMessages
      BY MessagesAre
    <3> QED
      BY <1>m, <2>1, <2>3, <3>1
  <2> QED
    BY <1>4, <2>2, <2>3 DEF Respond
<1>5. ASSUME Notify PROVE WireInv'
  <2>1. srv = "serving" /\ srv' = srv /\ Encode("server", Message("note", "none", 1))
        /\ UNCHANGED <<offer, cli, agreed, arrived, decoded, cut>>
    BY <1>5 DEF Notify
  <2>2. Message("note", "none", 1) \in WireMessages
    BY MessagesAre
  <2> QED
    BY <1>m, <2>1, <2>2
<1>6. ASSUME SendDone PROVE WireInv'
  <2>1. UNCHANGED <<offer, cli, srv, agreed, out, arrived, encoded, decoded, cut>>
    BY <1>6 DEF SendDone
  <2>2. CASE srv = "serving"
    BY <1>q, <2>1, <2>2
  <2>3. CASE srv # "serving"
    BY <1>q, <2>1, <2>3
  <2> QED
    BY <2>2, <2>3
<1>7. ASSUME ServerEof PROVE WireInv'
  <2>1. srv \in {"await", "serving"} /\ srv' = "closed" /\ (cut \/ Eof("client"))
        /\ UNCHANGED <<offer, cli, agreed, out, arrived, encoded, decoded, cut>>
    BY <1>7 DEF ServerEof
  <2>2. cut \/ cli \notin {"start", "await"}
    BY <2>1 DEF Eof
  <2> QED
    BY <1>q, <2>1, <2>2
<1> QED
  BY <1>1, <1>2, <1>3, <1>4, <1>5, <1>6, <1>7

\* The stream's steps keep it.
LEMMA StreamSteps ==
  ASSUME WireInv, Flushes \/ Break
  PROVE  WireInv'
<1> USE DEF WireInv
<1>1. ASSUME Flushes PROVE WireInv'
  <2>1. PICK e \in Ends : \E k \in 1..Len(out[e]) : Flush(e, k)
    BY <1>1 DEF Flushes
  <2>2. PICK k \in 1..Len(out[e]) : Flush(e, k)
    BY <2>1
  <2> DEFINE f == SubSeq(out[e], 1, k)
             g == SubSeq(out[e], k + 1, Len(out[e]))
  <2>3. /\ ~cut /\ arrived' = [arrived EXCEPT ![e] = arrived[e] \o f] /\ out' = [out EXCEPT ![e] = g]
        /\ UNCHANGED <<offer, cli, srv, agreed, sink, answering, encoded, decoded, cut>>
    BY <2>2 DEF Flush
  <2>4. Direction(arrived[e], out[e], encoded[e], decoded[e], cut)
    BY DEF Flows
  <2>5. Direction(arrived[e] \o f, g, encoded[e], decoded[e], cut)
    BY <2>3, <2>4, DirectionFlush
  <2> HIDE DEF f, g
  <2> DEFINE h == arrived[e] \o f
  <2>6. h \in Seq(Bytes) /\ g \in Seq(Bytes)
    BY <2>5 DEF Direction
  <2>7. arrived'[e] = h /\ out'[e] = g /\ \A d \in Ends : d # e => arrived'[d] = arrived[d] /\ out'[d] = out[d]
    BY <2>3 DEF WireTypes
  <2>8. arrived' \in [Ends -> Seq(Bytes)] /\ out' \in [Ends -> Seq(Bytes)]
    <3> HIDE DEF h
    <3>1. arrived' = [arrived EXCEPT ![e] = h]
      BY <2>3 DEF h
    <3> QED
      BY <2>3, <2>6, <3>1 DEF WireTypes
  <2>9. WireTypes'
    BY <2>3, <2>8 DEF WireTypes
  <2>10. Flows(e)'
    BY <2>3, <2>5, <2>7 DEF Flows
  <2>11. ASSUME NEW d \in Ends, d # e PROVE Flows(d)'
    BY <2>3, <2>7, <2>11, QuietFlows
  <2>12. encoded["server"] # <<>> => AnswerIsDue'
    BY <2>3, AnswerStays DEF TurnsAreKept, AnswerIsDue
  <2>13. HandshakeIsExact'
    BY <2>3, OutcomeStays
  <2>14. TurnsAreKept'
    BY <2>3, <2>12 DEF TurnsAreKept
  <2> QED
    BY <2>9, <2>10, <2>11, <2>13, <2>14
<1>2. ASSUME Break PROVE WireInv'
  <2>1. /\ ~cut /\ cut' = TRUE /\ out' = [e \in Ends |-> <<>>]
        /\ UNCHANGED <<offer, cli, srv, agreed, sink, answering, arrived, encoded, decoded>>
    BY <1>2 DEF Break
  <2>2. WireTypes'
    <3>1. <<>> \in Seq(Bytes)
      OBVIOUS
    <3>2. out' \in [Ends -> Seq(Bytes)] /\ cut' \in BOOLEAN
      BY <2>1, <3>1
    <3> QED
      BY <2>1, <3>2 DEF WireTypes
  <2>3. ASSUME NEW d \in Ends PROVE Flows(d)'
    <3>1. Direction(arrived[d], out[d], encoded[d], decoded[d], cut)
      BY DEF Flows
    <3>2. out'[d] = <<>> /\ cut'
      BY <2>1
    <3>3. Direction(arrived[d], <<>>, encoded[d], decoded[d], cut')
      BY <3>1, <3>2, DirectionBreak
    <3> QED
      BY <2>1, <3>2, <3>3 DEF Flows
  <2>4. encoded["server"] # <<>> => AnswerIsDue'
    BY <2>1, AnswerStays DEF TurnsAreKept, AnswerIsDue
  <2>5. HandshakeIsExact'
    BY <2>1, OutcomeStays
  <2>6. TurnsAreKept'
    BY <2>1, <2>4 DEF TurnsAreKept
  <2> QED
    BY <2>2, <2>3, <2>5, <2>6
<1> QED
  BY <1>1, <1>2

\* Nothing changes in a step of the rest of the system.
LEMMA WireStutters ==
  ASSUME WireInv, UNCHANGED wireVars
  PROVE  WireInv'
<1> USE DEF WireInv
<1>1. UNCHANGED <<offer, cli, srv, agreed, out, arrived, encoded, decoded, cut>>
  BY DEF wireVars
<1>2. WireTypes'
  BY <1>1 DEF WireTypes
<1>3. ASSUME NEW d \in Ends PROVE Flows(d)'
  BY <1>1, QuietFlows
<1>4. encoded["server"] # <<>> => AnswerIsDue'
  BY <1>1, AnswerStays DEF TurnsAreKept, AnswerIsDue
<1>5. HandshakeIsExact'
  BY <1>1, OutcomeStays
<1>6. TurnsAreKept'
  BY <1>1, <1>4 DEF TurnsAreKept
<1> QED
  BY <1>2, <1>3, <1>5, <1>6

\* ConnectionIsExact for any versions, frame lengths and number of messages, and any cutting
\* up of the stream: in la-ipc's codec each side decodes the messages the other encoded, whole
\* and in order, and the handshake ends with the server's choice of the common versions or
\* with a refusal.
THEOREM ConnectionStaysExact == WireSpec => []ConnectionIsExact
<1>1. WireInit => WireInv
  BY WireStart
<1>2. WireInv /\ [WireNext]_wireVars => WireInv'
  BY ClientSteps, ServerSteps, StreamSteps, WireStutters DEF WireNext, ClientMoves, ServerMoves
<1>3. WireInv => ConnectionIsExact
  BY FlowIsWhole DEF WireInv, ConnectionIsExact, FramesAreWhole
<1> QED
  BY <1>1, <1>2, <1>3, PTL DEF WireSpec

=============================================================================
