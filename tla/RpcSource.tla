----------------------------- MODULE RpcSource -----------------------------
(***************************************************************************)
(* The session source of the terminal UI (la-tui/source/rpc.rs): a thread  *)
(* of its own keeps a connection to the daemon, runs the commands the UI    *)
(* queues and refreshes a cache, which the UI reads when the generation has *)
(* moved (la-tui/runner.rs, event_loop).  Only sessions.create is awaited,  *)
(* for at most create_timeout.                                              *)
(*                                                                          *)
(* The generation is only compared with the one last read, so `moved`, that *)
(* they differ, stands for the two counters.  projects.create goes the way  *)
(* of sessions.create.                                                      *)
(***************************************************************************)
EXTENDS Naturals, Sequences, FiniteSets

CONSTANTS
  Rows,        \* session ids
  MaxPresses,  \* bound: commands of the UI
  MaxFaults,   \* bound: lost connections and refused requests
  MaxOthers    \* bound: changes made by other clients

VARIABLES
  rows,      \* the daemon's sessions: "none", "open", "archived"
  cache,     \* the snapshot the UI reads
  moved,     \* refresh_gen differs from last_refresh_gen
  uiView,    \* the snapshot in the sidebar
  uiAt,      \* the UI thread: "keys", "snapshot", "wait", "quit"
  awaited,   \* the create the UI waits for: [id, row, answer], id 0 for none
  queue,     \* the command channel
  bg,        \* the thread: [at, batch, mutated, listed, created]
  presses, faults, others,
  done,      \* history: the commands the daemon has carried out, in order
  told,      \* history: sessions a create reported to the UI
  removed    \* history: sessions deleted

sourceVars == <<rows, cache, moved, uiView, uiAt, awaited, queue, bg, presses, faults,
                others, done, told, removed>>
daemonVars == <<rows, done, removed>>

Kinds == {"archive", "delete", "import", "create", "refresh"}
Nobody == [id |-> 0, row |-> 0, answer |-> "none"]
Down == [at |-> "down", batch |-> <<>>, mutated |-> FALSE, listed |-> <<>>, created |-> 0]

SourceInit ==
  /\ rows \in [Rows -> {"none", "open"}]
  /\ cache = [r \in Rows |-> "none"] /\ uiView = cache /\ moved = FALSE
  /\ uiAt = "keys" /\ awaited = Nobody /\ queue = <<>> /\ bg = Down
  /\ presses = 0 /\ faults = 0 /\ others = 0 /\ done = <<>> /\ told = {} /\ removed = {}

-----------------------------------------------------------------------------
(* The UI thread *)

\* archive, delete and import_discovered post a command and return; create_session
\* validates its request, posts it and blocks.
Press ==
  /\ uiAt = "keys" /\ presses < MaxPresses /\ presses' = presses + 1
  /\ \E k \in Kinds, r \in Rows :
       /\ queue' = Append(queue, [id |-> presses + 1, kind |-> k, row |-> r])
       /\ IF k = "create"
          THEN uiAt' = "wait" /\ awaited' = [id |-> presses + 1, row |-> r, answer |-> "none"]
          ELSE UNCHANGED <<uiAt, awaited>>
  /\ UNCHANGED <<daemonVars, cache, moved, uiView, bg, faults, others, told>>

\* The answer is there; after Ok the sidebar is rebuilt from the cache at once.
CreateReturns ==
  /\ uiAt = "wait" /\ awaited.answer # "none" /\ uiAt' = "keys" /\ awaited' = Nobody
  /\ IF awaited.answer = "ok" THEN uiView' = cache /\ told' = told \cup {awaited.row}
     ELSE UNCHANGED <<uiView, told>>
  /\ UNCHANGED <<daemonVars, cache, moved, queue, bg, presses, faults, others>>

\* recv_timeout is over: the UI goes on, and a late answer finds nobody.
CreateTimesOut ==
  /\ uiAt = "wait" /\ awaited.answer = "none" /\ uiAt' = "keys" /\ awaited' = Nobody
  /\ UNCHANGED <<daemonVars, cache, moved, uiView, queue, bg, presses, faults, others, told>>

\* The top of event_loop compares the generations; RefreshSessions takes the snapshot.
ReadGeneration ==
  /\ uiAt = "keys" /\ moved /\ moved' = FALSE /\ uiAt' = "snapshot"
  /\ UNCHANGED <<daemonVars, cache, uiView, awaited, queue, bg, presses, faults, others, told>>

TakeSnapshot ==
  /\ uiAt = "snapshot" /\ uiAt' = "keys" /\ uiView' = cache
  /\ UNCHANGED <<daemonVars, cache, moved, awaited, queue, bg, presses, faults, others, told>>

\* Quit drops the sender.
Quit ==
  /\ uiAt = "keys" /\ uiAt' = "quit"
  /\ UNCHANGED <<daemonVars, cache, moved, uiView, awaited, queue, bg, presses, faults, others, told>>

-----------------------------------------------------------------------------
(* The thread *)

\* The reply channel of a command, if the UI still listens.
Answer(id, answer) ==
  awaited' = IF awaited.id = id /\ awaited.answer = "none" THEN [awaited EXCEPT !.answer = answer]
             ELSE awaited

Keep == UNCHANGED <<uiView, uiAt, queue, presses, others, told>>

\* A request the daemon can carry out.
Accepts(c) ==
  CASE c.kind \in {"archive", "delete"} -> rows[c.row] # "none"
    [] c.kind \in {"create", "import"} -> rows[c.row] = "none" /\ c.row \notin removed
    [] OTHER -> TRUE

Refused == bg.at = "run" /\ bg.batch # <<>> /\ ~Accepts(Head(bg.batch))

\* run_once ends with an error: the batch is dropped, and with it the reply channels in
\* it, which their waiters see; reconnect_loop sleeps and tries again.
ConnectionEnds ==
  /\ bg' = Down /\ faults' = IF Refused THEN faults ELSE faults + 1
  /\ awaited' = IF awaited.id \in {bg.created} \cup {bg.batch[i].id : i \in DOMAIN bg.batch}
                   /\ awaited.id # 0
                THEN [awaited EXCEPT !.answer = "failed"] ELSE awaited

Connect ==
  /\ bg.at = "down" /\ bg' = [bg EXCEPT !.at = "list"]
  /\ Keep /\ UNCHANGED <<daemonVars, cache, moved, awaited, faults>>

\* refresh_cache: list, overwrite the cache, bump the generation; a create is answered
\* only then.
ListRows ==
  /\ bg.at = "list" /\ bg' = [bg EXCEPT !.at = "write", !.listed = rows]
  /\ Keep /\ UNCHANGED <<daemonVars, cache, moved, awaited, faults>>

WriteCache ==
  /\ bg.at = "write" /\ cache' = bg.listed /\ bg' = [bg EXCEPT !.at = "bump", !.listed = <<>>]
  /\ Keep /\ UNCHANGED <<daemonVars, moved, awaited, faults>>

BumpGeneration ==
  /\ bg.at = "bump" /\ moved' = TRUE
  /\ IF bg.created # 0
     THEN Answer(bg.created, "ok") /\ bg' = [bg EXCEPT !.at = "run", !.created = 0]
     ELSE UNCHANGED awaited /\ bg' = [bg EXCEPT !.at = IF bg.batch = <<>> THEN "recv" ELSE "run"]
  /\ Keep /\ UNCHANGED <<daemonVars, cache, faults>>

\* Mutant: without the poll tick.
MutReceive ==
  /\ bg.at = "recv" /\ queue # <<>>
  /\ bg' = [bg EXCEPT !.at = "run", !.batch = queue, !.mutated = FALSE] /\ queue' = <<>>
  /\ UNCHANGED <<daemonVars, cache, moved, uiView, uiAt, awaited, presses, faults, others, told>>

\* The channel first, in one batch; the poll tick if it is empty; the end if it is
\* closed as well.
Receive ==
  /\ bg.at = "recv"
  /\ IF queue # <<>>
     THEN bg' = [bg EXCEPT !.at = "run", !.batch = queue, !.mutated = FALSE] /\ queue' = <<>>
     ELSE /\ bg' = [bg EXCEPT !.at = IF uiAt = "quit" THEN "stopped" ELSE "list"]
          /\ UNCHANGED queue
  /\ UNCHANGED <<daemonVars, cache, moved, uiView, uiAt, awaited, presses, faults, others, told>>

\* What the daemon does with a request it accepts.
Effect(c) ==
  /\ rows' = CASE c.kind = "archive" -> [rows EXCEPT ![c.row] = "archived"]
               [] c.kind = "delete" -> [rows EXCEPT ![c.row] = "none"]
               [] c.kind \in {"create", "import"} -> [rows EXCEPT ![c.row] = "open"]
               [] OTHER -> rows
  /\ done' = IF c.kind = "refresh" \/ c.id = 0 THEN done ELSE Append(done, c.id)
  /\ removed' = IF c.kind = "delete" THEN removed \cup {c.row} ELSE removed

\* Mutant: a create is answered before the refresh.
MutRunCommand ==
  /\ bg.at = "run" /\ bg.batch # <<>>
  /\ LET c == Head(bg.batch) IN
       /\ Accepts(c) /\ Effect(c) /\ Answer(c.id, "ok")
       /\ bg' = [bg EXCEPT !.batch = Tail(@), !.mutated = TRUE]
  /\ Keep /\ UNCHANGED <<cache, moved, faults>>

\* The next command of the batch is sent and answered.  An import of something no
\* adapter lists any more is dropped.
RunCommand ==
  /\ bg.at = "run" /\ bg.batch # <<>>
  /\ LET c == Head(bg.batch) IN
       \/ /\ Accepts(c) /\ Effect(c)
          /\ bg' = IF c.kind = "create"
                   THEN [bg EXCEPT !.at = "list", !.batch = Tail(@), !.created = c.id]
                   ELSE [bg EXCEPT !.batch = Tail(@), !.mutated = TRUE]
       \/ /\ c.kind = "import" /\ bg' = [bg EXCEPT !.batch = Tail(@)]
          /\ UNCHANGED daemonVars
  /\ Keep /\ UNCHANGED <<cache, moved, awaited, faults>>

\* The end of the batch: one refresh for all of it.
BatchEnds ==
  /\ bg.at = "run" /\ bg.batch = <<>>
  /\ bg' = [bg EXCEPT !.at = IF bg.mutated THEN "list" ELSE "recv", !.mutated = FALSE]
  /\ Keep /\ UNCHANGED <<daemonVars, cache, moved, awaited, faults>>

\* The connection is lost, before or after the daemon acts, or the daemon refuses: to
\* the thread these are the same.
RequestFails ==
  /\ bg.at \in {"list", "run"} /\ (faults < MaxFaults \/ Refused)
  /\ \/ UNCHANGED daemonVars
     \/ bg.at = "run" /\ bg.batch # <<>> /\ Accepts(Head(bg.batch)) /\ Effect(Head(bg.batch))
  /\ ConnectionEnds
  /\ Keep /\ UNCHANGED <<cache, moved>>

\* Another client, or an agent, changes the daemon's sessions.
OtherClient ==
  /\ others < MaxOthers /\ others' = others + 1
  /\ \E k \in Kinds \ {"refresh"}, r \in Rows :
       LET c == [id |-> 0, kind |-> k, row |-> r] IN
         Accepts(c) /\ Effect(c)
  /\ UNCHANGED <<cache, moved, uiView, uiAt, awaited, queue, bg, presses, faults, told>>

-----------------------------------------------------------------------------
UiStep == CreateReturns \/ CreateTimesOut \/ ReadGeneration \/ TakeSnapshot
ThreadStep ==
  Connect \/ ListRows \/ WriteCache \/ BumpGeneration \/ Receive \/ RunCommand \/ BatchEnds

SourceNext == Press \/ Quit \/ UiStep \/ ThreadStep \/ RequestFails \/ OtherClient

\* Both threads run; the daemon answers or the connection ends.
SourceFairness == WF_sourceVars(UiStep) /\ WF_sourceVars(ThreadStep \/ RequestFails)

SourceSpec == SourceInit /\ [][SourceNext]_sourceVars /\ SourceFairness

-----------------------------------------------------------------------------
(* Properties *)

\* A snapshot the UI has not taken is announced: unless the thread is just about to
\* bump the generation, a UI that has seen the last generation shows the cache.
NoStaleView == uiAt = "keys" /\ ~moved /\ bg.at # "bump" => uiView = cache

\* Read your write: once create_session has returned a session, the snapshot has it,
\* unless somebody deleted it.
CreatedIsListed == \A r \in told : cache[r] # "none" \/ r \in removed

\* No command is carried out twice or before an earlier one, across lost connections.
CommandsInOrder == \A i, j \in DOMAIN done : i < j => done[i] < done[j]

\* What the UI reads and sends through the cache is what happened.
CacheIsTrusted == NoStaleView /\ CreatedIsListed /\ CommandsInOrder

\* When nobody changes anything any more, the sidebar comes to show what the daemon has.
SidebarCatchesUp == <>[](uiAt = "quit" \/ uiView = rows)

=============================================================================
