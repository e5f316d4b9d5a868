---------------------------- MODULE SchedulerLoop ----------------------------
(***************************************************************************)
(* The scheduling loop of la-scheduler (scheduler.rs): one task that peeks  *)
(* the heap, sleeps until the soonest fire, and on waking emits every due   *)
(* entry; commands and the clock-skew tick interrupt the sleep.  Fires go   *)
(* through a bounded channel to the daemon's executor, so the loop can      *)
(* block in the middle of a pass while the clock moves on.                  *)
(*                                                                          *)
(* Only the loop touches the entry table, so what happens between two       *)
(* awaits of the loop is one action.  The awaits are the select and every   *)
(* send on the fire channel.  Of the consumer, only what decides the        *)
(* arguments of later commands is kept: it takes fires off the channel and  *)
(* advances the watermark that the next upsert of the cron hands back.      *)
(***************************************************************************)
EXTENDS EntryTable, Integers

CONSTANTS
  Configs,        \* what a caller may upsert: [spec, mode, throttle] records
  Backoffs,       \* backoff states the executor may report (BackoffState)
  Deletable,      \* crons a caller deletes (or disables) at run time
  FireCap,        \* FIRE_CHANNEL_CAP
  SkewThreshold,  \* SKEW_THRESHOLD_SECS, in instants
  Jumps,          \* sizes of wall-clock steps the monotonic clock does not see
  MaxTime,        \* bound: the last instant of wall time
  MaxVersion,     \* bound: commands stop bumping versions here
  MaxHeap         \* bound: commands stop pushing heap nodes here

\* What an entry of the table holds (Entry of heap.rs).
Entry ==
  [spec : {k.spec : k \in Configs}, mode : CatchupMode, throttle : Nat,
   last : Nat, next : Nat \cup {None},
   backoff : Backoffs \cup {NoBackoff}, version : Nat]

ASSUME LoopAssumption ==
  /\ FireCap \in Nat \ {0}
  /\ SkewThreshold \in Nat
  /\ Jumps \subseteq Int
  /\ MaxTime \in Nat /\ MaxVersion \in Nat /\ MaxHeap \in Nat
  /\ Deletable \subseteq Crons
  /\ \A k \in Configs : /\ k.spec \subseteq Nat
                        /\ k.mode \in CatchupMode
                        /\ k.throttle \in Nat
  /\ Backoffs \subseteq BackoffState
  /\ None \notin Entry

VARIABLES
  wall,       \* Clock::wall_now
  drift,      \* wall clock minus monotonic clock since the skew anchor
  remaining,  \* monotonic time left to sleep, None when nothing is scheduled
  pc,         \* where the loop is
  task,       \* the pass in progress, NoTask outside of one
  outbox,     \* fires of the pass in progress that are not sent yet
  entries,    \* EntryTable::entries
  heap,       \* EntryTable::heap
  fires,      \* the fire channel
  open,       \* the consumer still holds the receiving end
  persisted,  \* crons.last_fired_at in SQLite
  since,      \* history: from when on the current installation owes its ticks
  handled     \* history: how often each tick was emitted since then (0, 1, 2+)

table   == <<entries, heap>>
clock   == <<wall, drift>>
channel == <<fires, open, persisted>>
history == <<since, handled>>
vars == <<wall, drift, remaining, pc, task, outbox, entries, heap,
          fires, open, persisted, since, handled>>

Time == 0..MaxTime

\* `at' is the popped fire time of a firing pass, the caller's watermark of an
\* installation.
NoTask == [kind |-> "none", id |-> None, now |-> None, at |-> None, config |-> None]

Live == {c \in Crons : entries[c] # None}

-----------------------------------------------------------------------------
(* Emission *)

FireEvent(c, f, now, truncated) ==
  [id |-> c, at |-> f.at, firedAt |-> now, count |-> f.count,
   ticks |-> f.ticks, truncated |-> truncated]

\* process_missed_fires: the events of one cron for the gap (last, now].
CatchupEvents(c, spec, mode, throttle, last, now) ==
  LET outcome == MissedOutcome(spec, last, now, mode, throttle)
  IN  [i \in 1..Len(outcome.fires) |->
         FireEvent(c, outcome.fires[i], now, outcome.truncated # None)]

\* The natural fire of a popped node.
NaturalEvent(n, now) ==
  FireEvent(n.id, [at |-> n.at, count |-> 1, ticks |-> {n.at}], now, FALSE)

\* A send awaits room in the channel.
Send ==
  /\ pc = "emit" /\ outbox # <<>> /\ open
  /\ Len(fires) < FireCap
  /\ LET ev == Head(outbox) IN
       /\ fires' = Append(fires, ev)
       /\ handled' = [handled EXCEPT ![ev.id] =
            [t \in Time |-> IF t \in ev.ticks /\ @[t] < 2 THEN @[t] + 1 ELSE @[t]]]
  /\ outbox' = Tail(outbox)
  /\ UNCHANGED <<clock, remaining, pc, task, table, open, persisted, since>>

\* A send on a closed channel: install_entry returns the error without
\* installing, fire_due_entries returns without re-arming the popped entry,
\* the skew pass goes on with its re-anchoring.
SendFails ==
  /\ pc = "emit" /\ outbox # <<>> /\ ~open
  /\ outbox' = <<>>
  /\ IF task.kind = "skew" THEN UNCHANGED <<pc, task>>
                           ELSE pc' = "top" /\ task' = NoTask
  /\ UNCHANGED <<clock, remaining, table, channel, history>>

-----------------------------------------------------------------------------
(* The loop *)

\* Mutant: an overdue fire is treated as no fire at all.
MutSleepFor(at) == IF at > wall THEN at - wall ELSE None

\* wall_to_instant: how long to sleep for a fire at `at', not at all if overdue.
SleepFor(at) == IF at > wall THEN at - wall ELSE 0

\* Top of run: peek the soonest fire and set the sleep deadline.
PeekAndSleep ==
  /\ pc = "top"
  /\ \/ LiveNodes(entries, heap) = {} /\ remaining' = None
     \/ \E n \in LiveNodes(entries, heap) :
          IsNext(entries, heap, n) /\ remaining' = SleepFor(n.at)
  /\ heap' = Cleaned(entries, heap)
  /\ pc' = "select"
  /\ UNCHANGED <<clock, task, outbox, entries, channel, history>>

\* The sleep arm: re-peek, and start a firing pass if the fire is due by the
\* wall clock.
Wake ==
  /\ pc = "select" /\ remaining = 0
  /\ heap' = Cleaned(entries, heap)
  /\ IF \E n \in LiveNodes(entries, heap) : n.at <= wall
     THEN pc' = "fire" /\ task' = [NoTask EXCEPT !.kind = "fire", !.now = wall]
     ELSE pc' = "top" /\ UNCHANGED task
  /\ UNCHANGED <<clock, remaining, outbox, entries, channel, history>>

\* fire_due_entries, one round: pop the top entry, which is due at the pass's
\* `now', and queue its natural fire and its starvation gap.
PopDue ==
  /\ pc = "fire"
  /\ \E top \in LiveNodes(entries, heap) :
       /\ IsNext(entries, heap, top) /\ top.at <= task.now
       /\ heap' = Cleaned(entries, heap) (-) SetToBag({top})
       /\ task' = [task EXCEPT !.id = top.id, !.at = top.at]
       /\ LET e == entries[top.id] IN
          outbox' = << NaturalEvent(top, task.now) >> \o
            IF top.at < task.now
            THEN CatchupEvents(top.id, e.spec, e.mode, e.throttle, top.at, task.now)
            ELSE <<>>
  /\ pc' = "emit"
  /\ UNCHANGED <<clock, remaining, entries, channel, history>>

\* fire_due_entries, the last round: nothing is due any more.
PassEnds ==
  /\ pc = "fire"
  /\ \A n \in LiveNodes(entries, heap) : n.at > task.now
  /\ heap' = Cleaned(entries, heap)
  /\ pc' = "top" /\ task' = NoTask
  /\ UNCHANGED <<clock, remaining, outbox, entries, channel, history>>

\* fire_due_entries, after the sends: re-arm the entry from the pass's `now'.
FireDone ==
  /\ pc = "emit" /\ task.kind = "fire" /\ outbox = <<>>
  /\ LET c    == task.id
         next == NextEligibleFire(entries[c].spec, task.now, entries[c].backoff)
         last == IF task.at < task.now THEN task.now ELSE task.at
     IN  /\ entries' = [entries EXCEPT ![c] = Refreshed(@, next, last)]
         /\ heap' = Push(heap, next, c, entries[c].version + 1)
  /\ pc' = "fire"
  /\ task' = [task EXCEPT !.id = None, !.at = None]
  /\ UNCHANGED <<clock, remaining, outbox, channel, history>>

\* The skew arm.  Under the threshold nothing happens; over it, every entry's
\* gap since its watermark is resolved (entries in the map's own order).
SkewTick ==
  /\ pc = "select"
  /\ IF drift > SkewThreshold \/ -drift > SkewThreshold
     THEN \E order \in SetToSeqs(Live) :
            /\ outbox' = FlattenSeq([i \in 1..Len(order) |->
                 LET e == entries[order[i]]
                 IN  IF e.last # None /\ e.last < wall
                     THEN CatchupEvents(order[i], e.spec, e.mode, e.throttle, e.last, wall)
                     ELSE <<>>])
            /\ task' = [NoTask EXCEPT !.kind = "skew", !.now = wall]
            /\ pc' = "emit"
     ELSE pc' = "top" /\ UNCHANGED <<task, outbox>>
  /\ UNCHANGED <<clock, remaining, table, channel, history>>

\* Mutant: the skew pass leaves the watermarks where they were.
MutSkewWatermark(e) == None

\* The watermark an entry has after the skew pass, by the second clock reading.
SkewWatermark(e) == IF e.last # None /\ e.last < wall THEN wall ELSE None

\* recompute_all_after_skew, after the sends: re-anchor every entry from a
\* second reading of the clock, then take a new skew anchor.
SkewDone ==
  /\ pc = "emit" /\ task.kind = "skew" /\ outbox = <<>>
  /\ LET NextOf(c) == NextEligibleFire(entries[c].spec, wall, entries[c].backoff)
         pushed  == {c \in Live : NextOf(c) # None}
     IN  /\ entries' = [c \in Crons |->
              IF entries[c] = None THEN None
              ELSE Refreshed(entries[c], NextOf(c), SkewWatermark(entries[c]))]
         /\ heap' = heap (+) SetToBag({[at |-> NextOf(c), id |-> c,
                                        version |-> entries[c].version + 1] : c \in pushed})
  /\ drift' = 0
  /\ pc' = "top" /\ task' = NoTask
  /\ UNCHANGED <<wall, remaining, outbox, channel, history>>

-----------------------------------------------------------------------------
(* Commands: each is applied when the select receives it *)

\* The bounds on what commands may grow.
WithinBounds(c) ==
  /\ entries[c] # None => entries[c].version < MaxVersion
  /\ BagCardinality(heap) < MaxHeap

\* install_entry up to its sends: resolve the gap since the watermark the
\* caller read from SQLite.
Upsert(c, config) ==
  /\ pc = "select" /\ WithinBounds(c)
  /\ task' = [NoTask EXCEPT !.kind = "install", !.id = c, !.now = wall, !.at = persisted[c],
                            !.config = config]
  /\ outbox' = IF persisted[c] # None /\ persisted[c] < wall
               THEN CatchupEvents(c, config.spec, config.mode, config.throttle,
                                  persisted[c], wall)
               ELSE <<>>
  /\ pc' = "emit"
  /\ since' = [since EXCEPT ![c] = IF persisted[c] = None THEN wall ELSE persisted[c]]
  /\ handled' = [handled EXCEPT ![c] = [t \in Time |-> 0]]
  /\ UNCHANGED <<clock, remaining, table, channel>>

\* The watermark install_entry stores: the pass's `now', unless the caller's
\* lies in the future.
InstalledWatermark(last, now) == IF last # None /\ last > now THEN last ELSE now

\* install_entry after its sends.
InstallDone ==
  /\ pc = "emit" /\ task.kind = "install" /\ outbox = <<>>
  /\ LET c    == task.id
         next == NextEligibleFire(task.config.spec, task.now, PreservedBackoff(entries, c))
     IN  /\ entries' = UpsertEntries(entries, c, task.config.spec, task.config.mode,
                                     task.config.throttle,
                                     InstalledWatermark(task.at, task.now), next)
         /\ heap' = Push(heap, next, c, NextVersion(entries, c))
  /\ pc' = "top" /\ task' = NoTask
  /\ UNCHANGED <<clock, remaining, outbox, channel, history>>

\* Command::Delete
Delete(c) ==
  /\ pc = "select"
  /\ entries' = DeleteEntries(entries, c)
  /\ pc' = "top"
  /\ UNCHANGED <<clock, remaining, task, outbox, heap, channel, history>>

\* Command::UpdateBackoffState: re-anchor from now under the new rail.
UpdateBackoff(c, b) ==
  /\ pc = "select" /\ WithinBounds(c)
  /\ IF entries[c] = None THEN UNCHANGED table
     ELSE LET next == NextEligibleFire(entries[c].spec, wall, b)
          IN  /\ entries' = [entries EXCEPT ![c] =
                               Refreshed(WithBackoff(@, b), next, None)]
              /\ heap' = Push(heap, next, c, entries[c].version + 1)
  /\ pc' = "top"
  /\ UNCHANGED <<clock, remaining, task, outbox, channel, history>>

\* Command::Poke and Command::Snapshot wake the loop and change nothing.
Poke ==
  /\ pc = "select" /\ pc' = "top"
  /\ UNCHANGED <<clock, remaining, task, outbox, table, channel, history>>

\* Command::Shutdown: the loop returns, its end of the fire channel closes.
Shutdown ==
  /\ pc = "select" /\ pc' = "stopped"
  /\ UNCHANGED <<clock, remaining, task, outbox, table, channel, history>>

-----------------------------------------------------------------------------
(* Environment: the clocks and the consumer *)

\* Both clocks advance; the monotonic one goes on when wall time is at its bound.
Tick ==
  /\ wall < MaxTime \/ remaining \notin {None, 0}
  /\ wall' = IF wall < MaxTime THEN wall + 1 ELSE wall
  /\ remaining' = IF remaining \in {None, 0} THEN remaining ELSE remaining - 1
  /\ UNCHANGED <<drift, pc, task, outbox, table, channel, history>>

\* Suspend, or a clock step: wall time moves without the monotonic clock.
Jump(d) ==
  /\ wall + d \in Time
  /\ wall' = wall + d
  /\ drift' = drift + d
  /\ UNCHANGED <<remaining, pc, task, outbox, table, channel, history>>

\* The executor takes a fire and persists its watermark (mark_fired).
Receive ==
  /\ open /\ fires # <<>>
  /\ fires' = Tail(fires)
  /\ LET ev == Head(fires)
     IN  persisted' = [persisted EXCEPT ![ev.id] =
                         IF @ = None \/ @ < ev.firedAt THEN ev.firedAt ELSE @]
  /\ UNCHANGED <<clock, remaining, pc, task, outbox, table, open, history>>

\* The executor exits and drops the receiver with whatever it still holds.
CloseReceiver ==
  /\ open
  /\ open' = FALSE /\ fires' = <<>>
  /\ UNCHANGED <<clock, remaining, pc, task, outbox, table, persisted, history>>

-----------------------------------------------------------------------------
Init ==
  /\ wall = 0 /\ drift = 0 /\ remaining = None
  /\ pc = "top" /\ task = NoTask /\ outbox = <<>>
  /\ entries = [c \in Crons |-> None] /\ heap = EmptyBag
  /\ fires = <<>> /\ open = TRUE
  /\ persisted \in [Crons -> {None, 0}]
  /\ since = [c \in Crons |-> 0]
  /\ handled = [c \in Crons |-> [t \in Time |-> 0]]

Commands ==
  \/ \E c \in Crons, k \in Configs : Upsert(c, k)
  \/ \E c \in Deletable : Delete(c)
  \/ \E c \in Crons, b \in Backoffs : UpdateBackoff(c, b)
  \/ Poke
  \/ Shutdown

Loop ==
  \/ PeekAndSleep \/ Wake \/ PopDue \/ FireDone \/ PassEnds
  \/ SkewTick \/ SkewDone \/ InstallDone
  \/ Send \/ SendFails

Environment ==
  \/ Tick \/ Receive \/ CloseReceiver
  \/ \E d \in Jumps : Jump(d)

Next == Loop \/ Commands \/ Environment

\* The loop's steps are a Tokio task that is always polled again; a wake or a
\* skew tick can lose the select to commands, but not for ever, because the
\* command channel runs dry between clients.  Time passes, and the executor
\* goes on receiving.
Fairness ==
  /\ WF_vars(PeekAndSleep) /\ WF_vars(PopDue) /\ WF_vars(PassEnds)
  /\ WF_vars(FireDone) /\ WF_vars(SkewDone) /\ WF_vars(InstallDone)
  /\ WF_vars(Send) /\ WF_vars(SendFails)
  /\ SF_vars(Wake) /\ SF_vars(SkewTick)
  /\ WF_vars(Tick) /\ WF_vars(Receive)

Spec == Init /\ [][Next]_vars
FairSpec == Spec /\ Fairness

-----------------------------------------------------------------------------
(* Properties *)

\* Every variable has its type.
TypeOK ==
  /\ wall \in Nat /\ drift \in Int /\ remaining \in Nat \cup {None}
  /\ pc \in {"top", "select", "fire", "emit", "stopped"}
  /\ task.kind \in {"none", "install", "fire", "skew"}
  /\ task.id \in Crons \cup {None}
  /\ task.now \in Nat \cup {None} /\ task.at \in Nat \cup {None}
  /\ task.config \in Configs \cup {None}
  /\ entries \in [Crons -> Entry \cup {None}]
  /\ IsABag(heap) /\ BagToSet(heap) \subseteq Node
  /\ open \in BOOLEAN
  /\ persisted \in [Crons -> Nat \cup {None}]
  /\ since \in [Crons -> Nat]

\* While the consumer lives, a scheduled cron cannot drop out of the heap: its
\* current node is there, or the loop has just popped it and will push the next
\* one.  (Lazy deletion in heap.rs: upsert, refresh_next_fire and pop_next.)
NoLiveEntryForgotten ==
  open => \A c \in Live :
    \/ entries[c].next = None
    \/ [at |-> entries[c].next, id |-> c, version |-> entries[c].version] \in BagToSet(heap)
    \/ pc = "emit" /\ task.kind = "fire" /\ task.id = c

\* No entry waits for an instant before its backoff window ends, whichever of
\* installation, edit, firing, skew pass and backoff report wrote it last
\* (next_eligible_fire; upsert carries the mirror over).
BackoffFloor ==
  \A c \in Live :
    entries[c].next # None /\ RetryAfter(entries[c].backoff) # None
      => entries[c].next >= RetryAfter(entries[c].backoff)

\* A firing pass only fires an entry at the time the entry is scheduled for:
\* nodes that an edit, a backoff report or a skew pass left behind are discarded
\* (heap.rs module comment).  A node of a deleted cron is not covered: the versions
\* of a cron that is added again start anew, and an old node may carry one of them.
FiresOnlyCurrentNode ==
  pc = "emit" /\ task.kind = "fire" => task.at = entries[task.id].next

\* The entries and the heap agree at all times: types, no entry armed inside its backoff
\* window, and no stale node fired.
EntriesAreSound == TypeOK /\ BackoffFloor /\ FiresOnlyCurrentNode

\* With a clock that is never set back, the catch-up of an installation, the
\* starvation passes and the skew passes after it never emit a tick twice
\* (install_entry and fire_due_entries advance the watermark for this).
NoDoubleFire ==
  \A c \in Crons, t \in Time : handled[c][t] <= 1

\* A coalesce or an unthrottled replay cron has emitted every tick between the
\* watermark it was installed with and its current one (scheduler.rs, "not
\* silently dropped").
NoTickLost ==
  open => \A c \in Live :
    entries[c].mode # "skip" /\ entries[c].throttle = 0
      /\ ~(task.kind = "install" /\ task.id = c) =>
      \A t \in entries[c].spec \cap Time :
        since[c] < t /\ t <= entries[c].last => handled[c][t] > 0

\* A due entry is not left waiting: the loop re-arms it for a later time, unless
\* it is removed or the loop or its consumer stops.
DueIsServed ==
  \A c \in Crons :
    (c \in Live /\ entries[c].next # None /\ entries[c].next <= wall)
      ~> \/ pc = "stopped" \/ ~open
         \/ c \notin Live
         \/ entries[c].next = None \/ entries[c].next > wall
=============================================================================
