---------------------------- MODULE AttachStream ----------------------------
(***************************************************************************)
(* A session attached from a terminal, end to end: the session's output     *)
(* pump and runtime (la-core/manager.rs), its hub (OutputHub), the          *)
(* connections the daemon serves (la-daemon/dispatcher.rs: the reader loop, *)
(* the writer task and the task that drains a subscription), and the        *)
(* client's attach pump (la-tui/attach_pump.rs) with its single reconnect.  *)
(*                                                                          *)
(* One session; connection a is the pump's a-th attempt.  The dispatcher    *)
(* never calls resume: every attach makes a new subscription, and handle    *)
(* and id of a subscription are the same number here; a parked subscription *)
(* is never taken up again, and its eviction is in OutputHub.  A broken     *)
(* link may lose whatever is still on the wire, in both directions.  The    *)
(* client's connection never calls events.subscribe, so nothing the bus     *)
(* carries is sent to it; the writer task is woken for it all the same, and *)
(* not in its select at any moment.                                         *)
(***************************************************************************)
EXTENDS OutputHub

CONSTANTS
  Conns,      \* attempts of the attach pump: 1 and 2
  WireCap,    \* messages the wire to the client holds; a send waits for room
  MaxWrites   \* bound: keystrokes

ASSUME AttachAssumption == Conns = {1, 2} /\ WireCap \in Nat /\ MaxWrites \in Nat

VARIABLES
  registered,  \* the registry has the session
  holder,      \* writer_holder
  outPump,     \* the output pump: "reading", "removed", "closed"
  link,        \* of a connection: "none", "up", "broken"
  toDaemon, toClient, \* what is on the wire to the daemon and to the client
  reader,      \* where the connection's reader loop is
  arg,         \* cursor or subscription the request in progress works on
  snap,        \* snapshot_seq of the attach in progress
  slot,        \* attachments: the subscription of the connection, or Null
  fresh,       \* slot.sub has not been taken by the writer task
  permit,      \* attachments_changed holds a permit
  writer,      \* the writer task: "off", "on", "done"
  woken,       \* shutdown.notified() has completed
  drain,       \* the subscription a drain task of the connection owns
  hand,        \* the notification that task has received and not yet sent, if any
  pump,        \* the attach pump: "connect", "await", "live", "backoff", "closed"
  attempt,     \* its current connection
  lastSeq,     \* last_seq
  asked,       \* history: the cursor this attempt asked to resume from
  stash,       \* notifications that came before the attach response
  writes,      \* keystrokes sent so far
  shown,       \* what the terminal got: chunks and gaps, in order
  typed        \* the last keystroke to reach the PTY: who wrote, who held the input

sessionVars == <<registered, holder, outPump>>
attachVars == <<reader, arg, snap, slot, fresh>>
taskVars == <<permit, writer, woken, drain, hand>>
connVars == <<link, toDaemon, toClient, attachVars, taskVars>>
pumpVars == <<pump, attempt, lastSeq, asked, stash, writes, shown>>
streamVars == <<hubVars, sessionVars, connVars, pumpVars, typed>>

StreamInit ==
  /\ HubInit
  /\ registered = TRUE /\ holder = Null /\ outPump = "reading"
  /\ link = [c \in Conns |-> "none"]
  /\ toDaemon = [c \in Conns |-> <<>>] /\ toClient = [c \in Conns |-> <<>>]
  /\ reader = [c \in Conns |-> "off"] /\ arg = [c \in Conns |-> Null]
  /\ snap = [c \in Conns |-> 0]
  /\ slot = [c \in Conns |-> Null] /\ fresh = [c \in Conns |-> FALSE]
  /\ permit = [c \in Conns |-> FALSE]
  /\ writer = [c \in Conns |-> "off"] /\ woken = [c \in Conns |-> FALSE]
  /\ drain = [c \in Conns |-> Null] /\ hand = [c \in Conns |-> <<>>]
  /\ pump = "connect" /\ attempt = 1 /\ lastSeq = 0 /\ asked = 0 /\ stash = <<>>
  /\ writes = 0 /\ shown = <<>> /\ typed = [by |-> Null, held |-> Null]

-----------------------------------------------------------------------------
(* The session: OutputPump::run *)

\* A chunk from the PTY goes to the hub.
PtyOutput ==
  /\ outPump = "reading"
  /\ \E len \in Lens : Publish(len, FALSE)
  /\ UNCHANGED <<sessionVars, connVars, pumpVars, typed>>

\* The reader is drained and the child has exited: the state is published and the
\* session leaves the registry; then the hub is closed.
ChildExit ==
  /\ outPump = "reading"
  /\ outPump' = "removed" /\ registered' = FALSE
  /\ UNCHANGED <<hubVars, holder, connVars, pumpVars, typed>>

CloseHub ==
  /\ outPump = "removed" /\ Close
  /\ outPump' = "closed"
  /\ UNCHANGED <<registered, holder, connVars, pumpVars, typed>>

-----------------------------------------------------------------------------
(* The reader loop of a connection: one request at a time *)

\* A send waits for room on the wire; on a broken link it fails.
Send(c, m) ==
  IF link[c] = "up"
  THEN Len(toClient[c]) < WireCap /\ toClient' = [toClient EXCEPT ![c] = Append(@, m)]
  ELSE UNCHANGED toClient

IsRequest(c, r) == reader[c] = "idle" /\ toDaemon[c] # <<>> /\ toDaemon[c][1].req = r

\* sessions.attach, step by step: look the session up ...
AttachLookup(c) ==
  /\ IsRequest(c, "attach")
  /\ toDaemon' = [toDaemon EXCEPT ![c] = Tail(@)]
  /\ IF registered
     THEN /\ reader' = [reader EXCEPT ![c] = "found"]
          /\ arg' = [arg EXCEPT ![c] = toDaemon[c][1].since]
          /\ UNCHANGED toClient
     ELSE /\ Send(c, [msg |-> "error"])
          /\ UNCHANGED <<reader, arg>>
  /\ UNCHANGED <<hubVars, sessionVars, link, snap, slot, fresh, taskVars, pumpVars, typed>>

\* ... subscribe to its hub, whatever has become of it since ...
AttachSubscribe(c) ==
  /\ reader[c] = "found"
  /\ nextSub \in Handles /\ Subscribe(nextSub, arg[c])
  /\ reader' = [reader EXCEPT ![c] = "subscribed"]
  /\ arg' = [arg EXCEPT ![c] = nextSub]
  /\ UNCHANGED <<sessionVars, link, toDaemon, toClient, snap, slot, fresh, taskVars,
                 pumpVars, typed>>

\* ... take the input if nobody holds it ...
AttachAcquire(c) ==
  /\ reader[c] = "subscribed"
  /\ holder' = IF holder = Null THEN arg[c] ELSE holder
  /\ reader' = [reader EXCEPT ![c] = "acquired"]
  /\ UNCHANGED <<hubVars, registered, outPump, link, toDaemon, toClient, arg, snap, slot, fresh,
                 taskVars, pumpVars, typed>>

\* ... read the snapshot cursor under the lock of the hub ...
AttachSnapshot(c) ==
  /\ reader[c] = "acquired" /\ ~publishing
  /\ snap' = [snap EXCEPT ![c] = nextSeq - 1]
  /\ reader' = [reader EXCEPT ![c] = "snapshot"]
  /\ UNCHANGED <<hubVars, sessionVars, link, toDaemon, toClient, arg, slot, fresh, taskVars,
                 pumpVars, typed>>

\* ... and, once storage has told the backend, record the attachment and wake the
\* writer task.
AttachRecord(c) ==
  /\ reader[c] = "snapshot"
  /\ slot' = [slot EXCEPT ![c] = arg[c]] /\ fresh' = [fresh EXCEPT ![c] = TRUE]
  /\ permit' = [permit EXCEPT ![c] = TRUE]
  /\ arg' = [arg EXCEPT ![c] = Null]
  /\ reader' = [reader EXCEPT ![c] = "answer"]
  /\ UNCHANGED <<hubVars, sessionVars, link, toDaemon, toClient, snap, writer, woken, drain, hand,
                 pumpVars, typed>>

\* The response follows when the subscription is already being drained.
AttachReply(c) ==
  /\ reader[c] = "answer"
  /\ Send(c, [msg |-> "ack", seq |-> snap[c]])
  /\ snap' = [snap EXCEPT ![c] = 0]
  /\ reader' = [reader EXCEPT ![c] = "idle"]
  /\ UNCHANGED <<hubVars, sessionVars, link, toDaemon, arg, slot, fresh, taskVars, pumpVars, typed>>

\* The slot goes first, with the handle if the writer task has not taken it; then
\* manager.detach.  next is where the reader is without a slot.
RemoveSlot(c, next) ==
  /\ slot' = [slot EXCEPT ![c] = Null]
  /\ arg' = [arg EXCEPT ![c] = slot[c]]
  /\ reader' = [reader EXCEPT ![c] = IF slot[c] = Null THEN next ELSE "detaching"]

\* sessions.detach
Detach(c) ==
  /\ IsRequest(c, "detach")
  /\ toDaemon' = [toDaemon EXCEPT ![c] = Tail(@)]
  /\ RemoveSlot(c, "idle")
  /\ UNCHANGED <<hubVars, sessionVars, link, toClient, snap, fresh, taskVars, pumpVars,
                 typed>>

\* The writer task was joined: release_all.
Release(c) ==
  /\ reader[c] = "joining" /\ writer[c] = "done"
  /\ RemoveSlot(c, "gone")
  /\ UNCHANGED <<hubVars, sessionVars, link, toDaemon, toClient, snap, fresh, taskVars, pumpVars,
                 typed>>

\* The detach is over: the reader loop goes on, or was in release_all.  A handle that
\* came with the slot is dropped.
Detached(c) ==
  /\ reader' = [reader EXCEPT ![c] = IF writer[c] = "done" THEN "gone" ELSE "idle"]
  /\ arg' = [arg EXCEPT ![c] = Null] /\ fresh' = [fresh EXCEPT ![c] = FALSE]
  /\ phase' = IF fresh[c] THEN [phase EXCEPT ![arg[c]] = "dropped"] ELSE phase
  /\ queue' = IF fresh[c] THEN [queue EXCEPT ![arg[c]] = <<>>] ELSE queue
  /\ seen' = IF fresh[c] THEN [seen EXCEPT ![arg[c]] = 0] ELSE seen
  /\ UNCHANGED <<nextSeq, ring, publishing, nextSub, owner, owed, now>>

\* manager.detach: a session that is not there any more is an error ...
DetachLookup(c) ==
  /\ reader[c] = "detaching"
  /\ IF registered
     THEN /\ reader' = [reader EXCEPT ![c] = "releasing"]
          /\ UNCHANGED <<hubVars, arg, fresh>>
     ELSE Detached(c) /\ UNCHANGED subs
  /\ UNCHANGED <<sessionVars, link, toDaemon, toClient, snap, slot, taskVars, pumpVars, typed>>

\* Mutant: a detach leaves the input with the subscription that goes.
MutDetachInput(c) ==
  /\ reader[c] = "releasing"
  /\ reader' = [reader EXCEPT ![c] = "parking"]
  /\ UNCHANGED <<hubVars, sessionVars, link, toDaemon, toClient, arg, snap, slot, fresh,
                 taskVars, pumpVars, typed>>

\* ... the input is given up under the lock of the runtime ...
DetachInput(c) ==
  /\ reader[c] = "releasing"
  /\ holder' = IF holder = arg[c] THEN Null ELSE holder
  /\ reader' = [reader EXCEPT ![c] = "parking"]
  /\ UNCHANGED <<hubVars, registered, outPump, link, toDaemon, toClient, arg, snap, slot, fresh,
                 taskVars, pumpVars, typed>>

\* ... and the subscription is parked under the lock of the hub.
DetachPark(c) ==
  /\ reader[c] = "parking" /\ ~publishing
  /\ subs' = Parked(arg[c]) /\ Detached(c)
  /\ UNCHANGED <<sessionVars, link, toDaemon, toClient, snap, slot, taskVars, pumpVars, typed>>

\* sessions.write: the holder is checked under the lock of the runtime ...
WriteCheck(c) ==
  /\ IsRequest(c, "write")
  /\ toDaemon' = [toDaemon EXCEPT ![c] = Tail(@)]
  /\ IF slot[c] # Null /\ registered /\ holder = slot[c]
     THEN reader' = [reader EXCEPT ![c] = "writing"]
     ELSE UNCHANGED reader
  /\ UNCHANGED <<hubVars, sessionVars, link, toClient, arg, snap, slot, fresh, taskVars,
                 pumpVars, typed>>

\* ... and the bytes are written after it was released.
PtyWrite(c) ==
  /\ reader[c] = "writing"
  /\ reader' = [reader EXCEPT ![c] = "idle"]
  /\ typed' = [by |-> slot[c], held |-> holder]
  /\ UNCHANGED <<hubVars, sessionVars, link, toDaemon, toClient, arg, snap, slot, fresh, taskVars,
                 pumpVars>>

\* The loop ends.  notify_waiters reaches the writer task only while it waits in its
\* select, not while it handles an attachment or an event of the bus.
ReaderEof(c) ==
  /\ reader[c] = "idle" /\ link[c] = "broken"
  /\ reader' = [reader EXCEPT ![c] = "joining"]
  /\ \E inSelect \in BOOLEAN : woken' = [woken EXCEPT ![c] = inSelect]
  /\ toDaemon' = [toDaemon EXCEPT ![c] = <<>>]
  /\ UNCHANGED <<hubVars, sessionVars, link, toClient, arg, snap, slot, fresh, permit, writer,
                 drain, hand, pumpVars, typed>>

-----------------------------------------------------------------------------
(* The writer task and the task that drains a subscription *)

\* collect_new_subs: a session this connection has drained once is never drained again.
WriterAttach(c) ==
  /\ writer[c] = "on" /\ ~woken[c] /\ permit[c]
  /\ permit' = [permit EXCEPT ![c] = FALSE]
  /\ IF drain[c] = Null /\ slot[c] # Null /\ fresh[c]
     THEN drain' = [drain EXCEPT ![c] = slot[c]] /\ fresh' = [fresh EXCEPT ![c] = FALSE]
     ELSE UNCHANGED <<drain, fresh>>
  /\ UNCHANGED <<hubVars, sessionVars, link, toDaemon, toClient, reader, arg, snap, slot, writer,
                 woken, hand, pumpVars, typed>>

\* Shutdown wins the select; abort_all drops the handle being drained, and what was
\* received from it.
WriterStop(c) ==
  /\ writer[c] = "on" /\ woken[c]
  /\ writer' = [writer EXCEPT ![c] = "done"] /\ permit' = [permit EXCEPT ![c] = FALSE]
  /\ IF drain[c] # Null /\ Held(drain[c]) THEN Drop(drain[c]) ELSE UNCHANGED hubVars
  /\ drain' = [drain EXCEPT ![c] = Null] /\ hand' = [hand EXCEPT ![c] = <<>>]
  /\ UNCHANGED <<sessionVars, link, toDaemon, toClient, attachVars, woken, pumpVars, typed>>

\* drain_subscription: recv takes an event from the channel ...
DrainTake(c) ==
  /\ drain[c] # Null /\ hand[c] = <<>> /\ Take(drain[c])
  /\ LET e == queue[drain[c]][1]
     IN hand' = [hand EXCEPT ![c] = <<[msg |-> IF e.gap THEN "gap" ELSE "out", seq |-> e.seq]>>]
  /\ UNCHANGED <<sessionVars, link, toDaemon, toClient, attachVars, permit, writer, woken, drain,
                 pumpVars, typed>>

\* ... and takes the charge of a chunk off before it returns it ...
DrainAck(c) ==
  /\ drain[c] # Null /\ Ack(drain[c])
  /\ UNCHANGED <<sessionVars, connVars, pumpVars, typed>>

\* ... which is then sent.
DrainSend(c) ==
  /\ drain[c] # Null /\ phase[drain[c]] = "idle"
  /\ hand[c] # <<>> /\ Send(c, hand[c][1])
  /\ hand' = [hand EXCEPT ![c] = <<>>]
  /\ UNCHANGED <<hubVars, sessionVars, link, toDaemon, attachVars, permit, writer, woken, drain,
                 pumpVars, typed>>

\* The subscription ended.
DrainEnd(c) ==
  /\ drain[c] # Null /\ hand[c] = <<>> /\ End(drain[c])
  /\ UNCHANGED <<sessionVars, connVars, pumpVars, typed>>

\* It has ended, or a send failed: the task is over and the handle dropped.
DrainOver(c) ==
  /\ drain[c] # Null
  /\ \/ phase[drain[c]] = "ended"
     \/ phase[drain[c]] = "idle" /\ hand[c] # <<>> /\ link[c] = "broken"
  /\ Drop(drain[c])
  /\ hand' = [hand EXCEPT ![c] = <<>>]
  /\ UNCHANGED <<sessionVars, link, toDaemon, toClient, attachVars, permit, writer, woken, drain,
                 pumpVars, typed>>

\* The park that the dropped handle left behind.
LatePark(h) ==
  /\ DropPark(h)
  /\ UNCHANGED <<sessionVars, connVars, pumpVars, typed>>

-----------------------------------------------------------------------------
(* The attach pump *)

\* The link breaks: a fault of either side.
Break(c) ==
  /\ link[c] = "up"
  /\ link' = [link EXCEPT ![c] = "broken"]
  /\ UNCHANGED <<hubVars, sessionVars, toDaemon, toClient, attachVars, taskVars, pumpVars, typed>>

\* run_one: connect, shake hands, send sessions.attach with the cursor of the pump.
Connect ==
  /\ pump = "connect"
  /\ link' = [link EXCEPT ![attempt] = "up"]
  /\ toDaemon' = [toDaemon EXCEPT ![attempt] = <<[req |-> "attach", since |-> lastSeq]>>]
  /\ reader' = [reader EXCEPT ![attempt] = "idle"]
  /\ writer' = [writer EXCEPT ![attempt] = "on"]
  /\ pump' = "await"
  /\ asked' = lastSeq
  /\ UNCHANGED <<hubVars, sessionVars, toClient, arg, snap, slot, fresh, permit, woken, drain, hand,
                 attempt, lastSeq, stash, writes, shown, typed>>

\* The terminal is left; what it had shown is history.
Closed == pump' = "closed" /\ lastSeq' = 0 /\ asked' = 0 /\ shown' = <<>>

\* driver: the first failure is retried, the second is the last.
Failed ==
  /\ IF attempt = 1 THEN pump' = "backoff" /\ UNCHANGED <<lastSeq, asked, shown>> ELSE Closed
  /\ stash' = <<>>
  /\ link' = [link EXCEPT ![attempt] = "broken"]
  /\ toClient' = [toClient EXCEPT ![attempt] = <<>>]
  /\ UNCHANGED <<hubVars, sessionVars, toDaemon, attachVars, taskVars, attempt, writes, typed>>

\* The connection cannot be made, ends, or (awaiting the response) times out.
PumpFails ==
  /\ pump \in {"connect", "await"} \/ (pump = "live" /\ link[attempt] = "broken")
  /\ Failed

Retry ==
  /\ pump = "backoff"
  /\ pump' = "connect" /\ attempt' = 2
  /\ UNCHANGED <<hubVars, sessionVars, connVars, lastSeq, asked, stash, writes, shown, typed>>

Arrived == toClient[attempt][1]

Received ==
  /\ toClient[attempt] # <<>>
  /\ toClient' = [toClient EXCEPT ![attempt] = Tail(@)]

\* dispatch_notification: what the cursor is after the notifications in s, the last of
\* which wins even if it is behind.
CursorAfter(cursor, s) ==
  LET outs == {i \in 1..Len(s) : s[i].msg = "out"}
  IN IF outs = {} THEN cursor ELSE s[CHOOSE i \in outs : \A j \in outs : j <= i].seq

\* wait_for_response: what comes before the response is kept for later; an error
\* response fails the attempt.
AwaitStash ==
  /\ pump = "await" /\ Received /\ Arrived.msg \in {"out", "gap"}
  /\ stash' = Append(stash, Arrived)
  /\ UNCHANGED <<hubVars, sessionVars, link, toDaemon, attachVars, taskVars, pump, attempt,
                 lastSeq, asked, writes, shown, typed>>

AwaitError ==
  /\ pump = "await" /\ toClient[attempt] # <<>> /\ Arrived.msg = "error"
  /\ Failed

\* Mutant: the notifications that came before the response are lost.
MutAwaitAck ==
  /\ pump = "await" /\ Received /\ Arrived.msg = "ack"
  /\ pump' = "live" /\ stash' = <<>>
  /\ shown' = shown
  /\ lastSeq' = IF lastSeq < Arrived.seq THEN Arrived.seq ELSE lastSeq
  /\ UNCHANGED <<hubVars, sessionVars, link, toDaemon, attachVars, taskVars, attempt, asked, writes,
                 typed>>

\* The response: the cursor rises to the snapshot, then what was kept is dispatched.
AwaitAck ==
  /\ pump = "await" /\ Received /\ Arrived.msg = "ack"
  /\ pump' = "live" /\ stash' = <<>>
  /\ shown' = shown \o stash
  /\ lastSeq' = CursorAfter(IF lastSeq < Arrived.seq THEN Arrived.seq ELSE lastSeq, stash)
  /\ UNCHANGED <<hubVars, sessionVars, link, toDaemon, attachVars, taskVars, attempt, asked, writes,
                 typed>>

Show ==
  /\ pump = "live" /\ Received
  /\ shown' = Append(shown, Arrived)
  /\ lastSeq' = CursorAfter(lastSeq, <<Arrived>>)
  /\ UNCHANGED <<hubVars, sessionVars, link, toDaemon, attachVars, taskVars, pump, attempt, asked,
                 stash, writes, typed>>

\* A keystroke; the response to it is ignored.
Keystroke ==
  /\ pump = "live" /\ writes < MaxWrites
  /\ writes' = writes + 1
  /\ toDaemon' = [toDaemon EXCEPT ![attempt] = Append(@, [req |-> "write"])]
  /\ UNCHANGED <<hubVars, sessionVars, link, toClient, attachVars, taskVars, pump, attempt, lastSeq,
                 asked, stash, shown, typed>>

\* The user detaches, or the terminal is gone: the connection is closed, in the first
\* case after sessions.detach was sent.
Leave ==
  /\ pump = "live" /\ Closed
  /\ link' = [link EXCEPT ![attempt] = "broken"]
  /\ \/ toDaemon' = [toDaemon EXCEPT ![attempt] = Append(@, [req |-> "detach"])]
     \/ UNCHANGED toDaemon
  /\ toClient' = [toClient EXCEPT ![attempt] = <<>>]
  /\ UNCHANGED <<hubVars, sessionVars, attachVars, taskVars, attempt, stash, writes, typed>>

SessionStep == PtyOutput \/ ChildExit \/ CloseHub \/ \E h \in Handles : LatePark(h)

ConnStep(c) ==
  \/ AttachLookup(c) \/ AttachSubscribe(c) \/ AttachAcquire(c)
  \/ AttachSnapshot(c) \/ AttachRecord(c) \/ AttachReply(c)
  \/ Detach(c) \/ Release(c) \/ DetachLookup(c) \/ DetachInput(c) \/ DetachPark(c)
  \/ WriteCheck(c) \/ PtyWrite(c) \/ ReaderEof(c)
  \/ WriterAttach(c) \/ WriterStop(c)
  \/ DrainTake(c) \/ DrainAck(c) \/ DrainSend(c) \/ DrainEnd(c) \/ DrainOver(c)
  \/ Break(c)

PumpStep ==
  \/ Connect \/ PumpFails \/ Retry \/ AwaitStash \/ AwaitError \/ AwaitAck
  \/ Show \/ Keystroke \/ Leave

StreamNext == SessionStep \/ (\E c \in Conns : ConnStep(c)) \/ PumpStep

StreamSpec == StreamInit /\ [][StreamNext]_streamVars

-----------------------------------------------------------------------------
(* Properties *)

\* The terminal gets the chunks of the session in order and none of them twice,
\* through a reconnect whose first connection the daemon may still be serving, and
\* whatever arrives ahead of the attach response.
ShownInOrder ==
  \A i, j \in 1..Len(shown) :
    (i < j /\ shown[i].msg = "out" /\ shown[j].msg = "out") => shown[i].seq < shown[j].seq

\* The events of a channel with the bytes each carries: a gap none.
Carried(q) == [i \in 1..Len(q) |-> [q[i] EXCEPT !.len = IF q[i].gap THEN 0 ELSE @]]

\* The charge of a subscription is exactly what waits in its channel and in its
\* reader's hand, and within the budget: acks and parks never make the hub admit
\* more than sub_queue_bytes.
ChargeIsExact ==
  \A s \in DOMAIN subs :
    (subs[s].tx = s /\ Held(s)) =>
      /\ subs[s].queued = owed[s] + Bytes(Carried(queue[s]))
      /\ subs[s].queued <= QueueBytes

\* The hub keeps its types and its accounts with connections coming and going.
SubscriptionsAreSound == HubTypeOK /\ ChargeIsExact

\* Whoever holds the input is the subscription of a connection that is not gone: one
\* recorded as its attachment, or one whose attach or detach is under way.  A reader
\* loop that waits for a writer task which was not told to stop is not gone either,
\* and keeps the input.
HoldsFor(c) == reader[c] \in {"acquired", "snapshot", "detaching", "releasing"}

InputHasOwner ==
  (holder # Null /\ registered) =>
    \E c \in Conns : reader[c] # "gone" /\ (slot[c] = holder \/ (HoldsFor(c) /\ arg[c] = holder))

\* Every keystroke that reaches the PTY was written by the subscription that held the
\* input at that moment, although the check and the write are two steps.
SingleWriter == typed.by = typed.held

\* The input belongs to one attachment at a time, of a connection the daemon still
\* serves or is about to release, however attaching, detaching, writing and the end
\* of a connection interleave.
InputHasOneOwner == InputHasOwner /\ SingleWriter

\* Numbers of the chunks somewhere between the hub and the terminal.
InFlight(c) ==
  LET numbers(q) == {q[i].seq : i \in {j \in 1..Len(q) : q[j].msg # "ack"}}
  IN numbers(shown) \cup numbers(stash) \cup numbers(toClient[c]) \cup numbers(hand[c])
     \cup {queue[slot[c]][i].seq : i \in 1..Len(queue[slot[c]])}

\* While an attempt's connection is up and its attachment recorded, it misses nothing
\* the ring still holds above the cursor it asked to resume from: each chunk is
\* shown, reported as a gap, or on its way, in the channel, in the hands of the drain
\* task, on the wire or among the notifications that came before the response.
NothingLostInFlight ==
  (pump \in {"await", "live"} /\ link[attempt] = "up" /\ slot[attempt] # Null) =>
    \A i \in 1..Len(ring) : ring[i].seq > asked => ring[i].seq \in InFlight(attempt)

\* The terminal shows the output of its session, nothing twice and nothing out of
\* order, through a reconnect; and a connected attempt skips nothing above its cursor.
\* What lies below that cursor and was never shown stays out: the first response
\* raises the cursor to the snapshot before the chunks up to it have been shown.
NothingLostOrRepeated == ShownInOrder /\ NothingLostInFlight

=============================================================================
