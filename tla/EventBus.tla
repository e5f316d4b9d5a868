------------------------------ MODULE EventBus ------------------------------
(***************************************************************************)
(* The daemon's health on its way to a client: the probe loop and its      *)
(* registry (la-daemon/health.rs), the broadcast bus that everything global *)
(* goes through (la-core/event_bus.rs), and one connection with its writer  *)
(* and the events.subscribe handler (la-daemon/dispatcher.rs).              *)
(*                                                                          *)
(* A broadcast receiver is the queue of what it has not read: a full one    *)
(* loses its oldest message, which the writer passes over (Lagged).         *)
(* Connections do not meet, so one is enough; it may drop and come back.    *)
(***************************************************************************)
EXTENDS Naturals, Sequences, FiniteSets

CONSTANTS
  Backends,     \* registered adapters, a set of naturals: the order of a round
  BusCapacity,  \* DEFAULT_BUS_CAPACITY
  MaxTurns,     \* bound: backends installed or removed, probes that time out
  MaxNews,      \* bound: events of other topics
  MaxDrops      \* bound: connections lost

VARIABLES
  truth,      \* each backend as it is: "available" or "not_installed"
  registry,   \* HealthRegistry: the last probe of each backend, "none" before the first
  round,      \* run_probe_loop: [at, left, wire]
  link,       \* the connection: [up, writer, topics]
  receiver,   \* what the writer has not read from the bus
  hand,       \* <<>> or <<the notification the writer is sending>>
  request,    \* the handler: [at, snap, fresh]
  shown,      \* the last daemon.health the client has
  turns, news, drops,
  unheard,       \* history: a pulse published since the writer subscribed is not known to the client
  lagged      \* history: the last pulse was pushed out of the ring

busVars == <<truth, registry, round, link, receiver, hand, request, shown, turns, news,
             drops, unheard, lagged>>
probeVars == <<truth, registry, round, turns>>
hearVars == <<link, hand, request, shown, drops>>

Topics == {"daemon_health", "session_state"}
NoRequest == [at |-> "idle", snap |-> <<>>, fresh |-> FALSE]
NoLink == [up |-> FALSE, writer |-> FALSE, topics |-> {}]

BusInit ==
  /\ truth \in [Backends -> {"available", "not_installed"}]
  /\ registry = [b \in Backends |-> "none"]
  /\ round = [at |-> "probe", left |-> Backends, wire |-> registry]
  /\ link = NoLink /\ receiver = <<>> /\ hand = <<>> /\ request = NoRequest /\ shown = <<>>
  /\ turns = 0 /\ news = 0 /\ drops = 0 /\ unheard = FALSE /\ lagged = FALSE

-----------------------------------------------------------------------------
(* The bus *)

IsPulse(e) == e.topic = "daemon_health"
Holds(queue) == \E i \in DOMAIN queue : IsPulse(queue[i])

\* EventBus::publish, as the connection's receiver sees it.
Broadcast(e) ==
  LET full == Len(receiver) = BusCapacity
      kept == IF full THEN Tail(receiver) ELSE receiver
  IN IF ~link.writer THEN UNCHANGED <<receiver, lagged>>
     ELSE /\ receiver' = Append(kept, e)
          /\ lagged' = IF IsPulse(e) THEN FALSE
                       ELSE lagged \/ (full /\ IsPulse(Head(receiver)) /\ ~Holds(kept))

-----------------------------------------------------------------------------
(* The probe loop *)

\* A user installs or removes an agent.
BackendChanges(b) ==
  /\ turns < MaxTurns /\ turns' = turns + 1
  /\ truth' = [truth EXCEPT ![b] = IF @ = "available" THEN "not_installed" ELSE "available"]
  /\ UNCHANGED <<registry, round, hearVars, receiver, news, unheard, lagged>>

\* record_entry: the registry.  Its mirror in the backends table is best effort and read
\* by nobody who decides anything.
Record(b, result) ==
  /\ registry' = [registry EXCEPT ![b] = result]
  /\ round' = [round EXCEPT !.left = @ \ {b}, !.wire = [@ EXCEPT ![b] = result]]
  /\ UNCHANGED <<truth, hearVars, receiver, news, unheard, lagged>>

\* probe_one, with its hard timeout.
ProbeOne(b) ==
  /\ round.at = "probe" /\ b \in round.left /\ \A c \in round.left : b <= c
  /\ \/ Record(b, truth[b]) /\ UNCHANGED turns
     \/ turns < MaxTurns /\ turns' = turns + 1 /\ Record(b, "error")

\* The end of a round: daemon.health on the bus.
PublishRound ==
  /\ round.at = "probe" /\ round.left = {} /\ round' = [round EXCEPT !.at = "sleep"]
  /\ Broadcast([topic |-> "daemon_health", wire |-> round.wire])
  /\ unheard' = (unheard \/ link.writer) /\ request' = [request EXCEPT !.fresh = FALSE]
  /\ UNCHANGED <<truth, registry, turns, link, hand, shown, drops, news>>

\* Mutant: an agent that was found once is not probed again.
MutNextRound ==
  /\ round.at = "sleep"
  /\ round' = [round EXCEPT !.at = "probe", !.left = {b \in Backends : registry[b] # "available"}]
  /\ UNCHANGED <<truth, registry, turns, hearVars, receiver, news, unheard, lagged>>

\* The ticker.
NextRound ==
  /\ round.at = "sleep" /\ round' = [round EXCEPT !.at = "probe", !.left = Backends]
  /\ UNCHANGED <<truth, registry, turns, hearVars, receiver, news, unheard, lagged>>

\* publish_state, a cron that fired, a worktree that changed.
OtherNews ==
  /\ news < MaxNews /\ news' = news + 1
  /\ Broadcast([topic |-> "session_state", wire |-> <<>>])
  /\ UNCHANGED <<probeVars, hearVars, unheard>>

-----------------------------------------------------------------------------
(* The connection *)

\* serve_connection, after the handshake: the writer is spawned and starts later.
ClientConnects ==
  /\ ~link.up /\ link' = [link EXCEPT !.up = TRUE]
  /\ UNCHANGED <<probeVars, receiver, hand, request, shown, drops, news, unheard, lagged>>

\* The first line of run_writer: from here on the connection hears the bus.
WriterStarts ==
  /\ link.up /\ ~link.writer /\ link' = [link EXCEPT !.writer = TRUE]
  /\ UNCHANGED <<probeVars, receiver, hand, request, shown, drops, news, unheard, lagged>>

\* handle_events_subscribe sets the topics first; a fresh daemon.health asks for the
\* cached snapshot.
Subscribe ==
  /\ link.up /\ request.at = "idle"
  /\ \E wanted \in (SUBSET Topics) \ {{}} :
       /\ link' = [link EXCEPT !.topics = @ \cup wanted]
       /\ request' = IF "daemon_health" \in wanted \ link.topics THEN [NoRequest EXCEPT !.at = "read"] ELSE NoRequest
  /\ UNCHANGED <<probeVars, receiver, hand, shown, drops, news, unheard, lagged>>

\* HealthRegistry::snapshot, in the middle of a round perhaps.
ReadSnapshot ==
  /\ request.at = "read" /\ request' = [at |-> "send", snap |-> registry, fresh |-> TRUE]
  /\ UNCHANGED <<probeVars, link, receiver, hand, shown, drops, news, unheard, lagged>>

SendSnapshot ==
  /\ request.at = "send" /\ request' = NoRequest /\ shown' = request.snap
  /\ unheard' = (unheard /\ ~request.fresh)
  /\ UNCHANGED <<probeVars, link, receiver, hand, drops, news, lagged>>

\* The bus arm of run_writer and deliver_bus_event: the topics are read, then it is sent.
DeliverBusEvent ==
  /\ link.writer /\ hand = <<>> /\ receiver # <<>> /\ receiver' = Tail(receiver)
  /\ hand' = IF Head(receiver).topic \in link.topics THEN <<Head(receiver)>> ELSE <<>>
  /\ UNCHANGED <<probeVars, link, request, shown, drops, news, unheard, lagged>>

SendNews ==
  /\ hand # <<>> /\ hand' = <<>>
  /\ shown' = IF IsPulse(hand[1]) THEN hand[1].wire ELSE shown
  /\ unheard' = (unheard /\ ~(IsPulse(hand[1]) /\ ~Holds(receiver)))
  /\ UNCHANGED <<probeVars, link, receiver, request, drops, news, lagged>>

\* The connection ends, with its writer and its receiver.
ClientDrops ==
  /\ link.up /\ drops < MaxDrops /\ drops' = drops + 1
  /\ link' = NoLink /\ receiver' = <<>> /\ hand' = <<>> /\ request' = NoRequest /\ shown' = <<>>
  /\ unheard' = FALSE /\ lagged' = FALSE
  /\ UNCHANGED <<probeVars, news>>

-----------------------------------------------------------------------------
Probing == NextRound \/ PublishRound \/ \E b \in Backends : ProbeOne(b)
Writing == WriterStarts \/ DeliverBusEvent \/ SendNews
Handling == ReadSnapshot \/ SendSnapshot

BusNext ==
  \/ Probing \/ Writing \/ Handling \/ OtherNews \/ ClientConnects \/ Subscribe \/ ClientDrops
  \/ \E b \in Backends : BackendChanges(b)

\* The three tasks are scheduled, probes time out, sends return or the connection ends.
BusFairness == WF_busVars(Probing) /\ WF_busVars(Writing) /\ WF_busVars(Handling)

-----------------------------------------------------------------------------
(* Properties *)

\* A client that has subscribed to daemon.health and has been sent everything there is to
\* send has been sent every round published since its writer came up, as a pulse or in a
\* snapshot read after it, although the topics may be set just after a pulse was passed
\* over.  Only a ring that overflowed with other news breaks this.  It says what was sent,
\* not what came last: a snapshot read before a pulse and sent after it is what the client
\* shows until the next pulse (handle_events_subscribe awaits between the two).
HealthIsTold ==
  "daemon_health" \in link.topics /\ request.at = "idle" /\ hand = <<>> /\ ~Holds(receiver) /\ ~lagged
    => ~unheard

\* Whatever was delivered late, out of order or not at all, a subscribed client comes to
\* show which agents are installed, and stays right once nobody changes that.
HealthIsShown == <>[]("daemon_health" \in link.topics => shown = truth)

\* A subscriber is sent every round, and comes to show how the backends are for good.
HealthReachesClients == []HealthIsTold /\ HealthIsShown

=============================================================================
