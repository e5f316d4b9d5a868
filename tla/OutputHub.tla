----------------------------- MODULE OutputHub -----------------------------
(***************************************************************************)
(* The output hub of one session (la-ipc/hub.rs): the ring of recent        *)
(* chunks, the subscriptions with their byte budgets, parking, resuming and *)
(* eviction, and the handles (Subscription) whose owners drain a channel.   *)
(* A handle's channel has a sender only while the entry of its subscription *)
(* points at it: tx is the handle an entry sends to.                        *)
(*                                                                          *)
(* All of the hub's own steps run under one lock.  A payload is published   *)
(* chunk by chunk under it; readers take from their channels without it.    *)
(* Left out: pending_gap (written, never read) and closed (never set).      *)
(***************************************************************************)
EXTENDS Integers, Sequences, FiniteSets

CONSTANTS
  Null,
  Subs,        \* subscription ids, in the order next_sub_id hands them out
  Handles,     \* Subscription values
  Lens,        \* decoded lengths a chunk may have
  RingBytes,   \* HubConfig::ring_bytes
  QueueBytes,  \* HubConfig::sub_queue_bytes
  ParkFor,     \* HubConfig::park_duration
  MaxSeq,      \* bound: chunks published
  MaxTime      \* bound: the clock

ASSUME HubAssumption ==
  /\ Subs \subseteq Nat /\ Null \notin Subs \cup Handles \cup Nat
  /\ Lens \subseteq Nat /\ RingBytes \in Nat /\ QueueBytes \in Nat
  /\ ParkFor \in Nat /\ MaxSeq \in Nat /\ MaxTime \in Nat

VARIABLES
  nextSeq,     \* next_seq
  ring,        \* the chunks still held, oldest first
  publishing,  \* the lock is held between two chunks of one payload
  subs,        \* the entries: [tx, queued, parked] of each known id
  nextSub,     \* next_sub_id
  owner,       \* the subscription a handle belongs to
  phase,       \* of a handle: "unused", "idle", "acking", "ended", "dropped", "gone"
  queue,       \* what is in a handle's channel
  owed,        \* charge recv has still to take off
  seen,        \* number of the last chunk the handle's owner knows of
  now          \* the clock

hubVars == <<nextSeq, ring, publishing, subs, nextSub, owner, phase, queue, owed, seen, now>>

-----------------------------------------------------------------------------
(* The ring and the byte budgets *)

\* Decoded bytes of a sequence of chunks.
Bytes(s) ==
  LET upTo[i \in 0..Len(s)] == IF i = 0 THEN 0 ELSE upTo[i - 1] + s[i].len
  IN upTo[Len(s)]

\* The oldest chunks go while what is left is over the ring's budget.
Evicted(s) ==
  SubSeq(s, 1 + Cardinality({k \in 1..Len(s) :
                               Bytes(SubSeq(s, k, Len(s))) > RingBytes}), Len(s))

\* push_to_sub: a chunk that would not fit is replaced by a gap of its own.
Pushed(charge, c) == [seq |-> c.seq, len |-> c.len, gap |-> charge + c.len > QueueBytes]

\* Mutant: the charge grows whether or not the chunk was dropped.
MutCharged(charge, c) == charge + c.len

Charged(charge, c) == IF charge + c.len > QueueBytes THEN charge ELSE charge + c.len

\* The charge after pushing the first i chunks of s onto an empty queue.
ChargeAfter(s) ==
  LET after[i \in 0..Len(s)] == IF i = 0 THEN 0 ELSE Charged(after[i - 1], s[i])
  IN after

Replayed(s) == [i \in 1..Len(s) |-> Pushed(ChargeAfter(s)[i - 1], s[i])]

\* Chunks of the ring newer than the cursor; without a cursor, none.
Newer(since) ==
  IF since = Null \/ ring = <<>> THEN <<>>
  ELSE SubSeq(ring, IF since < ring[1].seq THEN 1 ELSE since - ring[1].seq + 2, Len(ring))

\* Where a reader that gets s starts: all it is not told of is before it.
StartOf(s) == IF s = <<>> THEN nextSeq - 1 ELSE s[1].seq - 1

HasSender(h) == \E s \in DOMAIN subs : subs[s].tx = h

\* The handle has not been dropped.
Held(h) == phase[h] \in {"idle", "acking", "ended"}

Cursors == {Null} \cup 0..(nextSeq - 1)

-----------------------------------------------------------------------------
(* The hub *)

HubInit ==
  /\ nextSeq = 1 /\ ring = <<>> /\ publishing = FALSE
  /\ subs = <<>> /\ nextSub = 1
  /\ owner = [h \in Handles |-> Null]
  /\ phase = [h \in Handles |-> "unused"]
  /\ queue = [h \in Handles |-> <<>>]
  /\ owed = [h \in Handles |-> 0]
  /\ seen = [h \in Handles |-> 0]
  /\ now = 0

\* Mutant: a subscriber that is over its budget is skipped without a notice.
MutPublish(len, more) ==
  LET c == [seq |-> nextSeq, len |-> len]
      to(s) == subs[s].tx # Null /\ subs[s].queued + len <= QueueBytes
  IN /\ nextSeq <= MaxSeq
     /\ ring' = Evicted(Append(ring, c))
     /\ queue' = [h \in Handles |->
                    IF \E s \in DOMAIN subs : subs[s].tx = h /\ Held(h) /\ to(s)
                    THEN Append(queue[h], [seq |-> c.seq, len |-> len, gap |-> FALSE])
                    ELSE queue[h]]
     /\ subs' = [s \in DOMAIN subs |->
                   IF to(s) THEN [subs[s] EXCEPT !.queued = @ + len] ELSE subs[s]]
     /\ nextSeq' = nextSeq + 1 /\ publishing' = more
     /\ UNCHANGED <<nextSub, owner, phase, owed, seen, now>>

\* publish: one chunk of a payload, to the ring and to every entry with a sender;
\* more chunks of the payload follow under the same lock.
Publish(len, more) ==
  LET c == [seq |-> nextSeq, len |-> len]
  IN /\ nextSeq <= MaxSeq /\ (more => nextSeq < MaxSeq)
     /\ ring' = Evicted(Append(ring, c))
     /\ queue' = [h \in Handles |->
                    IF HasSender(h) /\ Held(h)
                    THEN Append(queue[h],
                                Pushed(subs[CHOOSE s \in DOMAIN subs : subs[s].tx = h].queued, c))
                    ELSE queue[h]]
     /\ subs' = [s \in DOMAIN subs |->
                   IF subs[s].tx = Null THEN subs[s]
                   ELSE [subs[s] EXCEPT !.queued = Charged(@, c)]]
     /\ nextSeq' = nextSeq + 1 /\ publishing' = more
     /\ UNCHANGED <<nextSub, owner, phase, owed, seen, now>>

\* A new channel for subscription s, primed with what the ring holds after since.
OpenHandle(h, s, since) ==
  LET chunks == Newer(since)
  IN /\ phase[h] = "unused"
     /\ owner' = [owner EXCEPT ![h] = s]
     /\ phase' = [phase EXCEPT ![h] = "idle"]
     /\ queue' = [queue EXCEPT ![h] = Replayed(chunks)]
     /\ seen' = [seen EXCEPT ![h] = StartOf(chunks)]
     /\ subs' = [t \in DOMAIN subs \cup {s} |->
                   IF t = s THEN [tx |-> h, queued |-> ChargeAfter(chunks)[Len(chunks)],
                                  parked |-> Null]
                   ELSE subs[t]]

\* subscribe
Subscribe(h, since) ==
  /\ ~publishing /\ nextSub \in Subs
  /\ OpenHandle(h, nextSub, since)
  /\ nextSub' = nextSub + 1
  /\ UNCHANGED <<nextSeq, ring, publishing, owed, now>>

\* resume of a known id, parked or not: the old channel loses its sender.
Resume(h, s, since) ==
  /\ ~publishing /\ s \in DOMAIN subs
  /\ OpenHandle(h, s, since)
  /\ UNCHANGED <<nextSeq, ring, publishing, nextSub, owed, now>>

\* park
Parked(s) ==
  IF s \in DOMAIN subs /\ subs[s].parked = Null
  THEN [subs EXCEPT ![s] = [@ EXCEPT !.parked = now + ParkFor, !.tx = Null]]
  ELSE subs

Park(s) ==
  /\ ~publishing
  /\ subs' = Parked(s)
  /\ UNCHANGED <<nextSeq, ring, publishing, nextSub, owner, phase, queue, owed, seen, now>>

\* evict_if_still_parked, called by a timer of the owner: a resume in between, or a
\* later park, makes it do nothing.
Evict(s) ==
  /\ ~publishing /\ s \in DOMAIN subs
  /\ subs[s].parked # Null /\ now >= subs[s].parked
  /\ subs' = [t \in DOMAIN subs \ {s} |-> subs[t]]
  /\ UNCHANGED <<nextSeq, ring, publishing, nextSub, owner, phase, queue, owed, seen, now>>

\* close: every sender and the ring go; next_seq stays.
Close ==
  /\ ~publishing
  /\ subs' = <<>> /\ ring' = <<>>
  /\ UNCHANGED <<nextSeq, publishing, nextSub, owner, phase, queue, owed, seen, now>>

-----------------------------------------------------------------------------
(* The owner of a handle *)

\* recv takes the next event from the channel, without the lock ...
Take(h) ==
  /\ phase[h] = "idle" /\ queue[h] # <<>>
  /\ queue' = [queue EXCEPT ![h] = Tail(@)]
  /\ seen' = [seen EXCEPT ![h] = queue[h][1].seq]
  /\ phase' = [phase EXCEPT ![h] = IF queue[h][1].gap THEN "idle" ELSE "acking"]
  /\ owed' = [owed EXCEPT ![h] = IF queue[h][1].gap THEN 0 ELSE queue[h][1].len]
  /\ UNCHANGED <<nextSeq, ring, publishing, subs, nextSub, owner, now>>

\* ... and then takes the chunk off the charge of its id, whoever that id now serves.
Ack(h) ==
  /\ ~publishing /\ phase[h] = "acking"
  /\ phase' = [phase EXCEPT ![h] = "idle"]
  /\ owed' = [owed EXCEPT ![h] = 0]
  /\ subs' = IF owner[h] \in DOMAIN subs
             THEN [subs EXCEPT ![owner[h]].queued = IF @ < owed[h] THEN 0 ELSE @ - owed[h]]
             ELSE subs
  /\ UNCHANGED <<nextSeq, ring, publishing, nextSub, owner, queue, seen, now>>

\* recv returns Null: drained, and nobody can send any more.
End(h) ==
  /\ phase[h] = "idle" /\ queue[h] = <<>> /\ ~HasSender(h)
  /\ phase' = [phase EXCEPT ![h] = "ended"]
  /\ UNCHANGED <<nextSeq, ring, publishing, subs, nextSub, owner, queue, owed, seen, now>>

\* The handle is dropped, also in the middle of recv; a spawned task will park its id.
Drop(h) ==
  /\ phase[h] \in {"idle", "acking", "ended"}
  /\ phase' = [phase EXCEPT ![h] = "dropped"]
  /\ queue' = [queue EXCEPT ![h] = <<>>]
  /\ owed' = [owed EXCEPT ![h] = 0] /\ seen' = [seen EXCEPT ![h] = 0]
  /\ UNCHANGED <<nextSeq, ring, publishing, subs, nextSub, owner, now>>

DropPark(h) ==
  /\ ~publishing /\ phase[h] = "dropped"
  /\ phase' = [phase EXCEPT ![h] = "gone"]
  /\ subs' = Parked(owner[h])
  /\ UNCHANGED <<nextSeq, ring, publishing, nextSub, owner, queue, owed, seen, now>>

Tick ==
  /\ now < MaxTime /\ now' = now + 1
  /\ UNCHANGED <<nextSeq, ring, publishing, subs, nextSub, owner, phase, queue, owed, seen>>

HubNext ==
  \/ \E len \in Lens, more \in BOOLEAN : Publish(len, more)
  \/ \E h \in Handles, since \in Cursors :
       Subscribe(h, since) \/ \E s \in DOMAIN subs : Resume(h, s, since)
  \/ \E s \in Subs : Park(s) \/ Evict(s)
  \/ \E h \in Handles : Take(h) \/ Ack(h) \/ End(h) \/ Drop(h) \/ DropPark(h)
  \/ Close
  \/ Tick

HubSpec == HubInit /\ [][HubNext]_hubVars

\* A reader that keeps calling recv and a lock that is released.
HubFairness ==
  /\ \A h \in Handles : WF_hubVars(Take(h)) /\ WF_hubVars(Ack(h)) /\ WF_hubVars(End(h))
  /\ WF_hubVars(\E len \in Lens : Publish(len, FALSE) /\ publishing)

HubFairSpec == HubSpec /\ HubFairness

-----------------------------------------------------------------------------
(* Properties *)

HubTypeOK ==
  /\ nextSeq \in 1..(MaxSeq + 1) /\ publishing \in BOOLEAN
  /\ ring \in Seq([seq : 1..MaxSeq, len : Lens])
  /\ DOMAIN subs \subseteq Subs
  /\ \A s \in DOMAIN subs :
       subs[s] \in [tx : Handles \cup {Null}, queued : 0..QueueBytes,
                    parked : Nat \cup {Null}]
  /\ owner \in [Handles -> Subs \cup {Null}]
  /\ phase \in [Handles -> {"unused", "idle", "acking", "ended", "dropped", "gone"}]
  /\ \A h \in Handles :
       queue[h] \in Seq([seq : 1..MaxSeq, len : Lens, gap : BOOLEAN])
  /\ owed \in [Handles -> Nat] /\ seen \in [Handles -> 0..MaxSeq] /\ now \in 0..MaxTime

\* The refinement: which stream of OutputStream a handle reads.
StreamStatus(h) ==
  CASE phase[h] = "unused"              -> "unused"
    [] phase[h] \in {"dropped", "gone"} -> "done"
    [] Held(h) /\ HasSender(h)          -> "live"
    [] OTHER                            -> "cut"

StreamLimit(h) ==
  IF StreamStatus(h) # "cut" THEN 0
  ELSE IF queue[h] = <<>> THEN seen[h] ELSE queue[h][Len(queue[h])].seq

Stream ==
  INSTANCE OutputStream WITH
    Readers <- Handles,
    written <- nextSeq - 1,
    status  <- [h \in Handles |-> StreamStatus(h)],
    told    <- seen,
    limit   <- [h \in Handles |-> StreamLimit(h)]

\* Every reader is told of every chunk after its starting point, once and in order,
\* as output or as a gap, however publishing, budgets, parking, resuming, eviction
\* and closing interleave: the hub implements OutputStream.
DeliversInOrder == Stream!Spec

\* What is published while a reader is attached reaches it, unless its owner drops it.
PublishedIsTold ==
  \A h \in Handles : \A n \in 1..MaxSeq :
    (Held(h) /\ HasSender(h) /\ nextSeq > n) ~> (seen[h] >= n \/ ~Held(h))
=============================================================================
