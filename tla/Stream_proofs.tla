--------------------------- MODULE Stream_proofs ---------------------------
(***************************************************************************)
(* Theorems about a session's output and input.  The hub tells every reader *)
(* of every chunk in order: it implements OutputStream.  Attached end to    *)
(* end, the session's input has one owner; what the terminal shows is in    *)
(* order and shown once, and a connected attempt misses nothing above the   *)
(* cursor it asked to resume from; and the charge of a subscription is what *)
(* it still carries.                                                        *)
(***************************************************************************)
EXTENDS AttachStream, FiniteSetTheorems, SequenceTheorems, WellFoundedInduction, TLAPS

-----------------------------------------------------------------------------
(* The inductive invariant *)

Chunk == [seq : Nat, len : Nat]

Event == [seq : Nat, len : Nat, gap : BOOLEAN]

Phases == {"unused", "idle", "acking", "ended", "dropped", "gone"}

\* The numbers of q are first + 1, first + 2, ...
InOrder(q, first) == \A i \in 1..Len(q) : q[i].seq = first + i

\* The charge of an entry is left open: no promise to a reader depends on it.
HubTypes ==
  /\ nextSeq \in Nat /\ nextSeq # 0
  /\ ring \in Seq(Chunk)
  /\ \A s \in DOMAIN subs : "tx" \in DOMAIN subs[s]
  /\ phase \in [Handles -> Phases]
  /\ queue \in [Handles -> Seq(Event)]
  /\ seen \in [Handles -> Nat]

\* The ring is a contiguous end of what was published.
RingInv == Len(ring) <= nextSeq - 1 /\ InOrder(ring, nextSeq - 1 - Len(ring))

\* A channel holds the numbers that follow what its reader knows, up to the last
\* one published while somebody can send; a handle nobody holds is empty.
ReaderInv ==
  \A h \in Handles :
    /\ Held(h) => InOrder(queue[h], seen[h])
    /\ Held(h) /\ HasSender(h) => seen[h] + Len(queue[h]) = nextSeq - 1
    /\ ~Held(h) => queue[h] = <<>> /\ seen[h] = 0

HubInv == HubTypes /\ RingInv /\ ReaderInv

-----------------------------------------------------------------------------
(* Sequences of numbered chunks *)

\* An end of a sequence that ends at last ends at last.
LEMMA EndsAlike ==
  ASSUME NEW S, NEW q \in Seq(S), NEW last \in Int, NEW k \in 1..(Len(q) + 1),
         InOrder(q, last - Len(q))
  PROVE  /\ SubSeq(q, k, Len(q)) \in Seq(S)
         /\ Len(SubSeq(q, k, Len(q))) = Len(q) - k + 1
         /\ InOrder(SubSeq(q, k, Len(q)), last - Len(SubSeq(q, k, Len(q))))
<1> DEFINE e == SubSeq(q, k, Len(q))
<1>1. Len(e) = Len(q) - k + 1 /\ \A i \in 1..Len(e) : e[i] = q[k + i - 1]
  OBVIOUS
<1>2. e \in Seq(S)
  BY SubSeqProperties
<1>3. \A i \in 1..Len(e) : k + i - 1 \in 1..Len(q) /\ q[k + i - 1].seq = last - Len(q) + (k + i - 1)
  BY <1>1 DEF InOrder
<1> QED
  BY <1>1, <1>2, <1>3 DEF InOrder

\* The next number at the end.
LEMMA AppendInOrder ==
  ASSUME NEW S, NEW q \in Seq(S), NEW first \in Int, NEW e \in S,
         InOrder(q, first), e.seq = first + Len(q) + 1
  PROVE  Append(q, e) \in Seq(S) /\ Len(Append(q, e)) = Len(q) + 1 /\ InOrder(Append(q, e), first)
  BY DEF InOrder

\* What goes from the ring is a beginning of it.
LEMMA EvictedIsAnEnd ==
  ASSUME NEW S, NEW q \in Seq(S), NEW last \in Int, InOrder(q, last - Len(q))
  PROVE  /\ Evicted(q) \in Seq(S) /\ Len(Evicted(q)) <= Len(q)
         /\ InOrder(Evicted(q), last - Len(Evicted(q)))
<1> DEFINE gone == {k \in 1..Len(q) : Bytes(SubSeq(q, k, Len(q))) > RingBytes}
<1>1. IsFiniteSet(1..Len(q)) /\ Cardinality(1..Len(q)) = Len(q)
  <2>1. Len(q) \in Nat
    OBVIOUS
  <2>2. IsFiniteSet(1..Len(q)) /\ Cardinality(1..Len(q)) = IF 1 > Len(q) THEN 0 ELSE Len(q) - 1 + 1
    BY <2>1, FS_Interval
  <2> QED
    BY <2>1, <2>2
<1>2. IsFiniteSet(gone) /\ Cardinality(gone) <= Len(q)
  <2>1. gone \in SUBSET (1..Len(q))
    OBVIOUS
  <2> HIDE DEF gone
  <2> QED
    BY <1>1, <2>1, FS_Subset
<1>3. Cardinality(gone) \in Nat
  BY <1>2, FS_CardinalityType
<1>4. Evicted(q) = SubSeq(q, 1 + Cardinality(gone), Len(q))
  BY DEF Evicted
<1> HIDE DEF gone
<1> QED
  BY <1>2, <1>3, <1>4, EndsAlike

\* A replay starts where its reader is told it starts and ends at the last chunk.
LEMMA ReplayIsAnEnd ==
  ASSUME HubInv, NEW since \in Cursors
  PROVE  LET chunks == Newer(since)
         IN  /\ Replayed(chunks) \in Seq(Event)
             /\ StartOf(chunks) \in Nat
             /\ InOrder(Replayed(chunks), StartOf(chunks))
             /\ StartOf(chunks) + Len(Replayed(chunks)) = nextSeq - 1
<1> DEFINE chunks == Newer(since)
           start == IF since < ring[1].seq THEN 1 ELSE since - ring[1].seq + 2
<1>0. nextSeq \in Nat /\ nextSeq # 0 /\ ring \in Seq(Chunk) /\ Len(ring) \in Nat
  BY DEF HubInv, HubTypes
<1>1. /\ chunks \in Seq(Chunk) /\ Len(chunks) <= nextSeq - 1
      /\ InOrder(chunks, nextSeq - 1 - Len(chunks))
  <2>1. CASE since = Null \/ ring = <<>>
    <3>1. chunks = <<>>
      BY <2>1 DEF Newer
    <3> QED
      BY <1>0, <3>1 DEF InOrder
  <2>2. CASE ~(since = Null \/ ring = <<>>)
    <3>1. chunks = SubSeq(ring, start, Len(ring)) /\ since \in 0..(nextSeq - 1)
      BY <2>2 DEF Newer, Cursors
    <3>2. Len(ring) >= 1 /\ ring[1].seq = nextSeq - Len(ring)
      BY <1>0, <2>2 DEF HubInv, RingInv, InOrder
    <3>3. start \in 1..(Len(ring) + 1)
      BY <1>0, <3>1, <3>2 DEF HubInv, RingInv
    <3> HIDE DEF start
    <3>4. InOrder(ring, nextSeq - 1 - Len(ring)) /\ Len(ring) <= nextSeq - 1
      BY DEF HubInv, RingInv
    <3>5. nextSeq - 1 \in Int
      BY <1>0
    <3>6. /\ SubSeq(ring, start, Len(ring)) \in Seq(Chunk)
          /\ Len(SubSeq(ring, start, Len(ring))) = Len(ring) - start + 1
          /\ InOrder(SubSeq(ring, start, Len(ring)), nextSeq - 1 - Len(SubSeq(ring, start, Len(ring))))
      BY <1>0, <3>3, <3>4, <3>5, EndsAlike
    <3> QED
      BY <1>0, <3>1, <3>3, <3>4, <3>6
  <2> QED
    BY <2>1, <2>2
<1> HIDE DEF chunks, start
<1>2. StartOf(chunks) = nextSeq - 1 - Len(chunks)
  BY <1>0, <1>1 DEF StartOf, InOrder
<1>3. \A i \in 1..Len(chunks) : Pushed(ChargeAfter(chunks)[i - 1], chunks[i]) \in Event
  <2> TAKE i \in 1..Len(chunks)
  <2>0. chunks[i] \in Chunk
    BY <1>1
  <2>1. chunks[i].seq \in Nat /\ chunks[i].len \in Nat
    BY <2>0 DEF Chunk
  <2>2. (ChargeAfter(chunks)[i - 1] + chunks[i].len > QueueBytes) \in BOOLEAN
    OBVIOUS
  <2> QED
    BY <2>1, <2>2 DEF Pushed, Event
<1>4. /\ Replayed(chunks) \in Seq(Event) /\ Len(Replayed(chunks)) = Len(chunks)
      /\ \A i \in 1..Len(chunks) : Replayed(chunks)[i] = Pushed(ChargeAfter(chunks)[i - 1], chunks[i])
  BY <1>1, <1>3 DEF Replayed
<1>5. \A i \in 1..Len(chunks) : Pushed(ChargeAfter(chunks)[i - 1], chunks[i]).seq = chunks[i].seq
  BY DEF Pushed
<1> QED
  BY <1>0, <1>1, <1>2, <1>4, <1>5 DEF InOrder, chunks

-----------------------------------------------------------------------------
(* The steps *)

\* The empty hub is in order, and a stream nobody reads.
LEMMA HubStart == HubInit => HubInv /\ Stream!Init
<1> SUFFICES ASSUME HubInit PROVE HubInv /\ Stream!Init
  OBVIOUS
<1> USE DEF HubInit
<1>1. HubTypes /\ RingInv
  BY DEF HubTypes, RingInv, InOrder, Phases
<1>2. ReaderInv
  BY DEF ReaderInv, Held, InOrder
<1>3. Stream!Init
  <2>1. \A h \in Handles : StreamStatus(h) = "unused"
    BY DEF StreamStatus, Held
  <2>2. \A h \in Handles : StreamLimit(h) = 0
    BY <2>1 DEF StreamLimit
  <2> QED
    BY <2>1, <2>2 DEF Stream!Init
<1> QED
  BY <1>1, <1>2, <1>3 DEF HubInv

LimitsAreLast ==
  \A h \in Handles :
    StreamLimit(h) = IF StreamStatus(h) = "cut" THEN seen[h] + Len(queue[h]) ELSE 0

\* The number up to which a cut stream delivers is the last one in its channel.
LEMMA LimitIsLast == HubInv => LimitsAreLast
<1> SUFFICES ASSUME HubInv, NEW h \in Handles
             PROVE  StreamLimit(h) = IF StreamStatus(h) = "cut" THEN seen[h] + Len(queue[h]) ELSE 0
  BY DEF LimitsAreLast
<1>1. queue[h] \in Seq(Event) /\ seen[h] \in Nat
  BY DEF HubInv, HubTypes
<1>2. StreamStatus(h) = "cut" => Held(h)
  BY DEF StreamStatus, Held, HubInv, HubTypes, Phases
<1>3. Held(h) => InOrder(queue[h], seen[h])
  BY DEF HubInv, ReaderInv
<1> QED
  BY <1>1, <1>2, <1>3 DEF StreamLimit, InOrder

\* A step that moves no number: some entries may lose their sender, which cuts the
\* streams of those who hold their handles.
LEMMA CutStep ==
  ASSUME HubInv, UNCHANGED <<nextSeq, queue, seen>>,
         ring' = ring \/ ring' = <<>>,
         phase' \in [Handles -> Phases],
         \A s \in DOMAIN subs' : "tx" \in DOMAIN subs'[s],
         \A h \in Handles : /\ Held(h)' <=> Held(h)
                            /\ phase'[h] = "unused" <=> phase[h] = "unused"
                            /\ HasSender(h)' => HasSender(h)
  PROVE  HubInv' /\ Stream!Next
<1>1. HubTypes' /\ RingInv'
  <2>1. ring' \in Seq(Chunk)
    <3>1. ring \in Seq(Chunk) /\ <<>> \in Seq(Chunk)
      BY DEF HubInv, HubTypes
    <3> QED
      BY <3>1
  <2>2. RingInv'
    <3>1. CASE ring' = ring
      BY <3>1 DEF HubInv, RingInv, InOrder
    <3>2. CASE ring' = <<>>
      BY <3>2 DEF HubInv, HubTypes, RingInv, InOrder
    <3> QED
      BY <3>1, <3>2
  <2> QED
    BY <2>1, <2>2 DEF HubInv, HubTypes
<1>2. ReaderInv'
  BY DEF HubInv, ReaderInv
<1>3. HubInv'
  BY <1>1, <1>2 DEF HubInv
<1> DEFINE R == {h \in Handles : StreamStatus(h) = "live" /\ ~HasSender(h)'}
<1>4. \A h \in Handles : StreamStatus(h)' = IF h \in R THEN "cut" ELSE StreamStatus(h)
  <2> TAKE h \in Handles
  <2>1. phase[h] \in Phases /\ phase'[h] \in Phases
    BY DEF HubInv, HubTypes
  <2> QED
    BY <2>1 DEF StreamStatus, Held, Phases
<1>5. \A h \in Handles : StreamLimit(h)' = IF h \in R THEN nextSeq - 1 ELSE StreamLimit(h)
  <2> TAKE h \in Handles
  <2>0. LimitsAreLast'
    BY <1>3, LimitIsLast, PTL
  <2>1. StreamLimit(h)' = IF StreamStatus(h)' = "cut" THEN seen[h] + Len(queue[h]) ELSE 0
    BY <2>0 DEF LimitsAreLast
  <2>2. h \in R => seen[h] + Len(queue[h]) = nextSeq - 1
    BY DEF StreamStatus, HubInv, ReaderInv
  <2> QED
    BY <1>4, <2>1, <2>2, LimitIsLast DEF LimitsAreLast
<1>6. Stream!Cut(R)
  BY <1>4, <1>5 DEF Stream!Cut
<1>7. R \in SUBSET Handles
  OBVIOUS
<1> HIDE DEF R
<1> QED
  BY <1>3, <1>6, <1>7 DEF Stream!Next

\* Entries change in their charge and their timers only, or go away.
LEMMA EntriesGo ==
  ASSUME HubInv, UNCHANGED <<nextSeq, queue, seen, phase>>,
         ring' = ring \/ ring' = <<>>,
         \A s \in DOMAIN subs' : /\ s \in DOMAIN subs /\ "tx" \in DOMAIN subs'[s]
                                 /\ subs'[s].tx \in {subs[s].tx, Null}
  PROVE  HubInv' /\ Stream!Next
<1>1. \A h \in Handles : HasSender(h)' => HasSender(h)
  BY HubAssumption DEF HasSender
<1>2. \A h \in Handles : (Held(h)' <=> Held(h)) /\ phase'[h] = phase[h]
  BY DEF Held
<1>3. phase' \in [Handles -> Phases]
  BY DEF HubInv, HubTypes
<1> QED
  BY <1>1, <1>2, <1>3, CutStep

\* park takes an entry's sender and keeps the others.
LEMMA ParkedEntries ==
  ASSUME HubInv, NEW s
  PROVE  /\ DOMAIN Parked(s) = DOMAIN subs
         /\ \A t \in DOMAIN subs : /\ "tx" \in DOMAIN Parked(s)[t]
                                   /\ Parked(s)[t].tx \in {subs[t].tx, Null}
  BY DEF Parked, HubInv, HubTypes

\* Parking, evicting, closing and the clock.
LEMMA QuietSteps ==
  ASSUME HubInv,
         \/ \E s \in Subs : Park(s) \/ Evict(s)
         \/ Close \/ Tick
  PROVE  HubInv' /\ Stream!Next
<1>1. CASE \E s \in Subs : Park(s)
  BY <1>1, ParkedEntries, EntriesGo DEF Park
<1>2. CASE \E s \in Subs : Evict(s)
  BY <1>2, EntriesGo DEF Evict, HubInv, HubTypes
<1>3. CASE Close
  BY <1>3, EntriesGo DEF Close
<1>4. CASE Tick
  BY <1>4, EntriesGo DEF Tick, HubInv, HubTypes
<1> QED
  BY <1>1, <1>2, <1>3, <1>4

\* The second half of recv, its end, and the task a dropped handle leaves behind.
LEMMA HandleSteps ==
  ASSUME HubInv, NEW h \in Handles, Ack(h) \/ End(h) \/ DropPark(h)
  PROVE  HubInv' /\ Stream!Next
<1>0. /\ phase \in [Handles -> Phases]
      /\ \A s \in DOMAIN subs : "tx" \in DOMAIN subs[s]
  BY DEF HubInv, HubTypes
<1>1. CASE Ack(h)
  <2>1. /\ UNCHANGED <<nextSeq, queue, seen, ring>>
        /\ phase[h] = "acking" /\ phase' = [phase EXCEPT ![h] = "idle"]
    BY <1>1 DEF Ack
  <2>2. \A s \in DOMAIN subs' : s \in DOMAIN subs /\ "tx" \in DOMAIN subs'[s] /\ subs'[s].tx = subs[s].tx
    BY <1>0, <1>1 DEF Ack
  <2> QED
    BY <1>0, <2>1, <2>2, CutStep DEF HasSender, Held, Phases
<1>2. CASE End(h)
  <2>1. /\ UNCHANGED <<nextSeq, queue, seen, ring, subs>>
        /\ phase[h] = "idle" /\ phase' = [phase EXCEPT ![h] = "ended"]
    BY <1>2 DEF End
  <2> QED
    BY <1>0, <2>1, CutStep DEF HasSender, Held, Phases
<1>3. CASE DropPark(h)
  <2>1. /\ UNCHANGED <<nextSeq, queue, seen, ring>>
        /\ phase[h] = "dropped" /\ phase' = [phase EXCEPT ![h] = "gone"]
        /\ subs' = Parked(owner[h])
    BY <1>3 DEF DropPark
  <2>2. \A s \in DOMAIN subs' :
          s \in DOMAIN subs /\ "tx" \in DOMAIN subs'[s] /\ subs'[s].tx \in {subs[s].tx, Null}
    BY <2>1, ParkedEntries
  <2>3. \A k \in Handles : HasSender(k)' => HasSender(k)
    BY <2>2, HubAssumption DEF HasSender
  <2> QED
    BY <1>0, <2>1, <2>2, <2>3, CutStep DEF Held, Phases
<1> QED
  BY <1>1, <1>2, <1>3

\* publish writes the next number to the ring and to every channel with a sender.
LEMMA PublishStep ==
  ASSUME HubInv, NEW len \in Lens, NEW more, Publish(len, more)
  PROVE  HubInv' /\ Stream!Next
<1> DEFINE c == [seq |-> nextSeq, len |-> len]
           charge(h) == subs[CHOOSE s \in DOMAIN subs : subs[s].tx = h].queued
<1>0. /\ nextSeq \in Nat /\ nextSeq # 0 /\ ring \in Seq(Chunk) /\ Len(ring) \in Nat
      /\ phase \in [Handles -> Phases] /\ queue \in [Handles -> Seq(Event)]
      /\ seen \in [Handles -> Nat] /\ len \in Nat
  BY HubAssumption DEF HubInv, HubTypes
<1>1. /\ ring' = Evicted(Append(ring, c)) /\ nextSeq' = nextSeq + 1
      /\ UNCHANGED <<phase, seen>>
      /\ queue' = [h \in Handles |-> IF HasSender(h) /\ Held(h)
                                     THEN Append(queue[h], Pushed(charge(h), c)) ELSE queue[h]]
      /\ subs' = [s \in DOMAIN subs |-> IF subs[s].tx = Null THEN subs[s]
                                        ELSE [subs[s] EXCEPT !.queued = Charged(@, c)]]
  BY DEF Publish
<1>20. nextSeq' = nextSeq + 1 /\ phase' = phase /\ seen' = seen /\ ring' = Evicted(Append(ring, c))
  BY <1>1
<1>2. \A h \in Handles : Pushed(charge(h), c) \in Event /\ Pushed(charge(h), c).seq = nextSeq
  <2> TAKE h \in Handles
  <2>1. (charge(h) + len > QueueBytes) \in BOOLEAN
    OBVIOUS
  <2> HIDE DEF charge
  <2> QED
    BY <1>0, <2>1 DEF Pushed, Event
<1>3. /\ DOMAIN subs' = DOMAIN subs
      /\ \A s \in DOMAIN subs : "tx" \in DOMAIN subs'[s] /\ subs'[s].tx = subs[s].tx
  <2>1. \A s \in DOMAIN subs : "tx" \in DOMAIN subs[s]
    BY DEF HubInv, HubTypes
  <2> QED
    BY <1>1, <2>1
<1> HIDE DEF charge
<1>4. ring' \in Seq(Chunk) /\ RingInv'
  <2>1. c \in Chunk /\ c.seq = nextSeq
    BY <1>0 DEF Chunk
  <2>2. InOrder(ring, nextSeq - 1 - Len(ring)) /\ Len(ring) <= nextSeq - 1
    BY DEF HubInv, RingInv
  <2> HIDE DEF c
  <2>3. /\ Append(ring, c) \in Seq(Chunk) /\ Len(Append(ring, c)) = Len(ring) + 1
        /\ InOrder(Append(ring, c), nextSeq - 1 - Len(ring))
    <3>1. nextSeq - 1 - Len(ring) \in Int /\ c.seq = (nextSeq - 1 - Len(ring)) + Len(ring) + 1
      BY <1>0, <2>1
    <3> QED
      BY <1>0, <2>1, <2>2, <3>1, AppendInOrder
  <2>4. nextSeq - 1 - Len(ring) = nextSeq - Len(Append(ring, c))
    BY <1>0, <2>3
  <2>5. /\ ring' \in Seq(Chunk) /\ Len(ring') <= Len(ring) + 1
        /\ InOrder(ring', nextSeq - Len(ring'))
    <3>1. PICK r : r = Append(ring, c)
      OBVIOUS
    <3>2. r \in Seq(Chunk) /\ Len(r) = Len(ring) + 1 /\ InOrder(r, nextSeq - Len(r)) /\ nextSeq \in Int
      BY <1>0, <2>3, <2>4, <3>1
    <3>3. /\ Evicted(r) \in Seq(Chunk) /\ Len(Evicted(r)) <= Len(r)
          /\ InOrder(Evicted(r), nextSeq - Len(Evicted(r)))
      BY <3>2, EvictedIsAnEnd
    <3> QED
      BY <1>20, <3>1, <3>2, <3>3
  <2>6. nextSeq' - 1 - Len(ring') = nextSeq - Len(ring') /\ Len(ring') <= nextSeq' - 1
    BY <1>0, <1>20, <2>2, <2>5
  <2> QED
    BY <2>5, <2>6 DEF RingInv, InOrder
<1>5. \A h \in Handles : (HasSender(h)' <=> HasSender(h)) /\ (Held(h)' <=> Held(h))
  BY <1>1, <1>3 DEF HasSender, Held
<1>6. \A h \in Handles :
        /\ queue'[h] \in Seq(Event)
        /\ ~(HasSender(h) /\ Held(h)) => queue'[h] = queue[h]
        /\ HasSender(h) /\ Held(h) => /\ InOrder(queue'[h], seen[h])
                                      /\ Len(queue'[h]) = Len(queue[h]) + 1
  <2> TAKE h \in Handles
  <2>1. CASE HasSender(h) /\ Held(h)
    <3>1. queue'[h] = Append(queue[h], Pushed(charge(h), c))
      BY <1>1, <2>1
    <3>2. InOrder(queue[h], seen[h]) /\ seen[h] + Len(queue[h]) = nextSeq - 1
      BY <2>1 DEF HubInv, ReaderInv
    <3>3. queue[h] \in Seq(Event) /\ seen[h] \in Int /\ Len(queue[h]) \in Nat
      BY <1>0
    <3>4. Pushed(charge(h), c).seq = seen[h] + Len(queue[h]) + 1
      BY <1>0, <1>2, <3>2, <3>3
    <3> QED
      BY <1>2, <2>1, <3>1, <3>2, <3>3, <3>4, AppendInOrder
  <2>2. CASE ~(HasSender(h) /\ Held(h))
    BY <1>0, <1>1, <2>2
  <2> QED
    BY <2>1, <2>2
<1>7. HubTypes'
  <2>1. queue' \in [Handles -> Seq(Event)]
    BY <1>1, <1>6
  <2> QED
    BY <1>0, <1>1, <1>3, <1>4, <2>1 DEF HubTypes
<1>8. ReaderInv'
  <2> SUFFICES ASSUME NEW h \in Handles
               PROVE  /\ Held(h)' => InOrder(queue'[h], seen'[h])
                      /\ Held(h)' /\ HasSender(h)' => seen'[h] + Len(queue'[h]) = nextSeq' - 1
                      /\ ~Held(h)' => queue'[h] = <<>> /\ seen'[h] = 0
    BY DEF ReaderInv, InOrder
  <2>1. /\ Held(h) => InOrder(queue[h], seen[h])
        /\ Held(h) /\ HasSender(h) => seen[h] + Len(queue[h]) = nextSeq - 1
        /\ ~Held(h) => queue[h] = <<>> /\ seen[h] = 0
    BY DEF HubInv, ReaderInv
  <2>2. seen[h] \in Nat /\ Len(queue[h]) \in Nat
    BY <1>0
  <2>3. CASE HasSender(h) /\ Held(h)
    <3>1. Len(queue'[h]) = Len(queue[h]) + 1 /\ InOrder(queue'[h], seen[h])
      BY <1>6, <2>3
    <3>2. seen[h] + Len(queue[h]) = nextSeq - 1
      BY <2>1, <2>3
    <3>3. nextSeq \in Nat
      BY <1>0
    <3>5. Held(h)' /\ seen'[h] = seen[h] /\ nextSeq' = nextSeq + 1
      BY <1>20, <1>5, <2>3
    <3>6. InOrder(queue'[h], seen'[h])
      BY <3>1, <3>5
    <3>7. seen'[h] + Len(queue'[h]) = nextSeq' - 1
      <4>1. Len(queue'[h]) = Len(queue[h]) + 1 /\ seen'[h] = seen[h] /\ nextSeq' = nextSeq + 1
        BY <3>1, <3>5
      <4> QED
        BY <2>2, <3>2, <3>3, <4>1
    <3> QED
      BY <3>5, <3>6, <3>7
  <2>4. CASE ~(HasSender(h) /\ Held(h))
    BY <1>20, <1>5, <1>6, <2>1, <2>4
  <2> QED
    BY <2>3, <2>4
<1>9. HubInv'
  BY <1>4, <1>7, <1>8 DEF HubInv
<1>10. \A h \in Handles : StreamStatus(h)' = StreamStatus(h)
  BY <1>1, <1>5 DEF StreamStatus
<1>11. \A h \in Handles : StreamLimit(h)' = StreamLimit(h)
  <2> TAKE h \in Handles
  <2>1. StreamStatus(h) = "cut" => ~(HasSender(h) /\ Held(h))
    BY <1>0 DEF StreamStatus, Held, Phases
  <2> QED
    BY <1>1, <1>6, <1>10, <2>1 DEF StreamLimit
<1>12. Stream!Write
  BY <1>0, <1>20, <1>10, <1>11 DEF Stream!Write
<1> QED
  BY <1>9, <1>12 DEF Stream!Next

\* subscribe and resume open a stream; resume cuts the one its id had.
LEMMA OpenStep ==
  ASSUME HubInv, NEW h \in Handles, NEW s, NEW since \in Cursors,
         OpenHandle(h, s, since), UNCHANGED <<nextSeq, ring>>
  PROVE  HubInv' /\ Stream!Next
<1>0. PICK chunks : chunks = Newer(since)
  OBVIOUS
<1>1. PICK q, from : q = Replayed(chunks) /\ from = StartOf(chunks)
  OBVIOUS
<1>2. q \in Seq(Event) /\ from \in Nat /\ InOrder(q, from) /\ from + Len(q) = nextSeq - 1
  BY <1>0, <1>1, ReplayIsAnEnd
<1>3. /\ phase[h] = "unused" /\ phase' = [phase EXCEPT ![h] = "idle"]
      /\ queue' = [queue EXCEPT ![h] = q] /\ seen' = [seen EXCEPT ![h] = from]
      /\ subs' = [t \in DOMAIN subs \cup {s} |->
                    IF t = s THEN [tx |-> h, queued |-> ChargeAfter(chunks)[Len(chunks)],
                                   parked |-> Null]
                    ELSE subs[t]]
  BY <1>0, <1>1 DEF OpenHandle
<1>4. /\ nextSeq \in Nat /\ nextSeq # 0 /\ phase \in [Handles -> Phases]
      /\ queue \in [Handles -> Seq(Event)] /\ seen \in [Handles -> Nat]
      /\ \A t \in DOMAIN subs : "tx" \in DOMAIN subs[t]
  BY DEF HubInv, HubTypes
<1>5. HasSender(h)' /\ \A k \in Handles : k # h /\ HasSender(k)' => HasSender(k)
  BY <1>3 DEF HasSender
<1>6. /\ phase'[h] = "idle" /\ queue'[h] = q /\ seen'[h] = from
      /\ \A k \in Handles : k # h => phase'[k] = phase[k] /\ queue'[k] = queue[k] /\ seen'[k] = seen[k]
  BY <1>3, <1>4
<1>7. HubTypes' /\ RingInv'
  <2>1. \A t \in DOMAIN subs' : "tx" \in DOMAIN subs'[t]
    BY <1>3, <1>4
  <2>2. phase' \in [Handles -> Phases]
    BY <1>3, <1>4 DEF Phases
  <2>3. queue' \in [Handles -> Seq(Event)]
    BY <1>2, <1>3, <1>4
  <2>4. seen' \in [Handles -> Nat]
    BY <1>2, <1>3, <1>4
  <2> QED
    BY <2>1, <2>2, <2>3, <2>4 DEF HubInv, HubTypes, RingInv, InOrder
<1>8. ReaderInv'
  <2> SUFFICES ASSUME NEW k \in Handles
               PROVE  /\ Held(k)' => InOrder(queue'[k], seen'[k])
                      /\ Held(k)' /\ HasSender(k)' => seen'[k] + Len(queue'[k]) = nextSeq' - 1
                      /\ ~Held(k)' => queue'[k] = <<>> /\ seen'[k] = 0
    BY DEF ReaderInv, InOrder
  <2>1. CASE k = h
    BY <1>2, <1>6, <2>1 DEF Held
  <2>2. CASE k # h
    BY <1>5, <1>6, <2>2 DEF HubInv, ReaderInv, Held
  <2> QED
    BY <2>1, <2>2
<1>9. HubInv'
  BY <1>7, <1>8 DEF HubInv
<1> DEFINE R == {k \in Handles : k # h /\ StreamStatus(k) = "live" /\ ~HasSender(k)'}
<1>10. \A k \in Handles : StreamStatus(k)' = IF k = h THEN "live"
                                             ELSE IF k \in R THEN "cut" ELSE StreamStatus(k)
  <2> TAKE k \in Handles
  <2>1. phase[k] \in Phases /\ phase'[k] \in Phases
    BY <1>4, <1>7 DEF HubTypes
  <2> QED
    BY <1>5, <1>6, <2>1 DEF StreamStatus, Held, Phases
<1>11. \A k \in Handles : StreamLimit(k)' = IF k \in R THEN nextSeq - 1 ELSE StreamLimit(k)
  <2> TAKE k \in Handles
  <2>1. LimitsAreLast'
    BY <1>9, LimitIsLast, PTL
  <2>2. StreamLimit(k)' = IF StreamStatus(k)' = "cut" THEN seen'[k] + Len(queue'[k]) ELSE 0
    BY <2>1 DEF LimitsAreLast
  <2>3. k \in R => seen[k] + Len(queue[k]) = nextSeq - 1
    BY DEF StreamStatus, HubInv, ReaderInv
  <2>4. StreamLimit(h) = 0 /\ h \notin R
    BY <1>3 DEF StreamLimit, StreamStatus, Held
  <2> QED
    BY <1>6, <1>10, <2>2, <2>3, <2>4, LimitIsLast DEF LimitsAreLast
<1>12. StreamStatus(h) = "unused" /\ from \in 0..(nextSeq - 1) /\ R \in SUBSET Handles
  BY <1>2, <1>3, <1>4 DEF StreamStatus, Held
<1>13. \A k \in R : StreamStatus(k) = "live"
  OBVIOUS
<1> HIDE DEF R
<1>14. Stream!Open(R, h, from)
  BY <1>3, <1>10, <1>11, <1>12, <1>13 DEF Stream!Open
<1> QED
  BY <1>9, <1>12, <1>14 DEF Stream!Next

\* The first half of recv: the next number and no other.
LEMMA TakeStep ==
  ASSUME HubInv, NEW h \in Handles, Take(h)
  PROVE  HubInv' /\ Stream!Next
<1>0. /\ nextSeq \in Nat /\ phase \in [Handles -> Phases]
      /\ queue \in [Handles -> Seq(Event)] /\ seen \in [Handles -> Nat]
  BY DEF HubInv, HubTypes
<1>1. /\ phase[h] = "idle" /\ queue[h] # <<>> /\ UNCHANGED <<nextSeq, ring, subs>>
      /\ queue' = [queue EXCEPT ![h] = Tail(queue[h])]
      /\ seen' = [seen EXCEPT ![h] = queue[h][1].seq]
      /\ \E p \in {"idle", "acking"} : phase' = [phase EXCEPT ![h] = p]
  BY DEF Take
<1>2. Held(h) /\ InOrder(queue[h], seen[h])
  BY <1>1 DEF Held, HubInv, ReaderInv
<1>3. queue[h] \in Seq(Event) /\ Len(queue[h]) \in Nat /\ Len(queue[h]) >= 1 /\ seen[h] \in Nat
  BY <1>0, <1>1
<1>4. queue[h][1].seq = seen[h] + 1
  BY <1>2, <1>3 DEF InOrder
<1>5. PICK q : q = Tail(queue[h])
  OBVIOUS
<1>6. /\ q \in Seq(Event) /\ Len(q) = Len(queue[h]) - 1 /\ InOrder(q, seen[h] + 1)
  <2>1. q \in Seq(Event) /\ Len(q) = Len(queue[h]) - 1 /\ \A i \in 1..Len(q) : q[i] = queue[h][i + 1]
    BY <1>1, <1>3, <1>5
  <2>2. \A i \in 1..Len(q) : i + 1 \in 1..Len(queue[h]) /\ queue[h][i + 1].seq = seen[h] + (i + 1)
    BY <1>2, <1>3, <2>1 DEF InOrder
  <2>3. \A i \in 1..Len(q) : q[i].seq = (seen[h] + 1) + i
    <3> TAKE i \in 1..Len(q)
    <3>1. q[i].seq = seen[h] + (i + 1) /\ i \in Int
      BY <1>3, <2>1, <2>2
    <3> QED
      BY <1>3, <3>1
  <2> QED
    BY <2>1, <2>3 DEF InOrder
<1>7. /\ Held(h)' /\ queue'[h] = q /\ seen'[h] = seen[h] + 1
      /\ \A k \in Handles : /\ k # h => queue'[k] = queue[k] /\ seen'[k] = seen[k]
                            /\ Held(k)' <=> Held(k)
                            /\ HasSender(k)' <=> HasSender(k)
                            /\ k # h => phase'[k] = phase[k]
  BY <1>0, <1>1, <1>2, <1>4, <1>5 DEF Held, HasSender
<1>8. HubTypes' /\ RingInv'
  <2>1. queue' \in [Handles -> Seq(Event)]
    BY <1>0, <1>1, <1>5, <1>6
  <2>2. phase' \in [Handles -> Phases]
    BY <1>0, <1>1 DEF Phases
  <2>3. seen' \in [Handles -> Nat]
    BY <1>0, <1>1, <1>3, <1>4
  <2> QED
    BY <1>1, <2>1, <2>2, <2>3 DEF HubInv, HubTypes, RingInv, InOrder
<1>9. ReaderInv'
  <2> SUFFICES ASSUME NEW k \in Handles
               PROVE  /\ Held(k)' => InOrder(queue'[k], seen'[k])
                      /\ Held(k)' /\ HasSender(k)' => seen'[k] + Len(queue'[k]) = nextSeq' - 1
                      /\ ~Held(k)' => queue'[k] = <<>> /\ seen'[k] = 0
    BY DEF ReaderInv, InOrder
  <2>1. CASE k = h
    <3>1. HasSender(h) => seen[h] + Len(queue[h]) = nextSeq - 1
      BY <1>2 DEF HubInv, ReaderInv
    <3>2. HasSender(h) => (seen[h] + 1) + Len(q) = nextSeq - 1
      BY <1>3, <1>6, <3>1
    <3> QED
      BY <1>1, <1>6, <1>7, <2>1, <3>2
  <2>2. CASE k # h
    BY <1>1, <1>7, <2>2 DEF HubInv, ReaderInv
  <2> QED
    BY <2>1, <2>2
<1>10. HubInv'
  BY <1>8, <1>9 DEF HubInv
<1>11. \A k \in Handles : StreamStatus(k)' = StreamStatus(k)
  <2> TAKE k \in Handles
  <2>1. CASE k = h
    BY <1>2, <1>7, <2>1 DEF StreamStatus, Held
  <2>2. CASE k # h
    BY <1>7, <2>2 DEF StreamStatus
  <2> QED
    BY <2>1, <2>2
<1>12. \A k \in Handles : StreamLimit(k)' = StreamLimit(k)
  <2> TAKE k \in Handles
  <2>1. LimitsAreLast'
    BY <1>10, LimitIsLast, PTL
  <2>2. StreamLimit(k)' = IF StreamStatus(k)' = "cut" THEN seen'[k] + Len(queue'[k]) ELSE 0
    BY <2>1 DEF LimitsAreLast
  <2>3. seen'[k] + Len(queue'[k]) = seen[k] + Len(queue[k])
    BY <1>3, <1>6, <1>7
  <2> QED
    BY <1>11, <2>2, <2>3, LimitIsLast DEF LimitsAreLast
<1>13. \/ StreamStatus(h) = "live" /\ seen[h] < nextSeq - 1
       \/ StreamStatus(h) = "cut" /\ seen[h] < StreamLimit(h)
  <2>1. CASE HasSender(h)
    <3>1. seen[h] + Len(queue[h]) = nextSeq - 1
      BY <1>2, <2>1 DEF HubInv, ReaderInv
    <3>2. StreamStatus(h) = "live"
      BY <1>2, <2>1 DEF StreamStatus, Held
    <3> QED
      BY <1>0, <1>3, <3>1, <3>2
  <2>2. CASE ~HasSender(h)
    <3>1. StreamStatus(h) = "cut"
      BY <1>2, <2>2 DEF StreamStatus, Held
    <3>2. StreamLimit(h) = seen[h] + Len(queue[h])
      BY <3>1, LimitIsLast DEF LimitsAreLast
    <3> QED
      BY <1>3, <3>1, <3>2
  <2> QED
    BY <2>1, <2>2
<1>14. seen' = [seen EXCEPT ![h] = seen[h] + 1]
  BY <1>1, <1>4
<1>15. Stream!Tell(h)
  BY <1>1, <1>11, <1>12, <1>13, <1>14 DEF Stream!Tell
<1> QED
  BY <1>10, <1>15 DEF Stream!Next

\* A reader drops its handle.
LEMMA DropStep ==
  ASSUME HubInv, NEW h \in Handles, Drop(h)
  PROVE  HubInv' /\ Stream!Next
<1>0. /\ nextSeq \in Nat /\ phase \in [Handles -> Phases]
      /\ queue \in [Handles -> Seq(Event)] /\ seen \in [Handles -> Nat]
  BY DEF HubInv, HubTypes
<1>1. /\ Held(h) /\ UNCHANGED <<nextSeq, ring, subs>>
      /\ phase' = [phase EXCEPT ![h] = "dropped"]
      /\ queue' = [queue EXCEPT ![h] = <<>>] /\ seen' = [seen EXCEPT ![h] = 0]
  BY DEF Drop, Held
<1>2. /\ phase'[h] = "dropped" /\ queue'[h] = <<>> /\ seen'[h] = 0
      /\ \A k \in Handles : /\ k # h => /\ phase'[k] = phase[k] /\ queue'[k] = queue[k]
                                        /\ seen'[k] = seen[k]
                            /\ HasSender(k)' <=> HasSender(k)
  BY <1>0, <1>1 DEF HasSender
<1>3. HubTypes' /\ RingInv'
  <2>1. queue' \in [Handles -> Seq(Event)]
    <3>1. <<>> \in Seq(Event)
      OBVIOUS
    <3> QED
      BY <1>0, <1>1, <3>1
  <2>2. phase' \in [Handles -> Phases] /\ seen' \in [Handles -> Nat]
    BY <1>0, <1>1 DEF Phases
  <2> QED
    BY <1>1, <2>1, <2>2 DEF HubInv, HubTypes, RingInv, InOrder
<1>4. ReaderInv'
  <2> SUFFICES ASSUME NEW k \in Handles
               PROVE  /\ Held(k)' => InOrder(queue'[k], seen'[k])
                      /\ Held(k)' /\ HasSender(k)' => seen'[k] + Len(queue'[k]) = nextSeq' - 1
                      /\ ~Held(k)' => queue'[k] = <<>> /\ seen'[k] = 0
    BY DEF ReaderInv, InOrder
  <2>1. CASE k = h
    BY <1>2, <2>1 DEF Held
  <2>2. CASE k # h
    BY <1>1, <1>2, <2>2 DEF HubInv, ReaderInv, Held
  <2> QED
    BY <2>1, <2>2
<1>5. HubInv'
  BY <1>3, <1>4 DEF HubInv
<1>6. /\ StreamStatus(h) \in {"live", "cut"} /\ StreamStatus(h)' = "done" /\ StreamLimit(h)' = 0
      /\ \A k \in Handles : k # h => StreamStatus(k)' = StreamStatus(k) /\ StreamLimit(k)' = StreamLimit(k)
  <2>1. StreamStatus(h) \in {"live", "cut"}
    BY <1>1 DEF StreamStatus, Held
  <2>2. StreamStatus(h)' = "done"
    BY <1>2 DEF StreamStatus, Held
  <2>3. StreamLimit(h)' = 0
    BY <2>2 DEF StreamLimit
  <2>4. \A k \in Handles : k # h => StreamStatus(k)' = StreamStatus(k)
    BY <1>2 DEF StreamStatus, Held
  <2>5. \A k \in Handles : k # h => StreamLimit(k)' = StreamLimit(k)
    BY <1>2, <2>4 DEF StreamLimit
  <2> QED
    BY <2>1, <2>2, <2>3, <2>4, <2>5
<1>7. Stream!Leave(h)
  BY <1>1, <1>6 DEF Stream!Leave
<1> QED
  BY <1>5, <1>7 DEF Stream!Next

\* la-ipc/hub.rs: for any number of subscriptions, handles and chunks, any ring and
\* any budgets, the hub keeps the promise of OutputStream to every reader.
THEOREM HubImplementsStream == HubSpec => DeliversInOrder
<1>1. HubInv /\ [HubNext]_hubVars => HubInv' /\ [Stream!Next]_(Stream!vars)
  <2> SUFFICES ASSUME HubInv, [HubNext]_hubVars
               PROVE  HubInv' /\ [Stream!Next]_(Stream!vars)
    OBVIOUS
  <2>1. ASSUME NEW len \in Lens, NEW more \in BOOLEAN, Publish(len, more)
        PROVE  HubInv' /\ Stream!Next
    BY <2>1, PublishStep
  <2>2. ASSUME NEW h \in Handles, NEW since \in Cursors,
               Subscribe(h, since) \/ \E s \in DOMAIN subs : Resume(h, s, since)
        PROVE  HubInv' /\ Stream!Next
    BY <2>2, OpenStep DEF Subscribe, Resume
  <2>3. ASSUME NEW h \in Handles, Take(h) \/ Ack(h) \/ End(h) \/ Drop(h) \/ DropPark(h)
        PROVE  HubInv' /\ Stream!Next
    BY <2>3, TakeStep, HandleSteps, DropStep
  <2>4. CASE UNCHANGED hubVars
    <3>1. HubInv'
      BY <2>4 DEF hubVars, HubInv, HubTypes, RingInv, ReaderInv, InOrder, Held, HasSender
    <3>2. UNCHANGED Stream!vars
      BY <2>4 DEF hubVars, Stream!vars, StreamStatus, StreamLimit, Held, HasSender
    <3> QED
      BY <3>1, <3>2
  <2> QED
    BY <2>1, <2>2, <2>3, <2>4, QuietSteps DEF HubNext
<1> QED
  BY HubStart, <1>1, PTL DEF HubSpec, DeliversInOrder, Stream!Spec

-----------------------------------------------------------------------------
(* A session attached end to end: the inductive invariant *)

\* Subscription and handle are the same number.
Ids == Handles \cap Subs

\* Nothing is numbered before it was published.
Past == 0..(nextSeq - 1)

Request == [req : {"attach"}, since : Past] \cup [req : {"write", "detach"}]

Message == [msg : {"out", "gap", "ack"}, seq : Past] \cup [msg : {"error"}]

HubPast == \A h \in Handles : Held(h) => seen[h] + Len(queue[h]) \in Past

\* Where a reader loop is while it attaches, and while it gives an attachment up.
Entering == {"subscribed", "acquired", "snapshot"}

Leaving == {"detaching", "releasing", "parking"}

\* The request in progress works on a subscription.
Works(c) == reader[c] \in Entering \cup Leaving

DaemonTypes ==
  /\ registered \in BOOLEAN /\ holder \in Ids \cup {Null}
  /\ nextSub \in Nat
  /\ owner \in [Handles -> Handles \cup {Null}]
  /\ toDaemon \in [Conns -> Seq(Request)]
  /\ toClient \in [Conns -> Seq(Message)]
  /\ link \in [Conns -> {"none", "up", "broken"}]
  /\ reader \in [Conns -> {"off", "idle", "found", "answer", "writing", "joining", "gone"}
                           \cup Entering \cup Leaving]
  /\ \A c \in Conns : /\ reader[c] = "found" => arg[c] \in Past
                      /\ Works(c) => arg[c] \in Ids
  /\ DOMAIN arg = Conns
  /\ snap \in [Conns -> Past]
  /\ slot \in [Conns -> Ids \cup {Null}] /\ drain \in [Conns -> Ids \cup {Null}]
  /\ hand \in [Conns -> Seq(Message)]
  /\ fresh \in [Conns -> BOOLEAN] /\ woken \in [Conns -> BOOLEAN]
  /\ permit \in [Conns -> BOOLEAN]
  /\ writer \in [Conns -> {"off", "on", "done"}]

PumpTypes ==
  /\ pump \in {"connect", "await", "live", "backoff", "closed"} /\ attempt \in {1, 2}
  /\ lastSeq \in Past /\ asked \in Past /\ stash \in Seq(Message) /\ shown \in Seq(Message)

\* The subscription h is one of the connection c.
Owns(c, h) ==
  /\ h # Null
  /\ slot[c] = h \/ drain[c] = h \/ (Works(c) /\ arg[c] = h)

OwnersInv ==
  /\ \A c \in Conns : \A h \in Ids : Owns(c, h) => h < nextSub
  /\ \A c, d \in Conns : \A h \in Ids : (Owns(c, h) /\ Owns(d, h)) => c = d

\* The connection c has not attached yet.
Unattached(c) == slot[c] = Null /\ drain[c] = Null /\ ~fresh[c] /\ toClient[c] = <<>>

\* A connection attaches once, before anything else, and gives it up once.
AttachesOnce(c) ==
  /\ reader[c] = "off" => Unattached(c) /\ toDaemon[c] = <<>>
  /\ reader[c] \in {"found"} \cup Entering => Unattached(c)
  /\ \A i \in 1..Len(toDaemon[c]) : toDaemon[c][i].req = "attach" =>
       i = 1 /\ reader[c] = "idle" /\ Unattached(c)
  /\ fresh[c] => drain[c] = Null /\ (slot[c] # Null \/ reader[c] \in Leaving)
  /\ drain[c] # Null => slot[c] \in {drain[c], Null}
  /\ reader[c] \in Leaving => slot[c] = Null /\ drain[c] \in {arg[c], Null}

AttemptsInv ==
  /\ pump = "connect" => reader[attempt] = "off" /\ link[attempt] = "none"
  /\ pump \in {"await", "live"} => reader[attempt] # "off"
  /\ pump = "backoff" => attempt = 1
  /\ attempt = 1 => reader[2] = "off" /\ link[2] = "none"

\* The holder of the input is attached, and stays it while it writes.
HolderInv ==
  /\ InputHasOwner
  /\ \A c \in Conns : reader[c] = "writing" => slot[c] = holder /\ holder # Null
  /\ SingleWriter

OwnerInv == OwnersInv /\ (\A c \in Conns : AttachesOnce(c)) /\ AttemptsInv /\ HolderInv

StreamTypes == HubInv /\ HubPast /\ DaemonTypes /\ PumpTypes

-----------------------------------------------------------------------------
(* What is shown *)

Outs(s) == {i \in 1..Len(s) : s[i].msg = "out"}

Rising(s) == \A i, j \in Outs(s) : i < j => s[i].seq < s[j].seq

Before(s, t) == \A i \in Outs(s), j \in Outs(t) : s[i].seq < t[j].seq

UpTo(s, n) == \A i \in Outs(s) : s[i].seq <= n

\* The pump has a connection.
Attached == pump \in {"await", "live"}

\* The last number of h that the connection c has sent on: what the drain task has in
\* hand comes after it.
Told(c, h) == IF drain[c] = h /\ hand[c] # <<>> THEN seen[h] - 1 ELSE seen[h]

\* What a drain task has in hand is the last event it has received.
HandInv(c) ==
  hand[c] # <<>> =>
    /\ drain[c] # Null /\ Len(hand[c]) = 1 /\ Held(drain[c])
    /\ hand[c][1].msg \in {"out", "gap"} /\ hand[c][1].seq = seen[drain[c]]

ShownInv ==
  /\ Rising(shown) /\ UpTo(shown, lastSeq)
  /\ stash # <<>> => pump = "await"
  /\ Rising(stash) /\ Before(shown, stash)
  /\ Attached =>
       /\ Rising(toClient[attempt])
       /\ Before(shown, toClient[attempt]) /\ Before(stash, toClient[attempt])

OriginInv ==
  Attached =>
    /\ \A i \in 1..Len(toDaemon[attempt]) : toDaemon[attempt][i].req = "attach" =>
         toDaemon[attempt][i].since = lastSeq /\ stash = <<>> /\ pump = "await"
    /\ reader[attempt] = "found" => arg[attempt] = lastSeq /\ stash = <<>> /\ pump = "await"
    /\ \A h \in Ids : (Owns(attempt, h) /\ Held(h)) =>
         /\ UpTo(shown, Told(attempt, h)) /\ UpTo(stash, Told(attempt, h))
         /\ UpTo(toClient[attempt], Told(attempt, h))

Numbers(q) == {q[i].seq : i \in {j \in 1..Len(q) : q[j].msg # "ack"}}

\* The number n has been sent on the connection c.
Sent(n, c) == n \in Numbers(shown) \cup Numbers(stash) \cup Numbers(toClient[c])

\* Only a broken link ends a connection.
LinkInv(c) ==
  /\ reader[c] \in {"joining", "gone"} \cup Leaving => link[c] = "broken"
  /\ woken[c] => link[c] = "broken"
  /\ \A i \in 1..Len(toDaemon[c]) : toDaemon[c][i].req = "detach" => link[c] = "broken"

\* Handle and entry of a subscription belong together: nobody resumes here.
IdsInv ==
  /\ \A s \in DOMAIN subs : subs[s].tx \in {s, Null}
  /\ \A h \in Handles : phase[h] # "unused" => owner[h] = h
  /\ \A c \in Conns : \A h \in Ids : Owns(c, h) => phase[h] # "unused"

\* The subscription can be sent to, or nothing is left to send.
Served(h) ==
  \/ phase[h] \in {"idle", "acking"} /\ HasSender(h)
  \/ ring = <<>> /\ outPump = "closed"

\* All the ring holds above n was sent, as far as the drain task of c got: the rest is
\* in its hand or in the channel (ReaderInv).
SentAbove(n, c, h) ==
  \A i \in 1..Len(ring) : n < ring[i].seq /\ ring[i].seq <= Told(c, h) => Sent(ring[i].seq, c)

\* The connection of the pump has not been broken.
Connected == Attached /\ link[attempt] = "up"

\* The attempt asks for what is above its cursor, and up to a break all of that is sent.
AskedInv ==
  /\ Attached =>
       /\ \A i \in 1..Len(toDaemon[attempt]) :
            toDaemon[attempt][i].req = "attach" => toDaemon[attempt][i].since = asked
       /\ reader[attempt] = "found" => arg[attempt] = asked
  /\ Connected =>
       \A h \in Ids : Owns(attempt, h) => Served(h) /\ SentAbove(asked, attempt, h)

LossInv == IdsInv /\ (\A c \in Conns : LinkInv(c)) /\ AskedInv

-----------------------------------------------------------------------------
(* The steps of a connection, by what they touch *)

\* Those of the reader loop that leave the hub alone, ...
QuietRequest(c) ==
  \/ AttachLookup(c) \/ AttachAcquire(c) \/ AttachSnapshot(c) \/ AttachRecord(c)
  \/ AttachReply(c) \/ Detach(c) \/ Release(c) \/ DetachInput(c)
  \/ WriteCheck(c) \/ PtyWrite(c) \/ ReaderEof(c)

\* ... those that give a subscription up, ...
Leaves(c) == DetachLookup(c) \/ DetachPark(c)

\* ... those of its tasks and of the link that leave the hub alone, and the others.
QuietTask(c) == WriterAttach(c) \/ DrainSend(c) \/ Break(c)

HubTask(c) == WriterStop(c) \/ DrainTake(c) \/ DrainAck(c) \/ DrainEnd(c) \/ DrainOver(c)

\* The steps of a connection are of one of these kinds, or the subscription itself.
LEMMA ConnCases ==
  ASSUME NEW c \in Conns, ConnStep(c)
  PROVE  QuietRequest(c) \/ AttachSubscribe(c) \/ Leaves(c) \/ QuietTask(c) \/ HubTask(c)
  BY DEF ConnStep, QuietRequest, Leaves, QuietTask, HubTask

-----------------------------------------------------------------------------
(* Helpers *)

\* Appending keeps the old positions and adds one.
LEMMA AppendAt ==
  ASSUME NEW S, NEW q \in Seq(S), NEW e \in S
  PROVE  /\ Append(q, e) \in Seq(S) /\ Len(Append(q, e)) = Len(q) + 1
         /\ \A i \in 1..Len(q) : Append(q, e)[i] = q[i]
         /\ Append(q, e)[Len(q) + 1] = e
  OBVIOUS

\* The tail shifts by one.
LEMMA TailAt ==
  ASSUME NEW S, NEW q \in Seq(S), q # <<>>
  PROVE  /\ Tail(q) \in Seq(S) /\ Len(q) \in Nat /\ Len(q) # 0 /\ Len(Tail(q)) = Len(q) - 1
         /\ \A i \in 1..Len(Tail(q)) : i + 1 \in 1..Len(q) /\ Tail(q)[i] = q[i + 1]
  OBVIOUS

\* A send on the wire to the client.
LEMMA SendAt ==
  ASSUME DaemonTypes, NEW c \in Conns, NEW m \in Message, Send(c, m)
  PROVE  /\ toClient' \in [Conns -> Seq(Message)]
         /\ \A d \in Conns : d # c => toClient'[d] = toClient[d]
         /\ toClient'[c] \in {toClient[c], Append(toClient[c], m)}
         /\ link[c] = "up" => toClient'[c] = Append(toClient[c], m)
<1>1. toClient \in [Conns -> Seq(Message)]
  BY DEF DaemonTypes
<1>2. toClient[c] \in Seq(Message) /\ Append(toClient[c], m) \in Seq(Message)
  BY <1>1
<1> QED
  BY <1>1, <1>2 DEF Send

\* What does not touch the hub keeps its invariant.
LEMMA HubStays ==
  ASSUME StreamTypes, UNCHANGED hubVars
  PROVE  HubInv' /\ HubPast' /\ Past' = Past /\ Request' = Request /\ Message' = Message
<1>1. HubInv'
  BY DEF hubVars, StreamTypes, HubInv, HubTypes, RingInv, ReaderInv, InOrder, Held, HasSender
<1>2. HubPast' /\ Past' = Past /\ Request' = Request /\ Message' = Message
  BY DEF hubVars, StreamTypes, HubPast, Past, Held, Request, Message
<1> QED
  BY <1>1, <1>2

\* The requests of a connection that leave the hub alone.
LEMMA RequestTypes ==
  ASSUME StreamTypes, NEW c \in Conns, QuietRequest(c)
  PROVE  StreamTypes'
<1>0. DaemonTypes /\ PumpTypes /\ nextSeq \in Nat /\ nextSeq # 0
  BY DEF StreamTypes, HubInv, HubTypes
<1>1. UNCHANGED <<hubVars, pumpVars>> /\ UNCHANGED <<registered, link, writer, drain, hand>>
  BY DEF QuietRequest, AttachLookup, AttachAcquire, AttachSnapshot, AttachRecord, AttachReply,
         Detach, Release, DetachInput, WriteCheck, PtyWrite, ReaderEof, sessionVars, taskVars
<1>2. HubInv' /\ HubPast' /\ Past' = Past /\ Request' = Request /\ Message' = Message
  BY <1>0, <1>1, HubStays
<1>3. PumpTypes'
  BY <1>0, <1>1, <1>2 DEF PumpTypes, pumpVars
<1>4. SUFFICES DaemonTypes'
  BY <1>2, <1>3 DEF StreamTypes
<1>5. UNCHANGED <<nextSub, owner>>
  BY <1>1 DEF hubVars
<1>6. ASSUME NEW r, IsRequest(c, r), toDaemon' = [toDaemon EXCEPT ![c] = Tail(@)]
      PROVE  toDaemon' \in [Conns -> Seq(Request)] /\ toDaemon[c][1] \in Request
  <2>1. toDaemon[c] \in Seq(Request) /\ toDaemon[c] # <<>>
    BY <1>0, <1>6 DEF IsRequest, DaemonTypes
  <2> QED
    BY <1>0, <1>6, <2>1 DEF DaemonTypes
<1>7. CASE AttachLookup(c)
  <2>1. toDaemon' \in [Conns -> Seq(Request)] /\ toDaemon[c][1].since \in Past
    BY <1>6, <1>7 DEF AttachLookup, IsRequest, Request
  <2>2. UNCHANGED <<holder, snap, slot, fresh, permit, woken>>
    BY <1>7 DEF AttachLookup, sessionVars, taskVars
  <2>3. CASE registered
    <3>1. /\ toClient' = toClient /\ reader' = [reader EXCEPT ![c] = "found"]
          /\ arg' = [arg EXCEPT ![c] = toDaemon[c][1].since]
      BY <1>7, <2>3 DEF AttachLookup
    <3> QED
      BY <1>0, <1>1, <1>2, <1>5, <2>1, <2>2, <3>1 DEF DaemonTypes, Works, Entering, Leaving
  <2>4. CASE ~registered
    <3>1. toClient' \in [Conns -> Seq(Message)] /\ UNCHANGED <<reader, arg>>
      BY <1>0, <1>7, <2>4, SendAt DEF AttachLookup, Message
    <3> QED
      BY <1>0, <1>1, <1>2, <1>5, <2>1, <2>2, <2>4, <3>1 DEF DaemonTypes, Works
  <2> QED
    BY <2>3, <2>4
<1>8. CASE AttachAcquire(c)
  <2>1. arg[c] \in Ids /\ holder' \in Ids \cup {Null}
    BY <1>0, <1>8 DEF AttachAcquire, DaemonTypes, Works, Entering
  <2>2. /\ UNCHANGED <<toDaemon, toClient, snap, slot, fresh, permit, woken, arg>>
        /\ reader' = [reader EXCEPT ![c] = "acquired"]
    BY <1>8 DEF AttachAcquire, taskVars
  <2> QED
    BY <1>0, <1>1, <1>2, <1>5, <2>1, <2>2 DEF DaemonTypes, Works, Entering, Leaving
<1>9. CASE AttachSnapshot(c)
  <2>1. arg[c] \in Ids /\ nextSeq - 1 \in Past
    BY <1>0, <1>9 DEF AttachSnapshot, DaemonTypes, Works, Entering, Past
  <2>2. /\ UNCHANGED <<holder, toDaemon, toClient, slot, fresh, permit, woken, arg>>
        /\ reader' = [reader EXCEPT ![c] = "snapshot"] /\ snap' = [snap EXCEPT ![c] = nextSeq - 1]
    BY <1>9 DEF AttachSnapshot, taskVars, sessionVars
  <2> QED
    BY <1>0, <1>1, <1>2, <1>5, <2>1, <2>2 DEF DaemonTypes, Works, Entering, Leaving
<1>10. CASE AttachRecord(c)
  <2>1. arg[c] \in Ids
    BY <1>0, <1>10 DEF AttachRecord, DaemonTypes, Works, Entering
  <2>2. /\ UNCHANGED <<holder, toDaemon, toClient, snap, woken>>
        /\ reader' = [reader EXCEPT ![c] = "answer"] /\ arg' = [arg EXCEPT ![c] = Null]
    BY <1>10 DEF AttachRecord, taskVars, sessionVars
  <2>3. /\ slot' \in [Conns -> Ids \cup {Null}] /\ fresh' \in [Conns -> BOOLEAN]
        /\ permit' \in [Conns -> BOOLEAN]
    BY <1>0, <1>10, <2>1 DEF AttachRecord, DaemonTypes
  <2> QED
    BY <1>0, <1>1, <1>2, <1>5, <2>2, <2>3 DEF DaemonTypes, Works, Entering, Leaving
<1>11. CASE AttachReply(c)
  <2>1. [msg |-> "ack", seq |-> snap[c]] \in Message /\ 0 \in Past
    BY <1>0, <1>11 DEF DaemonTypes, Message, Past
  <2>2. toClient' \in [Conns -> Seq(Message)]
    BY <1>0, <1>11, <2>1, SendAt DEF AttachReply
  <2>3. /\ UNCHANGED <<holder, toDaemon, slot, fresh, permit, woken, arg>>
        /\ reader' = [reader EXCEPT ![c] = "idle"] /\ snap' = [snap EXCEPT ![c] = 0]
    BY <1>11 DEF AttachReply, taskVars, sessionVars
  <2> QED
    BY <1>0, <1>1, <1>2, <1>5, <2>1, <2>2, <2>3 DEF DaemonTypes, Works, Entering, Leaving
<1>12. CASE Detach(c) \/ Release(c)
  <2>1. toDaemon' \in [Conns -> Seq(Request)]
    BY <1>0, <1>6, <1>12 DEF Detach, Release, DaemonTypes
  <2>2. /\ UNCHANGED <<holder, toClient, snap, fresh, permit, woken>>
        /\ arg' = [arg EXCEPT ![c] = slot[c]] /\ slot' = [slot EXCEPT ![c] = Null]
    BY <1>12 DEF Detach, Release, RemoveSlot, taskVars, sessionVars
  <2>3. CASE slot[c] = Null
    <3>1. \E next \in {"idle", "gone"} : reader' = [reader EXCEPT ![c] = next]
      BY <1>12, <2>3 DEF Detach, Release, RemoveSlot
    <3> QED
      BY <1>0, <1>1, <1>2, <1>5, <2>1, <2>2, <3>1 DEF DaemonTypes, Works, Entering, Leaving
  <2>4. CASE slot[c] # Null
    <3>1. slot[c] \in Ids /\ reader' = [reader EXCEPT ![c] = "detaching"]
      BY <1>0, <1>12, <2>4 DEF Detach, Release, RemoveSlot, DaemonTypes
    <3> QED
      BY <1>0, <1>1, <1>2, <1>5, <2>1, <2>2, <3>1 DEF DaemonTypes, Works, Entering, Leaving
  <2> QED
    BY <2>3, <2>4
<1>13. CASE DetachInput(c)
  <2>1. arg[c] \in Ids /\ holder' \in Ids \cup {Null}
    BY <1>0, <1>13 DEF DetachInput, DaemonTypes, Works, Leaving
  <2>2. /\ UNCHANGED <<toDaemon, toClient, snap, slot, fresh, permit, woken, arg>>
        /\ reader' = [reader EXCEPT ![c] = "parking"]
    BY <1>13 DEF DetachInput, taskVars
  <2> QED
    BY <1>0, <1>1, <1>2, <1>5, <2>1, <2>2 DEF DaemonTypes, Works, Entering, Leaving
<1>14. CASE WriteCheck(c)
  <2>1. toDaemon' \in [Conns -> Seq(Request)]
    BY <1>6, <1>14 DEF WriteCheck
  <2>2. /\ UNCHANGED <<holder, toClient, snap, slot, fresh, permit, woken, arg>>
        /\ reader' = reader \/ reader' = [reader EXCEPT ![c] = "writing"]
    BY <1>14 DEF WriteCheck, taskVars, sessionVars
  <2> QED
    BY <1>0, <1>1, <1>2, <1>5, <2>1, <2>2 DEF DaemonTypes, Works, Entering, Leaving
<1>15. CASE PtyWrite(c)
  <2>1. /\ UNCHANGED <<holder, toDaemon, toClient, snap, slot, fresh, permit, woken, arg>>
        /\ reader' = [reader EXCEPT ![c] = "idle"]
    BY <1>15 DEF PtyWrite, taskVars, sessionVars
  <2> QED
    BY <1>0, <1>1, <1>2, <1>5, <2>1 DEF DaemonTypes, Works, Entering, Leaving
<1>16. CASE ReaderEof(c)
  <2>1. toDaemon' \in [Conns -> Seq(Request)] /\ woken' \in [Conns -> BOOLEAN]
    <3>1. <<>> \in Seq(Request)
      OBVIOUS
    <3> QED
      BY <1>0, <1>16, <3>1 DEF ReaderEof, DaemonTypes
  <2>2. /\ UNCHANGED <<holder, toClient, snap, slot, fresh, permit, arg>>
        /\ reader' = [reader EXCEPT ![c] = "joining"]
    BY <1>16 DEF ReaderEof, sessionVars
  <2> QED
    BY <1>0, <1>1, <1>2, <1>5, <2>1, <2>2 DEF DaemonTypes, Works, Entering, Leaving
<1> QED
  BY <1>7, <1>8, <1>9, <1>10, <1>11, <1>12, <1>13, <1>14, <1>15, <1>16 DEF QuietRequest

\* The tasks of a connection that leave the hub alone, a link that breaks, and a child
\* that exits.
LEMMA TaskTypes ==
  ASSUME StreamTypes, ChildExit \/ \E c \in Conns : QuietTask(c)
  PROVE  StreamTypes'
<1>0. DaemonTypes /\ PumpTypes
  BY DEF StreamTypes
<1>1. UNCHANGED <<hubVars, pumpVars>>
  BY DEF QuietTask, ChildExit, WriterAttach, DrainSend, Break
<1>2. HubInv' /\ HubPast' /\ Past' = Past /\ Request' = Request /\ Message' = Message
  BY <1>0, <1>1, HubStays
<1>3. PumpTypes'
  BY <1>0, <1>1, <1>2 DEF PumpTypes, pumpVars
<1>4. SUFFICES DaemonTypes'
  BY <1>2, <1>3 DEF StreamTypes
<1>5. UNCHANGED <<nextSub, owner>>
  BY <1>1 DEF hubVars
<1>6. CASE ChildExit
  BY <1>0, <1>2, <1>5, <1>6 DEF ChildExit, DaemonTypes, Works, connVars, attachVars, taskVars
<1>7. ASSUME NEW c \in Conns, WriterAttach(c)
      PROVE  DaemonTypes'
  BY <1>0, <1>2, <1>5, <1>7 DEF WriterAttach, DaemonTypes, Works, sessionVars
<1>8. ASSUME NEW c \in Conns, Break(c)
      PROVE  DaemonTypes'
  BY <1>0, <1>2, <1>5, <1>8 DEF Break, DaemonTypes, Works, sessionVars, attachVars, taskVars
<1>9. ASSUME NEW c \in Conns, DrainSend(c)
      PROVE  DaemonTypes'
  <2>1. hand[c] \in Seq(Message) /\ hand[c] # <<>> /\ <<>> \in Seq(Message)
    BY <1>0, <1>9 DEF DrainSend, DaemonTypes
  <2>2. hand[c][1] \in Message
    BY <2>1
  <2>3. toClient' \in [Conns -> Seq(Message)] /\ hand' \in [Conns -> Seq(Message)]
    BY <1>0, <1>9, <2>1, <2>2, SendAt DEF DrainSend, DaemonTypes
  <2> QED
    BY <1>0, <1>2, <1>5, <1>9, <2>3 DEF DrainSend, DaemonTypes, Works, sessionVars, attachVars
<1> QED
  BY <1>6, <1>7, <1>8, <1>9 DEF QuietTask

-----------------------------------------------------------------------------
(* Induction over data, from the least element of a set of numbers *)

\* A set of numbers that is not empty has a least member.
LEMMA LeastNat ==
  ASSUME NEW T \in SUBSET Nat, T # {}
  PROVE  \E m \in T : \A n \in T : m <= n
<1>1. PICK R : R = OpToRel(<, Nat)
  OBVIOUS
<1>2. IsWellFoundedOn(R, Nat)
  BY <1>1, NatLessThanWellFounded
<1>3. \E x \in T : \A y \in T : <<y, x>> \notin R
  BY <1>2, WFMin
<1>4. \A x, y \in Nat : y < x => <<y, x>> \in R
  BY <1>1 DEF OpToRel
<1>5. PICK m \in T : \A y \in T : <<y, m>> \notin R
  BY <1>3
<1>6. ASSUME NEW n \in T PROVE m <= n
  <2>1. m \in Nat /\ n \in Nat /\ ~(n < m)
    BY <1>4, <1>5
  <2> QED
    BY <2>1
<1> QED
  BY <1>6

\* A bounded one has a greatest member.
LEMMA GreatestNat ==
  ASSUME NEW T \in SUBSET Nat, T # {}, NEW b \in Nat, \A n \in T : n <= b
  PROVE  \E m \in T : \A n \in T : n <= m
<1> DEFINE U == {k \in Nat : \E n \in T : k = b - n}
<1>0. \A n \in T : n \in Nat /\ b - n \in Nat
  OBVIOUS
<1>1. U \in SUBSET Nat /\ U # {}
  BY <1>0
<1>2. PICK k \in U : \A l \in U : k <= l
  BY <1>1, LeastNat
<1>3. PICK m \in T : k = b - m
  OBVIOUS
<1>4. \A n \in T : b - n \in U
  BY <1>0
<1> HIDE DEF U
<1>5. \A n \in T : b - m <= b - n
  BY <1>2, <1>3, <1>4
<1> QED
  BY <1>0, <1>5

\* Induction with a set in place of a predicate: a lemma can be instantiated with a set.
LEMMA SetInduction ==
  ASSUME NEW S, 0 \in S, \A n \in Nat : n \in S => n + 1 \in S
  PROVE  Nat \subseteq S
<1> SUFFICES ASSUME Nat \ S # {} PROVE FALSE
  OBVIOUS
<1>1. PICK m \in Nat \ S : \A n \in Nat \ S : m <= n
  BY LeastNat
<1>2. m # 0 /\ m - 1 \in Nat /\ m - 1 \in S
  BY <1>1
<1> QED
  BY <1>1, <1>2

\* The greatest of some positions, as CursorAfter chooses it.
LEMMA LastOfNumbers ==
  ASSUME NEW n \in Nat, NEW T \in SUBSET (1..n), T # {}
  PROVE  LET last == CHOOSE i \in T : \A j \in T : j <= i
         IN  last \in T /\ \A j \in T : j <= last
<1>1. T \in SUBSET Nat /\ \A i \in T : i <= n
  OBVIOUS
<1>2. \E m \in T : \A j \in T : j <= m
  BY <1>1, GreatestNat
<1> QED
  BY <1>2

\* The last chunk among some notifications is one of them.
LEMMA CursorIsPast ==
  ASSUME NEW S, NEW s \in Seq([msg : {"out", "gap", "ack"}, seq : S] \cup [msg : {"error"}]),
         NEW cursor \in S
  PROVE  CursorAfter(cursor, s) \in S
<1> DEFINE outs == {i \in 1..Len(s) : s[i].msg = "out"}
           last == CHOOSE i \in outs : \A j \in outs : j <= i
<1>1. CASE outs = {}
  BY <1>1 DEF CursorAfter
<1>2. CASE outs # {}
  <2>0. outs \in SUBSET (1..Len(s)) /\ Len(s) \in Nat
    OBVIOUS
  <2>1. last \in outs
    BY <1>2, <2>0, LastOfNumbers
  <2>2. s[last].seq \in S
    BY <2>1
  <2> QED
    BY <1>2, <2>2 DEF CursorAfter
<1> QED
  BY <1>1, <1>2

\* The steps of the attach pump.
LEMMA PumpStepTypes ==
  ASSUME StreamTypes, PumpStep
  PROVE  StreamTypes'
<1>0. /\ DaemonTypes /\ PumpTypes /\ nextSeq \in Nat /\ nextSeq # 0
      /\ attempt \in Conns
  BY AttachAssumption DEF StreamTypes, HubInv, HubTypes, PumpTypes
<1>1. /\ UNCHANGED hubVars
      /\ UNCHANGED <<sessionVars, arg, snap, slot, fresh, permit, woken, drain, hand>>
  BY DEF PumpStep, Connect, PumpFails, Failed, Retry, AwaitStash, AwaitError, AwaitAck, Show, Keystroke, Leave,
         connVars, attachVars, taskVars
<1>2. HubInv' /\ HubPast' /\ Past' = Past /\ Request' = Request /\ Message' = Message
  BY <1>0, <1>1, HubStays
<1>3. UNCHANGED <<nextSub, owner>> /\ 0 \in Past
  BY <1>0, <1>1 DEF hubVars, Past
<1>4. /\ <<>> \in Seq(Request) /\ <<>> \in Seq(Message)
      /\ toDaemon[attempt] \in Seq(Request) /\ toClient[attempt] \in Seq(Message)
      /\ toDaemon \in [Conns -> Seq(Request)] /\ toClient \in [Conns -> Seq(Message)]
  BY <1>0 DEF DaemonTypes
<1>5. ASSUME Failed
      PROVE  DaemonTypes' /\ PumpTypes'
  <2>1. toClient' \in [Conns -> Seq(Message)]
    BY <1>4, <1>5 DEF Failed
  <2>2. DaemonTypes'
    BY <1>0, <1>1, <1>2, <1>3, <1>5, <2>1
       DEF Failed, DaemonTypes, Works, sessionVars, attachVars, taskVars
  <2>3. PumpTypes'
    BY <1>0, <1>2, <1>3, <1>4, <1>5 DEF Failed, Closed, PumpTypes
  <2> QED
    BY <2>2, <2>3
<1>6. CASE Connect
  <2>1. toDaemon' \in [Conns -> Seq(Request)]
    <3>1. [req |-> "attach", since |-> lastSeq] \in Request
      BY <1>0 DEF Request, PumpTypes
    <3>2. <<[req |-> "attach", since |-> lastSeq]>> \in Seq(Request)
      BY <3>1
    <3> QED
      BY <1>4, <1>6, <3>2 DEF Connect
  <2>2. DaemonTypes'
    BY <1>0, <1>1, <1>2, <1>3, <1>6, <2>1
       DEF Connect, DaemonTypes, Works, Entering, Leaving, sessionVars, attachVars, taskVars
  <2>3. PumpTypes'
    BY <1>0, <1>2, <1>6 DEF Connect, PumpTypes
  <2> QED
    BY <1>2, <2>2, <2>3 DEF StreamTypes
<1>7. CASE PumpFails \/ AwaitError
  BY <1>2, <1>5, <1>7 DEF PumpFails, AwaitError, StreamTypes
<1>8. CASE Retry
  BY <1>0, <1>1, <1>2, <1>3, <1>8
     DEF Retry, DaemonTypes, Works, PumpTypes, sessionVars, connVars, attachVars, taskVars,
         StreamTypes
<1>9. ASSUME Received
      PROVE  /\ toClient' \in [Conns -> Seq(Message)] /\ Arrived \in Message
  <2>1. toClient[attempt] # <<>>
    BY <1>9 DEF Received
  <2>2. Tail(toClient[attempt]) \in Seq(Message) /\ 1 \in 1..Len(toClient[attempt])
    BY <1>4, <2>1
  <2>3. Arrived \in Message
    BY <1>4, <2>2 DEF Arrived
  <2> QED
    BY <1>4, <1>9, <2>2, <2>3 DEF Received
<1>10. CASE AwaitStash
  <2>1. DaemonTypes'
    BY <1>0, <1>1, <1>2, <1>3, <1>9, <1>10
       DEF AwaitStash, DaemonTypes, Works, sessionVars, attachVars, taskVars
  <2>2. stash' \in Seq(Message)
    BY <1>0, <1>9, <1>10 DEF AwaitStash, PumpTypes
  <2>3. PumpTypes'
    BY <1>0, <1>2, <1>10, <2>2 DEF AwaitStash, PumpTypes
  <2> QED
    BY <1>2, <2>1, <2>3 DEF StreamTypes
<1>11. CASE AwaitAck
  <2>1. DaemonTypes'
    BY <1>0, <1>1, <1>2, <1>3, <1>9, <1>11
       DEF AwaitAck, DaemonTypes, Works, sessionVars, attachVars, taskVars
  <2>2. shown' \in Seq(Message)
    BY <1>0, <1>11 DEF AwaitAck, PumpTypes
  <2>3. (IF lastSeq < Arrived.seq THEN Arrived.seq ELSE lastSeq) \in Past
    BY <1>0, <1>9, <1>11 DEF AwaitAck, PumpTypes, Message
  <2>4. lastSeq' \in Past
    BY <1>0, <1>11, <2>3, CursorIsPast DEF AwaitAck, PumpTypes, Message
  <2>5. PumpTypes'
    BY <1>0, <1>2, <1>4, <1>11, <2>2, <2>4 DEF AwaitAck, PumpTypes
  <2> QED
    BY <1>2, <2>1, <2>5 DEF StreamTypes
<1>12. CASE Show
  <2>1. DaemonTypes'
    BY <1>0, <1>1, <1>2, <1>3, <1>9, <1>12
       DEF Show, DaemonTypes, Works, sessionVars, attachVars, taskVars
  <2>2. shown' \in Seq(Message) /\ <<Arrived>> \in Seq(Message)
    BY <1>0, <1>9, <1>12 DEF Show, PumpTypes
  <2>4. lastSeq' \in Past
    BY <1>0, <1>12, <2>2, CursorIsPast DEF Show, PumpTypes, Message
  <2>5. PumpTypes'
    BY <1>0, <1>2, <1>4, <1>12, <2>2, <2>4 DEF Show, PumpTypes
  <2> QED
    BY <1>2, <2>1, <2>5 DEF StreamTypes
<1>13. ASSUME NEW q \in Seq(Request), NEW r \in {"write", "detach"}
       PROVE  Append(q, [req |-> r]) \in Seq(Request)
  BY DEF Request
<1>14. CASE Keystroke
  <2>1. toDaemon' \in [Conns -> Seq(Request)]
    BY <1>4, <1>13, <1>14 DEF Keystroke
  <2>2. DaemonTypes'
    BY <1>0, <1>1, <1>2, <1>3, <1>14, <2>1
       DEF Keystroke, DaemonTypes, Works, sessionVars, attachVars, taskVars
  <2>3. PumpTypes'
    BY <1>0, <1>2, <1>14 DEF Keystroke, PumpTypes
  <2> QED
    BY <1>2, <2>2, <2>3 DEF StreamTypes
<1>15. CASE Leave
  <2>1. toDaemon' \in [Conns -> Seq(Request)] /\ toClient' \in [Conns -> Seq(Message)]
    BY <1>4, <1>13, <1>15 DEF Leave
  <2>2. DaemonTypes'
    BY <1>0, <1>1, <1>2, <1>3, <1>15, <2>1
       DEF Leave, DaemonTypes, Works, sessionVars, attachVars, taskVars
  <2>3. PumpTypes'
    BY <1>0, <1>2, <1>3, <1>4, <1>15 DEF Leave, Closed, PumpTypes
  <2> QED
    BY <1>2, <2>2, <2>3 DEF StreamTypes
<1> QED
  BY <1>6, <1>7, <1>8, <1>10, <1>11, <1>12, <1>14, <1>15 DEF PumpStep

\* Readers that get nothing new keep to the past.
LEMMA PastStays ==
  ASSUME HubPast, HubInv', nextSeq' = nextSeq,
         \A h \in Handles :
           Held(h)' => Held(h) /\ seen'[h] + Len(queue'[h]) <= seen[h] + Len(queue[h])
  PROVE  HubPast' /\ Past' = Past /\ Request' = Request /\ Message' = Message
<1>1. Past' = Past
  BY DEF Past
<1>2. \A h \in Handles : seen'[h] \in Nat /\ Len(queue'[h]) \in Nat
  BY DEF HubInv, HubTypes
<1>3. \A h \in Handles : Held(h)' => seen'[h] + Len(queue'[h]) \in Past
  <2> SUFFICES ASSUME NEW h \in Handles, Held(h)'
               PROVE  seen'[h] + Len(queue'[h]) \in Past
    OBVIOUS
  <2>1. seen[h] + Len(queue[h]) \in 0..(nextSeq - 1) /\ nextSeq \in Nat
    BY DEF HubPast, Past, HubInv, HubTypes
  <2> QED
    BY <1>2, <2>1 DEF Past
<1> QED
  BY <1>1, <1>3 DEF HubPast, Request, Message

\* A chunk from the PTY.
LEMMA OutputTypes == ASSUME StreamTypes, PtyOutput PROVE StreamTypes'
<1>0. /\ HubInv /\ HubPast /\ DaemonTypes /\ PumpTypes /\ nextSeq \in Nat
      /\ queue \in [Handles -> Seq(Event)] /\ seen \in [Handles -> Nat]
      /\ UNCHANGED <<sessionVars, connVars, pumpVars>>
  BY DEF StreamTypes, HubInv, HubTypes, PtyOutput
<1>1. PICK len \in Lens : Publish(len, FALSE)
  BY DEF PtyOutput
<1>2. HubInv' /\ nextSeq' = nextSeq + 1 /\ UNCHANGED <<phase, seen, owner, nextSub>>
  BY <1>0, <1>1, PublishStep DEF Publish
<1>3. \A s : s \in Past => s \in Past'
  BY <1>0, <1>2 DEF Past
<1>4. /\ \A q \in Seq(Request) : q \in Seq(Request')
      /\ \A q \in Seq(Message) : q \in Seq(Message')
  <2>1. \A r : (r \in Request => r \in Request') /\ (r \in Message => r \in Message')
    BY <1>3 DEF Request, Message
  <2> QED
    BY <2>1
<1>5. DaemonTypes'
  <2>1. toDaemon' \in [Conns -> Seq(Request')] /\ toClient' \in [Conns -> Seq(Message')]
    BY <1>0, <1>4 DEF DaemonTypes, connVars
  <2>2. /\ \A c \in Conns : reader'[c] = "found" => arg'[c] \in Past'
        /\ snap' \in [Conns -> Past']
    BY <1>0, <1>3 DEF DaemonTypes, connVars, attachVars
  <2>3. hand' \in [Conns -> Seq(Message')]
    BY <1>0, <1>4 DEF DaemonTypes, connVars, taskVars
  <2> QED
    BY <1>0, <1>2, <2>1, <2>2, <2>3
       DEF DaemonTypes, Works, connVars, attachVars, taskVars, sessionVars, attachVars, taskVars
<1>6. PumpTypes'
  BY <1>0, <1>3, <1>4 DEF PumpTypes, pumpVars
<1>7. HubPast'
  <2> SUFFICES ASSUME NEW h \in Handles, Held(h)'
               PROVE  seen'[h] + Len(queue'[h]) \in Past'
    BY <1>0, <1>2 DEF HubPast
  <2>1. Held(h) /\ seen'[h] = seen[h] /\ seen[h] \in Nat /\ Len(queue[h]) \in Nat
    BY <1>0, <1>2 DEF Held
  <2>2. CASE HasSender(h)
    <3>1. seen[h] + Len(queue[h]) = nextSeq - 1
      BY <1>0, <2>1, <2>2 DEF HubInv, ReaderInv
    <3>2. queue'[h] = Append(queue[h], Pushed(subs[CHOOSE s \in DOMAIN subs : subs[s].tx = h].queued,
                                              [seq |-> nextSeq, len |-> len]))
      BY <1>1, <2>1, <2>2 DEF Publish
    <3>3. Len(queue'[h]) = Len(queue[h]) + 1
      BY <1>0, <3>2
    <3> QED
      BY <1>0, <1>2, <2>1, <3>1, <3>3 DEF Past
  <2>3. CASE ~HasSender(h)
    <3>1. queue'[h] = queue[h]
      BY <1>1, <2>1, <2>3 DEF Publish
    <3> QED
      BY <1>0, <1>3, <2>1, <3>1 DEF HubPast
  <2> QED
    BY <2>2, <2>3
<1> QED
  BY <1>2, <1>5, <1>6, <1>7 DEF StreamTypes

\* The hub is closed, or the task of a dropped handle parks.
LEMMA QuietTypes ==
  ASSUME StreamTypes, CloseHub \/ \E h \in Handles : LatePark(h)
  PROVE  StreamTypes'
<1>0. /\ HubInv /\ HubPast /\ DaemonTypes /\ PumpTypes
      /\ phase \in [Handles -> Phases]
  BY DEF StreamTypes, HubInv, HubTypes
<1>1. /\ UNCHANGED <<registered, holder, connVars, pumpVars>>
      /\ UNCHANGED <<nextSeq, nextSub, owner, queue, seen>>
  BY DEF CloseHub, Close, LatePark, DropPark, sessionVars
<1>2. HubInv'
  BY <1>0, QuietSteps, HandleSteps DEF CloseHub, LatePark
<1>3. \A h \in Handles : Held(h)' => Held(h)
  BY <1>0 DEF CloseHub, Close, LatePark, DropPark, Held
<1>4. HubPast' /\ Past' = Past /\ Request' = Request /\ Message' = Message
  <2>1. \A h \in Handles : seen'[h] + Len(queue'[h]) <= seen[h] + Len(queue[h])
    BY <1>0, <1>1 DEF HubInv, HubTypes
  <2> QED
    BY <1>0, <1>1, <1>2, <1>3, <2>1, PastStays DEF HubPast
<1>5. DaemonTypes' /\ PumpTypes'
  BY <1>0, <1>1, <1>4
     DEF DaemonTypes, Works, PumpTypes, connVars, attachVars, taskVars, pumpVars
<1> QED
  BY <1>2, <1>4, <1>5 DEF StreamTypes

\* A new subscription.
LEMMA SubscribeTypes ==
  ASSUME StreamTypes, NEW c \in Conns, AttachSubscribe(c)
  PROVE  StreamTypes'
<1>0. /\ HubInv /\ HubPast /\ DaemonTypes /\ PumpTypes /\ nextSeq \in Nat
      /\ phase \in [Handles -> Phases]
      /\ queue \in [Handles -> Seq(Event)] /\ seen \in [Handles -> Nat]
  BY DEF StreamTypes, HubInv, HubTypes
<1>1. PICK h \in Ids : h = nextSub
  BY DEF AttachSubscribe, Subscribe, Ids
<1>2. /\ h \in Handles /\ h \in Nat /\ arg[c] \in Past /\ arg[c] \in Cursors
      /\ OpenHandle(h, h, arg[c]) /\ nextSub' = h + 1 /\ UNCHANGED <<nextSeq, ring>>
    BY <1>0, <1>1, HubAssumption DEF AttachSubscribe, Subscribe, Ids, DaemonTypes, Cursors, Past
<1>3. HubInv'
  BY <1>0, <1>2, OpenStep
<1>4. /\ phase' = [phase EXCEPT ![h] = "idle"] /\ owner' = [owner EXCEPT ![h] = h]
      /\ HasSender(h)' /\ Held(h)'
      /\ \A k \in Handles : k # h => queue'[k] = queue[k] /\ seen'[k] = seen[k]
  BY <1>0, <1>2 DEF OpenHandle, HasSender, Held
<1>5. Past' = Past /\ Request' = Request /\ Message' = Message
  BY <1>2 DEF Past, Request, Message
<1>6. HubPast'
  <2>1. seen'[h] + Len(queue'[h]) \in Past'
    <3>1. seen'[h] + Len(queue'[h]) = nextSeq' - 1 /\ nextSeq' \in Nat /\ nextSeq' # 0
      BY <1>2, <1>3, <1>4 DEF HubInv, ReaderInv, HubTypes
    <3> QED
      BY <3>1 DEF Past
  <2> QED
    BY <1>0, <1>2, <1>4, <1>5, <2>1 DEF HubPast, Held
<1>7. PumpTypes'
  BY <1>0, <1>5 DEF AttachSubscribe, PumpTypes, pumpVars
<1>8. DaemonTypes'
  <2>1. owner' \in [Handles -> Handles \cup {Null}] /\ nextSub' \in Nat
    BY <1>0, <1>2, <1>4 DEF DaemonTypes
  <2>2. /\ UNCHANGED <<registered, holder, toDaemon, toClient, link, snap, slot, drain, hand,
                        fresh, woken, permit, writer>>
        /\ reader' = [reader EXCEPT ![c] = "subscribed"] /\ arg' = [arg EXCEPT ![c] = h]
    BY <1>1 DEF AttachSubscribe, sessionVars, taskVars
  <2> QED
    BY <1>0, <1>1, <1>5, <2>1, <2>2 DEF DaemonTypes, Works, Entering, Leaving
<1> QED
  BY <1>3, <1>6, <1>7, <1>8 DEF StreamTypes

\* A handle that is dropped is empty, whatever it held.
LEMMA DetachedHub ==
  ASSUME StreamTypes, NEW c \in Conns, NEW s \in Ids, arg[c] = s, Detached(c),
         subs' \in {subs, Parked(s)}
  PROVE  /\ HubInv' /\ HubPast' /\ Past' = Past /\ Request' = Request /\ Message' = Message
         /\ \A k \in Handles : /\ Held(k)' => Held(k)
                               /\ phase'[k] = phase[k] \/ (k = s /\ fresh[c] /\ phase'[k] = "dropped")
                               /\ Held(k)' => queue'[k] = queue[k] /\ seen'[k] = seen[k]
<1>0. /\ HubInv /\ HubPast /\ HubTypes /\ s \in Handles
      /\ phase \in [Handles -> Phases] /\ fresh[c] \in BOOLEAN
      /\ queue \in [Handles -> Seq(Event)] /\ seen \in [Handles -> Nat]
  BY DEF StreamTypes, HubInv, HubTypes, Ids, DaemonTypes
<1>1. UNCHANGED <<nextSeq, ring>>
  BY DEF Detached
<1>2. \A t \in DOMAIN subs' : /\ t \in DOMAIN subs /\ "tx" \in DOMAIN subs'[t]
                              /\ subs'[t].tx \in {subs[t].tx, Null}
  <2>1. subs' = Parked(s) \/ subs' = subs
    OBVIOUS
  <2> QED
    BY <1>0, <2>1, ParkedEntries DEF HubTypes
<1>3. \A h \in Handles : HasSender(h)' => HasSender(h)
  BY <1>2, HubAssumption DEF HasSender
<1>4. CASE ~fresh[c]
  <2>1. UNCHANGED <<phase, queue, seen>>
    BY <1>4 DEF Detached
  <2>2. HubInv'
    BY <1>0, <1>1, <1>2, <2>1, EntriesGo
  <2>3. HubPast' /\ Past' = Past /\ Request' = Request /\ Message' = Message
    <3>1. \A h \in Handles : seen[h] + Len(queue[h]) <= seen[h] + Len(queue[h])
      BY <1>0
    <3> QED
      BY <1>0, <1>1, <2>1, <2>2, <3>1, PastStays DEF Held, HubPast
  <2> QED
    BY <2>1, <2>2, <2>3 DEF Held
<1>5. CASE fresh[c]
  <2>1. /\ phase' = [phase EXCEPT ![s] = "dropped"] /\ queue' = [queue EXCEPT ![s] = <<>>]
        /\ seen' = [seen EXCEPT ![s] = 0]
    BY <1>5 DEF Detached
  <2>2. /\ phase'[s] = "dropped" /\ queue'[s] = <<>> /\ seen'[s] = 0
        /\ \A k \in Handles : k # s => phase'[k] = phase[k] /\ queue'[k] = queue[k] /\ seen'[k] = seen[k]
    BY <1>0, <2>1
  <2>3. HubTypes'
    <3>1. <<>> \in Seq(Event)
      OBVIOUS
    <3>2. queue' \in [Handles -> Seq(Event)]
      BY <1>0, <2>1, <3>1
    <3>3. phase' \in [Handles -> Phases] /\ seen' \in [Handles -> Nat]
      BY <1>0, <2>1 DEF Phases
    <3> QED
      BY <1>0, <1>1, <1>2, <3>2, <3>3 DEF HubTypes
  <2>4. RingInv'
    BY <1>0, <1>1 DEF HubInv, RingInv, InOrder
  <2>5. ReaderInv'
    <3> SUFFICES ASSUME NEW k \in Handles
                 PROVE  /\ Held(k)' => InOrder(queue'[k], seen'[k])
                        /\ Held(k)' /\ HasSender(k)' => seen'[k] + Len(queue'[k]) = nextSeq' - 1
                        /\ ~Held(k)' => queue'[k] = <<>> /\ seen'[k] = 0
      BY DEF ReaderInv, InOrder
    <3>1. CASE k = s
      BY <2>2, <3>1 DEF Held
    <3>2. CASE k # s
      BY <1>0, <1>1, <1>3, <2>2, <3>2 DEF HubInv, ReaderInv, Held
    <3> QED
      BY <3>1, <3>2
  <2>6. HubInv'
    BY <2>3, <2>4, <2>5 DEF HubInv
  <2>7. \A k \in Handles : Held(k)' => k # s /\ Held(k)
    BY <2>2 DEF Held
  <2>8. HubPast' /\ Past' = Past /\ Request' = Request /\ Message' = Message
    <3>1. \A h \in Handles : seen[h] + Len(queue[h]) <= seen[h] + Len(queue[h])
      BY <1>0
    <3> QED
      BY <1>0, <1>1, <2>2, <2>6, <2>7, <3>1, PastStays DEF HubPast
  <2> QED
    BY <1>5, <2>2, <2>6, <2>7, <2>8
<1> QED
  BY <1>0, <1>4, <1>5


\* A detach that ends, and the end of a connection.
LEMMA LeaveTypes ==
  ASSUME StreamTypes, NEW c \in Conns, Leaves(c)
  PROVE  StreamTypes'
<1>0. DaemonTypes /\ PumpTypes
  BY DEF StreamTypes
<1>1. arg[c] \in Ids
  BY <1>0 DEF Leaves, DetachLookup, DetachPark, DaemonTypes, Works, Leaving
<1>2. /\ UNCHANGED <<registered, holder, link, toDaemon, toClient, snap, slot, permit, writer,
                     woken, drain, hand, pumpVars>>
      /\ UNCHANGED <<nextSub, owner>>
  BY DEF Leaves, DetachLookup, DetachPark, Detached, sessionVars, taskVars, hubVars
<1>3. CASE Detached(c) /\ subs' \in {subs, Parked(arg[c])}
  <2>1. HubInv' /\ HubPast' /\ Past' = Past /\ Request' = Request /\ Message' = Message
    BY <1>1, <1>3, DetachedHub
  <2>2. PumpTypes'
    BY <1>0, <1>2, <2>1 DEF PumpTypes, pumpVars
  <2>3. \E next \in {"idle", "gone"} : reader' = [reader EXCEPT ![c] = next]
    BY <1>3 DEF Detached
  <2>4. arg' = [arg EXCEPT ![c] = Null] /\ fresh' = [fresh EXCEPT ![c] = FALSE]
    BY <1>3 DEF Detached
  <2>5. DaemonTypes'
    BY <1>0, <1>2, <2>1, <2>3, <2>4 DEF DaemonTypes, Works, Entering, Leaving
  <2> QED
    BY <2>1, <2>2, <2>5 DEF StreamTypes
<1>4. CASE UNCHANGED <<hubVars, arg, fresh>> /\ reader' = [reader EXCEPT ![c] = "releasing"]
  <2>1. HubInv' /\ HubPast' /\ Past' = Past /\ Request' = Request /\ Message' = Message
    BY <1>4, HubStays
  <2>2. PumpTypes'
    BY <1>0, <1>2, <2>1 DEF PumpTypes, pumpVars
  <2>3. DaemonTypes'
    BY <1>0, <1>1, <1>2, <1>4, <2>1 DEF DaemonTypes, Works, Entering, Leaving
  <2> QED
    BY <2>1, <2>2, <2>3 DEF StreamTypes
<1> QED
  BY <1>3, <1>4 DEF Leaves, DetachLookup, DetachPark

\* The next event in a channel has the next number.
LEMMA HeadIsNext ==
  ASSUME HubInv, NEW h \in Handles, Held(h), queue[h] # <<>>
  PROVE  queue[h][1].seq = seen[h] + 1
<1>1. queue[h] \in Seq(Event)
  BY DEF HubInv, HubTypes
<1>2. 1 \in 1..Len(queue[h])
  BY <1>1
<1> QED
  BY <1>2 DEF HubInv, ReaderInv, InOrder


\* The writer task ends, and the task that drains.
LEMMA DrainTypes ==
  ASSUME StreamTypes, NEW c \in Conns, HubTask(c)
  PROVE  StreamTypes'
<1>0. /\ HubInv /\ HubPast /\ DaemonTypes /\ PumpTypes /\ nextSeq \in Nat
      /\ phase \in [Handles -> Phases]
      /\ queue \in [Handles -> Seq(Event)] /\ seen \in [Handles -> Nat]
  BY DEF StreamTypes, HubInv, HubTypes
<1>1. PICK h : h = drain[c]
  OBVIOUS
<1>2. h # Null => h \in Handles
  BY <1>0, <1>1 DEF DaemonTypes, Ids
<1>3. UNCHANGED <<nextSeq, nextSub, owner, registered, holder, pumpVars>>
  BY DEF HubTask, WriterStop, DrainTake, DrainAck, DrainEnd, DrainOver, Take, Ack, End, Drop,
         hubVars, sessionVars
<1>4. \/ UNCHANGED hubVars
      \/ h \in Handles /\ (Drop(h) \/ Take(h) \/ Ack(h) \/ End(h))
  BY <1>1, <1>2 DEF HubTask, WriterStop, DrainTake, DrainAck, DrainEnd, DrainOver
<1>5. HubInv'
  BY <1>0, <1>4, HubStays, DropStep, TakeStep, HandleSteps
<1>6. /\ HubPast' /\ Past' = Past /\ Request' = Request /\ Message' = Message
  <2>1. CASE UNCHANGED hubVars
    BY <2>1, HubStays
  <2>2. CASE h \in Handles /\ (Drop(h) \/ Ack(h) \/ End(h))
    <3>1. \A k \in Handles : Held(k)' => Held(k) /\ seen'[k] = seen[k] /\ queue'[k] = queue[k]
      BY <1>0, <2>2 DEF Drop, Ack, End, Held
    <3>2. \A k \in Handles : seen[k] + Len(queue[k]) <= seen[k] + Len(queue[k])
      BY <1>0
    <3> QED
      BY <1>0, <1>3, <1>5, <3>1, <3>2, PastStays
  <2>3. CASE h \in Handles /\ Take(h)
    <3>1. /\ queue[h] \in Seq(Event) /\ queue[h] # <<>> /\ Held(h)
          /\ queue[h][1].seq = seen[h] + 1
      <4>1. phase[h] = "idle" /\ queue[h] # <<>>
        BY <2>3 DEF Take
      <4>2. Held(h)
        BY <4>1 DEF Held
      <4> QED
        BY <1>0, <2>3, <4>1, <4>2, HeadIsNext
    <3>2. /\ queue'[h] = Tail(queue[h]) /\ seen'[h] = seen[h] + 1
          /\ \A k \in Handles : k # h => queue'[k] = queue[k] /\ seen'[k] = seen[k] /\ phase'[k] = phase[k]
      BY <1>0, <2>3, <3>1 DEF Take
    <3>3. seen'[h] + Len(queue'[h]) <= seen[h] + Len(queue[h])
      BY <1>0, <2>3, <3>1, <3>2
    <3>4. \A k \in Handles : seen'[k] + Len(queue'[k]) <= seen[k] + Len(queue[k])
      <4> TAKE k \in Handles
      <4>1. seen[k] \in Nat /\ Len(queue[k]) \in Nat
        BY <1>0
      <4>2. CASE k # h
        BY <3>2, <4>1, <4>2
      <4> QED
        BY <3>3, <4>2
    <3>5. \A k \in Handles : Held(k)' => Held(k)
      <4> TAKE k \in Handles
      <4>1. CASE k = h
        BY <3>1, <4>1
      <4>2. CASE k # h
        BY <1>0, <3>2, <4>2 DEF Held
      <4> QED
        BY <4>1, <4>2
    <3> QED
      BY <1>0, <1>3, <1>5, <3>4, <3>5, PastStays
  <2> QED
    BY <1>4, <2>1, <2>2, <2>3
<1>7. PumpTypes'
  BY <1>0, <1>3, <1>6 DEF PumpTypes, pumpVars
<1>8. hand' \in [Conns -> Seq(Message)]
  <2>1. CASE DrainTake(c)
    <3>1. /\ h \in Handles /\ queue[h] \in Seq(Event) /\ queue[h] # <<>> /\ Held(h)
          /\ queue[h][1].seq = seen[h] + 1
      BY <1>0, <1>1, <1>2, <2>1, HeadIsNext DEF DrainTake, Take, Held
    <3>2. queue[h][1].seq \in Past
      BY <1>0, <3>1 DEF HubPast, Past
    <3>3. [msg |-> IF queue[h][1].gap THEN "gap" ELSE "out", seq |-> queue[h][1].seq] \in Message
      BY <3>2 DEF Message
    <3>4. hand' = [hand EXCEPT ![c] = <<[msg |-> IF queue[h][1].gap THEN "gap" ELSE "out",
                                         seq |-> queue[h][1].seq]>>]
      BY <1>1, <2>1 DEF DrainTake
    <3> QED
      BY <1>0, <3>3, <3>4 DEF DaemonTypes
  <2>2. CASE hand' = hand \/ hand' = [hand EXCEPT ![c] = <<>>]
    <3>1. <<>> \in Seq(Message)
      OBVIOUS
    <3> QED
      BY <1>0, <2>2, <3>1 DEF DaemonTypes
  <2> QED
    BY <2>1, <2>2 DEF HubTask, WriterStop, DrainAck, DrainEnd, DrainOver, connVars, taskVars
<1>9. DaemonTypes'
  <2>1. UNCHANGED <<link, toDaemon, toClient, reader, arg, snap, slot, fresh, woken>>
    BY DEF HubTask, WriterStop, DrainTake, DrainAck, DrainEnd, DrainOver, connVars, attachVars,
           taskVars
  <2>2. /\ permit' \in [Conns -> BOOLEAN] /\ writer' \in [Conns -> {"off", "on", "done"}]
        /\ drain' \in [Conns -> Ids \cup {Null}]
    <3>1. CASE WriterStop(c)
      BY <1>0, <3>1 DEF WriterStop, DaemonTypes
    <3>2. CASE ~WriterStop(c)
      BY <1>0, <3>2 DEF HubTask, DrainTake, DrainAck, DrainEnd, DrainOver, connVars, taskVars,
                        DaemonTypes
    <3> QED
      BY <3>1, <3>2
  <2> QED
    BY <1>0, <1>3, <1>6, <1>8, <2>1, <2>2 DEF DaemonTypes, Works
<1> QED
  BY <1>5, <1>6, <1>7, <1>9 DEF StreamTypes

\* Every step keeps the types and the hub's invariant.
LEMMA TypesStay == ASSUME StreamTypes, StreamNext PROVE StreamTypes'
<1>1. ASSUME NEW c \in Conns, ConnStep(c)
      PROVE  StreamTypes'
  BY <1>1, ConnCases, RequestTypes, SubscribeTypes, LeaveTypes, TaskTypes, DrainTypes
<1>2. CASE SessionStep
  BY <1>2, OutputTypes, TaskTypes, QuietTypes DEF SessionStep
<1> QED
  BY <1>1, <1>2, PumpStepTypes DEF StreamNext

\* The first state has the types.
LEMMA TypesStart == StreamInit => StreamTypes
<1> SUFFICES ASSUME StreamInit PROVE StreamTypes
  OBVIOUS
<1>1. HubInv
  BY HubStart DEF StreamInit
<1>2. nextSeq = 1 /\ nextSub = 1 /\ owner = [h \in Handles |-> Null]
      /\ phase = [h \in Handles |-> "unused"]
  BY DEF StreamInit, HubInit
<1>3. HubPast /\ 0 \in Past
  BY <1>2 DEF HubPast, Past, Held
<1>4. <<>> \in Seq(Request) /\ <<>> \in Seq(Message)
  OBVIOUS
<1>5. DaemonTypes
  BY <1>2, <1>3, <1>4 DEF StreamInit, DaemonTypes, Works, Entering, Leaving
<1>6. PumpTypes
  BY <1>3, <1>4 DEF StreamInit, PumpTypes
<1> QED
  BY <1>1, <1>3, <1>5, <1>6 DEF StreamTypes

-----------------------------------------------------------------------------
(* The input has one owner *)

\* A step leaves the connection d alone.
Same(d) ==
  UNCHANGED <<link[d], toDaemon[d], toClient[d], reader[d], arg[d], slot[d], fresh[d], drain[d],
              hand[d]>>

\* The steps of one connection leave the others alone.
LEMMA ConnAlone ==
  ASSUME StreamTypes, NEW c \in Conns, NEW d \in Conns, d # c, ConnStep(c)
  PROVE  Same(d) /\ woken'[d] = woken[d]
<1>0. DaemonTypes
  BY DEF StreamTypes
<1>1. CASE AttachLookup(c) \/ AttachSubscribe(c) \/ AttachAcquire(c) \/ AttachSnapshot(c)
  BY <1>0, <1>1 DEF AttachLookup, AttachSubscribe, AttachAcquire, AttachSnapshot, Send, Same,
                    DaemonTypes, taskVars
<1>2. CASE AttachRecord(c) \/ AttachReply(c) \/ Detach(c) \/ Release(c)
  BY <1>0, <1>2 DEF AttachRecord, AttachReply, Detach, Release, RemoveSlot, Send, Same, DaemonTypes,
                    taskVars
<1>3. CASE Leaves(c) \/ DetachInput(c)
  BY <1>0, <1>3 DEF Leaves, DetachLookup, DetachInput, DetachPark, Detached, Same, DaemonTypes,
                    taskVars
<1>4. CASE WriteCheck(c) \/ PtyWrite(c) \/ ReaderEof(c) \/ WriterAttach(c) \/ WriterStop(c)
  BY <1>0, <1>4 DEF WriteCheck, PtyWrite, ReaderEof, WriterAttach, WriterStop, Same, DaemonTypes,
                    attachVars, taskVars
<1>5. CASE DrainTake(c) \/ DrainAck(c) \/ DrainSend(c) \/ DrainEnd(c) \/ DrainOver(c) \/ Break(c)
  BY <1>0, <1>5 DEF DrainTake, DrainAck, DrainSend, DrainEnd, DrainOver, Break, Send, Same,
                    DaemonTypes, connVars, attachVars, taskVars
<1> QED
  BY <1>1, <1>2, <1>3, <1>4, <1>5 DEF ConnStep, Leaves

\* The steps of the pump are about its own connection.
LEMMA PumpAlone ==
  ASSUME StreamTypes, NEW d \in Conns, d # attempt, PumpStep
  PROVE  Same(d) /\ woken'[d] = woken[d]
<1>0. DaemonTypes
  BY DEF StreamTypes
<1> QED
  BY <1>0 DEF PumpStep, Connect, PumpFails, Retry, AwaitStash, AwaitError, AwaitAck, Show, Keystroke,
              Leave, Failed, Received, Same, DaemonTypes, connVars, attachVars, taskVars

\* What a step on c has to show: the others are as they were.
LEMMA OwnerStep ==
  ASSUME StreamTypes, OwnerInv, nextSub' = nextSub, NEW c \in Conns,
         \A d \in Conns : d # c => Same(d),
         \A h \in Ids : Owns(c, h)' => Owns(c, h),
         AttachesOnce(c)', AttemptsInv', HolderInv'
  PROVE  OwnerInv'
<1>1. \A d \in Conns : d # c => /\ AttachesOnce(d)'
                                /\ \A h \in Ids : Owns(d, h)' => Owns(d, h)
  BY DEF OwnerInv, Same, AttachesOnce, Unattached, Owns, Works
<1>2. OwnersInv'
  BY <1>1 DEF OwnerInv, OwnersInv
<1> QED
  BY <1>1, <1>2 DEF OwnerInv

\* The holder stays, with everybody's attachments.
LEMMA HolderStays ==
  ASSUME HolderInv, UNCHANGED <<holder, typed>>, registered' => registered,
         \A d \in Conns : /\ slot'[d] = slot[d]
                          /\ reader'[d] = "gone" => reader[d] = "gone"
                          /\ reader'[d] = "writing" => reader[d] = "writing"
                          /\ HoldsFor(d) => HoldsFor(d)' /\ arg'[d] = arg[d]
  PROVE  HolderInv'
<1>1. InputHasOwner'
  BY DEF HolderInv, InputHasOwner, HoldsFor
<1> QED
  BY <1>1 DEF HolderInv, SingleWriter

\* Attempts are about where the readers are.
LEMMA AttemptsStay ==
  ASSUME AttemptsInv, UNCHANGED <<pump, attempt>>, attempt \in {1, 2},
         \A d \in Conns : /\ reader[d] = "off" <=> reader'[d] = "off"
                          /\ reader[d] = "off" /\ link[d] = "none" => link'[d] = "none"
  PROVE  AttemptsInv'
  BY AttachAssumption DEF AttemptsInv

\* The first request of a connection is taken off the wire.
LEMMA RequestTaken ==
  ASSUME StreamTypes, OwnerInv, NEW c \in Conns, NEW r, IsRequest(c, r),
         toDaemon' = [toDaemon EXCEPT ![c] = Tail(@)]
  PROVE  /\ \A i \in 1..Len(toDaemon'[c]) : /\ toDaemon'[c][i].req # "attach"
                                            /\ i + 1 \in 1..Len(toDaemon[c])
                                            /\ toDaemon'[c][i] = toDaemon[c][i + 1]
         /\ r = "attach" => Unattached(c)
         /\ reader[c] = "idle" /\ toDaemon[c][1] \in Request /\ 1 \in 1..Len(toDaemon[c])
<1>1. toDaemon[c] \in Seq(Request) /\ toDaemon[c] # <<>>
      /\ reader[c] = "idle" /\ toDaemon[c][1].req = r /\ toDaemon'[c] = Tail(toDaemon[c])
  BY DEF IsRequest, StreamTypes, DaemonTypes
<1>2. 1 \in 1..Len(toDaemon[c]) /\ toDaemon[c][1] \in Request
  BY <1>1
<1>3. \A i \in 1..Len(toDaemon'[c]) : i + 1 \in 1..Len(toDaemon[c])
                                      /\ toDaemon'[c][i] = toDaemon[c][i + 1] /\ i + 1 # 1
  <2> SUFFICES ASSUME NEW q \in Seq(Request), q = toDaemon[c]
               PROVE  \A i \in 1..Len(Tail(q)) : i + 1 \in 1..Len(q) /\ Tail(q)[i] = q[i + 1] /\ i + 1 # 1
    BY <1>1
  <2>1. q # <<>>
    BY <1>1
  <2> QED
    BY <2>1
<1>4. \A i \in 1..Len(toDaemon[c]) : toDaemon[c][i].req = "attach" => i = 1 /\ Unattached(c)
  BY DEF OwnerInv, AttachesOnce
<1> QED
  BY <1>1, <1>2, <1>3, <1>4

\* The requests that leave the hub alone.
LEMMA RequestOwners ==
  ASSUME StreamTypes, OwnerInv, NEW c \in Conns, QuietRequest(c)
  PROVE  OwnerInv'
<1>0. /\ DaemonTypes /\ OwnersInv /\ AttachesOnce(c) /\ AttemptsInv /\ HolderInv
      /\ attempt \in {1, 2}
  BY DEF StreamTypes, OwnerInv, PumpTypes
<1>1. UNCHANGED <<nextSub, pump, attempt, link, registered, drain>>
  BY DEF QuietRequest, AttachLookup, AttachAcquire, AttachSnapshot, AttachRecord, AttachReply,
         Detach, Release, DetachInput, WriteCheck, PtyWrite, ReaderEof, hubVars, pumpVars,
         sessionVars, taskVars
<1>2. \A d \in Conns : d # c => Same(d)
  BY ConnAlone DEF QuietRequest, ConnStep
<1>3. AttemptsInv'
  <2>1. reader[c] # "off" /\ reader'[c] # "off"
    BY <1>0 DEF DaemonTypes, QuietRequest, AttachLookup, AttachAcquire, AttachSnapshot, AttachRecord,
                AttachReply, Detach, Release, RemoveSlot, DetachInput, WriteCheck, PtyWrite,
                ReaderEof, IsRequest
  <2> QED
    BY <1>0, <1>1, <1>2, <2>1, AttemptsStay DEF Same
<1>4. CASE AttachLookup(c)
  <2>1. /\ \A i \in 1..Len(toDaemon'[c]) : toDaemon'[c][i].req # "attach"
        /\ Unattached(c) /\ reader[c] = "idle"
    BY <1>4, RequestTaken DEF AttachLookup
  <2>2. /\ UNCHANGED <<slot, fresh, holder, typed>>
        /\ reader'[c] \in {"idle", "found"} /\ (reader'[c] = "found" => toClient' = toClient)
    BY <1>0, <1>4, <2>1 DEF AttachLookup, sessionVars, DaemonTypes
  <2>3. AttachesOnce(c)'
    BY <1>1, <2>1, <2>2 DEF AttachesOnce, Unattached, Entering, Leaving
  <2>4. HolderInv'
    BY <1>0, <1>1, <1>2, <2>1, <2>2, HolderStays DEF Same, HoldsFor
  <2>5. \A h \in Ids : Owns(c, h)' => Owns(c, h)
    BY <1>1, <2>2 DEF Owns, Works, Entering, Leaving
  <2> QED
    BY <1>1, <1>2, <1>3, <2>3, <2>4, <2>5, OwnerStep
<1>5. CASE AttachAcquire(c)
  <2>1. /\ reader[c] = "subscribed" /\ reader'[c] = "acquired" /\ arg[c] \in Ids /\ arg[c] # Null
        /\ UNCHANGED <<arg, slot, fresh, toDaemon, toClient, typed>>
        /\ holder' = IF holder = Null THEN arg[c] ELSE holder
    BY <1>0, <1>5, HubAssumption DEF AttachAcquire, DaemonTypes, Works, Entering, Ids
  <2>2. AttachesOnce(c)'
    BY <1>0, <1>1, <2>1 DEF AttachesOnce, Unattached, Entering, Leaving
  <2>3. \A h \in Ids : Owns(c, h)' => Owns(c, h)
    BY <1>1, <2>1 DEF Owns, Works, Entering
  <2>4. HolderInv'
    <3>1. \A d \in Conns : d # c => slot'[d] = slot[d] /\ reader'[d] = reader[d] /\ arg'[d] = arg[d]
      BY <1>2 DEF Same
    <3>2. InputHasOwner'
      <4>1. CASE holder = Null
        BY <2>1, <4>1 DEF InputHasOwner, HoldsFor
      <4>2. CASE holder # Null
        BY <1>0, <1>1, <2>1, <3>1, <4>2 DEF InputHasOwner, HoldsFor, HolderInv
      <4> QED
        BY <4>1, <4>2
    <3> QED
      BY <1>0, <2>1, <3>1, <3>2 DEF HolderInv, SingleWriter
  <2> QED
    BY <1>1, <1>2, <1>3, <2>2, <2>3, <2>4, OwnerStep
<1>6. CASE AttachSnapshot(c)
  <2>1. /\ reader[c] = "acquired" /\ reader'[c] = "snapshot"
        /\ UNCHANGED <<arg, slot, fresh, toDaemon, toClient, typed, holder>>
    BY <1>0, <1>6 DEF AttachSnapshot, DaemonTypes, sessionVars
  <2>2. AttachesOnce(c)'
    BY <1>0, <1>1, <2>1 DEF AttachesOnce, Unattached, Entering, Leaving
  <2>3. HolderInv'
    BY <1>0, <1>1, <1>2, <2>1, HolderStays DEF Same, HoldsFor
  <2>4. \A h \in Ids : Owns(c, h)' => Owns(c, h)
    BY <1>1, <2>1 DEF Owns, Works, Entering
  <2> QED
    BY <1>1, <1>2, <1>3, <2>2, <2>3, <2>4, OwnerStep
<1>7. CASE AttachRecord(c)
  <2>1. /\ reader[c] = "snapshot" /\ reader'[c] = "answer" /\ arg[c] \in Ids /\ arg[c] # Null
        /\ slot'[c] = arg[c] /\ fresh'[c] = TRUE /\ UNCHANGED <<toDaemon, typed, holder>>
    BY <1>0, <1>7, HubAssumption DEF AttachRecord, DaemonTypes, Works, Entering, Ids, sessionVars
  <2>2. Unattached(c)
    BY <1>0, <2>1 DEF AttachesOnce, Entering
  <2>3. AttachesOnce(c)'
    BY <1>0, <1>1, <2>1, <2>2 DEF AttachesOnce, Unattached, Entering, Leaving
  <2>4. \A h \in Ids : Owns(c, h)' => Owns(c, h)
    BY <1>1, <2>1 DEF Owns, Works, Entering, Leaving
  <2>5. HolderInv'
    <3>1. \A d \in Conns : d # c => slot'[d] = slot[d] /\ reader'[d] = reader[d] /\ arg'[d] = arg[d]
      BY <1>2 DEF Same
    <3>2. InputHasOwner'
      <4> SUFFICES ASSUME holder # Null, registered
                   PROVE  \E d \in Conns : reader'[d] # "gone" /\ (slot'[d] = holder \/ (HoldsFor(d)' /\ arg'[d] = holder))
        BY <1>1, <2>1 DEF InputHasOwner
      <4>1. PICK d \in Conns : reader[d] # "gone" /\ (slot[d] = holder \/ (HoldsFor(d) /\ arg[d] = holder))
        BY <1>0 DEF HolderInv, InputHasOwner
      <4>2. CASE d = c
        BY <2>1, <2>2, <4>1, <4>2 DEF Unattached
      <4>3. CASE d # c
        BY <3>1, <4>1, <4>3 DEF HoldsFor
      <4> QED
        BY <4>2, <4>3
    <3> QED
      BY <1>0, <2>1, <3>1, <3>2 DEF HolderInv, SingleWriter
  <2> QED
    BY <1>1, <1>2, <1>3, <2>3, <2>4, <2>5, OwnerStep
<1>8. CASE AttachReply(c)
  <2>1. /\ UNCHANGED <<slot, fresh, holder, typed, toDaemon>>
        /\ reader[c] = "answer" /\ reader'[c] = "idle"
    BY <1>0, <1>8 DEF AttachReply, sessionVars, DaemonTypes
  <2>2. AttachesOnce(c)'
    BY <1>0, <1>1, <2>1 DEF AttachesOnce, Entering, Leaving
  <2>3. HolderInv'
    BY <1>0, <1>1, <1>2, <2>1, HolderStays DEF Same, HoldsFor
  <2>4. \A h \in Ids : Owns(c, h)' => Owns(c, h)
    BY <1>1, <2>1 DEF Owns, Works, Entering, Leaving
  <2> QED
    BY <1>1, <1>2, <1>3, <2>2, <2>3, <2>4, OwnerStep
<1>9. CASE Detach(c) \/ Release(c)
  <2>1. /\ reader[c] \in {"idle", "joining"} /\ slot'[c] = Null /\ arg'[c] = slot[c]
        /\ slot[c] = Null => reader'[c] \in {"idle", "gone"}
        /\ slot[c] # Null => reader'[c] = "detaching"
        /\ UNCHANGED <<holder, typed, fresh, toClient>>
    BY <1>0, <1>9 DEF Detach, Release, RemoveSlot, IsRequest, DaemonTypes, sessionVars
  <2>2. \A i \in 1..Len(toDaemon'[c]) : toDaemon'[c][i].req # "attach"
    <3>1. CASE Detach(c)
      BY <3>1, RequestTaken DEF Detach
    <3>2. CASE Release(c)
      BY <1>0, <3>2 DEF Release, AttachesOnce
    <3> QED
      BY <1>9, <3>1, <3>2
  <2>3. AttachesOnce(c)'
    BY <1>0, <1>1, <2>1, <2>2 DEF AttachesOnce, Entering, Leaving
  <2>4. \A h \in Ids : Owns(c, h)' => Owns(c, h)
    BY <1>1, <2>1 DEF Owns
  <2>5. HolderInv'
    <3>1. \A d \in Conns : d # c => slot'[d] = slot[d] /\ reader'[d] = reader[d] /\ arg'[d] = arg[d]
      BY <1>2 DEF Same
    <3>2. InputHasOwner'
      <4> SUFFICES ASSUME holder # Null, registered
                   PROVE  \E d \in Conns : reader'[d] # "gone" /\ (slot'[d] = holder \/ (HoldsFor(d)' /\ arg'[d] = holder))
        BY <1>1, <2>1 DEF InputHasOwner
      <4>1. PICK d \in Conns : reader[d] # "gone" /\ (slot[d] = holder \/ (HoldsFor(d) /\ arg[d] = holder))
        BY <1>0 DEF HolderInv, InputHasOwner
      <4>2. CASE d = c
        BY <2>1, <4>1, <4>2 DEF HoldsFor
      <4>3. CASE d # c
        BY <3>1, <4>1, <4>3 DEF HoldsFor
      <4> QED
        BY <4>2, <4>3
    <3> QED
      BY <1>0, <2>1, <3>1, <3>2 DEF HolderInv, SingleWriter
  <2> QED
    BY <1>1, <1>2, <1>3, <2>3, <2>4, <2>5, OwnerStep
<1>10. CASE DetachInput(c)
  <2>1. /\ reader[c] = "releasing" /\ reader'[c] = "parking" /\ arg[c] \in Ids /\ arg[c] # Null
        /\ UNCHANGED <<arg, slot, fresh, toDaemon, toClient, typed>>
        /\ holder' = IF holder = arg[c] THEN Null ELSE holder
    BY <1>0, <1>10, HubAssumption DEF DetachInput, DaemonTypes, Works, Leaving, Ids
  <2>2. slot[c] = Null /\ Owns(c, arg[c])
    BY <1>0, <2>1 DEF AttachesOnce, Owns, Works, Leaving
  <2>3. AttachesOnce(c)'
    BY <1>0, <1>1, <2>1 DEF AttachesOnce, Entering, Leaving
  <2>4. \A h \in Ids : Owns(c, h)' => Owns(c, h)
    BY <1>1, <2>1 DEF Owns, Works, Leaving
  <2>5. HolderInv'
    <3>1. \A d \in Conns : d # c => slot'[d] = slot[d] /\ reader'[d] = reader[d] /\ arg'[d] = arg[d]
      BY <1>2 DEF Same
    <3>2. InputHasOwner'
      <4> SUFFICES ASSUME holder' # Null, registered
                   PROVE  \E d \in Conns : reader'[d] # "gone" /\ (slot'[d] = holder' \/ (HoldsFor(d)' /\ arg'[d] = holder'))
        BY <1>1 DEF InputHasOwner
      <4>1. holder' = holder /\ holder # Null /\ holder # arg[c]
        BY <2>1
      <4>2. PICK d \in Conns : reader[d] # "gone" /\ (slot[d] = holder \/ (HoldsFor(d) /\ arg[d] = holder))
        BY <1>0, <4>1 DEF HolderInv, InputHasOwner
      <4>3. d # c
        BY <2>2, <4>1, <4>2
      <4> QED
        BY <3>1, <4>1, <4>2, <4>3 DEF HoldsFor
    <3>3. ASSUME NEW d \in Conns, reader'[d] = "writing"
          PROVE  slot'[d] = holder' /\ holder' # Null
      <4>1. d # c /\ slot'[d] = slot[d] /\ slot[d] = holder /\ holder # Null
        BY <1>0, <2>1, <3>1, <3>3 DEF HolderInv
      <4>2. slot[d] \in Ids /\ Owns(d, slot[d])
        BY <1>0, <4>1 DEF DaemonTypes, Owns
      <4>3. holder # arg[c]
        BY <1>0, <2>1, <2>2, <4>1, <4>2 DEF OwnersInv
      <4> QED
        BY <2>1, <4>1, <4>3
    <3> QED
      BY <1>0, <2>1, <3>2, <3>3 DEF HolderInv, SingleWriter
  <2> QED
    BY <1>1, <1>2, <1>3, <2>3, <2>4, <2>5, OwnerStep
<1>11. CASE WriteCheck(c)
  <2>1. /\ \A i \in 1..Len(toDaemon'[c]) : toDaemon'[c][i].req # "attach"
        /\ reader[c] = "idle"
    BY <1>11, RequestTaken DEF WriteCheck
  <2>2. /\ UNCHANGED <<slot, fresh, holder, typed, toClient>>
        /\ reader'[c] \in {"idle", "writing"}
        /\ reader'[c] = "writing" => slot[c] # Null /\ holder = slot[c]
    BY <1>0, <1>11, <2>1 DEF WriteCheck, sessionVars, DaemonTypes
  <2>3. AttachesOnce(c)'
    BY <1>0, <1>1, <2>1, <2>2 DEF AttachesOnce, Entering, Leaving
  <2>4. HolderInv'
    <3>1. \A d \in Conns : /\ reader'[d] = "gone" => reader[d] = "gone"
                           /\ HoldsFor(d) => HoldsFor(d)' /\ arg'[d] = arg[d]
      BY <1>2, <2>1, <2>2 DEF Same, HoldsFor
    <3>2. \A d \in Conns : reader'[d] = "writing" => slot[d] = holder /\ holder # Null
      BY <1>0, <1>2, <2>2 DEF Same, HolderInv
    <3>3. InputHasOwner'
      BY <1>0, <1>1, <2>2, <3>1 DEF HolderInv, InputHasOwner
    <3> QED
      BY <1>0, <2>2, <3>2, <3>3 DEF HolderInv, SingleWriter
  <2>5. \A h \in Ids : Owns(c, h)' => Owns(c, h)
    BY <1>1, <2>2 DEF Owns, Works, Entering, Leaving
  <2> QED
    BY <1>1, <1>2, <1>3, <2>3, <2>4, <2>5, OwnerStep
<1>12. CASE PtyWrite(c)
  <2>1. /\ UNCHANGED <<slot, fresh, holder, toDaemon, toClient>>
        /\ reader[c] = "writing" /\ reader'[c] = "idle" /\ typed' = [by |-> slot[c], held |-> holder]
    BY <1>0, <1>12 DEF PtyWrite, sessionVars, DaemonTypes
  <2>2. AttachesOnce(c)'
    BY <1>0, <1>1, <2>1 DEF AttachesOnce, Entering, Leaving
  <2>3. HolderInv'
    <3>1. \A d \in Conns : /\ reader'[d] = "gone" => reader[d] = "gone"
                           /\ reader'[d] = "writing" => reader[d] = "writing"
                           /\ HoldsFor(d) => HoldsFor(d)' /\ arg'[d] = arg[d]
      BY <1>2, <2>1 DEF Same, HoldsFor
    <3>2. InputHasOwner'
      BY <1>0, <1>1, <2>1, <3>1 DEF HolderInv, InputHasOwner
    <3>3. SingleWriter'
      BY <1>0, <2>1 DEF HolderInv, SingleWriter
    <3> QED
      BY <1>0, <2>1, <3>1, <3>2, <3>3 DEF HolderInv
  <2>4. \A h \in Ids : Owns(c, h)' => Owns(c, h)
    BY <1>1, <2>1 DEF Owns, Works, Entering, Leaving
  <2> QED
    BY <1>1, <1>2, <1>3, <2>2, <2>3, <2>4, OwnerStep
<1>13. CASE ReaderEof(c)
  <2>1. /\ UNCHANGED <<slot, fresh, holder, typed, toClient>>
        /\ reader[c] = "idle" /\ reader'[c] = "joining" /\ toDaemon'[c] = <<>>
    BY <1>0, <1>13 DEF ReaderEof, sessionVars, DaemonTypes
  <2>2. AttachesOnce(c)'
    BY <1>0, <1>1, <2>1 DEF AttachesOnce, Entering, Leaving
  <2>3. HolderInv'
    BY <1>0, <1>1, <1>2, <2>1, HolderStays DEF Same, HoldsFor
  <2>4. \A h \in Ids : Owns(c, h)' => Owns(c, h)
    BY <1>1, <2>1 DEF Owns, Works, Entering, Leaving
  <2> QED
    BY <1>1, <1>2, <1>3, <2>2, <2>3, <2>4, OwnerStep
<1> QED
  BY <1>4, <1>5, <1>6, <1>7, <1>8, <1>9, <1>10, <1>11, <1>12, <1>13 DEF QuietRequest

\* A new subscription has a number nobody had.
LEMMA SubscribeOwners ==
  ASSUME StreamTypes, OwnerInv, NEW c \in Conns, AttachSubscribe(c)
  PROVE  OwnerInv'
<1>0. /\ DaemonTypes /\ OwnersInv /\ AttachesOnce(c) /\ AttemptsInv /\ HolderInv /\ attempt \in {1, 2}
      /\ reader[c] = "found" /\ Unattached(c)
  BY DEF StreamTypes, OwnerInv, PumpTypes, AttachSubscribe, AttachesOnce, Entering
<1>1. /\ UNCHANGED <<slot, drain, fresh, registered, holder, typed, toDaemon, toClient, link, pump, attempt>>
      /\ reader'[c] = "subscribed" /\ arg'[c] = nextSub /\ nextSub' = nextSub + 1
      /\ nextSub \in Nat
  BY <1>0 DEF AttachSubscribe, Subscribe, sessionVars, taskVars, pumpVars, DaemonTypes
<1>2. \A d \in Conns : d # c => Same(d)
  BY ConnAlone DEF ConnStep
<1>3. AttachesOnce(c)'
  BY <1>0, <1>1 DEF AttachesOnce, Unattached, Entering, Leaving
<1>4. \A d \in Conns : d # c => AttachesOnce(d)'
  BY <1>2 DEF OwnerInv, Same, AttachesOnce, Unattached
<1>5. AttemptsInv'
  BY <1>0, <1>1, <1>2, AttemptsStay DEF Same
<1>6. HolderInv'
  BY <1>0, <1>1, <1>2, HolderStays DEF Same, HoldsFor
<1>7. \A d \in Conns : \A h \in Ids : Owns(d, h)' => Owns(d, h) \/ (d = c /\ h = nextSub)
  BY <1>0, <1>1, <1>2 DEF Owns, Same, Works
<1>8. \A h \in Ids : h \in Nat
  BY HubAssumption DEF Ids
<1>9. OwnersInv'
  <2>1. ASSUME NEW d \in Conns, NEW h \in Ids, Owns(d, h)'
        PROVE  h < nextSub'
    BY <1>0, <1>1, <1>7, <1>8, <2>1 DEF OwnersInv
  <2>2. ASSUME NEW d \in Conns, NEW e \in Conns, NEW h \in Ids, Owns(d, h)', Owns(e, h)'
        PROVE  d = e
    <3>1. \A f \in Conns : Owns(f, h) => h # nextSub
      BY <1>0, <1>1, <1>8 DEF OwnersInv
    <3> QED
      BY <1>0, <1>7, <2>2, <3>1 DEF OwnersInv
  <2> QED
    BY <2>1, <2>2 DEF OwnersInv
<1> QED
  BY <1>3, <1>4, <1>5, <1>6, <1>9 DEF OwnerInv


\* A detach that ends: the attachment goes, and what it held went before.
LEMMA LeaveOwners ==
  ASSUME StreamTypes, OwnerInv, NEW c \in Conns, Leaves(c)
  PROVE  OwnerInv'
<1>0. /\ DaemonTypes /\ OwnersInv /\ AttachesOnce(c) /\ AttemptsInv /\ HolderInv /\ attempt \in {1, 2}
  BY DEF StreamTypes, OwnerInv, PumpTypes
<1>1. /\ UNCHANGED <<registered, holder, drain, typed, toClient, toDaemon, link, pump, attempt, slot>>
      /\ nextSub' = nextSub
  BY DEF Leaves, DetachLookup, DetachPark, Detached, hubVars, pumpVars, sessionVars, taskVars
<1>2. \A d \in Conns : d # c => Same(d)
  BY ConnAlone DEF ConnStep, Leaves
<1>3. /\ reader[c] \in {"detaching", "parking"}
      /\ reader'[c] \in {"releasing", "idle", "gone"}
      /\ reader'[c] = "releasing" => reader[c] = "detaching" /\ UNCHANGED <<arg, fresh>>
      /\ reader'[c] # "releasing" => ~fresh'[c] /\ (registered => reader[c] = "parking")
  BY <1>0 DEF Leaves, DetachLookup, DetachPark, Detached, DaemonTypes
<1>4. AttachesOnce(c)'
  BY <1>0, <1>1, <1>3 DEF AttachesOnce, Entering, Leaving
<1>5. AttemptsInv'
  BY <1>0, <1>1, <1>2, <1>3, AttemptsStay DEF Same
<1>6. \A h \in Ids : Owns(c, h)' => Owns(c, h)
  BY <1>1, <1>3 DEF Owns, Works, Entering, Leaving
<1>7. HolderInv'
  <2>1. \A d \in Conns : d # c => slot'[d] = slot[d] /\ reader'[d] = reader[d] /\ arg'[d] = arg[d]
    BY <1>2 DEF Same
  <2>2. slot[c] = Null
    BY <1>0, <1>3 DEF AttachesOnce, Leaving
  <2>3. InputHasOwner'
    <3> SUFFICES ASSUME holder # Null, registered
                 PROVE  \E d \in Conns : reader'[d] # "gone" /\ (slot'[d] = holder \/ (HoldsFor(d)' /\ arg'[d] = holder))
      BY <1>1 DEF InputHasOwner
    <3>1. PICK d \in Conns : reader[d] # "gone" /\ (slot[d] = holder \/ (HoldsFor(d) /\ arg[d] = holder))
      BY <1>0 DEF HolderInv, InputHasOwner
    <3>2. CASE d = c
      <4>1. reader[c] = "detaching" /\ arg[c] = holder
        BY <1>3, <2>2, <3>1, <3>2 DEF HoldsFor
      <4>2. reader'[c] = "releasing" /\ arg'[c] = holder
        BY <1>3, <4>1
      <4> QED
        BY <4>2 DEF HoldsFor
    <3>3. CASE d # c
      BY <2>1, <3>1, <3>3 DEF HoldsFor
    <3> QED
      BY <3>2, <3>3
  <2> QED
    BY <1>0, <1>1, <1>3, <2>1, <2>3 DEF HolderInv, SingleWriter
<1> QED
  BY <1>1, <1>2, <1>4, <1>5, <1>6, <1>7, OwnerStep

\* The tasks of a connection, and a link that breaks.
LEMMA TaskOwners ==
  ASSUME StreamTypes, OwnerInv, NEW c \in Conns, QuietTask(c) \/ HubTask(c)
  PROVE  OwnerInv'
<1>0. /\ DaemonTypes /\ OwnersInv /\ AttachesOnce(c) /\ AttemptsInv /\ HolderInv /\ attempt \in {1, 2}
  BY DEF StreamTypes, OwnerInv, PumpTypes
<1>1. /\ UNCHANGED <<reader, arg, slot, toDaemon, registered, holder, typed, pump, attempt>>
      /\ nextSub' = nextSub
  BY DEF QuietTask, HubTask, WriterAttach, WriterStop, DrainTake, DrainAck, DrainSend, DrainEnd,
         DrainOver, Break, Take, Ack, End, Drop, hubVars, sessionVars, connVars, attachVars, pumpVars
<1>2. \A d \in Conns : d # c => Same(d)
  BY ConnAlone DEF ConnStep, QuietTask, HubTask
<1>3. HolderInv'
  BY <1>0, <1>1, HolderStays DEF HoldsFor
<1>4. drain'[c] = drain[c] \/ drain'[c] = Null \/ (drain'[c] = slot[c] /\ fresh[c] /\ ~fresh'[c])
  BY <1>0 DEF QuietTask, HubTask, WriterAttach, WriterStop, DrainTake, DrainAck, DrainSend, DrainEnd,
              DrainOver, Break, connVars, attachVars, taskVars, DaemonTypes
<1>5. /\ fresh'[c] => fresh[c] /\ drain'[c] \in {drain[c], Null}
      /\ drain'[c] \in {drain[c], Null} \/ slot[c] # Null
  <2>1. CASE WriterAttach(c)
    BY <1>0, <2>1 DEF WriterAttach, DaemonTypes
  <2>2. CASE ~WriterAttach(c)
    BY <1>0, <2>2 DEF QuietTask, HubTask, WriterStop, DrainTake, DrainAck, DrainSend, DrainEnd,
                      DrainOver, Break, connVars, attachVars, taskVars, DaemonTypes
  <2> QED
    BY <2>1, <2>2
<1>6. Unattached(c) => Unattached(c)'
  <2> SUFFICES ASSUME Unattached(c) PROVE Unattached(c)'
    OBVIOUS
  <2>1. ~DrainSend(c)
    BY DEF DrainSend, Unattached
  <2>2. toClient' = toClient
    BY <2>1 DEF QuietTask, HubTask, WriterAttach, WriterStop, DrainTake, DrainAck, DrainEnd,
                DrainOver, Break, connVars
  <2> QED
    BY <1>1, <1>4, <1>5, <2>2 DEF Unattached
<1>7. AttachesOnce(c)'
  BY <1>0, <1>1, <1>4, <1>5, <1>6 DEF AttachesOnce
<1>8. AttemptsInv'
  <2>1. \A d \in Conns : link[d] = "none" => link'[d] = "none"
    BY <1>0 DEF QuietTask, HubTask, WriterAttach, WriterStop, DrainTake, DrainAck, DrainSend,
                DrainEnd, DrainOver, Break, connVars, DaemonTypes
  <2> QED
    BY <1>0, <1>1, <2>1, AttemptsStay
<1>9. \A h \in Ids : Owns(c, h)' => Owns(c, h)
  BY <1>1, <1>4 DEF Owns, Works
<1> QED
  BY <1>1, <1>2, <1>3, <1>7, <1>8, <1>9, OwnerStep


\* The session and the hub.
LEMMA SessionOwners ==
  ASSUME StreamTypes, OwnerInv, SessionStep
  PROVE  OwnerInv'
<1>0. /\ DaemonTypes /\ OwnersInv /\ AttemptsInv /\ HolderInv
      /\ \A c \in Conns : AttachesOnce(c)
  BY DEF StreamTypes, OwnerInv
<1>1. /\ UNCHANGED <<connVars, holder, typed, pump, attempt>> /\ (registered' => registered)
      /\ nextSub' = nextSub
  <2>1. CASE PtyOutput
    <3>1. PICK len \in Lens : Publish(len, FALSE)
      BY <2>1 DEF PtyOutput
    <3> QED
      BY <2>1, <3>1 DEF PtyOutput, Publish, sessionVars, pumpVars
  <2>2. CASE ChildExit \/ CloseHub
    BY <2>2 DEF ChildExit, CloseHub, Close, hubVars, pumpVars
  <2>3. CASE \E h \in Handles : LatePark(h)
    BY <2>3 DEF LatePark, DropPark, sessionVars, pumpVars
  <2> QED
    BY <2>1, <2>2, <2>3 DEF SessionStep
<1>2. OwnersInv' /\ (\A c \in Conns : AttachesOnce(c)') /\ AttemptsInv'
  <2>1. UNCHANGED <<link, toDaemon, toClient, reader, arg, slot, fresh, drain, hand>>
    BY <1>1 DEF connVars, attachVars, taskVars
  <2>2. \A c \in Conns : Same(c)
    BY <2>1 DEF Same
  <2>3. \A c \in Conns : AttachesOnce(c)'
    BY <1>0, <2>2 DEF Same, AttachesOnce, Unattached
  <2>4. OwnersInv'
    BY <1>0, <1>1, <2>1 DEF OwnersInv, Owns, Works
  <2>5. AttemptsInv'
    BY <1>0, <1>1, <2>1 DEF AttemptsInv
  <2> QED
    BY <2>3, <2>4, <2>5
<1>3. HolderInv'
  BY <1>0, <1>1, HolderStays DEF connVars, attachVars, HoldsFor
<1> QED
  BY <1>2, <1>3 DEF OwnerInv

\* The attach pump.
LEMMA PumpOwners ==
  ASSUME StreamTypes, OwnerInv, PumpStep
  PROVE  OwnerInv'
<1>0. /\ DaemonTypes /\ OwnersInv /\ AttemptsInv /\ HolderInv
      /\ attempt \in {1, 2} /\ attempt \in Conns /\ AttachesOnce(attempt)
  BY AttachAssumption DEF StreamTypes, OwnerInv, PumpTypes
<1>1. /\ UNCHANGED <<registered, holder, typed, arg, slot, fresh, drain>> /\ nextSub' = nextSub
  BY DEF PumpStep, Connect, PumpFails, Retry, AwaitStash, AwaitError, AwaitAck, Show, Keystroke,
         Leave, Failed, hubVars, sessionVars, connVars, attachVars, taskVars
<1>2. \A d \in Conns : d # attempt => Same(d)
  BY PumpAlone
<1>3. PICK c \in Conns : c = attempt
  BY <1>0
<1>4. reader'[c] = reader[c] \/ (Connect /\ reader[c] = "off" /\ reader'[c] = "idle")
  BY <1>0, <1>3 DEF PumpStep, Connect, PumpFails, Retry, AwaitStash, AwaitError, AwaitAck, Show,
       Keystroke, Leave, Failed, connVars, attachVars, DaemonTypes, AttemptsInv
<1>5. HolderInv'
  BY <1>0, <1>1, <1>2, <1>3, <1>4, HolderStays DEF Same, HoldsFor
<1>6. \A h \in Ids : Owns(c, h)' => Owns(c, h)
  BY <1>1, <1>4 DEF Owns, Works, Entering, Leaving
<1>7. toClient[c] = <<>> => toClient'[c] = <<>>
  BY <1>0, <1>3 DEF PumpStep, Connect, PumpFails, Retry, AwaitStash, AwaitError, AwaitAck, Show,
       Keystroke, Leave, Failed, Received, connVars, DaemonTypes
<1>8. Unattached(c) => Unattached(c)'
  BY <1>1, <1>7 DEF Unattached
<1>9. AttachesOnce(c)'
  <2>1. CASE Connect
    <3>1. toDaemon'[c] = <<[req |-> "attach", since |-> lastSeq]>> /\ reader[c] = "off"
          /\ reader'[c] = "idle"
      BY <1>0, <1>3, <2>1 DEF Connect, DaemonTypes, AttemptsInv
    <3>2. \A i \in 1..Len(toDaemon'[c]) : i = 1
      BY <3>1
    <3> QED
      BY <1>0, <1>1, <1>3, <1>8, <3>1, <3>2 DEF AttachesOnce, Entering, Leaving
  <2>2. CASE Keystroke \/ Leave
    <3>1. reader'[c] = reader[c] /\ pump = "live"
      BY <1>0, <1>3, <2>2 DEF Keystroke, Leave, attachVars
    <3>2. \/ toDaemon'[c] = toDaemon[c]
          \/ \E r \in {"write", "detach"} : toDaemon'[c] = Append(toDaemon[c], [req |-> r])
      BY <1>0, <1>3, <2>2 DEF Keystroke, Leave, DaemonTypes
    <3>3. ASSUME NEW i \in 1..Len(toDaemon'[c]), toDaemon'[c][i].req = "attach"
          PROVE  i \in 1..Len(toDaemon[c]) /\ toDaemon[c][i].req = "attach"
      <4>1. toDaemon[c] \in Seq(Request)
        BY <1>0 DEF DaemonTypes
      <4>2. ASSUME NEW r \in {"write", "detach"}, toDaemon'[c] = Append(toDaemon[c], [req |-> r])
            PROVE  i \in 1..Len(toDaemon[c]) /\ toDaemon[c][i].req = "attach"
        <5>1. [req |-> r] \in Request
          BY DEF Request
        <5>2. Len(toDaemon'[c]) = Len(toDaemon[c]) + 1 /\ i \in 1..(Len(toDaemon[c]) + 1)
          BY <4>1, <4>2, <5>1
        <5>3. i # Len(toDaemon[c]) + 1
          BY <3>3, <4>1, <4>2, <5>1, AppendAt
        <5>4. i \in 1..Len(toDaemon[c])
          BY <4>1, <5>2, <5>3
        <5> QED
          BY <3>3, <4>1, <4>2, <5>1, <5>4, AppendAt
      <4> QED
        BY <3>2, <3>3, <4>2
    <3>4. reader[c] # "off"
      BY <1>0, <1>3, <3>1 DEF AttemptsInv
    <3> QED
      BY <1>0, <1>1, <1>3, <1>8, <3>1, <3>3, <3>4 DEF AttachesOnce
  <2>3. CASE ~Connect /\ ~Keystroke /\ ~Leave
    <3>1. toDaemon' = toDaemon /\ reader' = reader
      BY <2>3 DEF PumpStep, PumpFails, Retry, AwaitStash, AwaitError, AwaitAck, Show, Failed,
                  connVars, attachVars
    <3> QED
      BY <1>0, <1>1, <1>3, <1>8, <3>1 DEF AttachesOnce
  <2> QED
    BY <2>1, <2>2, <2>3
<1>10. AttemptsInv'
  <2>1. CASE Connect
    <3>1. pump' = "await" /\ attempt' = attempt /\ reader'[attempt] = "idle"
      BY <1>0, <2>1 DEF Connect, DaemonTypes
    <3>2. attempt = 1 => reader'[2] = reader[2] /\ link'[2] = link[2]
      BY <1>2, AttachAssumption DEF Same
    <3> QED
      BY <1>0, <3>1, <3>2 DEF AttemptsInv
  <2>2. CASE Retry
    <3>1. /\ attempt = 1 /\ attempt' = 2 /\ pump' = "connect" /\ reader' = reader /\ link' = link
      BY <1>0, <2>2 DEF Retry, AttemptsInv, connVars, attachVars
    <3> QED
      BY <1>0, <3>1 DEF AttemptsInv
  <2>3. CASE PumpFails \/ AwaitError
    BY <1>0, <1>2, <2>3, AttachAssumption
       DEF PumpFails, AwaitError, Failed, Closed, AttemptsInv, Same, attachVars
  <2>4. CASE AwaitStash \/ AwaitAck \/ Show \/ Keystroke \/ Leave
    BY <1>0, <1>2, <2>4, AttachAssumption
       DEF AwaitStash, AwaitAck, Show, Keystroke, Leave, Closed, AttemptsInv, Same, attachVars
  <2> QED
    BY <2>1, <2>2, <2>3, <2>4 DEF PumpStep
<1> QED
  BY <1>1, <1>2, <1>3, <1>5, <1>6, <1>9, <1>10, OwnerStep

\* Every step keeps the owners.
LEMMA OwnersKept == ASSUME StreamTypes, OwnerInv, StreamNext PROVE OwnerInv'
<1>1. ASSUME NEW c \in Conns, ConnStep(c)
      PROVE  OwnerInv'
  BY <1>1, ConnCases, RequestOwners, SubscribeOwners, LeaveOwners, TaskOwners
<1> QED
  BY <1>1, SessionOwners, PumpOwners DEF StreamNext

\* The first state has no owners.
LEMMA OwnersStart == StreamInit => OwnerInv
<1> SUFFICES ASSUME StreamInit PROVE OwnerInv
  OBVIOUS
<1>1. \A c \in Conns : \A h \in Ids : ~Owns(c, h)
  BY DEF StreamInit, Owns, Works, Entering, Leaving
<1>2. \A c \in Conns : AttachesOnce(c)
  BY DEF StreamInit, AttachesOnce, Unattached, Entering, Leaving
<1>3. AttemptsInv
  BY AttachAssumption DEF StreamInit, AttemptsInv
<1>4. HolderInv
  BY DEF StreamInit, HolderInv, InputHasOwner, SingleWriter
<1> QED
  BY <1>1, <1>2, <1>3, <1>4 DEF OwnerInv, OwnersInv

\* Nothing happens.
LEMMA StreamStutter ==
  ASSUME StreamTypes, OwnerInv, UNCHANGED streamVars
  PROVE  StreamTypes' /\ OwnerInv'
<1>1. UNCHANGED <<hubVars, sessionVars, connVars, pumpVars, typed>>
  BY DEF streamVars
<1>2. HubInv' /\ HubPast' /\ Past' = Past /\ Request' = Request /\ Message' = Message
  BY <1>1, HubStays
<1>3. UNCHANGED <<link, toDaemon, toClient, reader, arg, snap, slot, fresh, drain, hand, permit,
                  writer, woken, registered, holder, typed, nextSub, owner, pump, attempt, lastSeq,
                  asked, stash, shown>>
  BY <1>1 DEF connVars, attachVars, taskVars, sessionVars, pumpVars, hubVars
<1>4. DaemonTypes' /\ PumpTypes'
  BY <1>2, <1>3 DEF StreamTypes, DaemonTypes, Works, PumpTypes
<1>5. OwnersInv'
  BY <1>3 DEF OwnerInv, OwnersInv, Owns, Works
<1>6. \A c \in Conns : AttachesOnce(c)'
  BY <1>3 DEF OwnerInv, AttachesOnce, Unattached
<1>7. AttemptsInv' /\ HolderInv'
  BY <1>3 DEF OwnerInv, AttemptsInv, HolderInv, InputHasOwner, HoldsFor, SingleWriter
<1> QED
  BY <1>2, <1>4, <1>5, <1>6, <1>7 DEF StreamTypes, OwnerInv

\* The input of a session belongs to one attachment at a time, of a connection the daemon
\* still serves or has yet to release, with the steps of an attach and of a detach apart and
\* the connection the pump has given up still being served: la-daemon/dispatcher.rs,
\* la-core/manager.rs.
THEOREM InputIsOwned == StreamSpec => []InputHasOneOwner
<1>1. StreamTypes /\ OwnerInv /\ [StreamNext]_streamVars => StreamTypes' /\ OwnerInv'
  BY TypesStay, OwnersKept, StreamStutter
<1>2. OwnerInv => InputHasOneOwner
  BY DEF OwnerInv, HolderInv, InputHasOneOwner
<1> QED
  BY TypesStart, OwnersStart, <1>1, <1>2, PTL DEF StreamSpec
-----------------------------------------------------------------------------
(* Chunks on their way *)

\* The chunk m comes after those of s.
After(m, s) == m.msg = "out" => \A i \in Outs(s) : s[i].seq < m.seq

\* A message at the end.
LEMMA OutsAppend ==
  ASSUME NEW S, NEW q \in Seq(S), NEW m \in S
  PROVE  /\ \A i \in Outs(Append(q, m)) :
              \/ i \in Outs(q) /\ Append(q, m)[i] = q[i] /\ i < Len(q) + 1
              \/ i = Len(q) + 1 /\ m.msg = "out" /\ Append(q, m)[i] = m
         /\ Rising(q) /\ After(m, q) => Rising(Append(q, m))
         /\ \A s : Before(s, q) /\ After(m, s) => Before(s, Append(q, m))
         /\ \A n : UpTo(q, n) /\ (m.msg = "out" => m.seq <= n) => UpTo(Append(q, m), n)
<1>1. \A i \in Outs(Append(q, m)) :
        \/ i \in Outs(q) /\ Append(q, m)[i] = q[i] /\ i < Len(q) + 1
        \/ i = Len(q) + 1 /\ m.msg = "out" /\ Append(q, m)[i] = m
  BY AppendAt DEF Outs
<1>2. ASSUME Rising(q), After(m, q)
      PROVE  Rising(Append(q, m))
  <2> SUFFICES ASSUME NEW i \in Outs(Append(q, m)), NEW j \in Outs(Append(q, m)), i < j
               PROVE  Append(q, m)[i].seq < Append(q, m)[j].seq
    BY DEF Rising
  <2>1. i \in Nat /\ j \in Nat /\ Len(q) \in Nat
    BY <1>1 DEF Outs
  <2>2. i # Len(q) + 1
    BY <1>1, <2>1
  <2> QED
    BY <1>1, <1>2, <2>1, <2>2 DEF Rising, After
<1>3. \A s : Before(s, q) /\ After(m, s) => Before(s, Append(q, m))
  BY <1>1 DEF Before, After
<1>4. \A n : UpTo(q, n) /\ (m.msg = "out" => m.seq <= n) => UpTo(Append(q, m), n)
  BY <1>1 DEF UpTo
<1> QED
  BY <1>1, <1>2, <1>3, <1>4

\* A message at the end of what comes first.
LEMMA OutsAppendFirst ==
  ASSUME NEW S, NEW q \in Seq(S), NEW m \in S, NEW t, Before(q, t),
         m.msg = "out" => \A j \in Outs(t) : m.seq < t[j].seq
  PROVE  Before(Append(q, m), t)
<1>1. \A i \in Outs(Append(q, m)) : \/ i \in Outs(q) /\ Append(q, m)[i] = q[i]
                                    \/ m.msg = "out" /\ Append(q, m)[i] = m
  BY AppendAt DEF Outs
<1> QED
  BY <1>1 DEF Before

\* The first message is taken.
LEMMA OutsTail ==
  ASSUME NEW S, NEW q \in Seq(S), q # <<>>
  PROVE  /\ Rising(q) => Rising(Tail(q)) /\ (q[1].msg = "out" =>
                                               \A j \in Outs(Tail(q)) : q[1].seq < Tail(q)[j].seq)
         /\ \A s : Before(s, q) => Before(s, Tail(q)) /\ After(q[1], s)
         /\ \A n : UpTo(q, n) => UpTo(Tail(q), n) /\ (q[1].msg = "out" => q[1].seq <= n)
<1>1. \A i \in Outs(Tail(q)) : i \in Nat /\ i + 1 \in Outs(q) /\ Tail(q)[i] = q[i + 1] /\ 1 < i + 1
  <2>1. \A i \in 1..Len(Tail(q)) : i + 1 \in 1..Len(q) /\ Tail(q)[i] = q[i + 1] /\ 1 < i + 1
    BY TailAt
  <2> QED
    BY <2>1 DEF Outs
<1>2. q[1].msg = "out" => 1 \in Outs(q)
  BY DEF Outs
<1>3. Rising(q) => Rising(Tail(q)) /\ (q[1].msg = "out" =>
                                         \A j \in Outs(Tail(q)) : q[1].seq < Tail(q)[j].seq)
  <2>1. \A i, j \in Outs(Tail(q)) : i < j => i + 1 < j + 1
    BY <1>1
  <2>2. Rising(q) => Rising(Tail(q))
    BY <1>1, <2>1 DEF Rising
  <2> QED
    BY <1>1, <1>2, <2>2 DEF Rising
<1>4. \A s : Before(s, q) => Before(s, Tail(q)) /\ After(q[1], s)
  BY <1>1, <1>2 DEF Before, After
<1>5. \A n : UpTo(q, n) => UpTo(Tail(q), n) /\ (q[1].msg = "out" => q[1].seq <= n)
  BY <1>1, <1>2 DEF UpTo
<1> QED
  BY <1>3, <1>4, <1>5

\* Two sequences, one behind the other.
LEMMA OutsConcat ==
  ASSUME NEW S, NEW q \in Seq(S), NEW r \in Seq(S)
  PROVE  /\ Rising(q) /\ Rising(r) /\ Before(q, r) => Rising(q \o r)
         /\ \A t : Before(q, t) /\ Before(r, t) => Before(q \o r, t)
         /\ \A n : UpTo(q, n) /\ UpTo(r, n) => UpTo(q \o r, n)
<1>1. \A i \in Outs(q \o r) :
        /\ i <= Len(q) => i \in Outs(q) /\ (q \o r)[i] = q[i]
        /\ ~(i <= Len(q)) => i - Len(q) \in Outs(r) /\ (q \o r)[i] = r[i - Len(q)]
  <2> TAKE i \in Outs(q \o r)
  <2>0. i \in 1..(Len(q) + Len(r)) /\ Len(q) \in Nat /\ Len(r) \in Nat /\ (q \o r)[i].msg = "out"
    BY DEF Outs
  <2>1. CASE i <= Len(q)
    <3>1. (q \o r)[i] = q[i] /\ i \in 1..Len(q)
      BY <2>0, <2>1
    <3> QED
      BY <2>0, <2>1, <3>1 DEF Outs
  <2>2. CASE ~(i <= Len(q))
    <3>1. (q \o r)[i] = r[i - Len(q)] /\ i - Len(q) \in 1..Len(r)
      BY <2>0, <2>2
    <3> QED
      BY <2>0, <2>2, <3>1 DEF Outs
  <2> QED
    BY <2>0, <2>1, <2>2
<1>2. ASSUME Rising(q), Rising(r), Before(q, r)
      PROVE  Rising(q \o r)
  <2> SUFFICES ASSUME NEW i \in Outs(q \o r), NEW j \in Outs(q \o r), i < j
               PROVE  (q \o r)[i].seq < (q \o r)[j].seq
    BY DEF Rising
  <2>0. i \in Nat /\ j \in Nat /\ Len(q) \in Nat
    BY DEF Outs
  <2>1. CASE i <= Len(q) /\ j <= Len(q)
    BY <1>1, <1>2, <2>1 DEF Rising
  <2>2. CASE i <= Len(q) /\ ~(j <= Len(q))
    BY <1>1, <1>2, <2>2 DEF Before
  <2>3. CASE ~(i <= Len(q))
    <3>1. /\ i - Len(q) \in Outs(r) /\ (q \o r)[i] = r[i - Len(q)]
          /\ j - Len(q) \in Outs(r) /\ (q \o r)[j] = r[j - Len(q)]
          /\ i - Len(q) < j - Len(q)
      <4>1. ~(j <= Len(q)) /\ i - Len(q) < j - Len(q)
        BY <2>0, <2>3
      <4> QED
        BY <1>1, <2>3, <4>1
    <3> QED
      BY <1>2, <3>1 DEF Rising
  <2> QED
    BY <2>0, <2>1, <2>2, <2>3
<1>3. \A t : Before(q, t) /\ Before(r, t) => Before(q \o r, t)
  BY <1>1 DEF Before
<1>4. \A n : UpTo(q, n) /\ UpTo(r, n) => UpTo(q \o r, n)
  BY <1>1 DEF UpTo
<1> QED
  BY <1>2, <1>3, <1>4

\* The cursor is at the last chunk, if there is one.
LEMMA CursorIsLast ==
  ASSUME NEW s \in Seq(Message), Rising(s), NEW cursor \in Nat, nextSeq \in Nat
  PROVE  /\ Outs(s) = {} => CursorAfter(cursor, s) = cursor
         /\ Outs(s) # {} => /\ UpTo(s, CursorAfter(cursor, s))
                            /\ \E i \in Outs(s) : CursorAfter(cursor, s) = s[i].seq
<1> DEFINE last == CHOOSE i \in Outs(s) : \A j \in Outs(s) : j <= i
<1>1. Outs(s) \in SUBSET (1..Len(s)) /\ Len(s) \in Nat
  BY DEF Outs
<1>2. CursorAfter(cursor, s) = IF Outs(s) = {} THEN cursor ELSE s[last].seq
  BY DEF CursorAfter, Outs
<1>3. ASSUME Outs(s) # {}
      PROVE  /\ UpTo(s, s[last].seq) /\ last \in Outs(s)
  <2>1. last \in Outs(s) /\ \A j \in Outs(s) : j <= last
    BY <1>1, <1>3, LastOfNumbers
  <2>2. \A j \in Outs(s) : j \in Nat /\ s[j].seq \in Nat
    BY <1>1 DEF Outs, Message, Past
  <2>3. last \in Nat
    BY <2>1, <2>2
  <2> HIDE DEF last
  <2>4. \A j \in Outs(s) : j = last \/ j < last
    BY <2>1, <2>2, <2>3
  <2> QED
    BY <2>1, <2>2, <2>4 DEF Rising, UpTo
<1> HIDE DEF last
<1> QED
  BY <1>2, <1>3

OrderInv == ShownInv /\ OriginInv

HandsInv == \A c \in Conns : HandInv(c)

\* s and t have the same chunks at the same places.
SameOuts(s, t) == Outs(s) = Outs(t) /\ \A i \in Outs(s) : s[i] = t[i]

\* What is no chunk changes none.
LEMMA SameOutsSend ==
  ASSUME NEW S, NEW q \in Seq(S), NEW m \in S, m.msg # "out"
  PROVE  SameOuts(q, q) /\ SameOuts(q, Append(q, m))
<1>1. Outs(Append(q, m)) = Outs(q)
  <2>1. \A i \in Outs(q) : i \in Outs(Append(q, m))
    BY AppendAt DEF Outs
  <2>2. \A i \in Outs(Append(q, m)) : i \in Outs(q)
    BY AppendAt DEF Outs
  <2> QED
    BY <2>1, <2>2
<1>2. \A i \in Outs(q) : Append(q, m)[i] = q[i]
  BY AppendAt DEF Outs
<1> QED
  BY <1>1, <1>2 DEF SameOuts

\* A later number is an upper bound, too.
LEMMA UpToLater ==
  ASSUME NEW q \in Seq(Message), NEW n \in Int, NEW m \in Int, nextSeq \in Nat, n <= m, UpTo(q, n)
  PROVE  UpTo(q, m)
<1>1. \A i \in Outs(q) : q[i].seq \in Nat
  BY DEF Outs, Message, Past
<1> QED
  BY <1>1 DEF UpTo

ToldNumbers == \A c \in Conns, h \in Handles : Told(c, h) \in Int

\* The drain tasks know numbers.
LEMMA ToldIsNumber == StreamTypes => ToldNumbers
  BY DEF StreamTypes, HubInv, HubTypes, Told, ToldNumbers

\* The steps of a connection are none of the pump's.
LEMMA PumpStays ==
  ASSUME NEW c \in Conns, ConnStep(c)
  PROVE  UNCHANGED <<pump, attempt, lastSeq, asked, stash, writes, shown>>
<1>1. CASE QuietRequest(c)
  BY <1>1 DEF QuietRequest, AttachLookup, AttachAcquire, AttachSnapshot, AttachRecord, AttachReply,
              Detach, Release, DetachInput, WriteCheck, PtyWrite, ReaderEof, pumpVars
<1>2. CASE AttachSubscribe(c) \/ Leaves(c)
  BY <1>2 DEF AttachSubscribe, Leaves, DetachLookup, DetachPark, pumpVars
<1>3. CASE QuietTask(c) \/ HubTask(c)
  BY <1>3 DEF QuietTask, WriterAttach, DrainSend, Break, HubTask, WriterStop, DrainTake, DrainAck,
              DrainEnd, DrainOver, pumpVars
<1> QED
  BY <1>1, <1>2, <1>3, ConnCases

\* The steps that leave the hub alone.
LEMMA QuietHub ==
  ASSUME NEW c \in Conns, QuietRequest(c) \/ QuietTask(c)
  PROVE  UNCHANGED <<hubVars, registered, outPump>>
  BY DEF QuietRequest, AttachLookup, AttachAcquire, AttachSnapshot, AttachRecord, AttachReply,
         Detach, Release, DetachInput, WriteCheck, PtyWrite, ReaderEof, QuietTask, WriterAttach,
         DrainSend, Break, sessionVars

\* A step that shows nothing and sends no chunk to the pump.
LEMMA OrderStays ==
  ASSUME StreamTypes, StreamTypes', OrderInv,
         UNCHANGED <<pump, attempt, lastSeq, stash, shown>>,
         SameOuts(toClient[attempt], toClient'[attempt]),
         \A i \in 1..Len(toDaemon'[attempt]) : toDaemon'[attempt][i].req = "attach" =>
           \E j \in 1..Len(toDaemon[attempt]) : toDaemon'[attempt][i] = toDaemon[attempt][j],
         reader'[attempt] = "found" => reader[attempt] = "found" /\ arg'[attempt] = arg[attempt],
         \A h \in Ids : (Owns(attempt, h)' /\ Held(h)') =>
           Owns(attempt, h) /\ Held(h) /\ Told(attempt, h) <= Told(attempt, h)'
  PROVE  OrderInv'
<1>0. /\ nextSeq \in Nat /\ stash \in Seq(Message) /\ shown \in Seq(Message)
      /\ toClient[attempt] \in Seq(Message) /\ attempt \in Conns
  BY AttachAssumption DEF StreamTypes, HubInv, HubTypes, PumpTypes, DaemonTypes
<1>1. ShownInv'
  BY DEF OrderInv, ShownInv, Attached, SameOuts, Rising, Before
<1>2. ASSUME NEW h \in Ids, Attached, Owns(attempt, h)', Held(h)'
      PROVE  /\ UpTo(shown, Told(attempt, h)') /\ UpTo(stash, Told(attempt, h)')
             /\ UpTo(toClient'[attempt], Told(attempt, h)')
  <2>1. Told(attempt, h) \in Int /\ Told(attempt, h)' \in Int
    <3>1. ToldNumbers /\ ToldNumbers'
      BY ToldIsNumber, PTL
    <3> QED
      BY <1>0, <3>1 DEF Ids, ToldNumbers
  <2>2. /\ UpTo(shown, Told(attempt, h)) /\ UpTo(stash, Told(attempt, h))
        /\ UpTo(toClient[attempt], Told(attempt, h))
        /\ Told(attempt, h) <= Told(attempt, h)'
    BY <1>2 DEF OrderInv, OriginInv
  <2>3. UpTo(shown, Told(attempt, h)') /\ UpTo(stash, Told(attempt, h)') /\ UpTo(toClient[attempt], Told(attempt, h)')
    BY <1>0, <2>1, <2>2, UpToLater
  <2> QED
    BY <2>3 DEF UpTo, SameOuts
<1>3. OriginInv'
  <2> SUFFICES ASSUME Attached
               PROVE  /\ \A i \in 1..Len(toDaemon'[attempt]) : toDaemon'[attempt][i].req = "attach" =>
                           toDaemon'[attempt][i].since = lastSeq /\ stash = <<>> /\ pump = "await"
                      /\ reader'[attempt] = "found" =>
                           arg'[attempt] = lastSeq /\ stash = <<>> /\ pump = "await"
                      /\ \A h \in Ids : (Owns(attempt, h)' /\ Held(h)') =>
                           /\ UpTo(shown, Told(attempt, h)') /\ UpTo(stash, Told(attempt, h)')
                           /\ UpTo(toClient'[attempt], Told(attempt, h)')
    BY DEF OriginInv, Attached, Owns
  <2> QED
    BY <1>2 DEF OrderInv, OriginInv
<1> QED
  BY <1>1, <1>3 DEF OrderInv

\* A connection works on its own handles.
LEMMA OthersHandles ==
  ASSUME StreamTypes, OwnerInv, NEW c \in Conns, NEW h \in Ids, h < nextSub, ~Owns(c, h),
         ConnStep(c)
  PROVE  phase'[h] = phase[h] /\ seen'[h] = seen[h] /\ queue'[h] = queue[h]
<1>0. /\ DaemonTypes /\ h \in Handles /\ h # Null /\ h \in Nat /\ nextSub \in Nat
      /\ phase \in [Handles -> Phases] /\ seen \in [Handles -> Nat]
      /\ queue \in [Handles -> Seq(Event)]
  BY HubAssumption DEF StreamTypes, HubInv, HubTypes, Ids, DaemonTypes
<1>1. drain[c] # h /\ (Works(c) => arg[c] # h)
  BY <1>0 DEF Owns
<1>2. CASE QuietRequest(c) \/ QuietTask(c)
  BY <1>2, QuietHub DEF hubVars
<1>3. CASE AttachSubscribe(c)
  <2>1. h # nextSub
    BY <1>0
  <2> QED
    BY <1>0, <1>3, <2>1 DEF AttachSubscribe, Subscribe, OpenHandle
<1>4. CASE Leaves(c)
  <2>1. UNCHANGED hubVars \/ Detached(c)
    BY <1>4 DEF Leaves, DetachLookup, DetachPark
  <2>2. arg[c] # h
    BY <1>1, <1>4 DEF Leaves, DetachLookup, DetachPark, Works, Leaving
  <2> QED
    BY <1>0, <2>1, <2>2 DEF hubVars, Detached
<1>5. CASE HubTask(c)
  <2>1. \/ UNCHANGED hubVars
        \/ Drop(drain[c]) \/ Take(drain[c]) \/ Ack(drain[c]) \/ End(drain[c])
    BY <1>5 DEF HubTask, WriterStop, DrainTake, DrainAck, DrainEnd, DrainOver
  <2> QED
    BY <1>0, <1>1, <2>1 DEF hubVars, Drop, Take, Ack, End
<1> QED
  BY <1>2, <1>3, <1>4, <1>5, ConnCases

\* What the drain task of a connection has in hand, when the connection moves.
LEMMA OwnHand ==
  ASSUME StreamTypes, OwnerInv, NEW c \in Conns, HandInv(c), ConnStep(c)
  PROVE  HandInv(c)'
<1>0. /\ DaemonTypes /\ AttachesOnce(c)
      /\ phase \in [Handles -> Phases] /\ seen \in [Handles -> Nat]
      /\ queue \in [Handles -> Seq(Event)]
  BY DEF StreamTypes, HubInv, HubTypes, OwnerInv
<1>1. CASE QuietRequest(c) \/ Break(c)
  <2>1. UNCHANGED <<hubVars, drain, hand>>
    BY <1>1 DEF QuietRequest, AttachLookup, AttachAcquire, AttachSnapshot, AttachRecord, AttachReply,
                Detach, Release, DetachInput, WriteCheck, PtyWrite, ReaderEof, Break, taskVars
  <2> QED
    BY <2>1 DEF HandInv, Held, hubVars
<1>2. CASE AttachSubscribe(c)
  <2>1. drain[c] = Null /\ hand' = hand
    BY <1>0, <1>2 DEF AttachSubscribe, AttachesOnce, Unattached, taskVars
  <2> QED
    BY <2>1 DEF HandInv
<1>3. CASE Leaves(c)
  <2>1. UNCHANGED <<drain, hand>>
    BY <1>3 DEF Leaves, DetachLookup, DetachPark, taskVars
  <2>2. fresh[c] => drain[c] = Null
    BY <1>0 DEF AttachesOnce
  <2>3. ~fresh[c] => UNCHANGED <<phase, seen>>
    BY <1>3 DEF Leaves, DetachLookup, DetachPark, Detached, hubVars
  <2> QED
    BY <2>1, <2>2, <2>3 DEF HandInv, Held
<1>4. CASE WriterAttach(c)
  <2>1. UNCHANGED <<hubVars, hand>> /\ (drain[c] # Null => drain' = drain)
    BY <1>4 DEF WriterAttach
  <2> QED
    BY <2>1 DEF HandInv, Held, hubVars
<1>5. CASE DrainSend(c) \/ WriterStop(c) \/ DrainOver(c)
  <2>1. hand'[c] = <<>>
    BY <1>0, <1>5 DEF DrainSend, WriterStop, DrainOver, DaemonTypes
  <2> QED
    BY <2>1 DEF HandInv
<1>6. CASE DrainTake(c)
  <2>1. PICK k \in Handles : k = drain[c] /\ k # Null
    BY <1>0, <1>6, HubAssumption DEF DrainTake, DaemonTypes, Ids
  <2>2. /\ Take(k) /\ drain' = drain /\ phase[k] = "idle"
        /\ hand'[c] = <<[msg |-> IF queue[k][1].gap THEN "gap" ELSE "out", seq |-> queue[k][1].seq]>>
    BY <1>0, <1>6, <2>1 DEF DrainTake, Take, DaemonTypes
  <2>3. seen'[k] = queue[k][1].seq /\ phase'[k] \in {"idle", "acking"}
    BY <1>0, <2>1, <2>2 DEF Take
  <2> QED
    BY <2>1, <2>2, <2>3 DEF HandInv, Held
<1>7. CASE DrainAck(c) \/ DrainEnd(c)
  <2>1. UNCHANGED <<drain, hand, seen>>
    BY <1>7 DEF DrainAck, DrainEnd, Ack, End, connVars, taskVars
  <2>2. \A h \in Handles : Held(h) => Held(h)'
    BY <1>0, <1>7 DEF DrainAck, DrainEnd, Ack, End, Held
  <2> QED
    BY <1>0, <2>1, <2>2 DEF HandInv, DaemonTypes, Ids
<1> QED
  BY <1>1, <1>2, <1>3, <1>4, <1>5, <1>6, <1>7, ConnCases DEF QuietTask, HubTask

\* What the drain tasks have in hand.
LEMMA HandsKept == ASSUME StreamTypes, OwnerInv, HandsInv, StreamNext PROVE HandsInv'
<1>0. DaemonTypes /\ phase \in [Handles -> Phases]
  BY DEF StreamTypes, HubInv, HubTypes
<1>1. ASSUME NEW c \in Conns, ConnStep(c), NEW d \in Conns
      PROVE  HandInv(d)'
  <2>1. CASE d = c
    BY <1>1, <2>1, OwnHand DEF HandsInv
  <2>2. CASE d # c
    <3>1. Same(d)
      BY <1>1, <2>2, ConnAlone
    <3>2. CASE hand[d] = <<>>
      BY <3>1, <3>2 DEF HandInv, Same
    <3>3. CASE hand[d] # <<>>
      <4>1. drain[d] \in Ids /\ Owns(d, drain[d]) /\ HandInv(d)
        BY <1>0, <3>3 DEF HandsInv, HandInv, DaemonTypes, Owns
      <4>2. drain[d] < nextSub /\ ~Owns(c, drain[d])
        BY <2>2, <4>1 DEF OwnerInv, OwnersInv
      <4>3. phase'[drain[d]] = phase[drain[d]] /\ seen'[drain[d]] = seen[drain[d]]
        BY <1>1, <4>1, <4>2, OthersHandles
      <4> QED
        BY <3>1, <4>1, <4>3 DEF HandInv, Same, Held
    <3> QED
      BY <3>2, <3>3
  <2> QED
    BY <2>1, <2>2
<1>2. CASE SessionStep
  <2>1. UNCHANGED <<drain, hand, seen>> /\ \A h \in Handles : Held(h) => Held(h)'
    <3>1. CASE PtyOutput
      <4>1. PICK len \in Lens : Publish(len, FALSE)
        BY <3>1 DEF PtyOutput
      <4> QED
        BY <3>1, <4>1 DEF PtyOutput, Publish, Held, connVars, taskVars
    <3>2. CASE ChildExit \/ CloseHub
      BY <3>2 DEF ChildExit, CloseHub, Close, Held, hubVars, connVars, taskVars
    <3>3. CASE \E h \in Handles : LatePark(h)
      BY <1>0, <3>3 DEF LatePark, DropPark, Held, connVars, taskVars
    <3> QED
      BY <1>2, <3>1, <3>2, <3>3 DEF SessionStep
  <2> QED
    BY <1>0, <2>1 DEF HandsInv, HandInv, DaemonTypes, Ids
<1>3. CASE PumpStep
  <2>1. UNCHANGED <<hubVars, drain, hand>>
    BY <1>3 DEF PumpStep, Connect, PumpFails, Retry, AwaitStash, AwaitError, AwaitAck, Show,
                Keystroke, Leave, Failed, connVars, taskVars
  <2> QED
    BY <2>1 DEF HandsInv, HandInv, Held, hubVars
<1> QED
  BY <1>1, <1>2, <1>3 DEF StreamNext, HandsInv

\* A connection the pump has given up, or not made yet.
LEMMA OthersOrder ==
  ASSUME StreamTypes, StreamTypes', OwnerInv, OrderInv, NEW c \in Conns, c # attempt, ConnStep(c)
  PROVE  OrderInv'
<1>0. /\ attempt \in Conns /\ UNCHANGED <<pump, attempt, lastSeq, stash, shown>> /\ ToldNumbers
  BY AttachAssumption, ToldIsNumber, PumpStays DEF StreamTypes, PumpTypes
<1>1. Same(attempt)
  BY <1>0, ConnAlone
<1>2. SameOuts(toClient[attempt], toClient'[attempt])
  BY <1>0, <1>1 DEF Same, SameOuts
<1>3. ASSUME NEW h \in Ids, Owns(attempt, h)', Held(h)'
      PROVE  Owns(attempt, h) /\ Held(h) /\ Told(attempt, h) <= Told(attempt, h)'
  <2>1. Owns(attempt, h)
    BY <1>0, <1>1, <1>3 DEF Owns, Works, Same
  <2>2. h < nextSub /\ ~Owns(c, h)
    BY <1>0, <2>1 DEF OwnerInv, OwnersInv
  <2>3. phase'[h] = phase[h] /\ seen'[h] = seen[h]
    BY <2>2, OthersHandles
  <2>4. Told(attempt, h)' = Told(attempt, h) /\ Told(attempt, h) \in Int
    BY <1>0, <1>1, <2>3 DEF Told, Same, ToldNumbers, Ids
  <2> QED
    BY <1>3, <2>1, <2>3, <2>4 DEF Held
<1> QED
  BY <1>0, <1>1, <1>2, <1>3, OrderStays DEF Same

\* Only a new subscription makes an owner.
LEMMA OwnsShrinks ==
  ASSUME StreamTypes, OwnerInv, NEW c \in Conns, NEW h \in Ids, Owns(c, h)',
         ConnStep(c), ~AttachSubscribe(c)
  PROVE  Owns(c, h)
<1>0. DaemonTypes /\ AttachesOnce(c) /\ h # Null
  BY HubAssumption DEF StreamTypes, OwnerInv, Ids
<1>1. CASE AttachAcquire(c) \/ AttachSnapshot(c) \/ AttachRecord(c) \/ DetachInput(c)
  BY <1>0, <1>1 DEF AttachAcquire, AttachSnapshot, AttachRecord, DetachInput, taskVars, DaemonTypes,
                    Owns, Works, Entering, Leaving
<1>2. CASE Detach(c) \/ Release(c) \/ Leaves(c)
  BY <1>0, <1>2 DEF Detach, Release, RemoveSlot, Leaves, DetachLookup, DetachPark, Detached, taskVars,
                    DaemonTypes, Owns, Works, Entering, Leaving
<1>3. CASE AttachLookup(c) \/ AttachReply(c) \/ WriteCheck(c) \/ PtyWrite(c) \/ ReaderEof(c)
  <2>1. UNCHANGED <<slot, drain>> /\ (Works(c)' => Works(c) /\ arg' = arg)
    BY <1>0, <1>3 DEF AttachLookup, AttachReply, WriteCheck, PtyWrite, ReaderEof, taskVars, DaemonTypes,
                      Works, Entering, Leaving
  <2> QED
    BY <2>1 DEF Owns
<1>4. CASE WriterAttach(c) \/ WriterStop(c)
  BY <1>0, <1>4 DEF WriterAttach, WriterStop, attachVars, DaemonTypes, Owns, Works
<1>5. CASE DrainTake(c) \/ DrainAck(c) \/ DrainSend(c) \/ DrainEnd(c) \/ DrainOver(c) \/ Break(c)
  BY <1>5 DEF DrainTake, DrainAck, DrainSend, DrainEnd, DrainOver, Break, connVars, attachVars,
              taskVars, Owns, Works
<1> QED
  BY <1>1, <1>2, <1>3, <1>4, <1>5 DEF ConnStep, Leaves

\* What the pump's connection has sent on, when it sends no chunk and subscribes not.
LEMMA OwnTold ==
  ASSUME StreamTypes, OwnerInv, HandsInv, NEW c \in Conns, ConnStep(c),
         ~AttachSubscribe(c), ~DrainSend(c), NEW h \in Ids, Held(h)'
  PROVE  Held(h) /\ Told(c, h)' = Told(c, h)
<1>0. /\ ToldNumbers /\ DaemonTypes /\ h \in Handles /\ AttachesOnce(c) /\ HandInv(c)
      /\ phase \in [Handles -> Phases] /\ seen \in [Handles -> Nat]
      /\ queue \in [Handles -> Seq(Event)]
  BY ToldIsNumber DEF StreamTypes, HubInv, HubTypes, Ids, OwnerInv, HandsInv
<1>1. CASE QuietRequest(c) \/ Break(c)
  <2>1. UNCHANGED <<hubVars, drain, hand>>
    BY <1>1 DEF QuietRequest, AttachLookup, AttachAcquire, AttachSnapshot, AttachRecord, AttachReply,
                Detach, Release, DetachInput, WriteCheck, PtyWrite, ReaderEof, Break, taskVars
  <2> QED
    BY <2>1 DEF hubVars, Held, Told
<1>2. CASE Leaves(c)
  <2>1. UNCHANGED <<drain, hand>> /\ (UNCHANGED hubVars \/ (Detached(c) /\ subs' \in {subs, Parked(arg[c])}))
        /\ arg[c] \in Ids
    BY <1>0, <1>2 DEF Leaves, DetachLookup, DetachPark, taskVars, DaemonTypes, Works, Leaving
  <2>2. Held(h) /\ seen'[h] = seen[h]
    <3>1. CASE UNCHANGED hubVars
      BY <3>1 DEF hubVars, Held
    <3>2. CASE Detached(c) /\ subs' \in {subs, Parked(arg[c])}
      BY <1>0, <2>1, <3>2, DetachedHub
    <3> QED
      BY <2>1, <3>1, <3>2
  <2> QED
    BY <2>1, <2>2 DEF Told
<1>3. CASE WriterAttach(c)
  <2>1. UNCHANGED <<hubVars, hand>> /\ (drain[c] # Null => drain' = drain)
    BY <1>3 DEF WriterAttach
  <2>2. hand[c] = <<>> \/ drain' = drain
    BY <1>0, <2>1 DEF HandInv
  <2> QED
    BY <2>1, <2>2 DEF hubVars, Held, Told
<1>4. CASE WriterStop(c) \/ DrainOver(c)
  <2>1. hand'[c] = <<>> /\ drain[c] \in Ids \cup {Null}
    BY <1>0, <1>4 DEF WriterStop, DrainOver, DaemonTypes
  <2>2. Held(h) /\ seen'[h] = seen[h] /\ h # drain[c]
    <3>1. \/ UNCHANGED hubVars /\ (drain[c] = Null \/ ~Held(drain[c]))
          \/ drain[c] # Null /\ Drop(drain[c])
      BY <1>4 DEF WriterStop, DrainOver
    <3>2. h # Null
      BY HubAssumption DEF Ids
    <3> QED
      BY <1>0, <2>1, <3>1, <3>2 DEF hubVars, Drop, Held, Ids
  <2> QED
    BY <2>1, <2>2 DEF Told
<1>5. CASE DrainTake(c)
  <2>1. PICK k \in Handles : k = drain[c] /\ k # Null
    BY <1>0, <1>5, HubAssumption DEF DrainTake, DaemonTypes, Ids
  <2>2. /\ Take(k) /\ drain' = drain /\ phase[k] = "idle" /\ queue[k] # <<>>
        /\ hand[c] = <<>> /\ hand'[c] # <<>>
    BY <1>0, <1>5, <2>1 DEF DrainTake, Take, DaemonTypes
  <2>3. queue[k][1].seq = seen[k] + 1
    BY <1>0, <2>1, <2>2, HeadIsNext DEF StreamTypes, Held
  <2>4. Held(h) /\ seen'[h] = IF h = k THEN seen[h] + 1 ELSE seen[h]
    BY <1>0, <2>1, <2>2, <2>3 DEF Take, Held
  <2> QED
    BY <1>0, <2>1, <2>2, <2>4 DEF Told
<1>6. CASE DrainAck(c) \/ DrainEnd(c)
  <2>1. UNCHANGED <<drain, hand, seen>>
    BY <1>6 DEF DrainAck, DrainEnd, Ack, End, connVars, taskVars
  <2>2. Held(h)
    BY <1>0, <1>6 DEF DrainAck, DrainEnd, Ack, End, Held
  <2> QED
    BY <2>1, <2>2 DEF Told
<1> QED
  BY <1>1, <1>2, <1>3, <1>4, <1>5, <1>6, ConnCases DEF QuietTask, HubTask

\* The steps of the pump's own connection that send no chunk and start no subscription.
LEMMA OwnOrder ==
  ASSUME StreamTypes, StreamTypes', OwnerInv, HandsInv, OrderInv, NEW c \in Conns, c = attempt,
         ConnStep(c), ~AttachLookup(c), ~AttachSubscribe(c), ~DrainSend(c)
  PROVE  OrderInv'
<1>0. /\ UNCHANGED <<pump, attempt, lastSeq, stash, shown>> /\ ToldNumbers /\ DaemonTypes
  BY ToldIsNumber, PumpStays DEF StreamTypes
<1>1. SameOuts(toClient[c], toClient'[c])
  <2>1. CASE AttachReply(c)
    <3>1. [msg |-> "ack", seq |-> snap[c]] \in Message
      BY <1>0 DEF DaemonTypes, Message
    <3>2. toClient'[c] \in {toClient[c], Append(toClient[c], [msg |-> "ack", seq |-> snap[c]])}
      BY <1>0, <2>1, <3>1, SendAt DEF AttachReply
    <3>3. toClient[c] \in Seq(Message)
      BY <1>0 DEF DaemonTypes
    <3> QED
      BY <3>1, <3>2, <3>3, SameOutsSend
  <2>2. CASE ~AttachReply(c)
    <3>1. toClient' = toClient
      BY <2>2 DEF ConnStep, AttachAcquire, AttachSnapshot, AttachRecord, Detach, Release, DetachLookup,
                  DetachInput, DetachPark, WriteCheck, PtyWrite, ReaderEof, WriterAttach, WriterStop,
                  DrainTake, DrainAck, DrainEnd, DrainOver, Break, connVars
    <3> QED
      BY <3>1 DEF SameOuts
  <2> QED
    BY <2>1, <2>2
<1>2. \A i \in 1..Len(toDaemon'[c]) : toDaemon'[c][i].req = "attach" =>
        \E j \in 1..Len(toDaemon[c]) : toDaemon'[c][i] = toDaemon[c][j]
  <2>1. CASE Detach(c) \/ WriteCheck(c)
    BY <2>1, RequestTaken DEF Detach, WriteCheck
  <2>2. CASE ReaderEof(c)
    <3>1. toDaemon'[c] = <<>>
      BY <1>0, <2>2 DEF ReaderEof, DaemonTypes
    <3> QED
      BY <3>1
  <2>3. CASE ~Detach(c) /\ ~WriteCheck(c) /\ ~ReaderEof(c)
    <3>1. toDaemon' = toDaemon
      BY <2>3 DEF ConnStep, AttachAcquire, AttachSnapshot, AttachRecord, AttachReply, Release,
                  DetachLookup, DetachInput, DetachPark, PtyWrite, WriterAttach, WriterStop,
                  DrainTake, DrainAck, DrainEnd, DrainOver, Break, connVars
    <3> QED
      BY <3>1
  <2> QED
    BY <2>1, <2>2, <2>3
<1>3. reader'[c] = "found" => reader[c] = "found" /\ arg'[c] = arg[c]
  <2>1. CASE QuietRequest(c) \/ Leaves(c)
    BY <1>0, <2>1 DEF QuietRequest, Leaves, AttachAcquire, AttachSnapshot, AttachRecord, AttachReply,
                Detach, Release, RemoveSlot, DetachLookup, DetachInput, DetachPark, Detached,
                WriteCheck, PtyWrite, ReaderEof, DaemonTypes
  <2>2. CASE QuietTask(c) \/ HubTask(c)
    BY <2>2 DEF QuietTask, HubTask, WriterAttach, WriterStop, DrainTake, DrainAck, DrainSend,
                DrainEnd, DrainOver, Break, connVars, attachVars
  <2> QED
    BY <2>1, <2>2, ConnCases
<1>4. ASSUME NEW h \in Ids, Owns(c, h)', Held(h)'
      PROVE  Owns(c, h) /\ Held(h) /\ Told(c, h) <= Told(c, h)'
  <2>1. Told(c, h) \in Int
    BY <1>0 DEF Ids, ToldNumbers
  <2>2. Held(h) /\ Told(c, h)' = Told(c, h)
    BY <1>4, OwnTold
  <2> QED
    BY <1>4, <2>1, <2>2, OwnsShrinks
<1>5. \A h \in Ids : (Owns(attempt, h)' /\ Held(h)') =>
        Owns(attempt, h) /\ Held(h) /\ Told(attempt, h) <= Told(attempt, h)'
  BY <1>0, <1>4 DEF Owns, Works, Told
<1> QED
  BY <1>0, <1>1, <1>2, <1>3, <1>5, OrderStays

\* The connection finds the session, or answers that it is gone.
LEMMA LookupOrder ==
  ASSUME StreamTypes, StreamTypes', OwnerInv, HandsInv, OrderInv, NEW c \in Conns, c = attempt,
         AttachLookup(c)
  PROVE  OrderInv'
<1>0. /\ UNCHANGED <<pump, attempt, lastSeq, stash, shown>> /\ DaemonTypes /\ ToldNumbers
      /\ toClient[c] \in Seq(Message) /\ ConnStep(c) /\ ~AttachSubscribe(c) /\ ~DrainSend(c)
  <2>1. ConnStep(c)
    BY DEF ConnStep
  <2>2. toDaemon[c] # <<>> /\ toDaemon'[c] # toDaemon[c]
    <3>1. toDaemon[c] \in Seq(Request) /\ toDaemon[c] # <<>> /\ toDaemon'[c] = Tail(toDaemon[c])
      BY DEF AttachLookup, IsRequest, StreamTypes, DaemonTypes
    <3>2. Len(Tail(toDaemon[c])) # Len(toDaemon[c])
      BY <3>1
    <3> QED
      BY <3>1, <3>2
  <2>3. ~AttachSubscribe(c) /\ ~DrainSend(c)
    BY <2>2 DEF AttachSubscribe, DrainSend
  <2> QED
    BY <2>1, <2>3, ToldIsNumber, PumpStays DEF StreamTypes, DaemonTypes
<1>1. /\ \A i \in 1..Len(toDaemon'[c]) : toDaemon'[c][i].req # "attach"
      /\ reader[c] = "idle" /\ 1 \in 1..Len(toDaemon[c]) /\ toDaemon[c][1].req = "attach"
  BY RequestTaken DEF AttachLookup, IsRequest
<1>2. \A h \in Ids : Owns(attempt, h)' /\ Held(h)' =>
        Owns(attempt, h) /\ Held(h) /\ Told(attempt, h)' = Told(attempt, h)
  <2> SUFFICES ASSUME NEW h \in Ids, Owns(attempt, h)', Held(h)'
               PROVE  Owns(attempt, h) /\ Held(h) /\ Told(attempt, h)' = Told(attempt, h)
    OBVIOUS
  <2>1. Owns(c, h)' /\ (Told(c, h)' = Told(c, h) => Told(attempt, h)' = Told(attempt, h))
    BY <1>0 DEF Owns, Works, Told
  <2> QED
    BY <1>0, <2>1, OwnsShrinks, OwnTold
<1>3. \A h \in Ids : Told(attempt, h) <= Told(attempt, h)
  BY <1>0 DEF ToldNumbers, Ids
<1>4. CASE ~registered
  <2>1. toClient'[c] \in {toClient[c], Append(toClient[c], [msg |-> "error"])}
        /\ UNCHANGED <<reader, arg>> /\ [msg |-> "error"] \in Message
    BY <1>0, <1>4, SendAt DEF AttachLookup, Message
  <2>2. SameOuts(toClient[c], toClient'[c])
    BY <1>0, <2>1, SameOutsSend
  <2> QED
    BY <1>0, <1>1, <1>2, <1>3, <2>1, <2>2, OrderStays
<1>5. CASE registered
  <2>1. toClient' = toClient /\ arg'[c] = toDaemon[c][1].since
    BY <1>0, <1>5 DEF AttachLookup, DaemonTypes
  <2>2. ShownInv'
    BY <1>0, <2>1 DEF OrderInv, ShownInv, Attached
  <2>3. OriginInv'
    <3> SUFFICES ASSUME Attached
                 PROVE  /\ reader'[c] = "found" => arg'[c] = lastSeq /\ stash = <<>> /\ pump = "await"
                        /\ \A h \in Ids : (Owns(attempt, h)' /\ Held(h)') =>
                             /\ UpTo(shown, Told(attempt, h)') /\ UpTo(stash, Told(attempt, h)')
                             /\ UpTo(toClient'[c], Told(attempt, h)')
      BY <1>0, <1>1 DEF OriginInv, Attached
    <3> QED
      BY <1>1, <1>2, <2>1 DEF OrderInv, OriginInv
  <2> QED
    BY <2>2, <2>3 DEF OrderInv
<1> QED
  BY <1>4, <1>5

\* A reader starts at its cursor or behind it, and at a chunk the ring still holds.
LEMMA StartIsBehind ==
  ASSUME HubInv, NEW since \in Past
  PROVE  /\ since <= StartOf(Newer(since))
         /\ \A i \in 1..Len(ring) : since < ring[i].seq => StartOf(Newer(since)) < ring[i].seq
<1>0. /\ nextSeq \in Nat /\ nextSeq # 0 /\ ring \in Seq(Chunk) /\ Len(ring) \in Nat
      /\ since \in Nat /\ since <= nextSeq - 1 /\ since \in Cursors /\ since # Null
  BY HubAssumption DEF HubInv, HubTypes, Past, Cursors
<1>1. CASE ring = <<>>
  BY <1>0, <1>1 DEF Newer, StartOf
<1>2. CASE ring # <<>>
  <2>1. /\ Len(ring) >= 1 /\ ring[1].seq = nextSeq - Len(ring)
        /\ \A i \in 1..Len(ring) : ring[i].seq = nextSeq - 1 - Len(ring) + i
    BY <1>0, <1>2 DEF HubInv, RingInv, InOrder
  <2>2. PICK start \in Int : start = IF since < ring[1].seq THEN 1 ELSE since - ring[1].seq + 2
    <3>1. ring[1].seq \in Int /\ since \in Int
      BY <1>0, <2>1
    <3>2. (IF since < ring[1].seq THEN 1 ELSE since - ring[1].seq + 2) \in Int
      BY <3>1
    <3> QED
      BY <3>2
  <2>3. Newer(since) = SubSeq(ring, start, Len(ring)) /\ start \in 1..(Len(ring) + 1)
    <3>1. Newer(since) = SubSeq(ring, start, Len(ring))
      BY <1>0, <1>2, <2>2 DEF Newer
    <3>2. start \in 1..(Len(ring) + 1)
      BY <1>0, <2>1, <2>2
    <3> QED
      BY <3>1, <3>2
  <2>4. CASE start = Len(ring) + 1
    <3>1. Newer(since) = <<>>
      BY <1>0, <2>3, <2>4
    <3>2. StartOf(Newer(since)) = nextSeq - 1
      BY <3>1 DEF StartOf
    <3>3. since = nextSeq - 1
      BY <1>0, <2>1, <2>2, <2>4
    <3>4. \A i \in 1..Len(ring) : ~(since < ring[i].seq)
      BY <1>0, <2>1, <3>3
    <3> QED
      BY <1>0, <3>2, <3>3, <3>4
  <2>5. CASE start # Len(ring) + 1
    <3>1. /\ Newer(since) # <<>> /\ Newer(since)[1] = ring[start] /\ start \in 1..Len(ring)
      <4>1. start \in 1..Len(ring)
        BY <1>0, <2>3, <2>5
      <4>2. Len(SubSeq(ring, start, Len(ring))) = Len(ring) - start + 1
        BY <1>0, <4>1
      <4>3. 1 \in 1..Len(SubSeq(ring, start, Len(ring)))
        BY <1>0, <4>1, <4>2
      <4>4. SubSeq(ring, start, Len(ring))[1] = ring[start]
        BY <1>0, <4>1, <4>3
      <4>5. ASSUME SubSeq(ring, start, Len(ring)) = <<>> PROVE FALSE
        BY <4>3, <4>5
      <4> QED
        BY <2>3, <4>1, <4>4, <4>5
    <3>2. ring[start].seq = nextSeq - 1 - Len(ring) + start
      BY <2>1, <3>1
    <3>3. StartOf(Newer(since)) = nextSeq - 2 - Len(ring) + start
      BY <1>0, <3>1, <3>2 DEF StartOf
    <3>4. since <= nextSeq - 2 - Len(ring) + start
      BY <1>0, <2>1, <2>2, <3>1
    <3>5. ASSUME NEW i \in 1..Len(ring), since < ring[i].seq
          PROVE  nextSeq - 2 - Len(ring) + start < ring[i].seq
      BY <1>0, <2>1, <2>2, <3>1, <3>5
    <3> QED
      BY <3>3, <3>4, <3>5
  <2> QED
    BY <2>4, <2>5
<1> QED
  BY <1>1, <1>2

\* A subscription that starts behind the cursor.
LEMMA SubscribeOrder ==
  ASSUME StreamTypes, StreamTypes', OwnerInv, OrderInv, NEW c \in Conns, c = attempt,
         AttachSubscribe(c)
  PROVE  OrderInv'
<1>0. /\ UNCHANGED <<pump, attempt, lastSeq, stash, shown, toClient, toDaemon, slot, drain, hand>>
      /\ DaemonTypes /\ PumpTypes /\ HubInv
      /\ phase \in [Handles -> Phases] /\ seen \in [Handles -> Nat] /\ nextSeq \in Nat
  BY DEF StreamTypes, AttachSubscribe, taskVars, pumpVars, HubInv, HubTypes
<1>1. /\ reader[c] = "found" /\ reader'[c] = "subscribed" /\ arg'[c] = nextSub /\ Unattached(c)
      /\ AttachesOnce(c)
  BY <1>0 DEF AttachSubscribe, OwnerInv, AttachesOnce, DaemonTypes
<1>2. PICK k \in Ids : k = nextSub
  BY DEF AttachSubscribe, Subscribe, Ids
<1>3. /\ k \in Handles /\ k # Null /\ arg[c] \in Past /\ arg[c] \in Cursors
      /\ UNCHANGED <<nextSeq, ring>> /\ OpenHandle(k, k, arg[c])
  BY <1>0, <1>1, <1>2, HubAssumption DEF Ids, AttachSubscribe, Subscribe, DaemonTypes, Past, Cursors
<1>4. seen'[k] = StartOf(Newer(arg[c])) /\ phase'[k] = "idle"
  BY <1>0, <1>3 DEF OpenHandle
<1>5. arg[c] <= seen'[k]
  BY <1>0, <1>3, <1>4, StartIsBehind
<1>6. Told(attempt, k)' = seen'[k]
  BY <1>0, <1>1, <1>3 DEF Told, Unattached
<1>7. ShownInv'
  BY <1>0 DEF OrderInv, ShownInv, Attached
<1>8. \A h \in Ids : Owns(c, h)' => h = k
  BY <1>0, <1>1, <1>2 DEF Unattached, Owns, Works
<1>9. OriginInv'
  <2> SUFFICES ASSUME Attached
               PROVE  /\ \A i \in 1..Len(toDaemon[c]) : toDaemon[c][i].req # "attach"
                      /\ UpTo(shown, seen'[k]) /\ UpTo(stash, seen'[k]) /\ UpTo(toClient[c], seen'[k])
    BY <1>0, <1>1, <1>6, <1>8 DEF OriginInv, Attached, Owns, Works
  <2>1. \A i \in 1..Len(toDaemon[c]) : toDaemon[c][i].req # "attach"
    BY <1>1 DEF AttachesOnce
  <2>2. stash = <<>> /\ toClient[c] = <<>> /\ arg[c] = lastSeq
    BY <1>1 DEF OrderInv, OriginInv, Unattached
  <2>3. seen'[k] \in Int /\ lastSeq \in Int /\ lastSeq <= seen'[k]
    BY <1>0, <1>3, <1>4, <1>5, <2>2 DEF PumpTypes, Past, StreamTypes, HubInv, HubTypes
  <2>4. UpTo(shown, seen'[k])
    BY <1>0, <2>3, UpToLater DEF OrderInv, ShownInv, PumpTypes
  <2>5. UpTo(stash, seen'[k]) /\ UpTo(toClient[c], seen'[k])
    BY <2>2 DEF UpTo, Outs
  <2> QED
    BY <2>1, <2>4, <2>5
<1> QED
  BY <1>7, <1>9 DEF OrderInv

\* A chunk or gap of the pump's subscription is sent: it is behind all that was sent before.
LEMMA SendOrder ==
  ASSUME StreamTypes, StreamTypes', OwnerInv, HandsInv, OrderInv, NEW c \in Conns, c = attempt,
         DrainSend(c)
  PROVE  OrderInv'
<1>0. /\ UNCHANGED <<hubVars, pump, attempt, lastSeq, stash, shown, toDaemon, reader, arg, slot, drain>>
      /\ DaemonTypes /\ HubInv /\ HubPast /\ PumpTypes
      /\ phase \in [Handles -> Phases] /\ seen \in [Handles -> Nat] /\ nextSeq \in Nat
      /\ toClient[c] \in Seq(Message) /\ hand[c] # <<>> /\ hand[c] \in Seq(Message)
  BY DEF StreamTypes, DrainSend, attachVars, pumpVars, HubInv, HubTypes, DaemonTypes
<1>1. PICK k \in Ids : k = drain[c]
  BY <1>0 DEF DaemonTypes, DrainSend
<1>2. /\ k \in Handles /\ Held(k) /\ k # Null /\ Owns(c, k)
      /\ Len(hand[c]) = 1 /\ hand[c][1].msg \in {"out", "gap"} /\ hand[c][1].seq = seen[k]
  BY <1>0, <1>1, HubAssumption DEF HandsInv, HandInv, Ids, Owns
<1>3. Told(attempt, k) = seen[k] - 1 /\ Told(attempt, k)' = seen[k]
  <2>1. hand'[c] = <<>>
    BY <1>0 DEF DrainSend, DaemonTypes
  <2> QED
    BY <1>0, <1>1, <2>1 DEF Told, hubVars
<1>4. PICK m \in Message : m = hand[c][1]
  <2>1. hand[c][1] \in Message
    BY <1>0, <1>2
  <2> QED
    BY <2>1
<1>5. toClient'[c] \in {toClient[c], Append(toClient[c], m)}
  BY <1>0, <1>4, SendAt DEF DrainSend
<1>6. ASSUME Attached, NEW q \in Seq(Message), UpTo(q, Told(attempt, k))
      PROVE  After(m, q)
  <2>1. \A i \in Outs(q) : q[i].seq \in Nat /\ q[i].seq <= seen[k] - 1
    BY <1>0, <1>3, <1>6 DEF Outs, Message, Past, UpTo
  <2> QED
    BY <1>0, <1>2, <1>4, <2>1 DEF After
<1>7. Attached => /\ UpTo(shown, Told(attempt, k)) /\ UpTo(stash, Told(attempt, k))
                  /\ UpTo(toClient[c], Told(attempt, k))
  BY <1>2 DEF OrderInv, OriginInv
<1>8. Attached => After(m, shown) /\ After(m, stash) /\ After(m, toClient[c])
  BY <1>0, <1>6, <1>7 DEF PumpTypes
<1>9. Attached => Rising(toClient'[c]) /\ Before(shown, toClient'[c]) /\ Before(stash, toClient'[c])
  <2> SUFFICES ASSUME Attached
               PROVE  Rising(toClient'[c]) /\ Before(shown, toClient'[c]) /\ Before(stash, toClient'[c])
    OBVIOUS
  <2>1. Rising(toClient[c]) /\ Before(shown, toClient[c]) /\ Before(stash, toClient[c])
    BY DEF OrderInv, ShownInv
  <2>2. /\ Rising(Append(toClient[c], m)) /\ Before(shown, Append(toClient[c], m))
        /\ Before(stash, Append(toClient[c], m))
    BY <1>0, <1>8, <2>1, OutsAppend
  <2> QED
    BY <1>5, <2>1, <2>2
<1>10. ShownInv'
  BY <1>0, <1>9 DEF OrderInv, ShownInv, Attached
<1>11. OriginInv'
  <2>1. \A h \in Ids : Owns(attempt, h)' => Owns(c, h)
    BY <1>0 DEF Owns, Works
  <2> SUFFICES ASSUME Attached, NEW h \in Ids, Owns(c, h), Held(h)'
               PROVE  /\ UpTo(shown, Told(attempt, h)') /\ UpTo(stash, Told(attempt, h)')
                      /\ UpTo(toClient'[c], Told(attempt, h)')
    <3>1. Attached => /\ \A i \in 1..Len(toDaemon[c]) : toDaemon[c][i].req = "attach" =>
                           toDaemon[c][i].since = lastSeq /\ stash = <<>> /\ pump = "await"
                      /\ reader[c] = "found" => arg[c] = lastSeq /\ stash = <<>> /\ pump = "await"
      BY DEF OrderInv, OriginInv
    <3> QED
      BY <1>0, <2>1, <3>1 DEF OriginInv, Attached
  <2>2. h = k
    <3>1. AttachesOnce(c)
      BY DEF OwnerInv
    <3>2. slot[c] \in {k, Null} /\ reader[c] \notin Entering /\ (reader[c] \in Leaving => arg[c] = k)
      BY <1>1, <1>2, <3>1 DEF AttachesOnce, Unattached
    <3> QED
      BY <1>1, <3>2, HubAssumption DEF Owns, Works, Ids
  <2>3. UpTo(shown, seen[k]) /\ UpTo(stash, seen[k]) /\ UpTo(toClient[c], seen[k])
    <3>1. seen[k] \in Int /\ seen[k] - 1 \in Int /\ seen[k] - 1 <= seen[k]
      BY <1>0, <1>2
    <3>2. UpTo(shown, seen[k] - 1) /\ UpTo(stash, seen[k] - 1) /\ UpTo(toClient[c], seen[k] - 1)
      BY <1>3, <1>7
    <3> QED
      BY <1>0, <3>1, <3>2, UpToLater DEF PumpTypes
  <2>4. seen[k] <= seen[k]
    BY <1>0, <1>2
  <2>5. UpTo(Append(toClient[c], m), seen[k])
    BY <1>0, <1>2, <1>4, <2>3, <2>4, OutsAppend
  <2> QED
    BY <1>3, <1>5, <2>2, <2>3, <2>5
<1> QED
  BY <1>10, <1>11 DEF OrderInv

\* The session and the hub show nothing.
LEMMA SessionOrder ==
  ASSUME StreamTypes, StreamTypes', OrderInv,
         SessionStep
  PROVE  OrderInv'
<1>0. /\ UNCHANGED <<connVars, pumpVars>> /\ ToldNumbers /\ phase \in [Handles -> Phases]
      /\ attempt \in Conns
  BY ToldIsNumber, AttachAssumption
     DEF SessionStep, PumpTypes, PtyOutput, ChildExit, CloseHub, LatePark, StreamTypes, HubInv,
         HubTypes
<1>1. UNCHANGED <<link, toDaemon, toClient, reader, arg, slot, drain, hand>>
      /\ UNCHANGED <<pump, attempt, lastSeq, stash, shown>>
  BY <1>0 DEF connVars, attachVars, taskVars, pumpVars
<1>2. seen' = seen /\ \A h \in Handles : Held(h)' => phase'[h] = phase[h]
  <2>1. CASE PtyOutput
    <3>1. PICK len \in Lens : Publish(len, FALSE)
      BY <2>1 DEF PtyOutput
    <3> QED
      BY <3>1 DEF Publish
  <2>2. CASE ChildExit \/ CloseHub
    BY <2>2 DEF ChildExit, CloseHub, Close, hubVars
  <2>3. CASE \E h \in Handles : LatePark(h)
    BY <1>0, <2>3 DEF LatePark, DropPark, Held
  <2> QED
    BY <2>1, <2>2, <2>3 DEF SessionStep
<1>3. SameOuts(toClient[attempt], toClient'[attempt])
  BY <1>1 DEF SameOuts
<1>4. ASSUME NEW h \in Ids, Owns(attempt, h)', Held(h)'
      PROVE  Owns(attempt, h) /\ Held(h) /\ Told(attempt, h) <= Told(attempt, h)'
  <2>1. Owns(attempt, h) /\ h \in Handles /\ Told(attempt, h) \in Int
    BY <1>0, <1>1, <1>4 DEF Owns, Works, Ids, ToldNumbers
  <2> QED
    BY <1>1, <1>2, <1>4, <2>1 DEF Held, Told
<1> QED
  BY <1>1, <1>3, <1>4, OrderStays

\* Without a connection there is only what was shown.
LEMMA LeftOrder ==
  ASSUME OrderInv, ~Attached', stash' = <<>>,
         shown' = <<>> \/ (shown' = shown /\ lastSeq' = lastSeq)
  PROVE  OrderInv'
<1>1. Outs(<<>>) = {}
  BY DEF Outs
<1> QED
  BY <1>1 DEF OrderInv, ShownInv, OriginInv, Rising, UpTo, Before

\* The steps of the pump that show nothing.
LEMMA PumpQuietOrder ==
  ASSUME StreamTypes, StreamTypes', OwnerInv, OrderInv,
         Connect \/ PumpFails \/ Retry \/ AwaitError \/ Keystroke \/ Leave
  PROVE  OrderInv'
<1>0. /\ DaemonTypes /\ PumpTypes /\ attempt \in Conns /\ ToldNumbers
      /\ AttachesOnce(attempt) /\ AttemptsInv
  BY AttachAssumption, ToldIsNumber DEF StreamTypes, PumpTypes, OwnerInv
<1>1. CASE PumpFails \/ AwaitError
  BY <1>0, <1>1, LeftOrder DEF PumpFails, AwaitError, Failed, Closed, Attached
<1>2. CASE Leave
  <2>1. stash = <<>>
    BY <1>2 DEF Leave, OrderInv, ShownInv
  <2> QED
    BY <1>2, <2>1, LeftOrder DEF Leave, Closed, Attached
<1>3. CASE Retry
  <2>1. stash = <<>>
    BY <1>3 DEF Retry, OrderInv, ShownInv
  <2> QED
    BY <1>3, <2>1, LeftOrder DEF Retry, Attached
<1>4. CASE Keystroke
  <2>1. /\ UNCHANGED <<pump, attempt, lastSeq, stash, shown, toClient, reader, arg, slot, drain, hand>>
        /\ UNCHANGED hubVars /\ toDaemon'[attempt] = Append(toDaemon[attempt], [req |-> "write"])
    BY <1>0, <1>4 DEF Keystroke, attachVars, taskVars, DaemonTypes
  <2>2. \A i \in 1..Len(toDaemon'[attempt]) : toDaemon'[attempt][i].req = "attach" =>
          \E j \in 1..Len(toDaemon[attempt]) : toDaemon'[attempt][i] = toDaemon[attempt][j]
    <3>1. toDaemon[attempt] \in Seq(Request) /\ [req |-> "write"] \in Request
      BY <1>0 DEF DaemonTypes, Request
    <3>2. \A i \in 1..Len(toDaemon'[attempt]) :
            \/ i \in 1..Len(toDaemon[attempt]) /\ toDaemon'[attempt][i] = toDaemon[attempt][i]
            \/ toDaemon'[attempt][i] = [req |-> "write"]
      BY <2>1, <3>1, AppendAt
    <3> QED
      BY <3>2
  <2>3. SameOuts(toClient[attempt], toClient'[attempt])
    BY <2>1 DEF SameOuts
  <2>4. \A h \in Ids : (Owns(attempt, h)' /\ Held(h)') =>
          Owns(attempt, h) /\ Held(h) /\ Told(attempt, h) <= Told(attempt, h)'
    BY <1>0, <2>1 DEF hubVars, Owns, Works, Held, Told, ToldNumbers, Ids
  <2> QED
    BY <2>1, <2>2, <2>3, <2>4, OrderStays
<1>5. CASE Connect
  <2>1. /\ pump = "connect" /\ pump' = "await"
        /\ UNCHANGED <<attempt, lastSeq, stash, shown, toClient, slot, drain>>
        /\ toDaemon'[attempt] = <<[req |-> "attach", since |-> lastSeq]>> /\ reader'[attempt] = "idle"
    BY <1>0, <1>5 DEF Connect, DaemonTypes
  <2>2. stash = <<>> /\ Unattached(attempt) /\ toClient[attempt] = <<>>
    BY <1>0, <2>1 DEF OrderInv, ShownInv, AttemptsInv, AttachesOnce, Unattached
  <2>3. Outs(<<>>) = {}
    BY DEF Outs
  <2>4. ShownInv'
    BY <2>1, <2>2, <2>3 DEF OrderInv, ShownInv, Rising, Before
  <2>5. \A h \in Ids : ~Owns(attempt, h)'
    BY <2>1, <2>2 DEF Owns, Works, Entering, Leaving, Unattached
  <2>6. \A i \in 1..Len(toDaemon'[attempt]) : toDaemon'[attempt][i].since = lastSeq
    BY <2>1
  <2> QED
    BY <2>1, <2>2, <2>4, <2>5, <2>6 DEF OrderInv, OriginInv
<1> QED
  BY <1>1, <1>2, <1>3, <1>4, <1>5

\* What a message that arrives says about the connection.
LEMMA ArrivalFacts ==
  ASSUME StreamTypes, OwnerInv, OrderInv, Attached, Received, attempt' = attempt,
         UNCHANGED <<hubVars, toDaemon, reader, arg, slot, drain, hand, hand>>
  PROVE  /\ Arrived \in Message /\ toClient[attempt] \in Seq(Message) /\ toClient[attempt] # <<>>
         /\ toClient'[attempt] = Tail(toClient[attempt]) /\ Arrived = toClient[attempt][1]
         /\ Tail(toClient[attempt]) \in Seq(Message)
         /\ \A i \in 1..Len(toDaemon'[attempt]) : toDaemon'[attempt][i].req # "attach"
         /\ reader'[attempt] # "found"
         /\ \A h \in Ids : (Owns(attempt, h)' /\ Held(h)') =>
              /\ UpTo(shown, Told(attempt, h)') /\ UpTo(stash, Told(attempt, h)')
              /\ UpTo(Tail(toClient[attempt]), Told(attempt, h)')
              /\ Arrived.msg = "out" => Arrived.seq <= Told(attempt, h)'
<1>0. /\ toClient \in [Conns -> Seq(Message)] /\ attempt \in Conns /\ AttachesOnce(attempt)
  BY AttachAssumption DEF StreamTypes, DaemonTypes, PumpTypes, OwnerInv
<1>1. /\ toClient[attempt] # <<>> /\ toClient'[attempt] = Tail(toClient[attempt])
      /\ toClient[attempt] \in Seq(Message) /\ Arrived = toClient[attempt][1]
  BY <1>0 DEF Received, Arrived
<1>2. Arrived \in Message /\ Tail(toClient[attempt]) \in Seq(Message)
  BY <1>1
<1>3. ~Unattached(attempt)
  BY <1>1 DEF Unattached
<1>4. /\ \A i \in 1..Len(toDaemon'[attempt]) : toDaemon'[attempt][i].req # "attach"
      /\ reader'[attempt] # "found"
  BY <1>0, <1>3 DEF AttachesOnce
<1>5. ASSUME NEW h \in Ids, Owns(attempt, h)', Held(h)'
      PROVE  /\ UpTo(shown, Told(attempt, h)') /\ UpTo(stash, Told(attempt, h)')
             /\ UpTo(Tail(toClient[attempt]), Told(attempt, h)')
             /\ Arrived.msg = "out" => Arrived.seq <= Told(attempt, h)'
  <2>1. Owns(attempt, h) /\ Held(h) /\ Told(attempt, h)' = Told(attempt, h)
    BY <1>5 DEF hubVars, Owns, Works, Held, Told
  <2>2. /\ UpTo(shown, Told(attempt, h)) /\ UpTo(stash, Told(attempt, h))
        /\ UpTo(toClient[attempt], Told(attempt, h))
    BY <2>1 DEF OrderInv, OriginInv
  <2> QED
    BY <1>1, <2>1, <2>2, OutsTail
<1> QED
  BY <1>1, <1>2, <1>4, <1>5

\* A notification that comes before the response is kept.
LEMMA StashOrder ==
  ASSUME StreamTypes, StreamTypes', OwnerInv, OrderInv, AwaitStash
  PROVE  OrderInv'
<1>0. /\ UNCHANGED <<hubVars, toDaemon, reader, arg, slot, drain, hand, pump, attempt, lastSeq, shown>>
      /\ Attached /\ Received /\ pump = "await" /\ stash' = Append(stash, Arrived)
      /\ stash \in Seq(Message)
  BY DEF AwaitStash, attachVars, taskVars, Attached, StreamTypes, PumpTypes
<1> DEFINE t == toClient[attempt]
<1>1. /\ Arrived \in Message /\ t \in Seq(Message) /\ t # <<>>
      /\ toClient'[attempt] = Tail(t) /\ Arrived = t[1]
      /\ \A i \in 1..Len(toDaemon'[attempt]) : toDaemon'[attempt][i].req # "attach"
      /\ reader'[attempt] # "found"
      /\ \A h \in Ids : (Owns(attempt, h)' /\ Held(h)') =>
           /\ UpTo(shown, Told(attempt, h)') /\ UpTo(stash, Told(attempt, h)')
           /\ UpTo(Tail(t), Told(attempt, h)')
           /\ Arrived.msg = "out" => Arrived.seq <= Told(attempt, h)'
  BY <1>0, ArrivalFacts
<1>2. /\ Rising(stash) /\ Before(shown, stash) /\ Rising(t) /\ Before(shown, t) /\ Before(stash, t)
  BY <1>0 DEF OrderInv, ShownInv
<1> HIDE DEF t
<1>3. /\ Rising(Tail(t)) /\ Before(shown, Tail(t)) /\ Before(stash, Tail(t))
      /\ After(Arrived, shown) /\ After(Arrived, stash)
      /\ Arrived.msg = "out" => \A j \in Outs(Tail(t)) : Arrived.seq < Tail(t)[j].seq
  BY <1>1, <1>2, OutsTail
<1>4. /\ Rising(stash') /\ Before(shown, stash')
  BY <1>0, <1>1, <1>2, <1>3, OutsAppend
<1>5. Before(stash', Tail(t))
  BY <1>0, <1>1, <1>3, OutsAppendFirst
<1>6. ShownInv'
  BY <1>0, <1>1, <1>3, <1>4, <1>5 DEF OrderInv, ShownInv, Attached
<1>7. \A h \in Ids : (Owns(attempt, h)' /\ Held(h)') => UpTo(stash', Told(attempt, h)')
  BY <1>0, <1>1, OutsAppend
<1>8. OriginInv'
  BY <1>0, <1>1, <1>7 DEF OriginInv
<1> QED
  BY <1>6, <1>8 DEF OrderInv

\* The response: what was kept is shown.
LEMMA AckOrder ==
  ASSUME StreamTypes, StreamTypes', OwnerInv, OrderInv, AwaitAck
  PROVE  OrderInv'
<1>0. /\ UNCHANGED <<hubVars, toDaemon, reader, arg, slot, drain, hand, attempt>>
      /\ Attached /\ Received /\ pump' = "live" /\ stash' = <<>> /\ shown' = shown \o stash
      /\ stash \in Seq(Message) /\ shown \in Seq(Message) /\ lastSeq \in Nat /\ nextSeq \in Nat
      /\ Arrived.msg = "ack"
      /\ lastSeq' = CursorAfter(IF lastSeq < Arrived.seq THEN Arrived.seq ELSE lastSeq, stash)
  BY DEF AwaitAck, attachVars, taskVars, Attached, StreamTypes, PumpTypes, Past, HubInv, HubTypes
<1> DEFINE t == toClient[attempt]
<1>1. /\ Arrived \in Message /\ t \in Seq(Message) /\ t # <<>>
      /\ toClient'[attempt] = Tail(t) /\ Arrived = t[1]
      /\ \A i \in 1..Len(toDaemon'[attempt]) : toDaemon'[attempt][i].req # "attach"
      /\ reader'[attempt] # "found"
      /\ \A h \in Ids : (Owns(attempt, h)' /\ Held(h)') =>
           /\ UpTo(shown, Told(attempt, h)') /\ UpTo(stash, Told(attempt, h)')
           /\ UpTo(Tail(t), Told(attempt, h)')
  BY <1>0, ArrivalFacts
<1>2. /\ Rising(shown) /\ UpTo(shown, lastSeq)
      /\ Rising(stash) /\ Before(shown, stash) /\ Rising(t) /\ Before(shown, t) /\ Before(stash, t)
  BY <1>0 DEF OrderInv, ShownInv
<1> HIDE DEF t
<1>3. Rising(Tail(t)) /\ Before(shown, Tail(t)) /\ Before(stash, Tail(t))
  BY <1>1, <1>2, OutsTail
<1>4. Rising(shown') /\ Before(shown', Tail(t))
  BY <1>0, <1>2, <1>3, OutsConcat
<1>5. UpTo(shown', lastSeq')
  <2>1. PICK cur \in Nat : cur = (IF lastSeq < Arrived.seq THEN Arrived.seq ELSE lastSeq)
    BY <1>0, <1>1 DEF Message, Past
  <2>2. lastSeq <= cur /\ lastSeq' = CursorAfter(cur, stash)
    BY <1>0, <1>1, <2>1 DEF Message, Past
  <2>3. CASE Outs(stash) = {}
    <3>1. lastSeq' = cur
      BY <1>0, <1>2, <2>2, <2>3, CursorIsLast
    <3>2. UpTo(shown, cur)
      BY <1>0, <1>2, <2>2, UpToLater
    <3>3. UpTo(stash, cur)
      BY <2>3 DEF UpTo
    <3> QED
      BY <1>0, <3>1, <3>2, <3>3, OutsConcat
  <2>4. CASE Outs(stash) # {}
    <3>1. UpTo(stash, lastSeq') /\ \E i \in Outs(stash) : lastSeq' = stash[i].seq
      BY <1>0, <1>2, <2>2, <2>4, CursorIsLast
    <3>2. PICK i \in Outs(stash) : lastSeq' = stash[i].seq
      BY <3>1
    <3>3. \A j \in Outs(shown) : shown[j].seq \in Nat /\ lastSeq' \in Nat /\ shown[j].seq < lastSeq'
      BY <1>0, <1>2, <3>2 DEF Before, Outs, Message, Past
    <3>4. UpTo(shown, lastSeq')
      BY <3>3 DEF UpTo
    <3> QED
      BY <1>0, <3>1, <3>4, OutsConcat
  <2> QED
    BY <2>3, <2>4
<1>6. Outs(<<>>) = {}
  BY DEF Outs
<1>7. ShownInv'
  BY <1>0, <1>1, <1>3, <1>4, <1>5, <1>6 DEF ShownInv, Attached, Rising, Before
<1>8. \A h \in Ids : (Owns(attempt, h)' /\ Held(h)') =>
        UpTo(shown', Told(attempt, h)') /\ UpTo(stash', Told(attempt, h)')
  BY <1>0, <1>1, <1>6, OutsConcat DEF UpTo
<1>9. OriginInv'
  BY <1>0, <1>1, <1>8 DEF OriginInv
<1> QED
  BY <1>7, <1>9 DEF OrderInv

\* A live notification is shown.
LEMMA ShowOrder ==
  ASSUME StreamTypes, StreamTypes', OwnerInv, OrderInv, Show
  PROVE  OrderInv'
<1>0. /\ UNCHANGED <<hubVars, toDaemon, reader, arg, slot, drain, hand, attempt, pump, stash>>
      /\ Attached /\ Received /\ pump = "live" /\ shown' = Append(shown, Arrived)
      /\ stash \in Seq(Message) /\ shown \in Seq(Message) /\ lastSeq \in Nat /\ nextSeq \in Nat
      /\ lastSeq' = CursorAfter(lastSeq, <<Arrived>>)
  BY DEF Show, attachVars, taskVars, Attached, StreamTypes, PumpTypes, Past, HubInv, HubTypes
<1> DEFINE t == toClient[attempt]
<1>1. /\ Arrived \in Message /\ t \in Seq(Message) /\ t # <<>>
      /\ toClient'[attempt] = Tail(t) /\ Arrived = t[1]
      /\ \A i \in 1..Len(toDaemon'[attempt]) : toDaemon'[attempt][i].req # "attach"
      /\ reader'[attempt] # "found"
      /\ \A h \in Ids : (Owns(attempt, h)' /\ Held(h)') =>
           /\ UpTo(shown, Told(attempt, h)') /\ UpTo(stash, Told(attempt, h)')
           /\ UpTo(Tail(t), Told(attempt, h)')
           /\ Arrived.msg = "out" => Arrived.seq <= Told(attempt, h)'
  BY <1>0, ArrivalFacts
<1>2. /\ Rising(shown) /\ UpTo(shown, lastSeq) /\ stash = <<>>
      /\ Rising(t) /\ Before(shown, t)
  BY <1>0 DEF OrderInv, ShownInv
<1> HIDE DEF t
<1>3. /\ Rising(Tail(t)) /\ Before(shown, Tail(t)) /\ After(Arrived, shown)
      /\ Arrived.msg = "out" => \A j \in Outs(Tail(t)) : Arrived.seq < Tail(t)[j].seq
  BY <1>1, <1>2, OutsTail
<1>4. Rising(shown')
  BY <1>0, <1>1, <1>2, <1>3, OutsAppend
<1>5. Before(shown', Tail(t))
  BY <1>0, <1>1, <1>3, OutsAppendFirst
<1>6. UpTo(shown', lastSeq')
  <2>0. <<Arrived>> \in Seq(Message) /\ Len(<<Arrived>>) = 1 /\ <<Arrived>>[1] = Arrived
    BY <1>1
  <2>1. PICK one \in Seq(Message) : one = <<Arrived>> /\ Len(one) = 1 /\ one[1] = Arrived
    BY <2>0
  <2>2. Rising(one) /\ \A i \in Outs(one) : i = 1
    BY <2>1 DEF Rising, Outs
  <2>3. CASE Arrived.msg # "out"
    <3>1. Outs(one) = {}
      BY <2>1, <2>3 DEF Outs
    <3>2. lastSeq' = lastSeq
      BY <1>0, <2>1, <2>2, <3>1, CursorIsLast
    <3> QED
      BY <1>0, <1>1, <1>2, <2>3, <3>2, OutsAppend
  <2>4. CASE Arrived.msg = "out"
    <3>1. Outs(one) # {}
      BY <2>1, <2>4 DEF Outs
    <3>2. \E i \in Outs(one) : lastSeq' = one[i].seq
      BY <1>0, <2>1, <2>2, <3>1, CursorIsLast
    <3>3. lastSeq' = Arrived.seq /\ Arrived.seq \in Nat
      BY <1>1, <2>1, <2>2, <2>4, <3>2 DEF Message, Past
    <3>4. \A j \in Outs(shown) : shown[j].seq \in Nat /\ shown[j].seq < lastSeq'
      BY <1>0, <1>3, <2>4, <3>3 DEF After, Outs, Message, Past
    <3>5. UpTo(shown, lastSeq') /\ Arrived.seq <= lastSeq'
      BY <3>3, <3>4 DEF UpTo
    <3> QED
      BY <1>0, <1>1, <3>5, OutsAppend
  <2> QED
    BY <2>3, <2>4
<1>7. Outs(<<>>) = {}
  BY DEF Outs
<1>8. ShownInv'
  BY <1>0, <1>1, <1>2, <1>3, <1>4, <1>5, <1>6, <1>7 DEF ShownInv, Attached, Rising, Before
<1>9. \A h \in Ids : (Owns(attempt, h)' /\ Held(h)') => UpTo(shown', Told(attempt, h)')
  BY <1>0, <1>1, OutsAppend
<1>10. OriginInv'
  BY <1>0, <1>1, <1>9 DEF OriginInv
<1> QED
  BY <1>8, <1>10 DEF OrderInv

\* Every step keeps the order.
LEMMA OrderKept ==
  ASSUME StreamTypes, StreamTypes', OwnerInv, HandsInv, OrderInv, StreamNext
  PROVE  OrderInv'
<1>1. ASSUME NEW c \in Conns, ConnStep(c)
      PROVE  OrderInv'
  <2>1. CASE c # attempt
    BY <1>1, <2>1, OthersOrder
  <2>2. CASE c = attempt
    BY <1>1, <2>2, OwnOrder, LookupOrder, SubscribeOrder, SendOrder
  <2> QED
    BY <2>1, <2>2
<1>2. CASE PumpStep
  BY <1>2, PumpQuietOrder, StashOrder, AckOrder, ShowOrder DEF PumpStep
<1> QED
  BY <1>1, <1>2, SessionOrder DEF StreamNext

-----------------------------------------------------------------------------
(* Nothing is lost *)

\* Entries may go or be cut off, handles may go: numbers stay together.
LEMMA IdsStay ==
  ASSUME IdsInv,
         \A s \in DOMAIN subs' : s \in DOMAIN subs /\ subs'[s].tx \in {subs[s].tx, Null},
         \A h \in Handles : /\ phase'[h] = "unused" <=> phase[h] = "unused"
                            /\ owner'[h] = owner[h],
         \A d \in Conns : \A h \in Ids : Owns(d, h)' => Owns(d, h)
  PROVE  IdsInv'
<1>1. \A s \in DOMAIN subs' : subs'[s].tx \in {s, Null}
  BY DEF IdsInv
<1>2. \A h \in Handles : phase'[h] # "unused" => owner'[h] = h
  BY DEF IdsInv
<1>3. \A d \in Conns : \A h \in Ids : Owns(d, h)' => phase'[h] # "unused"
  BY DEF IdsInv, Ids
<1> QED
  BY <1>1, <1>2, <1>3 DEF IdsInv

\* Only a new subscription makes an owner, whoever takes the step.
LEMMA NoNewOwner ==
  ASSUME StreamTypes, OwnerInv, StreamNext, \A c \in Conns : ~AttachSubscribe(c),
         NEW d \in Conns, NEW h \in Ids, Owns(d, h)'
  PROVE  Owns(d, h)
<1>0. DaemonTypes /\ attempt \in Conns
  BY AttachAssumption DEF StreamTypes, PumpTypes
<1>1. CASE SessionStep
  <2>1. UNCHANGED connVars
    BY <1>1 DEF SessionStep, PtyOutput, ChildExit, CloseHub, LatePark
  <2> QED
    BY <2>1 DEF connVars, attachVars, taskVars, Owns, Works
<1>2. ASSUME NEW c \in Conns, ConnStep(c)
      PROVE  Owns(d, h)
  <2>1. CASE d = c
    BY <1>2, <2>1, OwnsShrinks
  <2>2. CASE d # c
    <3>1. Same(d)
      BY <1>2, <2>2, ConnAlone
    <3> QED
      BY <3>1 DEF Same, Owns, Works
  <2> QED
    BY <2>1, <2>2
<1>3. CASE PumpStep
  <2>1. UNCHANGED <<slot, drain, arg>> /\ (Works(d)' => Works(d))
    BY <1>0, <1>3 DEF PumpStep, Connect, PumpFails, Retry, AwaitStash, AwaitError, AwaitAck, Show,
                      Keystroke, Leave, Failed, connVars, attachVars, taskVars, DaemonTypes, Works,
                      Entering, Leaving
  <2> QED
    BY <2>1 DEF Owns
<1> QED
  BY <1>1, <1>2, <1>3 DEF StreamNext

\* A new subscription sends to its own handle.
LEMMA SubscribeIds ==
  ASSUME StreamTypes, OwnerInv, IdsInv, NEW c \in Conns, AttachSubscribe(c)
  PROVE  IdsInv'
<1>0. /\ DaemonTypes /\ phase \in [Handles -> Phases] /\ owner \in [Handles -> Handles \cup {Null}]
      /\ reader[c] = "found" /\ Unattached(c)
  BY DEF StreamTypes, HubInv, HubTypes, DaemonTypes, AttachSubscribe, OwnerInv, AttachesOnce
<1>1. PICK k \in Ids : k = nextSub
  BY DEF AttachSubscribe, Subscribe, Ids
<1>2. k \in Handles /\ OpenHandle(k, k, arg[c])
  BY <1>1 DEF AttachSubscribe, Subscribe, Ids
<1>3. \A s \in DOMAIN subs' : subs'[s].tx \in {s, Null}
  BY <1>2 DEF OpenHandle, IdsInv
<1>4. \A h \in Handles : phase'[h] # "unused" => owner'[h] = h
  BY <1>0, <1>2 DEF OpenHandle, IdsInv
<1>5. /\ UNCHANGED <<slot, drain>> /\ arg'[c] = k
  BY <1>0, <1>1 DEF AttachSubscribe, taskVars, DaemonTypes
<1>6. \A d \in Conns : d # c => Same(d)
  BY ConnAlone DEF ConnStep
<1>7. \A d \in Conns : \A h \in Ids : Owns(d, h)' => h = k \/ Owns(d, h)
  BY <1>5, <1>6 DEF Owns, Works, Same
<1>8. phase'[k] = "idle" /\ \A h \in Handles : h # k => phase'[h] = phase[h]
  BY <1>0, <1>2 DEF OpenHandle
<1>9. \A d \in Conns : \A h \in Ids : Owns(d, h)' => phase'[h] # "unused"
  BY <1>7, <1>8 DEF IdsInv, Ids
<1> QED
  BY <1>3, <1>4, <1>9 DEF IdsInv

\* What the hub's own steps do to its entries and handles.
LEMMA HubKeepsIds ==
  ASSUME HubInv,
         \/ UNCHANGED hubVars
         \/ \E len \in Lens : Publish(len, FALSE)
         \/ Close
         \/ \E k \in Handles : DropPark(k) \/ Take(k) \/ Ack(k) \/ End(k) \/ Drop(k)
  PROVE  /\ \A s \in DOMAIN subs' : s \in DOMAIN subs /\ subs'[s].tx \in {subs[s].tx, Null}
         /\ \A h \in Handles : /\ phase'[h] = "unused" <=> phase[h] = "unused"
                               /\ owner'[h] = owner[h]
<1>0. phase \in [Handles -> Phases] /\ \A s \in DOMAIN subs : "tx" \in DOMAIN subs[s]
  BY DEF HubInv, HubTypes
<1>1. CASE UNCHANGED hubVars \/ Close
  BY <1>1 DEF hubVars, Close
<1>2. ASSUME NEW len \in Lens, Publish(len, FALSE)
      PROVE  /\ \A s \in DOMAIN subs' : s \in DOMAIN subs /\ subs'[s].tx \in {subs[s].tx, Null}
             /\ UNCHANGED <<phase, owner>>
  BY <1>0, <1>2 DEF Publish
<1>3. ASSUME NEW k \in Handles, DropPark(k) \/ Take(k) \/ Ack(k) \/ End(k) \/ Drop(k)
      PROVE  /\ \A s \in DOMAIN subs' : s \in DOMAIN subs /\ subs'[s].tx \in {subs[s].tx, Null}
             /\ \A h \in Handles : /\ phase'[h] = "unused" <=> phase[h] = "unused"
                                   /\ owner'[h] = owner[h]
  <2>1. CASE Ack(k)
    BY <1>0, <2>1 DEF Ack
  <2>2. CASE Take(k)
    BY <1>0, <2>2 DEF Take
  <2>3. CASE End(k) \/ Drop(k)
    BY <1>0, <2>3 DEF End, Drop
  <2>4. CASE DropPark(k)
    <3>1. subs' = Parked(owner[k]) /\ owner' = owner
      BY <2>4 DEF DropPark
    <3>2. \A s \in DOMAIN subs' : s \in DOMAIN subs /\ subs'[s].tx \in {subs[s].tx, Null}
      BY <3>1, ParkedEntries
    <3>3. phase[k] = "dropped" /\ phase' = [phase EXCEPT ![k] = "gone"]
      BY <2>4 DEF DropPark
    <3> QED
      BY <1>0, <3>1, <3>2, <3>3
  <2> QED
    BY <1>3, <2>1, <2>2, <2>3, <2>4
<1> QED
  BY <1>1, <1>2, <1>3

\* Which step of the hub a step of the stream takes.
LEMMA HubStepOf ==
  ASSUME StreamTypes, OwnerInv, StreamNext, \A c \in Conns : ~AttachSubscribe(c) /\ ~Leaves(c)
  PROVE  \/ UNCHANGED hubVars
         \/ \E len \in Lens : Publish(len, FALSE)
         \/ Close
         \/ \E k \in Handles : DropPark(k) \/ Take(k) \/ Ack(k) \/ End(k) \/ Drop(k)
<1>1. CASE SessionStep
  BY <1>1 DEF SessionStep, PtyOutput, ChildExit, CloseHub, LatePark
<1>2. CASE PumpStep
  BY <1>2 DEF PumpStep, Connect, PumpFails, Retry, AwaitStash, AwaitError, AwaitAck, Show, Keystroke,
              Leave, Failed
<1>3. ASSUME NEW c \in Conns, ConnStep(c)
      PROVE  \/ UNCHANGED hubVars
             \/ \E k \in Handles : Take(k) \/ Ack(k) \/ End(k) \/ Drop(k)
  <2>1. CASE QuietRequest(c) \/ QuietTask(c)
    BY <2>1, QuietHub
  <2>2. CASE HubTask(c)
    <3>1. UNCHANGED hubVars \/ (drain[c] # Null /\ (\/ Take(drain[c]) \/ Ack(drain[c])
                                                    \/ End(drain[c]) \/ Drop(drain[c])))
      BY <2>2 DEF HubTask, WriterStop, DrainTake, DrainAck, DrainEnd, DrainOver
    <3>2. drain[c] # Null => drain[c] \in Handles
      BY DEF StreamTypes, DaemonTypes, Ids
    <3> QED
      BY <3>1, <3>2
  <2> QED
    BY <1>3, <2>1, <2>2, ConnCases
<1> QED
  BY <1>1, <1>2, <1>3 DEF StreamNext

\* What a step of the stream does to the hub's entries and handles.
LEMMA IdsKept ==
  ASSUME StreamTypes, OwnerInv, IdsInv, StreamNext
  PROVE  IdsInv'
<1>0. DaemonTypes /\ HubInv
  BY DEF StreamTypes
<1>1. CASE \E c \in Conns : AttachSubscribe(c)
  BY <1>1, SubscribeIds
<1>2. CASE \A c \in Conns : ~AttachSubscribe(c)
  <2>1. \A d \in Conns : \A h \in Ids : Owns(d, h)' => Owns(d, h)
    BY <1>2, NoNewOwner
  <2>2. /\ \A s \in DOMAIN subs' : s \in DOMAIN subs /\ subs'[s].tx \in {subs[s].tx, Null}
        /\ \A h \in Handles : /\ phase'[h] = "unused" <=> phase[h] = "unused"
                              /\ owner'[h] = owner[h]
    <3>1. ASSUME NEW c \in Conns, Leaves(c)
          PROVE  /\ \A s \in DOMAIN subs' : s \in DOMAIN subs /\ subs'[s].tx \in {subs[s].tx, Null}
                 /\ \A h \in Handles : /\ phase'[h] = "unused" <=> phase[h] = "unused"
                                       /\ owner'[h] = owner[h]
      <4>1. CASE UNCHANGED hubVars
        BY <1>0, <4>1, HubKeepsIds
      <4>2. CASE ~UNCHANGED hubVars
        <5>1. /\ Detached(c) /\ subs' \in {subs, Parked(arg[c])} /\ arg[c] \in Ids /\ Owns(c, arg[c])
          BY <1>0, <3>1, <4>2, HubAssumption
             DEF Leaves, DetachLookup, DetachPark, DaemonTypes, Works, Leaving, Owns, Ids
        <5>2. \A s \in DOMAIN subs' : s \in DOMAIN subs /\ subs'[s].tx \in {subs[s].tx, Null}
          <6>1. CASE subs' = subs
            BY <6>1
          <6>2. CASE subs' = Parked(arg[c])
            BY <1>0, <6>2, ParkedEntries
          <6> QED
            BY <5>1, <6>1, <6>2
        <5>3. phase[arg[c]] # "unused"
          BY <5>1 DEF IdsInv
        <5>4. \A h \in Handles : phase'[h] = "unused" <=> phase[h] = "unused"
          BY <5>1, <5>3, DetachedHub
        <5> QED
          BY <5>1, <5>2, <5>4 DEF Detached
      <4> QED
        BY <4>1, <4>2
    <3>2. CASE \A c \in Conns : ~Leaves(c)
      BY <1>0, <1>2, <3>2, HubStepOf, HubKeepsIds
    <3> QED
      BY <3>1, <3>2
  <2> QED
    BY <2>1, <2>2, IdsStay
<1> QED
  BY <1>1, <1>2

\* What the steps of a connection, and of its pump, do to its link.
LEMMA LinkKept ==
  ASSUME StreamTypes, OwnerInv, StreamNext, NEW d \in Conns, LinkInv(d)
  PROVE  LinkInv(d)'
<1>0. DaemonTypes /\ attempt \in Conns /\ AttemptsInv
  BY AttachAssumption DEF StreamTypes, PumpTypes, OwnerInv
<1>1. CASE SessionStep
  <2>1. UNCHANGED connVars
    BY <1>1 DEF SessionStep, PtyOutput, ChildExit, CloseHub, LatePark
  <2> QED
    BY <2>1 DEF connVars, attachVars, taskVars, LinkInv
<1>2. ASSUME NEW c \in Conns, c # d, ConnStep(c)
      PROVE  LinkInv(d)'
  <2>1. Same(d) /\ woken'[d] = woken[d]
    BY <1>2, ConnAlone
  <2> QED
    BY <2>1 DEF Same, LinkInv
<1>3. CASE AttachLookup(d) \/ WriteCheck(d)
  <2>1. /\ reader[d] = "idle" /\ reader'[d] \in {"idle", "found", "writing"}
        /\ UNCHANGED <<link, woken>>
    BY <1>0, <1>3 DEF AttachLookup, WriteCheck, IsRequest, taskVars, DaemonTypes
  <2>2. \A i \in 1..Len(toDaemon'[d]) : \E j \in 1..Len(toDaemon[d]) : toDaemon'[d][i] = toDaemon[d][j]
    BY <1>3, RequestTaken DEF AttachLookup, WriteCheck
  <2> QED
    BY <2>1, <2>2 DEF LinkInv, Leaving
<1>4. CASE Detach(d)
  <2>1. /\ reader[d] = "idle" /\ UNCHANGED <<link, woken>>
        /\ 1 \in 1..Len(toDaemon[d]) /\ toDaemon[d][1].req = "detach"
    BY <1>0, <1>4, RequestTaken DEF Detach, IsRequest, taskVars
  <2>2. \A i \in 1..Len(toDaemon'[d]) : \E j \in 1..Len(toDaemon[d]) : toDaemon'[d][i] = toDaemon[d][j]
    BY <1>4, RequestTaken DEF Detach
  <2> QED
    BY <2>1, <2>2 DEF LinkInv
<1>5. CASE \/ AttachSubscribe(d) \/ AttachAcquire(d) \/ AttachSnapshot(d) \/ AttachRecord(d)
           \/ AttachReply(d) \/ PtyWrite(d)
  <2>1. /\ reader'[d] \notin {"joining", "gone"} \cup Leaving
        /\ UNCHANGED <<link, woken, toDaemon>>
    BY <1>0, <1>5 DEF AttachSubscribe, AttachAcquire, AttachSnapshot, AttachRecord, AttachReply,
                      PtyWrite, taskVars, DaemonTypes, Leaving
  <2> QED
    BY <2>1 DEF LinkInv
<1>6. CASE ReaderEof(d)
  <2>1. link'[d] = "broken" /\ toDaemon'[d] = <<>>
    BY <1>0, <1>6 DEF ReaderEof, DaemonTypes
  <2> QED
    BY <2>1 DEF LinkInv
<1>7. CASE Release(d) \/ Leaves(d) \/ DetachInput(d)
  <2>1. reader[d] \in {"joining"} \cup Leaving /\ UNCHANGED <<link, woken, toDaemon>>
    BY <1>7 DEF Release, Leaves, DetachLookup, DetachPark, DetachInput, taskVars, Leaving
  <2> QED
    BY <2>1 DEF LinkInv
<1>8. CASE (QuietTask(d) /\ ~Break(d)) \/ HubTask(d)
  <2>1. UNCHANGED <<link, reader, woken, toDaemon>>
    BY <1>8 DEF QuietTask, HubTask, WriterAttach, WriterStop, DrainTake, DrainAck, DrainSend, DrainEnd,
                DrainOver, connVars, attachVars, taskVars
  <2> QED
    BY <2>1 DEF LinkInv
<1>9. CASE Break(d)
  <2>1. link'[d] = "broken" /\ UNCHANGED <<reader, woken, toDaemon>>
    BY <1>0, <1>9 DEF Break, attachVars, taskVars, DaemonTypes
  <2> QED
    BY <2>1 DEF LinkInv
<1>10. CASE PumpStep
  <2>0. woken' = woken
    BY <1>10 DEF PumpStep, Connect, PumpFails, Retry, AwaitStash, AwaitError, AwaitAck, Show, Keystroke,
                 Leave, Failed, connVars, taskVars
  <2>1. CASE d # attempt
    <3>1. Same(d)
      BY <1>10, <2>1, PumpAlone
    <3> QED
      BY <2>0, <3>1 DEF Same, LinkInv
  <2>2. CASE d = attempt /\ Connect
    <3>1. /\ reader[d] = "off" /\ reader'[d] = "idle" /\ link[d] = "none" /\ link'[d] = "up"
          /\ toDaemon'[d] = <<[req |-> "attach", since |-> lastSeq]>>
      BY <1>0, <2>2 DEF Connect, AttemptsInv, DaemonTypes
    <3>2. Len(toDaemon'[d]) = 1 /\ toDaemon'[d][1].req = "attach"
      BY <3>1
    <3> QED
      BY <2>0, <3>1, <3>2 DEF LinkInv, Leaving
  <2>3. CASE d = attempt /\ (PumpFails \/ AwaitError \/ Leave)
    <3>1. link'[d] = "broken" /\ reader' = reader
      BY <1>0, <2>3 DEF PumpFails, AwaitError, Failed, Leave, attachVars, DaemonTypes
    <3> QED
      BY <2>0, <3>1 DEF LinkInv
  <2>4. CASE d = attempt /\ Keystroke
    <3>1. /\ UNCHANGED <<link, reader>> /\ toDaemon[d] \in Seq(Request)
          /\ toDaemon'[d] = Append(toDaemon[d], [req |-> "write"]) /\ [req |-> "write"] \in Request
      BY <1>0, <2>4 DEF Keystroke, attachVars, DaemonTypes, Request
    <3>2. \A i \in 1..Len(toDaemon'[d]) : toDaemon'[d][i].req = "detach" =>
             \E j \in 1..Len(toDaemon[d]) : toDaemon'[d][i] = toDaemon[d][j]
      BY <3>1, AppendAt
    <3> QED
      BY <2>0, <3>1, <3>2 DEF LinkInv
  <2>5. CASE Retry \/ AwaitStash \/ AwaitAck \/ Show
    BY <2>0, <2>5 DEF Retry, AwaitStash, AwaitAck, Show, connVars, attachVars, LinkInv
  <2> QED
    BY <1>10, <2>1, <2>2, <2>3, <2>4, <2>5 DEF PumpStep
<1>11. ASSUME ConnStep(d)
       PROVE  LinkInv(d)'
  BY <1>3, <1>4, <1>5, <1>6, <1>7, <1>8, <1>9, <1>11, ConnCases
     DEF QuietRequest, QuietTask
<1> QED
  BY <1>1, <1>2, <1>10, <1>11 DEF StreamNext

\* Sequences of messages that grow keep their numbers.
LEMMA NumbersGrow ==
  ASSUME NEW S, NEW q \in Seq(S), NEW m \in S
  PROVE  /\ Numbers(q) \subseteq Numbers(Append(q, m))
         /\ m.msg # "ack" => m.seq \in Numbers(Append(q, m))
         /\ \A r \in Seq(S) : Numbers(q) \subseteq Numbers(q \o r) /\ Numbers(r) \subseteq Numbers(q \o r)
<1>1. \A i \in 1..Len(q) : i \in 1..Len(Append(q, m)) /\ Append(q, m)[i] = q[i]
  BY AppendAt
<1>2. Len(q) + 1 \in 1..Len(Append(q, m)) /\ Append(q, m)[Len(q) + 1] = m
  BY AppendAt
<1>3. ASSUME NEW r \in Seq(S)
      PROVE  Numbers(q) \subseteq Numbers(q \o r) /\ Numbers(r) \subseteq Numbers(q \o r)
  <2>1. \A i \in 1..Len(q) : i \in 1..Len(q \o r) /\ (q \o r)[i] = q[i]
    OBVIOUS
  <2>2. \A i \in 1..Len(r) : Len(q) + i \in 1..Len(q \o r) /\ (q \o r)[Len(q) + i] = r[i]
    OBVIOUS
  <2> QED
    BY <2>1, <2>2 DEF Numbers
<1> QED
  BY <1>1, <1>2, <1>3 DEF Numbers

\* What leaves the head is the head.
LEMMA NumbersTail ==
  ASSUME NEW S, NEW q \in Seq(S), q # <<>>, NEW n \in Numbers(q)
  PROVE  n \in Numbers(Tail(q)) \/ (q[1].msg # "ack" /\ n = q[1].seq)
<1>1. PICK i \in 1..Len(q) : q[i].msg # "ack" /\ n = q[i].seq
  BY DEF Numbers
<1>2. CASE i = 1
  BY <1>1, <1>2
<1>3. CASE i # 1
  <2>1. i - 1 \in 1..Len(Tail(q)) /\ Tail(q)[i - 1] = q[i]
    BY <1>3
  <2> QED
    BY <1>1, <2>1 DEF Numbers
<1> QED
  BY <1>2, <1>3


\* A step that changes nothing a reader sees keeps what was sent.
LEMMA SentStays ==
  ASSUME NEW n, NEW c \in Conns, NEW h \in Ids, SentAbove(n, c, h),
         ring' \in {ring, <<>>}, Told(c, h)' = Told(c, h), \A k : Sent(k, c) => Sent(k, c)'
  PROVE  SentAbove(n, c, h)'
<1>1. CASE ring' = <<>>
  BY <1>1 DEF SentAbove
<1>2. CASE ring' = ring
  BY <1>2 DEF SentAbove
<1> QED
  BY <1>1, <1>2

\* Readers neither publish nor close.
LEMMA ConnHub ==
  ASSUME NEW c \in Conns, ConnStep(c)
  PROVE  UNCHANGED <<ring, nextSeq, outPump>>
<1>1. CASE QuietRequest(c) \/ QuietTask(c)
  BY <1>1, QuietHub DEF hubVars
<1>2. CASE AttachSubscribe(c)
  BY <1>2 DEF AttachSubscribe, Subscribe, sessionVars
<1>3. CASE Leaves(c)
  BY <1>3 DEF Leaves, DetachLookup, DetachPark, Detached, hubVars, sessionVars
<1>4. CASE HubTask(c)
  <2>1. UNCHANGED hubVars \/ Drop(drain[c]) \/ Take(drain[c]) \/ Ack(drain[c]) \/ End(drain[c])
    BY <1>4 DEF HubTask, WriterStop, DrainTake, DrainAck, DrainEnd, DrainOver
  <2>2. outPump' = outPump
    BY <1>4 DEF HubTask, WriterStop, DrainTake, DrainAck, DrainEnd, DrainOver, sessionVars
  <2> QED
    BY <2>1, <2>2 DEF hubVars, Drop, Take, Ack, End
<1> QED
  BY <1>1, <1>2, <1>3, <1>4, ConnCases

\* Only giving a subscription up takes its sender.
LEMMA SenderStays ==
  ASSUME StreamTypes, IdsInv, NEW c \in Conns, ConnStep(c), NEW h \in Ids, h < nextSub,
         HasSender(h), ~(Leaves(c) /\ arg[c] = h)
  PROVE  HasSender(h)'
<1>0. /\ HubInv /\ nextSub \in Nat /\ h \in Nat /\ h # Null
      /\ \A s \in DOMAIN subs : "tx" \in DOMAIN subs[s]
  BY HubAssumption DEF StreamTypes, HubInv, HubTypes, DaemonTypes, Ids
<1>1. h \in DOMAIN subs /\ subs[h].tx = h
  BY <1>0 DEF HasSender, IdsInv
<1>2. CASE UNCHANGED subs
  BY <1>2 DEF HasSender
<1>3. CASE QuietRequest(c) \/ QuietTask(c)
  BY <1>2, <1>3, QuietHub DEF hubVars
<1>4. CASE AttachSubscribe(c)
  <2>1. h # nextSub
    BY <1>0
  <2>2. h \in DOMAIN subs' /\ subs'[h] = subs[h]
    BY <1>1, <1>4, <2>1 DEF AttachSubscribe, Subscribe, OpenHandle
  <2> QED
    BY <1>1, <2>2 DEF HasSender
<1>5. CASE Leaves(c)
  <2>1. UNCHANGED subs \/ subs' = Parked(arg[c])
    BY <1>5 DEF Leaves, DetachLookup, DetachPark, hubVars
  <2>2. CASE subs' = Parked(arg[c])
    <3>1. h \in DOMAIN subs' /\ subs'[h] = subs[h]
      BY <1>1, <1>5, <2>2 DEF Parked
    <3> QED
      BY <1>1, <3>1 DEF HasSender
  <2> QED
    BY <1>2, <2>1, <2>2
<1>6. CASE HubTask(c)
  <2>1. UNCHANGED hubVars \/ Drop(drain[c]) \/ Take(drain[c]) \/ Ack(drain[c]) \/ End(drain[c])
    BY <1>6 DEF HubTask, WriterStop, DrainTake, DrainAck, DrainEnd, DrainOver
  <2>2. UNCHANGED subs \/ Ack(drain[c])
    BY <2>1 DEF hubVars, Drop, Take, End
  <2>3. CASE Ack(drain[c])
    <3>1. h \in DOMAIN subs' /\ subs'[h].tx = h
      BY <1>0, <1>1, <2>3 DEF Ack
    <3> QED
      BY <3>1 DEF HasSender
  <2> QED
    BY <1>2, <2>2, <2>3
<1> QED
  BY <1>3, <1>4, <1>5, <1>6, ConnCases

\* Other connections touch neither the pump's wire nor its subscription.
LEMMA OthersAsked ==
  ASSUME StreamTypes, OwnerInv, IdsInv, NEW c \in Conns, NEW d \in Conns, d # c, ConnStep(d),
         NEW n, NEW h \in Ids, Owns(c, h), Served(h), SentAbove(n, c, h)
  PROVE  Served(h)' /\ SentAbove(n, c, h)'
<1>0. /\ Same(c) /\ UNCHANGED <<shown, stash>> /\ UNCHANGED <<ring, outPump>>
  BY ConnAlone, PumpStays, ConnHub
<1>1. h < nextSub /\ ~Owns(d, h)
  BY DEF OwnerInv, OwnersInv
<1>2. phase'[h] = phase[h] /\ seen'[h] = seen[h]
  BY <1>1, OthersHandles
<1>3. Told(c, h)' = Told(c, h)
  BY <1>0, <1>2 DEF Told, Same
<1>4. \A k : Sent(k, c) => Sent(k, c)'
  BY <1>0 DEF Sent, Same
<1>5. SentAbove(n, c, h)'
  BY <1>0, <1>3, <1>4, SentStays
<1>6. ~(Leaves(d) /\ arg[d] = h)
  BY <1>1, HubAssumption DEF Leaves, DetachLookup, DetachPark, Owns, Works, Leaving, Ids
<1>7. Served(h)'
  <2>1. CASE ring = <<>> /\ outPump = "closed"
    BY <1>0, <2>1 DEF Served
  <2>2. CASE phase[h] \in {"idle", "acking"} /\ HasSender(h)
    <3>1. HasSender(h)'
      BY <1>1, <1>6, <2>2, SenderStays
    <3> QED
      BY <1>2, <2>2, <3>1 DEF Served
  <2> QED
    BY <2>1, <2>2 DEF Served
<1> QED
  BY <1>5, <1>7

\* A connection drains its own subscription.
LEMMA DrainsItsOwn ==
  ASSUME OwnerInv, NEW c \in Conns, NEW h \in Ids, Owns(c, h), drain[c] # Null
  PROVE  h = drain[c]
<1>1. AttachesOnce(c) /\ h # Null
  BY HubAssumption DEF OwnerInv, Ids
<1>2. slot[c] \in {drain[c], Null} /\ reader[c] \notin Entering /\ (reader[c] \in Leaving => arg[c] = drain[c])
  BY <1>1 DEF AttachesOnce, Unattached
<1> QED
  BY <1>1, <1>2 DEF Owns, Works

\* Nothing ends the attempt while its link is up.
LEMMA AttemptGoesOn ==
  ASSUME StreamTypes, NEW c \in Conns, LinkInv(c), link'[c] = "up",
         Detach(c) \/ Release(c) \/ Leaves(c) \/ DetachInput(c) \/ WriterStop(c)
  PROVE  FALSE
<1>1. link[c] = "up" /\ toDaemon[c] \in Seq(Request)
  BY DEF Detach, Release, Leaves, DetachLookup, DetachPark, DetachInput, WriterStop, StreamTypes,
         DaemonTypes
<1>2. CASE Detach(c)
  <2>1. toDaemon[c] # <<>> /\ toDaemon[c][1].req = "detach"
    BY <1>2 DEF Detach, IsRequest
  <2>2. 1 \in 1..Len(toDaemon[c])
    BY <1>1, <2>1
  <2> QED
    BY <1>1, <2>1, <2>2 DEF LinkInv
<1>3. CASE ~Detach(c)
  BY <1>1, <1>3 DEF LinkInv, Release, Leaves, DetachLookup, DetachPark, DetachInput, WriterStop, Leaving
<1> QED
  BY <1>2, <1>3

\* What a connection puts on the wire comes after what is there.
LEMMA ConnSends ==
  ASSUME StreamTypes, HandsInv, NEW c \in Conns, ConnStep(c)
  PROVE  \E m \in Message : toClient'[c] \in {toClient[c], Append(toClient[c], m)}
<1>0. DaemonTypes
  BY DEF StreamTypes
<1>1. [msg |-> "error"] \in Message /\ [msg |-> "ack", seq |-> snap[c]] \in Message
  BY <1>0 DEF DaemonTypes, Message
<1>2. CASE AttachLookup(c)
  <2>1. toClient'[c] \in {toClient[c], Append(toClient[c], [msg |-> "error"])}
    BY <1>0, <1>1, <1>2, SendAt DEF AttachLookup
  <2> QED
    BY <1>1, <2>1
<1>3. CASE AttachReply(c)
  <2>1. toClient'[c] \in {toClient[c], Append(toClient[c], [msg |-> "ack", seq |-> snap[c]])}
    BY <1>0, <1>1, <1>3, SendAt DEF AttachReply
  <2> QED
    BY <1>1, <2>1
<1>4. CASE DrainSend(c)
  <2>1. hand[c] \in Seq(Message) /\ hand[c] # <<>> /\ Send(c, hand[c][1])
    BY <1>0, <1>4 DEF DrainSend, DaemonTypes
  <2>2. hand[c][1] \in Message
    BY <2>1
  <2>3. toClient'[c] \in {toClient[c], Append(toClient[c], hand[c][1])}
    BY <1>0, <2>1, <2>2, SendAt
  <2> QED
    BY <2>2, <2>3
<1>5. CASE ~AttachLookup(c) /\ ~AttachReply(c) /\ ~DrainSend(c)
  <2>1. toClient' = toClient
    BY <1>5 DEF ConnStep, AttachSubscribe, AttachAcquire, AttachSnapshot, AttachRecord, Detach, Release,
                DetachLookup, DetachInput, DetachPark, WriteCheck, PtyWrite, ReaderEof, WriterAttach,
                WriterStop, DrainTake, DrainAck, DrainEnd, DrainOver, Break, connVars
  <2> QED
    BY <1>1, <2>1
<1> QED
  BY <1>2, <1>3, <1>4, <1>5

\* What was sent on a connection stays sent.
LEMMA ConnKeepsSent ==
  ASSUME StreamTypes, HandsInv, NEW c \in Conns, ConnStep(c)
  PROVE  \A k : Sent(k, c) => Sent(k, c)'
<1>1. toClient[c] \in Seq(Message)
  BY DEF StreamTypes, DaemonTypes
<1>2. PICK m \in Message : toClient'[c] \in {toClient[c], Append(toClient[c], m)}
  BY ConnSends
<1>3. Numbers(toClient[c]) \subseteq Numbers(toClient'[c])
  BY <1>1, <1>2, NumbersGrow
<1>4. UNCHANGED <<shown, stash>>
  BY PumpStays
<1> QED
  BY <1>3, <1>4 DEF Sent

\* The attempt's own steps that send no chunk and start no subscription.
LEMMA OwnAsked ==
  ASSUME StreamTypes, OwnerInv, HandsInv, IdsInv, NEW c \in Conns, LinkInv(c), ConnStep(c),
         ~AttachSubscribe(c), ~DrainSend(c), link'[c] = "up",
         NEW n, NEW h \in Ids, Owns(c, h), Served(h), SentAbove(n, c, h)
  PROVE  Served(h)' /\ SentAbove(n, c, h)'
<1>0. /\ h \in Handles /\ h # Null /\ h < nextSub /\ UNCHANGED <<ring, outPump>>
      /\ phase \in [Handles -> Phases] /\ DaemonTypes
      /\ \A k : Sent(k, c) => Sent(k, c)'
  BY HubAssumption, ConnHub, ConnKeepsSent DEF Ids, OwnerInv, OwnersInv, StreamTypes, HubInv, HubTypes
<1>1. CASE ring = <<>> /\ outPump = "closed"
  BY <1>0, <1>1 DEF Served, SentAbove
<1>2. CASE phase[h] \in {"idle", "acking"} /\ HasSender(h)
  <2>1. ~(Detach(c) \/ Release(c) \/ Leaves(c) \/ DetachInput(c) \/ WriterStop(c))
    BY AttemptGoesOn
  <2>2. HasSender(h)'
    BY <1>0, <1>2, <2>1, SenderStays
  <2>3. phase'[h] \in {"idle", "acking"}
    <3>1. CASE QuietRequest(c) \/ QuietTask(c)
      BY <1>2, <3>1, QuietHub DEF hubVars
    <3>2. CASE DrainTake(c) \/ DrainAck(c)
      <4>1. Take(drain[c]) \/ Ack(drain[c])
        BY <3>2 DEF DrainTake, DrainAck
      <4> QED
        BY <1>0, <1>2, <4>1 DEF Take, Ack
    <3>3. CASE DrainEnd(c)
      <4>1. drain[c] # Null /\ End(drain[c])
        BY <3>3 DEF DrainEnd
      <4>2. h = drain[c]
        BY <4>1, DrainsItsOwn
      <4> QED
        BY <1>2, <4>1, <4>2 DEF End
    <3>4. CASE DrainOver(c)
      <4>1. drain[c] # Null /\ link[c] = "up" /\ (phase[drain[c]] = "ended" \/ link[c] = "broken")
        BY <3>4 DEF DrainOver
      <4>2. h = drain[c]
        BY <4>1, DrainsItsOwn
      <4> QED
        BY <1>2, <4>1, <4>2
    <3> QED
      BY <2>1, <3>1, <3>2, <3>3, <3>4, ConnCases DEF HubTask
  <2>4. Held(h)' /\ Served(h)'
    BY <2>2, <2>3 DEF Held, Served
  <2>5. Told(c, h)' = Told(c, h)
    BY <2>4, OwnTold
  <2> QED
    BY <1>0, <2>4, <2>5, SentStays
<1> QED
  BY <1>1, <1>2 DEF Served

\* What the drain task of the attempt sends, it has received last.
LEMMA SendAsked ==
  ASSUME StreamTypes, OwnerInv, HandsInv, NEW c \in Conns, DrainSend(c), link'[c] = "up",
         NEW n, NEW h \in Ids, Owns(c, h), Served(h), SentAbove(n, c, h)
  PROVE  Served(h)' /\ SentAbove(n, c, h)'
<1>0. /\ DaemonTypes /\ UNCHANGED <<hubVars, outPump, drain>> /\ link[c] = "up"
      /\ seen \in [Handles -> Nat] /\ ring \in Seq(Chunk) /\ toClient[c] \in Seq(Message)
      /\ hand[c] \in Seq(Message) /\ hand[c] # <<>> /\ drain[c] # Null /\ h \in Handles
  BY DEF StreamTypes, HubInv, HubTypes, DaemonTypes, DrainSend, sessionVars, Ids
<1>1. h = drain[c]
  BY <1>0, DrainsItsOwn
<1>2. PICK m \in Message : m = hand[c][1] /\ m.msg # "ack" /\ m.seq = seen[h]
  <2>1. hand[c][1] \in Message
    BY <1>0
  <2>2. hand[c][1].msg \in {"out", "gap"} /\ hand[c][1].seq = seen[h]
    BY <1>0, <1>1 DEF HandsInv, HandInv
  <2> QED
    BY <2>1, <2>2
<1>3. Told(c, h) = seen[h] - 1 /\ Told(c, h)' = seen[h]
  <2>1. hand'[c] = <<>>
    BY <1>0 DEF DrainSend, DaemonTypes
  <2> QED
    BY <1>0, <1>1, <2>1 DEF Told, hubVars
<1>4. \A k : Sent(k, c) \/ k = m.seq => Sent(k, c)'
  <2>1. toClient'[c] = Append(toClient[c], m)
    BY <1>0, <1>2, SendAt DEF DrainSend
  <2>2. m.seq \in Numbers(toClient'[c]) /\ Numbers(toClient[c]) \subseteq Numbers(toClient'[c])
    BY <1>0, <1>2, <2>1, NumbersGrow
  <2>3. UNCHANGED <<shown, stash>>
    BY DEF DrainSend, pumpVars
  <2> QED
    BY <2>2, <2>3 DEF Sent
<1>5. \A i \in 1..Len(ring) : ring[i].seq \in Int
  <2>1. \A i \in 1..Len(ring) : ring[i] \in Chunk
    BY <1>0
  <2> QED
    BY <2>1 DEF Chunk
<1>6. \A i \in 1..Len(ring) : ring[i].seq <= seen[h] => ring[i].seq <= seen[h] - 1 \/ ring[i].seq = seen[h]
  BY <1>0, <1>5
<1>7. SentAbove(n, c, h)'
  BY <1>0, <1>2, <1>3, <1>4, <1>6 DEF SentAbove, hubVars
<1>8. Served(h)'
  BY <1>0 DEF Served, HasSender, hubVars
<1> QED
  BY <1>7, <1>8

\* A new subscription starts before all that the attempt asked for.
LEMMA SubscribeAsked ==
  ASSUME StreamTypes, OwnerInv, NEW c \in Conns, AttachSubscribe(c), NEW n, arg[c] = n,
         NEW h \in Ids, Owns(c, h)'
  PROVE  Served(h)' /\ SentAbove(n, c, h)'
<1>0. /\ DaemonTypes /\ HubInv /\ UNCHANGED <<slot, drain, ring>> /\ drain[c] = Null
      /\ phase \in [Handles -> Phases] /\ seen \in [Handles -> Nat] /\ nextSeq \in Nat
      /\ Unattached(c) /\ ring \in Seq(Chunk)
  BY DEF StreamTypes, HubInv, HubTypes, AttachSubscribe, Subscribe, taskVars, OwnerInv, AttachesOnce,
         Unattached
<1>1. reader'[c] = "subscribed" /\ arg'[c] = nextSub /\ n \in Past
  BY <1>0 DEF AttachSubscribe, DaemonTypes
<1>2. PICK k \in Ids : k = nextSub
  BY DEF AttachSubscribe, Subscribe, Ids
<1>3. h = k
  BY <1>0, <1>1, <1>2 DEF Owns, Unattached
<1>4. k \in Handles /\ k # Null /\ OpenHandle(k, k, n)
  BY <1>2, HubAssumption DEF Ids, AttachSubscribe, Subscribe
<1>5. phase'[k] = "idle" /\ seen'[k] = StartOf(Newer(n)) /\ k \in DOMAIN subs' /\ subs'[k].tx = k
  BY <1>0, <1>4 DEF OpenHandle
<1>6. Told(c, k)' = seen'[k]
  BY <1>0, <1>4 DEF Told
<1>7. \A i \in 1..Len(ring) : n < ring[i].seq => seen'[k] < ring[i].seq
  BY <1>0, <1>1, <1>5, StartIsBehind
<1>8. \A i \in 1..Len(ring) : ring[i].seq \in Nat
  <2>1. \A i \in 1..Len(ring) : ring[i] \in Chunk
    BY <1>0
  <2> QED
    BY <2>1 DEF Chunk
<1>9. seen'[k] \in Int
  <2>1. n \in Nat /\ n <= nextSeq - 1
    BY <1>0, <1>1 DEF Past
  <2>2. StreamTypes'
    <3>1. StreamNext
      BY DEF StreamNext, ConnStep
    <3> QED
      BY <3>1, TypesStay
  <2>3. seen' \in [Handles -> Nat]
    BY <2>2 DEF StreamTypes, HubInv, HubTypes
  <2> QED
    BY <1>4, <2>3
<1>10. \A i \in 1..Len(ring) : n < ring[i].seq => ~(ring[i].seq <= seen'[k])
  BY <1>7, <1>8, <1>9
<1>11. SentAbove(n, c, k)'
  BY <1>0, <1>6, <1>10 DEF SentAbove
<1>12. Served(k)'
  BY <1>5 DEF Served, HasSender
<1> QED
  BY <1>3, <1>11, <1>12

\* The session publishes, exits and closes; dropped handles are parked.
LEMMA SessionAsked ==
  ASSUME StreamTypes, StreamTypes', IdsInv, SessionStep, NEW c \in Conns,
         NEW n, NEW h \in Ids, Owns(c, h), Served(h), SentAbove(n, c, h)
  PROVE  Served(h)' /\ SentAbove(n, c, h)'
<1>0. /\ HubInv /\ HubPast /\ phase \in [Handles -> Phases] /\ seen \in [Handles -> Nat]
      /\ nextSeq \in Nat /\ ring \in Seq(Chunk) /\ Len(ring) \in Nat /\ h \in Handles /\ h # Null
      /\ queue \in [Handles -> Seq(Event)]
      /\ \A s \in DOMAIN subs : "tx" \in DOMAIN subs[s]
  BY HubAssumption DEF StreamTypes, HubInv, HubTypes, Ids
<1>1. UNCHANGED <<connVars, pumpVars>>
  BY DEF SessionStep, PtyOutput, ChildExit, CloseHub, LatePark
<1>2. UNCHANGED <<shown, stash, toClient, drain, hand>>
  BY <1>1 DEF connVars, taskVars, pumpVars
<1>3. \A k : Sent(k, c) => Sent(k, c)'
  BY <1>2 DEF Sent
<1>4. CASE PtyOutput
  <2>1. PICK len \in Lens : Publish(len, FALSE)
    BY <1>4 DEF PtyOutput
  <2>2. phase[h] \in {"idle", "acking"} /\ HasSender(h)
    BY <1>4 DEF Served, PtyOutput
  <2>3. UNCHANGED <<phase, seen>> /\ nextSeq' = nextSeq + 1
    BY <2>1 DEF Publish
  <2>4. Served(h)'
    <3>1. DOMAIN subs' = DOMAIN subs /\ \A s \in DOMAIN subs : subs'[s].tx = subs[s].tx
      BY <1>0, <2>1 DEF Publish
    <3> QED
      BY <2>2, <2>3, <3>1 DEF Served, HasSender
  <2>5. PICK t \in Int : t = Told(c, h) /\ t = Told(c, h)' /\ t <= nextSeq - 1
    <3>1. Len(queue[h]) \in Nat /\ Held(h)
      BY <1>0, <2>2 DEF Held
    <3>2. seen[h] <= nextSeq - 1 /\ seen[h] \in Nat
      BY <1>0, <3>1 DEF HubPast, Past
    <3>3. seen[h] - 1 \in Int /\ seen[h] - 1 <= nextSeq - 1 /\ seen[h] \in Int
      BY <1>0, <3>2
    <3>4. Told(c, h)' = Told(c, h)
      BY <1>2, <2>3 DEF Told
    <3>5. Told(c, h) \in Int /\ Told(c, h) <= nextSeq - 1
      BY <3>2, <3>3 DEF Told
    <3> QED
      BY <3>4, <3>5
  <2>6. Len(ring') \in Nat /\ Len(ring') <= Len(ring) + 1
    <3>1. PICK ch \in Chunk : ch = [seq |-> nextSeq, len |-> len]
      BY <1>0, HubAssumption DEF Chunk
    <3>2. /\ Append(ring, ch) \in Seq(Chunk) /\ Len(Append(ring, ch)) = Len(ring) + 1
          /\ InOrder(Append(ring, ch), nextSeq - 1 - Len(ring))
      <4>1. nextSeq - 1 - Len(ring) \in Int /\ ch.seq = nextSeq - 1 - Len(ring) + Len(ring) + 1
        BY <1>0, <3>1
      <4>2. InOrder(ring, nextSeq - 1 - Len(ring))
        BY <1>0 DEF HubInv, RingInv
      <4> QED
        BY <1>0, <4>1, <4>2, AppendInOrder
    <3>3. nextSeq \in Int /\ nextSeq - Len(Append(ring, ch)) = nextSeq - 1 - Len(ring)
      BY <1>0, <3>2
    <3>4. Len(Evicted(Append(ring, ch))) <= Len(Append(ring, ch))
      BY <3>2, <3>3, EvictedIsAnEnd
    <3>5. ring' = Evicted(Append(ring, ch))
      BY <2>1, <3>1 DEF Publish
    <3>6. ring' \in Seq(Chunk)
      BY DEF StreamTypes, HubInv, HubTypes
    <3> QED
      BY <1>0, <3>2, <3>4, <3>5, <3>6
  <2>7. SentAbove(n, c, h)'
    <3> SUFFICES ASSUME NEW i \in 1..Len(ring'), n < ring'[i].seq, ring'[i].seq <= t
                 PROVE  Sent(ring[i].seq, c)'
      BY <2>5 DEF SentAbove
    <3>0. PICK r, l : r = ring'[i].seq /\ l = Len(ring')
      OBVIOUS
    <3>1. l \in Nat /\ l <= Len(ring) + 1 /\ r = nextSeq - l + i /\ r <= t /\ i \in 1..l
      <4>1. ring'[i].seq = nextSeq' - 1 - Len(ring') + i
        BY DEF StreamTypes, HubInv, RingInv, InOrder
      <4> QED
        BY <1>0, <2>3, <2>6, <3>0, <4>1
    <3>2. PICK j \in Int : j = Len(ring) + 1 - l + i
      <4>1. Len(ring) \in Nat /\ l \in Nat /\ i \in Int
        BY <1>0, <3>1
      <4>2. Len(ring) + 1 - l + i \in Int
        BY <4>1
      <4> QED
        BY <4>2
    <3>3. j \in 1..Len(ring)
      BY <1>0, <2>5, <3>1, <3>2
    <3>4. ring[j].seq = nextSeq - 1 - Len(ring) + j
      <4>1. InOrder(ring, nextSeq - 1 - Len(ring))
        BY <1>0 DEF HubInv, RingInv
      <4> QED
        BY <3>3, <4>1 DEF InOrder
    <3>5. ring[j].seq = r
      BY <1>0, <3>1, <3>2, <3>4
    <3>6. Sent(r, c)
      BY <2>5, <3>0, <3>1, <3>3, <3>5 DEF SentAbove
    <3>7. Sent(r, c)'
      BY <1>3, <3>6
    <3> QED
      BY <3>0, <3>7 DEF Sent
  <2> QED
    BY <2>4, <2>7
<1>5. CASE ChildExit
  <2>1. UNCHANGED hubVars /\ outPump = "reading"
    BY <1>5 DEF ChildExit
  <2>2. Served(h)'
    BY <2>1 DEF hubVars, Served, HasSender
  <2>3. Told(c, h)' = Told(c, h) /\ ring' = ring
    BY <1>2, <2>1 DEF hubVars, Told
  <2> QED
    BY <1>3, <2>2, <2>3, SentStays
<1>6. CASE CloseHub
  BY <1>6 DEF CloseHub, Close, Served, SentAbove
<1>7. CASE \E k \in Handles : LatePark(k)
  <2>1. PICK k \in Handles : DropPark(k) /\ outPump' = outPump
    BY <1>7 DEF LatePark, sessionVars
  <2>2. ring' = ring /\ seen' = seen /\ phase[k] = "dropped" /\ owner[k] = k
    BY <2>1 DEF DropPark, IdsInv
  <2>3. CASE ring = <<>> /\ outPump = "closed"
    BY <2>1, <2>2, <2>3 DEF Served, SentAbove
  <2>4. CASE phase[h] \in {"idle", "acking"} /\ HasSender(h)
    <3>1. h # k /\ phase'[h] = phase[h]
      BY <1>0, <2>1, <2>2, <2>4 DEF DropPark
    <3>2. h \in DOMAIN subs /\ subs[h].tx = h
      BY <1>0, <2>4 DEF HasSender, IdsInv
    <3>3. h \in DOMAIN subs' /\ subs'[h] = subs[h]
      BY <2>1, <2>2, <3>1, <3>2 DEF DropPark, Parked
    <3>4. Served(h)'
      BY <2>4, <3>1, <3>2, <3>3 DEF Served, HasSender
    <3>5. Told(c, h)' = Told(c, h)
      BY <1>2, <2>2 DEF Told
    <3> QED
      BY <1>3, <2>2, <3>4, <3>5, SentStays
  <2> QED
    BY <2>3, <2>4 DEF Served
<1> QED
  BY <1>4, <1>5, <1>6, <1>7 DEF SessionStep

\* The pump moves what arrives into the stash and on to the terminal.
LEMMA PumpAsked ==
  ASSUME StreamTypes, OwnerInv, AskedInv, PumpStep, Connected', NEW c \in Conns, c = attempt',
         NEW n, n = asked', NEW h \in Ids, Owns(c, h)'
  PROVE  Served(h)' /\ SentAbove(n, c, h)'
<1>0. /\ DaemonTypes /\ PumpTypes /\ link'[c] = "up" /\ pump' \in {"await", "live"}
      /\ AttemptsInv /\ AttachesOnce(c) /\ h # Null
  BY HubAssumption DEF StreamTypes, Connected, Attached, OwnerInv, Ids
<1>1. CASE Connect
  <2>1. attempt = c /\ pump = "connect" /\ reader'[c] = "idle" /\ UNCHANGED <<slot, drain>>
    BY <1>0, <1>1 DEF Connect, DaemonTypes
  <2>2. slot[c] = Null /\ drain[c] = Null
    BY <1>0, <2>1 DEF AttemptsInv, AttachesOnce, Unattached
  <2> QED
    BY <1>0, <2>1, <2>2 DEF Owns, Works, Entering, Leaving
<1>2. CASE Retry
  BY <1>0, <1>2 DEF Retry
<1>3. CASE PumpFails \/ AwaitError \/ Leave
  BY <1>0, <1>3 DEF PumpFails, AwaitError, Leave, Failed, Closed
<1>4. CASE AwaitStash \/ AwaitAck \/ Show \/ Keystroke
  <2>0. /\ UNCHANGED <<hubVars, outPump, link, slot, drain, hand, reader, arg, attempt, asked>>
        /\ pump \in {"await", "live"}
    BY <1>4 DEF AwaitStash, AwaitAck, Show, Keystroke, sessionVars, attachVars, taskVars
  <2>1. attempt = c /\ asked = n /\ Connected /\ Owns(c, h)
    BY <1>0, <2>0 DEF Connected, Attached, Owns, Works
  <2>2. Served(h) /\ SentAbove(n, c, h)
    BY <2>1 DEF AskedInv, SentAbove, Sent, Told
  <2>3. toClient[c] \in Seq(Message) /\ stash \in Seq(Message) /\ shown \in Seq(Message)
    BY <1>0 DEF DaemonTypes, PumpTypes
  <2>4. \A k : Sent(k, c) => Sent(k, c)'
    <3>1. CASE Keystroke
      BY <3>1 DEF Keystroke, Sent
    <3>2. CASE AwaitStash \/ AwaitAck \/ Show
      <4>1. PICK t \in Seq(Message) : t = toClient[c] /\ t # <<>> /\ toClient'[c] = Tail(t)
        BY <1>0, <2>1, <2>3, <3>2 DEF AwaitStash, AwaitAck, Show, Received, DaemonTypes
      <4>2. Arrived = t[1] /\ t[1] \in Message
        BY <2>1, <4>1 DEF Arrived
      <4>3. \A k \in Numbers(t) : k \in Numbers(Tail(t)) \/ (t[1].msg # "ack" /\ k = t[1].seq)
        BY <4>1, NumbersTail
      <4>4. /\ Numbers(stash) \subseteq Numbers(stash') \cup Numbers(shown')
            /\ Numbers(shown) \subseteq Numbers(shown')
            /\ t[1].msg # "ack" => t[1].seq \in Numbers(stash') \cup Numbers(shown')
        <5>1. CASE AwaitStash
          <6>1. stash' = Append(stash, t[1]) /\ shown' = shown
            BY <4>2, <5>1 DEF AwaitStash
          <6> QED
            BY <2>3, <4>2, <6>1, NumbersGrow
        <5>2. CASE AwaitAck
          <6>1. shown' = shown \o stash /\ t[1].msg = "ack"
            BY <4>2, <5>2 DEF AwaitAck
          <6> QED
            BY <2>3, <4>2, <6>1, NumbersGrow
        <5>3. CASE Show
          <6>1. stash' = stash /\ shown' = Append(shown, t[1])
            BY <4>2, <5>3 DEF Show
          <6> QED
            BY <2>3, <4>2, <6>1, NumbersGrow
        <5> QED
          BY <3>2, <5>1, <5>2, <5>3
      <4>5. ASSUME NEW k, Sent(k, c) PROVE Sent(k, c)'
        <5>1. k \in Numbers(shown) \/ k \in Numbers(stash) \/ k \in Numbers(t)
          BY <4>1, <4>5 DEF Sent
        <5>2. k \in Numbers(shown') \/ k \in Numbers(stash') \/ k \in Numbers(toClient'[c])
          BY <4>1, <4>3, <4>4, <5>1
        <5> QED
          BY <5>2 DEF Sent
      <4> QED
        BY <4>5
    <3> QED
      BY <1>4, <3>1, <3>2
  <2>5. Told(c, h)' = Told(c, h) /\ ring' = ring
    BY <2>0 DEF hubVars, Told
  <2>6. Served(h)'
    BY <2>0, <2>2 DEF Served, HasSender, hubVars
  <2> QED
    BY <2>2, <2>4, <2>5, <2>6, SentStays
<1> QED
  BY <1>1, <1>2, <1>3, <1>4 DEF PumpStep

\* The requests a connection still has to serve were there before, and the cursor it
\* attaches with came with its request.
LEMMA ConnRequests ==
  ASSUME StreamTypes, OwnerInv, NEW c \in Conns, ConnStep(c)
  PROVE  /\ \A i \in 1..Len(toDaemon'[c]) : \E j \in 1..Len(toDaemon[c]) :
              toDaemon'[c][i] = toDaemon[c][j]
         /\ reader'[c] = "found" =>
              \/ reader[c] = "found" /\ arg'[c] = arg[c]
              \/ \E j \in 1..Len(toDaemon[c]) :
                   toDaemon[c][j].req = "attach" /\ arg'[c] = toDaemon[c][j].since
<1>0. DaemonTypes
  BY DEF StreamTypes
<1>1. CASE AttachLookup(c)
  <2>1. /\ \A i \in 1..Len(toDaemon'[c]) : i + 1 \in 1..Len(toDaemon[c]) /\ toDaemon'[c][i] = toDaemon[c][i + 1]
        /\ reader[c] = "idle" /\ 1 \in 1..Len(toDaemon[c]) /\ toDaemon[c][1].req = "attach"
    BY <1>1, RequestTaken DEF AttachLookup, IsRequest
  <2>2. reader'[c] = "found" => arg'[c] = toDaemon[c][1].since
    BY <1>0, <1>1, <2>1 DEF AttachLookup, DaemonTypes
  <2> QED
    BY <2>1, <2>2
<1>2. CASE Detach(c) \/ WriteCheck(c)
  <2>1. \A i \in 1..Len(toDaemon'[c]) : i + 1 \in 1..Len(toDaemon[c]) /\ toDaemon'[c][i] = toDaemon[c][i + 1]
    BY <1>2, RequestTaken DEF Detach, WriteCheck
  <2>2. reader'[c] # "found"
    BY <1>0, <1>2 DEF Detach, RemoveSlot, WriteCheck, IsRequest, DaemonTypes
  <2> QED
    BY <2>1, <2>2
<1>3. CASE ReaderEof(c)
  <2>1. toDaemon'[c] = <<>> /\ reader'[c] = "joining"
    BY <1>0, <1>3 DEF ReaderEof, DaemonTypes
  <2> QED
    BY <2>1
<1>4. CASE ~AttachLookup(c) /\ ~Detach(c) /\ ~WriteCheck(c) /\ ~ReaderEof(c)
  <2>1. toDaemon' = toDaemon
    BY <1>4 DEF ConnStep, AttachSubscribe, AttachAcquire, AttachSnapshot, AttachRecord, AttachReply,
                Release, DetachLookup, DetachInput, DetachPark, PtyWrite, WriterAttach, WriterStop,
                DrainTake, DrainAck, DrainSend, DrainEnd, DrainOver, Break, connVars
  <2>2. reader'[c] = "found" => reader[c] = "found" /\ arg'[c] = arg[c]
    <3>1. CASE QuietRequest(c) \/ Leaves(c) \/ AttachSubscribe(c)
      BY <1>0, <1>4, <3>1 DEF QuietRequest, Leaves, AttachSubscribe, AttachAcquire, AttachSnapshot,
           AttachRecord, AttachReply, Release, RemoveSlot, DetachLookup, DetachInput, DetachPark,
           Detached, PtyWrite, DaemonTypes
    <3>2. CASE QuietTask(c) \/ HubTask(c)
      BY <3>2 DEF QuietTask, HubTask, WriterAttach, WriterStop, DrainTake, DrainAck, DrainSend,
                  DrainEnd, DrainOver, Break, connVars, attachVars
    <3> QED
      BY <3>1, <3>2, ConnCases
  <2> QED
    BY <2>1, <2>2
<1> QED
  BY <1>1, <1>2, <1>3, <1>4

\* An attempt attaches with the cursor it asked to resume from.
LEMMA RequestsAsked ==
  ASSUME StreamTypes, OwnerInv, AskedInv, StreamNext, Attached'
  PROVE  /\ \A i \in 1..Len(toDaemon'[attempt']) :
              toDaemon'[attempt'][i].req = "attach" => toDaemon'[attempt'][i].since = asked'
         /\ reader'[attempt'] = "found" => arg'[attempt'] = asked'
<1>0. DaemonTypes /\ PumpTypes /\ attempt \in Conns
  BY AttachAssumption DEF StreamTypes, PumpTypes
<1>1. Attached => /\ \A i \in 1..Len(toDaemon[attempt]) :
                       toDaemon[attempt][i].req = "attach" => toDaemon[attempt][i].since = asked
                  /\ reader[attempt] = "found" => arg[attempt] = asked
  BY DEF AskedInv
<1>2. CASE SessionStep
  <2>1. UNCHANGED <<connVars, pumpVars>>
    BY <1>2 DEF SessionStep, PtyOutput, ChildExit, CloseHub, LatePark
  <2> QED
    BY <1>1, <2>1 DEF connVars, attachVars, pumpVars, Attached
<1>3. ASSUME NEW d \in Conns, ConnStep(d)
      PROVE  /\ \A i \in 1..Len(toDaemon'[attempt']) :
                  toDaemon'[attempt'][i].req = "attach" => toDaemon'[attempt'][i].since = asked'
             /\ reader'[attempt'] = "found" => arg'[attempt'] = asked'
  <2>1. UNCHANGED <<pump, attempt, asked>> /\ Attached
    BY <1>3, PumpStays DEF Attached
  <2>2. CASE d # attempt
    <3>1. Same(attempt)
      BY <1>0, <1>3, <2>2, ConnAlone
    <3> QED
      BY <1>1, <2>1, <3>1 DEF Same
  <2>3. CASE d = attempt
    <3>1. /\ \A i \in 1..Len(toDaemon'[d]) : \E j \in 1..Len(toDaemon[d]) :
               toDaemon'[d][i] = toDaemon[d][j]
          /\ reader'[d] = "found" =>
               \/ reader[d] = "found" /\ arg'[d] = arg[d]
               \/ \E j \in 1..Len(toDaemon[d]) :
                    toDaemon[d][j].req = "attach" /\ arg'[d] = toDaemon[d][j].since
      BY <1>3, ConnRequests
    <3> QED
      BY <1>1, <2>1, <2>3, <3>1
  <2> QED
    BY <2>2, <2>3
<1>4. CASE PumpStep
  <2>1. CASE Connect
    <3>1. PICK r \in Request : r = [req |-> "attach", since |-> lastSeq]
      BY <1>0 DEF PumpTypes, Request
    <3>2. /\ attempt' = attempt /\ asked' = lastSeq /\ reader'[attempt] = "idle"
          /\ toDaemon'[attempt] = <<r>>
      BY <1>0, <2>1, <3>1 DEF Connect, DaemonTypes
    <3>3. \A i \in 1..Len(<<r>>) : <<r>>[i] = r
      OBVIOUS
    <3> QED
      BY <3>1, <3>2, <3>3
  <2>2. CASE Retry \/ PumpFails \/ AwaitError \/ Leave
    BY <2>2 DEF Retry, PumpFails, AwaitError, Leave, Failed, Closed, Attached
  <2>3. CASE AwaitStash \/ AwaitAck \/ Show
    <3>1. UNCHANGED <<toDaemon, reader, arg, attempt, asked>> /\ Attached
      BY <2>3 DEF AwaitStash, AwaitAck, Show, attachVars, Attached
    <3> QED
      BY <1>1, <3>1
  <2>4. CASE Keystroke
    <3>1. /\ UNCHANGED <<reader, arg, attempt, asked>> /\ Attached
          /\ toDaemon'[attempt] = Append(toDaemon[attempt], [req |-> "write"])
          /\ toDaemon[attempt] \in Seq(Request) /\ [req |-> "write"] \in Request
      BY <1>0, <2>4 DEF Keystroke, attachVars, Attached, DaemonTypes, Request
    <3>2. \A i \in 1..Len(toDaemon'[attempt]) : toDaemon'[attempt][i].req = "attach" =>
             \E j \in 1..Len(toDaemon[attempt]) : toDaemon'[attempt][i] = toDaemon[attempt][j]
      BY <3>1, AppendAt
    <3> QED
      BY <1>1, <3>1, <3>2
  <2> QED
    BY <1>4, <2>1, <2>2, <2>3, <2>4 DEF PumpStep
<1> QED
  BY <1>2, <1>3, <1>4 DEF StreamNext

\* What the attempt asked for stays served while it is connected.
LEMMA AskedKept ==
  ASSUME StreamTypes, StreamTypes', OwnerInv, HandsInv, LossInv, StreamNext
  PROVE  AskedInv'
<1>0. /\ DaemonTypes /\ PumpTypes /\ attempt \in Conns /\ attempt' \in Conns
      /\ AskedInv /\ IdsInv /\ \A d \in Conns : LinkInv(d)
  BY AttachAssumption DEF StreamTypes, PumpTypes, LossInv
<1>1. ASSUME Connected', NEW c \in Conns, c = attempt', NEW n, n = asked', NEW h \in Ids, Owns(c, h)'
      PROVE  Served(h)' /\ SentAbove(n, c, h)'
  <2>1. CASE PumpStep
    BY <1>0, <1>1, <2>1, PumpAsked
  <2>2. ASSUME UNCHANGED <<pump, attempt, asked>>, link[c] = "up", Owns(c, h)
        PROVE  Served(h) /\ SentAbove(n, c, h)
    <3>1. Connected /\ attempt = c /\ asked = n
      BY <1>1, <2>2 DEF Connected, Attached
    <3> QED
      BY <1>0, <2>2, <3>1 DEF AskedInv, SentAbove, Sent, Told
  <2>3. CASE SessionStep
    <3>1. UNCHANGED <<connVars, pumpVars>>
      BY <2>3 DEF SessionStep, PtyOutput, ChildExit, CloseHub, LatePark
    <3>2. UNCHANGED <<pump, attempt, asked>> /\ link[c] = "up" /\ Owns(c, h)
      BY <1>1, <3>1 DEF connVars, attachVars, taskVars, pumpVars, Connected, Owns, Works
    <3> QED
      BY <1>0, <2>2, <2>3, <3>2, SessionAsked
  <2>4. ASSUME NEW d \in Conns, ConnStep(d)
        PROVE  Served(h)' /\ SentAbove(n, c, h)'
    <3>1. UNCHANGED <<pump, attempt, asked>> /\ attempt = c /\ asked = n /\ Attached
      BY <1>1, <2>4, PumpStays DEF Connected, Attached
    <3>2. link'[c] = "up"
      BY <1>1 DEF Connected
    <3>3. CASE d # c
      <4>1. Same(c)
        BY <2>4, <3>3, ConnAlone
      <4>2. link[c] = "up" /\ Owns(c, h)
        BY <1>1, <3>2, <4>1 DEF Same, Owns, Works
      <4> QED
        BY <1>0, <2>2, <2>4, <3>1, <3>3, <4>2, OthersAsked
    <3>4. CASE d = c
      <4>1. link[c] = "up"
        <5>1. CASE Break(c)
          BY <5>1 DEF Break
        <5>2. CASE ~Break(c)
          <6>1. link' = link
            BY <2>4, <3>4, <5>2 DEF ConnStep, AttachLookup, AttachSubscribe, AttachAcquire,
                 AttachSnapshot, AttachRecord, AttachReply, Detach, Release, DetachLookup, DetachInput,
                 DetachPark, WriteCheck, PtyWrite, ReaderEof, WriterAttach, WriterStop, DrainTake,
                 DrainAck, DrainSend, DrainEnd, DrainOver, connVars
          <6> QED
            BY <3>2, <6>1
        <5> QED
          BY <5>1, <5>2
      <4>2. CASE AttachSubscribe(c)
        <5>1. reader[c] = "found" /\ arg[c] = n
          BY <1>0, <3>1, <4>2 DEF AttachSubscribe, AskedInv
        <5> QED
          BY <1>1, <4>2, <5>1, SubscribeAsked
      <4>3. CASE ~AttachSubscribe(c)
        <5>1. Owns(c, h)
          BY <1>1, <2>4, <3>4, <4>3, OwnsShrinks
        <5>2. Served(h) /\ SentAbove(n, c, h)
          BY <2>2, <3>1, <4>1, <5>1
        <5>3. CASE DrainSend(c)
          BY <3>2, <5>1, <5>2, <5>3, SendAsked
        <5>4. CASE ~DrainSend(c)
          BY <1>0, <2>4, <3>2, <3>4, <4>3, <5>1, <5>2, <5>4, OwnAsked
        <5> QED
          BY <5>3, <5>4
      <4> QED
        BY <4>2, <4>3
    <3> QED
      BY <3>3, <3>4
  <2> QED
    BY <2>1, <2>3, <2>4 DEF StreamNext
<1>2. PICK c \in Conns, n \in Past' : c = attempt' /\ n = asked'
  BY <1>0 DEF StreamTypes, PumpTypes
<1>3. Connected' => \A h \in Ids : Owns(c, h)' => Served(h)' /\ SentAbove(n, c, h)'
  BY <1>1, <1>2
<1>4. Connected' => \A h \in Ids : Owns(attempt, h)' => Served(h)' /\ SentAbove(asked, attempt, h)'
  BY <1>2, <1>3 DEF Owns, Works, SentAbove, Sent, Told
<1>5. Attached' => /\ \A i \in 1..Len(toDaemon'[attempt']) :
                        toDaemon'[attempt'][i].req = "attach" => toDaemon'[attempt'][i].since = asked'
                   /\ reader'[attempt'] = "found" => arg'[attempt'] = asked'
  BY <1>0, RequestsAsked
<1> QED
  BY <1>4, <1>5 DEF AskedInv

\* All of it together.
ShowsInv == StreamTypes /\ OwnerInv /\ HandsInv /\ OrderInv /\ LossInv

\* The first state has shown nothing and lost nothing.
LEMMA ShowsStart == StreamInit => ShowsInv
<1> SUFFICES ASSUME StreamInit PROVE ShowsInv
  OBVIOUS
<1>1. StreamTypes /\ OwnerInv
  BY TypesStart, OwnersStart
<1>2. /\ shown = <<>> /\ stash = <<>> /\ pump = "connect" /\ ~Attached
      /\ \A c \in Conns : hand[c] = <<>>
  BY DEF StreamInit, Attached
<1>3. Outs(<<>>) = {}
  BY DEF Outs
<1>4. OrderInv /\ HandsInv
  BY <1>2, <1>3 DEF OrderInv, ShownInv, OriginInv, Rising, UpTo, Before, HandsInv, HandInv
<1>5. IdsInv
  BY DEF StreamInit, HubInit, IdsInv, Owns, Ids, Works, Entering, Leaving
<1>6. \A c \in Conns : LinkInv(c)
  BY DEF StreamInit, LinkInv, Leaving
<1>7. AskedInv
  BY <1>2 DEF AskedInv, Connected
<1> QED
  BY <1>1, <1>4, <1>5, <1>6, <1>7 DEF ShowsInv, LossInv

\* Every step keeps it.
LEMMA ShowsKept == ShowsInv /\ [StreamNext]_streamVars => ShowsInv'
<1> SUFFICES ASSUME ShowsInv, [StreamNext]_streamVars PROVE ShowsInv'
  OBVIOUS
<1>0. StreamTypes /\ OwnerInv /\ HandsInv /\ OrderInv /\ LossInv
  BY DEF ShowsInv
<1>1. CASE StreamNext
  <2>1. StreamTypes'
    BY <1>0, <1>1, TypesStay
  <2>2. OwnerInv' /\ HandsInv' /\ OrderInv'
    BY <1>0, <1>1, <2>1, OwnersKept, HandsKept, OrderKept
  <2>3. IdsInv' /\ AskedInv'
    BY <1>0, <1>1, <2>1, IdsKept, AskedKept DEF LossInv
  <2>4. \A d \in Conns : LinkInv(d)'
    BY <1>0, <1>1, LinkKept DEF LossInv
  <2> QED
    BY <2>1, <2>2, <2>3, <2>4 DEF ShowsInv, LossInv
<1>2. CASE UNCHANGED streamVars
  <2>1. StreamTypes' /\ OwnerInv'
    BY <1>0, <1>2, StreamStutter
  <2>2. UNCHANGED <<hubVars, sessionVars, connVars, pumpVars>>
    BY <1>2 DEF streamVars
  <2>3. UNCHANGED <<link, toDaemon, toClient, reader, arg, slot, drain, hand, woken, outPump,
                    pump, attempt, lastSeq, asked, stash, shown, subs, owner, phase, seen, ring>>
    BY <2>2 DEF hubVars, sessionVars, connVars, attachVars, taskVars, pumpVars
  <2>4. ShownInv' /\ OriginInv' /\ HandsInv'
    BY <1>0, <2>3 DEF OrderInv, ShownInv, OriginInv, HandsInv, HandInv, Attached, Owns, Works, Held, Told
  <2>5. IdsInv' /\ \A d \in Conns : LinkInv(d)'
    BY <1>0, <2>3 DEF LossInv, IdsInv, LinkInv, Owns, Works
  <2>6. AskedInv'
    BY <1>0, <2>3 DEF LossInv, AskedInv, Connected, Attached, Owns, Works, Served, HasSender, SentAbove,
                      Told, Sent
  <2> QED
    BY <2>1, <2>4, <2>5, <2>6 DEF ShowsInv, OrderInv, LossInv
<1> QED
  BY <1>1, <1>2

\* What the ring holds above the cursor is told, in hand, or in the channel.
LEMMA NothingIsLost == ShowsInv => NothingLostInFlight
<1> SUFFICES ASSUME ShowsInv, Connected, slot[attempt] # Null, NEW i \in 1..Len(ring),
                    ring[i].seq > asked
             PROVE  ring[i].seq \in InFlight(attempt)
  BY DEF NothingLostInFlight, Connected, Attached
<1>0. /\ HubInv /\ DaemonTypes /\ phase \in [Handles -> Phases] /\ seen \in [Handles -> Nat]
      /\ nextSeq \in Nat /\ Len(ring) \in Nat /\ queue \in [Handles -> Seq(Event)]
      /\ attempt \in Conns /\ AskedInv /\ HandsInv /\ asked \in Int /\ OwnerInv
  BY AttachAssumption DEF ShowsInv, StreamTypes, HubInv, HubTypes, PumpTypes, Past, LossInv
<1>1. PICK c \in Conns, h \in Ids : c = attempt /\ h = slot[c]
  BY <1>0 DEF DaemonTypes
<1>2. h \in Handles /\ Owns(c, h) /\ h # Null
  BY <1>1, HubAssumption DEF Ids, Owns
<1>3. PICK n \in Int : n = ring[i].seq /\ n <= nextSeq - 1
  <2>1. InOrder(ring, nextSeq - 1 - Len(ring))
    BY <1>0 DEF HubInv, RingInv
  <2>2. ring[i].seq = nextSeq - 1 - Len(ring) + i
    BY <2>1 DEF InOrder
  <2>3. nextSeq - 1 - Len(ring) + i \in Int /\ nextSeq - 1 - Len(ring) + i <= nextSeq - 1
    BY <1>0
  <2> QED
    BY <2>2, <2>3
<1>4. asked < n
  BY <1>0, <1>3
<1>5. Served(h) /\ (n <= Told(c, h) => Sent(n, c))
  <2>1. Served(h) /\ SentAbove(asked, attempt, h)
    BY <1>0, <1>1, <1>2 DEF AskedInv
  <2> QED
    BY <1>1, <1>3, <1>4, <2>1 DEF SentAbove, Told, Sent
<1>6. phase[h] \in {"idle", "acking"} /\ HasSender(h)
  <2>1. ring # <<>>
    OBVIOUS
  <2> QED
    BY <1>5, <2>1 DEF Served
<1>7. /\ InOrder(queue[h], seen[h]) /\ seen[h] + Len(queue[h]) = nextSeq - 1
      /\ seen[h] \in Nat /\ Len(queue[h]) \in Nat
  BY <1>0, <1>2, <1>6 DEF HubInv, ReaderInv, Held
<1>8. CASE n <= Told(c, h)
  BY <1>1, <1>3, <1>5, <1>8 DEF Sent, Numbers, InFlight
<1>9. CASE drain[c] = h /\ hand[c] # <<>> /\ n = seen[h]
  <2>1. Len(hand[c]) = 1 /\ hand[c][1].msg \in {"out", "gap"} /\ hand[c][1].seq = n
    BY <1>0, <1>9 DEF HandsInv, HandInv
  <2>2. 1 \in 1..Len(hand[c]) /\ hand[c][1].msg # "ack"
    BY <2>1
  <2> QED
    BY <1>1, <1>3, <2>1, <2>2 DEF InFlight
<1>10. CASE n > seen[h]
  <2>1. n - seen[h] \in 1..Len(queue[h])
    BY <1>3, <1>7, <1>10
  <2>2. queue[h][n - seen[h]].seq = n
    BY <1>3, <1>7, <2>1 DEF InOrder
  <2> QED
    BY <1>1, <1>3, <2>1, <2>2 DEF InFlight
<1>11. n <= Told(c, h) \/ (drain[c] = h /\ hand[c] # <<>> /\ n = seen[h]) \/ n > seen[h]
  <2>1. CASE drain[c] = h /\ hand[c] # <<>>
    <3>1. Told(c, h) = seen[h] - 1
      BY <2>1 DEF Told
    <3>2. n <= seen[h] - 1 \/ n = seen[h] \/ n > seen[h]
      BY <1>3, <1>7
    <3> QED
      BY <2>1, <3>1, <3>2
  <2>2. CASE ~(drain[c] = h /\ hand[c] # <<>>)
    <3>1. Told(c, h) = seen[h]
      BY <2>2 DEF Told
    <3> QED
      BY <1>3, <1>7, <3>1
  <2> QED
    BY <2>1, <2>2
<1> QED
  BY <1>8, <1>9, <1>10, <1>11

\* The terminal shows the chunks of its session in order and none twice, through a
\* reconnect whose first connection is still being served; and while an attempt is
\* connected none that the ring holds above the cursor it asked from is missing.  What lies
\* below that cursor is not part of the claim: la-tui/attach_pump.rs over
\* la-daemon/dispatcher.rs and la-ipc/hub.rs.
THEOREM TerminalMissesNothing == StreamSpec => []NothingLostOrRepeated
<1>1. ShowsInv => NothingLostOrRepeated
  <2>1. ShowsInv => ShownInOrder
    BY DEF ShowsInv, OrderInv, ShownInv, Rising, Outs, ShownInOrder
  <2> QED
    BY <2>1, NothingIsLost DEF NothingLostOrRepeated
<1> QED
  BY ShowsStart, ShowsKept, <1>1, PTL DEF StreamSpec

-----------------------------------------------------------------------------
(* Sums over a sequence *)

\* f is the running sum of the lengths in s.
IsSum(f, s, n) ==
  /\ f \in [0..n -> Nat] /\ f[0] = 0
  /\ \A i \in 1..n : f[i] = f[i - 1] + s[i].len

\* There is a running sum.
LEMMA SumExists ==
  ASSUME NEW s, NEW m \in Nat, \A i \in 1..m : s[i].len \in Nat
  PROVE  \E f : IsSum(f, s, m)
<1> DEFINE T == {n \in Nat : n <= m => \E f : IsSum(f, s, n)}
<1>1. 0 \in T
  <2>1. IsSum([i \in 0..0 |-> 0], s, 0)
    BY DEF IsSum
  <2> QED
    BY <2>1
<1>2. ASSUME NEW n \in Nat, n \in T PROVE n + 1 \in T
  <2> SUFFICES ASSUME n + 1 <= m PROVE \E f : IsSum(f, s, n + 1)
    OBVIOUS
  <2>1. PICK f : IsSum(f, s, n)
    BY <1>2
  <2>2. PICK g : g = [i \in 0..(n + 1) |-> IF i <= n THEN f[i] ELSE f[n] + s[n + 1].len]
    OBVIOUS
  <2>3. s[n + 1].len \in Nat /\ f[n] \in Nat /\ f \in [0..n -> Nat]
    BY <2>1 DEF IsSum
  <2>4. g \in [0..(n + 1) -> Nat] /\ g[0] = 0
    BY <2>1, <2>2, <2>3 DEF IsSum
  <2>5. ASSUME NEW i \in 1..(n + 1) PROVE g[i] = g[i - 1] + s[i].len
    <3>1. CASE i = n + 1
      BY <2>2, <3>1
    <3>2. CASE i # n + 1
      <4>1. i \in 1..n /\ i - 1 \in 0..n /\ i \in 0..n
        BY <3>2
      <4>2. f[i] = f[i - 1] + s[i].len
        BY <2>1, <4>1 DEF IsSum
      <4> QED
        BY <2>2, <4>1, <4>2
    <3> QED
      BY <3>1, <3>2
  <2>6. IsSum(g, s, n + 1)
    BY <2>4, <2>5 DEF IsSum
  <2> QED
    BY <2>6
<1> HIDE DEF T
<1>3. Nat \subseteq T
  BY <1>1, <1>2, SetInduction
<1> QED
  BY <1>3 DEF T

\* Bytes is the last of the running sum.
LEMMA BytesIsSum ==
  ASSUME NEW s, Len(s) \in Nat, \A i \in 1..Len(s) : s[i].len \in Nat
  PROVE  \E f : IsSum(f, s, Len(s)) /\ Bytes(s) = f[Len(s)]
<1> DEFINE up == CHOOSE f : f = [i \in 0..Len(s) |-> IF i = 0 THEN 0 ELSE f[i - 1] + s[i].len]
<1>1. Bytes(s) = up[Len(s)]
  BY DEF Bytes
<1>2. \E f : f = [i \in 0..Len(s) |-> IF i = 0 THEN 0 ELSE f[i - 1] + s[i].len]
  <2>1. PICK f : IsSum(f, s, Len(s))
    BY SumExists
  <2>2. f = [i \in 0..Len(s) |-> IF i = 0 THEN 0 ELSE f[i - 1] + s[i].len]
    BY <2>1 DEF IsSum
  <2> QED
    BY <2>2
<1>3. up = [i \in 0..Len(s) |-> IF i = 0 THEN 0 ELSE up[i - 1] + s[i].len]
  BY <1>2
<1> HIDE DEF up
<1>4. up[0] = 0 /\ \A i \in 1..Len(s) : up[i] = up[i - 1] + s[i].len
  BY <1>3
<1> DEFINE T == {n \in Nat : n <= Len(s) => up[n] \in Nat}
<1>5. 0 \in T
  BY <1>4
<1>6. ASSUME NEW n \in Nat, n \in T PROVE n + 1 \in T
  <2> SUFFICES ASSUME n + 1 <= Len(s) PROVE up[n + 1] \in Nat
    OBVIOUS
  <2>1. n + 1 \in 1..Len(s) /\ up[n] \in Nat
    BY <1>6
  <2>2. up[n + 1] = up[n + 1 - 1] + s[n + 1].len /\ n + 1 - 1 = n
    BY <1>4, <2>1
  <2> QED
    BY <2>1, <2>2
<1> HIDE DEF T
<1>7. Nat \subseteq T
  BY <1>5, <1>6, SetInduction
<1>8. \A n \in 0..Len(s) : up[n] \in Nat
  BY <1>7 DEF T
<1>9. IsSum(up, s, Len(s))
  <2>1. up \in [0..Len(s) -> Nat]
    BY <1>3, <1>8
  <2> QED
    BY <1>4, <2>1 DEF IsSum
<1> QED
  BY <1>1, <1>9

SameLens(s, t, n) == \A i \in 1..n : s[i].len = t[i].len

\* Running sums of the same lengths are the same.
LEMMA SumIsOne ==
  ASSUME NEW s, NEW t, NEW f, NEW g, NEW n \in Nat, NEW m \in Nat, n <= m,
         IsSum(f, s, n), IsSum(g, t, m), SameLens(s, t, n)
  PROVE  f[n] = g[n]
<1> DEFINE T == {k \in Nat : k <= n => f[k] = g[k]}
<1>1. 0 \in T
  BY DEF IsSum
<1>2. ASSUME NEW k \in Nat, k \in T PROVE k + 1 \in T
  <2> SUFFICES ASSUME k + 1 <= n PROVE f[k + 1] = g[k + 1]
    OBVIOUS
  <2>1. k + 1 \in 1..n /\ k + 1 \in 1..m /\ k + 1 - 1 = k /\ f[k] = g[k]
    BY <1>2
  <2>2. f[k + 1] = f[k + 1 - 1] + s[k + 1].len /\ g[k + 1] = g[k + 1 - 1] + t[k + 1].len
    BY <2>1 DEF IsSum
  <2> QED
    BY <2>1, <2>2 DEF SameLens
<1> HIDE DEF T
<1>3. Nat \subseteq T
  BY <1>1, <1>2, SetInduction
<1> QED
  BY <1>3 DEF T

\* Every entry has a length.
Measured(s) == Len(s) \in Nat /\ \A i \in 1..Len(s) : s[i].len \in Nat

\* The end of a running sum, whichever it is.
LEMMA BytesOf ==
  ASSUME NEW s, NEW t, NEW g, Measured(s), Len(t) \in Nat, Len(s) <= Len(t),
         IsSum(g, t, Len(t)), SameLens(s, t, Len(s))
  PROVE  Bytes(s) = g[Len(s)] /\ Bytes(s) \in Nat
<1>0. Len(s) \in Nat
  BY DEF Measured
<1>1. PICK f : IsSum(f, s, Len(s)) /\ Bytes(s) = f[Len(s)]
  BY BytesIsSum DEF Measured
<1>2. f[Len(s)] = g[Len(s)]
  BY <1>0, <1>1, SumIsOne
<1>3. f[Len(s)] \in Nat
  BY <1>0, <1>1 DEF IsSum
<1> QED
  BY <1>1, <1>2, <1>3

\* One more, one sum more.
LEMMA BytesAppend ==
  ASSUME NEW s, NEW t, Len(s) \in Nat, Len(t) = Len(s) + 1, Measured(t), SameLens(s, t, Len(s))
  PROVE  Bytes(s) \in Nat /\ Bytes(t) = Bytes(s) + t[Len(t)].len
<1>0. /\ Len(t) \in Nat /\ Len(s) <= Len(t) /\ Len(t) \in 1..Len(t) /\ Len(t) - 1 = Len(s)
  OBVIOUS
<1>1. Measured(s)
  BY DEF Measured, SameLens
<1>2. PICK g : IsSum(g, t, Len(t)) /\ Bytes(t) = g[Len(t)]
  BY BytesIsSum DEF Measured
<1>3. Bytes(s) = g[Len(s)] /\ Bytes(s) \in Nat
  BY <1>0, <1>1, <1>2, BytesOf
<1>4. g[Len(t)] = g[Len(t) - 1] + t[Len(t)].len
  BY <1>0, <1>2 DEF IsSum
<1> QED
  BY <1>0, <1>2, <1>3, <1>4

\* One less, one sum less.
LEMMA BytesTail ==
  ASSUME NEW s, NEW t, Len(t) \in Nat, Len(s) = Len(t) + 1,
         \A i \in 1..Len(s) : s[i].len \in Nat, \A i \in 1..Len(t) : t[i].len = s[i + 1].len
  PROVE  Bytes(t) \in Nat /\ Bytes(s) = s[1].len + Bytes(t)
<1>0. /\ \A i \in 1..Len(t) : t[i].len \in Nat
      /\ Len(s) \in Nat /\ s[1].len \in Nat /\ 1 \in 1..Len(s)
  <2>1. \A i \in 1..Len(t) : i + 1 \in 1..Len(s)
    OBVIOUS
  <2> QED
    BY <2>1
<1>1. PICK f : IsSum(f, s, Len(s)) /\ Bytes(s) = f[Len(s)]
  BY <1>0, BytesIsSum
<1>2. PICK g : IsSum(g, t, Len(t)) /\ Bytes(t) = g[Len(t)]
  BY <1>0, BytesIsSum
<1> DEFINE T == {k \in Nat : k <= Len(t) => f[k + 1] = s[1].len + g[k]}
<1>3. 0 \in T
  <2>1. f[1] = f[1 - 1] + s[1].len /\ f[0] = 0 /\ g[0] = 0 /\ 1 - 1 = 0 /\ 0 + 1 = 1
    BY <1>0, <1>1, <1>2 DEF IsSum
  <2> QED
    BY <1>0, <2>1
<1>4. ASSUME NEW k \in Nat, k \in T PROVE k + 1 \in T
  <2> SUFFICES ASSUME k + 1 <= Len(t) PROVE f[k + 1 + 1] = s[1].len + g[k + 1]
    OBVIOUS
  <2>1. /\ k + 1 \in 1..Len(t) /\ k + 1 + 1 \in 1..Len(s) /\ k + 1 - 1 = k /\ k + 1 + 1 - 1 = k + 1
        /\ f[k + 1] = s[1].len + g[k]
    BY <1>4
  <2>2. f[k + 1 + 1] = f[k + 1 + 1 - 1] + s[k + 1 + 1].len /\ g[k + 1] = g[k + 1 - 1] + t[k + 1].len
    BY <1>1, <1>2, <2>1 DEF IsSum
  <2>3. g[k] \in Nat /\ t[k + 1].len \in Nat /\ t[k + 1].len = s[k + 1 + 1].len
    BY <1>0, <1>2, <2>1 DEF IsSum
  <2> QED
    BY <1>0, <2>1, <2>2, <2>3
<1> HIDE DEF T
<1>5. Nat \subseteq T
  BY <1>3, <1>4, SetInduction
<1>6. f[Len(t) + 1] = s[1].len + g[Len(t)] /\ g[Len(t)] \in Nat
  BY <1>2, <1>5 DEF T, IsSum
<1> QED
  BY <1>1, <1>2, <1>6

\* The charge after each of the first i chunks.
IsCharge(f, s, n) ==
  /\ f \in [0..n -> 0..QueueBytes] /\ f[0] = 0
  /\ \A i \in 1..n : f[i] = Charged(f[i - 1], s[i])

\* A charge stays within the budget.
LEMMA ChargeFits ==
  ASSUME NEW charge \in 0..QueueBytes, NEW c, c.len \in Nat
  PROVE  Charged(charge, c) \in 0..QueueBytes
  BY HubAssumption DEF Charged

\* There is a running charge.
LEMMA ChargeExists ==
  ASSUME NEW s, NEW m \in Nat, \A i \in 1..m : s[i].len \in Nat
  PROVE  \E f : IsCharge(f, s, m)
<1> DEFINE T == {n \in Nat : n <= m => \E f : IsCharge(f, s, n)}
<1>1. 0 \in T
  <2>1. IsCharge([i \in 0..0 |-> 0], s, 0)
    BY HubAssumption DEF IsCharge
  <2> QED
    BY <2>1
<1>2. ASSUME NEW n \in Nat, n \in T PROVE n + 1 \in T
  <2> SUFFICES ASSUME n + 1 <= m PROVE \E f : IsCharge(f, s, n + 1)
    OBVIOUS
  <2>1. PICK f : IsCharge(f, s, n)
    BY <1>2
  <2>2. PICK g : g = [i \in 0..(n + 1) |-> IF i <= n THEN f[i] ELSE Charged(f[n], s[n + 1])]
    OBVIOUS
  <2>3. s[n + 1].len \in Nat /\ f[n] \in 0..QueueBytes /\ f \in [0..n -> 0..QueueBytes] /\ f[0] = 0
    BY <2>1 DEF IsCharge
  <2>4. Charged(f[n], s[n + 1]) \in 0..QueueBytes
    BY <2>3, ChargeFits
  <2>5. g \in [0..(n + 1) -> 0..QueueBytes] /\ g[0] = 0
    BY <2>2, <2>3, <2>4
  <2>6. ASSUME NEW i \in 1..(n + 1) PROVE g[i] = Charged(g[i - 1], s[i])
    <3>1. CASE i = n + 1
      <4>1. g[i] = Charged(f[n], s[n + 1]) /\ i - 1 = n /\ g[n] = f[n]
        BY <2>2, <3>1
      <4> QED
        BY <3>1, <4>1
    <3>2. CASE i # n + 1
      <4>1. i \in 1..n /\ i - 1 \in 0..n /\ i \in 0..n
        BY <3>2
      <4>2. f[i] = Charged(f[i - 1], s[i]) /\ g[i] = f[i] /\ g[i - 1] = f[i - 1]
        BY <2>1, <2>2, <4>1 DEF IsCharge
      <4> QED
        BY <4>2
    <3> QED
      BY <3>1, <3>2
  <2>7. IsCharge(g, s, n + 1)
    BY <2>5, <2>6 DEF IsCharge
  <2> QED
    BY <2>7
<1> HIDE DEF T
<1>3. Nat \subseteq T
  BY <1>1, <1>2, SetInduction
<1> QED
  BY <1>3 DEF T

\* ChargeAfter is one.
LEMMA ChargeAfterIs ==
  ASSUME NEW s, Len(s) \in Nat, \A i \in 1..Len(s) : s[i].len \in Nat
  PROVE  IsCharge(ChargeAfter(s), s, Len(s))
<1> DEFINE after == CHOOSE f : f = [i \in 0..Len(s) |-> IF i = 0 THEN 0 ELSE Charged(f[i - 1], s[i])]
<1>1. ChargeAfter(s) = after
  BY DEF ChargeAfter
<1>2. \E f : f = [i \in 0..Len(s) |-> IF i = 0 THEN 0 ELSE Charged(f[i - 1], s[i])]
  <2>1. PICK f : IsCharge(f, s, Len(s))
    BY ChargeExists
  <2>2. f = [i \in 0..Len(s) |-> IF i = 0 THEN 0 ELSE Charged(f[i - 1], s[i])]
    BY <2>1 DEF IsCharge
  <2> QED
    BY <2>2
<1>3. after = [i \in 0..Len(s) |-> IF i = 0 THEN 0 ELSE Charged(after[i - 1], s[i])]
  BY <1>2
<1> HIDE DEF after
<1>4. after[0] = 0 /\ \A i \in 1..Len(s) : after[i] = Charged(after[i - 1], s[i])
  BY <1>3
<1> DEFINE T == {n \in Nat : n <= Len(s) => after[n] \in 0..QueueBytes}
<1>5. 0 \in T
  BY <1>4, HubAssumption
<1>6. ASSUME NEW n \in Nat, n \in T PROVE n + 1 \in T
  <2> SUFFICES ASSUME n + 1 <= Len(s) PROVE after[n + 1] \in 0..QueueBytes
    OBVIOUS
  <2>1. n + 1 \in 1..Len(s) /\ after[n] \in 0..QueueBytes /\ s[n + 1].len \in Nat /\ n + 1 - 1 = n
    BY <1>6
  <2>2. after[n + 1] = Charged(after[n], s[n + 1])
    BY <1>4, <2>1
  <2> QED
    BY <2>1, <2>2, ChargeFits
<1> HIDE DEF T
<1>7. Nat \subseteq T
  BY <1>5, <1>6, SetInduction
<1>8. \A n \in 0..Len(s) : after[n] \in 0..QueueBytes
  BY <1>7 DEF T
<1>9. after \in [0..Len(s) -> 0..QueueBytes]
  BY <1>3, <1>8
<1> QED
  BY <1>1, <1>4, <1>9 DEF IsCharge

-----------------------------------------------------------------------------
(* The charge of a subscription is exact *)

\* What a channel carries has lengths.
LEMMA CarriedIs ==
  ASSUME NEW q \in Seq(Event)
  PROVE  /\ Len(Carried(q)) = Len(q) /\ Len(q) \in Nat /\ Measured(Carried(q))
         /\ \A i \in 1..Len(q) : Carried(q)[i].len = IF q[i].gap THEN 0 ELSE q[i].len
<1>1. \A i \in 1..Len(q) : q[i] \in Event
  OBVIOUS
<1>2. \A i \in 1..Len(q) : /\ [q[i] EXCEPT !.len = IF q[i].gap THEN 0 ELSE @] \in Event
                           /\ [q[i] EXCEPT !.len = IF q[i].gap THEN 0 ELSE @].len
                                = IF q[i].gap THEN 0 ELSE q[i].len
  BY <1>1 DEF Event
<1>3. Len(q) \in Nat
  OBVIOUS
<1>4. Carried(q) \in Seq(Event) /\ Len(Carried(q)) = Len(q)
  BY <1>2, <1>3 DEF Carried
<1>5. \A i \in 1..Len(q) : Carried(q)[i].len = IF q[i].gap THEN 0 ELSE q[i].len
  BY <1>2 DEF Carried
<1>6. \A i \in 1..Len(Carried(q)) : Carried(q)[i].len \in Nat
  BY <1>1, <1>4, <1>5 DEF Event
<1> QED
  BY <1>3, <1>4, <1>5, <1>6 DEF Measured

\* What an event is charged for.
Due(e) == IF e.gap THEN 0 ELSE e.len

\* An event more.
LEMMA CarriedAppend ==
  ASSUME NEW q \in Seq(Event), NEW e \in Event
  PROVE  /\ Bytes(Carried(q)) \in Nat /\ Due(e) \in Nat
         /\ Bytes(Carried(Append(q, e))) = Bytes(Carried(q)) + Due(e)
<1>1. PICK r \in Seq(Event) : r = Append(q, e)
  BY AppendAt
<1>2. /\ Len(r) = Len(q) + 1 /\ r[Len(q) + 1] = e /\ Len(q) \in Nat
      /\ \A i \in 1..Len(q) : r[i] = q[i]
  BY <1>1, AppendAt
<1>3. PICK s, t : s = Carried(q) /\ t = Carried(r)
  OBVIOUS
<1>4. /\ Len(s) = Len(q) /\ Len(t) = Len(r) /\ Measured(t)
      /\ \A i \in 1..Len(q) : s[i].len = IF q[i].gap THEN 0 ELSE q[i].len
      /\ \A i \in 1..Len(r) : t[i].len = IF r[i].gap THEN 0 ELSE r[i].len
  BY <1>3, CarriedIs
<1>5. SameLens(s, t, Len(s)) /\ t[Len(t)].len = Due(e) /\ Len(t) = Len(s) + 1 /\ Len(s) \in Nat
  BY <1>2, <1>4 DEF SameLens, Due
<1>6. Bytes(s) \in Nat /\ Bytes(t) = Bytes(s) + t[Len(t)].len
  BY <1>4, <1>5, BytesAppend
<1>7. Due(e) \in Nat
  BY DEF Event, Due
<1> QED
  BY <1>1, <1>3, <1>5, <1>6, <1>7

\* An event less.
LEMMA CarriedTail ==
  ASSUME NEW q \in Seq(Event), q # <<>>
  PROVE  /\ Bytes(Carried(Tail(q))) \in Nat /\ Due(q[1]) \in Nat
         /\ Bytes(Carried(q)) = Due(q[1]) + Bytes(Carried(Tail(q)))
<1>1. PICK r \in Seq(Event) : r = Tail(q)
  BY TailAt
<1>2. /\ Len(r) = Len(q) - 1 /\ Len(q) \in Nat /\ Len(q) # 0
      /\ \A i \in 1..Len(r) : i + 1 \in 1..Len(q) /\ r[i] = q[i + 1]
  BY <1>1, TailAt
<1>3. PICK s, t : s = Carried(q) /\ t = Carried(r)
  OBVIOUS
<1>4. /\ Len(s) = Len(q) /\ Len(t) = Len(r) /\ Measured(s)
      /\ \A i \in 1..Len(q) : s[i].len = IF q[i].gap THEN 0 ELSE q[i].len
      /\ \A i \in 1..Len(r) : t[i].len = IF r[i].gap THEN 0 ELSE r[i].len
  BY <1>3, CarriedIs
<1>5. /\ \A i \in 1..Len(t) : t[i].len = s[i + 1].len
      /\ s[1].len = Due(q[1]) /\ Len(s) = Len(t) + 1 /\ Len(t) \in Nat
  BY <1>2, <1>4 DEF Due
<1>6. \A i \in 1..Len(s) : s[i].len \in Nat
  BY <1>4 DEF Measured
<1>7. Bytes(t) \in Nat /\ Bytes(s) = s[1].len + Bytes(t)
  BY <1>5, <1>6, BytesTail
<1>8. Due(q[1]) \in Nat
  <2>1. q[1] \in Event
    OBVIOUS
  <2> QED
    BY <2>1 DEF Event, Due
<1> QED
  BY <1>1, <1>3, <1>5, <1>7, <1>8

\* A replay is charged for what it carries.
LEMMA ReplayCharge ==
  ASSUME NEW s \in Seq(Chunk), Replayed(s) \in Seq(Event), Len(Replayed(s)) = Len(s)
  PROVE  /\ ChargeAfter(s)[Len(s)] \in 0..QueueBytes
         /\ Bytes(Carried(Replayed(s))) = ChargeAfter(s)[Len(s)]
<1>0. Len(s) \in Nat /\ \A i \in 1..Len(s) : s[i].len \in Nat
  <2>1. \A i \in 1..Len(s) : s[i] \in Chunk
    OBVIOUS
  <2> QED
    BY <2>1 DEF Chunk
<1>1. PICK a : a = ChargeAfter(s) /\ IsCharge(a, s, Len(s))
  BY <1>0, ChargeAfterIs
<1>2. PICK r \in Seq(Event) : r = Replayed(s) /\ Len(r) = Len(s)
  OBVIOUS
<1>3. \A i \in 1..Len(s) : /\ r[i].len = s[i].len
                           /\ r[i].gap = (a[i - 1] + s[i].len > QueueBytes)
  BY <1>1, <1>2 DEF Replayed, Pushed
<1>4. PICK t : t = Carried(r)
  OBVIOUS
<1>5. /\ Len(t) = Len(s) /\ Measured(t)
      /\ \A i \in 1..Len(s) : t[i].len = IF a[i - 1] + s[i].len > QueueBytes THEN 0 ELSE s[i].len
  BY <1>2, <1>3, <1>4, CarriedIs
<1>6. PICK g : IsSum(g, t, Len(s)) /\ Bytes(t) = g[Len(s)]
  BY <1>5, BytesIsSum DEF Measured
<1> DEFINE T == {k \in Nat : k <= Len(s) => g[k] = a[k]}
<1>7. 0 \in T
  BY <1>1, <1>6 DEF IsCharge, IsSum
<1>8. ASSUME NEW k \in Nat, k \in T PROVE k + 1 \in T
  <2> SUFFICES ASSUME k + 1 <= Len(s) PROVE g[k + 1] = a[k + 1]
    OBVIOUS
  <2>1. k + 1 \in 1..Len(s) /\ k + 1 - 1 = k /\ g[k] = a[k]
    BY <1>0, <1>8
  <2>2. g[k + 1] = g[k] + t[k + 1].len /\ a[k + 1] = Charged(a[k], s[k + 1]) /\ a[k] \in Int
    <3>1. g[k + 1] = g[k + 1 - 1] + t[k + 1].len
      BY <1>6, <2>1 DEF IsSum
    <3>2. a[k + 1] = Charged(a[k + 1 - 1], s[k + 1]) /\ a[k] \in 0..QueueBytes
      <4>1. k \in 0..Len(s)
        BY <1>0, <2>1
      <4>2. a \in [0..Len(s) -> 0..QueueBytes] /\ \A i \in 1..Len(s) : a[i] = Charged(a[i - 1], s[i])
        BY <1>1 DEF IsCharge
      <4>3. a[k] \in 0..QueueBytes
        BY <4>1, <4>2
      <4>4. a[k + 1] = Charged(a[k + 1 - 1], s[k + 1])
        BY <2>1, <4>2
      <4> QED
        BY <4>3, <4>4
    <3> QED
      BY <2>1, <3>1, <3>2, HubAssumption
  <2>3. t[k + 1].len = IF a[k] + s[k + 1].len > QueueBytes THEN 0 ELSE s[k + 1].len
    BY <1>5, <2>1
  <2> QED
    BY <2>1, <2>2, <2>3 DEF Charged
<1> HIDE DEF T
<1>9. Nat \subseteq T
  BY <1>7, <1>8, SetInduction
<1>10. g[Len(s)] = a[Len(s)] /\ a[Len(s)] \in 0..QueueBytes
  BY <1>0, <1>1, <1>9 DEF T, IsCharge
<1> QED
  BY <1>1, <1>2, <1>4, <1>6, <1>10

\* Who owes and who is owed.
AccountInv ==
  /\ \A h \in Handles : phase[h] \in {"unused", "idle", "ended"} => owed[h] = 0
  /\ \A h \in Handles : (h \in DOMAIN subs /\ subs[h].tx = h /\ Held(h)) =>
       subs[h].queued = owed[h] + Bytes(Carried(queue[h]))

SoundInv == HubTypeOK /\ AccountInv

\* What a step of the stream may do to the hub.
LEMMA HubSteps ==
  ASSUME StreamTypes, OwnerInv, StreamNext
  PROVE  \/ UNCHANGED hubVars
         \/ \E len \in Lens : Publish(len, FALSE)
         \/ \E k \in Ids, since \in Past : Subscribe(k, since) /\ k = nextSub
         \/ Close
         \/ \E h \in Handles : Take(h) \/ Ack(h) \/ End(h) \/ Drop(h) \/ DropPark(h)
         \/ \E c \in Conns, s \in Ids : arg[c] = s /\ Detached(c) /\ subs' \in {subs, Parked(s)}
<1>0. DaemonTypes
  BY DEF StreamTypes
<1>1. ASSUME NEW c \in Conns, AttachSubscribe(c)
      PROVE  \E k \in Ids, since \in Past : Subscribe(k, since) /\ k = nextSub
  <2>1. arg[c] \in Past
    BY <1>0, <1>1 DEF AttachSubscribe, DaemonTypes
  <2>2. nextSub \in Ids
    BY <1>1 DEF AttachSubscribe, Subscribe, Ids
  <2> QED
    BY <1>1, <2>1, <2>2 DEF AttachSubscribe
<1>2. ASSUME NEW c \in Conns, Leaves(c), ~UNCHANGED hubVars
      PROVE  \E s \in Ids : arg[c] = s /\ Detached(c) /\ subs' \in {subs, Parked(s)}
  <2>1. arg[c] \in Ids
    BY <1>0, <1>2 DEF Leaves, DetachLookup, DetachPark, DaemonTypes, Works, Leaving
  <2>2. Detached(c) /\ (subs' = subs \/ subs' = Parked(arg[c]))
    BY <1>2 DEF Leaves, DetachLookup, DetachPark
  <2> QED
    BY <2>1, <2>2
<1>3. CASE \A c \in Conns : ~AttachSubscribe(c) /\ ~Leaves(c)
  BY <1>3, HubStepOf
<1> QED
  BY <1>1, <1>2, <1>3

Stored == [seq : 1..MaxSeq, len : Lens]

Sending == [seq : 1..MaxSeq, len : Lens, gap : BOOLEAN]

Entry == [tx : Handles \cup {Null}, queued : 0..QueueBytes, parked : Nat \cup {Null}]

\* Entries that are cut off or go, handles that go: the accounts stay.
LEMMA SoundStays ==
  ASSUME SoundInv, UNCHANGED <<nextSeq, publishing, owner, now>>, ring' \in {ring, <<>>},
         DOMAIN subs' \subseteq DOMAIN subs,
         \A s \in DOMAIN subs' : subs'[s] = subs[s] \/ (subs'[s] \in Entry /\ subs'[s].tx = Null),
         phase' \in [Handles -> Phases], owed' \in [Handles -> Nat],
         queue' \in [Handles -> Seq(Sending)], seen' \in [Handles -> 0..MaxSeq],
         \A h \in Handles :
           /\ Held(h)' => Held(h) /\ queue'[h] = queue[h] /\ owed'[h] = owed[h]
           /\ phase'[h] \in {"unused", "idle", "ended"} => owed'[h] = 0
  PROVE  SoundInv'
<1>1. HubTypeOK'
  <2>1. ring' \in Seq(Stored)
    <3>1. ring \in Seq(Stored) /\ <<>> \in Seq(Stored)
      BY DEF SoundInv, HubTypeOK, Stored
    <3> QED
      BY <3>1
  <2>2. DOMAIN subs' \subseteq Subs /\ \A s \in DOMAIN subs' : subs'[s] \in Entry
    BY DEF SoundInv, HubTypeOK, Entry
  <2> QED
    BY <2>1, <2>2 DEF SoundInv, HubTypeOK, Stored, Entry, Sending, Phases
<1>2. ASSUME NEW h \in Handles, h \in DOMAIN subs', subs'[h].tx = h, Held(h)'
      PROVE  subs'[h].queued = owed'[h] + Bytes(Carried(queue'[h]))
  <2>1. h # Null
    BY HubAssumption
  <2>2. subs'[h] = subs[h] /\ h \in DOMAIN subs /\ Held(h) /\ queue'[h] = queue[h] /\ owed'[h] = owed[h]
    BY <1>2, <2>1
  <2> QED
    BY <1>2, <2>2 DEF SoundInv, AccountInv
<1> QED
  BY <1>1, <1>2 DEF SoundInv, AccountInv

\* The types of the hub, one by one.
LEMMA SoundFacts ==
  ASSUME StreamTypes, SoundInv
  PROVE  /\ nextSeq \in 1..(MaxSeq + 1) /\ ring \in Seq(Stored) /\ phase \in [Handles -> Phases]
         /\ DOMAIN subs \subseteq Subs /\ \A s \in DOMAIN subs : subs[s] \in Entry
         /\ owner \in [Handles -> Subs \cup {Null}] /\ queue \in [Handles -> Seq(Sending)]
         /\ owed \in [Handles -> Nat] /\ seen \in [Handles -> 0..MaxSeq] /\ now \in Nat
         /\ queue \in [Handles -> Seq(Event)] /\ now \in 0..MaxTime /\ publishing \in BOOLEAN
<1>1. queue \in [Handles -> Seq(Event)] /\ \A h \in Handles : queue[h] \in Seq(Sending)
  BY DEF StreamTypes, HubInv, HubTypes, SoundInv, HubTypeOK, Sending
<1>2. queue \in [Handles -> Seq(Sending)]
  BY <1>1
<1>3. /\ nextSeq \in 1..(MaxSeq + 1) /\ ring \in Seq(Stored) /\ phase \in [Handles -> Phases]
      /\ DOMAIN subs \subseteq Subs /\ \A s \in DOMAIN subs : subs[s] \in Entry
      /\ owner \in [Handles -> Subs \cup {Null}] /\ owed \in [Handles -> Nat]
      /\ seen \in [Handles -> 0..MaxSeq] /\ now \in 0..MaxTime /\ publishing \in BOOLEAN
  BY DEF SoundInv, HubTypeOK, Stored, Entry, Phases
<1> QED
  BY <1>1, <1>2, <1>3, HubAssumption

\* A parked entry sends to nobody.
LEMMA ParkedSound ==
  ASSUME StreamTypes, SoundInv, NEW s
  PROVE  /\ DOMAIN Parked(s) = DOMAIN subs
         /\ \A t \in DOMAIN subs :
             Parked(s)[t] = subs[t] \/ (Parked(s)[t] \in Entry /\ Parked(s)[t].tx = Null)
<1>1. /\ \A t \in DOMAIN subs : subs[t] \in Entry
      /\ now + ParkFor \in Nat
  BY SoundFacts, HubAssumption
<1>2. CASE s \in DOMAIN subs /\ subs[s].parked = Null
  <2>1. [subs[s] EXCEPT !.parked = now + ParkFor, !.tx = Null] \in Entry
    BY <1>1, <1>2 DEF Entry
  <2>2. [subs[s] EXCEPT !.parked = now + ParkFor, !.tx = Null].tx = Null
    BY <1>1, <1>2 DEF Entry
  <2>3. Parked(s) = [subs EXCEPT ![s] = [subs[s] EXCEPT !.parked = now + ParkFor, !.tx = Null]]
    BY <1>2 DEF Parked
  <2> QED
    BY <1>2, <2>1, <2>2, <2>3
<1>3. CASE ~(s \in DOMAIN subs /\ subs[s].parked = Null)
  BY <1>3 DEF Parked
<1> QED
  BY <1>2, <1>3

\* Close, and the steps that drop or end a handle.
LEMMA GoingSound ==
  ASSUME StreamTypes, SoundInv,
         \/ UNCHANGED hubVars \/ Close
         \/ \E h \in Handles : End(h) \/ Drop(h) \/ DropPark(h)
         \/ \E c \in Conns, s \in Ids : arg[c] = s /\ Detached(c) /\ subs' \in {subs, Parked(s)}
  PROVE  SoundInv'
<1>0. /\ ring \in Seq(Stored) /\ phase \in [Handles -> Phases]
      /\ owed \in [Handles -> Nat] /\ seen \in [Handles -> 0..MaxSeq]
      /\ queue \in [Handles -> Seq(Sending)] /\ <<>> \in Seq(Sending) /\ 0 \in 0..MaxSeq
      /\ \A h \in Handles : phase[h] \in {"unused", "idle", "ended"} => owed[h] = 0
  BY SoundFacts, HubAssumption DEF SoundInv, AccountInv
<1>1. CASE UNCHANGED hubVars
  <2>1. UNCHANGED <<nextSeq, ring, publishing, subs, owner, phase, queue, owed, seen, now>>
    BY <1>1 DEF hubVars
  <2> QED
    BY <1>0, <2>1, SoundStays DEF Held
<1>2. CASE Close
  <2>1. /\ UNCHANGED <<nextSeq, publishing, owner, phase, queue, owed, seen, now>>
        /\ ring' = <<>> /\ DOMAIN subs' = {}
    BY <1>2 DEF Close
  <2> QED
    BY <1>0, <2>1, SoundStays DEF Held
<1>3. ASSUME NEW h \in Handles, End(h) PROVE SoundInv'
  <2>1. /\ UNCHANGED <<nextSeq, publishing, owner, ring, subs, queue, owed, seen, now>>
        /\ phase[h] = "idle" /\ phase' = [phase EXCEPT ![h] = "ended"]
    BY <1>3 DEF End
  <2>2. phase' \in [Handles -> Phases]
    BY <1>0, <2>1 DEF Phases
  <2>3. \A k \in Handles : /\ Held(k)' => Held(k)
                           /\ phase'[k] \in {"unused", "idle", "ended"} => owed'[k] = 0
    BY <1>0, <2>1 DEF Held
  <2> QED
    BY <1>0, <2>1, <2>2, <2>3, SoundStays
<1>4. ASSUME NEW h \in Handles, Drop(h) PROVE SoundInv'
  <2>1. /\ UNCHANGED <<nextSeq, publishing, owner, ring, subs, now>>
        /\ phase' = [phase EXCEPT ![h] = "dropped"] /\ queue' = [queue EXCEPT ![h] = <<>>]
        /\ owed' = [owed EXCEPT ![h] = 0] /\ seen' = [seen EXCEPT ![h] = 0]
    BY <1>4 DEF Drop
  <2>2. /\ phase' \in [Handles -> Phases] /\ queue' \in [Handles -> Seq(Sending)]
        /\ owed' \in [Handles -> Nat] /\ seen' \in [Handles -> 0..MaxSeq]
    BY <1>0, <2>1 DEF Phases
  <2>3. \A k \in Handles : /\ Held(k)' => Held(k) /\ queue'[k] = queue[k] /\ owed'[k] = owed[k]
                           /\ phase'[k] \in {"unused", "idle", "ended"} => owed'[k] = 0
    BY <1>0, <2>1 DEF Held
  <2> QED
    BY <1>0, <2>1, <2>2, <2>3, SoundStays
<1>5. ASSUME NEW h \in Handles, DropPark(h) PROVE SoundInv'
  <2>1. /\ UNCHANGED <<nextSeq, publishing, owner, ring, queue, owed, seen, now>>
        /\ phase' = [phase EXCEPT ![h] = "gone"] /\ subs' = Parked(owner[h])
    BY <1>5 DEF DropPark
  <2>2. phase' \in [Handles -> Phases]
    BY <1>0, <2>1 DEF Phases
  <2>3. \A k \in Handles : /\ Held(k)' => Held(k)
                           /\ phase'[k] \in {"unused", "idle", "ended"} => owed'[k] = 0
    BY <1>0, <2>1 DEF Held
  <2>4. /\ DOMAIN subs' = DOMAIN subs
        /\ \A t \in DOMAIN subs : subs'[t] = subs[t] \/ (subs'[t] \in Entry /\ subs'[t].tx = Null)
    BY <2>1, ParkedSound
  <2> QED
    BY <1>0, <2>1, <2>2, <2>3, <2>4, SoundStays
<1>6. ASSUME NEW c \in Conns, NEW s \in Ids, arg[c] = s, Detached(c), subs' \in {subs, Parked(s)}
      PROVE  SoundInv'
  <2>1. UNCHANGED <<nextSeq, publishing, owner, ring, owed, now>> /\ s \in Handles
    BY <1>6 DEF Detached, Ids
  <2>2. /\ DOMAIN subs' = DOMAIN subs
        /\ \A t \in DOMAIN subs : subs'[t] = subs[t] \/ (subs'[t] \in Entry /\ subs'[t].tx = Null)
    <3>1. subs' = subs \/ subs' = Parked(s)
      BY <1>6
    <3> QED
      BY <3>1, ParkedSound
  <2>3. /\ phase' \in [Handles -> Phases] /\ queue' \in [Handles -> Seq(Sending)]
        /\ seen' \in [Handles -> 0..MaxSeq]
    BY <1>0, <1>6, <2>1 DEF Detached, Phases
  <2>4. \A k \in Handles : /\ Held(k)' => Held(k) /\ queue'[k] = queue[k]
                           /\ phase'[k] \in {"unused", "idle", "ended"} => phase'[k] = phase[k]
    BY <1>6, DetachedHub
  <2>5. \A k \in Handles : phase'[k] \in {"unused", "idle", "ended"} => owed'[k] = 0
    BY <1>0, <2>1, <2>4
  <2> QED
    BY <1>0, <2>1, <2>2, <2>3, <2>4, <2>5, SoundStays
<1> QED
  BY <1>1, <1>2, <1>3, <1>4, <1>5, <1>6

\* A chunk is charged where it is queued.
LEMMA PublishSound ==
  ASSUME StreamTypes, StreamTypes', IdsInv, SoundInv, NEW len \in Lens, Publish(len, FALSE)
  PROVE  SoundInv'
<1>0. /\ nextSeq \in 1..(MaxSeq + 1) /\ ring \in Seq(Stored) /\ phase \in [Handles -> Phases]
      /\ DOMAIN subs \subseteq Subs /\ (\A s \in DOMAIN subs : subs[s] \in Entry)
      /\ owner \in [Handles -> Subs \cup {Null}] /\ queue \in [Handles -> Seq(Sending)]
      /\ owed \in [Handles -> Nat] /\ seen \in [Handles -> 0..MaxSeq]
      /\ queue \in [Handles -> Seq(Event)] /\ now \in 0..MaxTime
  BY SoundFacts
<1>1. PICK c \in Stored : c = [seq |-> nextSeq, len |-> len]
  BY <1>0, HubAssumption DEF Stored, Publish
<1>2. c.seq = nextSeq /\ c.len = len /\ len \in Nat
  BY <1>1, HubAssumption
<1>3. /\ nextSeq' = nextSeq + 1 /\ nextSeq <= MaxSeq /\ publishing' = FALSE
      /\ UNCHANGED <<owner, phase, owed, seen, now>>
      /\ ring' = Evicted(Append(ring, c))
      /\ subs' = [s \in DOMAIN subs |->
                   IF subs[s].tx = Null THEN subs[s]
                   ELSE [subs[s] EXCEPT !.queued = Charged(@, c)]]
  BY <1>1 DEF Publish
<1>4. ring' \in Seq(Stored)
  <2>1. nextSeq \in Nat /\ Len(ring) \in Nat /\ InOrder(ring, nextSeq - 1 - Len(ring))
    BY DEF StreamTypes, HubInv, HubTypes, RingInv
  <2>2. nextSeq - 1 - Len(ring) \in Int /\ c.seq = nextSeq - 1 - Len(ring) + Len(ring) + 1
    BY <1>2, <2>1
  <2>3. /\ Append(ring, c) \in Seq(Stored) /\ Len(Append(ring, c)) = Len(ring) + 1
        /\ InOrder(Append(ring, c), nextSeq - 1 - Len(ring))
    BY <1>0, <2>1, <2>2, AppendInOrder
  <2>4. nextSeq \in Int /\ nextSeq - Len(Append(ring, c)) = nextSeq - 1 - Len(ring)
    BY <2>1, <2>3
  <2> QED
    BY <1>3, <2>3, <2>4, EvictedIsAnEnd
<1>5. \A s \in DOMAIN subs : Charged(subs[s].queued, c) \in 0..QueueBytes
  BY <1>0, <1>2, ChargeFits DEF Entry
<1>6. DOMAIN subs' = DOMAIN subs /\ \A s \in DOMAIN subs' : subs'[s] \in Entry
  <2>1. ASSUME NEW s \in DOMAIN subs PROVE subs'[s] \in Entry
    <3>1. subs[s] \in Entry /\ Charged(subs[s].queued, c) \in 0..QueueBytes
      BY <1>0, <1>5
    <3>2. [subs[s] EXCEPT !.queued = Charged(@, c)] \in Entry
      BY <3>1 DEF Entry
    <3> QED
      BY <1>3, <3>1, <3>2
  <2> QED
    BY <1>3, <2>1
<1>7. ASSUME NEW h \in Handles
      PROVE  /\ queue'[h] \in Seq(Sending)
             /\ ~(HasSender(h) /\ Held(h)) => queue'[h] = queue[h]
             /\ (h \in DOMAIN subs /\ subs[h].tx = h /\ Held(h)) =>
                  queue'[h] = Append(queue[h], Pushed(subs[h].queued, c))
  <2>1. \A x : Pushed(x, c) \in Sending
    BY <1>0, <1>2, <1>3, HubAssumption DEF Pushed, Sending
  <2>2. queue'[h] = IF HasSender(h) /\ Held(h)
                    THEN Append(queue[h], Pushed(subs[CHOOSE s \in DOMAIN subs : subs[s].tx = h].queued, c))
                    ELSE queue[h]
    BY <1>1 DEF Publish
  <2>3. queue[h] \in Seq(Sending)
    BY <1>0
  <2>4. queue'[h] \in Seq(Sending)
    BY <2>1, <2>2, <2>3
  <2>5. ASSUME h \in DOMAIN subs, subs[h].tx = h, Held(h)
        PROVE  queue'[h] = Append(queue[h], Pushed(subs[h].queued, c))
    <3>1. HasSender(h)
      BY <2>5 DEF HasSender
    <3>2. \A s \in DOMAIN subs : subs[s].tx = h => s = h
      BY HubAssumption DEF IdsInv
    <3>3. (CHOOSE s \in DOMAIN subs : subs[s].tx = h) = h
      BY <2>5, <3>2
    <3> QED
      BY <2>2, <2>5, <3>1, <3>3
  <2> QED
    BY <2>2, <2>4, <2>5
<1>8. queue' \in [Handles -> Seq(Sending)]
  <2>1. queue' = [h \in Handles |-> queue'[h]]
    BY DEF Publish
  <2> QED
    BY <1>7, <2>1
<1>9. HubTypeOK'
  <2>1. nextSeq' \in 1..(MaxSeq + 1)
    BY <1>0, <1>3, HubAssumption
  <2> QED
    BY <1>0, <1>3, <1>4, <1>6, <1>8, <2>1 DEF HubTypeOK, Stored, Entry, Sending, Phases
<1>10. ASSUME NEW h \in Handles, h \in DOMAIN subs', subs'[h].tx = h, Held(h)'
       PROVE  subs'[h].queued = owed'[h] + Bytes(Carried(queue'[h]))
  <2>1. h \in DOMAIN subs /\ subs[h].tx = h /\ Held(h) /\ h # Null /\ subs[h] \in Entry
    BY <1>0, <1>3, <1>10, HubAssumption DEF Held, Entry
  <2>2. subs'[h].queued = Charged(subs[h].queued, c)
    BY <1>3, <2>1 DEF Entry
  <2>3. subs[h].queued = owed[h] + Bytes(Carried(queue[h]))
    BY <2>1 DEF SoundInv, AccountInv
  <2>4. PICK e \in Event : /\ e = Pushed(subs[h].queued, c) /\ e.len = len
                           /\ e.gap <=> subs[h].queued + len > QueueBytes
    <3>1. nextSeq \in Nat
      BY DEF StreamTypes, HubInv, HubTypes
    <3>2. PICK g \in BOOLEAN : g <=> subs[h].queued + len > QueueBytes
      BY Zenon
    <3>3. Pushed(subs[h].queued, c) = [seq |-> nextSeq, len |-> len, gap |-> g]
      BY <1>2, <3>2 DEF Pushed
    <3>4. [seq |-> nextSeq, len |-> len, gap |-> g] \in Event
      BY <1>2, <3>1 DEF Event
    <3> QED
      BY <3>2, <3>3, <3>4
  <2>5. queue'[h] = Append(queue[h], e)
    <3>1. e = Pushed(subs[h].queued, c)
      BY <2>4, Zenon
    <3>2. queue'[h] = Append(queue[h], Pushed(subs[h].queued, c))
      BY <1>7, <2>1
    <3> QED
      BY <3>1, <3>2
  <2>6. /\ Bytes(Carried(queue[h])) \in Nat /\ Due(e) \in Nat
        /\ Bytes(Carried(Append(queue[h], e))) = Bytes(Carried(queue[h])) + Due(e)
    BY <1>0, CarriedAppend
  <2>7. Charged(subs[h].queued, c) = subs[h].queued + Due(e)
    <3>1. subs[h].queued \in Nat /\ len \in Nat
      BY <1>2, <2>1, HubAssumption DEF Entry
    <3>2. Charged(subs[h].queued, c)
            = IF subs[h].queued + len > QueueBytes THEN subs[h].queued ELSE subs[h].queued + len
      BY <1>2 DEF Charged
    <3>3. CASE e.gap
      <4>1. subs[h].queued + len > QueueBytes /\ Due(e) = 0
        BY <2>4, <3>3, Zenon DEF Due
      <4> QED
        BY <3>1, <3>2, <4>1
    <3>4. CASE ~e.gap
      <4>1. ~(subs[h].queued + len > QueueBytes) /\ Due(e) = len
        BY <2>4, <3>4, Zenon DEF Due
      <4> QED
        BY <3>1, <3>2, <4>1
    <3> QED
      BY <3>3, <3>4
  <2>8. owed[h] \in Nat /\ owed'[h] = owed[h]
    BY <1>0, <1>3
  <2> QED
    BY <2>2, <2>3, <2>5, <2>6, <2>7, <2>8
<1>11. \A h \in Handles : phase'[h] \in {"unused", "idle", "ended"} => owed'[h] = 0
  BY <1>3 DEF SoundInv, AccountInv
<1> QED
  BY <1>9, <1>10, <1>11 DEF SoundInv, AccountInv

\* What is newer than a cursor is an end of the ring.
LEMMA NewerIsStored ==
  ASSUME StreamTypes, SoundInv, NEW since \in Past
  PROVE  Newer(since) \in Seq(Stored)
<1>0. ring \in Seq(Stored) /\ Len(ring) \in Nat /\ nextSeq \in Nat /\ <<>> \in Seq(Stored)
  BY SoundFacts DEF StreamTypes, HubInv, HubTypes
<1>1. CASE since = Null \/ ring = <<>>
  BY <1>0, <1>1 DEF Newer
<1>2. CASE since # Null /\ ring # <<>>
  <2>1. Len(ring) >= 1 /\ ring[1].seq = nextSeq - Len(ring)
    <3>1. InOrder(ring, nextSeq - 1 - Len(ring))
      BY DEF StreamTypes, HubInv, RingInv
    <3>2. 1 \in 1..Len(ring)
      BY <1>0, <1>2
    <3> QED
      BY <1>0, <3>1, <3>2 DEF InOrder
  <2>2. PICK start \in Int : start = IF since < ring[1].seq THEN 1 ELSE since - ring[1].seq + 2
    <3>1. since \in Int /\ ring[1].seq \in Int
      BY <1>0, <2>1 DEF Past
    <3> QED
      BY <3>1
  <2>3. start \in 1..(Len(ring) + 1)
    BY <1>0, <2>1, <2>2 DEF Past
  <2>4. Newer(since) = SubSeq(ring, start, Len(ring))
    BY <1>2, <2>2 DEF Newer
  <2>5. \A m, n \in Int : m \in 1..(Len(ring) + 1) /\ n = Len(ring) => SubSeq(ring, m, n) \in Seq(Stored)
    BY <1>0, SubSeqProperties
  <2> QED
    BY <1>0, <2>3, <2>4, <2>5
<1> QED
  BY <1>1, <1>2

\* A new subscription is charged for its replay.
LEMMA SubscribeSound ==
  ASSUME StreamTypes, StreamTypes', SoundInv, NEW k \in Ids, NEW since \in Past,
         Subscribe(k, since), k = nextSub
  PROVE  SoundInv'
<1>0. /\ nextSeq \in 1..(MaxSeq + 1) /\ ring \in Seq(Stored) /\ phase \in [Handles -> Phases]
      /\ DOMAIN subs \subseteq Subs /\ (\A s \in DOMAIN subs : subs[s] \in Entry)
      /\ owner \in [Handles -> Subs \cup {Null}] /\ queue \in [Handles -> Seq(Sending)]
      /\ owed \in [Handles -> Nat] /\ seen \in [Handles -> 0..MaxSeq]
      /\ queue \in [Handles -> Seq(Event)] /\ now \in 0..MaxTime /\ publishing \in BOOLEAN
      /\ k \in Handles /\ k \in Subs
  BY SoundFacts DEF Ids
<1>1. PICK chunks : chunks = Newer(since)
  OBVIOUS
<1>2. /\ UNCHANGED <<nextSeq, ring, publishing, owed, now>> /\ phase[k] = "unused"
      /\ owner' = [owner EXCEPT ![k] = k] /\ phase' = [phase EXCEPT ![k] = "idle"]
      /\ queue' = [queue EXCEPT ![k] = Replayed(chunks)]
      /\ seen' = [seen EXCEPT ![k] = StartOf(chunks)]
      /\ subs' = [t \in DOMAIN subs \cup {k} |->
                   IF t = k THEN [tx |-> k, queued |-> ChargeAfter(chunks)[Len(chunks)], parked |-> Null]
                   ELSE subs[t]]
  BY <1>1 DEF Subscribe, OpenHandle
<1>3. chunks \in Seq(Stored) /\ chunks \in Seq(Chunk) /\ Len(chunks) \in Nat
  <2>1. chunks \in Seq(Stored)
    BY <1>1, NewerIsStored
  <2>2. \A e \in Stored : e \in Chunk
    <3>1. 1..MaxSeq \subseteq Nat /\ Lens \subseteq Nat
      BY HubAssumption
    <3> QED
      BY <3>1 DEF Stored, Chunk
  <2> QED
    BY <2>1, <2>2
<1>4. /\ Replayed(chunks) \in Seq(Event) /\ StartOf(chunks) \in Nat
      /\ StartOf(chunks) + Len(Replayed(chunks)) = nextSeq - 1
  <2>1. HubInv /\ since \in Cursors
    BY DEF StreamTypes, Past, Cursors
  <2> QED
    BY <1>1, <2>1, ReplayIsAnEnd
<1>5. Len(Replayed(chunks)) = Len(chunks)
  BY <1>3 DEF Replayed
<1>6. Replayed(chunks) \in Seq(Sending)
  <2>1. ASSUME NEW i \in 1..Len(chunks)
        PROVE  Pushed(ChargeAfter(chunks)[i - 1], chunks[i]) \in Sending
    <3>1. chunks[i] \in Stored
      BY <1>3
    <3> QED
      BY <3>1 DEF Pushed, Stored, Sending
  <2> QED
    BY <1>3, <2>1 DEF Replayed
<1>7. StartOf(chunks) \in 0..MaxSeq
  <2>1. Len(Replayed(chunks)) \in Nat
    BY <1>3, <1>5
  <2> QED
    BY <1>0, <1>4, <2>1, HubAssumption
<1>8. /\ ChargeAfter(chunks)[Len(chunks)] \in 0..QueueBytes
      /\ Bytes(Carried(Replayed(chunks))) = ChargeAfter(chunks)[Len(chunks)]
  BY <1>3, <1>4, <1>5, ReplayCharge
<1>9. DOMAIN subs' \subseteq Subs /\ \A s \in DOMAIN subs' : subs'[s] \in Entry
  <2>1. PICK e \in Entry : e = [tx |-> k, queued |-> ChargeAfter(chunks)[Len(chunks)], parked |-> Null]
    BY <1>0, <1>8 DEF Entry
  <2>2. subs' = [t \in DOMAIN subs \cup {k} |-> IF t = k THEN e ELSE subs[t]]
    BY <1>2, <2>1
  <2> QED
    BY <1>0, <2>2
<1>10. HubTypeOK'
  <2>1. /\ owner' \in [Handles -> Subs \cup {Null}] /\ phase' \in [Handles -> Phases]
        /\ queue' \in [Handles -> Seq(Sending)] /\ seen' \in [Handles -> 0..MaxSeq]
    BY <1>0, <1>2, <1>6, <1>7 DEF Phases
  <2> QED
    BY <1>0, <1>2, <1>9, <2>1 DEF HubTypeOK, Stored, Entry, Sending, Phases
<1>11. \A h \in Handles : phase[h] \in {"unused", "idle", "ended"} => owed[h] = 0
  BY DEF SoundInv, AccountInv
<1>12. \A h \in Handles : phase'[h] \in {"unused", "idle", "ended"} => owed'[h] = 0
  BY <1>0, <1>2, <1>11
<1>13. ASSUME NEW h \in Handles, h \in DOMAIN subs', subs'[h].tx = h, Held(h)'
       PROVE  subs'[h].queued = owed'[h] + Bytes(Carried(queue'[h]))
  <2>1. CASE h = k
    <3>1. owed'[h] = 0 /\ queue'[h] = Replayed(chunks)
      BY <1>0, <1>2, <1>11, <2>1
    <3>2. subs'[h].queued = ChargeAfter(chunks)[Len(chunks)]
      BY <1>2, <2>1
    <3> QED
      BY <1>8, <3>1, <3>2, HubAssumption
  <2>2. CASE h # k
    <3>1. /\ subs'[h] = subs[h] /\ h \in DOMAIN subs /\ phase'[h] = phase[h] /\ queue'[h] = queue[h]
          /\ owed'[h] = owed[h]
      BY <1>0, <1>2, <1>13, <2>2
    <3>2. Held(h)
      BY <1>13, <3>1 DEF Held
    <3> QED
      BY <1>13, <3>1, <3>2 DEF SoundInv, AccountInv
  <2> QED
    BY <2>1, <2>2
<1> QED
  BY <1>10, <1>12, <1>13 DEF SoundInv, AccountInv

\* What is taken is owed until it is acknowledged.
LEMMA TakeSound ==
  ASSUME StreamTypes, SoundInv, NEW k \in Handles, Take(k)
  PROVE  SoundInv'
<1>0. /\ phase \in [Handles -> Phases] /\ queue \in [Handles -> Seq(Sending)]
      /\ owed \in [Handles -> Nat] /\ seen \in [Handles -> 0..MaxSeq]
      /\ queue \in [Handles -> Seq(Event)]
      /\ \A h \in Handles : phase[h] \in {"unused", "idle", "ended"} => owed[h] = 0
  BY SoundFacts DEF SoundInv, AccountInv
<1>1. /\ UNCHANGED <<nextSeq, ring, publishing, subs, owner, now>>
      /\ phase[k] = "idle" /\ queue[k] # <<>>
      /\ queue' = [queue EXCEPT ![k] = Tail(@)] /\ seen' = [seen EXCEPT ![k] = queue[k][1].seq]
      /\ phase' = [phase EXCEPT ![k] = IF queue[k][1].gap THEN "idle" ELSE "acking"]
      /\ owed' = [owed EXCEPT ![k] = IF queue[k][1].gap THEN 0 ELSE queue[k][1].len]
  BY DEF Take
<1>2. queue[k] \in Seq(Event) /\ queue[k] \in Seq(Sending)
  BY <1>0
<1>3. queue[k][1] \in Sending /\ queue[k][1] \in Event
  BY <1>1, <1>2
<1>4. Tail(queue[k]) \in Seq(Sending)
  BY <1>1, <1>2
<1>5. Due(queue[k][1]) \in Nat /\ owed'[k] = Due(queue[k][1])
  <2>1. queue[k][1].len \in Nat
    BY <1>3 DEF Event
  <2> QED
    BY <1>0, <1>1, <2>1 DEF Due
<1>6. /\ queue' \in [Handles -> Seq(Sending)] /\ seen' \in [Handles -> 0..MaxSeq]
      /\ owed' \in [Handles -> Nat] /\ phase' \in [Handles -> Phases]
  <2>1. queue' \in [Handles -> Seq(Sending)]
    BY <1>0, <1>1, <1>4
  <2>2. queue[k][1].seq \in 0..MaxSeq
    BY <1>3, HubAssumption DEF Sending
  <2>3. seen' \in [Handles -> 0..MaxSeq] /\ phase' \in [Handles -> Phases]
    BY <1>0, <1>1, <2>2 DEF Phases
  <2>4. owed' \in [Handles -> Nat]
    BY <1>0, <1>1, <1>5
  <2> QED
    BY <2>1, <2>3, <2>4
<1>7. HubTypeOK'
  BY <1>1, <1>6 DEF SoundInv, HubTypeOK, Sending, Phases
<1>8. \A h \in Handles : phase'[h] \in {"unused", "idle", "ended"} => owed'[h] = 0
  BY <1>0, <1>1
<1>9. ASSUME NEW h \in Handles, h \in DOMAIN subs', subs'[h].tx = h, Held(h)'
      PROVE  subs'[h].queued = owed'[h] + Bytes(Carried(queue'[h]))
  <2>1. CASE h # k
    <3>1. queue'[h] = queue[h] /\ owed'[h] = owed[h] /\ phase'[h] = phase[h] /\ subs' = subs
      BY <1>0, <1>1, <2>1
    <3>2. Held(h)
      BY <1>9, <3>1 DEF Held
    <3> QED
      BY <1>9, <3>1, <3>2 DEF SoundInv, AccountInv
  <2>2. CASE h = k
    <3>1. subs' = subs /\ Held(k) /\ owed[k] = 0 /\ queue'[k] = Tail(queue[k])
      BY <1>0, <1>1 DEF Held
    <3>2. subs[k].queued = owed[k] + Bytes(Carried(queue[k]))
      BY <1>9, <2>2, <3>1 DEF SoundInv, AccountInv
    <3>3. /\ Bytes(Carried(Tail(queue[k]))) \in Nat
          /\ Bytes(Carried(queue[k])) = Due(queue[k][1]) + Bytes(Carried(Tail(queue[k])))
      BY <1>1, <1>2, CarriedTail
    <3> QED
      BY <1>5, <2>2, <3>1, <3>2, <3>3
  <2> QED
    BY <2>1, <2>2
<1> QED
  BY <1>7, <1>8, <1>9 DEF SoundInv, AccountInv

\* An acknowledgement takes off the charge what is owed.
LEMMA AckSound ==
  ASSUME StreamTypes, IdsInv, SoundInv, NEW k \in Handles, Ack(k)
  PROVE  SoundInv'
<1>0. /\ phase \in [Handles -> Phases] /\ owed \in [Handles -> Nat] /\ queue \in [Handles -> Seq(Event)]
      /\ DOMAIN subs \subseteq Subs /\ (\A s \in DOMAIN subs : subs[s] \in Entry)
      /\ \A h \in Handles : phase[h] \in {"unused", "idle", "ended"} => owed[h] = 0
  BY SoundFacts DEF SoundInv, AccountInv
<1>1. /\ UNCHANGED <<nextSeq, ring, publishing, owner, queue, seen, now>>
      /\ phase[k] = "acking" /\ phase' = [phase EXCEPT ![k] = "idle"]
      /\ owed' = [owed EXCEPT ![k] = 0] /\ owner[k] = k
  BY DEF Ack, IdsInv
<1>2. PICK due \in Nat : due = owed[k]
  BY <1>0
<1>3. /\ DOMAIN subs' = DOMAIN subs
      /\ \A s \in DOMAIN subs : s # k => subs'[s] = subs[s]
      /\ k \in DOMAIN subs =>
           subs'[k] = [subs[k] EXCEPT !.queued = IF subs[k].queued < due THEN 0 ELSE subs[k].queued - due]
  <2>1. CASE k \in DOMAIN subs
    <3>1. PICK e : e = [subs[k] EXCEPT !.queued = IF subs[k].queued < owed[k] THEN 0
                                                  ELSE subs[k].queued - owed[k]]
      OBVIOUS
    <3>2. subs' = [subs EXCEPT ![k] = e]
      <4>1. subs' = [subs EXCEPT ![k] = [subs[k] EXCEPT !.queued =
                                           IF subs[k].queued < owed[k] THEN 0 ELSE subs[k].queued - owed[k]]]
        <5>1. owner[k] \in DOMAIN subs
          BY <1>1, <2>1
        <5>2. subs' = [subs EXCEPT ![owner[k]] = [subs[owner[k]] EXCEPT !.queued =
                        IF subs[owner[k]].queued < owed[k] THEN 0 ELSE subs[owner[k]].queued - owed[k]]]
          BY <5>1, SMT DEF Ack
        <5>3. owner[k] = k
          BY <1>1
        <5> QED
          BY <5>2, <5>3
      <4> QED
        BY <3>1, <4>1, Zenon
    <3>3. /\ DOMAIN subs' = DOMAIN subs /\ subs'[k] = e
          /\ \A s \in DOMAIN subs : s # k => subs'[s] = subs[s]
      BY <2>1, <3>2
    <3> QED
      BY <1>2, <3>1, <3>3
  <2>2. CASE k \notin DOMAIN subs
    <3>1. subs' = subs
      BY <1>1, <2>2 DEF Ack
    <3> QED
      BY <2>2, <3>1
  <2> QED
    BY <2>1, <2>2
<1>4. k \in DOMAIN subs => /\ subs'[k] \in Entry /\ subs'[k].tx = subs[k].tx
                           /\ subs'[k].queued = IF subs[k].queued < due THEN 0 ELSE subs[k].queued - due
  <2> SUFFICES ASSUME k \in DOMAIN subs
               PROVE  /\ subs'[k] \in Entry /\ subs'[k].tx = subs[k].tx
                      /\ subs'[k].queued = IF subs[k].queued < due THEN 0 ELSE subs[k].queued - due
    OBVIOUS
  <2>1. PICK x \in 0..QueueBytes : x = IF subs[k].queued < due THEN 0 ELSE subs[k].queued - due
    <3>1. subs[k].queued \in 0..QueueBytes
      BY <1>0 DEF Entry
    <3>2. (IF subs[k].queued < due THEN 0 ELSE subs[k].queued - due) \in 0..QueueBytes
      BY <3>1, HubAssumption
    <3> QED
      BY <3>2
  <2>2. subs'[k] = [subs[k] EXCEPT !.queued = x] /\ subs[k] \in Entry
    BY <1>0, <1>3, <2>1
  <2> QED
    BY <2>1, <2>2 DEF Entry
<1>5. HubTypeOK'
  <2>1. phase' \in [Handles -> Phases] /\ owed' \in [Handles -> Nat]
    BY <1>0, <1>1 DEF Phases
  <2>2. \A s \in DOMAIN subs' : subs'[s] \in Entry
    BY <1>0, <1>3, <1>4
  <2> QED
    BY <1>0, <1>1, <1>3, <2>1, <2>2 DEF SoundInv, HubTypeOK, Entry, Phases
<1>6. \A h \in Handles : phase'[h] \in {"unused", "idle", "ended"} => owed'[h] = 0
  BY <1>0, <1>1
<1>7. ASSUME NEW h \in Handles, h \in DOMAIN subs', subs'[h].tx = h, Held(h)'
      PROVE  subs'[h].queued = owed'[h] + Bytes(Carried(queue'[h]))
  <2>1. CASE h # k
    <3>1. queue'[h] = queue[h] /\ owed'[h] = owed[h] /\ phase'[h] = phase[h] /\ subs'[h] = subs[h]
      BY <1>0, <1>1, <1>3, <1>7, <2>1
    <3>2. Held(h) /\ h \in DOMAIN subs
      BY <1>3, <1>7, <3>1 DEF Held
    <3> QED
      BY <1>7, <3>1, <3>2 DEF SoundInv, AccountInv
  <2>2. CASE h = k
    <3>1. Held(k) /\ k \in DOMAIN subs /\ subs[k].tx = k /\ owed'[k] = 0
      BY <1>0, <1>1, <1>3, <1>4, <1>7, <2>2 DEF Held
    <3>2. subs[k].queued = due + Bytes(Carried(queue[k]))
      BY <1>2, <3>1 DEF SoundInv, AccountInv
    <3>3. Bytes(Carried(queue[k])) \in Nat
      <4>1. queue[k] \in Seq(Event)
        BY <1>0
      <4>2. Measured(Carried(queue[k]))
        BY <4>1, CarriedIs
      <4>3. PICK f : IsSum(f, Carried(queue[k]), Len(Carried(queue[k])))
                     /\ Bytes(Carried(queue[k])) = f[Len(Carried(queue[k]))]
        BY <4>2, BytesIsSum DEF Measured
      <4> QED
        BY <4>2, <4>3 DEF IsSum, Measured
    <3> QED
      BY <1>1, <1>4, <2>2, <3>1, <3>2, <3>3
  <2> QED
    BY <2>1, <2>2
<1> QED
  BY <1>5, <1>6, <1>7 DEF SoundInv, AccountInv

\* The first state has no accounts.
LEMMA SoundStart == StreamInit => SoundInv
<1> SUFFICES ASSUME StreamInit PROVE SoundInv
  OBVIOUS
<1>1. HubInit
  BY DEF StreamInit
<1>2. HubTypeOK
  <2>1. 1 \in 1..(MaxSeq + 1) /\ 0 \in 0..MaxSeq /\ 0 \in 0..MaxTime
    BY HubAssumption
  <2>2. /\ <<>> \in Seq([seq : 1..MaxSeq, len : Lens])
        /\ <<>> \in Seq([seq : 1..MaxSeq, len : Lens, gap : BOOLEAN])
        /\ \A s \in DOMAIN <<>> : FALSE
    OBVIOUS
  <2>3. nextSeq \in 1..(MaxSeq + 1) /\ publishing \in BOOLEAN /\ now \in 0..MaxTime
    BY <1>1, <2>1 DEF HubInit
  <2>4. ring \in Seq([seq : 1..MaxSeq, len : Lens])
    BY <1>1, <2>2 DEF HubInit
  <2>5. \A s \in DOMAIN subs : FALSE
    BY <1>1, <2>2 DEF HubInit
  <2>6. \A h \in Handles : queue[h] \in Seq([seq : 1..MaxSeq, len : Lens, gap : BOOLEAN])
    BY <1>1, <2>2 DEF HubInit
  <2>7. /\ owner \in [Handles -> Subs \cup {Null}]
        /\ phase \in [Handles -> {"unused", "idle", "acking", "ended", "dropped", "gone"}]
        /\ owed \in [Handles -> Nat] /\ seen \in [Handles -> 0..MaxSeq]
    BY <1>1, <2>1 DEF HubInit
  <2> QED
    BY <2>3, <2>4, <2>5, <2>6, <2>7 DEF HubTypeOK
<1>3. AccountInv
  BY <1>1 DEF HubInit, AccountInv
<1> QED
  BY <1>2, <1>3 DEF SoundInv

\* The hub keeps its types and its accounts with connections coming and going: no
\* order of publishing, draining, acknowledging, detaching, dropping and late parking makes
\* a charge differ from what is queued: la-ipc/hub.rs under la-daemon/dispatcher.rs.
THEOREM SubscriptionsStaySound == StreamSpec => []SubscriptionsAreSound
<1>1. ShowsInv /\ SoundInv /\ [StreamNext]_streamVars => ShowsInv' /\ SoundInv'
  <2> SUFFICES ASSUME ShowsInv, SoundInv, [StreamNext]_streamVars
               PROVE  ShowsInv' /\ SoundInv'
    OBVIOUS
  <2>1. ShowsInv'
    BY ShowsKept
  <2>2. StreamTypes /\ OwnerInv /\ IdsInv /\ StreamTypes'
    BY <2>1 DEF ShowsInv, LossInv
  <2>3. CASE StreamNext
    <3>1. CASE \E len \in Lens : Publish(len, FALSE)
      BY <2>1, <2>2, <3>1, PublishSound
    <3>2. CASE \E k \in Ids, since \in Past : Subscribe(k, since) /\ k = nextSub
      BY <2>1, <2>2, <3>2, SubscribeSound
    <3>3. CASE \E k \in Handles : Take(k)
      BY <2>1, <2>2, <3>3, TakeSound
    <3>4. CASE \E k \in Handles : Ack(k)
      BY <2>1, <2>2, <3>4, AckSound
    <3> QED
      BY <2>1, <2>2, <2>3, <3>1, <3>2, <3>3, <3>4, HubSteps, GoingSound
  <2>4. CASE UNCHANGED streamVars
    <3>1. UNCHANGED hubVars
      BY <2>4 DEF streamVars
    <3> QED
      BY <2>1, <2>2, <3>1, GoingSound
  <2> QED
    BY <2>1, <2>3, <2>4
<1>2. ShowsInv /\ SoundInv => SubscriptionsAreSound
  <2> SUFFICES ASSUME ShowsInv, SoundInv, NEW s \in DOMAIN subs, subs[s].tx = s, Held(s)
               PROVE  /\ subs[s].queued = owed[s] + Bytes(Carried(queue[s]))
                      /\ subs[s].queued <= QueueBytes
    BY DEF SubscriptionsAreSound, ChargeIsExact, SoundInv
  <2>1. s \in Subs /\ subs[s] \in Entry
    BY DEF SoundInv, HubTypeOK, Entry
  <2>2. s \in Handles
    BY <2>1, HubAssumption DEF Entry
  <2>3. subs[s].queued <= QueueBytes
    BY <2>1, HubAssumption DEF Entry
  <2> QED
    BY <2>2, <2>3 DEF SoundInv, AccountInv
<1> QED
  BY ShowsStart, SoundStart, <1>1, <1>2, PTL DEF StreamSpec
=============================================================================
