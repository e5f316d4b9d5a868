------------------------------ MODULE EntryTable ------------------------------
(***************************************************************************)
(* la-scheduler's entry table (heap.rs): a map from cron id to its entry,   *)
(* and a binary heap of (fire time, id, version) nodes that is cleaned      *)
(* lazily.  A node is live when the entry exists and has the node's         *)
(* version; rewriting an entry bumps the version and leaves the old node    *)
(* behind, removing an entry leaves all its nodes behind.                   *)
(*                                                                          *)
(* BinaryHeap keeps duplicates, so the heap is a bag of nodes.              *)
(***************************************************************************)
EXTENDS Catchup, Bags

CONSTANT Crons   \* cron ids, numbers because the heap breaks ties by id

ASSUME CronsAssumption == Crons \subseteq Nat /\ IsFiniteSet(Crons)

Node == [at : Nat, id : Crons, version : Nat]

\* Ord for HeapEntry: by fire time, then id, then version.
Before(m, n) ==
  \/ m.at < n.at
  \/ m.at = n.at /\ m.id < n.id
  \/ m.at = n.at /\ m.id = n.id /\ m.version < n.version

-----------------------------------------------------------------------------
\* The version check of peek_next and pop_next.
IsLive(entries, n) ==
  entries[n.id] # None /\ entries[n.id].version = n.version

LiveNodes(entries, heap) == {n \in BagToSet(heap) : IsLive(entries, n)}

\* EntryTable::peek_next, the node it returns: n is the first live node.
IsNext(entries, heap, n) ==
  /\ n \in LiveNodes(entries, heap)
  /\ \A m \in LiveNodes(entries, heap) \ {n} : Before(n, m)

\* EntryTable::peek_next, the heap it leaves: the stale nodes on top of the
\* first live one are popped, all of them when no node is live.
Cleaned(entries, heap) ==
  [n \in {n \in BagToSet(heap) : \/ IsLive(entries, n)
                                 \/ \E m \in LiveNodes(entries, heap) : Before(m, n)}
     |-> heap[n]]

\* A push of the node for fire time `at', when there is one.
Push(heap, at, id, version) ==
  IF at = None THEN heap
  ELSE heap (+) SetToBag({[at |-> at, id |-> id, version |-> version]})

-----------------------------------------------------------------------------
\* The version EntryTable::upsert gives the entry it writes.
NextVersion(entries, c) ==
  IF entries[c] = None THEN 1 ELSE entries[c].version + 1

\* The backoff mirror EntryTable::upsert carries over.
PreservedBackoff(entries, c) ==
  IF entries[c] = None THEN NoBackoff ELSE entries[c].backoff

\* EntryTable::upsert
UpsertEntries(entries, c, spec, mode, throttle, last, next) ==
  [entries EXCEPT ![c] =
     [spec |-> spec, mode |-> mode, throttle |-> throttle,
      last |-> last, next |-> next,
      backoff |-> PreservedBackoff(entries, c),
      version |-> NextVersion(entries, c)]]

\* EntryTable::delete
DeleteEntries(entries, c) == [entries EXCEPT ![c] = None]

\* Mutant: a refresh that forgets to bump the version its node carries.
MutRefreshed(e, next, last) ==
  [e EXCEPT !.next = next, !.last = IF last = None THEN @ ELSE last]

\* EntryTable::refresh_next_fire: last = None leaves the watermark alone.
Refreshed(e, next, last) ==
  [e EXCEPT !.version = @ + 1, !.next = next,
            !.last = IF last = None THEN @ ELSE last]

\* EntryTable::set_backoff
WithBackoff(e, backoff) == [e EXCEPT !.backoff = backoff]
=============================================================================
