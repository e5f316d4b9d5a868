------------------------- MODULE SchedulerLoop_proofs -------------------------
(***************************************************************************)
(* Proofs about SchedulerLoop, for every set of crons, every configuration  *)
(* a caller may send and every capacity of the fire channel: lazy deletion  *)
(* never loses the current node of an entry; the entry table keeps its      *)
(* types, and no entry is armed inside its backoff window; a firing pass    *)
(* fires current nodes only; no tick is emitted twice; and in an            *)
(* undisturbed loop none is lost.                                           *)
(*                                                                          *)
(* The first part needs no fire times, only identity and version of nodes,  *)
(* so its invariant says of an entry which fields it has and not what is in *)
(* them.  The later parts rest on Catchup_proofs.                           *)
(***************************************************************************)
EXTENDS SchedulerLoop, Catchup_proofs

-----------------------------------------------------------------------------
(* The inductive invariant *)

EntryFields == {"spec", "mode", "throttle", "last", "next", "backoff", "version"}
TaskFields  == {"kind", "id", "now", "at", "config"}

\* The entry table is a map from crons to entries, the heap a bag.
TableInv ==
  /\ DOMAIN entries = Crons
  /\ \A c \in Live : DOMAIN entries[c] = EntryFields
  /\ IsABag(heap)

\* A firing pass knows that it is one, and the entry it popped exists until its
\* fires are sent.
TaskInv ==
  /\ DOMAIN task = TaskFields
  /\ pc = "fire" => task.kind = "fire"
  /\ pc = "emit" /\ task.kind = "fire" => entries[task.id] # None

Inv == TableInv /\ TaskInv /\ NoLiveEntryForgotten

\* The node that stands for the schedule of c.
CurrentNode(c) == [at |-> entries[c].next, id |-> c, version |-> entries[c].version]

-----------------------------------------------------------------------------
(* The heap *)

\* Adding nodes keeps the heap a bag and every node in it.
LEMMA AddNodes ==
  ASSUME NEW B, IsABag(B), NEW S
  PROVE  IsABag(B (+) SetToBag(S)) /\ DOMAIN (B (+) SetToBag(S)) = DOMAIN B \cup S
<1>1. DOMAIN (B (+) SetToBag(S)) = DOMAIN B \cup S
  BY DEF (+), SetToBag
<1>2. \A n \in DOMAIN B \cup S : (B (+) SetToBag(S))[n] \in Nat /\ (B (+) SetToBag(S))[n] > 0
  BY DEF (+), SetToBag, IsABag
<1>3. B (+) SetToBag(S) = [n \in DOMAIN B \cup S |-> (B (+) SetToBag(S))[n]]
  BY <1>1 DEF (+), SetToBag
<1> QED
  BY <1>1, <1>2, <1>3 DEF IsABag

\* A push keeps the heap a bag, keeps its nodes and adds the new one.
LEMMA PushNode ==
  ASSUME NEW B, IsABag(B), NEW at, NEW id, NEW version
  PROVE  /\ IsABag(Push(B, at, id, version))
         /\ DOMAIN B \subseteq DOMAIN Push(B, at, id, version)
         /\ at # None => [at |-> at, id |-> id, version |-> version]
                           \in DOMAIN Push(B, at, id, version)
  BY AddNodes DEF Push

\* peek_next keeps the heap a bag and drops no live node.
LEMMA CleanedKeepsLive ==
  ASSUME NEW es, NEW B, IsABag(B)
  PROVE  /\ IsABag(Cleaned(es, B))
         /\ \A n \in DOMAIN B : IsLive(es, n) => n \in DOMAIN Cleaned(es, B)
  BY DEF Cleaned, IsABag, BagToSet

\* pop_next keeps the heap a bag and drops no other live node.
LEMMA PoppedKeepsLive ==
  ASSUME NEW es, NEW B, IsABag(B), NEW top
  PROVE  /\ IsABag(Cleaned(es, B) (-) SetToBag({top}))
         /\ \A n \in DOMAIN B : IsLive(es, n) /\ n # top
              => n \in DOMAIN (Cleaned(es, B) (-) SetToBag({top}))
<1> DEFINE C == Cleaned(es, B)
           D == C (-) SetToBag({top})
<1>1. IsABag(C) /\ \A n \in DOMAIN B : IsLive(es, n) => n \in DOMAIN C
  BY CleanedKeepsLive
<1> HIDE DEF C
<1>2. \A n \in DOMAIN C : n # top => n \in DOMAIN D
  BY <1>1 DEF (-), SetToBag, IsABag
<1>3. IsABag(D)
  <2> DEFINE R == [n \in DOMAIN C |-> IF n = top THEN C[n] - 1 ELSE C[n]]
  <2>1. D = [n \in {d \in DOMAIN R : R[d] > 0} |-> R[n]]
    BY DEF (-), SetToBag
  <2>2. \A n \in DOMAIN R : R[n] > 0 => R[n] \in Nat
    BY <1>1 DEF IsABag
  <2> HIDE DEF R, D
  <2> QED
    BY <2>1, <2>2 DEF IsABag
<1> QED
  BY <1>1, <1>2, <1>3 DEF C

-----------------------------------------------------------------------------
(* The steps *)

\* refresh_next_fire: the fields stay, version and fire time are the node's.
LEMMA RefreshedFields ==
  ASSUME NEW e, DOMAIN e = EntryFields, NEW next, NEW last
  PROVE  /\ DOMAIN Refreshed(e, next, last) = EntryFields
         /\ Refreshed(e, next, last).next = next
         /\ Refreshed(e, next, last).version = e.version + 1
  BY DEF Refreshed, EntryFields

\* The empty table of a loop that has just started satisfies the invariant.
LEMMA InitInv == Init => Inv
<1> SUFFICES ASSUME Init PROVE Inv
  OBVIOUS
<1>1. Live = {}
  BY DEF Init, Live
<1>2. IsABag(heap)
  BY DEF Init, IsABag, EmptyBag, SetToBag
<1>3. TableInv
  BY <1>1, <1>2 DEF TableInv, Init
<1>4. TaskInv
  BY DEF TaskInv, Init, NoTask, TaskFields
<1> QED
  BY <1>1, <1>3, <1>4 DEF Inv, NoLiveEntryForgotten

\* A step that leaves the table alone, and the pass in progress or its being none.
LEMMA QuietStep ==
  ASSUME Inv, UNCHANGED table, open' => open, DOMAIN task' = TaskFields,
         pc' = "fire" => task'.kind = "fire",
         \/ UNCHANGED <<pc, task>>
         \/ pc # "emit" /\ ~(pc' = "emit" /\ task'.kind = "fire")
         \/ ~open /\ ~(pc' = "emit" /\ task'.kind = "fire")
  PROVE  Inv'
<1>1. entries' = entries /\ heap' = heap /\ Live' = Live
  BY DEF table, Live
<1>2. TableInv'
  BY <1>1 DEF Inv, TableInv
<1>3. TaskInv'
  BY <1>1 DEF Inv, TaskInv
<1>4. NoLiveEntryForgotten'
  BY <1>1 DEF Inv, NoLiveEntryForgotten, BagToSet
<1> QED
  BY <1>2, <1>3, <1>4 DEF Inv

\* A step that cleans the heap outside of the sends.
LEMMA CleaningStep ==
  ASSUME Inv, heap' = Cleaned(entries, heap), entries' = entries, open' = open,
         pc # "emit", pc' # "emit", DOMAIN task' = TaskFields,
         pc' = "fire" => task'.kind = "fire"
  PROVE  Inv'
<1>1. Live' = Live
  BY DEF Live
<1>2. /\ IsABag(heap')
      /\ \A n \in DOMAIN heap : IsLive(entries, n) => n \in DOMAIN heap'
  BY CleanedKeepsLive DEF Inv, TableInv
<1>3. \A c \in Live : IsLive(entries, CurrentNode(c))
  BY DEF IsLive, CurrentNode, Live
<1>4. TableInv'
  BY <1>1, <1>2 DEF Inv, TableInv
<1>5. TaskInv'
  BY DEF TaskInv
<1>6. NoLiveEntryForgotten'
  BY <1>1, <1>2, <1>3 DEF Inv, NoLiveEntryForgotten, BagToSet, CurrentNode
<1> QED
  BY <1>4, <1>5, <1>6 DEF Inv

\* A step that writes the entry of one cron and pushes its node.
LEMMA WritingStep ==
  ASSUME Inv, open' = open, NEW c, NEW e, NEW next, NEW version,
         entries' = [entries EXCEPT ![c] = e], heap' = Push(heap, next, c, version),
         c \in Crons => DOMAIN e = EntryFields /\ e.next = next /\ e.version = version,
         pc' # "emit", DOMAIN task' = TaskFields, pc' = "fire" => task'.kind = "fire",
         pc = "emit" /\ task.kind = "fire" => task.id = c
  PROVE  Inv'
<1>1. /\ IsABag(heap') /\ DOMAIN heap \subseteq DOMAIN heap'
      /\ next # None => [at |-> next, id |-> c, version |-> version] \in DOMAIN heap'
  BY PushNode DEF Inv, TableInv
<1>2. /\ DOMAIN entries' = Crons
      /\ \A d \in Crons : entries'[d] = IF d = c THEN e ELSE entries[d]
  BY DEF Inv, TableInv
<1>3. TableInv'
  BY <1>1, <1>2 DEF Inv, TableInv, Live
<1>4. TaskInv'
  BY DEF TaskInv
<1>5. ASSUME NEW d \in Live', open'
      PROVE  entries'[d].next = None \/ CurrentNode(d)' \in DOMAIN heap'
  <2>1. d \in Crons
    BY DEF Live
  <2>2. CASE d = c
    BY <1>1, <1>2, <2>1, <2>2 DEF CurrentNode
  <2>3. CASE d # c
    <3>1. entries'[d] = entries[d] /\ d \in Live
      BY <1>2, <2>1, <2>3 DEF Live
    <3> QED
      BY <1>1, <1>5, <2>3, <3>1 DEF Inv, NoLiveEntryForgotten, CurrentNode, BagToSet
  <2> QED
    BY <2>2, <2>3
<1>6. NoLiveEntryForgotten'
  BY <1>5 DEF NoLiveEntryForgotten, CurrentNode, BagToSet
<1> QED
  BY <1>3, <1>4, <1>6 DEF Inv

\* pop_next in a firing pass.
LEMMA PopDueStep ==
  ASSUME Inv, PopDue
  PROVE  Inv'
<1> USE DEF channel
<1>1. PICK top \in LiveNodes(entries, heap) :
        /\ heap' = Cleaned(entries, heap) (-) SetToBag({top})
        /\ task' = [task EXCEPT !.id = top.id, !.at = top.at]
  BY DEF PopDue
<1>2. entries' = entries /\ pc' = "emit" /\ open' = open /\ Live' = Live
  BY DEF PopDue, Live
<1>3. /\ IsABag(heap')
      /\ \A n \in DOMAIN heap : IsLive(entries, n) /\ n # top => n \in DOMAIN heap'
  BY <1>1, PoppedKeepsLive DEF Inv, TableInv
<1>4. task.kind = "fire"
  BY DEF PopDue, Inv, TaskInv
<1>5. DOMAIN task' = TaskFields /\ task'.kind = "fire" /\ task'.id = top.id
  BY <1>1, <1>4 DEF Inv, TaskInv, TaskFields
<1>6. entries[top.id] # None
  BY <1>1 DEF LiveNodes, IsLive
<1>7. TableInv'
  BY <1>2, <1>3 DEF Inv, TableInv
<1>8. TaskInv'
  BY <1>2, <1>5, <1>6 DEF TaskInv
<1>9. ASSUME NEW c \in Live, open, c # top.id
      PROVE  entries[c].next = None \/ CurrentNode(c) \in DOMAIN heap'
  <2>1. IsLive(entries, CurrentNode(c)) /\ CurrentNode(c) # top
    BY <1>9 DEF IsLive, CurrentNode, Live
  <2>2. entries[c].next = None \/ CurrentNode(c) \in DOMAIN heap
    BY <1>9 DEF PopDue, Inv, NoLiveEntryForgotten, CurrentNode, BagToSet
  <2> QED
    BY <1>3, <2>1, <2>2
<1>10. NoLiveEntryForgotten'
  BY <1>2, <1>5, <1>9 DEF NoLiveEntryForgotten, CurrentNode, BagToSet
<1> QED
  BY <1>7, <1>8, <1>10 DEF Inv

\* recompute_all: every entry gets a new version and, if it has a next fire, a
\* node that carries it.
LEMMA SkewDoneStep ==
  ASSUME Inv, SkewDone
  PROVE  Inv'
<1> USE DEF channel
<1> DEFINE Fire(c)   == NextEligibleFire(entries[c].spec, wall, entries[c].backoff)
           NewNode(c) == [at |-> Fire(c), id |-> c, version |-> entries[c].version + 1]
           pushed    == {c \in Live : Fire(c) # None}
<1>1. /\ entries' = [c \in Crons |->
           IF entries[c] = None THEN None
           ELSE Refreshed(entries[c], Fire(c), SkewWatermark(entries[c]))]
      /\ heap' = heap (+) SetToBag({NewNode(c) : c \in pushed})
      /\ pc' = "top" /\ task' = NoTask /\ open' = open
  BY DEF SkewDone
<1>2. /\ IsABag(heap')
      /\ DOMAIN heap' = DOMAIN heap \cup {NewNode(c) : c \in pushed}
  BY <1>1, AddNodes DEF Inv, TableInv
<1> HIDE DEF Fire
<1>3. ASSUME NEW c \in Live'
      PROVE  /\ c \in Live /\ DOMAIN entries'[c] = EntryFields
             /\ entries'[c].next = Fire(c) /\ entries'[c].version = entries[c].version + 1
  <2>1. c \in Crons /\ entries[c] # None
    BY <1>1 DEF Live
  <2>2. entries'[c] = Refreshed(entries[c], Fire(c), SkewWatermark(entries[c]))
    BY <1>1, <2>1
  <2>3. DOMAIN entries[c] = EntryFields
    BY <2>1 DEF Inv, TableInv, Live
  <2> QED
    BY <2>1, <2>2, <2>3, RefreshedFields DEF Live
<1>4. TableInv'
  BY <1>1, <1>2, <1>3 DEF TableInv
<1>5. TaskInv'
  BY <1>1 DEF TaskInv, NoTask, TaskFields
<1>6. ASSUME NEW c \in Live' PROVE entries'[c].next = None \/ CurrentNode(c)' \in DOMAIN heap'
  BY <1>2, <1>3 DEF CurrentNode
<1>7. NoLiveEntryForgotten'
  BY <1>6 DEF NoLiveEntryForgotten, CurrentNode, BagToSet
<1> QED
  BY <1>4, <1>5, <1>7 DEF Inv

\* Every step of the loop, of its callers and of its environment keeps the
\* invariant.
LEMMA InvStep == Inv /\ [Next]_vars => Inv'
<1> SUFFICES ASSUME Inv, [Next]_vars PROVE Inv'
  OBVIOUS
<1> USE DEF clock, table, channel, history
<1>0. /\ DOMAIN NoTask = TaskFields /\ NoTask.kind = "none"
      /\ DOMAIN task = TaskFields /\ DOMAIN entries = Crons
  BY DEF NoTask, TaskFields, Inv, TaskInv, TableInv
<1>1. CASE PeekAndSleep
  BY <1>0, <1>1, CleaningStep DEF PeekAndSleep
<1>2. CASE Wake
  <2>1. [NoTask EXCEPT !.kind = "fire", !.now = wall].kind = "fire"
        /\ DOMAIN [NoTask EXCEPT !.kind = "fire", !.now = wall] = TaskFields
    BY DEF NoTask, TaskFields
  <2> QED
    BY <1>0, <1>2, <2>1, CleaningStep DEF Wake
<1>3. CASE PopDue
  BY <1>3, PopDueStep
<1>4. CASE PassEnds
  BY <1>0, <1>4, CleaningStep DEF PassEnds
<1>5. CASE FireDone
  <2> DEFINE c    == task.id
             next == NextEligibleFire(entries[c].spec, task.now, entries[c].backoff)
             last == IF task.at < task.now THEN task.now ELSE task.at
             e    == Refreshed(entries[c], next, last)
  <2>1. /\ entries' = [entries EXCEPT ![c] = e]
        /\ heap' = Push(heap, next, c, entries[c].version + 1)
        /\ pc' = "fire" /\ task' = [task EXCEPT !.id = None, !.at = None] /\ open' = open
        /\ pc = "emit" /\ task.kind = "fire"
    BY <1>5 DEF FireDone
  <2>2. DOMAIN task' = TaskFields /\ task'.kind = "fire"
    BY <1>0, <2>1 DEF TaskFields
  <2>3. entries[c] # None
    BY <2>1 DEF Inv, TaskInv
  <2>4. c \in Crons => DOMAIN entries[c] = EntryFields
    BY <2>3 DEF Inv, TableInv, Live
  <2> HIDE DEF next, last
  <2>5. c \in Crons => DOMAIN e = EntryFields /\ e.next = next /\ e.version = entries[c].version + 1
    BY <2>4, RefreshedFields
  <2> HIDE DEF e
  <2> QED
    BY <2>1, <2>2, <2>5, WritingStep
<1>6. CASE SkewTick
  <2>1. [NoTask EXCEPT !.kind = "skew", !.now = wall].kind = "skew"
        /\ DOMAIN [NoTask EXCEPT !.kind = "skew", !.now = wall] = TaskFields
    BY DEF NoTask, TaskFields
  <2> QED
    BY <1>0, <1>6, <2>1, QuietStep DEF SkewTick
<1>7. CASE SkewDone
  BY <1>7, SkewDoneStep
<1>8. CASE InstallDone
  <2> DEFINE c    == task.id
             next == NextEligibleFire(task.config.spec, task.now, PreservedBackoff(entries, c))
             e    == [spec |-> task.config.spec, mode |-> task.config.mode,
                      throttle |-> task.config.throttle,
                      last |-> InstalledWatermark(task.at, task.now), next |-> next,
                      backoff |-> PreservedBackoff(entries, c),
                      version |-> NextVersion(entries, c)]
  <2>1. /\ entries' = [entries EXCEPT ![c] = e]
        /\ heap' = Push(heap, next, c, NextVersion(entries, c))
        /\ pc' = "top" /\ task' = NoTask /\ open' = open /\ task.kind = "install"
    BY <1>8 DEF InstallDone, UpsertEntries
  <2> HIDE DEF next
  <2>2. DOMAIN e = EntryFields /\ e.next = next /\ e.version = NextVersion(entries, c)
    BY DEF EntryFields
  <2> HIDE DEF e
  <2> QED
    BY <1>0, <2>1, <2>2, WritingStep
<1>9. CASE Send
  BY <1>0, <1>9, QuietStep DEF Send, Inv, TaskInv
<1>10. CASE SendFails
  BY <1>0, <1>10, QuietStep DEF SendFails, Inv, TaskInv
<1>11. ASSUME NEW c \in Crons, NEW k \in Configs, Upsert(c, k) PROVE Inv'
  <2> DEFINE t == [NoTask EXCEPT !.kind = "install", !.id = c, !.now = wall, !.at = persisted[c],
                                 !.config = k]
  <2>1. t.kind = "install" /\ DOMAIN t = TaskFields
    BY DEF NoTask, TaskFields
  <2>2. task' = t /\ pc = "select" /\ pc' = "emit" /\ UNCHANGED table /\ open' = open
    BY <1>11 DEF Upsert
  <2> HIDE DEF t
  <2> QED
    BY <2>1, <2>2, QuietStep
<1>12. ASSUME NEW c \in Deletable, Delete(c) PROVE Inv'
  <2>1. /\ entries' = [entries EXCEPT ![c] = None] /\ heap' = heap /\ task' = task
        /\ open' = open /\ pc = "select" /\ pc' = "top"
    BY <1>12 DEF Delete, DeleteEntries
  <2>2. ASSUME NEW d \in Live' PROVE d \in Live /\ entries'[d] = entries[d]
    BY <1>0, <2>1 DEF Live
  <2>3. TableInv'
    BY <1>0, <2>1, <2>2 DEF Inv, TableInv
  <2>4. TaskInv'
    BY <1>0, <2>1 DEF TaskInv
  <2>5. NoLiveEntryForgotten'
    BY <2>1, <2>2 DEF Inv, NoLiveEntryForgotten, BagToSet
  <2> QED
    BY <2>3, <2>4, <2>5 DEF Inv
<1>13. ASSUME NEW c \in Crons, NEW b \in Backoffs, UpdateBackoff(c, b) PROVE Inv'
  <2>1. CASE entries[c] = None
    BY <1>0, <1>13, <2>1, QuietStep DEF UpdateBackoff
  <2>2. CASE entries[c] # None
    <3> DEFINE next == NextEligibleFire(entries[c].spec, wall, b)
               e    == Refreshed(WithBackoff(entries[c], b), next, None)
    <3>1. /\ entries' = [entries EXCEPT ![c] = e]
          /\ heap' = Push(heap, next, c, entries[c].version + 1)
          /\ pc = "select" /\ pc' = "top" /\ task' = task /\ open' = open
      BY <1>13, <2>2 DEF UpdateBackoff
    <3>2. DOMAIN entries[c] = EntryFields
      BY <2>2 DEF Inv, TableInv, Live
    <3>3. /\ DOMAIN WithBackoff(entries[c], b) = EntryFields
          /\ WithBackoff(entries[c], b).version = entries[c].version
      BY <3>2 DEF WithBackoff, EntryFields
    <3> HIDE DEF next
    <3>4. DOMAIN e = EntryFields /\ e.next = next /\ e.version = entries[c].version + 1
      BY <3>3, RefreshedFields
    <3> HIDE DEF e
    <3> QED
      BY <1>0, <3>1, <3>4, WritingStep
  <2> QED
    BY <2>1, <2>2
<1>14. CASE Poke \/ Shutdown
  BY <1>0, <1>14, QuietStep DEF Poke, Shutdown
<1>15. CASE Environment \/ UNCHANGED vars
  BY <1>0, <1>15, QuietStep DEF Environment, Tick, Receive, CloseReceiver, Jump, vars, Inv, TaskInv
<1> QED
  BY <1>1, <1>2, <1>3, <1>4, <1>5, <1>6, <1>7, <1>8, <1>9, <1>10, <1>11, <1>12, <1>13, <1>14,
     <1>15 DEF Next, Loop, Commands

\* Lazy deletion never loses a scheduled cron, whatever is installed, edited,
\* deleted, backed off or skewed and in whichever order (heap.rs).
THEOREM NoEntryForgotten == Spec => []NoLiveEntryForgotten
<1>1. Inv => NoLiveEntryForgotten
  BY DEF Inv
<1> QED
  BY InitInv, InvStep, <1>1, PTL DEF Spec

-----------------------------------------------------------------------------
(* The events of a catch-up *)

Event == [id : Crons, at : Nat, firedAt : Nat, count : Nat, ticks : SUBSET Nat, truncated : BOOLEAN]

Resolved == [at : Nat, count : Nat, ticks : SUBSET Nat]

\* The fires fs stand for ticks of S after a and not after e, each for its own.
FiresOf(fs, S, a, e) ==
  /\ fs \in Seq(Resolved)
  /\ \A i \in 1..Len(fs) : \A t \in fs[i].ticks : t \in S /\ a < t /\ t <= e
  /\ \A i, j \in 1..Len(fs) : i # j => fs[i].ticks \cap fs[j].ticks = {}

\* The fires of a pass.
LEMMA FiresAre ==
  ASSUME NEW S \in SUBSET Nat, NEW a \in Nat, NEW e \in Nat, NEW m, Lists(m, S, a, e),
         NEW E, Capped(E, m), NEW o, NEW md \in CatchupMode, NEW k \in Nat,
         OutcomeOf(o, E, Len(m), md, k)
  PROVE  FiresOf(o.fires, S, a, e)
<1>0. /\ E \in Seq(Nat) /\ Rising(E) /\ Len(E) \in Nat /\ Len(m) \in Nat /\ Len(E) \in 0..Len(m)
      /\ (Len(m) # 0 => Len(E) # 0) /\ \A i \in 1..Len(E) : E[i] = m[i]
  BY CappedRises, CatchupAssumption DEF Capped
<1>1. \A i \in 1..Len(E) : E[i] \in Nat /\ E[i] \in S /\ a < E[i] /\ E[i] <= e
  <2>1. \A i \in 1..Len(E) : i \in 1..Len(m) /\ E[i] = m[i]
    BY <1>0
  <2>2. \A i \in 1..Len(E) : E[i] \in Nat
    BY <1>0, ElementOfSeq
  <2> QED
    BY <2>1, <2>2 DEF Lists
<1>2. CASE Len(m) = 0 \/ md = "skip"
  <2>1. o.fires = <<>>
    BY <1>2 DEF OutcomeOf
  <2>2. o.fires \in Seq(Resolved) /\ Len(o.fires) = 0
    BY <2>1, EmptySeq
  <2>3. \A i : i \notin 1..Len(o.fires)
    BY <2>2
  <2> QED
    BY <2>2, <2>3 DEF FiresOf
<1>3. CASE Len(m) # 0 /\ md = "coalesce"
  <2>1. Len(E) \in 1..Len(E) /\ Last(E) = E[Len(E)]
    BY <1>0, <1>3 DEF Last
  <2>2. ToSet(E) = First(E, Len(E))
    BY <1>0, ToSetIs
  <2>3. \A t \in ToSet(E) : t \in Nat /\ t \in S /\ a < t /\ t <= e
    BY <1>1, <2>2 DEF First
  <2>4. PICK g : g = [at |-> Last(E), count |-> Len(E), ticks |-> ToSet(E)]
    OBVIOUS
  <2>5. g \in Resolved /\ g.ticks = ToSet(E)
    BY <1>0, <1>1, <2>1, <2>3, <2>4 DEF Resolved
  <2>6. o.fires = << g >>
    BY <1>3, <2>4 DEF OutcomeOf
  <2>7. o.fires \in Seq(Resolved) /\ Len(o.fires) = 1 /\ o.fires[1] = g
    BY <2>5, <2>6
  <2>8. \A i \in 1..Len(o.fires) : i = 1
    BY <2>7
  <2> QED
    BY <2>3, <2>5, <2>7, <2>8 DEF FiresOf
<1>4. CASE Len(m) # 0 /\ md = "replay"
  <2>1. PICK s : s = Throttled(E, k)
    OBVIOUS
  <2>2. Keeps(s, E, k, Len(E))
    BY <1>0, <2>1, ThrottledKeeps
  <2>3. s \in Seq(Nat) /\ Len(s) \in Nat /\ \A i \in 1..Len(s) : s[i] \in Nat
    BY <2>2, LenProperties, ElementOfSeq DEF Keeps
  <2>4. o.fires = [i \in 1..Len(s) |-> [at |-> s[i], count |-> 1, ticks |-> {s[i]}]]
    BY <1>4, <2>1 DEF OutcomeOf
  <2>5. \A i \in 1..Len(s) : [at |-> s[i], count |-> 1, ticks |-> {s[i]}] \in Resolved
    BY <2>3 DEF Resolved
  <2>6. /\ o.fires \in Seq(Resolved) /\ Len(o.fires) = Len(s)
        /\ \A i \in 1..Len(s) : o.fires[i].ticks = {s[i]}
    <3>1. PICK F : F = [i \in 1..Len(s) |-> [at |-> s[i], count |-> 1, ticks |-> {s[i]}]]
      OBVIOUS
    <3>2. \A i \in 1..Len(s) : F[i] = [at |-> s[i], count |-> 1, ticks |-> {s[i]}]
      BY <3>1
    <3>3. F = [i \in 1..Len(s) |-> F[i]]
      BY <3>1
    <3>4. \A i \in 1..Len(s) : F[i] \in Resolved /\ F[i].ticks = {s[i]}
      <4>1. \A i \in 1..Len(s) : F[i] \in Resolved
        BY <2>5, <3>2, Zenon
      <4>2. ASSUME NEW i \in 1..Len(s) PROVE F[i].ticks = {s[i]}
        <5>1. PICK v : v = {s[i]}
          OBVIOUS
        <5>2. F[i] = [at |-> s[i], count |-> 1, ticks |-> v]
          BY <3>2, <5>1
        <5> QED
          BY <5>1, <5>2
      <4> QED
        BY <4>1, <4>2
    <3>5. F \in Seq(Resolved) /\ Len(F) = Len(s)
      BY <2>3, <3>3, <3>4
    <3> QED
      BY <2>4, <3>1, <3>4, <3>5
  <2>7. \A i \in 1..Len(s) : s[i] \in S /\ a < s[i] /\ s[i] <= e
    BY <1>1, <2>2 DEF Keeps
  <2>8. ASSUME NEW d \in Nat PROVE \A i, j \in 1..Len(s) : i + d + 1 = j => s[i] < s[j]
    <3> DEFINE T == {n \in Nat : \A i, j \in 1..Len(s) : i + n + 1 = j => s[i] < s[j]}
    <3>1. 0 \in T
      <4> SUFFICES ASSUME NEW i \in 1..Len(s), NEW j \in 1..Len(s), i + 0 + 1 = j PROVE s[i] < s[j]
        OBVIOUS
      <4>1. i \in 1..(Len(s) - 1) /\ j = i + 1
        BY <2>3
      <4> QED
        BY <2>2, <4>1 DEF Keeps
    <3>2. ASSUME NEW n \in Nat, n \in T PROVE n + 1 \in T
      <4> SUFFICES ASSUME NEW i \in 1..Len(s), NEW j \in 1..Len(s), i + (n + 1) + 1 = j PROVE s[i] < s[j]
        OBVIOUS
      <4>1. j - 1 \in 1..Len(s) /\ i + n + 1 = j - 1 /\ j - 1 \in 1..(Len(s) - 1) /\ (j - 1) + 1 = j
        BY <2>3
      <4>2. s[i] < s[j - 1]
        BY <3>2, <4>1
      <4>3. s[j - 1] < s[j]
        BY <2>2, <4>1 DEF Keeps
      <4> QED
        BY <2>3, <4>1, <4>2, <4>3
    <3> HIDE DEF T
    <3>3. \A n \in Nat : n \in T
      BY <3>1, <3>2, SetInduction
    <3> QED
      BY <3>3 DEF T
  <2>9. ASSUME NEW i \in 1..Len(s), NEW j \in 1..Len(s), i < j PROVE s[i] # s[j]
    <3>1. (j - i) - 1 \in Nat /\ i + ((j - i) - 1) + 1 = j
      BY <2>9
    <3>2. s[i] < s[j]
      BY <2>8, <3>1
    <3> QED
      BY <2>3, <3>2
  <2>10. \A i, j \in 1..Len(s) : i # j => s[i] # s[j]
    <3>1. \A i, j \in 1..Len(s) : i # j => i < j \/ j < i
      OBVIOUS
    <3> QED
      BY <2>9, <3>1
  <2> QED
    BY <2>6, <2>7, <2>10 DEF FiresOf
<1> QED
  BY <1>2, <1>3, <1>4 DEF CatchupMode

\* The events evs of cron c, fired at e, stand for ticks of S after a, each for
\* its own.
EventsOf(evs, c, S, a, e) ==
  /\ evs \in Seq(Event)
  /\ \A i \in 1..Len(evs) : /\ evs[i].id = c /\ evs[i].firedAt = e
                            /\ \A t \in evs[i].ticks : t \in S /\ a < t /\ t <= e
  /\ \A i, j \in 1..Len(evs) : i # j => evs[i].ticks \cap evs[j].ticks = {}

\* evs leaves out no tick of S after a and not after e.
Covers(evs, S, a, e) ==
  \A t \in S : a < t /\ t <= e => \E i \in 1..Len(evs) : t \in evs[i].ticks

\* A gap that is within the cap, of a cron that neither skips nor throttles.
AllKept(S, md, k, a, e) ==
  md # "skip" /\ k = 0 /\ Cardinality({t \in S : a < t /\ t <= e}) < MAX_CATCHUP

\* process_missed_fires sends such events, and a cron that neither skips nor
\* throttles gets all the ticks of a gap that is within the cap.
LEMMA EventsAre ==
  ASSUME NEW c \in Crons, NEW S \in SUBSET Nat, NEW md \in CatchupMode, NEW k \in Nat,
         NEW a \in Nat, NEW e \in Nat
  PROVE  /\ EventsOf(CatchupEvents(c, S, md, k, a, e), c, S, a, e)
         /\ AllKept(S, md, k, a, e) => Covers(CatchupEvents(c, S, md, k, a, e), S, a, e)
<1> DEFINE evs == CatchupEvents(c, S, md, k, a, e)
<1>1. PICK o : o = MissedOutcome(S, a, e, md, k)
  OBVIOUS
<1>2. PICK m, E : Lists(m, S, a, e) /\ Capped(E, m) /\ OutcomeOf(o, E, Len(m), md, k)
  BY <1>1, OutcomeIs
<1>3. PICK fs : fs = o.fires
  OBVIOUS
<1>4. FiresOf(fs, S, a, e)
  BY <1>2, <1>3, FiresAre
<1>5. Len(fs) \in Nat /\ \A i \in 1..Len(fs) : fs[i] \in Resolved
  BY <1>4, LenProperties, ElementOfSeq DEF FiresOf
<1>6. PICK tr \in BOOLEAN : tr = (o.truncated # None)
  BY Zenon
<1>7. evs = [i \in 1..Len(fs) |-> FireEvent(c, fs[i], e, tr)]
  BY <1>1, <1>3, <1>6 DEF CatchupEvents
<1> HIDE DEF evs
<1>8. ASSUME NEW i \in 1..Len(fs)
      PROVE  LET ev == FireEvent(c, fs[i], e, tr)
             IN  ev \in Event /\ ev.id = c /\ ev.firedAt = e /\ ev.ticks = fs[i].ticks
  <2>1. fs[i].at \in Nat /\ fs[i].count \in Nat /\ fs[i].ticks \in SUBSET Nat
    BY <1>5 DEF Resolved
  <2> QED
    BY <2>1 DEF FireEvent, Event
<1>9. /\ evs \in Seq(Event) /\ Len(evs) = Len(fs)
      /\ \A i \in 1..Len(fs) : evs[i] = FireEvent(c, fs[i], e, tr)
  BY <1>5, <1>7, <1>8
<1>10. \A i \in 1..Len(fs) : evs[i].id = c /\ evs[i].firedAt = e /\ evs[i].ticks = fs[i].ticks
  BY <1>8, <1>9
<1>11. EventsOf(evs, c, S, a, e)
  BY <1>4, <1>9, <1>10 DEF EventsOf, FiresOf
<1>12. ASSUME md # "skip", k = 0, Cardinality({t \in S : a < t /\ t <= e}) < MAX_CATCHUP,
              NEW t \in S, a < t, t <= e
       PROVE  \E i \in 1..Len(evs) : t \in evs[i].ticks
  <2>1. {u \in S : a < u /\ u <= e} = First(m, Len(m))
    BY <1>2, GapIs
  <2>2. Len(m) \in Nat
    BY <1>2, CappedRises
  <2>3. Cardinality(First(m, Len(m))) = Len(m)
    <3>1. Len(m) \in 0..Len(m)
      BY <2>2
    <3> QED
      BY <1>2, <3>1, ListCounts
  <2>4. Len(m) < MAX_CATCHUP
    BY <1>12, <2>1, <2>3
  <2>5. Len(E) = Len(m)
    BY <1>2, <2>2, <2>4, CatchupAssumption DEF Capped
  <2>6. TicksOf(o) = First(m, Len(m))
    <3>1. md = "coalesce" \/ (md = "replay" /\ k = 0)
      BY <1>12 DEF CatchupMode
    <3> QED
      BY <1>2, <2>5, <3>1, EmittedIs
  <2>7. t \in TicksOf(o)
    <3>1. t \in {u \in S : a < u /\ u <= e}
      BY <1>12
    <3> QED
      BY <2>1, <2>6, <3>1
  <2>8. PICK f \in ToSet(fs) : t \in f.ticks
    BY <1>3, <2>7 DEF TicksOf
  <2>9. PICK i \in DOMAIN fs : f = fs[i]
    BY <2>8 DEF ToSet
  <2>10. i \in 1..Len(fs)
    BY <1>4, <2>9, LenProperties DEF FiresOf
  <2> QED
    BY <1>9, <1>10, <2>8, <2>9, <2>10
<1> QED
  BY <1>11, <1>12 DEF AllKept, Covers, evs

-----------------------------------------------------------------------------
(* The events of a skew pass *)

\* No two events of s stand for the same tick of a cron.
Apart(s) ==
  \A i, j \in 1..Len(s) : i # j /\ s[i].id = s[j].id => s[i].ticks \cap s[j].ticks = {}

\* A concatenation of the events of different crons.
LEMMA ApartTogether ==
  ASSUME NEW s \in Seq(Event), NEW t \in Seq(Event), Apart(s), Apart(t),
         \A i \in 1..Len(s), j \in 1..Len(t) : s[i].id # t[j].id
  PROVE  /\ s \o t \in Seq(Event) /\ Apart(s \o t)
         /\ \A p \in 1..Len(s \o t) : \/ \E i \in 1..Len(s) : (s \o t)[p] = s[i]
                                      \/ \E j \in 1..Len(t) : (s \o t)[p] = t[j]
<1>0. Len(s) \in Nat /\ Len(t) \in Nat
  BY LenProperties
<1>1. PICK r : r = s \o t
  OBVIOUS
<1>2. /\ r \in Seq(Event) /\ Len(r) = Len(s) + Len(t)
      /\ \A p \in 1..Len(r) : r[p] = IF p <= Len(s) THEN s[p] ELSE t[p - Len(s)]
  BY <1>0, <1>1, ConcatProperties
<1>3. ASSUME NEW p \in 1..Len(r)
      PROVE  \/ p \in 1..Len(s) /\ r[p] = s[p]
             \/ p - Len(s) \in 1..Len(t) /\ r[p] = t[p - Len(s)] /\ ~(p \in 1..Len(s))
  BY <1>0, <1>2
<1>4. ASSUME NEW p \in 1..Len(r), NEW q \in 1..Len(r), p # q, r[p].id = r[q].id
      PROVE  r[p].ticks \cap r[q].ticks = {}
  <2>1. CASE p \in 1..Len(s) /\ q \in 1..Len(s)
    BY <1>3, <1>4, <2>1 DEF Apart
  <2>2. CASE ~(p \in 1..Len(s)) /\ ~(q \in 1..Len(s))
    <3>1. p - Len(s) \in 1..Len(t) /\ q - Len(s) \in 1..Len(t) /\ p - Len(s) # q - Len(s)
      BY <1>0, <1>2, <1>3, <1>4, <2>2
    <3>2. r[p] = t[p - Len(s)] /\ r[q] = t[q - Len(s)]
      BY <1>3, <2>2
    <3> QED
      BY <1>4, <3>1, <3>2 DEF Apart
  <2>3. CASE p \in 1..Len(s) /\ ~(q \in 1..Len(s))
    BY <1>3, <1>4, <2>3
  <2>4. CASE ~(p \in 1..Len(s)) /\ q \in 1..Len(s)
    BY <1>3, <1>4, <2>4
  <2> QED
    BY <2>1, <2>2, <2>3, <2>4
<1> QED
  BY <1>1, <1>2, <1>3, <1>4 DEF Apart

\* The equation of the concatenation of ss.
IsFlat(f, ss) == f = [i \in 1..Len(ss) |-> IF i = 1 THEN ss[i] ELSE f[i - 1] \o ss[i]]

\* The concatenation up to n.
FlatUpTo(f, ss, n) ==
  /\ f = [i \in 1..n |-> f[i]]
  /\ \A i \in 1..n : f[i] = IF i = 1 THEN ss[i] ELSE f[i - 1] \o ss[i]

\* The concatenation is defined: a function as its equation says exists.
LEMMA FlatExists ==
  ASSUME NEW ss
  PROVE  \A n \in Nat : \E f : FlatUpTo(f, ss, n)
<1> DEFINE W(f, n) == FlatUpTo(f, ss, n)
           T == {n \in Nat : \E f : W(f, n)}
<1>1. 0 \in T
  <2>1. PICK f : f = [i \in 1..0 |-> ss]
    OBVIOUS
  <2>2. W(f, 0)
    BY <2>1 DEF FlatUpTo
  <2> QED
    BY <2>2
<1>2. ASSUME NEW n \in Nat, n \in T PROVE n + 1 \in T
  <2>1. PICK f : W(f, n)
    BY <1>2
  <2>2. PICK v : v = IF n = 0 THEN ss[1] ELSE f[n] \o ss[n + 1]
    OBVIOUS
  <2>3. PICK g : g = [i \in 1..(n + 1) |-> IF i = n + 1 THEN v ELSE f[i]]
    OBVIOUS
  <2>4. \A i \in 1..n : g[i] = f[i]
    BY <2>3
  <2>5. ASSUME NEW i \in 1..n PROVE g[i] = IF i = 1 THEN ss[i] ELSE g[i - 1] \o ss[i]
    <3>1. f[i] = IF i = 1 THEN ss[i] ELSE f[i - 1] \o ss[i]
      BY <2>1 DEF FlatUpTo
    <3>2. g[i] = f[i] /\ (i # 1 => g[i - 1] = f[i - 1])
      BY <2>4
    <3> QED
      BY <3>1, <3>2
  <2>6. g[n + 1] = IF n + 1 = 1 THEN ss[n + 1] ELSE g[(n + 1) - 1] \o ss[n + 1]
    <3>1. n # 0 => g[(n + 1) - 1] = f[n]
      BY <2>4
    <3>2. g[n + 1] = v
      BY <2>3
    <3> QED
      BY <2>2, <3>1, <3>2
  <2>7. \A i \in 1..(n + 1) : i \in 1..n \/ i = n + 1
    OBVIOUS
  <2>8. \A i \in 1..(n + 1) : g[i] = IF i = 1 THEN ss[i] ELSE g[i - 1] \o ss[i]
    BY <2>5, <2>6, <2>7
  <2>9. g = [i \in 1..(n + 1) |-> g[i]]
    BY <2>3
  <2>10. W(g, n + 1)
    BY <2>8, <2>9 DEF FlatUpTo
  <2> QED
    BY <2>10
<1> HIDE DEF T
<1>3. \A n \in Nat : n \in T
  BY <1>1, <1>2, SetInduction
<1> QED
  BY <1>3 DEF T

\* So the concatenation is one.
LEMMA FlatIs ==
  ASSUME NEW ss, Len(ss) \in Nat, Len(ss) # 0
  PROVE  \E f : /\ \A i \in 1..Len(ss) : f[i] = IF i = 1 THEN ss[i] ELSE f[i - 1] \o ss[i]
                /\ FlattenSeq(ss) = f[Len(ss)]
<1>1. PICK f : f = CHOOSE g : IsFlat(g, ss)
  OBVIOUS
<1>2. PICK g : FlatUpTo(g, ss, Len(ss))
  BY FlatExists
<1>3. IsFlat(g, ss)
  BY <1>2 DEF IsFlat, FlatUpTo
<1>4. IsFlat(f, ss)
  BY <1>1, <1>3, Zenon
<1>5. \A i \in 1..Len(ss) : f[i] = IF i = 1 THEN ss[i] ELSE f[i - 1] \o ss[i]
  BY <1>4 DEF IsFlat
<1>6. FlattenSeq(ss) = f[Len(ss)]
  BY <1>1 DEF FlattenSeq, IsFlat
<1> QED
  BY <1>5, <1>6

\* What is gathered from the parts ss so far.
Gathered(s, ss, n) ==
  /\ s \in Seq(Event) /\ Apart(s)
  /\ \A p \in 1..Len(s) : \E x \in 1..n : \E y \in 1..Len(ss[x]) : s[p] = ss[x][y]

\* Gathering the events of crons that are all different keeps them apart.
LEMMA FlatGathers ==
  ASSUME NEW n \in Nat, NEW ss, ss \in Seq(Seq(Event)), Len(ss) = n, NEW order,
         \A x, y \in 1..n : x # y => order[x] # order[y],
         \A x \in 1..n : ss[x] \in Seq(Event) /\ Apart(ss[x])
                         /\ \A y \in 1..Len(ss[x]) : ss[x][y].id = order[x]
  PROVE  Gathered(FlattenSeq(ss), ss, n)
<1>1. CASE n = 0
  <2>1. FlattenSeq(ss) = ss
    BY <1>1 DEF FlattenSeq
  <2>2. ss = <<>>
    BY <1>1, EmptySeq
  <2>3. ss \in Seq(Event) /\ Len(ss) = 0
    BY <2>2, EmptySeq
  <2>4. \A i : i \notin 1..Len(ss)
    BY <2>3
  <2> QED
    BY <2>1, <2>3, <2>4 DEF Gathered, Apart
<1>2. CASE n # 0
  <2>1. PICK f : /\ \A i \in 1..n : f[i] = IF i = 1 THEN ss[i] ELSE f[i - 1] \o ss[i]
                 /\ FlattenSeq(ss) = f[n]
    BY <1>2, FlatIs
  <2> DEFINE T == {i \in Nat : i + 1 <= n => Gathered(f[i + 1], ss, i + 1)}
  <2>2. 0 \in T
    <3>1. f[1] = ss[1] /\ 1 \in 1..n
      BY <1>2, <2>1
    <3>2. Gathered(f[1], ss, 1)
      BY <3>1 DEF Gathered
    <3> QED
      BY <3>2
  <2>3. ASSUME NEW i \in Nat, i \in T PROVE i + 1 \in T
    <3> SUFFICES ASSUME (i + 1) + 1 <= n PROVE Gathered(f[(i + 1) + 1], ss, (i + 1) + 1)
      OBVIOUS
    <3>1. PICK k \in Nat : k = i + 1
      OBVIOUS
    <3>2. k + 1 \in 1..n /\ k + 1 # 1 /\ (k + 1) - 1 = k
      BY <3>1
    <3>3. f[k + 1] = f[k] \o ss[k + 1]
      BY <2>1, <3>2
    <3>4. Gathered(f[k], ss, k)
      BY <2>3, <3>1
    <3>5. ASSUME NEW p \in 1..Len(f[k]), NEW y \in 1..Len(ss[k + 1]) PROVE f[k][p].id # ss[k + 1][y].id
      <4>1. PICK x \in 1..k : \E z \in 1..Len(ss[x]) : f[k][p] = ss[x][z]
        BY <3>4 DEF Gathered
      <4>2. x \in 1..n /\ x # k + 1
        BY <3>2
      <4>3. f[k][p].id = order[x] /\ ss[k + 1][y].id = order[k + 1]
        BY <3>2, <4>1, <4>2
      <4> QED
        BY <3>2, <4>2, <4>3
    <3>6. /\ f[k + 1] \in Seq(Event) /\ Apart(f[k + 1])
          /\ \A p \in 1..Len(f[k + 1]) : \/ \E z \in 1..Len(f[k]) : f[k + 1][p] = f[k][z]
                                         \/ \E y \in 1..Len(ss[k + 1]) : f[k + 1][p] = ss[k + 1][y]
      <4>1. PICK s : s = f[k]
        OBVIOUS
      <4>2. PICK t : t = ss[k + 1]
        OBVIOUS
      <4>3. s \in Seq(Event) /\ t \in Seq(Event) /\ Apart(s) /\ Apart(t)
        BY <3>2, <3>4, <4>1, <4>2 DEF Gathered
      <4>4. \A x \in 1..Len(s), y \in 1..Len(t) : s[x].id # t[y].id
        BY <3>5, <4>1, <4>2
      <4>5. PICK r : r = s \o t
        OBVIOUS
      <4>6. /\ r \in Seq(Event) /\ Apart(r)
            /\ \A p \in 1..Len(r) : \/ \E z \in 1..Len(s) : r[p] = s[z]
                                    \/ \E y \in 1..Len(t) : r[p] = t[y]
        <5>1. /\ s \o t \in Seq(Event) /\ Apart(s \o t)
              /\ \A p \in 1..Len(s \o t) : \/ \E z \in 1..Len(s) : (s \o t)[p] = s[z]
                                           \/ \E y \in 1..Len(t) : (s \o t)[p] = t[y]
          BY <4>3, <4>4, ApartTogether, Zenon
        <5> QED
          BY <4>5, <5>1, Zenon
      <4>7. f[k + 1] = r
        BY <3>3, <4>1, <4>2, <4>5
      <4> QED
        BY <4>1, <4>2, <4>6, <4>7
    <3>7. ASSUME NEW p \in 1..Len(f[k + 1])
          PROVE  \E x \in 1..(k + 1) : \E y \in 1..Len(ss[x]) : f[k + 1][p] = ss[x][y]
      <4>1. CASE \E y \in 1..Len(ss[k + 1]) : f[k + 1][p] = ss[k + 1][y]
        <5>1. k + 1 \in 1..(k + 1)
          OBVIOUS
        <5> QED
          BY <4>1, <5>1
      <4>2. CASE \E z \in 1..Len(f[k]) : f[k + 1][p] = f[k][z]
        <5>1. PICK z \in 1..Len(f[k]) : f[k + 1][p] = f[k][z]
          BY <4>2
        <5>2. PICK x \in 1..k : \E y \in 1..Len(ss[x]) : f[k][z] = ss[x][y]
          BY <3>4 DEF Gathered
        <5>3. x \in 1..(k + 1)
          OBVIOUS
        <5> QED
          BY <5>1, <5>2, <5>3
      <4> QED
        BY <3>6, <4>1, <4>2
    <3>8. Gathered(f[k + 1], ss, k + 1)
      BY <3>6, <3>7 DEF Gathered
    <3> QED
      BY <3>1, <3>8
  <2> HIDE DEF T
  <2>4. \A i \in Nat : i \in T
    BY <2>2, <2>3, SetInduction
  <2>5. n - 1 \in T /\ (n - 1) + 1 = n
    BY <1>2, <2>4
  <2>6. Gathered(f[(n - 1) + 1], ss, (n - 1) + 1)
    BY <2>5 DEF T
  <2> QED
    BY <2>1, <2>5, <2>6
<1> QED
  BY <1>1, <1>2

-----------------------------------------------------------------------------
(* Types *)

ClockTypes ==
  wall \in Time /\ drift \in Int /\ remaining \in Nat \cup {None}

\* Outside of a pass there is no task; in a pass, the task says which pass it is
\* and on whose behalf.
TaskTypes ==
  /\ pc \in {"top", "select", "fire", "emit", "stopped"}
  /\ task \in [kind : {"none", "install", "fire", "skew"}, id : Crons \cup {None},
               now : Nat \cup {None}, at : Nat \cup {None}, config : Configs \cup {None}]
  /\ pc \in {"top", "select", "stopped"} => task = NoTask
  /\ pc \in {"fire", "emit"} => task.kind # "none" /\ task.now \in Nat
  /\ pc = "fire" => task.kind = "fire"
  /\ pc = "emit" /\ task.kind = "install" => task.id \in Crons /\ task.config \in Configs
  /\ pc = "emit" /\ task.kind = "fire" => task.id \in Crons /\ task.at \in Nat

TableTypes ==
  entries \in [Crons -> Entry \cup {None}] /\ IsABag(heap) /\ BagToSet(heap) \subseteq Node

FlowTypes ==
  /\ outbox \in Seq(Event) /\ fires \in Seq(Event) /\ open \in BOOLEAN
  /\ persisted \in [Crons -> Nat \cup {None}] /\ since \in [Crons -> Nat]
  /\ handled \in [Crons -> [Time -> 0..2]]

LoopTypes == ClockTypes /\ TaskTypes /\ TableTypes /\ FlowTypes

\* The fields of an entry that exists.
LEMMA LiveEntry ==
  ASSUME TableTypes, NEW c \in Crons, entries[c] # None
  PROVE  /\ entries[c] \in Entry
         /\ entries[c].spec \in SUBSET Nat /\ entries[c].mode \in CatchupMode
         /\ entries[c].throttle \in Nat /\ entries[c].last \in Nat
         /\ entries[c].next \in Nat \cup {None} /\ entries[c].version \in Nat
         /\ entries[c].backoff \in BackoffState
<1>1. entries[c] \in Entry
  BY DEF TableTypes
<1>2. PICK e \in Entry : e = entries[c]
  BY <1>1
<1>3. /\ e.spec \in {k.spec : k \in Configs} /\ e.mode \in CatchupMode /\ e.throttle \in Nat
      /\ e.last \in Nat /\ e.next \in Nat \cup {None} /\ e.version \in Nat
      /\ e.backoff \in Backoffs \cup {NoBackoff}
  BY DEF Entry
<1>4. e.spec \in SUBSET Nat
  BY <1>3, LoopAssumption
<1>5. e.backoff \in BackoffState
  BY <1>3, NoRetry, LoopAssumption
<1> QED
  BY <1>1, <1>2, <1>3, <1>4, <1>5

\* What is upserted.
LEMMA ConfigFields ==
  ASSUME NEW k \in Configs
  PROVE  /\ k.spec \in {j.spec : j \in Configs} /\ k.spec \in SUBSET Nat
         /\ k.mode \in CatchupMode /\ k.throttle \in Nat
  BY LoopAssumption

\* refresh_next_fire on an entry.
LEMMA RefreshedEntry ==
  ASSUME NEW e \in Entry, NEW next \in Nat \cup {None}, NEW last \in Nat \cup {None}
  PROVE  /\ Refreshed(e, next, last) \in Entry
         /\ Refreshed(e, next, last).spec = e.spec /\ Refreshed(e, next, last).mode = e.mode
         /\ Refreshed(e, next, last).throttle = e.throttle
         /\ Refreshed(e, next, last).backoff = e.backoff
         /\ Refreshed(e, next, last).version = e.version + 1
         /\ Refreshed(e, next, last).next = next
         /\ Refreshed(e, next, last).last = IF last = None THEN e.last ELSE last
<1>1. /\ e.spec \in {k.spec : k \in Configs} /\ e.mode \in CatchupMode /\ e.throttle \in Nat
      /\ e.last \in Nat /\ e.version \in Nat /\ e.backoff \in Backoffs \cup {NoBackoff}
      /\ e = [spec |-> e.spec, mode |-> e.mode, throttle |-> e.throttle, last |-> e.last,
              next |-> e.next, backoff |-> e.backoff, version |-> e.version]
  BY DEF Entry
<1>2. PICK v \in Nat : v = e.version + 1
  BY <1>1
<1>3. PICK l \in Nat : l = IF last = None THEN e.last ELSE last
  BY <1>1
<1>4. PICK x : x = [e EXCEPT !.version = v, !.next = next, !.last = l]
  OBVIOUS
<1>5. x \in Entry
  BY <1>4 DEF Entry
<1>6. /\ x.spec = e.spec /\ x.mode = e.mode /\ x.throttle = e.throttle /\ x.backoff = e.backoff
      /\ x.version = v /\ x.next = next /\ x.last = l
  BY <1>4 DEF Entry
<1>7. Refreshed(e, next, last) = x
  BY <1>2, <1>3, <1>4 DEF Refreshed
<1> QED
  BY <1>2, <1>3, <1>5, <1>6, <1>7

\* The entry of c is written as e, armed from the instant t on.
Rearms(c, e, t) ==
  /\ c \in Crons /\ t \in Nat /\ e \in Entry
  /\ entries' = [entries EXCEPT ![c] = e]
  /\ e.version = NextVersion(entries, c)
  /\ e.next = NextEligibleFire(e.spec, t, e.backoff)
  /\ heap' = Push(heap, e.next, c, e.version)

\* The end of a firing pass re-arms the entry from the pass's clock reading.
LEMMA FireRearms ==
  ASSUME TaskTypes, TableTypes, Inv, FireDone
  PROVE  \E e : /\ Rearms(task.id, e, task.now)
                /\ entries[task.id] # None
                /\ e.spec = entries[task.id].spec /\ e.mode = entries[task.id].mode
                /\ e.throttle = entries[task.id].throttle
                /\ e.backoff = entries[task.id].backoff
                /\ e.last = IF task.at < task.now THEN task.now ELSE task.at
<1>1. PICK c : c = task.id
  OBVIOUS
<1>2. c \in Crons /\ task.at \in Nat /\ task.now \in Nat /\ pc = "emit" /\ task.kind = "fire"
  BY <1>1 DEF FireDone, TaskTypes
<1>3. entries[c] # None
  BY <1>1, <1>2 DEF Inv, TaskInv
<1>4. /\ entries[c] \in Entry /\ entries[c].spec \in SUBSET Nat /\ entries[c].backoff \in BackoffState
  BY <1>2, <1>3, LiveEntry
<1>5. PICK next \in Nat \cup {None} : next = NextEligibleFire(entries[c].spec, task.now, entries[c].backoff)
  BY <1>2, <1>4, EligibleIs
<1>6. PICK last \in Nat : last = IF task.at < task.now THEN task.now ELSE task.at
  BY <1>2
<1>7. PICK e : e = Refreshed(entries[c], next, last)
  OBVIOUS
<1>8. /\ e \in Entry
      /\ e.spec = entries[c].spec /\ e.mode = entries[c].mode /\ e.throttle = entries[c].throttle
      /\ e.backoff = entries[c].backoff
      /\ e.version = entries[c].version + 1 /\ e.next = next /\ e.last = last
  <2>1. entries[c] \in Entry /\ next \in Nat \cup {None} /\ last \in Nat \cup {None} /\ last # None
    BY <1>4, <1>5, <1>6, CatchupAssumption
  <2>2. /\ e \in Entry
        /\ e.spec = entries[c].spec /\ e.mode = entries[c].mode /\ e.throttle = entries[c].throttle
        /\ e.backoff = entries[c].backoff
        /\ e.version = entries[c].version + 1 /\ e.next = next
        /\ e.last = IF last = None THEN entries[c].last ELSE last
    <3>1. PICK x \in Entry : x = entries[c]
      BY <2>1
    <3>2. /\ Refreshed(x, next, last) \in Entry
          /\ Refreshed(x, next, last).spec = x.spec /\ Refreshed(x, next, last).mode = x.mode
          /\ Refreshed(x, next, last).throttle = x.throttle
          /\ Refreshed(x, next, last).backoff = x.backoff
          /\ Refreshed(x, next, last).version = x.version + 1
          /\ Refreshed(x, next, last).next = next
          /\ Refreshed(x, next, last).last = IF last = None THEN x.last ELSE last
      BY <2>1, <3>1, RefreshedEntry
    <3> QED
      BY <1>7, <3>1, <3>2
  <2> QED
    BY <2>1, <2>2
<1>9. /\ entries' = [entries EXCEPT ![c] = e]
      /\ heap' = Push(heap, next, c, entries[c].version + 1)
  BY <1>1, <1>5, <1>6, <1>7 DEF FireDone
<1>10. Rearms(c, e, task.now)
  BY <1>2, <1>3, <1>5, <1>8, <1>9 DEF Rearms, NextVersion
<1> QED
  BY <1>1, <1>3, <1>6, <1>8, <1>10

\* The end of an installation arms the entry from its clock reading.
LEMMA InstallRearms ==
  ASSUME TaskTypes, TableTypes, InstallDone
  PROVE  \E e : /\ Rearms(task.id, e, task.now)
                /\ e.spec = task.config.spec /\ e.mode = task.config.mode
                /\ e.throttle = task.config.throttle
                /\ e.backoff = PreservedBackoff(entries, task.id)
                /\ e.last = InstalledWatermark(task.at, task.now)
<1>1. PICK c : c = task.id
  OBVIOUS
<1>2. /\ c \in Crons /\ task.at \in Nat \cup {None} /\ task.now \in Nat
      /\ task.config \in Configs
  BY <1>1 DEF InstallDone, TaskTypes
<1>3. PICK k \in Configs : k = task.config
  BY <1>2
<1>4. PICK b : b = PreservedBackoff(entries, c)
  OBVIOUS
<1>5. b \in Backoffs \cup {NoBackoff} /\ b \in BackoffState
  <2>1. CASE entries[c] = None
    BY <1>4, <2>1, NoRetry DEF PreservedBackoff
  <2>2. CASE entries[c] # None
    <3>1. entries[c] \in Entry /\ entries[c].backoff \in BackoffState
      BY <1>2, <2>2, LiveEntry
    <3> QED
      BY <1>4, <2>2, <3>1 DEF PreservedBackoff, Entry
  <2> QED
    BY <2>1, <2>2
<1>6. PICK v \in Nat : v = NextVersion(entries, c)
  <2>1. entries[c] # None => entries[c].version \in Nat
    BY <1>2, LiveEntry
  <2> QED
    BY <2>1 DEF NextVersion
<1>7. PICK last \in Nat : last = InstalledWatermark(task.at, task.now)
  BY <1>2 DEF InstalledWatermark
<1>8. /\ k.spec \in {j.spec : j \in Configs} /\ k.spec \in SUBSET Nat
      /\ k.mode \in CatchupMode /\ k.throttle \in Nat
  BY ConfigFields
<1>9. PICK next \in Nat \cup {None} : next = NextEligibleFire(k.spec, task.now, b)
  <2>1. k.spec \in SUBSET Nat /\ b \in BackoffState /\ task.now \in Nat
    BY <1>2, <1>5, <1>8
  <2> QED
    BY <2>1, EligibleIs
<1>10. PICK e : e = [spec |-> k.spec, mode |-> k.mode, throttle |-> k.throttle, last |-> last,
                     next |-> next, backoff |-> b, version |-> v]
  OBVIOUS
<1>11. /\ e \in Entry
       /\ e.spec = k.spec /\ e.mode = k.mode /\ e.throttle = k.throttle
       /\ e.backoff = b /\ e.version = v /\ e.next = next /\ e.last = last
  <2>1. e \in Entry
    BY <1>5, <1>8, <1>10 DEF Entry
  <2> QED
    BY <1>10, <2>1
<1>12. /\ entries' = [entries EXCEPT ![c] = e] /\ heap' = Push(heap, next, c, v)
  BY <1>1, <1>3, <1>4, <1>6, <1>7, <1>9, <1>10 DEF InstallDone, UpsertEntries
<1>13. Rearms(c, e, task.now)
  BY <1>2, <1>6, <1>9, <1>11, <1>12 DEF Rearms
<1> QED
  BY <1>1, <1>3, <1>4, <1>7, <1>11, <1>13

\* A backoff report arms the entry from the clock.
LEMMA BackoffRearms ==
  ASSUME ClockTypes, TableTypes, NEW c \in Crons, NEW b \in Backoffs, UpdateBackoff(c, b),
         entries[c] # None
  PROVE  \E e : /\ Rearms(c, e, wall)
                /\ e.spec = entries[c].spec /\ e.mode = entries[c].mode
                /\ e.throttle = entries[c].throttle /\ e.backoff = b /\ e.last = entries[c].last
<1>1. /\ entries[c] \in Entry /\ entries[c].spec \in SUBSET Nat
  BY LiveEntry
<1>2. b \in BackoffState /\ wall \in Nat
  BY LoopAssumption DEF ClockTypes, Time
<1>3. PICK next \in Nat \cup {None} : next = NextEligibleFire(entries[c].spec, wall, b)
  BY <1>1, <1>2, EligibleIs
<1>4. PICK x : x = entries[c]
  OBVIOUS
<1>5. PICK w : w = WithBackoff(x, b)
  OBVIOUS
<1>6. /\ w \in Entry /\ w.spec = x.spec /\ w.mode = x.mode /\ w.throttle = x.throttle
      /\ w.last = x.last /\ w.version = x.version /\ w.backoff = b
  BY <1>1, <1>4, <1>5 DEF WithBackoff, Entry
<1>7. PICK e : e = Refreshed(w, next, None)
  OBVIOUS
<1>8. /\ e \in Entry
      /\ e.spec = w.spec /\ e.mode = w.mode /\ e.throttle = w.throttle
      /\ e.backoff = w.backoff
      /\ e.version = w.version + 1 /\ e.next = next /\ e.last = w.last
  <2>1. w \in Entry /\ next \in Nat \cup {None} /\ None \in Nat \cup {None}
    BY <1>3, <1>6
  <2>2. /\ e \in Entry
        /\ e.spec = w.spec /\ e.mode = w.mode /\ e.throttle = w.throttle
        /\ e.backoff = w.backoff
        /\ e.version = w.version + 1 /\ e.next = next
        /\ e.last = IF None = None THEN w.last ELSE None
    BY <1>7, <2>1, RefreshedEntry, Zenon
  <2> QED
    BY <2>2
<1>9. /\ entries' = [entries EXCEPT ![c] = e]
      /\ heap' = Push(heap, next, c, x.version + 1)
  <2>1. entries' = [entries EXCEPT ![c] = Refreshed(WithBackoff(entries[c], b), next, None)]
    BY <1>3 DEF UpdateBackoff
  <2>2. heap' = Push(heap, next, c, entries[c].version + 1)
    BY <1>3 DEF UpdateBackoff
  <2> QED
    BY <1>4, <1>5, <1>7, <2>1, <2>2
<1>10. Rearms(c, e, wall)
  BY <1>2, <1>3, <1>4, <1>6, <1>8, <1>9 DEF Rearms, NextVersion
<1> QED
  BY <1>4, <1>6, <1>8, <1>10

\* A skew pass re-arms every entry from the clock.
LEMMA SkewRearms ==
  ASSUME ClockTypes, TableTypes, SkewDone
  PROVE  /\ DOMAIN entries' = Crons
         /\ \A c \in Crons : entries[c] = None => entries'[c] = None
         /\ \A c \in Live : LET e == entries'[c] IN
              /\ e \in Entry
              /\ e.spec = entries[c].spec /\ e.mode = entries[c].mode
              /\ e.throttle = entries[c].throttle /\ e.backoff = entries[c].backoff
              /\ e.version = entries[c].version + 1
              /\ e.next = NextEligibleFire(e.spec, wall, e.backoff)
              /\ e.last = IF entries[c].last < wall THEN wall ELSE entries[c].last
         /\ IsABag(heap) => IsABag(heap')
         /\ IsABag(heap) =>
              \A n \in DOMAIN heap' :
                 \/ n \in DOMAIN heap
                 \/ \E c \in Live : /\ entries'[c].next # None
                                    /\ n = [at |-> entries'[c].next, id |-> c,
                                            version |-> entries'[c].version]
<1> DEFINE Fire(c) == NextEligibleFire(entries[c].spec, wall, entries[c].backoff)
           NewNode(c) == [at |-> Fire(c), id |-> c, version |-> entries[c].version + 1]
           pushed    == {c \in Live : Fire(c) # None}
<1>1. /\ entries' = [c \in Crons |->
           IF entries[c] = None THEN None
           ELSE Refreshed(entries[c], Fire(c), SkewWatermark(entries[c]))]
      /\ heap' = heap (+) SetToBag({NewNode(c) : c \in pushed})
  BY DEF SkewDone
<1>2. wall \in Nat
  BY LoopAssumption DEF ClockTypes, Time
<1>3. ASSUME NEW c \in Live
      PROVE  LET e == entries'[c] IN
              /\ e \in Entry
              /\ e.spec = entries[c].spec /\ e.mode = entries[c].mode
              /\ e.throttle = entries[c].throttle /\ e.backoff = entries[c].backoff
              /\ e.version = entries[c].version + 1
              /\ e.next = Fire(c)
              /\ e.last = IF entries[c].last < wall THEN wall ELSE entries[c].last
  <2>1. c \in Crons /\ entries[c] # None
    BY DEF Live
  <2>2. PICK x \in Entry : x = entries[c]
    BY <2>1, LiveEntry
  <2>3. x.spec \in SUBSET Nat /\ x.backoff \in BackoffState /\ x.last \in Nat
    BY <2>1, <2>2, LiveEntry
  <2>4. PICK next \in Nat \cup {None} : next = Fire(c)
    BY <1>2, <2>2, <2>3, EligibleIs
  <2>5. PICK last \in Nat \cup {None} : last = SkewWatermark(x)
    BY <1>2 DEF SkewWatermark
  <2>6. (IF last = None THEN x.last ELSE last) = IF x.last < wall THEN wall ELSE x.last
    BY <1>2, <2>3, <2>5, CatchupAssumption DEF SkewWatermark
  <2> HIDE DEF Fire
  <2>7. PICK e : e = Refreshed(x, next, last)
    OBVIOUS
  <2>8. entries'[c] = e
    BY <1>1, <2>1, <2>2, <2>4, <2>5, <2>7
  <2>9. /\ e \in Entry
        /\ e.spec = x.spec /\ e.mode = x.mode /\ e.throttle = x.throttle
        /\ e.backoff = x.backoff
        /\ e.version = x.version + 1 /\ e.next = next
        /\ e.last = IF last = None THEN x.last ELSE last
    <3>1. /\ Refreshed(x, next, last) \in Entry
          /\ Refreshed(x, next, last).spec = x.spec /\ Refreshed(x, next, last).mode = x.mode
          /\ Refreshed(x, next, last).throttle = x.throttle
          /\ Refreshed(x, next, last).backoff = x.backoff
          /\ Refreshed(x, next, last).version = x.version + 1
          /\ Refreshed(x, next, last).next = next
          /\ Refreshed(x, next, last).last = IF last = None THEN x.last ELSE last
      <4>1. x \in Entry /\ next \in Nat \cup {None} /\ last \in Nat \cup {None}
        BY <2>2, <2>4, <2>5
      <4> QED
        BY <4>1, RefreshedEntry
    <3> QED
      BY <2>7, <3>1
  <2> QED
    BY <2>2, <2>4, <2>6, <2>8, <2>9
<1>4. IsABag(heap) => IsABag(heap') /\ DOMAIN heap' = DOMAIN heap \cup {NewNode(c) : c \in pushed}
  BY <1>1, AddNodes
<1>5. ASSUME NEW c \in pushed
      PROVE  /\ c \in Live /\ entries'[c].next # None
             /\ NewNode(c) = [at |-> entries'[c].next, id |-> c, version |-> entries'[c].version]
  <2>1. c \in Live /\ Fire(c) # None
    OBVIOUS
  <2> HIDE DEF Fire
  <2>2. entries'[c].next = Fire(c) /\ entries'[c].version = entries[c].version + 1
    BY <1>3, <2>1
  <2> QED
    BY <2>1, <2>2
<1>6. DOMAIN entries' = Crons /\ \A c \in Crons : entries[c] = None => entries'[c] = None
  BY <1>1
<1>7. ASSUME IsABag(heap), NEW n \in DOMAIN heap', n \notin DOMAIN heap
      PROVE \E c \in Live : /\ entries'[c].next # None
                            /\ n = [at |-> entries'[c].next, id |-> c,
                                    version |-> entries'[c].version]
  <2> HIDE DEF Fire, pushed
  <2>1. PICK c \in pushed : n = NewNode(c)
    BY <1>4, <1>7
  <2> QED
    BY <1>5, <2>1
<1>8. \A c \in Live : LET e == entries'[c] IN e.next = NextEligibleFire(e.spec, wall, e.backoff)
  BY <1>3
<1> HIDE DEF Fire, NewNode, pushed
<1> QED
  BY <1>3, <1>4, <1>6, <1>7, <1>8

\* Nodes of the heap.
LEMMA LiveNodeTypes ==
  ASSUME TableTypes, NEW n \in LiveNodes(entries, heap)
  PROVE  /\ n \in Node /\ n.at \in Nat /\ n.id \in Crons /\ n.version \in Nat
         /\ entries[n.id] # None /\ entries[n.id].version = n.version
         /\ n \in BagToSet(heap)
  BY DEF TableTypes, LiveNodes, IsLive, Node

\* peek_next and pop_next leave a bag of nodes that were there.
LEMMA CleanedNodes ==
  ASSUME NEW es, NEW B, IsABag(B)
  PROVE  /\ IsABag(Cleaned(es, B)) /\ BagToSet(Cleaned(es, B)) \subseteq BagToSet(B)
         /\ \A top : /\ IsABag(Cleaned(es, B) (-) SetToBag({top}))
                     /\ BagToSet(Cleaned(es, B) (-) SetToBag({top})) \subseteq BagToSet(B)
<1>1. IsABag(Cleaned(es, B))
  BY CleanedKeepsLive
<1>2. BagToSet(Cleaned(es, B)) \subseteq BagToSet(B)
  BY DEF Cleaned, BagToSet
<1>3. ASSUME NEW top
      PROVE  /\ IsABag(Cleaned(es, B) (-) SetToBag({top}))
             /\ BagToSet(Cleaned(es, B) (-) SetToBag({top})) \subseteq BagToSet(B)
  <2>1. IsABag(Cleaned(es, B) (-) SetToBag({top}))
    BY PoppedKeepsLive
  <2>2. BagToSet(Cleaned(es, B) (-) SetToBag({top})) \subseteq BagToSet(Cleaned(es, B))
    BY DEF (-), BagToSet
  <2> QED
    BY <1>2, <2>1, <2>2
<1> QED
  BY <1>1, <1>2, <1>3

\* A push adds at most the node of its arguments.
LEMMA PushedNodes ==
  ASSUME NEW B, IsABag(B), NEW at, NEW id, NEW version
  PROVE  /\ IsABag(Push(B, at, id, version))
         /\ \A n \in BagToSet(Push(B, at, id, version)) :
              \/ n \in BagToSet(B)
              \/ at # None /\ n = [at |-> at, id |-> id, version |-> version]
<1>1. CASE at = None
  BY <1>1 DEF Push
<1>2. CASE at # None
  <2>1. PICK x : x = [at |-> at, id |-> id, version |-> version]
    OBVIOUS
  <2>2. Push(B, at, id, version) = B (+) SetToBag({x})
    BY <1>2, <2>1 DEF Push
  <2>3. IsABag(B (+) SetToBag({x})) /\ DOMAIN (B (+) SetToBag({x})) = DOMAIN B \cup {x}
    BY AddNodes
  <2> QED
    BY <1>2, <2>1, <2>2, <2>3 DEF BagToSet
<1> QED
  BY <1>1, <1>2

\* Every step keeps the types of the clock.
LEMMA ClockTypesStep ==
  ASSUME LoopTypes, Next
  PROVE  ClockTypes'
<1> USE DEF clock, table, channel, history, ClockTypes
<1>0. ClockTypes /\ wall \in Nat /\ MaxTime \in Nat
  BY LoopAssumption DEF LoopTypes, Time
<1>1. CASE PeekAndSleep
  <2>1. wall' = wall /\ drift' = drift
    BY <1>1 DEF PeekAndSleep
  <2>2. CASE remaining' = None
    BY <1>0, <2>1, <2>2
  <2>3. ASSUME NEW n \in LiveNodes(entries, heap), remaining' = SleepFor(n.at) PROVE remaining' \in Nat
    <3>1. n.at \in Nat
      BY LiveNodeTypes DEF LoopTypes
    <3> QED
      BY <1>0, <2>3, <3>1 DEF SleepFor
  <2> QED
    BY <1>0, <1>1, <2>1, <2>2, <2>3 DEF PeekAndSleep
<1>2. CASE SkewDone
  BY <1>0, <1>2 DEF SkewDone
<1>3. CASE Tick
  <2>1. wall' \in Time /\ drift' = drift
    BY <1>0, <1>3 DEF Tick, Time
  <2>2. remaining' \in Nat \cup {None}
    BY <1>0, <1>3 DEF Tick
  <2> QED
    BY <1>0, <2>1, <2>2
<1>4. ASSUME NEW d \in Jumps, Jump(d) PROVE ClockTypes'
  BY <1>0, <1>4, LoopAssumption DEF Jump, Time
<1>5. ASSUME UNCHANGED <<wall, drift, remaining>> PROVE ClockTypes'
  BY <1>0, <1>5
<1> QED
  BY <1>1, <1>2, <1>3, <1>4, <1>5 DEF Next, Loop, Commands, Environment, Wake, PopDue,
     FireDone, PassEnds, SkewTick, InstallDone, Send, SendFails, Upsert, Delete, UpdateBackoff,
     Poke, Shutdown, Receive, CloseReceiver

\* Every step keeps the types of the task.
LEMMA TaskTypesStep ==
  ASSUME LoopTypes, Next
  PROVE  TaskTypes'
<1> USE DEF clock, table, channel, history
<1>0. /\ TaskTypes /\ wall \in Nat
      /\ NoTask \in [kind : {"none", "install", "fire", "skew"}, id : Crons \cup {None},
                     now : Nat \cup {None}, at : Nat \cup {None}, config : Configs \cup {None}]
  BY LoopAssumption DEF LoopTypes, ClockTypes, Time, NoTask
<1>1. ASSUME pc' \in {"top", "select", "stopped"}, task' = NoTask PROVE TaskTypes'
  BY <1>0, <1>1 DEF TaskTypes
<1>2. ASSUME UNCHANGED <<pc, task>> PROVE TaskTypes'
  BY <1>0, <1>2 DEF TaskTypes
<1>3. ASSUME pc \in {"top", "select"}, pc' \in {"top", "select", "stopped"}, task' = task
      PROVE TaskTypes'
  BY <1>0, <1>1, <1>3 DEF TaskTypes
<1>4. CASE Wake
  <2>1. CASE pc' = "top"
    BY <1>3, <1>4, <2>1 DEF Wake
  <2>2. CASE pc' = "fire" /\ task' = [NoTask EXCEPT !.kind = "fire", !.now = wall]
    BY <1>0, <2>2 DEF TaskTypes, NoTask
  <2> QED
    BY <1>4, <2>1, <2>2 DEF Wake
<1>5. CASE PopDue
  <2>1. PICK top \in LiveNodes(entries, heap) : task' = [task EXCEPT !.id = top.id, !.at = top.at]
    BY <1>5 DEF PopDue
  <2>2. top.id \in Crons /\ top.at \in Nat
    BY LiveNodeTypes DEF LoopTypes
  <2>3. pc = "fire" /\ pc' = "emit"
    BY <1>5 DEF PopDue
  <2>4. task.kind = "fire" /\ task.now \in Nat
    BY <1>0, <2>3 DEF TaskTypes
  <2> QED
    BY <1>0, <2>1, <2>2, <2>3, <2>4 DEF TaskTypes
<1>6. CASE FireDone
  <2>1. /\ pc = "emit" /\ task.kind = "fire" /\ pc' = "fire"
        /\ task' = [task EXCEPT !.id = None, !.at = None]
    BY <1>6 DEF FireDone
  <2> QED
    BY <1>0, <2>1 DEF TaskTypes
<1>7. CASE SkewTick
  <2>1. CASE pc' = "top"
    BY <1>3, <1>7, <2>1 DEF SkewTick
  <2>2. CASE pc' = "emit" /\ task' = [NoTask EXCEPT !.kind = "skew", !.now = wall]
    BY <1>0, <2>2 DEF TaskTypes, NoTask
  <2> QED
    BY <1>7, <2>1, <2>2 DEF SkewTick
<1>8. CASE SendFails
  <2>1. CASE UNCHANGED <<pc, task>>
    BY <1>2, <2>1
  <2>2. CASE pc' = "top" /\ task' = NoTask
    BY <1>1, <2>2
  <2> QED
    BY <1>8, <2>1, <2>2 DEF SendFails
<1>9. ASSUME NEW c \in Crons, NEW k \in Configs, Upsert(c, k) PROVE TaskTypes'
  <2>1. PICK last \in Nat \cup {None} : last = persisted[c]
    BY DEF LoopTypes, FlowTypes
  <2>2. /\ pc' = "emit"
        /\ task' = [NoTask EXCEPT !.kind = "install", !.id = c, !.now = wall, !.at = last, !.config = k]
    BY <1>9, <2>1 DEF Upsert
  <2> QED
    BY <1>0, <2>1, <2>2 DEF TaskTypes, NoTask
<1>10. CASE PassEnds \/ SkewDone \/ InstallDone
  BY <1>1, <1>10 DEF PassEnds, SkewDone, InstallDone
<1>11. CASE PeekAndSleep
  BY <1>3, <1>11 DEF PeekAndSleep
<1>12. CASE Send \/ Environment
  BY <1>2, <1>12 DEF Send, Environment, Tick, Jump, Receive, CloseReceiver
<1>13. CASE \/ \E c \in Deletable : Delete(c)
            \/ \E c \in Crons, b \in Backoffs : UpdateBackoff(c, b)
            \/ Poke
            \/ Shutdown
  BY <1>3, <1>13 DEF Delete, UpdateBackoff, Poke, Shutdown
<1> QED
  BY <1>4, <1>5, <1>6, <1>7, <1>8, <1>9, <1>10, <1>11, <1>12, <1>13 DEF Next, Loop, Commands

\* A step that re-arms an entry keeps the types of the table.
LEMMA RearmsTypes ==
  ASSUME TableTypes, NEW c, NEW e, NEW t, Rearms(c, e, t)
  PROVE  TableTypes'
<1>1. /\ c \in Crons /\ t \in Nat /\ e \in Entry
      /\ entries' = [entries EXCEPT ![c] = e] /\ heap' = Push(heap, e.next, c, e.version)
  BY DEF Rearms
<1>2. PICK x \in Nat \cup {None} : x = e.next
  BY <1>1 DEF Entry
<1>3. PICK v \in Nat : v = e.version
  BY <1>1 DEF Entry
<1>4. /\ IsABag(heap')
      /\ \A n \in BagToSet(heap') :
           n \in BagToSet(heap) \/ (x # None /\ n = [at |-> x, id |-> c, version |-> v])
  BY <1>1, <1>2, <1>3, PushedNodes DEF TableTypes
<1>5. x # None => [at |-> x, id |-> c, version |-> v] \in Node
  BY <1>1 DEF Node
<1>6. BagToSet(heap') \subseteq Node
  BY <1>4, <1>5 DEF TableTypes
<1>7. entries' \in [Crons -> Entry \cup {None}]
  BY <1>1 DEF TableTypes
<1> QED
  BY <1>4, <1>6, <1>7 DEF TableTypes

\* Every step keeps the types of the table.
LEMMA TableTypesStep ==
  ASSUME LoopTypes, Inv, Next
  PROVE  TableTypes'
<1> USE DEF clock, table, channel, history
<1>0. TableTypes /\ TaskTypes /\ ClockTypes
  BY DEF LoopTypes
<1>1. ASSUME entries' = entries, heap' = Cleaned(entries, heap) PROVE TableTypes'
  BY <1>0, <1>1, CleanedNodes DEF TableTypes
<1>2. ASSUME UNCHANGED <<entries, heap>> PROVE TableTypes'
  BY <1>0, <1>2 DEF TableTypes
<1>3. CASE PopDue
  <2>1. PICK top : entries' = entries /\ heap' = Cleaned(entries, heap) (-) SetToBag({top})
    BY <1>3 DEF PopDue
  <2> QED
    BY <1>0, <2>1, CleanedNodes DEF TableTypes
<1>4. CASE FireDone
  BY <1>0, <1>4, FireRearms, RearmsTypes
<1>5. CASE InstallDone
  BY <1>0, <1>5, InstallRearms, RearmsTypes
<1>6. CASE SkewDone
  <2>1. /\ DOMAIN entries' = Crons
        /\ \A c \in Crons : entries[c] = None => entries'[c] = None
        /\ \A c \in Live : entries'[c] \in Entry
        /\ IsABag(heap')
        /\ \A n \in DOMAIN heap' :
             \/ n \in DOMAIN heap
             \/ \E c \in Live : /\ entries'[c].next # None
                                /\ n = [at |-> entries'[c].next, id |-> c,
                                        version |-> entries'[c].version]
    BY <1>0, <1>6, SkewRearms DEF TableTypes
  <2>2. \A c \in Crons : entries'[c] \in Entry \cup {None}
    BY <2>1 DEF Live
  <2>3. entries' = [c \in Crons |-> entries'[c]]
    BY <1>6 DEF SkewDone
  <2>4. entries' \in [Crons -> Entry \cup {None}]
    BY <2>2, <2>3
  <2>5. ASSUME NEW n \in BagToSet(heap') PROVE n \in Node
    <3>1. CASE n \in DOMAIN heap
      BY <1>0, <3>1 DEF TableTypes, BagToSet
    <3>2. ASSUME NEW c \in Live, entries'[c].next # None,
                 n = [at |-> entries'[c].next, id |-> c, version |-> entries'[c].version]
          PROVE n \in Node
      <4>1. c \in Crons /\ entries'[c] \in Entry
        BY <2>1 DEF Live
      <4>2. entries'[c].next \in Nat /\ entries'[c].version \in Nat
        BY <3>2, <4>1 DEF Entry
      <4> QED
        BY <3>2, <4>1, <4>2 DEF Node
    <3> QED
      BY <2>1, <3>1, <3>2 DEF BagToSet
  <2> QED
    BY <2>1, <2>4, <2>5 DEF TableTypes
<1>7. ASSUME NEW c \in Deletable, Delete(c) PROVE TableTypes'
  <2>1. entries' = [entries EXCEPT ![c] = None] /\ heap' = heap
    BY <1>7 DEF Delete, DeleteEntries
  <2> QED
    BY <1>0, <2>1 DEF TableTypes
<1>8. ASSUME NEW c \in Crons, NEW b \in Backoffs, UpdateBackoff(c, b) PROVE TableTypes'
  <2>1. CASE entries[c] = None
    BY <1>2, <1>8, <2>1 DEF UpdateBackoff
  <2>2. CASE entries[c] # None
    <3>1. PICK e : Rearms(c, e, wall)
      BY <1>0, <1>8, <2>2, BackoffRearms
    <3> QED
      BY <1>0, <3>1, RearmsTypes
  <2> QED
    BY <2>1, <2>2
<1>9. CASE PeekAndSleep \/ Wake \/ PassEnds
  BY <1>1, <1>9 DEF PeekAndSleep, Wake, PassEnds
<1>10. CASE SkewTick \/ Send \/ SendFails \/ Poke \/ Shutdown \/ Environment
            \/ \E c \in Crons, k \in Configs : Upsert(c, k)
  BY <1>2, <1>10 DEF SkewTick, Send, SendFails, Poke, Shutdown, Environment, Tick, Jump, Receive,
     CloseReceiver, Upsert
<1> QED
  BY <1>3, <1>4, <1>5, <1>6, <1>7, <1>8, <1>9, <1>10 DEF Next, Loop, Commands

\* The events of a popped node are events.
LEMMA PoppedEvents ==
  ASSUME LoopTypes, Inv, PopDue
  PROVE  \E top \in LiveNodes(entries, heap) :
           LET c   == top.id
               e   == entries[c]
               evs == CatchupEvents(c, e.spec, e.mode, e.throttle, top.at, task.now)
               ev  == NaturalEvent(top, task.now)
           IN  /\ IsNext(entries, heap, top) /\ top.at <= task.now
               /\ heap' = Cleaned(entries, heap) (-) SetToBag({top})
               /\ task' = [task EXCEPT !.id = c, !.at = top.at]
               /\ top.at < task.now => EventsOf(evs, c, e.spec, top.at, task.now)
               /\ AllKept(e.spec, e.mode, e.throttle, top.at, task.now) =>
                    Covers(evs, e.spec, top.at, task.now)
               /\ ev \in Event /\ ev.id = c /\ ev.firedAt = task.now /\ ev.ticks = {top.at}
               /\ outbox' = << ev >> \o IF top.at < task.now THEN evs ELSE <<>>
<1>1. PICK top \in LiveNodes(entries, heap) :
        /\ IsNext(entries, heap, top) /\ top.at <= task.now
        /\ heap' = Cleaned(entries, heap) (-) SetToBag({top})
        /\ task' = [task EXCEPT !.id = top.id, !.at = top.at]
        /\ outbox' = << NaturalEvent(top, task.now) >> \o
             IF top.at < task.now
             THEN CatchupEvents(top.id, entries[top.id].spec, entries[top.id].mode,
                                entries[top.id].throttle, top.at, task.now)
             ELSE <<>>
  BY DEF PopDue
<1>2. top.at \in Nat /\ top.id \in Crons /\ entries[top.id] # None
  BY <1>1, LiveNodeTypes DEF LoopTypes
<1>3. task.now \in Nat
  BY DEF PopDue, LoopTypes, TaskTypes
<1>4. /\ entries[top.id].spec \in SUBSET Nat /\ entries[top.id].mode \in CatchupMode
      /\ entries[top.id].throttle \in Nat
  BY <1>2, LiveEntry DEF LoopTypes
<1>5. PICK evs : evs = CatchupEvents(top.id, entries[top.id].spec, entries[top.id].mode,
                                     entries[top.id].throttle, top.at, task.now)
  OBVIOUS
<1>6. /\ EventsOf(evs, top.id, entries[top.id].spec, top.at, task.now)
      /\ AllKept(entries[top.id].spec, entries[top.id].mode, entries[top.id].throttle, top.at, task.now) =>
           Covers(evs, entries[top.id].spec, top.at, task.now)
  <2>1. PICK S \in SUBSET Nat : S = entries[top.id].spec
    BY <1>4
  <2>2. PICK md \in CatchupMode : md = entries[top.id].mode
    BY <1>4
  <2>3. PICK k \in Nat : k = entries[top.id].throttle
    BY <1>4
  <2>4. PICK a \in Nat : a = top.at
    BY <1>2
  <2>5. PICK n \in Nat : n = task.now
    BY <1>3
  <2>6. PICK c \in Crons : c = top.id
    BY <1>2
  <2>7. evs = CatchupEvents(c, S, md, k, a, n)
    BY <1>5, <2>1, <2>2, <2>3, <2>4, <2>5, <2>6
  <2>8. /\ EventsOf(evs, c, S, a, n)
        /\ AllKept(S, md, k, a, n) => Covers(evs, S, a, n)
    BY <2>7, EventsAre
  <2> QED
    BY <2>1, <2>2, <2>3, <2>4, <2>5, <2>6, <2>8
<1>7. PICK ev : ev = NaturalEvent(top, task.now)
  OBVIOUS
<1>8. ev \in Event /\ ev.id = top.id /\ ev.firedAt = task.now /\ ev.ticks = {top.at}
  BY <1>2, <1>3, <1>7 DEF NaturalEvent, FireEvent, Event
<1>9. outbox' = << ev >> \o IF top.at < task.now THEN evs ELSE <<>>
  BY <1>1, <1>5, <1>7
<1> QED
  BY <1>1, <1>5, <1>6, <1>7, <1>8, <1>9

\* No events at all.
LEMMA NoEvents ==
  ASSUME NEW c, NEW S, NEW a, NEW e
  PROVE  <<>> \in Seq(Event) /\ Len(<<>>) = 0 /\ EventsOf(<<>>, c, S, a, e) /\ Apart(<<>>)
<1>1. <<>> \in Seq(Event) /\ Len(<<>>) = 0
  BY EmptySeq
<1>2. \A i : i \notin 1..Len(<<>>)
  BY <1>1
<1> QED
  BY <1>1, <1>2 DEF EventsOf, Apart

\* Events of one cron stand for different ticks.
LEMMA EventsApart ==
  ASSUME NEW evs, NEW c, NEW S, NEW a, NEW e, EventsOf(evs, c, S, a, e)
  PROVE  Apart(evs)
  BY DEF EventsOf, Apart

\* What a skew tick that sees a jump puts into the outbox: for every entry events
\* of its gap.
LEMMA SkewEvents ==
  ASSUME LoopTypes, SkewTick, pc' = "emit"
  PROVE  /\ outbox' \in Seq(Event) /\ Apart(outbox')
         /\ \A p \in 1..Len(outbox') :
              /\ outbox'[p].id \in Live /\ outbox'[p].firedAt = wall
              /\ \A t \in outbox'[p].ticks : entries[outbox'[p].id].last < t /\ t <= wall
         /\ task' = [NoTask EXCEPT !.kind = "skew", !.now = wall]
         /\ drift > SkewThreshold \/ -drift > SkewThreshold
<1> DEFINE P(c) == LET e == entries[c]
                   IN  IF e.last # None /\ e.last < wall
                       THEN CatchupEvents(c, e.spec, e.mode, e.throttle, e.last, wall) ELSE <<>>
<1>1. PICK order \in SetToSeqs(Live) : outbox' = FlattenSeq([i \in 1..Len(order) |-> P(order[i])])
  BY DEF SkewTick
<1>2. /\ task' = [NoTask EXCEPT !.kind = "skew", !.now = wall]
      /\ drift > SkewThreshold \/ -drift > SkewThreshold
  BY DEF SkewTick
<1>3. wall \in Nat
  BY LoopAssumption DEF LoopTypes, ClockTypes, Time
<1>4. IsFiniteSet(Live)
  BY CronsAssumption, FS_Subset DEF Live
<1>5. PICK n \in Nat : n = Cardinality(Live)
  BY <1>4, FS_CardinalityType
<1>6. /\ order \in [1..n -> Live] /\ \A i, j \in 1..n : i # j => order[i] # order[j]
  BY <1>1, <1>5 DEF SetToSeqs
<1>7. Len(order) = n /\ \A i \in 1..n : order[i] \in Live
  BY <1>6
<1>8. ASSUME NEW c \in Live
      PROVE  /\ P(c) \in Seq(Event) /\ Apart(P(c))
             /\ \A y \in 1..Len(P(c)) : /\ P(c)[y].id = c /\ P(c)[y].firedAt = wall
                                        /\ \A t \in P(c)[y].ticks : entries[c].last < t /\ t <= wall
  <2>1. /\ c \in Crons /\ entries[c].spec \in SUBSET Nat /\ entries[c].mode \in CatchupMode
        /\ entries[c].throttle \in Nat /\ entries[c].last \in Nat
    BY LiveEntry DEF Live, LoopTypes
  <2>2. PICK q : q = P(c)
    OBVIOUS
  <2>3. CASE entries[c].last < wall
    <3>1. PICK S \in SUBSET Nat : S = entries[c].spec
      BY <2>1
    <3>2. PICK md \in CatchupMode : md = entries[c].mode
      BY <2>1
    <3>3. PICK k \in Nat : k = entries[c].throttle
      BY <2>1
    <3>4. PICK a \in Nat : a = entries[c].last
      BY <2>1
    <3>5. PICK w \in Nat : w = wall
      BY <1>3
    <3>6. q = CatchupEvents(c, S, md, k, a, w)
      BY <2>2, <2>3, <3>1, <3>2, <3>3, <3>4, <3>5, CatchupAssumption
    <3>7. EventsOf(q, c, S, a, w)
      BY <2>1, <3>6, EventsAre
    <3>8. Apart(q)
      BY <3>7, EventsApart
    <3> HIDE DEF P
    <3> QED
      BY <2>2, <3>4, <3>5, <3>7, <3>8 DEF EventsOf
  <2>4. CASE ~(entries[c].last < wall)
    <3>1. q = <<>>
      BY <2>2, <2>4
    <3>2. q \in Seq(Event) /\ Len(q) = 0 /\ Apart(q)
      BY <3>1, NoEvents
    <3>3. \A y : y \notin 1..Len(q)
      BY <3>2
    <3> HIDE DEF P
    <3> QED
      BY <2>2, <3>2, <3>3
  <2> QED
    BY <2>3, <2>4
<1> HIDE DEF P
<1>9. PICK ss : ss = [i \in 1..n |-> P(order[i])]
  OBVIOUS
<1>10. \A x \in 1..n : ss[x] = P(order[x]) /\ order[x] \in Live
  BY <1>7, <1>9
<1>11. ss \in Seq(Seq(Event)) /\ Len(ss) = n
  <2>1. \A x \in 1..n : P(order[x]) \in Seq(Event)
    BY <1>8, <1>10
  <2> QED
    BY <1>9, <2>1
<1>12. \A x \in 1..n : ss[x] \in Seq(Event) /\ Apart(ss[x])
                       /\ \A y \in 1..Len(ss[x]) : ss[x][y].id = order[x]
  BY <1>8, <1>10
<1>13. Gathered(FlattenSeq(ss), ss, n)
  BY <1>6, <1>11, <1>12, FlatGathers
<1>14. outbox' = FlattenSeq(ss)
  BY <1>1, <1>7, <1>9
<1>15. ASSUME NEW p \in 1..Len(outbox')
       PROVE  /\ outbox'[p].id \in Live /\ outbox'[p].firedAt = wall
              /\ \A t \in outbox'[p].ticks : entries[outbox'[p].id].last < t /\ t <= wall
  <2>1. PICK x \in 1..n : \E y \in 1..Len(ss[x]) : outbox'[p] = ss[x][y]
    BY <1>13, <1>14 DEF Gathered
  <2>2. PICK y \in 1..Len(ss[x]) : outbox'[p] = ss[x][y]
    BY <2>1
  <2>3. PICK c \in Live : c = order[x] /\ ss[x] = P(c)
    BY <1>10, <2>1
  <2>4. PICK ev : ev = P(c)[y]
    OBVIOUS
  <2>5. ev.id = c /\ ev.firedAt = wall /\ \A t \in ev.ticks : entries[c].last < t /\ t <= wall
    BY <1>8, <2>2, <2>3, <2>4
  <2> QED
    BY <2>2, <2>3, <2>4, <2>5
<1> QED
  BY <1>2, <1>13, <1>14, <1>15 DEF Gathered

\* What an installation puts into the outbox: the events of the gap since the
\* caller's watermark.
LEMMA InstallEvents ==
  ASSUME LoopTypes, NEW c \in Crons, NEW k \in Configs, Upsert(c, k)
  PROVE  /\ outbox' \in Seq(Event) /\ Apart(outbox')
         /\ \A p \in 1..Len(outbox') :
              /\ outbox'[p].id = c /\ outbox'[p].firedAt = wall
              /\ \A t \in outbox'[p].ticks : t <= wall
         /\ persisted[c] # None /\ AllKept(k.spec, k.mode, k.throttle, persisted[c], wall) =>
              Covers(outbox', k.spec, persisted[c], wall)
<1>1. wall \in Nat
  BY LoopAssumption DEF LoopTypes, ClockTypes, Time
<1>2. PICK S \in SUBSET Nat : S = k.spec
  BY ConfigFields
<1>3. PICK md \in CatchupMode : md = k.mode
  BY ConfigFields
<1>4. PICK th \in Nat : th = k.throttle
  BY ConfigFields
<1>5. PICK last \in Nat \cup {None} : last = persisted[c]
  BY DEF LoopTypes, FlowTypes
<1>6. PICK w \in Nat : w = wall
  BY <1>1
<1>7. PICK q : q = outbox'
  OBVIOUS
<1>8. q = IF last # None /\ last < w THEN CatchupEvents(c, S, md, th, last, w) ELSE <<>>
  BY <1>2, <1>3, <1>4, <1>5, <1>6, <1>7 DEF Upsert
<1>9. CASE last # None /\ last < w
  <2>1. PICK a \in Nat : a = last
    BY <1>5, <1>9
  <2>2. q = CatchupEvents(c, S, md, th, a, w)
    BY <1>8, <1>9, <2>1
  <2>3. EventsOf(q, c, S, a, w) /\ (AllKept(S, md, th, a, w) => Covers(q, S, a, w))
    BY <2>2, EventsAre
  <2>4. Apart(q)
    BY <2>3, EventsApart
  <2>5. q \in Seq(Event) /\ \A p \in 1..Len(q) : q[p].id = c /\ q[p].firedAt = w /\ \A t \in q[p].ticks : t <= w
    BY <2>3 DEF EventsOf
  <2> QED
    BY <1>2, <1>3, <1>4, <1>5, <1>6, <1>7, <2>1, <2>3, <2>4, <2>5
<1>10. CASE ~(last # None /\ last < w)
  <2>1. q = <<>>
    BY <1>8, <1>10
  <2>2. q \in Seq(Event) /\ Len(q) = 0 /\ Apart(q)
    BY <2>1, NoEvents
  <2>3. \A p : p \notin 1..Len(q)
    BY <2>2
  <2>4. last # None => Covers(q, S, last, w)
    <3> SUFFICES ASSUME last # None, NEW t \in S, last < t, t <= w PROVE FALSE
      BY DEF Covers
    <3>1. last \in Nat /\ ~(last < w) /\ t \in Nat
      BY <1>5, <1>10
    <3> QED
      BY <3>1
  <2> QED
    BY <1>2, <1>5, <1>6, <1>7, <2>2, <2>3, <2>4
<1> QED
  BY <1>9, <1>10

\* What a popped entry puts into the outbox: its natural fire and the events of
\* the gap since then.
LEMMA PoppedOutbox ==
  ASSUME LoopTypes, Inv, PopDue
  PROVE  \E top \in LiveNodes(entries, heap) :
           /\ IsNext(entries, heap, top) /\ top.at <= task.now
           /\ heap' = Cleaned(entries, heap) (-) SetToBag({top})
           /\ task' = [task EXCEPT !.id = top.id, !.at = top.at]
           /\ outbox' \in Seq(Event) /\ Apart(outbox')
           /\ \A p \in 1..Len(outbox') :
                /\ outbox'[p].id = top.id /\ outbox'[p].firedAt = task.now
                /\ \A t \in outbox'[p].ticks : top.at <= t /\ t <= task.now
           /\ AllKept(entries[top.id].spec, entries[top.id].mode, entries[top.id].throttle,
                      top.at, task.now) =>
                \A t \in entries[top.id].spec :
                  top.at <= t /\ t <= task.now => \E p \in 1..Len(outbox') : t \in outbox'[p].ticks
<1>1. PICK top \in LiveNodes(entries, heap) :
           LET c   == top.id
               e   == entries[c]
               evs == CatchupEvents(c, e.spec, e.mode, e.throttle, top.at, task.now)
               ev  == NaturalEvent(top, task.now)
           IN  /\ IsNext(entries, heap, top) /\ top.at <= task.now
               /\ heap' = Cleaned(entries, heap) (-) SetToBag({top})
               /\ task' = [task EXCEPT !.id = c, !.at = top.at]
               /\ top.at < task.now => EventsOf(evs, c, e.spec, top.at, task.now)
               /\ AllKept(e.spec, e.mode, e.throttle, top.at, task.now) =>
                    Covers(evs, e.spec, top.at, task.now)
               /\ ev \in Event /\ ev.id = c /\ ev.firedAt = task.now /\ ev.ticks = {top.at}
               /\ outbox' = << ev >> \o IF top.at < task.now THEN evs ELSE <<>>
  BY PoppedEvents
<1>2. PICK c : c = top.id
  OBVIOUS
<1>3. PICK a \in Nat : a = top.at
  BY <1>1, LiveNodeTypes DEF LoopTypes
<1>4. PICK n \in Nat : n = task.now
  BY DEF PopDue, LoopTypes, TaskTypes
<1>5. PICK S : S = entries[c].spec
  OBVIOUS
<1>6. S \in SUBSET Nat
  BY <1>1, <1>2, <1>5, LiveNodeTypes, LiveEntry DEF LoopTypes
<1>7. PICK evs : evs = CatchupEvents(c, S, entries[c].mode, entries[c].throttle, a, n)
  OBVIOUS
<1>8. PICK ev : ev = NaturalEvent(top, n)
  OBVIOUS
<1>9. PICK r : r = IF a < n THEN evs ELSE <<>>
  OBVIOUS
<1>10. PICK o : o = outbox'
  OBVIOUS
<1>11. /\ ev \in Event /\ ev.id = c /\ ev.firedAt = n /\ ev.ticks = {a}
       /\ o = << ev >> \o r /\ a <= n
  BY <1>1, <1>2, <1>3, <1>4, <1>5, <1>7, <1>8, <1>9, <1>10
<1>12. EventsOf(r, c, S, a, n)
  <2>1. CASE a < n
    BY <1>1, <1>2, <1>3, <1>4, <1>5, <1>7, <1>9, <2>1
  <2>2. CASE ~(a < n)
    BY <1>9, <2>2, NoEvents
  <2> QED
    BY <2>1, <2>2
<1>13. r \in Seq(Event) /\ Len(r) \in Nat
  BY <1>12, LenProperties DEF EventsOf
<1>14. << ev >> \in Seq(Event) /\ Len(<< ev >>) = 1 /\ << ev >>[1] = ev
  BY <1>11
<1>15. /\ o \in Seq(Event) /\ Len(o) = 1 + Len(r) /\ o[1] = ev
       /\ \A p \in 1..Len(o) : p = 1 \/ (p - 1 \in 1..Len(r) /\ o[p] = r[p - 1])
  <2>1. /\ o \in Seq(Event) /\ Len(o) = 1 + Len(r)
        /\ \A p \in 1..Len(o) : o[p] = IF p <= 1 THEN << ev >>[p] ELSE r[p - 1]
    BY <1>11, <1>13, <1>14, ConcatProperties
  <2>2. 1 \in 1..Len(o)
    BY <1>13, <2>1
  <2>3. o[1] = << ev >>[1]
    BY <2>1, <2>2
  <2> QED
    BY <1>13, <1>14, <2>1, <2>3
<1>16. ASSUME NEW p \in 1..Len(o)
       PROVE  o[p].id = c /\ o[p].firedAt = n /\ \A t \in o[p].ticks : a <= t /\ t <= n
  <2>1. CASE p = 1
    BY <1>3, <1>11, <1>15, <2>1
  <2>2. CASE p - 1 \in 1..Len(r) /\ o[p] = r[p - 1]
    <3>1. /\ o[p].id = c /\ o[p].firedAt = n
          /\ \A t \in o[p].ticks : t \in S /\ a < t /\ t <= n
      BY <1>12, <2>2 DEF EventsOf
    <3>2. \A t \in S : t \in Nat /\ (a < t => a <= t)
      BY <1>3, <1>6
    <3> QED
      BY <3>1, <3>2
  <2> QED
    BY <1>15, <2>1, <2>2
<1>17. ASSUME NEW p \in 1..Len(o), NEW q \in 1..Len(o), p # q
       PROVE  o[p].ticks \cap o[q].ticks = {}
  <2>0. \A x \in 1..Len(r) : a \notin r[x].ticks
    <3> SUFFICES ASSUME NEW x \in 1..Len(r), a \in r[x].ticks PROVE FALSE
      OBVIOUS
    <3>1. a < a
      BY <1>12 DEF EventsOf
    <3> QED
      BY <1>3, <3>1
  <2>1. CASE p = 1
    <3>1. q - 1 \in 1..Len(r) /\ o[q] = r[q - 1]
      BY <1>15, <1>17, <2>1
    <3> QED
      BY <1>11, <1>15, <2>0, <2>1, <3>1
  <2>2. CASE q = 1
    <3>1. p - 1 \in 1..Len(r) /\ o[p] = r[p - 1]
      BY <1>15, <1>17, <2>2
    <3> QED
      BY <1>11, <1>15, <2>0, <2>2, <3>1
  <2>3. CASE p # 1 /\ q # 1
    <3>1. /\ p - 1 \in 1..Len(r) /\ o[p] = r[p - 1]
          /\ q - 1 \in 1..Len(r) /\ o[q] = r[q - 1] /\ p - 1 # q - 1
      BY <1>15, <1>17, <2>3
    <3> QED
      BY <1>12, <3>1 DEF EventsOf
  <2> QED
    BY <2>1, <2>2, <2>3
<1>18. ASSUME AllKept(S, entries[c].mode, entries[c].throttle, a, n), NEW t \in S, a <= t, t <= n
       PROVE  \E p \in 1..Len(o) : t \in o[p].ticks
  <2>1. CASE t = a
    <3>1. 1 \in 1..Len(o) /\ t \in o[1].ticks
      BY <1>11, <1>13, <1>15, <2>1
    <3> QED
      BY <3>1
  <2>2. CASE t # a
    <3>1. a < t /\ a < n
      BY <1>3, <1>4, <1>6, <1>18, <2>2
    <3>2. Covers(evs, S, a, n) /\ r = evs
      BY <1>1, <1>2, <1>3, <1>4, <1>5, <1>7, <1>9, <1>18, <3>1
    <3>3. PICK i \in 1..Len(r) : t \in r[i].ticks
      BY <1>18, <3>1, <3>2 DEF Covers
    <3>4. i + 1 \in 1..Len(o) /\ i + 1 # 1 /\ (i + 1) - 1 = i
      BY <1>13, <1>15
    <3>5. o[i + 1] = r[i]
      BY <1>15, <3>4
    <3> QED
      BY <3>3, <3>4, <3>5
  <2> QED
    BY <2>1, <2>2
<1>19. Apart(o)
  BY <1>17 DEF Apart
<1>20. outbox' \in Seq(Event) /\ Apart(outbox')
  BY <1>10, <1>15, <1>19
<1>21. \A p \in 1..Len(outbox') :
         /\ outbox'[p].id = top.id /\ outbox'[p].firedAt = task.now
         /\ \A t \in outbox'[p].ticks : top.at <= t /\ t <= task.now
  BY <1>2, <1>3, <1>4, <1>10, <1>16
<1>22. AllKept(entries[top.id].spec, entries[top.id].mode, entries[top.id].throttle,
               top.at, task.now) =>
         \A t \in entries[top.id].spec :
           top.at <= t /\ t <= task.now => \E p \in 1..Len(outbox') : t \in outbox'[p].ticks
  BY <1>2, <1>3, <1>4, <1>5, <1>10, <1>18
<1>23. /\ IsNext(entries, heap, top) /\ top.at <= task.now
       /\ heap' = Cleaned(entries, heap) (-) SetToBag({top})
       /\ task' = [task EXCEPT !.id = top.id, !.at = top.at]
  BY <1>1
<1> QED
  BY <1>20, <1>21, <1>22, <1>23

\* The rest of a queue.
LEMMA Rest ==
  ASSUME NEW s \in Seq(Event), s # <<>>
  PROVE  /\ Head(s) \in Event /\ Tail(s) \in Seq(Event) /\ Len(s) \in Nat /\ Len(s) > 0
         /\ Len(Tail(s)) = Len(s) - 1 /\ Head(s) = s[1]
         /\ \A p \in 1..Len(Tail(s)) : p + 1 \in 1..Len(s) /\ Tail(s)[p] = s[p + 1]
<1>1. Len(s) \in Nat /\ Len(s) # 0
  BY LenProperties, EmptySeq
<1>2. /\ Head(s) \in Event /\ Tail(s) \in Seq(Event) /\ Len(Tail(s)) = Len(s) - 1 /\ Head(s) = s[1]
      /\ \A p \in 1..Len(Tail(s)) : Tail(s)[p] = s[p + 1]
  BY HeadTailProperties
<1> QED
  BY <1>1, <1>2

\* A send moves the first event of the outbox and counts its ticks.
LEMMA SendMoves ==
  ASSUME LoopTypes, Send
  PROVE  LET ev == Head(outbox) IN
           /\ outbox # <<>> /\ ev \in Event /\ outbox' = Tail(outbox) /\ outbox' \in Seq(Event)
           /\ fires' = Append(fires, ev)
           /\ DOMAIN handled' = Crons
           /\ \A c \in Crons : c # ev.id => handled'[c] = handled[c]
           /\ DOMAIN handled'[ev.id] = Time
           /\ \A t \in Time : handled'[ev.id][t] = IF t \in ev.ticks /\ handled[ev.id][t] < 2
                                                   THEN handled[ev.id][t] + 1 ELSE handled[ev.id][t]
           /\ handled' \in [Crons -> [Time -> 0..2]]
<1>1. PICK ev \in Event : ev = Head(outbox)
  BY Rest DEF LoopTypes, FlowTypes, Send
<1>2. ev.id \in Crons
  BY DEF Event
<1>3. outbox # <<>> /\ outbox' = Tail(outbox) /\ outbox' \in Seq(Event) /\ fires' = Append(fires, ev)
  BY <1>1, Rest DEF LoopTypes, FlowTypes, Send
<1>4. PICK h \in [Time -> 0..2] : h = handled[ev.id]
  BY <1>2 DEF LoopTypes, FlowTypes
<1>5. PICK g : g = [t \in Time |-> IF t \in ev.ticks /\ h[t] < 2 THEN h[t] + 1 ELSE h[t]]
  OBVIOUS
<1>6. handled' = [handled EXCEPT ![ev.id] = g]
  BY <1>1, <1>4, <1>5 DEF Send
<1>7. g \in [Time -> 0..2]
  <2>1. \A t \in Time : h[t] \in 0..2 /\ (h[t] < 2 => h[t] + 1 \in 0..2)
    BY <1>4
  <2> QED
    BY <1>5, <2>1
<1>8. handled \in [Crons -> [Time -> 0..2]]
  BY DEF LoopTypes, FlowTypes
<1>9. handled' \in [Crons -> [Time -> 0..2]] /\ handled'[ev.id] = g
      /\ \A c \in Crons : c # ev.id => handled'[c] = handled[c]
  BY <1>2, <1>6, <1>7, <1>8
<1>10. \A t \in Time : g[t] = IF t \in ev.ticks /\ h[t] < 2 THEN h[t] + 1 ELSE h[t]
  BY <1>5
<1> QED
  BY <1>1, <1>3, <1>4, <1>7, <1>9, <1>10

\* Every step keeps the types of the events under way.
LEMMA FlowTypesStep ==
  ASSUME LoopTypes, Inv, Next
  PROVE  FlowTypes'
<1> USE DEF clock, table, channel, history
<1>0. FlowTypes /\ wall \in Nat
  BY LoopAssumption DEF LoopTypes, ClockTypes, Time
<1>1. ASSUME outbox' \in Seq(Event), UNCHANGED <<fires, open, persisted, since, handled>> PROVE FlowTypes'
  BY <1>0, <1>1 DEF FlowTypes
<1>2. ASSUME UNCHANGED outbox, UNCHANGED <<fires, open, persisted, since, handled>> PROVE FlowTypes'
  BY <1>0, <1>2 DEF FlowTypes
<1>3. CASE Send
  <2>1. /\ Head(outbox) \in Event /\ outbox' \in Seq(Event) /\ fires' = Append(fires, Head(outbox))
        /\ handled' \in [Crons -> [Time -> 0..2]]
    BY <1>3, SendMoves
  <2>2. fires' \in Seq(Event)
    BY <1>0, <2>1, AppendProperties DEF FlowTypes
  <2>3. UNCHANGED <<open, persisted, since>>
    BY <1>3 DEF Send
  <2> QED
    BY <1>0, <2>1, <2>2, <2>3 DEF FlowTypes
<1>4. CASE SendFails
  <2>1. outbox' \in Seq(Event) /\ UNCHANGED <<fires, open, persisted, since, handled>>
    BY <1>4, EmptySeq DEF SendFails
  <2> QED
    BY <1>1, <2>1
<1>5. CASE PopDue
  <2>1. outbox' \in Seq(Event)
    BY <1>5, PoppedOutbox
  <2>2. UNCHANGED <<fires, open, persisted, since, handled>>
    BY <1>5 DEF PopDue
  <2> QED
    BY <1>1, <2>1, <2>2
<1>6. CASE SkewTick
  <2>1. UNCHANGED <<fires, open, persisted, since, handled>>
    BY <1>6 DEF SkewTick
  <2>2. CASE pc' = "emit"
    BY <1>1, <1>6, <2>1, <2>2, SkewEvents
  <2>3. CASE UNCHANGED outbox
    BY <1>2, <2>1, <2>3
  <2> QED
    BY <1>6, <2>2, <2>3 DEF SkewTick
<1>7. ASSUME NEW c \in Crons, NEW k \in Configs, Upsert(c, k) PROVE FlowTypes'
  <2>1. outbox' \in Seq(Event)
    BY <1>7, InstallEvents
  <2>2. PICK s \in Nat : s = IF persisted[c] = None THEN wall ELSE persisted[c]
    BY <1>0 DEF FlowTypes
  <2>3. /\ since' = [since EXCEPT ![c] = s] /\ handled' = [handled EXCEPT ![c] = [t \in Time |-> 0]]
        /\ UNCHANGED <<fires, open, persisted>>
    BY <1>7, <2>2 DEF Upsert
  <2>4. since' \in [Crons -> Nat] /\ handled' \in [Crons -> [Time -> 0..2]]
    BY <1>0, <2>3 DEF FlowTypes
  <2> QED
    BY <1>0, <2>1, <2>3, <2>4 DEF FlowTypes
<1>8. CASE Receive
  <2>1. PICK ev \in Event : ev = Head(fires)
    BY <1>0, <1>8, Rest DEF Receive, FlowTypes
  <2>2. fires' \in Seq(Event)
    BY <1>0, <1>8, Rest DEF Receive, FlowTypes
  <2>3. ev.id \in Crons /\ ev.firedAt \in Nat
    BY DEF Event
  <2>4. PICK v \in Nat \cup {None} : v = IF persisted[ev.id] = None \/ persisted[ev.id] < ev.firedAt
                                         THEN ev.firedAt ELSE persisted[ev.id]
    BY <1>0, <2>3 DEF FlowTypes
  <2>5. persisted' = [persisted EXCEPT ![ev.id] = v]
    BY <1>8, <2>1, <2>4 DEF Receive
  <2>6. persisted' \in [Crons -> Nat \cup {None}]
    BY <1>0, <2>5 DEF FlowTypes
  <2>7. UNCHANGED <<outbox, open, since, handled>>
    BY <1>8 DEF Receive
  <2> QED
    BY <1>0, <2>2, <2>6, <2>7 DEF FlowTypes
<1>9. CASE CloseReceiver
  BY <1>0, <1>9, EmptySeq DEF CloseReceiver, FlowTypes
<1>10. CASE \/ PeekAndSleep \/ Wake \/ PassEnds \/ FireDone \/ SkewDone \/ InstallDone
            \/ \E c \in Deletable : Delete(c)
            \/ \E c \in Crons, b \in Backoffs : UpdateBackoff(c, b)
            \/ Poke \/ Shutdown \/ Tick \/ \E d \in Jumps : Jump(d)
  BY <1>2, <1>10 DEF PeekAndSleep, Wake, PassEnds, FireDone, SkewDone, InstallDone, Delete,
     UpdateBackoff, Poke, Shutdown, Tick, Jump
<1> QED
  BY <1>3, <1>4, <1>5, <1>6, <1>7, <1>8, <1>9, <1>10 DEF Next, Loop, Commands, Environment

-----------------------------------------------------------------------------
(* The entries are sound *)

\* The fields of an entry.
LEMMA EntryIs ==
  ASSUME NEW e \in Entry
  PROVE  /\ e.spec \in SUBSET Nat /\ e.mode \in CatchupMode /\ e.throttle \in Nat
         /\ e.last \in Nat /\ e.next \in Nat \cup {None} /\ e.version \in Nat
         /\ e.backoff \in BackoffState
<1>1. /\ e.spec \in {k.spec : k \in Configs} /\ e.mode \in CatchupMode /\ e.throttle \in Nat
      /\ e.last \in Nat /\ e.next \in Nat \cup {None} /\ e.version \in Nat
      /\ e.backoff \in Backoffs \cup {NoBackoff}
  BY DEF Entry
<1>2. e.spec \in SUBSET Nat
  BY <1>1, LoopAssumption
<1>3. e.backoff \in BackoffState
  BY <1>1, NoRetry, LoopAssumption
<1> QED
  BY <1>1, <1>2, <1>3

\* The entry e waits for the end of its backoff window.
Floored(e) == e.next # None /\ RetryAfter(e.backoff) # None => e.next >= RetryAfter(e.backoff)

\* An entry armed by next_eligible_fire waits for the end of its backoff window.
LEMMA ArmedIsFloored ==
  ASSUME NEW e \in Entry, NEW t \in Nat, e.next = NextEligibleFire(e.spec, t, e.backoff)
  PROVE  Floored(e)
<1>1. e.spec \in SUBSET Nat /\ e.backoff \in BackoffState
  BY EntryIs
<1>2. PICK n : n = NextEligibleFire(e.spec, t, e.backoff)
  OBVIOUS
<1>3. n # None /\ RetryAfter(e.backoff) # None => n >= RetryAfter(e.backoff)
  BY <1>1, <1>2, EligibleIs
<1> QED
  BY <1>2, <1>3 DEF Floored

\* Every step keeps entries out of their backoff windows.
LEMMA FloorStep ==
  ASSUME LoopTypes, Inv, BackoffFloor, Next
  PROVE  BackoffFloor'
<1> USE DEF clock, table, channel, history
<1>0. /\ TableTypes /\ TaskTypes /\ ClockTypes /\ DOMAIN entries = Crons
      /\ \A c \in Live : Floored(entries[c])
  BY DEF LoopTypes, TableTypes, BackoffFloor, Floored
<1>1. ASSUME \A c \in Crons : entries'[c] # None => Floored(entries'[c]) PROVE BackoffFloor'
  BY <1>1 DEF BackoffFloor, Floored, Live
<1>2. ASSUME UNCHANGED entries PROVE BackoffFloor'
  BY <1>0, <1>1, <1>2 DEF Live
<1>3. ASSUME NEW c, NEW e, NEW t, Rearms(c, e, t) PROVE BackoffFloor'
  <2>1. c \in Crons /\ Floored(e) /\ entries' = [entries EXCEPT ![c] = e]
    BY <1>3, ArmedIsFloored DEF Rearms
  <2>2. ASSUME NEW d \in Crons, entries'[d] # None PROVE Floored(entries'[d])
    <3>1. entries'[d] = IF d = c THEN e ELSE entries[d]
      BY <1>0, <2>1
    <3> QED
      BY <1>0, <2>1, <2>2, <3>1 DEF Live
  <2> QED
    BY <1>1, <2>2
<1>4. CASE FireDone
  BY <1>0, <1>3, <1>4, FireRearms
<1>5. CASE InstallDone
  BY <1>0, <1>3, <1>5, InstallRearms
<1>6. CASE SkewDone
  <2>1. /\ \A c \in Crons : entries[c] = None => entries'[c] = None
        /\ \A c \in Live : /\ entries'[c] \in Entry
                           /\ entries'[c].next = NextEligibleFire(entries'[c].spec, wall, entries'[c].backoff)
    BY <1>0, <1>6, SkewRearms
  <2>2. ASSUME NEW c \in Crons, entries'[c] # None PROVE Floored(entries'[c])
    <3>1. c \in Live
      BY <2>1, <2>2 DEF Live
    <3>2. PICK e \in Entry : e = entries'[c]
      BY <2>1, <3>1
    <3>3. PICK w \in Nat : w = wall
      BY <1>0, LoopAssumption DEF ClockTypes, Time
    <3>4. e.next = NextEligibleFire(e.spec, w, e.backoff)
      BY <2>1, <3>1, <3>2, <3>3
    <3>5. Floored(e)
      BY <3>2, <3>4, ArmedIsFloored
    <3> QED
      BY <3>2, <3>5
  <2> QED
    BY <1>1, <2>2
<1>7. ASSUME NEW c \in Deletable, Delete(c) PROVE BackoffFloor'
  <2>1. entries' = [entries EXCEPT ![c] = None]
    BY <1>7 DEF Delete, DeleteEntries
  <2>2. \A d \in Crons : entries'[d] = IF d = c THEN None ELSE entries[d]
    BY <1>0, <2>1
  <2> QED
    BY <1>0, <1>1, <2>2 DEF Live
<1>8. ASSUME NEW c \in Crons, NEW b \in Backoffs, UpdateBackoff(c, b) PROVE BackoffFloor'
  <2>1. CASE entries[c] = None
    BY <1>2, <1>8, <2>1 DEF UpdateBackoff
  <2>2. CASE entries[c] # None
    <3>1. PICK e : Rearms(c, e, wall)
      BY <1>0, <1>8, <2>2, BackoffRearms
    <3> QED
      BY <1>3, <3>1
  <2> QED
    BY <2>1, <2>2
<1>9. CASE \/ PeekAndSleep \/ Wake \/ PassEnds \/ PopDue \/ SkewTick \/ Send \/ SendFails
           \/ Poke \/ Shutdown \/ Environment \/ \E c \in Crons, k \in Configs : Upsert(c, k)
  BY <1>2, <1>9 DEF PeekAndSleep, Wake, PassEnds, PopDue, SkewTick, Send, SendFails, Poke, Shutdown,
     Environment, Tick, Jump, Receive, CloseReceiver, Upsert
<1> QED
  BY <1>4, <1>5, <1>6, <1>7, <1>8, <1>9 DEF Next, Loop, Commands

\* The nodes of the heap are of entries that exist, and only the node of the
\* current version can be of the current fire time.
NodesInv ==
  \A n \in BagToSet(heap) :
    /\ entries[n.id] # None
    /\ n.version <= entries[n.id].version
    /\ n.version = entries[n.id].version => n.at = entries[n.id].next

\* Re-arming an entry leaves its old nodes behind.
LEMMA RearmsNodes ==
  ASSUME TableTypes, NodesInv, NEW c, NEW e, NEW t, Rearms(c, e, t)
  PROVE  NodesInv'
<1>1. /\ c \in Crons /\ e \in Entry /\ e # None /\ DOMAIN entries = Crons
      /\ entries' = [entries EXCEPT ![c] = e] /\ heap' = Push(heap, e.next, c, e.version)
      /\ e.version = NextVersion(entries, c)
  BY LoopAssumption DEF Rearms, TableTypes
<1>2. PICK x \in Nat \cup {None} : x = e.next
  BY <1>1, EntryIs
<1>3. PICK v \in Nat : v = e.version
  BY <1>1, EntryIs
<1>4. \A n \in BagToSet(heap') :
         n \in BagToSet(heap) \/ (x # None /\ n = [at |-> x, id |-> c, version |-> v])
  BY <1>1, <1>2, <1>3, PushedNodes DEF TableTypes
<1>5. ASSUME NEW n \in BagToSet(heap')
      PROVE /\ entries'[n.id] # None
            /\ n.version <= entries'[n.id].version
            /\ n.version = entries'[n.id].version => n.at = entries'[n.id].next
  <2>1. CASE n = [at |-> x, id |-> c, version |-> v]
    <3>1. n.id = c /\ n.version = v /\ n.at = x /\ entries'[c] = e
      BY <1>1, <2>1
    <3> QED
      BY <1>1, <1>2, <1>3, <3>1
  <2>2. CASE n \in BagToSet(heap)
    <3>0. n \in Node
      BY <2>2 DEF TableTypes
    <3>1. n.id \in Crons /\ n.version \in Nat
      BY <3>0 DEF Node
    <3>2. /\ entries[n.id] # None /\ n.version <= entries[n.id].version
          /\ n.version = entries[n.id].version => n.at = entries[n.id].next
      BY <2>2 DEF NodesInv
    <3>3. entries[n.id].version \in Nat
      BY <3>1, <3>2, LiveEntry
    <3>4. CASE n.id = c
      <4>1. v = entries[n.id].version + 1
        BY <1>1, <1>3, <3>2, <3>4 DEF NextVersion
      <4>2. entries'[n.id] = e
        BY <1>1, <3>4
      <4> QED
        BY <1>1, <1>3, <3>1, <3>2, <3>3, <4>1, <4>2
    <3>5. CASE n.id # c
      BY <1>1, <3>1, <3>2, <3>5
    <3> QED
      BY <3>4, <3>5
  <2> QED
    BY <1>4, <2>1, <2>2
<1> QED
  BY <1>5 DEF NodesInv

\* While nothing is deleted, every step keeps what the nodes say.
LEMMA NodesStep ==
  ASSUME LoopTypes, Inv, NodesInv, Deletable = {}, Next
  PROVE  NodesInv'
<1> USE DEF clock, table, channel, history
<1>0. TableTypes /\ TaskTypes /\ ClockTypes /\ DOMAIN entries = Crons
  BY DEF LoopTypes, TableTypes
<1>1. ASSUME entries' = entries, BagToSet(heap') \subseteq BagToSet(heap) PROVE NodesInv'
  BY <1>1 DEF NodesInv
<1>2. ASSUME UNCHANGED <<entries, heap>> PROVE NodesInv'
  BY <1>2 DEF NodesInv
<1>3. CASE PopDue
  <2>1. PICK top : entries' = entries /\ heap' = Cleaned(entries, heap) (-) SetToBag({top})
    BY <1>3 DEF PopDue
  <2> QED
    BY <1>0, <1>1, <2>1, CleanedNodes DEF TableTypes
<1>4. CASE FireDone
  BY <1>0, <1>4, FireRearms, RearmsNodes
<1>5. CASE InstallDone
  BY <1>0, <1>5, InstallRearms, RearmsNodes
<1>6. CASE SkewDone
  <2>1. /\ \A c \in Live : entries'[c] \in Entry /\ entries'[c].version = entries[c].version + 1
        /\ \A n \in DOMAIN heap' :
             \/ n \in DOMAIN heap
             \/ \E c \in Live : /\ entries'[c].next # None
                                /\ n = [at |-> entries'[c].next, id |-> c,
                                        version |-> entries'[c].version]
    BY <1>0, <1>6, SkewRearms DEF TableTypes
  <2>2. ASSUME NEW n \in BagToSet(heap')
        PROVE /\ entries'[n.id] # None
              /\ n.version <= entries'[n.id].version
              /\ n.version = entries'[n.id].version => n.at = entries'[n.id].next
    <3>1. CASE n \in DOMAIN heap
      <4>0. n \in BagToSet(heap) /\ n \in Node
        BY <1>0, <3>1 DEF TableTypes, BagToSet
      <4>1. n.id \in Crons /\ n.version \in Nat
        BY <4>0 DEF Node
      <4>2. entries[n.id] # None /\ n.version <= entries[n.id].version
        BY <4>0 DEF NodesInv
      <4>3. entries[n.id].version \in Nat /\ n.id \in Live
        BY <1>0, <4>1, <4>2, LiveEntry DEF Live
      <4>4. entries'[n.id] \in Entry /\ entries'[n.id].version = entries[n.id].version + 1
        BY <2>1, <4>3
      <4> QED
        BY <4>1, <4>2, <4>3, <4>4, LoopAssumption
    <3>2. ASSUME NEW c \in Live,
                 n = [at |-> entries'[c].next, id |-> c, version |-> entries'[c].version]
          PROVE /\ entries'[n.id] # None
                /\ n.version <= entries'[n.id].version
                /\ n.version = entries'[n.id].version => n.at = entries'[n.id].next
      <4>1. PICK e \in Entry : e = entries'[c]
        BY <2>1
      <4>2. e.version \in Nat /\ e # None
        BY EntryIs, LoopAssumption
      <4>3. n.id = c /\ n.version = e.version /\ n.at = e.next
        BY <3>2, <4>1
      <4> QED
        BY <4>1, <4>2, <4>3
    <3> QED
      BY <2>1, <3>1, <3>2 DEF BagToSet
  <2> QED
    BY <2>2 DEF NodesInv
<1>7. ASSUME NEW c \in Crons, NEW b \in Backoffs, UpdateBackoff(c, b) PROVE NodesInv'
  <2>1. CASE entries[c] = None
    BY <1>2, <1>7, <2>1 DEF UpdateBackoff
  <2>2. CASE entries[c] # None
    <3>1. PICK e : Rearms(c, e, wall)
      BY <1>0, <1>7, <2>2, BackoffRearms
    <3> QED
      BY <1>0, <3>1, RearmsNodes
  <2> QED
    BY <2>1, <2>2
<1>8. CASE PeekAndSleep \/ Wake \/ PassEnds
  BY <1>0, <1>1, <1>8, CleanedNodes DEF TableTypes, PeekAndSleep, Wake, PassEnds
<1>9. CASE SkewTick \/ Send \/ SendFails \/ Poke \/ Shutdown \/ Environment
            \/ \E c \in Crons, k \in Configs : Upsert(c, k)
  BY <1>2, <1>9 DEF SkewTick, Send, SendFails, Poke, Shutdown, Environment, Tick, Jump, Receive,
     CloseReceiver, Upsert
<1> QED
  BY <1>3, <1>4, <1>5, <1>6, <1>7, <1>8, <1>9 DEF Next, Loop, Commands

\* A firing pass pops the node of the entry's current fire time.
LEMMA CurrentStep ==
  ASSUME LoopTypes, Inv, NodesInv, FiresOnlyCurrentNode, Next
  PROVE  FiresOnlyCurrentNode'
<1> USE DEF clock, table, channel, history
<1>0. TableTypes /\ TaskTypes
  BY DEF LoopTypes
<1>1. CASE PopDue
  <2>1. PICK top \in LiveNodes(entries, heap) : task' = [task EXCEPT !.id = top.id, !.at = top.at]
    BY <1>1 DEF PopDue
  <2>2. top \in BagToSet(heap) /\ entries[top.id].version = top.version
    BY <2>1, LiveNodeTypes DEF LoopTypes
  <2>3. top.at = entries[top.id].next
    BY <2>2 DEF NodesInv
  <2>4. task'.id = top.id /\ task'.at = top.at /\ entries' = entries
    BY <1>0, <1>1, <2>1 DEF PopDue, TaskTypes
  <2> QED
    BY <2>3, <2>4 DEF FiresOnlyCurrentNode
<1>2. CASE SkewTick
  <2>1. pc' = "emit" => task'.kind = "skew"
    BY <1>2 DEF SkewTick, NoTask
  <2> QED
    BY <2>1 DEF FiresOnlyCurrentNode
<1>3. ASSUME NEW c \in Crons, NEW k \in Configs, Upsert(c, k) PROVE FiresOnlyCurrentNode'
  <2>1. task'.kind = "install"
    BY <1>3 DEF Upsert, NoTask
  <2> QED
    BY <2>1 DEF FiresOnlyCurrentNode
<1>4. ASSUME pc' # "emit" PROVE FiresOnlyCurrentNode'
  BY <1>4 DEF FiresOnlyCurrentNode
<1>5. ASSUME UNCHANGED <<pc, task, entries>> PROVE FiresOnlyCurrentNode'
  BY <1>5 DEF FiresOnlyCurrentNode
<1>6. CASE SendFails
  <2>1. entries' = entries
    BY <1>6 DEF SendFails
  <2> QED
    BY <1>4, <1>5, <1>6, <2>1 DEF SendFails
<1>7. CASE \/ PeekAndSleep \/ Wake \/ PassEnds \/ FireDone \/ SkewDone \/ InstallDone
           \/ \E c \in Deletable : Delete(c)
           \/ \E c \in Crons, b \in Backoffs : UpdateBackoff(c, b)
           \/ Poke \/ Shutdown
  BY <1>4, <1>7 DEF PeekAndSleep, Wake, PassEnds, FireDone, SkewDone, InstallDone, Delete,
     UpdateBackoff, Poke, Shutdown
<1>8. CASE Send \/ Environment
  BY <1>5, <1>8 DEF Send, Environment, Tick, Jump, Receive, CloseReceiver
<1> QED
  BY <1>1, <1>2, <1>3, <1>6, <1>7, <1>8 DEF Next, Loop, Commands

\* A loop that starts has well-typed state.
LEMMA InitTypes == Init => LoopTypes /\ BackoffFloor /\ NodesInv /\ FiresOnlyCurrentNode
<1> SUFFICES ASSUME Init PROVE LoopTypes /\ BackoffFloor /\ NodesInv /\ FiresOnlyCurrentNode
  OBVIOUS
<1>1. ClockTypes
  BY LoopAssumption DEF Init, ClockTypes, Time
<1>2. TaskTypes
  BY DEF Init, TaskTypes, NoTask
<1>3. BagToSet(heap) = {} /\ IsABag(heap)
  BY InitInv DEF Init, Inv, TableInv, BagToSet, EmptyBag, SetToBag
<1>4. TableTypes
  BY <1>3 DEF Init, TableTypes
<1>5. FlowTypes
  BY EmptySeq DEF Init, FlowTypes
<1>6. Live = {}
  BY DEF Init, Live
<1>7. pc # "emit"
  BY DEF Init
<1> QED
  BY <1>1, <1>2, <1>3, <1>4, <1>5, <1>6, <1>7
     DEF LoopTypes, BackoffFloor, NodesInv, FiresOnlyCurrentNode

\* Every step keeps all the types.
LEMMA TypesStep == LoopTypes /\ Inv /\ [Next]_vars => LoopTypes'
<1>1. ASSUME LoopTypes, Inv, Next PROVE LoopTypes'
  BY <1>1, ClockTypesStep, TaskTypesStep, TableTypesStep, FlowTypesStep DEF LoopTypes
<1>2. ASSUME LoopTypes, UNCHANGED vars PROVE LoopTypes'
  BY <1>2 DEF vars, LoopTypes, ClockTypes, TaskTypes, TableTypes, FlowTypes
<1> QED
  BY <1>1, <1>2

\* Well-typed state is the type invariant of the loop.
LEMMA TypesAreOK == LoopTypes => TypeOK
<1> SUFFICES ASSUME LoopTypes PROVE TypeOK
  OBVIOUS
<1>1. wall \in Nat /\ drift \in Int /\ remaining \in Nat \cup {None}
  BY LoopAssumption DEF LoopTypes, ClockTypes, Time
<1>2. /\ pc \in {"top", "select", "fire", "emit", "stopped"}
      /\ task.kind \in {"none", "install", "fire", "skew"}
      /\ task.id \in Crons \cup {None} /\ task.now \in Nat \cup {None}
      /\ task.at \in Nat \cup {None} /\ task.config \in Configs \cup {None}
  BY DEF LoopTypes, TaskTypes
<1> QED
  BY <1>1, <1>2 DEF LoopTypes, TableTypes, FlowTypes, TypeOK

SoundInv == LoopTypes /\ Inv /\ BackoffFloor

\* The table keeps its types and no entry is armed inside its backoff window,
\* whatever is installed, edited, deleted, backed off or skewed, and when
\* (next_eligible_fire and its callers in heap.rs and scheduler.rs).
THEOREM EntriesStayFloored == Spec => [](TypeOK /\ BackoffFloor)
<1>1. Init => SoundInv
  BY InitInv, InitTypes DEF SoundInv
<1>2. SoundInv /\ [Next]_vars => SoundInv'
  <2>1. BackoffFloor /\ UNCHANGED vars => BackoffFloor'
    BY DEF BackoffFloor, Live, vars
  <2> QED
    BY <2>1, InvStep, TypesStep, FloorStep DEF SoundInv
<1>3. SoundInv => TypeOK /\ BackoffFloor
  BY TypesAreOK DEF SoundInv
<1> QED
  BY <1>1, <1>2, <1>3, PTL DEF Spec

CurrentInv == SoundInv /\ NodesInv /\ FiresOnlyCurrentNode

\* And while no cron is deleted, a firing pass only fires the current node of an
\* entry.  (After a delete versions start again, so that a node left behind can
\* pass for a new one.)
THEOREM EntriesStaySound ==
  ASSUME Deletable = {}
  PROVE  Spec => []EntriesAreSound
<1>1. Init => CurrentInv
  BY InitInv, InitTypes DEF SoundInv, CurrentInv
<1>2. CurrentInv /\ [Next]_vars => CurrentInv'
  <2>1. BackoffFloor /\ NodesInv /\ FiresOnlyCurrentNode /\ UNCHANGED vars
          => BackoffFloor' /\ NodesInv' /\ FiresOnlyCurrentNode'
    BY DEF BackoffFloor, Live, NodesInv, FiresOnlyCurrentNode, vars
  <2> QED
    BY <2>1, InvStep, TypesStep, FloorStep, NodesStep, CurrentStep DEF SoundInv, CurrentInv
<1>3. CurrentInv => EntriesAreSound
  BY TypesAreOK DEF CurrentInv, SoundInv, EntriesAreSound
<1> QED
  BY <1>1, <1>2, <1>3, PTL DEF Spec

-----------------------------------------------------------------------------
(* No tick is emitted twice *)

\* No instant on record lies ahead of the clock.
WatermarksPast ==
  /\ \A c \in Live : entries[c].last <= wall
  /\ \A c \in Crons : persisted[c] # None => persisted[c] <= wall
  /\ \A i \in 1..Len(fires) : fires[i].firedAt <= wall

\* Nor ahead of the pass that is running; outside of a pass's sends nothing waits
\* to be sent.
PassPast ==
  /\ pc \in {"fire", "emit"} => task.now <= wall /\ \A c \in Live : entries[c].last <= task.now
  /\ pc = "emit" /\ task.kind \in {"fire", "install"} /\ task.at # None => task.at <= task.now
  /\ pc = "emit" => \A p \in 1..Len(outbox) : outbox[p].firedAt = task.now
  /\ pc # "emit" => outbox = <<>>

PastInv == WatermarksPast /\ PassPast

\* An entry waits for an instant after its watermark.
AheadInv == \A c \in Live : entries[c].next # None => entries[c].next > entries[c].last

\* The running pass is the pass of c.
PassOf(c) == pc = "emit" /\ IF task.kind = "skew" THEN c \in Live ELSE task.id = c

\* What waits to be sent belongs to the running pass, each tick to one event, and
\* while somebody listens none of it was emitted before.
OutboxInv ==
  /\ Apart(outbox)
  /\ \A p \in 1..Len(outbox) :
       /\ PassOf(outbox[p].id)
       /\ \A t \in outbox[p].ticks : t <= task.now
       /\ open => \A t \in outbox[p].ticks \cap Time : handled[outbox[p].id][t] = 0

\* While somebody listens, what was emitted lies behind the watermark of its entry
\* or belongs to the running pass.
HandledInv ==
  open => \A c \in Crons, t \in Time :
    handled[c][t] > 0 => \/ c \in Live /\ t <= entries[c].last
                         \/ PassOf(c) /\ t <= task.now

OnceInv == CurrentInv /\ PastInv /\ AheadInv /\ OutboxInv /\ HandledInv /\ NoDoubleFire

\* Re-arming writes one entry, which waits for an instant after the reading.
LEMMA RearmsWrites ==
  ASSUME TableTypes, NEW c, NEW e, NEW t, Rearms(c, e, t)
  PROVE  /\ c \in Crons /\ e \in Entry /\ e # None /\ t \in Nat
         /\ entries'[c] = e /\ \A d \in Crons : d # c => entries'[d] = entries[d]
         /\ Live' = Live \cup {c}
         /\ e.next \in Nat \cup {None} /\ e.last \in Nat
         /\ e.next # None => e.next > t
<1>1. /\ c \in Crons /\ t \in Nat /\ e \in Entry /\ e # None
      /\ entries' = [entries EXCEPT ![c] = e] /\ DOMAIN entries = Crons
      /\ e.next = NextEligibleFire(e.spec, t, e.backoff)
  BY LoopAssumption DEF Rearms, TableTypes
<1>2. entries'[c] = e /\ \A d \in Crons : d # c => entries'[d] = entries[d]
  BY <1>1
<1>3. Live' = Live \cup {c}
  BY <1>1, <1>2 DEF Live
<1>4. e.spec \in SUBSET Nat /\ e.backoff \in BackoffState /\ e.last \in Nat
  BY <1>1, EntryIs
<1>5. PICK n : n = NextEligibleFire(e.spec, t, e.backoff)
  OBVIOUS
<1>6. n \in Nat \cup {None} /\ (n # None => n > t)
  BY <1>1, <1>4, <1>5, EligibleIs
<1> QED
  BY <1>1, <1>2, <1>3, <1>4, <1>5, <1>6

\* The end of a firing pass moves the watermark to the pass's reading.
LEMMA FireWrites ==
  ASSUME LoopTypes, Inv, PastInv, FireDone
  PROVE  /\ pc = "emit" /\ task.kind = "fire" /\ task.id \in Live /\ task.now \in Nat
         /\ entries'[task.id].last = task.now
         /\ entries'[task.id].next \in Nat \cup {None}
         /\ entries'[task.id].next # None => entries'[task.id].next > task.now
         /\ \A d \in Crons : d # task.id => entries'[d] = entries[d]
         /\ Live' = Live
<1>1. PICK e : /\ Rearms(task.id, e, task.now)
               /\ entries[task.id] # None
               /\ e.last = IF task.at < task.now THEN task.now ELSE task.at
  BY FireRearms DEF LoopTypes
<1>2. pc = "emit" /\ task.kind = "fire" /\ task.at \in Nat /\ task.now \in Nat
  BY DEF FireDone, LoopTypes, TaskTypes
<1>3. task.at <= task.now
  BY <1>2, CatchupAssumption DEF PastInv, WatermarksPast, PassPast
<1>4. e.last = task.now
  BY <1>1, <1>2, <1>3
<1>5. /\ task.id \in Crons /\ entries'[task.id] = e
      /\ \A d \in Crons : d # task.id => entries'[d] = entries[d]
      /\ Live' = Live \cup {task.id}
      /\ e.next \in Nat \cup {None} /\ (e.next # None => e.next > task.now)
  BY <1>1, RearmsWrites DEF LoopTypes
<1>6. task.id \in Live
  BY <1>1, <1>5 DEF Live
<1> QED
  BY <1>2, <1>4, <1>5, <1>6

\* The end of an installation puts the watermark at the pass's reading.
LEMMA InstallWrites ==
  ASSUME LoopTypes, PastInv, InstallDone
  PROVE  /\ pc = "emit" /\ task.kind = "install" /\ task.id \in Crons /\ task.now \in Nat
         /\ entries'[task.id].last = task.now
         /\ entries'[task.id].next \in Nat \cup {None}
         /\ entries'[task.id].next # None => entries'[task.id].next > task.now
         /\ \A d \in Crons : d # task.id => entries'[d] = entries[d]
         /\ Live' = Live \cup {task.id}
<1>1. PICK e : Rearms(task.id, e, task.now) /\ e.last = InstalledWatermark(task.at, task.now)
  BY InstallRearms DEF LoopTypes
<1>2. pc = "emit" /\ task.kind = "install" /\ task.at \in Nat \cup {None} /\ task.now \in Nat
  BY DEF InstallDone, LoopTypes, TaskTypes
<1>3. task.at # None => task.at <= task.now
  BY <1>2 DEF PastInv, WatermarksPast, PassPast
<1>4. e.last = task.now
  BY <1>1, <1>2, <1>3 DEF InstalledWatermark
<1>5. /\ task.id \in Crons /\ entries'[task.id] = e
      /\ \A d \in Crons : d # task.id => entries'[d] = entries[d]
      /\ Live' = Live \cup {task.id}
      /\ e.next \in Nat \cup {None} /\ (e.next # None => e.next > task.now)
  BY <1>1, RearmsWrites DEF LoopTypes
<1> QED
  BY <1>2, <1>4, <1>5

\* The end of a skew pass moves every watermark to the clock.
LEMMA SkewWrites ==
  ASSUME LoopTypes, PastInv, SkewDone
  PROVE  /\ wall \in Nat /\ Live' = Live
         /\ \A c \in Live : /\ entries'[c].last = wall
                            /\ entries'[c].next \in Nat \cup {None}
                            /\ entries'[c].next # None => entries'[c].next > wall
<1>1. wall \in Nat
  BY LoopAssumption DEF LoopTypes, ClockTypes, Time
<1>2. /\ \A c \in Crons : entries[c] = None => entries'[c] = None
      /\ \A c \in Live :
              /\ entries'[c] \in Entry
              /\ entries'[c].next = NextEligibleFire(entries'[c].spec, wall, entries'[c].backoff)
              /\ entries'[c].last = IF entries[c].last < wall THEN wall ELSE entries[c].last
  BY SkewRearms DEF LoopTypes
<1>3. Live' = Live
  BY <1>2, LoopAssumption DEF Live
<1>4. ASSUME NEW c \in Live
      PROVE  /\ entries'[c].last = wall
             /\ entries'[c].next \in Nat \cup {None}
             /\ entries'[c].next # None => entries'[c].next > wall
  <2>1. PICK e \in Entry : e = entries'[c]
    BY <1>2
  <2>2. PICK l \in Nat : l = entries[c].last
    BY LiveEntry DEF LoopTypes, Live
  <2>3. l <= wall
    BY <2>2 DEF PastInv, WatermarksPast, PassPast
  <2>4. e.last = wall
    BY <1>1, <1>2, <2>1, <2>2, <2>3
  <2>5. e.spec \in SUBSET Nat /\ e.backoff \in BackoffState
    BY EntryIs
  <2>6. PICK n : n = NextEligibleFire(e.spec, wall, e.backoff)
    OBVIOUS
  <2>7. n \in Nat \cup {None} /\ (n # None => n > wall)
    BY <1>1, <2>5, <2>6, EligibleIs
  <2> QED
    BY <1>2, <2>1, <2>4, <2>6, <2>7
<1> QED
  BY <1>1, <1>3, <1>4

\* A backoff report leaves the watermark where it is.
LEMMA BackoffWrites ==
  ASSUME LoopTypes, NEW c \in Crons, NEW b \in Backoffs, UpdateBackoff(c, b)
  PROVE  /\ wall \in Nat /\ Live' = Live
         /\ \A d \in Live : entries'[d].last = entries[d].last
         /\ \A d \in Live : \/ entries'[d].next = entries[d].next
                            \/ /\ entries'[d].next \in Nat \cup {None}
                               /\ entries'[d].next # None => entries'[d].next > wall
<1>0. wall \in Nat
  BY LoopAssumption DEF LoopTypes, ClockTypes, Time
<1>1. CASE entries[c] = None
  BY <1>0, <1>1 DEF UpdateBackoff, table, Live
<1>2. CASE entries[c] # None
  <2>1. PICK e : Rearms(c, e, wall) /\ e.last = entries[c].last
    BY <1>2, BackoffRearms DEF LoopTypes
  <2>2. /\ entries'[c] = e /\ \A d \in Crons : d # c => entries'[d] = entries[d]
        /\ Live' = Live \cup {c}
        /\ e.next \in Nat \cup {None} /\ (e.next # None => e.next > wall)
    BY <2>1, RearmsWrites DEF LoopTypes
  <2> QED
    BY <1>0, <1>2, <2>1, <2>2 DEF Live
<1> QED
  BY <1>1, <1>2

\* A clock that is never set back.
LEMMA WallRises ==
  ASSUME LoopTypes, Jumps \subseteq Nat, Next
  PROVE  wall \in Nat /\ wall' \in Nat /\ wall <= wall'
<1> USE DEF clock, table, channel, history
<1>1. wall \in Nat /\ wall \in Time /\ MaxTime \in Nat
  BY LoopAssumption DEF LoopTypes, ClockTypes, Time
<1>2. CASE UNCHANGED wall
  BY <1>1, <1>2
<1>3. CASE Tick
  BY <1>1, <1>3 DEF Tick
<1>4. ASSUME NEW d \in Jumps, Jump(d) PROVE wall' \in Nat /\ wall <= wall'
  <2>1. d \in Nat /\ wall' = wall + d
    BY <1>4 DEF Jump
  <2> QED
    BY <1>1, <2>1
<1>5. CASE Loop
  BY <1>2, <1>5 DEF Loop, PeekAndSleep, Wake, PopDue, FireDone, PassEnds, SkewTick, SkewDone,
     InstallDone, Send, SendFails
<1>6. CASE Commands
  BY <1>2, <1>6 DEF Commands, Upsert, Delete, UpdateBackoff, Poke, Shutdown
<1>7. CASE Receive \/ CloseReceiver
  BY <1>2, <1>7 DEF Receive, CloseReceiver
<1> QED
  BY <1>1, <1>3, <1>4, <1>5, <1>6, <1>7 DEF Next, Environment

\* Which crons exist, and the watermarks they have.
LEMMA LiveLasts ==
  ASSUME TableTypes
  PROVE  \A c \in Live : c \in Crons /\ entries[c] # None /\ entries[c].last \in Nat
                         /\ entries[c].next \in Nat \cup {None}
<1> SUFFICES ASSUME NEW c \in Live
    PROVE c \in Crons /\ entries[c] # None /\ entries[c].last \in Nat
          /\ entries[c].next \in Nat \cup {None}
  OBVIOUS
<1>1. c \in Crons /\ entries[c] # None
  BY DEF Live
<1> QED
  BY <1>1, LiveEntry

\* No step writes an instant that is yet to come.
LEMMA WatermarksStep ==
  ASSUME LoopTypes, Inv, PastInv, Jumps \subseteq Nat, Next
  PROVE  WatermarksPast'
<1> USE DEF clock, table, channel, history
<1>0. /\ wall \in Nat /\ wall' \in Nat /\ wall <= wall'
      /\ \A c \in Live : c \in Crons /\ entries[c].last \in Nat /\ entries[c].last <= wall
      /\ \A c \in Crons : persisted[c] # None => persisted[c] \in Nat /\ persisted[c] <= wall
      /\ FlowTypes
  BY WallRises, LiveLasts DEF LoopTypes, PastInv, WatermarksPast, FlowTypes
<1>1. \A i \in 1..Len(fires) : fires[i] \in Event /\ fires[i].firedAt \in Nat /\ fires[i].firedAt <= wall
  <2>1. \A i \in 1..Len(fires) : fires[i] \in Event
    BY <1>0, ElementOfSeq DEF FlowTypes
  <2> QED
    BY <2>1 DEF PastInv, WatermarksPast, Event
<1>2. ASSUME \A c \in Live' : entries'[c].last \in Nat /\ entries'[c].last <= wall'
      PROVE  UNCHANGED <<fires, persisted>> => WatermarksPast'
  BY <1>0, <1>1, <1>2 DEF WatermarksPast
<1>3. UNCHANGED entries => \A c \in Live' : entries'[c].last \in Nat /\ entries'[c].last <= wall'
  BY <1>0 DEF Live
<1>4. CASE FireDone
  <2>1. PICK n : n = task.now
    OBVIOUS
  <2>2. PICK c : c = task.id
    OBVIOUS
  <2>3. /\ n \in Nat /\ entries'[c].last = n /\ Live' = Live
        /\ \A d \in Crons : d # c => entries'[d] = entries[d]
        /\ pc = "emit"
    BY <1>4, <2>1, <2>2, FireWrites
  <2>4. n <= wall
    BY <2>1, <2>3 DEF PastInv, PassPast
  <2>5. \A d \in Live' : entries'[d].last \in Nat /\ entries'[d].last <= wall'
    BY <1>0, <2>3, <2>4
  <2> QED
    BY <1>2, <1>4, <2>5 DEF FireDone
<1>5. CASE InstallDone
  <2>1. PICK n : n = task.now
    OBVIOUS
  <2>2. PICK c : c = task.id
    OBVIOUS
  <2>3. /\ n \in Nat /\ entries'[c].last = n /\ Live' = Live \cup {c}
        /\ \A d \in Crons : d # c => entries'[d] = entries[d]
        /\ pc = "emit"
    BY <1>5, <2>1, <2>2, InstallWrites
  <2>4. n <= wall
    BY <2>1, <2>3 DEF PastInv, PassPast
  <2>5. \A d \in Live' : entries'[d].last \in Nat /\ entries'[d].last <= wall'
    BY <1>0, <2>3, <2>4
  <2> QED
    BY <1>2, <1>5, <2>5 DEF InstallDone
<1>6. CASE SkewDone
  <2>1. \A d \in Live' : entries'[d].last \in Nat /\ entries'[d].last <= wall'
    BY <1>0, <1>6, SkewWrites
  <2> QED
    BY <1>2, <1>6, <2>1 DEF SkewDone
<1>7. ASSUME NEW c \in Deletable, Delete(c) PROVE WatermarksPast'
  <2>1. entries' = [entries EXCEPT ![c] = None] /\ DOMAIN entries = Crons
    BY <1>7 DEF Delete, DeleteEntries, LoopTypes, TableTypes
  <2>2. \A d \in Live' : d \in Live /\ entries'[d] = entries[d]
    BY <2>1 DEF Live
  <2>3. \A d \in Live' : entries'[d].last \in Nat /\ entries'[d].last <= wall'
    BY <1>0, <2>2
  <2> QED
    BY <1>2, <1>7, <2>3 DEF Delete
<1>8. ASSUME NEW c \in Crons, NEW b \in Backoffs, UpdateBackoff(c, b) PROVE WatermarksPast'
  <2>1. \A d \in Live' : entries'[d].last \in Nat /\ entries'[d].last <= wall'
    BY <1>0, <1>8, BackoffWrites
  <2> QED
    BY <1>2, <1>8, <2>1 DEF UpdateBackoff
<1>9. CASE Send
  <2>1. PICK ev : ev = Head(outbox)
    OBVIOUS
  <2>2. ev \in Event /\ outbox # <<>> /\ fires' = Append(fires, ev)
    BY <1>9, <2>1, SendMoves
  <2>3. pc = "emit" /\ UNCHANGED <<entries, persisted>>
    BY <1>9 DEF Send
  <2>4. ev.firedAt \in Nat /\ ev.firedAt <= wall
    <3>1. 1 \in 1..Len(outbox) /\ ev = outbox[1]
      BY <2>1, <2>2, Rest DEF LoopTypes, FlowTypes
    <3>2. ev.firedAt = task.now /\ task.now <= wall
      BY <2>3, <3>1 DEF PastInv, PassPast
    <3> QED
      BY <2>2, <3>2 DEF Event
  <2>5. /\ Len(fires') = Len(fires) + 1 /\ fires'[Len(fires) + 1] = ev
        /\ \A i \in 1..Len(fires) : fires'[i] = fires[i]
    BY <1>0, <2>2, AppendProperties DEF FlowTypes
  <2>6. Len(fires) \in Nat
    BY <1>0, LenProperties DEF FlowTypes
  <2>7. \A i \in 1..Len(fires') : fires'[i].firedAt <= wall'
    <3> SUFFICES ASSUME NEW i \in 1..Len(fires') PROVE fires'[i].firedAt <= wall'
      OBVIOUS
    <3>1. CASE i = Len(fires) + 1
      BY <1>0, <2>4, <2>5, <3>1
    <3>2. CASE i \in 1..Len(fires)
      BY <1>0, <1>1, <2>5, <3>2
    <3> QED
      BY <2>5, <2>6, <3>1, <3>2
  <2>8. \A c \in Crons : persisted'[c] # None => persisted'[c] <= wall'
    BY <1>0, <2>3
  <2> QED
    BY <1>3, <2>3, <2>7, <2>8 DEF WatermarksPast
<1>10. CASE Receive
  <2>1. PICK ev : ev = Head(fires)
    OBVIOUS
  <2>2. /\ fires # <<>> /\ UNCHANGED entries /\ fires' = Tail(fires)
        /\ persisted' = [persisted EXCEPT ![ev.id] =
                           IF persisted[ev.id] = None \/ persisted[ev.id] < ev.firedAt
                           THEN ev.firedAt ELSE persisted[ev.id]]
    BY <1>10, <2>1 DEF Receive
  <2>3. ev = fires[1] /\ 1 \in 1..Len(fires)
    BY <1>0, <2>1, <2>2, Rest DEF FlowTypes
  <2>4. \A i \in 1..Len(fires') : i + 1 \in 1..Len(fires) /\ fires'[i] = fires[i + 1]
    BY <1>0, <2>2, Rest DEF FlowTypes
  <2>5. \A i \in 1..Len(fires') : fires'[i].firedAt <= wall'
    BY <1>0, <1>1, <2>4
  <2>6. ev.firedAt \in Nat /\ ev.firedAt <= wall
    BY <1>1, <2>3
  <2>7. ASSUME NEW c \in Crons, persisted'[c] # None PROVE persisted'[c] <= wall'
    <3>1. persisted'[c] = persisted[c] \/ persisted'[c] = ev.firedAt
      BY <1>0, <2>2 DEF FlowTypes
    <3> QED
      BY <1>0, <2>6, <2>7, <3>1
  <2> QED
    BY <1>3, <2>2, <2>5, <2>7 DEF WatermarksPast
<1>11. CASE CloseReceiver
  <2>1. fires' = <<>> /\ UNCHANGED <<entries, persisted>>
    BY <1>11 DEF CloseReceiver
  <2>2. \A i : i \notin 1..Len(fires')
    BY <2>1, EmptySeq
  <2> QED
    BY <1>0, <1>3, <2>1, <2>2 DEF WatermarksPast
<1>12. CASE \/ PeekAndSleep \/ Wake \/ PassEnds \/ PopDue \/ SkewTick \/ SendFails
            \/ Poke \/ Shutdown \/ Tick \/ (\E d \in Jumps : Jump(d))
            \/ \E c \in Crons, k \in Configs : Upsert(c, k)
  <2>1. UNCHANGED <<entries, fires, persisted>>
    BY <1>12 DEF PeekAndSleep, Wake, PassEnds, PopDue, SkewTick, SendFails, Poke, Shutdown, Tick, Jump,
       Upsert
  <2> QED
    BY <1>2, <1>3, <2>1
<1> QED
  BY <1>4, <1>5, <1>6, <1>7, <1>8, <1>9, <1>10, <1>11, <1>12 DEF Next, Loop, Commands, Environment

\* A pass never knows less than the table, and its events are of its own reading
\* of the clock.
LEMMA PassPastStep ==
  ASSUME LoopTypes, Inv, PastInv, Jumps \subseteq Nat, Next
  PROVE  PassPast'
<1> USE DEF clock, table, channel, history
<1>0. /\ wall \in Nat /\ wall' \in Nat /\ wall <= wall'
      /\ \A c \in Live : c \in Crons /\ entries[c].last \in Nat /\ entries[c].last <= wall
      /\ \A c \in Crons : persisted[c] # None => persisted[c] \in Nat /\ persisted[c] <= wall
      /\ TaskTypes /\ FlowTypes
      /\ pc # "emit" => outbox = <<>>
  BY WallRises, LiveLasts DEF LoopTypes, PastInv, WatermarksPast, PassPast, FlowTypes
<1>1. ASSUME pc' \notin {"fire", "emit"}, outbox' = <<>> PROVE PassPast'
  BY <1>1 DEF PassPast
<1>2. ASSUME UNCHANGED <<pc, task, entries, outbox>> PROVE PassPast'
  <2>1. pc \in {"fire", "emit"} => task.now \in Nat /\ task.now <= wall
    BY <1>0 DEF TaskTypes, PastInv, PassPast
  <2>2. pc \in {"fire", "emit"} => task.now <= wall'
    BY <1>0, <2>1
  <2> QED
    BY <1>2, <2>2 DEF PastInv, PassPast, Live
<1>3. CASE Wake
  <2>1. CASE pc' = "top"
    BY <1>0, <1>1, <1>3, <2>1 DEF Wake
  <2>2. CASE pc' = "fire"
    <3>1. /\ task' = [NoTask EXCEPT !.kind = "fire", !.now = wall]
          /\ UNCHANGED <<wall, entries, outbox>> /\ pc = "select"
      BY <1>3, <2>2 DEF Wake
    <3>2. task'.now = wall
      BY <3>1 DEF NoTask
    <3> QED
      BY <1>0, <2>2, <3>1, <3>2 DEF PassPast, Live
  <2> QED
    BY <1>3, <2>1, <2>2 DEF Wake
<1>4. CASE PopDue
  <2>1. PICK top \in LiveNodes(entries, heap) :
           /\ top.at <= task.now /\ task' = [task EXCEPT !.id = top.id, !.at = top.at]
           /\ \A p \in 1..Len(outbox') : outbox'[p].firedAt = task.now
    BY <1>4, PoppedOutbox
  <2>2. task'.at = top.at /\ task'.now = task.now /\ task'.kind = task.kind
    BY <1>0, <2>1 DEF TaskTypes
  <2>3. /\ pc = "fire" /\ pc' = "emit" /\ UNCHANGED <<wall, entries>>
    BY <1>4 DEF PopDue
  <2>4. task.now <= wall /\ \A c \in Live : entries[c].last <= task.now
    BY <2>3 DEF PastInv, PassPast
  <2> QED
    BY <2>1, <2>2, <2>3, <2>4 DEF PassPast, Live
<1>5. CASE FireDone
  <2>1. PICK n : n = task.now
    OBVIOUS
  <2>2. PICK c : c = task.id
    OBVIOUS
  <2>3. /\ n \in Nat /\ entries'[c].last = n /\ Live' = Live
        /\ \A d \in Crons : d # c => entries'[d] = entries[d]
        /\ pc = "emit"
    BY <1>5, <2>1, <2>2, FireWrites
  <2>4. n <= wall /\ \A d \in Live : entries[d].last <= n
    BY <2>1, <2>3 DEF PastInv, PassPast
  <2>5. \A d \in Live' : entries'[d].last <= n
    BY <1>0, <2>3, <2>4
  <2>6. /\ pc' = "fire" /\ outbox' = <<>> /\ wall' = wall
        /\ task' = [task EXCEPT !.id = None, !.at = None]
    BY <1>5 DEF FireDone
  <2>7. task'.now = n
    BY <1>0, <2>1, <2>6 DEF TaskTypes
  <2> QED
    BY <2>4, <2>5, <2>6, <2>7 DEF PassPast
<1>6. CASE SkewTick
  <2>1. CASE pc' = "emit"
    <3>1. /\ task' = [NoTask EXCEPT !.kind = "skew", !.now = wall]
          /\ \A p \in 1..Len(outbox') : outbox'[p].firedAt = wall
      BY <1>6, <2>1, SkewEvents
    <3>2. task'.now = wall /\ task'.kind = "skew"
      BY <3>1 DEF NoTask
    <3>3. UNCHANGED <<wall, entries>>
      BY <1>6 DEF SkewTick
    <3> QED
      BY <1>0, <2>1, <3>1, <3>2, <3>3 DEF PassPast, Live
  <2>2. CASE pc' = "top" /\ UNCHANGED outbox
    BY <1>0, <1>1, <1>6, <2>2 DEF SkewTick
  <2> QED
    BY <1>6, <2>1, <2>2 DEF SkewTick
<1>7. ASSUME NEW c \in Crons, NEW k \in Configs, Upsert(c, k) PROVE PassPast'
  <2>1. \A p \in 1..Len(outbox') : outbox'[p].firedAt = wall
    BY <1>7, InstallEvents
  <2>2. /\ task' = [NoTask EXCEPT !.kind = "install", !.id = c, !.now = wall, !.at = persisted[c],
                                  !.config = k]
        /\ pc' = "emit" /\ UNCHANGED <<wall, entries>>
    BY <1>7 DEF Upsert
  <2>3. task'.now = wall /\ task'.at = persisted[c]
    BY <2>2 DEF NoTask
  <2> QED
    BY <1>0, <2>1, <2>2, <2>3 DEF PassPast, Live
<1>8. CASE Send
  <2>1. /\ outbox # <<>> /\ outbox' = Tail(outbox) /\ pc = "emit"
        /\ UNCHANGED <<wall, pc, task, entries>>
    BY <1>8 DEF Send
  <2>2. \A p \in 1..Len(outbox') : p + 1 \in 1..Len(outbox) /\ outbox'[p] = outbox[p + 1]
    BY <1>0, <2>1, Rest DEF FlowTypes
  <2>3. \A p \in 1..Len(outbox') : outbox'[p].firedAt = task.now
    BY <2>1, <2>2 DEF PastInv, PassPast
  <2>4. /\ task.now <= wall /\ \A c \in Live : entries[c].last <= task.now
        /\ task.kind \in {"fire", "install"} /\ task.at # None => task.at <= task.now
    BY <2>1 DEF PastInv, PassPast
  <2> QED
    BY <2>1, <2>3, <2>4 DEF PassPast, Live
<1>9. CASE SendFails
  <2>1. CASE UNCHANGED <<pc, task>>
    <3>1. outbox' = <<>> /\ UNCHANGED <<wall, entries>> /\ pc = "emit"
      BY <1>9 DEF SendFails
    <3>2. \A p : p \notin 1..Len(outbox')
      BY <3>1, EmptySeq
    <3> QED
      BY <2>1, <3>1, <3>2 DEF PastInv, PassPast, Live
  <2>2. CASE pc' = "top"
    BY <1>1, <1>9, <2>2 DEF SendFails
  <2> QED
    BY <1>9, <2>1, <2>2 DEF SendFails
<1>10. CASE InstallDone \/ SkewDone
  BY <1>1, <1>10 DEF InstallDone, SkewDone
<1>11. CASE \/ PeekAndSleep \/ PassEnds \/ Poke \/ Shutdown \/ (\E c \in Deletable : Delete(c))
            \/ \E c \in Crons, b \in Backoffs : UpdateBackoff(c, b)
  <2>1. pc # "emit" /\ UNCHANGED outbox /\ pc' \notin {"fire", "emit"}
    BY <1>11 DEF PeekAndSleep, PassEnds, Poke, Shutdown, Delete, UpdateBackoff
  <2> QED
    BY <1>0, <1>1, <2>1
<1>12. CASE Environment
  BY <1>2, <1>12 DEF Environment, Tick, Jump, Receive, CloseReceiver
<1> QED
  BY <1>3, <1>4, <1>5, <1>6, <1>7, <1>8, <1>9, <1>10, <1>11, <1>12 DEF Next, Loop, Commands

\* Every entry that is armed is armed for after its watermark.
LEMMA AheadStep ==
  ASSUME LoopTypes, Inv, PastInv, AheadInv, Deletable = {}, Next
  PROVE  AheadInv'
<1> USE DEF clock, table, channel, history
<1>0. /\ \A c \in Live : c \in Crons /\ entries[c].last \in Nat /\ entries[c].last <= wall
      /\ TaskTypes /\ wall \in Nat
  BY LiveLasts, LoopAssumption DEF LoopTypes, ClockTypes, Time, PastInv, WatermarksPast
<1>1. ASSUME UNCHANGED entries PROVE AheadInv'
  BY <1>1 DEF AheadInv, Live
<1>2. ASSUME NEW c, NEW n, entries'[c].last = n,
             entries'[c].next # None => entries'[c].next > n,
             \A d \in Crons : d # c => entries'[d] = entries[d], Live' \subseteq Live \cup {c}
      PROVE  AheadInv'
  <2> SUFFICES ASSUME NEW d \in Live', entries'[d].next # None
               PROVE  entries'[d].next > entries'[d].last
    BY DEF AheadInv
  <2>1. CASE d = c
    BY <1>2, <2>1
  <2>2. CASE d # c
    <3>1. d \in Live /\ entries'[d] = entries[d]
      BY <1>0, <1>2, <2>2
    <3> QED
      BY <3>1 DEF AheadInv
  <2> QED
    BY <2>1, <2>2
<1>3. CASE FireDone
  <2>1. PICK c : c = task.id
    OBVIOUS
  <2>2. PICK n : n = task.now
    OBVIOUS
  <2>3. /\ entries'[c].last = n /\ (entries'[c].next # None => entries'[c].next > n)
        /\ \A d \in Crons : d # c => entries'[d] = entries[d]
        /\ Live' \subseteq Live \cup {c}
    BY <1>3, <2>1, <2>2, FireWrites
  <2> QED
    BY <1>2, <2>3
<1>4. CASE InstallDone
  <2>1. PICK c : c = task.id
    OBVIOUS
  <2>2. PICK n : n = task.now
    OBVIOUS
  <2>3. /\ entries'[c].last = n /\ (entries'[c].next # None => entries'[c].next > n)
        /\ \A d \in Crons : d # c => entries'[d] = entries[d]
        /\ Live' \subseteq Live \cup {c}
    BY <1>4, <2>1, <2>2, InstallWrites
  <2> QED
    BY <1>2, <2>3
<1>5. CASE SkewDone
  BY <1>5, SkewWrites DEF AheadInv
<1>6. ASSUME NEW c \in Crons, NEW b \in Backoffs, UpdateBackoff(c, b) PROVE AheadInv'
  <2>1. /\ Live' = Live /\ \A d \in Live : entries'[d].last = entries[d].last
        /\ \A d \in Live : \/ entries'[d].next = entries[d].next
                           \/ /\ entries'[d].next \in Nat \cup {None}
                              /\ entries'[d].next # None => entries'[d].next > wall
    BY <1>6, BackoffWrites
  <2>2. ASSUME NEW d \in Live', entries'[d].next # None
        PROVE  entries'[d].next > entries'[d].last
    <3>1. d \in Live /\ entries[d].last \in Nat /\ entries[d].last <= wall
      BY <1>0, <2>1
    <3>2. CASE entries'[d].next = entries[d].next
      BY <2>1, <2>2, <3>1, <3>2 DEF AheadInv
    <3>3. CASE entries'[d].next \in Nat /\ entries'[d].next > wall
      BY <1>0, <2>1, <3>1, <3>3
    <3> QED
      BY <2>1, <2>2, <3>1, <3>2, <3>3
  <2> QED
    BY <2>2 DEF AheadInv
<1>7. CASE \/ PeekAndSleep \/ Wake \/ PassEnds \/ PopDue \/ SkewTick \/ Send \/ SendFails
           \/ Poke \/ Shutdown \/ Environment \/ \E c \in Crons, k \in Configs : Upsert(c, k)
  <2>1. UNCHANGED entries
    BY <1>7 DEF PeekAndSleep, Wake, PassEnds, PopDue, SkewTick, Send, SendFails, Poke, Shutdown,
       Environment, Tick, Jump, Receive, CloseReceiver, Upsert
  <2> QED
    BY <1>1, <2>1
<1> QED
  BY <1>3, <1>4, <1>5, <1>6, <1>7 DEF Next, Loop, Commands

\* What a pass queues was not emitted before: it lies after the watermark of its
\* entry, and each send takes ticks that no other event of the queue has.
LEMMA OutboxStep ==
  ASSUME LoopTypes, Inv, PastInv, AheadInv, NodesInv, OutboxInv, HandledInv, Next
  PROVE  OutboxInv'
<1> USE DEF clock, table, channel, history
<1>0. /\ TaskTypes /\ FlowTypes /\ wall \in Nat
      /\ \A c \in Live : c \in Crons /\ entries[c].last \in Nat
      /\ pc # "emit" => outbox = <<>>
  BY LiveLasts, LoopAssumption DEF LoopTypes, ClockTypes, Time, PastInv, PassPast
<1>1. ASSUME outbox' = <<>> PROVE OutboxInv'
  <2>1. Apart(outbox') /\ Len(outbox') = 0
    BY <1>1, NoEvents
  <2>2. \A p : p \notin 1..Len(outbox')
    BY <2>1
  <2> QED
    BY <2>1, <2>2 DEF OutboxInv
<1>2. ASSUME UNCHANGED <<outbox, pc, task, entries, handled>>, open' => open PROVE OutboxInv'
  BY <1>2 DEF OutboxInv, PassOf, Live
<1>3. CASE PopDue
  <2>1. PICK top \in LiveNodes(entries, heap) :
           /\ top.at <= task.now
           /\ task' = [task EXCEPT !.id = top.id, !.at = top.at]
           /\ Apart(outbox')
           /\ outbox' \in Seq(Event)
           /\ \A p \in 1..Len(outbox') :
                /\ outbox'[p].id = top.id
                /\ \A t \in outbox'[p].ticks : top.at <= t /\ t <= task.now
    BY <1>3, PoppedOutbox
  <2>2. /\ top.at \in Nat /\ top.id \in Crons /\ top.id \in Live
        /\ top \in BagToSet(heap) /\ entries[top.id].version = top.version
    BY <2>1, LiveNodeTypes DEF LoopTypes, Live
  <2>3. top.at = entries[top.id].next
    BY <2>2 DEF NodesInv
  <2>4. top.at > entries[top.id].last
    <3>1. entries[top.id].next # None
      BY <2>2, <2>3, CatchupAssumption
    <3> QED
      BY <2>2, <2>3, <3>1 DEF AheadInv
  <2>5. task'.id = top.id /\ task'.now = task.now /\ task'.kind = "fire"
    BY <1>0, <1>3, <2>1 DEF PopDue, TaskTypes
  <2>6. pc = "fire" /\ pc' = "emit" /\ UNCHANGED <<handled, open>>
    BY <1>3 DEF PopDue
  <2>7. \A p \in 1..Len(outbox') : \A t \in outbox'[p].ticks : t \in Nat
    <3>1. \A p \in 1..Len(outbox') : outbox'[p] \in Event
      BY <2>1, ElementOfSeq
    <3> QED
      BY <3>1 DEF Event
  <2>8. open => \A t \in Time : t >= top.at => handled[top.id][t] = 0
    <3> SUFFICES ASSUME open, NEW t \in Time, t >= top.at PROVE handled[top.id][t] = 0
      OBVIOUS
    <3>1. t \in Nat /\ handled[top.id][t] \in Nat
      BY <1>0, <2>2, LoopAssumption DEF Time, FlowTypes
    <3>2. ~ (t <= entries[top.id].last)
      BY <1>0, <2>2, <2>4, <3>1
    <3>3. ~ (handled[top.id][t] > 0)
      BY <2>2, <2>6, <3>2 DEF HandledInv, PassOf
    <3> QED
      BY <3>1, <3>3
  <2>9. \A p \in 1..Len(outbox') :
          /\ PassOf(outbox[p].id)'
          /\ \A t \in outbox'[p].ticks : t <= task'.now
          /\ open' => \A t \in outbox'[p].ticks \cap Time : handled'[outbox'[p].id][t] = 0
    <3> SUFFICES ASSUME NEW p \in 1..Len(outbox')
                 PROVE  /\ PassOf(outbox[p].id)'
                        /\ \A t \in outbox'[p].ticks : t <= task'.now
                        /\ open' => \A t \in outbox'[p].ticks \cap Time :
                                      handled'[outbox'[p].id][t] = 0
      OBVIOUS
    <3>1. PassOf(outbox[p].id)'
      BY <2>1, <2>5, <2>6 DEF PassOf
    <3>2. \A t \in outbox'[p].ticks : t <= task'.now
      BY <2>1, <2>5
    <3>3. open' => \A t \in outbox'[p].ticks \cap Time : handled'[outbox'[p].id][t] = 0
      BY <2>1, <2>2, <2>6, <2>7, <2>8
    <3> QED
      BY <3>1, <3>2, <3>3
  <2> QED
    BY <2>1, <2>9 DEF OutboxInv
<1>4. CASE SkewTick
  <2>1. CASE pc' = "emit"
    <3>1. /\ outbox' \in Seq(Event) /\ Apart(outbox')
          /\ \A p \in 1..Len(outbox') :
               /\ outbox'[p].id \in Live
               /\ \A t \in outbox'[p].ticks : entries[outbox'[p].id].last < t /\ t <= wall
          /\ task' = [NoTask EXCEPT !.kind = "skew", !.now = wall]
      BY <1>4, <2>1, SkewEvents
    <3>2. task'.kind = "skew" /\ task'.now = wall
      BY <3>1 DEF NoTask
    <3>3. pc = "select" /\ UNCHANGED <<handled, open, entries>>
      BY <1>4 DEF SkewTick
    <3>4. \A p \in 1..Len(outbox') : \A t \in outbox'[p].ticks : t \in Nat
      <4>1. \A p \in 1..Len(outbox') : outbox'[p] \in Event
        BY <3>1, ElementOfSeq
      <4> QED
        BY <4>1 DEF Event
    <3>5. ASSUME open, NEW c \in Live, NEW t \in Time, entries[c].last < t
          PROVE  handled[c][t] = 0
      <4>1. t \in Nat /\ handled[c][t] \in Nat /\ c \in Crons /\ entries[c].last \in Nat
        BY <1>0, <3>5, LoopAssumption DEF Time, FlowTypes
      <4>2. ~ (handled[c][t] > 0)
        BY <3>3, <3>5, <4>1 DEF HandledInv, PassOf
      <4> QED
        BY <4>1, <4>2
    <3>6. ASSUME NEW p \in 1..Len(outbox')
          PROVE  /\ PassOf(outbox[p].id)'
                 /\ \A t \in outbox'[p].ticks : t <= task'.now
                 /\ open' => \A t \in outbox'[p].ticks \cap Time : handled'[outbox'[p].id][t] = 0
      <4>1. PassOf(outbox[p].id)'
        BY <2>1, <3>1, <3>2, <3>3 DEF PassOf, Live
      <4>2. open' => \A t \in outbox'[p].ticks \cap Time : handled'[outbox'[p].id][t] = 0
        BY <3>1, <3>3, <3>5
      <4> QED
        BY <3>1, <3>2, <4>1, <4>2
    <3> QED
      BY <3>1, <3>6 DEF OutboxInv
  <2>2. CASE UNCHANGED outbox
    BY <1>0, <1>1, <1>4, <2>2 DEF SkewTick
  <2> QED
    BY <1>4, <2>1, <2>2 DEF SkewTick
<1>5. ASSUME NEW c \in Crons, NEW k \in Configs, Upsert(c, k) PROVE OutboxInv'
  <2>1. /\ outbox' \in Seq(Event) /\ Apart(outbox')
        /\ \A p \in 1..Len(outbox') :
             outbox'[p].id = c /\ \A t \in outbox'[p].ticks : t <= wall
    BY <1>5, InstallEvents
  <2>2. /\ task' = [NoTask EXCEPT !.kind = "install", !.id = c, !.now = wall, !.at = persisted[c],
                                  !.config = k]
        /\ pc' = "emit" /\ handled' = [handled EXCEPT ![c] = [t \in Time |-> 0]]
    BY <1>5 DEF Upsert
  <2>3. task'.kind = "install" /\ task'.id = c /\ task'.now = wall
    BY <2>2 DEF NoTask
  <2>4. \A t \in Time : handled'[c][t] = 0
    BY <1>0, <2>2 DEF FlowTypes
  <2>5. \A p \in 1..Len(outbox') : PassOf(outbox[p].id)'
    BY <2>1, <2>2, <2>3 DEF PassOf
  <2> QED
    BY <2>1, <2>3, <2>4, <2>5 DEF OutboxInv
<1>6. CASE Send
  <2>1. PICK ev : ev = Head(outbox)
    OBVIOUS
  <2>2. /\ outbox # <<>> /\ ev \in Event /\ outbox' = Tail(outbox)
        /\ \A c \in Crons : c # ev.id => handled'[c] = handled[c]
        /\ \A t \in Time : handled'[ev.id][t] = IF t \in ev.ticks /\ handled[ev.id][t] < 2
                                                THEN handled[ev.id][t] + 1 ELSE handled[ev.id][t]
    BY <1>6, <2>1, SendMoves
  <2>3. /\ Len(outbox) \in Nat /\ Len(outbox) > 0 /\ ev = outbox[1]
        /\ \A p \in 1..Len(outbox') : p + 1 \in 1..Len(outbox) /\ outbox'[p] = outbox[p + 1]
    BY <1>0, <2>1, <2>2, Rest DEF FlowTypes
  <2>4. UNCHANGED <<pc, task, entries, open>>
    BY <1>6 DEF Send
  <2>5. Apart(outbox')
    <3> SUFFICES ASSUME NEW i \in 1..Len(outbox'), NEW j \in 1..Len(outbox'), i # j,
                        outbox'[i].id = outbox'[j].id
                 PROVE  outbox'[i].ticks \cap outbox'[j].ticks = {}
      BY DEF Apart
    <3>1. /\ i + 1 \in 1..Len(outbox) /\ j + 1 \in 1..Len(outbox) /\ i + 1 # j + 1
          /\ outbox'[i] = outbox[i + 1] /\ outbox'[j] = outbox[j + 1]
      BY <2>3
    <3> QED
      BY <3>1 DEF OutboxInv, Apart
  <2>6. ASSUME NEW p \in 1..Len(outbox')
        PROVE  /\ PassOf(outbox[p].id)'
               /\ \A t \in outbox'[p].ticks : t <= task'.now
               /\ open' => \A t \in outbox'[p].ticks \cap Time : handled'[outbox'[p].id][t] = 0
    <3>1. PICK q \in 1..Len(outbox) : q # 1 /\ outbox'[p] = outbox[q]
      <4>1. p + 1 \in 1..Len(outbox) /\ p + 1 # 1
        BY <2>3
      <4> QED
        BY <2>3, <4>1
    <3>2. PICK x : x = outbox[q]
      OBVIOUS
    <3>3. /\ PassOf(x.id) /\ \A t \in x.ticks : t <= task.now
          /\ open => \A t \in x.ticks \cap Time : handled[x.id][t] = 0
      BY <3>1, <3>2 DEF OutboxInv
    <3>4. x.id = ev.id => x.ticks \cap ev.ticks = {}
      <4>1. 1 \in 1..Len(outbox)
        BY <2>3
      <4> QED
        BY <2>3, <3>1, <3>2, <4>1 DEF OutboxInv, Apart
    <3>5. x \in Event
      BY <1>0, <3>1, <3>2, ElementOfSeq DEF FlowTypes
    <3>6. x.id \in Crons
      BY <3>5 DEF Event
    <3>7. \A t \in x.ticks \cap Time : handled'[x.id][t] = handled[x.id][t]
      BY <2>2, <3>4, <3>6
    <3>8. PassOf(x.id)'
      BY <2>4, <3>3 DEF PassOf, Live
    <3> QED
      BY <2>4, <3>1, <3>2, <3>3, <3>7, <3>8
  <2> QED
    BY <2>5, <2>6 DEF OutboxInv
<1>7. CASE SendFails \/ FireDone \/ SkewDone \/ InstallDone
  BY <1>1, <1>7 DEF SendFails, FireDone, SkewDone, InstallDone
<1>8. CASE \/ PeekAndSleep \/ Wake \/ PassEnds \/ Poke \/ Shutdown \/ (\E c \in Deletable : Delete(c))
           \/ \E c \in Crons, b \in Backoffs : UpdateBackoff(c, b)
  <2>1. pc # "emit" /\ UNCHANGED outbox
    BY <1>8 DEF PeekAndSleep, Wake, PassEnds, Poke, Shutdown, Delete, UpdateBackoff
  <2> QED
    BY <1>0, <1>1, <2>1
<1>9. CASE Environment
  BY <1>2, <1>9 DEF Environment, Tick, Jump, Receive, CloseReceiver
<1> QED
  BY <1>3, <1>4, <1>5, <1>6, <1>7, <1>8, <1>9 DEF Next, Loop, Commands

\* What was emitted stays behind the watermark, which only a pass that emitted
\* the gap moves.
LEMMA HandledStep ==
  ASSUME LoopTypes, Inv, PastInv, OutboxInv, HandledInv, Deletable = {}, Next
  PROVE  HandledInv'
<1> USE DEF clock, table, channel, history
<1>0. /\ TaskTypes /\ FlowTypes /\ wall \in Nat
      /\ \A c \in Live : c \in Crons /\ entries[c].last \in Nat /\ entries[c].last <= wall
  BY LiveLasts, LoopAssumption DEF LoopTypes, ClockTypes, Time, PastInv, WatermarksPast
<1>1. ASSUME ~open' PROVE HandledInv'
  BY <1>1 DEF HandledInv
<1>2. ASSUME UNCHANGED <<handled, pc, task, entries>>, open' => open PROVE HandledInv'
  BY <1>2 DEF HandledInv, PassOf, Live
<1>3. ASSUME pc # "emit", UNCHANGED <<handled, open>>,
             \A c \in Live : c \in Live' /\ entries'[c].last = entries[c].last
      PROVE  HandledInv'
  BY <1>3 DEF HandledInv, PassOf
<1>4. CASE PeekAndSleep \/ Wake \/ PassEnds \/ PopDue \/ SkewTick \/ Poke \/ Shutdown
  <2>1. pc # "emit" /\ UNCHANGED <<handled, open, entries>>
    BY <1>4 DEF PeekAndSleep, Wake, PassEnds, PopDue, SkewTick, Poke, Shutdown
  <2>2. \A c \in Live : c \in Live' /\ entries'[c].last = entries[c].last
    BY <2>1 DEF Live
  <2> QED
    BY <1>3, <2>1, <2>2
<1>5. ASSUME NEW c \in Crons, NEW b \in Backoffs, UpdateBackoff(c, b) PROVE HandledInv'
  <2>1. pc # "emit" /\ UNCHANGED <<handled, open>>
    BY <1>5 DEF UpdateBackoff
  <2>2. \A d \in Live : d \in Live' /\ entries'[d].last = entries[d].last
    BY <1>5, BackoffWrites
  <2> QED
    BY <1>3, <2>1, <2>2
<1>6. CASE Send
  <2>1. PICK ev : ev = Head(outbox)
    OBVIOUS
  <2>2. /\ outbox # <<>> /\ ev \in Event
        /\ \A c \in Crons : c # ev.id => handled'[c] = handled[c]
        /\ \A t \in Time : handled'[ev.id][t] = IF t \in ev.ticks /\ handled[ev.id][t] < 2
                                                THEN handled[ev.id][t] + 1 ELSE handled[ev.id][t]
    BY <1>6, <2>1, SendMoves
  <2>3. PassOf(ev.id) /\ \A t \in ev.ticks : t <= task.now
    <3>1. 1 \in 1..Len(outbox) /\ ev = outbox[1]
      BY <1>0, <2>1, <2>2, Rest DEF FlowTypes
    <3> QED
      BY <3>1 DEF OutboxInv
  <2>4. UNCHANGED <<pc, task, entries, open>>
    BY <1>6 DEF Send
  <2>5. ASSUME open', NEW c \in Crons, NEW t \in Time, handled'[c][t] > 0
        PROVE  \/ c \in Live /\ t <= entries[c].last
               \/ PassOf(c) /\ t <= task.now
    <3>1. CASE handled'[c][t] = handled[c][t]
      BY <2>4, <2>5, <3>1 DEF HandledInv
    <3>2. CASE c = ev.id /\ t \in ev.ticks
      BY <2>3, <3>2
    <3> QED
      BY <2>2, <3>1, <3>2
  <2> QED
    BY <2>4, <2>5 DEF HandledInv, PassOf, Live
<1>7. CASE SendFails
  BY <1>1, <1>7 DEF SendFails
<1>8. ASSUME NEW c \in Crons, NEW n \in Nat, pc = "emit", task.now = n, task.kind # "skew", task.id = c,
             entries'[c].last = n, \A d \in Crons : d # c => entries'[d] = entries[d],
             Live' = Live \cup {c}, UNCHANGED <<handled, open>>
      PROVE  HandledInv'
  <2>1. \A d \in Live : entries[d].last <= n
    BY <1>8 DEF PastInv, PassPast
  <2>2. ASSUME open', NEW d \in Crons, NEW t \in Time, handled'[d][t] > 0
        PROVE  d \in Live' /\ t <= entries'[d].last
    <3>0. t \in Nat
      BY LoopAssumption DEF Time
    <3>1. \/ d \in Live /\ t <= entries[d].last
          \/ d = c /\ t <= n
      BY <1>8, <2>2 DEF HandledInv, PassOf
    <3>2. CASE d = c
      <4>1. t <= n
        BY <1>0, <2>1, <3>0, <3>1, <3>2, <1>8
      <4> QED
        BY <1>8, <3>2, <4>1
    <3>3. CASE d # c
      BY <1>8, <3>1, <3>3
    <3> QED
      BY <3>2, <3>3
  <2> QED
    BY <2>2 DEF HandledInv
<1>9. CASE FireDone
  <2>1. PICK c : c = task.id
    OBVIOUS
  <2>2. PICK n : n = task.now
    OBVIOUS
  <2>3. /\ c \in Crons /\ n \in Nat /\ pc = "emit" /\ task.kind # "skew"
        /\ entries'[c].last = n /\ Live' = Live \cup {c}
        /\ \A d \in Crons : d # c => entries'[d] = entries[d]
    BY <1>9, <2>1, <2>2, FireWrites DEF Live
  <2>4. UNCHANGED <<handled, open>>
    BY <1>9 DEF FireDone
  <2> QED
    BY <1>8, <2>1, <2>2, <2>3, <2>4
<1>10. CASE InstallDone
  <2>1. PICK c : c = task.id
    OBVIOUS
  <2>2. PICK n : n = task.now
    OBVIOUS
  <2>3. /\ c \in Crons /\ n \in Nat /\ pc = "emit" /\ task.kind # "skew"
        /\ entries'[c].last = n /\ Live' = Live \cup {c}
        /\ \A d \in Crons : d # c => entries'[d] = entries[d]
    BY <1>10, <2>1, <2>2, InstallWrites
  <2>4. UNCHANGED <<handled, open>>
    BY <1>10 DEF InstallDone
  <2> QED
    BY <1>8, <2>1, <2>2, <2>3, <2>4
<1>11. CASE SkewDone
  <2>1. /\ Live' = Live /\ \A c \in Live : entries'[c].last = wall
    BY <1>11, SkewWrites
  <2>2. pc = "emit" /\ task.kind = "skew" /\ UNCHANGED <<handled, open>>
    BY <1>11 DEF SkewDone
  <2>3. task.now \in Nat /\ task.now <= wall
    BY <1>0, <2>2 DEF TaskTypes, PastInv, PassPast
  <2>4. ASSUME open', NEW c \in Crons, NEW t \in Time, handled'[c][t] > 0
        PROVE  c \in Live' /\ t <= entries'[c].last
    <3>0. t \in Nat
      BY LoopAssumption DEF Time
    <3>1. c \in Live /\ (t <= entries[c].last \/ t <= task.now)
      BY <2>2, <2>4 DEF HandledInv, PassOf
    <3>2. t <= wall
      BY <1>0, <2>3, <3>0, <3>1
    <3> QED
      BY <2>1, <3>1, <3>2
  <2> QED
    BY <2>4 DEF HandledInv
<1>12. ASSUME NEW c \in Crons, NEW k \in Configs, Upsert(c, k) PROVE HandledInv'
  <2>1. /\ pc # "emit" /\ handled' = [handled EXCEPT ![c] = [t \in Time |-> 0]]
        /\ UNCHANGED <<entries, open>>
    BY <1>12 DEF Upsert
  <2>2. ASSUME open', NEW d \in Crons, NEW t \in Time, handled'[d][t] > 0
        PROVE  d \in Live' /\ t <= entries'[d].last
    <3>1. d # c /\ handled'[d] = handled[d]
      BY <1>0, <2>1, <2>2 DEF FlowTypes
    <3> QED
      BY <2>1, <2>2, <3>1 DEF HandledInv, PassOf, Live
  <2> QED
    BY <2>2 DEF HandledInv
<1>13. CASE Environment
  BY <1>2, <1>13 DEF Environment, Tick, Jump, Receive, CloseReceiver
<1> QED
  BY <1>4, <1>5, <1>6, <1>7, <1>9, <1>10, <1>11, <1>12, <1>13 DEF Next, Loop, Commands

\* A send counts ticks that were not counted before.
LEMMA OnceStep ==
  ASSUME LoopTypes, OutboxInv, NoDoubleFire, Next
  PROVE  NoDoubleFire'
<1> USE DEF clock, table, channel, history
<1>0. FlowTypes
  BY DEF LoopTypes
<1>1. ASSUME UNCHANGED handled PROVE NoDoubleFire'
  BY <1>1 DEF NoDoubleFire
<1>2. CASE Send
  <2>1. PICK ev : ev = Head(outbox)
    OBVIOUS
  <2>2. /\ outbox # <<>> /\ ev \in Event
        /\ \A c \in Crons : c # ev.id => handled'[c] = handled[c]
        /\ \A t \in Time : handled'[ev.id][t] = IF t \in ev.ticks /\ handled[ev.id][t] < 2
                                                THEN handled[ev.id][t] + 1 ELSE handled[ev.id][t]
    BY <1>2, <2>1, SendMoves
  <2>3. \A t \in ev.ticks \cap Time : handled[ev.id][t] = 0
    <3>1. 1 \in 1..Len(outbox) /\ ev = outbox[1]
      BY <1>0, <2>1, <2>2, Rest DEF FlowTypes
    <3>2. open
      BY <1>2 DEF Send
    <3> QED
      BY <3>1, <3>2 DEF OutboxInv
  <2>4. ASSUME NEW c \in Crons, NEW t \in Time PROVE handled'[c][t] <= 1
    <3>1. CASE c = ev.id /\ t \in ev.ticks
      <4>1. handled[c][t] = 0
        BY <2>3, <3>1
      <4>2. handled'[c][t] = 1
        BY <2>2, <3>1, <4>1
      <4> QED
        BY <4>2
    <3>2. CASE ~(c = ev.id /\ t \in ev.ticks)
      <4>1. handled'[c][t] = handled[c][t]
        BY <2>2, <3>2
      <4> QED
        BY <4>1 DEF NoDoubleFire
    <3> QED
      BY <3>1, <3>2
  <2> QED
    BY <2>4 DEF NoDoubleFire
<1>3. ASSUME NEW c \in Crons, NEW k \in Configs, Upsert(c, k) PROVE NoDoubleFire'
  <2>1. handled' = [handled EXCEPT ![c] = [t \in Time |-> 0]]
    BY <1>3 DEF Upsert
  <2>2. \A d \in Crons, t \in Time : handled'[d][t] = 0 \/ handled'[d][t] = handled[d][t]
    BY <1>0, <2>1 DEF FlowTypes
  <2>3. \A d \in Crons, t \in Time : handled'[d][t] = 0 => handled'[d][t] <= 1
    OBVIOUS
  <2> QED
    BY <2>2, <2>3 DEF NoDoubleFire
<1>4. CASE \/ PeekAndSleep \/ Wake \/ PassEnds \/ PopDue \/ FireDone \/ SkewTick \/ SkewDone
           \/ InstallDone \/ SendFails \/ Poke \/ Shutdown \/ (\E c \in Deletable : Delete(c))
           \/ \E c \in Crons, b \in Backoffs : UpdateBackoff(c, b)
  BY <1>1, <1>4 DEF PeekAndSleep, Wake, PassEnds, PopDue, FireDone, SkewTick, SkewDone,
     InstallDone, SendFails, Poke, Shutdown, Delete, UpdateBackoff
<1>5. CASE Environment
  BY <1>1, <1>5 DEF Environment, Tick, Jump, Receive, CloseReceiver
<1> QED
  BY <1>2, <1>3, <1>4, <1>5 DEF Next, Loop, Commands

\* With a clock that is never set back and as long as no cron is deleted, no
\* installation, firing pass or skew pass emits a tick that was emitted since the
\* cron was installed: each pass emits the gap behind the watermark and then
\* moves the watermark over it (install_entry, fire_due_entries and
\* recompute_all_after_skew of scheduler.rs).
THEOREM NothingFiresTwice ==
  ASSUME Deletable = {}, Jumps \subseteq Nat
  PROVE  Spec => []NoDoubleFire
<1>1. Init => OnceInv
  <2> SUFFICES ASSUME Init PROVE OnceInv
    OBVIOUS
  <2>1. CurrentInv
    BY InitInv, InitTypes DEF SoundInv, CurrentInv
  <2>2. /\ Live = {} /\ pc = "top" /\ outbox = <<>> /\ fires = <<>> /\ wall = 0
        /\ persisted \in [Crons -> {None, 0}]
        /\ \A c \in Crons, t \in Time : handled[c][t] = 0
    BY DEF Init, Live
  <2>3. \A i : i \notin 1..Len(outbox) /\ i \notin 1..Len(fires)
    BY <2>2, EmptySeq
  <2>4. PastInv /\ AheadInv
    BY <2>2, <2>3 DEF PastInv, WatermarksPast, PassPast, AheadInv
  <2>5. OutboxInv
    BY <2>3 DEF OutboxInv, Apart
  <2>6. HandledInv /\ NoDoubleFire
    BY <2>2 DEF HandledInv, NoDoubleFire
  <2> QED
    BY <2>1, <2>4, <2>5, <2>6 DEF OnceInv
<1>2. OnceInv /\ [Next]_vars => OnceInv'
  <2>1. ASSUME OnceInv, Next PROVE OnceInv'
    <3>1. LoopTypes /\ Inv /\ NodesInv /\ BackoffFloor /\ FiresOnlyCurrentNode /\ PastInv
          /\ AheadInv /\ OutboxInv /\ HandledInv /\ NoDoubleFire
      BY <2>1 DEF OnceInv, CurrentInv, SoundInv
    <3>2. CurrentInv'
      BY <2>1, <3>1, InvStep, TypesStep, FloorStep, NodesStep, CurrentStep DEF SoundInv, CurrentInv
    <3>3. PastInv'
      BY <2>1, <3>1, WatermarksStep, PassPastStep DEF PastInv
    <3> QED
      BY <2>1, <3>1, <3>2, <3>3, AheadStep, OutboxStep, HandledStep, OnceStep DEF OnceInv
  <2>2. ASSUME OnceInv, UNCHANGED vars PROVE OnceInv'
    <3>1. CurrentInv'
      <4>1. LoopTypes' /\ Inv'
        BY <2>2, TypesStep, InvStep DEF OnceInv, CurrentInv, SoundInv
      <4>2. BackoffFloor' /\ NodesInv' /\ FiresOnlyCurrentNode'
        BY <2>2 DEF OnceInv, CurrentInv, SoundInv, BackoffFloor, Live, NodesInv,
           FiresOnlyCurrentNode, vars
      <4> QED
        BY <4>1, <4>2 DEF CurrentInv, SoundInv
    <3>2. PastInv' /\ AheadInv' /\ OutboxInv' /\ HandledInv' /\ NoDoubleFire'
      BY <2>2 DEF OnceInv, PastInv, WatermarksPast, PassPast, AheadInv, OutboxInv, Apart, HandledInv,
         NoDoubleFire, PassOf, Live, vars
    <3> QED
      BY <3>1, <3>2 DEF OnceInv
  <2> QED
    BY <2>1, <2>2
<1>3. OnceInv => NoDoubleFire
  BY DEF OnceInv
<1> QED
  BY <1>1, <1>2, <1>3, PTL DEF Spec

-----------------------------------------------------------------------------
(* No tick is lost *)

\* The clock only moves with the monotonic one, nobody reports a failure, and the
\* ticks of a schedule up to the end of time fit one catch-up.
Undisturbed ==
  /\ Jumps = {} /\ Backoffs = {}
  /\ \A k \in Configs : Cardinality(k.spec \cap Time) < MAX_CATCHUP

\* Then there is no skew to repair and no backoff to wait for.
QuietInv ==
  /\ drift = 0 /\ task.kind # "skew"
  /\ \A c \in Live : entries[c].backoff = NoBackoff

\* The entry e waits for the first tick after its watermark.
Waits(e) == \A t \in e.spec : t > e.last => e.next # None /\ e.next <= t

WaitsInv == \A c \in Live : Waits(entries[c])

\* An undisturbed loop re-arms entries at the end of firing passes and
\* installations, for the first tick after the pass's reading.
LEMMA QuietRearms ==
  ASSUME LoopTypes, Inv, PastInv, QuietInv, FireDone \/ InstallDone
  PROVE  \E e \in Entry :
           /\ task.id \in Crons /\ task.now \in Nat /\ pc = "emit"
           /\ entries'[task.id] = e /\ Live' = Live \cup {task.id}
           /\ \A d \in Crons : d # task.id => entries'[d] = entries[d]
           /\ e.last = task.now /\ e.backoff = NoBackoff /\ Waits(e)
           /\ FireDone => /\ task.id \in Live /\ e.spec = entries[task.id].spec
                          /\ e.mode = entries[task.id].mode
                          /\ e.throttle = entries[task.id].throttle
           /\ InstallDone => /\ e.spec = task.config.spec /\ e.mode = task.config.mode
                             /\ e.throttle = task.config.throttle
<1>1. PICK c : c = task.id
  OBVIOUS
<1>2. PICK n : n = task.now
  OBVIOUS
<1>3. PICK e : /\ Rearms(c, e, n) /\ e.backoff = NoBackoff
               /\ FireDone => /\ entries[c] # None /\ e.spec = entries[c].spec
                              /\ e.mode = entries[c].mode /\ e.throttle = entries[c].throttle
               /\ InstallDone => /\ e.spec = task.config.spec /\ e.mode = task.config.mode
                                 /\ e.throttle = task.config.throttle
  <2>1. CASE FireDone
    <3>1. PICK e : /\ Rearms(c, e, n) /\ entries[c] # None
                   /\ e.spec = entries[c].spec /\ e.mode = entries[c].mode
                   /\ e.throttle = entries[c].throttle /\ e.backoff = entries[c].backoff
      BY <1>1, <1>2, <2>1, FireRearms DEF LoopTypes
    <3>2. c \in Live
      BY <3>1 DEF Rearms, Live
    <3>3. e.backoff = NoBackoff
      BY <3>1, <3>2 DEF QuietInv
    <3>4. ~InstallDone
      BY <2>1 DEF FireDone, InstallDone
    <3> QED
      BY <3>1, <3>3, <3>4
  <2>2. CASE InstallDone
    <3>1. PICK e : /\ Rearms(c, e, n) /\ e.spec = task.config.spec /\ e.mode = task.config.mode
                   /\ e.throttle = task.config.throttle /\ e.backoff = PreservedBackoff(entries, c)
      BY <1>1, <1>2, <2>2, InstallRearms DEF LoopTypes
    <3>2. e.backoff = NoBackoff
      BY <3>1 DEF PreservedBackoff, QuietInv, Live, Rearms
    <3>3. ~FireDone
      BY <2>2 DEF FireDone, InstallDone
    <3> QED
      BY <3>1, <3>2, <3>3
  <2> QED
    BY <2>1, <2>2
<1>4. /\ c \in Crons /\ n \in Nat /\ pc = "emit" /\ entries'[c].last = n
      /\ Live' = Live \cup {c} /\ \A d \in Crons : d # c => entries'[d] = entries[d]
  BY <1>1, <1>2, FireWrites, InstallWrites DEF Live
<1>5. e \in Entry /\ entries'[c] = e
  BY <1>3, RearmsWrites DEF LoopTypes
<1>6. Waits(e)
  <2>1. PICK S \in SUBSET Nat : S = e.spec
    BY <1>5, EntryIs
  <2>2. PICK x : x = NextEligibleFire(S, n, NoBackoff)
    OBVIOUS
  <2>3. x = NextAfter(S, n)
    <3>1. NoBackoff \in BackoffState /\ RetryAfter(NoBackoff) = None
      BY NoRetry
    <3> QED
      BY <1>4, <2>2, <3>1, EligibleIs
  <2>4. e.next = x /\ e.last = n
    BY <1>3, <1>4, <1>5, <2>1, <2>2 DEF Rearms
  <2>5. \/ x = None /\ \A t \in S : t <= n
        \/ x \in Nat /\ \A t \in S : t > n => x <= t
    BY <1>4, <2>3, NextAfterIs
  <2>6. \A t \in S : t > n => x # None /\ x <= t
    <3>1. \A t \in S : t \in Nat
      OBVIOUS
    <3> QED
      BY <1>4, <2>5, <3>1, CatchupAssumption
  <2> QED
    BY <2>1, <2>4, <2>6 DEF Waits
<1>7. FireDone => c \in Live
  BY <1>3, <1>4 DEF Live
<1> QED
  BY <1>1, <1>2, <1>3, <1>4, <1>5, <1>6, <1>7

\* Nothing disturbs an undisturbed loop.
LEMMA UndisturbedStep ==
  ASSUME Undisturbed, LoopTypes, Inv, PastInv, QuietInv, WaitsInv, Next
  PROVE  QuietInv' /\ WaitsInv'
<1> USE DEF clock, table, channel, history
<1>0. TaskTypes /\ drift = 0 /\ SkewThreshold \in Nat
  BY LoopAssumption DEF LoopTypes, QuietInv
<1>1. ASSUME UNCHANGED entries PROVE WaitsInv' /\ \A c \in Live' : entries'[c].backoff = NoBackoff
  BY <1>1 DEF WaitsInv, QuietInv, Live
<1>2. ASSUME UNCHANGED <<entries, drift>>, task' = task \/ task'.kind # "skew"
      PROVE  QuietInv' /\ WaitsInv'
  BY <1>1, <1>2 DEF QuietInv
<1>3. NoTask.kind = "none"
  BY DEF NoTask
<1>4. CASE FireDone \/ InstallDone
  <2>1. PICK e \in Entry :
           /\ task.id \in Crons
           /\ entries'[task.id] = e /\ Live' = Live \cup {task.id}
           /\ \A d \in Crons : d # task.id => entries'[d] = entries[d]
           /\ e.backoff = NoBackoff /\ Waits(e)
    BY <1>4, QuietRearms
  <2>2. \A d \in Live' : d = task.id \/ (d \in Live /\ d \in Crons /\ entries'[d] = entries[d])
    BY <2>1 DEF Live
  <2>3. WaitsInv' /\ \A d \in Live' : entries'[d].backoff = NoBackoff
    BY <2>1, <2>2 DEF WaitsInv, QuietInv
  <2>4. task'.kind \in {task.kind, "none"} /\ drift' = drift
    BY <1>0, <1>3, <1>4 DEF FireDone, InstallDone, TaskTypes
  <2> QED
    BY <2>3, <2>4 DEF QuietInv
<1>5. CASE SkewDone
  BY <1>5 DEF SkewDone, QuietInv
<1>6. CASE SkewTick
  <2>1. ~(drift > SkewThreshold \/ -drift > SkewThreshold)
    BY <1>0
  <2> QED
    BY <1>2, <1>6, <2>1 DEF SkewTick
<1>7. ASSUME NEW c \in Crons, NEW b \in Backoffs PROVE FALSE
  BY <1>7 DEF Undisturbed
<1>8. ASSUME NEW d \in Jumps PROVE FALSE
  BY <1>8 DEF Undisturbed
<1>9. ASSUME NEW c \in Deletable, Delete(c) PROVE QuietInv' /\ WaitsInv'
  <2>1. entries' = [entries EXCEPT ![c] = None] /\ DOMAIN entries = Crons
    BY <1>9 DEF Delete, DeleteEntries, LoopTypes, TableTypes
  <2>2. \A d \in Live' : d \in Live /\ entries'[d] = entries[d]
    BY <2>1 DEF Live
  <2>3. UNCHANGED <<drift, task>>
    BY <1>9 DEF Delete
  <2> QED
    BY <2>2, <2>3 DEF QuietInv, WaitsInv
<1>10. CASE Wake \/ PassEnds \/ SendFails
  <2>1. task' = task \/ task'.kind # "skew"
    BY <1>3, <1>10 DEF Wake, PassEnds, SendFails, NoTask
  <2>2. UNCHANGED <<entries, drift>>
    BY <1>10 DEF Wake, PassEnds, SendFails
  <2> QED
    BY <1>2, <2>1, <2>2
<1>11. CASE PopDue
  <2>1. task'.kind = task.kind /\ UNCHANGED <<entries, drift>>
    BY <1>0, <1>11 DEF PopDue, TaskTypes
  <2> QED
    BY <1>1, <2>1 DEF QuietInv
<1>12. ASSUME NEW c \in Crons, NEW k \in Configs, Upsert(c, k) PROVE QuietInv' /\ WaitsInv'
  <2>1. task'.kind = "install" /\ UNCHANGED <<entries, drift>>
    BY <1>12 DEF Upsert, NoTask
  <2> QED
    BY <1>2, <2>1
<1>13. CASE PeekAndSleep \/ Send \/ Poke \/ Shutdown \/ Tick \/ Receive \/ CloseReceiver
  BY <1>2, <1>13 DEF PeekAndSleep, Send, Poke, Shutdown, Tick, Receive, CloseReceiver
<1> QED
  BY <1>4, <1>5, <1>6, <1>7, <1>8, <1>9, <1>10, <1>11, <1>12, <1>13
     DEF Next, Loop, Commands, Environment

\* A gap of an undisturbed schedule that ends before the end of time is within
\* the cap.
LEMMA SmallGap ==
  ASSUME Undisturbed, NEW k \in Configs, NEW a \in Nat, NEW e \in Time
  PROVE  \A md, th : md # "skip" /\ th = 0 => AllKept(k.spec, md, th, a, e)
<1>1. PICK S \in SUBSET Nat : S = k.spec
  BY LoopAssumption
<1>2. PICK G : G = {t \in S : a < t /\ t <= e}
  OBVIOUS
<1>3. G \subseteq S \cap Time
  <2>1. e \in Nat /\ e <= MaxTime /\ MaxTime \in Nat
    BY LoopAssumption DEF Time
  <2>2. \A t \in G : t \in Nat /\ t \in S /\ t <= e
    BY <1>2
  <2>3. \A t \in G : t \in S /\ t \in 0..MaxTime
    BY <2>1, <2>2
  <2> QED
    BY <2>3 DEF Time
<1>4. IsFiniteSet(Time)
  BY LoopAssumption, FS_Interval DEF Time
<1>5. PICK W : W = S \cap Time
  OBVIOUS
<1>6. IsFiniteSet(W)
  BY <1>4, <1>5, FS_Subset
<1>7. Cardinality(G) <= Cardinality(W) /\ Cardinality(G) \in Nat /\ Cardinality(W) \in Nat
  <2>1. IsFiniteSet(G)
    BY <1>3, <1>5, <1>6, FS_Subset
  <2> QED
    BY <1>3, <1>5, <1>6, <2>1, FS_Subset, FS_CardinalityType
<1>8. Cardinality(W) < MAX_CATCHUP
  BY <1>1, <1>5 DEF Undisturbed
<1>9. Cardinality(G) < MAX_CATCHUP
  BY <1>7, <1>8, CatchupAssumption
<1> QED
  BY <1>1, <1>2, <1>9 DEF AllKept

\* The tick t of c was emitted or waits to be.
Sent(c, t) ==
  \/ handled[c][t] > 0
  \/ \E p \in 1..Len(outbox) : outbox[p].id = c /\ t \in outbox[p].ticks

\* What a cron with the fields of e owes for its schedule after `from' and not
\* after `to' was emitted or waits to be.
Covered(c, e, from, to) ==
  e.mode # "skip" /\ e.throttle = 0 =>
    \A t \in e.spec \cap Time : from < t /\ t <= to => Sent(c, t)

\* A firing pass covers the gap behind the watermark, an installation the gap
\* behind the instant it owes ticks from.
CoverInv ==
  open /\ pc = "emit" =>
    /\ task.kind = "fire" => Covered(task.id, entries[task.id], entries[task.id].last, task.now)
    /\ task.kind = "install" => Covered(task.id, task.config, since[task.id], task.now)

\* A send loses nothing that is due.
LEMMA SendKeepsSent ==
  ASSUME LoopTypes, Send, NEW c \in Crons, NEW t \in Time, Sent(c, t)
  PROVE  Sent(c, t)'
<1>1. PICK ev : ev = Head(outbox)
  OBVIOUS
<1>2. /\ outbox # <<>> /\ ev \in Event /\ outbox' = Tail(outbox)
      /\ \A d \in Crons : d # ev.id => handled'[d] = handled[d]
      /\ \A x \in Time : handled'[ev.id][x] = IF x \in ev.ticks /\ handled[ev.id][x] < 2
                                              THEN handled[ev.id][x] + 1 ELSE handled[ev.id][x]
  BY <1>1, SendMoves
<1>3. /\ handled[c][t] \in Nat /\ outbox \in Seq(Event)
  BY DEF LoopTypes, FlowTypes
<1>4. /\ Len(outbox) \in Nat /\ ev = outbox[1] /\ Len(outbox') = Len(outbox) - 1
      /\ \A p \in 1..Len(outbox') : outbox'[p] = outbox[p + 1]
  BY <1>1, <1>2, <1>3, Rest
<1>5. CASE handled[c][t] > 0
  <2>1. handled'[c][t] > 0
    BY <1>2, <1>3, <1>5
  <2> QED
    BY <2>1 DEF Sent
<1>6. CASE c = ev.id /\ t \in ev.ticks
  <2>1. handled'[c][t] > 0
    BY <1>2, <1>3, <1>6
  <2> QED
    BY <2>1 DEF Sent
<1>7. CASE \E p \in 1..Len(outbox) : p # 1 /\ outbox[p].id = c /\ t \in outbox[p].ticks
  <2>1. PICK p \in 1..Len(outbox) : p # 1 /\ outbox[p].id = c /\ t \in outbox[p].ticks
    BY <1>7
  <2>2. p - 1 \in 1..Len(outbox') /\ (p - 1) + 1 = p
    BY <1>4, <2>1
  <2>3. outbox'[p - 1] = outbox[p]
    BY <1>4, <2>2
  <2> QED
    BY <2>1, <2>2, <2>3 DEF Sent
<1> QED
  BY <1>4, <1>5, <1>6, <1>7 DEF Sent

\* A pass covers its gap from the start to its last send.
LEMMA CoverStep ==
  ASSUME Undisturbed, LoopTypes, Inv, PastInv, QuietInv, WaitsInv, CoverInv, Next
  PROVE  CoverInv'
<1> USE DEF clock, table, channel, history
<1>0. /\ TaskTypes /\ FlowTypes /\ wall \in Nat /\ wall \in Time
      /\ \A c \in Live : c \in Crons /\ entries[c].last \in Nat
  BY LiveLasts, LoopAssumption DEF LoopTypes, ClockTypes, Time
<1>1. ASSUME pc' # "emit" \/ ~open' PROVE CoverInv'
  BY <1>1 DEF CoverInv
<1>2. ASSUME UNCHANGED <<pc, task, outbox, entries, since, handled>>, open' => open PROVE CoverInv'
  BY <1>2 DEF CoverInv, Covered, Sent
<1>3. CASE Send
  <2>1. pc = "emit" /\ open /\ UNCHANGED <<pc, task, entries, since, open>>
    BY <1>3 DEF Send
  <2>2. PICK c : c = task.id
    OBVIOUS
  <2>3. PICK e : e = entries[c]
    OBVIOUS
  <2>4. PICK k : k = task.config
    OBVIOUS
  <2>5. task.kind \in {"fire", "install"} => c \in Crons
    BY <1>0, <2>1, <2>2 DEF TaskTypes
  <2>6. task.kind = "fire" => Covered(c, e, e.last, task.now)
    BY <2>1, <2>2, <2>3 DEF CoverInv
  <2>7. task.kind = "install" => Covered(c, k, since[c], task.now)
    BY <2>1, <2>2, <2>4 DEF CoverInv
  <2>8. task.kind \in {"fire", "install"} => \A t \in Time : Sent(c, t) => Sent(c, t)'
    BY <1>3, <2>5, SendKeepsSent
  <2>9. task.kind = "fire" => Covered(c, e, e.last, task.now)'
    BY <2>1, <2>3, <2>6, <2>8 DEF Covered
  <2>10. task.kind = "install" => Covered(c, k, since[c], task.now)'
    BY <2>1, <2>7, <2>8 DEF Covered
  <2> QED
    BY <2>1, <2>2, <2>3, <2>4, <2>9, <2>10 DEF CoverInv
<1>4. CASE PopDue
  <2>1. PICK top \in LiveNodes(entries, heap) :
           /\ IsNext(entries, heap, top) /\ top.at <= task.now
           /\ task' = [task EXCEPT !.id = top.id, !.at = top.at]
           /\ \A p \in 1..Len(outbox') : outbox'[p].id = top.id
           /\ AllKept(entries[top.id].spec, entries[top.id].mode, entries[top.id].throttle,
                      top.at, task.now) =>
                \A t \in entries[top.id].spec :
                  top.at <= t /\ t <= task.now => \E p \in 1..Len(outbox') : t \in outbox'[p].ticks
    BY <1>4, PoppedOutbox
  <2>2. PICK c \in Crons : c = top.id
    BY <2>1, LiveNodeTypes DEF LoopTypes
  <2>3. /\ top.at \in Nat /\ c \in Live /\ top \in BagToSet(heap)
        /\ entries[c].version = top.version
    BY <2>1, <2>2, LiveNodeTypes DEF LoopTypes, Live
  <2>4. PICK e : e = entries[c]
    OBVIOUS
  <2>5. e \in Entry /\ Waits(e)
    BY <2>2, <2>3, <2>4, LiveEntry DEF WaitsInv, LoopTypes, Live
  <2>6. /\ task'.id = c /\ task'.now = task.now /\ task'.kind = "fire" /\ pc = "fire"
        /\ task.now \in Nat
        /\ UNCHANGED <<entries, open>>
    BY <1>0, <1>4, <2>1, <2>2 DEF PopDue, TaskTypes
  <2>7. task.now \in Time
    <3>1. task.now <= wall
      BY <2>6 DEF PastInv, PassPast
    <3> QED
      BY <1>0, <2>6, <3>1, LoopAssumption DEF Time
  <2>8. open /\ e.next # None => top.at <= e.next
    <3> SUFFICES ASSUME open, e.next # None PROVE top.at <= e.next
      OBVIOUS
    <3>1. PICK n : n = [at |-> e.next, id |-> c, version |-> e.version]
      OBVIOUS
    <3>2. n \in BagToSet(heap)
      BY <2>3, <2>4, <2>6, <3>1 DEF Inv, NoLiveEntryForgotten
    <3>3. n \in LiveNodes(entries, heap)
      BY <2>3, <2>4, <3>1, <3>2 DEF LiveNodes, IsLive, Live
    <3>4. n.id = top.id /\ n.at = e.next
      BY <2>2, <3>1
    <3>5. n = top \/ Before(top, n)
      BY <2>1, <3>3 DEF IsNext
    <3>6. e.next \in Nat /\ top.id \in Nat
      BY <2>2, <2>5, CronsAssumption DEF Entry
    <3> QED
      BY <2>3, <3>4, <3>5, <3>6 DEF Before
  <2>9. PICK k \in Configs : k.spec = e.spec
    BY <2>5 DEF Entry
  <2>10. ASSUME e.mode # "skip", e.throttle = 0, open, NEW t \in e.spec, e.last < t, t <= task.now
         PROVE  Sent(c, t)'
    <3>1. AllKept(e.spec, e.mode, e.throttle, top.at, task.now)
      <4>1. top.at \in Nat /\ task.now \in Time
        BY <2>3, <2>7
      <4>2. AllKept(k.spec, e.mode, e.throttle, top.at, task.now)
        BY <2>10, <4>1, SmallGap
      <4> QED
        BY <2>9, <4>2
    <3>2. e.next # None /\ e.next <= t /\ e.next \in Nat
      BY <2>5, <2>10 DEF Waits, Entry
    <3>3. t \in Nat
      BY <2>5, <2>10, EntryIs
    <3>4. top.at <= t
      BY <2>3, <2>8, <2>10, <3>2, <3>3
    <3>5. PICK p \in 1..Len(outbox') : t \in outbox'[p].ticks
      BY <2>1, <2>2, <2>4, <2>10, <3>1, <3>4
    <3> QED
      BY <2>1, <2>2, <3>5 DEF Sent
  <2>11. open' => Covered(c, e, e.last, task.now)'
    BY <2>4, <2>6, <2>10 DEF Covered
  <2>12. task'.kind # "install"
    BY <2>6
  <2> QED
    BY <2>4, <2>6, <2>11, <2>12 DEF CoverInv
<1>5. ASSUME NEW c \in Crons, NEW k \in Configs, Upsert(c, k) PROVE CoverInv'
  <2>1. /\ \A p \in 1..Len(outbox') : outbox'[p].id = c
        /\ persisted[c] # None /\ AllKept(k.spec, k.mode, k.throttle, persisted[c], wall) =>
             Covers(outbox', k.spec, persisted[c], wall)
    BY <1>5, InstallEvents
  <2>2. /\ task' = [NoTask EXCEPT !.kind = "install", !.id = c, !.now = wall, !.at = persisted[c],
                                  !.config = k]
        /\ pc' = "emit"
        /\ since' = [since EXCEPT ![c] = IF persisted[c] = None THEN wall ELSE persisted[c]]
    BY <1>5 DEF Upsert
  <2>3. task'.kind = "install" /\ task'.id = c /\ task'.now = wall /\ task'.config = k
    BY <2>2 DEF NoTask
  <2>4. PICK s : s = IF persisted[c] = None THEN wall ELSE persisted[c]
    OBVIOUS
  <2>5. since'[c] = s /\ s \in Nat
    BY <1>0, <2>2, <2>4 DEF FlowTypes
  <2>6. ASSUME k.mode # "skip", k.throttle = 0, NEW t \in k.spec \cap Time, s < t, t <= wall
        PROVE  Sent(c, t)'
    <3>1. t \in Nat
      BY LoopAssumption DEF Time
    <3>2. persisted[c] # None /\ s = persisted[c]
      BY <1>0, <2>4, <2>6, <3>1
    <3>3. AllKept(k.spec, k.mode, k.throttle, s, wall)
      BY <1>0, <2>5, <2>6, SmallGap
    <3>4. Covers(outbox', k.spec, s, wall)
      BY <2>1, <3>2, <3>3
    <3>5. PICK p \in 1..Len(outbox') : t \in outbox'[p].ticks
      BY <2>6, <3>4 DEF Covers
    <3> QED
      BY <2>1, <3>5 DEF Sent
  <2>7. \A w : w = wall => (k.mode # "skip" /\ k.throttle = 0 =>
                              \A t \in k.spec \cap Time : s < t /\ t <= w => Sent(c, t)')
    BY <2>6
  <2>8. Covered(c, k, since[c], task.now)'
    BY <2>3, <2>5, <2>7 DEF Covered
  <2> QED
    BY <2>2, <2>3, <2>8 DEF CoverInv
<1>6. CASE SkewTick \/ SkewDone
  <2>1. pc' # "emit" \/ task'.kind = "skew"
    BY <1>6 DEF SkewTick, SkewDone, NoTask
  <2> QED
    BY <2>1 DEF CoverInv
<1>7. CASE SendFails
  BY <1>1, <1>7 DEF SendFails
<1>8. CASE \/ PeekAndSleep \/ Wake \/ PassEnds \/ FireDone \/ InstallDone \/ Poke \/ Shutdown
           \/ (\E c \in Deletable : Delete(c))
           \/ \E c \in Crons, b \in Backoffs : UpdateBackoff(c, b)
  <2>1. pc' # "emit"
    BY <1>8 DEF PeekAndSleep, Wake, PassEnds, FireDone, InstallDone, Poke, Shutdown, Delete,
       UpdateBackoff
  <2> QED
    BY <1>1, <2>1
<1>9. CASE Environment
  BY <1>2, <1>9 DEF Environment, Tick, Jump, Receive, CloseReceiver
<1> QED
  BY <1>3, <1>4, <1>5, <1>6, <1>7, <1>8, <1>9 DEF Next, Loop, Commands

\* Only a pass that has emitted its gap moves a watermark over it.
LEMMA LostStep ==
  ASSUME Undisturbed, LoopTypes, Inv, PastInv, QuietInv, CoverInv, NoTickLost, Next
  PROVE  NoTickLost'
<1> USE DEF clock, table, channel, history
<1>0. /\ TaskTypes /\ FlowTypes
      /\ \A c \in Live : c \in Crons /\ entries[c].last \in Nat
  BY LiveLasts DEF LoopTypes
<1> DEFINE Kept(c) ==
      entries[c].mode # "skip" /\ entries[c].throttle = 0
        /\ ~(task.kind = "install" /\ task.id = c) =>
          \A t \in entries[c].spec \cap Time :
            since[c] < t /\ t <= entries[c].last => handled[c][t] > 0
<1>1. open => \A c \in Live : Kept(c)
  BY DEF NoTickLost
<1>2. (open' => \A c \in Live' : Kept(c)') => NoTickLost'
  BY DEF NoTickLost
<1>3. ASSUME UNCHANGED <<entries, since>>, open' => open,
             \A c \in Crons : task.kind = "install" /\ task.id = c =>
                                task'.kind = "install" /\ task'.id = c,
             \A c \in Crons, t \in Time : handled[c][t] > 0 => handled'[c][t] > 0
      PROVE  NoTickLost'
  BY <1>0, <1>1, <1>2, <1>3 DEF Live
<1>4. ASSUME ~open' PROVE NoTickLost'
  BY <1>4 DEF NoTickLost
<1>5. CASE FireDone \/ InstallDone
  <2>1. PICK c : c = task.id
    OBVIOUS
  <2>2. PICK n : n = task.now
    OBVIOUS
  <2>3. PICK e \in Entry :
           /\ c \in Crons /\ n \in Nat /\ pc = "emit"
           /\ entries'[c] = e /\ Live' = Live \cup {c}
           /\ \A d \in Crons : d # c => entries'[d] = entries[d]
           /\ e.last = n
           /\ FireDone => /\ c \in Live /\ e.spec = entries[c].spec
                          /\ e.mode = entries[c].mode /\ e.throttle = entries[c].throttle
           /\ InstallDone => /\ e.spec = task.config.spec /\ e.mode = task.config.mode
                             /\ e.throttle = task.config.throttle
    BY <1>5, <2>1, <2>2, QuietRearms
  <2>4. /\ UNCHANGED <<open, since, handled>> /\ outbox = <<>>
        /\ task.kind \in {"fire", "install"}
        /\ FireDone => task.kind = "fire"
        /\ InstallDone => task.kind = "install"
    BY <1>5 DEF FireDone, InstallDone
  <2>5. \A d, t : Sent(d, t) => handled[d][t] > 0
    <3>1. \A p : p \notin 1..Len(outbox)
      BY <2>4, EmptySeq
    <3> QED
      BY <3>1 DEF Sent
  <2>6. ASSUME open, NEW t \in e.spec \cap Time, e.mode # "skip", e.throttle = 0,
               since[c] < t, t <= n
        PROVE  handled[c][t] > 0
    <3>0. t \in Nat
      BY LoopAssumption DEF Time
    <3>1. CASE InstallDone
      <4>1. Covered(c, task.config, since[c], n)
        BY <2>1, <2>2, <2>3, <2>4, <2>6, <3>1 DEF CoverInv
      <4>2. Sent(c, t)
        BY <2>3, <2>6, <3>1, <4>1 DEF Covered
      <4> QED
        BY <2>5, <4>2
    <3>2. CASE FireDone /\ t <= entries[c].last
      <4>1. Kept(c)
        BY <1>1, <2>3, <2>6, <3>2
      <4> QED
        BY <2>3, <2>4, <2>6, <3>2, <4>1
    <3>3. CASE FireDone /\ ~(t <= entries[c].last)
      <4>1. Covered(c, entries[c], entries[c].last, n)
        BY <2>1, <2>2, <2>3, <2>4, <2>6, <3>3 DEF CoverInv
      <4>2. entries[c].last < t
        BY <1>0, <2>3, <3>0, <3>3
      <4>3. Sent(c, t)
        BY <2>3, <2>6, <3>3, <4>1, <4>2 DEF Covered
      <4> QED
        BY <2>5, <4>3
    <3> QED
      BY <1>5, <3>1, <3>2, <3>3
  <2>7. ASSUME open, NEW d \in Live' PROVE Kept(d)'
    <3>1. CASE d = c
      BY <2>3, <2>4, <2>6, <2>7, <3>1
    <3>2. CASE d # c
      <4>1. d \in Live /\ d \in Crons /\ entries'[d] = entries[d]
        BY <1>0, <2>3, <3>2
      <4>2. ~(task.kind = "install" /\ task.id = d)
        BY <2>1, <3>2
      <4> QED
        BY <1>1, <2>4, <2>7, <4>1, <4>2
    <3> QED
      BY <3>1, <3>2
  <2> QED
    BY <1>2, <2>4, <2>7
<1>6. CASE SkewDone
  BY <1>6 DEF SkewDone, QuietInv
<1>7. CASE Send
  <2>1. PICK ev : ev = Head(outbox)
    OBVIOUS
  <2>2. /\ \A c \in Crons : c # ev.id => handled'[c] = handled[c]
        /\ \A t \in Time : handled'[ev.id][t] = IF t \in ev.ticks /\ handled[ev.id][t] < 2
                                                THEN handled[ev.id][t] + 1 ELSE handled[ev.id][t]
    BY <1>7, <2>1, SendMoves
  <2>3. ASSUME NEW c \in Crons, NEW t \in Time PROVE handled[c][t] \in Nat
    <3>1. handled[c] \in [Time -> 0..2]
      BY <1>0 DEF FlowTypes
    <3>2. handled[c][t] \in 0..2
      BY <3>1
    <3> QED
      BY <3>2
  <2>4. \A c \in Crons, t \in Time : handled[c][t] > 0 => handled'[c][t] > 0
    BY <2>2, <2>3
  <2>5. UNCHANGED <<task, entries, since, open>>
    BY <1>7 DEF Send
  <2> QED
    BY <1>3, <2>4, <2>5
<1>8. CASE SendFails
  BY <1>4, <1>8 DEF SendFails
<1>9. ASSUME NEW c \in Crons, NEW k \in Configs, Upsert(c, k) PROVE NoTickLost'
  <2>1. /\ task' = [NoTask EXCEPT !.kind = "install", !.id = c, !.now = wall, !.at = persisted[c],
                                  !.config = k]
        /\ since' = [since EXCEPT ![c] = IF persisted[c] = None THEN wall ELSE persisted[c]]
        /\ handled' = [handled EXCEPT ![c] = [t \in Time |-> 0]]
        /\ UNCHANGED <<entries, open>> /\ pc = "select"
    BY <1>9 DEF Upsert
  <2>2. task'.kind = "install" /\ task'.id = c
    BY <2>1 DEF NoTask
  <2>3. task.kind = "none"
    BY <1>0, <2>1 DEF TaskTypes, NoTask
  <2>4. \A d \in Crons : d # c => since'[d] = since[d] /\ handled'[d] = handled[d]
    BY <1>0, <2>1 DEF FlowTypes
  <2>5. ASSUME open', NEW d \in Live' PROVE Kept(d)'
    <3>1. CASE d = c
      BY <2>2, <3>1
    <3>2. CASE d # c
      <4>1. d \in Live /\ d \in Crons
        BY <1>0, <2>1 DEF Live
      <4> QED
        BY <1>1, <2>1, <2>3, <2>4, <2>5, <3>2, <4>1
    <3> QED
      BY <3>1, <3>2
  <2> QED
    BY <1>2, <2>5
<1>10. ASSUME NEW c \in Deletable, Delete(c) PROVE NoTickLost'
  <2>1. entries' = [entries EXCEPT ![c] = None] /\ DOMAIN entries = Crons
    BY <1>10 DEF Delete, DeleteEntries, LoopTypes, TableTypes
  <2>2. \A d \in Live' : d \in Live /\ entries'[d] = entries[d]
    BY <2>1 DEF Live
  <2>3. UNCHANGED <<task, since, handled, open>>
    BY <1>10 DEF Delete
  <2> QED
    BY <1>1, <1>2, <2>2, <2>3
<1>11. ASSUME NEW c \in Crons, NEW b \in Backoffs PROVE FALSE
  BY <1>11 DEF Undisturbed
<1>12. CASE Wake \/ PassEnds \/ PopDue \/ SkewTick
  <2>1. UNCHANGED <<entries, since, open, handled>>
    BY <1>12 DEF Wake, PassEnds, PopDue, SkewTick
  <2>2. pc \in {"select", "fire"}
    BY <1>12 DEF Wake, PassEnds, PopDue, SkewTick
  <2>3. task.kind # "install"
    BY <1>0, <2>2 DEF TaskTypes, NoTask
  <2> QED
    BY <1>3, <2>1, <2>3
<1>13. CASE PeekAndSleep \/ Poke \/ Shutdown \/ Environment
  <2>1. UNCHANGED <<entries, since, task, handled>> /\ (open' => open)
    BY <1>13 DEF PeekAndSleep, Poke, Shutdown, Environment, Tick, Jump, Receive, CloseReceiver
  <2> QED
    BY <1>3, <2>1
<1> QED
  BY <1>5, <1>6, <1>7, <1>8, <1>9, <1>10, <1>11, <1>12, <1>13 DEF Next, Loop, Commands

LostInv == LoopTypes /\ Inv /\ PastInv /\ QuietInv /\ WaitsInv /\ CoverInv /\ NoTickLost

\* While the clocks agree, nobody reports a failure and no gap exceeds what one
\* catch-up resolves, no tick of a coalesce or an unthrottled replay cron is
\* lost between the watermark of its installation and its current one, however
\* late the loop wakes, however long its sends block, and whatever is edited or
\* deleted in between (install_entry and fire_due_entries of scheduler.rs).
THEOREM NothingIsLost ==
  ASSUME Undisturbed
  PROVE  Spec => []NoTickLost
<1>1. Init => LostInv
  <2> SUFFICES ASSUME Init PROVE LostInv
    OBVIOUS
  <2>1. LoopTypes /\ Inv
    BY InitInv, InitTypes
  <2>2. /\ Live = {} /\ pc = "top" /\ outbox = <<>> /\ fires = <<>> /\ wall = 0 /\ drift = 0
        /\ task = NoTask /\ persisted \in [Crons -> {None, 0}]
    BY DEF Init, Live
  <2>3. \A i : i \notin 1..Len(fires)
    BY <2>2, EmptySeq
  <2>4. PastInv
    BY <2>2, <2>3 DEF PastInv, WatermarksPast, PassPast
  <2>5. task.kind = "none"
    BY <2>2 DEF NoTask
  <2>6. QuietInv /\ WaitsInv /\ CoverInv /\ NoTickLost
    BY <2>2, <2>5 DEF QuietInv, WaitsInv, CoverInv, NoTickLost
  <2> QED
    BY <2>1, <2>4, <2>6 DEF LostInv
<1>2. LostInv /\ [Next]_vars => LostInv'
  <2>1. ASSUME LostInv, Next PROVE LostInv'
    <3>1. /\ LoopTypes /\ Inv /\ PastInv /\ QuietInv /\ WaitsInv /\ CoverInv /\ NoTickLost
          /\ Jumps \subseteq Nat
      BY <2>1 DEF LostInv, Undisturbed
    <3>2. LoopTypes' /\ Inv'
      BY <2>1, <3>1, InvStep, TypesStep
    <3>3. PastInv'
      BY <2>1, <3>1, WatermarksStep, PassPastStep DEF PastInv
    <3> QED
      BY <2>1, <3>1, <3>2, <3>3, UndisturbedStep, CoverStep, LostStep DEF LostInv
  <2>2. ASSUME LostInv, UNCHANGED vars PROVE LostInv'
    <3>1. LoopTypes' /\ Inv'
      BY <2>2, TypesStep, InvStep DEF LostInv
    <3>2. PastInv' /\ QuietInv' /\ WaitsInv' /\ CoverInv' /\ NoTickLost'
      BY <2>2 DEF LostInv, PastInv, WatermarksPast, PassPast, QuietInv, WaitsInv, Waits, CoverInv,
         Covered, Sent, NoTickLost, Live, vars
    <3> QED
      BY <3>1, <3>2 DEF LostInv
  <2> QED
    BY <2>1, <2>2
<1>3. LostInv => NoTickLost
  BY DEF LostInv
<1> QED
  BY <1>1, <1>2, <1>3, PTL DEF Spec
=============================================================================
