----------------------------- MODULE Tui_proofs -----------------------------
(***************************************************************************)
(* What the terminal UI promises, for any sessions, crons, commands and     *)
(* pumps: the cache of the session source, the session pane, the crons tab, *)
(* the sidebar's highlight, and the config file it shares with the daemon.  *)
(* Each part has a specification and an inductive invariant of its own.     *)
(***************************************************************************)
EXTENDS RpcSource, TuiAttach, CronsTab, TuiSidebar, ConfigFiles, FiniteSetTheorems, SequenceTheorems, NaturalsInduction,
        WellFoundedInduction, TLAPS

-----------------------------------------------------------------------------
(* The session source: RpcSource *)

States == {"none", "open", "archived"}
Cmds == [id : Nat \ {0}, kind : Kinds, row : Rows]
Threads == [at : {"down", "list", "write", "bump", "recv", "run", "stopped"}, batch : Seq(Cmds),
            mutated : BOOLEAN, listed : [Rows -> States] \cup {<<>>}, created : Nat]
Waits == [id : Nat, row : Rows \cup {0}, answer : {"none", "ok", "failed"}]

SourceTypes ==
  /\ rows \in [Rows -> States] /\ cache \in [Rows -> States] /\ uiView \in [Rows -> States]
  /\ moved \in BOOLEAN /\ uiAt \in {"keys", "snapshot", "wait", "quit"}
  /\ awaited \in Waits
  /\ queue \in Seq(Cmds) /\ bg \in Threads /\ presses \in Nat
  /\ done \in Seq(Nat) /\ told \subseteq Rows /\ removed \subseteq Rows
  /\ bg.at = "write" => bg.listed \in [Rows -> States]
  /\ awaited.id # 0 => awaited.row \in Rows
  /\ awaited.answer # "none" => awaited.id # 0

\* A UI that does not take a snapshot just now, and has seen the last generation.
ViewInv == uiAt \in {"keys", "wait"} /\ ~moved /\ bg.at # "bump" => uiView = cache

\* The session is in the list, or somebody has deleted it since.
Known(rs, gone, r) == rs[r] # "none" \/ r \in gone

\* A session that a create has reported, or will report when its refresh is through, is
\* in what the thread has listed so far.
ReportedInv ==
  /\ \A r \in told :
       /\ Known(rows, removed, r) /\ Known(cache, removed, r)
       /\ bg.at = "write" => Known(bg.listed, removed, r)
  /\ awaited.answer = "ok" =>
       /\ Known(rows, removed, awaited.row) /\ Known(cache, removed, awaited.row)
       /\ bg.at = "write" => Known(bg.listed, removed, awaited.row)
  /\ awaited.id # 0 /\ awaited.id = bg.created =>
       /\ Known(rows, removed, awaited.row)
       /\ bg.at = "write" => Known(bg.listed, removed, awaited.row)
       /\ bg.at = "bump" => Known(cache, removed, awaited.row)

\* Commands carry the numbers they were given, oldest first, through channel, batch and
\* daemon; the one awaited is still itself.
Ascending(q) == \A i, j \in 1..Len(q) : i < j => q[i].id < q[j].id
OrderInv ==
  /\ \A i, j \in 1..Len(done) : i < j => done[i] < done[j]
  /\ Ascending(queue) /\ Ascending(bg.batch)
  /\ \A i \in 1..Len(bg.batch), j \in 1..Len(queue) : bg.batch[i].id < queue[j].id
  /\ \A i \in 1..Len(done), j \in 1..Len(bg.batch) : done[i] < bg.batch[j].id
  /\ \A i \in 1..Len(done), j \in 1..Len(queue) : done[i] < queue[j].id
  /\ (\A i \in 1..Len(queue) : queue[i].id <= presses) /\ (\A i \in 1..Len(bg.batch) : bg.batch[i].id <= presses)
  /\ \A i \in 1..Len(done) : done[i] <= presses
  /\ awaited.id <= presses /\ bg.created <= presses
  /\ awaited.id # 0 =>
       /\ \A i \in 1..Len(queue) : queue[i].id = awaited.id => queue[i].row = awaited.row
       /\ \A i \in 1..Len(bg.batch) : bg.batch[i].id = awaited.id => bg.batch[i].row = awaited.row

SourceInv == SourceTypes /\ ViewInv /\ ReportedInv /\ OrderInv

\* The types, field by field.
LEMMA SourceFields ==
  ASSUME SourceTypes
  PROVE  /\ bg.at \in {"down", "list", "write", "bump", "recv", "run", "stopped"} /\ bg.batch \in Seq(Cmds)
         /\ bg.mutated \in BOOLEAN /\ bg.listed \in [Rows -> States] \cup {<<>>} /\ bg.created \in Nat
         /\ awaited.id \in Nat /\ awaited.row \in Rows \cup {0} /\ awaited.answer \in {"none", "ok", "failed"}
         /\ Len(bg.batch) \in Nat /\ Len(queue) \in Nat /\ Len(done) \in Nat
         /\ \A i \in 1..Len(bg.batch) : bg.batch[i] \in Cmds
         /\ \A i \in 1..Len(queue) : queue[i] \in Cmds
         /\ \A i \in 1..Len(done) : done[i] \in Nat
<1>1. /\ bg.at \in {"down", "list", "write", "bump", "recv", "run", "stopped"} /\ bg.batch \in Seq(Cmds)
      /\ bg.mutated \in BOOLEAN /\ bg.listed \in [Rows -> States] \cup {<<>>} /\ bg.created \in Nat
  BY DEF SourceTypes, Threads
<1>2. /\ awaited.id \in Nat /\ awaited.row \in Rows \cup {0} /\ awaited.answer \in {"none", "ok", "failed"}
  BY DEF SourceTypes, Waits
<1>3. queue \in Seq(Cmds) /\ done \in Seq(Nat)
  BY DEF SourceTypes
<1> QED
  BY <1>1, <1>2, <1>3, LenProperties, ElementOfSeq

\* What the daemon does to its sessions takes none from those known.
LEMMA EffectKeepsKnown ==
  ASSUME SourceTypes, NEW c, c.row \in Rows, c.kind \in Kinds, Effect(c)
  PROVE  /\ rows' \in [Rows -> States] /\ removed' \subseteq Rows /\ removed \subseteq removed'
         /\ \A r \in Rows : Known(rows, removed, r) => Known(rows', removed', r)
         /\ c.kind = "create" => Known(rows', removed', c.row)
<1>1. rows \in [Rows -> States] /\ removed \subseteq Rows
  BY DEF SourceTypes
<1>2. removed' = IF c.kind = "delete" THEN removed \cup {c.row} ELSE removed
  BY DEF Effect
<1>3. removed' \subseteq Rows /\ removed \subseteq removed'
  BY <1>1, <1>2
<1>4. CASE c.kind = "archive"
  <2>1. rows' = [rows EXCEPT ![c.row] = "archived"]
    BY <1>4 DEF Effect
  <2> QED
    BY <1>1, <1>3, <1>4, <2>1 DEF Known, States
<1>5. CASE c.kind = "delete"
  <2>1. rows' = [rows EXCEPT ![c.row] = "none"]
    BY <1>5 DEF Effect
  <2> QED
    BY <1>1, <1>2, <1>3, <1>5, <2>1 DEF Known, States
<1>6. CASE c.kind \in {"create", "import"}
  <2>1. rows' = [rows EXCEPT ![c.row] = "open"]
    BY <1>6 DEF Effect
  <2> QED
    BY <1>1, <1>3, <1>6, <2>1 DEF Known, States
<1>7. CASE c.kind = "refresh"
  <2>1. rows' = rows
    BY <1>7 DEF Effect
  <2> QED
    BY <1>1, <1>3, <1>7, <2>1 DEF Known
<1> QED
  BY <1>4, <1>5, <1>6, <1>7 DEF Kinds

\* What is done is numbered above all that was done before.
LEMMA DoneGrows ==
  ASSUME SourceTypes, NEW c, Effect(c), NEW n \in Nat, n = c.id,
         \A i, j \in 1..Len(done) : i < j => done[i] < done[j],
         n # 0 => \A i \in 1..Len(done) : done[i] < n
  PROVE  /\ done' \in Seq(Nat)
         /\ \A i, j \in 1..Len(done') : i < j => done'[i] < done'[j]
         /\ \A i \in 1..Len(done') : (done'[i] = n /\ n # 0) \/ \E k \in 1..Len(done) : done'[i] = done[k]
<1>0. done \in Seq(Nat) /\ Len(done) \in Nat /\ \A i \in 1..Len(done) : done[i] \in Nat
  BY SourceFields DEF SourceTypes
<1>1. CASE done' = done
  BY <1>0, <1>1
<1>2. CASE n # 0 /\ done' = Append(done, n)
  <2>1. PICK d : d = Append(done, n)
    OBVIOUS
  <2>2. /\ d \in Seq(Nat) /\ Len(d) = Len(done) + 1 /\ d[Len(done) + 1] = n
        /\ \A i \in 1..Len(done) : d[i] = done[i]
    BY <1>0, <2>1, AppendProperties
  <2>3. ASSUME NEW i \in 1..Len(d), NEW j \in 1..Len(d), i < j PROVE d[i] < d[j]
    <3>1. i \in 1..Len(done) /\ d[i] = done[i]
      BY <1>0, <2>2, <2>3
    <3>2. CASE j = Len(done) + 1
      BY <1>2, <2>2, <3>1, <3>2
    <3>3. CASE j \in 1..Len(done)
      BY <2>2, <2>3, <3>1, <3>3
    <3> QED
      BY <1>0, <2>2, <3>2, <3>3
  <2>4. \A i \in 1..Len(d) : i = Len(done) + 1 \/ i \in 1..Len(done)
    BY <1>0, <2>2
  <2>5. \A i \in 1..Len(d) : (d[i] = n /\ n # 0) \/ \E k \in 1..Len(done) : d[i] = done[k]
    BY <1>2, <2>2, <2>4
  <2>6. done' = d
    BY <1>2, <2>1
  <2> QED
    BY <2>2, <2>3, <2>5, <2>6
<1> QED
  BY <1>1, <1>2 DEF Effect

\* A key: a command with a number of its own joins the channel.
LEMMA PressKeeps ==
  ASSUME SourceInv, Press
  PROVE  SourceInv'
<1>0. /\ queue \in Seq(Cmds) /\ presses \in Nat /\ awaited \in Waits /\ uiAt = "keys" /\ presses' = presses + 1
      /\ UNCHANGED <<rows, done, removed, cache, moved, uiView, bg, told>>
  BY DEF SourceInv, SourceTypes, Press, daemonVars
<1>f. /\ Len(queue) \in Nat /\ Len(bg.batch) \in Nat /\ Len(done) \in Nat /\ bg.created \in Nat /\ awaited.id \in Nat
      /\ \A i \in 1..Len(bg.batch) : bg.batch[i] \in Cmds
      /\ \A i \in 1..Len(queue) : queue[i] \in Cmds
      /\ \A i \in 1..Len(done) : done[i] \in Nat
  BY SourceFields DEF SourceInv
<1>i. /\ \A i \in 1..Len(bg.batch) : bg.batch[i].id \in Nat /\ bg.batch[i].id <= presses
      /\ \A i \in 1..Len(queue) : queue[i].id \in Nat /\ queue[i].id <= presses
      /\ \A i \in 1..Len(done) : done[i] \in Nat /\ done[i] <= presses
  BY <1>f DEF SourceInv, OrderInv, Cmds
<1>1. PICK k \in Kinds, r \in Rows :
        /\ queue' = Append(queue, [id |-> presses + 1, kind |-> k, row |-> r])
        /\ IF k = "create"
           THEN uiAt' = "wait" /\ awaited' = [id |-> presses + 1, row |-> r, answer |-> "none"]
           ELSE UNCHANGED <<uiAt, awaited>>
  BY DEF Press
<1>2. PICK c : c = [id |-> presses + 1, kind |-> k, row |-> r]
  OBVIOUS
<1>3. c \in Cmds /\ c.id = presses + 1 /\ c.row = r
  BY <1>0, <1>2 DEF Cmds
<1>4. /\ queue' \in Seq(Cmds) /\ Len(queue') = Len(queue) + 1 /\ queue'[Len(queue) + 1] = c
      /\ \A i \in 1..Len(queue) : queue'[i] = queue[i]
  BY <1>0, <1>1, <1>2, <1>3, AppendProperties
<1>5. \A i \in 1..Len(queue') : i = Len(queue) + 1 \/ i \in 1..Len(queue)
  BY <1>4, <1>f
<1>6. \/ awaited' = awaited /\ uiAt' = uiAt
      \/ /\ awaited' \in Waits /\ uiAt' = "wait" /\ awaited'.id = presses + 1 /\ awaited'.row = r
         /\ awaited'.answer = "none"
  <2>1. CASE k = "create"
    <3>1. uiAt' = "wait" /\ awaited' = [id |-> presses + 1, row |-> r, answer |-> "none"]
      BY <1>1, <2>1
    <3> QED
      BY <1>0, <3>1 DEF Waits
  <2>2. CASE k # "create"
    BY <1>1, <2>2
  <2> QED
    BY <2>1, <2>2
<1>7. SourceTypes'
  <2>1. awaited' \in Waits /\ uiAt' \in {"keys", "snapshot", "wait", "quit"}
    BY <1>0, <1>6
  <2>2. (awaited.id # 0 => awaited.row \in Rows)' /\ (awaited.answer # "none" => awaited.id # 0)'
    BY <1>0, <1>6 DEF SourceInv, SourceTypes
  <2> QED
    BY <1>0, <1>4, <2>1, <2>2 DEF SourceInv, SourceTypes
<1>8. ViewInv'
  BY <1>0, <1>6 DEF SourceInv, ViewInv
<1>9. ReportedInv'
  <2>1. awaited'.id = bg.created => awaited' = awaited
    BY <1>0, <1>f, <1>6 DEF SourceInv, OrderInv
  <2> QED
    BY <1>0, <1>6, <2>1 DEF SourceInv, ReportedInv
<1>10. OrderInv'
  <2>1. Ascending(queue)'
    <3> SUFFICES ASSUME NEW i \in 1..Len(queue'), NEW j \in 1..Len(queue'), i < j
                 PROVE  queue'[i].id < queue'[j].id
      BY DEF Ascending
    <3>1. i \in 1..Len(queue)
      BY <1>4, <1>f
    <3>2. CASE j = Len(queue) + 1
      BY <1>0, <1>3, <1>4, <1>i, <3>1, <3>2
    <3>3. CASE j \in 1..Len(queue)
      BY <1>4, <3>1, <3>3 DEF SourceInv, OrderInv, Ascending
    <3> QED
      BY <1>5, <3>2, <3>3
  <2>2. \A i \in 1..Len(queue') :
          \/ queue'[i].id = presses + 1 /\ queue'[i].row = r
          \/ i \in 1..Len(queue) /\ queue'[i] = queue[i]
    BY <1>3, <1>4, <1>5
  <2>3. /\ \A i \in 1..Len(bg.batch), j \in 1..Len(queue') : bg.batch[i].id < queue'[j].id
        /\ \A i \in 1..Len(done), j \in 1..Len(queue') : done[i] < queue'[j].id
        /\ \A i \in 1..Len(queue') : queue'[i].id <= presses + 1
    <3>1. /\ \A i \in 1..Len(bg.batch), j \in 1..Len(queue) : bg.batch[i].id < queue[j].id
          /\ \A i \in 1..Len(done), j \in 1..Len(queue) : done[i] < queue[j].id
      BY DEF SourceInv, OrderInv
    <3>2. presses \in Nat
      BY <1>0
    <3>3. \A i \in 1..Len(bg.batch), j \in 1..Len(queue') : bg.batch[i].id < queue'[j].id
      BY <1>i, <2>2, <3>1, <3>2
    <3>4. \A i \in 1..Len(done), j \in 1..Len(queue') : done[i] < queue'[j].id
      BY <1>i, <2>2, <3>1, <3>2
    <3>5. \A i \in 1..Len(queue') : queue'[i].id <= presses + 1
      BY <1>i, <2>2, <3>2
    <3> QED
      BY <3>3, <3>4, <3>5
  <2>4. /\ \A i \in 1..Len(bg.batch) : bg.batch[i].id <= presses + 1
        /\ \A i \in 1..Len(done) : done[i] <= presses + 1
        /\ awaited'.id <= presses + 1 /\ bg.created <= presses + 1
    BY <1>0, <1>f, <1>i, <1>6 DEF SourceInv, OrderInv
  <2>5. CASE awaited' = awaited
    <3>1. \A i \in 1..Len(queue') : queue'[i].id = awaited.id => i \in 1..Len(queue) /\ queue'[i] = queue[i]
      BY <1>0, <1>f, <2>2 DEF SourceInv, OrderInv
    <3> QED
      BY <1>0, <2>1, <2>3, <2>4, <2>5, <3>1 DEF SourceInv, OrderInv
  <2>6. CASE awaited'.id = presses + 1 /\ awaited'.row = r
    <3>1. \A i \in 1..Len(queue') : queue'[i].id = presses + 1 => queue'[i].row = r
      BY <1>0, <1>i, <2>2
    <3>2. \A i \in 1..Len(bg.batch) : bg.batch[i].id # presses + 1
      BY <1>0, <1>i
    <3> QED
      BY <1>0, <2>1, <2>3, <2>4, <2>6, <3>1, <3>2 DEF SourceInv, OrderInv
  <2> QED
    BY <1>6, <2>5, <2>6
<1> QED
  BY <1>7, <1>8, <1>9, <1>10 DEF SourceInv

\* The UI stops waiting, looks at the generation, takes the snapshot, or quits.
LEMMA UiKeeps ==
  ASSUME SourceInv, UiStep \/ Quit
  PROVE  SourceInv'
<1>0. UNCHANGED <<rows, done, removed, cache, queue, bg, presses>>
  BY DEF UiStep, Quit, CreateReturns, CreateTimesOut, ReadGeneration, TakeSnapshot, daemonVars
<1>n. Nobody \in Waits /\ Nobody.id = 0 /\ Nobody.answer = "none"
  BY DEF Nobody, Waits
<1>1. CASE CreateReturns
  <2>1. /\ uiAt = "wait" /\ uiAt' = "keys" /\ awaited.answer # "none" /\ awaited' = Nobody /\ moved' = moved
        /\ \/ awaited.answer = "ok" /\ uiView' = cache /\ told' = told \cup {awaited.row}
           \/ UNCHANGED <<uiView, told>>
    BY <1>1 DEF CreateReturns
  <2>2. awaited.row \in Rows
    BY <2>1 DEF SourceInv, SourceTypes
  <2>3. SourceTypes'
    BY <1>0, <1>n, <2>1, <2>2 DEF SourceInv, SourceTypes
  <2>4. ViewInv'
    BY <1>0, <2>1 DEF SourceInv, ViewInv
  <2>5. ReportedInv'
    BY <1>0, <1>n, <2>1 DEF SourceInv, ReportedInv
  <2>6. OrderInv'
    BY <1>0, <1>n, <2>1 DEF SourceInv, SourceTypes, OrderInv
  <2> QED
    BY <2>3, <2>4, <2>5, <2>6 DEF SourceInv
<1>2. CASE CreateTimesOut
  <2>1. uiAt = "wait" /\ uiAt' = "keys" /\ awaited' = Nobody /\ UNCHANGED <<moved, uiView, told>>
    BY <1>2 DEF CreateTimesOut
  <2> QED
    BY <1>0, <1>n, <2>1 DEF SourceInv, SourceTypes, ViewInv, ReportedInv, OrderInv
<1>3. CASE ReadGeneration
  <2>1. uiAt' = "snapshot" /\ moved' = FALSE /\ UNCHANGED <<awaited, uiView, told>>
    BY <1>3 DEF ReadGeneration
  <2> QED
    BY <1>0, <2>1 DEF SourceInv, SourceTypes, ViewInv, ReportedInv, OrderInv
<1>4. CASE TakeSnapshot
  <2>1. uiAt' = "keys" /\ uiView' = cache /\ UNCHANGED <<awaited, moved, told>>
    BY <1>4 DEF TakeSnapshot
  <2> QED
    BY <1>0, <2>1 DEF SourceInv, SourceTypes, ViewInv, ReportedInv, OrderInv
<1>5. CASE Quit
  <2>1. uiAt' = "quit" /\ UNCHANGED <<awaited, moved, told, uiView>>
    BY <1>5 DEF Quit
  <2> QED
    BY <1>0, <2>1 DEF SourceInv, SourceTypes, ViewInv, ReportedInv, OrderInv
<1> QED
  BY <1>1, <1>2, <1>3, <1>4, <1>5 DEF UiStep

\* The thread goes from one of its steps to the next; batch and channel stay.
LEMMA ThreadMoves ==
  ASSUME SourceInv, Connect \/ ListRows \/ WriteCache \/ BatchEnds
  PROVE  SourceInv'
<1>0. /\ UNCHANGED <<rows, done, removed, moved, awaited, uiView, uiAt, queue, presses, told>>
      /\ bg \in Threads /\ rows \in [Rows -> States]
  BY DEF Connect, ListRows, WriteCache, BatchEnds, Keep, daemonVars, SourceInv, SourceTypes
<1>s. \A b \in Threads : b.batch = bg.batch /\ b.created = bg.created /\ bg' = b => OrderInv'
  BY <1>0 DEF SourceInv, OrderInv
<1>1. CASE Connect
  <2>1. PICK b : b = [bg EXCEPT !.at = "list"]
    OBVIOUS
  <2>2. b \in Threads /\ b.at = "list" /\ b.batch = bg.batch /\ b.created = bg.created
    BY <1>0, <2>1 DEF Threads
  <2>3. bg' = b /\ cache' = cache /\ bg.at = "down"
    BY <1>1, <2>1 DEF Connect
  <2> QED
    BY <1>0, <1>s, <2>2, <2>3 DEF SourceInv, SourceTypes, ViewInv, ReportedInv
<1>2. CASE ListRows
  <2>1. PICK b : b = [bg EXCEPT !.at = "write", !.listed = rows]
    OBVIOUS
  <2>2. b \in Threads /\ b.at = "write" /\ b.batch = bg.batch /\ b.created = bg.created /\ b.listed = rows
    BY <1>0, <2>1 DEF Threads
  <2>3. bg' = b /\ cache' = cache /\ bg.at = "list"
    BY <1>2, <2>1 DEF ListRows
  <2> QED
    BY <1>0, <1>s, <2>2, <2>3 DEF SourceInv, SourceTypes, ViewInv, ReportedInv
<1>3. CASE WriteCache
  <2>1. PICK b : b = [bg EXCEPT !.at = "bump", !.listed = <<>>]
    OBVIOUS
  <2>2. b \in Threads /\ b.at = "bump" /\ b.batch = bg.batch /\ b.created = bg.created
    BY <1>0, <2>1 DEF Threads
  <2>3. bg' = b /\ cache' = bg.listed /\ bg.at = "write"
    BY <1>3, <2>1 DEF WriteCache
  <2> QED
    BY <1>0, <1>s, <2>2, <2>3 DEF SourceInv, SourceTypes, ViewInv, ReportedInv
<1>4. CASE BatchEnds
  <2>1. PICK a \in {"list", "recv"} : a = IF bg.mutated THEN "list" ELSE "recv"
    OBVIOUS
  <2>2. PICK b : b = [bg EXCEPT !.at = a, !.mutated = FALSE]
    OBVIOUS
  <2>3. b \in Threads /\ b.at = a /\ b.batch = bg.batch /\ b.created = bg.created
    BY <1>0, <2>2 DEF Threads
  <2>4. bg' = b /\ cache' = cache /\ bg.at = "run"
    BY <1>4, <2>1, <2>2 DEF BatchEnds
  <2> QED
    BY <1>0, <1>s, <2>1, <2>3, <2>4 DEF SourceInv, SourceTypes, ViewInv, ReportedInv
<1> QED
  BY <1>1, <1>2, <1>3, <1>4

\* The generation moves; the create that the refresh was for is answered.
LEMMA BumpKeeps ==
  ASSUME SourceInv, BumpGeneration
  PROVE  SourceInv'
<1>0. /\ UNCHANGED <<rows, done, removed, cache, uiView, uiAt, queue, presses, told>>
      /\ bg \in Threads /\ bg.at = "bump" /\ moved' = TRUE /\ awaited \in Waits
  BY DEF BumpGeneration, Keep, daemonVars, SourceInv, SourceTypes
<1>1. PICK w : awaited' = w /\ w \in Waits /\ w.id = awaited.id /\ w.row = awaited.row
        /\ (w = awaited \/ (w.answer = "ok" /\ bg.created # 0 /\ awaited.id = bg.created))
  <2>1. CASE awaited' = awaited
    BY <1>0, <2>1
  <2>2. CASE awaited' = [awaited EXCEPT !.answer = "ok"] /\ bg.created # 0 /\ awaited.id = bg.created
    <3>1. PICK w : w = [awaited EXCEPT !.answer = "ok"]
      OBVIOUS
    <3>2. w \in Waits /\ w.id = awaited.id /\ w.row = awaited.row /\ w.answer = "ok"
      BY <1>0, <3>1 DEF Waits
    <3> QED
      BY <2>2, <3>1, <3>2
  <2> QED
    BY <2>1, <2>2 DEF BumpGeneration, Answer
<1>2. PICK b \in Threads : bg' = b /\ b.batch = bg.batch /\ b.created \in {0, bg.created} /\ b.at \in {"run", "recv"}
  <2>1. CASE bg' = [bg EXCEPT !.at = "run", !.created = 0]
    <3>1. PICK b : b = [bg EXCEPT !.at = "run", !.created = 0]
      OBVIOUS
    <3>2. b \in Threads /\ b.batch = bg.batch /\ b.created = 0 /\ b.at = "run"
      BY <1>0, <3>1 DEF Threads
    <3> QED
      BY <2>1, <3>1, <3>2
  <2>2. CASE bg' = [bg EXCEPT !.at = IF bg.batch = <<>> THEN "recv" ELSE "run"]
    <3>1. PICK a \in {"run", "recv"} : a = IF bg.batch = <<>> THEN "recv" ELSE "run"
      OBVIOUS
    <3>2. PICK b : b = [bg EXCEPT !.at = a]
      OBVIOUS
    <3>3. b \in Threads /\ b.batch = bg.batch /\ b.created = bg.created /\ b.at = a
      BY <1>0, <3>2 DEF Threads
    <3> QED
      BY <2>2, <3>1, <3>2, <3>3
  <2> QED
    BY <2>1, <2>2 DEF BumpGeneration
<1>3. SourceTypes'
  BY <1>0, <1>1, <1>2 DEF SourceInv, SourceTypes
<1>4. ReportedInv'
  <2>1. CASE w = awaited
    BY <1>0, <1>1, <1>2, <2>1, SourceFields DEF SourceInv, ReportedInv
  <2>2. CASE w.answer = "ok" /\ bg.created # 0 /\ awaited.id = bg.created
    BY <1>0, <1>1, <1>2, <2>2, SourceFields DEF SourceInv, ReportedInv
  <2> QED
    BY <1>1, <2>1, <2>2
<1>5. OrderInv'
  <2>1. b.created <= presses
    BY <1>0, <1>2 DEF SourceInv, SourceTypes, OrderInv
  <2> QED
    BY <1>0, <1>1, <1>2, <2>1 DEF SourceInv, OrderInv
<1> QED
  BY <1>0, <1>3, <1>4, <1>5 DEF SourceInv, ViewInv

\* The channel is emptied into a batch.
LEMMA ReceiveKeeps ==
  ASSUME SourceInv, Receive
  PROVE  SourceInv'
<1>0. /\ UNCHANGED <<rows, done, removed, cache, moved, awaited, uiView, uiAt, presses, told>>
      /\ bg \in Threads /\ bg.at = "recv" /\ queue \in Seq(Cmds)
  BY DEF Receive, daemonVars, SourceInv, SourceTypes
<1>1. CASE queue # <<>>
  <2>1. PICK b : b = [bg EXCEPT !.at = "run", !.batch = queue, !.mutated = FALSE]
    OBVIOUS
  <2>2. b \in Threads /\ b.at = "run" /\ b.batch = queue /\ b.created = bg.created
    BY <1>0, <2>1 DEF Threads
  <2>3. bg' = b /\ queue' = <<>> /\ <<>> \in Seq(Cmds) /\ Len(<<>>) = 0
    BY <1>1, <2>1, EmptySeq DEF Receive
  <2>4. OrderInv'
    <3>1. \A i \in 1..Len(queue') : FALSE
      BY <2>3
    <3> QED
      BY <1>0, <2>2, <2>3, <3>1 DEF SourceInv, OrderInv, Ascending
  <2> QED
    BY <1>0, <2>2, <2>3, <2>4 DEF SourceInv, SourceTypes, ViewInv, ReportedInv
<1>2. CASE queue = <<>>
  <2>1. PICK a \in {"stopped", "list"} : a = IF uiAt = "quit" THEN "stopped" ELSE "list"
    OBVIOUS
  <2>2. PICK b : b = [bg EXCEPT !.at = a]
    OBVIOUS
  <2>3. b \in Threads /\ b.at = a /\ b.batch = bg.batch /\ b.created = bg.created
    BY <1>0, <2>2 DEF Threads
  <2>4. bg' = b /\ queue' = queue
    BY <1>2, <2>1, <2>2 DEF Receive
  <2> QED
    BY <1>0, <2>1, <2>3, <2>4 DEF SourceInv, SourceTypes, ViewInv, ReportedInv, OrderInv
<1> QED
  BY <1>1, <1>2

\* The first command of a batch and the rest of it.
LEMMA NextCommand ==
  ASSUME SourceInv, bg.batch # <<>>
  PROVE  /\ Head(bg.batch) \in Cmds /\ Head(bg.batch) = bg.batch[1] /\ 1 \in 1..Len(bg.batch)
         /\ Tail(bg.batch) \in Seq(Cmds) /\ Len(Tail(bg.batch)) \in Nat
         /\ \A i \in 1..Len(Tail(bg.batch)) : i + 1 \in 1..Len(bg.batch) /\ Tail(bg.batch)[i] = bg.batch[i + 1]
<1>1. bg.batch \in Seq(Cmds) /\ Len(bg.batch) \in Nat
  BY SourceFields DEF SourceInv
<1>2. Len(bg.batch) # 0
  BY <1>1, EmptySeq
<1>3. Head(bg.batch) \in Cmds /\ Head(bg.batch) = bg.batch[1]
  BY <1>1, <1>2, ElementOfSeq
<1>4. Tail(bg.batch) \in Seq(Cmds) /\ Len(Tail(bg.batch)) = Len(bg.batch) - 1
  BY <1>1, HeadTailProperties
<1>5. \A i \in 1..Len(Tail(bg.batch)) : Tail(bg.batch)[i] = bg.batch[i + 1]
  BY <1>1, HeadTailProperties
<1> QED
  BY <1>1, <1>2, <1>3, <1>4, <1>5

\* The order of the numbers, when the daemon acts on the first command of the batch and
\* the thread goes on with the rest of it, or with none.
LEMMA OrderAfterEffect ==
  ASSUME SourceInv, bg.batch # <<>>, NEW c, c = Head(bg.batch), Effect(c) \/ UNCHANGED done,
         NEW b \in Threads, bg' = b, b.batch \in {Tail(bg.batch), <<>>}, b.created \in {0, bg.created, c.id},
         NEW w \in Waits, awaited' = w, w.id = awaited.id, w.row = awaited.row,
         UNCHANGED <<queue, presses>>
  PROVE  OrderInv' /\ done' \in Seq(Nat)
<1>0. c \in Cmds /\ c = bg.batch[1] /\ 1 \in 1..Len(bg.batch)
  BY NextCommand
<1>1. PICK n \in Nat : n = c.id
  BY <1>0 DEF Cmds
<1>f. /\ Len(queue) \in Nat /\ Len(bg.batch) \in Nat /\ Len(done) \in Nat /\ presses \in Nat /\ bg.created \in Nat
      /\ \A i \in 1..Len(bg.batch) : bg.batch[i] \in Cmds
      /\ \A i \in 1..Len(queue) : queue[i] \in Cmds
      /\ \A i \in 1..Len(done) : done[i] \in Nat
  BY SourceFields DEF SourceInv, SourceTypes
<1>i. /\ \A i \in 1..Len(bg.batch) : bg.batch[i].id \in Nat
      /\ \A i \in 1..Len(queue) : queue[i].id \in Nat
  BY <1>f DEF Cmds
<1>2. /\ n <= presses /\ (\A i \in 1..Len(done) : done[i] < n) /\ (\A i \in 1..Len(queue) : n < queue[i].id)
      /\ \A i \in 2..Len(bg.batch) : n < bg.batch[i].id
  <2>1. \A i \in 2..Len(bg.batch) : i \in 1..Len(bg.batch) /\ 1 < i
    BY <1>f
  <2> QED
    BY <1>0, <1>1, <2>1 DEF SourceInv, OrderInv, Ascending
<1>3. /\ done' \in Seq(Nat)
      /\ \A i, j \in 1..Len(done') : i < j => done'[i] < done'[j]
      /\ \A i \in 1..Len(done') : done'[i] = n \/ \E k \in 1..Len(done) : done'[i] = done[k]
  <2>1. CASE UNCHANGED done
    BY <2>1 DEF SourceInv, SourceTypes, OrderInv
  <2>2. CASE Effect(c)
    <3>1. /\ SourceTypes /\ \A i, j \in 1..Len(done) : i < j => done[i] < done[j]
      BY DEF SourceInv, OrderInv
    <3>2. /\ done' \in Seq(Nat)
          /\ \A i, j \in 1..Len(done') : i < j => done'[i] < done'[j]
          /\ \A i \in 1..Len(done') : (done'[i] = n /\ n # 0) \/ \E k \in 1..Len(done) : done'[i] = done[k]
      BY <1>1, <1>2, <2>2, <3>1, DoneGrows
    <3> QED
      BY <3>2
  <2> QED
    BY <2>1, <2>2
<1>4. /\ \A i \in 1..Len(done'), j \in 1..Len(queue) : done'[i] < queue[j].id
      /\ \A i \in 1..Len(done'), j \in 2..Len(bg.batch) : done'[i] < bg.batch[j].id
      /\ \A i \in 1..Len(done') : done'[i] <= presses
  <2>1. \A j \in 2..Len(bg.batch) : j \in 1..Len(bg.batch)
    BY <1>f
  <2> QED
    BY <1>2, <1>3, <2>1 DEF SourceInv, OrderInv
<1>5. \A i \in 1..Len(b.batch) :
        /\ i + 1 \in 2..Len(bg.batch) /\ i + 1 \in 1..Len(bg.batch) /\ b.batch[i] = bg.batch[i + 1]
  <2>1. CASE b.batch = Tail(bg.batch)
    BY <1>f, <2>1, NextCommand
  <2>2. CASE b.batch = <<>>
    BY <2>2, EmptySeq
  <2> QED
    BY <2>1, <2>2
<1>6. Ascending(b.batch)
  <2> SUFFICES ASSUME NEW i \in 1..Len(b.batch), NEW j \in 1..Len(b.batch), i < j
               PROVE  b.batch[i].id < b.batch[j].id
    BY DEF Ascending
  <2>1. i + 1 < j + 1 /\ i + 1 \in 1..Len(bg.batch) /\ j + 1 \in 1..Len(bg.batch)
    BY <1>5
  <2>2. bg.batch[i + 1].id < bg.batch[j + 1].id
    BY <2>1 DEF SourceInv, OrderInv, Ascending
  <2> QED
    BY <1>5, <2>2
<1>7. b.created <= presses
  BY <1>1, <1>2, <1>f DEF SourceInv, OrderInv
<1>8. /\ \A i \in 1..Len(b.batch), j \in 1..Len(queue) : b.batch[i].id < queue[j].id
      /\ \A i \in 1..Len(done'), j \in 1..Len(b.batch) : done'[i] < b.batch[j].id
      /\ \A i \in 1..Len(b.batch) : b.batch[i].id <= presses
      /\ awaited.id # 0 => \A i \in 1..Len(b.batch) : b.batch[i].id = awaited.id => b.batch[i].row = awaited.row
  BY <1>4, <1>5 DEF SourceInv, OrderInv
<1> QED
  BY <1>3, <1>4, <1>6, <1>7, <1>8 DEF SourceInv, OrderInv

\* What is known stays known when the daemon acts.
LEMMA ReportedAfterEffect ==
  ASSUME SourceInv, rows' \in [Rows -> States], removed \subseteq removed', removed' \subseteq Rows,
         \A r \in Rows : Known(rows, removed, r) => Known(rows', removed', r),
         UNCHANGED <<cache, told>>,
         NEW b \in Threads, bg' = b, b.at = "write" => bg.at = "write" /\ b.listed = bg.listed,
         b.at = "bump" => bg.at = "bump",
         NEW w \in Waits, awaited' = w, w.id = awaited.id, w.row = awaited.row,
         w.answer = "ok" => awaited.answer = "ok",
         \/ b.created \in {0, bg.created}
         \/ /\ b.at \notin {"write", "bump"}
            /\ awaited.id # 0 /\ awaited.id = b.created => Known(rows', removed', awaited.row)
  PROVE  ReportedInv'
<1>0. /\ told \subseteq Rows /\ (awaited.id # 0 => awaited.row \in Rows) /\ (awaited.answer # "none" => awaited.id # 0)
  BY DEF SourceInv, SourceTypes
<1>1. \A r, rs : Known(rs, removed, r) => Known(rs, removed', r)
  BY DEF Known
<1>2. ASSUME NEW r \in told'
      PROVE  Known(rows', removed', r) /\ Known(cache', removed', r) /\ (b.at = "write" => Known(b.listed, removed', r))
  BY <1>0, <1>1, <1>2 DEF SourceInv, ReportedInv
<1>3. w.answer = "ok" =>
        /\ Known(rows', removed', w.row) /\ Known(cache', removed', w.row)
        /\ b.at = "write" => Known(b.listed, removed', w.row)
  BY <1>0, <1>1 DEF SourceInv, ReportedInv
<1>4. ASSUME w.id # 0, w.id = b.created
      PROVE  /\ Known(rows', removed', w.row)
             /\ b.at = "write" => Known(b.listed, removed', w.row)
             /\ b.at = "bump" => Known(cache', removed', w.row)
  BY <1>0, <1>1, <1>4 DEF SourceInv, ReportedInv
<1> QED
  BY <1>2, <1>3, <1>4 DEF ReportedInv

\* The daemon carries out the next command of the batch, or the import is dropped.
LEMMA RunKeeps ==
  ASSUME SourceInv, RunCommand
  PROVE  SourceInv'
<1>0. /\ UNCHANGED <<cache, moved, awaited, uiView, uiAt, queue, presses, told>> /\ awaited \in Waits
      /\ bg \in Threads /\ bg.at = "run" /\ bg.batch # <<>> /\ SourceTypes
  BY DEF RunCommand, Keep, SourceInv, SourceTypes
<1>1. PICK c : c = Head(bg.batch)
  OBVIOUS
<1>2. c \in Cmds /\ c = bg.batch[1] /\ 1 \in 1..Len(bg.batch) /\ Tail(bg.batch) \in Seq(Cmds)
  BY <1>0, <1>1, NextCommand
<1>3. c.id \in Nat /\ c.row \in Rows /\ c.kind \in Kinds
  BY <1>2 DEF Cmds
<1>4. PICK t : t = Tail(bg.batch)
  OBVIOUS
<1>5. ASSUME NEW b \in Threads, bg' = b, b.batch = t, b.at \in {"list", "run"}, b.created \in {bg.created, c.id},
             rows' \in [Rows -> States], removed \subseteq removed', removed' \subseteq Rows,
             \A r \in Rows : Known(rows, removed, r) => Known(rows', removed', r),
             b.created = c.id => b.created = bg.created \/ Known(rows', removed', c.row),
             Effect(c) \/ UNCHANGED done
      PROVE  SourceInv'
  <2>1. OrderInv' /\ done' \in Seq(Nat)
    BY <1>0, <1>1, <1>4, <1>5, OrderAfterEffect
  <2>2. awaited.id # 0 /\ awaited.id = c.id => awaited.row = c.row
    BY <1>2 DEF SourceInv, OrderInv
  <2>3. ReportedInv'
    <3>1. b.at # "write" /\ b.at # "bump"
      BY <1>5
    <3>2. \/ b.created \in {0, bg.created}
          \/ awaited.id # 0 /\ awaited.id = b.created => Known(rows', removed', awaited.row)
      BY <1>5, <2>2
    <3> QED
      BY <1>0, <1>5, <3>1, <3>2, ReportedAfterEffect
  <2>4. SourceTypes'
    BY <1>0, <1>5, <2>1 DEF SourceTypes
  <2>5. ViewInv'
    BY <1>0, <1>5 DEF SourceInv, ViewInv
  <2> QED
    BY <2>1, <2>3, <2>4, <2>5 DEF SourceInv
<1>6. CASE Effect(c) /\ c.kind = "create" /\ bg' = [bg EXCEPT !.at = "list", !.batch = Tail(@), !.created = c.id]
  <2>1. PICK b : b = [bg EXCEPT !.at = "list", !.batch = t, !.created = c.id]
    OBVIOUS
  <2>2. b \in Threads /\ b.batch = t /\ b.at = "list" /\ b.created = c.id
    BY <1>0, <1>2, <1>3, <1>4, <2>1 DEF Threads
  <2>3. bg' = b
    BY <1>4, <1>6, <2>1
  <2> QED
    BY <1>0, <1>3, <1>5, <1>6, <2>2, <2>3, EffectKeepsKnown
<1>7. CASE Effect(c) /\ bg' = [bg EXCEPT !.batch = Tail(@), !.mutated = TRUE]
  <2>1. PICK b : b = [bg EXCEPT !.batch = t, !.mutated = TRUE]
    OBVIOUS
  <2>2. b \in Threads /\ b.batch = t /\ b.at = "run" /\ b.created = bg.created
    BY <1>0, <1>2, <1>4, <2>1 DEF Threads
  <2>3. bg' = b
    BY <1>4, <1>7, <2>1
  <2> QED
    BY <1>0, <1>3, <1>5, <1>7, <2>2, <2>3, EffectKeepsKnown
<1>8. CASE UNCHANGED <<rows, done, removed>> /\ bg' = [bg EXCEPT !.batch = Tail(@)]
  <2>1. PICK b : b = [bg EXCEPT !.batch = t]
    OBVIOUS
  <2>2. b \in Threads /\ b.batch = t /\ b.at = "run" /\ b.created = bg.created
    BY <1>0, <1>2, <1>4, <2>1 DEF Threads
  <2>3. bg' = b
    BY <1>4, <1>8, <2>1
  <2> QED
    BY <1>0, <1>5, <1>8, <2>2, <2>3 DEF SourceTypes
<1> QED
  BY <1>1, <1>6, <1>7, <1>8 DEF RunCommand, daemonVars

\* A request fails: batch and replies are gone, what the daemon did stays.
LEMMA FailKeeps ==
  ASSUME SourceInv, RequestFails
  PROVE  SourceInv'
<1>0. /\ UNCHANGED <<cache, moved, uiView, uiAt, queue, presses, told>> /\ awaited \in Waits /\ bg' = Down
      /\ bg \in Threads /\ bg.at \in {"list", "run"} /\ SourceTypes
  BY DEF RequestFails, ConnectionEnds, Keep, SourceInv, SourceTypes
<1>1. PICK b : b = Down
  OBVIOUS
<1>2. b \in Threads /\ b.at = "down" /\ b.batch = <<>> /\ b.created = 0 /\ bg' = b
  BY <1>0, <1>1, EmptySeq DEF Down, Threads
<1>3. PICK w \in Waits : /\ awaited' = w /\ w.id = awaited.id /\ w.row = awaited.row
                         /\ w = awaited \/ (w.answer = "failed" /\ awaited.id # 0)
  <2>1. CASE awaited' = awaited
    BY <1>0, <2>1
  <2>2. CASE awaited' = [awaited EXCEPT !.answer = "failed"] /\ awaited.id # 0
    <3>1. PICK w : w = [awaited EXCEPT !.answer = "failed"]
      OBVIOUS
    <3>2. w \in Waits /\ w.id = awaited.id /\ w.row = awaited.row /\ w.answer = "failed"
      BY <1>0, <3>1 DEF Waits
    <3> QED
      BY <2>2, <3>1, <3>2
  <2> QED
    BY <2>1, <2>2 DEF RequestFails, ConnectionEnds
<1>4. ASSUME rows' \in [Rows -> States], removed \subseteq removed', removed' \subseteq Rows,
             \A r \in Rows : Known(rows, removed, r) => Known(rows', removed', r),
             OrderInv', done' \in Seq(Nat)
      PROVE  SourceInv'
  <2>1. ReportedInv'
    <3>1. w.answer = "ok" => awaited.answer = "ok"
      BY <1>3
    <3> QED
      BY <1>0, <1>2, <1>3, <1>4, <3>1, ReportedAfterEffect
  <2>2. SourceTypes'
    BY <1>0, <1>2, <1>3, <1>4 DEF SourceTypes
  <2>3. ViewInv'
    BY <1>0, <1>2 DEF SourceInv, ViewInv
  <2> QED
    BY <1>4, <2>1, <2>2, <2>3 DEF SourceInv
<1>5. CASE UNCHANGED daemonVars
  <2>1. \A i \in 1..Len(b.batch) : FALSE
    BY <1>2, EmptySeq
  <2>2. OrderInv' /\ done' \in Seq(Nat)
    <3>1. b.created <= presses
      BY <1>0, <1>2 DEF SourceTypes
    <3> QED
      BY <1>0, <1>2, <1>3, <1>5, <2>1, <3>1 DEF daemonVars, SourceInv, SourceTypes, OrderInv, Ascending
  <2> QED
    BY <1>0, <1>4, <1>5, <2>2 DEF daemonVars, SourceTypes
<1>6. CASE bg.batch # <<>> /\ Effect(Head(bg.batch))
  <2>1. PICK c : c = Head(bg.batch)
    OBVIOUS
  <2>2. c \in Cmds /\ Effect(c)
    BY <1>6, <2>1, NextCommand
  <2>3. c.row \in Rows /\ c.kind \in Kinds
    BY <2>2 DEF Cmds
  <2>4. OrderInv' /\ done' \in Seq(Nat)
    BY <1>0, <1>2, <1>3, <1>6, <2>1, <2>2, OrderAfterEffect
  <2> QED
    BY <1>0, <1>4, <2>2, <2>3, <2>4, EffectKeepsKnown
<1> QED
  BY <1>5, <1>6 DEF RequestFails

\* Another client changes the daemon's sessions.
LEMMA OtherKeeps ==
  ASSUME SourceInv, OtherClient
  PROVE  SourceInv'
<1>0. /\ UNCHANGED <<cache, moved, uiView, uiAt, awaited, queue, bg, presses, told>>
      /\ SourceTypes /\ bg \in Threads /\ awaited \in Waits
  BY DEF OtherClient, SourceInv, SourceTypes
<1>1. PICK k \in Kinds, r \in Rows : Effect([id |-> 0, kind |-> k, row |-> r])
  BY DEF OtherClient
<1>2. PICK c : c = [id |-> 0, kind |-> k, row |-> r]
  OBVIOUS
<1>3. c.id = 0 /\ c.kind \in Kinds /\ c.row \in Rows /\ Effect(c)
  BY <1>1, <1>2
<1>4. /\ rows' \in [Rows -> States] /\ removed' \subseteq Rows /\ removed \subseteq removed'
      /\ \A q \in Rows : Known(rows, removed, q) => Known(rows', removed', q)
  BY <1>0, <1>3, EffectKeepsKnown
<1>5. done' = done
  BY <1>3 DEF Effect
<1>6. ReportedInv'
  <2>1. bg' = bg /\ awaited' = awaited /\ bg.created \in {0, bg.created}
    BY <1>0
  <2> QED
    BY <1>0, <1>4, <2>1, ReportedAfterEffect
<1> QED
  BY <1>0, <1>4, <1>5, <1>6 DEF SourceInv, SourceTypes, ViewInv, OrderInv

\* What the UI reads and sends through the cache is what happened: no stale view that is
\* not announced, no created session missing, no command twice or out of order, for every
\* number of sessions, commands, lost connections and other clients.
THEOREM CacheStaysTrusted == SourceSpec => []CacheIsTrusted
<1>1. SourceInit => SourceInv
  <2> SUFFICES ASSUME SourceInit PROVE SourceInv
    OBVIOUS
  <2>1. Down \in Threads /\ Down.at = "down" /\ Down.batch = <<>> /\ Down.created = 0
    BY EmptySeq DEF Down, Threads
  <2>2. Nobody \in Waits /\ Nobody.id = 0 /\ Nobody.answer = "none"
    BY DEF Nobody, Waits
  <2>3. <<>> \in Seq(Cmds) /\ <<>> \in Seq(Nat) /\ Len(<<>>) = 0
    BY EmptySeq
  <2>4. rows \in [Rows -> States] /\ cache \in [Rows -> States]
    BY DEF SourceInit, States
  <2>5. SourceTypes
    BY <2>1, <2>2, <2>3, <2>4 DEF SourceInit, SourceTypes
  <2>6. OrderInv
    BY <2>1, <2>2, <2>3 DEF SourceInit, OrderInv, Ascending
  <2> QED
    BY <2>1, <2>2, <2>5, <2>6 DEF SourceInit, SourceInv, ViewInv, ReportedInv
<1>2. SourceInv /\ [SourceNext]_sourceVars => SourceInv'
  <2> SUFFICES ASSUME SourceInv, [SourceNext]_sourceVars PROVE SourceInv'
    OBVIOUS
  <2>1. CASE UNCHANGED sourceVars
    BY <2>1 DEF sourceVars, SourceInv, SourceTypes, ViewInv, ReportedInv, OrderInv
  <2> QED
    BY <2>1, PressKeeps, UiKeeps, ThreadMoves, BumpKeeps, ReceiveKeeps, RunKeeps, FailKeeps, OtherKeeps
    DEF SourceNext, ThreadStep
<1>3. SourceInv => CacheIsTrusted
  <2> SUFFICES ASSUME SourceInv PROVE CacheIsTrusted
    OBVIOUS
  <2>1. DOMAIN done = 1..Len(done)
    BY LenProperties DEF SourceInv, SourceTypes
  <2> QED
    BY <2>1 DEF SourceInv, ViewInv, ReportedInv, OrderInv, Known, CacheIsTrusted, NoStaleView, CreatedIsListed,
       CommandsInOrder
<1> QED
  BY <1>1, <1>2, <1>3, PTL DEF SourceSpec

-----------------------------------------------------------------------------
(* The session pane: TuiAttach *)

Events == {"connected", "retrying", "lost", "closed"}
Panes == [tab : {"sessions", "crons"}, focus : {"sidebar", "transcript", "main"}, modal : BOOLEAN,
          s : Sessions \cup {0}, st : Events \cup {"none", "connecting", "detached"}]
Pumps == [s : Sessions \cup {0}, at : {"none", "dial", "live", "ended"}, retried : BOOLEAN, told : BOOLEAN,
          inbox : Seq(Events)]
Runtimes == [s : Sessions \cup {0}, pump : PumpIds \cup {0}, frozen : BOOLEAN]

PaneTypes ==
  /\ app \in Panes /\ rt \in Runtimes /\ pumps \in [PumpIds -> Pumps]
  /\ turn \in {"reconcile", "drain", "poll", "quit"}

\* The runtime is of the pump it holds, and only that pump has not been told to stop.
RuntimeInv ==
  /\ rt.pump = 0 => rt.s = 0
  /\ rt.pump # 0 => rt.s # 0 /\ pumps[rt.pump].s = rt.s /\ pumps[rt.pump].at # "none"
  /\ \A p \in PumpIds : pumps[p].at \in {"dial", "live"} /\ ~pumps[p].told => p = rt.pump

\* From reconcile_attach to the next key, the runtime is of the session shown, unless
\* its Closed has arrived since; that takes the focus away too.
ShownInv ==
  turn \in {"drain", "poll"} => app.s = rt.s \/ (app.s = 0 /\ app.focus = "sidebar")

\* The last that a pump says is that it has closed.
LastWordInv ==
  \A p \in PumpIds :
    pumps[p].at = "ended" /\ pumps[p].inbox # <<>> => pumps[p].inbox[Len(pumps[p].inbox)] = "closed"

\* Once that is heard, the pane is left, whatever the turn.
HeardInv ==
  rt.pump # 0 /\ pumps[rt.pump].at = "ended" /\ pumps[rt.pump].inbox = <<>>
    => app.s = 0 \/ app.st \in {"detached", "connecting"} \/ rt.pump \in swallowed

PaneInv == PaneTypes /\ RuntimeInv /\ ShownInv /\ LastWordInv /\ HeardInv /\ KeysGoToShown

\* The types, field by field.
LEMMA PaneFields ==
  ASSUME PaneTypes
  PROVE  /\ app.tab \in {"sessions", "crons"} /\ app.focus \in {"sidebar", "transcript", "main"} /\ app.modal \in BOOLEAN
         /\ app.s \in Sessions \cup {0} /\ app.st \in Events \cup {"none", "connecting", "detached"}
         /\ rt.s \in Sessions \cup {0} /\ rt.pump \in PumpIds \cup {0} /\ rt.frozen \in BOOLEAN
         /\ \A p \in PumpIds :
              /\ pumps[p] \in Pumps /\ pumps[p].s \in Sessions \cup {0} /\ pumps[p].at \in {"none", "dial", "live", "ended"}
              /\ pumps[p].retried \in BOOLEAN /\ pumps[p].told \in BOOLEAN /\ pumps[p].inbox \in Seq(Events)
              /\ Len(pumps[p].inbox) \in Nat
<1>1. app \in Panes /\ rt \in Runtimes /\ \A p \in PumpIds : pumps[p] \in Pumps
  BY DEF PaneTypes
<1>2. \A p \in PumpIds :
        /\ pumps[p].s \in Sessions \cup {0} /\ pumps[p].at \in {"none", "dial", "live", "ended"}
        /\ pumps[p].retried \in BOOLEAN /\ pumps[p].told \in BOOLEAN /\ pumps[p].inbox \in Seq(Events)
  BY <1>1 DEF Pumps
<1>3. \A p \in PumpIds : Len(pumps[p].inbox) \in Nat
  BY <1>2, LenProperties
<1>4. /\ app.tab \in {"sessions", "crons"} /\ app.focus \in {"sidebar", "transcript", "main"} /\ app.modal \in BOOLEAN
      /\ app.s \in Sessions \cup {0} /\ app.st \in Events \cup {"none", "connecting", "detached"}
  BY <1>1 DEF Panes
<1>5. rt.s \in Sessions \cup {0} /\ rt.pump \in PumpIds \cup {0} /\ rt.frozen \in BOOLEAN
  BY <1>1 DEF Runtimes
<1> QED
  BY <1>1, <1>2, <1>3, <1>4, <1>5

\* What a pump sends, and where it goes.
LEMMA SendsKeeps ==
  ASSUME PaneInv, NEW p \in PumpIds, NEW to \in {"dial", "live", "ended"}, NEW events \in Seq(Events),
         pumps[p].at \in {"dial", "live"}, Sends(p, to, events), events # <<>>,
         to = "ended" => events[Len(events)] = "closed"
  PROVE  PaneInv'
<1>0. UNCHANGED <<app, rt, turn, typed, swallowed>> /\ PaneTypes /\ pumps \in [PumpIds -> Pumps]
  BY DEF Sends, PaneInv, PaneTypes
<1>1. PICK box : box = IF p = rt.pump THEN pumps[p].inbox \o events ELSE <<>>
  OBVIOUS
<1>2. box \in Seq(Events)
  BY <1>0, <1>1, PaneFields, ConcatProperties, EmptySeq
<1>3. PICK again \in BOOLEAN : again = (pumps[p].retried \/ events[1] = "retrying")
  OBVIOUS
<1>4. PICK q : q = [pumps[p] EXCEPT !.at = to, !.inbox = box, !.retried = again]
  OBVIOUS
<1>5. q \in Pumps /\ q.at = to /\ q.inbox = box /\ q.s = pumps[p].s /\ q.told = pumps[p].told
  BY <1>0, <1>2, <1>4, PaneFields DEF Pumps
<1>6. pumps' = [pumps EXCEPT ![p] = q]
  BY <1>0, <1>1, <1>3, <1>4, PaneFields DEF Sends, Pumps
<1>7. pumps' \in [PumpIds -> Pumps] /\ pumps'[p] = q /\ \A o \in PumpIds \ {p} : pumps'[o] = pumps[o]
  BY <1>0, <1>5, <1>6
<1>8. to = "ended" /\ box # <<>> => box[Len(box)] = "closed"
  <2> SUFFICES ASSUME to = "ended", box # <<>> PROVE box[Len(box)] = "closed"
    OBVIOUS
  <2>1. box = pumps[p].inbox \o events
    BY <1>1
  <2>2. PICK i \in Seq(Events) : i = pumps[p].inbox
    BY <1>0, PaneFields
  <2>3. Len(events) \in Nat /\ Len(events) # 0 /\ Len(i) \in Nat
    BY LenProperties, EmptySeq
  <2>4. Len(box) = Len(i) + Len(events)
    BY <2>1, <2>2, ConcatProperties
  <2>5. box[Len(i) + Len(events)] = events[Len(events)]
    BY <2>1, <2>2, <2>3, ConcatProperties
  <2> QED
    BY <2>4, <2>5
<1>9. p = rt.pump => box # <<>>
  <2>1. pumps[p].inbox \in Seq(Events)
    BY <1>0, PaneFields
  <2> QED
    BY <1>1, <2>1, ConcatEqualIffEmpty
<1>10. RuntimeInv'
  <2>1. RuntimeInv /\ rt.pump \in PumpIds \cup {0}
    BY <1>0, PaneFields DEF PaneInv
  <2>2. \A o \in PumpIds : pumps'[o].s = pumps[o].s /\ pumps'[o].told = pumps[o].told
    BY <1>5, <1>7
  <2>3. \A o \in PumpIds : pumps[o].at # "none" => pumps'[o].at # "none"
    BY <1>5, <1>7
  <2>4. \A o \in PumpIds : pumps'[o].at \in {"dial", "live"} => pumps[o].at \in {"dial", "live"}
    BY <1>7
  <2>5. rt' = rt
    BY <1>0
  <2>6. rt'.pump # 0 => rt'.s # 0 /\ pumps'[rt'.pump].s = rt'.s /\ pumps'[rt'.pump].at # "none"
    BY <2>1, <2>2, <2>3, <2>5 DEF RuntimeInv
  <2>7. \A o \in PumpIds : pumps'[o].at \in {"dial", "live"} /\ ~pumps'[o].told => o = rt'.pump
    BY <2>1, <2>2, <2>4, <2>5 DEF RuntimeInv
  <2> QED
    BY <2>1, <2>5, <2>6, <2>7 DEF RuntimeInv
<1>11. LastWordInv'
  BY <1>5, <1>7, <1>8 DEF PaneInv, LastWordInv
<1>12. HeardInv'
  <2>1. CASE p = rt.pump
    BY <1>0, <1>5, <1>7, <1>9, <2>1 DEF HeardInv
  <2>2. CASE p # rt.pump
    BY <1>0, <1>7, <2>2, PaneFields DEF PaneInv, HeardInv
  <2> QED
    BY <2>1, <2>2
<1> QED
  BY <1>0, <1>7, <1>10, <1>11, <1>12 DEF PaneInv, PaneTypes, ShownInv, KeysGoToShown

\* A pump connects, is lost, or stops.
LEMMA PumpKeeps ==
  ASSUME PaneInv, NEW p \in PumpIds, PumpConnects(p) \/ PumpLost(p) \/ PumpStops(p)
  PROVE  PaneInv'
<1>1. /\ <<"connected">> \in Seq(Events) /\ <<"connected">> # <<>>
      /\ <<"retrying">> \in Seq(Events) /\ <<"retrying">> # <<>>
      /\ <<"closed">> \in Seq(Events) /\ <<"closed">> # <<>>
      /\ <<"lost", "closed">> \in Seq(Events) /\ <<"lost", "closed">> # <<>>
  <2>1. \A e \in Events : <<e>> \in Seq(Events) /\ <<e>> # <<>>
    OBVIOUS
  <2>2. \A d, e \in Events : <<d, e>> \in Seq(Events) /\ <<d, e>> # <<>>
    OBVIOUS
  <2>3. "connected" \in Events /\ "retrying" \in Events /\ "lost" \in Events /\ "closed" \in Events
    BY DEF Events
  <2> QED
    BY <2>1, <2>2, <2>3
<1>2. /\ <<"closed">>[Len(<<"closed">>)] = "closed"
      /\ <<"lost", "closed">>[Len(<<"lost", "closed">>)] = "closed"
  OBVIOUS
<1>3. CASE PumpConnects(p)
  BY <1>1, <1>3, SendsKeeps DEF PumpConnects
<1>4. CASE PumpLost(p)
  <2>1. CASE Sends(p, "ended", <<"lost", "closed">>)
    BY <1>1, <1>2, <1>4, <2>1, SendsKeeps DEF PumpLost
  <2>2. CASE Sends(p, "dial", <<"retrying">>)
    BY <1>1, <1>4, <2>2, SendsKeeps DEF PumpLost
  <2> QED
    BY <1>4, <2>1, <2>2 DEF PumpLost
<1>5. CASE PumpStops(p)
  BY <1>1, <1>2, <1>5, SendsKeeps DEF PumpStops
<1> QED
  BY <1>3, <1>4, <1>5

\* The pump of the runtime is told to stop.
LEMMA ToldFields ==
  ASSUME PaneTypes, NEW p \in PumpIds
  PROVE  /\ Told(p) \in [PumpIds -> Pumps] /\ Told(p)[p].told = TRUE /\ Told(p)[p].at = pumps[p].at
         /\ Told(p)[p].s = pumps[p].s /\ Told(p)[p].inbox = pumps[p].inbox
         /\ \A o \in PumpIds \ {p} : Told(p)[o] = pumps[o]
<1>1. pumps \in [PumpIds -> Pumps] /\ pumps[p] \in Pumps
  BY PaneFields DEF PaneTypes
<1>2. PICK q : q = [pumps[p] EXCEPT !.told = TRUE]
  OBVIOUS
<1>3. q \in Pumps /\ q.told = TRUE /\ q.at = pumps[p].at /\ q.s = pumps[p].s /\ q.inbox = pumps[p].inbox
  BY <1>1, <1>2 DEF Pumps
<1>4. Told(p) = [pumps EXCEPT ![p] = q]
  BY <1>1, <1>2 DEF Told, Pumps
<1>5. Told(p) \in [PumpIds -> Pumps] /\ Told(p)[p] = q /\ \A o \in PumpIds \ {p} : Told(p)[o] = pumps[o]
  BY <1>1, <1>3, <1>4
<1> QED
  BY <1>3, <1>5

\* The same when the runtime is dropped: what it has sent is dropped with it.
LEMMA DroppedFields ==
  ASSUME PaneTypes, NEW p \in PumpIds
  PROVE  /\ Dropped(p) \in [PumpIds -> Pumps] /\ Dropped(p)[p].told = TRUE /\ Dropped(p)[p].at = pumps[p].at
         /\ Dropped(p)[p].s = pumps[p].s /\ Dropped(p)[p].inbox = <<>>
         /\ \A o \in PumpIds \ {p} : Dropped(p)[o] = pumps[o]
<1>1. pumps \in [PumpIds -> Pumps] /\ pumps[p] \in Pumps
  BY PaneFields DEF PaneTypes
<1>2. <<>> \in Seq(Events)
  BY EmptySeq
<1>3. PICK q : q = [pumps[p] EXCEPT !.told = TRUE, !.inbox = <<>>]
  OBVIOUS
<1>4. q \in Pumps /\ q.told = TRUE /\ q.at = pumps[p].at /\ q.s = pumps[p].s /\ q.inbox = <<>>
  BY <1>1, <1>2, <1>3 DEF Pumps
<1>5. Dropped(p) = [pumps EXCEPT ![p] = q]
  BY <1>1, <1>3 DEF Dropped, Pumps
<1>6. Dropped(p) \in [PumpIds -> Pumps] /\ Dropped(p)[p] = q /\ \A o \in PumpIds \ {p} : Dropped(p)[o] = pumps[o]
  BY <1>1, <1>4, <1>5
<1> QED
  BY <1>4, <1>6

\* A runtime dropped: no pump is left that has not been told.
LEMMA DroppedKeeps ==
  ASSUME PaneInv, pumps' = (IF rt.pump = 0 THEN pumps ELSE Dropped(rt.pump)), rt' = NoRt,
         UNCHANGED <<app, typed, swallowed>>, turn' \in {"reconcile", "drain", "poll", "quit"},
         turn' \in {"drain", "poll"} => app.s = 0
  PROVE  PaneInv'
<1>0. PaneTypes /\ rt.pump \in PumpIds \cup {0} /\ app \in Panes /\ pumps \in [PumpIds -> Pumps]
  BY PaneFields DEF PaneInv, PaneTypes
<1>1. rt'.s = 0 /\ rt'.pump = 0 /\ rt' \in Runtimes
  BY DEF NoRt, Runtimes
<1>2. /\ pumps' \in [PumpIds -> Pumps]
      /\ \A o \in PumpIds : /\ pumps'[o].at = pumps[o].at
                            /\ pumps'[o].inbox \in {<<>>, pumps[o].inbox}
                            /\ o # rt.pump => pumps'[o] = pumps[o]
                            /\ o = rt.pump => pumps'[o].told = TRUE
  <2>1. CASE rt.pump = 0
    BY <1>0, <2>1, PaneAssumption DEF PumpIds
  <2>2. CASE rt.pump # 0
    <3>1. rt.pump \in PumpIds /\ pumps' = Dropped(rt.pump)
      BY <1>0, <2>2
    <3>2. PICK r \in PumpIds : r = rt.pump
      BY <3>1
    <3>3. /\ Dropped(r) \in [PumpIds -> Pumps] /\ Dropped(r)[r].told = TRUE /\ Dropped(r)[r].at = pumps[r].at
          /\ Dropped(r)[r].inbox = <<>> /\ \A o \in PumpIds \ {r} : Dropped(r)[o] = pumps[o]
      BY <1>0, DroppedFields
    <3> QED
      BY <3>1, <3>2, <3>3
  <2> QED
    BY <2>1, <2>2
<1>3. RuntimeInv'
  <2>1. RuntimeInv
    BY DEF PaneInv
  <2>2. \A p \in PumpIds : ~(pumps'[p].at \in {"dial", "live"} /\ ~pumps'[p].told)
    BY <1>2, <2>1 DEF RuntimeInv
  <2> QED
    BY <1>1, <2>2 DEF RuntimeInv
<1>4. LastWordInv'
  BY <1>2 DEF PaneInv, LastWordInv
<1>5. HeardInv'
  BY <1>1 DEF HeardInv
<1>6. ShownInv'
  BY <1>1 DEF ShownInv
<1> QED
  BY <1>0, <1>1, <1>2, <1>3, <1>4, <1>5, <1>6 DEF PaneInv, PaneTypes, KeysGoToShown

\* reconcile_attach stops the pump it owns and spawns another.
LEMMA ReplaceKeeps ==
  ASSUME PaneInv, Replace, app.s # 0, UNCHANGED <<app, typed, swallowed>>, turn' = "drain"
  PROVE  PaneInv'
<1>0. PaneTypes /\ rt.pump \in PumpIds \cup {0} /\ app.s \in Sessions \cup {0} /\ pumps \in [PumpIds -> Pumps]
  BY PaneFields DEF PaneInv, PaneTypes
<1>1. PICK p \in Spare : /\ pumps' = Spawned(IF rt.pump = 0 THEN pumps ELSE Dropped(rt.pump), p)
                         /\ rt' = [s |-> app.s, pump |-> p, frozen |-> FALSE]
  BY DEF Replace
<1>2. p \in PumpIds /\ pumps[p].at = "none" /\ p # 0
  BY <1>1, PaneAssumption DEF Spare, PumpIds
<1>3. RuntimeInv
  BY DEF PaneInv
<1>4. p # rt.pump
  BY <1>2, <1>3 DEF RuntimeInv
<1>5. PICK ps : ps = IF rt.pump = 0 THEN pumps ELSE Dropped(rt.pump)
  OBVIOUS
<1>6. /\ ps \in [PumpIds -> Pumps]
      /\ \A o \in PumpIds : /\ ps[o].at = pumps[o].at
                            /\ ps[o].inbox \in {<<>>, pumps[o].inbox}
                            /\ o # rt.pump => ps[o] = pumps[o]
                            /\ o = rt.pump => ps[o].told = TRUE
  <2>1. CASE rt.pump = 0
    BY <1>0, <1>5, <2>1, PaneAssumption DEF PumpIds
  <2>2. CASE rt.pump # 0
    <3>1. rt.pump \in PumpIds /\ ps = Dropped(rt.pump)
      BY <1>0, <1>5, <2>2
    <3> QED
      BY <1>0, <3>1, DroppedFields
  <2> QED
    BY <2>1, <2>2
<1>7. PICK q : q = [NoPump EXCEPT !.s = app.s, !.at = "dial"]
  OBVIOUS
<1>8. q \in Pumps /\ q.s = app.s /\ q.at = "dial" /\ q.inbox = <<>>
  <2>1. <<>> \in Seq(Events)
    BY EmptySeq
  <2> QED
    BY <1>0, <1>7, <2>1 DEF NoPump, Pumps
<1>9. pumps' = [ps EXCEPT ![p] = q]
  BY <1>1, <1>5, <1>7 DEF Spawned
<1>10. pumps' \in [PumpIds -> Pumps] /\ pumps'[p] = q /\ \A o \in PumpIds \ {p} : pumps'[o] = ps[o]
  BY <1>2, <1>6, <1>8, <1>9
<1>11. rt' \in Runtimes /\ rt'.s = app.s /\ rt'.pump = p
  BY <1>0, <1>1, <1>2 DEF Runtimes
<1>12. RuntimeInv'
  <2>1. \A o \in PumpIds : pumps'[o].at \in {"dial", "live"} /\ ~pumps'[o].told => o = p
    BY <1>3, <1>6, <1>10 DEF RuntimeInv
  <2> QED
    BY <1>2, <1>8, <1>10, <1>11, <2>1 DEF RuntimeInv
<1>13. LastWordInv'
  BY <1>6, <1>8, <1>10 DEF PaneInv, LastWordInv
<1>14. HeardInv'
  BY <1>8, <1>10, <1>11 DEF HeardInv
<1>15. ShownInv'
  BY <1>11 DEF ShownInv
<1> QED
  BY <1>0, <1>10, <1>11, <1>12, <1>13, <1>14, <1>15 DEF PaneInv, PaneTypes, KeysGoToShown

\* reconcile_attach.
LEMMA ReconcileKeeps ==
  ASSUME PaneInv, Reconcile
  PROVE  PaneInv'
<1>0. /\ PaneTypes /\ RuntimeInv /\ rt.pump \in PumpIds \cup {0} /\ app.s \in Sessions \cup {0}
      /\ UNCHANGED <<app, typed, swallowed>> /\ turn' = "drain" /\ rt \in Runtimes
  BY PaneFields DEF PaneInv, Reconcile, PaneTypes
<1>1. CASE app.s = 0 /\ rt.pump # 0
  BY <1>0, <1>1, DroppedKeeps DEF Reconcile
<1>2. CASE app.s # 0 /\ (rt.s # app.s \/ (rt.frozen /\ app.st # "detached"))
  <2>1. Replace
    BY <1>2 DEF Reconcile
  <2> QED
    BY <1>0, <1>2, <2>1, ReplaceKeeps
<1>3. CASE app.s # 0 /\ rt.s = app.s /\ app.st = "detached" /\ ~rt.frozen
  <2>1. pumps' = Told(rt.pump) /\ rt' = [rt EXCEPT !.frozen = TRUE]
    BY <1>3 DEF Reconcile
  <2>2. rt.pump # 0 /\ rt.pump \in PumpIds
    BY <1>0, <1>3 DEF RuntimeInv
  <2>3. rt' \in Runtimes /\ rt'.s = rt.s /\ rt'.pump = rt.pump
    BY <1>0, <2>1 DEF Runtimes
  <2>4. PICK p \in PumpIds : p = rt.pump
    BY <2>2
  <2>5. /\ pumps' \in [PumpIds -> Pumps] /\ pumps'[p].told = TRUE /\ pumps'[p].at = pumps[p].at
        /\ pumps'[p].s = pumps[p].s /\ pumps'[p].inbox = pumps[p].inbox
        /\ \A o \in PumpIds \ {p} : pumps'[o] = pumps[o]
    BY <1>0, <2>1, <2>4, ToldFields
  <2>6. RuntimeInv'
    BY <1>0, <2>2, <2>3, <2>4, <2>5 DEF RuntimeInv
  <2>7. LastWordInv'
    BY <2>5 DEF PaneInv, LastWordInv
  <2>8. HeardInv'
    BY <1>0, <1>3 DEF HeardInv
  <2>9. ShownInv'
    BY <1>0, <1>3, <2>3 DEF ShownInv
  <2> QED
    BY <1>0, <2>3, <2>5, <2>6, <2>7, <2>8, <2>9 DEF PaneInv, PaneTypes, KeysGoToShown
<1>4. CASE ~(\/ (app.s = 0 /\ rt.pump # 0)
             \/ (app.s # 0 /\ (rt.s # app.s \/ (rt.frozen /\ app.st # "detached")))
             \/ (app.s # 0 /\ rt.s = app.s /\ app.st = "detached" /\ ~rt.frozen))
  <2>1. UNCHANGED <<pumps, rt>>
    BY <1>4 DEF Reconcile
  <2>2. app.s = rt.s
    BY <1>0, <1>4 DEF RuntimeInv
  <2> QED
    BY <1>0, <2>1, <2>2 DEF PaneInv, PaneTypes, RuntimeInv, LastWordInv, HeardInv, ShownInv, KeysGoToShown
<1> QED
  BY <1>1, <1>2, <1>3, <1>4

\* drain_attach takes the oldest event of the channel.
LEMMA DrainKeeps ==
  ASSUME PaneInv, DrainEvent
  PROVE  PaneInv'
<1>0. /\ PaneTypes /\ RuntimeInv /\ LastWordInv /\ rt.pump \in PumpIds /\ turn = "drain" /\ turn' = turn /\ rt' = rt
      /\ typed' = typed /\ pumps \in [PumpIds -> Pumps] /\ app \in Panes
  BY PaneFields DEF PaneInv, PaneTypes, DrainEvent
<1>1. PICK p \in PumpIds : p = rt.pump
  BY <1>0
<1>2. PICK box \in Seq(Events) : box = pumps[p].inbox
  BY <1>0, PaneFields
<1>3. box # <<>> /\ Head(box) \in Events /\ Len(box) \in Nat
  BY <1>1, <1>2, HeadTailProperties, LenProperties DEF DrainEvent
<1>4. PICK rest \in Seq(Events) :
        rest = Tail(box) /\ Len(rest) = Len(box) - 1 /\ \A i \in 1..Len(rest) : rest[i] = box[i + 1]
  BY <1>3, HeadTailProperties
<1>5. PICK q : q = [pumps[p] EXCEPT !.inbox = rest]
  OBVIOUS
<1>6. q \in Pumps /\ q.at = pumps[p].at /\ q.s = pumps[p].s /\ q.told = pumps[p].told /\ q.inbox = rest
  BY <1>0, <1>3, <1>5, PaneFields DEF Pumps
<1>7. pumps' = [pumps EXCEPT ![p] = q]
  BY <1>0, <1>1, <1>2, <1>4, <1>5 DEF DrainEvent, Pumps
<1>8. pumps' \in [PumpIds -> Pumps] /\ pumps'[p] = q /\ \A o \in PumpIds \ {p} : pumps'[o] = pumps[o]
  BY <1>0, <1>6, <1>7
<1>9. PICK e \in Events : e = Head(box)
  BY <1>3
<1>10. app' = Apply(app, e)
  BY <1>1, <1>2, <1>9 DEF DrainEvent
<1>11. /\ app' \in Panes
       /\ (app'.s = app.s /\ app'.focus = app.focus) \/ (app'.s = 0 /\ app'.focus = "sidebar")
       /\ e = "closed" /\ ~app.modal => app'.s = 0 \/ app'.st = "detached"
  <2>0. app.modal \in BOOLEAN
    BY <1>0, PaneFields
  <2>1. CASE app.modal
    <3>1. app' = app
      BY <1>10, <2>0, <2>1 DEF Apply
    <3> QED
      BY <1>0, <2>1, <3>1
  <2>2. CASE ~app.modal /\ e = "closed" /\ app.st = "detached"
    <3>1. app' = app
      BY <1>10, <2>0, <2>2 DEF Apply
    <3> QED
      BY <1>0, <2>2, <3>1
  <2>3. CASE ~app.modal /\ e = "closed" /\ app.st # "detached"
    <3>1. app' = [app EXCEPT !.s = 0, !.st = "none", !.focus = "sidebar"]
      BY <1>10, <2>0, <2>3 DEF Apply
    <3> QED
      BY <1>0, <2>3, <3>1 DEF Panes
  <2>4. CASE ~app.modal /\ e # "closed" /\ app.s = rt.s
    <3>1. app' = [app EXCEPT !.st = e]
      BY <1>10, <2>0, <2>4 DEF Apply
    <3>2. app' \in Panes /\ app'.s = app.s /\ app'.focus = app.focus
      BY <1>0, <3>1 DEF Panes
    <3> QED
      BY <2>4, <3>2
  <2>5. CASE ~app.modal /\ e # "closed" /\ app.s # rt.s
    <3>1. app' = app
      BY <1>10, <2>0, <2>5 DEF Apply
    <3> QED
      BY <1>0, <2>5, <3>1
  <2> QED
    BY <2>1, <2>2, <2>3, <2>4, <2>5
<1>12. RuntimeInv'
  BY <1>0, <1>1, <1>6, <1>8 DEF RuntimeInv
<1>13. rest # <<>> => rest[Len(rest)] = box[Len(box)]
  <2>1. ASSUME rest # <<>> PROVE rest[Len(rest)] = box[Len(box)]
    <3>1. Len(rest) # 0
      BY <2>1, EmptySeq
    <3>2. Len(rest) \in 1..Len(rest) /\ Len(box) = Len(rest) + 1
      BY <1>3, <1>4, <3>1, LenProperties
    <3>3. rest[Len(rest)] = box[Len(rest) + 1]
      BY <1>4, <3>2
    <3> QED
      BY <3>2, <3>3
  <2> QED
    BY <2>1
<1>14. LastWordInv'
  <2>1. pumps[p].at = "ended" => box[Len(box)] = "closed"
    BY <1>0, <1>2, <1>3 DEF LastWordInv
  <2>2. pumps'[p].at = "ended" /\ pumps'[p].inbox # <<>> => pumps'[p].inbox[Len(pumps'[p].inbox)] = "closed"
    BY <1>6, <1>8, <1>13, <2>1
  <2> QED
    BY <1>0, <1>8, <2>2 DEF LastWordInv
<1>15. HeardInv'
  <2> SUFFICES ASSUME pumps'[p].at = "ended", rest = <<>>
               PROVE  app'.s = 0 \/ app'.st \in {"detached", "connecting"} \/ p \in swallowed'
    BY <1>0, <1>1, <1>6, <1>8 DEF HeardInv
  <2>1. Len(box) = 1
    <3>1. Len(rest) = 0
      BY EmptySeq
    <3> QED
      BY <1>3, <1>4, <3>1
  <2>2. e = "closed"
    BY <1>0, <1>2, <1>3, <1>6, <1>8, <1>9, <2>1 DEF LastWordInv
  <2>3. CASE app.modal
    BY <1>1, <1>2, <1>9, <2>2, <2>3 DEF DrainEvent
  <2>4. CASE ~app.modal
    BY <1>11, <2>2, <2>4
  <2> QED
    BY <2>3, <2>4
<1>16. ShownInv'
  BY <1>0, <1>11 DEF PaneInv, ShownInv
<1> QED
  BY <1>0, <1>8, <1>11, <1>12, <1>14, <1>15, <1>16 DEF PaneInv, PaneTypes, KeysGoToShown

\* A key or a click that leaves the pane as it is, or leaves it for "connecting" or frozen.
LEMMA HandledKeeps ==
  ASSUME PaneInv, NEW a \in Panes, Handled(a), typed'.to = typed'.shown,
         (a.s = app.s /\ a.st = app.st) \/ a.st \in {"connecting", "detached"}
  PROVE  PaneInv'
<1>1. turn' = "reconcile" /\ app' = a /\ UNCHANGED <<rt, pumps, swallowed>>
  BY DEF Handled
<1>2. HeardInv'
  BY <1>1 DEF PaneInv, HeardInv
<1>3. RuntimeInv' /\ LastWordInv' /\ ShownInv'
  BY <1>1 DEF PaneInv, RuntimeInv, LastWordInv, ShownInv
<1> QED
  BY <1>1, <1>2, <1>3 DEF PaneInv, PaneTypes, KeysGoToShown

\* The poll: a key, a click or nothing.
LEMMA PollKeeps ==
  ASSUME PaneInv, PollEnds \/ UserStep
  PROVE  PaneInv'
<1>0. PaneTypes /\ app \in Panes /\ typed.to = typed.shown /\ app.modal \in BOOLEAN /\ rt.pump \in PumpIds \cup {0}
  BY PaneFields DEF PaneInv, PaneTypes, KeysGoToShown
<1>1. CASE PollEnds
  BY <1>0, <1>1, HandledKeeps DEF PollEnds
<1>2. CASE TypeKey
  <2>1. turn = "poll" /\ Handled(app) /\ app.focus = "transcript" /\ rt.pump # 0
    BY <1>2 DEF TypeKey, Handled, InPane
  <2>2. app.s = rt.s
    BY <2>1 DEF PaneInv, ShownInv
  <2>3. pumps[rt.pump].s = app.s
    BY <2>1, <2>2 DEF PaneInv, RuntimeInv
  <2>4. typed'.to = typed'.shown
    BY <1>2, <2>3 DEF TypeKey
  <2> QED
    BY <1>0, <2>1, <2>4, HandledKeeps
<1>3. CASE Detach
  <2>1. PICK a : a = [app EXCEPT !.st = "detached", !.focus = "sidebar"]
    OBVIOUS
  <2>2. a \in Panes /\ a.st = "detached"
    BY <1>0, <2>1 DEF Panes
  <2>3. Handled(a) /\ typed' = typed
    BY <1>3, <2>1 DEF Detach
  <2> QED
    BY <1>0, <2>2, <2>3, HandledKeeps
<1>4. CASE EnterRow
  <2>1. PICK s \in Sessions : Handled([app EXCEPT !.s = s, !.st = "connecting", !.focus = "transcript"])
    BY <1>4 DEF EnterRow
  <2>2. PICK a : a = [app EXCEPT !.s = s, !.st = "connecting", !.focus = "transcript"]
    OBVIOUS
  <2>3. a \in Panes /\ a.st = "connecting"
    BY <1>0, <2>2 DEF Panes
  <2>4. Handled(a) /\ typed' = typed
    BY <1>4, <2>1, <2>2 DEF EnterRow
  <2> QED
    BY <1>0, <2>3, <2>4, HandledKeeps
<1>5. CASE SetTab
  <2>1. PICK t \in {"sessions", "crons"} : Handled([app EXCEPT !.tab = t, !.focus = "sidebar"])
    BY <1>5 DEF SetTab
  <2>2. PICK a : a = [app EXCEPT !.tab = t, !.focus = "sidebar"]
    OBVIOUS
  <2>3. a \in Panes /\ a.s = app.s /\ a.st = app.st
    BY <1>0, <2>2 DEF Panes
  <2>4. Handled(a) /\ typed' = typed
    BY <1>5, <2>1, <2>2 DEF SetTab
  <2> QED
    BY <1>0, <2>3, <2>4, HandledKeeps
<1>6. CASE FocusEditor
  <2>1. PICK f \in {"sidebar", "main"} : f = IF app.focus = "main" THEN "sidebar" ELSE "main"
    OBVIOUS
  <2>2. PICK a : a = [app EXCEPT !.focus = f]
    OBVIOUS
  <2>3. a \in Panes /\ a.s = app.s /\ a.st = app.st
    BY <1>0, <2>2 DEF Panes
  <2>4. Handled(a) /\ typed' = typed
    BY <1>0, <1>6, <2>1, <2>2 DEF FocusEditor, Panes
  <2> QED
    BY <1>0, <2>3, <2>4, HandledKeeps
<1>7. CASE ToggleModal
  <2>1. PICK m \in BOOLEAN : m = ~app.modal
    BY <1>0
  <2>2. PICK a : a = [app EXCEPT !.modal = m]
    OBVIOUS
  <2>3. a \in Panes /\ a.s = app.s /\ a.st = app.st
    BY <1>0, <2>2 DEF Panes
  <2>4. Handled(a) /\ typed' = typed
    BY <1>0, <1>7, <2>1, <2>2 DEF ToggleModal, Panes
  <2> QED
    BY <1>0, <2>3, <2>4, HandledKeeps
<1>8. CASE QuitApp
  BY <1>8, DroppedKeeps DEF QuitApp
<1> QED
  BY <1>1, <1>2, <1>3, <1>4, <1>5, <1>6, <1>7, <1>8 DEF UserStep

\* PaneInv is inductive.
LEMMA PaneStep == PaneInv /\ [AttachNext]_attachVars => PaneInv'
<1> SUFFICES ASSUME PaneInv, [AttachNext]_attachVars PROVE PaneInv'
  OBVIOUS
<1>1. CASE \E p \in PumpIds : PumpConnects(p) \/ PumpLost(p) \/ PumpStops(p)
  BY <1>1, PumpKeeps
<1>2. CASE Reconcile
  BY <1>2, ReconcileKeeps
<1>3. CASE DrainEvent
  BY <1>3, DrainKeeps
<1>4. CASE DrainEnds
  BY <1>4 DEF DrainEnds, PaneInv, PaneTypes, RuntimeInv, ShownInv, LastWordInv, HeardInv, KeysGoToShown
<1>5. CASE PollEnds \/ UserStep
  BY <1>5, PollKeeps
<1>6. CASE UNCHANGED attachVars
  BY <1>6 DEF attachVars, PaneInv, PaneTypes, RuntimeInv, ShownInv, LastWordInv, HeardInv, KeysGoToShown
<1> QED
  BY <1>1, <1>2, <1>3, <1>4, <1>5, <1>6 DEF AttachNext

\* Before the first frame nothing is attached.
LEMMA PaneStart == AttachInit => PaneInv
<1> SUFFICES ASSUME AttachInit PROVE PaneInv
  OBVIOUS
<1>1. app \in Panes
  BY DEF AttachInit, Panes
<1>2. rt \in Runtimes /\ rt.s = 0 /\ rt.pump = 0
  BY DEF AttachInit, NoRt, Runtimes
<1>3. <<>> \in Seq(Events)
  BY EmptySeq
<1>4. NoPump \in Pumps /\ NoPump.at = "none"
  BY <1>3 DEF NoPump, Pumps
<1>5. pumps \in [PumpIds -> Pumps] /\ \A p \in PumpIds : pumps[p].at = "none"
  BY <1>4 DEF AttachInit
<1> QED
  BY <1>1, <1>2, <1>5
     DEF AttachInit, PaneInv, PaneTypes, RuntimeInv, ShownInv, LastWordInv, HeardInv, KeysGoToShown

\* The invariant says what the pane promises.
LEMMA PaneMeans == PaneInv => PaneFollowsPump
<1> SUFFICES ASSUME PaneInv PROVE PaneFollowsPump
  OBVIOUS
<1>1. PICK free : free = {p \in PumpIds : pumps[p].at \in {"dial", "live"} /\ ~pumps[p].told}
  OBVIOUS
<1>2. free \subseteq {rt.pump}
  BY <1>1 DEF PaneInv, RuntimeInv
<1>3. IsFiniteSet({rt.pump}) /\ Cardinality({rt.pump}) = 1
  BY FS_Singleton
<1>4. Cardinality(free) <= 1
  BY <1>2, <1>3, FS_Subset
<1> QED
  BY <1>1, <1>4 DEF PaneInv, PaneFollowsPump, OnePump, DeadPaneIsLeft, HeardInv

\* Whatever the keys, the clicks, the modals, and whenever the pumps connect, fail and
\* stop, keys typed in the pane go to the session it shows, at most one pump has not been
\* told to stop, and the pane of a pump that has ended is left (reconcile_attach,
\* drain_attach, feed_key).  For any sessions and any number of pumps.
THEOREM PaneStaysWithPump == AttachSpec => []PaneFollowsPump
<1>1. AttachSpec => []PaneInv
  BY PaneStart, PaneStep, PTL DEF AttachSpec
<1> QED
  BY <1>1, PaneMeans, PTL

-----------------------------------------------------------------------------
(* The crons tab: CronsTab *)

CronRows == [id : Nat, on : BOOLEAN, text : Texts]

CronTypes ==
  /\ stored \in Seq(CronRows) /\ list \in Seq(CronRows) /\ draft \in Seq(CronRows)

\* A draft is enabled only if its cron was.
DraftInv == draft # <<>> /\ draft[1].on => draft[1].id \in confirmed

CronInv == CronTypes /\ DraftInv /\ CronsTabIsTrue

\* A set of numbers that is not empty has a least element, and it is its Min.
LEMMA LeastOf ==
  ASSUME NEW S \in SUBSET Nat, S # {}
  PROVE  Min(S) \in S /\ \A y \in S : Min(S) <= y
<1>1. PICK R : R = OpToRel(<, Nat)
  OBVIOUS
<1>2. IsWellFoundedOn(R, Nat)
  BY <1>1, NatLessThanWellFounded
<1>3. PICK x \in S : \A y \in S : <<y, x>> \notin R
  BY <1>2, WFMin
<1>4. \A m, n \in Nat : n < m => <<n, m>> \in R
  BY <1>1 DEF OpToRel
<1>5. \A y \in S : y \in Nat /\ x \in Nat /\ ~(y < x)
  BY <1>3, <1>4
<1>6. \A y \in S : x <= y
  BY <1>5
<1> QED
  BY <1>6 DEF Min

\* position finds the first cron of an id, or says that there is none.
LEMMA PositionFinds ==
  ASSUME NEW crons \in Seq(CronRows), NEW id
  PROVE  /\ PositionIn(crons, id) # 0 =>
              PositionIn(crons, id) \in 1..Len(crons) /\ crons[PositionIn(crons, id)].id = id
         /\ PositionIn(crons, id) = 0 => \A i \in 1..Len(crons) : crons[i].id # id
<1>1. PICK I : I = {i \in 1..Len(crons) : crons[i].id = id}
  OBVIOUS
<1>2. PositionIn(crons, id) = IF I # {} THEN Min(I) ELSE 0
  BY <1>1 DEF PositionIn, SelectInSeq
<1>3. I \in SUBSET Nat
  BY <1>1
<1>4. CASE I = {}
  BY <1>1, <1>2, <1>4
<1>5. CASE I # {}
  <2>1. Min(I) \in I
    BY <1>3, <1>5, LeastOf
  <2>2. Min(I) \in 1..Len(crons) /\ crons[Min(I)].id = id
    BY <1>1, <2>1
  <2>3. Min(I) # 0
    BY <2>2, LenProperties
  <2> QED
    BY <1>2, <1>5, <2>2, <2>3
<1> QED
  BY <1>4, <1>5

\* A sequence of crons, element by element.
LEMMA CronFields ==
  ASSUME NEW crons \in Seq(CronRows)
  PROVE  /\ Len(crons) \in Nat /\ DOMAIN crons = 1..Len(crons)
         /\ \A i \in 1..Len(crons) : /\ crons[i] \in CronRows /\ crons[i].id \in Nat /\ crons[i].on \in BOOLEAN
                                     /\ crons[i].text \in Texts
<1>1. Len(crons) \in Nat /\ DOMAIN crons = 1..Len(crons) /\ \A i \in 1..Len(crons) : crons[i] \in CronRows
  BY LenProperties, ElementOfSeq
<1> QED
  BY <1>1 DEF CronRows

\* What the source may store: every id once, enabled only if confirmed.
Fit(crons, asked) ==
  /\ crons \in Seq(CronRows)
  /\ \A i \in 1..Len(crons) : crons[i].on => crons[i].id \in asked
  /\ \A i, j \in 1..Len(crons) : crons[i].id = crons[j].id => i = j

\* One row replaced by a row of its id.
LEMMA ReplacedFits ==
  ASSUME NEW crons, NEW asked, NEW more, Fit(crons, asked), asked \subseteq more, NEW k \in 1..Len(crons),
         NEW c \in CronRows, c.id = crons[k].id, c.on => c.id \in more
  PROVE  Fit([crons EXCEPT ![k] = c], more)
<1>1. crons \in Seq(CronRows)
  BY DEF Fit
<1>2. PICK new : new = [crons EXCEPT ![k] = c]
  OBVIOUS
<1>3. new \in Seq(CronRows) /\ Len(new) = Len(crons) /\ new[k] = c /\ \A i \in 1..Len(crons) \ {k} : new[i] = crons[i]
  BY <1>1, <1>2, ExceptSeq, CronFields
<1>4. \A i \in 1..Len(new) : new[i].id = crons[i].id
  BY <1>3
<1>5. \A i \in 1..Len(new) : new[i].on => new[i].id \in more
  BY <1>3 DEF Fit
<1>6. Fit(new, more)
  BY <1>3, <1>4, <1>5 DEF Fit
<1> QED
  BY <1>2, <1>6

\* upsert keeps the ids apart.
LEMMA UpsertFits ==
  ASSUME NEW crons, NEW asked, Fit(crons, asked), NEW c \in CronRows, c.on => c.id \in asked
  PROVE  Fit(Upserted(crons, c), asked)
<1>1. crons \in Seq(CronRows)
  BY DEF Fit
<1>2. PICK pos : pos = PositionIn(crons, c.id)
  OBVIOUS
<1>3. CASE pos # 0
  <2>1. pos \in 1..Len(crons) /\ crons[pos].id = c.id
    BY <1>1, <1>2, <1>3, PositionFinds
  <2>2. Fit([crons EXCEPT ![pos] = c], asked)
    BY <2>1, ReplacedFits
  <2> QED
    BY <1>2, <1>3, <2>2 DEF Upserted
<1>4. CASE pos = 0
  <2>1. \A i \in 1..Len(crons) : crons[i].id # c.id
    BY <1>1, <1>2, <1>4, PositionFinds
  <2>2. PICK new : new = Append(crons, c)
    OBVIOUS
  <2>3. /\ new \in Seq(CronRows) /\ Len(new) = Len(crons) + 1 /\ new[Len(crons) + 1] = c
        /\ \A i \in 1..Len(crons) : new[i] = crons[i]
    BY <1>1, <2>2, AppendProperties
  <2>4. Len(crons) \in Nat /\ \A i \in 1..Len(new) : i = Len(crons) + 1 \/ i \in 1..Len(crons)
    BY <1>1, <2>3, LenProperties
  <2>5. \A i \in 1..Len(new) : new[i].on => new[i].id \in asked
    BY <2>3, <2>4 DEF Fit
  <2>6. \A i, j \in 1..Len(new) : new[i].id = new[j].id => i = j
    BY <2>1, <2>3, <2>4 DEF Fit
  <2>7. Fit(new, asked)
    BY <2>3, <2>5, <2>6 DEF Fit
  <2> QED
    BY <1>2, <1>4, <2>2, <2>7 DEF Upserted
<1> QED
  BY <1>3, <1>4

\* set_enabled writes one flag.
LEMMA EnabledFits ==
  ASSUME NEW crons, NEW asked, NEW more, Fit(crons, asked), asked \subseteq more, NEW id, NEW on \in BOOLEAN,
         on => id \in more
  PROVE  Fit(WithEnabled(crons, id, on), more)
<1>1. crons \in Seq(CronRows)
  BY DEF Fit
<1>2. PICK pos : pos = PositionIn(crons, id)
  OBVIOUS
<1>3. CASE pos # 0
  <2>1. pos \in 1..Len(crons) /\ crons[pos].id = id /\ crons[pos] \in CronRows
    BY <1>1, <1>2, <1>3, PositionFinds, CronFields
  <2>2. PICK c : c = [crons[pos] EXCEPT !.on = on]
    OBVIOUS
  <2>3. c \in CronRows /\ c.id = id /\ c.on = on
    BY <2>1, <2>2 DEF CronRows
  <2>4. Fit([crons EXCEPT ![pos] = c], more)
    BY <2>1, <2>3, ReplacedFits
  <2>5. [crons EXCEPT ![pos].on = on] = [crons EXCEPT ![pos] = c]
    BY <1>1, <2>1, <2>2, CronFields DEF CronRows
  <2> QED
    BY <1>2, <1>3, <2>4, <2>5 DEF WithEnabled
<1>4. CASE pos = 0
  <2>1. Fit(crons, more)
    BY DEF Fit
  <2> QED
    BY <1>2, <1>4, <2>1 DEF WithEnabled
<1> QED
  BY <1>3, <1>4

\* delete leaves the other crons, and none of its id.
LEMMA DeletedFits ==
  ASSUME NEW crons, NEW asked, Fit(crons, asked), NEW id
  PROVE  Fit(Without(crons, id), asked \ {id})
<1>1. crons \in Seq(CronRows) /\ Len(crons) \in Nat
  BY LenProperties DEF Fit
<1>2. PICK pos : pos = PositionIn(crons, id)
  OBVIOUS
<1>3. CASE pos # 0
  <2>1. pos \in 1..Len(crons) /\ crons[pos].id = id
    BY <1>1, <1>2, <1>3, PositionFinds
  <2>2. PICK before : before = SubSeq(crons, 1, pos - 1)
    OBVIOUS
  <2>3. PICK after : after = SubSeq(crons, pos + 1, Len(crons))
    OBVIOUS
  <2>4. before \in Seq(CronRows) /\ Len(before) = pos - 1 /\ \A i \in 1..(pos - 1) : before[i] = crons[i]
    <3>1. 1 \in 1..Len(crons) + 1 /\ pos - 1 \in 0..Len(crons)
      BY <1>1, <2>1
    <3> QED
      BY <1>1, <2>1, <2>2, <3>1, SubSeqProperties
  <2>5. /\ after \in Seq(CronRows) /\ Len(after) = Len(crons) - pos
        /\ \A i \in 1..(Len(crons) - pos) : after[i] = crons[pos + i]
    <3>1. pos + 1 \in 1..Len(crons) + 1 /\ Len(crons) \in 0..Len(crons)
      BY <1>1, <2>1
    <3> QED
      BY <1>1, <2>1, <2>3, <3>1, SubSeqProperties
  <2>6. PICK new : new = before \o after
    OBVIOUS
  <2>7. /\ new \in Seq(CronRows) /\ Len(new) = Len(before) + Len(after)
        /\ \A i \in 1..(Len(before) + Len(after)) :
             new[i] = IF i <= Len(before) THEN before[i] ELSE after[i - Len(before)]
    BY <2>4, <2>5, <2>6, ConcatProperties
  <2>8. \A i \in 1..Len(new) : new[i] = IF i < pos THEN crons[i] ELSE crons[i + 1]
    <3> SUFFICES ASSUME NEW i \in 1..Len(new) PROVE new[i] = IF i < pos THEN crons[i] ELSE crons[i + 1]
      OBVIOUS
    <3>1. CASE i < pos
      <4>1. i <= Len(before) /\ i \in 1..(pos - 1) /\ i \in 1..(Len(before) + Len(after))
        BY <1>1, <2>1, <2>4, <2>5, <2>7, <3>1
      <4> QED
        BY <2>4, <2>7, <3>1, <4>1
    <3>2. CASE ~(i < pos)
      <4>1. PICK k : k = i - (pos - 1)
        OBVIOUS
      <4>2. k \in 1..(Len(crons) - pos) /\ ~(i <= Len(before)) /\ k = i - Len(before) /\ pos + k = i + 1
        <5>1. PICK n \in Nat : n = Len(crons)
          BY <1>1
        <5>2. pos \in 1..n /\ i \in 1..((pos - 1) + (n - pos)) /\ Len(before) = pos - 1
          BY <2>1, <2>4, <2>5, <2>7, <5>1
        <5> QED
          BY <3>2, <4>1, <5>1, <5>2
      <4>3. new[i] = after[k]
        BY <2>7, <4>2
      <4> QED
        BY <2>5, <3>2, <4>2, <4>3
    <3> QED
      BY <3>1, <3>2
  <2>9. /\ \A i \in 1..Len(new) : i < pos => i \in 1..Len(crons) /\ i # pos
        /\ \A i \in 1..Len(new) : ~(i < pos) => i + 1 \in 1..Len(crons) /\ i + 1 # pos
    BY <1>1, <2>1, <2>4, <2>5, <2>7
  <2>10. \A i \in 1..Len(new) : new[i].on => new[i].id \in asked \ {id}
    BY <2>1, <2>8, <2>9 DEF Fit
  <2>11. \A i, j \in 1..Len(new) : new[i].id = new[j].id => i = j
    <3> SUFFICES ASSUME NEW i \in 1..Len(new), NEW j \in 1..Len(new), new[i].id = new[j].id PROVE i = j
      OBVIOUS
    <3>1. PICK k \in 1..Len(crons) : new[i] = crons[k] /\ k = IF i < pos THEN i ELSE i + 1
      BY <2>8, <2>9
    <3>2. PICK l \in 1..Len(crons) : new[j] = crons[l] /\ l = IF j < pos THEN j ELSE j + 1
      BY <2>8, <2>9
    <3>3. k = l
      BY <3>1, <3>2 DEF Fit
    <3> QED
      BY <2>1, <2>9, <3>1, <3>2, <3>3
  <2>12. Fit(new, asked \ {id})
    BY <2>7, <2>10, <2>11 DEF Fit
  <2> QED
    BY <1>2, <1>3, <2>2, <2>3, <2>6, <2>12 DEF Without, RemoveAt
<1>4. CASE pos = 0
  <2>1. \A i \in 1..Len(crons) : crons[i].id # id
    BY <1>1, <1>2, <1>4, PositionFinds
  <2>2. Fit(crons, asked \ {id})
    BY <2>1 DEF Fit
  <2> QED
    BY <1>2, <1>4, <2>2 DEF Without
<1> QED
  BY <1>3, <1>4

\* The list and the source hold crons that fit; what the tab promises follows.
LEMMA CronMeans ==
  CronInv <=> /\ Fit(stored, confirmed) /\ list \in Seq(CronRows) /\ draft \in Seq(CronRows)
              /\ DraftInv /\ ListMatchesSource
<1>1. stored \in Seq(CronRows) => DOMAIN stored = 1..Len(stored)
  BY CronFields
<1> QED
  BY <1>1 DEF CronInv, CronTypes, Fit, CronsTabIsTrue, EnabledWasConfirmed, IdsAreUnique

\* refresh_crons.
LEMMA RefreshKeeps ==
  ASSUME NEW crons, Refresh(crons), Fit(crons, confirmed')
  PROVE  CronInv'
<1>1. stored' = crons /\ list' = crons /\ draft' = <<>>
  BY DEF Refresh
<1>2. draft' \in Seq(CronRows) /\ ~(draft' # <<>>)
  BY <1>1, EmptySeq
<1>3. DOMAIN crons = 1..Len(crons)
  BY CronFields DEF Fit
<1> QED
  BY <1>1, <1>2, <1>3 DEF CronInv, CronTypes, Fit, CronsTabIsTrue, EnabledWasConfirmed, IdsAreUnique, DraftInv, ListMatchesSource

\* A step that leaves source, list, draft and confirmations alone, and opens no dialog of
\* an enabling.
LEMMA QuietTab ==
  ASSUME CronInv, UNCHANGED <<stored, list, draft, confirmed>>, ask.kind # "enable"
  PROVE  CronInv'
  BY DEF CronInv, CronTypes, DraftInv, CronsTabIsTrue, ListMatchesSource, EnabledWasConfirmed, IdsAreUnique

\* A new draft over the same source.
LEMMA DraftKeeps ==
  ASSUME CronInv, UNCHANGED <<stored, list, confirmed>>, ask.kind # "enable",
         draft' = <<>> \/ \E c \in CronRows : draft' = <<c>> /\ (c.on => c.id \in confirmed)
  PROVE  CronInv'
<1>1. draft' \in Seq(CronRows) /\ DraftInv'
  <2>1. CASE draft' = <<>>
    <3>1. ~(draft' # <<>>)
      BY <2>1
    <3> QED
      BY <2>1, <3>1, EmptySeq DEF DraftInv
  <2>2. CASE draft' # <<>>
    <3>1. PICK c \in CronRows : draft' = <<c>> /\ (c.on => c.id \in confirmed)
      BY <2>2
    <3>2. draft' \in Seq(CronRows) /\ draft'[1] = c
      BY <3>1
    <3> QED
      BY <3>1, <3>2 DEF DraftInv
  <2> QED
    BY <2>1, <2>2
<1> QED
  BY <1>1 DEF CronInv, CronTypes, CronsTabIsTrue, ListMatchesSource, EnabledWasConfirmed, IdsAreUnique

\* The row under the cursor, no enabling being asked for.
LEMMA SelectedFits ==
  ASSUME CronInv, ask.kind # "enable", Selected # <<>>
  PROVE  /\ pick \in 1..Len(list) /\ Selected[1] = list[pick] /\ Selected[1] \in CronRows
         /\ Selected[1].on => Selected[1].id \in confirmed
<1>1. list = stored /\ Fit(stored, confirmed)
  BY CronMeans DEF ListMatchesSource
<1>2. list \in Seq(CronRows) /\ DOMAIN list = 1..Len(list)
  BY <1>1, CronFields DEF Fit
<1>3. pick \in 1..Len(list) /\ Selected = <<list[pick]>>
  BY <1>2 DEF Selected
<1>4. Selected[1] = list[pick] /\ list[pick] \in CronRows
  BY <1>2, <1>3, CronFields
<1> QED
  BY <1>1, <1>3, <1>4 DEF Fit

\* on_cron_save.
LEMMA SaveKeeps ==
  ASSUME CronInv, SaveDraft
  PROVE  CronInv'
<1>1. draft # <<>> /\ draft \in Seq(CronRows) /\ confirmed' = confirmed /\ Fit(stored, confirmed)
  BY CronMeans DEF SaveDraft
<1>2. PICK c \in CronRows : c = draft[1]
  <2>1. Len(draft) \in Nat \ {0}
    BY <1>1, EmptySeq
  <2>2. 1 \in 1..Len(draft)
    BY <2>1
  <2> QED
    BY <1>1, <2>2, ElementOfSeq
<1>3. c.on => c.id \in confirmed
  BY <1>1, <1>2, CronMeans DEF DraftInv
<1>4. PICK crons : crons = Upserted(stored, c)
  OBVIOUS
<1>5. Fit(crons, confirmed)
  BY <1>1, <1>3, <1>4, UpsertFits
<1>6. stored' = crons /\ list' = crons /\ draft' = <<>>
  BY <1>2, <1>4 DEF SaveDraft
<1>7. draft' \in Seq(CronRows) /\ ~(draft' # <<>>)
  BY <1>6, EmptySeq
<1>8. DOMAIN crons = 1..Len(crons)
  BY <1>5, CronFields DEF Fit
<1> QED
  BY <1>1, <1>5, <1>6, <1>7, <1>8
     DEF CronInv, CronTypes, Fit, CronsTabIsTrue, EnabledWasConfirmed, IdsAreUnique, DraftInv, ListMatchesSource

\* on_cron_toggle.
LEMMA ToggleKeeps ==
  ASSUME CronInv, Toggle
  PROVE  CronInv'
<1>0. /\ Fit(stored, confirmed) /\ confirmed' = confirmed /\ ask.kind # "enable"
      /\ Selected # <<>> /\ list \in Seq(CronRows)
  BY CronMeans DEF Toggle, Free, NoAsk
<1>1. PICK c \in CronRows : c = Selected[1] /\ pick \in 1..Len(list) /\ c = list[pick]
  BY <1>0, SelectedFits
<1>2. CASE c.on
  <2>1. Refresh(WithEnabled(stored, c.id, FALSE))
    BY <1>1, <1>2 DEF Toggle
  <2>2. Fit(WithEnabled(stored, c.id, FALSE), confirmed)
    BY <1>0, EnabledFits
  <2> QED
    BY <1>0, <2>1, <2>2, RefreshKeeps
<1>3. CASE ~c.on
  <2>1. list' = [list EXCEPT ![pick].on = TRUE] /\ ask' = [kind |-> "enable", id |-> c.id] /\ UNCHANGED <<stored, draft>>
    BY <1>1, <1>3 DEF Toggle
  <2>2. PICK d : d = [c EXCEPT !.on = TRUE]
    OBVIOUS
  <2>3. d \in CronRows
    BY <2>2 DEF CronRows
  <2>4. list' = [list EXCEPT ![pick] = d]
    BY <1>0, <1>1, <2>1, <2>2, CronFields
  <2>5. list' \in Seq(CronRows)
    BY <1>0, <1>1, <2>3, <2>4, ExceptSeq
  <2>6. ListMatchesSource'
    BY <2>1 DEF ListMatchesSource
  <2> QED
    BY <1>0, <2>1, <2>5, <2>6 DEF CronInv, CronTypes, DraftInv, CronsTabIsTrue, EnabledWasConfirmed, IdsAreUnique
<1> QED
  BY <1>2, <1>3

\* The dialogs.
LEMMA AnsweredKeeps ==
  ASSUME CronInv, ConfirmEnable \/ CancelEnable \/ ConfirmDeleteCron
  PROVE  CronInv'
<1>0. Fit(stored, confirmed)
  BY CronMeans
<1>1. CASE ConfirmEnable
  <2>1. Refresh(WithEnabled(stored, ask.id, TRUE)) /\ confirmed' = confirmed \cup {ask.id}
    BY <1>1 DEF ConfirmEnable
  <2>2. PICK more : more = confirmed \cup {ask.id}
    OBVIOUS
  <2>3. Fit(WithEnabled(stored, ask.id, TRUE), more)
    BY <1>0, <2>2, EnabledFits
  <2> QED
    BY <1>0, <2>1, <2>2, <2>3, RefreshKeeps
<1>2. CASE CancelEnable
  <2>1. Refresh(WithEnabled(stored, ask.id, FALSE)) /\ confirmed' = confirmed
    BY <1>2 DEF CancelEnable
  <2>2. Fit(WithEnabled(stored, ask.id, FALSE), confirmed)
    BY <1>0, EnabledFits
  <2> QED
    BY <1>0, <2>1, <2>2, RefreshKeeps
<1>3. CASE ConfirmDeleteCron
  <2>1. Refresh(Without(stored, ask.id)) /\ confirmed' = confirmed \ {ask.id}
    BY <1>3 DEF ConfirmDeleteCron
  <2>2. Fit(Without(stored, ask.id), confirmed \ {ask.id})
    BY <1>0, DeletedFits
  <2> QED
    BY <1>0, <2>1, <2>2, RefreshKeeps
<1> QED
  BY <1>1, <1>2, <1>3

\* CronInv is inductive.
LEMMA CronStep == CronInv /\ [CronNext]_cronVars => CronInv'
<1> SUFFICES ASSUME CronInv, [CronNext]_cronVars PROVE CronInv'
  OBVIOUS
<1>0. Free => ask.kind # "enable"
  BY DEF Free, NoAsk
<1>1. CASE MovePick \/ SwitchPane \/ OpenAsk \/ CloseAsk
  <2>1. UNCHANGED <<stored, list, draft, confirmed>> /\ ask.kind # "enable"
    BY <1>0, <1>1 DEF MovePick, SwitchPane, OpenAsk, CloseAsk
  <2> QED
    BY <2>1, QuietTab
<1>2. CASE NewCron
  <2>1. list \in Seq(CronRows) /\ Len(list) + 1 \in Nat
    BY LenProperties DEF CronInv, CronTypes
  <2>2. PICK c : c = [id |-> Len(list) + 1, on |-> FALSE, text |-> "edited"]
    OBVIOUS
  <2>3. c \in CronRows /\ ~c.on
    BY <2>1, <2>2 DEF CronRows, Texts
  <2>4. draft' = <<c>> /\ UNCHANGED <<stored, list, confirmed>> /\ ask.kind # "enable"
    BY <1>0, <1>2, <2>2 DEF NewCron
  <2> QED
    BY <2>3, <2>4, DraftKeeps
<1>3. CASE EditField
  <2>1. UNCHANGED <<stored, list, confirmed>> /\ ask.kind # "enable"
    BY <1>0, <1>3 DEF EditField
  <2>2. PICK base : base = IF draft # <<>> THEN draft[1] ELSE Selected[1]
    OBVIOUS
  <2>3. base \in CronRows /\ (base.on => base.id \in confirmed)
    <3>1. CASE draft # <<>>
      <4>1. draft \in Seq(CronRows) /\ DraftInv
        BY DEF CronInv, CronTypes
      <4>2. Len(draft) \in Nat \ {0}
        BY <3>1, <4>1, EmptySeq
      <4>3. 1 \in 1..Len(draft)
        BY <4>2
      <4> QED
        BY <2>2, <3>1, <4>1, <4>3, ElementOfSeq DEF DraftInv
    <3>2. CASE ~(draft # <<>>)
      <4>1. Selected # <<>> /\ base = Selected[1]
        BY <1>3, <2>2, <3>2 DEF EditField
      <4> QED
        BY <2>1, <4>1, SelectedFits
    <3> QED
      BY <3>1, <3>2
  <2>4. PICK t \in Texts : draft' = <<[base EXCEPT !.text = t]>>
    BY <1>3, <2>2 DEF EditField
  <2>5. PICK c : c = [base EXCEPT !.text = t]
    OBVIOUS
  <2>6. c \in CronRows /\ c.on = base.on /\ c.id = base.id
    BY <2>3, <2>5 DEF CronRows
  <2>7. draft' = <<c>>
    BY <2>4, <2>5
  <2> QED
    BY <2>1, <2>3, <2>6, <2>7, DraftKeeps
<1>4. CASE SaveDraft
  BY <1>4, SaveKeeps
<1>5. CASE CancelDraft
  <2>1. draft' = <<>> /\ UNCHANGED <<stored, list, confirmed>> /\ ask.kind # "enable"
    BY <1>0, <1>5 DEF CancelDraft
  <2> QED
    BY <2>1, DraftKeeps
<1>6. CASE Toggle
  BY <1>6, ToggleKeeps
<1>7. CASE ConfirmEnable \/ CancelEnable \/ ConfirmDeleteCron
  BY <1>7, AnsweredKeeps
<1>8. CASE UNCHANGED cronVars
  BY <1>8 DEF cronVars, CronInv, CronTypes, DraftInv, CronsTabIsTrue, ListMatchesSource, EnabledWasConfirmed, IdsAreUnique
<1> QED
  BY <1>1, <1>2, <1>3, <1>4, <1>5, <1>6, <1>7, <1>8 DEF CronNext

\* The fixture of MockCronSource.
LEMMA CronStart == CronInit => CronInv
<1> SUFFICES ASSUME CronInit PROVE CronInv
  OBVIOUS
<1>1. PICK a : a = [id |-> 11, on |-> TRUE, text |-> "kept"]
  OBVIOUS
<1>2. PICK b : b = [id |-> 12, on |-> FALSE, text |-> "kept"]
  OBVIOUS
<1>3. a \in CronRows /\ b \in CronRows /\ a.id = 11 /\ b.id = 12 /\ ~b.on
  BY <1>1, <1>2 DEF CronRows, Texts
<1>4. stored = <<a, b>> /\ list = stored /\ ~(draft # <<>>) /\ draft = <<>> /\ confirmed = {11}
  BY <1>1, <1>2 DEF CronInit, Fixture
<1>5. stored \in Seq(CronRows) /\ Len(stored) = 2 /\ stored[1] = a /\ stored[2] = b
  BY <1>3, <1>4
<1>6. DOMAIN stored = 1..2
  BY <1>5, CronFields
<1>7. draft \in Seq(CronRows)
  BY <1>4, EmptySeq
<1>8. \A i \in 1..2 : i = 1 \/ i = 2
  OBVIOUS
<1>9. EnabledWasConfirmed
  BY <1>3, <1>4, <1>5, <1>6, <1>8 DEF EnabledWasConfirmed
<1>10. IdsAreUnique
  BY <1>3, <1>5, <1>6, <1>8 DEF IdsAreUnique
<1> QED
  BY <1>4, <1>5, <1>7, <1>9, <1>10 DEF CronInv, CronTypes, DraftInv, CronsTabIsTrue, ListMatchesSource

\* Whatever is edited, saved, toggled, confirmed, cancelled or deleted, and in whichever
\* order: the list shows what the source has, a cron is enabled only if its dialog said
\* so, and no id is stored twice.  For any number of crons.
THEOREM CronsTabStaysTrue == CronSpec => []CronsTabIsTrue
<1>1. CronInv => CronsTabIsTrue
  BY DEF CronInv
<1> QED
  BY <1>1, CronStart, CronStep, PTL DEF CronSpec

-----------------------------------------------------------------------------
(* The sidebar: TuiSidebar *)

GroupNames == {"project", "archived"}

\* The items a group may have, and those it has in a list.
Cells(s, g) == {<<g, 0>>} \cup {<<g, RowsOf(s, g)[i]>> : i \in DOMAIN RowsOf(s, g)}
Part(s, folds, g) ==
  IF ~Present(s, g) THEN <<>>
  ELSE <<<<g, 0>>>> \o (IF folds[g] THEN [i \in DOMAIN RowsOf(s, g) |-> <<g, RowsOf(s, g)[i]>>] ELSE <<>>)

\* A list, its cursor and what it acts on.
ListIsSound ==
  /\ at = "poll" => screen = Selection
  /\ dialog.row = dialog.seen

\* A snapshot has both its fields.
SnapIsRecord == snap = [project |-> snap.project, row |-> snap.row]

SideInv == ListIsSound /\ ActsOnHighlighted /\ CursorOnItem

\* The rows of a group are a sequence.
LEMMA RowsAre ==
  ASSUME NEW s, NEW g
  PROVE  \E n \in Nat : DOMAIN RowsOf(s, g) = 1..n
<1> DEFINE own == {r \in SideRows : s.row[r] = IF g = "project" THEN "open" ELSE "archived"}
<1>1. IsFiniteSet(own)
  BY SideAssumption, FS_Subset
<1>2. Cardinality(own) \in Nat
  BY <1>1, FS_CardinalityType
<1>3. DOMAIN RowsOf(s, g) = 1..Cardinality(own)
  BY DEF RowsOf
<1> QED
  BY <1>2, <1>3

\* A group's part of the list: nothing, or its header and maybe its rows.
LEMMA PartIs ==
  ASSUME NEW s, NEW folds, NEW g
  PROVE  /\ Part(s, folds, g) \in Seq(Cells(s, g))
         /\ ~Present(s, g) => Part(s, folds, g) = <<>>
         /\ Present(s, g) => Len(Part(s, folds, g)) >= 1 /\ Part(s, folds, g)[1] = <<g, 0>>
<1> DEFINE C == Cells(s, g)
           R == [i \in DOMAIN RowsOf(s, g) |-> <<g, RowsOf(s, g)[i]>>]
           h == <<<<g, 0>>>>
<1>1. PICK n \in Nat : DOMAIN RowsOf(s, g) = 1..n
  BY RowsAre
<1>2. R \in Seq(C)
  <2>1. \A i \in 1..n : <<g, RowsOf(s, g)[i]>> \in C
    BY <1>1 DEF Cells
  <2>2. R = [i \in 1..n |-> <<g, RowsOf(s, g)[i]>>]
    BY <1>1
  <2> HIDE DEF C, R
  <2> QED
    BY <2>1, <2>2
<1>3. <<g, 0>> \in C
  BY DEF Cells
<1> HIDE DEF C, R
<1>4. h \in Seq(C) /\ Len(h) = 1 /\ h[1] = <<g, 0>> /\ <<>> \in Seq(C)
  BY <1>3
<1> HIDE DEF h
<1>5. ASSUME NEW t \in Seq(C) PROVE h \o t \in Seq(C) /\ Len(h \o t) >= 1 /\ (h \o t)[1] = <<g, 0>>
  <2>1. h \o t \in Seq(C) /\ Len(h \o t) = Len(h) + Len(t)
        /\ \A i \in 1..(Len(h) + Len(t)) : (h \o t)[i] = IF i <= Len(h) THEN h[i] ELSE t[i - Len(h)]
    BY <1>4, <1>5, ConcatProperties
  <2>2. Len(t) \in Nat
    BY <1>5
  <2>3. 1 \in 1..(Len(h) + Len(t)) /\ 1 <= Len(h)
    BY <1>4, <2>2
  <2>4. (h \o t)[1] = h[1]
    BY <2>1, <2>3
  <2> QED
    BY <1>4, <2>1, <2>2, <2>4
<1>6. CASE ~Present(s, g)
  BY <1>4, <1>6 DEF Part, C
<1>7. CASE Present(s, g)
  <2>1. Part(s, folds, g) = h \o (IF folds[g] THEN R ELSE <<>>)
    BY <1>7 DEF Part, h, R
  <2>2. CASE folds[g]
    <3>1. Part(s, folds, g) = h \o R
      BY <2>1, <2>2
    <3> QED
      BY <1>2, <1>5, <1>7, <3>1 DEF C
  <2>3. CASE ~folds[g]
    <3>1. Part(s, folds, g) = h \o <<>>
      BY <2>1, <2>3
    <3> QED
      BY <1>4, <1>5, <1>7, <3>1 DEF C
  <2> QED
    BY <2>2, <2>3
<1> QED
  BY <1>6, <1>7

\* The list is a sequence of items of groups that are present, and the header of every such
\* group is in it, folded or not.
LEMMA ItemsAre ==
  ASSUME NEW s, NEW folds
  PROVE  LET items == ItemsOf(s, folds) IN
         /\ Len(items) \in Nat /\ DOMAIN items = 1..Len(items) /\ (items = <<>> <=> Len(items) = 0)
         /\ \A i \in DOMAIN items : items[i][1] \in GroupNames /\ Present(s, items[i][1])
         /\ \A g \in GroupNames : Present(s, g) => \E i \in DOMAIN items : items[i] = <<g, 0>>
<1> DEFINE p == Part(s, folds, "project")
           a == Part(s, folds, "archived")
           C == Cells(s, "project") \cup Cells(s, "archived")
           items == p \o a
<1>1. ItemsOf(s, folds) = items
  BY DEF ItemsOf, Part, Groups
<1>2. /\ p \in Seq(Cells(s, "project")) /\ a \in Seq(Cells(s, "archived"))
      /\ (~Present(s, "project") => p = <<>>) /\ (Present(s, "project") => Len(p) >= 1 /\ p[1] = <<"project", 0>>)
      /\ (~Present(s, "archived") => a = <<>>) /\ (Present(s, "archived") => Len(a) >= 1 /\ a[1] = <<"archived", 0>>)
  BY PartIs
<1>3. \A g : \A x \in Cells(s, g) : x[1] = g
  BY DEF Cells
<1> HIDE DEF p, a
<1>4. p \in Seq(C) /\ a \in Seq(C) /\ Len(p) \in Nat /\ Len(a) \in Nat
  BY <1>2
<1>5. items \in Seq(C) /\ Len(items) = Len(p) + Len(a)
      /\ \A i \in 1..(Len(p) + Len(a)) : items[i] = IF i <= Len(p) THEN p[i] ELSE a[i - Len(p)]
  BY <1>4, ConcatProperties
<1> HIDE DEF items, C
<1>6. Len(items) \in Nat /\ DOMAIN items = 1..Len(items) /\ (items = <<>> <=> Len(items) = 0)
  BY <1>5
<1>7. ASSUME NEW i \in DOMAIN items PROVE items[i][1] \in GroupNames /\ Present(s, items[i][1])
  <2>1. i \in 1..(Len(p) + Len(a))
    BY <1>5, <1>6
  <2>2. CASE i <= Len(p)
    <3>1. i \in 1..Len(p) /\ items[i] = p[i] /\ p # <<>>
      BY <1>4, <1>5, <2>1, <2>2
    <3>2. p[i] \in Cells(s, "project")
      BY <1>2, <3>1
    <3> QED
      BY <1>2, <1>3, <3>1, <3>2 DEF GroupNames
  <2>3. CASE ~(i <= Len(p))
    <3>1. i - Len(p) \in 1..Len(a) /\ items[i] = a[i - Len(p)] /\ a # <<>>
      BY <1>4, <1>5, <2>1, <2>3
    <3>2. a[i - Len(p)] \in Cells(s, "archived")
      BY <1>2, <3>1
    <3> QED
      BY <1>2, <1>3, <3>1, <3>2 DEF GroupNames
  <2> QED
    BY <2>2, <2>3
<1>8. ASSUME Present(s, "project") PROVE \E i \in DOMAIN items : items[i] = <<"project", 0>>
  <2>1. 1 \in 1..(Len(p) + Len(a)) /\ 1 <= Len(p) /\ p[1] = <<"project", 0>>
    BY <1>2, <1>4, <1>8
  <2> QED
    BY <1>5, <1>6, <2>1
<1>9. ASSUME Present(s, "archived") PROVE \E i \in DOMAIN items : items[i] = <<"archived", 0>>
  <2>1. Len(a) >= 1 /\ a[1] = <<"archived", 0>>
    BY <1>2, <1>9
  <2>2. Len(p) + 1 \in 1..(Len(p) + Len(a)) /\ ~(Len(p) + 1 <= Len(p)) /\ (Len(p) + 1) - Len(p) = 1
    BY <1>4, <2>1
  <2> QED
    BY <1>5, <1>6, <2>1, <2>2
<1>10. \A g \in GroupNames : Present(s, g) => \E i \in DOMAIN items : items[i] = <<g, 0>>
  BY <1>8, <1>9 DEF GroupNames
<1> QED
  BY <1>1, <1>6, <1>7, <1>10

\* Where an item is in a list.
LEMMA IndexIs ==
  ASSUME NEW items, NEW item, Len(items) \in Nat, DOMAIN items = 1..Len(items)
  PROVE  IF \E i \in DOMAIN items : items[i] = item
         THEN IndexIn(items, item) \in DOMAIN items /\ items[IndexIn(items, item)] = item /\ IndexIn(items, item) # 0
         ELSE IndexIn(items, item) = 0
<1>1. CASE \E i \in DOMAIN items : items[i] = item
  <2> DEFINE k == CHOOSE i \in DOMAIN items : items[i] = item
  <2>1. k \in DOMAIN items /\ items[k] = item
    BY <1>1
  <2>2. IndexIn(items, item) = k
    BY <1>1 DEF IndexIn
  <2> HIDE DEF k
  <2>3. k # 0
    BY <2>1
  <2> QED
    BY <1>1, <2>1, <2>2, <2>3
<1>2. CASE ~\E i \in DOMAIN items : items[i] = item
  BY <1>2 DEF IndexIn
<1> QED
  BY <1>1, <1>2

\* A refresh leaves the cursor on an item, and on its own if that is still listed.
LEMMA SetGroupsKeeps ==
  ASSUME NEW s, SetGroups(s)
  PROVE  CursorOnItem' /\ (Selection \in {Items'[i] : i \in DOMAIN Items'} => Selection' = Selection)
<1> DEFINE folds == [g \in DOMAIN expanded |-> IF Present(held, g) THEN expanded[g] ELSE Folds[g]]
           items == ItemsOf(s, folds)
           same == IndexIn(items, Selection)
<1>1. held' = s /\ expanded' = folds /\ cursor' = IF same # 0 THEN same ELSE IF items = <<>> THEN 0 ELSE 1
  BY DEF SetGroups
<1> HIDE DEF folds
<1>2. Items' = items
  BY <1>1 DEF Items
<1>3. Len(items) \in Nat /\ DOMAIN items = 1..Len(items) /\ (items = <<>> <=> Len(items) = 0)
  BY ItemsAre
<1>4. IF \E i \in DOMAIN items : items[i] = Selection
      THEN same \in DOMAIN items /\ items[same] = Selection /\ same # 0 ELSE same = 0
  <2> HIDE DEF items
  <2>1. PICK l : l = items
    OBVIOUS
  <2>2. PICK x : x = Selection
    OBVIOUS
  <2>3. IF \E i \in DOMAIN l : l[i] = x
        THEN IndexIn(l, x) \in DOMAIN l /\ l[IndexIn(l, x)] = x /\ IndexIn(l, x) # 0 ELSE IndexIn(l, x) = 0
    BY <1>3, <2>1, IndexIs
  <2> QED
    BY <2>1, <2>2, <2>3
<1> HIDE DEF items, same
<1>5. CASE same # 0
  <2>1. cursor' = same /\ same \in DOMAIN items /\ items # <<>> /\ items[same] = Selection
    BY <1>1, <1>3, <1>4, <1>5
  <2>2. Selection' = Selection
    BY <1>2, <2>1 DEF Selection
  <2> QED
    BY <1>2, <2>1, <2>2 DEF CursorOnItem
<1>6. CASE same = 0
  <2>1. cursor' = IF items = <<>> THEN 0 ELSE 1
    BY <1>1, <1>6
  <2>2. items # <<>> => 1 \in DOMAIN items
    BY <1>3
  <2>3. CursorOnItem'
    BY <1>2, <2>1, <2>2 DEF CursorOnItem
  <2>4. ~(Selection \in {Items'[i] : i \in DOMAIN Items'})
    BY <1>2, <1>4, <1>6
  <2> QED
    BY <2>3, <2>4
<1> QED
  BY <1>5, <1>6

\* The list is empty at the start.
LEMMA SideStart ==
  ASSUME SideInit
  PROVE  SideInv
<1>1. /\ held = Blank /\ expanded = Folds /\ cursor = 0 /\ dialog = NoDialog /\ at = "frame" /\ acted = [row |-> 0, seen |-> 0]
  BY DEF SideInit
<1>2. \A g \in GroupNames : ~Present(Blank, g)
  <2> SUFFICES ASSUME NEW g \in GroupNames PROVE ~Present(Blank, g)
    OBVIOUS
  <2> DEFINE own == {r \in SideRows : Blank.row[r] = IF g = "project" THEN "open" ELSE "archived"}
  <2>1. ~Blank.project /\ \A r \in SideRows : Blank.row[r] = "gone"
    BY DEF Blank
  <2>2. own = {}
    BY <2>1
  <2>3. Cardinality(own) = 0
    BY <2>2, FS_EmptySet
  <2>4. DOMAIN RowsOf(Blank, g) = 1..0
    BY <2>3 DEF RowsOf
  <2>5. \E f : RowsOf(Blank, g) = [i \in 1..0 |-> f[i]]
    <3>1. RowsOf(Blank, g) = [i \in 1..Cardinality(own) |-> CHOOSE r \in own : Cardinality({q \in own : q < r}) = i - 1]
      BY DEF RowsOf
    <3> QED
      BY <2>3, <3>1
  <2>6. RowsOf(Blank, g) = <<>>
    BY <2>4, <2>5
  <2> QED
    BY <2>1, <2>6 DEF Present
<1>3. Items = <<>>
  <2>1. /\ Len(Items) \in Nat /\ DOMAIN Items = 1..Len(Items) /\ (Items = <<>> <=> Len(Items) = 0)
        /\ \A i \in DOMAIN Items : Items[i][1] \in GroupNames /\ Present(held, Items[i][1])
    BY ItemsAre DEF Items
  <2>2. \A i \in DOMAIN Items : FALSE
    BY <1>1, <1>2, <2>1
  <2> QED
    BY <2>1, <2>2
<1>4. CursorOnItem
  BY <1>1, <1>3 DEF CursorOnItem
<1>5. ListIsSound /\ ActsOnHighlighted
  BY <1>1 DEF ListIsSound, ActsOnHighlighted, NoDialog
<1> QED
  BY <1>4, <1>5 DEF SideInv

\* While list and cursor stay, so does what the cursor is on.
LEMMA CursorStays ==
  ASSUME UNCHANGED <<held, expanded, cursor>>
  PROVE  Items' = Items /\ Selection' = Selection /\ (CursorOnItem => CursorOnItem')
<1>1. Items' = Items
  BY DEF Items
<1> QED
  BY <1>1 DEF Selection, CursorOnItem

\* The cursor goes to a header that is in the list.
LEMMA CursorOnHeader ==
  ASSUME NEW g \in GroupNames, Present(held', g), cursor' = IndexIn(ItemsOf(held', expanded'), <<g, 0>>)
  PROVE  CursorOnItem'
<1>1. PICK s : s = held'
  OBVIOUS
<1>2. PICK f : f = expanded'
  OBVIOUS
<1>3. PICK l : l = ItemsOf(s, f)
  OBVIOUS
<1>4. Len(l) \in Nat /\ DOMAIN l = 1..Len(l) /\ \A h \in GroupNames : Present(s, h) => \E i \in DOMAIN l : l[i] = <<h, 0>>
  BY <1>3, ItemsAre
<1>5. PICK i \in DOMAIN l : l[i] = <<g, 0>>
  BY <1>1, <1>4
<1>6. IndexIn(l, <<g, 0>>) \in DOMAIN l
  BY <1>4, <1>5, IndexIs
<1>7. Items' = l /\ cursor' \in DOMAIN l
  BY <1>1, <1>2, <1>3, <1>6 DEF Items
<1>8. l # <<>>
  BY <1>4, <1>5
<1> QED
  BY <1>7, <1>8 DEF CursorOnItem

\* A refresh and a frame.
LEMMA FrameStep ==
  ASSUME SideInv, Frame
  PROVE  SideInv' /\ (Selection \in {Items'[i] : i \in DOMAIN Items'} => Selection' = Selection)
<1>1. at = "frame" /\ at' = "poll" /\ screen' = Selection' /\ UNCHANGED <<dialog, acted>>
  BY DEF Frame
<1>2. CursorOnItem' /\ (Selection \in {Items'[i] : i \in DOMAIN Items'} => Selection' = Selection)
  <2>1. CASE changed
    <3>1. PICK s : s = snap
      OBVIOUS
    <3>2. SetGroups(s)
      BY <2>1, <3>1 DEF Frame, SetGroups
    <3> QED
      BY <3>2, SetGroupsKeeps
  <2>2. CASE ~changed
    BY <2>2, CursorStays DEF Frame, SideInv
  <2> QED
    BY <2>1, <2>2
<1> QED
  BY <1>1, <1>2 DEF SideInv, ListIsSound, ActsOnHighlighted

\* The keys that need no dialog.
LEMMA SideKeys ==
  ASSUME SideInv, Move \/ Fold(TRUE) \/ Fold(FALSE) \/ OpenDelete \/ ArchiveOrRestore \/ OpenDialog
  PROVE  SideInv'
<1>0. at = "poll" /\ at' = "frame" /\ screen = Selection /\ dialog.row = dialog.seen /\ acted.row = acted.seen /\ CursorOnItem
  BY DEF Move, Fold, OpenDelete, ArchiveOrRestore, OpenDialog, SideKey, Key, SideInv, ListIsSound, ActsOnHighlighted
<1>1. CASE Move
  <2>1. Items' = Items /\ cursor' \in DOMAIN Items /\ Items # <<>> /\ UNCHANGED <<dialog, acted>>
    BY <1>1 DEF Move, Items, Quiet
  <2>2. CursorOnItem'
    BY <2>1 DEF CursorOnItem
  <2> QED
    BY <1>0, <2>1, <2>2 DEF SideInv, ListIsSound, ActsOnHighlighted
<1>2. ASSUME NEW open, Fold(open) PROVE SideInv'
  <2>1. /\ cursor # 0 /\ held' = held /\ UNCHANGED <<dialog, acted>>
        /\ cursor' = IndexIn(ItemsOf(held, expanded'), <<Items[cursor][1], 0>>)
    BY <1>2 DEF Fold, Quiet
  <2>2. cursor \in DOMAIN Items
    BY <1>0, <2>1 DEF CursorOnItem
  <2>3. PICK g : g = Items[cursor][1]
    OBVIOUS
  <2>4. g \in GroupNames /\ Present(held, g)
    BY <2>2, <2>3, ItemsAre DEF Items
  <2>5. CursorOnItem'
    BY <2>1, <2>3, <2>4, CursorOnHeader
  <2> QED
    BY <1>0, <2>1, <2>5 DEF SideInv, ListIsSound, ActsOnHighlighted
<1>3. CASE OpenDelete
  <2>1. UNCHANGED <<held, expanded, cursor, acted>>
        /\ dialog' = [kind |-> "delete", row |-> Selection[2], seen |-> screen[2]]
    BY <1>3 DEF OpenDelete, Quiet
  <2>2. dialog'.row = dialog'.seen
    BY <1>0, <2>1
  <2> QED
    BY <1>0, <2>1, <2>2, CursorStays DEF SideInv, ListIsSound, ActsOnHighlighted
<1>4. CASE ArchiveOrRestore
  <2>1. dialog' = dialog /\ acted' = [row |-> Selection[2], seen |-> screen[2]]
    BY <1>4 DEF ArchiveOrRestore
  <2>2. acted'.row = acted'.seen
    BY <1>0, <2>1
  <2>3. PICK s : s = snap
    OBVIOUS
  <2>4. SetGroups(s)
    BY <1>4, <2>3 DEF ArchiveOrRestore, SetGroups
  <2> QED
    BY <1>0, <2>1, <2>2, <2>4, SetGroupsKeeps DEF SideInv, ListIsSound, ActsOnHighlighted
<1>5. CASE OpenDialog
  <2>1. UNCHANGED <<held, expanded, cursor, acted>> /\ \E k : dialog' = [kind |-> k, row |-> 0, seen |-> 0]
    BY <1>5 DEF OpenDialog, Quiet
  <2>2. dialog'.row = dialog'.seen
    BY <2>1
  <2> QED
    BY <1>0, <2>1, <2>2, CursorStays DEF SideInv, ListIsSound, ActsOnHighlighted
<1> QED
  BY <1>1, <1>2, <1>3, <1>4, <1>5

\* The keys of a dialog.
LEMMA DialogKeys ==
  ASSUME SideInv, SnapIsRecord, Cancel \/ ConfirmDelete \/ ConfirmSession \/ ConfirmProject
  PROVE  SideInv'
<1>0. at = "poll" /\ at' = "frame" /\ dialog.row = dialog.seen /\ acted.row = acted.seen /\ CursorOnItem
      /\ NoDialog.row = NoDialog.seen
  BY DEF Cancel, ConfirmDelete, ConfirmSession, ConfirmProject, Key, SideInv, ListIsSound, ActsOnHighlighted, NoDialog
\* The list stays.
<1>q. ASSUME dialog' \in {dialog, NoDialog}, UNCHANGED <<held, expanded, cursor, acted>> PROVE SideInv'
  BY <1>0, <1>q, CursorStays DEF SideInv, ListIsSound, ActsOnHighlighted
\* It is reloaded.
<1>r. ASSUME dialog' \in {dialog, NoDialog}, acted'.row = acted'.seen, CursorOnItem' PROVE SideInv'
  BY <1>0, <1>r DEF SideInv, ListIsSound, ActsOnHighlighted
<1>1. CASE Cancel
  BY <1>1, <1>q DEF Cancel, Quiet
<1>2. CASE ConfirmDelete
  <2>1. dialog' = NoDialog /\ acted' = [row |-> dialog.row, seen |-> dialog.seen]
    BY <1>2 DEF ConfirmDelete
  <2>2. PICK s : s = snap
    OBVIOUS
  <2>3. SetGroups(s)
    BY <1>2, <2>2 DEF ConfirmDelete, SetGroups
  <2>4. acted'.row = acted'.seen
    BY <1>0, <2>1
  <2> QED
    BY <1>r, <2>1, <2>3, <2>4, SetGroupsKeeps
<1>3. CASE ConfirmSession
  <2>1. CASE dialog' = NoDialog /\ acted' = acted
             /\ \E r \in SideRows : \E s : s = [project |-> TRUE, row |-> [snap.row EXCEPT ![r] = "open"]] /\ SetGroups(s)
    <3>1. PICK s : SetGroups(s)
      BY <2>1
    <3> QED
      BY <1>0, <1>r, <2>1, <3>1, SetGroupsKeeps
  <2>2. CASE dialog' \in {dialog, NoDialog} /\ Quiet /\ UNCHANGED <<held, expanded, cursor>>
    BY <1>q, <2>2 DEF Quiet
  <2> QED
    BY <1>3, <2>1, <2>2 DEF ConfirmSession
<1>4. CASE ConfirmProject
  <2>1. CASE dialog' \in {dialog, NoDialog} /\ Quiet /\ UNCHANGED <<held, expanded, cursor>>
    BY <1>q, <2>1 DEF Quiet
  <2>2. ASSUME dialog' = NoDialog, acted' = acted, held' = [snap EXCEPT !.project = TRUE],
               cursor' = IndexIn(ItemsOf(held', expanded'), <<"project", 0>>)
        PROVE  SideInv'
    <3>1. Present(held', "project")
      <4>1. PICK p, r : snap = [project |-> p, row |-> r]
        BY DEF SnapIsRecord
      <4>2. held' = [project |-> TRUE, row |-> r]
        BY <2>2, <4>1
      <4>3. held'.project
        BY <4>2
      <4> QED
        BY <4>3 DEF Present
    <3>2. CursorOnItem'
      BY <2>2, <3>1, CursorOnHeader DEF GroupNames
    <3> QED
      BY <1>0, <1>r, <2>2, <3>2
  <2> QED
    BY <1>4, <2>1, <2>2 DEF ConfirmProject
<1> QED
  BY <1>1, <1>2, <1>3, <1>4

\* The list at rest: the poll runs out, the source moves, or nothing happens.
LEMMA RestSteps ==
  ASSUME SideInv, PollTimeout \/ SourceMoves \/ UNCHANGED sideVars
  PROVE  SideInv'
<1>1. UNCHANGED <<held, expanded, cursor, dialog, screen, acted>> /\ at' \in {at, "frame"}
  BY DEF PollTimeout, SourceMoves, sideVars
<1> QED
  BY <1>1, CursorStays DEF SideInv, ListIsSound, ActsOnHighlighted

\* Every snapshot is whole.
LEMMA SnapStays ==
  ASSUME SnapIsRecord, [SideNext]_sideVars
  PROVE  SnapIsRecord'
<1>1. PICK p, r : snap = [project |-> p, row |-> r]
  BY DEF SnapIsRecord
<1>2. \/ snap' = snap
      \/ \E s \in [project : BOOLEAN, row : [SideRows -> {"gone", "open", "archived"}]] : snap' = s
      \/ \E x : snap' = [project |-> TRUE, row |-> x]
      \/ snap' = [snap EXCEPT !.project = TRUE]
  BY DEF SideNext, sideVars, Frame, PollTimeout, SourceMoves, Source, Move, Fold, OpenDelete, ArchiveOrRestore,
         OpenDialog, Quiet, Cancel, ConfirmDelete, ConfirmSession, ConfirmProject
<1>3. CASE snap' = snap
  BY <1>3 DEF SnapIsRecord
<1>4. ASSUME NEW s \in [project : BOOLEAN, row : [SideRows -> {"gone", "open", "archived"}]], snap' = s
      PROVE  SnapIsRecord'
  BY <1>4 DEF SnapIsRecord
<1>5. ASSUME NEW x, snap' = [project |-> TRUE, row |-> x] PROVE SnapIsRecord'
  BY <1>5 DEF SnapIsRecord
<1>6. CASE snap' = [snap EXCEPT !.project = TRUE]
  <2>1. snap' = [project |-> TRUE, row |-> r]
    BY <1>1, <1>6
  <2> QED
    BY <1>5, <2>1
<1> QED
  BY <1>2, <1>3, <1>4, <1>5, <1>6

\* HighlightIsTheTarget for any sessions and snapshots: in la-tui's sidebar a command is
\* for the row that was highlighted when its key was pressed, the cursor never leaves the
\* list, and a refresh keeps the highlight on its item.
THEOREM HighlightStaysTheTarget == SideSpec => HighlightIsTheTarget
<1>1. SideInit => SideInv /\ SnapIsRecord
  BY SideStart DEF SideInit, Blank, SnapIsRecord
<1>2. SideInv /\ SnapIsRecord /\ [SideNext]_sideVars => SideInv' /\ SnapIsRecord'
  BY FrameStep, SideKeys, DialogKeys, RestSteps, SnapStays DEF SideNext
<1>3. SideInv => ActsOnHighlighted /\ CursorOnItem
  BY DEF SideInv
<1>4. SideInv /\ [SideNext]_sideVars =>
        [at = "frame" /\ at' = "poll" /\ Selection \in {Items'[i] : i \in DOMAIN Items'}
         => Selection' = Selection]_sideVars
  <2> SUFFICES ASSUME SideInv, [SideNext]_sideVars, at = "frame", at' = "poll",
                      Selection \in {Items'[i] : i \in DOMAIN Items'}
               PROVE  Selection' = Selection
    OBVIOUS
  <2>1. CASE Frame
    BY <2>1, FrameStep
  <2>2. CASE ~Frame
    BY <2>2 DEF SideNext, sideVars, PollTimeout, SourceMoves, Move, Fold, OpenDelete, ArchiveOrRestore, OpenDialog,
                SideKey, Key, Cancel, ConfirmDelete, ConfirmSession, ConfirmProject
  <2> QED
    BY <2>1, <2>2
<1> QED
  BY <1>1, <1>2, <1>3, <1>4, PTL DEF SideSpec, HighlightIsTheTarget, RefreshKeepsTarget

-----------------------------------------------------------------------------
(* The configuration file: ConfigFiles *)

Tomls == [text : {"toml"}, level : {"unset", "warn", "debug"}, sane : BOOLEAN, theme : Themes \cup {"unset", "gone"},
          hints : {"unset", "rich", "hidden"}, custom : SUBSET Themes]
FileTexts == {NoFile, Malformed, Unreadable} \cup Tomls
Screens == [at : {"off", "idle", "picker", "read", "write", "fill", "rename"}, theme : Themes \cup {"unset", "gone"},
            hints : {"unset", "rich", "hidden"}, catalog : SUBSET Themes, original : Themes \cup {"unset", "gone"}]

FileTypes ==
  /\ disk \in [Places -> FileTexts] /\ host \in [xdg : BOOLEAN, own : BOOLEAN] /\ ui \in Screens
  /\ doc \in Tomls /\ typo \in BOOLEAN /\ stale \in BOOLEAN /\ blind \in BOOLEAN

\* A save under way has the file as it is, if it could be read and nobody has edited it
\* since, and the temporary file is that document by the time it is renamed.
Saving == {"write", "fill", "rename"}
SaveInv ==
  /\ typo <=> disk[UiPath] \in Broken
  /\ ui.at \in Saving /\ ~stale /\ ~blind => disk[UiPath] \notin Broken /\ doc = Rebuilt(disk[UiPath])
  /\ ui.at = "rename" => temp = doc

\* The theme the user has settled on.
ThemeInv ==
  /\ ui.at \in {"idle", "read"} \cup Saving => ui.theme = chosen
  /\ ui.at \in Saving => doc.theme = chosen
  /\ ui.at = "picker" => ui.original = chosen

ConfigInv == FileTypes /\ SaveInv /\ ThemeInv

\* A file is one of three kinds.
LEMMA TextKinds ==
  /\ NoFile.text = "none" /\ Malformed.text = "malformed" /\ Unreadable.text = "unreadable"
  /\ \A file \in Tomls : file.text = "toml"
  /\ NoFile \notin Broken /\ \A file \in Tomls : file # NoFile /\ file \notin Broken
<1>1. /\ NoFile.text = "none" /\ Malformed.text = "malformed" /\ Unreadable.text = "unreadable"
      /\ \A file \in Tomls : file.text = "toml"
  BY DEF NoFile, Malformed, Unreadable, Tomls
<1> QED
  BY <1>1 DEF Broken

\* What a user writes is a text.
LEMMA WrittenTexts == Written \subseteq FileTexts /\ Named \subseteq FileTexts /\ Empty \in Tomls
<1>1. /\ Empty \in Tomls /\ Toml("warn", TRUE, "mine", "rich", {"mine"}) \in Tomls
      /\ Toml("warn", FALSE, "dark", "rich", {}) \in Tomls /\ Toml("debug", TRUE, "gone", "unset", {}) \in Tomls
      /\ Toml("debug", TRUE, "unset", "unset", {}) \in Tomls
  BY DEF Empty, Toml, Tomls, Themes, Builtin
<1> QED
  BY <1>1 DEF Written, Named, FileTexts

\* The document of a save keeps all but the [ui] table.
LEMMA RebuiltKeeps ==
  ASSUME NEW file \in FileTexts, file \notin Broken, ui \in Screens
  PROVE  /\ Rebuilt(file) \in Tomls /\ Rebuilt(file).theme = ui.theme /\ Rebuilt(file).text = "toml"
         /\ file # NoFile => /\ Rebuilt(file).level = file.level /\ Rebuilt(file).sane = file.sane
                             /\ Rebuilt(file).custom = file.custom
<1>1. PICK base \in Tomls : base = IF file = NoFile THEN Empty ELSE file
  BY WrittenTexts DEF FileTexts, Broken
<1>2. Rebuilt(file) = [text |-> "toml", level |-> base.level, sane |-> base.sane, theme |-> ui.theme,
                       hints |-> ui.hints, custom |-> base.custom]
  BY <1>1 DEF Rebuilt, Toml
<1>3. /\ base.level \in {"unset", "warn", "debug"} /\ base.sane \in BOOLEAN /\ base.custom \in SUBSET Themes
      /\ ui.theme \in Themes \cup {"unset", "gone"} /\ ui.hints \in {"unset", "rich", "hidden"}
  BY DEF Tomls, Screens
<1> QED
  BY <1>1, <1>2, <1>3 DEF Tomls

-----------------------------------------------------------------------------
\* Names one after the other.
LEMMA NamesInOrder ==
  ASSUME NEW a, NEW b, NEW d
  PROVE  /\ <<a>> \o <<b>> = <<a, b>> /\ <<a, b>> \o <<d>> = <<a, b, d>>
         /\ <<a>> \o <<>> = <<a>> /\ <<>> \o <<a>> = <<a>>
<1>1. <<a>> \in Seq({a, b, d}) /\ <<b>> \in Seq({a, b, d}) /\ <<d>> \in Seq({a, b, d})
      /\ <<a, b>> \in Seq({a, b, d}) /\ <<>> \in Seq({a, b, d})
  OBVIOUS
<1>2. /\ Len(<<a>>) = 1 /\ Len(<<b>>) = 1 /\ Len(<<d>>) = 1 /\ Len(<<a, b>>) = 2
  OBVIOUS
<1>3. <<a>> \o <<b>> = <<a, b>>
  <2> DEFINE m == <<a>> \o <<b>>
  <2>1. m \in Seq({a, b, d}) /\ Len(m) = 2 /\ m[1] = a /\ m[2] = b
    BY ONLY <1>1, <1>2, ConcatProperties
  <2> HIDE DEF m
  <2>2. <<a, b>> \in Seq({a, b, d}) /\ Len(<<a, b>>) = 2
    OBVIOUS
  <2>3. \A i \in 1..Len(m) : m[i] = <<a, b>>[i]
    BY <2>1
  <2>4. m = <<a, b>>
    BY <2>1, <2>2, <2>3, SeqEqual
  <2> QED
    BY <2>4 DEF m
<1>4. <<a, b>> \o <<d>> = <<a, b, d>>
  <2> DEFINE m == <<a, b>> \o <<d>>
  <2>1. m \in Seq({a, b, d}) /\ Len(m) = 3 /\ m[1] = a /\ m[2] = b /\ m[3] = d
    BY ONLY <1>1, <1>2, ConcatProperties
  <2> HIDE DEF m
  <2>2. <<a, b, d>> \in Seq({a, b, d}) /\ Len(<<a, b, d>>) = 3
    OBVIOUS
  <2>3. \A i \in 1..Len(m) : m[i] = <<a, b, d>>[i]
    BY <2>1
  <2>4. m = <<a, b, d>>
    BY <2>1, <2>2, <2>3, SeqEqual
  <2> QED
    BY <2>4 DEF m
<1>5. <<a>> \o <<>> = <<a>> /\ <<>> \o <<a>> = <<a>>
  BY <1>1, <1>2
<1> QED
  BY <1>3, <1>4, <1>5

\* The chain names places.
LEMMA ChainNames == ASSUME NEW i \in Invocations PROVE \A k \in DOMAIN Chain(i) : Chain(i)[k] \in Places
<1>1. PICK c : c = Chain(i)
  OBVIOUS
<1>2. c \in {<<"env", "xdg", "home">>, <<"env", "home">>, <<"xdg", "home">>, <<"home">>}
  <2>1. CASE i.env /\ host.xdg
    BY <1>1, <2>1, NamesInOrder DEF Chain
  <2>2. CASE i.env /\ ~host.xdg
    BY <1>1, <2>2, NamesInOrder DEF Chain
  <2>3. CASE ~i.env /\ host.xdg
    BY <1>1, <2>3, NamesInOrder DEF Chain
  <2>4. CASE ~i.env /\ ~host.xdg
    BY <1>1, <2>4, NamesInOrder DEF Chain
  <2> QED
    BY <2>1, <2>2, <2>3, <2>4
<1>3. \A k \in DOMAIN c : c[k] \in Places
  BY <1>2 DEF Places
<1> QED
  BY <1>1, <1>3

\* Which place the chain comes to: the first with a file.
LEMMA ExistingIs ==
  ASSUME NEW i \in Invocations
  PROVE  Existing(i) = IF i.env /\ disk["env"] # NoFile THEN "env"
                       ELSE IF host.xdg /\ disk["xdg"] # NoFile THEN "xdg"
                       ELSE IF disk["home"] # NoFile THEN "home" ELSE "none"
<1> DEFINE c == Chain(i)
           there == {k \in DOMAIN c : disk[c[k]] # NoFile}
<1>0. Existing(i) = IF there = {} THEN "none" ELSE c[CHOOSE k \in there : \A l \in there : k <= l]
  BY DEF Existing
<1>1. ASSUME NEW n \in there, there \subseteq Nat, \A l \in there : n <= l
      PROVE  Existing(i) = c[n]
  <2>1. \A k \in there : (\A l \in there : k <= l) => k = n
    BY <1>1
  <2>2. (CHOOSE k \in there : \A l \in there : k <= l) = n
    BY <1>1, <2>1
  <2> QED
    BY <1>0, <1>1, <2>2
<1>2. CASE i.env /\ host.xdg
  <2>1. c = <<"env", "xdg", "home">>
    BY <1>2, NamesInOrder DEF Chain
  <2> HIDE DEF c
  <2>2. there = {k \in {1, 2, 3} : disk[c[k]] # NoFile} /\ c[1] = "env" /\ c[2] = "xdg" /\ c[3] = "home"
    BY <2>1
  <2> HIDE DEF there
  <2> QED
    BY <1>0, <1>1, <1>2, <2>2
<1>3. CASE i.env /\ ~host.xdg
  <2>1. c = <<"env", "home">>
    BY <1>3, NamesInOrder DEF Chain
  <2> HIDE DEF c
  <2>2. there = {k \in {1, 2} : disk[c[k]] # NoFile} /\ c[1] = "env" /\ c[2] = "home"
    BY <2>1
  <2> HIDE DEF there
  <2> QED
    BY <1>0, <1>1, <1>3, <2>2
<1>4. CASE ~i.env /\ host.xdg
  <2>1. c = <<"xdg", "home">>
    BY <1>4, NamesInOrder DEF Chain
  <2> HIDE DEF c
  <2>2. there = {k \in {1, 2} : disk[c[k]] # NoFile} /\ c[1] = "xdg" /\ c[2] = "home"
    BY <2>1
  <2> HIDE DEF there
  <2> QED
    BY <1>0, <1>1, <1>4, <2>2
<1>5. CASE ~i.env /\ ~host.xdg
  <2>1. c = <<"home">>
    BY <1>5 DEF Chain
  <2> HIDE DEF c
  <2>2. there = {k \in {1} : disk[c[k]] # NoFile} /\ c[1] = "home"
    BY <2>1
  <2> HIDE DEF there
  <2> QED
    BY <1>0, <1>1, <1>5, <2>2
<1> QED
  BY <1>2, <1>3, <1>4, <1>5

\* A start fails just when its file does not load.
LEMMA StartFails ==
  ASSUME NEW i \in Invocations, EnumsOk(i)
  PROVE  Start(i) # Failed <=> Loads(At(StartPath(i)))
<1>1. ASSUME NEW file PROVE DaemonValues(i, file) # Failed
  <2>1. DaemonValues(i, file)[2] \in {"cli", "env", "config_file", "default"}
    BY DEF DaemonValues, Resolve
  <2> QED
    BY <2>1 DEF Failed
<1>2. CASE Loads(At(StartPath(i)))
  BY <1>1, <1>2 DEF Start
<1>3. CASE ~Loads(At(StartPath(i)))
  BY <1>3 DEF Start
<1> QED
  BY <1>2, <1>3

\* What check accepts starts, and only that.
LEMMA CheckIsStart == FileTypes => CheckedConfigStarts
<1> SUFFICES ASSUME FileTypes, NEW i \in Invocations, EnumsOk(i)
             PROVE  Check(i) <=> (Start(i) # Failed /\ ((i.cli \/ i.env) => disk[CheckPath(i)] # NoFile))
  BY DEF CheckedConfigStarts
<1>1. Loads(NoFile)
  BY TextKinds DEF Loads
<1>2. CASE i.cli \/ i.env
  <2>1. PICK place \in {"cli", "env"} : CheckPath(i) = place /\ StartPath(i) = place
    BY <1>2 DEF CheckPath, StartPath
  <2>2. At(StartPath(i)) = disk[place]
    BY <2>1 DEF At
  <2> QED
    BY <1>2, <2>1, <2>2, StartFails DEF Check
<1>3. CASE ~i.cli /\ ~i.env
  <2>1. StartPath(i) = Existing(i)
    BY <1>3 DEF StartPath
  <2>2. CASE Existing(i) = "none"
    <3>1. disk["home"] = NoFile /\ CheckPath(i) = "home"
      BY <1>3, <2>2, ExistingIs DEF CheckPath, WriteTarget
    <3> QED
      BY <1>1, <1>3, <2>1, <2>2, <3>1, StartFails DEF Check, At
  <2>3. CASE Existing(i) # "none"
    <3>1. disk[Existing(i)] # NoFile /\ CheckPath(i) = Existing(i)
      BY <1>3, <2>3, ExistingIs DEF CheckPath
    <3> QED
      BY <1>3, <2>1, <2>3, <3>1, StartFails DEF Check, At
  <2> QED
    BY <2>2, <2>3
<1> QED
  BY <1>2, <1>3

\* And show tells what a start takes.
LEMMA ShowIsStart == ShownIsUsed
<1> SUFFICES ASSUME NEW i \in Invocations, i.cli \/ ~i.env \/ disk["env"] # NoFile PROVE Show(i) = Start(i)
  BY DEF ShownIsUsed
<1>1. ShowPath(i) = StartPath(i)
  BY ExistingIs DEF ShowPath, StartPath
<1> QED
  BY <1>1 DEF Show, Start

-----------------------------------------------------------------------------
\* The UI's file has its name from the environment.
LEMMA UiPathIs == UiPath \in {"own", "xdg", "home"} /\ (UNCHANGED host => UiPath' = UiPath)
  BY DEF UiPath

\* A file system as an operator left it.
LEMMA ConfigStart == ConfigInit => ConfigInv
<1> SUFFICES ASSUME ConfigInit PROVE ConfigInv
  OBVIOUS
<1>1. disk \in [Places -> FileTexts]
  BY WrittenTexts DEF ConfigInit
<1>2. host \in [xdg : BOOLEAN, own : BOOLEAN]
  <2>1. host \in {[xdg |-> TRUE, own |-> FALSE], [xdg |-> FALSE, own |-> FALSE], [xdg |-> TRUE, own |-> TRUE]}
    BY DEF ConfigInit
  <2>2. ASSUME NEW a \in BOOLEAN, NEW b \in BOOLEAN
        PROVE  [xdg |-> a, own |-> b] \in [xdg : BOOLEAN, own : BOOLEAN]
    OBVIOUS
  <2>3. TRUE \in BOOLEAN /\ FALSE \in BOOLEAN
    OBVIOUS
  <2> HIDE DEF ConfigInit
  <2> QED
    BY ONLY <2>1, <2>2, <2>3, Zenon
<1>3. ui = Closed /\ doc = Empty /\ typo = (disk[UiPath] \in Broken) /\ stale = FALSE /\ blind = FALSE
  BY DEF ConfigInit
<1>4. Closed \in Screens /\ Closed.at = "off"
  BY DEF Closed, Screens, Themes, Builtin
<1>5. typo \in BOOLEAN /\ stale \in BOOLEAN /\ blind \in BOOLEAN
  <2> SUFFICES typo \in BOOLEAN
    BY <1>3
  <2>1. PICK file : file = disk[UiPath]
    OBVIOUS
  <2>2. typo = (file \in Broken)
    BY <1>3, <2>1
  <2>3. CASE file \in Broken
    BY ONLY <2>2, <2>3
  <2>4. CASE file \notin Broken
    BY ONLY <2>2, <2>4
  <2> QED
    BY <2>3, <2>4
<1> QED
  BY <1>1, <1>2, <1>3, <1>4, <1>5, WrittenTexts DEF ConfigInv, FileTypes, SaveInv, ThemeInv, Saving

\* The screen by its fields.
LEMMA ScreenIs ==
  ASSUME NEW place \in {"off", "idle", "picker", "read", "write", "fill", "rename"},
         NEW theme \in Themes \cup {"unset", "gone"}, NEW hints \in {"unset", "rich", "hidden"},
         NEW catalog \in SUBSET Themes, NEW original \in Themes \cup {"unset", "gone"}
  PROVE  [at |-> place, theme |-> theme, hints |-> hints, catalog |-> catalog, original |-> original] \in Screens
  BY DEF Screens

\* A save, an edit and a key keep the file, and what the save has read, in order.
LEMMA ConfigStep == ConfigInv /\ [ConfigNext]_configVars => ConfigInv'
<1> SUFFICES ASSUME ConfigInv, [ConfigNext]_configVars PROVE ConfigInv'
  OBVIOUS
<1> USE DEF ConfigInv, FileTypes, SaveInv, ThemeInv, Saving
<1>0. /\ ui \in Screens
      /\ ui.at \in {"off", "idle", "picker", "read", "write", "fill", "rename"}
      /\ ui.theme \in Themes \cup {"unset", "gone"} /\ ui.hints \in {"unset", "rich", "hidden"}
      /\ ui.catalog \in SUBSET Themes /\ ui.original \in Themes \cup {"unset", "gone"}
      /\ ui = [at |-> ui.at, theme |-> ui.theme, hints |-> ui.hints, catalog |-> ui.catalog, original |-> ui.original]
  BY DEF Screens
<1>1. CASE Launch
  <2>1. PICK file \in FileTexts : file = disk[UiPath]
    BY UiPathIs DEF Places
  <2>2. ui' = [at |-> "idle", catalog |-> Catalog(file), original |-> "auto",
               theme |-> IF file.text = "toml" THEN Or(file.theme, "auto") ELSE "auto",
               hints |-> IF file.text = "toml" THEN Or(file.hints, "rich") ELSE "rich"]
    BY <1>1, <2>1 DEF Launch
  <2>3. file.text = "toml" => file \in Tomls
    BY TextKinds DEF FileTexts
  <2>4. /\ Catalog(file) \in SUBSET Themes /\ "auto" \in Themes
        /\ (IF file.text = "toml" THEN Or(file.theme, "auto") ELSE "auto") \in Themes \cup {"unset", "gone"}
        /\ (IF file.text = "toml" THEN Or(file.hints, "rich") ELSE "rich") \in {"unset", "rich", "hidden"}
    BY <2>3 DEF Catalog, Tomls, Or, Themes, Builtin
  <2>5. ui' \in Screens /\ ui'.at = "idle" /\ chosen' = ui'.theme
    BY <1>1, <2>2, <2>4 DEF Launch, Screens
  <2>6. UNCHANGED <<disk, host, doc, temp, typo, stale, blind>>
    BY <1>1 DEF Launch
  <2> QED
    BY <2>5, <2>6, UiPathIs
<1>2. CASE OpenThemePicker
  <2>1. ui' = [at |-> "picker", theme |-> ui.theme, hints |-> ui.hints, catalog |-> ui.catalog, original |-> ui.theme]
    BY <1>0, <1>2 DEF OpenThemePicker
  <2>2. ui' \in Screens
    BY <1>0, <2>1, ScreenIs
  <2> QED
    BY <1>0, <1>2, <2>1, <2>2, UiPathIs DEF OpenThemePicker
<1>3. CASE ConfirmTheme
  <2>1. ui' = [at |-> "read", theme |-> ui.theme, hints |-> ui.hints, catalog |-> ui.catalog, original |-> "auto"]
    BY <1>0, <1>3 DEF ConfirmTheme
  <2>2. ui' \in Screens
    BY <1>0, <2>1, ScreenIs DEF Themes, Builtin
  <2> QED
    BY <1>0, <1>3, <2>1, <2>2, UiPathIs DEF ConfirmTheme
<1>4. CASE CancelTheme
  <2>1. ui' = [at |-> "idle", theme |-> ui.original, hints |-> ui.hints, catalog |-> ui.catalog, original |-> "auto"]
    BY <1>0, <1>4 DEF CancelTheme
  <2>2. ui' \in Screens
    BY <1>0, <2>1, ScreenIs DEF Themes, Builtin
  <2> QED
    BY <1>0, <1>4, <2>1, <2>2, UiPathIs DEF CancelTheme
<1>5. CASE ToggleHints
  <2>1. PICK h \in {"unset", "rich", "hidden"} :
          ui' = [at |-> "read", theme |-> ui.theme, hints |-> h, catalog |-> ui.catalog, original |-> ui.original]
    BY <1>0, <1>5 DEF ToggleHints
  <2>2. ui' \in Screens
    BY <1>0, <2>1, ScreenIs
  <2> QED
    BY <1>0, <1>5, <2>1, <2>2, UiPathIs DEF ToggleHints
<1>6. ASSUME NEW id \in Themes, Preview(id) PROVE ConfigInv'
  <2>1. ui' = [at |-> "picker", theme |-> id, hints |-> ui.hints, catalog |-> ui.catalog, original |-> ui.original]
    BY <1>0, <1>6 DEF Preview
  <2>2. ui' \in Screens
    BY <1>0, <2>1, ScreenIs
  <2> QED
    BY <1>0, <1>6, <2>1, <2>2, UiPathIs DEF Preview
<1>7. CASE SaveReads
  <2>1. PICK file \in {disk[UiPath], NoFile} \ {Unreadable} :
          IF file = Malformed
          THEN ui' = [ui EXCEPT !.at = "idle"] /\ UNCHANGED <<doc, stale, blind>>
          ELSE /\ ui' = [ui EXCEPT !.at = "write"] /\ doc' = Rebuilt(file)
               /\ stale' = FALSE /\ blind' = (file # disk[UiPath])
    BY <1>7 DEF SaveReads
  <2>2. file \in FileTexts /\ ui.at = "read" /\ UNCHANGED <<disk, host, temp, typo, chosen>>
    BY <1>7, <2>1, UiPathIs DEF SaveReads, Places, FileTexts
  <2>3. CASE file = Malformed
    <3>1. ui' = [at |-> "idle", theme |-> ui.theme, hints |-> ui.hints, catalog |-> ui.catalog, original |-> ui.original]
      BY <1>0, <2>1, <2>3
    <3>2. ui' \in Screens
      BY <1>0, <3>1, ScreenIs
    <3> QED
      BY <1>0, <2>1, <2>2, <2>3, <3>1, <3>2, UiPathIs
  <2>4. CASE file # Malformed
    <3>1. ui' = [at |-> "write", theme |-> ui.theme, hints |-> ui.hints, catalog |-> ui.catalog, original |-> ui.original]
      BY <1>0, <2>1, <2>4
    <3>2. ui' \in Screens
      BY <1>0, <3>1, ScreenIs
    <3>3. doc' = Rebuilt(file) /\ stale' = FALSE /\ blind' = (file # disk[UiPath]) /\ file \notin Broken
      BY <2>1, <2>4 DEF Broken
    <3>4. Rebuilt(file) \in Tomls /\ Rebuilt(file).theme = ui.theme
      BY <1>0, <2>2, <3>3, RebuiltKeeps
    <3>5. UiPath' = UiPath /\ disk'[UiPath'] = disk[UiPath]
      BY <2>2, UiPathIs
    <3>6. Rebuilt(disk[UiPath])' = Rebuilt(disk[UiPath])
      BY <3>1, <3>5 DEF Rebuilt
    <3>7. ~blind' => doc' = Rebuilt(disk[UiPath])' /\ disk'[UiPath'] \notin Broken
      BY <3>3, <3>5, <3>6
    <3>8. blind' \in BOOLEAN /\ stale' \in BOOLEAN
      <4>1. CASE file = disk[UiPath]
        BY ONLY <3>3, <4>1
      <4>2. CASE file # disk[UiPath]
        BY ONLY <3>3, <4>2
      <4> QED
        BY ONLY <4>1, <4>2
    <3>9. FileTypes'
      BY <2>2, <3>2, <3>3, <3>4, <3>8
    <3>10. SaveInv'
      BY <2>2, <3>1, <3>5, <3>7
    <3>11. ThemeInv'
      BY <1>0, <2>2, <3>1, <3>3, <3>4, <1>7 DEF SaveReads
    <3> QED
      BY <3>9, <3>10, <3>11
  <2> QED
    BY <2>3, <2>4
<1>8. ASSUME NEW from \in Saving, NEW to \in Saving, ui.at = from, ui' = [ui EXCEPT !.at = to],
             UNCHANGED <<disk, host, doc, typo, stale, blind, chosen>>, to = "rename" => temp' = doc
      PROVE  ConfigInv'
  <2>1. ui' = [at |-> to, theme |-> ui.theme, hints |-> ui.hints, catalog |-> ui.catalog, original |-> ui.original]
    BY <1>0, <1>8
  <2>2. ui' \in Screens
    BY <1>0, <2>1, ScreenIs
  <2>3. Rebuilt(disk[UiPath])' = Rebuilt(disk[UiPath])
    BY <1>8, <2>1, UiPathIs DEF Rebuilt
  <2> QED
    BY <1>0, <1>8, <2>1, <2>2, <2>3, UiPathIs
<1>9. CASE SaveOpens
  BY <1>8, <1>9 DEF SaveOpens
<1>10. CASE SaveFills
  BY <1>8, <1>10 DEF SaveFills
<1>11. CASE SaveRenames
  <2>1. ui' = [at |-> "idle", theme |-> ui.theme, hints |-> ui.hints, catalog |-> ui.catalog, original |-> ui.original]
    BY <1>0, <1>11 DEF SaveRenames
  <2>2. ui' \in Screens
    BY <1>0, <2>1, ScreenIs
  <2>3. temp \in Tomls /\ ui.at = "rename"
    BY <1>11 DEF SaveRenames
  <2>4. disk' \in [Places -> FileTexts] /\ disk'[UiPath] = temp
    BY <1>11, <2>3, UiPathIs DEF SaveRenames, FileTexts, Places
  <2>5. ~(typo /\ ~stale /\ ~blind) /\ temp \notin Broken
    BY <2>3, TextKinds
  <2>6. typo' = FALSE /\ doc' = Empty /\ stale' = FALSE /\ blind' = FALSE /\ UNCHANGED <<host, chosen>>
    BY <1>11, <2>5 DEF SaveRenames
  <2> QED
    BY <1>0, <2>1, <2>2, <2>3, <2>4, <2>5, <2>6, UiPathIs, WrittenTexts
<1>12. CASE SaveFails
  <2>1. ui' = [at |-> "idle", theme |-> ui.theme, hints |-> ui.hints, catalog |-> ui.catalog, original |-> ui.original]
    BY <1>0, <1>12 DEF SaveFails
  <2>2. ui' \in Screens
    BY <1>0, <2>1, ScreenIs
  <2> QED
    BY <1>0, <1>12, <2>1, <2>2, UiPathIs, WrittenTexts DEF SaveFails
<1>13. CASE Leave
  <2>1. ui' \in Screens /\ ui'.at = "off"
    BY <1>13 DEF Leave, Closed, Screens, Themes, Builtin
  <2> QED
    BY <1>13, <2>1, UiPathIs, WrittenTexts DEF Leave
<1>14. ASSUME NEW place \in Places, NEW file \in Written, UserEdits(place, file) PROVE ConfigInv'
  <2>1. disk' \in [Places -> FileTexts] /\ file \in FileTexts
    BY <1>14, WrittenTexts DEF UserEdits
  <2>2. UNCHANGED <<host, ui, doc, temp, blind, chosen>>
    BY <1>14 DEF UserEdits
  <2>3. CASE place = UiPath
    <3>1. disk'[UiPath] = file /\ typo' = (file \in Broken) /\ stale' = (ui.at \in Saving)
      BY <1>14, <2>3 DEF UserEdits, Saving
    <3>2. ui.at \in Saving => stale'
      BY <3>1
    <3>3. UiPath' = UiPath
      BY <2>2, UiPathIs
    <3>4. typo' \in BOOLEAN /\ stale' \in BOOLEAN
      <4>1. CASE ui.at \in Saving /\ file \in Broken
        BY ONLY <3>1, <4>1
      <4>2. CASE ui.at \in Saving /\ file \notin Broken
        BY ONLY <3>1, <4>2
      <4>3. CASE ui.at \notin Saving /\ file \in Broken
        BY ONLY <3>1, <4>3
      <4>4. CASE ui.at \notin Saving /\ file \notin Broken
        BY ONLY <3>1, <4>4
      <4> QED
        BY ONLY <4>1, <4>2, <4>3, <4>4
    <3>5. typo' <=> disk'[UiPath'] \in Broken
      BY ONLY <3>1, <3>3, Zenon
    <3> QED
      BY <2>1, <2>2, <3>2, <3>4, <3>5
  <2>4. CASE place # UiPath
    <3>1. disk'[UiPath] = disk[UiPath] /\ UNCHANGED <<typo, stale>>
      BY <1>14, <2>4 DEF UserEdits
    <3>2. Rebuilt(disk[UiPath])' = Rebuilt(disk[UiPath])
      BY <2>2, <3>1, UiPathIs DEF Rebuilt
    <3> QED
      BY <2>1, <2>2, <3>1, <3>2, UiPathIs
  <2> QED
    BY <2>3, <2>4
<1>15. CASE UNCHANGED configVars
  BY <1>15, UiPathIs DEF configVars, Rebuilt
<1> QED
  BY <1>1, <1>2, <1>3, <1>4, <1>5, <1>6, <1>7, <1>9, <1>10, <1>11, <1>12, <1>13, <1>14, <1>15 DEF ConfigNext

\* What a save writes starts the daemon as before.
LEMMA SaveStartsAlike ==
  ASSUME ConfigInv, SaveRenames, ~stale, ~blind, disk[UiPath] # NoFile, ui.theme \in Builtin \cup temp.custom,
         NEW i \in Invocations, Start(i) # Failed
  PROVE  Start(i)' = Start(i)
<1> DEFINE file == disk[UiPath]
<1>1. /\ file \in Tomls /\ temp = Rebuilt(file) /\ UNCHANGED host /\ disk' = [disk EXCEPT ![UiPath] = temp]
      /\ disk \in [Places -> FileTexts] /\ ui \in Screens
  <2>1. file \in FileTexts /\ file \notin Broken /\ temp = Rebuilt(file)
    BY UiPathIs DEF SaveRenames, ConfigInv, FileTypes, SaveInv, Saving, Places
  <2> QED
    BY <2>1 DEF SaveRenames, ConfigInv, FileTypes, FileTexts, Broken
<1>2. /\ temp \in Tomls /\ temp.theme = ui.theme /\ temp.text = "toml" /\ temp.level = file.level
      /\ temp.sane = file.sane /\ temp.custom = file.custom /\ file.text = "toml"
  BY <1>1, RebuiltKeeps, TextKinds DEF FileTexts
<1>3. EnumsOk(i) /\ Loads(At(StartPath(i)))
  BY StartFails DEF Start
<1>4. \A place \in Places : (disk[place] # NoFile) <=> (disk'[place] # NoFile)
  BY <1>1, <1>2, TextKinds, UiPathIs DEF Places
<1>5. Existing(i)' = Existing(i) /\ StartPath(i)' = StartPath(i)
  <2>1. Chain(i)' = Chain(i) /\ \A k \in DOMAIN Chain(i) : Chain(i)[k] \in Places
    BY <1>1, ChainNames DEF Chain
  <2>2. Existing(i)' = Existing(i)
    <3> DEFINE there == {k \in DOMAIN Chain(i) : disk[Chain(i)[k]] # NoFile}
               later == {k \in DOMAIN Chain(i) : disk'[Chain(i)[k]] # NoFile}
               First(S) == IF S = {} THEN "none" ELSE Chain(i)[CHOOSE k \in S : \A l \in S : k <= l]
    <3>1. later = there
      BY <1>4, <2>1
    <3>2. Existing(i) = First(there)
      BY DEF Existing
    <3>3. Existing(i)' = First(later)
      BY <2>1 DEF Existing
    <3> HIDE DEF there, later, First
    <3> QED
      BY <3>1, <3>2, <3>3
  <2> QED
    BY <2>2 DEF StartPath
<1>6. StartPath(i) \in Places \cup {"none"}
  BY ExistingIs DEF StartPath, Places
<1>7. CASE StartPath(i) = UiPath
  <2>1. At(StartPath(i)) = file /\ At(StartPath(i))' = temp
    BY <1>1, <1>5, <1>7, UiPathIs DEF At, Places
  <2>2. Valid(file) /\ Valid(temp)
    BY <1>2, <1>3, <2>1 DEF Loads, Valid, Or, Builtin
  <2>3. Loads(temp)
    BY <1>2, <2>2, TextKinds DEF Loads
  <2>4. DaemonValues(i, temp) = DaemonValues(i, file)
    BY <1>2 DEF DaemonValues
  <2>5. Start(i)' = DaemonValues(i, temp) /\ Start(i) = DaemonValues(i, file)
    BY <1>3, <2>1, <2>3 DEF Start
  <2> QED
    BY <2>4, <2>5
<1>8. CASE StartPath(i) # UiPath
  <2>1. At(StartPath(i))' = At(StartPath(i))
    BY <1>1, <1>5, <1>6, <1>8 DEF At
  <2> QED
    BY <2>1 DEF Start
<1> QED
  BY <1>7, <1>8

\* The UI, the user and the daemon's commands share one file, whatever is edited, previewed,
\* saved, cut off and started in whichever order: what check accepts starts, what show tells
\* is used, and a save that could read the file changes nothing but the preferences
\* (ui_prefs.rs, config_cmd.rs).
THEOREM ConfigStaysShared == ConfigSpec => ConfigIsShared
<1>1. ConfigInv => CheckedConfigStarts /\ ShownIsUsed /\ SaveKeepsText /\ PreviewIsNotKept
  BY CheckIsStart, ShowIsStart DEF ConfigInv, SaveInv, ThemeInv, Saving, SaveKeepsText, PreviewIsNotKept
<1>2. ConfigInv /\ [ConfigNext]_configVars =>
        [SaveRenames =>
           \/ stale
           \/ blind
           \/ disk[UiPath] = NoFile
           \/ ui.theme \notin Builtin \cup temp.custom
           \/ \A i \in Invocations : Start(i) # Failed => Start(i)' = Start(i)]_configVars
  BY SaveStartsAlike
<1> QED
  BY <1>1, <1>2, ConfigStart, ConfigStep, PTL DEF ConfigSpec, ConfigIsShared, SaveIsQuiet

=============================================================================
