---------------------------- MODULE StorageFiles ----------------------------
(***************************************************************************)
(* The two places where la-storage keeps data in a file next to SQLite     *)
(* (repos.rs): the monthly archive that old runs are moved to, and the      *)
(* transcript of a session, which spills to a file once it is large.        *)
(* A commit is atomic and is taken to survive a power cut, although the     *)
(* daemon opens the database with synchronous = NORMAL (storage.rs:180),    *)
(* under which the last commits may not; a file write survives only from    *)
(* its fsync on, and a new file only from the fsync of its directory, or    *)
(* from the time the kernel writes that back by itself.                     *)
(*                                                                          *)
(* The transcript has two writers, the output pump and the input path; the  *)
(* writer pool has one connection, which a transaction holds to its end.    *)
(***************************************************************************)
EXTENDS Naturals, Sequences, FiniteSets

CONSTANTS
  Runs,        \* run ids, a set of naturals, numbered by finished_at
  Months,      \* archive files, a set of naturals
  MonthOf,     \* [Runs -> Months]: archive_month_key(scheduled_at)
  BatchSize,   \* ARCHIVE_BATCH_SIZE
  Writers,     \* tasks that append to the transcript
  SpillAt,     \* transcript_spill_bytes, at one byte a chunk
  MaxChunks,   \* bound: appends tried
  MaxCrashes   \* bound: crashes

ASSUME FilesAssumption ==
  /\ MonthOf \in [Runs -> Months] /\ BatchSize \in Nat
  /\ "none" \notin Writers /\ SpillAt \in Nat

VARIABLES
  old,       \* history: runs that became terminal and expired
  runRows,   \* the expired runs still in the table
  pass,      \* archive_older_than_days: [pc, batch, left, month]
  cached,    \* runs in complete frames of each month's file, as the kernel sees it
  durable,   \* those of them that reached the disk
  entry,     \* months whose directory entry reached the disk
  tx,        \* who holds the writer connection: a writer or "none"
  rows,      \* session_chunks of the session
  spilled,   \* transcript_path is set
  bytes,     \* transcript_bytes
  file,      \* the spill file: [lines, tail, synced]
  entered,   \* its directory entry: "none" (no file), "cached" or "disk"
  taken,     \* history: chunks in a spill file that a power cut took with its entry
  app,       \* each writer's append: [pc, chunk]
  sent,      \* appends begun
  acked,     \* history: chunks whose append returned Ok
  crashes

archiveVars == <<old, runRows, pass, cached, durable, entry>>
chunkVars == <<tx, rows, spilled, bytes, file, entered, taken, app, sent, acked>>
filesVars == <<archiveVars, chunkVars, crashes>>

NoPass == [pc |-> "idle", batch |-> {}, left |-> {}, month |-> 0]
NoChunk == [seq |-> 0, data |-> 0]
Idle == [pc |-> "idle", chunk |-> NoChunk]
NoFile == [lines |-> <<>>, tail |-> "ok", synced |-> 0]

FilesInit ==
  /\ old = {} /\ runRows = {} /\ pass = NoPass
  /\ cached = [m \in Months |-> {}] /\ durable = [m \in Months |-> {}] /\ entry = {}
  /\ tx = "none" /\ rows = <<>> /\ spilled = FALSE /\ bytes = 0 /\ file = NoFile
  /\ entered = "none" /\ taken = {} /\ app = [w \in Writers |-> Idle] /\ sent = 0 /\ acked = {} /\ crashes = 0

-----------------------------------------------------------------------------
(* The runs archive *)

\* A run is finished and older than the retention.
RunExpires(r) ==
  /\ r \notin old /\ old' = old \cup {r} /\ runRows' = runRows \cup {r}
  /\ UNCHANGED <<pass, cached, durable, entry>>

\* The BatchSize oldest expired rows.
Batch == {r \in runRows : Cardinality({q \in runRows : q < r}) < BatchSize}

\* Read a batch (the loop's next tick, or the next round of a pass), outside any
\* transaction; stop when there is none.
ReadBatch ==
  /\ pass.pc \in {"idle", "read"}
  /\ pass' = IF Batch = {} THEN NoPass
             ELSE [pc |-> "append", batch |-> Batch, month |-> 0,
                   left |-> {MonthOf[r] : r \in Batch}]
  /\ UNCHANGED <<old, runRows, cached, durable, entry>>

\* append_runs_archive, one month after the other: a frame, written and finished;
\* then fsync of the file; then of the directory.
AppendFrame ==
  /\ pass.pc = "append"
  /\ \E m \in pass.left :
       /\ \A n \in pass.left : m <= n
       /\ cached' = [cached EXCEPT ![m] = @ \cup {r \in pass.batch : MonthOf[r] = m}]
       /\ pass' = [pass EXCEPT !.pc = "file", !.month = m]
  /\ UNCHANGED <<old, runRows, durable, entry>>

SyncFile ==
  /\ pass.pc = "file" /\ pass' = [pass EXCEPT !.pc = "dir"]
  /\ durable' = [durable EXCEPT ![pass.month] = cached[pass.month]]
  /\ UNCHANGED <<old, runRows, cached, entry>>

\* Mutant: the rows are deleted while the last file's entry is not yet synced.
MutSyncDir ==
  /\ pass.pc = "dir"
  /\ pass' = [pass EXCEPT !.left = @ \ {pass.month},
                          !.pc = IF pass.left = {pass.month} THEN "delete" ELSE "append"]
  /\ entry' = IF pass.left = {pass.month} THEN entry ELSE entry \cup {pass.month}
  /\ UNCHANGED <<old, runRows, cached, durable>>

SyncDir ==
  /\ pass.pc = "dir"
  /\ pass' = [pass EXCEPT !.left = @ \ {pass.month},
                          !.pc = IF pass.left = {pass.month} THEN "delete" ELSE "append"]
  /\ entry' = entry \cup {pass.month}
  /\ UNCHANGED <<old, runRows, cached, durable>>

\* One transaction deletes exactly the batch; a full batch asks for another one.
DeleteBatch ==
  /\ pass.pc = "delete" /\ tx = "none"
  /\ runRows' = runRows \ pass.batch
  /\ pass' = IF Cardinality(pass.batch) < BatchSize THEN NoPass ELSE [NoPass EXCEPT !.pc = "read"]
  /\ UNCHANGED <<old, cached, durable, entry>>

\* Any step of a pass may fail: the pass ends, frames stay, the next tick reads again.
PassFails ==
  /\ pass.pc # "idle" /\ pass' = NoPass
  /\ UNCHANGED <<old, runRows, cached, durable, entry>>

ArchiveStep ==
  /\ ReadBatch \/ AppendFrame \/ SyncFile \/ SyncDir \/ DeleteBatch \/ PassFails
     \/ \E r \in Runs : RunExpires(r)
  /\ UNCHANGED <<chunkVars, crashes>>

-----------------------------------------------------------------------------
(* ChunksRepo::append *)

\* read_spill_lines parses every line of the file.
Readable == file.tail \in {"ok", "noeol"}

LastSeq(chunks) == IF chunks = <<>> THEN 0 ELSE chunks[Len(chunks)].seq

\* Chunks are appended in order, so the largest seq is the last one's.
NextSeq == 1 + LastSeq(IF spilled THEN file.lines ELSE rows)

\* begin() waits for the connection; the row tells which way the chunk goes.  With an
\* unreadable spill file the append fails at once, and has no effect.
Begin(w) ==
  /\ tx = "none" /\ app[w].pc = "idle" /\ sent < MaxChunks
  /\ spilled => Readable
  /\ tx' = w /\ sent' = sent + 1
  /\ app' = [app EXCEPT ![w] =
       [pc |-> IF spilled THEN "line" ELSE IF bytes + 1 > SpillAt THEN "spill" ELSE "insert",
        chunk |-> [seq |-> NextSeq, data |-> sent + 1]]]
  /\ UNCHANGED <<rows, spilled, bytes, file, entered, taken, acked>>

\* tx.commit() and Ok.
Commit(w) ==
  /\ bytes' = bytes + 1 /\ acked' = acked \cup {app[w].chunk}
  /\ tx' = "none" /\ app' = [app EXCEPT ![w] = Idle]

Insert(w) ==
  /\ app[w].pc = "insert" /\ rows' = Append(rows, app[w].chunk)
  /\ Commit(w)
  /\ UNCHANGED <<spilled, file, entered, taken, sent>>

\* Both ways to write open the file with create: a file that is not there is new, and
\* nothing syncs its directory.
SpillOpens == entered' = IF entered = "none" THEN "cached" ELSE entered

\* write_spill_file truncates and writes all chunks; append_spill_line adds one.  After
\* a line that lacks its newline the two are one line, which does not parse.
WriteSpill(w) ==
  /\ app[w].pc = "spill"
  /\ file' = [lines |-> Append(rows, app[w].chunk), tail |-> "ok", synced |-> 0]
  /\ SpillOpens /\ app' = [app EXCEPT ![w].pc = "sync"]
  /\ UNCHANGED <<tx, rows, spilled, bytes, taken, sent, acked>>

WriteLine(w) ==
  /\ app[w].pc = "line"
  /\ file' = [file EXCEPT !.lines = Append(@, app[w].chunk),
                          !.tail = IF @ = "ok" THEN "ok" ELSE "broken"]
  /\ SpillOpens /\ app' = [app EXCEPT ![w].pc = "sync"]
  /\ UNCHANGED <<tx, rows, spilled, bytes, taken, sent, acked>>

\* sync_all of the file, and only of the file.
SyncSpill(w) ==
  /\ app[w].pc = "sync" /\ file' = [file EXCEPT !.synced = Len(file.lines)]
  /\ app' = [app EXCEPT ![w].pc = "commit"]
  /\ UNCHANGED <<tx, rows, spilled, bytes, entered, taken, sent, acked>>

\* Only now the rows go and the path is set.
CommitSpill(w) ==
  /\ app[w].pc = "commit"
  /\ rows' = <<>> /\ spilled' = TRUE
  /\ Commit(w)
  /\ UNCHANGED <<file, entered, taken, sent>>

\* A write, a sync, a statement or the commit fails: the transaction is rolled back,
\* what the file has of the chunk stays there.
AppendFails(w) ==
  /\ tx = w /\ tx' = "none" /\ app' = [app EXCEPT ![w] = Idle]
  /\ \/ UNCHANGED <<file, entered>>
     \/ /\ app[w].pc = "line" /\ file.tail = "ok" /\ SpillOpens
        /\ \/ file' = [file EXCEPT !.tail = "broken"]
           \/ file' = [file EXCEPT !.lines = Append(@, app[w].chunk), !.tail = "noeol"]
     \/ /\ app[w].pc = "spill" /\ SpillOpens
        /\ \E n \in 0..Len(rows), t \in {"ok", "broken"} :
             file' = [lines |-> SubSeq(rows, 1, n), tail |-> t, synced |-> 0]
  /\ UNCHANGED <<rows, spilled, bytes, taken, sent, acked>>

\* In its own time the kernel writes the directory back.
WriteBack ==
  /\ entered = "cached" /\ entered' = "disk"
  /\ UNCHANGED <<tx, rows, spilled, bytes, file, taken, app, sent, acked>>

ChunkStep ==
  /\ WriteBack \/ \E w \in Writers :
       Begin(w) \/ Insert(w) \/ WriteSpill(w) \/ WriteLine(w) \/ SyncSpill(w)
       \/ CommitSpill(w) \/ AppendFails(w)
  /\ UNCHANGED <<archiveVars, crashes>>

-----------------------------------------------------------------------------
\* Power cut: of what was not synced, any part may be on the disk, and a spill file
\* whose entry is not may be gone: it then reads as an empty one, and the next append
\* makes a new file.  An aborted pass is a crash too, as far as the files go: the
\* blocking append runs on, the deletion does not.
SpillCut ==
  \/ \E n \in file.synced..Len(file.lines), t \in {"ok", "noeol", "broken"} :
       /\ t # "ok" => file.synced < Len(file.lines)
       /\ file' = [lines |-> SubSeq(file.lines, 1, n), synced |-> n,
                   tail |-> IF file.synced = Len(file.lines) THEN file.tail ELSE t]
       /\ entered' = IF entered = "none" THEN "none" ELSE "disk"
       /\ UNCHANGED taken
  \/ /\ entered = "cached" /\ entered' = "none" /\ file' = NoFile
     /\ taken' = IF spilled THEN taken \cup {file.lines[i] : i \in 1..Len(file.lines)} ELSE taken

Crash ==
  /\ crashes < MaxCrashes /\ crashes' = crashes + 1
  /\ \E kept \in SUBSET Months, extra \in SUBSET Runs :
       LET disk == [m \in Months |-> IF m \in entry \cup kept
                      THEN durable[m] \cup (cached[m] \cap extra) ELSE {}]
       IN durable' = disk /\ cached' = disk /\ entry' = entry \cup kept
  /\ pass' = NoPass /\ UNCHANGED <<old, runRows>>
  /\ SpillCut /\ tx' = "none" /\ app' = [w \in Writers |-> Idle]
  /\ UNCHANGED <<rows, spilled, bytes, sent, acked>>

FilesNext == ArchiveStep \/ ChunkStep \/ Crash

FilesSpec == FilesInit /\ [][FilesNext]_filesVars

-----------------------------------------------------------------------------
(* Properties *)

\* No run is lost on the way to its archive: a row that is gone from the table is in
\* a frame of its month's file that is on the disk, and so is the file's directory
\* entry, wherever a pass failed, was aborted or was cut by a crash.
NoRunLost ==
  \A r \in old \ runRows : r \in durable[MonthOf[r]] /\ MonthOf[r] \in entry

\* The chunks of the transcript; list() returns them if the file parses.
Transcript == IF spilled THEN file.lines ELSE rows

\* A chunk whose append returned Ok stays in the table or in the file, under its
\* number, across the spill, failed appends and power cuts.  One thing takes it all the
\* same: a power cut while the directory entry of the spill file, which the code never
\* syncs, is not on the disk, and that cut takes the whole file.
AckedChunksKept == \A c \in acked \ taken : \E i \in 1..Len(Transcript) : Transcript[i] = c

\* The transcript is in the order of the appends and no number is in it twice, with
\* both writers at work and chunks of failed appends left in the file.
TranscriptInOrder ==
  \A i, j \in 1..Len(Transcript) :
    i < j => Transcript[i].seq < Transcript[j].seq /\ Transcript[i].data < Transcript[j].data

\* What storage has accepted is kept, in order, on its way from table to file.
NothingStoredIsLost == NoRunLost /\ AckedChunksKept /\ TranscriptInOrder

=============================================================================
